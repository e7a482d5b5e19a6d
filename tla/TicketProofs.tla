----------------------------- MODULE TicketProofs -----------------------------
(***************************************************************************)
(* A raise makes one ticket; a ticket is copied only for a node that was   *)
(* given up, once by each redistribution; and an engineer has two tickets, *)
(* or is offered while he has one, only after something has put him in     *)
(* doubt.  Proofs about TicketService for any nodes, engineers, users,     *)
(* redistributions, attempts, closes and crashes.                          *)
(***************************************************************************)
EXTENDS TicketService, FiniteSetTheorems, TLAPS

-----------------------------------------------------------------------------
(* Bags of messages.                                                       *)

LEMMA BagAdd ==
    ASSUME NEW B, IsABag(B), NEW S
    PROVE  /\ IsABag(B (+) SetToBag(S))
           /\ DOMAIN (B (+) SetToBag(S)) = DOMAIN B \cup S
  BY DEF IsABag, SetToBag, (+)

LEMMA BagRemove ==
    ASSUME NEW B, IsABag(B), NEW m
    PROVE  /\ IsABag(B (-) SetToBag({m}))
           /\ DOMAIN (B (-) SetToBag({m})) \subseteq DOMAIN B
           /\ DOMAIN B \ {m} \subseteq DOMAIN (B (-) SetToBag({m}))
<1> DEFINE C == [e \in DOMAIN B |-> IF e \in DOMAIN SetToBag({m})
                                    THEN B[e] - SetToBag({m})[e] ELSE B[e]]
<1>1. B (-) SetToBag({m}) = [e \in {d \in DOMAIN C : C[d] > 0} |-> C[e]]
  BY DEF (-)
<1>2. \A e \in DOMAIN B : B[e] \in Nat /\ B[e] > 0
  BY DEF IsABag
<1>3. \A e \in DOMAIN B : C[e] \in Int /\ (e # m => C[e] = B[e])
  BY <1>2 DEF SetToBag
<1>4. DOMAIN C = DOMAIN B
  OBVIOUS
<1> HIDE DEF C
<1> DEFINE D == {d \in DOMAIN C : C[d] > 0}
<1>5. DOMAIN (B (-) SetToBag({m})) = D
  BY <1>1
<1>6. D \subseteq DOMAIN B /\ DOMAIN B \ {m} \subseteq D
  BY <1>2, <1>3, <1>4
<1>7. \A d \in D : C[d] \in {k \in Nat : k > 0}
  BY <1>3, <1>4
<1> HIDE DEF D
<1>8. [e \in D |-> C[e]] \in [D -> {k \in Nat : k > 0}]
  BY <1>7
<1>9. B (-) SetToBag({m}) = [e \in D |-> C[e]]
  BY <1>1 DEF D
<1> QED BY <1>5, <1>6, <1>8, <1>9 DEF IsABag

LEMMA BagRestrict ==
    ASSUME NEW B, IsABag(B), NEW S, S \subseteq DOMAIN B
    PROVE  /\ IsABag([m \in S |-> B[m]])
           /\ DOMAIN [m \in S |-> B[m]] = S
  BY DEF IsABag

-----------------------------------------------------------------------------
(* What a query returns is what the next step takes it for: a goroutine    *)
(* waits for answers only while it lists something, and finds engineers    *)
(* where it lists engineers.                                               *)

Found == [at : Nodes, row : Row]

UserRecord == [pc : {"menu", "acquire", "engineers", "insert", "folio", "mark",
                     "tickets", "close", "closing"},
               attempt : 0..MaxAttempts, engineer : Engineers \cup {None},
               ticket : Ids \cup {None}, born : SUBSET Ids]

TaskRecord == [pc : {"ready", "tickets", "engineers", "reassign", "done", "cut short"},
               host : Nodes \cup {None}, dead : Nodes \cup {None},
               orphans : SUBSET Row]

UserStage(n) ==
    /\ asked[n] # {} => user[n].pc \in {"engineers", "tickets"}
    /\ user[n].pc = "engineers" => seen[n] \subseteq Engineers
    /\ user[n].pc = "tickets" => seen[n] \subseteq Found
    /\ user[n].pc \in {"insert", "folio", "mark", "close", "closing"} =>
            user[n].engineer \in Engineers
    /\ user[n].pc \in {"folio", "mark", "close", "closing"} => user[n].ticket \in Ids

TaskStage(t) ==
    /\ asked[t] # {} => task[t].pc \in {"tickets", "engineers"}
    /\ task[t].pc = "ready" => task[t].dead = None
    /\ task[t].pc = "tickets" => seen[t] \subseteq Found
    /\ task[t].pc \in {"engineers", "reassign"} => seen[t] \subseteq Engineers
    /\ task[t].pc \in {"tickets", "engineers", "reassign"} =>
            task[t].host \in Nodes /\ task[t].dead \in Nodes

TypeInv ==
    /\ TypeOK
    /\ seen = [p \in Nodes \cup Tasks |-> seen[p]]
    /\ \A n \in Nodes : UserStage(n)
    /\ \A t \in Tasks : TaskStage(t)

LEMMA NewUserType == NewUser \in UserRecord
  BY BoundsAssumption DEF NewUser, UserRecord

LEMMA InitialTypes == Init => TypeInv
<1> SUFFICES ASSUME Init PROVE TypeInv
  OBVIOUS
<1> USE DEF Init, NewUser, NewTask
<1>1. IsABag(commits) /\ DOMAIN commits = {}
  BY DEF EmptyBag, SetToBag, IsABag
<1>5. seen = [p \in Nodes \cup Tasks |-> seen[p]]
  OBVIOUS
<1>2. TypeOK
  <2>1. user \in [Nodes -> UserRecord]
    BY BoundsAssumption DEF UserRecord
  <2>2. task \in [Tasks -> TaskRecord]
    BY DEF TaskRecord
  <2>3. \A p \in Nodes \cup Tasks : seen[p] = {}
    OBVIOUS
  <2>4. 0 \in 0..MaxCrashes /\ 0 \in 0..MaxCloses
    BY BoundsAssumption
  <2>5. asked \in [Nodes \cup Tasks -> SUBSET Nodes]
    OBVIOUS
  <2>6. tickets \in [Nodes -> SUBSET Row] /\ available \in [Engineers -> BOOLEAN]
    OBVIOUS
  <2>7. /\ up \subseteq Nodes /\ inside \subseteq Nodes /\ used \subseteq Ids
        /\ doubtful \subseteq Engineers
    OBVIOUS
  <2>8. crashes \in 0..MaxCrashes /\ closes \in 0..MaxCloses
    BY <2>4
  <2> HIDE DEF Init
  <2> QED BY <1>1, <2>1, <2>2, <2>3, <2>5, <2>6, <2>7, <2>8 DEF TypeOK, UserRecord, TaskRecord
<1>3. \A n \in Nodes : UserStage(n)
  BY DEF UserStage
<1>4. \A t \in Tasks : TaskStage(t)
  BY DEF TaskStage
<1> QED BY <1>2, <1>3, <1>4, <1>5 DEF TypeInv

\* The commit handler keeps rows rows.
LEMMA HandlerTypes ==
    ASSUME TypeOK, NEW k \in Nodes, NEW c \in Operation, CommitHandler(k, c)
    PROVE  /\ tickets' \in [Nodes -> SUBSET Row]
           /\ available' \in [Engineers -> BOOLEAN]
<1>1. c.id \in Ids /\ c.ing \in Engineers
  BY DEF Operation
<1>2. NewRow(c) \in Row
  BY <1>1 DEF NewRow, Row
<1>3. tickets[k] \subseteq Row
  BY DEF TypeOK
<1>4. \A r \in Row : [r EXCEPT !.folio = c.ing] \in Row /\ [r EXCEPT !.estado = "CERRADO"] \in Row
  BY <1>1 DEF Row
<1>5. TicketsAfter(k, c) \subseteq Row
  BY <1>2, <1>3, <1>4 DEF TicketsAfter
<1>6. AvailableAfter(k, c) \in [Engineers -> BOOLEAN]
  <2>1. (c.op = "CLOSE_TICKET") \in BOOLEAN
    OBVIOUS
  <2> QED BY <2>1 DEF AvailableAfter, TypeOK
<1> QED BY <1>5, <1>6 DEF CommitHandler, TypeOK

\* The COMMITs of an operation are messages of that operation.
LEMMA SendTypes ==
    ASSUME TypeOK, NEW k \in Nodes, NEW c \in Operation, SendCommits(k, c)
    PROVE  IsABag(commits') /\ DOMAIN commits' \subseteq [to : Nodes, c : Operation]
<1> DEFINE R == {j \in AlivePeers(k) : Concerns(c, j)}
           S == {To(j, c) : j \in R}
<1>1. commits' = commits (+) SetToBag(S)
  BY DEF SendCommits
<1>2. S \subseteq [to : Nodes, c : Operation]
  <2>1. R \subseteq Nodes
    BY DEF AlivePeers, TypeOK
  <2> QED BY <2>1 DEF To
<1>3. IsABag(commits) /\ DOMAIN commits \subseteq [to : Nodes, c : Operation]
  BY DEF TypeOK
<1> HIDE DEF S
<1>4. IsABag(commits') /\ DOMAIN commits' = DOMAIN commits \cup S
  BY <1>1, <1>3, BagAdd
<1> QED BY <1>2, <1>3, <1>4

LEMMA CommitTypes ==
    ASSUME TypeOK, NEW k \in Nodes, NEW c \in Operation, Commit(k, c)
    PROVE  /\ tickets' \in [Nodes -> SUBSET Row]
           /\ available' \in [Engineers -> BOOLEAN]
           /\ IsABag(commits') /\ DOMAIN commits' \subseteq [to : Nodes, c : Operation]
  BY SendTypes, HandlerTypes DEF Commit

\* The answer of a node is of the kind that was asked for.
LEMMA AnswerTypes ==
    ASSUME TypeOK, NEW p \in Nodes \cup Tasks, NEW k \in Nodes
    PROVE  /\ LocalEngineers(k) \subseteq Engineers
           /\ LocalTickets(k) \subseteq Found
           /\ LocalRows(p, k) \in {LocalEngineers(k), LocalTickets(k)}
           /\ (p \in Nodes /\ user[p].pc = "engineers" => LocalRows(p, k) = LocalEngineers(k))
           /\ (p \in Nodes /\ user[p].pc = "tickets" => LocalRows(p, k) = LocalTickets(k))
           /\ (p \in Tasks /\ task[p].pc = "engineers" => LocalRows(p, k) = LocalEngineers(k))
           /\ (p \in Tasks /\ task[p].pc = "tickets" => LocalRows(p, k) = LocalTickets(k))
<1>1. LocalEngineers(k) \subseteq Engineers
  BY DEF LocalEngineers
<1>2. LocalTickets(k) \subseteq Found
  <2>1. tickets[k] \subseteq Row
    BY DEF TypeOK
  <2>2. {r \in tickets[k] : r.estado = "ABIERTO"} \subseteq Row
    BY <2>1
  <2> QED BY <2>2 DEF LocalTickets, Found
<1>3. p \in Nodes => p \notin Tasks
  BY ActorsAssumption
<1> QED BY <1>1, <1>2, <1>3 DEF LocalRows

\* What one user does touches no other user and no redistribution.
LEMMA OneUser ==
    ASSUME TypeInv, NEW n \in Nodes,
           user' \in [Nodes -> UserRecord],
           asked' \in [Nodes \cup Tasks -> SUBSET Nodes],
           \A p \in Nodes \cup Tasks : p # n => asked'[p] = asked[p] /\ seen'[p] = seen[p],
           \A m \in Nodes : m # n => user'[m] = user[m],
           seen' = [p \in Nodes \cup Tasks |-> seen'[p]],
           seen'[n] \subseteq Engineers \/ seen'[n] \subseteq Found,
           UserStage(n)',
           UNCHANGED <<task, nodeVars>>,
           tickets' \in [Nodes -> SUBSET Row], available' \in [Engineers -> BOOLEAN],
           IsABag(commits'), DOMAIN commits' \subseteq [to : Nodes, c : Operation],
           doubtful' \subseteq Engineers,
           inside' \subseteq Nodes, used' \subseteq Ids, closes' \in 0..MaxCloses
    PROVE  TypeInv'
<1>1. up' = up /\ crashes' = crashes /\ task' = task
  BY DEF nodeVars
<1>2. \A p \in Nodes \cup Tasks : seen'[p] \subseteq Engineers \/ seen'[p] \subseteq Found
  BY DEF TypeInv, TypeOK, Found
<1>3. TypeOK'
  BY <1>1, <1>2 DEF TypeInv, TypeOK, UserRecord, Found
<1>4. ASSUME NEW m \in Nodes PROVE UserStage(m)'
  BY DEF TypeInv, UserStage
<1>5. ASSUME NEW t \in Tasks PROVE TaskStage(t)'
  <2>1. t # n
    BY ActorsAssumption
  <2> QED BY <1>1, <2>1 DEF TypeInv, TaskStage
<1> QED BY <1>3, <1>4, <1>5 DEF TypeInv

LEMMA RaiseTypes ==
    ASSUME TypeInv, doubtful' \subseteq Engineers, NEW n \in Nodes,
           Raise(n) \/ AcquireFails(n) \/ InsertFails(n) \/ FolioFails(n) \/ MarkFails(n)
    PROVE  TypeInv'
<1> USE DEF userVars, tableVars, listVars, nodeVars, UserRecord
<1>0. /\ user \in [Nodes -> UserRecord] /\ user[n] \in UserRecord
      /\ asked \in [Nodes \cup Tasks -> SUBSET Nodes]
      /\ seen[n] \subseteq Engineers \/ seen[n] \subseteq Found
      /\ seen = [p \in Nodes \cup Tasks |-> seen[p]]
      /\ UserStage(n)
      /\ tickets \in [Nodes -> SUBSET Row] /\ available \in [Engineers -> BOOLEAN]
      /\ IsABag(commits) /\ DOMAIN commits \subseteq [to : Nodes, c : Operation]
      /\ inside \subseteq Nodes /\ used \subseteq Ids /\ closes \in 0..MaxCloses
      /\ up \subseteq Nodes
  BY DEF TypeInv, TypeOK, Found
<1>a. 1 \in 0..MaxAttempts /\ 0 \in 0..MaxAttempts
  BY BoundsAssumption
<1>b. ASSUME NEW k \in 0..MaxAttempts, k < MaxAttempts PROVE k + 1 \in 0..MaxAttempts
  BY <1>b, BoundsAssumption
<1>c. ASSUME AttemptFails(n)
      PROVE  /\ user' \in [Nodes -> UserRecord] /\ user'[n].pc \in {"acquire", "menu"}
             /\ \A m \in Nodes : m # n => user'[m] = user[m]
             /\ inside' \subseteq Nodes
  <2>1. CASE user[n].attempt < MaxAttempts
    <3>1. user' = [user EXCEPT ![n].pc = "acquire", ![n].attempt = @ + 1]
      BY <1>c, <2>1, <1>0, BoundsAssumption DEF AttemptFails
    <3>2. user[n].attempt \in 0..MaxAttempts
      BY <1>0
    <3>3. user[n].attempt + 1 \in 0..MaxAttempts
      BY <1>b, <2>1, <3>2
    <3> QED BY <1>0, <1>c, <3>1, <3>3 DEF AttemptFails
  <2>2. CASE ~(user[n].attempt < MaxAttempts)
    <3>1. user' = [user EXCEPT ![n] = NewUser]
      BY <1>c, <2>2 DEF AttemptFails
    <3> QED BY <1>0, <1>c, <3>1, NewUserType DEF AttemptFails, NewUser
  <2> QED BY <2>1, <2>2
<1>1. CASE RaiseTicket(n)
  <2>1. user' \in [Nodes -> UserRecord] /\ user'[n].pc = "acquire"
    BY <1>1, <1>0, <1>a DEF RaiseTicket
  <2>2. UserStage(n)'
    BY <1>1, <1>0, <2>1 DEF RaiseTicket, UserStage
  <2> QED BY <1>1, <1>0, <2>1, <2>2, OneUser, SMTT(30) DEF RaiseTicket
<1>2. CASE Acquire(n)
  <2>1. /\ user' \in [Nodes -> UserRecord] /\ user'[n].pc = "engineers"
        /\ \A m \in Nodes : m # n => user'[m] = user[m]
    BY <1>2, <1>0 DEF Acquire
  <2>2. /\ asked' \in [Nodes \cup Tasks -> SUBSET Nodes] /\ seen'[n] = {}
        /\ \A p \in Nodes \cup Tasks : p # n => asked'[p] = asked[p] /\ seen'[p] = seen[p]
        /\ seen' = [p \in Nodes \cup Tasks |-> seen'[p]]
    BY <1>2, <1>0 DEF Acquire, Ask, TypeInv, TypeOK
  <2>3. UserStage(n)'
    BY <2>1, <2>2 DEF UserStage
  <2>4. inside' = {n} /\ UNCHANGED <<task, nodeVars, tickets, available, commits, used, closes>>
    BY <1>2 DEF Acquire, tableVars
  <2> QED BY <1>0, <2>1, <2>2, <2>3, <2>4, OneUser
<1>3. CASE \E e \in Engineers : Choose(n, e)
  <2> PICK e \in Engineers : Choose(n, e)
    BY <1>3
  <2>1. /\ user' \in [Nodes -> UserRecord] /\ user'[n].pc = "insert" /\ user'[n].engineer = e
        /\ \A m \in Nodes : m # n => user'[m] = user[m]
    BY <1>0 DEF Choose
  <2>2. /\ asked' = asked /\ seen'[n] = {}
        /\ \A p \in Nodes \cup Tasks : p # n => seen'[p] = seen[p]
        /\ seen' = [p \in Nodes \cup Tasks |-> seen'[p]]
    BY <1>0 DEF Choose, Forget
  <2>3. UserStage(n)'
    BY <1>0, <2>1, <2>2 DEF Choose, UserStage
  <2> QED BY <1>0, <2>1, <2>2, <2>3, OneUser DEF Choose
<1>4. CASE NoEngineer(n) \/ AcquireFails(n) \/ InsertFails(n)
  <2>1. AttemptFails(n) /\ UNCHANGED <<task, tableVars, listVars, nodeVars, used, closes>>
    BY <1>4 DEF NoEngineer, AcquireFails, InsertFails
  <2>2. asked[n] = {}
    BY <1>4, <1>0 DEF NoEngineer, AcquireFails, InsertFails, UserStage
  <2>3. UserStage(n)'
    BY <1>c, <2>1, <2>2 DEF UserStage
  <2> QED BY <1>0, <1>c, <2>1, <2>3, OneUser
<1>5. CASE \E id \in Ids : InsertTicket(n, id)
  <2> PICK id \in Ids : InsertTicket(n, id)
    BY <1>5
  <2>1. Op("INSERT_TICKET", id, user[n].engineer, n) \in Operation
    BY <1>0 DEF InsertTicket, UserStage, Op, Operation
  <2>2. /\ tickets' \in [Nodes -> SUBSET Row] /\ available' \in [Engineers -> BOOLEAN]
        /\ IsABag(commits') /\ DOMAIN commits' \subseteq [to : Nodes, c : Operation]
    BY <2>1, CommitTypes DEF InsertTicket, TypeInv
  <2>3. /\ user' \in [Nodes -> UserRecord] /\ user'[n].pc = "folio"
        /\ user'[n].ticket = id /\ user'[n].engineer = user[n].engineer
        /\ \A m \in Nodes : m # n => user'[m] = user[m]
    <3> DEFINE u == [user[n] EXCEPT !.ticket = id, !.born = @ \cup {id}, !.pc = "folio"]
    <3>1. user[n] \in UserRecord /\ id \in Ids
      BY <1>0 DEF InsertTicket
    <3>2. u \in UserRecord
      <4>1. user[n].born \cup {id} \in SUBSET Ids
        BY <3>1 DEF UserRecord
      <4> QED BY <3>1, <4>1 DEF UserRecord
    <3>3. u.pc = "folio" /\ u.ticket = id /\ u.engineer = user[n].engineer
      BY <3>1 DEF UserRecord
    <3>4. user' = [user EXCEPT ![n].ticket = id, ![n].born = @ \cup {id}, ![n].pc = "folio"]
      BY DEF InsertTicket
    <3>5. \A m \in Nodes : user'[m] = IF m = n THEN u ELSE user[m]
      BY <1>0, <3>4
    <3>6. user' = [m \in Nodes |-> user'[m]]
      BY <1>0, <3>4
    <3> HIDE DEF u
    <3> QED BY <1>0, <3>2, <3>3, <3>5, <3>6
  <2>4. UserStage(n)'
    BY <1>0, <2>3 DEF InsertTicket, UserStage
  <2>5. /\ asked' = asked /\ seen' = seen /\ used' \subseteq Ids
        /\ UNCHANGED <<task, nodeVars, inside, closes>>
    BY <1>0 DEF InsertTicket, listVars
  <2> QED BY <1>0, <2>2, <2>3, <2>4, <2>5, OneUser
<1>6. CASE UpdateFolio(n) \/ FolioFails(n)
  <2>1. /\ user' \in [Nodes -> UserRecord] /\ user'[n].pc = "mark"
        /\ user'[n].ticket = user[n].ticket /\ user'[n].engineer = user[n].engineer
        /\ \A m \in Nodes : m # n => user'[m] = user[m]
    <3>1. user' = [user EXCEPT ![n].pc = "mark"]
      BY <1>6 DEF UpdateFolio, FolioFails
    <3> QED BY <1>0, <3>1 DEF UserRecord
  <2>2. UserStage(n)'
    BY <1>6, <1>0, <2>1 DEF UpdateFolio, FolioFails, UserStage
  <2>3. Op("UPDATE_TICKET_FOLIO", user[n].ticket, user[n].engineer, None) \in Operation
    BY <1>6, <1>0 DEF UpdateFolio, FolioFails, UserStage, Op, Operation
  <2>4. /\ tickets' \in [Nodes -> SUBSET Row] /\ available' \in [Engineers -> BOOLEAN]
        /\ IsABag(commits') /\ DOMAIN commits' \subseteq [to : Nodes, c : Operation]
    BY <1>6, <1>0, <2>3, CommitTypes DEF UpdateFolio, FolioFails, TypeInv
  <2> QED BY <1>6, <1>0, <2>1, <2>2, <2>4, OneUser DEF UpdateFolio, FolioFails
<1>7. CASE MarkEngineer(n) \/ MarkFails(n)
  <2>1. user[n].pc = "mark" /\ Return(n)
    BY <1>7 DEF MarkEngineer, MarkFails
  <2>2. /\ user' \in [Nodes -> UserRecord] /\ user'[n].pc = "menu"
        /\ \A m \in Nodes : m # n => user'[m] = user[m]
        /\ inside' \subseteq Nodes
    <3>1. user' = [user EXCEPT ![n] = NewUser]
      BY <2>1 DEF Return
    <3> QED BY <1>0, <2>1, <3>1, NewUserType DEF Return, NewUser
  <2>3. UserStage(n)'
    BY <1>0, <2>1, <2>2 DEF Return, UserStage
  <2>4. Op("UPDATE_INGENIERO_DISPONIBLE", user[n].ticket, user[n].engineer, None) \in Operation
    BY <1>0, <2>1 DEF UserStage, Op, Operation
  <2>5. /\ tickets' \in [Nodes -> SUBSET Row] /\ available' \in [Engineers -> BOOLEAN]
        /\ IsABag(commits') /\ DOMAIN commits' \subseteq [to : Nodes, c : Operation]
    BY <1>7, <1>0, <2>4, CommitTypes DEF MarkEngineer, MarkFails, TypeInv
  <2>6. UNCHANGED <<task, nodeVars, asked, seen, used, closes>>
    BY <2>1 DEF Return, listVars
  <2> QED BY <1>0, <2>2, <2>3, <2>5, <2>6, OneUser
<1> QED BY <1>1, <1>2, <1>3, <1>4, <1>5, <1>6, <1>7 DEF Raise

LEMMA CloseTypes ==
    ASSUME TypeInv, doubtful' \subseteq Engineers, NEW n \in Nodes, Close(n) \/ CloseFails(n)
    PROVE  TypeInv'
<1> USE DEF userVars, tableVars, listVars, nodeVars, UserRecord
<1>0. /\ user \in [Nodes -> UserRecord] /\ user[n] \in UserRecord
      /\ asked \in [Nodes \cup Tasks -> SUBSET Nodes]
      /\ seen[n] \subseteq Engineers \/ seen[n] \subseteq Found
      /\ seen = [p \in Nodes \cup Tasks |-> seen[p]]
      /\ UserStage(n)
      /\ tickets \in [Nodes -> SUBSET Row] /\ available \in [Engineers -> BOOLEAN]
      /\ IsABag(commits) /\ DOMAIN commits \subseteq [to : Nodes, c : Operation]
      /\ inside \subseteq Nodes /\ used \subseteq Ids /\ closes \in 0..MaxCloses
      /\ up \subseteq Nodes
  BY DEF TypeInv, TypeOK, Found
<1>1. CASE ListOpen(n)
  <2>1. /\ user' \in [Nodes -> UserRecord] /\ user'[n].pc = "tickets"
        /\ \A m \in Nodes : m # n => user'[m] = user[m]
    BY <1>1, <1>0 DEF ListOpen
  <2>2. /\ asked' \in [Nodes \cup Tasks -> SUBSET Nodes] /\ seen'[n] = {}
        /\ \A p \in Nodes \cup Tasks : p # n => asked'[p] = asked[p] /\ seen'[p] = seen[p]
        /\ seen' = [p \in Nodes \cup Tasks |-> seen'[p]]
    BY <1>1, <1>0 DEF ListOpen, Ask
  <2>3. UserStage(n)'
    BY <2>1, <2>2 DEF UserStage
  <2> QED BY <1>1, <1>0, <2>1, <2>2, <2>3, OneUser DEF ListOpen
<1>2. CASE \E s \in seen[n] : user[n].pc = "tickets" /\ Select(n, s)
  <2> PICK s \in seen[n] : user[n].pc = "tickets" /\ Select(n, s)
    BY <1>2
  <2>1. s.row.id \in Ids /\ s.row.ing \in Engineers
    BY <1>0 DEF UserStage, Found, Row
  <2>2. /\ user' \in [Nodes -> UserRecord] /\ user'[n].pc = "close"
        /\ user'[n].ticket \in Ids /\ user'[n].engineer \in Engineers
        /\ \A m \in Nodes : m # n => user'[m] = user[m]
    BY <1>0, <2>1 DEF Select
  <2>3. closes' \in 0..MaxCloses
    BY <1>0, BoundsAssumption DEF Select
  <2>5. /\ asked' = asked /\ seen'[n] = {}
        /\ \A p \in Nodes \cup Tasks : p # n => seen'[p] = seen[p]
        /\ seen' = [p \in Nodes \cup Tasks |-> seen'[p]]
    BY <1>0 DEF Select, Forget
  <2>4. UserStage(n)'
    BY <1>0, <2>2, <2>5 DEF Select, UserStage
  <2>6. UNCHANGED <<task, nodeVars, tickets, available, commits, inside, used>>
    BY DEF Select, tableVars
  <2> QED BY <1>0, <2>2, <2>3, <2>4, <2>5, <2>6, OneUser
<1>o. ASSUME user[n].pc \in {"close", "closing"} PROVE CloseOf(n) \in Operation
  BY <1>0, <1>o DEF UserStage, CloseOf, Op, Operation
<1>3. CASE CloseTicket(n)
  <2>1. /\ user' \in [Nodes -> UserRecord] /\ user'[n] = [user[n] EXCEPT !.pc = "closing"]
        /\ \A m \in Nodes : m # n => user'[m] = user[m]
    BY <1>3, <1>0 DEF CloseTicket
  <2>2. /\ user'[n].pc = "closing"
        /\ user'[n].ticket = user[n].ticket /\ user'[n].engineer = user[n].engineer
    BY <1>0, <2>1
  <2>3. /\ UNCHANGED <<task, available, tickets, listVars, nodeVars, inside, used, closes>>
        /\ user[n].pc = "close" /\ SendCommits(n, CloseOf(n))
    BY <1>3 DEF CloseTicket
  <2>4. UserStage(n)'
    BY <1>0, <2>2, <2>3 DEF UserStage
  <2>5. IsABag(commits') /\ DOMAIN commits' \subseteq [to : Nodes, c : Operation]
    BY <2>3, <1>o, SendTypes DEF TypeInv
  <2> QED BY <1>0, <2>1, <2>3, <2>4, <2>5, OneUser
<1>4. CASE NothingOpen(n) \/ ApplyClose(n) \/ CloseFails(n)
  <2>1. /\ user' \in [Nodes -> UserRecord] /\ user'[n].pc = "menu"
        /\ \A m \in Nodes : m # n => user'[m] = user[m]
    <3>1. user' = [user EXCEPT ![n] = NewUser]
      BY <1>4 DEF NothingOpen, ApplyClose, CloseFails
    <3> QED BY <3>1, <1>0, NewUserType DEF NewUser
  <2>2. /\ asked[n] = {} /\ commits' = commits
        /\ UNCHANGED <<task, listVars, nodeVars, inside, used, closes>>
    BY <1>4, <1>0 DEF NothingOpen, ApplyClose, CloseFails, UserStage
  <2>3. UserStage(n)'
    BY <2>1, <2>2 DEF UserStage
  <2>4. tickets' \in [Nodes -> SUBSET Row] /\ available' \in [Engineers -> BOOLEAN]
    <3>1. CASE ApplyClose(n)
      BY <3>1, <1>o, HandlerTypes DEF ApplyClose, TypeInv
    <3>2. CASE NothingOpen(n) \/ CloseFails(n)
      BY <3>2, <1>0 DEF NothingOpen, CloseFails
    <3> QED BY <3>1, <3>2, <1>4
  <2> QED BY <1>0, <2>1, <2>2, <2>3, <2>4, OneUser
<1> QED BY <1>1, <1>2, <1>3, <1>4 DEF Close

\* What one redistribution does touches no user and no other redistribution.
LEMMA OneTask ==
    ASSUME TypeInv, NEW t \in Tasks,
           task' \in [Tasks -> TaskRecord],
           asked' \in [Nodes \cup Tasks -> SUBSET Nodes],
           \A p \in Nodes \cup Tasks : p # t => asked'[p] = asked[p] /\ seen'[p] = seen[p],
           \A s \in Tasks : s # t => task'[s] = task[s],
           seen' = [p \in Nodes \cup Tasks |-> seen'[p]],
           seen'[t] \subseteq Engineers \/ seen'[t] \subseteq Found,
           TaskStage(t)',
           UNCHANGED <<userVars, nodeVars, inside>>,
           tickets' \in [Nodes -> SUBSET Row], available' \in [Engineers -> BOOLEAN],
           IsABag(commits'), DOMAIN commits' \subseteq [to : Nodes, c : Operation],
           doubtful' \subseteq Engineers
    PROVE  TypeInv'
<1>1. /\ up' = up /\ crashes' = crashes /\ inside' = inside
      /\ user' = user /\ used' = used /\ closes' = closes
  BY DEF nodeVars, userVars
<1>2. \A p \in Nodes \cup Tasks : seen'[p] \subseteq Engineers \/ seen'[p] \subseteq Found
  BY DEF TypeInv, TypeOK, Found
<1>3. TypeOK'
  BY <1>1, <1>2 DEF TypeInv, TypeOK, TaskRecord, Found
<1>4. ASSUME NEW n \in Nodes PROVE UserStage(n)'
  <2>1. t # n
    BY ActorsAssumption
  <2> QED BY <1>1, <2>1 DEF TypeInv, UserStage
<1>5. ASSUME NEW s \in Tasks PROVE TaskStage(s)'
  BY DEF TypeInv, TaskStage
<1> QED BY <1>3, <1>4, <1>5 DEF TypeInv

LEMMA RedistributionTypes ==
    ASSUME TypeInv, doubtful' \subseteq Engineers, NEW t \in Tasks, Redistribution(t)
    PROVE  TypeInv'
<1> USE DEF userVars, tableVars, listVars, nodeVars, TaskRecord
<1>0. /\ task \in [Tasks -> TaskRecord] /\ task[t] \in TaskRecord
      /\ asked \in [Nodes \cup Tasks -> SUBSET Nodes]
      /\ seen[t] \subseteq Engineers \/ seen[t] \subseteq Found
      /\ seen = [p \in Nodes \cup Tasks |-> seen[p]]
      /\ TaskStage(t)
      /\ tickets \in [Nodes -> SUBSET Row] /\ available \in [Engineers -> BOOLEAN]
      /\ IsABag(commits) /\ DOMAIN commits \subseteq [to : Nodes, c : Operation]
      /\ up \subseteq Nodes
  BY DEF TypeInv, TypeOK, Found
<1>a. ASSUME Ask(t)
      PROVE  /\ asked' \in [Nodes \cup Tasks -> SUBSET Nodes] /\ seen'[t] = {}
             /\ \A p \in Nodes \cup Tasks : p # t => asked'[p] = asked[p] /\ seen'[p] = seen[p]
             /\ seen' = [p \in Nodes \cup Tasks |-> seen'[p]]
  BY <1>0, <1>a DEF Ask
<1>1. CASE \E n, d \in Nodes : RedistributeTickets(t, n, d)
  <2> PICK n, d \in Nodes : RedistributeTickets(t, n, d)
    BY <1>1
  <2>1. /\ task' \in [Tasks -> TaskRecord] /\ task'[t].pc = "tickets"
        /\ task'[t].host = n /\ task'[t].dead = d
        /\ \A s \in Tasks : s # t => task'[s] = task[s]
    BY <1>0 DEF RedistributeTickets
  <2>2. Ask(t) /\ UNCHANGED <<userVars, tableVars, nodeVars, inside>>
    BY DEF RedistributeTickets
  <2>3. TaskStage(t)'
    BY <1>a, <2>1, <2>2 DEF TaskStage
  <2> QED BY <1>0, <1>a, <2>1, <2>2, <2>3, OneTask
<1>2. CASE FindOrphans(t)
  <2> DEFINE found == {s.row : s \in {s \in seen[t] : s.at = task[t].dead}}
  <2>1. found \subseteq Row
    <3>1. seen[t] \subseteq [at : Nodes, row : Row]
      BY <1>2, <1>0 DEF FindOrphans, TaskStage, Found
    <3> QED BY <3>1
  <2>2. /\ task[t].pc = "tickets" /\ asked[t] = {}
        /\ UNCHANGED <<userVars, tableVars, nodeVars, inside>>
        /\ \/ task' = [task EXCEPT ![t].pc = "done"] /\ UNCHANGED listVars
           \/ /\ task' = [task EXCEPT ![t].pc = "engineers", ![t].orphans = found]
              /\ Ask(t)
    BY <1>2 DEF FindOrphans
  <2> HIDE DEF found
  <2>3. CASE task' = [task EXCEPT ![t].pc = "done"] /\ UNCHANGED listVars
    <3>1. /\ task' \in [Tasks -> TaskRecord] /\ task'[t].pc = "done"
          /\ \A s \in Tasks : s # t => task'[s] = task[s]
      BY <1>0, <2>3
    <3>2. TaskStage(t)'
      BY <1>0, <2>2, <2>3, <3>1 DEF TaskStage
    <3> QED BY <1>0, <2>2, <2>3, <3>1, <3>2, OneTask, ZenonT(30)
  <2>4. CASE task' = [task EXCEPT ![t].pc = "engineers", ![t].orphans = found] /\ Ask(t)
    <3>1. /\ task' \in [Tasks -> TaskRecord] /\ task'[t].pc = "engineers"
          /\ task'[t].host = task[t].host /\ task'[t].dead = task[t].dead
          /\ \A s \in Tasks : s # t => task'[s] = task[s]
      BY <1>0, <2>1, <2>4
    <3>2. TaskStage(t)'
      BY <1>0, <1>a, <2>2, <2>4, <3>1 DEF TaskStage
    <3> QED BY <1>0, <1>a, <2>2, <2>4, <3>1, <3>2, OneTask
  <2> QED BY <2>2, <2>3, <2>4
<1>3. CASE FindEngineers(t) \/ EndRedistribution(t)
  <2>1. /\ task' \in [Tasks -> TaskRecord] /\ task'[t].pc \in {"reassign", "done"}
        /\ task'[t].host = task[t].host /\ task'[t].dead = task[t].dead
        /\ \A s \in Tasks : s # t => task'[s] = task[s]
    <3>1. \E l \in {"reassign", "done"} : task' = [task EXCEPT ![t].pc = l]
      BY <1>3 DEF FindEngineers, EndRedistribution
    <3>2. PICK l \in {"reassign", "done"} : task' = [task EXCEPT ![t].pc = l]
      BY <3>1
    <3>3. [task[t] EXCEPT !.pc = l] \in TaskRecord
      BY <1>0
    <3>4. task'[t] = [task[t] EXCEPT !.pc = l]
      BY <1>0, <3>2
    <3>5. task' \in [Tasks -> TaskRecord] /\ \A s \in Tasks : s # t => task'[s] = task[s]
      BY <1>0, <3>2, <3>3
    <3> QED BY <1>0, <3>4, <3>5
  <2>2. /\ task[t].pc \in {"engineers", "reassign"} /\ asked' = asked
        /\ seen'[t] \subseteq seen[t]
        /\ \A p \in Nodes \cup Tasks : p # t => seen'[p] = seen[p]
        /\ seen' = [p \in Nodes \cup Tasks |-> seen'[p]]
        /\ UNCHANGED <<userVars, tableVars, nodeVars, inside>>
    <3>1. CASE FindEngineers(t)
      <4> DEFINE free == {e \in seen[t] : Sucursal[e] # task[t].dead}
      <4>1. task[t].pc = "engineers" /\ seen' = [seen EXCEPT ![t] = free]
        BY <3>1 DEF FindEngineers
      <4>2. free \subseteq seen[t]
        OBVIOUS
      <4>3. asked' = asked /\ UNCHANGED <<userVars, tableVars, nodeVars, inside>>
        BY <3>1 DEF FindEngineers
      <4> HIDE DEF free
      <4> QED BY <1>0, <4>1, <4>2, <4>3
    <3>2. CASE EndRedistribution(t)
      BY <1>0, <3>2 DEF EndRedistribution
    <3> QED BY <1>3, <3>1, <3>2
  <2>3. seen'[t] \subseteq Engineers
    BY <1>0, <2>2 DEF TaskStage
  <2>4. asked[t] = {}
    BY <1>0, <1>3 DEF FindEngineers, EndRedistribution, TaskStage
  <2>5. TaskStage(t)'
    BY <1>0, <2>1, <2>2, <2>3, <2>4 DEF TaskStage
  <2> QED BY <1>0, <2>1, <2>2, <2>3, <2>5, OneTask
<1>4. ASSUME NEW r \in task[t].orphans, NEW e \in Engineers, Reassign(t, r, e) \/ ReassignFails(t, r, e)
      PROVE  TypeInv'
  <2>0. NextOrphan(t, r, e)
    BY <1>4 DEF Reassign, ReassignFails
  <2>1. /\ task' \in [Tasks -> TaskRecord] /\ task'[t].pc = "reassign"
        /\ task'[t].host = task[t].host /\ task'[t].dead = task[t].dead
        /\ \A s \in Tasks : s # t => task'[s] = task[s]
    BY <1>0, <2>0 DEF NextOrphan
  <2>2. /\ task[t].pc = "reassign" /\ asked' = asked
        /\ seen'[t] \subseteq seen[t]
        /\ \A p \in Nodes \cup Tasks : p # t => seen'[p] = seen[p]
        /\ seen' = [p \in Nodes \cup Tasks |-> seen'[p]]
        /\ UNCHANGED <<userVars, nodeVars, inside>>
    BY <1>0, <2>0 DEF NextOrphan
  <2>3. seen'[t] \subseteq Engineers /\ task[t].host \in Nodes
    BY <1>0, <2>2 DEF TaskStage
  <2>4. TaskStage(t)'
    BY <1>0, <2>1, <2>2, <2>3 DEF TaskStage
  <2>5. Op("REASSIGN_TICKET", r.id, e, Sucursal[e]) \in Operation
    <3>1. r \in Row /\ Sucursal[e] \in Nodes
      BY <1>0, SucursalAssumption
    <3> QED BY <3>1 DEF Op, Operation, Row
  <2>6. /\ tickets' \in [Nodes -> SUBSET Row] /\ available' \in [Engineers -> BOOLEAN]
        /\ IsABag(commits') /\ DOMAIN commits' \subseteq [to : Nodes, c : Operation]
    BY <1>4, <1>0, <2>3, <2>5, CommitTypes DEF Reassign, ReassignFails, TypeInv
  <2> QED BY <1>0, <2>1, <2>2, <2>3, <2>4, <2>6, OneTask
<1> QED BY <1>1, <1>2, <1>3, <1>4 DEF Redistribution

LEMMA AnswerStep ==
    ASSUME TypeInv, doubtful' \subseteq Engineers, NEW p \in Nodes \cup Tasks, NEW k \in Nodes, Answer(p, k)
    PROVE  TypeInv'
<1>0. /\ asked \in [Nodes \cup Tasks -> SUBSET Nodes]
      /\ seen = [q \in Nodes \cup Tasks |-> seen[q]]
  BY DEF TypeInv, TypeOK
<1>1. /\ asked[p] # {} /\ asked' = [asked EXCEPT ![p] = @ \ {k}]
      /\ seen' = [seen EXCEPT ![p] = @ \cup LocalRows(p, k)]
      /\ UNCHANGED <<task, userVars, available, tickets, commits, nodeVars, inside>>
  BY DEF Answer
<1>2. /\ asked' \in [Nodes \cup Tasks -> SUBSET Nodes] /\ asked'[p] \subseteq asked[p]
      /\ \A q \in Nodes \cup Tasks : q # p => asked'[q] = asked[q] /\ seen'[q] = seen[q]
      /\ seen' = [q \in Nodes \cup Tasks |-> seen'[q]]
      /\ seen'[p] = seen[p] \cup LocalRows(p, k)
  BY <1>0, <1>1
<1>3. CASE p \in Nodes
  <2>1. UserStage(p) /\ user[p].pc \in {"engineers", "tickets"}
    BY <1>1, <1>3 DEF TypeInv, UserStage
  <2>2. seen'[p] \subseteq Engineers \/ seen'[p] \subseteq Found
    BY <1>2, <1>3, <2>1, AnswerTypes DEF UserStage, TypeInv
  <2>3. UserStage(p)'
    BY <1>1, <1>2, <1>3, <2>1, AnswerTypes DEF UserStage, TypeInv, userVars
  <2> QED BY <1>1, <1>2, <1>3, <2>2, <2>3, OneUser
       DEF TypeInv, TypeOK, UserRecord, userVars, tableVars, nodeVars
<1>4. CASE p \in Tasks
  <2>1. TaskStage(p) /\ task[p].pc \in {"engineers", "tickets"}
    BY <1>1, <1>4 DEF TypeInv, TaskStage
  <2>2. seen'[p] \subseteq Engineers \/ seen'[p] \subseteq Found
    BY <1>2, <1>4, <2>1, AnswerTypes DEF TaskStage, TypeInv
  <2>3. TaskStage(p)'
    BY <1>1, <1>2, <1>4, <2>1, AnswerTypes DEF TaskStage, TypeInv
  <2> QED BY <1>1, <1>2, <1>4, <2>2, <2>3, OneTask
       DEF TypeInv, TypeOK, TaskRecord, userVars, tableVars, nodeVars
<1> QED BY <1>3, <1>4

\* What the network and the nodes do: messages are handled or lost, a query
\* times out, a process stops or starts.
LEMMA NetworkTypes ==
    ASSUME TypeInv, doubtful' \subseteq Engineers,
           \/ \E m \in DOMAIN commits : HandleCommit(m) \/ Lose(m)
           \/ \E p \in Nodes \cup Tasks : QueryTimeout(p)
           \/ \E n \in Nodes : Restart(n)
    PROVE  TypeInv'
<1> USE DEF TypeInv
<1>1. ASSUME NEW m \in DOMAIN commits, HandleCommit(m) \/ Lose(m) PROVE TypeInv'
  <2>1. m \in [to : Nodes, c : Operation] /\ IsABag(commits)
    BY DEF TypeOK
  <2>2. commits' = commits (-) SetToBag({m})
    BY <1>1 DEF HandleCommit, Lose
  <2>3. IsABag(commits') /\ DOMAIN commits' \subseteq DOMAIN commits
    BY <2>1, <2>2, BagRemove
  <2>4. tickets' \in [Nodes -> SUBSET Row] /\ available' \in [Engineers -> BOOLEAN]
    BY <1>1, <2>1, HandlerTypes DEF HandleCommit, Lose, TypeOK
  <2>5. UNCHANGED <<task, userVars, listVars, nodeVars, inside>>
    BY <1>1 DEF HandleCommit, Lose
  <2>6. TypeOK'
    BY <2>3, <2>4, <2>5 DEF TypeOK, userVars, listVars, nodeVars
  <2> QED BY <2>5, <2>6 DEF UserStage, TaskStage, userVars, listVars
<1>2. ASSUME NEW p \in Nodes \cup Tasks, QueryTimeout(p) PROVE TypeInv'
  <2>1. /\ asked' \in [Nodes \cup Tasks -> SUBSET Nodes] /\ \A q \in Nodes \cup Tasks : asked'[q] \subseteq asked[q]
        /\ UNCHANGED <<task, userVars, tableVars, seen, nodeVars, inside>>
    BY <1>2 DEF QueryTimeout, TypeOK
  <2>2. TypeOK'
    BY <2>1 DEF TypeOK, userVars, tableVars, nodeVars
  <2> QED BY <2>1, <2>2 DEF UserStage, TaskStage, userVars
<1>3. ASSUME NEW n \in Nodes, Restart(n) PROVE TypeInv'
  <2>1. up' \subseteq Nodes /\ UNCHANGED <<task, userVars, tableVars, listVars, crashes, inside>>
    BY <1>3 DEF Restart, TypeOK
  <2>2. TypeOK'
    BY <2>1 DEF TypeOK, userVars, tableVars, listVars
  <2> QED BY <2>1, <2>2 DEF UserStage, TaskStage, userVars, listVars
<1> QED BY <1>1, <1>2, <1>3

LEMMA CrashTypes ==
    ASSUME TypeInv, doubtful' \subseteq Engineers, NEW n \in Nodes, Crash(n)
    PROVE  TypeInv'
<1> USE DEF TypeInv, userVars
<1>1. /\ up' \subseteq Nodes /\ crashes' \in 0..MaxCrashes /\ inside' \subseteq Nodes
      /\ UNCHANGED <<used, closes, available, tickets, seen>>
  <2>1. crashes + 1 \in 0..MaxCrashes
    <3>1. crashes \in 0..MaxCrashes /\ MaxCrashes \in Nat
      BY BoundsAssumption DEF TypeOK
    <3>2. crashes < MaxCrashes
      BY DEF Crash
    <3> QED BY <3>1, <3>2
  <2>2. inside \subseteq Nodes /\ inside \ {n} \subseteq Nodes /\ up \ {n} \subseteq Nodes
    BY DEF TypeOK
  <2> QED BY <2>1, <2>2 DEF Crash
<1>2. IsABag(commits') /\ DOMAIN commits' \subseteq DOMAIN commits
  <2> DEFINE S == {m \in DOMAIN commits : m.to # n}
  <2>1. commits' = [m \in S |-> commits[m]] /\ IsABag(commits) /\ S \subseteq DOMAIN commits
    BY DEF Crash, TypeOK
  <2> QED BY <2>1, BagRestrict
<1>3. user' \in [Nodes -> UserRecord] /\ \A m \in Nodes : user'[m] \in {user[m], NewUser}
  <2>1. user \in [Nodes -> UserRecord]
    BY DEF TypeOK, UserRecord
  <2>2. NewUser \in UserRecord
    BY BoundsAssumption DEF NewUser, UserRecord
  <2> QED BY <2>1, <2>2 DEF Crash
<1>4. /\ task' \in [Tasks -> TaskRecord]
      /\ \A t \in Tasks : task'[t] \in {task[t], [task[t] EXCEPT !.pc = "cut short"]}
  <2>1. task \in [Tasks -> TaskRecord]
    BY DEF TypeOK, TaskRecord
  <2>2. \A t \in Tasks : [task[t] EXCEPT !.pc = "cut short"] \in TaskRecord
    BY <2>1 DEF TaskRecord
  <2> QED BY <2>1, <2>2 DEF Crash
<1>5. /\ asked' \in [Nodes \cup Tasks -> SUBSET Nodes]
      /\ \A q \in Nodes \cup Tasks : asked'[q] \subseteq asked[q]
  <2>1. asked \in [Nodes \cup Tasks -> SUBSET Nodes]
    BY DEF TypeOK
  <2>2. asked' = [p \in Nodes \cup Tasks |->
                    IF p = n \/ (p \in Tasks /\ task[p].host = n) THEN {} ELSE asked[p]]
    BY DEF Crash
  <2> QED BY <2>1, <2>2
<1>6. TypeOK'
  BY <1>1, <1>2, <1>3, <1>4, <1>5 DEF TypeOK, UserRecord, TaskRecord
<1>7. ASSUME NEW m \in Nodes PROVE UserStage(m)'
  <2>1. CASE m = n
    <3>1. user'[m] = NewUser /\ asked'[m] = {}
      BY <2>1 DEF Crash, TypeOK
    <3> QED BY <3>1 DEF UserStage, NewUser
  <2>2. CASE m # n
    <3>1. user'[m] = user[m]
      BY <2>2 DEF Crash, TypeOK
    <3> QED BY <1>1, <1>5, <3>1 DEF UserStage
  <2> QED BY <2>1, <2>2
<1>8. ASSUME NEW t \in Tasks PROVE TaskStage(t)'
  <2>1. CASE task[t].host = n
    <3>1. asked'[t] = {} /\ task'[t] = [task[t] EXCEPT !.pc = "cut short"]
      BY <2>1 DEF Crash
    <3>2. task[t] \in TaskRecord
      BY DEF TypeOK, TaskRecord
    <3>3. task'[t].pc = "cut short"
      BY <3>1, <3>2 DEF TaskRecord
    <3> QED BY <3>1, <3>3 DEF TaskStage
  <2>2. CASE task[t].host # n
    <3>1. task'[t] = task[t]
      BY <2>2 DEF Crash
    <3> QED BY <1>1, <1>5, <3>1 DEF TaskStage
  <2> QED BY <2>1, <2>2
<1> QED BY <1>1, <1>6, <1>7, <1>8

\* What is doubted are engineers, and stays in doubt.
LEMMA DoubtfulTypes ==
    ASSUME TypeInv, [Next]_vars
    PROVE  doubtful \subseteq doubtful' /\ doubtful' \subseteq Engineers
<1> USE DEF userVars, tableVars
<1> DEFINE Kept == doubtful \subseteq doubtful' /\ doubtful' \subseteq Engineers
<1>0. doubtful \subseteq Engineers /\ \A M : Undone(M) \subseteq Engineers
  BY DEF TypeInv, TypeOK, Undone
<1>1. ASSUME NEW n, NEW c, SendCommits(n, c) PROVE Kept
  <2>1. Misused(c) \subseteq Engineers
    BY DEF Misused
  <2> QED BY <1>0, <1>1, <2>1 DEF SendCommits
<1>2. ASSUME doubtful' = doubtful PROVE Kept
  BY <1>0, <1>2
<1>3. ASSUME NEW n \in Nodes, Raise(n) PROVE Kept
  BY <1>1, <1>2, <1>3 DEF Raise, RaiseTicket, Acquire, Choose, NoEngineer, InsertTicket,
                          UpdateFolio, MarkEngineer, Commit
<1>4. ASSUME NEW n \in Nodes, Close(n) PROVE Kept
  BY <1>1, <1>2, <1>4 DEF Close, ListOpen, Select, NothingOpen, CloseTicket, ApplyClose
<1>5. ASSUME NEW n \in Nodes, AcquireFails(n) \/ InsertFails(n) \/ FolioFails(n) \/ Restart(n)
      PROVE  Kept
  BY <1>2, <1>5 DEF AcquireFails, InsertFails, FolioFails, Restart
<1>6. ASSUME NEW n \in Nodes, MarkFails(n) PROVE Kept
  <2>1. user[n].engineer \in Engineers
    BY <1>6 DEF MarkFails, TypeInv, UserStage
  <2> QED BY <1>0, <1>6, <2>1 DEF MarkFails
<1>7. ASSUME NEW n \in Nodes, CloseFails(n) PROVE Kept
  BY <1>0, <1>7 DEF CloseFails
<1>8. ASSUME NEW n \in Nodes, Crash(n) PROVE Kept
  <2> DEFINE L == {e \in Engineers : user[n].pc \in {"folio", "mark"} /\ user[n].engineer = e}
  <2>1. doubtful' = doubtful \cup Undone({m \in Underway : m.to = n}) \cup L
    BY <1>8 DEF Crash
  <2>2. L \subseteq Engineers
    OBVIOUS
  <2> HIDE DEF L
  <2> QED BY <1>0, <2>1, <2>2
<1>9. ASSUME NEW p \in Nodes \cup Tasks, NEW k \in Nodes, Answer(p, k)
      PROVE  Kept
  BY <1>0, <1>9 DEF Answer, ReadEarly, LocalEngineers
<1>10. ASSUME NEW m, HandleCommit(m) \/ Lose(m) PROVE Kept
  BY <1>0, <1>10 DEF HandleCommit, Lose
<1>11. ASSUME NEW p, QueryTimeout(p) PROVE Kept
  BY <1>2, <1>11 DEF QueryTimeout
<1>12. ASSUME NEW t \in Tasks, Redistribution(t) PROVE Kept
  BY <1>1, <1>2, <1>12 DEF Redistribution, RedistributeTickets, FindOrphans, FindEngineers,
                           Reassign, ReassignFails, EndRedistribution, Commit
<1>13. CASE UNCHANGED vars
  BY <1>2, <1>13 DEF vars
<1> QED BY <1>3, <1>4, <1>5, <1>6, <1>7, <1>8, <1>9, <1>10, <1>11, <1>12, <1>13
        DEF Next, ReliableNext, ProposalFails

LEMMA TypeStep == TypeInv /\ [Next]_vars => TypeInv'
<1> SUFFICES ASSUME TypeInv, [Next]_vars PROVE TypeInv'
  OBVIOUS
<1>0. doubtful' \subseteq Engineers
  BY DoubtfulTypes
<1>1. CASE UNCHANGED vars
  BY <1>1 DEF TypeInv, TypeOK, UserStage, TaskStage, vars, userVars, tableVars, listVars, nodeVars
<1>2. ASSUME NEW n \in Nodes, Raise(n) \/ Close(n) \/ AcquireFails(n) \/ ProposalFails(n)
      PROVE  TypeInv'
  BY <1>0, <1>2, RaiseTypes, CloseTypes DEF ProposalFails
<1>3. ASSUME NEW n \in Nodes, Crash(n) PROVE TypeInv'
  BY <1>0, <1>3, CrashTypes
<1>4. ASSUME NEW p \in Nodes \cup Tasks, NEW k \in Nodes, Answer(p, k) PROVE TypeInv'
  BY <1>0, <1>4, AnswerStep
<1>5. ASSUME NEW t \in Tasks, Redistribution(t) PROVE TypeInv'
  BY <1>0, <1>5, RedistributionTypes
<1>6. CASE \/ \E m \in DOMAIN commits : HandleCommit(m) \/ Lose(m)
           \/ \E p \in Nodes \cup Tasks : QueryTimeout(p)
           \/ \E n \in Nodes : Restart(n)
  BY <1>0, <1>6, NetworkTypes
<1> QED BY <1>1, <1>2, <1>3, <1>4, <1>5, <1>6 DEF Next, ReliableNext

-----------------------------------------------------------------------------
\* Every variable has values of its kind, whatever crashes, is lost or late: a row
\* or an engineer of an old answer is never taken for one of another query
\* (ListAll, ticket_service.go:358-434).
THEOREM TypeCorrect == Spec => []TypeOK
<1>1. Init => TypeInv
  BY InitialTypes
<1>2. TypeInv /\ [Next]_vars => TypeInv'
  BY TypeStep
<1>3. TypeInv => TypeOK
  BY DEF TypeInv
<1> QED BY <1>1, <1>2, <1>3, PTL DEF Spec

-----------------------------------------------------------------------------
(* A raise makes one ticket: until its INSERT is committed it has made     *)
(* none, and no later failure starts another attempt.                      *)

OneBorn(u) ==
    /\ u.born = {} \/ \E id \in Ids : u.born = {id}
    /\ u.pc \in {"menu", "acquire", "engineers", "insert"} => u.born = {}

BornInv == TypeInv /\ \A n \in Nodes : OneBorn(user[n])

LEMMA RaiseBorn ==
    ASSUME BornInv, NEW n \in Nodes,
           Raise(n) \/ Close(n) \/ AcquireFails(n) \/ ProposalFails(n)
    PROVE  \A m \in Nodes : OneBorn(user'[m])
<1>0. user \in [Nodes -> UserRecord] /\ OneBorn(user[n]) /\ user[n] \in UserRecord
  BY DEF BornInv, TypeInv, TypeOK, UserRecord
<1> SUFFICES OneBorn(user'[n]) /\ \A m \in Nodes : m # n => user'[m] = user[m]
  BY DEF BornInv
<1> USE DEF OneBorn, UserRecord
<1>1. CASE RaiseTicket(n)
  <2>1. user[n].born = {}
    BY <1>1, <1>0 DEF RaiseTicket
  <2> QED BY <1>1, <1>0, <2>1 DEF RaiseTicket
<1>2. CASE Acquire(n)
  BY <1>2, <1>0 DEF Acquire
<1>3. CASE \E e \in Engineers : Choose(n, e)
  BY <1>3, <1>0 DEF Choose
<1>4. CASE NoEngineer(n) \/ AcquireFails(n) \/ InsertFails(n)
  <2>1. AttemptFails(n) /\ user[n].born = {}
    BY <1>4, <1>0 DEF NoEngineer, AcquireFails, InsertFails
  <2>2. CASE user' = [user EXCEPT ![n].pc = "acquire", ![n].attempt = @ + 1]
    BY <1>0, <2>1, <2>2
  <2>3. CASE user' = [user EXCEPT ![n] = NewUser]
    BY <1>0, <2>3 DEF NewUser
  <2> QED BY <2>1, <2>2, <2>3 DEF AttemptFails
<1>5. CASE \E id \in Ids : InsertTicket(n, id)
  <2> PICK id \in Ids : InsertTicket(n, id)
    BY <1>5
  <2>1. user[n].born = {}
    BY <1>0 DEF InsertTicket
  <2>2. user'[n].born = {id} /\ user'[n].pc = "folio" /\ \A m \in Nodes : m # n => user'[m] = user[m]
    BY <1>0, <2>1 DEF InsertTicket
  <2> QED BY <2>2
<1>6. CASE UpdateFolio(n) \/ FolioFails(n)
  BY <1>6, <1>0 DEF UpdateFolio, FolioFails
<1>7. CASE MarkEngineer(n) \/ MarkFails(n) \/ NothingOpen(n) \/ ApplyClose(n) \/ CloseFails(n)
  <2>1. user' = [user EXCEPT ![n] = NewUser]
    BY <1>7 DEF MarkEngineer, MarkFails, Return, NothingOpen, ApplyClose, CloseFails
  <2> QED BY <1>0, <2>1 DEF NewUser
<1>9. CASE ListOpen(n) \/ CloseTicket(n)
  BY <1>9, <1>0 DEF ListOpen, CloseTicket
<1>8. CASE \E s \in seen[n] : user[n].pc = "tickets" /\ Select(n, s)
  BY <1>8, <1>0 DEF Select
<1> QED BY <1>1, <1>2, <1>3, <1>4, <1>5, <1>6, <1>7, <1>8, <1>9 DEF Raise, Close, ProposalFails

LEMMA BornStep == BornInv /\ [Next]_vars => BornInv'
<1> SUFFICES ASSUME BornInv, [Next]_vars PROVE BornInv'
  OBVIOUS
<1> SUFFICES \A m \in Nodes : OneBorn(user'[m])
  BY TypeStep DEF BornInv
<1>0. \A m \in Nodes : OneBorn(user[m])
  BY DEF BornInv
<1>1. ASSUME NEW n \in Nodes, Raise(n) \/ Close(n) \/ AcquireFails(n) \/ ProposalFails(n)
      PROVE  \A m \in Nodes : OneBorn(user'[m])
  BY <1>1, RaiseBorn
<1>2. ASSUME NEW n \in Nodes, Crash(n) PROVE \A m \in Nodes : OneBorn(user'[m])
  <2>1. \A m \in Nodes : user'[m] \in {user[m], NewUser}
    BY <1>2 DEF Crash, BornInv, TypeInv, TypeOK
  <2> QED BY <1>0, <2>1 DEF OneBorn, NewUser
<1>3. ASSUME user' = user PROVE \A m \in Nodes : OneBorn(user'[m])
  BY <1>0, <1>3
<1>4. CASE \/ UNCHANGED vars
           \/ \E p \in Nodes \cup Tasks, k \in Nodes : Answer(p, k)
           \/ \E m \in DOMAIN commits : HandleCommit(m) \/ Lose(m)
           \/ \E p \in Nodes \cup Tasks : QueryTimeout(p)
           \/ \E n \in Nodes : Restart(n)
  <2>1. user' = user
    BY <1>4 DEF vars, userVars, Answer, HandleCommit, Lose, QueryTimeout, Restart
  <2> QED BY <1>3, <2>1
<1>5. ASSUME NEW t \in Tasks, Redistribution(t) PROVE \A m \in Nodes : OneBorn(user'[m])
  <2>1. user' = user
    BY <1>5 DEF Redistribution, userVars, RedistributeTickets, FindOrphans, FindEngineers,
                NextOrphan, Reassign, ReassignFails, EndRedistribution
  <2> QED BY <1>3, <2>1
<1> QED BY <1>1, <1>2, <1>4, <1>5 DEF Next, ReliableNext

\* However often RaiseTicket tries (ticket_service.go:193-215) it makes one ticket:
\* of the three proposals of an attempt only the errors of the first lead to
\* another one, and that one has then inserted nothing.
THEOREM RaisesOnce == Spec => []OneTicketPerRaise
<1>1. Init => BornInv
  BY InitialTypes DEF BornInv, Init, NewUser, OneBorn
<1>2. BornInv /\ [Next]_vars => BornInv'
  BY BornStep
<1>3. BornInv => OneTicketPerRaise
  <2> SUFFICES ASSUME BornInv, NEW n \in Nodes
               PROVE  /\ Cardinality(user[n].born) <= 1
                      /\ user[n].pc \in {"acquire", "engineers", "insert"} => user[n].born = {}
    BY DEF OneTicketPerRaise
  <2>1. OneBorn(user[n])
    BY DEF BornInv
  <2>2. CASE user[n].born = {}
    BY <2>1, <2>2, FS_EmptySet DEF OneBorn
  <2>3. CASE \E id \in Ids : user[n].born = {id}
    <3>1. PICK id \in Ids : user[n].born = {id}
      BY <2>3
    <3>2. Cardinality(user[n].born) = 1
      BY <3>1, FS_Singleton
    <3> QED BY <2>1, <3>1, <3>2 DEF OneBorn
  <2>4. user[n].pc \in {"acquire", "engineers", "insert"} => user[n].born = {}
    BY <2>1 DEF OneBorn
  <2> QED BY <2>1, <2>2, <2>3, <2>4 DEF OneBorn
<1> QED BY <1>1, <1>2, <1>3, PTL DEF Spec

-----------------------------------------------------------------------------
(* Copies.  A redistribution is spent on a ticket when the node it is for  *)
(* has the ticket and it will not reassign it any more.  Every node the    *)
(* ticket has reached or is on its way to, but one, has cost a             *)
(* redistribution.                                                         *)

Adds(c) == c.op \in {"INSERT_TICKET", "REASSIGN_TICKET"}
Reassigns(id) == {m \in DOMAIN commits : m.c.op = "REASSIGN_TICKET" /\ m.c.id = id}
Reached(id) == Holders(id) \cup {m.to : m \in Reassigns(id)}

Able(u, id) == \/ u.pc = "tickets"
               \/ u.pc \in {"engineers", "reassign"} /\ \E r \in u.orphans : r.id = id
Spent(id) == {t \in Tasks : task[t].dead \in Holders(id) /\ ~Able(task[t], id)}

\* Rows of one table differ in their ids, and what is known of an id was drawn.
RowsDiffer == \A n \in Nodes : \A r, q \in tickets[n] : r.id = q.id => r = q
RowsAreUsed == \A n \in Nodes : \A r \in tickets[n] : r.id \in used
\* The row of a raise is at the node that raises; a ticket reassigned was used.
CommitsKnown == \A m \in DOMAIN commits :
    m.c.op # "INSERT_TICKET" /\ (m.c.op = "REASSIGN_TICKET" => m.c.id \in used)

\* The tickets a redistribution finds were each read once, and stay at the node.
ReadOnce(t) ==
    task[t].pc = "tickets" =>
        /\ \A s \in seen[t] : s.at \in Holders(s.row.id) /\ s.at \notin asked[t]
        /\ \A r, q \in seen[t] : r.at = q.at /\ r.row.id = q.row.id => r = q
OrphansDiffer(t) ==
    task[t].pc \in {"engineers", "reassign"} =>
        /\ \A r \in task[t].orphans : task[t].dead \in Holders(r.id)
        /\ \A r, q \in task[t].orphans : r.id = q.id => r = q

CopiesPaid == \A id \in Ids : Cardinality(Reached(id)) <= 1 + Cardinality(Spent(id))

CopyInv ==
    /\ TypeInv
    /\ RowsDiffer /\ RowsAreUsed /\ CommitsKnown
    /\ \A t \in Tasks : ReadOnce(t) /\ OrphansDiffer(t)
    /\ CopiesPaid

\* Counting.
LEMMA CountKept ==
    ASSUME NEW R, NEW S, NEW R1, NEW S1, IsFiniteSet(R), IsFiniteSet(S1),
           R1 \subseteq R, S \subseteq S1, Cardinality(R) <= 1 + Cardinality(S)
    PROVE  Cardinality(R1) <= 1 + Cardinality(S1)
<1>1. Cardinality(R1) <= Cardinality(R) /\ IsFiniteSet(R1)
  BY FS_Subset
<1>2. Cardinality(S) <= Cardinality(S1) /\ IsFiniteSet(S)
  BY FS_Subset
<1>3. /\ Cardinality(R) \in Nat /\ Cardinality(S) \in Nat
      /\ Cardinality(R1) \in Nat /\ Cardinality(S1) \in Nat
  BY <1>1, <1>2, FS_CardinalityType
<1> QED BY <1>1, <1>2, <1>3

LEMMA CountOneMore ==
    ASSUME NEW R, NEW S, NEW R1, NEW S1, IsFiniteSet(R), IsFiniteSet(S1),
           NEW k, NEW t, R1 \subseteq R \cup {k}, S \cup {t} \subseteq S1, t \notin S,
           Cardinality(R) <= 1 + Cardinality(S)
    PROVE  Cardinality(R1) <= 1 + Cardinality(S1)
<1>1. IsFiniteSet(R \cup {k}) /\ Cardinality(R \cup {k}) <= Cardinality(R) + 1
  <2>1. Cardinality(R) \in Nat
    BY FS_CardinalityType
  <2>2. /\ IsFiniteSet(R \cup {k})
        /\ Cardinality(R \cup {k}) = IF k \in R THEN Cardinality(R) ELSE Cardinality(R) + 1
    BY FS_AddElement, Zenon
  <2> QED BY <2>1, <2>2
<1>2. Cardinality(R1) <= Cardinality(R \cup {k}) /\ IsFiniteSet(R1)
  BY <1>1, FS_Subset
<1>3. IsFiniteSet(S)
  BY FS_Subset
<1>4. IsFiniteSet(S \cup {t}) /\ Cardinality(S \cup {t}) = Cardinality(S) + 1
  BY <1>3, FS_AddElement
<1>5. Cardinality(S \cup {t}) <= Cardinality(S1)
  BY FS_Subset
<1>6. /\ Cardinality(R) \in Nat /\ Cardinality(S) \in Nat /\ Cardinality(R \cup {k}) \in Nat
      /\ Cardinality(R1) \in Nat /\ Cardinality(S1) \in Nat
  BY <1>1, <1>2, <1>3, FS_CardinalityType
<1> QED BY <1>1, <1>2, <1>4, <1>5, <1>6

LEMMA FiniteParts ==
    ASSUME TypeOK, NEW id
    PROVE  IsFiniteSet(Reached(id)) /\ IsFiniteSet(Spent(id))
<1>1. Reached(id) \subseteq Nodes /\ Spent(id) \subseteq Tasks
  BY ZenonT(30) DEF Reached, Reassigns, Holders, Spent, TypeOK
<1> QED BY <1>1, ActorsAssumption, FS_Subset

\* What the commit handler makes of a table: no row goes, and one comes at most.
LEMMA RowIds ==
    ASSUME NEW c \in Operation, NEW k \in Nodes, tickets[k] \subseteq Row
    PROVE  /\ \A id : (\E r \in TicketsAfter(k, c) : r.id = id) <=>
                        \/ \E r \in tickets[k] : r.id = id
                        \/ Adds(c) /\ c.suc = k /\ c.id = id
           /\ (\A r, q \in tickets[k] : r.id = q.id => r = q) =>
                (\A r, q \in TicketsAfter(k, c) : r.id = q.id => r = q)
<1> USE DEF Adds
<1> DEFINE T == tickets[k]
<1>1. CASE c.op \in {"INSERT_TICKET", "REASSIGN_TICKET"}
  <2>1. NewRow(c).id = c.id
    BY DEF NewRow
  <2>2. TicketsAfter(k, c) = IF c.suc = k /\ \A r \in T : r.id # c.id
                             THEN T \cup {NewRow(c)} ELSE T
    BY <1>1 DEF TicketsAfter
  <2> QED BY <1>1, <2>1, <2>2
<1>2. CASE c.op = "UPDATE_TICKET_FOLIO"
  <2>1. TicketsAfter(k, c) = {IF r.id = c.id THEN [r EXCEPT !.folio = c.ing] ELSE r : r \in T}
    BY <1>2 DEF TicketsAfter
  <2>2. \A r \in T : [r EXCEPT !.folio = c.ing].id = r.id
    BY DEF Row
  <2> DEFINE f(r) == IF r.id = c.id THEN [r EXCEPT !.folio = c.ing] ELSE r
  <2>3. \A r \in T : f(r).id = r.id
    BY <2>2
  <2>4. TicketsAfter(k, c) = {f(r) : r \in T}
    BY <2>1
  <2>5. ~Adds(c)
    BY <1>2
  <2> HIDE DEF f
  <2> QED BY <2>3, <2>4, <2>5
<1>3. CASE c.op = "CLOSE_TICKET"
  <2>1. TicketsAfter(k, c) = {IF r.id = c.id THEN [r EXCEPT !.estado = "CERRADO"] ELSE r : r \in T}
    BY <1>3 DEF TicketsAfter
  <2>2. \A r \in T : [r EXCEPT !.estado = "CERRADO"].id = r.id
    BY DEF Row
  <2> DEFINE f(r) == IF r.id = c.id THEN [r EXCEPT !.estado = "CERRADO"] ELSE r
  <2>3. \A r \in T : f(r).id = r.id
    BY <2>2
  <2>4. TicketsAfter(k, c) = {f(r) : r \in T}
    BY <2>1
  <2>5. ~Adds(c)
    BY <1>3
  <2> HIDE DEF f
  <2> QED BY <2>3, <2>4, <2>5
<1>4. CASE c.op = "UPDATE_INGENIERO_DISPONIBLE"
  <2>1. TicketsAfter(k, c) = T
    BY <1>4 DEF TicketsAfter
  <2> QED BY <1>4, <2>1
<1> QED BY <1>1, <1>2, <1>3, <1>4 DEF Operation

LEMMA HandlerHolders ==
    ASSUME TypeOK, NEW k \in Nodes, NEW c \in Operation, CommitHandler(k, c)
    PROVE  /\ \A id : Holders(id)' =
                Holders(id) \cup (IF Adds(c) /\ c.suc = k /\ c.id = id THEN {k} ELSE {})
           /\ RowsDiffer => RowsDiffer'
<1>1. tickets \in [Nodes -> SUBSET Row] /\ tickets' = [tickets EXCEPT ![k] = TicketsAfter(k, c)]
  BY DEF CommitHandler, TypeOK
<1>2. tickets[k] \subseteq Row
  BY <1>1
<1>3. tickets'[k] = TicketsAfter(k, c) /\ \A n \in Nodes : n # k => tickets'[n] = tickets[n]
  BY <1>1
<1>4. ASSUME NEW id
      PROVE  Holders(id)' =
                Holders(id) \cup (IF Adds(c) /\ c.suc = k /\ c.id = id THEN {k} ELSE {})
  <2>1. (\E r \in tickets'[k] : r.id = id) <=>
            (\E r \in tickets[k] : r.id = id) \/ (Adds(c) /\ c.suc = k /\ c.id = id)
    BY <1>2, <1>3, RowIds
  <2>2. \A n \in Nodes : n \in Holders(id)' <=>
            n \in Holders(id) \/ (n = k /\ Adds(c) /\ c.suc = k /\ c.id = id)
    BY <1>3, <2>1 DEF Holders
  <2>3. Holders(id) \subseteq Nodes /\ Holders(id)' \subseteq Nodes
    BY DEF Holders
  <2>4. CASE Adds(c) /\ c.suc = k /\ c.id = id
    BY <2>2, <2>3, <2>4
  <2>5. CASE ~(Adds(c) /\ c.suc = k /\ c.id = id)
    BY <2>2, <2>3, <2>5
  <2> QED BY <2>4, <2>5
<1>5. ASSUME RowsDiffer PROVE RowsDiffer'
  <2>1. \A r, q \in tickets'[k] : r.id = q.id => r = q
    BY <1>2, <1>3, <1>5, RowIds DEF RowsDiffer
  <2> QED BY <1>3, <1>5, <2>1 DEF RowsDiffer
<1> QED BY <1>4, <1>5

\* A redistribution that is over, or has fewer tickets left to reassign.
Fewer(u, v) ==
    /\ v.dead = u.dead
    /\ \/ v.pc \in {"cut short", "done"}
       \/ /\ {u.pc, v.pc} \subseteq {"engineers", "reassign"}
          /\ v.orphans \subseteq u.orphans

LEMMA TaskKeeps ==
    ASSUME NEW t \in Tasks, ReadOnce(t), OrphansDiffer(t),
           \A id : Holders(id) \subseteq Holders(id)',
           \/ task'[t] = task[t] /\ asked'[t] \subseteq asked[t] /\ seen'[t] = seen[t]
           \/ Fewer(task[t], task'[t])
    PROVE  /\ ReadOnce(t)' /\ OrphansDiffer(t)'
           /\ \A id : t \in Spent(id) => t \in Spent(id)'
<1>1. CASE task'[t] = task[t] /\ asked'[t] \subseteq asked[t] /\ seen'[t] = seen[t]
  <2>1. ReadOnce(t)'
    BY <1>1 DEF ReadOnce
  <2>2. OrphansDiffer(t)'
    BY <1>1 DEF OrphansDiffer
  <2>3. \A id : t \in Spent(id) => t \in Spent(id)'
    BY <1>1 DEF Spent
  <2> QED BY <2>1, <2>2, <2>3
<1>2. CASE Fewer(task[t], task'[t])
  <2>1. ReadOnce(t)'
    BY <1>2 DEF ReadOnce, Fewer
  <2>2. OrphansDiffer(t)'
    BY <1>2 DEF OrphansDiffer, Fewer
  <2>3. ASSUME NEW id, t \in Spent(id) PROVE t \in Spent(id)'
    <3>1. task'[t].dead \in Holders(id)'
      BY <1>2, <2>3 DEF Fewer, Spent
    <3>2. Able(task'[t], id) => Able(task[t], id)
      BY <1>2 DEF Fewer, Able
    <3> QED BY <2>3, <3>1, <3>2 DEF Spent
  <2> QED BY <2>1, <2>2, <2>3
<1> QED BY <1>1, <1>2

LEMMA PaidKept ==
    ASSUME TypeOK, TypeOK', NEW id \in Ids, CopiesPaid,
           Reached(id)' \subseteq Reached(id), Spent(id) \subseteq Spent(id)'
    PROVE  Cardinality(Reached(id))' <= 1 + Cardinality(Spent(id))'
<1>1. IsFiniteSet(Reached(id))
  BY FiniteParts
<1>2. Spent(id)' \subseteq Tasks
  BY DEF Spent
<1>3. IsFiniteSet(Spent(id)')
  BY <1>2, ActorsAssumption, FS_Subset
<1>4. Cardinality(Reached(id)) <= 1 + Cardinality(Spent(id))
  BY DEF CopiesPaid
<1> QED BY <1>1, <1>3, <1>4, CountKept

\* A step by which no ticket comes to another node and no redistribution finds any.
LEMMA QuietStep ==
    ASSUME CopyInv, TypeInv', RowsDiffer', used \subseteq used',
           \A id : Holders(id)' = Holders(id),
           \A m \in DOMAIN commits' : m \in DOMAIN commits \/ ~Adds(m.c),
           \A t \in Tasks :
                \/ task'[t] = task[t] /\ asked'[t] \subseteq asked[t] /\ seen'[t] = seen[t]
                \/ Fewer(task[t], task'[t])
    PROVE  CopyInv'
<1>1. RowsAreUsed'
  <2> SUFFICES ASSUME NEW n \in Nodes, NEW r \in tickets'[n] PROVE r.id \in used
    BY DEF RowsAreUsed
  <2>1. n \in Holders(r.id)'
    BY DEF Holders
  <2> QED BY <2>1 DEF Holders, CopyInv, RowsAreUsed
<1>2. CommitsKnown'
  BY DEF CommitsKnown, CopyInv, Adds
<1>3. ASSUME NEW t \in Tasks PROVE ReadOnce(t)' /\ OrphansDiffer(t)' /\ \A id : t \in Spent(id) => t \in Spent(id)'
  BY TaskKeeps DEF CopyInv
<1>4. CopiesPaid'
  <2> SUFFICES ASSUME NEW id \in Ids PROVE Cardinality(Reached(id))' <= 1 + Cardinality(Spent(id))'
    BY DEF CopiesPaid
  <2>1. Reassigns(id)' \subseteq Reassigns(id)
    BY DEF Reassigns, Adds
  <2>2. Reached(id)' \subseteq Reached(id)
    BY <2>1 DEF Reached
  <2>3. Spent(id) \subseteq Spent(id)'
    BY <1>3 DEF Spent
  <2> QED BY <2>2, <2>3, PaidKept DEF CopyInv, TypeInv
<1> QED BY <1>1, <1>2, <1>3, <1>4 DEF CopyInv

\* Messages a proposal leaves are about its operation.
LEMMA CommitMessages ==
    ASSUME TypeOK, NEW k \in Nodes, NEW c \in Operation, SendCommits(k, c)
    PROVE  /\ \A m \in DOMAIN commits' :
                m \in DOMAIN commits \/ (m.c = c /\ Concerns(c, m.to) /\ m.to # k)
           /\ DOMAIN commits \subseteq DOMAIN commits'
           /\ \A j \in AlivePeers(k) : Concerns(c, j) => To(j, c) \in DOMAIN commits'
<1> DEFINE S == {To(j, c) : j \in {j \in AlivePeers(k) : Concerns(c, j)}}
<1>1. commits' = commits (+) SetToBag(S)
  BY DEF SendCommits
<1>2. \A m \in S : m.c = c /\ Concerns(c, m.to) /\ m.to # k
  BY DEF AlivePeers, To
<1>3. \A j \in AlivePeers(k) : Concerns(c, j) => To(j, c) \in S
  OBVIOUS
<1> HIDE DEF S
<1>4. DOMAIN commits' = DOMAIN commits \cup S
  BY <1>1, BagAdd DEF TypeOK
<1> QED BY <1>2, <1>3, <1>4

\* A step that commits or applies an operation that adds no row.
LEMMA UpdateStep ==
    ASSUME CopyInv, TypeInv', NEW k \in Nodes, NEW c \in Operation, ~Adds(c),
           CommitHandler(k, c) \/ tickets' = tickets,
           SendCommits(k, c) \/ commits' = commits,
           used' = used, task' = task, UNCHANGED listVars \/ Forget(k)
    PROVE  CopyInv'
<1>1. \A m \in DOMAIN commits' : m \in DOMAIN commits \/ m.c = c
  BY CommitMessages DEF CopyInv, TypeInv
<1>2. RowsDiffer' /\ \A id : Holders(id)' = Holders(id)
  <2>1. CASE CommitHandler(k, c)
    <3>1. /\ \A id : Holders(id)' =
                Holders(id) \cup (IF Adds(c) /\ c.suc = k /\ c.id = id THEN {k} ELSE {})
          /\ RowsDiffer => RowsDiffer'
      BY <2>1, HandlerHolders DEF CopyInv, TypeInv
    <3> QED BY <3>1 DEF CopyInv
  <2>2. CASE tickets' = tickets
    BY <2>2 DEF RowsDiffer, Holders, CopyInv
  <2> QED BY <2>1, <2>2
<1>3. \A t \in Tasks : task'[t] = task[t] /\ asked'[t] \subseteq asked[t] /\ seen'[t] = seen[t]
  <2> SUFFICES ASSUME NEW t \in Tasks PROVE asked'[t] = asked[t] /\ seen'[t] = seen[t]
    OBVIOUS
  <2>1. t # k /\ seen = [p \in Nodes \cup Tasks |-> seen[p]]
    BY ActorsAssumption DEF CopyInv, TypeInv
  <2> QED BY <2>1 DEF listVars, Forget
<1> QED BY <1>1, <1>2, <1>3, QuietStep

\* A step of a user, or of the network, that touches no table and no redistribution.
LEMMA TablesStay ==
    ASSUME CopyInv, TypeInv', tickets' = tickets, used' = used,
           DOMAIN commits' \subseteq DOMAIN commits,
           \A t \in Tasks :
                \/ task'[t] = task[t] /\ asked'[t] \subseteq asked[t] /\ seen'[t] = seen[t]
                \/ Fewer(task[t], task'[t])
    PROVE  CopyInv'
<1>1. RowsDiffer' /\ \A id : Holders(id)' = Holders(id)
  BY DEF CopyInv, RowsDiffer, Holders
<1> QED BY <1>1, QuietStep

LEMMA UserCopies ==
    ASSUME CopyInv, TypeInv', NEW n \in Nodes,
           \/ RaiseTicket(n) \/ Acquire(n) \/ (\E e \in Engineers : Choose(n, e)) \/ NoEngineer(n)
           \/ UpdateFolio(n) \/ MarkEngineer(n)
           \/ Close(n) \/ AcquireFails(n) \/ ProposalFails(n)
    PROVE  CopyInv'
<1> USE DEF userVars, tableVars, nodeVars
<1>0. /\ UserStage(n) /\ user[n] \in UserRecord
      /\ asked \in [Nodes \cup Tasks -> SUBSET Nodes] /\ seen = [p \in Nodes \cup Tasks |-> seen[p]]
  BY DEF CopyInv, TypeInv, TypeOK, UserRecord
<1>1. ASSUME UNCHANGED <<task, tickets, commits, used>>,
             UNCHANGED listVars \/ Ask(n) \/ Forget(n)
      PROVE  CopyInv'
  <2>1. \A t \in Tasks : asked'[t] = asked[t] /\ seen'[t] = seen[t]
    <3> SUFFICES ASSUME NEW t \in Tasks PROVE asked'[t] = asked[t] /\ seen'[t] = seen[t]
      OBVIOUS
    <3>1. t # n
      BY ActorsAssumption
    <3> QED BY <1>0, <1>1, <3>1 DEF Ask, Forget, listVars
  <2> QED BY <1>1, <2>1, TablesStay
<1>2. CASE RaiseTicket(n) \/ Acquire(n) \/ NoEngineer(n) \/ AcquireFails(n)
  BY <1>1, <1>2 DEF RaiseTicket, Acquire, NoEngineer, AcquireFails
<1>3. CASE \E e \in Engineers : Choose(n, e)
  BY <1>1, <1>3 DEF Choose
<1>4. CASE InsertFails(n) \/ FolioFails(n) \/ MarkFails(n) \/ CloseFails(n)
  BY <1>1, <1>4 DEF InsertFails, FolioFails, MarkFails, CloseFails, Return
<1>5. CASE ListOpen(n) \/ NothingOpen(n)
  BY <1>1, <1>5 DEF ListOpen, NothingOpen
<1>6. CASE \E s \in seen[n] : user[n].pc = "tickets" /\ Select(n, s)
  BY <1>1, <1>6 DEF Select
<1>7. CASE UpdateFolio(n)
  <2> DEFINE c == Op("UPDATE_TICKET_FOLIO", user[n].ticket, user[n].engineer, None)
  <2>1. c \in Operation /\ ~Adds(c)
    BY <1>0, <1>7 DEF UpdateFolio, UserStage, Op, Operation, Adds
  <2>2. /\ CommitHandler(n, c) /\ SendCommits(n, c)
        /\ used' = used /\ task' = task /\ UNCHANGED listVars
    BY <1>7 DEF UpdateFolio, Commit
  <2> HIDE DEF c
  <2> QED BY <2>1, <2>2, UpdateStep
<1>8. CASE MarkEngineer(n)
  <2> DEFINE c == Op("UPDATE_INGENIERO_DISPONIBLE", user[n].ticket, user[n].engineer, None)
  <2>1. c \in Operation /\ ~Adds(c)
    BY <1>0, <1>8 DEF MarkEngineer, UserStage, Op, Operation, Adds
  <2>2. /\ CommitHandler(n, c) /\ SendCommits(n, c)
        /\ used' = used /\ task' = task /\ UNCHANGED listVars
    BY <1>8 DEF MarkEngineer, Return, Commit
  <2> HIDE DEF c
  <2> QED BY <2>1, <2>2, UpdateStep
<1>9. CASE CloseTicket(n) \/ ApplyClose(n)
  <2> DEFINE c == CloseOf(n)
  <2>1. c \in Operation /\ ~Adds(c)
    BY <1>0, <1>9 DEF CloseTicket, ApplyClose, UserStage, CloseOf, Op, Operation, Adds
  <2>2. /\ CommitHandler(n, c) \/ tickets' = tickets
        /\ SendCommits(n, c) \/ commits' = commits
        /\ used' = used /\ task' = task /\ UNCHANGED listVars
    BY <1>9 DEF CloseTicket, ApplyClose
  <2> HIDE DEF c
  <2> QED BY <2>1, <2>2, UpdateStep
<1> QED BY <1>2, <1>3, <1>4, <1>5, <1>6, <1>7, <1>8, <1>9 DEF Close, ProposalFails

\* The first row of a ticket.
LEMMA InsertCopies ==
    ASSUME CopyInv, TypeInv', NEW n \in Nodes, NEW id \in Ids, InsertTicket(n, id)
    PROVE  CopyInv'
<1> DEFINE c == Op("INSERT_TICKET", id, user[n].engineer, n)
<1>0. TypeOK /\ UserStage(n) /\ user[n].pc = "insert"
  BY DEF CopyInv, TypeInv, InsertTicket
<1>1. c \in Operation /\ Adds(c) /\ c.id = id /\ c.suc = n /\ c.op = "INSERT_TICKET"
  BY <1>0 DEF UserStage, Op, Operation, Adds
<1>2. /\ CommitHandler(n, c) /\ SendCommits(n, c)
      /\ id \notin used /\ used' = used \cup {id}
      /\ task' = task /\ asked' = asked /\ seen' = seen
  BY DEF InsertTicket, Commit, listVars
<1> HIDE DEF c
<1>3. CommitHandler(n, c) /\ \A m \in DOMAIN commits' : m \in DOMAIN commits
  <2>1. \A m : Concerns(c, m.to) /\ m.to # n => FALSE
    BY <1>1 DEF Concerns
  <2> QED BY <1>0, <1>1, <1>2, <2>1, CommitMessages
<1>4. RowsDiffer' /\ \A j : Holders(j)' = Holders(j) \cup (IF j = id THEN {n} ELSE {})
  <2>1. \A j : Holders(j)' = Holders(j) \cup (IF Adds(c) /\ c.suc = n /\ c.id = j THEN {n} ELSE {})
    BY <1>0, <1>1, <1>3, HandlerHolders
  <2>2. RowsDiffer'
    BY <1>0, <1>1, <1>3, HandlerHolders DEF CopyInv
  <2> QED BY <1>1, <2>1, <2>2
<1>5. RowsAreUsed'
  <2> SUFFICES ASSUME NEW k \in Nodes, NEW r \in tickets'[k] PROVE r.id \in used'
    BY DEF RowsAreUsed
  <2>1. k \in Holders(r.id)'
    BY DEF Holders
  <2>2. k \in Holders(r.id) => r.id \in used
    BY DEF Holders, CopyInv, RowsAreUsed
  <2> QED BY <1>2, <1>4, <2>1, <2>2
<1>6. CommitsKnown'
  BY <1>2, <1>3 DEF CommitsKnown, CopyInv
<1>7. ASSUME NEW t \in Tasks PROVE ReadOnce(t)' /\ OrphansDiffer(t)' /\ \A j : t \in Spent(j) => t \in Spent(j)'
  BY <1>2, <1>4, TaskKeeps DEF CopyInv
<1>8. CopiesPaid'
  <2> SUFFICES ASSUME NEW j \in Ids PROVE Cardinality(Reached(j))' <= 1 + Cardinality(Spent(j))'
    BY DEF CopiesPaid
  <2>1. Spent(j) \subseteq Spent(j)'
    BY <1>7 DEF Spent
  <2>2. Reassigns(j)' \subseteq Reassigns(j)
    BY <1>3 DEF Reassigns
  <2>3. CASE j # id
    <3>1. Reached(j)' \subseteq Reached(j)
      BY <1>4, <2>2, <2>3 DEF Reached
    <3> QED BY <1>0, <2>1, <3>1, PaidKept DEF CopyInv, TypeInv
  <2>4. CASE j = id
    <3>1. Reassigns(id) = {} /\ Holders(id) = {}
      BY <1>2 DEF Reassigns, Holders, CopyInv, CommitsKnown, RowsAreUsed
    <3>2. Reached(j)' = {n}
      BY <1>4, <2>2, <2>4, <3>1 DEF Reached
    <3>3. Cardinality(Reached(j)') = 1
      BY <3>2, FS_Singleton
    <3>4. IsFiniteSet(Spent(j)')
      <4>1. Spent(j)' \subseteq Tasks
        BY DEF Spent
      <4> QED BY <4>1, ActorsAssumption, FS_Subset
    <3>5. Cardinality(Spent(j)') \in Nat
      BY <3>4, FS_CardinalityType
    <3> QED BY <3>3, <3>5
  <2> QED BY <2>3, <2>4
<1> QED BY <1>4, <1>5, <1>6, <1>7, <1>8 DEF CopyInv

\* A step of one redistribution that touches no table.
LEMMA OneTaskStep ==
    ASSUME CopyInv, TypeInv', UNCHANGED <<tickets, commits, used>>, NEW t \in Tasks,
           \A s \in Tasks : s # t => task'[s] = task[s] /\ asked'[s] = asked[s] /\ seen'[s] = seen[s],
           ReadOnce(t)', OrphansDiffer(t)',
           \A id : t \in Spent(id) => t \in Spent(id)'
    PROVE  CopyInv'
<1>1. \A id : Holders(id)' = Holders(id)
  BY DEF Holders
<1>2. RowsDiffer' /\ RowsAreUsed' /\ CommitsKnown'
  BY DEF CopyInv, RowsDiffer, RowsAreUsed, CommitsKnown
<1>3. ASSUME NEW s \in Tasks, s # t
      PROVE  ReadOnce(s)' /\ OrphansDiffer(s)' /\ \A id : s \in Spent(id) => s \in Spent(id)'
  BY <1>1, <1>3, TaskKeeps DEF CopyInv
<1>4. CopiesPaid'
  <2> SUFFICES ASSUME NEW id \in Ids PROVE Cardinality(Reached(id))' <= 1 + Cardinality(Spent(id))'
    BY DEF CopiesPaid
  <2>1. Reached(id)' \subseteq Reached(id)
    BY <1>1 DEF Reached, Reassigns
  <2>2. Spent(id) \subseteq Spent(id)'
    BY <1>3 DEF Spent
  <2> QED BY <2>1, <2>2, PaidKept DEF CopyInv, TypeInv
<1> QED BY <1>2, <1>3, <1>4 DEF CopyInv

LEMMA AnswerCopies ==
    ASSUME CopyInv, TypeInv', NEW p \in Nodes \cup Tasks, NEW k \in Nodes, Answer(p, k)
    PROVE  CopyInv'
<1>0. /\ asked \in [Nodes \cup Tasks -> SUBSET Nodes]
      /\ seen = [q \in Nodes \cup Tasks |-> seen[q]]
  BY DEF CopyInv, TypeInv, TypeOK
<1>1. /\ k \in asked[p] /\ asked' = [asked EXCEPT ![p] = @ \ {k}]
      /\ seen' = [seen EXCEPT ![p] = @ \cup LocalRows(p, k)]
      /\ task' = task /\ used' = used /\ tickets' = tickets /\ commits' = commits
  BY DEF Answer, userVars, tableVars
<1>2. /\ asked'[p] = asked[p] \ {k} /\ seen'[p] = seen[p] \cup LocalRows(p, k)
      /\ \A q \in Nodes \cup Tasks : q # p => asked'[q] = asked[q] /\ seen'[q] = seen[q]
  BY <1>0, <1>1
<1>3. CASE p \in Nodes
  <2>1. \A t \in Tasks : t # p
    BY <1>3, ActorsAssumption
  <2> QED BY <1>1, <1>2, <2>1, TablesStay
<1>4. CASE p \in Tasks
  <2>1. ReadOnce(p) /\ OrphansDiffer(p)
    BY <1>4 DEF CopyInv
  <2>2. OrphansDiffer(p)'
    BY <1>1, <2>1 DEF OrphansDiffer, Holders
  <2>3. ReadOnce(p)'
    <3> SUFFICES ASSUME task[p].pc = "tickets"
                 PROVE  /\ \A s \in seen'[p] : s.at \in Holders(s.row.id)' /\ s.at \notin asked'[p]
                        /\ \A r, q \in seen'[p] : r.at = q.at /\ r.row.id = q.row.id => r = q
      BY <1>1 DEF ReadOnce
    <3>1. LocalRows(p, k) = LocalTickets(k)
      BY <1>4, AnswerTypes DEF CopyInv, TypeInv
    <3>2. \A s \in LocalTickets(k) : s.at = k /\ s.row \in tickets[k] /\ s = [at |-> k, row |-> s.row]
      BY DEF LocalTickets
    <3>3. \A s \in LocalTickets(k) : s.at \in Holders(s.row.id)
      BY <3>2 DEF Holders
    <3>4. \A s \in seen[p] : s.at \in Holders(s.row.id) /\ s.at \notin asked[p] /\ s.at # k
      BY <1>1, <2>1 DEF ReadOnce
    <3>5. \A r, q \in LocalTickets(k) : r.row.id = q.row.id => r = q
      BY <3>2 DEF CopyInv, RowsDiffer
    <3>6. \A r, q \in seen[p] : r.at = q.at /\ r.row.id = q.row.id => r = q
      BY <2>1 DEF ReadOnce
    <3>7. \A id : Holders(id)' = Holders(id)
      BY <1>1 DEF Holders
    <3>8. \A s \in seen'[p] : s \in seen[p] \/ s \in LocalTickets(k)
      BY <1>2, <3>1
    <3>9. \A s \in seen'[p] : s.at \in Holders(s.row.id)' /\ s.at \notin asked'[p]
      BY <1>2, <3>2, <3>3, <3>4, <3>7, <3>8
    <3>10. \A r, q \in seen'[p] : r.at = q.at /\ r.row.id = q.row.id => r = q
      BY <3>2, <3>4, <3>5, <3>6, <3>8
    <3> QED BY <3>9, <3>10
  <2>4. \A id : p \in Spent(id) => p \in Spent(id)'
    BY <1>1 DEF Spent, Holders
  <2> QED BY <1>1, <1>2, <1>4, <2>2, <2>3, <2>4, OneTaskStep
<1> QED BY <1>3, <1>4

\* A redistribution starts, or finds the tickets it will reassign.
LEMMA StartCopies ==
    ASSUME CopyInv, TypeInv', NEW t \in Tasks, NEW n \in Nodes, NEW d \in Nodes,
           RedistributeTickets(t, n, d)
    PROVE  CopyInv'
<1>0. /\ asked \in [Nodes \cup Tasks -> SUBSET Nodes] /\ task \in [Tasks -> TaskRecord]
      /\ seen = [q \in Nodes \cup Tasks |-> seen[q]]
      /\ TaskStage(t)
  BY DEF CopyInv, TypeInv, TypeOK, TaskRecord
<1>1. /\ task[t].dead = None /\ Ask(t) /\ UNCHANGED <<tickets, commits, used>>
      /\ task' = [task EXCEPT ![t].pc = "tickets", ![t].host = n, ![t].dead = d]
  BY <1>0 DEF RedistributeTickets, TaskStage, userVars, tableVars
<1>2. task'[t].pc = "tickets" /\ \A s \in Tasks : s # t => task'[s] = task[s]
  BY <1>0, <1>1 DEF TaskRecord
<1>3. seen'[t] = {} /\ \A s \in Tasks : s # t => asked'[s] = asked[s] /\ seen'[s] = seen[s]
  BY <1>0, <1>1 DEF Ask
<1>4. ReadOnce(t)' /\ OrphansDiffer(t)'
  BY <1>2, <1>3 DEF ReadOnce, OrphansDiffer
<1>5. \A id : t \notin Spent(id)
  BY <1>1, NoneAssumption DEF Spent, Holders
<1> QED BY <1>1, <1>2, <1>3, <1>4, <1>5, OneTaskStep

LEMMA FindCopies ==
    ASSUME CopyInv, TypeInv', NEW t \in Tasks, FindOrphans(t)
    PROVE  CopyInv'
<1> DEFINE found == {s.row : s \in {s \in seen[t] : s.at = task[t].dead}}
<1>0. /\ asked \in [Nodes \cup Tasks -> SUBSET Nodes] /\ task \in [Tasks -> TaskRecord]
      /\ seen = [q \in Nodes \cup Tasks |-> seen[q]]
      /\ task[t].pc = "tickets" /\ ReadOnce(t)
  BY DEF CopyInv, TypeInv, TypeOK, TaskRecord, FindOrphans
<1>1. /\ UNCHANGED <<tickets, commits, used>>
      /\ \/ task' = [task EXCEPT ![t].pc = "done"] /\ UNCHANGED listVars
         \/ task' = [task EXCEPT ![t].pc = "engineers", ![t].orphans = found] /\ Ask(t)
  BY DEF FindOrphans, userVars, tableVars
<1>2. /\ \A r \in found : task[t].dead \in Holders(r.id)
      /\ \A r, q \in found : r.id = q.id => r = q
  BY <1>0 DEF ReadOnce
<1>3. \A id : t \notin Spent(id)
  BY <1>0 DEF Spent, Able
<1>4. \A id : Holders(id)' = Holders(id)
  BY <1>1 DEF Holders
<1> HIDE DEF found
<1>5. CASE task' = [task EXCEPT ![t].pc = "done"] /\ UNCHANGED listVars
  <2>1. task'[t].pc = "done" /\ \A s \in Tasks : s # t => task'[s] = task[s]
    BY <1>0, <1>5 DEF TaskRecord
  <2>2. \A s \in Tasks : asked'[s] = asked[s] /\ seen'[s] = seen[s]
    BY <1>5 DEF listVars
  <2>3. ReadOnce(t)' /\ OrphansDiffer(t)'
    BY <2>1 DEF ReadOnce, OrphansDiffer
  <2> QED BY <1>1, <1>3, <2>1, <2>2, <2>3, OneTaskStep
<1>6. CASE task' = [task EXCEPT ![t].pc = "engineers", ![t].orphans = found] /\ Ask(t)
  <2>1. /\ task'[t].pc = "engineers" /\ task'[t].orphans = found /\ task'[t].dead = task[t].dead
        /\ \A s \in Tasks : s # t => task'[s] = task[s]
    BY <1>0, <1>6 DEF TaskRecord
  <2>2. \A s \in Tasks : s # t => asked'[s] = asked[s] /\ seen'[s] = seen[s]
    BY <1>0, <1>6 DEF Ask
  <2>3. ReadOnce(t)'
    BY <2>1 DEF ReadOnce
  <2>4. OrphansDiffer(t)'
    BY <1>2, <1>4, <2>1 DEF OrphansDiffer
  <2> QED BY <1>1, <1>3, <2>1, <2>2, <2>3, <2>4, OneTaskStep
<1> QED BY <1>1, <1>5, <1>6

\* A redistribution uses up a ticket, and may put a row of it under way.
LEMMA ReassignCopies ==
    ASSUME CopyInv, TypeInv', NEW t \in Tasks, NEW r \in task[t].orphans, NEW e \in Engineers,
           Reassign(t, r, e)
    PROVE  CopyInv'
<1> DEFINE c == Op("REASSIGN_TICKET", r.id, e, Sucursal[e])
           k == task[t].host
<1>0. /\ task \in [Tasks -> TaskRecord] /\ TypeOK /\ TypeOK'
      /\ TaskStage(t) /\ OrphansDiffer(t)
      /\ seen = [q \in Nodes \cup Tasks |-> seen[q]]
  BY DEF CopyInv, TypeInv, TypeOK, TaskRecord
<1>1. /\ NextOrphan(t, r, e) /\ CommitHandler(k, c) /\ SendCommits(k, c)
      /\ task[t].pc = "reassign"
      /\ task' = [task EXCEPT ![t].orphans = @ \ {r}]
      /\ seen' = [seen EXCEPT ![t] = @ \ {e}] /\ asked' = asked /\ used' = used
  BY DEF Reassign, NextOrphan, Commit, userVars
<1>2. /\ task'[t].pc = "reassign" /\ task'[t].orphans = task[t].orphans \ {r}
      /\ task'[t].dead = task[t].dead
      /\ \A s \in Tasks : s # t => task'[s] = task[s]
  BY <1>0, <1>1 DEF TaskRecord
<1>3. \A s \in Tasks : s # t => asked'[s] = asked[s] /\ seen'[s] = seen[s]
  BY <1>0, <1>1
<1>4. k \in Nodes /\ r \in Row
  BY <1>0, <1>1 DEF TaskStage, TaskRecord
<1>5. c \in Operation /\ c.op = "REASSIGN_TICKET" /\ c.id = r.id /\ c.suc = Sucursal[e]
  BY <1>4, SucursalAssumption DEF Op, Operation, Row
<1>6. task[t].dead \in Holders(r.id) /\ r.id \in used
  <2>1. task[t].dead \in Holders(r.id)
    BY <1>0, <1>1 DEF OrphansDiffer
  <2> QED BY <2>1 DEF Holders, CopyInv, RowsAreUsed
<1> HIDE DEF c, k
<1>7. /\ CommitHandler(k, c)
      /\ \A m \in DOMAIN commits' : m \in DOMAIN commits \/ (m.c = c /\ m.to = Sucursal[e])
  <2>1. \A m \in DOMAIN commits' : m \in DOMAIN commits \/ (m.c = c /\ Concerns(c, m.to))
    BY <1>0, <1>1, <1>4, <1>5, CommitMessages
  <2>2. \A n : Concerns(c, n) => n = Sucursal[e]
    BY <1>5 DEF Concerns
  <2> QED BY <1>1, <2>1, <2>2
<1>8. /\ RowsDiffer' /\ \A id : Holders(id) \subseteq Holders(id)'
      /\ \A id : id # r.id => Holders(id)' = Holders(id)
      /\ Holders(r.id)' \subseteq Holders(r.id) \cup {Sucursal[e]}
  <2>1. /\ \A id : Holders(id)' =
                Holders(id) \cup (IF Adds(c) /\ c.suc = k /\ c.id = id THEN {k} ELSE {})
        /\ RowsDiffer'
    BY <1>0, <1>4, <1>5, <1>7, HandlerHolders DEF CopyInv
  <2> QED BY <1>5, <2>1
<1>9. RowsAreUsed'
  <2> SUFFICES ASSUME NEW n \in Nodes, NEW q \in tickets'[n] PROVE q.id \in used
    BY <1>1 DEF RowsAreUsed
  <2>1. n \in Holders(q.id)'
    BY DEF Holders
  <2>2. n \in Holders(q.id) => q.id \in used
    BY DEF Holders, CopyInv, RowsAreUsed
  <2> QED BY <1>6, <1>8, <2>1, <2>2
<1>10. CommitsKnown'
  BY <1>1, <1>5, <1>6, <1>7 DEF CommitsKnown, CopyInv
<1>11. ReadOnce(t)' /\ OrphansDiffer(t)'
  <2>1. ReadOnce(t)'
    BY <1>2 DEF ReadOnce
  <2>2. OrphansDiffer(t)'
    BY <1>0, <1>1, <1>2, <1>8 DEF OrphansDiffer
  <2> QED BY <2>1, <2>2
<1>12. ASSUME NEW s \in Tasks, s # t
       PROVE  ReadOnce(s)' /\ OrphansDiffer(s)' /\ \A id : s \in Spent(id) => s \in Spent(id)'
  BY <1>2, <1>3, <1>8, <1>12, TaskKeeps DEF CopyInv
<1>13. t \notin Spent(r.id) /\ t \in Spent(r.id)'
  <2>1. Able(task[t], r.id)
    BY <1>1 DEF Able
  <2>2. ~Able(task'[t], r.id)
    BY <1>0, <1>1, <1>2 DEF Able, OrphansDiffer
  <2>3. task'[t].dead \in Holders(r.id)'
    BY <1>2, <1>6, <1>8
  <2> QED BY <2>1, <2>2, <2>3 DEF Spent
<1>14. \A id : id # r.id => (t \in Spent(id) => t \in Spent(id)')
  <2> SUFFICES ASSUME NEW id, id # r.id, t \in Spent(id) PROVE t \in Spent(id)'
    OBVIOUS
  <2>1. ~Able(task'[t], id)
    BY <1>1, <1>2 DEF Able, Spent
  <2> QED BY <1>2, <1>8, <2>1 DEF Spent
<1>15. CopiesPaid'
  <2> SUFFICES ASSUME NEW id \in Ids PROVE Cardinality(Reached(id))' <= 1 + Cardinality(Spent(id))'
    BY DEF CopiesPaid
  <2>1. CASE id # r.id
    <3>1. Reassigns(id)' \subseteq Reassigns(id)
      BY <1>5, <1>7, <2>1 DEF Reassigns
    <3>2. Reached(id)' \subseteq Reached(id)
      BY <1>8, <2>1, <3>1 DEF Reached
    <3>3. Spent(id) \subseteq Spent(id)'
      BY <1>12, <1>14, <2>1 DEF Spent
    <3> QED BY <1>0, <3>2, <3>3, PaidKept DEF CopyInv
  <2>2. CASE id = r.id
    <3>1. \A m \in Reassigns(id)' : m \in Reassigns(id) \/ m.to = Sucursal[e]
      BY <1>7 DEF Reassigns
    <3>2. Reached(id)' \subseteq Reached(id) \cup {Sucursal[e]}
      BY <1>8, <2>2, <3>1 DEF Reached
    <3>3. Spent(id) \cup {t} \subseteq Spent(id)' /\ t \notin Spent(id)
      BY <1>12, <1>13, <2>2 DEF Spent
    <3>4. IsFiniteSet(Reached(id)) /\ IsFiniteSet(Spent(id)')
      <4>1. Spent(id)' \subseteq Tasks
        BY DEF Spent
      <4> QED BY <1>0, <4>1, FiniteParts, ActorsAssumption, FS_Subset
    <3>5. Cardinality(Reached(id)) <= 1 + Cardinality(Spent(id))
      BY DEF CopyInv, CopiesPaid
    <3> QED BY <3>2, <3>3, <3>4, <3>5, CountOneMore
  <2> QED BY <2>1, <2>2
<1> QED BY <1>8, <1>9, <1>10, <1>11, <1>12, <1>15 DEF CopyInv

\* A row that was under way arrives.
LEMMA HandleCopies ==
    ASSUME CopyInv, TypeInv', NEW m \in DOMAIN commits, HandleCommit(m)
    PROVE  CopyInv'
<1>0. TypeOK /\ TypeOK' /\ m \in [to : Nodes, c : Operation] /\ IsABag(commits)
  BY DEF CopyInv, TypeInv, TypeOK
<1>1. /\ CommitHandler(m.to, m.c) /\ commits' = commits (-) SetToBag({m})
      /\ task' = task /\ asked' = asked /\ seen' = seen /\ used' = used
  BY DEF HandleCommit, listVars, userVars
<1>2. DOMAIN commits' \subseteq DOMAIN commits
  BY <1>0, <1>1, BagRemove
<1>3. m.to \in Nodes /\ m.c \in Operation
  BY <1>0
<1>4. /\ \A id : Holders(id)' =
            Holders(id) \cup (IF Adds(m.c) /\ m.c.suc = m.to /\ m.c.id = id THEN {m.to} ELSE {})
      /\ RowsDiffer'
  BY <1>0, <1>1, <1>3, HandlerHolders DEF CopyInv
<1>5. Adds(m.c) => m.c.op = "REASSIGN_TICKET" /\ m.c.id \in used
  BY DEF CopyInv, CommitsKnown, Adds
<1>6. \A id : Holders(id) \subseteq Holders(id)' /\ Holders(id)' \subseteq Reached(id)
  <2> SUFFICES ASSUME NEW id
               PROVE Holders(id) \subseteq Holders(id)' /\ Holders(id)' \subseteq Reached(id)
    OBVIOUS
  <2>1. CASE Adds(m.c) /\ m.c.id = id
    <3>1. m \in Reassigns(id)
      BY <1>5, <2>1 DEF Reassigns
    <3> QED BY <1>4, <3>1 DEF Reached
  <2>2. CASE ~(Adds(m.c) /\ m.c.id = id)
    BY <1>4, <2>2 DEF Reached
  <2> QED BY <2>1, <2>2
<1>7. RowsAreUsed'
  <2> SUFFICES ASSUME NEW n \in Nodes, NEW q \in tickets'[n] PROVE q.id \in used
    BY <1>1 DEF RowsAreUsed
  <2>1. n \in Reached(q.id)
    <3>1. n \in Holders(q.id)'
      BY DEF Holders
    <3> QED BY <1>6, <3>1
  <2> QED BY <2>1 DEF Reached, Reassigns, Holders, CopyInv, RowsAreUsed, CommitsKnown
<1>8. CommitsKnown'
  BY <1>1, <1>2 DEF CommitsKnown, CopyInv
<1>9. ASSUME NEW t \in Tasks
      PROVE  ReadOnce(t)' /\ OrphansDiffer(t)' /\ \A id : t \in Spent(id) => t \in Spent(id)'
  BY <1>1, <1>6, TaskKeeps DEF CopyInv
<1>10. CopiesPaid'
  <2> SUFFICES ASSUME NEW id \in Ids PROVE Cardinality(Reached(id))' <= 1 + Cardinality(Spent(id))'
    BY DEF CopiesPaid
  <2>1. Reassigns(id)' \subseteq Reassigns(id)
    BY <1>2 DEF Reassigns
  <2>2. Reached(id)' \subseteq Reached(id)
    BY <1>6, <2>1 DEF Reached
  <2>3. Spent(id) \subseteq Spent(id)'
    BY <1>9 DEF Spent
  <2> QED BY <1>0, <2>2, <2>3, PaidKept DEF CopyInv
<1> QED BY <1>4, <1>7, <1>8, <1>9, <1>10 DEF CopyInv

LEMMA RedistributionCopies ==
    ASSUME CopyInv, TypeInv', NEW t \in Tasks, Redistribution(t)
    PROVE  CopyInv'
<1>0. task \in [Tasks -> TaskRecord] /\ seen = [q \in Nodes \cup Tasks |-> seen[q]]
  BY DEF CopyInv, TypeInv, TypeOK, TaskRecord
<1>1. ASSUME UNCHANGED <<tickets, commits, used, asked>>, Fewer(task[t], task'[t]),
             \A s \in Tasks : s # t => task'[s] = task[s] /\ seen'[s] = seen[s]
      PROVE  CopyInv'
  BY <1>1, TablesStay
<1>2. CASE FindEngineers(t) \/ EndRedistribution(t)
  <2>1. /\ task[t].pc \in {"engineers", "reassign"} /\ UNCHANGED <<tickets, commits, used, asked>>
        /\ \/ task' = [task EXCEPT ![t].pc = "reassign"] /\ task[t].pc = "engineers"
           \/ task' = [task EXCEPT ![t].pc = "done"]
    BY <1>2 DEF FindEngineers, EndRedistribution, userVars, tableVars, listVars
  <2>2. Fewer(task[t], task'[t]) /\ \A s \in Tasks : s # t => task'[s] = task[s]
    <3>1. \E p \in {"reassign", "done"} :
             task' = [task EXCEPT ![t].pc = p] /\ (p = "reassign" => task[t].pc = "engineers")
      BY <2>1
    <3>2. PICK p \in {"reassign", "done"} :
             task' = [task EXCEPT ![t].pc = p] /\ (p = "reassign" => task[t].pc = "engineers")
      BY <3>1
    <3>3. /\ task'[t].pc = p /\ task'[t].dead = task[t].dead
          /\ task'[t].orphans = task[t].orphans
          /\ \A s \in Tasks : s # t => task'[s] = task[s]
      BY <1>0, <3>2 DEF TaskRecord
    <3> QED BY <3>2, <3>3 DEF Fewer
  <2>3. \A s \in Tasks : s # t => seen'[s] = seen[s]
    BY <1>0, <1>2 DEF FindEngineers, EndRedistribution, listVars
  <2> QED BY <1>1, <2>1, <2>2, <2>3
<1>3. ASSUME NEW r \in task[t].orphans, NEW e \in Engineers, ReassignFails(t, r, e) PROVE CopyInv'
  <2>1. /\ task[t].pc = "reassign" /\ UNCHANGED <<tickets, commits, used, asked>>
        /\ task' = [task EXCEPT ![t].orphans = @ \ {r}] /\ seen' = [seen EXCEPT ![t] = @ \ {e}]
    BY <1>3 DEF ReassignFails, NextOrphan, userVars, tableVars
  <2>2. Fewer(task[t], task'[t])
        /\ \A s \in Tasks : s # t => task'[s] = task[s] /\ seen'[s] = seen[s]
    BY <1>0, <2>1 DEF Fewer, TaskRecord
  <2> QED BY <1>1, <2>1, <2>2
<1> QED BY <1>2, <1>3, StartCopies, FindCopies, ReassignCopies DEF Redistribution

LEMMA EnvironmentCopies ==
    ASSUME CopyInv, TypeInv',
           \/ UNCHANGED vars
           \/ \E m \in DOMAIN commits : Lose(m)
           \/ \E p \in Nodes \cup Tasks : QueryTimeout(p)
           \/ \E n \in Nodes : Restart(n) \/ Crash(n)
    PROVE  CopyInv'
<1> USE DEF userVars, tableVars, listVars, nodeVars
<1>0. /\ asked \in [Nodes \cup Tasks -> SUBSET Nodes] /\ task \in [Tasks -> TaskRecord]
      /\ DOMAIN commits \subseteq [to : Nodes, c : Operation] /\ IsABag(commits)
  BY DEF CopyInv, TypeInv, TypeOK, TaskRecord
<1>1. CASE UNCHANGED vars
  BY <1>1, TablesStay DEF vars
<1>2. ASSUME NEW m \in DOMAIN commits, Lose(m) PROVE CopyInv'
  <2>1. DOMAIN commits' \subseteq DOMAIN commits
    BY <1>0, <1>2, BagRemove DEF Lose
  <2> QED BY <1>2, <2>1, TablesStay DEF Lose
<1>3. ASSUME NEW p \in Nodes \cup Tasks, QueryTimeout(p) PROVE CopyInv'
  <2>1. \A t \in Tasks : asked'[t] \subseteq asked[t]
    BY <1>0, <1>3 DEF QueryTimeout
  <2> QED BY <1>3, <2>1, TablesStay DEF QueryTimeout
<1>4. ASSUME NEW n \in Nodes, Restart(n) PROVE CopyInv'
  BY <1>4, TablesStay DEF Restart
<1>5. ASSUME NEW n \in Nodes, Crash(n) PROVE CopyInv'
  <2>1. tickets' = tickets /\ used' = used /\ seen' = seen /\ DOMAIN commits' \subseteq DOMAIN commits
    BY <1>5 DEF Crash
  <2>2. \A t \in Tasks : asked'[t] \subseteq asked[t]
    BY <1>0, <1>5 DEF Crash
  <2>3. ASSUME NEW t \in Tasks PROVE task'[t] = task[t] \/ Fewer(task[t], task'[t])
    <3>1. task'[t] = task[t] \/ task'[t] = [task[t] EXCEPT !.pc = "cut short"]
      BY <1>5 DEF Crash
    <3> QED BY <1>0, <3>1 DEF Fewer, TaskRecord
  <2> QED BY <2>1, <2>2, <2>3, TablesStay
<1> QED BY <1>1, <1>2, <1>3, <1>4, <1>5

LEMMA CopyStep == CopyInv /\ [Next]_vars => CopyInv'
<1> SUFFICES ASSUME CopyInv, [Next]_vars PROVE CopyInv'
  OBVIOUS
<1>0. TypeInv'
  BY TypeStep DEF CopyInv
<1>1. ASSUME NEW n \in Nodes, Raise(n) \/ Close(n) \/ AcquireFails(n) \/ ProposalFails(n)
      PROVE  CopyInv'
  BY <1>0, <1>1, UserCopies, InsertCopies DEF Raise
<1>2. ASSUME NEW p \in Nodes \cup Tasks, NEW k \in Nodes, Answer(p, k) PROVE CopyInv'
  BY <1>0, <1>2, AnswerCopies
<1>3. ASSUME NEW m \in DOMAIN commits, HandleCommit(m) PROVE CopyInv'
  BY <1>0, <1>3, HandleCopies
<1>4. ASSUME NEW t \in Tasks, Redistribution(t) PROVE CopyInv'
  BY <1>0, <1>4, RedistributionCopies
<1>5. CASE \/ UNCHANGED vars
           \/ \E m \in DOMAIN commits : Lose(m)
           \/ \E p \in Nodes \cup Tasks : QueryTimeout(p)
           \/ \E n \in Nodes : Restart(n) \/ Crash(n)
  BY <1>0, <1>5, EnvironmentCopies
<1> QED BY <1>1, <1>2, <1>3, <1>4, <1>5 DEF Next, ReliableNext

LEMMA InitialCopies == Init => CopyInv
<1> SUFFICES ASSUME Init PROVE CopyInv
  OBVIOUS
<1>0. TypeInv
  BY InitialTypes
<1>1. \A n \in Nodes : tickets[n] = {}
  BY DEF Init
<1>2. DOMAIN commits = {}
  BY DEF Init, EmptyBag, SetToBag
<1>3. \A t \in Tasks : task[t].pc = "ready"
  BY DEF Init, NewTask
<1>4. RowsDiffer /\ RowsAreUsed /\ CommitsKnown
  BY <1>1, <1>2 DEF RowsDiffer, RowsAreUsed, CommitsKnown
<1>5. \A t \in Tasks : ReadOnce(t) /\ OrphansDiffer(t)
  BY <1>3 DEF ReadOnce, OrphansDiffer
<1>6. CopiesPaid
  <2> SUFFICES ASSUME NEW id \in Ids PROVE Cardinality(Reached(id)) <= 1 + Cardinality(Spent(id))
    BY DEF CopiesPaid
  <2>1. Reached(id) = {} /\ Spent(id) = {}
    BY <1>1, <1>2 DEF Reached, Reassigns, Holders, Spent
  <2> QED BY <2>1, FS_EmptySet
<1> QED BY <1>0, <1>4, <1>5, <1>6 DEF CopyInv

\* A ticket has rows at no more nodes than one and the redistributions that were run
\* for a node that has it (RedistributeTickets, ticket_service.go:301-354): a
\* redistribution reassigns what it read once at the node given up, under the same
\* id, and every other step keeps rows where they are.
THEOREM CopiedByRedistribution == Spec => []CopiesOnlyOfGivenUp
<1>1. Init => CopyInv
  BY InitialCopies
<1>2. CopyInv /\ [Next]_vars => CopyInv'
  BY CopyStep
<1>3. CopyInv => CopiesOnlyOfGivenUp
  <2> SUFFICES ASSUME CopyInv, NEW id \in Ids
               PROVE  Cardinality(Holders(id)) <=
                        1 + Cardinality({t \in Tasks : task[t].dead \in Holders(id)})
    BY DEF CopiesOnlyOfGivenUp
  <2> DEFINE D == {t \in Tasks : task[t].dead \in Holders(id)}
  <2>1. IsFiniteSet(D)
    BY ActorsAssumption, FS_Subset
  <2>2. Holders(id) \subseteq Reached(id) /\ Spent(id) \subseteq D
    BY DEF Reached, Spent
  <2>3. IsFiniteSet(Reached(id)) /\ Cardinality(Reached(id)) <= 1 + Cardinality(Spent(id))
    BY FiniteParts DEF CopyInv, TypeInv, CopiesPaid
  <2> HIDE DEF D
  <2>4. Cardinality(Holders(id)) <= 1 + Cardinality(D)
    BY <2>1, <2>2, <2>3, CountKept
  <2> QED BY <2>4 DEF D
<1> QED BY <1>1, <1>2, <1>3, PTL DEF Spec

-----------------------------------------------------------------------------
(* No engineer has two tickets, but for the exceptions noted in doubtful:  *)
(* for any raises and closes, whatever fails, is lost or late, and with    *)
(* crashes and redistributions.  A ticket is busy while it is open and its *)
(* close is not under way.                                                 *)

Pending(op, e) == \E m \in Underway : m.c.op = op /\ m.c.ing = e /\ m.to = Sucursal[e]
Freeing(e) == Pending("CLOSE_TICKET", e)
Marking(e) == Pending("UPDATE_INGENIERO_DISPONIBLE", e)
Raising(e) == \E n \in Nodes : user[n].pc \in {"folio", "mark"} /\ user[n].engineer = e
Taken(e) == ~available[e] \/ Marking(e) \/ Raising(e)
Offered(n, e) == \/ user[n].pc = "engineers" /\ e \in seen[n]
                 \/ user[n].pc = "insert" /\ user[n].engineer = e
Closing(n, id) == \E m \in Underway : m.to = n /\ m.c.op = "CLOSE_TICKET" /\ m.c.id = id

\* The lock is the raise's from the query of the engineers on.
Places == \A n \in Nodes :
    user[n].pc \in {"engineers", "insert", "folio", "mark"} => inside = {n}
\* What is shown, or is to be closed, has been inserted.
ClosesKnown ==
    /\ \A n \in Nodes :
        /\ user[n].pc = "tickets" => \A s \in seen[n] : s.row.id \in used
        /\ user[n].pc \in {"close", "closing"} => user[n].ticket \in used
    /\ \A m \in DOMAIN commits : m.c.op = "CLOSE_TICKET" => m.c.id \in used
AddedDoubted == \A m \in DOMAIN commits : Adds(m.c) => m.c.ing \in doubtful

\* An open ticket has one row, and its close is on its way to that row.
OneOpenRow(e) == \A id \in Ids, n, k \in Nodes : Open(n, id, e) /\ Open(k, id, e) => n = k
ClosesReach(e) == \A id \in Ids, n \in Nodes : Open(n, id, e) /\ BeingClosed(id) => Closing(n, id)
OneBusy(e) == \A id, j \in Ids : Busy(id, e) /\ Busy(j, e) => id = j
\* A busy engineer is marked, or will be before the next query reads his row.
BusyTaken(e) == \A id \in Ids : Busy(id, e) => Taken(e)
FreedIsFree(e) == \A id \in Ids : Freeing(e) => ~Busy(id, e)
\* Who has been read as free is free, and stays so until the lock is released.
OfferedIsFree(e) == \A n \in Nodes, id \in Ids : Offered(n, e) => ~Freeing(e) /\ ~Busy(id, e)

Sound(e) ==
    /\ OneOpenRow(e) /\ ClosesReach(e)
    /\ OneBusy(e) /\ BusyTaken(e) /\ FreedIsFree(e) /\ OfferedIsFree(e)

AssignInv ==
    /\ CopyInv /\ Places /\ ClosesKnown /\ AddedDoubted
    /\ \A e \in Engineers \ doubtful : Sound(e)

\* A step after which no more is under way than before: what was to be closed was
\* closed, and who has a ticket remains marked.
LEMMA Shrinks ==
    ASSUME NEW e, Sound(e), Underway' \subseteq Underway,
           \A n \in Nodes, id \in Ids : Open(n, id, e)' => Open(n, id, e),
           \A m \in Underway :
                m \in Underway' \/ m.c.op # "CLOSE_TICKET" \/ ~Open(m.to, m.c.id, e)',
           \A id \in Ids : Busy(id, e) /\ Taken(e) => Taken(e)',
           \A n \in Nodes, id \in Ids :
                Offered(n, e)' => Offered(n, e) \/ (~Freeing(e) /\ ~Busy(id, e))
    PROVE  Sound(e)'
<1> USE DEF Sound
<1>1. \A id : BeingClosed(id)' => BeingClosed(id)
  BY DEF BeingClosed
<1>2. ASSUME NEW id \in Ids, NEW n \in Nodes, Open(n, id, e)', BeingClosed(id)
      PROVE  Closing(n, id)' /\ BeingClosed(id)'
  <2>1. PICK m \in Underway : m.to = n /\ m.c.op = "CLOSE_TICKET" /\ m.c.id = id
    BY <1>2 DEF ClosesReach, Closing
  <2>2. m \in Underway'
    BY <1>2, <2>1
  <2> QED BY <2>1, <2>2 DEF Closing, BeingClosed
<1>3. \A id \in Ids : Busy(id, e)' => Busy(id, e)
  BY <1>2 DEF Busy
<1>4. Freeing(e)' => Freeing(e)
  BY DEF Freeing, Pending
<1>5. OneOpenRow(e)'
  BY DEF OneOpenRow
<1>6. ClosesReach(e)'
  BY <1>1, <1>2 DEF ClosesReach
<1>7. OneBusy(e)' /\ BusyTaken(e)' /\ FreedIsFree(e)' /\ OfferedIsFree(e)'
  BY <1>3, <1>4 DEF OneBusy, BusyTaken, FreedIsFree, OfferedIsFree
<1> QED BY <1>5, <1>6, <1>7

\* A step that sends COMMITs: a close frees the engineer of the ticket it closes.
LEMMA Grows ==
    ASSUME NEW e, Sound(e), Underway \subseteq Underway',
           \A n \in Nodes, id \in Ids : Open(n, id, e)' => Open(n, id, e),
           \A m \in Underway' : m \in Underway \/ m.c.op # "CLOSE_TICKET"
                \/ \A n \in Nodes : Open(n, m.c.id, e)' => Closing(n, m.c.id)',
           \A id \in Ids : Busy(id, e) /\ Taken(e) => Taken(e)',
           Freeing(e)' => Freeing(e) \/ \E id \in Ids : Busy(id, e) /\ BeingClosed(id)',
           \A n \in Nodes : Offered(n, e)' => Offered(n, e)
    PROVE  Sound(e)'
<1> USE DEF Sound
<1>1. \A id : BeingClosed(id) => BeingClosed(id)'
  BY DEF BeingClosed
<1>2. \A id \in Ids : Busy(id, e)' => Busy(id, e) /\ ~BeingClosed(id)'
  BY <1>1 DEF Busy
<1>3. OneOpenRow(e)'
  BY DEF OneOpenRow
<1>4. ClosesReach(e)'
  <2> SUFFICES ASSUME NEW id \in Ids, NEW n \in Nodes, Open(n, id, e)', BeingClosed(id)'
               PROVE  Closing(n, id)'
    BY DEF ClosesReach
  <2>1. PICK m \in Underway' : m.c.op = "CLOSE_TICKET" /\ m.c.id = id
    BY DEF BeingClosed
  <2>2. CASE m \in Underway
    <3>1. Closing(n, id)
      BY <2>1, <2>2 DEF ClosesReach, BeingClosed
    <3> QED BY <3>1 DEF Closing
  <2>3. CASE m \notin Underway
    BY <2>1, <2>3
  <2> QED BY <2>2, <2>3
<1>5. OneBusy(e)' /\ BusyTaken(e)'
  BY <1>2 DEF OneBusy, BusyTaken
<1>6. FreedIsFree(e)'
  BY <1>2 DEF FreedIsFree, OneBusy
<1>7. OfferedIsFree(e)'
  BY <1>2 DEF OfferedIsFree
<1> QED BY <1>3, <1>4, <1>5, <1>6, <1>7

\* The own close of a user, and those of the others.
Own(n) == {x \in {To(n, CloseOf(n))} : user[n].pc = "closing"}
Others(n) == {To(k, CloseOf(k)) : k \in {k \in Nodes \ {n} : user[k].pc = "closing"}}

LEMMA UnderwayParts ==
    ASSUME NEW n \in Nodes
    PROVE  /\ Underway = DOMAIN commits \cup Own(n) \cup Others(n)
           /\ Underway' = DOMAIN commits' \cup Own(n)' \cup Others(n)'
           /\ (\A m \in Nodes : m # n => user'[m] = user[m]) => Others(n)' = Others(n)
<1>1. /\ Underway = DOMAIN commits \cup Own(n) \cup Others(n)
      /\ Underway' = DOMAIN commits' \cup Own(n)' \cup Others(n)'
  BY DEF Underway, Own, Others
<1>2. ASSUME \A m \in Nodes : m # n => user'[m] = user[m] PROVE Others(n)' = Others(n)
  <2>1. \A k \in Nodes \ {n} : user'[k] = user[k] /\ CloseOf(k)' = CloseOf(k)
    BY <1>2 DEF CloseOf
  <2> QED BY <2>1 DEF Others
<1> QED BY <1>1, <1>2

\* A step that touches no table and no message.
LEMMA Looks ==
    ASSUME NEW e, Sound(e), UNCHANGED <<tickets, available>>, Underway' = Underway,
           Raising(e) => Raising(e)',
           \A n \in Nodes, id \in Ids :
                Offered(n, e)' => Offered(n, e) \/ (~Freeing(e) /\ ~Busy(id, e))
    PROVE  Sound(e)'
<1>1. \A n \in Nodes, id \in Ids : Open(n, id, e)' => Open(n, id, e)
  BY DEF Open
<1>2. Marking(e) => Marking(e)'
  BY DEF Marking, Pending
<1>3. Taken(e) => Taken(e)'
  BY <1>2 DEF Taken
<1> QED BY <1>1, <1>3, Shrinks

LEMMA OneLooks ==
    ASSUME NEW e, Sound(e), NEW n \in Nodes, UNCHANGED <<tickets, available, commits>>,
           \A m \in Nodes : m # n => user'[m] = user[m] /\ seen'[m] = seen[m],
           user[n].pc # "closing", user'[n].pc # "closing",
           user[n].pc \in {"folio", "mark"} /\ user[n].engineer = e =>
                user'[n].pc \in {"folio", "mark"} /\ user'[n].engineer = e,
           Offered(n, e)' => Offered(n, e)
    PROVE  Sound(e)'
<1>1. Underway' = Underway
  <2>1. Own(n) = {} /\ Own(n)' = {}
    BY DEF Own
  <2> QED BY <2>1, UnderwayParts
<1>2. Raising(e) => Raising(e)'
  BY DEF Raising
<1>3. \A m \in Nodes : Offered(m, e)' => Offered(m, e)
  BY DEF Offered
<1> QED BY <1>1, <1>2, <1>3, Looks

LEMMA RaiseLooks ==
    ASSUME AssignInv, NEW n \in Nodes, NEW e, Sound(e), e \notin doubtful',
           \/ RaiseTicket(n) \/ Acquire(n) \/ (\E f \in Engineers : Choose(n, f)) \/ NoEngineer(n)
           \/ AcquireFails(n) \/ InsertFails(n) \/ FolioFails(n) \/ MarkFails(n)
    PROVE  Sound(e)'
<1> USE DEF userVars, tableVars, listVars
<1>0. /\ user \in [Nodes -> UserRecord] /\ user[n] \in UserRecord
      /\ asked \in [Nodes \cup Tasks -> SUBSET Nodes]
      /\ seen = [p \in Nodes \cup Tasks |-> seen[p]]
  BY DEF AssignInv, CopyInv, TypeInv, TypeOK, UserRecord
<1>1. ASSUME AttemptFails(n)
      PROVE  /\ \A m \in Nodes : m # n => user'[m] = user[m]
             /\ user'[n].pc \in {"acquire", "menu"}
  BY <1>0, <1>1 DEF AttemptFails, UserRecord, NewUser
<1>2. CASE RaiseTicket(n)
  <2>1. /\ user[n].pc = "menu" /\ user'[n].pc = "acquire"
        /\ \A m \in Nodes : m # n => user'[m] = user[m]
        /\ UNCHANGED <<tickets, available, commits, seen>>
    BY <1>0, <1>2 DEF RaiseTicket, UserRecord
  <2> QED BY <2>1, OneLooks DEF Offered
<1>3. CASE Acquire(n)
  <2>1. /\ user[n].pc = "acquire" /\ user'[n].pc = "engineers" /\ seen'[n] = {}
        /\ \A m \in Nodes : m # n => user'[m] = user[m] /\ seen'[m] = seen[m]
        /\ UNCHANGED <<tickets, available, commits>>
    BY <1>0, <1>3 DEF Acquire, Ask, UserRecord
  <2> QED BY <2>1, OneLooks DEF Offered
<1>4. CASE \E f \in Engineers : Choose(n, f)
  <2> PICK f \in Engineers : Choose(n, f)
    BY <1>4
  <2>1. /\ user[n].pc = "engineers" /\ user'[n].pc = "insert" /\ user'[n].engineer = f
        /\ \A m \in Nodes : m # n => user'[m] = user[m] /\ seen'[m] = seen[m]
        /\ UNCHANGED <<tickets, available, commits>>
    BY <1>0 DEF Choose, Forget, UserRecord
  <2>2. f \in seen[n]
    BY DEF Choose, Candidates
  <2> QED BY <2>1, <2>2, OneLooks DEF Offered
<1>5. CASE NoEngineer(n) \/ AcquireFails(n) \/ InsertFails(n)
  <2>1. /\ user[n].pc \in {"engineers", "acquire", "insert"} /\ AttemptFails(n)
        /\ UNCHANGED <<tickets, available, commits, seen>>
    BY <1>5 DEF NoEngineer, AcquireFails, InsertFails
  <2> QED BY <1>1, <2>1, OneLooks DEF Offered
<1>6. CASE FolioFails(n)
  <2>1. /\ user[n].pc = "folio" /\ user'[n].pc = "mark" /\ user'[n].engineer = user[n].engineer
        /\ \A m \in Nodes : m # n => user'[m] = user[m]
        /\ UNCHANGED <<tickets, available, commits, seen>>
    BY <1>0, <1>6 DEF FolioFails, UserRecord
  <2> QED BY <2>1, OneLooks DEF Offered
<1>7. CASE MarkFails(n)
  <2>1. /\ user[n].pc = "mark" /\ user'[n].pc = "menu"
        /\ \A m \in Nodes : m # n => user'[m] = user[m]
        /\ UNCHANGED <<tickets, available, commits, seen>>
    BY <1>0, <1>7 DEF MarkFails, Return, UserRecord, NewUser
  <2>2. user[n].engineer # e
    BY <1>7 DEF MarkFails
  <2> QED BY <2>1, <2>2, OneLooks DEF Offered
<1> QED BY <1>2, <1>3, <1>4, <1>5, <1>6, <1>7

LEMMA CloseLooks ==
    ASSUME AssignInv, NEW n \in Nodes, NEW e, Sound(e),
           \/ ListOpen(n) \/ NothingOpen(n)
           \/ \E s \in seen[n] : user[n].pc = "tickets" /\ Select(n, s)
           \/ CloseFails(n) /\ user[n].pc = "close"
    PROVE  Sound(e)'
<1> USE DEF userVars, tableVars, listVars
<1>0. /\ user \in [Nodes -> UserRecord] /\ user[n] \in UserRecord
      /\ asked \in [Nodes \cup Tasks -> SUBSET Nodes]
      /\ seen = [p \in Nodes \cup Tasks |-> seen[p]]
  BY DEF AssignInv, CopyInv, TypeInv, TypeOK, UserRecord
<1>1. ASSUME UNCHANGED <<tickets, available, commits>>,
             \A m \in Nodes : m # n => user'[m] = user[m] /\ seen'[m] = seen[m],
             user[n].pc \in {"menu", "tickets", "close"},
             user'[n].pc \in {"menu", "tickets", "close"}
      PROVE  Sound(e)'
  BY <1>1, OneLooks DEF Offered
<1>2. CASE ListOpen(n)
  <2>1. /\ user[n].pc = "menu" /\ user'[n].pc = "tickets"
        /\ \A m \in Nodes : m # n => user'[m] = user[m] /\ seen'[m] = seen[m]
        /\ UNCHANGED <<tickets, available, commits>>
    BY <1>0, <1>2 DEF ListOpen, Ask, UserRecord
  <2> QED BY <1>1, <2>1
<1>3. CASE NothingOpen(n) \/ (CloseFails(n) /\ user[n].pc = "close")
  <2>1. /\ user[n].pc \in {"tickets", "close"} /\ user' = [user EXCEPT ![n] = NewUser]
        /\ UNCHANGED <<tickets, available, commits, seen>>
    BY <1>3 DEF NothingOpen, CloseFails
  <2>2. user'[n].pc = "menu" /\ \A m \in Nodes : m # n => user'[m] = user[m]
    BY <1>0, <2>1 DEF NewUser
  <2> QED BY <1>1, <2>1, <2>2
<1>4. CASE \E s \in seen[n] : user[n].pc = "tickets" /\ Select(n, s)
  <2> PICK s \in seen[n] : user[n].pc = "tickets" /\ Select(n, s)
    BY <1>4
  <2>1. /\ user'[n].pc = "close"
        /\ \A m \in Nodes : m # n => user'[m] = user[m] /\ seen'[m] = seen[m]
        /\ UNCHANGED <<tickets, available, commits>>
    BY <1>0 DEF Select, Forget, UserRecord
  <2> QED BY <1>1, <2>1
<1> QED BY <1>2, <1>3, <1>4

\* Who is shown to a raise as free is free: he is not being raised, for the lock is
\* the raise's, and what is on its way to his row would have put him in doubt.
LEMMA AnswerSound ==
    ASSUME AssignInv, NEW p \in Nodes \cup Tasks, NEW k \in Nodes, Answer(p, k),
           NEW e \in Engineers, Sound(e), e \notin doubtful'
    PROVE  Sound(e)'
<1>0. /\ asked \in [Nodes \cup Tasks -> SUBSET Nodes]
      /\ seen = [q \in Nodes \cup Tasks |-> seen[q]]
      /\ UNCHANGED <<tickets, commits, available, user>>
  BY DEF AssignInv, CopyInv, TypeInv, TypeOK, Answer, userVars
<1>1. /\ seen'[p] = seen[p] \cup LocalRows(p, k)
      /\ \A q \in Nodes \cup Tasks : q # p => seen'[q] = seen[q]
  BY <1>0 DEF Answer
<1>2. Underway' = Underway
  BY <1>0 DEF Underway, CloseOf
<1>3. Raising(e)' <=> Raising(e)
  BY <1>0 DEF Raising
<1>4. ASSUME NEW n \in Nodes, NEW id \in Ids, Offered(n, e)', ~Offered(n, e)
      PROVE  ~Freeing(e) /\ ~Busy(id, e)
  <2>1. n = p /\ user[p].pc = "engineers" /\ e \in LocalRows(p, k)
    BY <1>0, <1>1, <1>4 DEF Offered
  <2>2. e \in LocalEngineers(k)
    BY <2>1 DEF LocalRows
  <2>3. available[e] /\ Sucursal[e] = k
    BY <2>2 DEF LocalEngineers
  <2>4. ~Freeing(e) /\ ~Marking(e)
    <3>1. e \notin ReadEarly(p, k)
      BY DEF Answer
    <3> QED BY <2>1, <2>2, <2>3, <3>1 DEF ReadEarly, Freeing, Marking, Pending
  <2>5. ~Raising(e)
    <3> SUFFICES ASSUME NEW m \in Nodes, user[m].pc \in {"folio", "mark"} PROVE FALSE
      BY DEF Raising
    <3>1. inside = {m} /\ inside = {p}
      BY <2>1 DEF AssignInv, Places
    <3>2. m = p
      BY <3>1
    <3> QED BY <2>1, <3>2
  <2> QED BY <2>3, <2>4, <2>5 DEF Sound, BusyTaken, Taken
<1> QED BY <1>0, <1>2, <1>3, <1>4, Looks

\* What the commit handler makes of the open rows, and of the engineers.
LEMMA OpenAfter ==
    ASSUME TypeOK, NEW k \in Nodes, NEW c \in Operation, CommitHandler(k, c)
    PROVE  /\ \A n \in Nodes : n # k => \A id, e : Open(n, id, e)' <=> Open(n, id, e)
           /\ c.op \in {"UPDATE_TICKET_FOLIO", "UPDATE_INGENIERO_DISPONIBLE"} =>
                \A id, e : Open(k, id, e)' <=> Open(k, id, e)
           /\ c.op = "CLOSE_TICKET" =>
                \A id, e : Open(k, id, e)' <=> Open(k, id, e) /\ id # c.id
           /\ c.op \in {"INSERT_TICKET", "REASSIGN_TICKET"} =>
                \A id, e : Open(k, id, e)' => Open(k, id, e) \/ (id = c.id /\ e = c.ing)
<1>1. tickets \in [Nodes -> SUBSET Row] /\ tickets' = [tickets EXCEPT ![k] = TicketsAfter(k, c)]
  BY DEF CommitHandler, TypeOK
<1> DEFINE T == tickets[k]
<1>2. T \subseteq Row
  BY <1>1
<1>3. tickets'[k] = TicketsAfter(k, c) /\ \A n \in Nodes : n # k => tickets'[n] = tickets[n]
  BY <1>1
<1>4. \A n \in Nodes : n # k => \A id, e : Open(n, id, e)' <=> Open(n, id, e)
  BY <1>3 DEF Open
<1>5. CASE c.op = "UPDATE_TICKET_FOLIO"
  <2> DEFINE f(r) == IF r.id = c.id THEN [r EXCEPT !.folio = c.ing] ELSE r
  <2>1. TicketsAfter(k, c) = {f(r) : r \in T}
    BY <1>5 DEF TicketsAfter
  <2>2. \A r \in T : f(r).id = r.id /\ f(r).ing = r.ing /\ f(r).estado = r.estado
    BY <1>2 DEF Row
  <2> HIDE DEF f
  <2>3. \A id, e : Open(k, id, e)' <=> Open(k, id, e)
    BY <1>3, <2>1, <2>2 DEF Open
  <2> QED BY <1>4, <1>5, <2>3
<1>6. CASE c.op = "UPDATE_INGENIERO_DISPONIBLE"
  <2>1. TicketsAfter(k, c) = T
    BY <1>6 DEF TicketsAfter
  <2>2. \A id, e : Open(k, id, e)' <=> Open(k, id, e)
    BY <1>3, <2>1 DEF Open
  <2> QED BY <1>4, <1>6, <2>2
<1>7. CASE c.op = "CLOSE_TICKET"
  <2> DEFINE f(r) == IF r.id = c.id THEN [r EXCEPT !.estado = "CERRADO"] ELSE r
  <2>1. TicketsAfter(k, c) = {f(r) : r \in T}
    BY <1>7 DEF TicketsAfter
  <2>2. \A r \in T : /\ f(r).id = r.id /\ f(r).ing = r.ing
                     /\ f(r).estado = IF r.id = c.id THEN "CERRADO" ELSE r.estado
    BY <1>2 DEF Row
  <2> HIDE DEF f
  <2>3. \A id, e : Open(k, id, e)' <=> Open(k, id, e) /\ id # c.id
    BY <1>3, <2>1, <2>2 DEF Open
  <2> QED BY <1>4, <1>7, <2>3
<1>8. CASE c.op \in {"INSERT_TICKET", "REASSIGN_TICKET"}
  <2>1. TicketsAfter(k, c) \in {T, T \cup {NewRow(c)}}
    BY <1>8 DEF TicketsAfter
  <2>2. NewRow(c).id = c.id /\ NewRow(c).ing = c.ing
    BY DEF NewRow
  <2>3. \A id, e : Open(k, id, e)' => Open(k, id, e) \/ (id = c.id /\ e = c.ing)
    BY <1>3, <2>1, <2>2 DEF Open
  <2> QED BY <1>4, <1>8, <2>3
<1> QED BY <1>5, <1>6, <1>7, <1>8 DEF Operation

LEMMA AvailableThen ==
    ASSUME TypeOK, NEW k \in Nodes, NEW c \in Operation, CommitHandler(k, c), NEW e \in Engineers
    PROVE  /\ c.op \notin {"UPDATE_INGENIERO_DISPONIBLE", "CLOSE_TICKET"} => available'[e] = available[e]
           /\ c.ing # e \/ Sucursal[e] # k => available'[e] = available[e]
           /\ c.ing = e /\ Sucursal[e] = k /\ c.op = "UPDATE_INGENIERO_DISPONIBLE" => ~available'[e]
  BY DEF CommitHandler, AvailableAfter, TypeOK

\* The COMMITs of a proposal come on top of what was under way.
LEMMA SendUnderway ==
    ASSUME TypeOK, NEW k \in Nodes, NEW c \in Operation, SendCommits(k, c),
           NEW n \in Nodes, \A m \in Nodes : m # n => user'[m] = user[m], Own(n)' = Own(n)
    PROVE  /\ Underway \subseteq Underway'
           /\ \A m \in Underway' : m \in Underway \/ (m.c = c /\ m.to # k /\ Concerns(c, m.to))
           /\ \A j \in AlivePeers(k) : Concerns(c, j) => To(j, c) \in Underway'
<1>1. Underway = DOMAIN commits \cup Own(n) \cup Others(n) /\ Others(n)' = Others(n)
  BY UnderwayParts
<1>2. Underway' = DOMAIN commits' \cup Own(n) \cup Others(n)
  BY <1>1, UnderwayParts
<1> QED BY <1>1, <1>2, CommitMessages

\* A proposal that closes nothing, and gives no ticket to the engineer.
LEMMA Sends ==
    ASSUME TypeOK, NEW k \in Nodes, NEW c \in Operation, CommitHandler(k, c),
           c.op \in {"UPDATE_TICKET_FOLIO", "UPDATE_INGENIERO_DISPONIBLE", "REASSIGN_TICKET"},
           NEW e \in Engineers, Sound(e), c.op = "REASSIGN_TICKET" => c.ing # e,
           Underway \subseteq Underway', \A m \in Underway' : m \in Underway \/ m.c = c,
           Raising(e) => Taken(e)',
           \A n \in Nodes : Offered(n, e)' => Offered(n, e)
    PROVE  Sound(e)'
<1>1. \A n \in Nodes, id \in Ids : Open(n, id, e)' => Open(n, id, e)
  BY OpenAfter
<1>2. ~available[e] => ~available'[e]
  BY AvailableThen
<1>3. Marking(e) => Marking(e)'
  BY DEF Marking, Pending
<1>4. Taken(e) => Taken(e)'
  BY <1>2, <1>3 DEF Taken
<1>5. Freeing(e)' => Freeing(e)
  BY DEF Freeing, Pending
<1>6. \A m \in Underway' : m \in Underway \/ m.c.op # "CLOSE_TICKET"
  OBVIOUS
<1> QED BY <1>1, <1>4, <1>5, <1>6, Grows

LEMMA UpdateSound ==
    ASSUME AssignInv, NEW n \in Nodes, UpdateFolio(n) \/ MarkEngineer(n),
           NEW e \in Engineers, Sound(e), e \notin doubtful'
    PROVE  Sound(e)'
<1> USE DEF userVars, listVars
<1>0. /\ user \in [Nodes -> UserRecord] /\ user[n] \in UserRecord /\ TypeOK
      /\ UserStage(n)
  BY DEF AssignInv, CopyInv, TypeInv, TypeOK, UserRecord
<1>1. CASE UpdateFolio(n)
  <2> DEFINE c == Op("UPDATE_TICKET_FOLIO", user[n].ticket, user[n].engineer, None)
  <2>1. c \in Operation /\ c.op = "UPDATE_TICKET_FOLIO"
    BY <1>0, <1>1 DEF UpdateFolio, UserStage, Op, Operation
  <2>2. /\ SendCommits(n, c) /\ CommitHandler(n, c) /\ seen' = seen
        /\ user[n].pc = "folio" /\ user'[n].pc = "mark" /\ user'[n].engineer = user[n].engineer
        /\ \A m \in Nodes : m # n => user'[m] = user[m]
    BY <1>0, <1>1 DEF UpdateFolio, Commit, UserRecord
  <2> HIDE DEF c
  <2>3. Own(n) = {} /\ Own(n)' = {}
    BY <2>2 DEF Own
  <2>4. Underway \subseteq Underway' /\ \A m \in Underway' : m \in Underway \/ m.c = c
    BY <1>0, <2>1, <2>2, <2>3, SendUnderway
  <2>5. Raising(e) => Taken(e)'
    BY <2>2 DEF Raising, Taken
  <2>6. \A m \in Nodes : Offered(m, e)' => Offered(m, e)
    BY <2>2 DEF Offered
  <2> QED BY <1>0, <2>1, <2>2, <2>4, <2>5, <2>6, Sends
<1>2. CASE MarkEngineer(n)
  <2> DEFINE c == Op("UPDATE_INGENIERO_DISPONIBLE", user[n].ticket, user[n].engineer, None)
  <2>1. c \in Operation /\ c.op = "UPDATE_INGENIERO_DISPONIBLE" /\ c.ing = user[n].engineer
    BY <1>0, <1>2 DEF MarkEngineer, UserStage, Op, Operation
  <2>2. /\ SendCommits(n, c) /\ CommitHandler(n, c) /\ seen' = seen
        /\ user[n].pc = "mark" /\ user'[n].pc = "menu"
        /\ \A m \in Nodes : m # n => user'[m] = user[m]
    BY <1>0, <1>2 DEF MarkEngineer, Return, Commit, UserRecord, NewUser
  <2> HIDE DEF c
  <2>3. Own(n) = {} /\ Own(n)' = {}
    BY <2>2 DEF Own
  <2>4. /\ Underway \subseteq Underway' /\ \A m \in Underway' : m \in Underway \/ m.c = c
        /\ \A j \in AlivePeers(n) : Concerns(c, j) => To(j, c) \in Underway'
    BY <1>0, <2>1, <2>2, <2>3, SendUnderway, SMTT(30)
  <2>5. ASSUME user[n].engineer = e PROVE Taken(e)'
    <3> DEFINE k == Sucursal[e]
    <3>0. k \in Nodes
      BY SucursalAssumption
    <3>1. k \in up
      <4> SUFFICES ASSUME k \notin up PROVE e \in Undone({To(j, c) : j \in Nodes \ up})
        BY <2>2 DEF SendCommits
      <4>1. To(k, c) \in {To(j, c) : j \in Nodes \ up}
        BY <3>0
      <4> QED BY <2>1, <2>5, <4>1 DEF Undone, To
    <3>2. CASE k = n
      <4>1. ~available'[e]
        BY <1>0, <2>1, <2>2, <2>5, <3>2, AvailableThen
      <4> QED BY <4>1 DEF Taken
    <3>3. CASE k # n
      <4>1. To(k, c) \in Underway'
        BY <2>1, <2>4, <2>5, <3>1, <3>3 DEF AlivePeers, Concerns
      <4>2. To(k, c).to = Sucursal[e] /\ To(k, c).c = c
        BY DEF To
      <4> QED BY <2>1, <2>5, <4>1, <4>2 DEF Taken, Marking, Pending
    <3> QED BY <3>2, <3>3
  <2>6. ASSUME user[n].engineer # e, Raising(e) PROVE Taken(e)'
    BY <2>2, <2>6 DEF Raising, Taken
  <2>7. Raising(e) => Taken(e)'
    BY <2>5, <2>6
  <2>8. \A m \in Nodes : Offered(m, e)' => Offered(m, e)
    BY <2>2 DEF Offered
  <2> QED BY <1>0, <2>1, <2>2, <2>4, <2>7, <2>8, Sends
<1> QED BY <1>1, <1>2

LEMMA ReassignSound ==
    ASSUME AssignInv, NEW t \in Tasks, NEW r \in task[t].orphans, NEW f \in Engineers,
           Reassign(t, r, f), NEW e \in Engineers, Sound(e), e \notin doubtful'
    PROVE  Sound(e)'
<1> DEFINE c == Op("REASSIGN_TICKET", r.id, f, Sucursal[f])
<1>0. /\ task \in [Tasks -> TaskRecord] /\ TypeOK /\ TaskStage(t)
      /\ seen = [q \in Nodes \cup Tasks |-> seen[q]]
  BY DEF AssignInv, CopyInv, TypeInv, TypeOK, TaskRecord
<1>1. /\ CommitHandler(task[t].host, c) /\ SendCommits(task[t].host, c) /\ user' = user
      /\ task[t].pc = "reassign" /\ seen' = [seen EXCEPT ![t] = @ \ {f}]
  BY DEF Reassign, NextOrphan, Commit, userVars
<1>2. r \in Row /\ task[t].host \in Nodes
  BY <1>0, <1>1 DEF TaskStage, TaskRecord
<1>k. PICK k \in Nodes : k = task[t].host
  BY <1>2
<1>3. c \in Operation /\ c.op = "REASSIGN_TICKET" /\ c.ing = f
  BY <1>2, SucursalAssumption DEF Op, Operation, Row
<1> HIDE DEF c
<1>4. c.ing # e
  BY <1>1, <1>3 DEF SendCommits, Misused
<1>5. Own(k)' = Own(k)
  BY <1>1 DEF Own, CloseOf
<1>6. Underway \subseteq Underway' /\ \A m \in Underway' : m \in Underway \/ m.c = c
  BY <1>0, <1>1, <1>k, <1>3, <1>5, SendUnderway
<1>7. Raising(e) => Taken(e)'
  BY <1>1 DEF Raising, Taken
<1>8. \A n \in Nodes : Offered(n, e)' => Offered(n, e)
  <2> SUFFICES ASSUME NEW n \in Nodes PROVE seen'[n] = seen[n]
    BY <1>1 DEF Offered
  <2>1. n # t
    BY ActorsAssumption
  <2> QED BY <1>0, <1>1, <2>1
<1> QED BY <1>0, <1>1, <1>k, <1>3, <1>4, <1>6, <1>7, <1>8, Sends

\* A close that is not too late frees the engineer of the ticket it closes, and
\* reaches every row of the ticket: if one is at a node that is down, its engineer
\* is in doubt.
LEMMA CloseSound ==
    ASSUME AssignInv, NEW n \in Nodes, CloseTicket(n),
           NEW e \in Engineers, Sound(e), e \notin doubtful'
    PROVE  Sound(e)'
<1> USE DEF userVars, listVars
<1>0. /\ user \in [Nodes -> UserRecord] /\ user[n] \in UserRecord /\ TypeOK /\ TypeInv
      /\ UserStage(n) /\ user[n].pc = "close"
  BY DEF AssignInv, CopyInv, TypeInv, TypeOK, UserRecord, CloseTicket
<1>a. CloseOf(n) \in Operation /\ CloseOf(n).op = "CLOSE_TICKET" /\ CloseOf(n).id \in Ids
  BY <1>0 DEF UserStage, CloseOf, Op, Operation
<1>b. PICK c \in Operation : c = CloseOf(n)
  BY <1>a
<1>1. c \in Operation /\ c.op = "CLOSE_TICKET" /\ c.id \in Ids
  BY <1>a, <1>b
<1>2. /\ user' = [user EXCEPT ![n].pc = "closing"] /\ SendCommits(n, c)
      /\ UNCHANGED <<tickets, available, seen>>
  BY <1>b DEF CloseTicket
<1>3. /\ user'[n].pc = "closing" /\ \A m \in Nodes : m # n => user'[m] = user[m]
      /\ user'[n].ticket = user[n].ticket /\ user'[n].engineer = user[n].engineer
  BY <1>0, <1>2 DEF UserRecord
<1>4. Own(n) = {} /\ Own(n)' = {To(n, c)}
  BY <1>0, <1>3, <1>b DEF Own, CloseOf
<1>5. /\ DOMAIN commits \subseteq DOMAIN commits'
      /\ \A m \in DOMAIN commits' : m \in DOMAIN commits \/ m.c = c
      /\ \A j \in AlivePeers(n) : Concerns(c, j) => To(j, c) \in DOMAIN commits'
  BY <1>0, <1>1, <1>2, CommitMessages
<1>6. Underway = DOMAIN commits \cup Others(n) /\ Underway' = DOMAIN commits' \cup {To(n, c)} \cup Others(n)
  <2>1. Underway = DOMAIN commits \cup Own(n) \cup Others(n) /\ Others(n)' = Others(n)
    BY <1>3, UnderwayParts
  <2>2. Underway' = DOMAIN commits' \cup Own(n)' \cup Others(n)'
    BY UnderwayParts
  <2> QED BY <1>4, <2>1, <2>2
<1>7. /\ Underway \subseteq Underway' /\ To(n, c) \in Underway'
      /\ \A m \in Underway' : m \in Underway \/ m.c = c
  <2>1. To(n, c).c = c
    BY DEF To
  <2> QED BY <1>5, <1>6, <2>1
<1>8. \A id : \A k \in Nodes : Open(k, id, e)' <=> Open(k, id, e)
  BY <1>2 DEF Open
<1>9. ASSUME NEW k \in Nodes, Open(k, c.id, e) PROVE Closing(k, c.id)'
  <2>1. k \in up
    <3> SUFFICES ASSUME k \notin up PROVE e \in Undone({To(j, c) : j \in Nodes \ up})
      BY <1>2 DEF SendCommits
    <3>1. To(k, c) \in {To(j, c) : j \in Nodes \ up} /\ To(k, c).to = k /\ To(k, c).c = c
      BY DEF To
    <3> QED BY <1>1, <1>9, <3>1 DEF Undone
  <2>2. To(k, c) \in Underway'
    <3>1. CASE k = n
      BY <1>7, <3>1
    <3>2. CASE k # n
      <4>1. Concerns(c, k)
        BY <1>1, <1>9 DEF Concerns, Open
      <4>2. To(k, c) \in DOMAIN commits'
        BY <1>5, <2>1, <3>2, <4>1 DEF AlivePeers
      <4> QED BY <1>6, <4>2
    <3> QED BY <3>1, <3>2
  <2> QED BY <1>1, <2>2 DEF Closing, To
<1>10. \A m \in Underway' : m \in Underway \/ m.c.op # "CLOSE_TICKET"
            \/ \A k \in Nodes : Open(k, m.c.id, e)' => Closing(k, m.c.id)'
  BY <1>7, <1>8, <1>9
<1>11. Freeing(e)' => Freeing(e) \/ (Busy(c.id, e) /\ BeingClosed(c.id)')
  <2> SUFFICES ASSUME Freeing(e)', ~Freeing(e) PROVE Busy(c.id, e) /\ BeingClosed(c.id)'
    OBVIOUS
  <2>1. c.ing = e
    BY <1>7 DEF Freeing, Pending
  <2>2. Busy(c.id, e)
    BY <1>1, <1>2, <2>1 DEF SendCommits, Misused
  <2>3. BeingClosed(c.id)'
    BY <1>1, <1>7 DEF BeingClosed, To
  <2> QED BY <2>2, <2>3
<1>12. Taken(e) => Taken(e)'
  <2>1. Raising(e) => Raising(e)'
    BY <1>0, <1>3 DEF Raising
  <2>2. Marking(e) => Marking(e)'
    BY <1>7 DEF Marking, Pending
  <2> QED BY <1>2, <2>1, <2>2 DEF Taken
<1>13. \A m \in Nodes : Offered(m, e)' => Offered(m, e)
  BY <1>0, <1>2, <1>3 DEF Offered
<1> QED BY <1>1, <1>7, <1>8, <1>10, <1>11, <1>12, <1>13, Grows

\* The engineer that was chosen is free when his ticket is inserted, and is offered
\* to nobody else.
LEMMA InsertSound ==
    ASSUME AssignInv, NEW n \in Nodes, NEW id \in Ids, InsertTicket(n, id),
           NEW e \in Engineers, Sound(e)
    PROVE  Sound(e)'
<1> DEFINE c == Op("INSERT_TICKET", id, user[n].engineer, n)
<1>0. /\ user \in [Nodes -> UserRecord] /\ user[n] \in UserRecord /\ TypeOK /\ TypeInv
      /\ UserStage(n) /\ user[n].pc = "insert" /\ id \notin used
  BY DEF AssignInv, CopyInv, TypeInv, TypeOK, UserRecord, InsertTicket
<1>1. /\ c \in Operation /\ c.op = "INSERT_TICKET" /\ c.id = id /\ c.suc = n
      /\ c.ing = user[n].engineer
  BY <1>0 DEF UserStage, Op, Operation
<1>2. /\ SendCommits(n, c) /\ CommitHandler(n, c) /\ seen' = seen
      /\ user'[n].pc = "folio" /\ user'[n].engineer = user[n].engineer
      /\ \A m \in Nodes : m # n => user'[m] = user[m]
  BY <1>0 DEF InsertTicket, Commit, listVars, UserRecord
<1> HIDE DEF c
<1>3. Underway' = Underway
  <2>1. Own(n) = {} /\ Own(n)' = {}
    BY <1>0, <1>2 DEF Own
  <2>2. Underway \subseteq Underway' /\ \A m \in Underway' : m \in Underway
    <3>1. \A j : j # n => ~Concerns(c, j)
      BY <1>1 DEF Concerns
    <3> QED BY <1>0, <1>1, <1>2, <2>1, <3>1, SendUnderway, SMTT(30)
  <2> QED BY <2>2
<1>4. \A j : (BeingClosed(j)' <=> BeingClosed(j))
  BY <1>3 DEF BeingClosed
<1>5. Freeing(e)' = Freeing(e) /\ Marking(e)' = Marking(e)
  BY <1>3 DEF Freeing, Marking, Pending
<1>6. \A m \in Nodes, j \in Ids : Open(m, j, e)' =>
            Open(m, j, e) \/ (m = n /\ j = id /\ e = user[n].engineer)
  BY <1>0, <1>1, <1>2, OpenAfter
<1>7. available'[e] = available[e]
  BY <1>0, <1>1, <1>2, AvailableThen
<1>8. \A m \in Nodes : user[m].pc \in {"engineers", "insert", "folio", "mark"} => m = n
  <2> SUFFICES ASSUME NEW m \in Nodes, user[m].pc \in {"engineers", "insert", "folio", "mark"}
               PROVE  m = n
    OBVIOUS
  <2>1. inside = {m} /\ inside = {n}
    BY <1>0 DEF AssignInv, Places
  <2> QED BY <2>1
<1>9. CASE e # user[n].engineer
  <2>1. \A m \in Nodes, j \in Ids : Open(m, j, e)' => Open(m, j, e)
    BY <1>6, <1>9
  <2>2. Taken(e) => Taken(e)'
    BY <1>2, <1>5, <1>7, <1>0 DEF Taken, Raising
  <2>3. \A m \in Nodes : Offered(m, e)' => Offered(m, e)
    BY <1>2 DEF Offered
  <2> QED BY <1>3, <2>1, <2>2, <2>3, Shrinks
<1>10. CASE e = user[n].engineer
  <2>1. \A j \in Ids : ~Freeing(e) /\ ~Busy(j, e)
    BY <1>0, <1>10 DEF Sound, OfferedIsFree, Offered
  <2>2. ~BeingClosed(id)
    <3> SUFFICES ASSUME NEW m \in Underway, m.c.op = "CLOSE_TICKET" PROVE m.c.id \in used
      BY <1>0 DEF BeingClosed
    <3>1. CASE m \in DOMAIN commits
      BY <3>1 DEF AssignInv, ClosesKnown
    <3>2. CASE \E k \in Nodes : user[k].pc = "closing" /\ m = To(k, CloseOf(k))
      BY <3>2 DEF AssignInv, ClosesKnown, To, CloseOf, Op
    <3> QED BY <3>1, <3>2 DEF Underway
  <2>3. \A m \in Nodes : ~Open(m, id, e)
    BY <2>1, <2>2 DEF Busy
  <2>4. \A m \in Nodes, j \in Ids : Open(m, j, e)' => (Open(m, j, e) /\ j # id) \/ (m = n /\ j = id)
    BY <1>6, <2>3
  <2>5. \A j \in Ids : Busy(j, e)' => j = id
    <3> SUFFICES ASSUME NEW j \in Ids, Busy(j, e)', j # id PROVE FALSE
      OBVIOUS
    <3>1. Busy(j, e)
      BY <1>4, <2>4 DEF Busy
    <3> QED BY <2>1, <3>1
  <2>6. OneOpenRow(e)'
    BY <2>4 DEF Sound, OneOpenRow
  <2>7. ClosesReach(e)'
    <3> SUFFICES ASSUME NEW j \in Ids, NEW m \in Nodes, Open(m, j, e)', BeingClosed(j)'
                 PROVE  Closing(m, j)'
      BY DEF ClosesReach
    <3>1. j # id /\ Open(m, j, e) /\ BeingClosed(j)
      BY <1>4, <2>2, <2>4
    <3>2. Closing(m, j)
      BY <3>1 DEF Sound, ClosesReach
    <3> QED BY <1>3, <3>2 DEF Closing
  <2>8. OneBusy(e)'
    BY <2>5 DEF OneBusy
  <2>9. BusyTaken(e)'
    BY <1>2, <1>10 DEF BusyTaken, Taken, Raising
  <2>10. FreedIsFree(e)'
    BY <1>5, <2>1 DEF FreedIsFree
  <2>11. OfferedIsFree(e)'
    <3>1. \A m \in Nodes : ~Offered(m, e)'
      BY <1>2, <1>8 DEF Offered
    <3> QED BY <3>1 DEF OfferedIsFree
  <2> QED BY <2>6, <2>7, <2>8, <2>9, <2>10, <2>11 DEF Sound
<1> QED BY <1>9, <1>10

\* The handler of a node applies what was under way to it.
LEMMA Applies ==
    ASSUME AssignInv, NEW m \in Underway, m.to \in Nodes, m.c \in Operation,
           CommitHandler(m.to, m.c), Underway' \subseteq Underway,
           \A x \in Underway : x = m \/ x \in Underway',
           NEW e \in Engineers, Sound(e), e \notin doubtful, Adds(m.c) => m \in DOMAIN commits,
           Raising(e) => Raising(e)',
           \A n \in Nodes : Offered(n, e)' => Offered(n, e)
    PROVE  Sound(e)'
<1> DEFINE k == m.to
           c == m.c
<1>0. TypeOK /\ k \in Nodes /\ c \in Operation /\ CommitHandler(k, c)
  BY DEF AssignInv, CopyInv, TypeInv
<1>1. Adds(c) => c.ing # e
  BY DEF AssignInv, AddedDoubted
<1>2. \A n \in Nodes, id \in Ids : Open(n, id, e)' =>
            Open(n, id, e) /\ (c.op = "CLOSE_TICKET" => n # k \/ id # c.id)
  <2> SUFFICES ASSUME NEW n \in Nodes, NEW id \in Ids, Open(n, id, e)'
               PROVE  Open(n, id, e) /\ (c.op = "CLOSE_TICKET" => n # k \/ id # c.id)
    OBVIOUS
  <2>1. CASE n # k
    BY <1>0, <2>1, OpenAfter
  <2>2. CASE n = k /\ c.op = "CLOSE_TICKET"
    BY <1>0, <2>2, OpenAfter
  <2>3. CASE n = k /\ c.op \in {"UPDATE_TICKET_FOLIO", "UPDATE_INGENIERO_DISPONIBLE"}
    BY <1>0, <2>3, OpenAfter
  <2>4. CASE n = k /\ c.op \in {"INSERT_TICKET", "REASSIGN_TICKET"}
    <3>1. c.ing # e
      BY <1>1, <2>4 DEF Adds
    <3> QED BY <1>0, <2>4, <3>1, OpenAfter
  <2> QED BY <1>0, <2>1, <2>2, <2>3, <2>4 DEF Operation
<1>3. c.op = "CLOSE_TICKET" => c.id \in Ids
  BY <1>0 DEF Operation
<1>4. \A x \in Underway : x \in Underway' \/ x.c.op # "CLOSE_TICKET" \/ ~Open(x.to, x.c.id, e)'
  BY <1>0, <1>2, <1>3
<1>5. ASSUME NEW id \in Ids, Busy(id, e), Taken(e) PROVE Taken(e)'
  <2>0. ~Freeing(e)
    BY <1>5 DEF Sound, FreedIsFree
  <2>1. CASE ~available[e]
    <3>1. ~(c.op = "CLOSE_TICKET" /\ c.ing = e /\ k = Sucursal[e])
      BY <2>0 DEF Freeing, Pending
    <3>2. ~available'[e]
      <4>1. CASE c.ing # e \/ Sucursal[e] # k
        BY <1>0, <2>1, <4>1, AvailableThen
      <4>2. CASE c.ing = e /\ Sucursal[e] = k /\ c.op # "UPDATE_INGENIERO_DISPONIBLE"
        BY <1>0, <2>1, <3>1, <4>2, AvailableThen
      <4>3. CASE c.ing = e /\ Sucursal[e] = k /\ c.op = "UPDATE_INGENIERO_DISPONIBLE"
        BY <1>0, <4>3, AvailableThen
      <4> QED BY <4>1, <4>2, <4>3
    <3> QED BY <3>2 DEF Taken
  <2>2. CASE Marking(e)
    <3>1. PICK x \in Underway : /\ x.c.op = "UPDATE_INGENIERO_DISPONIBLE"
                                /\ x.c.ing = e /\ x.to = Sucursal[e]
      BY <2>2 DEF Marking, Pending
    <3>2. CASE x = m
      <4>1. ~available'[e]
        BY <1>0, <3>1, <3>2, AvailableThen
      <4> QED BY <4>1 DEF Taken
    <3>3. CASE x # m
      BY <3>1, <3>3 DEF Taken, Marking, Pending
    <3> QED BY <3>2, <3>3
  <2>3. CASE Raising(e)
    BY <2>3 DEF Taken
  <2> QED BY <1>5, <2>1, <2>2, <2>3 DEF Taken
<1> QED BY <1>2, <1>4, <1>5, Shrinks

LEMMA HandleSound ==
    ASSUME AssignInv, NEW m \in DOMAIN commits, HandleCommit(m),
           NEW e \in Engineers, Sound(e), e \notin doubtful
    PROVE  Sound(e)'
<1>0. m \in [to : Nodes, c : Operation] /\ IsABag(commits)
  BY DEF AssignInv, CopyInv, TypeInv, TypeOK
<1>1. /\ CommitHandler(m.to, m.c) /\ commits' = commits (-) SetToBag({m})
      /\ user' = user /\ seen' = seen
  BY DEF HandleCommit, userVars, listVars
<1>2. DOMAIN commits' \subseteq DOMAIN commits /\ DOMAIN commits \ {m} \subseteq DOMAIN commits'
  BY <1>0, <1>1, BagRemove
<1>3. \A n \in Nodes : CloseOf(n)' = CloseOf(n)
  BY <1>1 DEF CloseOf
<1>4. /\ m \in Underway /\ Underway' \subseteq Underway
      /\ \A x \in Underway : x = m \/ x \in Underway'
  BY <1>1, <1>2, <1>3 DEF Underway
<1>5. /\ Raising(e) => Raising(e)'
      /\ \A n \in Nodes : Offered(n, e)' => Offered(n, e)
  BY <1>1 DEF Raising, Offered
<1> QED BY <1>0, <1>1, <1>4, <1>5, Applies

\* What is under way when the close of n has ended.
LEMMA CloseEnds ==
    ASSUME TypeInv, NEW n \in Nodes, user[n].pc = "closing", commits' = commits,
           user' = [user EXCEPT ![n] = NewUser], UNCHANGED listVars
    PROVE  /\ CloseOf(n) \in Operation /\ CloseOf(n).op = "CLOSE_TICKET"
           /\ To(n, CloseOf(n)) \in Underway /\ Underway' \subseteq Underway
           /\ \A x \in Underway : x = To(n, CloseOf(n)) \/ x \in Underway'
           /\ \A e : Raising(e) => Raising(e)'
           /\ \A e, k : k \in Nodes /\ Offered(k, e)' => Offered(k, e)
<1>0. user \in [Nodes -> UserRecord] /\ UserStage(n)
  BY DEF TypeInv, TypeOK, UserRecord
<1>1. CloseOf(n) \in Operation /\ CloseOf(n).op = "CLOSE_TICKET"
  BY <1>0 DEF UserStage, CloseOf, Op, Operation
<1>2. user'[n].pc = "menu" /\ \A m \in Nodes : m # n => user'[m] = user[m]
  BY <1>0 DEF NewUser
<1>3. Own(n) = {To(n, CloseOf(n))} /\ Own(n)' = {}
  BY <1>2 DEF Own
<1>4. Underway = DOMAIN commits \cup Own(n) \cup Others(n) /\ Others(n)' = Others(n)
  BY <1>2, UnderwayParts
<1>5. Underway' = DOMAIN commits' \cup Own(n)' \cup Others(n)'
  BY UnderwayParts
<1>6. \A e : Raising(e) => Raising(e)'
  BY <1>2 DEF Raising
<1>7. \A e, k : k \in Nodes /\ Offered(k, e)' => Offered(k, e)
  BY <1>2 DEF Offered, listVars
<1> QED BY <1>1, <1>3, <1>4, <1>5, <1>6, <1>7

LEMMA ApplySound ==
    ASSUME AssignInv, NEW n \in Nodes, ApplyClose(n),
           NEW e \in Engineers, Sound(e), e \notin doubtful
    PROVE  Sound(e)'
<1> DEFINE c == CloseOf(n)
<1>1. /\ user[n].pc = "closing" /\ CommitHandler(n, c) /\ commits' = commits
      /\ user' = [user EXCEPT ![n] = NewUser] /\ UNCHANGED listVars
  BY DEF ApplyClose
<1>2. /\ c \in Operation /\ c.op = "CLOSE_TICKET"
      /\ To(n, c) \in Underway /\ Underway' \subseteq Underway
      /\ \A x \in Underway : x = To(n, c) \/ x \in Underway'
      /\ Raising(e) => Raising(e)'
      /\ \A k \in Nodes : Offered(k, e)' => Offered(k, e)
  BY <1>1, CloseEnds DEF AssignInv, CopyInv
<1>3. To(n, c).to = n /\ To(n, c).c = c
  BY DEF To
<1> HIDE DEF c
<1>4. ~Adds(c)
  BY <1>2 DEF Adds
<1> QED BY <1>1, <1>2, <1>3, <1>4, Applies

\* What is lost puts in doubt whom it was for.
LEMMA Drops ==
    ASSUME NEW e \in Engineers, Sound(e), UNCHANGED <<tickets, available>>,
           NEW M, e \notin Undone(M), Underway' \subseteq Underway,
           \A x \in Underway : x \in M \/ x \in Underway',
           Raising(e) => Raising(e)',
           \A n \in Nodes : Offered(n, e)' => Offered(n, e)
    PROVE  Sound(e)'
<1>1. \A n \in Nodes, id \in Ids : Open(n, id, e)' => Open(n, id, e)
  BY DEF Open
<1>2. \A x \in Underway : x \in Underway' \/ x.c.op # "CLOSE_TICKET" \/ ~Open(x.to, x.c.id, e)'
  <2> SUFFICES ASSUME NEW x \in M, x.c.op = "CLOSE_TICKET" PROVE ~Open(x.to, x.c.id, e)'
    OBVIOUS
  <2>1. ~Open(x.to, x.c.id, e)
    BY DEF Undone
  <2> QED BY <2>1 DEF Open
<1>3. Marking(e) => Marking(e)'
  <2> SUFFICES ASSUME NEW x \in Underway, x.c.op = "UPDATE_INGENIERO_DISPONIBLE",
                      x.c.ing = e, x.to = Sucursal[e]
               PROVE  x \in Underway'
    BY DEF Marking, Pending
  <2>1. x \notin M
    BY DEF Undone
  <2> QED BY <2>1
<1>4. Taken(e) => Taken(e)'
  BY <1>3 DEF Taken
<1> QED BY <1>1, <1>2, <1>4, Shrinks

LEMMA LoseSound ==
    ASSUME AssignInv, NEW m \in DOMAIN commits, Lose(m),
           NEW e \in Engineers, Sound(e), e \notin doubtful'
    PROVE  Sound(e)'
<1>0. IsABag(commits)
  BY DEF AssignInv, CopyInv, TypeInv, TypeOK
<1>1. /\ commits' = commits (-) SetToBag({m}) /\ e \notin Undone({m})
      /\ user' = user /\ seen' = seen /\ UNCHANGED <<tickets, available>>
  BY DEF Lose, userVars, listVars
<1>2. DOMAIN commits' \subseteq DOMAIN commits /\ DOMAIN commits \ {m} \subseteq DOMAIN commits'
  BY <1>0, <1>1, BagRemove
<1>3. \A n \in Nodes : CloseOf(n)' = CloseOf(n)
  BY <1>1 DEF CloseOf
<1>4. Underway' \subseteq Underway /\ \A x \in Underway : x \in {m} \/ x \in Underway'
  BY <1>1, <1>2, <1>3 DEF Underway
<1>5. /\ Raising(e) => Raising(e)'
      /\ \A n \in Nodes : Offered(n, e)' => Offered(n, e)
  BY <1>1 DEF Raising, Offered
<1> QED BY <1>1, <1>4, <1>5, Drops

LEMMA CloseFailsSound ==
    ASSUME AssignInv, NEW n \in Nodes, CloseFails(n), user[n].pc = "closing",
           NEW e \in Engineers, Sound(e), e \notin doubtful'
    PROVE  Sound(e)'
<1>1. /\ commits' = commits /\ e \notin Undone({To(n, CloseOf(n))})
      /\ user' = [user EXCEPT ![n] = NewUser] /\ UNCHANGED listVars
      /\ UNCHANGED <<tickets, available>>
  BY DEF CloseFails
<1>2. /\ Underway' \subseteq Underway
      /\ \A x \in Underway : x \in {To(n, CloseOf(n))} \/ x \in Underway'
      /\ Raising(e) => Raising(e)'
      /\ \A k \in Nodes : Offered(k, e)' => Offered(k, e)
  BY <1>1, CloseEnds DEF AssignInv, CopyInv
<1> QED BY <1>1, <1>2, Drops

LEMMA CrashSound ==
    ASSUME AssignInv, NEW n \in Nodes, Crash(n),
           NEW e \in Engineers, Sound(e), e \notin doubtful'
    PROVE  Sound(e)'
<1>0. user \in [Nodes -> UserRecord]
  BY DEF AssignInv, CopyInv, TypeInv, TypeOK, UserRecord
<1> DEFINE M == {m \in Underway : m.to = n}
<1>1. /\ e \notin Undone(M) /\ ~(user[n].pc \in {"folio", "mark"} /\ user[n].engineer = e)
      /\ user' = [user EXCEPT ![n] = NewUser] /\ seen' = seen
      /\ UNCHANGED <<tickets, available>>
  BY DEF Crash
<1>2. DOMAIN commits' = {m \in DOMAIN commits : m.to # n}
  BY DEF Crash
<1>3. user'[n].pc = "menu" /\ \A m \in Nodes : m # n => user'[m] = user[m]
  BY <1>0, <1>1 DEF NewUser
<1>4. Own(n)' = {} /\ \A x \in Own(n) : x.to = n
  BY <1>3 DEF Own, To
<1>5. Underway = DOMAIN commits \cup Own(n) \cup Others(n) /\ Others(n)' = Others(n)
  BY <1>3, UnderwayParts
<1>6. Underway' = DOMAIN commits' \cup Own(n)' \cup Others(n)'
  BY UnderwayParts
<1>7. Underway' \subseteq Underway /\ \A x \in Underway : x \in M \/ x \in Underway'
  BY <1>2, <1>4, <1>5, <1>6
<1>8. Raising(e) => Raising(e)'
  BY <1>1, <1>3 DEF Raising
<1>9. \A m \in Nodes : Offered(m, e)' => Offered(m, e)
  BY <1>1, <1>3 DEF Offered
<1> QED BY <1>1, <1>7, <1>8, <1>9, Drops

LEMMA SoundStep ==
    ASSUME AssignInv, [Next]_vars, NEW e \in Engineers, e \notin doubtful'
    PROVE  Sound(e)'
<1>0. e \notin doubtful /\ Sound(e) /\ TypeInv
  BY DoubtfulTypes DEF AssignInv, CopyInv
<1>1. ASSUME NEW n \in Nodes, Raise(n) PROVE Sound(e)'
  BY <1>0, <1>1, RaiseLooks, InsertSound, UpdateSound DEF Raise
<1>2. ASSUME NEW n \in Nodes, Close(n) PROVE Sound(e)'
  BY <1>0, <1>2, CloseLooks, CloseSound, ApplySound DEF Close
<1>3. ASSUME NEW n \in Nodes, AcquireFails(n) \/ ProposalFails(n) PROVE Sound(e)'
  <2>1. CASE AcquireFails(n) \/ InsertFails(n) \/ FolioFails(n) \/ MarkFails(n)
    BY <1>0, <2>1, RaiseLooks
  <2>2. CASE CloseFails(n)
    <3>1. user[n].pc = "close" \/ user[n].pc = "closing"
      BY <2>2 DEF CloseFails
    <3> QED BY <1>0, <2>2, <3>1, CloseLooks, CloseFailsSound
  <2> QED BY <1>3, <2>1, <2>2 DEF ProposalFails
<1>4. ASSUME NEW p \in Nodes \cup Tasks, NEW k \in Nodes, Answer(p, k) PROVE Sound(e)'
  BY <1>0, <1>4, AnswerSound
<1>5. ASSUME NEW m \in DOMAIN commits, HandleCommit(m) \/ Lose(m) PROVE Sound(e)'
  BY <1>0, <1>5, HandleSound, LoseSound
<1>6. ASSUME NEW n \in Nodes, Crash(n) PROVE Sound(e)'
  BY <1>0, <1>6, CrashSound
<1>7. ASSUME UNCHANGED <<user, tickets, available, commits>>,
             \A n \in Nodes : seen'[n] = seen[n]
      PROVE  Sound(e)'
  <2>1. Underway' = Underway
    BY <1>7 DEF Underway, CloseOf
  <2>2. Raising(e) => Raising(e)'
    BY <1>7 DEF Raising
  <2>3. \A n \in Nodes : Offered(n, e)' => Offered(n, e)
    BY <1>7 DEF Offered
  <2> QED BY <1>0, <1>7, <2>1, <2>2, <2>3, Looks
<1>8. CASE UNCHANGED vars \/ (\E p \in Nodes \cup Tasks : QueryTimeout(p)) \/ \E n \in Nodes : Restart(n)
  BY <1>7, <1>8 DEF vars, QueryTimeout, Restart, userVars, tableVars, listVars
<1>9. ASSUME NEW t \in Tasks, Redistribution(t) PROVE Sound(e)'
  <2>1. CASE \E r \in task[t].orphans, f \in Engineers : Reassign(t, r, f)
    BY <1>0, <2>1, ReassignSound
  <2>2. CASE ~\E r \in task[t].orphans, f \in Engineers : Reassign(t, r, f)
    <3>1. \A n \in Nodes : n # t
      BY ActorsAssumption
    <3>2. seen = [p \in Nodes \cup Tasks |-> seen[p]]
      BY <1>0 DEF TypeInv
    <3>3. UNCHANGED <<user, tickets, available, commits>>
      BY <1>9, <2>2 DEF Redistribution, RedistributeTickets, FindOrphans, FindEngineers,
                        ReassignFails, NextOrphan, EndRedistribution, userVars, tableVars
    <3>4. ASSUME NEW n \in Nodes PROVE seen'[n] = seen[n]
      BY <1>9, <2>2, <3>1, <3>2 DEF Redistribution, RedistributeTickets, FindOrphans,
              FindEngineers, ReassignFails, NextOrphan, EndRedistribution, Ask, listVars
    <3> QED BY <1>7, <3>3, <3>4
  <2> QED BY <2>1, <2>2
<1> QED BY <1>1, <1>2, <1>3, <1>4, <1>5, <1>6, <1>8, <1>9 DEF Next, ReliableNext

\* What one user does takes the lock from nobody else.
LEMMA OnePlace ==
    ASSUME Places, NEW n \in Nodes, \A m \in Nodes : m # n => user'[m] = user[m],
           \A m \in Nodes : m # n /\ inside = {m} => inside' = {m},
           user'[n].pc \in {"engineers", "insert", "folio", "mark"} => inside' = {n}
    PROVE  Places'
  BY DEF Places

LEMMA PlacesStep ==
    ASSUME TypeInv, Places, [Next]_vars
    PROVE  Places'
<1> USE DEF userVars
<1>0. user \in [Nodes -> UserRecord]
  BY DEF TypeInv, TypeOK, UserRecord
<1>1. ASSUME user' = user, inside' = inside PROVE Places'
  BY <1>1 DEF Places
<1>2. ASSUME NEW n \in Nodes, AttemptFails(n) PROVE Places'
  <2>1. /\ \A m \in Nodes : m # n => user'[m] = user[m]
        /\ user'[n].pc \in {"acquire", "menu"} /\ inside' = inside \ {n}
    BY <1>0, <1>2 DEF AttemptFails, UserRecord, NewUser
  <2> QED BY <2>1, OnePlace
<1>3. ASSUME NEW n \in Nodes, user' = [user EXCEPT ![n] = NewUser],
             inside' \in {inside, inside \ {n}}
      PROVE  Places'
  <2>1. user'[n].pc = "menu" /\ \A m \in Nodes : m # n => user'[m] = user[m]
    BY <1>0, <1>3 DEF NewUser
  <2> QED BY <1>3, <2>1, OnePlace
<1>4. ASSUME NEW n \in Nodes, inside' = inside, \A m \in Nodes : m # n => user'[m] = user[m],
             \/ user'[n].pc \in {"acquire", "tickets", "close", "closing"}
             \/ /\ user[n].pc \in {"engineers", "insert", "folio"}
                /\ user'[n].pc \in {"insert", "folio", "mark"}
      PROVE  Places'
  <2>1. user'[n].pc \in {"engineers", "insert", "folio", "mark"} => inside' = {n}
    BY <1>4 DEF Places
  <2> QED BY <1>4, <2>1, OnePlace
<1>5. ASSUME NEW n \in Nodes, Raise(n) PROVE Places'
  <2>1. CASE RaiseTicket(n)
    BY <1>0, <1>4, <2>1 DEF RaiseTicket, UserRecord
  <2>2. CASE Acquire(n)
    <3>1. /\ inside = {} /\ inside' = {n} /\ \A m \in Nodes : m # n => user'[m] = user[m]
      BY <1>0, <2>2 DEF Acquire
    <3> QED BY <3>1, OnePlace
  <2>3. CASE \E f \in Engineers : Choose(n, f)
    BY <1>0, <1>4, <2>3 DEF Choose, UserRecord
  <2>4. CASE NoEngineer(n)
    BY <1>2, <2>4 DEF NoEngineer
  <2>5. CASE \E id \in Ids : InsertTicket(n, id)
    BY <1>0, <1>4, <2>5 DEF InsertTicket, UserRecord
  <2>6. CASE UpdateFolio(n)
    BY <1>0, <1>4, <2>6 DEF UpdateFolio, UserRecord
  <2>7. CASE MarkEngineer(n)
    BY <1>3, <2>7 DEF MarkEngineer, Return
  <2> QED BY <1>5, <2>1, <2>2, <2>3, <2>4, <2>5, <2>6, <2>7 DEF Raise
<1>6. ASSUME NEW n \in Nodes, Close(n) PROVE Places'
  <2>1. CASE ListOpen(n)
    BY <1>0, <1>4, <2>1 DEF ListOpen, UserRecord
  <2>2. CASE \E s \in seen[n] : Select(n, s)
    BY <1>0, <1>4, <2>2 DEF Select, UserRecord
  <2>3. CASE CloseTicket(n)
    BY <1>0, <1>4, <2>3 DEF CloseTicket, UserRecord
  <2>4. CASE NothingOpen(n) \/ ApplyClose(n)
    BY <1>3, <2>4 DEF NothingOpen, ApplyClose
  <2> QED BY <1>6, <2>1, <2>2, <2>3, <2>4 DEF Close
<1>7. ASSUME NEW n \in Nodes, AcquireFails(n) \/ ProposalFails(n) PROVE Places'
  <2>1. CASE AcquireFails(n) \/ InsertFails(n)
    BY <1>2, <2>1 DEF AcquireFails, InsertFails
  <2>2. CASE FolioFails(n)
    BY <1>0, <1>4, <2>2 DEF FolioFails, UserRecord
  <2>3. CASE MarkFails(n) \/ CloseFails(n)
    BY <1>3, <2>3 DEF MarkFails, CloseFails, Return
  <2> QED BY <1>7, <2>1, <2>2, <2>3 DEF ProposalFails
<1>8. ASSUME NEW n \in Nodes, Crash(n) PROVE Places'
  BY <1>3, <1>8 DEF Crash
<1>9. CASE \/ UNCHANGED vars
           \/ \E p \in Nodes \cup Tasks, k \in Nodes : Answer(p, k)
           \/ \E m \in DOMAIN commits : HandleCommit(m) \/ Lose(m)
           \/ \E p \in Nodes \cup Tasks : QueryTimeout(p)
           \/ \E n \in Nodes : Restart(n)
  BY <1>1, <1>9 DEF vars, Answer, HandleCommit, Lose, QueryTimeout, Restart
<1>10. ASSUME NEW t \in Tasks, Redistribution(t) PROVE Places'
  BY <1>1, <1>10 DEF Redistribution, RedistributeTickets, FindOrphans, FindEngineers,
                     NextOrphan, Reassign, ReassignFails, EndRedistribution
<1> QED BY <1>5, <1>6, <1>7, <1>8, <1>9, <1>10 DEF Next, ReliableNext

\* What one user does leaves alone what the others know.
LEMMA OneKnows ==
    ASSUME TypeOK, ClosesKnown, AddedDoubted, NEW n \in Nodes,
           used \subseteq used', doubtful \subseteq doubtful',
           \A m \in Nodes : m # n => user'[m] = user[m] /\ seen'[m] = seen[m],
           user'[n].pc = "tickets" => \A s \in seen'[n] : s.row.id \in used',
           user'[n].pc \in {"close", "closing"} => user'[n].ticket \in used',
           \A m \in DOMAIN commits' : m \in DOMAIN commits
                \/ (~Adds(m.c) /\ (m.c.op = "CLOSE_TICKET" => m.c.id \in used'))
    PROVE  ClosesKnown' /\ AddedDoubted'
  BY DEF ClosesKnown, AddedDoubted

LEMMA KnownStep ==
    ASSUME AssignInv, [Next]_vars
    PROVE  ClosesKnown' /\ AddedDoubted'
<1> USE DEF userVars, tableVars, listVars
<1> DEFINE Known == ClosesKnown' /\ AddedDoubted'
<1>0. /\ user \in [Nodes -> UserRecord] /\ TypeOK /\ ClosesKnown /\ AddedDoubted
      /\ asked \in [Nodes \cup Tasks -> SUBSET Nodes]
      /\ seen = [p \in Nodes \cup Tasks |-> seen[p]]
      /\ IsABag(commits) /\ DOMAIN commits \subseteq [to : Nodes, c : Operation]
      /\ \A n \in Nodes : UserStage(n)
      /\ doubtful \subseteq doubtful'
  BY DoubtfulTypes DEF AssignInv, CopyInv, TypeInv, TypeOK, UserRecord
<1> HIDE DEF Known
<1>1. ASSUME NEW n \in Nodes, commits' = commits, used' = used,
             \A m \in Nodes : m # n => user'[m] = user[m] /\ seen'[m] = seen[m],
             user'[n].pc \notin {"tickets", "close", "closing"}
      PROVE  Known
  BY <1>0, <1>1, OneKnows DEF Known
<1>2. ASSUME NEW n \in Nodes, Raise(n) PROVE Known
  <2>1. CASE RaiseTicket(n) \/ Acquire(n) \/ (\E f \in Engineers : Choose(n, f)) \/ NoEngineer(n)
    <3>1. \A m \in Nodes : m # n => user'[m] = user[m] /\ seen'[m] = seen[m]
      <4>1. CASE RaiseTicket(n)
        BY <1>0, <4>1 DEF RaiseTicket
      <4>2. CASE Acquire(n)
        BY <1>0, <4>2 DEF Acquire, Ask
      <4>3. CASE \E f \in Engineers : Choose(n, f)
        BY <1>0, <4>3 DEF Choose, Forget
      <4>4. CASE NoEngineer(n)
        BY <1>0, <4>4 DEF NoEngineer, AttemptFails
      <4> QED BY <2>1, <4>1, <4>2, <4>3, <4>4
    <3>2. user'[n].pc \in {"acquire", "engineers", "insert", "menu"}
      <4>1. CASE RaiseTicket(n) \/ Acquire(n) \/ \E f \in Engineers : Choose(n, f)
        BY <1>0, <4>1 DEF RaiseTicket, Acquire, Choose, UserRecord
      <4>2. CASE NoEngineer(n)
        BY <1>0, <4>2 DEF NoEngineer, AttemptFails, NewUser, UserRecord
      <4> QED BY <2>1, <4>1, <4>2
    <3>3. commits' = commits /\ used' = used
      BY <2>1 DEF RaiseTicket, Acquire, Choose, NoEngineer
    <3> QED BY <1>1, <3>1, <3>2, <3>3
  <2>2. ASSUME NEW id \in Ids, InsertTicket(n, id) PROVE Known
    <3> DEFINE c == Op("INSERT_TICKET", id, user[n].engineer, n)
    <3>1. c \in Operation /\ c.op = "INSERT_TICKET" /\ c.suc = n
      BY <1>0, <2>2 DEF InsertTicket, UserStage, Op, Operation
    <3>2. SendCommits(n, c) /\ used \subseteq used' /\ seen' = seen
      BY <2>2 DEF InsertTicket, Commit
    <3>3. user'[n].pc = "folio" /\ \A m \in Nodes : m # n => user'[m] = user[m]
      BY <1>0, <2>2 DEF InsertTicket, UserRecord
    <3> HIDE DEF c
    <3>4. \A m \in DOMAIN commits' : m \in DOMAIN commits
      BY <1>0, <3>1, <3>2, CommitMessages DEF Concerns
    <3> QED BY <1>0, <3>2, <3>3, <3>4, OneKnows DEF Known
  <2>3. CASE UpdateFolio(n) \/ MarkEngineer(n)
    <3>1. PICK c \in Operation : /\ c.op \in {"UPDATE_TICKET_FOLIO", "UPDATE_INGENIERO_DISPONIBLE"}
                                 /\ SendCommits(n, c)
      <4>1. CASE UpdateFolio(n)
        <5> DEFINE c == Op("UPDATE_TICKET_FOLIO", user[n].ticket, user[n].engineer, None)
        <5>1. c \in Operation /\ c.op = "UPDATE_TICKET_FOLIO"
          BY <1>0, <4>1 DEF UpdateFolio, UserStage, Op, Operation
        <5>2. SendCommits(n, c)
          BY <4>1 DEF UpdateFolio, Commit
        <5> HIDE DEF c
        <5> QED BY <5>1, <5>2
      <4>2. CASE MarkEngineer(n)
        <5> DEFINE c == Op("UPDATE_INGENIERO_DISPONIBLE", user[n].ticket, user[n].engineer, None)
        <5>1. c \in Operation /\ c.op = "UPDATE_INGENIERO_DISPONIBLE"
          BY <1>0, <4>2 DEF MarkEngineer, UserStage, Op, Operation
        <5>2. SendCommits(n, c)
          BY <4>2 DEF MarkEngineer, Commit
        <5> HIDE DEF c
        <5> QED BY <5>1, <5>2
      <4> QED BY <2>3, <4>1, <4>2
    <3>2. \A m \in DOMAIN commits' : m \in DOMAIN commits \/ m.c = c
      BY <1>0, <3>1, CommitMessages
    <3>3. /\ user'[n].pc \in {"mark", "menu"} /\ \A m \in Nodes : m # n => user'[m] = user[m]
          /\ seen' = seen /\ used' = used
      BY <1>0, <2>3 DEF UpdateFolio, MarkEngineer, Return, UserRecord, NewUser
    <3>4. \A m \in DOMAIN commits' : m \in DOMAIN commits \/ (~Adds(m.c) /\ m.c.op # "CLOSE_TICKET")
      BY <3>1, <3>2 DEF Adds
    <3> QED BY <1>0, <3>3, <3>4, OneKnows DEF Known
  <2> QED BY <1>2, <2>1, <2>2, <2>3 DEF Raise
<1>3. ASSUME NEW n \in Nodes, Close(n) PROVE Known
  <2>1. CASE ListOpen(n)
    <3>1. /\ user'[n].pc = "tickets" /\ seen'[n] = {} /\ used' = used /\ commits' = commits
          /\ \A m \in Nodes : m # n => user'[m] = user[m] /\ seen'[m] = seen[m]
      BY <1>0, <2>1 DEF ListOpen, Ask, UserRecord
    <3> QED BY <1>0, <3>1, OneKnows DEF Known
  <2>2. ASSUME NEW s \in seen[n], user[n].pc = "tickets", Select(n, s) PROVE Known
    <3>1. /\ user'[n].pc = "close" /\ user'[n].ticket = s.row.id
          /\ used' = used /\ commits' = commits
          /\ \A m \in Nodes : m # n => user'[m] = user[m] /\ seen'[m] = seen[m]
      BY <1>0, <2>2 DEF Select, Forget, UserRecord
    <3>2. s.row.id \in used
      BY <1>0, <2>2 DEF ClosesKnown
    <3> QED BY <1>0, <3>1, <3>2, OneKnows DEF Known
  <2>3. CASE NothingOpen(n) \/ ApplyClose(n)
    <3>1. /\ user' = [user EXCEPT ![n] = NewUser] /\ seen' = seen
          /\ used' = used /\ commits' = commits
      BY <2>3 DEF NothingOpen, ApplyClose
    <3>2. user'[n].pc = "menu" /\ \A m \in Nodes : m # n => user'[m] = user[m]
      BY <1>0, <3>1 DEF NewUser
    <3> QED BY <1>1, <3>1, <3>2
  <2>4. CASE CloseTicket(n)
    <3> DEFINE c == CloseOf(n)
    <3>1. /\ c \in Operation /\ c.op = "CLOSE_TICKET" /\ c.id = user[n].ticket
          /\ user[n].ticket \in used
      BY <1>0, <2>4 DEF CloseTicket, UserStage, CloseOf, Op, Operation, ClosesKnown
    <3>2. /\ user'[n].ticket = user[n].ticket
          /\ user'[n].pc = "closing" /\ \A m \in Nodes : m # n => user'[m] = user[m]
          /\ SendCommits(n, c) /\ seen' = seen /\ used' = used
      BY <1>0, <2>4 DEF CloseTicket, UserRecord
    <3> HIDE DEF c
    <3>3. \A m \in DOMAIN commits' : m \in DOMAIN commits \/ m.c = c
      BY <1>0, <3>1, <3>2, CommitMessages
    <3>4. ~Adds(c)
      BY <3>1 DEF Adds
    <3> QED BY <1>0, <3>1, <3>2, <3>3, <3>4, OneKnows DEF Known
  <2> QED BY <1>3, <2>1, <2>2, <2>3, <2>4 DEF Close
<1>4. ASSUME NEW n \in Nodes, AcquireFails(n) \/ ProposalFails(n) PROVE Known
  <2>1. user'[n].pc \in {"acquire", "menu", "mark"} /\ \A m \in Nodes : m # n => user'[m] = user[m]
    BY <1>0, <1>4 DEF ProposalFails, AcquireFails, InsertFails, FolioFails, MarkFails, CloseFails,
                      AttemptFails, Return, NewUser, UserRecord
  <2>2. commits' = commits /\ used' = used /\ seen' = seen
    BY <1>4 DEF ProposalFails, AcquireFails, InsertFails, FolioFails, MarkFails, CloseFails, Return
  <2> QED BY <1>1, <2>1, <2>2
<1>5. ASSUME user' = user, used' = used, DOMAIN commits' \subseteq DOMAIN commits,
             \A m \in Nodes : seen'[m] = seen[m]
      PROVE  Known
  BY <1>0, <1>5 DEF Known, ClosesKnown, AddedDoubted
<1>6. ASSUME NEW n \in Nodes, Crash(n) PROVE Known
  <2>1. user' = [user EXCEPT ![n] = NewUser] /\ used' = used /\ seen' = seen
    BY <1>6 DEF Crash
  <2>2. user'[n].pc = "menu" /\ \A m \in Nodes : m # n => user'[m] = user[m]
    BY <1>0, <2>1 DEF NewUser
  <2>3. DOMAIN commits' \subseteq DOMAIN commits
    BY <1>6 DEF Crash
  <2> QED BY <1>0, <2>1, <2>2, <2>3, OneKnows DEF Known
<1>7. ASSUME NEW p \in Nodes \cup Tasks, NEW k \in Nodes, Answer(p, k) PROVE Known
  <2>1. /\ user' = user /\ used' = used /\ commits' = commits
        /\ seen'[p] = seen[p] \cup LocalRows(p, k)
        /\ \A q \in Nodes \cup Tasks : q # p => seen'[q] = seen[q]
    BY <1>0, <1>7 DEF Answer
  <2>2. CASE p \in Nodes
    <3>1. user[p].pc = "tickets" => \A s \in seen'[p] : s.row.id \in used
      <4> SUFFICES ASSUME user[p].pc = "tickets", NEW s \in LocalTickets(k) PROVE s.row.id \in used
        BY <1>0, <2>1, <2>2, AnswerTypes DEF ClosesKnown
      <4>1. s.row \in tickets[k]
        BY DEF LocalTickets
      <4> QED BY <4>1 DEF AssignInv, CopyInv, RowsAreUsed
    <3> QED BY <1>0, <2>1, <2>2, <3>1, OneKnows DEF Known, ClosesKnown
  <2>3. CASE p \in Tasks
    <3>1. \A m \in Nodes : m # p
      BY <2>3, ActorsAssumption
    <3> QED BY <1>5, <2>1, <3>1
  <2> QED BY <2>2, <2>3
<1>8. ASSUME NEW m \in DOMAIN commits, HandleCommit(m) \/ Lose(m) PROVE Known
  <2>1. commits' = commits (-) SetToBag({m}) /\ user' = user /\ used' = used /\ seen' = seen
    BY <1>8 DEF HandleCommit, Lose
  <2> QED BY <1>0, <1>5, <2>1, BagRemove
<1>9. CASE UNCHANGED vars \/ (\E p \in Nodes \cup Tasks : QueryTimeout(p)) \/ \E n \in Nodes : Restart(n)
  <2>1. /\ user' = user /\ used' = used /\ commits' = commits
        /\ seen' = seen
    BY <1>9 DEF vars, QueryTimeout, Restart
  <2>2. DOMAIN commits' \subseteq DOMAIN commits /\ \A m \in Nodes : seen'[m] = seen[m]
    BY <2>1
  <2> QED BY <1>5, <2>1, <2>2 DEF Known
<1>10. ASSUME NEW t \in Tasks, Redistribution(t) PROVE Known
  <2>1. user' = user /\ used' = used
    BY <1>10 DEF Redistribution, RedistributeTickets, FindOrphans, FindEngineers,
                 NextOrphan, Reassign, ReassignFails, EndRedistribution
  <2>2. ASSUME NEW n \in Nodes PROVE seen'[n] = seen[n]
    <3>1. n # t
      BY ActorsAssumption
    <3> QED BY <1>0, <1>10, <3>1 DEF Redistribution, RedistributeTickets, FindOrphans,
                FindEngineers, NextOrphan, Reassign, ReassignFails, EndRedistribution, Ask
  <2>3. ASSUME NEW r \in task[t].orphans, NEW f \in Engineers, Reassign(t, r, f) PROVE Known
    <3> DEFINE c == Op("REASSIGN_TICKET", r.id, f, Sucursal[f])
               k == task[t].host
    <3>1. SendCommits(k, c) /\ task[t].pc = "reassign"
      BY <2>3 DEF Reassign, NextOrphan, Commit
    <3>2. k \in Nodes /\ r \in Row
      BY <3>1 DEF AssignInv, CopyInv, TypeInv, TypeOK, TaskStage
    <3>3. c \in Operation /\ c.op = "REASSIGN_TICKET" /\ c.ing = f
      BY <3>2, SucursalAssumption DEF Op, Operation, Row
    <3> HIDE DEF c, k
    <3>4. \A m \in DOMAIN commits' : m \in DOMAIN commits \/ m.c = c
      BY <1>0, <3>1, <3>2, <3>3, CommitMessages
    <3>5. c.ing \in doubtful'
      BY <3>1, <3>3 DEF SendCommits, Misused
    <3>6. AddedDoubted'
      BY <1>0, <3>4, <3>5 DEF AddedDoubted
    <3>7. ClosesKnown'
      BY <1>0, <2>1, <2>2, <3>3, <3>4 DEF ClosesKnown
    <3> QED BY <3>6, <3>7 DEF Known
  <2>4. CASE ~\E r \in task[t].orphans, f \in Engineers : Reassign(t, r, f)
    <3>1. commits' = commits
      BY <1>10, <2>4 DEF Redistribution, RedistributeTickets, FindOrphans, FindEngineers,
                         ReassignFails, NextOrphan, EndRedistribution
    <3> QED BY <1>5, <2>1, <2>2, <3>1
  <2> QED BY <2>3, <2>4
<1> QED BY <1>2, <1>3, <1>4, <1>6, <1>7, <1>8, <1>9, <1>10 DEF Next, ReliableNext, Known

LEMMA AssignStep == AssignInv /\ [Next]_vars => AssignInv'
<1> SUFFICES ASSUME AssignInv, [Next]_vars PROVE AssignInv'
  OBVIOUS
<1>1. CopyInv'
  BY CopyStep DEF AssignInv
<1>2. Places'
  BY PlacesStep DEF AssignInv, CopyInv
<1>3. ClosesKnown' /\ AddedDoubted'
  BY KnownStep
<1>4. \A e \in Engineers \ doubtful' : Sound(e)'
  BY SoundStep
<1> QED BY <1>1, <1>2, <1>3, <1>4 DEF AssignInv

LEMMA InitialAssign == Init => AssignInv
<1> SUFFICES ASSUME Init PROVE AssignInv
  OBVIOUS
<1>1. /\ DOMAIN commits = {} /\ \A n \in Nodes : tickets[n] = {} /\ user[n].pc = "menu"
      /\ \A n \in Nodes : seen[n] = {}
  BY DEF Init, NewUser, EmptyBag, SetToBag
<1>2. Places /\ ClosesKnown /\ AddedDoubted
  BY <1>1 DEF Places, ClosesKnown, AddedDoubted
<1>3. Underway = {}
  BY <1>1 DEF Underway
<1>4. ASSUME NEW e \in Engineers PROVE Sound(e)
  <2>1. \A id : \A n \in Nodes : ~Open(n, id, e)
    BY <1>1 DEF Open
  <2>2. \A n \in Nodes : ~Offered(n, e)
    BY <1>1 DEF Offered
  <2>3. OneOpenRow(e) /\ ClosesReach(e)
    BY <2>1 DEF OneOpenRow, ClosesReach
  <2>4. \A id \in Ids : ~Busy(id, e)
    BY <1>1 DEF Busy, Open
  <2>5. OneBusy(e) /\ BusyTaken(e) /\ FreedIsFree(e) /\ OfferedIsFree(e)
    BY <2>2, <2>4 DEF OneBusy, BusyTaken, FreedIsFree, OfferedIsFree
  <2> QED BY <2>3, <2>5 DEF Sound
<1> QED BY <1>2, <1>4, InitialCopies DEF AssignInv

\* What is in OpenOf(e) is an open row of e of which no close is under way.
LEMMA OpenRows ==
    ASSUME TypeOK, NEW e, NEW s \in OpenOf(e)
    PROVE  \E n \in Nodes : \E r \in tickets[n] :
                s = [at |-> n, row |-> r] /\ r.id \in Ids /\ Open(n, r.id, e) /\ Busy(r.id, e)
<1>1. PICK n \in Nodes : s \in LocalTickets(n)
  BY DEF OpenOf
<1>2. PICK r \in tickets[n] : s = [at |-> n, row |-> r] /\ r.estado = "ABIERTO"
  BY <1>1 DEF LocalTickets
<1>3. r \in Row
  BY DEF TypeOK
<1>4. r.id \in Ids
  BY <1>3 DEF Row
<1>5. r.ing = e /\ ~BeingClosed(r.id)
  BY <1>2 DEF OpenOf
<1> QED BY <1>2, <1>4, <1>5 DEF Busy, Open

\* What the lock is for (ticket_service.go:218-239): an engineer gets a second open
\* ticket only after one of the things that put him in doubt: a raise was shown him
\* as free while his mark or his release was on its way (main.go:135-186), a close
\* of a ticket closed before (cli.go:443-450), a ticket reassigned to him
\* (ticket_service.go:301-354), or an update of his that was lost.  Whatever else
\* fails, crashes or is late, for any number of raises, closes and nodes, the raises
\* that go one after another through the lock give him one.
THEOREM NoEngineerTwice == Spec => []TwiceOnlyIfDoubtful
<1>1. Init => AssignInv
  BY InitialAssign
<1>2. AssignInv /\ [Next]_vars => AssignInv'
  BY AssignStep
<1>3. AssignInv => TwiceOnlyIfDoubtful
  <2> SUFFICES ASSUME AssignInv, NEW e \in Engineers \ doubtful PROVE Cardinality(OpenOf(e)) <= 1
    BY DEF TwiceOnlyIfDoubtful
  <2>1. Sound(e) /\ TypeOK /\ RowsDiffer
    BY DEF AssignInv, CopyInv, TypeInv
  <2>2. ASSUME NEW s \in OpenOf(e), NEW t \in OpenOf(e) PROVE s = t
    <3>1. PICK n \in Nodes : \E r \in tickets[n] :
            s = [at |-> n, row |-> r] /\ r.id \in Ids /\ Open(n, r.id, e) /\ Busy(r.id, e)
      BY <2>1, OpenRows
    <3>2. PICK r \in tickets[n] :
            s = [at |-> n, row |-> r] /\ r.id \in Ids /\ Open(n, r.id, e) /\ Busy(r.id, e)
      BY <3>1
    <3>3. PICK k \in Nodes : \E q \in tickets[k] :
            t = [at |-> k, row |-> q] /\ q.id \in Ids /\ Open(k, q.id, e) /\ Busy(q.id, e)
      BY <2>1, OpenRows
    <3>4. PICK q \in tickets[k] :
            t = [at |-> k, row |-> q] /\ q.id \in Ids /\ Open(k, q.id, e) /\ Busy(q.id, e)
      BY <3>3
    <3>5. r.id = q.id
      BY <2>1, <3>2, <3>4 DEF Sound, OneBusy
    <3>6. n = k
      BY <2>1, <3>2, <3>4, <3>5 DEF Sound, OneOpenRow
    <3>7. r = q
      BY <2>1, <3>5, <3>6 DEF RowsDiffer
    <3> QED BY <3>2, <3>4, <3>6, <3>7
  <2>3. CASE OpenOf(e) = {}
    BY <2>3, FS_EmptySet
  <2>4. CASE OpenOf(e) # {}
    <3>1. PICK s : s \in OpenOf(e)
      BY <2>4
    <3>2. OpenOf(e) = {s}
      BY <2>2, <3>1
    <3>3. Cardinality({s}) = 1
      BY FS_Singleton
    <3> QED BY <3>2, <3>3
  <2> QED BY <2>3, <2>4
<1> QED BY <1>1, <1>2, <1>3, PTL DEF Spec

\* Once every COMMIT has been handled an engineer with an open ticket is not offered
\* to a raise: his row says so (ticket_service.go:266-282), with the same exceptions.
THEOREM BusyEngineersMarked == Spec => []FreeOnlyIfDoubtful
<1>1. Init => AssignInv
  BY InitialAssign
<1>2. AssignInv /\ [Next]_vars => AssignInv'
  BY AssignStep
<1>3. AssignInv => FreeOnlyIfDoubtful
  <2> SUFFICES ASSUME AssignInv, Settled, NEW e \in Engineers \ doubtful, NEW s \in OpenOf(e)
               PROVE  ~available[e]
    BY DEF FreeOnlyIfDoubtful
  <2>1. Sound(e) /\ TypeOK
    BY DEF AssignInv, CopyInv, TypeInv
  <2>2. PICK id \in Ids : Busy(id, e)
    BY <2>1, OpenRows
  <2>3. Taken(e)
    BY <2>1, <2>2 DEF Sound, BusyTaken
  <2>4. DOMAIN commits = {} /\ \A n \in Nodes : user[n].pc = "menu"
    BY DEF Settled, EmptyBag, SetToBag
  <2>5. Underway = {}
    BY <2>4 DEF Underway
  <2>6. ~Marking(e) /\ ~Raising(e)
    BY <2>4, <2>5 DEF Marking, Pending, Raising
  <2> QED BY <2>3, <2>6 DEF Taken
<1> QED BY <1>1, <1>2, <1>3, PTL DEF Spec
=============================================================================
