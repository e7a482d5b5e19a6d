---------------------------- MODULE AtomicCommit ----------------------------
(***************************************************************************)
(* What a proposal of internal/consensus promises: it is committed or      *)
(* aborted, once; a node applies it only when it is committed; and its     *)
(* caller is told that it went well only after its own node applied it.    *)
(* The nodes may apply it in any order, the caller's own last or, when its *)
(* process stops in between, never; the others may never apply it either.  *)
(***************************************************************************)
CONSTANTS Nodes, Calls, Caller

VARIABLES
    outcome,   \* pending; committed; returned: the caller was told; aborted
    applied    \* the calls each node has applied

vars == <<outcome, applied>>

Init ==
    /\ outcome = [c \in Calls |-> "pending"]
    /\ applied = [n \in Nodes |-> {}]

Decide(c) ==
    /\ outcome[c] = "pending"
    /\ outcome' = [outcome EXCEPT ![c] = "committed"]
    /\ UNCHANGED applied

Return(c) ==
    /\ outcome[c] = "committed"
    /\ outcome' = [outcome EXCEPT ![c] = "returned"]
    /\ applied' = [applied EXCEPT ![Caller[c]] = @ \cup {c}]

\* Several at once when they are calls of a process that stops.
Abort(C) ==
    /\ \A c \in C : outcome[c] = "pending"
    /\ outcome' = [c \in Calls |-> IF c \in C THEN "aborted" ELSE outcome[c]]
    /\ UNCHANGED applied

Apply(n, c) ==
    /\ outcome[c] \in {"committed", "returned"}
    /\ applied' = [applied EXCEPT ![n] = @ \cup {c}]
    /\ UNCHANGED outcome

Next ==
    \/ \E c \in Calls : Decide(c) \/ Return(c)
    \/ \E C \in SUBSET Calls : Abort(C)
    \/ \E n \in Nodes, c \in Calls : Apply(n, c)

Spec == Init /\ [][Next]_vars
=============================================================================
