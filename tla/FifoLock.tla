------------------------------ MODULE FifoLock ------------------------------
(***************************************************************************)
(* What the lock of internal/mutex promises, without nodes or messages:    *)
(* requests stand in a line in the order in which they reached the         *)
(* arbiter, only the first of the line may enter, and the line moves on    *)
(* only when nobody is inside.                                             *)
(***************************************************************************)
EXTENDS Naturals, Sequences

CONSTANT Requests

VARIABLES
    line,    \* the requests that reached the arbiter and were not passed over
    inside   \* the requests whose client owns the lock

vars == <<line, inside>>

Init == line = <<>> /\ inside = {}

Join(r) ==
    /\ line' = Append(line, r)
    /\ UNCHANGED inside

\* The arbiter's own client finds the lock free.
JoinAndEnter(r) ==
    /\ line = <<>> /\ inside = {}
    /\ line' = <<r>> /\ inside' = {r}

Enter ==
    /\ line # <<>> /\ inside = {}
    /\ inside' = {Head(line)}
    /\ UNCHANGED line

\* A client leaves; the arbiter learns of it later, or never.
Exit ==
    /\ inside # {}
    /\ inside' = {}
    /\ UNCHANGED line

Pass ==
    /\ line # <<>> /\ inside = {}
    /\ line' = Tail(line)
    /\ UNCHANGED inside

\* The arbiter's own client leaves.
ExitAndPass ==
    /\ inside # {}
    /\ inside' = {}
    /\ line' = Tail(line)

Next ==
    \/ \E r \in Requests : Join(r) \/ JoinAndEnter(r)
    \/ Enter \/ Exit \/ Pass \/ ExitAndPass

Spec == Init /\ [][Next]_vars
=============================================================================
