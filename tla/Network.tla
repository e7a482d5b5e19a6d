------------------------------- MODULE Network --------------------------------
(***************************************************************************)
(* What the engines are promised of the transport, and all they may rely   *)
(* on: a message is handed over once, and handled at most once, at any     *)
(* time after that, or never.  Nothing is said of its order among others,  *)
(* and nothing is handled that was not handed over.                        *)
(***************************************************************************)
EXTENDS Naturals

CONSTANT Messages

VARIABLES
    accepted,   \* messages of which a Send has returned no error
    handled     \* how often each message was given to a handler

Init == accepted = {} /\ handled = [m \in Messages |-> 0]

Accept(m) ==
    /\ m \notin accepted
    /\ accepted' = accepted \cup {m}
    /\ UNCHANGED handled

Handle(m) ==
    /\ m \in accepted /\ handled[m] = 0
    /\ handled' = [handled EXCEPT ![m] = 1]
    /\ UNCHANGED accepted

Next == \E m \in Messages : Accept(m) \/ Handle(m)

Spec == Init /\ [][Next]_<<accepted, handled>>
=============================================================================
