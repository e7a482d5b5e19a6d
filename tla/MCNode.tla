------------------------------- MODULE MCNode -------------------------------
(***************************************************************************)
(* The start of one node and the elections of four, in one run.  The two   *)
(* share no variable and no action, so a step of one can neither enable    *)
(* nor disable one of the other, and no property speaks of both: a         *)
(* behaviour here moves one and leaves the other as it begins, and their   *)
(* states add up where interleaving would multiply them.                   *)
(***************************************************************************)
EXTENDS Election, NodeStartup

\* A seed with two engineers, a user and a device.
SmallSeed ==
    {[table |-> "INGENIEROS", counter |-> 1], [table |-> "INGENIEROS", counter |-> 2],
     [table |-> "USUARIOS", counter |-> 3], [table |-> "DISPOSITIVOS", counter |-> 4]}

OneStarts == Init /\ StartupNext /\ UNCHANGED vars

AllElect == StartupInit /\ TimelyNext /\ UNCHANGED startupVars

NodeSpec == Init /\ StartupInit /\ [][OneStarts \/ AllElect]_<<vars, startupVars>>
=============================================================================
