-------------------------- MODULE MCTicketService ---------------------------
(* Tickets on three nodes, two of them with engineers and users.            *)
EXTENDS TicketService, TLC

CONSTANTS n1, n2, n3, e1, e2

OneEach == (e1 :> n1) @@ (e2 :> n2)

IdSymmetry == Permutations(Ids)
=============================================================================
