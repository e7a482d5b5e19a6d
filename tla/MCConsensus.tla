---------------------------- MODULE MCConsensus ------------------------------
(* Proposals on three and on four nodes, the size the README describes.     *)
EXTENDS Consensus, TLC

CONSTANTS n1, n2, n3, n4, c1, c2

OneCaller == c1 :> n1
TwoCallers == (c1 :> n1) @@ (c2 :> n2)

\* Bound of the run consensus: this many messages are on their way at most.
FewMessages == Cardinality(net) <= 4

RoundSymmetry == Permutations(Rounds)
PeerSymmetry == Permutations(Rounds) \cup Permutations(Nodes \ {n1})
=============================================================================
