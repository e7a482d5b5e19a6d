------------------------------ MODULE MCMutex -------------------------------
(* The lock on three nodes: one client on the master and one on each of two *)
(* others, or two clients on the master and one on another node.            *)
EXTENDS Mutex, FiniteSets, TLC

CONSTANTS m, a, b, c1, c2, c3

SpreadHome == (c1 :> m) @@ (c2 :> a) @@ (c3 :> b)
CrowdedHome == (c1 :> m) @@ (c2 :> m) @@ (c3 :> a)
PairHome == (c1 :> m) @@ (c2 :> a)
RemoteHome == (c1 :> a) @@ (c2 :> a) @@ (c3 :> b)

\* Bound of mutex_failover: two messages are on their way at once at most.
FewMessages == Cardinality(net) <= 2

RequestSymmetry == Permutations(Requests)
=============================================================================
