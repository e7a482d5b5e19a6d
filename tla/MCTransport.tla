---------------------------- MODULE MCTransport ------------------------------
(* Who sends the requests, for each configuration.                          *)
EXTENDS Transport

\* All from node 1 to node 2.
AllFrom1 == [r \in Requests |-> 1]
AllTo2 == [r \in Requests |-> 2]

\* Odd ones from node 1 to node 2, even ones back.
Odd1 == [r \in Requests |-> IF r % 2 = 1 THEN 1 ELSE 2]
Odd2 == [r \in Requests |-> IF r % 2 = 1 THEN 2 ELSE 1]

\* From node 1 to a peer of its own each.
Own == [r \in Requests |-> r + 1]
\* No line is too long; the reply to the first request is, say the rows of a query.
Nothing == {}
FirstReply == {<<1, "reply">>}
=============================================================================
