------------------------------ MODULE MCGateway ------------------------------
(***************************************************************************)
(* An instance of Gateway for TLC.                                         *)
(***************************************************************************)
EXTENDS Gateway

CONSTANTS a, b, t, c1, c2, P, Q

\* a and b belong to P, the primary pool while half of it lives; the tunnel
\* of Q is its backup.
AbPQ      == [p \in Proxies |-> IF p \in {a, b} THEN P ELSE Q]
Even      == [p \in Proxies |-> 1]
Anywhere  == [p \in Proxies |-> ""]
OneOrder  == {[p \in Proxies |-> IF p = a THEN 1 ELSE IF p = b THEN 2 ELSE 3]}
NoWeights == [n \in {} |-> 1]
OneGroup  == {[primary |-> <<P>>, primaryWeights |-> NoWeights, minRatio |-> 50,
               backups |-> <<[providers |-> <<Q>>, minRatio |-> 0]>>,
               backupWeights |-> NoWeights, regions |-> {}]}

\* One client sends requests of every kind, the other keeps the SWRR turning.
MixedKinds == [c \in Clients |-> IF c = c1 THEN {"get", "post", "connect", "plain"} ELSE {"get"}]
=============================================================================
