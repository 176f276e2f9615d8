--------------------------- MODULE MCGroupSchedule ---------------------------
(***************************************************************************)
(* Instances of GroupSchedule for TLC.                                     *)
(***************************************************************************)
EXTENDS GroupSchedule

CONSTANTS a, b, c, d, P, Q

NoWeights == [n \in {} |-> 1]

Group(primary, primaryWeights, minRatio, backups, regions) ==
    [primary |-> primary, primaryWeights |-> primaryWeights, minRatio |-> minRatio,
     backups |-> backups, backupWeights |-> NoWeights, regions |-> regions]
Backup(providers, minRatio) == [providers |-> providers, minRatio |-> minRatio]

\* a and b belong to P, c and d to Q.
AbPcQ     == [p \in Proxies |-> IF p \in {a, b} THEN P ELSE Q]
\* Of all weights below 11 no product of theirs falls short (GroupLayers!FallsShort).
Heavy     == [p \in Proxies |-> IF p = a THEN 3 ELSE 1]
Countries == [p \in Proxies |-> CASE p = a -> "HK" [] p = b -> "" [] p = c -> "US" [] p = d -> "CN"]
TwoOrders == {[p \in Proxies |-> CASE p = a -> 1 [] p = b -> 2 [] p = c -> 3 [] p = d -> 4],
              [p \in Proxies |-> CASE p = a -> 2 [] p = b -> 1 [] p = c -> 3 [] p = d -> 4]}

\* P is primary while more than half of it lives, with a group-level weight;
\* Q is its backup.  Only proxies outside China (all but d), so that it
\* shares no proxy with the other group, which has d alone.
TwoGroups == {Group(<<P>>, [n \in {P} |-> 1], 60, <<Backup(<<Q>>, 0)>>, {"overseas"}),
              Group(<<Q>>, NoWeights, 0, << >>, {"domestic"})}
=============================================================================
