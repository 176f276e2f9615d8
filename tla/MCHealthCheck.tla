---------------------------- MODULE MCHealthCheck ----------------------------
(***************************************************************************)
(* Instances of HealthCheck for TLC.                                       *)
(***************************************************************************)
EXTENDS HealthCheck

CONSTANTS t1, t2, o1, o2, o3, i1, i2, i3, run, once

Tier      == [priority |-> 0, minRatio |-> 0]
OneTier   == {Tier}
AllSame   == [o \in Objs |-> Tier]
OneToOne  == [o \in Objs |-> IF o = o1 THEN i1 ELSE IF o = o2 THEN i2 ELSE i3]

\* Two proxies share the higher level and disagree on its ratio, a third is
\* there in case they fail.
TwoLevels == {Tier, [priority |-> 1, minRatio |-> 60], [priority |-> 1, minRatio |-> 40]}
Levelled  == [o \in Objs |-> IF o = o3 THEN Tier
                             ELSE [priority |-> 1, minRatio |-> IF o = o1 THEN 60 ELSE 40]]
OneOwner  == [i \in IDs |-> CHOOSE p \in Providers : TRUE]
SamePass  == [t \in Threads |-> run]
OwnPass   == [t \in Threads |-> IF t = t1 THEN run ELSE once]
=============================================================================
