---------------------------- MODULE MCGroupAdmin ----------------------------
(***************************************************************************)
(* An instance of GroupAdmin for TLC.                                      *)
(***************************************************************************)
EXTENDS GroupAdmin

CONSTANTS P, Q, root, ann, bob, east, west, c1, c2, r1, r2, checker

\* Requests differ in nothing but their name.
RequestSymmetry == Permutations({r1, r2})

Share(p, w) == [n \in {p} |-> w]
NoWeights   == [n \in {} |-> 1]
Body(n, c, w) ==
    [name |-> n, cred |-> c, owner |-> bob, minRatio |-> 50, primary |-> <<P>>,
     primaryWeights |-> w, backups |-> <<[providers |-> <<Q>>, minRatio |-> 0]>>,
     backupWeights |-> NoWeights]

\* The administrator makes groups for bob, who may then change them.  New
\* credentials for the group of config.yaml, a second group that wants its
\* old ones, and a group whose share is not 100 percent.
SomeBodies == {Body(east, c2, Share(P, 100)), Body(west, c1, NoWeights),
               Body(west, c2, Share(P, 70))}
EastOfAnn  == <<[Body(east, c1, NoWeights) EXCEPT !.owner = ann]>>
=============================================================================
