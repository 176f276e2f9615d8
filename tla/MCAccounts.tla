----------------------------- MODULE MCAccounts -----------------------------
(***************************************************************************)
(* An instance of Accounts for TLC.                                        *)
(***************************************************************************)
EXTENDS Accounts, TLC

CONSTANTS ann, bob, t1, t2, pw, o1, o2, o3

\* ann administers; bob has no token.  Their passwords are in plain text.
AnnAndBob == [n \in Names |-> [name |-> n, password |-> [hashed |-> FALSE, of |-> pw],
                              token |-> IF n = ann THEN t1 ELSE Nil,
                              role |-> IF n = ann THEN "admin" ELSE "user", enabled |-> TRUE]]
TwoStandings == {[role |-> "admin", enabled |-> TRUE], [role |-> "user", enabled |-> FALSE]}

\* Which cell an account lies in makes no difference.
CellSymmetry == Permutations(Objects)
=============================================================================
