------------------------------ MODULE MCSticky ------------------------------
(***************************************************************************)
(* An instance of Sticky for TLC.                                          *)
(***************************************************************************)
EXTENDS Sticky, TLC

CONSTANTS a, b, all, some, k1, k2, c1, c2, w1, w2

\* One group may use both proxies, the other only a, which comes and goes.
TwoGroups == [g \in Groups |-> IF g = all THEN {a, b} ELSE {a}]
\* Clients, calls and workers are interchangeable.
Symmetry == Permutations(Clients) \cup Permutations(Calls) \cup Permutations(Workers)
=============================================================================
