-------------------------- MODULE MCProviderManager --------------------------
(***************************************************************************)
(* Instances of ProviderManager for TLC.                                   *)
(***************************************************************************)
EXTENDS ProviderManager

CONSTANTS n1, pool, urls, r1, r2, h1, h2, h3

C(v, w, e) == [version |-> v, weight |-> w, enabled |-> e, public |-> FALSE]

\* config.yaml lists n1 with an extraction pool.
OneYaml    == [n \in Names |-> IF n = n1 THEN C(pool, 1, TRUE) ELSE Nil]
TwoConfigs == {C(pool, 1, TRUE), C(urls, 1, FALSE)}
=============================================================================
