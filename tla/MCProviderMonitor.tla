-------------------------- MODULE MCProviderMonitor --------------------------
(***************************************************************************)
(* Instances of ProviderMonitor for TLC.                                   *)
(***************************************************************************)
EXTENDS ProviderMonitor

Half == [total |-> 2, alive |-> 1]
Full == [total |-> 2, alive |-> 2]

\* Of two proxies 60 percent must be alive.  A free provider never gets any and
\* holds the passes up with its refreshes.
Sixty == [p \in Providers |-> IF p \in Free THEN 0 ELSE 60]
Pairs == [p \in Providers |-> IF p \in Free THEN {Empty} ELSE {Empty, Half, Full}]
=============================================================================
