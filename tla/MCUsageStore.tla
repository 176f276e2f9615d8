---------------------------- MODULE MCUsageStore ----------------------------
(***************************************************************************)
(* Instances of UsageStore for TLC.                                        *)
(***************************************************************************)
EXTENDS UsageStore
=============================================================================
