------------------------------- MODULE MCPool -------------------------------
(***************************************************************************)
(* An instance of Pool for TLC.                                            *)
(***************************************************************************)
EXTENDS Pool, TLC

CONSTANTS t1, t2, o1, o2, i1, p1

Low  == [priority |-> 0, minRatio |-> 0]
High == [priority |-> 1, minRatio |-> 60]

\* Every object under the same ID: one generation after the other.
TwoGenerations == [o \in Objs |-> i1]

OneProvider == [i \in IDs |-> p1]

TwoTiers == {Low, High}
Mixed    == [o \in Objs |-> IF o = o1 THEN Low ELSE High]

\* Goroutines are interchangeable.
ThreadSymmetry == Permutations(Threads)
=============================================================================
