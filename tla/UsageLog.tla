------------------------------ MODULE UsageLog ------------------------------
(***************************************************************************)
(* What the usage store promises: calls are accepted one by one, wait in   *)
(* the order in which they were accepted, and leave in that order, either  *)
(* into the log or, at the end of a batch, for good; old entries leave the *)
(* log from its front.  No call is accepted twice, none overtakes another, *)
(* none comes back.                                                        *)
(***************************************************************************)
EXTENDS Integers, Sequences

CONSTANT Calls

VARIABLES
    taken,     \* the calls accepted so far
    waiting,   \* those that are not settled yet, oldest first
    log        \* those that are recorded, oldest first

logVars == <<taken, waiting, log>>

LogInit == taken = {} /\ waiting = << >> /\ log = << >>

Accept(c) ==
    /\ c \notin taken
    /\ taken' = taken \cup {c}
    /\ waiting' = Append(waiting, c)
    /\ UNCHANGED log

\* The first n leave, the first m of them into the log.
Settle(n, m) ==
    /\ waiting' = SubSeq(waiting, n + 1, Len(waiting))
    /\ log' = log \o SubSeq(waiting, 1, m)
    /\ UNCHANGED taken

Expire(k) ==
    /\ log' = SubSeq(log, k + 1, Len(log))
    /\ UNCHANGED <<taken, waiting>>

LogNext ==
    \/ \E c \in Calls : Accept(c)
    \/ \E n \in 0..Len(waiting) : \E m \in 0..n : Settle(n, m)
    \/ \E k \in 1..Len(log) : Expire(k)

LogSpec == LogInit /\ [][LogNext]_logVars
=============================================================================
