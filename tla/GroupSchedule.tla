---------------------------- MODULE GroupSchedule ----------------------------
(***************************************************************************)
(* Clients ask a group for one proxy after the other (NextInGroup of       *)
(* internal/pool/pool.go) while proxies come, go, die, recover and are     *)
(* measured: who is served how often, and from which layer.                *)
(***************************************************************************)
EXTENDS GroupLayers

VARIABLES
    answer,     \* the last answer while nothing has changed since; its turn
                \* tells it from the answer before
    tally       \* history: per group, how often each proxy was served since
                \* its primary layer last changed or a round ended, how many
                \* answers that makes, and whether it was then at the start of
                \* a round

scheduleVars == <<layerVars, answer, tally>>

-----------------------------------------------------------------------------
Primary(g) == Layers(g)[1]
Weight(g, p) == EffectiveWeight(Primary(g), p, latency)
RoundLength(g) == TotalWeight(Primary(g), latency)

\* History: counting starts over when what the group serves from has changed.
StartOver(g) ==
    [round |-> \A p \in Range(Primary(g)'.proxies) : swrr'[p] = 0, served |-> 0,
     count |-> [p \in Proxies |-> 0]]

NoAnswer == [group |-> Nil, proxy |-> Nil, turn |-> 0]

ScheduleChange ==
    /\ LayersChange
    /\ answer' = NoAnswer
    /\ tally' = [g \in Groups |-> StartOver(g)]

\* History: an answer in t, the tally so far, which has a new round begin when
\* as many answers as its length have been given.
Count(t, p, length) ==
    LET over == t.served >= length
    IN  [t EXCEPT !.served = IF over THEN 1 ELSE @ + 1,
                  !.count = [q \in Proxies |-> (IF over THEN 0 ELSE t.count[q])
                                                  + (IF q = p THEN 1 ELSE 0)]]

NextInGroup(g) ==
    \E o \in NextFrom(Layers(g), swrr, latency) :
        /\ swrr' = o.swrr
        /\ answer' = [group |-> g, proxy |-> o.proxy, turn |-> 1 - answer.turn]
        /\ UNCHANGED <<registered, alive, order, latency>>
        /\ tally' = [tally EXCEPT ![g] = IF o.proxy = Nil THEN StartOver(g)
                                         ELSE Count(@, o.proxy, RoundLength(g))]

-----------------------------------------------------------------------------
ScheduleInit ==
    /\ LayersInit
    /\ answer = NoAnswer
    /\ tally = [g \in Groups |-> [round |-> TRUE, served |-> 0,
                               count |-> [p \in Proxies |-> 0]]]

ScheduleNext == ScheduleChange \/ \E g \in Groups : NextInGroup(g)

ScheduleSpec == ScheduleInit /\ [][ScheduleNext]_scheduleVars

\* Clients keep asking every group for a proxy.  Asked(g) is what NextInGroup(g)
\* does to answer, and no other action does it.
Asked(g) == answer' \in [group : {g}, proxy : Proxies \cup {Nil}, turn : {1 - answer.turn}]
FairSchedule == ScheduleSpec /\ \A g \in Groups : WF_answer(Asked(g))

-----------------------------------------------------------------------------
(* Properties *)

Outcome == [group : Groups \cup {Nil}, proxy : Proxies \cup {Nil}, turn : {0, 1}]

\* Type correctness.
ScheduleTypeOK ==
    /\ LayersTypeOK
    /\ answer \in Outcome

\* Precise weighted sharing (docs/scheduling.md: SWRR splits traffic exactly by
\* weight): when a round begins level and nothing changes, then after as many
\* answers as the total weight every proxy of the primary layer has been
\* served exactly as often as its latency-scaled weight says.  Groups that share
\* proxies share their counters too, and then it does not hold.
ExactShare ==
    \A g \in Groups :
        /\ Primary(g).useSWRR /\ Usable(Primary(g))
        /\ tally[g].round /\ tally[g].served = RoundLength(g)
        => \A p \in Range(Primary(g).proxies) : tally[g].count[p] = Weight(g, p)

\* Latency scaling starves nobody (docs/scheduling.md: a slow proxy is never
\* starved): a proxy that stays in a usable round-robin primary layer is
\* served again and again, whatever latencies are measured.
InRotation(g, p) == LET l == Primary(g) IN l.useSWRR /\ Usable(l) /\ p \in Range(l.proxies)
NobodyStarves ==
    \A g \in Groups, p \in Proxies :
        <>[]InRotation(g, p) => []<>(answer.group = g /\ answer.proxy = p)

\* A client is never served a backup while the
\* primary layer is usable, and the primary takes over again once it is usable.
PrimaryFirst ==
    \A g \in Groups : answer.group = g /\ Usable(Primary(g)) =>
        answer.proxy \in Range(Primary(g).proxies)

=============================================================================
