--------------------------- MODULE ProviderMonitor ---------------------------
(***************************************************************************)
(* The provider monitor (internal/alert/monitor.go) and the part of the    *)
(* alert dispatcher it talks to (Emit in internal/alert/alert.go).  One    *)
(* goroutine goes through the providers again and again, decides which are *)
(* down, asks the manager to refresh those that stay down, and reports     *)
(* changes; Emit drops repeated events of a provider within the dedup      *)
(* window, and every event while no channel is configured.                 *)
(*                                                                         *)
(* A pass works on the list it took at its start, while administrators,    *)
(* health checks and refreshes go on changing the providers.  Clocks are   *)
(* abstracted to "the interval is over".                                   *)
(***************************************************************************)
EXTENDS Integers, FiniteSets

CONSTANTS
    Providers,      \* provider names
    Free,           \* those of type free
    MinAliveRatio,  \* of each provider, in percent
    Administered,   \* those administrators add, remove, enable and disable
    Counts,         \* the pairs (total, alive) each provider's proxies can have
    Never           \* no entry; no event yet

Empty == [total |-> 0, alive |-> 0]

ASSUME MonitorAssumption ==
    /\ Free \subseteq Providers /\ Administered \subseteq Providers
    /\ MinAliveRatio \in [Providers -> 0..100]
    /\ Counts \in [Providers -> SUBSET [total : Nat, alive : Nat]]
    /\ \A p \in Providers : Empty \in Counts[p]
    /\ Never \notin BOOLEAN /\ Never \notin {"down", "recovered"}
    /\ Never \notin [name : Providers, enabled : BOOLEAN, count : [total : Nat, alive : Nat]]

VARIABLES
    mode,       \* "absent", "enabled" or "disabled"
    count,      \* environment: how many proxies it has in the pool
    channels,   \* is a webhook or the e-mail configured
    recent,     \* Dispatcher.dedup: the events younger than the window
    states,     \* ProviderMonitor.states; Never: no entry
    waited,     \* recoverInterval has passed since downSince
    rested,     \* and since lastRecoverAttempt, or there was none
    list,       \* check: the entries of ProviderList() left to look at
    current,    \* check: the entry it is at; Never: none
    wasDown,    \* check: the local of that name
    step,       \* check: where it is with that entry
    told,       \* history: the last event that was sent
    lost,       \* history: an event was lost for want of a channel since then
    hidden      \* history: the last event was dropped as a repetition

envVars   == <<mode, count, channels>>
clocks    == <<waited, rested>>
emitVars  == <<recent, told, lost, hidden>>
checkVars == <<list, current, wasDown, step>>
vars      == <<envVars, clocks, emitVars, checkVars, states>>

Entry(p) == [name |-> p, enabled |-> mode[p] = "enabled", count |-> count[p]]

\* isProviderDown
IsProviderDown(p, c) ==
    \/ c.total = 0
    \/ IF MinAliveRatio[p] > 0 THEN 100 * c.alive < MinAliveRatio[p] * c.total
                               ELSE c.alive = 0

Opposite(e) == IF e = "down" THEN "recovered" ELSE "down"

\* Mutant: an event does not clear its opposite.
EmitKeepsOpposite(p, e) ==
    IF ~channels THEN
        /\ lost' = [lost EXCEPT ![p] = TRUE]
        /\ UNCHANGED <<recent, told, hidden>>
    ELSE
        /\ recent' = [recent EXCEPT ![p] = @ \cup {e}]
        /\ hidden' = [hidden EXCEPT ![p] = e \in recent[p]]
        /\ told' = IF e \in recent[p] THEN told ELSE [told EXCEPT ![p] = e]
        /\ lost' = [lost EXCEPT ![p] = @ /\ e \in recent[p]]

\* Emit: nothing at all without a channel; otherwise the opposite event is
\* forgotten, and this one is sent unless it was sent within the window.
Emit(p, e) ==
    IF ~channels THEN
        /\ lost' = [lost EXCEPT ![p] = TRUE]
        /\ UNCHANGED <<recent, told, hidden>>
    ELSE
        /\ recent' = [recent EXCEPT ![p] = (@ \ {Opposite(e)}) \cup {e}]
        /\ hidden' = [hidden EXCEPT ![p] = e \in recent[p]]
        /\ told' = IF e \in recent[p] THEN told ELSE [told EXCEPT ![p] = e]
        /\ lost' = [lost EXCEPT ![p] = @ /\ e \in recent[p]]

-----------------------------------------------------------------------------
(* The environment *)

\* Loading, health checks, refreshes and expiry change a provider's proxies
\* in the pool; a refresh that was under way adds them to a disabled one too.
ChangeCount(p, c) ==
    /\ count[p] # c
    /\ count' = [count EXCEPT ![p] = c]
    /\ UNCHANGED <<mode, channels, clocks, emitVars, checkVars, states>>

\* An administrator adds, removes, enables or disables a provider; removing
\* and disabling take its proxies out of the pool.
SetMode(p, m) ==
    /\ p \in Administered /\ mode[p] # m
    /\ mode' = [mode EXCEPT ![p] = m]
    /\ count' = [count EXCEPT ![p] = IF m = "enabled" THEN @ ELSE Empty]
    /\ UNCHANGED <<channels, clocks, emitVars, checkVars, states>>

\* AddWebhook, RemoveWebhook, UpdateEmail: from none to some, or back.
SetChannels ==
    /\ channels' = ~channels
    /\ UNCHANGED <<mode, count, clocks, emitVars, checkVars, states>>

\* The dedup window of an event is over.
WindowOver(p, e) ==
    /\ e \in recent[p]
    /\ recent' = [recent EXCEPT ![p] = @ \ {e}]
    /\ UNCHANGED <<envVars, clocks, told, lost, hidden, checkVars, states>>

\* The recover interval passes since the provider went down ...
Wait(p) ==
    /\ ~waited[p]
    /\ waited' = [waited EXCEPT ![p] = TRUE]
    /\ UNCHANGED <<envVars, rested, emitVars, checkVars, states>>

\* ... and since the last attempt to recover it.
Rest(p) ==
    /\ ~rested[p]
    /\ rested' = [rested EXCEPT ![p] = TRUE]
    /\ UNCHANGED <<envVars, waited, emitVars, checkVars, states>>

-----------------------------------------------------------------------------
(* check *)

\* Mutant: the list is made from the proxies in the pool.
BeginCheckPopulated ==
    /\ list = {} /\ step = "idle"
    /\ \E p \in Providers : mode[p] # "absent"
    /\ list' = {Entry(p) : p \in {q \in Providers : mode[q] # "absent" /\ count[q] # Empty}}
    /\ UNCHANGED <<envVars, clocks, emitVars, current, wasDown, step, states>>

\* A tick: ProviderList() copies what there is.
BeginCheck ==
    /\ list = {} /\ step = "idle"
    /\ \E p \in Providers : mode[p] # "absent"
    /\ list' = {Entry(p) : p \in {q \in Providers : mode[q] # "absent"}}
    /\ UNCHANGED <<envVars, clocks, emitVars, current, wasDown, step, states>>

NextEntry(e) == step = "idle" /\ e \in list /\ list' = list \ {e}

\* A disabled provider counts as up; if it was down, "recovered" is emitted.
CheckDisabled(e) ==
    /\ NextEntry(e) /\ ~e.enabled
    /\ states' = [states EXCEPT ![e.name] = FALSE]
    /\ IF states[e.name] = TRUE THEN Emit(e.name, "recovered") ELSE UNCHANGED emitVars
    /\ UNCHANGED <<envVars, clocks, current, wasDown, step>>

\* Mutant: downSince is set whenever the provider is down.
JudgeRestartsClock(e) ==
    /\ NextEntry(e) /\ e.enabled
    /\ LET down == IsProviderDown(e.name, e.count)
       IN  /\ states' = [states EXCEPT ![e.name] = down]
           /\ waited' = [waited EXCEPT ![e.name] = FALSE]
           /\ rested' = [rested EXCEPT ![e.name] = @ \/ ~down]
           /\ step' = IF down THEN "recover" ELSE "report"
    /\ current' = e
    /\ wasDown' = (states[e.name] = TRUE)
    /\ UNCHANGED <<envVars, emitVars>>

\* Under mu: the new state; downSince is set when it goes down, and both
\* times are forgotten when it is up.
Judge(e) ==
    /\ NextEntry(e) /\ e.enabled
    /\ LET down == IsProviderDown(e.name, e.count)
       IN  /\ states' = [states EXCEPT ![e.name] = down]
           /\ waited' = [waited EXCEPT ![e.name] = @ /\ down /\ states[e.name] = TRUE]
           /\ rested' = [rested EXCEPT ![e.name] = @ \/ ~down]
           /\ step' = IF down THEN "recover" ELSE "report"
    /\ current' = e
    /\ wasDown' = (states[e.name] = TRUE)
    /\ UNCHANGED <<envVars, emitVars>>

\* Mutant: nothing is reported when it is too early to recover.
SkipRecoveryReturns ==
    /\ step = "recover" /\ ~(waited[current.name] /\ rested[current.name])
    /\ step' = "idle"
    /\ UNCHANGED <<envVars, clocks, emitVars, list, current, wasDown, states>>

\* maybeAttemptRecovery: too early ...
SkipRecovery ==
    /\ step = "recover" /\ ~(waited[current.name] /\ rested[current.name])
    /\ step' = "report"
    /\ UNCHANGED <<envVars, clocks, emitVars, list, current, wasDown, states>>

\* ... or lastRecoverAttempt is set and RefreshProvider called ...
AttemptRecovery ==
    /\ step = "recover" /\ waited[current.name] /\ rested[current.name]
    /\ rested' = [rested EXCEPT ![current.name] = FALSE]
    /\ step' = "refresh"
    /\ UNCHANGED <<envVars, waited, emitVars, list, current, wasDown, states>>

\* ... which returns within 30 seconds, with new proxies or without.
Refreshed ==
    /\ step = "refresh"
    /\ step' = "report"
    /\ \E c \in Counts[current.name] : count' = [count EXCEPT ![current.name] = c]
    /\ UNCHANGED <<mode, channels, clocks, emitVars, list, current, wasDown, states>>

\* A free provider is passed over; otherwise a change is emitted.
Report ==
    /\ step = "report"
    /\ LET p    == current.name
           down == states[p] = TRUE
       IN  IF p \notin Free /\ down # wasDown
           THEN Emit(p, IF down THEN "down" ELSE "recovered") ELSE UNCHANGED emitVars
    /\ step' = "idle" /\ current' = Never /\ wasDown' = FALSE
    /\ UNCHANGED <<envVars, clocks, list, states>>

Check ==
    \/ BeginCheck
    \/ \E e \in list : CheckDisabled(e) \/ Judge(e)
    \/ SkipRecovery \/ AttemptRecovery \/ Refreshed \/ Report

-----------------------------------------------------------------------------
Init ==
    /\ mode = [p \in Providers |-> IF p \in Administered THEN "absent" ELSE "enabled"]
    /\ count = [p \in Providers |-> Empty]
    /\ channels \in BOOLEAN
    /\ recent = [p \in Providers |-> {}]
    /\ states = [p \in Providers |-> Never]
    /\ waited = [p \in Providers |-> FALSE]
    /\ rested = [p \in Providers |-> TRUE]
    /\ list = {} /\ current = Never /\ wasDown = FALSE /\ step = "idle"
    /\ told = [p \in Providers |-> Never]
    /\ lost = [p \in Providers |-> FALSE]
    /\ hidden = [p \in Providers |-> FALSE]

Environment ==
    \/ \E p \in Providers :
          \/ \E c \in Counts[p] : ChangeCount(p, c)
          \/ \E m \in {"absent", "enabled", "disabled"} : SetMode(p, m)
          \/ \E e \in {"down", "recovered"} : WindowOver(p, e)
    \/ SetChannels

Next == Environment \/ Check \/ \E p \in Providers : Wait(p) \/ Rest(p)

Spec == Init /\ [][Next]_vars

\* The ticker keeps ticking, the monitor's goroutine keeps running and time
\* passes; nothing is assumed of providers and administrators.
FairSpec ==
    /\ Spec
    /\ WF_vars(Check)
    /\ \A p \in Providers : WF_vars(Wait(p)) /\ WF_vars(Rest(p))

-----------------------------------------------------------------------------
(* Properties *)

\* Type correctness.
TypeOK ==
    /\ mode \in [Providers -> {"absent", "enabled", "disabled"}]
    /\ \A p \in Providers : count[p] \in Counts[p]
    /\ channels \in BOOLEAN
    /\ recent \in [Providers -> SUBSET {"down", "recovered"}]
    /\ states \in [Providers -> BOOLEAN \cup {Never}]
    /\ waited \in [Providers -> BOOLEAN] /\ rested \in [Providers -> BOOLEAN]
    /\ \A e \in list : e.name \in Providers /\ e.enabled \in BOOLEAN /\ e.count \in Counts[e.name]
    /\ step \in {"idle", "recover", "refresh", "report"}
    /\ (current = Never) <=> (step = "idle")
    /\ current # Never => current.name \in Providers
    /\ wasDown \in BOOLEAN
    /\ told \in [Providers -> {Never, "down", "recovered"}]
    /\ lost \in [Providers -> BOOLEAN] /\ hidden \in [Providers -> BOOLEAN]

\* The dedup window never hides a change (alert.go:214 "opposite event clears
\* dedup so a new incident of this type can fire again"): an event of a
\* provider that alerts is dropped as a repetition only after another one
\* was lost because no channel was configured.
WindowHidesNoChange == \A p \in Providers \ Free : hidden[p] => lost[p]

Down(p) == mode[p] = "enabled" /\ IsProviderDown(p, count[p])
Up(p)   == mode[p] = "enabled" /\ ~IsProviderDown(p, count[p])

\* With a channel, what was sent last about a provider that stays as it is
\* is eventually the truth, whatever pass it changed in.
ToldTheTruth ==
    [](channels) => \A p \in Providers \ Free :
        /\ <>[]Down(p) => <>[](told[p] = "down")
        /\ <>[]Up(p) => <>[](told[p] # "down")

\* README: a provider that is down is refreshed until it recovers: one that
\* stays down is refreshed again and again (monitor.go:174-203), also after it
\* was disabled or removed and came back.
KeepsTrying ==
    \A p \in Providers :
        <>[]Down(p) => []<>(step = "refresh" /\ current.name = p)

=============================================================================
