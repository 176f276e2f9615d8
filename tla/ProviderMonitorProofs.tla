------------------------ MODULE ProviderMonitorProofs ------------------------
(***************************************************************************)
(* For any providers, thresholds and counts: the monitor and the           *)
(* dispatcher are well typed, and the dedup window hides no change of a    *)
(* provider that alerts.                                                   *)
(***************************************************************************)
EXTENDS ProviderMonitor, TLAPS

-----------------------------------------------------------------------------
(* The inductive invariant *)

\* An entry of ProviderList().
EntryOK(e) ==
    /\ e.name \in Providers /\ e.enabled \in BOOLEAN /\ e.count \in Counts[e.name]
    /\ e # Never

Types ==
    /\ mode \in [Providers -> {"absent", "enabled", "disabled"}]
    /\ count = [p \in Providers |-> count[p]] /\ \A p \in Providers : count[p] \in Counts[p]
    /\ channels \in BOOLEAN
    /\ recent \in [Providers -> SUBSET {"down", "recovered"}]
    /\ states \in [Providers -> BOOLEAN \cup {Never}]
    /\ waited \in [Providers -> BOOLEAN] /\ rested \in [Providers -> BOOLEAN]
    /\ \A e \in list : EntryOK(e)
    /\ step \in {"idle", "recover", "refresh", "report"}
    /\ (current = Never) <=> (step = "idle")
    /\ current # Never => EntryOK(current)
    /\ wasDown \in BOOLEAN
    /\ told \in [Providers -> {Never, "down", "recovered"}]
    /\ lost \in [Providers -> BOOLEAN] /\ hidden \in [Providers -> BOOLEAN]

\* The dispatcher was last asked to say that the provider is down: the state
\* on record, or the one before it while check is at the provider.
ReportedDown(p) ==
    IF step # "idle" /\ current.name = p THEN wasDown = TRUE ELSE states[p] = TRUE

Event(down) == IF down THEN "down" ELSE "recovered"

\* Unless an event was lost, the window holds no event but the last one.
WindowOK(p) ==
    /\ hidden[p] = TRUE => lost[p] = TRUE
    /\ lost[p] = TRUE \/ recent[p] \subseteq {Event(ReportedDown(p))}

IInv == Types /\ \A p \in Providers \ Free : WindowOK(p)

-----------------------------------------------------------------------------
(* Emit *)

\* What Emit does (alert.go:202): the state of the dispatcher stays of its type,
\* nothing changes for the other providers, and for this one the window holds
\* the event alone unless one was lost.
LEMMA EmitFact ==
  ASSUME Types, NEW p \in Providers, NEW e \in {"down", "recovered"}, Emit(p, e)
  PROVE  /\ recent' \in [Providers -> SUBSET {"down", "recovered"}]
         /\ told' \in [Providers -> {Never, "down", "recovered"}]
         /\ lost' \in [Providers -> BOOLEAN] /\ hidden' \in [Providers -> BOOLEAN]
         /\ \A q \in Providers \ {p} :
              recent'[q] = recent[q] /\ lost'[q] = lost[q] /\ hidden'[q] = hidden[q]
         /\ lost'[p] = TRUE \/ recent'[p] \subseteq {e}
         /\ (hidden[p] = TRUE => lost[p] = TRUE) /\ (e \in recent[p] => lost[p] = TRUE) =>
              (hidden'[p] = TRUE => lost'[p] = TRUE)
<1>1. CASE ~channels
  <2>1. lost' = [lost EXCEPT ![p] = TRUE] /\ recent' = recent /\ told' = told /\ hidden' = hidden
    BY <1>1 DEF Emit
  <2>2. lost' \in [Providers -> BOOLEAN] /\ lost'[p] = TRUE
        /\ \A q \in Providers \ {p} : lost'[q] = lost[q]
    BY <2>1 DEF Types
  <2>3. QED
    BY <2>1, <2>2 DEF Types
<1>2. CASE channels
  <2> DEFINE again == e \in recent[p]
             gone == lost[p] /\ e \in recent[p]
  <2>1. /\ recent' = [recent EXCEPT ![p] = (recent[p] \ {Opposite(e)}) \cup {e}]
        /\ hidden' = [hidden EXCEPT ![p] = again]
        /\ told' = IF again THEN told ELSE [told EXCEPT ![p] = e]
        /\ lost' = [lost EXCEPT ![p] = gone]
    BY <1>2 DEF Emit
  <2>2. again \in BOOLEAN /\ gone \in BOOLEAN
    OBVIOUS
  <2>3. gone = TRUE <=> (lost[p] = TRUE /\ e \in recent[p])
    BY DEF Types
  <2>3a. again = TRUE <=> e \in recent[p]
    OBVIOUS
  <2> HIDE DEF again, gone
  <2>4. /\ recent' \in [Providers -> SUBSET {"down", "recovered"}]
        /\ recent'[p] = {e}
        /\ \A q \in Providers \ {p} : recent'[q] = recent[q]
    BY <2>1 DEF Types, Opposite
  <2>5. /\ lost' \in [Providers -> BOOLEAN] /\ hidden' \in [Providers -> BOOLEAN]
        /\ lost'[p] = gone /\ hidden'[p] = again
        /\ \A q \in Providers \ {p} : lost'[q] = lost[q] /\ hidden'[q] = hidden[q]
    BY <2>1, <2>2 DEF Types
  <2>6. told' \in [Providers -> {Never, "down", "recovered"}]
    BY <2>1 DEF Types
  <2>7. QED
    BY <2>3, <2>3a, <2>4, <2>5, <2>6
<1>3. QED
  BY <1>1, <1>2

-----------------------------------------------------------------------------
(* The environment *)

\* What the proofs use of the constants.
LEMMA ConstantFacts ==
  /\ Never \notin BOOLEAN /\ Never # "down" /\ Never # "recovered"
  /\ \A p \in Providers : Empty \in Counts[p]
  /\ \A p \in Providers : \A c \in Counts[p] : c \in [total : Nat, alive : Nat]
  /\ \A e \in [name : Providers, enabled : BOOLEAN, count : [total : Nat, alive : Nat]] :
        e # Never
BY MonitorAssumption

\* Providers and channels change, time passes: the monitor's own state stays.
LEMMA EnvironmentOK ==
  ASSUME IInv, Environment \/ \E p \in Providers : Wait(p) \/ Rest(p)
  PROVE  IInv'
<1>1. /\ states' = states /\ list' = list /\ current' = current /\ wasDown' = wasDown
      /\ step' = step /\ told' = told /\ lost' = lost /\ hidden' = hidden
  BY DEF Environment, ChangeCount, SetMode, SetChannels, WindowOver, Wait, Rest,
         emitVars, checkVars
<1>2. /\ recent' \in [Providers -> SUBSET {"down", "recovered"}]
      /\ \A p \in Providers : recent'[p] \subseteq recent[p]
  <2>1. CASE \E p \in Providers, e \in {"down", "recovered"} : WindowOver(p, e)
    BY <2>1 DEF WindowOver, IInv, Types
  <2>2. CASE recent' = recent
    BY <2>2 DEF IInv, Types
  <2>3. QED
    BY <2>1, <2>2 DEF Environment, ChangeCount, SetMode, SetChannels, Wait, Rest, emitVars
<1>3. /\ mode' \in [Providers -> {"absent", "enabled", "disabled"}]
      /\ count' = [p \in Providers |-> count'[p]] /\ \A p \in Providers : count'[p] \in Counts[p]
  <2>1. ASSUME NEW p \in Providers, NEW c \in Counts[p], ChangeCount(p, c)
        PROVE  <1>3!:
    BY <2>1 DEF ChangeCount, IInv, Types
  <2>2. ASSUME NEW p \in Providers, NEW m \in {"absent", "enabled", "disabled"}, SetMode(p, m)
        PROVE  <1>3!:
    BY <2>2, ConstantFacts DEF SetMode, IInv, Types
  <2>3. CASE mode' = mode /\ count' = count
    BY <2>3 DEF IInv, Types
  <2>4. QED
    BY <2>1, <2>2, <2>3 DEF Environment, SetChannels, WindowOver, Wait, Rest, envVars
<1>4. waited' \in [Providers -> BOOLEAN] /\ rested' \in [Providers -> BOOLEAN]
  BY DEF IInv, Types, Environment, ChangeCount, SetMode, SetChannels, WindowOver, Wait, Rest, clocks
<1>5. channels' \in BOOLEAN
  <2>1. CASE SetChannels
    BY <2>1 DEF SetChannels
  <2>2. CASE channels' = channels
    BY <2>2 DEF IInv, Types
  <2>3. QED
    BY <2>1, <2>2 DEF Environment, ChangeCount, SetMode, WindowOver, Wait, Rest, envVars
<1>6. Types'
  BY <1>1, <1>2, <1>3, <1>4, <1>5 DEF IInv, Types, EntryOK
<1>7. ASSUME NEW p \in Providers \ Free PROVE WindowOK(p)'
  BY <1>1, <1>2 DEF IInv, WindowOK, ReportedDown
<1>8. QED
  BY <1>6, <1>7 DEF IInv

-----------------------------------------------------------------------------
(* check *)

\* The list is made (monitor.go:93).
LEMMA BeginCheckOK ==
  ASSUME IInv, BeginCheck
  PROVE  IInv'
<1>1. /\ states' = states /\ current' = current /\ wasDown' = wasDown /\ step' = step
      /\ told' = told /\ lost' = lost /\ hidden' = hidden /\ recent' = recent
      /\ mode' = mode /\ count' = count /\ channels' = channels
      /\ waited' = waited /\ rested' = rested
  BY DEF BeginCheck, envVars, clocks, emitVars
<1>2. ASSUME NEW e \in list' PROVE EntryOK(e)
  <2>1. PICK p \in Providers : e = Entry(p)
    BY <1>2 DEF BeginCheck
  <2>2. count[p] \in Counts[p] /\ count[p] \in [total : Nat, alive : Nat]
    BY ConstantFacts DEF IInv, Types
  <2> DEFINE b == mode[p] = "enabled"
  <2>3. b \in BOOLEAN /\ e = [name |-> p, enabled |-> b, count |-> count[p]]
    BY <2>1 DEF Entry
  <2> HIDE DEF b
  <2>4. e \in [name : Providers, enabled : BOOLEAN, count : [total : Nat, alive : Nat]]
    BY <2>2, <2>3
  <2>5. e.name = p /\ e.enabled = b /\ e.count = count[p]
    BY <2>3
  <2>6. QED
    BY <2>2, <2>3, <2>4, <2>5, ConstantFacts DEF EntryOK
<1>3. Types'
  BY <1>1, <1>2 DEF IInv, Types, EntryOK
<1>4. ASSUME NEW p \in Providers \ Free PROVE WindowOK(p)'
  BY <1>1 DEF IInv, WindowOK, ReportedDown
<1>5. QED
  BY <1>3, <1>4 DEF IInv

\* A disabled provider (monitor.go:94).
LEMMA CheckDisabledOK ==
  ASSUME IInv, NEW e \in list, CheckDisabled(e)
  PROVE  IInv'
<1> DEFINE p == e.name
<1>1. /\ current' = current /\ wasDown' = wasDown /\ step' = step /\ step = "idle"
      /\ mode' = mode /\ count' = count /\ channels' = channels
      /\ waited' = waited /\ rested' = rested /\ list' \subseteq list
      /\ states' = [states EXCEPT ![p] = FALSE]
  BY DEF CheckDisabled, NextEntry, envVars, clocks
<1>2. p \in Providers
  BY DEF IInv, Types, EntryOK
<1>3. /\ states' \in [Providers -> BOOLEAN \cup {Never}] /\ states'[p] = FALSE
      /\ \A q \in Providers \ {p} : states'[q] = states[q]
  BY <1>1, <1>2 DEF IInv, Types
<1>4. CASE states[p] = TRUE
  <2>1. Emit(p, "recovered")
    BY <1>4 DEF CheckDisabled
  <2>2. /\ recent' \in [Providers -> SUBSET {"down", "recovered"}]
        /\ told' \in [Providers -> {Never, "down", "recovered"}]
        /\ lost' \in [Providers -> BOOLEAN] /\ hidden' \in [Providers -> BOOLEAN]
        /\ \A q \in Providers \ {p} :
              recent'[q] = recent[q] /\ lost'[q] = lost[q] /\ hidden'[q] = hidden[q]
        /\ lost'[p] = TRUE \/ recent'[p] \subseteq {"recovered"}
        /\ (hidden[p] = TRUE => lost[p] = TRUE) /\ ("recovered" \in recent[p] => lost[p] = TRUE) =>
              (hidden'[p] = TRUE => lost'[p] = TRUE)
    BY <1>2, <2>1, EmitFact DEF IInv
  <2>3. Types'
    BY <1>1, <1>3, <2>2 DEF IInv, Types
  <2>4. ASSUME NEW q \in Providers \ Free PROVE WindowOK(q)'
    <3>1. CASE q = p
      <4>1. "recovered" \in recent[p] => lost[p] = TRUE
        BY <1>1, <1>4, <2>4, <3>1 DEF IInv, WindowOK, ReportedDown, Event
      <4>2. hidden[p] = TRUE => lost[p] = TRUE
        BY <2>4, <3>1 DEF IInv, WindowOK
      <4>3. QED
        BY <1>1, <1>3, <2>2, <3>1, <4>1, <4>2 DEF WindowOK, ReportedDown, Event
    <3>2. CASE q # p
      BY <1>1, <1>3, <2>2, <2>4, <3>2 DEF IInv, WindowOK, ReportedDown
    <3>3. QED
      BY <3>1, <3>2
  <2>5. QED
    BY <2>3, <2>4 DEF IInv
<1>5. CASE states[p] # TRUE
  <2>1. recent' = recent /\ told' = told /\ lost' = lost /\ hidden' = hidden
    BY <1>5 DEF CheckDisabled, emitVars
  <2>2. Types'
    BY <1>1, <1>3, <2>1 DEF IInv, Types
  <2>3. ASSUME NEW q \in Providers \ Free PROVE WindowOK(q)'
    <3>1. (states'[q] = TRUE) <=> (states[q] = TRUE)
      BY <1>3, <1>5
    <3>2. QED
      BY <1>1, <2>1, <2>3, <3>1 DEF IInv, WindowOK, ReportedDown
  <2>4. QED
    BY <2>2, <2>3 DEF IInv
<1>6. QED
  BY <1>4, <1>5

\* The new state under mu (monitor.go:111): what was reported is now in wasDown.
LEMMA JudgeOK ==
  ASSUME IInv, NEW e \in list, Judge(e)
  PROVE  IInv'
<1> DEFINE p == e.name
           down == IsProviderDown(p, e.count)
           w == waited[p] /\ down /\ states[p] = TRUE
           r == rested[p] \/ ~down
<1>1. /\ step = "idle" /\ current' = e /\ wasDown' = (states[p] = TRUE)
      /\ mode' = mode /\ count' = count /\ channels' = channels /\ list' \subseteq list
      /\ told' = told /\ lost' = lost /\ hidden' = hidden /\ recent' = recent
      /\ states' = [states EXCEPT ![p] = down]
      /\ waited' = [waited EXCEPT ![p] = w]
      /\ rested' = [rested EXCEPT ![p] = r]
      /\ step' = IF down THEN "recover" ELSE "report"
  BY DEF Judge, NextEntry, envVars, emitVars
<1>2. p \in Providers /\ EntryOK(e)
  BY DEF IInv, Types, EntryOK
<1>3. down \in BOOLEAN /\ w \in BOOLEAN /\ r \in BOOLEAN
  BY DEF IsProviderDown
<1> HIDE DEF down, w, r
<1>4. /\ states' \in [Providers -> BOOLEAN \cup {Never}]
      /\ \A q \in Providers \ {p} : states'[q] = states[q]
  BY <1>1, <1>2, <1>3 DEF IInv, Types
<1>5. waited' \in [Providers -> BOOLEAN] /\ rested' \in [Providers -> BOOLEAN]
  BY <1>1, <1>2, <1>3 DEF IInv, Types
<1>6. wasDown' \in BOOLEAN /\ (wasDown' = TRUE <=> states[p] = TRUE)
  BY <1>1
<1>7. step' \in {"recover", "report"} /\ current' # Never
  BY <1>1, <1>2 DEF EntryOK
<1>8. Types'
  BY <1>1, <1>2, <1>4, <1>5, <1>6, <1>7 DEF IInv, Types, EntryOK
<1>9. ASSUME NEW q \in Providers \ Free PROVE WindowOK(q)'
  <2>1. ReportedDown(q)' <=> ReportedDown(q)
    BY <1>1, <1>4, <1>6, <1>7, <1>9 DEF ReportedDown
  <2>2. QED
    BY <1>1, <1>9, <2>1 DEF IInv, WindowOK, Event
<1>10. QED
  BY <1>8, <1>9 DEF IInv

\* maybeAttemptRecovery and RefreshProvider (monitor.go:177).
LEMMA RecoveryOK ==
  ASSUME IInv, SkipRecovery \/ AttemptRecovery \/ Refreshed
  PROVE  IInv'
<1>1. /\ step # "idle" /\ step' \in {"refresh", "report"}
      /\ states' = states /\ current' = current /\ wasDown' = wasDown /\ list' = list
      /\ told' = told /\ lost' = lost /\ hidden' = hidden /\ recent' = recent
      /\ mode' = mode /\ channels' = channels /\ waited' = waited
  BY DEF SkipRecovery, AttemptRecovery, Refreshed, envVars, clocks, emitVars
<1>2. current # Never /\ current.name \in Providers
  BY <1>1 DEF IInv, Types, EntryOK
<1>3. rested' \in [Providers -> BOOLEAN]
  BY <1>2 DEF IInv, Types, SkipRecovery, AttemptRecovery, Refreshed, clocks
<1>4. count' = [p \in Providers |-> count'[p]] /\ \A p \in Providers : count'[p] \in Counts[p]
  BY <1>2 DEF IInv, Types, SkipRecovery, AttemptRecovery, Refreshed, envVars
<1>5. Types'
  BY <1>1, <1>2, <1>3, <1>4 DEF IInv, Types, EntryOK
<1>6. ASSUME NEW p \in Providers \ Free PROVE WindowOK(p)'
  BY <1>1 DEF IInv, WindowOK, ReportedDown
<1>7. QED
  BY <1>5, <1>6 DEF IInv

\* A change is emitted (monitor.go:133, 147): the window cannot hold it already.
LEMMA ReportOK ==
  ASSUME IInv, Report
  PROVE  IInv'
<1>1. /\ step = "report" /\ step' = "idle" /\ current' = Never /\ wasDown' = FALSE
      /\ list' = list /\ states' = states
      /\ mode' = mode /\ count' = count /\ channels' = channels
      /\ waited' = waited /\ rested' = rested
  BY DEF Report, envVars, clocks
<1>2. PICK p \in Providers : p = current.name
  BY <1>1 DEF IInv, Types, EntryOK
<1> DEFINE down == states[p] = TRUE
<1>2a. PICK ev \in {"down", "recovered"} : ev = Event(down)
  BY DEF Event
<1>3. ASSUME recent' \in [Providers -> SUBSET {"down", "recovered"}],
             told' \in [Providers -> {Never, "down", "recovered"}],
             lost' \in [Providers -> BOOLEAN], hidden' \in [Providers -> BOOLEAN]
      PROVE  Types'
  BY <1>1, <1>3 DEF IInv, Types, EntryOK
<1>4. CASE p \notin Free /\ down # wasDown
  <2>1. Emit(p, ev)
    BY <1>2, <1>2a, <1>4 DEF Report, Event
  <2>2. /\ recent' \in [Providers -> SUBSET {"down", "recovered"}]
        /\ told' \in [Providers -> {Never, "down", "recovered"}]
        /\ lost' \in [Providers -> BOOLEAN] /\ hidden' \in [Providers -> BOOLEAN]
        /\ \A q \in Providers \ {p} :
              recent'[q] = recent[q] /\ lost'[q] = lost[q] /\ hidden'[q] = hidden[q]
        /\ lost'[p] = TRUE \/ recent'[p] \subseteq {ev}
        /\ (hidden[p] = TRUE => lost[p] = TRUE) /\ (ev \in recent[p] => lost[p] = TRUE) =>
              (hidden'[p] = TRUE => lost'[p] = TRUE)
    BY <2>1, EmitFact DEF IInv
  <2>3. ASSUME NEW q \in Providers \ Free PROVE WindowOK(q)'
    <3>1. CASE q = p
      <4>1. down <=> ~(wasDown = TRUE)
        BY <1>4 DEF IInv, Types
      <4>2. ReportedDown(p) <=> ~down
        BY <1>1, <1>2, <4>1 DEF ReportedDown
      <4>3. ev \in recent[p] => lost[p] = TRUE
        BY <1>2a, <2>3, <3>1, <4>2 DEF IInv, WindowOK, Event
      <4>4. hidden[p] = TRUE => lost[p] = TRUE
        BY <2>3, <3>1 DEF IInv, WindowOK
      <4>5. ReportedDown(p)' <=> down
        BY <1>1 DEF ReportedDown
      <4>6. QED
        BY <1>2a, <2>2, <3>1, <4>3, <4>4, <4>5 DEF WindowOK, Event
    <3>2. CASE q # p
      <4>1. ReportedDown(q)' <=> ReportedDown(q)
        BY <1>1, <1>2, <3>2 DEF ReportedDown
      <4>2. QED
        BY <2>2, <2>3, <3>2, <4>1 DEF IInv, WindowOK, Event
    <3>3. QED
      BY <3>1, <3>2
  <2>4. QED
    BY <1>3, <2>2, <2>3 DEF IInv
<1>5. CASE ~(p \notin Free /\ down # wasDown)
  <2>1. recent' = recent /\ told' = told /\ lost' = lost /\ hidden' = hidden
    BY <1>2, <1>5 DEF Report, emitVars
  <2>2. ASSUME NEW q \in Providers \ Free PROVE WindowOK(q)'
    <3>1. ReportedDown(q)' <=> ReportedDown(q)
      BY <1>1, <1>2, <1>5, <2>2 DEF ReportedDown, IInv, Types
    <3>2. QED
      BY <2>1, <2>2, <3>1 DEF IInv, WindowOK, Event
  <2>3. QED
    BY <1>3, <2>1, <2>2 DEF IInv, Types
<1>6. QED
  BY <1>4, <1>5

-----------------------------------------------------------------------------
\* Nothing has been seen, reported or lost at the start.
LEMMA InitOK == Init => IInv
<1> SUFFICES ASSUME Init PROVE IInv
  OBVIOUS
<1>1. Types
  BY ConstantFacts DEF Init, Types
<1>2. \A p \in Providers \ Free : WindowOK(p)
  BY DEF Init, WindowOK
<1>3. QED
  BY <1>1, <1>2 DEF IInv

\* Every step keeps the invariant.
LEMMA NextOK == IInv /\ [Next]_vars => IInv'
<1> SUFFICES ASSUME IInv, [Next]_vars PROVE IInv'
  OBVIOUS
<1>1. CASE UNCHANGED vars
  <2>1. Types'
    BY <1>1 DEF vars, envVars, clocks, emitVars, checkVars, IInv, Types, EntryOK
  <2>2. ASSUME NEW p \in Providers \ Free PROVE WindowOK(p)'
    BY <1>1 DEF vars, emitVars, checkVars, IInv, WindowOK, ReportedDown
  <2>3. QED
    BY <2>1, <2>2 DEF IInv
<1>2. CASE Environment \/ \E p \in Providers : Wait(p) \/ Rest(p)
  BY <1>2, EnvironmentOK
<1>3. CASE Check
  BY <1>3, BeginCheckOK, CheckDisabledOK, JudgeOK, RecoveryOK, ReportOK DEF Check
<1>4. QED
  BY <1>1, <1>2, <1>3 DEF Next

\* Every reachable state has it.
LEMMA Inductive == Spec => []IInv
BY InitOK, NextOK, PTL DEF Spec

\* Type correctness: the monitor is at a listed provider exactly when it is not
\* idle, whatever administrators do meanwhile.
THEOREM MonitorTypeCorrect == Spec => []TypeOK
<1>1. IInv => TypeOK
  BY DEF IInv, Types, EntryOK, TypeOK
<1>2. QED
  BY <1>1, Inductive, PTL

\* The dedup window never hides a change (alert.go:214), unless an event was
\* lost before for want of a channel.
THEOREM WindowHidesNothing == Spec => []WindowHidesNoChange
<1>1. IInv => WindowHidesNoChange
  BY DEF IInv, Types, WindowOK, WindowHidesNoChange
<1>2. QED
  BY <1>1, Inductive, PTL

=============================================================================
