------------------------ MODULE ProviderManagerProofs ------------------------
(***************************************************************************)
(* The provider manager is type correct; its pool follows the              *)
(* configuration in memory but for what an overtaken operation or the      *)
(* refresh of a disabled provider wrote; its file follows memory but for   *)
(* lost and overtaken saves; for any sets of providers, upstreams, weights *)
(* and goroutines.                                                         *)
(***************************************************************************)
EXTENDS ProviderManager, TLAPS

-----------------------------------------------------------------------------
(* The inductive invariant *)

LiveObject == {o \in [provider : Source, cfg : Config, enabled : BOOLEAN] :
                 o.provider.version = o.cfg.version}

\* A registered provider has an object of its own, and a worker that will read
\* mp.provider holds one.
ObjectsInUse ==
    /\ \A n \in Names : provs[n] # Nil => mp[provs[n]] \in LiveObject
    /\ \A m, n \in Names : provs[m] = provs[n] /\ provs[m] # Nil => m = n
    /\ \A t \in Workers : work[t].mp # Nil => mp[work[t].mp] \in LiveObject

\* What a worker knows at each of its steps.
WorkerOK(r) ==
    /\ r.pc # "idle" => r.name \in Names
    /\ r.pc = "call" => r.mp # Nil /\ r.op \in {"enable", "refresh"}
    /\ r.pc = "waiting" =>
         r.source \in Source /\ r.op \in {"load", "add", "update", "enable", "refresh"}
    /\ r.pc = "retune" => r.cfg \in Config
    /\ r.pc \in {"collect", "drop"} /\ r.then = "waiting" => r.source \in Source /\ r.op = "update"
    /\ r.pc = "expire" => ~r.latest
    /\ r.op \in {"load", "refresh"} => ~r.latest
    /\ r.pc = "idle" => ~r.latest

WorkersOK == \A t \in Workers : WorkerOK(work[t])

\* The worker that changed a provider last will save what is in memory.
LatestSaves == \A t \in Workers : work[t].latest => work[t].cfg = Mem(work[t].name)

\* A worker that fetches, or will when it has dropped what there is.
Fetches(r) == r.pc = "waiting" \/ (r.pc \in {"collect", "drop"} /\ r.then = "waiting")

\* What a worker has in hand while no later change of its provider has overtaken it.
Knows(r) ==
    r.fresh =>
      /\ r.pc = "retune" => provs[r.name] # Nil /\ r.cfg.weight = mp[provs[r.name]].cfg.weight
      /\ r.pc = "call" => r.op = "enable" /\ r.mp = provs[r.name] /\ mp[r.mp].enabled
      /\ Fetches(r) => /\ provs[r.name] # Nil /\ r.source = mp[provs[r.name]].provider
                       /\ r.op = "refresh" \/ mp[provs[r.name]].enabled

UpToDate == \A t \in Workers : Knows(work[t])

Typed == TypeOK /\ ObjectsInUse /\ WorkersOK /\ LatestSaves /\ UpToDate

\* Whenever file and memory differ the worker that changed the provider last has
\* its save before it, or behind says that it is lost.
FileOK(n) ==
    ~behind[n] => file[n] = Mem(n) \/ \E t \in Workers : work[t].name = n /\ work[t].latest

FileWillFollow == \A n \in Names : FileOK(n)

\* The proxy v of n comes from where it should; it has a weight it may have.
Right(n, v) ==
    provs[n] # Nil /\ Mem(n).version = v /\ (mp[provs[n]].enabled \/ wrote[n][v] = "unasked")
Served(n, v) == Right(n, v) /\ proxies[n][v] \in {Mem(n).weight, mp[provs[n]].provider.weight}

\* Some worker is about to drop the proxy v of n or to set its weight.
Mended(n, v) ==
    \E t \in Workers : /\ work[t].name = n
                       /\ \/ work[t].pc = "collect"
                          \/ work[t].pc = "drop" /\ v \in work[t].drop
                          \/ work[t].pc = "retune" /\ Right(n, v)

\* Whenever a proxy is not as configured somebody will mend it, or an overtaken
\* step was the last to write it.
PoolOK(n) == \A v \in Present(n) : wrote[n][v] = "overtaken" \/ Served(n, v) \/ Mended(n, v)

PoolWillFollow == \A n \in Names : PoolOK(n)

-----------------------------------------------------------------------------
(* Workers *)

\* What Changed makes of the record of the worker that changes a provider.
Chosen(r) == [r EXCEPT !.latest = TRUE, !.fresh = TRUE]

\* The record r of the worker that has changed provider n fits the change.
Informed(n, r) ==
    /\ r.pc = "retune" => provs'[n] # Nil /\ r.cfg.weight = mp'[provs'[n]].cfg.weight
    /\ r.pc = "call" => r.op = "enable" /\ r.mp = provs'[n] /\ mp'[provs'[n]].enabled
    /\ Fetches(r) => /\ provs'[n] # Nil /\ r.source = mp'[provs'[n]].provider
                     /\ mp'[provs'[n]].enabled

\* The records workers are given.
LEMMA IdleOK == Idle \in Work /\ WorkerOK(Idle) /\ Idle.name = Nil /\ Idle.mp = Nil /\ ~Idle.latest
                  /\ Idle.pc = "idle" /\ Idle.op = "none" /\ Knows(Idle)
  BY DEF Idle, Work, WorkerOK, Knows

\* The way to the save.
LEMMA SavingOK ==
    ASSUME NEW r \in Work, r.name \in Names
    PROVE  /\ Saving(r) \in Work /\ WorkerOK(Saving(r))
           /\ Saving(r).name = r.name /\ Saving(r).cfg = r.cfg /\ Saving(r).mp = Nil
           /\ Saving(r).latest = r.latest /\ Saving(r).pc = "save" /\ Knows(Saving(r))
<1> DEFINE q == Saving(r)
<1>1. /\ q \in Work /\ q.name = r.name /\ q.cfg = r.cfg /\ q.mp = Nil
      /\ q.latest = r.latest /\ q.pc = "save" /\ q.op = "none" /\ q.fresh = FALSE
  BY DEF Saving, Idle, Work
<1> HIDE DEF q
<1>2. WorkerOK(q) /\ Knows(q)
  BY <1>1 DEF WorkerOK, Knows
<1> QED BY <1>1, <1>2 DEF q

\* The drop loop and its end.
LEMMA DroppedOK ==
    ASSUME NEW r \in Work, WorkerOK(r), r.pc \in {"collect", "drop"}, NEW vs \in SUBSET Versions
    PROVE  /\ Dropped(r, vs) \in Work /\ WorkerOK(Dropped(r, vs))
           /\ Dropped(r, vs).name = r.name /\ Dropped(r, vs).cfg = r.cfg
           /\ Dropped(r, vs).mp \in {r.mp, Nil} /\ Dropped(r, vs).latest = r.latest
           /\ vs # {} => Dropped(r, vs).pc = "drop" /\ Dropped(r, vs).drop = vs
           /\ Knows(r) => Knows(Dropped(r, vs))
<1>1. r.name \in Names
  BY DEF WorkerOK
<1>2. CASE vs # {}
  <2> DEFINE q == [r EXCEPT !.drop = vs, !.pc = "drop"]
  <2>1. /\ q \in Work /\ q.pc = "drop" /\ q.drop = vs /\ q.name = r.name /\ q.cfg = r.cfg
        /\ q.mp = r.mp /\ q.latest = r.latest /\ q.fresh = r.fresh /\ q.source = r.source
        /\ q.op = r.op /\ q.then = r.then
    BY DEF Work
  <2>2. Dropped(r, vs) = q
    BY <1>2 DEF Dropped
  <2> HIDE DEF q
  <2> QED BY <1>1, <1>2, <2>1, <2>2 DEF WorkerOK, Knows, Fetches
<1>3. CASE vs = {} /\ r.then = "waiting"
  <2> DEFINE q == [r EXCEPT !.drop = {}, !.pc = "waiting", !.then = "idle"]
  <2>1. /\ q \in Work /\ q.pc = "waiting" /\ q.name = r.name /\ q.cfg = r.cfg
        /\ q.mp = r.mp /\ q.latest = r.latest /\ q.fresh = r.fresh /\ q.source = r.source
        /\ q.op = r.op /\ q.then = "idle"
    BY DEF Work
  <2>2. Dropped(r, vs) = q
    BY <1>3 DEF Dropped
  <2> HIDE DEF q
  <2> QED BY <1>1, <1>3, <2>1, <2>2 DEF WorkerOK, Knows, Fetches
<1>4. CASE vs = {} /\ r.then # "waiting"
  BY <1>1, <1>4, SavingOK DEF Dropped
<1> QED BY <1>2, <1>3, <1>4

\* A step that touches neither the map nor the objects, and only worker t.
LEMMA WorkerStep ==
    ASSUME Typed, UNCHANGED <<provs, mp>>, NEW t \in Workers, NEW r \in Work,
           work' = [work EXCEPT ![t] = r], WorkerOK(r), Knows(r),
           r.mp \in {Nil, work[t].mp} \/ mp[r.mp] \in LiveObject,
           r.latest => work[t].latest /\ r.cfg = work[t].cfg /\ r.name = work[t].name
    PROVE  /\ work' \in [Workers -> Work]
           /\ ObjectsInUse' /\ WorkersOK' /\ LatestSaves' /\ UpToDate'
<1>1. /\ work' \in [Workers -> Work] /\ work'[t] = r
      /\ \A u \in Workers \ {t} : work'[u] = work[u]
  BY DEF Typed, TypeOK
<1>2. ObjectsInUse'
  BY <1>1 DEF Typed, ObjectsInUse
<1>3. WorkersOK'
  BY <1>1 DEF Typed, WorkersOK
<1>4. LatestSaves'
  BY <1>1 DEF Typed, LatestSaves, Mem
<1>5. UpToDate'
  BY <1>1 DEF Typed, UpToDate, Knows
<1> QED BY <1>1, <1>2, <1>3, <1>4, <1>5

\* What Changed does to the workers.
LEMMA ChangedWork ==
    ASSUME Typed, NEW t \in Workers, NEW n \in Names, NEW r \in Work, Changed(t, n, r)
    PROVE  /\ work' \in [Workers -> Work] /\ edits' \in 0..MaxEdits
           /\ work'[t] = Chosen(r) /\ Chosen(r) \in Work
           /\ \A u \in Workers \ {t} :
                 /\ work'[u].pc = work[u].pc /\ work'[u].op = work[u].op
                 /\ work'[u].name = work[u].name /\ work'[u].mp = work[u].mp
                 /\ work'[u].cfg = work[u].cfg /\ work'[u].source = work[u].source
                 /\ work'[u].drop = work[u].drop /\ work'[u].then = work[u].then
                 /\ work'[u].latest <=> work[u].latest /\ work[u].name # n
                 /\ work'[u].fresh <=> work[u].fresh /\ work[u].name # n
<1>1. work \in [Workers -> Work] /\ edits \in 0..MaxEdits /\ MaxEdits \in Nat
  BY ManagerAssumption DEF Typed, TypeOK
<1>2. edits' \in 0..MaxEdits
  <2>1. edits < MaxEdits /\ edits' = edits + 1
    BY DEF Changed
  <2> QED BY <1>1, <2>1
<1>3. work' = [u \in Workers |-> IF u = t THEN Chosen(r)
                ELSE IF work[u].name = n THEN [work[u] EXCEPT !.latest = FALSE, !.fresh = FALSE]
                ELSE work[u]]
  BY DEF Changed, Chosen
<1>4. Chosen(r) \in Work
  BY DEF Chosen, Work
<1>5. ASSUME NEW u \in Workers \ {t}
      PROVE  /\ work'[u] \in Work
             /\ work'[u].pc = work[u].pc /\ work'[u].op = work[u].op
             /\ work'[u].name = work[u].name /\ work'[u].mp = work[u].mp
             /\ work'[u].cfg = work[u].cfg /\ work'[u].source = work[u].source
             /\ work'[u].drop = work[u].drop /\ work'[u].then = work[u].then
             /\ work'[u].latest <=> work[u].latest /\ work[u].name # n
             /\ work'[u].fresh <=> work[u].fresh /\ work[u].name # n
  <2>1. CASE work[u].name = n
    <3>1. work'[u] = [work[u] EXCEPT !.latest = FALSE, !.fresh = FALSE] /\ work[u] \in Work
      BY <2>1, <1>1, <1>3
    <3> QED BY <3>1, <2>1 DEF Work
  <2>2. CASE work[u].name # n
    BY <2>2, <1>1, <1>3
  <2> QED BY <2>1, <2>2
<1>6. work' \in [Workers -> Work] /\ work'[t] = Chosen(r)
  BY <1>3, <1>4, <1>5
<1> QED BY <1>2, <1>4, <1>5, <1>6

\* A locked change of provider n by worker t, which goes on with r.
LEMMA ChangedStep ==
    ASSUME Typed, NEW t \in Workers, NEW n \in Names, NEW r \in Work, Changed(t, n, r),
           r.name = n, WorkerOK(Chosen(r)),
           \A m \in Names \ {n} : provs'[m] = provs[m] /\ (provs[m] # Nil => mp'[provs[m]] = mp[provs[m]]),
           provs'[n] # Nil => /\ mp'[provs'[n]] \in LiveObject
                              /\ \A m \in Names \ {n} : provs[m] # provs'[n],
           \A u \in Workers : work[u].mp # Nil => mp'[work[u].mp] \in LiveObject,
           r.mp # Nil => r.mp = provs'[n],
           r.cfg = Mem(n)', Informed(n, r)
    PROVE  /\ work' \in [Workers -> Work] /\ edits' \in 0..MaxEdits
           /\ ObjectsInUse' /\ WorkersOK' /\ LatestSaves' /\ UpToDate'
<1> DEFINE q == Chosen(r)
<1>1. /\ q.name = n /\ q.mp = r.mp /\ q.cfg = r.cfg
      /\ q.pc = r.pc /\ q.op = r.op /\ q.source = r.source /\ q.then = r.then
  BY DEF Work, Chosen
<1>2. /\ work' \in [Workers -> Work] /\ edits' \in 0..MaxEdits /\ work'[t] = q
      /\ \A u \in Workers \ {t} :
            /\ work'[u].pc = work[u].pc /\ work'[u].op = work[u].op
            /\ work'[u].name = work[u].name /\ work'[u].mp = work[u].mp
            /\ work'[u].cfg = work[u].cfg /\ work'[u].source = work[u].source
            /\ work'[u].drop = work[u].drop /\ work'[u].then = work[u].then
            /\ work'[u].latest <=> work[u].latest /\ work[u].name # n
            /\ work'[u].fresh <=> work[u].fresh /\ work[u].name # n
  BY ChangedWork
<1> HIDE DEF q
<1>3. ObjectsInUse'
  <2>1. ASSUME NEW m \in Names, provs'[m] # Nil PROVE mp'[provs'[m]] \in LiveObject
    BY <2>1 DEF Typed, ObjectsInUse
  <2>2. ASSUME NEW l \in Names, NEW m \in Names, provs'[l] = provs'[m], provs'[l] # Nil PROVE l = m
    BY <2>2 DEF Typed, ObjectsInUse
  <2>3. ASSUME NEW u \in Workers, work'[u].mp # Nil PROVE mp'[work'[u].mp] \in LiveObject
    <3>1. CASE u = t
      BY <3>1, <2>3, <1>1, <1>2
    <3>2. CASE u # t
      BY <3>2, <2>3, <1>2
    <3> QED BY <3>1, <3>2
  <2> QED BY <2>1, <2>2, <2>3 DEF ObjectsInUse
<1>4. ASSUME NEW u \in Workers PROVE WorkerOK(work'[u])
  <2>1. CASE u = t
    BY <2>1, <1>2 DEF q
  <2>2. CASE u # t
    <3>1. WorkerOK(work[u])
      BY DEF Typed, WorkersOK
    <3> QED BY <3>1, <2>2, <1>2 DEF WorkerOK
  <2> QED BY <2>1, <2>2
<1>5. ASSUME NEW u \in Workers, work'[u].latest PROVE (work[u].cfg = Mem(work[u].name))'
  <2>1. CASE u = t
    BY <2>1, <1>1, <1>2 DEF Mem
  <2>2. CASE u # t
    <3>1. work[u].latest /\ work[u].name # n /\ work'[u].cfg = work[u].cfg /\ work'[u].name = work[u].name
      BY <2>2, <1>2, <1>5
    <3>2. work[u].cfg = Mem(work[u].name) /\ work[u].name \in Names
      BY <3>1 DEF Typed, LatestSaves, WorkersOK, WorkerOK
    <3>3. Mem(work[u].name)' = Mem(work[u].name)
      BY <3>1, <3>2 DEF Mem
    <3> QED BY <3>1, <3>2, <3>3 DEF Mem
  <2> QED BY <2>1, <2>2
<1>6. ASSUME NEW u \in Workers PROVE Knows(work[u])'
  <2>1. CASE u = t
    BY <2>1, <1>1, <1>2 DEF Knows, Fetches, Informed
  <2>2. CASE u # t /\ work[u].fresh /\ work[u].name # n /\ work[u].pc # "idle"
    <3>1. Knows(work[u]) /\ work[u].name \in Names \ {n}
      BY <2>2 DEF Typed, UpToDate, WorkersOK, WorkerOK
    <3>2. /\ provs'[work[u].name] = provs[work[u].name]
          /\ provs[work[u].name] # Nil => mp'[provs[work[u].name]] = mp[provs[work[u].name]]
      BY <3>1
    <3>3. work[u].pc = "call" => work[u].mp # Nil
      BY DEF Typed, WorkersOK, WorkerOK
    <3> QED BY <1>2, <2>2, <3>1, <3>2, <3>3 DEF Knows, Fetches
  <2>3. CASE u # t /\ ~(work[u].fresh /\ work[u].name # n /\ work[u].pc # "idle")
    BY <1>2, <2>3 DEF Knows, Fetches
  <2> QED BY <2>1, <2>2, <2>3
<1> QED BY <1>2, <1>3, <1>4, <1>5, <1>6 DEF WorkersOK, LatestSaves, UpToDate

-----------------------------------------------------------------------------
(* Type correctness, action by action *)

\* A configuration gives a source.
LEMMA SourceOfConfig == \A c \in Config : SourceOf(c) \in Source
  BY DEF SourceOf, Source, Config

\* A locked change of provider n, after which worker t goes on with r.
Locked(t, n, r) ==
    /\ work[t] = Idle /\ r \in Work /\ r.name = n /\ Changed(t, n, r) /\ Informed(n, r)
    /\ \A m \in Names \ {n} : provs'[m] = provs[m] /\ (provs[m] # Nil => mp'[provs[m]] = mp[provs[m]])
    /\ UNCHANGED <<proxies, file, wrote, behind>>

\* AddProvider registers a fresh object and hands its configuration to the worker.
LEMMA TypedAdd ==
    ASSUME Typed, NEW t \in Requests, NEW n \in Names, NEW c \in Submitted, AddProvider(t, n, c)
    PROVE  Typed' /\ \E r : Locked(t, n, r)
<1> DEFINE h == CHOOSE h \in FreeHandles : TRUE
           o == [provider |-> SourceOf(c), cfg |-> c, enabled |-> c.enabled]
           r == [Begin(n, "add") EXCEPT !.cfg = c, !.source = SourceOf(c), !.pc = "waiting"]
           q == IF c.enabled THEN r ELSE Saving(r)
<1>1. c \in Config /\ SourceOf(c) \in Source /\ c.enabled \in BOOLEAN /\ t \in Workers
  BY ManagerAssumption, SourceOfConfig DEF Config, Workers
<1>2. /\ o \in LiveObject /\ o \in Object /\ o.cfg = c
      /\ o.provider = SourceOf(c) /\ o.enabled = c.enabled
  BY <1>1 DEF LiveObject, Object, SourceOf
<1>3. /\ h \in Handles /\ h # Nil /\ (\A m \in Names : provs[m] # h)
      /\ \A u \in Workers : work[u].mp # h
  <2>1. FreeHandles # {}
    BY DEF AddProvider
  <2>2. h \in FreeHandles
    BY <2>1
  <2>3. provs \in [Names -> Handles \cup {Nil}]
    BY DEF Typed, TypeOK
  <2>4. \A m \in Names : provs[m] \in Range(provs)
    BY <2>3 DEF Range
  <2> QED BY <2>2, <2>4, ManagerAssumption DEF FreeHandles
<1>4. /\ r \in Work /\ WorkerOK(Chosen(r)) /\ r.name = n /\ r.mp = Nil /\ r.cfg = c
  BY <1>1 DEF Begin, Idle, Work, WorkerOK, Chosen
<1>5. /\ Saving(r) \in Work /\ WorkerOK(Chosen(Saving(r))) /\ Saving(r).pc = "save"
      /\ Saving(r).name = n /\ Saving(r).mp = Nil /\ Saving(r).cfg = c
  BY <1>1 DEF Saving, Begin, Idle, Work, WorkerOK, Chosen
<1>6. provs' = [provs EXCEPT ![n] = h] /\ mp' = [mp EXCEPT ![h] = o] /\ Changed(t, n, q)
  BY DEF AddProvider
<1>a. r.pc = "waiting" /\ r.source = SourceOf(c)
  BY <1>1 DEF Begin, Idle
<1>7. q \in Work /\ WorkerOK(Chosen(q)) /\ q.name = n /\ q.mp = Nil /\ q.cfg = c
  <2>1. CASE c.enabled
    BY <2>1, <1>4
  <2>2. CASE ~c.enabled
    BY <2>2, <1>5
  <2> QED BY <2>1, <2>2
<1>b. /\ q.pc \in {"waiting", "save"}
      /\ q.pc = "waiting" => c.enabled /\ q.source = SourceOf(c)
  BY <1>5, <1>a
<1> HIDE DEF h, o, r, q
<1>8. provs \in [Names -> Handles \cup {Nil}] /\ mp \in [Handles -> Object]
      /\ work \in [Workers -> Work]
  BY DEF Typed, TypeOK
<1>9. /\ provs' \in [Names -> Handles \cup {Nil}] /\ mp' \in [Handles -> Object]
      /\ provs'[n] = h /\ mp'[h] = o
      /\ \A m \in Names \ {n} : provs'[m] = provs[m]
      /\ \A k \in Handles \ {h} : mp'[k] = mp[k]
  BY <1>2, <1>3, <1>6, <1>8
<1>10. \A m \in Names \ {n} : provs'[m] = provs[m] /\ (provs[m] # Nil => mp'[provs[m]] = mp[provs[m]])
  BY <1>3, <1>8, <1>9
<1>11. \A u \in Workers : work[u].mp # Nil => mp'[work[u].mp] \in LiveObject
  <2>1. \A u \in Workers : work[u].mp \in Handles \cup {Nil}
    BY <1>8 DEF Work
  <2> QED BY <2>1, <1>3, <1>9 DEF Typed, ObjectsInUse
<1>12. Mem(n)' = c
  BY <1>2, <1>3, <1>9 DEF Mem
<1>c. Informed(n, q)
  BY <1>2, <1>3, <1>9, <1>b DEF Informed, Fetches
<1>13. /\ work' \in [Workers -> Work] /\ edits' \in 0..MaxEdits
       /\ ObjectsInUse' /\ WorkersOK' /\ LatestSaves' /\ UpToDate'
  BY <1>1, <1>2, <1>3, <1>6, <1>7, <1>9, <1>10, <1>11, <1>12, <1>c, ChangedStep
<1>14. Locked(t, n, q)
  BY <1>6, <1>7, <1>10, <1>c DEF Locked, AddProvider, CanBegin
<1>15. Typed'
  BY <1>9, <1>13 DEF AddProvider, Typed, TypeOK
<1> QED BY <1>14, <1>15

\* RemoveProvider leaves the object to the workers that still hold it.
LEMMA TypedRemove ==
    ASSUME Typed, NEW t \in Requests, NEW n \in Names, RemoveProvider(t, n)
    PROVE  Typed' /\ \E r : Locked(t, n, r) /\ r.pc = "collect"
<1> DEFINE r == [Begin(n, "remove") EXCEPT !.pc = "collect", !.then = "save"]
<1>1. r.pc = "collect" /\ r \in Work /\ WorkerOK(Chosen(r)) /\ r.name = n /\ r.mp = Nil /\ r.cfg = Nil
      /\ Informed(n, r)
  BY DEF Begin, Idle, Work, WorkerOK, Chosen, Informed, Fetches
<1>2. Changed(t, n, r) /\ provs' = [provs EXCEPT ![n] = Nil] /\ provs[n] # Nil
  BY DEF RemoveProvider
<1> HIDE DEF r
<1>3. provs \in [Names -> Handles \cup {Nil}] /\ mp \in [Handles -> Object]
      /\ work \in [Workers -> Work] /\ t \in Workers
  BY DEF Typed, TypeOK, Workers
<1>4. provs' \in [Names -> Handles \cup {Nil}] /\ provs'[n] = Nil
      /\ \A m \in Names \ {n} : provs'[m] = provs[m]
  BY <1>2, <1>3
<1>5. /\ mp' \in [Handles -> Object]
      /\ \A k \in Handles \ {provs[n]} : mp'[k] = mp[k]
      /\ \A u \in Workers : work[u].mp = provs[n] => mp' = mp
  BY <1>2, <1>3 DEF RemoveProvider, Object
<1>6. \A m \in Names \ {n} : provs'[m] = provs[m] /\ (provs[m] # Nil => mp'[provs[m]] = mp[provs[m]])
  BY <1>2, <1>3, <1>4, <1>5 DEF Typed, ObjectsInUse
<1>7. \A u \in Workers : work[u].mp # Nil => mp'[work[u].mp] \in LiveObject
  <2>1. \A u \in Workers : work[u].mp \in Handles \cup {Nil}
    BY <1>3 DEF Work
  <2> QED BY <2>1, <1>5 DEF Typed, ObjectsInUse
<1>8. Mem(n)' = Nil
  BY <1>4 DEF Mem
<1>9. /\ work' \in [Workers -> Work] /\ edits' \in 0..MaxEdits
      /\ ObjectsInUse' /\ WorkersOK' /\ LatestSaves' /\ UpToDate'
  BY <1>1, <1>2, <1>3, <1>4, <1>6, <1>7, <1>8, ChangedStep
<1>10. Locked(t, n, r)
  BY <1>1, <1>2, <1>6 DEF Locked, RemoveProvider, CanBegin
<1>11. Typed'
  BY <1>4, <1>5, <1>9 DEF RemoveProvider, Typed, TypeOK
<1> QED BY <1>1, <1>10, <1>11

\* The operations that change the object of a provider in place.
LEMMA TypedInPlace ==
    ASSUME Typed, NEW t \in Requests, NEW n \in Names, provs[n] # Nil,
           NEW o \in LiveObject, mp' = [mp EXCEPT ![provs[n]] = o],
           NEW r \in Work, Changed(t, n, r), r.name = n, WorkerOK(Chosen(r)),
           r.mp # Nil => r.mp = provs[n], r.cfg = o.cfg,
           r.pc = "call" => r.op = "enable" /\ r.mp # Nil /\ o.enabled,
           Fetches(r) => r.source = o.provider /\ o.enabled,
           UNCHANGED <<provs, proxies, file, tickers, looping, wrote, behind>>
    PROVE  Typed' /\ mp'[provs[n]] = o /\ Informed(n, r)
             /\ \A m \in Names \ {n} : provs[m] # Nil => mp'[provs[m]] = mp[provs[m]]
<1>1. provs \in [Names -> Handles \cup {Nil}] /\ mp \in [Handles -> Object]
      /\ work \in [Workers -> Work] /\ t \in Workers
  BY DEF Typed, TypeOK, Workers
<1>2. /\ mp' \in [Handles -> Object] /\ mp'[provs[n]] = o
      /\ \A k \in Handles \ {provs[n]} : mp'[k] = mp[k]
  BY <1>1 DEF LiveObject, Object
<1>3. \A m \in Names \ {n} : provs'[m] = provs[m] /\ (provs[m] # Nil => mp'[provs[m]] = mp[provs[m]])
  BY <1>1, <1>2 DEF Typed, ObjectsInUse
<1>4. \A u \in Workers : work[u].mp # Nil => mp'[work[u].mp] \in LiveObject
  <2>1. \A u \in Workers : work[u].mp \in Handles \cup {Nil}
    BY <1>1 DEF Work
  <2> QED BY <2>1, <1>2 DEF Typed, ObjectsInUse
<1>5. Mem(n)' = o.cfg
  BY <1>2 DEF Mem
<1>6. \A m \in Names \ {n} : provs[m] # provs'[n]
  BY DEF Typed, ObjectsInUse
<1>7. Informed(n, r)
  BY <1>2 DEF Informed
<1>8. /\ work' \in [Workers -> Work] /\ edits' \in 0..MaxEdits
      /\ ObjectsInUse' /\ WorkersOK' /\ LatestSaves' /\ UpToDate'
  BY <1>1, <1>2, <1>3, <1>4, <1>5, <1>6, <1>7, ChangedStep
<1> QED BY <1>1, <1>2, <1>3, <1>7, <1>8 DEF Typed, TypeOK

\* UpdateProvider replaces provider and cfg of the object.
LEMMA TypedUpdate ==
    ASSUME Typed, NEW t \in Requests, NEW n \in Names, NEW c \in Submitted, UpdateProvider(t, n, c)
    PROVE  Typed' /\ \E r : Locked(t, n, r) /\ r.pc = "collect"
<1> DEFINE o == [mp[provs[n]] EXCEPT !.provider = SourceOf(c), !.cfg = c]
           r == [Begin(n, "update") EXCEPT !.cfg = c, !.source = SourceOf(c), !.pc = "collect",
                   !.then = IF mp[provs[n]].enabled THEN "waiting" ELSE "save"]
<1>1. provs[n] # Nil /\ mp[provs[n]] \in LiveObject /\ provs[n] \in Handles /\ mp \in [Handles -> Object]
  BY DEF UpdateProvider, Typed, TypeOK, ObjectsInUse
<1>2. c \in Config /\ SourceOf(c) \in Source
  BY ManagerAssumption, SourceOfConfig
<1>3. o \in LiveObject /\ o.cfg = c /\ o.provider = SourceOf(c) /\ o.enabled = mp[provs[n]].enabled
  BY <1>1, <1>2 DEF LiveObject, SourceOf
<1>4. mp' = [mp EXCEPT ![provs[n]] = o]
  BY <1>1 DEF UpdateProvider
<1>5. /\ r.pc = "collect" /\ r \in Work /\ WorkerOK(Chosen(r)) /\ r.name = n /\ r.mp = Nil
      /\ r.cfg = c /\ r.source = SourceOf(c) /\ (r.then = "waiting" => mp[provs[n]].enabled)
  BY <1>2 DEF Begin, Idle, Work, WorkerOK, Chosen
<1>6. Changed(t, n, r) /\ UNCHANGED <<provs, proxies, file, tickers, looping, wrote, behind>>
  BY DEF UpdateProvider
<1> HIDE DEF o, r
<1>7. /\ r.mp # Nil => r.mp = provs[n]
      /\ r.cfg = o.cfg /\ r.pc # "call" /\ (Fetches(r) => r.source = o.provider /\ o.enabled)
  BY <1>3, <1>5 DEF Fetches
<1>8. Typed' /\ Informed(n, r)
  BY <1>1, <1>3, <1>4, <1>5, <1>6, <1>7, TypedInPlace
<1>9. \A m \in Names \ {n} : provs[m] # Nil => mp'[provs[m]] = mp[provs[m]]
  BY <1>1, <1>4 DEF Typed, TypeOK, ObjectsInUse
<1>10. Locked(t, n, r)
  BY <1>5, <1>6, <1>8, <1>9 DEF Locked, CanBegin, UpdateProvider
<1> QED BY <1>5, <1>8, <1>10

\* SetProviderEnabled sets both copies of the flag.
LEMMA TypedEnabled ==
    ASSUME Typed, NEW t \in Requests, NEW n \in Names, NEW b \in BOOLEAN, SetProviderEnabled(t, n, b)
    PROVE  Typed' /\ \E r : Locked(t, n, r) /\ (~b => r.pc = "collect")
<1> DEFINE o == [mp[provs[n]] EXCEPT !.enabled = b, !.cfg.enabled = b]
           r == [Begin(n, IF b THEN "enable" ELSE "disable") EXCEPT
                   !.mp = IF b THEN provs[n] ELSE Nil, !.cfg = o.cfg,
                   !.pc = IF b THEN "call" ELSE "collect", !.then = IF b THEN "idle" ELSE "save"]
<1>1. provs[n] # Nil /\ mp[provs[n]] \in LiveObject /\ provs[n] \in Handles /\ mp \in [Handles -> Object]
  BY DEF SetProviderEnabled, Typed, TypeOK, ObjectsInUse
<1>3. o \in LiveObject /\ o.cfg \in Config /\ o.enabled = b
  BY <1>1 DEF LiveObject, Config
<1>4. mp' = [mp EXCEPT ![provs[n]] = o] /\ mp'[provs[n]] = o
  BY <1>1 DEF SetProviderEnabled
<1>5. (~b => r.pc = "collect") /\ r \in Work /\ WorkerOK(Chosen(r)) /\ r.name = n
      /\ (r.mp # Nil => r.mp = provs[n]) /\ r.cfg = o.cfg
      /\ (r.pc = "call" => r.op = "enable" /\ r.mp # Nil /\ o.enabled) /\ ~Fetches(r)
  <2> HIDE DEF o
  <2>1. CASE b = TRUE
    BY <1>1, <1>3, <2>1 DEF Begin, Idle, Work, WorkerOK, Chosen, Fetches
  <2>2. CASE b = FALSE
    BY <1>1, <1>3, <2>2 DEF Begin, Idle, Work, WorkerOK, Chosen, Fetches
  <2> QED BY <2>1, <2>2
<1>6. Changed(t, n, r) /\ UNCHANGED <<provs, proxies, file, tickers, looping, wrote, behind>>
  <2> HIDE DEF o
  <2> QED BY <1>4 DEF SetProviderEnabled
<1> HIDE DEF o, r
<1>7. Typed' /\ Informed(n, r)
  BY <1>1, <1>3, <1>4, <1>5, <1>6, TypedInPlace
<1>8. \A m \in Names \ {n} : provs[m] # Nil => mp'[provs[m]] = mp[provs[m]]
  BY <1>1, <1>4 DEF Typed, TypeOK, ObjectsInUse
<1>9. Locked(t, n, r)
  BY <1>5, <1>6, <1>7, <1>8 DEF Locked, CanBegin, SetProviderEnabled
<1> QED BY <1>5, <1>7, <1>9

\* SetProviderPublic changes the configuration only.
LEMMA TypedPublic ==
    ASSUME Typed, NEW t \in Requests, NEW n \in Names, NEW b \in BOOLEAN, SetProviderPublic(t, n, b)
    PROVE  Typed' /\ \E r : Locked(t, n, r)
<1> DEFINE o == [mp[provs[n]] EXCEPT !.cfg.public = b]
           r == Saving([Begin(n, "public") EXCEPT !.cfg = o.cfg])
<1>1. provs[n] # Nil /\ mp[provs[n]] \in LiveObject /\ provs[n] \in Handles /\ mp \in [Handles -> Object]
  BY DEF SetProviderPublic, Typed, TypeOK, ObjectsInUse
<1>3. o \in LiveObject /\ o.cfg \in Config
  BY <1>1 DEF LiveObject, Config
<1>4. mp' = [mp EXCEPT ![provs[n]] = o] /\ mp'[provs[n]] = o
  BY <1>1 DEF SetProviderPublic
<1>5. /\ r \in Work /\ WorkerOK(Chosen(r)) /\ r.name = n /\ r.mp = Nil /\ r.cfg = o.cfg
      /\ r.pc = "save"
  <2> HIDE DEF o
  <2> QED BY <1>1, <1>3 DEF Saving, Begin, Idle, Work, WorkerOK, Chosen
<1>6. Changed(t, n, r) /\ UNCHANGED <<provs, proxies, file, tickers, looping, wrote, behind>>
  <2> HIDE DEF o
  <2> QED BY <1>4 DEF SetProviderPublic
<1> HIDE DEF o, r
<1>7. /\ r.mp # Nil => r.mp = provs[n]
      /\ r.cfg = o.cfg /\ r.pc # "call" /\ (Fetches(r) => r.source = o.provider /\ o.enabled)
  BY <1>3, <1>5 DEF Fetches
<1>8. Typed' /\ Informed(n, r)
  BY <1>1, <1>3, <1>4, <1>5, <1>6, <1>7, TypedInPlace
<1>9. \A m \in Names \ {n} : provs[m] # Nil => mp'[provs[m]] = mp[provs[m]]
  BY <1>1, <1>4 DEF Typed, TypeOK, ObjectsInUse
<1>10. Locked(t, n, r)
  BY <1>5, <1>6, <1>8, <1>9 DEF Locked, CanBegin, SetProviderPublic
<1> QED BY <1>5, <1>8, <1>10

\* SetProviderWeight stores a positive weight.
LEMMA TypedWeight ==
    ASSUME Typed, NEW t \in Requests, NEW n \in Names, NEW weight \in Weights \cup {0},
           SetProviderWeight(t, n, weight)
    PROVE  Typed' /\ \E r : Locked(t, n, r) /\ r.pc = "retune"
<1> DEFINE w == IF weight <= 0 THEN 1 ELSE weight
           o == [mp[provs[n]] EXCEPT !.cfg.weight = w]
           r == [Begin(n, "weight") EXCEPT !.cfg = o.cfg, !.pc = "retune"]
<1>1. provs[n] # Nil /\ mp[provs[n]] \in LiveObject /\ provs[n] \in Handles /\ mp \in [Handles -> Object]
  BY DEF SetProviderWeight, Typed, TypeOK, ObjectsInUse
<1>2. w \in Weights
  BY ManagerAssumption
<1>4. mp' = [mp EXCEPT ![provs[n]] = o] /\ mp'[provs[n]] = o
  BY <1>1 DEF SetProviderWeight
<1> HIDE DEF w
<1>3. o \in LiveObject /\ o.cfg \in Config
  BY <1>1, <1>2 DEF LiveObject, Config
<1>5. /\ r.pc = "retune" /\ r \in Work /\ WorkerOK(Chosen(r)) /\ r.name = n /\ r.mp = Nil
      /\ r.cfg = o.cfg /\ ~Fetches(r)
  <2> HIDE DEF o
  <2> QED BY <1>1, <1>3 DEF Begin, Idle, Work, WorkerOK, Chosen, Fetches
<1>6. Changed(t, n, r) /\ UNCHANGED <<provs, proxies, file, tickers, looping, wrote, behind>>
  <2> HIDE DEF o
  <2> QED BY <1>4 DEF SetProviderWeight
<1> HIDE DEF o, r
<1>7. /\ r.mp # Nil => r.mp = provs[n]
      /\ r.pc = "call" => r.op = "enable" /\ r.mp # Nil /\ o.enabled
      /\ Fetches(r) => r.source = o.provider /\ o.enabled
  BY <1>5
<1>8. r \in Work /\ WorkerOK(Chosen(r)) /\ r.name = n /\ r.cfg = o.cfg
  BY <1>5
<1>9. UNCHANGED <<provs, proxies, file, tickers, looping, wrote, behind>> /\ Changed(t, n, r)
  BY <1>6
<1>10. provs[n] # Nil /\ o \in LiveObject /\ mp' = [mp EXCEPT ![provs[n]] = o]
  BY <1>1, <1>3, <1>4
<1>11. Typed' /\ Informed(n, r)
  BY <1>7, <1>8, <1>9, <1>10, TypedInPlace
<1>12. \A m \in Names \ {n} : provs[m] # Nil => mp'[provs[m]] = mp[provs[m]]
  BY <1>1, <1>4 DEF Typed, TypeOK, ObjectsInUse
<1>13. Locked(t, n, r)
  BY <1>5, <1>6, <1>11, <1>12 DEF Locked, CanBegin, SetProviderWeight
<1> QED BY <1>5, <1>11, <1>13

\* RefreshProvider takes the registered object.
LEMMA TypedRefresh ==
    ASSUME Typed, NEW t \in Workers, NEW n \in Names, RefreshProvider(t, n)
    PROVE  Typed'
<1> DEFINE r == [Begin(n, "refresh") EXCEPT !.mp = provs[n], !.pc = "call"]
<1>1. provs[n] # Nil /\ mp[provs[n]] \in LiveObject /\ provs[n] \in Handles
  BY DEF RefreshProvider, Typed, TypeOK, ObjectsInUse
<1>2. r \in Work /\ WorkerOK(r) /\ r.mp = provs[n] /\ ~r.latest /\ Knows(r)
  BY <1>1 DEF Begin, Idle, Work, WorkerOK, Knows
<1>3. work' = [work EXCEPT ![t] = r] /\ UNCHANGED <<provs, mp>>
  BY DEF RefreshProvider
<1> HIDE DEF r
<1>4. work' \in [Workers -> Work] /\ ObjectsInUse' /\ WorkersOK' /\ LatestSaves' /\ UpToDate'
  BY <1>1, <1>2, <1>3, WorkerStep
<1> QED BY <1>4 DEF RefreshProvider, Typed, TypeOK

\* The drop loop.
LEMMA TypedCollect ==
    ASSUME Typed, NEW t \in Workers, Collect(t)
    PROVE  Typed'
<1>1. /\ work[t] \in Work /\ WorkerOK(work[t]) /\ work[t].pc = "collect"
      /\ Present(work[t].name) \in SUBSET Versions /\ Knows(work[t])
  BY DEF Collect, Typed, TypeOK, WorkersOK, UpToDate, Present
<1>2. work' = [work EXCEPT ![t] = Dropped(work[t], Present(work[t].name))] /\ UNCHANGED <<provs, mp>>
  BY DEF Collect, Typed, TypeOK
<1>3. work' \in [Workers -> Work] /\ ObjectsInUse' /\ WorkersOK' /\ LatestSaves' /\ UpToDate'
  <2> DEFINE r == Dropped(work[t], Present(work[t].name))
  <2>1. /\ r \in Work /\ WorkerOK(r) /\ Knows(r) /\ r.name = work[t].name /\ r.cfg = work[t].cfg
        /\ r.mp \in {work[t].mp, Nil} /\ r.latest = work[t].latest
    BY <1>1, DroppedOK
  <2>2. work' = [work EXCEPT ![t] = r]
    BY <1>2
  <2> HIDE DEF r
  <2> QED BY <2>1, <2>2, <1>2, WorkerStep
<1> QED BY <1>3 DEF Collect, Typed, TypeOK

\* One turn of the drop loop.
LEMMA TypedDrop ==
    ASSUME Typed, NEW t \in Workers, NEW v \in Versions, Drop(t, v)
    PROVE  Typed'
<1>1. /\ work[t] \in Work /\ WorkerOK(work[t]) /\ work[t].pc = "drop" /\ work[t].name \in Names
      /\ Knows(work[t])
  BY DEF Drop, Typed, TypeOK, WorkersOK, WorkerOK, UpToDate
<1>2. work' = [work EXCEPT ![t] = Dropped(work[t], work[t].drop \ {v})] /\ UNCHANGED <<provs, mp>>
  BY DEF Drop, Typed, TypeOK
<1>3. work[t].drop \ {v} \in SUBSET Versions
  BY <1>1 DEF Work
<1>4. work' \in [Workers -> Work] /\ ObjectsInUse' /\ WorkersOK' /\ LatestSaves' /\ UpToDate'
  <2> DEFINE r == Dropped(work[t], work[t].drop \ {v})
  <2>1. /\ r \in Work /\ WorkerOK(r) /\ Knows(r) /\ r.name = work[t].name /\ r.cfg = work[t].cfg
        /\ r.mp \in {work[t].mp, Nil} /\ r.latest = work[t].latest
    BY <1>1, <1>3, DroppedOK
  <2>2. work' = [work EXCEPT ![t] = r]
    BY <1>2
  <2> HIDE DEF r
  <2> QED BY <2>1, <2>2, <1>2, WorkerStep
<1>5. proxies' \in [Names -> [Versions -> Weights \cup {0}]]
  BY <1>1 DEF Drop, Typed, TypeOK
<1>6. wrote' \in [Names -> [Versions -> Kinds]]
  BY <1>1 DEF Drop, Typed, TypeOK, Kinds
<1> QED BY <1>4, <1>5, <1>6 DEF Drop, Typed, TypeOK

\* The loop of SetProviderWeight.
LEMMA TypedRetune ==
    ASSUME Typed, NEW t \in Workers, Retune(t)
    PROVE  Typed'
<1>1. work[t] \in Work /\ work[t].pc = "retune" /\ work[t].name \in Names /\ work[t].cfg \in Config
  BY DEF Retune, Typed, TypeOK, WorkersOK, WorkerOK
<1>2. work' = [work EXCEPT ![t] = Saving(work[t])] /\ UNCHANGED <<provs, mp>>
  BY DEF Retune, Typed, TypeOK
<1>3. work' \in [Workers -> Work] /\ ObjectsInUse' /\ WorkersOK' /\ LatestSaves' /\ UpToDate'
  BY <1>1, <1>2, SavingOK, WorkerStep
<1>4. proxies' \in [Names -> [Versions -> Weights \cup {0}]]
  BY <1>1 DEF Retune, Typed, TypeOK, Config
<1>5. wrote' \in [Names -> [Versions -> Kinds]]
  BY <1>1 DEF Retune, Typed, TypeOK, Kinds
<1> QED BY <1>3, <1>4, <1>5 DEF Retune, Typed, TypeOK

\* The object a worker gives back is collected when nobody else refers to it.
LEMMA TypedCall ==
    ASSUME Typed, NEW t \in Workers, CallProvider(t)
    PROVE  Typed' /\ \A n \in Names : provs[n] # Nil => mp'[provs[n]] = mp[provs[n]]
<1> DEFINE ok == IF work[t].op = "refresh" THEN provs[work[t].name] = work[t].mp ELSE work[t].fresh
           r  == [work[t] EXCEPT !.pc = "waiting", !.source = mp[work[t].mp].provider,
                                 !.mp = Nil, !.fresh = ok]
<1>1. /\ work \in [Workers -> Work] /\ mp \in [Handles -> Object] /\ provs \in [Names -> Handles \cup {Nil}]
      /\ work[t].pc = "call" /\ work[t].mp \in Handles /\ work[t].mp # Nil
      /\ mp[work[t].mp] \in LiveObject /\ WorkerOK(work[t]) /\ work[t] \in Work
  <2>1. work[t] \in Work /\ WorkerOK(work[t]) /\ work[t].pc = "call"
    BY DEF CallProvider, Typed, TypeOK, WorkersOK
  <2>2. work[t].mp # Nil /\ work[t].mp \in Handles
    BY <2>1 DEF WorkerOK, Work
  <2> QED BY <2>1, <2>2 DEF Typed, TypeOK, ObjectsInUse
<1>2. mp[work[t].mp].provider \in Source
  BY <1>1 DEF LiveObject
<1>3. /\ r \in Work /\ WorkerOK(r) /\ r.mp = Nil /\ r.latest = work[t].latest
      /\ r.cfg = work[t].cfg /\ r.name = work[t].name /\ r.pc = "waiting" /\ r.op = work[t].op
      /\ r.source = mp[work[t].mp].provider /\ r.fresh = ok
  <2>1. ok \in BOOLEAN
    BY <1>1 DEF Work
  <2> HIDE DEF ok
  <2> QED BY <1>1, <1>2, <2>1 DEF Work, WorkerOK
<1>4. work' = [work EXCEPT ![t] = r] /\ UNCHANGED provs
  BY <1>1 DEF CallProvider
<1>a. r.fresh => /\ provs[r.name] = work[t].mp
                 /\ r.op = "refresh" \/ mp[work[t].mp].enabled
  BY <1>1, <1>3 DEF Typed, UpToDate, Knows
<1> HIDE DEF r, ok
<1>5. /\ work' \in [Workers -> Work] /\ work'[t] = r /\ \A u \in Workers \ {t} : work'[u] = work[u]
  BY <1>1, <1>3, <1>4
<1>6. /\ mp' \in [Handles -> Object]
      /\ \A k \in Handles \ {work[t].mp} : mp'[k] = mp[k]
      /\ \A n \in Names : provs[n] = work[t].mp => mp' = mp
      /\ \A u \in Workers \ {t} : work[u].mp = work[t].mp => mp' = mp
  BY <1>1 DEF CallProvider, Object
<1>7. \A n \in Names : provs[n] # Nil => mp'[provs[n]] = mp[provs[n]]
  BY <1>1, <1>6
<1>8. \A u \in Workers \ {t} : work[u].mp # Nil => mp'[work[u].mp] = mp[work[u].mp]
  <2>1. \A u \in Workers : work[u].mp \in Handles \cup {Nil}
    BY <1>1 DEF Work
  <2> QED BY <2>1, <1>6
<1>9. ObjectsInUse'
  BY <1>3, <1>4, <1>5, <1>7, <1>8 DEF Typed, ObjectsInUse
<1>10. WorkersOK'
  BY <1>3, <1>5 DEF Typed, WorkersOK
<1>11. ASSUME NEW u \in Workers, work'[u].latest PROVE (work[u].cfg = Mem(work[u].name))'
  <2>1. work[u].latest /\ work'[u].cfg = work[u].cfg /\ work'[u].name = work[u].name
    BY <1>3, <1>5, <1>11
  <2>2. work[u].cfg = Mem(work[u].name) /\ work[u].name \in Names
    BY <2>1, <1>1 DEF Typed, LatestSaves, WorkersOK, WorkerOK
  <2> QED BY <2>1, <2>2, <1>4, <1>7 DEF Mem
<1>12. LatestSaves'
  BY <1>11 DEF LatestSaves
<1>13. ASSUME NEW u \in Workers PROVE Knows(work[u])'
  <2>1. CASE u = t
    <3>1. r.fresh => /\ provs[r.name] # Nil /\ mp'[provs[r.name]] = mp[work[t].mp]
                     /\ r.op = "refresh" \/ mp[work[t].mp].enabled
      BY <1>1, <1>3, <1>7, <1>a DEF WorkerOK
    <3> QED BY <1>3, <1>4, <1>5, <2>1, <3>1 DEF Knows, Fetches
  <2>2. CASE u # t
    <3>1. Knows(work[u]) /\ work'[u] = work[u] /\ WorkerOK(work[u])
      BY <1>5, <2>2 DEF Typed, UpToDate, WorkersOK
    <3>2. CASE work[u].pc = "idle"
      BY <3>1, <3>2 DEF Knows, Fetches
    <3>3. CASE work[u].pc # "idle"
      <4>1. work[u].name \in Names /\ (work[u].pc = "call" => work[u].mp # Nil)
        BY <3>1, <3>3 DEF WorkerOK
      <4> QED BY <1>4, <1>7, <3>1, <4>1 DEF Knows, Fetches
    <3> QED BY <3>2, <3>3
  <2> QED BY <2>1, <2>2
<1>14. UpToDate'
  BY <1>13 DEF UpToDate
<1> QED BY <1>5, <1>6, <1>7, <1>9, <1>10, <1>12, <1>14 DEF CallProvider, Typed, TypeOK

\* The answer is added to the pool.
LEMMA TypedAnswered ==
    ASSUME Typed, NEW t \in Workers, Answered(t)
    PROVE  Typed'
<1> DEFINE r == CASE work[t].op = "load"    -> Idle
                  [] work[t].op = "refresh" -> [work[t] EXCEPT !.pc = "expire", !.source = Nil]
                  [] OTHER                  -> Saving(work[t])
<1>1. /\ work[t] \in Work /\ WorkerOK(work[t]) /\ work[t].pc = "waiting" /\ work[t].name \in Names
      /\ work[t].source \in Source
  BY DEF Answered, Typed, TypeOK, WorkersOK, WorkerOK
<1>2. work' = [work EXCEPT ![t] = r] /\ UNCHANGED <<provs, mp>>
  BY DEF Answered, Typed, TypeOK
<1>3. /\ r \in Work /\ WorkerOK(r) /\ Knows(r) /\ r.mp \in {Nil, work[t].mp}
      /\ r.latest => work[t].latest /\ r.cfg = work[t].cfg /\ r.name = work[t].name
  <2>1. CASE work[t].op = "load"
    BY <2>1, IdleOK
  <2>2. CASE work[t].op = "refresh"
    BY <2>2, <1>1 DEF Work, WorkerOK, Knows, Fetches
  <2>3. CASE work[t].op \notin {"load", "refresh"}
    BY <2>3, <1>1, SavingOK
  <2> QED BY <2>1, <2>2, <2>3
<1> HIDE DEF r
<1>4. work' \in [Workers -> Work] /\ ObjectsInUse' /\ WorkersOK' /\ LatestSaves' /\ UpToDate'
  BY <1>2, <1>3, WorkerStep
<1>5. proxies' \in [Names -> [Versions -> Weights \cup {0}]]
  BY <1>1 DEF Answered, Typed, TypeOK, Source
<1>6. wrote' \in [Names -> [Versions -> Kinds]]
  <2>1. Kind(t) \in Kinds /\ work[t].source.version \in Versions
    BY <1>1 DEF Kind, Kinds, Source
  <2> QED BY <1>1, <2>1 DEF Answered, Typed, TypeOK
<1> QED BY <1>4, <1>5, <1>6 DEF Answered, Typed, TypeOK

\* An empty list.
LEMMA TypedEmpty ==
    ASSUME Typed, NEW t \in Workers, AnsweredEmpty(t)
    PROVE  Typed'
<1> DEFINE r == [work[t] EXCEPT !.pc = "expire", !.source = Nil]
<1>1. work[t] \in Work /\ WorkerOK(work[t]) /\ work[t].op = "refresh" /\ work[t].pc = "waiting"
  BY DEF AnsweredEmpty, Typed, TypeOK, WorkersOK
<1>2. work' = [work EXCEPT ![t] = r] /\ UNCHANGED <<provs, mp>>
  BY DEF AnsweredEmpty, Typed, TypeOK
<1>3. r \in Work /\ WorkerOK(r) /\ Knows(r) /\ r.mp = work[t].mp /\ ~r.latest
  BY <1>1 DEF Work, WorkerOK, Knows, Fetches
<1> HIDE DEF r
<1>4. work' \in [Workers -> Work] /\ ObjectsInUse' /\ WorkersOK' /\ LatestSaves' /\ UpToDate'
  BY <1>2, <1>3, WorkerStep
<1> QED BY <1>4 DEF AnsweredEmpty, Typed, TypeOK

\* There is nothing to add.
LEMMA TypedNothing ==
    ASSUME Typed, NEW t \in Workers, AnsweredNothing(t)
    PROVE  Typed'
<1> DEFINE r == IF work[t].op \in {"load", "refresh"} THEN Idle ELSE Saving(work[t])
<1>1. work[t] \in Work /\ work[t].name \in Names
  BY DEF AnsweredNothing, Typed, TypeOK, WorkersOK, WorkerOK
<1>2. work' = [work EXCEPT ![t] = r] /\ UNCHANGED <<provs, mp>>
  BY DEF AnsweredNothing, Typed, TypeOK
<1>3. /\ r \in Work /\ WorkerOK(r) /\ Knows(r) /\ r.mp \in {Nil, work[t].mp}
      /\ r.latest => work[t].latest /\ r.cfg = work[t].cfg /\ r.name = work[t].name
  BY <1>1, IdleOK, SavingOK
<1> HIDE DEF r
<1>4. work' \in [Workers -> Work] /\ ObjectsInUse' /\ WorkersOK' /\ LatestSaves' /\ UpToDate'
  BY <1>2, <1>3, WorkerStep
<1> QED BY <1>4 DEF AnsweredNothing, Typed, TypeOK

\* The call failed.
LEMMA TypedFailed ==
    ASSUME Typed, NEW t \in Workers, Failed(t)
    PROVE  Typed'
<1> DEFINE r == IF work[t].op = "add" THEN Saving(work[t]) ELSE Idle
<1>1. work[t] \in Work /\ work[t].name \in Names
  BY DEF Failed, Typed, TypeOK, WorkersOK, WorkerOK
<1>2. work' = [work EXCEPT ![t] = r] /\ UNCHANGED <<provs, mp>>
  BY DEF Failed, Typed, TypeOK
<1>3. /\ r \in Work /\ WorkerOK(r) /\ Knows(r) /\ r.mp \in {Nil, work[t].mp}
      /\ r.latest => work[t].latest /\ r.cfg = work[t].cfg /\ r.name = work[t].name
  BY <1>1, IdleOK, SavingOK
<1> HIDE DEF r
<1>4. work' \in [Workers -> Work] /\ ObjectsInUse' /\ WorkersOK' /\ LatestSaves' /\ UpToDate'
  BY <1>2, <1>3, WorkerStep
<1>5. behind' \in [Names -> BOOLEAN]
  BY <1>1, Zenon DEF Failed, Typed, TypeOK
<1> QED BY <1>4, <1>5 DEF Failed, Typed, TypeOK

\* The end of a refresh.
LEMMA TypedExpired ==
    ASSUME Typed, NEW t \in Workers, NEW expired, RemoveExpired(t, expired)
    PROVE  Typed'
<1>1. work' = [work EXCEPT ![t] = Idle] /\ UNCHANGED <<provs, mp>>
  BY DEF RemoveExpired
<1>2. work' \in [Workers -> Work] /\ ObjectsInUse' /\ WorkersOK' /\ LatestSaves' /\ UpToDate'
  BY <1>1, IdleOK, WorkerStep
<1>3. proxies' \in [Names -> [Versions -> Weights \cup {0}]]
  BY DEF RemoveExpired, Typed, TypeOK
<1>4. wrote' \in [Names -> [Versions -> Kinds]]
  BY DEF RemoveExpired, Typed, TypeOK, Kinds
<1> QED BY <1>2, <1>3, <1>4 DEF RemoveExpired, Typed, TypeOK

\* The save, done or failed.
LEMMA TypedSave ==
    ASSUME Typed, NEW t \in Workers, Save(t) \/ SaveFails(t)
    PROVE  Typed'
<1>1. work' = [work EXCEPT ![t] = Idle] /\ UNCHANGED <<provs, mp>>
  BY DEF Save, SaveFails
<1>2. work' \in [Workers -> Work] /\ ObjectsInUse' /\ WorkersOK' /\ LatestSaves' /\ UpToDate'
  BY <1>1, IdleOK, WorkerStep
<1>3. /\ work[t].name \in Names /\ work[t].cfg \in Config \cup {Nil} /\ work[t].latest \in BOOLEAN
      /\ behind \in [Names -> BOOLEAN]
  BY DEF Save, SaveFails, Typed, TypeOK, WorkersOK, WorkerOK, Work
<1>4. file' \in [Names -> Config \cup {Nil}]
  BY <1>3 DEF Save, SaveFails, Typed, TypeOK
<1>5. behind' \in [Names -> BOOLEAN]
  BY <1>3, Zenon DEF Save, SaveFails
<1> QED BY <1>2, <1>4, <1>5 DEF Save, SaveFails, Typed, TypeOK

-----------------------------------------------------------------------------
(* The start *)

\* BootHandle gives every provider an object of its own.
LEMMA BootHandles == /\ BootHandle \in [Names -> Handles]
                     /\ \A m, n \in Names : BootHandle[m] = BootHandle[n] => m = n
<1>1. \E f \in [Names -> Handles] : IsInjective(f)
  BY ManagerAssumption
<1>2. BootHandle \in [Names -> Handles] /\ IsInjective(BootHandle)
  BY <1>1 DEF BootHandle
<1> QED BY <1>2 DEF IsInjective

\* What NewManager and LoadInitial make of the configurations c.
LEMMA Booted ==
    ASSUME NEW c \in [Names -> Config \cup {Nil}]
    PROVE  /\ ProvsAt(c) \in [Names -> Handles \cup {Nil}]
           /\ ObjectsAt(c) \in [Handles -> Object]
           /\ WorkAt(c) \in [Workers -> Work]
           /\ \A n \in Names : ProvsAt(c)[n] # Nil => ObjectsAt(c)[ProvsAt(c)[n]] \in LiveObject
           /\ \A m, n \in Names : ProvsAt(c)[m] = ProvsAt(c)[n] /\ ProvsAt(c)[m] # Nil => m = n
           /\ \A n \in Names : c[n] = IF ProvsAt(c)[n] = Nil THEN Nil ELSE ObjectsAt(c)[ProvsAt(c)[n]].cfg
           /\ \A t \in Workers : WorkerOK(WorkAt(c)[t]) /\ WorkAt(c)[t].mp = Nil /\ ~WorkAt(c)[t].latest
           /\ \A t \in Workers : WorkAt(c)[t].pc # "idle" =>
                LET r == WorkAt(c)[t]
                    o == ObjectsAt(c)[ProvsAt(c)[r.name]]
                IN  /\ r.pc = "waiting" /\ ProvsAt(c)[r.name] # Nil
                    /\ r.source = o.provider /\ o.enabled
<1>1. /\ ProvsAt(c) \in [Names -> Handles \cup {Nil}]
      /\ \A n \in Names : ProvsAt(c)[n] = IF c[n] = Nil THEN Nil ELSE BootHandle[n]
  BY BootHandles DEF ProvsAt
<1>2. \A n \in Names : ProvsAt(c)[n] = Nil <=> c[n] = Nil
  BY <1>1, BootHandles, ManagerAssumption
<1>3. ASSUME NEW n \in Names, c[n] # Nil
      PROVE  /\ ObjectsAt(c)[BootHandle[n]] \in LiveObject
             /\ ObjectsAt(c)[BootHandle[n]].cfg = c[n]
             /\ ObjectsAt(c)[BootHandle[n]].provider = SourceOf(c[n])
             /\ ObjectsAt(c)[BootHandle[n]].enabled = c[n].enabled
  <2> DEFINE o == [provider |-> SourceOf(c[n]), cfg |-> c[n], enabled |-> c[n].enabled]
  <2>1. BootHandle[n] \in Handles /\ (CHOOSE m \in Names : BootHandle[m] = BootHandle[n]) = n
    BY BootHandles
  <2>2. ObjectsAt(c)[BootHandle[n]] = o
    BY <2>1, <1>3 DEF ObjectsAt
  <2>3. o \in LiveObject
    BY <1>3, SourceOfConfig DEF LiveObject, Config, SourceOf
  <2> QED BY <2>2, <2>3
<1>4. ObjectsAt(c) \in [Handles -> Object]
  <2>1. ASSUME NEW h \in Handles PROVE ObjectsAt(c)[h] \in Object
    <3>1. CASE \E n \in Names : BootHandle[n] = h /\ c[n] # Nil
      BY <3>1, <1>3 DEF LiveObject, Object
    <3>2. CASE ~\E n \in Names : BootHandle[n] = h /\ c[n] # Nil
      BY <3>2 DEF ObjectsAt, Object
    <3> QED BY <3>1, <3>2
  <2> QED BY <2>1 DEF ObjectsAt
<1>5. \A m, n \in Names : ProvsAt(c)[m] = ProvsAt(c)[n] /\ ProvsAt(c)[m] # Nil => m = n
  BY <1>1, <1>2, BootHandles
<1>6. ASSUME NEW t \in Workers
      PROVE  /\ WorkAt(c)[t] \in Work /\ WorkerOK(WorkAt(c)[t])
             /\ WorkAt(c)[t].mp = Nil /\ ~WorkAt(c)[t].latest
             /\ WorkAt(c)[t].pc # "idle" =>
                  /\ t \in Names /\ c[t] # Nil /\ c[t].enabled /\ WorkAt(c)[t].name = t
                  /\ WorkAt(c)[t].pc = "waiting" /\ WorkAt(c)[t].source = SourceOf(c[t])
  <2>1. CASE t \in Names /\ c[t] # Nil /\ c[t].enabled
    <3> DEFINE r == [Begin(t, "load") EXCEPT !.pc = "waiting", !.source = SourceOf(c[t]),
                                             !.fresh = TRUE]
    <3>1. WorkAt(c)[t] = r
      BY <2>1 DEF WorkAt
    <3>2. SourceOf(c[t]) \in Source
      BY <2>1, SourceOfConfig
    <3>3. /\ r \in Work /\ WorkerOK(r) /\ r.mp = Nil /\ ~r.latest
          /\ r.name = t /\ r.pc = "waiting" /\ r.source = SourceOf(c[t])
      BY <2>1, <3>2 DEF Begin, Idle, Work, WorkerOK
    <3> HIDE DEF r
    <3> QED BY <2>1, <3>1, <3>3
  <2>2. CASE ~(t \in Names /\ c[t] # Nil /\ c[t].enabled)
    <3>1. WorkAt(c)[t] = Idle
      BY <2>2 DEF WorkAt
    <3> QED BY <3>1, IdleOK
  <2> QED BY <2>1, <2>2
<1>7. WorkAt(c) \in [Workers -> Work]
  BY <1>6 DEF WorkAt
<1>8. ASSUME NEW t \in Workers, WorkAt(c)[t].pc # "idle"
      PROVE  LET r == WorkAt(c)[t]
                 o == ObjectsAt(c)[ProvsAt(c)[r.name]]
             IN  /\ r.pc = "waiting" /\ ProvsAt(c)[r.name] # Nil
                 /\ r.source = o.provider /\ o.enabled
  <2>1. /\ t \in Names /\ c[t] # Nil /\ c[t].enabled /\ WorkAt(c)[t].name = t
        /\ WorkAt(c)[t].pc = "waiting" /\ WorkAt(c)[t].source = SourceOf(c[t])
    BY <1>6, <1>8
  <2>2. ProvsAt(c)[t] = BootHandle[t] /\ ProvsAt(c)[t] # Nil
    BY <1>1, <1>2, <2>1
  <2> QED BY <1>3, <2>1, <2>2
<1> QED BY <1>1, <1>2, <1>3, <1>4, <1>5, <1>6, <1>7, <1>8

\* The state after the start.
LEMMA TypedInit == ASSUME Init PROVE Typed
<1>1. Yaml \in [Names -> Config \cup {Nil}]
  BY ManagerAssumption
<1>2. TypeOK
  <2>1. edits \in 0..MaxEdits
    BY ManagerAssumption DEF Init
  <2> QED BY <1>1, <2>1, Booted DEF Init, TypeOK, Kinds
<1>3. ObjectsInUse /\ WorkersOK /\ LatestSaves
  BY <1>1, Booted DEF Init, ObjectsInUse, WorkersOK, LatestSaves
<1>4. UpToDate
  <2> SUFFICES ASSUME NEW t \in Workers PROVE Knows(work[t])
    BY DEF UpToDate
  <2>1. provs = ProvsAt(Yaml) /\ mp = ObjectsAt(Yaml) /\ work = WorkAt(Yaml)
    BY DEF Init
  <2>2. CASE work[t].pc = "idle"
    BY <2>2 DEF Knows, Fetches
  <2>3. CASE work[t].pc # "idle"
    <3>1. /\ work[t].pc = "waiting" /\ provs[work[t].name] # Nil
          /\ work[t].source = mp[provs[work[t].name]].provider /\ mp[provs[work[t].name]].enabled
      BY <1>1, <2>1, <2>3, Booted
    <3> QED BY <3>1 DEF Knows, Fetches
  <2> QED BY <2>2, <2>3
<1> QED BY <1>2, <1>3, <1>4 DEF Typed

\* The state after a crash and a start.
LEMMA TypedRestart == ASSUME Typed, NEW synced \in BOOLEAN, Restart(synced) PROVE Typed'
<1> DEFINE c == BootConfig(file)
<1>1. c \in [Names -> Config \cup {Nil}]
  BY ManagerAssumption DEF BootConfig, Typed, TypeOK
<1>2. /\ provs' = ProvsAt(c) /\ mp' = ObjectsAt(c) /\ work' = WorkAt(c) /\ file' \in {c, file}
      /\ proxies' = [n \in Names |-> [v \in Versions |-> 0]]
      /\ tickers' = {} /\ looping' = FALSE /\ edits' = edits
      /\ wrote' = [n \in Names |-> [v \in Versions |-> "nobody"]] /\ behind' \in [Names -> BOOLEAN]
  BY DEF Restart
<1> HIDE DEF c
<1>3. TypeOK'
  BY <1>1, <1>2, Booted DEF Typed, TypeOK, Kinds
<1>4. ObjectsInUse' /\ WorkersOK' /\ LatestSaves'
  BY <1>1, <1>2, Booted DEF ObjectsInUse, WorkersOK, LatestSaves
<1>5. UpToDate'
  <2> SUFFICES ASSUME NEW t \in Workers PROVE Knows(work[t])'
    BY DEF UpToDate
  <2>1. CASE work'[t].pc = "idle"
    BY <2>1 DEF Knows, Fetches
  <2>2. CASE work'[t].pc # "idle"
    <3>1. /\ work'[t].pc = "waiting" /\ provs'[work'[t].name] # Nil
          /\ work'[t].source = mp'[provs'[work'[t].name]].provider
          /\ mp'[provs'[work'[t].name]].enabled
      BY <1>1, <1>2, <2>2, Booted
    <3> QED BY <3>1 DEF Knows, Fetches
  <2> QED BY <2>1, <2>2
<1> QED BY <1>3, <1>4, <1>5 DEF Typed

\* RefreshLoop only starts goroutines.
LEMMA TypedLoop == ASSUME Typed, RefreshLoop PROVE Typed'
  BY DEF RefreshLoop, Typed, TypeOK, ObjectsInUse, WorkersOK, LatestSaves, UpToDate, Knows, Mem

\* Every step keeps the types.
LEMMA TypedNext == ASSUME Typed, [Next]_vars PROVE Typed'
<1>1. ASSUME NEW t \in Requests, NEW n \in Names, Administer(t, n) PROVE Typed'
  BY <1>1, TypedAdd, TypedUpdate, TypedRemove, TypedEnabled, TypedPublic, TypedWeight DEF Administer
<1>2. ASSUME NEW t \in Workers, Step(t) PROVE Typed'
  BY <1>2, TypedCollect, TypedRetune, TypedCall, TypedDrop, TypedAnswered, TypedEmpty, TypedNothing,
     TypedFailed, TypedExpired, TypedSave DEF Step
<1>3. ASSUME UNCHANGED vars PROVE Typed'
  BY <1>3 DEF vars, Typed, TypeOK, ObjectsInUse, WorkersOK, LatestSaves, UpToDate, Knows, Mem
<1> QED BY <1>1, <1>2, <1>3, TypedRefresh, TypedLoop, TypedRestart DEF Next

\* The manager is type correct: no refresh reads mp.provider of an object that is
\* gone, no worker adds proxies of an unknown provider, weights are positive.
THEOREM ManagerTypeCorrect == Spec => []TypeOK
<1>1. Init => Typed
  BY TypedInit
<1>2. Typed /\ [Next]_vars => Typed'
  BY TypedNext
<1>3. Typed => TypeOK
  BY DEF Typed
<1> QED BY <1>1, <1>2, <1>3, PTL DEF Spec

-----------------------------------------------------------------------------
(* The file *)

\* A provider whose configuration, file entry and last changer stay.
LEMMA FileKept ==
    ASSUME NEW n \in Names, FileOK(n), behind[n] => behind'[n], file'[n] = file[n], Mem(n)' = Mem(n),
           \A t \in Workers : work[t].name = n /\ work[t].latest
                                => behind'[n] \/ (work'[t].name = n /\ work'[t].latest)
    PROVE  FileOK(n)'
  BY DEF FileOK, Mem

\* A worker goes on without forgetting that it has to save.
LEMMA FileWorker ==
    ASSUME Typed, FileWillFollow, NEW t \in Workers, NEW r, work' = [work EXCEPT ![t] = r],
           \A n \in Names : Mem(n)' = Mem(n), UNCHANGED <<file, behind>>,
           work[t].latest => r.latest /\ r.name = work[t].name
    PROVE  FileWillFollow'
<1>1. \A u \in Workers : work[u].latest => work'[u].latest /\ work'[u].name = work[u].name
  BY DEF Typed, TypeOK
<1> QED BY <1>1, FileKept DEF FileWillFollow

\* After a locked change its worker has the save before it.
LEMMA FileChanged ==
    ASSUME Typed, FileWillFollow, NEW t \in Requests, NEW n \in Names, NEW r, Locked(t, n, r)
    PROVE  FileWillFollow'
<1>1. /\ t \in Workers /\ work'[t].name = n /\ work'[t].latest /\ ~work[t].latest
      /\ \A u \in Workers \ {t} : /\ work'[u].name = work[u].name
                                  /\ work'[u].latest <=> work[u].latest /\ work[u].name # n
  <2>1. t \in Workers /\ ~work[t].latest /\ r \in Work /\ r.name = n /\ Changed(t, n, r)
    BY IdleOK DEF Workers, Locked
  <2>2. /\ work'[t] = Chosen(r)
        /\ \A u \in Workers \ {t} : /\ work'[u].name = work[u].name
                                    /\ work'[u].latest <=> work[u].latest /\ work[u].name # n
    BY <2>1, ChangedWork
  <2>3. Chosen(r).name = n /\ Chosen(r).latest
    BY <2>1 DEF Work, Chosen
  <2> QED BY <2>1, <2>2, <2>3
<1>2. FileOK(n)'
  BY <1>1 DEF FileOK
<1>3. ASSUME NEW m \in Names \ {n} PROVE FileOK(m)'
  <2>1. \A u \in Workers : work[u].name = m /\ work[u].latest => work'[u].name = m /\ work'[u].latest
    BY <1>1
  <2>2. Mem(m)' = Mem(m) /\ UNCHANGED <<file, behind>>
    BY DEF Locked, Mem
  <2> QED BY <2>1, <2>2, FileKept DEF FileWillFollow
<1> QED BY <1>2, <1>3 DEF FileWillFollow

\* A worker that takes a step of its own keeps its save, does it, or is
\* recorded in behind.
LEMMA FileStep ==
    ASSUME Typed, FileWillFollow, NEW t \in Workers, Step(t)
    PROVE  FileWillFollow'
<1>1. work \in [Workers -> Work] /\ work[t] \in Work /\ WorkerOK(work[t])
  BY DEF Typed, TypeOK, WorkersOK
<1>2. UNCHANGED <<provs, mp>> => \A n \in Names : Mem(n)' = Mem(n)
  BY DEF Mem
<1>3. CASE Collect(t)
  <2>1. work[t].pc = "collect" /\ Present(work[t].name) \in SUBSET Versions
    BY <1>3 DEF Collect, Present
  <2> QED BY <1>1, <1>2, <1>3, <2>1, DroppedOK, FileWorker DEF Collect
<1>4. ASSUME NEW v \in Versions, Drop(t, v) PROVE FileWillFollow'
  <2>1. work[t].pc = "drop" /\ work[t].drop \ {v} \in SUBSET Versions
    BY <1>1, <1>4 DEF Drop, Work
  <2> QED BY <1>1, <1>2, <1>4, <2>1, DroppedOK, FileWorker DEF Drop
<1>5. CASE Retune(t)
  <2>1. work[t].name \in Names
    BY <1>1, <1>5 DEF Retune, WorkerOK
  <2> QED BY <1>1, <1>2, <1>5, <2>1, SavingOK, FileWorker DEF Retune
<1>6. CASE CallProvider(t)
  <2> DEFINE r == [work[t] EXCEPT !.pc = "waiting", !.source = mp[work[t].mp].provider, !.mp = Nil,
                     !.fresh = IF work[t].op = "refresh" THEN provs[work[t].name] = work[t].mp
                               ELSE work[t].fresh]
  <2>1. work' = [work EXCEPT ![t] = r] /\ UNCHANGED <<provs, file, behind>>
    BY <1>1, <1>6 DEF CallProvider
  <2>2. r.latest = work[t].latest /\ r.name = work[t].name
    BY <1>1 DEF Work
  <2>3. \A n \in Names : Mem(n)' = Mem(n)
    BY <1>6, <2>1, TypedCall DEF Mem
  <2> HIDE DEF r
  <2> QED BY <2>1, <2>2, <2>3, FileWorker
<1>7. CASE Answered(t)
  <2> DEFINE r == CASE work[t].op = "load"    -> Idle
                    [] work[t].op = "refresh" -> [work[t] EXCEPT !.pc = "expire", !.source = Nil]
                    [] OTHER                  -> Saving(work[t])
  <2>1. work' = [work EXCEPT ![t] = r] /\ UNCHANGED <<provs, mp, file, behind>>
    BY <1>1, <1>7 DEF Answered
  <2>2. work[t].latest => work[t].op \notin {"load", "refresh"} /\ work[t].name \in Names
    BY <1>1, <1>7 DEF Answered, WorkerOK
  <2>3. work[t].latest => r.latest /\ r.name = work[t].name
    BY <1>1, <2>2, SavingOK
  <2> HIDE DEF r
  <2> QED BY <1>2, <2>1, <2>3, FileWorker
<1>8. CASE AnsweredNothing(t)
  <2> DEFINE r == IF work[t].op \in {"load", "refresh"} THEN Idle ELSE Saving(work[t])
  <2>1. work' = [work EXCEPT ![t] = r] /\ UNCHANGED <<provs, mp, file, behind>>
    BY <1>1, <1>8 DEF AnsweredNothing
  <2>2. work[t].latest => work[t].op \notin {"load", "refresh"} /\ work[t].name \in Names
    BY <1>1, <1>8 DEF AnsweredNothing, WorkerOK
  <2>3. work[t].latest => r.latest /\ r.name = work[t].name
    BY <1>1, <2>2, SavingOK
  <2> HIDE DEF r
  <2> QED BY <1>2, <2>1, <2>3, FileWorker
<1>9. CASE Failed(t)
  <2> DEFINE r == IF work[t].op = "add" THEN Saving(work[t]) ELSE Idle
  <2>1. work' = [work EXCEPT ![t] = r] /\ UNCHANGED <<provs, mp, file>>
    BY <1>1, <1>9 DEF Failed
  <2>2. work[t].name \in Names /\ (work[t].latest => work[t].op \in {"add", "update", "enable"})
    BY <1>1, <1>9 DEF Failed, WorkerOK
  <2>3. work[t].op = "add" => r.latest = work[t].latest /\ r.name = work[t].name
    BY <1>1, <2>2, SavingOK
  <2>4. /\ behind \in [Names -> BOOLEAN]
        /\ behind' = IF work[t].op \in {"update", "enable"} /\ work[t].latest
                     THEN [behind EXCEPT ![work[t].name] = TRUE] ELSE behind
    BY <1>9 DEF Failed, Typed, TypeOK
  <2> HIDE DEF r
  <2>5. \A n \in Names : behind[n] => behind'[n]
    BY <2>4
  <2>6. work[t].latest /\ work[t].op # "add" => behind'[work[t].name]
    BY <2>2, <2>4
  <2>7. ASSUME NEW n \in Names, NEW u \in Workers, work[u].name = n, work[u].latest
        PROVE  behind'[n] \/ (work'[u].name = n /\ work'[u].latest)
    BY <1>1, <2>1, <2>3, <2>6, <2>7
  <2> QED BY <1>2, <2>1, <2>5, <2>7, FileKept DEF FileWillFollow
<1>10. ASSUME NEW expired, RemoveExpired(t, expired) PROVE FileWillFollow'
  <2>1. ~work[t].latest
    BY <1>1, <1>10 DEF RemoveExpired, WorkerOK
  <2> QED BY <1>2, <1>10, <2>1, FileWorker DEF RemoveExpired
<1>11. CASE Save(t)
  <2>0. PICK k \in Names : k = work[t].name
    BY <1>1, <1>11 DEF Save, WorkerOK
  <2>1. /\ k \in Names /\ file \in [Names -> Config \cup {Nil}] /\ behind \in [Names -> BOOLEAN]
        /\ file' = [file EXCEPT ![k] = work[t].cfg] /\ behind' = [behind EXCEPT ![k] = ~work[t].latest]
        /\ work' = [work EXCEPT ![t] = Idle] /\ UNCHANGED <<provs, mp>>
    BY <2>0, <1>1, <1>11 DEF Save, Typed, TypeOK
  <2>2. FileOK(k)'
    <3>1. ~behind'[k] => work[t].latest
      BY <2>1
    <3>2. work[t].latest => file'[k] = Mem(k)'
      BY <1>2, <2>0, <2>1 DEF Typed, LatestSaves
    <3> QED BY <3>1, <3>2 DEF FileOK, Mem
  <2>3. ASSUME NEW n \in Names \ {k} PROVE FileOK(n)'
    <3>1. \A u \in Workers : work[u].name = n => work'[u] = work[u]
      BY <1>1, <2>0, <2>1
    <3> QED BY <1>2, <2>1, <3>1, FileKept DEF FileWillFollow
  <2> QED BY <2>2, <2>3 DEF FileWillFollow
<1>12. CASE SaveFails(t)
  <2> DEFINE k == work[t].name
  <2>1. /\ k \in Names /\ behind \in [Names -> BOOLEAN]
        /\ behind' = [behind EXCEPT ![k] = behind[k] \/ work[t].latest]
        /\ work' = [work EXCEPT ![t] = Idle] /\ UNCHANGED <<provs, mp, file>>
    BY <1>1, <1>12 DEF SaveFails, WorkerOK, Typed, TypeOK
  <2>2. \A n \in Names : behind[n] => behind'[n]
    BY <2>1
  <2>3. work[t].latest => behind'[k]
    BY <2>1
  <2>4. ASSUME NEW n \in Names, NEW u \in Workers, work[u].name = n, work[u].latest
        PROVE  behind'[n] \/ (work'[u].name = n /\ work'[u].latest)
    BY <1>1, <2>1, <2>3, <2>4
  <2> QED BY <1>2, <2>1, <2>2, <2>4, FileKept DEF FileWillFollow
<1>13. CASE AnsweredEmpty(t)
  <2>1. ~work[t].latest /\ \E r : work' = [work EXCEPT ![t] = r]
    BY <1>1, <1>13 DEF AnsweredEmpty, WorkerOK
  <2> QED BY <1>2, <1>13, <2>1, FileWorker DEF AnsweredEmpty
<1> QED BY <1>3, <1>4, <1>5, <1>6, <1>7, <1>8, <1>9, <1>10, <1>11, <1>12, <1>13 DEF Step

\* The start writes what it has read.
LEMMA FileInit == ASSUME Init PROVE FileWillFollow
  BY Booted, ManagerAssumption DEF Init, FileWillFollow, FileOK, Mem

\* Every step keeps the save of the last change.
LEMMA FileNext == ASSUME Typed, FileWillFollow, [Next]_vars PROVE FileWillFollow'
<1>1. ASSUME NEW t \in Requests, NEW n \in Names, Administer(t, n) PROVE FileWillFollow'
  <2>1. PICK r : Locked(t, n, r)
    BY <1>1, TypedAdd, TypedUpdate, TypedRemove, TypedEnabled, TypedPublic, TypedWeight DEF Administer
  <2> QED BY <2>1, FileChanged
<1>2. ASSUME NEW t \in Workers, NEW n \in Names, RefreshProvider(t, n) PROVE FileWillFollow'
  <2>1. ~work[t].latest /\ (\A m \in Names : Mem(m)' = Mem(m)) /\ UNCHANGED <<file, behind>>
    BY <1>2, IdleOK DEF RefreshProvider, Mem
  <2> QED BY <1>2, <2>1, FileWorker DEF RefreshProvider
<1>3. CASE RefreshLoop \/ UNCHANGED vars
  BY <1>3 DEF RefreshLoop, vars, FileWillFollow, FileOK, Mem
<1>4. ASSUME NEW synced \in BOOLEAN, Restart(synced) PROVE FileWillFollow'
  <2>1. BootConfig(file) \in [Names -> Config \cup {Nil}]
    BY ManagerAssumption DEF BootConfig, Typed, TypeOK
  <2>2. \A n \in Names : Mem(n)' = BootConfig(file)[n]
    BY <1>4, <2>1, Booted DEF Restart, Mem
  <2>3. \A n \in Names : ~behind'[n] => file'[n] = BootConfig(file)[n]
    BY <1>4 DEF Restart
  <2> QED BY <2>2, <2>3 DEF FileWillFollow, FileOK, Mem
<1> QED BY <1>1, <1>2, <1>3, <1>4, FileStep DEF Next

\* The file follows memory: when nothing is in progress on a provider the file
\* has its configuration, unless the last change was not saved or its save was
\* overtaken by an older one; for any number of administrators and restarts.
THEOREM FileFollows == Spec => []FileFollowsMemory
<1> DEFINE Inv == Typed /\ FileWillFollow
<1>1. Init => Inv
  BY TypedInit, FileInit
<1>2. Inv /\ [Next]_vars => Inv'
  BY TypedNext, FileNext
<1>3. Inv => FileFollowsMemory
  BY DEF FileWillFollow, FileOK, FileFollowsMemory, AtRest
<1> HIDE DEF Inv
<1> QED BY <1>1, <1>2, <1>3, PTL DEF Spec

-----------------------------------------------------------------------------
(* The pool *)

\* A worker that drops proxies or sets their weight.
Mends(r) == r.pc \in {"collect", "drop", "retune"}

\* What is right about a proxy stays so while its provider does.
LEMMA ServedKept ==
    ASSUME NEW n \in Names, NEW v \in Versions, proxies'[n][v] = proxies[n][v],
           wrote'[n][v] = wrote[n][v],
           provs'[n] = provs[n], provs[n] # Nil => mp'[provs[n]] = mp[provs[n]]
    PROVE  (Right(n, v) => Right(n, v)') /\ (Served(n, v) => Served(n, v)')
<1>1. CASE provs[n] = Nil
  BY <1>1 DEF Right, Served
<1>2. CASE provs[n] # Nil
  <2>1. Mem(n)' = Mem(n)
    BY <1>2 DEF Mem
  <2> QED BY <1>2, <2>1 DEF Right, Served
<1> QED BY <1>1, <1>2

\* A provider whose object and menders stay, and of whose proxies some may go.
LEMMA PoolKept ==
    ASSUME NEW n \in Names, PoolOK(n),
           proxies \in [Names -> [Versions -> Weights \cup {0}]],
           \A v \in Versions : /\ proxies'[n][v] \in {0, proxies[n][v]}
                               /\ proxies'[n][v] > 0 => wrote'[n][v] = wrote[n][v],
           provs'[n] = provs[n], provs[n] # Nil => mp'[provs[n]] = mp[provs[n]],
           \A t \in Workers : work[t].name = n /\ Mends(work[t]) =>
               work'[t].name = n /\ work'[t].pc = work[t].pc /\ work'[t].drop = work[t].drop
    PROVE  PoolOK(n)'
<1> SUFFICES ASSUME NEW v \in Versions, proxies'[n][v] > 0, wrote'[n][v] # "overtaken"
             PROVE  Served(n, v)' \/ Mended(n, v)'
  BY DEF PoolOK, Present
<1>1. proxies'[n][v] = proxies[n][v] /\ v \in Present(n) /\ wrote'[n][v] = wrote[n][v]
  BY DEF Present
<1>2. (Right(n, v) => Right(n, v)') /\ (Served(n, v) => Served(n, v)')
  BY <1>1, ServedKept
<1>3. ASSUME Mended(n, v) PROVE Mended(n, v)'
  <2>1. PICK t \in Workers :
          /\ work[t].name = n
          /\ \/ work[t].pc = "collect"
             \/ work[t].pc = "drop" /\ v \in work[t].drop
             \/ work[t].pc = "retune" /\ Right(n, v)
    BY <1>3 DEF Mended
  <2>2. work'[t].name = n /\ work'[t].pc = work[t].pc /\ work'[t].drop = work[t].drop
    BY <2>1 DEF Mends
  <2> QED BY <1>2, <2>1, <2>2 DEF Mended
<1> QED BY <1>1, <1>2, <1>3 DEF PoolOK

\* A worker that mends nothing goes on, and the pool stays as it is.
LEMMA PoolWorker ==
    ASSUME Typed, PoolWillFollow, NEW t \in Workers, ~Mends(work[t]),
           \A u \in Workers \ {t} : work'[u] = work[u],
           UNCHANGED <<provs, proxies, wrote>>,
           \A n \in Names : provs[n] # Nil => mp'[provs[n]] = mp[provs[n]]
    PROVE  PoolWillFollow'
<1> SUFFICES ASSUME NEW n \in Names PROVE PoolOK(n)'
  BY DEF PoolWillFollow
<1>1. PoolOK(n) /\ proxies \in [Names -> [Versions -> Weights \cup {0}]]
  BY DEF PoolWillFollow, Typed, TypeOK
<1>2. \A u \in Workers : work[u].name = n /\ Mends(work[u]) =>
        work'[u].name = n /\ work'[u].pc = work[u].pc /\ work'[u].drop = work[u].drop
  OBVIOUS
<1> QED BY <1>1, <1>2, PoolKept

\* A locked change leaves the menders at work.
LEMMA LockedWorkers ==
    ASSUME Typed, NEW t \in Requests, NEW n \in Names, NEW r, Locked(t, n, r)
    PROVE  /\ t \in Workers /\ work'[t].name = n /\ work'[t].pc = r.pc
           /\ \A u \in Workers : Mends(work[u]) =>
                work'[u].name = work[u].name /\ work'[u].pc = work[u].pc /\ work'[u].drop = work[u].drop
<1>1. t \in Workers /\ ~Mends(work[t]) /\ r \in Work /\ r.name = n /\ Changed(t, n, r)
  BY IdleOK DEF Workers, Locked, Mends
<1>2. /\ work'[t] = Chosen(r)
      /\ \A u \in Workers \ {t} :
           work'[u].name = work[u].name /\ work'[u].pc = work[u].pc /\ work'[u].drop = work[u].drop
  BY <1>1, ChangedWork
<1>3. Chosen(r).name = n /\ Chosen(r).pc = r.pc
  BY <1>1 DEF Work, Chosen
<1> QED BY <1>1, <1>2, <1>3

\* A proxy that is being mended still is after a locked change that leaves right
\* what was right.
LEMMA LockedMended ==
    ASSUME Typed, NEW t \in Requests, NEW n \in Names, NEW r, Locked(t, n, r),
           NEW v \in Versions, Mended(n, v), Right(n, v) => Right(n, v)'
    PROVE  Mended(n, v)'
<1>1. PICK u \in Workers :
        /\ work[u].name = n
        /\ \/ work[u].pc = "collect"
           \/ work[u].pc = "drop" /\ v \in work[u].drop
           \/ work[u].pc = "retune" /\ Right(n, v)
  BY DEF Mended
<1>2. work'[u].name = n /\ work'[u].pc = work[u].pc /\ work'[u].drop = work[u].drop
  BY <1>1, LockedWorkers DEF Mends
<1> QED BY <1>1, <1>2 DEF Mended

\* It is enough to look at the provider that changes.
LEMMA PoolLocked ==
    ASSUME Typed, PoolWillFollow, NEW t \in Requests, NEW n \in Names, NEW r, Locked(t, n, r),
           PoolOK(n)'
    PROVE  PoolWillFollow'
<1> SUFFICES ASSUME NEW m \in Names \ {n} PROVE PoolOK(m)'
  BY DEF PoolWillFollow
<1>1. /\ PoolOK(m) /\ proxies \in [Names -> [Versions -> Weights \cup {0}]]
      /\ UNCHANGED <<proxies, wrote>>
      /\ provs'[m] = provs[m] /\ (provs[m] # Nil => mp'[provs[m]] = mp[provs[m]])
  BY DEF PoolWillFollow, Typed, TypeOK, Locked
<1>2. \A u \in Workers : work[u].name = m /\ Mends(work[u]) =>
        work'[u].name = m /\ work'[u].pc = work[u].pc /\ work'[u].drop = work[u].drop
  BY LockedWorkers
<1> QED BY <1>1, <1>2, PoolKept

\* A change whose worker drops all proxies.
LEMMA PoolDropped ==
    ASSUME Typed, PoolWillFollow, NEW t \in Requests, NEW n \in Names, NEW r, Locked(t, n, r),
           r.pc = "collect"
    PROVE  PoolWillFollow'
<1>1. PoolOK(n)'
  BY LockedWorkers DEF PoolOK, Mended
<1> QED BY <1>1, PoolLocked

\* The name of a provider that was not there: what proxies it has are being dropped.
LEMMA PoolUnserved ==
    ASSUME Typed, PoolWillFollow, NEW t \in Requests, NEW n \in Names, NEW r, Locked(t, n, r),
           provs[n] = Nil
    PROVE  PoolWillFollow'
<1>1. \A v \in Versions : ~Right(n, v) /\ ~Served(n, v)
  BY DEF Right, Served
<1>2. \A v \in Versions : Mended(n, v) => Mended(n, v)'
  BY <1>1, LockedMended
<1>3. PoolOK(n)'
  <2>1. PoolOK(n) /\ UNCHANGED <<proxies, wrote>>
    BY DEF PoolWillFollow, Locked
  <2> QED BY <1>1, <1>2, <2>1 DEF PoolOK, Present
<1> QED BY <1>3, PoolLocked

\* Enabling a provider and SetProviderPublic touch nothing that its proxies are
\* judged by.
LEMMA PoolInPlace ==
    ASSUME Typed, PoolWillFollow, NEW t \in Requests, NEW n \in Names, NEW r, Locked(t, n, r),
           provs[n] # Nil, provs' = provs,
           mp[provs[n]].enabled => mp'[provs[n]].enabled,
           mp'[provs[n]].cfg.version = mp[provs[n]].cfg.version,
           mp'[provs[n]].cfg.weight = mp[provs[n]].cfg.weight,
           mp'[provs[n]].provider = mp[provs[n]].provider
    PROVE  PoolWillFollow'
<1>1. UNCHANGED <<proxies, wrote>>
  BY DEF Locked
<1>2. \A v \in Versions : (Right(n, v) => Right(n, v)') /\ (Served(n, v) => Served(n, v)')
  BY <1>1 DEF Right, Served, Mem
<1>3. \A v \in Versions : Mended(n, v) => Mended(n, v)'
  BY <1>2, LockedMended
<1>4. PoolOK(n)'
  <2>1. PoolOK(n)
    BY DEF PoolWillFollow
  <2> QED BY <1>1, <1>2, <1>3, <2>1 DEF PoolOK, Present
<1> QED BY <1>4, PoolLocked

\* SetProviderPublic.
LEMMA PoolPublic ==
    ASSUME Typed, PoolWillFollow, NEW t \in Requests, NEW n \in Names, NEW b \in BOOLEAN,
           SetProviderPublic(t, n, b)
    PROVE  PoolWillFollow'
<1>1. PICK r : Locked(t, n, r)
  BY TypedPublic
<1>2. /\ provs[n] # Nil /\ mp[provs[n]] \in LiveObject /\ provs[n] \in Handles
      /\ mp \in [Handles -> Object]
  BY DEF SetProviderPublic, Typed, TypeOK, ObjectsInUse
<1>3. /\ provs' = provs /\ mp'[provs[n]].enabled = mp[provs[n]].enabled
      /\ mp'[provs[n]].cfg.version = mp[provs[n]].cfg.version
      /\ mp'[provs[n]].cfg.weight = mp[provs[n]].cfg.weight
      /\ mp'[provs[n]].provider = mp[provs[n]].provider
  BY <1>2 DEF SetProviderPublic, LiveObject, Config
<1> QED BY <1>1, <1>2, <1>3, PoolInPlace

\* SetProviderEnabled: the proxies of a provider that is disabled are dropped.
LEMMA PoolEnabled ==
    ASSUME Typed, PoolWillFollow, NEW t \in Requests, NEW n \in Names, NEW b \in BOOLEAN,
           SetProviderEnabled(t, n, b)
    PROVE  PoolWillFollow'
<1>1. PICK r : Locked(t, n, r) /\ (~b => r.pc = "collect")
  BY TypedEnabled
<1>2. CASE ~b
  BY <1>1, <1>2, PoolDropped
<1>3. CASE b
  <2>1. /\ provs[n] # Nil /\ mp[provs[n]] \in LiveObject /\ provs[n] \in Handles
        /\ mp \in [Handles -> Object]
    BY DEF SetProviderEnabled, Typed, TypeOK, ObjectsInUse
  <2>2. /\ provs' = provs /\ mp'[provs[n]].enabled
        /\ mp'[provs[n]].cfg.version = mp[provs[n]].cfg.version
        /\ mp'[provs[n]].cfg.weight = mp[provs[n]].cfg.weight
        /\ mp'[provs[n]].provider = mp[provs[n]].provider
    BY <1>3, <2>1 DEF SetProviderEnabled, LiveObject, Config
  <2> QED BY <1>1, <2>1, <2>2, PoolInPlace
<1> QED BY <1>2, <1>3

\* SetProviderWeight makes its worker set the weight of what was right before.
LEMMA PoolWeight ==
    ASSUME Typed, PoolWillFollow, NEW t \in Requests, NEW n \in Names,
           NEW weight \in Weights \cup {0}, SetProviderWeight(t, n, weight)
    PROVE  PoolWillFollow'
<1>1. PICK r : Locked(t, n, r) /\ r.pc = "retune"
  BY TypedWeight
<1>2. /\ provs' = provs /\ provs[n] # Nil /\ mp'[provs[n]].enabled = mp[provs[n]].enabled
      /\ mp'[provs[n]].cfg.version = mp[provs[n]].cfg.version
  <2>1. provs[n] # Nil /\ mp[provs[n]] \in LiveObject /\ provs[n] \in Handles /\ mp \in [Handles -> Object]
    BY DEF SetProviderWeight, Typed, TypeOK, ObjectsInUse
  <2> QED BY <2>1 DEF SetProviderWeight, LiveObject, Config
<1>3. UNCHANGED <<proxies, wrote>>
  BY <1>1 DEF Locked
<1>4. \A v \in Versions : Right(n, v) => Right(n, v)'
  BY <1>2, <1>3 DEF Right, Mem
<1>5. \A v \in Versions : Mended(n, v) => Mended(n, v)'
  BY <1>1, <1>4, LockedMended
<1>6. ASSUME NEW v \in Versions, Served(n, v) PROVE Mended(n, v)'
  <2>1. t \in Workers /\ work'[t].name = n /\ work'[t].pc = "retune"
    BY <1>1, LockedWorkers
  <2> QED BY <1>4, <1>6, <2>1 DEF Mended, Served
<1>7. PoolOK(n)'
  <2>1. PoolOK(n)
    BY DEF PoolWillFollow
  <2> QED BY <1>3, <1>5, <1>6, <2>1 DEF PoolOK, Present
<1> QED BY <1>1, <1>7, PoolLocked

\* What remains for the drop loop when it has been through a part of the proxies.
LEMMA PoolDropLoop ==
    ASSUME Typed, PoolWillFollow, NEW t \in Workers, work[t].pc \in {"collect", "drop"},
           NEW n \in Names, n = work[t].name, NEW vs \in SUBSET Versions,
           work' = [work EXCEPT ![t] = Dropped(work[t], vs)], UNCHANGED <<provs, mp>>,
           \A m \in Names \ {n} : proxies'[m] = proxies[m] /\ wrote'[m] = wrote[m],
           \A v \in Versions : /\ proxies'[n][v] \in {0, proxies[n][v]}
                               /\ proxies'[n][v] > 0 => wrote'[n][v] = wrote[n][v],
           \A v \in Versions : proxies'[n][v] > 0 /\ (work[t].pc = "collect" \/ v \in work[t].drop)
                                  => v \in vs
    PROVE  PoolWillFollow'
<1> DEFINE r == Dropped(work[t], vs)
<1>1. /\ work[t] \in Work /\ WorkerOK(work[t]) /\ work \in [Workers -> Work]
      /\ proxies \in [Names -> [Versions -> Weights \cup {0}]]
  BY DEF Typed, TypeOK, WorkersOK
<1>2. r.name = n /\ (vs # {} => r.pc = "drop" /\ r.drop = vs)
  BY <1>1, DroppedOK
<1>3. work'[t] = r /\ \A u \in Workers \ {t} : work'[u] = work[u]
  BY <1>1
<1> HIDE DEF r
<1>4. ASSUME NEW m \in Names \ {n} PROVE PoolOK(m)'
  <2>1. PoolOK(m) /\ \A u \in Workers : work[u].name = m => work'[u] = work[u]
    BY <1>3 DEF PoolWillFollow
  <2> QED BY <1>1, <2>1, PoolKept
<1>5. PoolOK(n)'
  <2> SUFFICES ASSUME NEW v \in Versions, proxies'[n][v] > 0, wrote'[n][v] # "overtaken"
               PROVE  Served(n, v)' \/ Mended(n, v)'
    BY DEF PoolOK, Present
  <2>1. proxies'[n][v] = proxies[n][v] /\ v \in Present(n) /\ wrote'[n][v] = wrote[n][v]
    BY DEF Present
  <2>2. (Right(n, v) => Right(n, v)') /\ (Served(n, v) => Served(n, v)')
    BY <2>1, ServedKept
  <2>3. ASSUME Mended(n, v) PROVE Mended(n, v)'
    <3>1. PICK u \in Workers :
            /\ work[u].name = n
            /\ \/ work[u].pc = "collect"
               \/ work[u].pc = "drop" /\ v \in work[u].drop
               \/ work[u].pc = "retune" /\ Right(n, v)
      BY <2>3 DEF Mended
    <3>2. CASE u = t
      <4>1. v \in vs
        BY <3>1, <3>2
      <4> QED BY <4>1, <1>2, <1>3 DEF Mended
    <3>3. CASE u # t
      BY <2>2, <3>1, <3>3, <1>3 DEF Mended
    <3> QED BY <3>2, <3>3
  <2> QED BY <2>1, <2>2, <2>3 DEF PoolWillFollow, PoolOK
<1> QED BY <1>4, <1>5 DEF PoolWillFollow

\* pool.All() finds all proxies there are.
LEMMA PoolCollect == ASSUME Typed, PoolWillFollow, NEW t \in Workers, Collect(t) PROVE PoolWillFollow'
<1>1. PICK n \in Names : n = work[t].name
  BY DEF Collect, Typed, WorkersOK, WorkerOK
<1>2. /\ work[t].pc = "collect" /\ work' = [work EXCEPT ![t] = Dropped(work[t], Present(n))]
      /\ UNCHANGED <<provs, mp, proxies, wrote>> /\ Present(n) \in SUBSET Versions
  BY <1>1 DEF Collect, Typed, TypeOK, Present
<1>3. \A v \in Versions : proxies'[n][v] > 0 => v \in Present(n)
  BY <1>2 DEF Present
<1> QED BY <1>1, <1>2, <1>3, PoolDropLoop

\* Every turn takes the proxy out that it strikes off.
LEMMA PoolDrop ==
    ASSUME Typed, PoolWillFollow, NEW t \in Workers, NEW v \in Versions, Drop(t, v)
    PROVE  PoolWillFollow'
<1>1. PICK n \in Names : n = work[t].name
  BY DEF Drop, Typed, WorkersOK, WorkerOK
<1>2. /\ work[t].pc = "drop" /\ work' = [work EXCEPT ![t] = Dropped(work[t], work[t].drop \ {v})]
      /\ UNCHANGED <<provs, mp>> /\ work[t].drop \ {v} \in SUBSET Versions
  BY DEF Drop, Typed, TypeOK, Work
<1>3. /\ proxies \in [Names -> [Versions -> Weights \cup {0}]]
      /\ wrote \in [Names -> [Versions -> Kinds]]
      /\ proxies' = [proxies EXCEPT ![n][v] = 0] /\ wrote' = [wrote EXCEPT ![n][v] = "nobody"]
  BY <1>1 DEF Drop, Typed, TypeOK
<1>4. /\ \A m \in Names \ {n} : proxies'[m] = proxies[m] /\ wrote'[m] = wrote[m]
      /\ proxies'[n][v] = 0
      /\ \A w \in Versions \ {v} : proxies'[n][w] = proxies[n][w] /\ wrote'[n][w] = wrote[n][w]
  BY <1>3
<1>5. \A w \in Versions : proxies'[n][w] > 0 /\ w \in work[t].drop => w \in work[t].drop \ {v}
  BY <1>4
<1>6. \A w \in Versions : /\ proxies'[n][w] \in {0, proxies[n][w]}
                          /\ proxies'[n][w] > 0 => wrote'[n][w] = wrote[n][w]
  BY <1>4
<1> QED BY <1>1, <1>2, <1>4, <1>5, <1>6, PoolDropLoop

\* The loop of SetProviderWeight gives the configured weight to all it finds, or
\* has been overtaken.
LEMMA PoolRetune == ASSUME Typed, PoolWillFollow, NEW t \in Workers, Retune(t) PROVE PoolWillFollow'
<1>1. PICK n \in Names : n = work[t].name
  BY DEF Retune, Typed, WorkersOK, WorkerOK
<1> DEFINE w == work[t].cfg.weight
<1>2. /\ proxies \in [Names -> [Versions -> Weights \cup {0}]]
      /\ wrote \in [Names -> [Versions -> Kinds]]
      /\ proxies' = [proxies EXCEPT ![n] = [v \in Versions |-> IF proxies[n][v] > 0 THEN w ELSE 0]]
      /\ wrote' = [wrote EXCEPT ![n] = [v \in Versions |->
                     IF v \in Present(n) /\ ~work[t].fresh THEN "overtaken" ELSE wrote[n][v]]]
      /\ UNCHANGED <<provs, mp>> /\ work[t].pc = "retune" /\ Knows(work[t])
      /\ work \in [Workers -> Work] /\ work' = [work EXCEPT ![t] = Saving(work[t])]
  BY <1>1 DEF Retune, Typed, TypeOK, UpToDate
<1>3. \A u \in Workers \ {t} : work'[u] = work[u]
  BY <1>2
<1>4. ASSUME NEW m \in Names \ {n} PROVE PoolOK(m)'
  <2>1. PoolOK(m) /\ \A u \in Workers : work[u].name = m => work'[u] = work[u]
    BY <1>1, <1>3 DEF PoolWillFollow
  <2>2. proxies'[m] = proxies[m] /\ wrote'[m] = wrote[m]
    BY <1>2
  <2> QED BY <1>2, <2>1, <2>2, PoolKept
<1>5. PoolOK(n)'
  <2> SUFFICES ASSUME NEW v \in Versions, proxies'[n][v] > 0, wrote'[n][v] # "overtaken"
               PROVE  Served(n, v)' \/ Mended(n, v)'
    BY DEF PoolOK, Present
  <2>1. proxies[n][v] > 0 /\ proxies'[n][v] = w /\ v \in Present(n)
    BY <1>2 DEF Present
  <2>2. work[t].fresh /\ wrote'[n][v] = wrote[n][v]
    BY <1>2, <2>1
  <2>3. provs[n] # Nil /\ w = mp[provs[n]].cfg.weight
    BY <1>1, <1>2, <2>2 DEF Knows
  <2>4. Right(n, v) => Right(n, v)' /\ Served(n, v)'
    <3>1. Right(n, v) => Right(n, v)'
      BY <1>2, <2>2 DEF Right, Mem
    <3>2. Mem(n)' = mp[provs[n]].cfg
      BY <1>2, <2>3 DEF Mem
    <3> QED BY <2>1, <2>3, <3>1, <3>2 DEF Served
  <2>5. Served(n, v) => Right(n, v)
    BY DEF Served
  <2>6. ASSUME Mended(n, v), ~Right(n, v) PROVE Mended(n, v)'
    <3>1. PICK u \in Workers :
            /\ work[u].name = n
            /\ work[u].pc = "collect" \/ (work[u].pc = "drop" /\ v \in work[u].drop)
      BY <2>6 DEF Mended
    <3>2. work'[u] = work[u]
      BY <1>2, <1>3, <3>1
    <3> QED BY <3>1, <3>2 DEF Mended
  <2> QED BY <2>1, <2>2, <2>4, <2>5, <2>6 DEF PoolWillFollow, PoolOK
<1> QED BY <1>4, <1>5 DEF PoolWillFollow

\* An answer is what the provider is configured with, unless a change has
\* overtaken it; only a refresh brings proxies of a provider that is disabled.
LEMMA PoolAnswered == ASSUME Typed, PoolWillFollow, NEW t \in Workers, Answered(t) PROVE PoolWillFollow'
<1>1. PICK n \in Names, s \in Source : n = work[t].name /\ s = work[t].source
  BY DEF Answered, Typed, WorkersOK, WorkerOK
<1>2. /\ proxies \in [Names -> [Versions -> Weights \cup {0}]]
      /\ wrote \in [Names -> [Versions -> Kinds]]
      /\ proxies' = [proxies EXCEPT ![n][s.version] = s.weight]
      /\ wrote' = [wrote EXCEPT ![n][s.version] = Kind(t)]
      /\ UNCHANGED <<provs, mp>> /\ ~Mends(work[t]) /\ work[t].pc = "waiting"
      /\ s.version \in Versions /\ s.weight \in Weights
  BY <1>1 DEF Answered, Typed, TypeOK, Mends, Source
<1>3. \A u \in Workers \ {t} : work'[u] = work[u]
  BY DEF Answered, Typed, TypeOK
<1>4. ASSUME NEW m \in Names \ {n} PROVE PoolOK(m)'
  <2>1. PoolOK(m) /\ \A u \in Workers : work[u].name = m => work'[u] = work[u]
    BY <1>1, <1>3 DEF PoolWillFollow
  <2>2. proxies'[m] = proxies[m] /\ wrote'[m] = wrote[m]
    BY <1>2
  <2> QED BY <1>2, <2>1, <2>2, PoolKept
<1>5. ASSUME Kind(t) # "overtaken" PROVE Served(n, s.version)'
  <2>1. /\ provs[n] # Nil /\ s = mp[provs[n]].provider
        /\ work[t].op = "refresh" \/ mp[provs[n]].enabled
    BY <1>1, <1>2, <1>5 DEF Kind, Typed, UpToDate, Knows, Fetches
  <2>2. mp[provs[n]] \in LiveObject
    BY <2>1 DEF Typed, ObjectsInUse
  <2>3. mp[provs[n]].cfg.version = s.version
    BY <2>1, <2>2 DEF LiveObject
  <2>4. proxies'[n][s.version] = s.weight /\ wrote'[n][s.version] = Kind(t)
    BY <1>2
  <2>5. mp[provs[n]].enabled \/ Kind(t) = "unasked"
    BY <1>1, <1>5, <2>1 DEF Kind
  <2>6. Right(n, s.version)'
    BY <1>2, <2>1, <2>3, <2>4, <2>5 DEF Right, Mem
  <2> QED BY <1>2, <2>1, <2>4, <2>6 DEF Served
<1>6. PoolOK(n)'
  <2> SUFFICES ASSUME NEW v \in Versions, proxies'[n][v] > 0, wrote'[n][v] # "overtaken"
               PROVE  Served(n, v)' \/ Mended(n, v)'
    BY DEF PoolOK, Present
  <2>1. CASE v = s.version
    BY <1>2, <1>5, <2>1
  <2>2. CASE v # s.version
    <3>1. proxies'[n][v] = proxies[n][v] /\ v \in Present(n) /\ wrote'[n][v] = wrote[n][v]
      BY <1>2, <2>2 DEF Present
    <3>2. (Right(n, v) => Right(n, v)') /\ (Served(n, v) => Served(n, v)')
      BY <1>2, <3>1, ServedKept
    <3>3. ASSUME Mended(n, v) PROVE Mended(n, v)'
      <4>1. PICK u \in Workers :
              /\ work[u].name = n /\ Mends(work[u])
              /\ \/ work[u].pc = "collect"
                 \/ work[u].pc = "drop" /\ v \in work[u].drop
                 \/ work[u].pc = "retune" /\ Right(n, v)
        BY <3>3 DEF Mended, Mends
      <4>2. work'[u] = work[u]
        BY <1>2, <1>3, <4>1
      <4> QED BY <3>2, <4>1, <4>2 DEF Mended
    <3> QED BY <3>1, <3>2, <3>3 DEF PoolWillFollow, PoolOK
  <2> QED BY <2>1, <2>2
<1> QED BY <1>4, <1>6 DEF PoolWillFollow

\* RemoveExpired takes proxies out and adds none.
LEMMA PoolExpired ==
    ASSUME Typed, PoolWillFollow, NEW t \in Workers, NEW expired, RemoveExpired(t, expired)
    PROVE  PoolWillFollow'
<1> SUFFICES ASSUME NEW n \in Names PROVE PoolOK(n)'
  BY DEF PoolWillFollow
<1>1. /\ proxies \in [Names -> [Versions -> Weights \cup {0}]]
      /\ \A v \in Versions : /\ proxies'[n][v] = IF <<n, v>> \in expired THEN 0 ELSE proxies[n][v]
                             /\ <<n, v>> \notin expired => wrote'[n][v] = wrote[n][v]
      /\ UNCHANGED <<provs, mp>> /\ ~Mends(work[t])
      /\ \A u \in Workers \ {t} : work'[u] = work[u]
  BY DEF RemoveExpired, Typed, TypeOK, Mends
<1>2. ASSUME NEW v \in Versions
      PROVE  /\ proxies'[n][v] \in {0, proxies[n][v]}
             /\ proxies'[n][v] > 0 => wrote'[n][v] = wrote[n][v]
  <2>1. CASE <<n, v>> \in expired
    <3>1. proxies'[n][v] = 0 /\ ~(0 > 0)
      BY <1>1, <2>1
    <3> QED BY <3>1
  <2>2. CASE <<n, v>> \notin expired
    BY <1>1, <2>2
  <2> QED BY <2>1, <2>2
<1>3. PoolOK(n) /\ \A u \in Workers : Mends(work[u]) => work'[u] = work[u]
  BY <1>1 DEF PoolWillFollow
<1> QED BY <1>1, <1>2, <1>3, PoolKept

\* Every step leaves a wrong proxy to a mender or to an overtaken step.
LEMMA PoolNext == ASSUME Typed, PoolWillFollow, [Next]_vars PROVE PoolWillFollow'
<1>1. ASSUME NEW t \in Requests, NEW n \in Names, Administer(t, n) PROVE PoolWillFollow'
  <2>1. ASSUME NEW c \in Submitted, AddProvider(t, n, c) PROVE PoolWillFollow'
    <3>1. PICK r : Locked(t, n, r)
      BY <2>1, TypedAdd
    <3>2. provs[n] = Nil
      BY <2>1 DEF AddProvider
    <3> QED BY <3>1, <3>2, PoolUnserved
  <2>2. ASSUME NEW c \in Submitted, UpdateProvider(t, n, c) PROVE PoolWillFollow'
    BY <2>2, TypedUpdate, PoolDropped
  <2>3. CASE RemoveProvider(t, n)
    BY <2>3, TypedRemove, PoolDropped
  <2> QED BY <1>1, <2>1, <2>2, <2>3, PoolEnabled, PoolPublic, PoolWeight DEF Administer
<1>2. ASSUME NEW t \in Workers, NEW n \in Names, RefreshProvider(t, n) PROVE PoolWillFollow'
  <2>1. ~Mends(work[t]) /\ UNCHANGED <<provs, mp, proxies, wrote>>
    BY <1>2, IdleOK DEF RefreshProvider, Mends
  <2>2. \A u \in Workers \ {t} : work'[u] = work[u]
    BY <1>2 DEF RefreshProvider, Typed, TypeOK
  <2> QED BY <2>1, <2>2, PoolWorker
<1>3. ASSUME NEW t \in Workers, CallProvider(t) PROVE PoolWillFollow'
  <2>1. ~Mends(work[t]) /\ UNCHANGED <<provs, proxies, wrote>>
    BY <1>3 DEF CallProvider, Mends
  <2>2. \A u \in Workers \ {t} : work'[u] = work[u]
    BY <1>3 DEF CallProvider, Typed, TypeOK
  <2> QED BY <1>3, <2>1, <2>2, TypedCall, PoolWorker
<1>4. ASSUME NEW t \in Workers, AnsweredEmpty(t) \/ AnsweredNothing(t) \/ Failed(t)
                              \/ Save(t) \/ SaveFails(t)
      PROVE  PoolWillFollow'
  <2>1. ~Mends(work[t]) /\ UNCHANGED <<provs, mp, proxies, wrote>>
    BY <1>4 DEF AnsweredEmpty, AnsweredNothing, Failed, Save, SaveFails, Mends
  <2>2. \A u \in Workers \ {t} : work'[u] = work[u]
    BY <1>4 DEF AnsweredEmpty, AnsweredNothing, Failed, Save, SaveFails, Typed, TypeOK
  <2> QED BY <2>1, <2>2, PoolWorker
<1>5. CASE RefreshLoop \/ UNCHANGED vars
  BY <1>5 DEF RefreshLoop, vars, PoolWillFollow, PoolOK, Present, Right, Served, Mended, Mem
<1>6. ASSUME NEW synced \in BOOLEAN, Restart(synced) PROVE PoolWillFollow'
  BY <1>6 DEF Restart, PoolWillFollow, PoolOK, Present
<1>7. ASSUME NEW t \in Workers, Step(t) PROVE PoolWillFollow'
  BY <1>3, <1>4, <1>7, PoolCollect, PoolDrop, PoolRetune, PoolAnswered, PoolExpired DEF Step
<1> QED BY <1>1, <1>2, <1>5, <1>6, <1>7 DEF Next

\* The pool follows the configuration: when nothing is in progress on a provider
\* its proxies come from the configured upstream, with the configured weight or
\* that of its provider object, and there are none if it was removed or disabled;
\* unless a step that a later change had overtaken wrote them last, or, of a
\* disabled provider, a refresh; for any number of administrators, goroutines and
\* providers.
THEOREM PoolFollows == Spec => []PoolFollowsConfig
<1> DEFINE Inv == Typed /\ PoolWillFollow
<1>1. ASSUME Init PROVE Inv
  <2>1. \A n \in Names : Present(n) = {}
    BY <1>1 DEF Init, Present
  <2> QED BY <1>1, <2>1, TypedInit DEF PoolWillFollow, PoolOK
<1>2. Inv /\ [Next]_vars => Inv'
  BY TypedNext, PoolNext
<1>3. Inv => PoolFollowsConfig
  BY DEF PoolWillFollow, PoolOK, PoolFollowsConfig, AtRest, Mended, Served, Right
<1> HIDE DEF Inv
<1> QED BY <1>1, <1>2, <1>3, PTL DEF Spec

=============================================================================
