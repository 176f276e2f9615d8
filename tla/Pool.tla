-------------------------------- MODULE Pool --------------------------------
(***************************************************************************)
(* The in-memory proxy pool (internal/pool/pool.go): the registry guarded  *)
(* by the RWMutex Pool.mu, the atomic liveness fields of every proxy, and  *)
(* the snapshot that readers use without a lock.  Every operation that     *)
(* changes what may be served ends in Rebuild, which runs in the caller's  *)
(* goroutine in four separate steps: scan the registry under the read      *)
(* lock, release the lock, build the priority groups, Store the snapshot.  *)
(* Nothing orders the rebuilds of two goroutines, so their steps           *)
(* interleave freely here as they do in the program.                       *)
(*                                                                         *)
(* A proxy object is a member of Objs; its ID is fixed when it is created, *)
(* and one ID may be registered again later with another object (a         *)
(* provider that is dropped and re-fetched).  groupsCfg is empty: this is  *)
(* the priority mechanism; the explicit groups are in GroupSchedule.       *)
(***************************************************************************)
EXTENDS Integers, FiniteSets

CONSTANTS
    Objs,        \* proxy objects that providers may hand to Add
    IDs,         \* Proxy.ID
    IdOf,        \* the ID of each object
    Providers,   \* provider names
    ProviderOf,  \* the provider of each ID (the ID starts with its name)
    Tiers,       \* values of the pair (Priority, MinAliveRatio in percent)
    TierOf,      \* the tier an object is created with
    Countries,   \* country codes a lookup may return
    Threads,     \* goroutines that call the pool
    None         \* no object, no tier, no country

ASSUME PoolAssumption ==
    /\ IdOf \in [Objs -> IDs]
    /\ ProviderOf \in [IDs -> Providers]
    /\ Tiers \subseteq [priority : Int, minRatio : 0..100]
    /\ TierOf \in [Objs -> Tiers]
    /\ None \notin Objs /\ None \notin Tiers /\ None \notin Countries

VARIABLES
    proxies,   \* Pool.proxies: the object registered under each ID
    fresh,     \* objects no Add has been called with yet
    alive,     \* Proxy.Alive
    fails,     \* Proxy.Fails, saturated at FailLimit
    used,      \* Proxy.LastUsed # 0
    tier,      \* Proxy.Priority and Proxy.MinAliveRatio
    country,   \* Proxy.Country
    snap,      \* Pool.snap
    pc,        \* where each goroutine is
    obj,       \* MarkFailed, MarkSuccess: the pointer Get returned
    batch,     \* SetProviderPriority: the objects of All() left to write
    newTier,   \* SetProviderPriority: its arguments
    todo,      \* Rebuild: the IDs the range loop has not visited
    got,       \* Rebuild: the slice alive
    seen,      \* Rebuild: the tier under which stats counted each object
    groups,    \* Rebuild: the result of buildPrioGroups
    after,     \* history: the goroutines whose rebuild began after this one's
    late,      \* history: one of those has stored already
    stale      \* history: the current snapshot was stored by a late rebuild

objVars  == <<fresh, alive, fails, used, tier, country>>
opVars   == <<obj, batch, newTier>>
scanVars == <<todo, got, seen, groups>>
history  == <<after, late, stale>>
vars     == <<proxies, objVars, snap, pc, opVars, scanVars, history>>

\* MarkFailed's threshold; a larger count behaves like this one.
FailLimit == 3

Steps == {"idle", "count", "checkUsed", "kill", "reset", "stamp", "loadAlive",
          "revive", "setTier", "rebuild", "scan", "build", "store", "panic"}

NoStats == [o \in Objs |-> None]

Registered == {o \in Objs : proxies[IdOf[o]] = o}

\* What the snapshot should list: registered and alive.
Servable == {o \in Registered : alive[o]}

\* Rebuild holds Pool.mu for reading while it scans; a writer waits for it.
WriteLockFree == \A t \in Threads : pc[t] # "scan"

Goto(t, step) == pc' = [pc EXCEPT ![t] = step]

\* A report is done with its proxy pointer.
Return(t) == Goto(t, "idle") /\ obj' = [obj EXCEPT ![t] = None]

-----------------------------------------------------------------------------
(* Registering and removing *)

\* Add of an unknown ID: insert under the lock, then Rebuild.
AddNew(t, o) ==
    /\ pc[t] = "idle" /\ o \in fresh /\ WriteLockFree
    /\ proxies[IdOf[o]] = None
    /\ proxies' = [proxies EXCEPT ![IdOf[o]] = o]
    /\ fresh' = fresh \ {o}
    /\ Goto(t, "rebuild")
    /\ UNCHANGED <<alive, fails, used, tier, country, snap, opVars, scanVars, history>>

\* Add of a registered ID: the old object takes the new one's configuration
\* and keeps its liveness; the snapshot is not rebuilt.
AddExisting(t, o) ==
    /\ pc[t] = "idle" /\ o \in fresh /\ WriteLockFree
    /\ proxies[IdOf[o]] # None
    /\ tier' = [tier EXCEPT ![proxies[IdOf[o]]] = tier[o]]
    /\ fresh' = fresh \ {o}
    /\ UNCHANGED <<proxies, alive, fails, used, country, snap, pc, opVars, scanVars, history>>

\* Mutant: Remove deletes without taking Pool.mu for writing.
RemoveUnlocked(t, i) ==
    /\ pc[t] = "idle"
    /\ proxies[i] # None
    /\ proxies' = [proxies EXCEPT ![i] = None]
    /\ Goto(t, "rebuild")
    /\ UNCHANGED <<objVars, snap, opVars, scanVars, history>>

\* Remove(id): delete under the lock, then Rebuild.
Remove(t, i) ==
    /\ pc[t] = "idle" /\ WriteLockFree
    /\ proxies[i] # None
    /\ proxies' = [proxies EXCEPT ![i] = None]
    /\ Goto(t, "rebuild")
    /\ UNCHANGED <<objVars, snap, opVars, scanVars, history>>

\* Mutant: RemoveExpired returns without rebuilding.
RemoveExpiredSilently(t) ==
    /\ pc[t] = "idle" /\ WriteLockFree
    /\ \E expired \in (SUBSET {i \in IDs : proxies[i] # None}) \ {{}} :
         proxies' = [i \in IDs |-> IF i \in expired THEN None ELSE proxies[i]]
    /\ UNCHANGED <<objVars, snap, pc, opVars, scanVars, history>>

\* RemoveExpired: delete every expired proxy under the lock; Rebuild if there
\* was one.  Which of them have expired by now is the clock's choice.
RemoveExpired(t) ==
    /\ pc[t] = "idle" /\ WriteLockFree
    /\ \E expired \in (SUBSET {i \in IDs : proxies[i] # None}) \ {{}} :
         proxies' = [i \in IDs |-> IF i \in expired THEN None ELSE proxies[i]]
    /\ Goto(t, "rebuild")
    /\ UNCHANGED <<objVars, snap, opVars, scanVars, history>>

\* SetCountry(id, c): under the lock; Rebuild only if it changes something.
SetCountry(t, i, c) ==
    /\ pc[t] = "idle" /\ WriteLockFree
    /\ proxies[i] # None /\ country[proxies[i]] # c
    /\ country' = [country EXCEPT ![proxies[i]] = c]
    /\ Goto(t, "rebuild")
    /\ UNCHANGED <<proxies, fresh, alive, fails, used, tier, snap, opVars, scanVars, history>>

-----------------------------------------------------------------------------
(* Results of probes and of relayed requests *)

\* Mutant: MarkFailed does not test what Get returned.
MarkFailedUnchecked(t, i) ==
    /\ pc[t] = "idle"
    /\ obj' = [obj EXCEPT ![t] = proxies[i]]
    /\ Goto(t, "count")
    /\ UNCHANGED <<proxies, objVars, snap, batch, newTier, scanVars, history>>

\* MarkFailed: Get(id), under the read lock.
MarkFailed(t, i) ==
    /\ pc[t] = "idle" /\ proxies[i] # None
    /\ obj' = [obj EXCEPT ![t] = proxies[i]]
    /\ Goto(t, "count")
    /\ UNCHANGED <<proxies, objVars, snap, batch, newTier, scanVars, history>>

\* f := Fails.Add(1), and the first half of the test: f >= 3.
CountFailure(t) ==
    /\ pc[t] = "count"
    /\ LET f == fails[obj[t]] + 1
       IN  /\ fails' = [fails EXCEPT ![obj[t]] = IF f < FailLimit THEN f ELSE FailLimit]
           /\ Goto(t, IF f >= FailLimit THEN "kill" ELSE "checkUsed")
    /\ UNCHANGED <<proxies, fresh, alive, used, tier, country, snap, opVars, scanVars, history>>

\* The second half: LastUsed.Load() == 0.
CheckUsed(t) ==
    /\ pc[t] = "checkUsed"
    /\ IF used[obj[t]] THEN Return(t) ELSE Goto(t, "kill") /\ UNCHANGED obj
    /\ UNCHANGED <<proxies, objVars, snap, batch, newTier, scanVars, history>>

\* Mutant: the failed proxy is marked and the snapshot is left as it is.
KillSilently(t) ==
    /\ pc[t] = "kill"
    /\ alive' = [alive EXCEPT ![obj[t]] = FALSE]
    /\ Return(t)
    /\ UNCHANGED <<proxies, fresh, fails, used, tier, country, snap, batch, newTier, scanVars, history>>

\* Mutant: MarkFailed saves the rebuild of a proxy that was dead already, the
\* way MarkSuccess does for a live one.
KillOnce(t) ==
    /\ pc[t] = "kill"
    /\ alive' = [alive EXCEPT ![obj[t]] = FALSE]
    /\ obj' = [obj EXCEPT ![t] = None]
    /\ Goto(t, IF alive[obj[t]] THEN "rebuild" ELSE "idle")
    /\ UNCHANGED <<proxies, fresh, fails, used, tier, country, snap, batch, newTier, scanVars, history>>

\* Alive.Store(false), then Rebuild whether or not it was alive.
Kill(t) ==
    /\ pc[t] = "kill"
    /\ alive' = [alive EXCEPT ![obj[t]] = FALSE]
    /\ obj' = [obj EXCEPT ![t] = None]
    /\ Goto(t, "rebuild")
    /\ UNCHANGED <<proxies, fresh, fails, used, tier, country, snap, batch, newTier, scanVars, history>>

\* MarkSuccess: Get(id).
MarkSuccess(t, i) ==
    /\ pc[t] = "idle" /\ proxies[i] # None
    /\ obj' = [obj EXCEPT ![t] = proxies[i]]
    /\ Goto(t, "reset")
    /\ UNCHANGED <<proxies, objVars, snap, batch, newTier, scanVars, history>>

\* Fails.Store(0).
ResetFails(t) ==
    /\ pc[t] = "reset"
    /\ fails' = [fails EXCEPT ![obj[t]] = 0]
    /\ Goto(t, "stamp")
    /\ UNCHANGED <<proxies, fresh, alive, used, tier, country, snap, opVars, scanVars, history>>

\* LastUsed.Store(now).
StampUsed(t) ==
    /\ pc[t] = "stamp"
    /\ used' = [used EXCEPT ![obj[t]] = TRUE]
    /\ Goto(t, "loadAlive")
    /\ UNCHANGED <<proxies, fresh, alive, fails, tier, country, snap, opVars, scanVars, history>>

\* if !Alive.Load(): a proxy that is alive already is not rebuilt for.
LoadAlive(t) ==
    /\ pc[t] = "loadAlive"
    /\ IF alive[obj[t]] THEN Return(t) ELSE Goto(t, "revive") /\ UNCHANGED obj
    /\ UNCHANGED <<proxies, objVars, snap, batch, newTier, scanVars, history>>

\* Mutant: a recovered proxy waits for somebody else's rebuild.
ReviveSilently(t) ==
    /\ pc[t] = "revive"
    /\ alive' = [alive EXCEPT ![obj[t]] = TRUE]
    /\ Return(t)
    /\ UNCHANGED <<proxies, fresh, fails, used, tier, country, snap, batch, newTier, scanVars, history>>

\* Alive.Store(true), then Rebuild.
Revive(t) ==
    /\ pc[t] = "revive"
    /\ alive' = [alive EXCEPT ![obj[t]] = TRUE]
    /\ obj' = [obj EXCEPT ![t] = None]
    /\ Goto(t, "rebuild")
    /\ UNCHANGED <<proxies, fresh, fails, used, tier, country, snap, batch, newTier, scanVars, history>>

-----------------------------------------------------------------------------
(* Manager.SetProviderPriority: it writes the fields of the proxies in     *)
(* All() one after the other, without Pool.mu, and then rebuilds.          *)

SetProviderPriority(t, p, r) ==
    /\ pc[t] = "idle"
    /\ batch' = [batch EXCEPT ![t] = {o \in Registered : ProviderOf[IdOf[o]] = p}]
    /\ newTier' = [newTier EXCEPT ![t] = r]
    /\ Goto(t, "setTier")
    /\ UNCHANGED <<proxies, objVars, snap, obj, scanVars, history>>

SetTier(t, o) ==
    /\ pc[t] = "setTier" /\ o \in batch[t]
    /\ tier' = [tier EXCEPT ![o] = newTier[t]]
    /\ batch' = [batch EXCEPT ![t] = @ \ {o}]
    /\ UNCHANGED <<proxies, fresh, alive, fails, used, country, snap, pc, obj, newTier, scanVars, history>>

SetTierDone(t) ==
    /\ pc[t] = "setTier" /\ batch[t] = {}
    /\ newTier' = [newTier EXCEPT ![t] = None]
    /\ Goto(t, "rebuild")
    /\ UNCHANGED <<proxies, objVars, snap, obj, batch, scanVars, history>>

-----------------------------------------------------------------------------
(* Rebuild *)

Rebuilding == {t \in Threads : pc[t] \in {"scan", "build", "store"}}

\* mu.RLock(), and the loop over p.proxies begins.
RebuildBegin(t) ==
    /\ pc[t] = "rebuild"
    /\ todo' = [todo EXCEPT ![t] = {i \in IDs : proxies[i] # None}]
    /\ got' = [got EXCEPT ![t] = {}]
    /\ seen' = [seen EXCEPT ![t] = NoStats]
    /\ Goto(t, "scan")
    /\ after' = [u \in Threads |-> IF u = t THEN {}
                                   ELSE IF u \in Rebuilding THEN after[u] \cup {t}
                                   ELSE after[u]]
    /\ late' = [late EXCEPT ![t] = FALSE]
    /\ UNCHANGED <<proxies, objVars, snap, opVars, groups, stale>>

\* One iteration: count the proxy under its tier, list it if Alive.Load().
RebuildScan(t, i) ==
    /\ pc[t] = "scan" /\ i \in todo[t]
    /\ todo' = [todo EXCEPT ![t] = @ \ {i}]
    /\ seen' = [seen EXCEPT ![t][proxies[i]] = tier[proxies[i]]]
    /\ got' = [got EXCEPT ![t] = IF alive[proxies[i]] THEN @ \cup {proxies[i]} ELSE @]
    /\ UNCHANGED <<proxies, objVars, snap, pc, opVars, groups, history>>

\* mu.RUnlock().
RebuildUnlock(t) ==
    /\ pc[t] = "scan" /\ todo[t] = {}
    /\ Goto(t, "build")
    /\ UNCHANGED <<proxies, objVars, snap, opVars, scanVars, history>>

\* The entry stats[p]: who was counted under priority p by the scan s.
Counted(s, p) == {o \in Objs : s[o] # None /\ s[o].priority = p}

\* Mutant: the strictest proxy of a level decides, not the most permissive.
MinRatioStrictest(s, p) ==
    LET ratios == {s[o].minRatio : o \in Counted(s, p)}
    IN  CHOOSE r \in ratios : \A q \in ratios : r >= q

\* st.minRatio: it starts at 1.0 and the smallest MinAliveRatio wins.
MinRatio(s, p) ==
    LET ratios == {100} \cup {s[o].minRatio : o \in Counted(s, p)}
    IN  CHOOSE r \in ratios : \A q \in ratios : r <= q

\* buildPrioGroups: the listed proxies by the priority they have now, with
\* the tallies the scan made.
PrioGroups(listed, s) ==
    {[priority   |-> p,
      members    |-> {o \in listed : tier[o].priority = p},
      aliveTotal |-> Cardinality(Counted(s, p)),
      aliveCount |-> Cardinality(Counted(s, p) \cap listed),
      minRatio   |-> MinRatio(s, p)] : p \in {tier[o].priority : o \in listed}}

\* Every listed proxy still has a priority the scan made an entry for.
StatsComplete(t) == \A o \in got[t] : Counted(seen[t], tier[o].priority) # {}

RebuildGroups(t) ==
    /\ pc[t] = "build" /\ StatsComplete(t)
    /\ groups' = [groups EXCEPT ![t] = PrioGroups(got[t], seen[t])]
    /\ Goto(t, "store")
    /\ UNCHANGED <<proxies, objVars, snap, opVars, todo, got, seen, history>>

\* stats[prio] is nil and buildPrioGroups dereferences it: the goroutine
\* panics (a health-check goroutine takes the process with it).
RebuildPanic(t) ==
    /\ pc[t] = "build" /\ ~StatsComplete(t)
    /\ Goto(t, "panic")
    /\ UNCHANGED <<proxies, objVars, snap, opVars, scanVars, history>>

\* snap.Store, whatever has been stored in the meantime.
RebuildStore(t) ==
    /\ pc[t] = "store"
    /\ snap' = [members |-> got[t], prio |-> groups[t]]
    /\ Goto(t, "idle")
    /\ got' = [got EXCEPT ![t] = {}]
    /\ seen' = [seen EXCEPT ![t] = NoStats]
    /\ groups' = [groups EXCEPT ![t] = {}]
    /\ after' = [after EXCEPT ![t] = {}]
    /\ late' = [u \in Threads |-> u # t /\ (late[u] \/ t \in after[u])]
    /\ stale' = late[t]
    /\ UNCHANGED <<proxies, objVars, opVars, todo>>

-----------------------------------------------------------------------------
(* nextPrio: what Next returns when nothing is excluded is a weighted random *)
(* member of the first usable group, highest priority first.               *)

Usable(g) == g.aliveCount > 0 /\ 100 * g.aliveCount >= g.minRatio * g.aliveTotal

NextPrio(s) ==
    {o \in s.members : \E g \in s.prio :
        /\ o \in g.members /\ Usable(g)
        /\ \A h \in s.prio : Usable(h) => h.priority <= g.priority}

-----------------------------------------------------------------------------
Init ==
    /\ proxies = [i \in IDs |-> None]
    /\ fresh = Objs
    /\ alive = [o \in Objs |-> TRUE]
    /\ fails = [o \in Objs |-> 0]
    /\ used = [o \in Objs |-> FALSE]
    /\ tier = TierOf
    /\ country = [o \in Objs |-> None]
    /\ snap = [members |-> {}, prio |-> {}]
    /\ pc = [t \in Threads |-> "idle"]
    /\ obj = [t \in Threads |-> None]
    /\ batch = [t \in Threads |-> {}]
    /\ newTier = [t \in Threads |-> None]
    /\ todo = [t \in Threads |-> {}]
    /\ got = [t \in Threads |-> {}]
    /\ seen = [t \in Threads |-> NoStats]
    /\ groups = [t \in Threads |-> {}]
    /\ after = [t \in Threads |-> {}]
    /\ late = [t \in Threads |-> FALSE]
    /\ stale = FALSE

Rebuild(t) ==
    \/ RebuildBegin(t)
    \/ \E i \in IDs : RebuildScan(t, i)
    \/ RebuildUnlock(t)
    \/ RebuildGroups(t)
    \/ RebuildPanic(t)
    \/ RebuildStore(t)

\* The rest of an operation that has begun.
Continue(t) ==
    \/ CountFailure(t) \/ CheckUsed(t) \/ Kill(t)
    \/ ResetFails(t) \/ StampUsed(t) \/ LoadAlive(t) \/ Revive(t)
    \/ \E o \in Objs : SetTier(t, o)
    \/ SetTierDone(t)
    \/ Rebuild(t)

Call(t) ==
    \/ \E o \in Objs : AddNew(t, o) \/ AddExisting(t, o)
    \/ \E i \in IDs : Remove(t, i) \/ MarkFailed(t, i) \/ MarkSuccess(t, i)
    \/ \E i \in IDs, c \in Countries : SetCountry(t, i, c)
    \/ RemoveExpired(t)
    \/ \E p \in Providers, r \in Tiers : SetProviderPriority(t, p, r)

Next == \E t \in Threads : Call(t) \/ Continue(t)

Spec == Init /\ [][Next]_vars

-----------------------------------------------------------------------------
(* Properties *)

HoldsObj == {"count", "checkUsed", "kill", "reset", "stamp", "loadAlive", "revive"}

\* Type correctness of the pool's state and of the goroutines' locals: a
\* goroutine in the middle of a report holds a non-nil proxy.
TypeOK ==
    /\ proxies \in [IDs -> Objs \cup {None}]
    /\ \A i \in IDs : proxies[i] # None => IdOf[proxies[i]] = i
    /\ fresh \subseteq Objs
    /\ alive \in [Objs -> BOOLEAN]
    /\ fails \in [Objs -> 0..FailLimit]
    /\ used \in [Objs -> BOOLEAN]
    /\ tier \in [Objs -> Tiers]
    /\ country \in [Objs -> Countries \cup {None}]
    /\ snap.members \subseteq Objs
    /\ pc \in [Threads -> Steps]
    /\ obj \in [Threads -> Objs \cup {None}]
    /\ batch \in [Threads -> SUBSET Objs]
    /\ newTier \in [Threads -> Tiers \cup {None}]
    /\ todo \in [Threads -> SUBSET IDs]
    /\ got \in [Threads -> SUBSET Objs]
    /\ seen \in [Threads -> [Objs -> Tiers \cup {None}]]
    /\ after \in [Threads -> SUBSET Threads]
    /\ late \in [Threads -> BOOLEAN]
    /\ stale \in BOOLEAN
    /\ \A t \in Threads :
          /\ pc[t] \in HoldsObj => obj[t] # None
          /\ pc[t] = "setTier" => newTier[t] # None

\* The read lock gives a scan one registry: while Rebuild scans, whatever it
\* has counted or listed is still registered, and what it has yet to visit
\* is there to be visited (pool.go:241-257 against the writers Add, Remove
\* and RemoveExpired).
ScanSeesOneRegistry ==
    \A t \in Threads : pc[t] = "scan" =>
        /\ \A i \in todo[t] : proxies[i] # None
        /\ \A o \in Objs : (o \in got[t] \/ seen[t][o] # None) =>
              o \in Registered /\ IdOf[o] \notin todo[t]

AtRest == \A t \in Threads : pc[t] = "idle"

\* The overwriting of a snapshot by a rebuild that began earlier is the only
\* way to end up with a wrong one: once every operation has returned, and
\* unless the last Store was made by a rebuild that a younger one had
\* overtaken, the snapshot lists exactly the registered live proxies.
ExactUnlessOvertaken ==
    AtRest /\ ~stale => snap.members = Servable

\* The priority level p of the registry itself: its proxies, and whether
\* enough of them are alive for the most permissive of them.
Level(p) == {o \in Registered : tier[o].priority = p}
LevelUsable(p) ==
    /\ Level(p) \cap Servable # {}
    /\ \E o \in Level(p) : 100 * Cardinality(Level(p) \cap Servable)
                               >= tier[o].minRatio * Cardinality(Level(p))

\* When nothing runs concurrently, Next serves the live proxies of the
\* highest priority level that is usable according to the registry (nextPrio
\* over what buildPrioGroups made of the last scan).
ServesBestLevel ==
    AtRest =>
        NextPrio(snap) = {o \in Servable :
            /\ LevelUsable(tier[o].priority)
            /\ \A q \in {tier[x].priority : x \in Registered} :
                  LevelUsable(q) => q <= tier[o].priority}

=============================================================================
