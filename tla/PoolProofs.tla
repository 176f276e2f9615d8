------------------------------ MODULE PoolProofs ------------------------------
(***************************************************************************)
(* Proofs about Pool for any sets of objects, IDs, tiers and goroutines,   *)
(* and about the health checker at work on it.                             *)
(***************************************************************************)
EXTENDS HealthCheck, FiniteSetTheorems, WellFoundedInduction, TLAPS

(***************************************************************************)
(* The strengthening behind ExactUnlessOvertaken.  A rebuild is right      *)
(* about an object when it has recorded the object's present state or has  *)
(* yet to visit its ID.  Whenever the snapshot, or a rebuild that nobody   *)
(* has overtaken, is wrong about an object, somebody is on the way who     *)
(* will put it right: a goroutine about to begin a rebuild, or a younger   *)
(* rebuild that is right about it.                                         *)
(***************************************************************************)
Right(t, o) ==
    \/ pc[t] = "scan" /\ IdOf[o] \in todo[t]
    \/ (o \in got[t] <=> o \in Servable)

\* The goroutine will start a scan, or has panicked on its way to a Store.
Starting(t) == pc[t] \in {"rebuild", "panic"}

Corrector(t, o) ==
    \/ Starting(t)
    \/ t \in Rebuilding /\ ~late[t] /\ Right(t, o)

SnapshotCorrected ==
    ~stale => \A o \in Objs : (o \in snap.members <=> o \in Servable)
                                \/ \E t \in Threads : Corrector(t, o)

RebuildCorrected ==
    \A u \in Rebuilding : ~late[u] => \A o \in Objs :
        \/ Right(u, o)
        \/ \E t \in Threads : Corrector(t, o) /\ (Starting(t) \/ t \in after[u])

\* "Began after" is a strict order on the rebuilds in progress.
AfterOrder ==
    /\ \A t, u \in Rebuilding : ~(t \in after[u] /\ u \in after[t])
    /\ \A t, u, v \in Rebuilding : v \in after[t] /\ t \in after[u] => v \in after[u]

Inv == TypeOK /\ ScanSeesOneRegistry /\ AfterOrder
         /\ SnapshotCorrected /\ RebuildCorrected

-----------------------------------------------------------------------------
\* An empty pool is well typed.
LEMMA TypeInit == Init => TypeOK
<1> SUFFICES ASSUME Init PROVE TypeOK
  OBVIOUS
<1>1. tier \in [Objs -> Tiers]
  BY PoolAssumption DEF Init
<1>2. fails \in [Objs -> 0..FailLimit]
  BY DEF Init, FailLimit
<1>3. seen \in [Threads -> [Objs -> Tiers \cup {None}]]
  BY DEF Init, NoStats
<1>4. pc \in [Threads -> Steps] /\ \A t \in Threads : pc[t] \notin HoldsObj /\ pc[t] # "setTier"
  BY DEF Init, Steps, HoldsObj
<1>5. snap.members \subseteq Objs
  BY DEF Init
<1> QED
  BY <1>1, <1>2, <1>3, <1>4, <1>5, Zenon DEF Init, TypeOK

\* Every action keeps the types; a scan needs to know that what it visits is
\* registered.
LEMMA TypeStep == TypeOK /\ ScanSeesOneRegistry /\ [Next]_vars => TypeOK'
<1> USE PoolAssumption
<1> SUFFICES ASSUME TypeOK, ScanSeesOneRegistry, [Next]_vars PROVE TypeOK'
  OBVIOUS
<1> USE DEF Goto, Return, objVars, opVars, scanVars, history, Steps, HoldsObj, FailLimit
<1>1. CASE UNCHANGED vars
  BY <1>1 DEF vars, TypeOK
<1>2. ASSUME NEW t \in Threads, NEW o \in Objs, AddNew(t, o) PROVE TypeOK'
  BY <1>2 DEF AddNew, TypeOK
<1>3. ASSUME NEW t \in Threads, NEW o \in Objs, AddExisting(t, o) PROVE TypeOK'
  BY <1>3 DEF AddExisting, TypeOK
<1>4. ASSUME NEW t \in Threads, NEW i \in IDs, Remove(t, i) PROVE TypeOK'
  BY <1>4 DEF Remove, TypeOK
<1>5. ASSUME NEW t \in Threads, RemoveExpired(t) PROVE TypeOK'
  BY <1>5 DEF RemoveExpired, TypeOK
<1>6. ASSUME NEW t \in Threads, NEW i \in IDs, NEW c \in Countries, SetCountry(t, i, c)
      PROVE  TypeOK'
  BY <1>6 DEF SetCountry, TypeOK
<1>7. ASSUME NEW t \in Threads, NEW i \in IDs, MarkFailed(t, i) PROVE TypeOK'
  BY <1>7 DEF MarkFailed, TypeOK
<1>8. ASSUME NEW t \in Threads, CountFailure(t) PROVE TypeOK'
  <2>1. obj[t] \in Objs /\ fails[obj[t]] \in 0..3
    BY <1>8 DEF CountFailure, TypeOK
  <2>2. fails' \in [Objs -> 0..3]
    BY <1>8, <2>1 DEF CountFailure, TypeOK
  <2>3. pc' \in [Threads -> Steps] /\ pc'[t] \in {"kill", "checkUsed"}
          /\ \A u \in Threads : u # t => pc'[u] = pc[u]
    BY <1>8 DEF CountFailure, TypeOK
  <2> QED
    BY <1>8, <2>1, <2>2, <2>3 DEF CountFailure, TypeOK
<1>9. ASSUME NEW t \in Threads, CheckUsed(t) PROVE TypeOK'
  <2>1. CASE used[obj[t]]
    <3>1. pc' = [pc EXCEPT ![t] = "idle"] /\ obj' = [obj EXCEPT ![t] = None]
      BY <1>9, <2>1 DEF CheckUsed
    <3> QED
      BY <1>9, <3>1 DEF CheckUsed, TypeOK
  <2>2. CASE ~used[obj[t]]
    BY <1>9, <2>2 DEF CheckUsed, TypeOK
  <2> QED
    BY <2>1, <2>2
<1>10. ASSUME NEW t \in Threads, Kill(t) PROVE TypeOK'
  BY <1>10 DEF Kill, TypeOK
<1>11. ASSUME NEW t \in Threads, NEW i \in IDs, MarkSuccess(t, i) PROVE TypeOK'
  BY <1>11 DEF MarkSuccess, TypeOK
<1>12. ASSUME NEW t \in Threads, ResetFails(t) PROVE TypeOK'
  BY <1>12 DEF ResetFails, TypeOK
<1>13. ASSUME NEW t \in Threads, StampUsed(t) PROVE TypeOK'
  BY <1>13 DEF StampUsed, TypeOK
<1>14. ASSUME NEW t \in Threads, LoadAlive(t) PROVE TypeOK'
  <2>1. CASE alive[obj[t]]
    <3>1. pc' = [pc EXCEPT ![t] = "idle"] /\ obj' = [obj EXCEPT ![t] = None]
      BY <1>14, <2>1 DEF LoadAlive
    <3> QED
      BY <1>14, <3>1 DEF LoadAlive, TypeOK
  <2>2. CASE ~alive[obj[t]]
    BY <1>14, <2>2 DEF LoadAlive, TypeOK
  <2> QED
    BY <2>1, <2>2
<1>15. ASSUME NEW t \in Threads, Revive(t) PROVE TypeOK'
  BY <1>15 DEF Revive, TypeOK
<1>16. ASSUME NEW t \in Threads, NEW p \in Providers, NEW r \in Tiers,
              SetProviderPriority(t, p, r)
       PROVE  TypeOK'
  BY <1>16 DEF SetProviderPriority, TypeOK, Registered
<1>17. ASSUME NEW t \in Threads, NEW o \in Objs, SetTier(t, o) PROVE TypeOK'
  BY <1>17 DEF SetTier, TypeOK
<1>18. ASSUME NEW t \in Threads, SetTierDone(t) PROVE TypeOK'
  BY <1>18 DEF SetTierDone, TypeOK
<1>19. ASSUME NEW t \in Threads, RebuildBegin(t) PROVE TypeOK'
  BY <1>19 DEF RebuildBegin, TypeOK, NoStats
<1>20. ASSUME NEW t \in Threads, NEW i \in IDs, RebuildScan(t, i) PROVE TypeOK'
  <2>1. proxies[i] \in Objs
    BY <1>20 DEF RebuildScan, TypeOK, ScanSeesOneRegistry
  <2> QED
    BY <1>20, <2>1 DEF RebuildScan, TypeOK
<1>21. ASSUME NEW t \in Threads, RebuildUnlock(t) PROVE TypeOK'
  BY <1>21 DEF RebuildUnlock, TypeOK
<1>22. ASSUME NEW t \in Threads, RebuildGroups(t) PROVE TypeOK'
  BY <1>22 DEF RebuildGroups, TypeOK
<1>23. ASSUME NEW t \in Threads, RebuildPanic(t) PROVE TypeOK'
  BY <1>23 DEF RebuildPanic, TypeOK
<1>24. ASSUME NEW t \in Threads, RebuildStore(t) PROVE TypeOK'
  BY <1>24 DEF RebuildStore, TypeOK, NoStats
<1> QED
  BY <1>1, <1>2, <1>3, <1>4, <1>5, <1>6, <1>7, <1>8, <1>9, <1>10, <1>11, <1>12,
     <1>13, <1>14, <1>15, <1>16, <1>17, <1>18, <1>19, <1>20, <1>21, <1>22, <1>23,
     <1>24 DEF Next, Call, Continue, Rebuild

\* No action disturbs a scan in progress: the registry's writers wait for the
\* read lock, everybody else leaves the registry and the scan's locals alone.
LEMMA ScanStep ==
    TypeOK /\ ScanSeesOneRegistry /\ [Next]_vars => ScanSeesOneRegistry'
<1> USE PoolAssumption
<1> SUFFICES ASSUME TypeOK, ScanSeesOneRegistry, [Next]_vars PROVE ScanSeesOneRegistry'
  OBVIOUS
<1> USE DEF Goto, Return, objVars, opVars, scanVars, history
\* Steps that change neither the registry nor a scan.
<1>1. ASSUME UNCHANGED <<proxies, todo, got, seen>>,
             \A u \in Threads : pc'[u] = "scan" => pc[u] = "scan"
      PROVE  ScanSeesOneRegistry'
  BY <1>1 DEF ScanSeesOneRegistry, Registered
\* Writers: nobody scans before or after.
<1>2. ASSUME NEW t \in Threads, WriteLockFree, pc' = [pc EXCEPT ![t] = "rebuild"]
      PROVE  ScanSeesOneRegistry'
  BY <1>2 DEF ScanSeesOneRegistry, WriteLockFree, TypeOK
<1>3. CASE UNCHANGED vars
  BY <1>1, <1>3 DEF vars
<1>4. ASSUME NEW t \in Threads, NEW o \in Objs, AddNew(t, o) PROVE ScanSeesOneRegistry'
  BY <1>2, <1>4 DEF AddNew
<1>5. ASSUME NEW t \in Threads, NEW i \in IDs, Remove(t, i) PROVE ScanSeesOneRegistry'
  BY <1>2, <1>5 DEF Remove
<1>6. ASSUME NEW t \in Threads, RemoveExpired(t) PROVE ScanSeesOneRegistry'
  BY <1>2, <1>6 DEF RemoveExpired
<1>7. ASSUME NEW t \in Threads, NEW o \in Objs, AddExisting(t, o) \/ SetTier(t, o)
      PROVE  ScanSeesOneRegistry'
  BY <1>1, <1>7 DEF AddExisting, SetTier
<1>8. ASSUME NEW t \in Threads, NEW i \in IDs, NEW c \in Countries, SetCountry(t, i, c)
      PROVE  ScanSeesOneRegistry'
  BY <1>2, <1>8 DEF SetCountry
<1>9. ASSUME NEW t \in Threads, NEW i \in IDs, MarkFailed(t, i) \/ MarkSuccess(t, i)
      PROVE  ScanSeesOneRegistry'
  BY <1>1, <1>9 DEF MarkFailed, MarkSuccess, TypeOK
<1>10. ASSUME NEW t \in Threads, CountFailure(t) PROVE ScanSeesOneRegistry'
  BY <1>1, <1>10 DEF CountFailure, TypeOK
<1>11. ASSUME NEW t \in Threads, CheckUsed(t) \/ LoadAlive(t) PROVE ScanSeesOneRegistry'
  BY <1>1, <1>11 DEF CheckUsed, LoadAlive, TypeOK
<1>12. ASSUME NEW t \in Threads, Kill(t) \/ Revive(t) \/ ResetFails(t) \/ StampUsed(t)
       PROVE  ScanSeesOneRegistry'
  BY <1>1, <1>12 DEF Kill, Revive, ResetFails, StampUsed, TypeOK
<1>13. ASSUME NEW t \in Threads, NEW p \in Providers, NEW r \in Tiers,
              SetProviderPriority(t, p, r)
       PROVE  ScanSeesOneRegistry'
  BY <1>1, <1>13 DEF SetProviderPriority, TypeOK
<1>14. ASSUME NEW t \in Threads, SetTierDone(t) PROVE ScanSeesOneRegistry'
  BY <1>1, <1>14 DEF SetTierDone, TypeOK
<1>15. ASSUME NEW t \in Threads, RebuildBegin(t) PROVE ScanSeesOneRegistry'
  BY <1>15 DEF RebuildBegin, ScanSeesOneRegistry, Registered, NoStats, TypeOK
<1>16. ASSUME NEW t \in Threads, NEW i \in IDs, RebuildScan(t, i) PROVE ScanSeesOneRegistry'
  <2>1. proxies[i] \in Objs /\ pc' = pc /\ proxies' = proxies
    BY <1>16 DEF RebuildScan, TypeOK, ScanSeesOneRegistry
  <2>2. ASSUME NEW u \in Threads, u # t
        PROVE  todo'[u] = todo[u] /\ got'[u] = got[u] /\ seen'[u] = seen[u]
    BY <1>16, <2>2 DEF RebuildScan, TypeOK
  <2>3. todo'[t] = todo[t] \ {i}
    BY <1>16 DEF RebuildScan, TypeOK
  <2>4. ASSUME NEW o \in Objs, o \in got'[t] \/ seen'[t][o] # None
        PROVE  o = proxies[i] \/ o \in got[t] \/ seen[t][o] # None
    BY <1>16, <2>1, <2>4 DEF RebuildScan, TypeOK
  <2>5. IdOf[proxies[i]] = i
    BY <2>1 DEF TypeOK
  <2> QED
    BY <1>16, <2>1, <2>2, <2>3, <2>4, <2>5 DEF RebuildScan, ScanSeesOneRegistry, Registered
<1>17. ASSUME NEW t \in Threads, RebuildUnlock(t) \/ RebuildPanic(t)
       PROVE  ScanSeesOneRegistry'
  BY <1>1, <1>17 DEF RebuildUnlock, RebuildPanic, TypeOK
<1>18. ASSUME NEW t \in Threads, RebuildGroups(t) PROVE ScanSeesOneRegistry'
  BY <1>1, <1>18 DEF RebuildGroups, TypeOK
<1>19. ASSUME NEW t \in Threads, RebuildStore(t) PROVE ScanSeesOneRegistry'
  BY <1>19 DEF RebuildStore, ScanSeesOneRegistry, Registered, TypeOK
<1> QED
  BY <1>3, <1>4, <1>5, <1>6, <1>7, <1>8, <1>9, <1>10, <1>11, <1>12, <1>13, <1>14,
     <1>15, <1>16, <1>17, <1>18, <1>19 DEF Next, Call, Continue, Rebuild

-----------------------------------------------------------------------------
(***************************************************************************)
(* For the snapshot only a few kinds of steps differ: those that change    *)
(* nothing a rebuild looks at, those after which a rebuild is about to     *)
(* begin, and the steps of a rebuild.                                      *)
(***************************************************************************)
Quiet ==
    /\ UNCHANGED <<proxies, alive, snap, todo, got, after, late, stale>>
    /\ \A u \in Threads : /\ (pc'[u] = "scan" <=> pc[u] = "scan")
                           /\ (u \in Rebuilding' <=> u \in Rebuilding)
                           /\ (Starting(u) <=> Starting(u)')

Trigger ==
    /\ UNCHANGED <<snap, todo, got, after, late, stale>>
    /\ \A u \in Threads : u \in Rebuilding' <=> u \in Rebuilding
    /\ \E t \in Threads : pc'[t] = "rebuild"

\* Every step is quiet, or is followed by a rebuild of its own, or is one of
\* the steps of a rebuild that matter: its begin, the visit of an ID, the
\* unlock, the Store, a panic.
LEMMA StepKinds ==
    ASSUME TypeOK, [Next]_vars
    PROVE  \/ Quiet \/ Trigger
           \/ \E t \in Threads :
                 \/ RebuildBegin(t) \/ RebuildUnlock(t) \/ RebuildPanic(t) \/ RebuildStore(t)
                 \/ \E i \in IDs : RebuildScan(t, i)
<1> USE DEF Goto, Return, objVars, opVars, scanVars, history, Rebuilding, Starting, TypeOK
<1>1. CASE UNCHANGED vars
  BY <1>1 DEF vars, Quiet
<1>2. ASSUME NEW t \in Threads, NEW o \in Objs, AddNew(t, o) PROVE Trigger
  BY <1>2 DEF AddNew, Trigger
<1>3. ASSUME NEW t \in Threads, NEW o \in Objs, AddExisting(t, o) \/ SetTier(t, o) PROVE Quiet
  BY <1>3 DEF AddExisting, SetTier, Quiet
<1>4. ASSUME NEW t \in Threads, NEW i \in IDs, Remove(t, i) PROVE Trigger
  BY <1>4 DEF Remove, Trigger
<1>5. ASSUME NEW t \in Threads, RemoveExpired(t) PROVE Trigger
  BY <1>5 DEF RemoveExpired, Trigger
<1>6. ASSUME NEW t \in Threads, NEW i \in IDs, NEW c \in Countries, SetCountry(t, i, c)
      PROVE  Trigger
  BY <1>6 DEF SetCountry, Trigger
<1>7. ASSUME NEW t \in Threads, NEW i \in IDs, MarkFailed(t, i) \/ MarkSuccess(t, i)
      PROVE  Quiet
  BY <1>7 DEF MarkFailed, MarkSuccess, Quiet
<1>8. ASSUME NEW t \in Threads, CountFailure(t) PROVE Quiet
  BY <1>8 DEF CountFailure, Quiet
<1>9. ASSUME NEW t \in Threads, CheckUsed(t) \/ LoadAlive(t) PROVE Quiet
  <2>1. PICK s \in {"idle", "kill", "revive"} : pc' = [pc EXCEPT ![t] = s]
    BY <1>9 DEF CheckUsed, LoadAlive
  <2> QED
    BY <1>9, <2>1 DEF CheckUsed, LoadAlive, Quiet
<1>10. ASSUME NEW t \in Threads, ResetFails(t) \/ StampUsed(t) PROVE Quiet
  BY <1>10 DEF ResetFails, StampUsed, Quiet
<1>11. ASSUME NEW t \in Threads, Kill(t) \/ Revive(t) PROVE Trigger
  BY <1>11 DEF Kill, Revive, Trigger
<1>12. ASSUME NEW t \in Threads, NEW p \in Providers, NEW r \in Tiers,
              SetProviderPriority(t, p, r)
       PROVE  Quiet
  BY <1>12 DEF SetProviderPriority, Quiet
<1>13. ASSUME NEW t \in Threads, SetTierDone(t) PROVE Trigger
  BY <1>13 DEF SetTierDone, Trigger
<1>14. ASSUME NEW t \in Threads, RebuildGroups(t) PROVE Quiet
  BY <1>14 DEF RebuildGroups, Quiet
<1> QED
  BY <1>1, <1>2, <1>3, <1>4, <1>5, <1>6, <1>7, <1>8, <1>9, <1>10, <1>11, <1>12,
     <1>13, <1>14 DEF Next, Call, Continue, Rebuild

\* A rebuild that begins is younger than all the others, and has none younger.
LEMMA OrderStep == TypeOK /\ AfterOrder /\ [Next]_vars => AfterOrder'
<1> SUFFICES ASSUME TypeOK, AfterOrder, [Next]_vars PROVE AfterOrder'
  OBVIOUS
<1> USE DEF Goto, objVars, opVars, scanVars, history
<1>1. ASSUME after' = after, \A u \in Threads : u \in Rebuilding' => u \in Rebuilding
      PROVE  AfterOrder'
  BY <1>1 DEF AfterOrder, Rebuilding
<1>2. CASE Quiet \/ Trigger
  BY <1>1, <1>2 DEF Quiet, Trigger
<1>3. ASSUME NEW t \in Threads, RebuildBegin(t) PROVE AfterOrder'
  <2>1. after'[t] = {} /\ \A u \in Rebuilding : after'[u] = after[u] \cup {t}
    BY <1>3 DEF RebuildBegin, Rebuilding
  <2>2. t \notin Rebuilding /\ \A u \in Rebuilding' : u = t \/ u \in Rebuilding
    BY <1>3 DEF RebuildBegin, Rebuilding, TypeOK
  <2> QED
    BY <2>1, <2>2 DEF AfterOrder
<1>4. ASSUME NEW t \in Threads, RebuildUnlock(t) \/ RebuildPanic(t) PROVE AfterOrder'
  BY <1>1, <1>4 DEF RebuildUnlock, RebuildPanic, Rebuilding, TypeOK
<1>5. ASSUME NEW t \in Threads, NEW i \in IDs, RebuildScan(t, i) PROVE AfterOrder'
  BY <1>1, <1>5 DEF RebuildScan, Rebuilding
<1>6. ASSUME NEW t \in Threads, RebuildStore(t) PROVE AfterOrder'
  <2>1. \A u \in Rebuilding' : u # t /\ u \in Rebuilding /\ after'[u] = after[u]
    BY <1>6 DEF RebuildStore, Rebuilding, TypeOK
  <2> QED
    BY <2>1 DEF AfterOrder
<1> QED
  BY StepKinds, <1>2, <1>3, <1>4, <1>5, <1>6

-----------------------------------------------------------------------------
\* Steps that change no rebuild's view, no snapshot and no truth, and lose no
\* corrector, keep everything corrected.
LEMMA SameViews ==
    ASSUME UNCHANGED <<snap, after, late, stale>>,
           \A u \in Threads : u \in Rebuilding' => u \in Rebuilding,
           \A o \in Objs : o \in Servable' <=> o \in Servable,
           \A t \in Rebuilding, o \in Objs : t \in Rebuilding' => (Right(t, o)' <=> Right(t, o)),
           \A t \in Threads : Starting(t) => Starting(t)',
           \A t \in Rebuilding : t \in Rebuilding' \/ Starting(t)',
           SnapshotCorrected, RebuildCorrected
    PROVE  SnapshotCorrected' /\ RebuildCorrected'
<1>1. \A t \in Threads, o \in Objs : Corrector(t, o) => Corrector(t, o)'
  BY DEF Corrector
<1>2. SnapshotCorrected'
  BY <1>1 DEF SnapshotCorrected
<1>3. RebuildCorrected'
  <2> SUFFICES ASSUME NEW u \in Rebuilding', ~late'[u], NEW o \in Objs, ~Right(u, o)'
               PROVE  \E t \in Threads : Corrector(t, o)' /\ (Starting(t)' \/ t \in after'[u])
    BY DEF RebuildCorrected
  <2>1. u \in Rebuilding /\ ~late[u] /\ ~Right(u, o)
    BY DEF Rebuilding
  <2>2. PICK t \in Threads : Corrector(t, o) /\ (Starting(t) \/ t \in after[u])
    BY <2>1 DEF RebuildCorrected
  <2> QED
    BY <1>1, <2>2
<1> QED
  BY <1>2, <1>3

\* A rebuild that begins will visit every registered ID.
LEMMA BeginIsRight ==
    ASSUME TypeOK, NEW t \in Threads, RebuildBegin(t), NEW o \in Objs
    PROVE  Right(t, o)'
BY PoolAssumption DEF RebuildBegin, Right, Goto, Servable, Registered, TypeOK, objVars

\* Visiting an ID records the truth about its objects.
LEMMA ScanKeepsViews ==
    ASSUME TypeOK, ScanSeesOneRegistry, NEW t \in Threads, NEW i \in IDs, RebuildScan(t, i),
           NEW u \in Threads, NEW o \in Objs
    PROVE  Right(u, o)' <=> Right(u, o)
<1> USE PoolAssumption
<1>1. pc' = pc /\ Servable' = Servable
  BY DEF RebuildScan, Servable, Registered, objVars
<1>2. CASE u # t
  <2>1. todo'[u] = todo[u] /\ got'[u] = got[u]
    BY <1>2 DEF RebuildScan, TypeOK
  <2> QED
    BY <1>1, <2>1 DEF Right
<1>3. CASE u = t /\ IdOf[o] # i
  <2>1. proxies[i] # o
    BY <1>3 DEF TypeOK, RebuildScan, ScanSeesOneRegistry
  <2>2. (IdOf[o] \in todo'[t] <=> IdOf[o] \in todo[t]) /\ (o \in got'[t] <=> o \in got[t])
    BY <1>3, <2>1 DEF RebuildScan, TypeOK
  <2> QED
    BY <1>1, <1>3, <2>2 DEF Right
<1>4. CASE u = t /\ IdOf[o] = i
  <2>1. pc[t] = "scan" /\ IdOf[o] \in todo[t]
    BY <1>4 DEF RebuildScan
  <2>2. o \notin got[t]
    BY <2>1 DEF ScanSeesOneRegistry
  <2>3. o \in got'[t] <=> (o = proxies[i] /\ alive[o])
    <3>1. CASE alive[proxies[i]]
      BY <1>4, <2>2, <3>1 DEF RebuildScan, TypeOK
    <3>2. CASE ~alive[proxies[i]]
      BY <1>4, <2>2, <3>2 DEF RebuildScan, TypeOK
    <3> QED
      BY <3>1, <3>2
  <2>4. o \in Servable <=> (o = proxies[i] /\ alive[o])
    BY <1>4 DEF Servable, Registered
  <2> QED
    BY <1>1, <1>4, <2>1, <2>3, <2>4 DEF Right
<1> QED
  BY <1>2, <1>3, <1>4

\* The last step: a rebuild that was right corrects the snapshot, one that was
\* wrong but not overtaken leaves it to the younger rebuild that is right.
LEMMA StoreCorrects ==
    ASSUME TypeOK, AfterOrder, SnapshotCorrected, RebuildCorrected,
           NEW t \in Threads, RebuildStore(t)
    PROVE  SnapshotCorrected' /\ RebuildCorrected'
<1> USE DEF objVars
<1>1. t \in Rebuilding /\ pc[t] = "store" /\ snap'.members = got[t]
  BY DEF RebuildStore, Rebuilding
<1>2. Servable' = Servable
  BY DEF RebuildStore, Servable, Registered
<1>3. \A u \in Threads : u # t => /\ (u \in Rebuilding' <=> u \in Rebuilding)
                                 /\ pc'[u] = pc[u] /\ todo'[u] = todo[u]
                                 /\ got'[u] = got[u] /\ after'[u] = after[u]
  BY DEF RebuildStore, Goto, Rebuilding, TypeOK
<1>4. t \notin Rebuilding' /\ ~Starting(t)
  BY DEF RebuildStore, Goto, Rebuilding, TypeOK, Starting
<1>5. \A u \in Threads : late'[u] <=> (u # t /\ (late[u] \/ t \in after[u]))
  BY DEF RebuildStore
<1>6. \A u \in Threads, o \in Objs : u # t => (Right(u, o)' <=> Right(u, o))
  BY <1>2, <1>3 DEF Right
<1>7. \A u \in Threads : u # t => (Starting(u)' <=> Starting(u))
  BY <1>3 DEF Starting
<1>8. SnapshotCorrected'
  <2> SUFFICES ASSUME ~stale', NEW o \in Objs, ~(o \in snap'.members <=> o \in Servable')
               PROVE  \E u \in Threads : Corrector(u, o)'
    BY DEF SnapshotCorrected
  <2>1. ~late[t]
    BY DEF RebuildStore
  <2>2. ~Right(t, o)
    BY <1>1, <1>2 DEF Right
  <2>3. PICK u \in Threads : Corrector(u, o) /\ (Starting(u) \/ u \in after[t])
    BY <1>1, <2>1, <2>2 DEF RebuildCorrected
  <2>4. u # t
    BY <1>1, <1>4, <2>2, <2>3 DEF Corrector
  <2>5. CASE Starting(u)
    BY <1>7, <2>4, <2>5 DEF Corrector
  <2>6. CASE ~Starting(u)
    <3>1. u \in Rebuilding /\ ~late[u] /\ Right(u, o) /\ u \in after[t]
      BY <2>3, <2>6 DEF Corrector
    <3>2. t \notin after[u]
      BY <1>1, <3>1 DEF AfterOrder
    <3> QED
      BY <1>3, <1>5, <1>6, <2>4, <3>1, <3>2 DEF Corrector
  <2> QED
    BY <2>5, <2>6
<1>9. RebuildCorrected'
  <2> SUFFICES ASSUME NEW u \in Rebuilding', ~late'[u], NEW o \in Objs, ~Right(u, o)'
               PROVE  \E v \in Threads : Corrector(v, o)' /\ (Starting(v)' \/ v \in after'[u])
    BY DEF RebuildCorrected
  <2>1. u \in Threads /\ u # t /\ u \in Rebuilding
    BY <1>3, <1>4 DEF Rebuilding
  <2>2. ~late[u] /\ t \notin after[u] /\ ~Right(u, o)
    BY <1>5, <1>6, <2>1
  <2>3. PICK v \in Threads : Corrector(v, o) /\ (Starting(v) \/ v \in after[u])
    BY <2>1, <2>2 DEF RebuildCorrected
  <2>4. v # t
    BY <1>4, <2>2, <2>3
  <2>5. CASE Starting(v)
    BY <1>7, <2>4, <2>5 DEF Corrector
  <2>6. CASE ~Starting(v)
    <3>1. v \in Rebuilding /\ ~late[v] /\ Right(v, o) /\ v \in after[u]
      BY <2>3, <2>6 DEF Corrector
    <3>2. t \notin after[v]
      BY <1>1, <2>1, <2>2, <3>1 DEF AfterOrder
    <3> QED
      BY <1>3, <1>5, <1>6, <2>1, <2>4, <3>1, <3>2 DEF Corrector
  <2> QED
    BY <2>5, <2>6
<1> QED
  BY <1>8, <1>9

\* Wrong snapshots and wrong scans keep having somebody who will correct them.
LEMMA CorrectedStep ==
    TypeOK /\ ScanSeesOneRegistry /\ AfterOrder /\ SnapshotCorrected /\ RebuildCorrected
      /\ [Next]_vars => SnapshotCorrected' /\ RebuildCorrected'
<1> SUFFICES ASSUME TypeOK, ScanSeesOneRegistry, AfterOrder, SnapshotCorrected,
                    RebuildCorrected, [Next]_vars
             PROVE  SnapshotCorrected' /\ RebuildCorrected'
  OBVIOUS
<1> USE DEF objVars, opVars, scanVars, history
<1>1. CASE Quiet
  <2>1. Servable' = Servable
    BY <1>1 DEF Quiet, Servable, Registered
  <2>2. \A u \in Threads, o \in Objs : Right(u, o)' <=> Right(u, o)
    BY <1>1, <2>1 DEF Quiet, Right
  <2> QED
    BY <1>1, <2>1, <2>2, SameViews DEF Quiet, Rebuilding
<1>2. CASE Trigger
  BY <1>2 DEF Trigger, SnapshotCorrected, RebuildCorrected, Corrector, Starting
<1>3. ASSUME NEW t \in Threads, RebuildBegin(t)
      PROVE  SnapshotCorrected' /\ RebuildCorrected'
  <2>1. t \in Rebuilding' /\ ~late'[t]
    BY <1>3 DEF RebuildBegin, Goto, Rebuilding, TypeOK
  <2>2. \A o \in Objs : Right(t, o)'
    BY <1>3, BeginIsRight
  <2>3. \A o \in Objs : Corrector(t, o)'
    BY <2>1, <2>2 DEF Corrector
  <2>4. \A u \in Rebuilding' : u # t => t \in after'[u]
    BY <1>3 DEF RebuildBegin, Goto, Rebuilding, TypeOK
  <2> QED
    BY <2>2, <2>3, <2>4 DEF SnapshotCorrected, RebuildCorrected
<1>4. ASSUME NEW t \in Threads, NEW i \in IDs, RebuildScan(t, i)
      PROVE  SnapshotCorrected' /\ RebuildCorrected'
  <2>1. pc' = pc /\ Servable' = Servable /\ UNCHANGED <<snap, after, late, stale>>
    BY <1>4 DEF RebuildScan, Servable, Registered
  <2>2. \A u \in Threads, o \in Objs : Right(u, o)' <=> Right(u, o)
    BY <1>4, ScanKeepsViews
  <2> QED
    BY <2>1, <2>2, SameViews DEF Rebuilding, Starting
<1>5. ASSUME NEW t \in Threads, RebuildUnlock(t) \/ RebuildPanic(t)
      PROVE  SnapshotCorrected' /\ RebuildCorrected'
  <2>1. Servable' = Servable /\ UNCHANGED <<snap, after, late, stale, todo, got>>
    BY <1>5 DEF RebuildUnlock, RebuildPanic, Servable, Registered
  <2>2. \A u \in Threads : u # t => pc'[u] = pc[u]
    BY <1>5 DEF RebuildUnlock, RebuildPanic, Goto, TypeOK
  <2>3. \/ pc[t] = "scan" /\ todo[t] = {} /\ pc'[t] = "build"
        \/ pc[t] = "build" /\ pc'[t] = "panic"
    BY <1>5 DEF RebuildUnlock, RebuildPanic, Goto, TypeOK
  <2>4. \A u \in Threads, o \in Objs : Right(u, o)' <=> Right(u, o)
    BY <2>1, <2>2, <2>3 DEF Right
  <2>5. \A u \in Threads : /\ (u \in Rebuilding' => u \in Rebuilding)
                           /\ (Starting(u) => Starting(u)')
                           /\ (u \in Rebuilding => u \in Rebuilding' \/ Starting(u)')
    BY <2>2, <2>3 DEF Rebuilding, Starting
  <2> QED
    BY <2>1, <2>4, <2>5, SameViews DEF Rebuilding
<1>6. ASSUME NEW t \in Threads, RebuildStore(t)
      PROVE  SnapshotCorrected' /\ RebuildCorrected'
  BY <1>6, StoreCorrects
<1> QED
  BY StepKinds, <1>1, <1>2, <1>3, <1>4, <1>5, <1>6

\* Nothing is registered, nothing is listed, nobody rebuilds.
LEMMA InvInit == Init => Inv
<1> SUFFICES ASSUME Init PROVE Inv
  OBVIOUS
<1>1. TypeOK
  BY TypeInit
<1>2. ScanSeesOneRegistry /\ AfterOrder /\ RebuildCorrected
  BY DEF Init, ScanSeesOneRegistry, AfterOrder, RebuildCorrected, Rebuilding
<1>3. Servable = {}
  BY PoolAssumption DEF Init, Servable, Registered
<1>4. SnapshotCorrected
  BY <1>3 DEF Init, SnapshotCorrected
<1> QED
  BY <1>1, <1>2, <1>4 DEF Inv

\* The inductive invariant holds throughout.
LEMMA Invariance == Spec => []Inv
<1>1. Inv /\ [Next]_vars => Inv'
  BY TypeStep, ScanStep, OrderStep, CorrectedStep DEF Inv
<1> QED
  BY InvInit, <1>1, PTL DEF Spec

\* At rest nobody is left to put anything right, so everything is.
LEMMA InvExact == Inv => ExactUnlessOvertaken
<1> SUFFICES ASSUME Inv, AtRest, ~stale PROVE snap.members = Servable
  BY DEF ExactUnlessOvertaken
<1>1. \A t \in Threads, o \in Objs : ~Corrector(t, o)
  BY DEF AtRest, Corrector, Starting, Rebuilding
<1>2. \A o \in Objs : o \in snap.members <=> o \in Servable
  BY <1>1 DEF Inv, SnapshotCorrected
<1> QED
  BY <1>2 DEF Inv, TypeOK, Servable, Registered

\* Type correctness of the pool for every set of proxies and goroutines; in
\* particular no report in progress ever holds a nil proxy.
THEOREM PoolTypeCorrect == Spec => []TypeOK
BY Invariance, PTL DEF Inv

\* A scan of Rebuild always works on one registry: Add, Remove, RemoveExpired
\* and SetCountry cannot change it before RUnlock (pool.go:241-258).
THEOREM ScansAreConsistent == Spec => []ScanSeesOneRegistry
BY Invariance, PTL DEF Inv

\* With any number of goroutines, a snapshot at rest can only be wrong if its
\* Store was overtaken by a younger rebuild's (pool.go:267): each operation
\* rebuilds after its last change, and that is enough except for the order of
\* the Stores.
THEOREM SnapshotExactUnlessOvertaken == Spec => []ExactUnlessOvertaken
BY Invariance, InvExact, PTL

-----------------------------------------------------------------------------
(***************************************************************************)
(* The health checker uses the pool by its operations only, so what holds  *)
(* of the pool holds under it.                                             *)
(***************************************************************************)
\* A goroutine of the checker that is at work has a proxy.
TargetsOK ==
    /\ stage = [t \in Threads |-> stage[t]] /\ target = [t \in Threads |-> target[t]]
    /\ \A t \in Threads : stage[t] # "free" => target[t] \in Objs

HealthCall(t) ==
    \E i \in IDs : \/ Remove(t, i) \/ MarkFailed(t, i) \/ MarkSuccess(t, i)
                   \/ \E c \in Countries : SetCountry(t, i, c)

\* checkOne calls the pool for the proxy it was started with.
LEMMA CheckOneCalls ==
    ASSUME TargetsOK, NEW t \in Threads, CheckOne(t)
    PROVE  UNCHANGED vars \/ HealthCall(t)
<1> USE DEF poolVars
<1>1. stage[t] # "free" => IdOf[target[t]] \in IDs
  BY PoolAssumption DEF TargetsOK
<1>2. PICK i : i = IdOf[target[t]]
  OBVIOUS
<1>3. CASE Probe(t) \/ SkipLocate(t) \/ FastEnough(t) \/ Release(t)
  BY <1>3 DEF Probe, SkipLocate, FastEnough, Release
<1>4. CASE Locate(t)
  BY <1>1, <1>2, <1>4 DEF Locate, HealthCall
<1>5. CASE Succeed(t)
  BY <1>1, <1>2, <1>5 DEF Succeed, HealthCall
<1>6. CASE RemoveSlow(t)
  BY <1>1, <1>2, <1>6 DEF RemoveSlow, HealthCall
<1>7. CASE Fail(t)
  BY <1>1, <1>2, <1>7 DEF Fail, HealthCall
<1> QED
  BY <1>3, <1>4, <1>5, <1>6, <1>7 DEF CheckOne

\* What a step of the checker is to the pool.
LEMMA CheckerCalls ==
    ASSUME TargetsOK, [HNext]_hvars
    PROVE  UNCHANGED vars \/ \E t \in Threads : HealthCall(t) \/ Continue(t)
<1> USE DEF poolVars
<1>1. CASE UNCHANGED hvars
  BY <1>1 DEF hvars
<1>2. ASSUME NEW i \in IDs, Flip(i) \/ Elapse(i) PROVE UNCHANGED vars
  BY <1>2 DEF Flip, Elapse
<1>3. CASE CheckDue
  BY <1>3 DEF CheckDue
<1>4. ASSUME NEW p \in Passes, CheckAll(p) \/ PassDone(p) PROVE UNCHANGED vars
  BY <1>4 DEF CheckAll, PassDone
<1>5. ASSUME NEW t \in Threads, CheckOne(t) PROVE UNCHANGED vars \/ HealthCall(t)
  BY <1>5, CheckOneCalls
<1>6. ASSUME NEW t \in Threads, InPool(t) PROVE Continue(t)
  BY <1>6 DEF InPool
<1>7. ASSUME NEW t \in Threads, NEW o \in Objs, Spawn(t, o) PROVE UNCHANGED vars
  BY <1>7 DEF Spawn
<1> QED
  BY <1>1, <1>2, <1>3, <1>4, <1>5, <1>6, <1>7 DEF HNext

\* Every step of the checker is one of the pool.
LEMMA CheckerIsPoolStep == TargetsOK /\ [HNext]_hvars => [Next]_vars
<1> SUFFICES ASSUME TargetsOK, [HNext]_hvars PROVE [Next]_vars
  OBVIOUS
<1>1. ASSUME NEW t \in Threads, HealthCall(t) PROVE Call(t)
  BY <1>1 DEF HealthCall, Call
<1> QED
  BY <1>1, CheckerCalls DEF Next

\* A goroutine is started with a proxy and keeps it until it is done.
LEMMA TargetsStep == TargetsOK /\ [HNext]_hvars => TargetsOK'
<1> SUFFICES ASSUME TargetsOK, [HNext]_hvars PROVE TargetsOK'
  OBVIOUS
<1> USE DEF slotVars
<1>1. ASSUME stage' = stage, target' = target PROVE TargetsOK'
  BY <1>1 DEF TargetsOK
<1>2. ASSUME NEW t \in Threads, NEW s, stage' = [stage EXCEPT ![t] = s], target' = target,
             stage[t] # "free"
      PROVE  TargetsOK'
  BY <1>2 DEF TargetsOK
<1>3. CASE UNCHANGED hvars
  BY <1>1, <1>3 DEF hvars
<1>4. ASSUME NEW i \in IDs, Flip(i) \/ Elapse(i) PROVE TargetsOK'
  BY <1>1, <1>4 DEF Flip, Elapse
<1>5. CASE CheckDue
  BY <1>1, <1>5 DEF CheckDue
<1>6. ASSUME NEW p \in Passes, CheckAll(p) \/ PassDone(p) PROVE TargetsOK'
  BY <1>1, <1>6 DEF CheckAll, PassDone
<1>7. ASSUME NEW t \in Threads, CheckOne(t) PROVE TargetsOK'
  <2>1. CASE Release(t)
    BY <2>1 DEF Release, TargetsOK
  <2>2. CASE ~Release(t)
    <3>1. stage[t] # "free"
      BY <1>7, <2>2
      DEF CheckOne, Probe, Locate, SkipLocate, Succeed, RemoveSlow, FastEnough, Fail
    <3>2. \E s : stage' = [stage EXCEPT ![t] = s] /\ target' = target
      BY <1>7, <2>2
      DEF CheckOne, Probe, Locate, SkipLocate, Succeed, RemoveSlow, FastEnough, Fail, Enter
    <3> QED
      BY <1>2, <3>1, <3>2
  <2> QED
    BY <2>1, <2>2
<1>8. ASSUME NEW t \in Threads, InPool(t) PROVE TargetsOK'
  BY <1>1, <1>8 DEF InPool
<1>9. ASSUME NEW t \in Threads, NEW o \in Objs, Spawn(t, o) PROVE TargetsOK'
  BY <1>9 DEF Spawn, TargetsOK
<1> QED
  BY <1>3, <1>4, <1>5, <1>6, <1>7, <1>8, <1>9 DEF HNext

\* LoadInitial registers one object per ID.
LEMMA LoadedRegistered ==
    ASSUME HInit
    PROVE  /\ proxies \in [IDs -> Objs \cup {None}] /\ Registered \subseteq Loaded
           /\ \A i \in IDs : proxies[i] # None => IdOf[proxies[i]] = i
<1>1. proxies = [i \in IDs |-> IF \E o \in Loaded : IdOf[o] = i
                               THEN CHOOSE o \in Loaded : IdOf[o] = i ELSE None]
  BY DEF HInit
<1>2. ASSUME NEW i \in IDs PROVE proxies[i] = None \/ (proxies[i] \in Loaded /\ IdOf[proxies[i]] = i)
  <2>1. CASE \E o \in Loaded : IdOf[o] = i
    <3>1. PICK x : x = CHOOSE o \in Loaded : IdOf[o] = i
      OBVIOUS
    <3>2. x \in Loaded /\ IdOf[x] = i
      BY <2>1, <3>1
    <3> QED
      BY <1>1, <2>1, <3>1, <3>2
  <2>2. CASE ~\E o \in Loaded : IdOf[o] = i
    BY <1>1, <2>2
  <2> QED
    BY <2>1, <2>2
<1>3. Loaded \subseteq Objs /\ IdOf \in [Objs -> IDs] /\ None \notin Objs
  BY HealthAssumption, PoolAssumption
<1>4. proxies \in [IDs -> Objs \cup {None}]
  BY <1>1, <1>2, <1>3
<1>5. Registered \subseteq Loaded
  BY <1>2, <1>3 DEF Registered
<1> QED
  BY <1>2, <1>4, <1>5

\* The pool the checker starts with satisfies the pool's invariant.
LEMMA LoadedInv == HInit => Inv /\ TargetsOK
<1> SUFFICES ASSUME HInit PROVE Inv /\ TargetsOK
  OBVIOUS
<1>1. TypeOK
  <2>1. tier \in [Objs -> Tiers]
    BY PoolAssumption DEF HInit
  <2>2. fails \in [Objs -> 0..FailLimit]
    BY DEF HInit, FailLimit
  <2>3. seen \in [Threads -> [Objs -> Tiers \cup {None}]]
    BY DEF HInit, NoStats
  <2>4. pc \in [Threads -> Steps] /\ \A t \in Threads : pc[t] \notin HoldsObj /\ pc[t] # "setTier"
    BY DEF HInit, Steps, HoldsObj
  <2>5. snap.members \subseteq Objs
    BY DEF HInit, Registered
  <2>6. /\ proxies \in [IDs -> Objs \cup {None}]
        /\ \A i \in IDs : proxies[i] # None => IdOf[proxies[i]] = i
    BY LoadedRegistered
  <2>7. fresh \subseteq Objs
    BY DEF HInit
  <2> QED
    BY <2>1, <2>2, <2>3, <2>4, <2>5, <2>6, <2>7, Zenon DEF HInit, TypeOK
<1>2. ScanSeesOneRegistry /\ AfterOrder /\ RebuildCorrected
  BY DEF HInit, ScanSeesOneRegistry, AfterOrder, RebuildCorrected, Rebuilding
<1>3. Servable = Registered /\ snap.members = Registered
  BY DEF HInit, Servable, Registered
<1>4. SnapshotCorrected
  BY <1>3 DEF SnapshotCorrected
<1>5. TargetsOK
  BY DEF HInit, TargetsOK
<1> QED
  BY <1>1, <1>2, <1>4, <1>5 DEF Inv

\* The pool's invariant holds under the checker.
LEMMA CheckerInvariance == HSpec => [](Inv /\ TargetsOK)
<1>1. Inv /\ TargetsOK /\ [HNext]_hvars => Inv' /\ TargetsOK'
  BY TypeStep, ScanStep, OrderStep, CorrectedStep, TargetsStep, CheckerIsPoolStep DEF Inv
<1> QED
  BY LoadedInv, <1>1, PTL DEF HSpec

-----------------------------------------------------------------------------
(***************************************************************************)
(* One goroutine at a time.  Then a rebuild sees what it builds from as it *)
(* is when it stores, and the tiers do not change under the checker.       *)
(***************************************************************************)
Alone == \A t, u \in Threads : t = u

\* The tallies and the groups a rebuild of now would make.
Stats == [o \in Objs |-> IF o \in Registered THEN tier[o] ELSE None]
ExactGroups == PrioGroups(Servable, Stats)

\* Where the goroutine has nothing to rebuild for.
Plain == {"idle", "count", "checkUsed", "kill", "reset", "stamp", "loadAlive", "revive"}

ScanExact(t) ==
    \A o \in Objs :
        /\ IdOf[o] \in todo[t] => o \notin got[t] /\ seen[t][o] = None
        /\ IdOf[o] \notin todo[t] => (o \in got[t] <=> o \in Servable) /\ seen[t][o] = Stats[o]

Exact(t) ==
    /\ pc[t] # "setTier"
    /\ pc[t] = "scan" => ScanExact(t)
    /\ pc[t] = "build" => got[t] = Servable /\ seen[t] = Stats
    /\ pc[t] = "store" => got[t] = Servable /\ groups[t] = ExactGroups

SnapExact == snap.members = Servable /\ snap.prio = ExactGroups

Serial ==
    /\ Registered \subseteq Loaded /\ groups = [t \in Threads |-> groups[t]]
    /\ \A t \in Threads : Exact(t)
    /\ (\A t \in Threads : pc[t] \in Plain) => SnapExact

\* What rebuilds look at is as it was.
LEMMA SameWorld ==
    ASSUME UNCHANGED <<proxies, alive, tier>>
    PROVE  /\ Registered' = Registered /\ Servable' = Servable /\ Stats' = Stats
           /\ ExactGroups' = ExactGroups
<1>1. Registered' = Registered
  BY DEF Registered
<1>2. Servable' = Servable
  BY <1>1 DEF Servable
<1>3. Stats' = Stats
  BY <1>1 DEF Stats
<1> QED
  BY <1>1, <1>2, <1>3 DEF ExactGroups, PrioGroups

\* A step before anything has changed, or of a goroutine that has a rebuild
\* to make.
LEMMA PlainStep ==
    ASSUME Alone, TypeOK, Serial, NEW t \in Threads, UNCHANGED <<proxies, alive, tier, snap, groups>>,
           pc[t] \in Plain, pc'[t] \in Plain
    PROVE  Serial'
<1>1. \A u \in Threads : u = t
  BY DEF Alone
<1>2. SnapExact
  BY <1>1 DEF Serial
<1>3. SnapExact'
  BY <1>2, SameWorld DEF SnapExact
<1>4. Exact(t)'
  BY DEF Exact, Plain
<1> QED
  BY <1>1, <1>3, <1>4, SameWorld DEF Serial

\* A change, after which a rebuild is due.
LEMMA ChangeStep ==
    ASSUME Alone, Serial, groups' = groups, Registered' \subseteq Loaded,
           NEW t \in Threads, pc'[t] \in {"rebuild", "panic"}
    PROVE  Serial'
<1>1. \A u \in Threads : u = t
  BY DEF Alone
<1>2. Exact(t)' /\ pc'[t] \notin Plain
  BY DEF Exact, Plain
<1> QED
  BY <1>1, <1>2 DEF Serial

\* The steps of a rebuild.
LEMMA RebuildStep ==
    ASSUME Alone, TypeOK, ScanSeesOneRegistry, Serial, NEW t \in Threads, Rebuild(t)
    PROVE  Serial'
<1> USE DEF Goto, objVars, opVars, scanVars, history
<1>1. \A u \in Threads : u = t
  BY DEF Alone
<1>2. UNCHANGED <<proxies, alive, tier>> /\ Exact(t) /\ Registered \subseteq Loaded
  BY DEF Rebuild, RebuildBegin, RebuildScan, RebuildUnlock, RebuildGroups, RebuildPanic,
     RebuildStore, Serial
<1>3. /\ Registered' = Registered /\ Servable' = Servable /\ Stats' = Stats
      /\ ExactGroups' = ExactGroups
  BY <1>2, SameWorld
<1>4. groups' = [u \in Threads |-> groups'[u]]
  BY DEF Rebuild, RebuildBegin, RebuildScan, RebuildUnlock, RebuildGroups, RebuildPanic,
     RebuildStore, Serial
<1>5. ASSUME Exact(t)', pc'[t] \notin Plain PROVE Serial'
  BY <1>1, <1>2, <1>3, <1>4, <1>5 DEF Serial
<1>6. CASE RebuildBegin(t)
  <2>1. pc'[t] = "scan" /\ todo'[t] = {i \in IDs : proxies[i] # None} /\ got'[t] = {}
    BY <1>6 DEF RebuildBegin, TypeOK
  <2>2. seen'[t] = NoStats
    BY <1>6 DEF RebuildBegin, TypeOK
  <2>3. ASSUME NEW o \in Objs
        PROVE  /\ IdOf[o] \in todo'[t] => o \notin got'[t] /\ seen'[t][o] = None
               /\ IdOf[o] \notin todo'[t] => (o \in got'[t] <=> o \in Servable)
                                             /\ seen'[t][o] = Stats[o]
    <3>1. IdOf[o] \in IDs /\ o # None
      BY PoolAssumption
    <3>2. seen'[t][o] = None
      BY <2>2 DEF NoStats
    <3>3. IdOf[o] \notin todo'[t] => o \notin Registered
      BY <2>1, <3>1 DEF Registered
    <3> QED
      BY <2>1, <3>2, <3>3 DEF Servable, Stats
  <2>4. ScanExact(t)'
    BY <1>3, <2>3 DEF ScanExact
  <2> QED
    BY <1>5, <2>1, <2>4 DEF Exact, Plain
<1>7. ASSUME NEW i \in IDs, RebuildScan(t, i) PROVE Serial'
  <2>1. pc[t] = "scan" /\ pc' = pc /\ i \in todo[t] /\ ScanExact(t)
    BY <1>2, <1>7 DEF RebuildScan, Exact
  <2>2. PICK x \in Objs : x = proxies[i] /\ IdOf[x] = i /\ x \in Registered
    BY <2>1 DEF TypeOK, ScanSeesOneRegistry, Registered
  <2>3. /\ todo'[t] = todo[t] \ {i}
        /\ got'[t] = IF alive[x] THEN got[t] \cup {x} ELSE got[t]
    BY <1>7, <2>2 DEF RebuildScan, TypeOK
  <2>4. seen'[t] = [seen[t] EXCEPT ![x] = tier[x]]
    BY <1>7, <2>2 DEF RebuildScan, TypeOK
  <2>5. seen'[t][x] = tier[x] /\ \A o \in Objs \ {x} : seen'[t][o] = seen[t][o]
    BY <2>4 DEF TypeOK
  <2>6. x \in Servable <=> alive[x]
    BY <2>2 DEF Servable
  <2>7. ASSUME NEW o \in Objs
        PROVE  /\ IdOf[o] \in todo'[t] => o \notin got'[t] /\ seen'[t][o] = None
               /\ IdOf[o] \notin todo'[t] => (o \in got'[t] <=> o \in Servable)
                                             /\ seen'[t][o] = Stats[o]
    <3>1. CASE o = x
      BY <2>1, <2>2, <2>3, <2>5, <2>6, <3>1 DEF ScanExact, Stats
    <3>2. CASE o # x /\ IdOf[o] = i
      <4>1. o \notin Registered
        BY <2>2, <3>2 DEF Registered
      <4>2. o \notin got[t] /\ seen[t][o] = None
        BY <2>1, <3>2 DEF ScanExact
      <4> QED
        BY <2>3, <2>5, <3>2, <4>1, <4>2 DEF Servable, Stats
    <3>3. CASE o # x /\ IdOf[o] # i
      BY <2>1, <2>3, <2>5, <3>3 DEF ScanExact
    <3> QED
      BY <3>1, <3>2, <3>3
  <2>8. ScanExact(t)'
    BY <1>3, <2>7 DEF ScanExact
  <2> QED
    BY <1>5, <2>1, <2>8 DEF Exact, Plain
<1>8. CASE RebuildUnlock(t)
  <2>1. pc'[t] = "build" /\ got' = got /\ seen' = seen /\ todo[t] = {} /\ ScanExact(t)
    BY <1>2, <1>8 DEF RebuildUnlock, Exact, TypeOK
  <2>2. got[t] = Servable
    BY <2>1 DEF ScanExact, TypeOK, Servable, Registered
  <2>3. seen[t] = Stats
    <3>1. seen[t] = [o \in Objs |-> seen[t][o]]
      BY DEF TypeOK
    <3>2. \A o \in Objs : seen[t][o] = Stats[o]
      BY <2>1 DEF ScanExact
    <3> QED
      BY <3>1, <3>2 DEF Stats
  <2> QED
    BY <1>3, <1>5, <2>1, <2>2, <2>3 DEF Exact, Plain
<1>9. CASE RebuildGroups(t)
  <2>1. got[t] = Servable /\ seen[t] = Stats
    BY <1>2, <1>9 DEF RebuildGroups, Exact
  <2>2. pc'[t] = "store" /\ got' = got /\ groups' = [groups EXCEPT ![t] = ExactGroups]
    BY <1>9, <2>1 DEF RebuildGroups, TypeOK, ExactGroups
  <2>3. groups'[t] = ExactGroups
    BY <2>2 DEF Serial
  <2> QED
    BY <1>3, <1>5, <2>1, <2>2, <2>3 DEF Exact, Plain
<1>10. CASE RebuildPanic(t)
  BY <1>2, <1>3, <1>10, ChangeStep DEF RebuildPanic, TypeOK
<1>11. CASE RebuildStore(t)
  <2>1. /\ pc'[t] = "idle" /\ got[t] = Servable /\ groups[t] = ExactGroups
        /\ snap' = [members |-> got[t], prio |-> groups[t]]
    BY <1>2, <1>11 DEF RebuildStore, TypeOK, Exact
  <2>2. SnapExact'
    BY <1>3, <2>1 DEF SnapExact
  <2>3. Exact(t)'
    BY <2>1 DEF Exact
  <2> QED
    BY <1>1, <1>2, <1>3, <1>4, <2>2, <2>3 DEF Serial
<1> QED
  BY <1>6, <1>7, <1>8, <1>9, <1>10, <1>11 DEF Rebuild

\* LoadInitial has listed what it registered.
LEMMA SerialInit == HInit => Serial
<1> SUFFICES ASSUME HInit PROVE Serial
  OBVIOUS
<1>1. Registered \subseteq Loaded
  BY LoadedRegistered
<1>2. Servable = Registered
  BY DEF HInit, Servable, Registered
<1>3. Stats = [o \in Objs |-> IF o \in Registered THEN TierOf[o] ELSE None]
  BY DEF HInit, Stats
<1>4. snap = [members |-> Registered,
              prio |-> PrioGroups(Registered, [o \in Objs |->
                           IF o \in Registered THEN TierOf[o] ELSE None])]
  BY DEF HInit
<1>5. SnapExact
  BY <1>2, <1>3, <1>4 DEF SnapExact, ExactGroups
<1>6. \A t \in Threads : pc[t] = "idle"
  BY DEF HInit
<1>7. groups = [t \in Threads |-> groups[t]]
  BY DEF HInit
<1> QED
  BY <1>1, <1>5, <1>6, <1>7 DEF Serial, Exact

\* A step of a checker that probes one proxy at a time.
LEMMA SerialStep ==
    Alone /\ TargetsOK /\ TypeOK /\ ScanSeesOneRegistry /\ Serial /\ [HNext]_hvars => Serial'
<1> SUFFICES ASSUME Alone, TargetsOK, TypeOK, ScanSeesOneRegistry, Serial, [HNext]_hvars
             PROVE  Serial'
  OBVIOUS
<1> USE DEF Goto, Return, objVars, opVars, scanVars, history
<1>1. CASE UNCHANGED vars
  <2>1. UNCHANGED <<proxies, alive, tier, snap, pc, todo, got, seen, groups>>
    BY <1>1 DEF vars
  <2>2. /\ Registered' = Registered /\ Servable' = Servable /\ Stats' = Stats
        /\ ExactGroups' = ExactGroups
    BY <2>1, SameWorld
  <2> QED
    BY <2>1, <2>2 DEF Serial, Exact, ScanExact, SnapExact
<1>2. ASSUME NEW t \in Threads, NEW i \in IDs, Remove(t, i) PROVE Serial'
  <2>1. Registered' \subseteq Registered
    BY <1>2, PoolAssumption DEF Remove, Registered, TypeOK
  <2>2. pc'[t] = "rebuild" /\ groups' = groups
    BY <1>2 DEF Remove, TypeOK
  <2> QED
    BY <2>1, <2>2, ChangeStep DEF Serial
<1>3. ASSUME NEW t \in Threads, NEW i \in IDs, NEW c \in Countries, SetCountry(t, i, c)
      PROVE  Serial'
  <2>1. Registered' = Registered
    BY <1>3 DEF SetCountry, Registered
  <2>2. pc'[t] = "rebuild" /\ groups' = groups
    BY <1>3 DEF SetCountry, TypeOK
  <2> QED
    BY <2>1, <2>2, ChangeStep DEF Serial
<1>4. ASSUME NEW t \in Threads, NEW i \in IDs, MarkFailed(t, i) \/ MarkSuccess(t, i)
      PROVE  Serial'
  BY <1>4, PlainStep DEF MarkFailed, MarkSuccess, Plain, TypeOK
<1>5. ASSUME NEW t \in Threads, CountFailure(t) PROVE Serial'
  <2>1. pc[t] \in Plain /\ pc'[t] \in Plain
    BY <1>5 DEF CountFailure, TypeOK, Plain
  <2> QED
    BY <1>5, <2>1, PlainStep DEF CountFailure
<1>6. ASSUME NEW t \in Threads, CheckUsed(t) \/ LoadAlive(t) PROVE Serial'
  <2>1. pc[t] \in Plain /\ pc'[t] \in Plain
    BY <1>6 DEF CheckUsed, LoadAlive, TypeOK, Plain
  <2> QED
    BY <1>6, <2>1, PlainStep DEF CheckUsed, LoadAlive
<1>7. ASSUME NEW t \in Threads, ResetFails(t) \/ StampUsed(t) PROVE Serial'
  BY <1>7, PlainStep DEF ResetFails, StampUsed, Plain, TypeOK
<1>8. ASSUME NEW t \in Threads, Kill(t) \/ Revive(t) PROVE Serial'
  <2>1. Registered' = Registered
    BY <1>8 DEF Kill, Revive, Registered
  <2>2. pc'[t] = "rebuild" /\ groups' = groups
    BY <1>8 DEF Kill, Revive, TypeOK
  <2> QED
    BY <2>1, <2>2, ChangeStep DEF Serial
<1>9. ASSUME NEW t \in Threads, SetTierDone(t) \/ \E o \in Objs : SetTier(t, o) PROVE Serial'
  BY <1>9 DEF SetTierDone, SetTier, Serial, Exact
<1>10. ASSUME NEW t \in Threads, Rebuild(t) PROVE Serial'
  BY <1>10, RebuildStep
<1> QED
  BY CheckerCalls, <1>1, <1>2, <1>3, <1>4, <1>5, <1>6, <1>7, <1>8, <1>9, <1>10
  DEF HealthCall, Continue

-----------------------------------------------------------------------------
(* What nextPrio makes of an exact snapshot *)

\* A set of numbers has a least one.
LEMMA LeastNatural ==
  ASSUME NEW T, T \subseteq Nat, T # {}
  PROVE  \E x \in T : \A y \in T : x <= y
<1>1. IsWellFoundedOn({xy \in Nat \X Nat : xy[1] < xy[2]}, Nat)
  BY NatLessThanWellFounded DEF OpToRel
<1>2. PICK R : R = {xy \in Nat \X Nat : xy[1] < xy[2]}
  OBVIOUS
<1>3. PICK x \in T : \A y \in T : ~(<<y, x>> \in R)
  BY <1>1, <1>2, WFMin
<1>4. ASSUME NEW y \in T PROVE x <= y
  <2>1. <<y, x>> \in Nat \X Nat /\ <<y, x>>[1] = y /\ <<y, x>>[2] = x
    OBVIOUS
  <2>2. ~(y < x)
    BY <1>2, <1>3, <2>1
  <2> QED
    BY <2>2
<1> QED
  BY <1>4

\* Tiers have a ratio between 0 and 100 percent.
LEMMA RatioFact ==
    ASSUME TypeOK, NEW o \in Objs
    PROVE  /\ tier[o] # None /\ tier[o].minRatio \in Nat /\ tier[o].minRatio <= 100
           /\ tier[o].priority \in Int
<1>1. tier[o] \in Tiers
  BY DEF TypeOK
<1>2. tier[o] \in [priority : Int, minRatio : 0..100] /\ tier[o] # None
  BY <1>1, PoolAssumption
<1>3. tier[o].minRatio \in 0..100 /\ tier[o].priority \in Int
  BY <1>2
<1> QED
  BY <1>2, <1>3

\* The tallies of a priority are those of its level in the registry.
LEMMA CountedLevel ==
    ASSUME TypeOK, NEW p
    PROVE  Counted(Stats, p) = Level(p)
BY RatioFact DEF Counted, Stats, Level, Registered

\* The ratio of a level is the one of its most permissive proxy.
LEMMA LevelRatio ==
    ASSUME TypeOK, NEW p, Level(p) # {}
    PROVE  /\ MinRatio(Stats, p) \in Nat
           /\ \E x \in Level(p) : MinRatio(Stats, p) = tier[x].minRatio
           /\ \A x \in Level(p) : MinRatio(Stats, p) <= tier[x].minRatio
<1> DEFINE ratios == {100} \cup {tier[o].minRatio : o \in Level(p)}
<1>1. \A o \in Level(p) : o \in Objs /\ Stats[o] = tier[o]
  BY DEF Level, Registered, Stats
<1>2. {Stats[o].minRatio : o \in Counted(Stats, p)} = {tier[o].minRatio : o \in Level(p)}
  BY <1>1, CountedLevel
<1>3. MinRatio(Stats, p) = CHOOSE r \in ratios : \A q \in ratios : r <= q
  BY <1>2 DEF MinRatio
<1>4. ratios \subseteq Nat /\ ratios # {}
  BY <1>1, RatioFact
<1>5. \E r \in ratios : \A q \in ratios : r <= q
  BY <1>4, LeastNatural
<1>6. PICK m : m = MinRatio(Stats, p)
  OBVIOUS
<1>7. m \in ratios /\ \A q \in ratios : m <= q
  BY <1>3, <1>5, <1>6
<1>8. m \in Nat /\ \A x \in Level(p) : m <= tier[x].minRatio
  BY <1>4, <1>7
<1>9. \E x \in Level(p) : m = tier[x].minRatio
  <2>1. PICK x \in Level(p) : TRUE
    OBVIOUS
  <2>2. tier[x].minRatio \in Nat /\ tier[x].minRatio <= 100 /\ m <= tier[x].minRatio
    BY <1>1, <1>8, RatioFact
  <2>3. CASE m = 100
    BY <2>2, <2>3
  <2>4. CASE m # 100
    BY <1>7, <2>4
  <2> QED
    BY <2>3, <2>4
<1> QED
  BY <1>6, <1>8, <1>9

\* A smaller share is asked for, a smaller number has to be alive.
LEMMA TimesMonotone ==
    ASSUME NEW a \in Nat, NEW b \in Nat, NEW n \in Nat, a <= b
    PROVE  a * n <= b * n
<1>1. PICK d \in Nat : b = a + d
  <2>1. b - a \in Nat /\ b = a + (b - a)
    OBVIOUS
  <2> QED
    BY <2>1
<1>2. (a + d) * n = a * n + d * n
  OBVIOUS
<1>3. d * n \in Nat /\ a * n \in Nat
  OBVIOUS
<1> QED
  BY <1>1, <1>2, <1>3

\* The group that buildPrioGroups makes of a level.
GroupOf(p) ==
    [priority   |-> p,
     members    |-> {o \in Servable : tier[o].priority = p},
     aliveTotal |-> Cardinality(Counted(Stats, p)),
     aliveCount |-> Cardinality(Counted(Stats, p) \cap Servable),
     minRatio   |-> MinRatio(Stats, p)]

\* A group is usable when its level is, by the registry.
LEMMA UsableLevel ==
    ASSUME TypeOK, Registered \subseteq Loaded, NEW p, Level(p) # {}
    PROVE  Usable(GroupOf(p)) <=> LevelUsable(p)
<1>1. PICK g : g = GroupOf(p)
  OBVIOUS
<1>2. PICK total : total = Cardinality(Level(p))
  OBVIOUS
<1>3. PICK count : count = Cardinality(Level(p) \cap Servable)
  OBVIOUS
<1>4. PICK m : m = MinRatio(Stats, p)
  OBVIOUS
<1>5. g.aliveTotal = total /\ g.aliveCount = count /\ g.minRatio = m
  BY <1>1, <1>2, <1>3, <1>4, CountedLevel DEF GroupOf
<1>6. IsFiniteSet(Level(p)) /\ IsFiniteSet(Level(p) \cap Servable)
  <2>1. Level(p) \subseteq Loaded /\ Level(p) \cap Servable \subseteq Loaded
    BY DEF Level
  <2> QED
    BY <2>1, HealthAssumption, FS_Subset
<1>7. total \in Nat /\ count \in Nat /\ (count = 0 <=> Level(p) \cap Servable = {})
  BY <1>2, <1>3, <1>6, FS_CardinalityType, FS_EmptySet
<1>8. count > 0 <=> Level(p) \cap Servable # {}
  BY <1>7
<1>9. /\ m \in Nat /\ \A x \in Level(p) : m <= tier[x].minRatio
      /\ \E x \in Level(p) : m = tier[x].minRatio
  BY <1>4, LevelRatio
<1>10. ASSUME 100 * count >= m * total
       PROVE  \E o \in Level(p) : 100 * count >= tier[o].minRatio * total
  BY <1>9, <1>10
<1>11. ASSUME NEW o \in Level(p), 100 * count >= tier[o].minRatio * total
       PROVE  100 * count >= m * total
  <2>1. PICK r \in Nat : r = tier[o].minRatio
    BY RatioFact DEF Level, Registered
  <2>2. m * total <= r * total
    BY <1>7, <1>9, <2>1, TimesMonotone
  <2>3. m * total \in Nat /\ r * total \in Nat /\ 100 * count \in Nat
    BY <1>7, <1>9
  <2>4. 100 * count >= r * total
    BY <1>11, <2>1
  <2> QED
    BY <2>2, <2>3, <2>4
<1>12. Usable(g) <=> count > 0 /\ 100 * count >= m * total
  BY <1>5 DEF Usable
<1>13. LevelUsable(p) <=> /\ Level(p) \cap Servable # {}
                          /\ \E o \in Level(p) : 100 * count >= tier[o].minRatio * total
  BY <1>2, <1>3 DEF LevelUsable
<1> QED
  BY <1>1, <1>8, <1>10, <1>11, <1>12, <1>13

\* From an exact snapshot the best usable level is served.
LEMMA ExactServesBest ==
    ASSUME TypeOK, Registered \subseteq Loaded, SnapExact
    PROVE  NextPrio(snap) = {o \in Servable :
               /\ LevelUsable(tier[o].priority)
               /\ \A q \in {tier[x].priority : x \in Registered} :
                     LevelUsable(q) => q <= tier[o].priority}
<1> DEFINE Served == {tier[x].priority : x \in Servable}
           Best(o) == /\ LevelUsable(tier[o].priority)
                      /\ \A q \in {tier[x].priority : x \in Registered} :
                            LevelUsable(q) => q <= tier[o].priority
<1>1. snap.members = Servable /\ snap.prio = {GroupOf(p) : p \in Served}
  BY DEF SnapExact, ExactGroups, PrioGroups, GroupOf
<1>2. Servable \subseteq Registered
  BY DEF Servable
<1>3. \A p \in Served : Level(p) # {}
  BY <1>2 DEF Level
<1>4. \A p \in Served : Usable(GroupOf(p)) <=> LevelUsable(p)
  BY <1>3, UsableLevel
<1>5. \A p : GroupOf(p).priority = p /\ GroupOf(p).members = {o \in Servable : tier[o].priority = p}
  BY DEF GroupOf
<1>6. \A q : LevelUsable(q) => q \in Served
  BY DEF LevelUsable, Level
<1>7. Served \subseteq {tier[x].priority : x \in Registered}
  BY <1>2
<1>8. NextPrio(snap) = {o \in Servable : \E g \in snap.prio :
                          /\ o \in g.members /\ Usable(g)
                          /\ \A h \in snap.prio : Usable(h) => h.priority <= g.priority}
  BY <1>1 DEF NextPrio
<1> HIDE DEF Served
<1>9. ASSUME NEW o \in Servable, NEW g \in snap.prio, o \in g.members, Usable(g),
             \A h \in snap.prio : Usable(h) => h.priority <= g.priority
      PROVE  Best(o)
  <2>1. PICK p \in Served : g = GroupOf(p)
    BY <1>1, <1>9
  <2>2. tier[o].priority = p /\ LevelUsable(p)
    BY <1>4, <1>5, <1>9, <2>1
  <2>3. ASSUME NEW q, LevelUsable(q) PROVE q <= p
    <3>1. q \in Served /\ GroupOf(q) \in snap.prio /\ Usable(GroupOf(q))
      BY <1>1, <1>4, <1>6, <2>3
    <3> QED
      BY <1>5, <1>9, <2>1, <3>1
  <2> QED
    BY <2>2, <2>3
<1>10. ASSUME NEW o \in Servable, Best(o)
       PROVE  \E g \in snap.prio :
                 /\ o \in g.members /\ Usable(g)
                 /\ \A h \in snap.prio : Usable(h) => h.priority <= g.priority
  <2>1. PICK p : p = tier[o].priority
    OBVIOUS
  <2>2. p \in Served /\ LevelUsable(p)
    BY <1>6, <1>10, <2>1
  <2>3. GroupOf(p) \in snap.prio /\ o \in GroupOf(p).members /\ Usable(GroupOf(p))
    BY <1>1, <1>4, <1>5, <2>1, <2>2
  <2>4. ASSUME NEW h \in snap.prio, Usable(h) PROVE h.priority <= GroupOf(p).priority
    <3>1. PICK q \in Served : h = GroupOf(q)
      BY <1>1, <2>4
    <3>2. LevelUsable(q) /\ h.priority = q
      BY <1>4, <1>5, <2>4, <3>1
    <3>3. q <= p
      BY <1>7, <1>10, <2>1, <3>1, <3>2
    <3> QED
      BY <1>5, <3>2, <3>3
  <2> QED
    BY <2>3, <2>4
<1> QED
  BY <1>8, <1>9, <1>10

-----------------------------------------------------------------------------
(* Theorems about the checker *)

\* A checker of any number of passes and goroutines leaves the snapshot exact
\* unless a Store of one goroutine overtook that of another (checker.go:154-217,
\* pool.go:267).
THEOREM CheckerLeavesExact == HSpec => []ExactUnlessOvertaken
BY CheckerInvariance, InvExact, PTL

\* A checker that probes one proxy at a time always leaves a snapshot from
\* which the live proxies of the highest usable priority level are served,
\* whatever upstreams do: the tallies of the scan, the smallest ratio of the
\* level and the groups agree with the registry (pool.go:236-330).
THEOREM SerialCheckerServesBest ==
  ASSUME Alone
  PROVE  HSpec => []ServesBestLevel
<1>1. Inv /\ TargetsOK /\ Serial /\ [HNext]_hvars => Serial'
  BY SerialStep DEF Inv
<1>2. ASSUME Inv, Serial PROVE ServesBestLevel
  <2> SUFFICES ASSUME AtRest PROVE SnapExact
    BY <1>2, ExactServesBest DEF Inv, Serial, ServesBestLevel
  <2> QED
    BY <1>2 DEF AtRest, Serial, Plain
<1> QED
  BY CheckerInvariance, SerialInit, <1>1, <1>2, PTL DEF HSpec

=============================================================================
