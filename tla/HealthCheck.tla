----------------------------- MODULE HealthCheck -----------------------------
(***************************************************************************)
(* The health checker (internal/health/checker.go) at work on the pool.    *)
(* A pass takes the proxies that are due and probes them with at most      *)
(* Concurrency goroutines at a time (the channel sem); every goroutine     *)
(* probes its proxy and applies the result to the pool by ID.  Two passes  *)
(* can run at once: the one of the Run loop (checkDue) and the one an      *)
(* administrator asks for (CheckOnce, which is checkAll).                  *)
(*                                                                         *)
(* Slots are the goroutines a pass may have at a time.  The pool starts    *)
(* with what LoadInitial registered before the checker was started.        *)
(***************************************************************************)
EXTENDS Pool

CONSTANTS
    Passes,     \* the concurrent passes
    RunPass,    \* the one driven by the Run loop
    PassOf,     \* the pass each slot works for; its slots are its Concurrency
    Loaded,     \* the objects registered at start
    Free,       \* proxies of free providers
    MaxFlips    \* bound: how often the upstreams behind the proxies change state

ASSUME HealthAssumption ==
    /\ RunPass \in Passes /\ PassOf \in [Threads -> Passes]
    /\ Loaded \subseteq Objs /\ IsFiniteSet(Loaded) /\ Free \subseteq Objs /\ MaxFlips \in Nat

VARIABLES
    up,         \* environment: does the upstream behind this ID work
    flips,      \* how often that has changed
    elapsed,    \* the check interval has passed since lastCheck[id]
    running,    \* is the pass between its All() and the end of wg.Wait()
    due,        \* the objects the pass has not started a goroutine for
    stage,      \* where the goroutine is in checkOne
    target      \* the object checkOne was called with

envVars  == <<up, flips>>
passVars == <<elapsed, running, due>>
slotVars == <<stage, target>>
poolVars == vars
hvars    == <<poolVars, envVars, passVars, slotVars>>

\* The upstream behind an ID fails or recovers.
Flip(i) ==
    /\ flips < MaxFlips
    /\ up' = [up EXCEPT ![i] = ~@]
    /\ flips' = flips + 1
    /\ UNCHANGED <<poolVars, passVars, slotVars>>

\* Time passes: the interval of a proxy is over.
Elapse(i) ==
    /\ ~elapsed[i]
    /\ elapsed' = [elapsed EXCEPT ![i] = TRUE]
    /\ UNCHANGED <<poolVars, envVars, running, due, slotVars>>

\* checkDue: those of All() whose interval is over; lastCheck is set for them.
CheckDue ==
    /\ ~running[RunPass]
    /\ LET ready == {o \in Registered : elapsed[IdOf[o]]}
       IN  /\ ready # {}
           /\ due' = [due EXCEPT ![RunPass] = ready]
           /\ elapsed' = [i \in IDs |-> elapsed[i] /\ \A o \in ready : IdOf[o] # i]
    /\ running' = [running EXCEPT ![RunPass] = TRUE]
    /\ UNCHANGED <<poolVars, envVars, slotVars>>

\* CheckOnce: all of them.
CheckAll(p) ==
    /\ p # RunPass /\ ~running[p] /\ Registered # {}
    /\ due' = [due EXCEPT ![p] = Registered]
    /\ elapsed' = [i \in IDs |-> elapsed[i] /\ proxies[i] = None]
    /\ running' = [running EXCEPT ![p] = TRUE]
    /\ UNCHANGED <<poolVars, envVars, slotVars>>

\* sem <- struct{}{}; go checkOne(pr).
Spawn(t, o) ==
    /\ running[PassOf[t]] /\ o \in due[PassOf[t]] /\ stage[t] = "free"
    /\ due' = [due EXCEPT ![PassOf[t]] = @ \ {o}]
    /\ stage' = [stage EXCEPT ![t] = "probe"]
    /\ target' = [target EXCEPT ![t] = o]
    /\ UNCHANGED <<poolVars, envVars, elapsed, running>>

\* wg.Wait() returns.
PassDone(p) ==
    /\ running[p] /\ due[p] = {}
    /\ \A t \in Threads : PassOf[t] = p => stage[t] = "free"
    /\ running' = [running EXCEPT ![p] = FALSE]
    /\ UNCHANGED <<poolVars, envVars, elapsed, due, slotVars>>

-----------------------------------------------------------------------------
(* checkOne.  Each of its calls into the pool starts when the previous one *)
(* has returned, that is when pc[t] is "idle" again.                       *)

Enter(t, next) ==
    /\ stage' = [stage EXCEPT ![t] = next]
    /\ UNCHANGED <<envVars, passVars, target>>

\* The probe itself: it tells whether the upstream works at this moment.
Probe(t) ==
    /\ stage[t] = "probe"
    /\ Enter(t, IF up[IdOf[target[t]]] THEN "locate" ELSE "failed")
    /\ UNCHANGED poolVars

\* An IP-echo URL also told the country, and none was known.
Locate(t) ==
    /\ stage[t] = "locate" /\ country[target[t]] = None
    /\ \E c \in Countries : SetCountry(t, IdOf[target[t]], c)
    /\ Enter(t, "succeeded")

\* No country was told, or the proxy has one (or is gone).
SkipLocate(t) ==
    /\ stage[t] = "locate"
    /\ Enter(t, "succeeded")
    /\ UNCHANGED poolVars

Succeed(t) ==
    /\ stage[t] = "succeeded" /\ pc[t] = "idle"
    /\ IF proxies[IdOf[target[t]]] # None THEN MarkSuccess(t, IdOf[target[t]])
                                         ELSE UNCHANGED poolVars
    /\ Enter(t, IF target[t] \in Free THEN "latency" ELSE "done")

\* A free proxy slower than its threshold is removed; the clock decides.
RemoveSlow(t) ==
    /\ stage[t] = "latency" /\ pc[t] = "idle"
    /\ Remove(t, IdOf[target[t]])
    /\ Enter(t, "done")

FastEnough(t) ==
    /\ stage[t] = "latency" /\ pc[t] = "idle"
    /\ Enter(t, "done")
    /\ UNCHANGED poolVars

\* Mutant: the failure branch returns without giving its semaphore slot back.
FailLeaksSlot(t) ==
    /\ stage[t] = "failed"
    /\ IF proxies[IdOf[target[t]]] = None THEN UNCHANGED poolVars
       ELSE IF target[t] \in Free THEN Remove(t, IdOf[target[t]])
       ELSE MarkFailed(t, IdOf[target[t]])
    /\ Enter(t, "leaked")

\* A free proxy is removed on its first failure, another one is marked.
Fail(t) ==
    /\ stage[t] = "failed"
    /\ IF proxies[IdOf[target[t]]] = None THEN UNCHANGED poolVars
       ELSE IF target[t] \in Free THEN Remove(t, IdOf[target[t]])
       ELSE MarkFailed(t, IdOf[target[t]])
    /\ Enter(t, "done")

\* <-sem; wg.Done().
Release(t) ==
    /\ stage[t] = "done" /\ pc[t] = "idle"
    /\ stage' = [stage EXCEPT ![t] = "free"]
    /\ target' = [target EXCEPT ![t] = None]
    /\ UNCHANGED <<poolVars, envVars, passVars>>

CheckOne(t) ==
    \/ Probe(t) \/ Locate(t) \/ SkipLocate(t) \/ Succeed(t)
    \/ RemoveSlow(t) \/ FastEnough(t) \/ Fail(t) \/ Release(t)

\* A step inside a call into the pool.
InPool(t) ==
    /\ Continue(t)
    /\ UNCHANGED <<envVars, passVars, slotVars>>

-----------------------------------------------------------------------------
\* What LoadInitial leaves behind: the loaded proxies registered, alive and
\* listed, in one group per priority.
HInit ==
    /\ proxies = [i \in IDs |-> IF \E o \in Loaded : IdOf[o] = i
                                THEN CHOOSE o \in Loaded : IdOf[o] = i ELSE None]
    /\ fresh = Objs \ Loaded
    /\ alive = [o \in Objs |-> TRUE]
    /\ fails = [o \in Objs |-> 0]
    /\ used = [o \in Objs |-> FALSE]
    /\ tier = TierOf
    /\ country = [o \in Objs |-> None]
    /\ snap = [members |-> Registered,
               prio |-> PrioGroups(Registered, [o \in Objs |->
                            IF o \in Registered THEN TierOf[o] ELSE None])]
    /\ pc = [t \in Threads |-> "idle"]
    /\ obj = [t \in Threads |-> None]
    /\ batch = [t \in Threads |-> {}]
    /\ newTier = [t \in Threads |-> None]
    /\ todo = [t \in Threads |-> {}]
    /\ got = [t \in Threads |-> {}]
    /\ seen = [t \in Threads |-> NoStats]
    /\ groups = [t \in Threads |-> {}]
    /\ after = [t \in Threads |-> {}]
    /\ late = [t \in Threads |-> FALSE]
    /\ stale = FALSE
    /\ up = [i \in IDs |-> TRUE]
    /\ flips = 0
    /\ elapsed = [i \in IDs |-> TRUE]
    /\ running = [p \in Passes |-> FALSE]
    /\ due = [p \in Passes |-> {}]
    /\ stage = [t \in Threads |-> "free"]
    /\ target = [t \in Threads |-> None]

HNext ==
    \/ \E i \in IDs : Flip(i) \/ Elapse(i)
    \/ CheckDue
    \/ \E p \in Passes : CheckAll(p) \/ PassDone(p)
    \/ \E t \in Threads : CheckOne(t) \/ InPool(t) \/ \E o \in Objs : Spawn(t, o)

HSpec == HInit /\ [][HNext]_hvars

\* The ticker keeps ticking and goroutines keep running; nothing is assumed
\* of the environment, nor of the administrator who asks for a CheckOnce.
Fairness ==
    /\ \A i \in IDs : WF_hvars(Elapse(i))
    /\ WF_hvars(CheckDue)
    /\ \A p \in Passes : WF_hvars(PassDone(p))
    /\ \A t \in Threads : WF_hvars(CheckOne(t) \/ InPool(t) \/ \E o \in Objs : Spawn(t, o))

FairSpec == HSpec /\ Fairness

-----------------------------------------------------------------------------
(* Properties *)

Listed(i) == \E o \in snap.members : IdOf[o] = i

\* A proxy whose upstream has failed for good is eventually out of the
\* snapshot for good, whatever rebuilds race with each other: MarkFailed
\* rebuilds on every failure from the third on (pool.go:729-731), and a free
\* proxy is removed.
FailingProxyLeaves == \A i \in IDs : <>[]~up[i] => <>[]~Listed(i)

\* A proxy whose upstream works again for good, and that was not removed,
\* is eventually back in the snapshot for good (README: recovery returns a
\* proxy to the pool automatically).
RecoveredProxyReturns ==
    \A i \in IDs : <>[](up[i] /\ proxies[i] # None) => <>[]Listed(i)

\* Every pass ends: the semaphore's slots are given back on every path.
PassesEnd == \A p \in Passes : running[p] ~> ~running[p]

=============================================================================
