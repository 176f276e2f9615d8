-------------------------------- MODULE Sticky --------------------------------
(***************************************************************************)
(* Sticky sessions (internal/pool/pool.go:659-718) and the API call that   *)
(* uses them (handleGetProxy, internal/server/server.go:559).  A call      *)
(* looks the client's session up, picks a proxy if there is none and       *)
(* records it; lookup and record are separate critical sections of         *)
(* stickyMu, and the pick in between works on the pool's snapshot.  Calls  *)
(* interleave with the goroutines that change the pool: each changes it,   *)
(* drops sessions if a proxy was removed, and then rebuilds the snapshot   *)
(* in two steps, so that one can store an older snapshot over a newer and  *)
(* a pick can return a proxy that is long gone.                            *)
(*                                                                         *)
(* Which live proxy of the group a pick returns is the subject of          *)
(* GroupLayers and Pool: here it is any.                                   *)
(***************************************************************************)
EXTENDS Naturals, FiniteSets, Functions

CONSTANTS
    Proxies,      \* proxy IDs
    Groups,       \* groups that calls name
    InGroup,      \* the proxies each group may use
    Churning,     \* the proxies that come, go, die and recover
    Clients,      \* client_id values
    Calls,        \* calls that can be in progress at a time
    Workers,      \* goroutines that change the pool: other requests, the checker
    Windows,      \* sticky_seconds of the calls
    MaxSessions,  \* number of sessions above which expired ones are purged; 4096
    MaxNow,       \* bound on the clock
    Nil

\* Pool.sticky has these; Nil for a client without one.
Session == [proxy : Proxies, expireAt : Nat]

ASSUME StickyAssumption ==
    /\ InGroup \in [Groups -> SUBSET Proxies] /\ Churning \subseteq Proxies
    /\ Windows \subseteq Nat \ {0}
    /\ MaxSessions \in Nat /\ MaxNow \in Nat
    /\ Nil \notin Proxies \cup Clients \cup Groups \cup Session

VARIABLES
    now,         \* the clock, in units of the windows
    registered,  \* the pool's registry
    alive,       \* the proxies whose Alive flag is set
    snapshot,    \* the proxies in the pool's snapshot
    sessions,    \* Pool.sticky: [proxy, expireAt] or Nil
    call,        \* the state of each call
    work,        \* the state of each worker
    told         \* history: the last answer to each client, while it holds

poolVars == <<registered, alive, snapshot, work>>
vars     == <<now, poolVars, sessions, call, told>>

NoCall == [stage |-> "idle", client |-> Nil, group |-> Nil, window |-> 0, now |-> 0,
           proxy |-> Nil, alone |-> FALSE]

Goto(c, s) == call' = [call EXCEPT ![c].stage = s]

\* The call returns.
Return(c)  == call' = [call EXCEPT ![c] = NoCall]

-----------------------------------------------------------------------------
(* StickyNext *)

Same(c, k) == call[c].stage # "idle" /\ call[c].client = k

\* The call begins and reads the clock.  From here on it is not alone with
\* its client's session if another call of that client is in progress.
Begin(c, k, g, w) ==
    /\ call[c].stage = "idle"
    /\ call' = [d \in Calls |->
                  IF d = c
                  THEN [NoCall EXCEPT !.stage = "lookup", !.client = k, !.group = g,
                                      !.window = w, !.now = now,
                                      !.alone = ~\E e \in Calls : Same(e, k)]
                  ELSE IF Same(d, k) THEN [call[d] EXCEPT !.alone = FALSE] ELSE call[d]]
    /\ UNCHANGED <<now, poolVars, sessions, told>>

Valid(s, t) == s # Nil /\ s.expireAt > t

\* The first critical section: reuse the session's proxy if it is there and
\* alive, else forget the session.  The call's group is not looked at.
Lookup(c) ==
    LET k == call[c].client
        s == sessions[k]
    IN  /\ call[c].stage = "lookup"
        /\ IF Valid(s, call[c].now) /\ s.proxy \in registered \cap alive
           THEN /\ Return(c)
                /\ told' = [told EXCEPT ![k] = [proxy |-> s.proxy, until |-> s.expireAt]]
                /\ UNCHANGED sessions
           ELSE /\ Goto(c, "pick")
                /\ sessions' = IF Valid(s, call[c].now) THEN [sessions EXCEPT ![k] = Nil]
                               ELSE sessions
                /\ UNCHANGED told
        /\ UNCHANGED <<now, poolVars>>

\* Mutant: that there is no proxy is not noticed.
PickUnchecked(c) ==
    /\ call[c].stage = "pick"
    /\ \E p \in IF InGroup[call[c].group] \cap snapshot = {} THEN {Nil}
                 ELSE InGroup[call[c].group] \cap snapshot :
          call' = [call EXCEPT ![c].stage = "record", ![c].proxy = p]
    /\ UNCHANGED <<now, poolVars, sessions, told>>

\* NextInGroup on the snapshot.
Pick(c) ==
    /\ call[c].stage = "pick"
    /\ \/ /\ \E p \in InGroup[call[c].group] \cap snapshot :
                call' = [call EXCEPT ![c].stage = "record", ![c].proxy = p]
          /\ UNCHANGED told
       \/ /\ InGroup[call[c].group] \cap snapshot = {}
          /\ Return(c)
          /\ told' = [told EXCEPT ![call[c].client] = Nil]
    /\ UNCHANGED <<now, poolVars, sessions>>

\* Mutant: above the limit every session is purged.
PurgedAll(f, t) == IF Cardinality({k \in Clients : f[k] # Nil}) > MaxSessions
                   THEN [k \in Clients |-> Nil] ELSE f

\* Above the limit the sessions that were expired when the call began go.
Purged(f, t) ==
    IF Cardinality({k \in Clients : f[k] # Nil}) > MaxSessions
    THEN [k \in Clients |-> IF Valid(f[k], t) THEN f[k] ELSE Nil] ELSE f

\* The second critical section, and the answer.
Record(c) ==
    LET k == call[c].client
        s == [proxy |-> call[c].proxy, expireAt |-> call[c].now + call[c].window]
    IN  /\ call[c].stage = "record"
        /\ sessions' = Purged([sessions EXCEPT ![k] = s], call[c].now)
        /\ told' = [told EXCEPT ![k] = [proxy |-> s.proxy, until |-> s.expireAt]]
        /\ Return(c)
        /\ UNCHANGED <<now, poolVars>>

-----------------------------------------------------------------------------
(* The pool *)

\* A worker between its change of the pool and the end of the rebuild.
NoWork == [stage |-> "idle", proxy |-> Nil, seen |-> {}]

Turn(w, s) == work' = [work EXCEPT ![w] = [NoWork EXCEPT !.stage = s]]

\* handleReport, or the health checker: a proxy dies or recovers.
Report(w, p) ==
    /\ work[w].stage = "idle" /\ p \in registered
    /\ alive' = IF p \in alive THEN alive \ {p} ELSE alive \cup {p}
    /\ Turn(w, "scan")
    /\ UNCHANGED <<now, registered, snapshot, sessions, call, told>>

\* handleRemoveProxy: Pool.Remove deletes the proxy, then clears its sessions,
\* then rebuilds.
Remove(w, p) ==
    /\ work[w].stage = "idle" /\ p \in registered
    /\ registered' = registered \ {p}
    /\ work' = [work EXCEPT ![w].stage = "clear", ![w].proxy = p]
    /\ UNCHANGED <<now, alive, snapshot, sessions, call, told>>

ClearSticky(w) ==
    LET p == work[w].proxy
    IN  /\ work[w].stage = "clear"
        /\ sessions' = [k \in Clients |-> IF sessions[k] # Nil /\ sessions[k].proxy = p
                                          THEN Nil ELSE sessions[k]]
        /\ told' = [k \in Clients |-> IF told[k] # Nil /\ told[k].proxy = p THEN Nil ELSE told[k]]
        /\ Turn(w, "scan")
        /\ UNCHANGED <<now, registered, alive, snapshot, call>>

\* RemoveExpired deletes all that have expired and leaves the sessions alone.
RemoveExpired(w, gone) ==
    /\ work[w].stage = "idle" /\ gone # {} /\ gone \subseteq registered
    /\ registered' = registered \ gone
    /\ Turn(w, "scan")
    /\ UNCHANGED <<now, alive, snapshot, sessions, call, told>>

\* Pool.Add of a new object, alive, under the ID.
Add(w, p) ==
    /\ work[w].stage = "idle" /\ p \notin registered
    /\ registered' = registered \cup {p}
    /\ alive' = alive \cup {p}
    /\ Turn(w, "scan")
    /\ UNCHANGED <<now, snapshot, sessions, call, told>>

\* Rebuild, under Pool.mu, ...
RebuildScans(w) ==
    /\ work[w].stage = "scan"
    /\ work' = [work EXCEPT ![w].stage = "store", ![w].seen = registered \cap alive]
    /\ UNCHANGED <<now, registered, alive, snapshot, sessions, call, told>>

\* ... and after it.
RebuildStores(w) ==
    /\ work[w].stage = "store"
    /\ snapshot' = work[w].seen
    /\ work' = [work EXCEPT ![w] = NoWork]
    /\ UNCHANGED <<now, registered, alive, sessions, call, told>>

Tick ==
    /\ now < MaxNow /\ now' = now + 1
    /\ told' = [k \in Clients |-> IF told[k] # Nil /\ told[k].until <= now' THEN Nil ELSE told[k]]
    /\ UNCHANGED <<poolVars, sessions, call>>

Init ==
    /\ now = 0
    /\ registered = Proxies /\ alive = Proxies /\ snapshot = Proxies
    /\ work = [w \in Workers |-> NoWork]
    /\ sessions = [k \in Clients |-> Nil]
    /\ call = [c \in Calls |-> NoCall]
    /\ told = [k \in Clients |-> Nil]

PoolStep(w) ==
    \/ \E p \in Churning : Report(w, p) \/ Remove(w, p) \/ Add(w, p)
    \/ \E gone \in SUBSET Churning : RemoveExpired(w, gone)
    \/ ClearSticky(w) \/ RebuildScans(w) \/ RebuildStores(w)

Next ==
    \/ \E c \in Calls, k \in Clients, g \in Groups, w \in Windows : Begin(c, k, g, w)
    \/ \E c \in Calls : Lookup(c) \/ Pick(c) \/ Record(c)
    \/ \E w \in Workers : PoolStep(w)
    \/ Tick

Spec == Init /\ [][Next]_vars

-----------------------------------------------------------------------------
(* Properties *)

\* Type correctness: what is recorded is a proxy, whatever the snapshot offered.
TypeOK ==
    /\ now \in 0..MaxNow
    /\ registered \subseteq Proxies /\ alive \subseteq Proxies /\ snapshot \subseteq Proxies
    /\ sessions \in [Clients -> Session \cup {Nil}]
    /\ told \in [Clients -> [proxy : Proxies, until : Nat] \cup {Nil}]
    /\ work \in [Workers -> [stage : {"idle", "clear", "scan", "store"},
                             proxy : Proxies \cup {Nil}, seen : SUBSET Proxies]]
    /\ \A c \in Calls :
          /\ call[c].stage \in {"idle", "lookup", "pick", "record"}
          /\ call[c].stage # "idle" => call[c].client \in Clients /\ call[c].group \in Groups
          /\ call[c].stage = "record" => call[c].proxy \in Proxies

\* README.md:10, a client keeps its IP for the length of its window: a call
\* gets the proxy that the client's last call got, if the window that call
\* opened is not over, the proxy is there and alive, no removal of it has cleared
\* its sessions in between (pool.go:165), and no other call of the client is in
\* progress.  Purging, other clients, expiry, deaths, recoveries and overtaken
\* rebuilds do not matter.
StickyHolds ==
    [][\A c \in Calls :
          LET k == call[c].client
          IN  (/\ call[c].stage = "lookup" /\ call'[c].stage # "lookup" /\ call[c].alone
               /\ told[k] # Nil
               /\ told[k].until > now /\ told[k].proxy \in registered \cap alive)
              => call'[c].stage = "idle" /\ told'[k].proxy = told[k].proxy]_vars

=============================================================================
