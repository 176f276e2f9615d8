--------------------------- MODULE ProviderManager ---------------------------
(***************************************************************************)
(* The provider manager (internal/pool/manager.go), the file it keeps its  *)
(* configurations in (internal/persist/file.go) and the start of the       *)
(* program (cmd/proxy-pool/main.go).                                       *)
(*                                                                         *)
(* An operation changes the manager's map under its lock; then, without    *)
(* it, drops the provider's proxies from the pool, asks the upstream for   *)
(* new ones, adds them, and saves the configuration.  Operations of        *)
(* several requests, the monitor's refreshes and the refresh goroutines    *)
(* interleave in all these steps.  The process may end at any of them.     *)
(*                                                                         *)
(* A provider's upstream is a Version; it lists one proxy, whose ID is     *)
(* made of the provider's name and the version.  Weight stands for weight, *)
(* priority and minimal ratio, which are handled alike.                    *)
(***************************************************************************)
EXTENDS Integers, FiniteSets, Functions

CONSTANTS
    Names,      \* provider names
    Versions,   \* upstreams a provider may be configured with
    Extracted,  \* those fetched over the network, whose proxies expire
    Ticking,    \* those with a refresh interval
    Weights,    \* positive weights
    Submitted,  \* configurations requests may submit
    Yaml,       \* the providers of config.yaml; Nil: not there
    Requests,   \* goroutines that serve requests, and the monitor's
    Handles,    \* addresses of managedProvider objects
    MaxEdits,   \* bound on the changes administrators make
    Nil

Source == [version : Versions, weight : Weights]
Config == [version : Versions, weight : Weights, enabled : BOOLEAN, public : BOOLEAN]

ASSUME ManagerAssumption ==
    /\ Extracted \subseteq Versions /\ Ticking \subseteq Extracted
    /\ Weights \subseteq Nat \ {0} /\ 1 \in Weights /\ MaxEdits \in Nat
    /\ Submitted \subseteq Config
    /\ Yaml \in [Names -> Config \cup {Nil}]
    /\ Requests \cap Names = {}
    /\ Nil \notin Handles /\ Nil \notin Config /\ Nil \notin Source /\ Nil \notin Names
    /\ \E f \in [Names -> Handles] : IsInjective(f)

\* The refresh goroutine of a provider goes by its name.
Workers == Requests \cup Names

VARIABLES
    provs,    \* Manager.provs: the object of each provider; Nil: none
    mp,       \* the objects: provider (the source it was made from), cfg, enabled
    proxies,  \* the pool: the weight of each provider's proxies; 0: not there
    file,     \* providers.json
    tickers,  \* the providers RefreshLoop started a goroutine for
    looping,  \* RefreshLoop has run
    work,     \* what each worker does
    edits,    \* how many changes were made
    wrote,    \* history: what kind of step last wrote each proxy
    behind    \* history: what memory has was not saved, or not saved last

vars == <<provs, mp, proxies, file, tickers, looping, work, edits, wrote, behind>>

Idle == [pc |-> "idle", op |-> "none", name |-> Nil, mp |-> Nil, cfg |-> Nil,
         source |-> Nil, drop |-> {}, then |-> "idle", latest |-> FALSE, fresh |-> FALSE]

\* An object nobody refers to any more, as the garbage collector leaves it.
NoObject == [provider |-> Nil, cfg |-> Nil, enabled |-> FALSE]

SourceOf(c) == [version |-> c.version, weight |-> c.weight]
Present(n)  == {v \in Versions : proxies[n][v] > 0}
Mem(n)      == IF provs[n] = Nil THEN Nil ELSE mp[provs[n]].cfg
Loading     == \E n \in Names : work[n].op = "load"

-----------------------------------------------------------------------------
(* Locked sections *)

\* Worker t goes on with r after a locked change of provider n.  It is the latest
\* to have changed it; whatever else is in progress on n has been overtaken.
Changed(t, n, r) ==
    /\ edits < MaxEdits
    /\ edits' = edits + 1
    /\ work' = [u \in Workers |->
                   IF u = t THEN [r EXCEPT !.latest = TRUE, !.fresh = TRUE]
                   ELSE IF work[u].name = n THEN [work[u] EXCEPT !.latest = FALSE, !.fresh = FALSE]
                   ELSE work[u]]

Begin(n, op) == [Idle EXCEPT !.op = op, !.name = n]

\* What a worker still has to know when it comes to its save.
Saving(r) == [Idle EXCEPT !.pc = "save", !.name = r.name, !.cfg = r.cfg, !.latest = r.latest]

CanBegin(t) == t \in Requests /\ work[t] = Idle /\ ~Loading

FreeHandles == Handles \ (Range(provs) \cup {work[u].mp : u \in Workers})

AddProvider(t, n, c) ==
    /\ CanBegin(t) /\ provs[n] = Nil /\ FreeHandles # {}
    /\ LET h == CHOOSE h \in FreeHandles : TRUE
       IN  /\ provs' = [provs EXCEPT ![n] = h]
           /\ mp' = [mp EXCEPT ![h] = [provider |-> SourceOf(c), cfg |-> c, enabled |-> c.enabled]]
    /\ Changed(t, n, LET r == [Begin(n, "add") EXCEPT !.cfg = c, !.source = SourceOf(c),
                                                      !.pc = "waiting"]
                     IN  IF c.enabled THEN r ELSE Saving(r))
    /\ UNCHANGED <<proxies, file, tickers, looping, wrote, behind>>

RemoveProvider(t, n) ==
    /\ CanBegin(t) /\ provs[n] # Nil
    /\ provs' = [provs EXCEPT ![n] = Nil]
    /\ mp' = IF \E u \in Workers : work[u].mp = provs[n] THEN mp
             ELSE [mp EXCEPT ![provs[n]] = NoObject]
    /\ Changed(t, n, [Begin(n, "remove") EXCEPT !.pc = "collect", !.then = "save"])
    /\ UNCHANGED <<proxies, file, tickers, looping, wrote, behind>>

\* Mutant: the proxies of the old upstream are not dropped.
UpdateProviderKeepsProxies(t, n, c) ==
    /\ CanBegin(t) /\ provs[n] # Nil
    /\ mp' = [mp EXCEPT ![provs[n]].provider = SourceOf(c), ![provs[n]].cfg = c]
    /\ Changed(t, n, LET r == [Begin(n, "update") EXCEPT !.cfg = c, !.source = SourceOf(c),
                                                         !.pc = "waiting"]
                     IN  IF mp[provs[n]].enabled THEN r ELSE Saving(r))
    /\ UNCHANGED <<provs, proxies, file, tickers, looping, wrote, behind>>

\* enabled keeps its value, whatever the new configuration says.
UpdateProvider(t, n, c) ==
    /\ CanBegin(t) /\ provs[n] # Nil
    /\ mp' = [mp EXCEPT ![provs[n]].provider = SourceOf(c), ![provs[n]].cfg = c]
    /\ Changed(t, n, [Begin(n, "update") EXCEPT !.cfg = c, !.source = SourceOf(c),
                        !.pc = "collect",
                        !.then = IF mp[provs[n]].enabled THEN "waiting" ELSE "save"])
    /\ UNCHANGED <<provs, proxies, file, tickers, looping, wrote, behind>>

\* Mutant: the configuration to save is copied before enabled is set in it.
SetProviderEnabledSavesOld(t, n, b) ==
    /\ CanBegin(t) /\ provs[n] # Nil /\ mp[provs[n]].enabled # b
    /\ mp' = [mp EXCEPT ![provs[n]].enabled = b, ![provs[n]].cfg.enabled = b]
    /\ Changed(t, n, [Begin(n, IF b THEN "enable" ELSE "disable") EXCEPT
                        !.mp = IF b THEN provs[n] ELSE Nil, !.cfg = mp[provs[n]].cfg,
                        !.pc = IF b THEN "call" ELSE "collect",
                        !.then = IF b THEN "idle" ELSE "save"])
    /\ UNCHANGED <<provs, proxies, file, tickers, looping, wrote, behind>>

SetProviderEnabled(t, n, b) ==
    /\ CanBegin(t) /\ provs[n] # Nil /\ mp[provs[n]].enabled # b
    /\ mp' = [mp EXCEPT ![provs[n]].enabled = b, ![provs[n]].cfg.enabled = b]
    /\ Changed(t, n, [Begin(n, IF b THEN "enable" ELSE "disable") EXCEPT
                        !.mp = IF b THEN provs[n] ELSE Nil, !.cfg = mp'[provs[n]].cfg,
                        !.pc = IF b THEN "call" ELSE "collect",
                        !.then = IF b THEN "idle" ELSE "save"])
    /\ UNCHANGED <<provs, proxies, file, tickers, looping, wrote, behind>>

SetProviderPublic(t, n, b) ==
    /\ CanBegin(t) /\ provs[n] # Nil /\ mp[provs[n]].cfg.public # b
    /\ mp' = [mp EXCEPT ![provs[n]].cfg.public = b]
    /\ Changed(t, n, Saving([Begin(n, "public") EXCEPT !.cfg = mp'[provs[n]].cfg]))
    /\ UNCHANGED <<provs, proxies, file, tickers, looping, wrote, behind>>

\* Mutant: a weight below 1 is taken as it is.
SetProviderWeightRaw(t, n, weight) ==
    /\ CanBegin(t) /\ provs[n] # Nil
    /\ mp' = [mp EXCEPT ![provs[n]].cfg.weight = weight]
    /\ Changed(t, n, [Begin(n, "weight") EXCEPT !.cfg = mp'[provs[n]].cfg, !.pc = "retune"])
    /\ UNCHANGED <<provs, proxies, file, tickers, looping, wrote, behind>>

\* SetProviderWeight, SetProviderPriority
SetProviderWeight(t, n, weight) ==
    /\ CanBegin(t) /\ provs[n] # Nil
    /\ mp' = [mp EXCEPT ![provs[n]].cfg.weight = IF weight <= 0 THEN 1 ELSE weight]
    /\ Changed(t, n, [Begin(n, "weight") EXCEPT !.cfg = mp'[provs[n]].cfg, !.pc = "retune"])
    /\ UNCHANGED <<provs, proxies, file, tickers, looping, wrote, behind>>

\* RefreshProvider: by a request, by the monitor (which runs before LoadInitial is
\* over), or by its own goroutine.  It does not ask whether the provider is enabled.
RefreshProvider(t, n) ==
    /\ work[t] = Idle /\ provs[n] # Nil
    /\ t \in Requests \/ (t = n /\ n \in tickers)
    /\ work' = [work EXCEPT ![t] = [Begin(n, "refresh") EXCEPT !.mp = provs[n], !.pc = "call"]]
    /\ UNCHANGED <<provs, mp, proxies, file, tickers, looping, edits, wrote, behind>>

-----------------------------------------------------------------------------
(* The steps that follow without the lock *)

\* The drop loop is over, or there is nothing to drop.
Dropped(r, vs) ==
    CASE vs # {}                       -> [r EXCEPT !.drop = vs, !.pc = "drop"]
      [] vs = {} /\ r.then = "waiting" -> [r EXCEPT !.drop = {}, !.pc = "waiting", !.then = "idle"]
      [] OTHER                         -> Saving(r)

\* pool.All() of the loops that drop the provider's proxies.
Collect(t) ==
    /\ work[t].pc = "collect"
    /\ work' = [work EXCEPT ![t] = Dropped(@, Present(work[t].name))]
    /\ UNCHANGED <<provs, mp, proxies, file, tickers, looping, edits, wrote, behind>>

\* pool.Remove of one of them.
Drop(t, v) ==
    LET n == work[t].name
    IN  /\ work[t].pc = "drop" /\ v \in work[t].drop
        /\ proxies' = [proxies EXCEPT ![n][v] = 0]
        /\ work' = [work EXCEPT ![t] = Dropped(@, @.drop \ {v})]
        /\ wrote' = [wrote EXCEPT ![n][v] = "nobody"]
        /\ UNCHANGED <<provs, mp, file, tickers, looping, edits, behind>>

\* The loop of SetProviderWeight over pool.All(), and its Rebuild.
Retune(t) ==
    LET n == work[t].name
        w == work[t].cfg.weight
    IN  /\ work[t].pc = "retune"
        /\ proxies' = [proxies EXCEPT ![n] = [v \in Versions |-> IF @[v] > 0 THEN w ELSE 0]]
        /\ wrote' = [wrote EXCEPT ![n] = [v \in Versions |->
                       IF v \in Present(n) /\ ~work[t].fresh THEN "overtaken" ELSE @[v]]]
        /\ work' = [work EXCEPT ![t] = Saving(@)]
        /\ UNCHANGED <<provs, mp, file, tickers, looping, edits, behind>>

\* mp.provider is read and asked for its proxies.  A refresh, which follows no
\* change, is up to date if the object is still the registered one.
CallProvider(t) ==
    /\ work[t].pc = "call"
    /\ work' = [work EXCEPT ![t].pc = "waiting", ![t].source = mp[work[t].mp].provider,
                            ![t].mp = Nil,
                            ![t].fresh = IF work[t].op = "refresh"
                                         THEN provs[work[t].name] = work[t].mp ELSE @]
    /\ mp' = IF \/ \E n \in Names : provs[n] = work[t].mp
                \/ \E u \in Workers \ {t} : work[u].mp = work[t].mp
             THEN mp ELSE [mp EXCEPT ![work[t].mp] = NoObject]
    /\ UNCHANGED <<provs, proxies, file, tickers, looping, edits, wrote, behind>>

\* What kind of step an answer that worker t adds is: one whose provider was
\* changed since it asked, a refresh of a disabled provider, or any other.
Kind(t) ==
    IF ~work[t].fresh THEN "overtaken"
    ELSE IF work[t].op = "refresh" /\ ~mp[provs[work[t].name]].enabled THEN "unasked"
    ELSE "current"

\* The upstream answers with its list, and addProxies adds it.
Answered(t) ==
    LET n == work[t].name
        s == work[t].source
    IN  /\ work[t].pc = "waiting"
        /\ proxies' = [proxies EXCEPT ![n][s.version] = s.weight]
        /\ wrote' = [wrote EXCEPT ![n][s.version] = Kind(t)]
        /\ work' = [work EXCEPT ![t] =
             CASE work[t].op = "load"    -> Idle
               [] work[t].op = "refresh" -> [@ EXCEPT !.pc = "expire", !.source = Nil]
               [] OTHER                  -> Saving(@)]
        /\ UNCHANGED <<provs, mp, file, tickers, looping, edits, behind>>

\* A refresh gets an empty list: nothing to add, but it goes on as after any answer.
AnsweredEmpty(t) ==
    /\ work[t].pc = "waiting" /\ work[t].op = "refresh" /\ work[t].source.version \in Extracted
    /\ work' = [work EXCEPT ![t].pc = "expire", ![t].source = Nil]
    /\ UNCHANGED <<provs, mp, proxies, file, tickers, looping, edits, wrote, behind>>

\* Nothing to add: an unreadable or (not in a refresh) empty list, or the Refresh of a tunnel.
AnsweredNothing(t) ==
    /\ work[t].pc = "waiting"
    /\ work[t].op = "refresh" \/ work[t].source.version \in Extracted
    /\ work' = [work EXCEPT ![t] = IF @.op \in {"load", "refresh"} THEN Idle
                                   ELSE Saving(@)]
    /\ UNCHANGED <<provs, mp, proxies, file, tickers, looping, edits, wrote, behind>>

\* Mutant: a failed refresh ends the loop of the refresh goroutine.
FailedEndsLoop(t) ==
    /\ work[t].pc = "waiting" /\ work[t].source.version \in Extracted
    /\ work' = [work EXCEPT ![t] = IF @.op = "add" THEN Saving(@)
                                   ELSE IF t \in Names THEN [Idle EXCEPT !.op = "refresh"] ELSE Idle]
    /\ behind' = IF work[t].op \in {"update", "enable"} /\ work[t].latest
                 THEN [behind EXCEPT ![work[t].name] = TRUE] ELSE behind
    /\ UNCHANGED <<provs, mp, proxies, file, tickers, looping, edits, wrote>>

\* The call fails.  Only AddProvider goes on to save.
Failed(t) ==
    /\ work[t].pc = "waiting" /\ work[t].source.version \in Extracted
    /\ work' = [work EXCEPT ![t] = IF @.op = "add" THEN Saving(@) ELSE Idle]
    /\ behind' = IF work[t].op \in {"update", "enable"} /\ work[t].latest
                 THEN [behind EXCEPT ![work[t].name] = TRUE] ELSE behind
    /\ UNCHANGED <<provs, mp, proxies, file, tickers, looping, edits, wrote>>

\* pool.RemoveExpired at the end of a refresh: of any provider, those of the
\* fetched proxies whose time is over.
RemoveExpired(t, expired) ==
    /\ work[t].pc = "expire"
    /\ proxies' = [n \in Names |-> [v \in Versions |->
                     IF <<n, v>> \in expired THEN 0 ELSE proxies[n][v]]]
    /\ wrote' = [n \in Names |-> [v \in Versions |->
                   IF <<n, v>> \in expired THEN "nobody" ELSE wrote[n][v]]]
    /\ work' = [work EXCEPT ![t] = Idle]
    /\ UNCHANGED <<provs, mp, file, tickers, looping, edits, behind>>

\* persist.SaveProvider or DeleteProvider: read, change, write and rename under
\* the file's lock.
Save(t) ==
    LET n == work[t].name
    IN  /\ work[t].pc = "save"
        /\ file' = [file EXCEPT ![n] = work[t].cfg]
        /\ behind' = [behind EXCEPT ![n] = ~work[t].latest]
        /\ work' = [work EXCEPT ![t] = Idle]
        /\ UNCHANGED <<provs, mp, proxies, tickers, looping, edits, wrote>>

\* The write fails; the error is logged and the request answered as if it had not.
SaveFails(t) ==
    /\ work[t].pc = "save"
    /\ behind' = [behind EXCEPT ![work[t].name] = @ \/ work[t].latest]
    /\ work' = [work EXCEPT ![t] = Idle]
    /\ UNCHANGED <<provs, mp, proxies, file, tickers, looping, edits, wrote>>

-----------------------------------------------------------------------------
(* Start and end of the process *)

BootHandle == CHOOSE f \in [Names -> Handles] : IsInjective(f)

\* What main takes the providers from: the file if it lists any.
BootConfig(f) == IF \E n \in Names : f[n] # Nil THEN f ELSE Yaml

\* The state in which LoadInitial has started its goroutines, given the
\* configurations: NewManager, AttachStore and SyncProvidersToStore are done.
ProvsAt(c)   == [n \in Names |-> IF c[n] = Nil THEN Nil ELSE BootHandle[n]]
ObjectsAt(c) == [h \in Handles |->
                   IF \E n \in Names : BootHandle[n] = h /\ c[n] # Nil
                   THEN LET n == CHOOSE n \in Names : BootHandle[n] = h
                        IN  [provider |-> SourceOf(c[n]), cfg |-> c[n], enabled |-> c[n].enabled]
                   ELSE NoObject]
WorkAt(c)    == [t \in Workers |->
                   IF t \in Names /\ c[t] # Nil /\ c[t].enabled
                   THEN [Begin(t, "load") EXCEPT !.pc = "waiting", !.source = SourceOf(c[t]),
                                               !.fresh = TRUE]
                   ELSE Idle]

\* The process ends and starts again; writing the file back may fail.
Restart(synced) ==
    LET c == BootConfig(file)
    IN  /\ provs' = ProvsAt(c) /\ mp' = ObjectsAt(c) /\ work' = WorkAt(c)
        /\ proxies' = [n \in Names |-> [v \in Versions |-> 0]]
        /\ file' = IF synced THEN c ELSE file
        /\ tickers' = {} /\ looping' = FALSE /\ edits' = edits
        /\ wrote' = [n \in Names |-> [v \in Versions |-> "nobody"]]
        /\ behind' = [n \in Names |-> ~synced /\ file[n] # c[n]]

\* RefreshLoop, once: a goroutine for every provider that is enabled now and
\* has an interval.
RefreshLoop ==
    /\ ~Loading /\ ~looping
    /\ looping' = TRUE
    /\ tickers' = {n \in Names : /\ provs[n] # Nil /\ mp[provs[n]].enabled
                                 /\ mp[provs[n]].cfg.version \in Ticking}
    /\ UNCHANGED <<provs, mp, proxies, file, work, wrote, behind, edits>>

-----------------------------------------------------------------------------
Init ==
    /\ provs = ProvsAt(Yaml) /\ mp = ObjectsAt(Yaml) /\ work = WorkAt(Yaml)
    /\ proxies = [n \in Names |-> [v \in Versions |-> 0]]
    /\ file = Yaml
    /\ tickers = {} /\ looping = FALSE /\ edits = 0
    /\ wrote = [n \in Names |-> [v \in Versions |-> "nobody"]]
    /\ behind = [n \in Names |-> FALSE]

\* What worker t does on its own once it has begun.
Step(t) ==
    \/ Collect(t) \/ Retune(t) \/ CallProvider(t)
    \/ \E v \in Versions : Drop(t, v)
    \/ Answered(t) \/ AnsweredEmpty(t) \/ AnsweredNothing(t) \/ Failed(t)
    \/ \E expired \in SUBSET {e \in Names \X Extracted : proxies[e[1]][e[2]] > 0} :
          RemoveExpired(t, expired)
    \/ Save(t) \/ SaveFails(t)

Administer(t, n) ==
    \/ \E c \in Submitted : AddProvider(t, n, c) \/ UpdateProvider(t, n, c)
    \/ RemoveProvider(t, n)
    \/ \E b \in BOOLEAN : SetProviderEnabled(t, n, b) \/ SetProviderPublic(t, n, b)
    \/ \E weight \in Weights \cup {0} : SetProviderWeight(t, n, weight)

Next ==
    \/ \E t \in Requests, n \in Names : Administer(t, n)
    \/ \E t \in Workers, n \in Names : RefreshProvider(t, n)
    \/ \E t \in Workers : Step(t)
    \/ RefreshLoop
    \/ \E synced \in BOOLEAN : Restart(synced)

Spec == Init /\ [][Next]_vars

\* The goroutines run, upstreams answer or time out, tickers tick.  Nobody has
\* to send a request, and the monitor need not intervene.
FairSpec ==
    /\ Spec
    /\ WF_vars(RefreshLoop)
    /\ \A t \in Workers : WF_vars(Step(t))
    /\ \A n \in Names : WF_vars(RefreshProvider(n, n))

-----------------------------------------------------------------------------
(* Properties *)

Object == [provider : Source, cfg : Config, enabled : BOOLEAN] \cup {NoObject}
Work   == [pc : {"idle", "collect", "drop", "retune", "call", "waiting", "expire", "save"},
           op : {"none", "load", "add", "remove", "update", "enable", "disable", "public",
                 "weight", "refresh"},
           name : Names \cup {Nil}, mp : Handles \cup {Nil}, cfg : Config \cup {Nil},
           source : Source \cup {Nil}, drop : SUBSET Versions,
           then : {"idle", "waiting", "save"}, latest : BOOLEAN, fresh : BOOLEAN]

Kinds  == {"nobody", "current", "overtaken", "unasked"}

\* Type correctness.
TypeOK ==
    /\ provs \in [Names -> Handles \cup {Nil}]
    /\ mp \in [Handles -> Object]
    /\ proxies \in [Names -> [Versions -> Weights \cup {0}]]
    /\ file \in [Names -> Config \cup {Nil}]
    /\ tickers \subseteq Names /\ looping \in BOOLEAN /\ edits \in 0..MaxEdits
    /\ work \in [Workers -> Work]
    /\ wrote \in [Names -> [Versions -> Kinds]]
    /\ behind \in [Names -> BOOLEAN]

AtRest(n) == \A t \in Workers : work[t].name # n

\* The pool follows the configuration: when no operation on a provider is in
\* progress, its proxies come from the upstream it is configured with, with the
\* configured weight or the one its provider object was made with, and there are
\* none if it was removed or disabled.  Two kinds of steps are exempt: one that a
\* later change of the provider has overtaken may leave any proxy or weight
\* behind, and a refresh does not ask whether its provider is enabled
\* (manager.go:515, :618).
PoolFollowsConfig ==
    \A n \in Names : AtRest(n) =>
        \A v \in Present(n) : wrote[n][v] # "overtaken" =>
            /\ provs[n] # Nil
            /\ Mem(n).version = v
            /\ proxies[n][v] \in {Mem(n).weight, mp[provs[n]].provider.weight}
            /\ mp[provs[n]].enabled \/ wrote[n][v] = "unasked"

\* The file follows memory (manager.go:81, edits survive restarts): when no
\* operation on a provider is in progress the file has its configuration, unless
\* the last change was not saved or its save was overtaken by an older one.
FileFollowsMemory ==
    \A n \in Names : AtRest(n) /\ ~behind[n] => file[n] = Mem(n)

\* A refresh goroutine goes on for ever (RefreshLoop): through failures, removal
\* of its provider and a provider of that name added again, as long as there is one.
Refreshing(n) == \E t \in Workers : work[t].name = n /\ work[t].op = "refresh"
                                      /\ work[t].pc = "waiting"
GoesOnRefreshing ==
    \A n \in Names : <>[](n \in tickers /\ provs[n] # Nil) => []<>Refreshing(n)

=============================================================================
