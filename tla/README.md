# proxy_gateway: specifications, model checking and proofs

proxy_gateway is a proxy pool in Go: *providers* fetch upstream proxies, a
*pool* keeps them with their liveness, a *health checker* probes them, clients
get one over an HTTP API or are relayed through one by a *gateway*, and a web
console changes providers, groups, accounts, alerts and settings at run time.
This directory holds TLA+ modules of its core, TLC configurations that check
them on small instances, and TLAPS proofs for every instance.

Paths below are relative to `src/`; `pool.go` is `internal/pool/pool.go`, and
so on. `PROJECT.json` lists components, runs, mutants, the line map, findings,
hazards and theorems.

## 1. Inventory

| Component | State | Operations | Hard behaviour | Correct when |
|---|---|---|---|---|
| pool registry and snapshot (`pool.go`, `model/proxy.go`) | map ID -> proxy under an RWMutex; atomic `Alive`, `Fails`, `LastUsed`; an atomically swapped snapshot; sticky sessions | `Add`, `Remove`, `RemoveExpired`, `SetCountry`, `MarkFailed`, `MarkSuccess`, `Rebuild`, `Next*`, `StickyNext` | every operation rebuilds the snapshot in its own goroutine, and nothing orders the rebuilds; fields are written without the lock; a session is looked up and recorded in two critical sections | the snapshot lists the live registered proxies; the best usable level is served; a client keeps its proxy for its window |
| group scheduling (`pool.go`) | layers per group in the snapshot; one SWRR counter per proxy | `buildGroups`, `NextInGroup(Excluding)`, `pickLayer`, `pickSWRR` | counters outlive layers and are shared by groups; integer weights scaled by latency | exact shares, no starvation, backups only when the primary is degraded |
| health checker (`health/checker.go`) | time of the last check per ID | `Run`, `CheckOnce`, `checkDue`, `checkAll`, `checkOne` | parallel probes, overlapping passes, results applied late | failing proxies leave, recovered ones return, passes end |
| usage store (`store/store.go`) | channel of 4096, batch buffer, SQLite table | `Record`, worker `run`, `flushBatch`, `prune`, `Close` | full channel, partial batch, Close against Record, crash | every accepted call recorded once and in order, or accounted for |
| provider monitor and alert dispatcher (`alert/`) | `states`, two clocks per provider; dedup map; webhook slice; a JSON file | `check`, `maybeAttemptRecovery`, `Emit`, configuration calls | stale lists, dedup against new incidents, slice shared with a running `Emit`, torn file | changes are reported, providers that stay down are refreshed |
| provider manager (`pool/manager.go`) | providers with enabled flag and configuration; a file | add, remove, update, enable, weight, priority, refresh, initial load | refreshes in flight while a provider changes; persistence after unlocking; tickers fixed at start | pool, memory and file agree |
| accounts (`auth/auth.go`), file persistence (`persist/file.go`) | accounts by name and token; three JSON files | login, register, add, update, rename, remove; save, delete, replace | two indexes over the same objects; multi-step updates, failing writes, crash between them | the indexes agree, memory and file agree, a restart loses nothing |
| gateway (`gateway/gateway.go`) | credentials per group | authenticate, pick, dial, relay, tunnel, retry | retries with exclusions, error pages, consumed bodies, silent upstreams, picks that interleave round by round | a body is sent whole to one upstream, a refusal says what happened, requests end |
| API server, settings (`server/`) | group list, settings | admin handlers, `applyGroups`, `Update` | concurrent administrators, an array shared with the pool, check and change in two critical sections | pool, gateway and file have the server's list; a change is in effect when its request is answered |
| providers, geo client, configuration, process start, web console | - | HTTP fetches, parsing, defaults, wiring, user interface | I/O | inputs of the models |

**Interaction.** `main.go` loads configuration and files, builds the manager
and the pool, then starts goroutines: health checker, refresh tickers, geo
enrichment, provider monitor, HTTP servers. All of them call the pool; the pool
calls nobody back except a notification hook. The monitor reads
`Manager.ProviderList` and calls `RefreshProvider` and `Dispatcher.Emit`.
Handlers and the gateway call `usage.Record`.

## 2. Modules

| Module | Models | Extends |
|---|---|---|
| `Pool` | registry, liveness reports, `SetProviderPriority`, `Rebuild` in four steps, `nextPrio` | |
| `HealthCheck` | the checker's passes and `checkOne`, every call into the pool step by step | `Pool` |
| `GroupLayers` | the layers of a group, SWRR, fallback, exclusion, and the changes of the pool under them; a rebuild is one step | |
| `GroupSchedule` | clients asking a group for one proxy after the other | `GroupLayers` |
| `Gateway` | requests with their attempts, step by step | `GroupLayers` |
| `Sticky` | sticky sessions and the API call that uses them | |
| `GroupAdmin` | group handlers, `applyGroups`, credentials, groups file, start | |
| `Accounts` | account operations, the two indexes, accounts file, start | |
| `UsageStore` | `Record`, the worker, `Close`, crash and restart | |
| `UsageLog` | what the usage store promises (abstract) | |
| `ProviderMonitor` | `check`, recovery attempts, `Emit` with its dedup window | |
| `ProviderManager` | the manager's operations, refreshes and initial loads step by step, the providers' file, restart | |
| `PoolProofs` | theorems about the pool and the checker | `HealthCheck` |
| `GroupLayersProofs` | theorems about sums, layers and the round-robin, and from these about the schedule and the requests | `Gateway`, `GroupSchedule` |
| `UsageStoreProofs`, `ProviderManagerProofs`, `ProviderMonitorProofs`, `AccountsProofs`, `StickyProofs`, `GroupAdminProofs` | theorems | the module of that name |
| `MC*` | values of constants for TLC | the module of that name |

Definitions whose comment begins with "Mutant:" are deliberately wrong variants
of the definition below them. Put in its place, each breaks the property that
`PROJECT.json` names: they show that the property depends on that piece of code.

### Pool

Goroutines are `Threads`; `pc` says where each is. One action is one critical
section or one atomic access: `MarkFailed` is `Get`, then `Fails.Add(1)` with the
first half of the test (`CountFailure`), then the load of `LastUsed`
(`CheckUsed`), then `Alive.Store(false)` (`Kill`). `Rebuild` is `RLock`
(`RebuildBegin`), one step per registered ID (`RebuildScan`), `RUnlock`,
`buildPrioGroups` (`RebuildGroups`, or `RebuildPanic` when the stats entry is
missing), `snap.Store`. Writers of the registry wait for scans
(`WriteLockFree`); field writes do not, as in the code.

Proxy objects (`Objs`) differ from IDs: an ID may be registered again with
another object while a report still holds the old one. `after`, `late` and
`stale` are history: which rebuilds began later, and whether one of them has
stored already.

Abstractions: `Fails` saturates at 3; `LastUsed` is zero or not; ratios are
percentages; sorting and grouping in `buildPrioGroups` read all priorities at
one instant; which proxies have expired is a free choice; `Next` is the set of
proxies it can return (a weighted random draw among them). `groupsCfg` is
empty here. `ClearSticky`, `clearSWRR` and the notification hook touch no state
of this module. `SetAlive` and `RemoveByProvider` have no caller.
A goroutine that panicked stays at `"panic"`.

### HealthCheck

A slot is one goroutine a pass may have at a time (`sem`); `stage` is its place
in `checkOne`, and its calls into the pool are the steps of `Pool`. The probe is
an oracle: it tells whether the upstream works now (`up`, changed by `Flip` at
most `MaxFlips` times). Check intervals are a flag that time sets (`Elapse`);
`Run`'s first pass over all proxies is the case in which every flag is set.
Proxies are loaded at start and none is added later; a proxy without check URLs,
for which `checkOne` returns at once, is not modelled.

### GroupLayers and GroupSchedule

`ByProv` is `regionAggregates` for one provider. `BuildLayers` is `buildGroups` for one
group, as a function of what it reads: the registered proxies, the live ones and the
order in which a rebuild comes by them. `Listing` puts the proxies of a layer in the order
of `buildLayer`: by the first mention of their provider, then as the rebuild came by them;
it decides ties, and map iteration chooses it anew for every rebuild (`order`).
`RefLatency`, `LatencyScaledWeight`, `PickSWRR`, `PickLayer` and `NextFrom` are the functions
of the same name. The code scales a weight by truncating a float64 product (`pool.go:576-582`),
which can be one less than the whole number the product should be: base 100, reference 58
and latency 100 give 57. `FallsShort` lists the cases in which it is (`Product`); with weights
below 11 there are none, and the theorems hold for every such list. Latencies and counters are their arguments, since the code reads them
at the time of the pick and not of the rebuild. Weighted random choice is a free
choice; that 1000 draws all hit excluded proxies is possible when one is
excluded. `PickRound` of `Gateway` makes the rounds of `PickLayer` one by one, in the
layers that `UsableLayers` leaves.
`tally` is history for `ExactShare`: per group, how often each proxy was served in
the round that is going on, how many answers that makes, and whether the round began
level. `answer` is the last result. The names of `GroupSchedule` differ from those of `Gateway`
(`ScheduleNext`, `ScheduleTypeOK`), so that one module can extend both.
A rebuild is one step, since its races are `Pool`'s subject; an expired proxy
keeps its SWRR counter, a removed one does not, as in the code.

### UsageStore

Each call has a goroutine of its own that tests `closed` and sends in two steps.
`Flush(n)` commits the first n rows: all of them, those before an insert that
failed, or none. `Prune(k)` deletes the k oldest rows (the clock does not go
backwards, so old rows are the first). `Crash` empties memory and keeps the table;
SQLite's durability is assumed. `turn`, `accepts` and `excused` are history.

`UsageLog` is the promise: calls are accepted, wait in order, and leave in
order, into the log or, at the end of a batch, for good. `UsageStore` implements
it with `waiting <- buf \o ch` and `log <- table`.

### ProviderMonitor

One goroutine takes `ProviderList()` (`BeginCheck`) and handles its entries in
any order (Go map order), in steps: the locked section (`Judge`),
`maybeAttemptRecovery` (`SkipRecovery`, or `AttemptRecovery` and `Refreshed`),
the report (`Report`). A disabled entry is handled under the lock in one step,
`Emit` included. Administrators, health checks and the clock act in between.
Clocks are flags: `waited` is "recoverInterval has passed since downSince",
`rested` the same for `lastRecoverAttempt`, `recent` the events younger than the
dedup window. Channels are one flag: some webhook or the e-mail is configured.
The configured interval is positive: `config.go:318` replaces 0 and
`recoverInterval` falls back on that value, so the early return for 0 cannot be
reached. Pruning the dedup map beyond 128 keys only removes entries whose window
is over.

### ProviderManager

A worker is a request (or the monitor, which refreshes like one), or the
goroutine that loads a provider at start and, later, the one that refreshes it.
Every operation is a locked section (`AddProvider`, `UpdateProvider`, ...) that
ends with the record of what the worker still has to do, followed by steps
without the lock: `pool.All()` (`Collect`), one `pool.Remove` at a time (`Drop`),
reading `mp.provider` (`CallProvider`), the upstream's answer (`Answered`,
`AnsweredEmpty`, `AnsweredNothing`, `Failed`), `RemoveExpired`, and the save
(`Save`, `SaveFails`). An operation holds the `managedProvider` it looked up, not
its name, so objects have addresses (`Handles`) and are cleared when nobody refers
to them. `mp.provider` keeps the source it was made from while `mp.cfg` changes,
as in the code. A `Restart` may come at any time: memory is lost, the file is
read, `config.yaml` is the fallback if it lists nobody, the file is written back.

Abstractions: an upstream (`Version`) lists one proxy; a tunnel and a list of
URLs are the version that does not fail and does not expire. `Weight` stands for
weight, priority and minimal ratio; submitted weights are positive (`Pool.Add`
replaces others by 1). The pool's own races are `Pool`'s subject: each call into it is
one step here, and so is the loop that sets weights. Which proxies have expired is a free
choice. Requests that are refused change nothing and are left out, as are
`lastErr`, `lastOK`, countries and a corrupt file at start.

`wrote`, `fresh` and `behind` are history. `wrote` says what kind of step last wrote each
proxy: an *overtaken* one, whose provider was changed since its worker made its change,
asked the upstream, or (a refresh) read the provider object; an *unasked* one, the
refresh of a provider that is disabled; or any other (*current*). `fresh` is what a worker
needs for that: it is cleared by every later change of the provider, and a refresh has it
if the object it read is still the registered one. `behind[n]`: the last change was not
saved (its fetch or its write failed), or an older one was saved after it.

### Gateway

A request is a record with its locals and the place it has reached. A pick loads
the snapshot's layers once (`LoadLayers`) and then makes its SWRR rounds one by one
(`PickRound`), because `pickLayer` takes the lock per round and the rounds of two
requests interleave. Dialling, writing and reading are one step each and may fail;
from each the upstream may be silent for ever, since only the dial has a deadline.
`WriteProxy` closes the body whether it succeeds or not, and `Clone` shares it
(`bodyLeft`). `handleHTTP` and `handleConnect` are one loop here; they differ in
what a failed write does. `ForwardPlain` of `/api/v1/gw` has one attempt, looks for
no error pages. `whole` and `empty` are history.
Left out: `noteUse`, a callback that only counts, header rewriting, `handleDirect`, which only reads, and `Serve`.

### Sticky

`StickyNext` in its three parts: lookup under `stickyMu`, the pick, and the record
under `stickyMu` again. Which proxy a pick returns is any live one of the group.
`Pool.Remove` deletes the proxy before it clears its sessions (`Remove`,
`ClearSticky`); `RemoveExpired` does not clear any. Whoever changes the pool is a worker:
the change, the clearing of sessions, the scan of `Rebuild` under `Pool.mu` (`RebuildScans`)
and its Store (`RebuildStores`) are steps of their own, so a rebuild can be overtaken, and a
pick can return a proxy that is gone. `told` is history: the last
answer to a client, for as long as it should hold; `alone` says that no other call
of the client has been in progress. Liveness reports are one step: counting
failures is `Pool`'s subject.

### GroupAdmin

A request checks ownership and validity (`Submit`), changes the list under
`groupsMu` (`Change`), and runs `applyGroups`: copy the list (`Copy`); `Pool.SetGroups`, which
writes `groupsCfg` (`SetGroups`) and then calls `Rebuild`, which reads whatever
`groupsCfg` is by then (`RebuildBuilds`) and stores its snapshot later (`RebuildStores`);
`Gateway.Rebuild`, which reads the server's list (`CredsRead`) and then stores its table
(`CredsStore`); and the file (`Persist`). `Rebuilders` are the other callers of `Rebuild`, the
health checker above all. So each of the four targets can be given something older after
something newer.
After a start the server and the pool have the same array (`aliased`), so an
in-place edit shows through and an unrelated rebuild picks it up; an append may or may not
leave the array. `version` counts changes, and every copy of the list carries the version it
was made at. These are history, as are `touched` (the version of the last change of each name),
`has` (the version each target was given last), `crossed` (the version at which a target was last
given an older list than it had) and `failed` (the newest version that could not be written).
`creds` is the whole table of the gateway; user name
and password are one value, as `validateGroup` asks for both or neither. Authentication
is switched on. The race on `groupsCfg`, a slice header that `SetGroups` writes
without a lock, is left at its atomic outcomes; `Rebuild` reads
it twice (`pool.go:262`, `:317`), here once.

### Accounts

Accounts are cells of a heap to which `byName` and `byToken` lead, since an update
changes the shared object in place. An operation changes memory and leaves its file
writes in `pending`; the manager's lock keeps other operations out until they are made,
but each may fail, and a `Restart` may come before any of them. Passwords are known by
the text they verify and by whether they are hashed. `Names` are names that registration
accepts. `config.yaml` may leave an account without a token (`Nil`), which no index entry leads
to and which the deletions of old tokens skip (`Without`). `dirty` and `contested` are
history: rows that a failure left behind memory, tokens that two accounts had at once (nothing keeps an administrator from giving two
accounts one token). Left out: requests that are refused and change nothing, and
`Groups` of an account, which is handled like `Role`.

## 3. Runs

| Run | Module | Shows | Bounds |
|---|---|---|---|
| `pool_concurrent` | `MCPool` | `TypeOK`; a scan sees one registry; the snapshot is exact at rest unless the last Store was overtaken | 2 goroutines, 2 objects under one ID, 2 priority levels |
| `health_serial` | `MCHealthCheck` | with concurrency 1, failing proxies leave, recovered ones return, and `Next` serves the best usable level | 3 proxies on 2 levels, two of which disagree on their level's ratio, one of them free; 3 flips |
| `health_two_passes` | `MCHealthCheck` | a `CheckOnce` overlapping the periodic pass: failing proxies leave, passes end | 1 proxy without a country, 2 passes, 3 flips |
| `health_recovery` (violation) | `MCHealthCheck` | with concurrency 2 a recovered proxy can stay out of the snapshot | 2 proxies, 4 flips |
| `group_fair` | `MCGroupSchedule` | exact shares per round, primary first, nobody starves | 4 proxies; a group with a primary and a backup layer and one that shares no proxy with it; region filters; latencies 0/10/40 |
| `gateway` | `MCGateway` | bodies are sent whole and once, refusals are honest, requests end | 2 clients, 3 proxies in a primary and a backup layer, 2 attempts |
| `sticky` | `MCSticky` | only proxies are recorded, a client keeps its proxy for its window | 2 clients, 2 calls, 2 workers, 2 proxies, 2 groups, purge above 1 session, window 2 of 3 ticks |
| `group_admin` | `MCGroupAdmin` | pool, snapshot, gateway and file have the server's list unless one was overtaken; a change is in effect when its request is answered | 2 requests and the checker's rebuild, 2 groups, 2 credentials, 2 accounts, 2 changes between two starts |
| `accounts` | `MCAccounts` | the indexes agree, tokens work, the file has what memory has, a restart loses nothing | 2 names, one of them without a token at first, 2 tokens, 3 cells, any number of operations and restarts |
| `usage_store` | `MCUsageStore` | order, uniqueness, refinement of `UsageLog`, every call settled, `Close` returns | 4 calls, channel and batch of 2, 1 crash |
| `monitor` | `MCProviderMonitor` | the dedup window hides no change, the truth is told in the end, recovery is tried again and again | 1 administered provider, 1 free provider that is always down |
| `manager` | `MCProviderManager` | pool and file follow the configuration, but for proxies an overtaken operation or the refresh of a disabled provider has written, and for lost or overtaken saves; refresh goroutines go on | 1 provider, 2 upstreams, 2 requests, 2 changes, 3 objects |

Why the bounds are enough to be interesting: two goroutines are what it takes
for one rebuild to overtake another and for a report to meet a removal; two
objects under one ID are what it takes for a late report; a channel and a batch
of 2 with 4 calls fill both and leave a partial batch; latencies 10 and 40, with 25 as
their mean, reach the upper clamp of the factor and the range between the clamps, where
a weight of 1 would be rounded to 0 (the lower clamp takes three measured proxies; what
holds for every latency is proved); two changes by two requests
(`MaxEdits`) are what it takes for one to overtake the other, with a third object
for the provider that is added again while both are held. Providers share no state but
the file, whose entries are written one by one, so one name is enough. Two attempts over
two layers reach exhaustion, the backup and the last attempt; two clients are what it
takes for one to take the turns of the other. Two names and two tokens let accounts
exchange both. Deadlock checking is off only for the
usage store, which stops when it is closed. Symmetry is used for goroutines in
`pool_concurrent`, for cells in `accounts` and for clients, calls and workers in `sticky`
and for requests in `group_admin`, which have no liveness property.

**Fairness.** `HealthCheck`: the ticker ticks, goroutines that can run do run;
nothing is assumed of upstreams, nor that anybody asks for a `CheckOnce`.
`GroupSchedule`: clients keep asking every group. `Gateway`: goroutines of requests
run; nothing is assumed of tunnels, silent upstreams or the pool. `UsageStore`: requests,
worker and a `Close` that was called go on; nobody has to call `Close`.
`ProviderMonitor`: its goroutine runs, time passes.
`ProviderManager`: goroutines run, upstreams answer or time out (every fetch has
a client timeout), tickers tick; nobody has to send a request. Go's scheduler and a running
process justify these. A mutex that is free again is taken by somebody; no
property needs that a particular waiter gets it.

### What the violation means

**Overtaken rebuilds** (`health_recovery`, root at `pool.go:267`). Two rebuilds
can store in the opposite order of their scans. `ExactUnlessOvertaken` says
that nothing else can go wrong with the snapshot. A failing proxy is repaired,
because each failure from the third on rebuilds; a recovered one is not, because
`MarkSuccess` rebuilds only when `Alive` was false. A removed proxy that is
listed again stays so until another rebuild.

Further observations on the modelled code that no run states.

*Shared counters.* `pickSWRR` keeps one counter per proxy ID for the whole pool
(`pool.go:612`). Two groups over the same two proxies of equal weight, asked in turns:
the first is served `a` every time, the second `b` every time, though each group on its
own would get both in turns (`group_fair`). `docs/scheduling.md:54` speaks of exact
splitting by weight without that limit. With such groups for `Groups`, TLC refutes
`ExactShare` within three answers; groups that share no proxy do get exact shares, which
is what `SharesAreExact` proves (`Separate`).

*Pool.* `SetProviderPriority` and `Add` write priorities without the lock that the
scan holds, so `buildPrioGroups` can look up a priority without a stats entry and
dereference nil (`pool.go:284`, `RebuildPanic`). As many SWRR rounds as proxies do not
visit every proxy when weights differ or another request takes turns in between
(`pool.go:544`): the gateway then says "all upstream proxies failed" although one was not
tried (against the comment at `gateway.go:281`); `HonestRefusal` therefore speaks of
proxies tried and not of all. `Add` of a known ID does not renew its `ExpireAt`
(`pool.go:134`).

*Sticky sessions.* A session is reused whatever group the call names; it is recorded
for every kind of proxy, while `docs/scheduling.md:92` and the comment at `pool.go:662`
speak of proxies that support stickiness; two overlapping first calls of a client get
different proxies; reuse does not extend the window; 4096 is where purging starts, not
a limit.

*Gateway.* A request with a body that failed after its body was read can only fail
again: the retries write a closed body. One without a body may reach the target several
times. Reading the first 4096 bytes to recognise an error page (`gateway.go:367`) takes them
away from the client when it is not one. Neither the TLS handshake with an https
upstream nor reading the answer has a deadline. Usage is noted for requests without
CONNECT that reached `relayHTTP` and for tunnels; a plain request through `/api/v1/gw` is
not, although the comments at `gateway.go:50` and `:80` promise it for every request that was
forwarded. `noteUse` is not modelled, and nothing is claimed of it.

*Groups.* Credentials need not be unique; the last group has them. A primary list that names a
provider twice escapes the rule that shares add up to 100 (`server.go:1759`). Groups of
`config.yaml` are back after a restart when the last group was removed, since an empty
file counts as none. Nothing orders the pushes of two requests, nor the rebuilds: `groupsCfg`,
the snapshot, the gateway's table or the file can be given an older list after a newer one
(`server.go:1805`, `pool.go:267`) and keep it until the next change or, the snapshot, until the next
rebuild. `Settled` and `InEffect` say that nothing else can go wrong; they do not say that
this cannot (`crossed`). `requireOwnedGroup` looks at the group in one critical section
and the handler changes it in another (`server.go:1643`, `:1661`): an account's request for its own
group, when that group is removed and made again by somebody else in between, changes or
removes the other's group and is answered 200, although `docs/scheduling.md:105-106` has only the
owner edit a group and everybody else answered 403. The model does that (`Submit`, `Change`), and
no property claims the contrary.

*Accounts.* An update whose new name is taken is refused after the other fields were
changed, and these are not saved (`auth.go:289`). An update that does not mention
`enabled` disables the account (`auth.go:277`). An update without a token keeps the old one
(`auth.go:278`), while the comment at `auth.go:250` has it regenerated; an account that
`config.yaml` gives no token has none until somebody sets one. A password with a `$` in it is taken for a
hash (`auth.go:33`). Registering a name that exists replaces the account
(`server.go:1358`). A crash inside a rename leaves two rows with one token. When the
accounts file cannot be read at start, the accounts of `config.yaml` are used and
`SyncAll` writes them over it (`main.go:127`).

*Settings* (not modelled). `Update` persists and applies outside the lock, so two updates
may apply in the opposite order of their saves; `os.WriteFile` is not atomic, and a file
torn by a crash stops the next start.

*Scheduling and store.* Clients that exclude proxies move the counters too, and groups that
share proxies move each other's: `NobodyStarves` and `ExactShare` fail for them
(`docs/scheduling.md:71`). `Record` tests `closed`
before it sends, so a call can be left in the channel when `Close` has returned
(`store.go:136`); `Settles` therefore speaks of calls sent before `Close`.

*Manager.* An operation on a provider that another one has overtaken can add the proxies of
a provider that was removed, disabled or replaced meanwhile, or set an old weight, and
nothing takes them back (`manager.go:541`; `"overtaken"`). Refresh goroutines
do not look at `enabled`: a disabled provider's proxies come back at the next tick
(`manager.go:515`, `:618`; `"unasked"`), although `README.md:18` has
changes made on the web take effect at run time. A refresh rebuilds proxies from the source the provider object
was made from and so takes back a weight or priority set later; `PoolFollowsConfig` allows
either of the two weights. Saves can overtake each other, or be lost (`behind`).
`UpdateProvider` takes `Enabled` of the submitted configuration into `mp.cfg` and
into the file but not into `mp.enabled` (against `manager.go:336`), so it takes
effect at the next start. If the fetch fails, `UpdateProvider` and
`SetProviderEnabled` leave memory changed and the file as it was. A removed last provider
is back after a restart when `config.yaml` lists it, since an empty file counts
as none. `RefreshLoop` starts its tickers once, for the providers that are enabled at
that moment (`manager.go:618`): one that is added or enabled later is refreshed only by
hand or, when it is down, by the monitor, although `README.md:128` lists a refresh
interval among its fields.

*The rest.* Backups of a group
are merged into one layer with the first one's ratio, while `config.go:44-48`
promises them in order; a provider that two backups name is counted twice in
`aliveTotal` (`pool.go:398`); `MarkFailed` acts on a count that a success may have
reset meanwhile (`pool.go:729` against the comment at `:728`); with no channel
configured `Emit` returns before the opposite event is cleared, so a new incident
within the window is dropped later (hence `lost` in `WindowHidesNoChange`); a free
provider that is disabled while down emits "recovered" (`monitor.go:96`, against
the comment at `:127`); 0 does not switch recovery off, although
`examples/config.yaml:78` says so.

## 4. Proofs

`PoolProofs`, for any sets of objects, IDs, tiers, providers and goroutines, from
`PoolAssumption` (types of the constants only):

- `PoolTypeCorrect`, `ScansAreConsistent`, `SnapshotExactUnlessOvertaken`.
- `ExactUnlessOvertaken` speaks of quiet states only, so it is not inductive. The
  strengthening says who will repair what is wrong: whenever the snapshot (unless
  `stale`), or a rebuild nobody has overtaken, is wrong about an object, there is
  a goroutine about to begin a rebuild or a younger rebuild that is right about it
  (`SnapshotCorrected`, `RebuildCorrected`). It rests on `AfterOrder` ("began
  after" is a strict order on the rebuilds in progress) and on
  `ScanSeesOneRegistry`. At rest nobody is on the way, so nothing is wrong.
- Steps are first sorted by kind (`StepKinds`): those that change nothing a
  rebuild looks at, those after which a rebuild is about to begin, and the steps
  of a rebuild; then each kind is shown to preserve the invariant.
- `CheckerLeavesExact`, with `HealthAssumption`: a goroutine of the checker that is at
  work has a proxy (`TargetsOK`), hence each of its steps is a step of the pool or
  none (`CheckerIsPoolStep`), and the invariant above carries over to `HSpec`.
- `SerialCheckerServesBest`, for a checker with one goroutine (`Alone`; with two the
  property is false, as `health_recovery` shows): the invariant `Serial` follows a
  rebuild through its steps. While it scans, it agrees with the registry about every
  ID it has been at; what it builds from then on is `ExactGroups`; and when it has
  nothing left to rebuild for, the snapshot is that. That the groups lead to the best
  usable level is `ExactServesBest`: a group counts the proxies of its level, and its
  ratio is the smallest in the level (`RatioFact`, by `LeastNatural`), so the level is
  usable for some proxy's ratio iff it is for the group's. `IsFiniteSet(Loaded)` is
  needed for the counts.

`UsageStoreProofs`, for any set of calls, capacity, batch size and number of
crashes, from `StoreAssumption` (positive sizes):

- `StoreTypeCorrect`: channel and buffer keep their bounds.
- `RecordedOnceInOrder`: the inductive invariant is that `table \o buf \o ch`, the
  whole pipeline, is in strict order of acceptance, with no place beyond `accepts`.
- `StoreImplementsLog`: every step is a step of `UsageLog` or a stutter under the
  mapping above; a flush of n rows of the buffer is `Settle(Len(buf), n)`.

`ProviderManagerProofs`, for any sets of providers, upstreams, weights, requests and
objects and any number of changes, from `ManagerAssumption` (types of the constants;
enough objects for the providers; 1 is a weight):

- `ManagerTypeCorrect`: with the types goes `ObjectsInUse` (a registered provider has
  an object of its own; an object somebody will read is still there) and
  `WorkerOK` (what a worker knows at each of its steps).
- `FileFollows`: `FileFollowsMemory` speaks of quiet states only. The strengthening
  `FileWillFollow` says that whenever file and memory differ, the worker that made
  the last change still has its save before it, or `behind` is set; `LatestSaves`
  says that what it will save is what memory has.
- `PoolFollows`: in the same way `PoolWillFollow` says that every proxy that is not
  as configured has a mender (`Mended`: a worker that will list it, has listed it for
  dropping, or will set its weight), or was written by an overtaken operation. What an
  operation that is not overtaken has in hand is what the configuration says
  (`UpToDate`), so what it adds needs no mender. The case that matters is a change of a
  provider that is not served: all of its proxies must already be on somebody's list
  (`PoolUnserved`).

`AccountsProofs`, for any sets of names, tokens, passwords and standings, from
`AccountsAssumption` (types; `config.yaml` has an account; `Nil` is no token) and
`CellsAssumption` (finitely many cells, one for every name and one to spare, which is
what an allocator that never fails amounts to):

- `AccountsTypeCorrect`, `TokensAreSound`: the inductive part is that names and cells
  lead to each other (`NamesLead`), so that there are never more accounts than names
  and, by the pigeonhole principle, `AddAccount` finds a cell; and that a token
  leads to an account that has it (`TokensLead`).
- `TokensDoWork`: `TokensWork` is not inductive, because an operation on one account
  may take a token that another one has. `Uncontested` adds that the holder of a
  token that is not contested is its only holder.
- `FileDoesMatch`: `RowsOK` says at every step, and not only between operations, that
  file and memory differ only where a write is pending or a failure is on record.
- `RestartsKeep`: `PendingOK` lists what may be pending. In the middle of a rename
  either the old row is still there (`Two`) or the new one already is (`Second`), so
  a restart there finds the account under one of its names. With the two writes in
  the other order this fails, which is the mutant of the property.

`StickyProofs`, for any sets of clients, calls, proxies and groups, any windows and any
limit of sessions, from `StickyAssumption` (types; windows are positive, as
`StickyNext` requires; a session is not `Nil`):

- `StickyTypeCorrect`: what a pick returns is a proxy even if the snapshot is old, and a
  session holds nothing else. It does not say that the proxy is still registered: an
  overtaken rebuild can offer one that is gone.
- `ClientsKeepTheirProxy`: `StickyHolds` is about one step; what
  carries it there is `ToldOK`: as long as the window of the last answer is open, the
  client's session is that answer, or a call of the client that found its session
  unusable has yet to answer (`Assigning`). `AloneOK` excludes the second for a call
  that is alone. That purging does no harm (`PurgedFact`) needs that a call read
  the clock in the past, and that its own session outlives that reading.

`GroupAdminProofs`, for any sets of requests, other rebuilds, accounts and groups, from
`GroupAdminAssumption` (types; requests and other rebuilds are different goroutines; no two
groups of `config.yaml` have one name, which `config.go:540` refuses):

- `PushesSettle`: `Settled` speaks of rest only. `SomebodyWill` says that, unless a target was
  given an older list since the last change, a target that does not have the newest version has a
  request that will give it that (`WillGive`): one that has yet to copy the list, carries
  a copy of the newest version, or is about to rebuild from a `groupsCfg` that is the newest.
  `CopiesOK` says that such a copy is the list of now, `HoldsOK` that a target with the
  newest version has it. The aliased array of a start does no harm because an edit that
  shows through it makes a new version.
- `ChangesTakeEffect`: `InEffect` is about the step that answers a request, when the server's
  list may be several changes further on. `Agrees` says of every list, wherever it is kept or
  carried, that it shows each group as the server's list does which was last changed by the version
  the list was made at, `LeadsRight` the same of tables of credentials; `Passed` says
  that what a request has been through has at least the version it made, unless something
  was given an older one since.
- `GroupAdminTypeCorrect`: that the server's list and the file name each group once is
  not inductive, because copies wait in requests and come back through the file at a
  start. `ListsOK` says it of every copy as well. The table takes the last
  of several groups with one credential; that there is a last one is `LeastNatural`.

`ProviderMonitorProofs`, for any sets of providers and any counts of proxies, from
`MonitorAssumption` (types of the constants; `Never` is none of the values):

- `MonitorTypeCorrect`, `WindowHidesNothing`: `WindowHidesNoChange` looks at a flag set
  when an event was dropped, so it does not say why. `WindowOK` does: unless an event
  of the provider was lost, the window holds no event but the one last reported
  (`ReportedDown`: the state on record, or, while `check` is between its change of
  `states` and its report, the state before). `Emit` is only called on a change, so
  the event it is called with is not in the window.

`GroupLayersProofs`, for any finite set of proxies, any groups, weights, latencies, orders and
clients, from `GroupAssumption` (types of the constants; weights are positive, as `Pool.Add`
makes them; a group has a primary provider; a rebuild comes by different proxies at
different times) and `GatewayAssumption` (the number of attempts is positive):

- Sums, the position in a list and `FlattenSeq` are defined by recursion, so what they
  yield for a list of any length takes an induction. `Inductively` is one without an
  operator parameter: a set of numbers up to n that does not contain 0, and with k
  contains k - 1, is empty, because it has no least member (`LeastNatural`). From it follow
  that sums exist (`SumsFact`) and are monotone and additive, that among the numbers of a
  list there is a first largest one (`FirstLargest`), and what flattened lists hold.
- Layers: ranks in a finite, strictly ordered set are a bijection (`Ranks`), so a layer
  lists each of its proxies once (`ListingFact`, `BuildLayerOK`). `ScaledWeightBounds`: a
  weight is never scaled to 0 and never beyond twice its value.
- `ScheduleTyped`, `ServesPrimaryFirst`: what `NextFrom` can yield (`NextFromFact`).
- `SharesAreExact`: `ExactShare` speaks of ends of rounds only. The strengthening `Balanced`
  says of every moment of a round that began level: the counters of the layer add up
  to 0; the counter of a proxy is (answers so far) * (its weight) - (total weight) *
  (times it was served); and nobody owes a whole round. The last one is kept because
  who is picked has the most, and all of them together have the total, which is
  positive (`TurnBalances`). At the end of a round it says that nobody was served more often than
  its weight; as the numbers add up to the total weight, nobody was served less
  (`RoundIsExact`), and all counters are 0 again, so the next round begins level.
  The hypothesis `Separate`: no proxy of a group's primary layer is one that another
  group may be served with. Without it the statement is false: see section 3,
  shared counters.
- `RequestsTyped`: with the types goes that what is left of a loaded snapshot are layers
  with live proxies, and that the rounds made in the first of them are fewer than
  its proxies (`RestOK`).
- `BodiesGoOnce`, `RefusalsAreHonest` are about the step in which a
  request ends; what carries them there is an invariant of each request on its own:
  a body written whole is gone (`BodyOK`), only a CONNECT request becomes a tunnel
  (`TunnelOK`), each attempt excluded another proxy (`AttemptsOK`), and a first pick
  that goes without a proxy found no layer (`EmptyOK`; nothing is excluded then, so a
  round passes over no layer). None of it depends on the state of the
  scheduler, so it holds whatever changes in the pool meanwhile.
- `AttemptsBounded`: at most `MaxProxyAttempts` attempts, through different proxies.

Only model-checked: the liveness properties (`FailingProxyLeaves`,
`RecoveredProxyReturns`, `PassesEnd`, `NobodyStarves`, `Settles`, `CloseReturns`,
`ToldTheTruth`, `KeepsTrying`, `GoesOnRefreshing`, `RequestsEnd`), which are outside
what the prover does. Every invariant and every action property of the passing runs is a
theorem.

## 5. Plan

Done: `Pool`, `HealthCheck`, `GroupSchedule`, `UsageStore`, `ProviderMonitor`,
`ProviderManager`, the first three first because every request depends on them; then
`Gateway`, `Accounts`, `GroupAdmin` and `Sticky`. Left, in this order:

1. `Dispatcher`: the webhook slice with its backing array shared by a running
   `Emit`; persistence with a crash in `WriteFile`.
2. The settings store of the API server.
3. An abstract registry of acknowledged configurations which `ProviderManager`
   implements as long as nothing is `behind`.

Not modelled and not planned: HTTP, TLS, SMTP and SQLite themselves, parsing of
upstream lists and YAML, the web console, the mock environment.
