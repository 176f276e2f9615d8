------------------------------ MODULE GroupAdmin ------------------------------
(***************************************************************************)
(* Group administration (internal/server/server.go:1605-1820): requests    *)
(* add, change and remove scheduling groups while the service runs.  Each  *)
(* changes the server's list under a lock and then, without one, gives the *)
(* list to the pool, has the pool rebuild its snapshot and the gateway its *)
(* table of credentials, and writes the groups file.  Requests run         *)
(* concurrently, and the health checker rebuilds the snapshot too, so      *)
(* whatever one gives can be overtaken by something older.                 *)
(*                                                                         *)
(* After a start the server's list and the pool's are the same array       *)
(* (AttachStore, main.go:87): until the first SetGroups an edit in place   *)
(* shows through, and a rebuild by the health checker picks it up.         *)
(***************************************************************************)
EXTENDS Integers, Sequences, FiniteSets, FiniteSetsExt, SequencesExt, Functions

CONSTANTS
    Handlers,     \* requests that can be in progress at a time
    Rebuilders,   \* goroutines that rebuild the snapshot for other reasons
    Accounts,     \* accounts that send them
    Admins,       \* those with the admin role
    Bodies,       \* the groups that requests describe
    Providers,    \* the providers the manager knows
    Names,        \* group names
    Creds,        \* pairs of gateway user name and password
    Configured,   \* the groups of config.yaml
    MaxChanges,   \* bound on the changes between two starts
    Nil

ASSUME GroupAdminAssumption ==
    /\ Handlers \cap Rebuilders = {}
    /\ Admins \subseteq Accounts
    /\ MaxChanges \in Nat
    /\ \A g \in Bodies : "name" \in DOMAIN g /\ g.name \in Names /\ g.cred \in Creds \cup {Nil}
    /\ Configured \in Seq(Range(Configured))
    /\ \A g \in Range(Configured) : g.name \in Names
    /\ \A j, k \in DOMAIN Configured :          \* config.go:540
          Configured[j].name = Configured[k].name => j = k
    /\ Nil \notin Accounts \cup Names \cup Creds

VARIABLES
    groups,     \* Server.groups
    poolCfg,    \* Pool.groupsCfg
    aliased,    \* groups and poolCfg are one array
    served,     \* the groups of the pool's snapshot
    creds,      \* Gateway.credToGrp
    file,       \* groups.json
    h,          \* the state of each request and each other rebuild
    version,    \* history: number of changes of groups since the start
    touched,    \* history: the change that each name was last changed in
    has,        \* history: the version of the list that each target has
    crossed,    \* history: the version at which a target was last given an older
                \* list than it had; -1: never
    failed      \* history: the newest version whose write failed; -1: none

Targets == {"config", "snapshot", "gateway", "file"}
vars    == <<groups, poolCfg, aliased, served, creds, file, h, version, touched, has, crossed,
             failed>>
history == <<has, crossed, failed>>
pushed  == <<poolCfg, aliased, served, creds, file>>
listed  == <<groups, version, touched>>

NamesOf(list) == {list[k].name : k \in DOMAIN list}
Find(list, n) == CHOOSE k \in DOMAIN list : list[k].name = n

\* validateGroup.  A weight map may leave providers out; one that has an entry
\* for each must add up to 100.
Total(weights) == FoldFunctionOnSet(+, 0, weights, DOMAIN weights)

ValidGroup(g) ==
    LET backup == UNION {Range(g.backups[k].providers) : k \in DOMAIN g.backups}
    IN  /\ g.minRatio \in 0..100
        /\ g.primary # << >>
        /\ Range(g.primary) \subseteq Providers
        /\ DOMAIN g.primaryWeights \subseteq Range(g.primary)
        /\ \A p \in DOMAIN g.primaryWeights : g.primaryWeights[p] >= 1
        /\ Cardinality(DOMAIN g.primaryWeights) = Len(g.primary) => Total(g.primaryWeights) = 100
        /\ \A k \in DOMAIN g.backups : g.backups[k].minRatio \in 0..100
        /\ backup \subseteq Providers
        /\ DOMAIN g.backupWeights \subseteq backup
        /\ \A p \in DOMAIN g.backupWeights : g.backupWeights[p] >= 1
        /\ DOMAIN g.backupWeights = backup /\ backup # {} => Total(g.backupWeights) = 100

\* rebuildCreds: the last group with the credentials has them.
CredMap(list) ==
    [c \in Creds |-> LET having == {k \in DOMAIN list : list[k].cred = c}
                     IN  IF having = {} THEN Nil ELSE list[Max(having)].name]

-----------------------------------------------------------------------------
(* A request *)

NoRequest == [stage |-> "idle", op |-> Nil, group |-> Nil, made |-> 0, list |-> << >>, ver |-> 0,
              built |-> << >>, builtVer |-> 0, map |-> Nil, mapVer |-> 0]

Goto(r, s) == h' = [h EXCEPT ![r].stage = s]
Done(r)    == h' = [h EXCEPT ![r] = NoRequest]

\* groupWritable.
Writable(a, g) == a \in Admins \/ g.owner = a

\* Non-admins always own what they write.
Owned(a, g) == IF a \in Admins THEN g ELSE [g EXCEPT !.owner = a]

\* The part of a handler before its lock: requireOwnedGroup for an update or a
\* removal, and validateGroup.  A request that fails here changes nothing.
Submit(r, op, a, g) ==
    /\ h[r].stage = "idle" /\ version < MaxChanges
    /\ op # "remove" => ValidGroup(g)
    /\ op # "add" => g.name \in NamesOf(groups) /\ Writable(a, groups[Find(groups, g.name)])
    /\ h' = [h EXCEPT ![r] = [NoRequest EXCEPT !.stage = "change", !.op = op,
                                               !.group = Owned(a, g)]]
    /\ UNCHANGED <<listed, pushed, history>>

\* Mutant: a name that is there already is not noticed.
PossibleUnchecked(op, g) == op = "add" \/ g.name \in NamesOf(groups)

\* "group already exists", "group not found".
Possible(op, g) == (op = "add") = (g.name \notin NamesOf(groups))

\* The list after the request's change.
Changed(op, g) ==
    CASE op = "add"    -> Append(groups, g)
      [] op = "update" -> ReplaceAt(groups, Find(groups, g.name), g)
      [] op = "remove" -> RemoveAt(groups, Find(groups, g.name))

\* What an array shows that groups was edited in: past the end of the list it
\* has what it had.
Through(list) ==
    [k \in DOMAIN poolCfg |-> IF k \in DOMAIN list THEN list[k] ELSE poolCfg[k]]

\* Under groupsMu.  An append moves the list to a new array when the old one
\* is full.
Change(r) ==
    LET op == h[r].op
        g  == h[r].group
    IN  /\ h[r].stage = "change" /\ version < MaxChanges
        /\ \/ /\ Possible(op, g)
              /\ groups' = Changed(op, g)
              /\ version' = version + 1
              /\ touched' = [touched EXCEPT ![g.name] = version + 1]
              /\ h' = [h EXCEPT ![r].stage = "copy", ![r].made = version + 1]
              /\ poolCfg' = IF aliased THEN Through(groups') ELSE poolCfg
              /\ aliased' \in IF op = "add" /\ aliased THEN BOOLEAN ELSE {aliased}
           \/ ~Possible(op, g) /\ Done(r) /\ UNCHANGED <<listed, poolCfg, aliased>>
        /\ UNCHANGED <<served, creds, file, history>>

-----------------------------------------------------------------------------
(* applyGroups *)

\* The history of target t getting version v.
Given(t, v) ==
    /\ has' = [has EXCEPT ![t] = v]
    /\ crossed' = IF v < has[t] THEN version ELSE crossed

Copy(r) ==
    /\ h[r].stage = "copy"
    /\ h' = [h EXCEPT ![r].stage = "setGroups", ![r].list = groups, ![r].ver = version]
    /\ UNCHANGED <<listed, pushed, history>>

\* Mutant: the pool gets the list, but its snapshot is not rebuilt.
SetGroupsNoRebuild(r) ==
    /\ h[r].stage = "setGroups"
    /\ poolCfg' = h[r].list
    /\ aliased' = FALSE
    /\ Given("config", h[r].ver)
    /\ Goto(r, "readCreds")
    /\ UNCHANGED <<listed, served, creds, file, failed>>

\* Pool.SetGroups, up to its Rebuild.
SetGroups(r) ==
    /\ h[r].stage = "setGroups"
    /\ poolCfg' = h[r].list
    /\ aliased' = FALSE
    /\ Given("config", h[r].ver)
    /\ Goto(r, "rebuild")
    /\ UNCHANGED <<listed, served, creds, file, failed>>

\* Pool.Rebuild: by a request that has set the groups, or for another reason.
\* It reads groupsCfg, whatever that is by now, ...
RebuildBuilds(t) ==
    /\ h[t].stage = IF t \in Handlers THEN "rebuild" ELSE "idle"
    /\ h' = [h EXCEPT ![t].stage = "store", ![t].built = poolCfg, ![t].builtVer = has["config"]]
    /\ UNCHANGED <<listed, pushed, history>>

\* ... and stores the snapshot it has made of it.
RebuildStores(t) ==
    /\ h[t].stage = "store"
    /\ served' = h[t].built
    /\ Given("snapshot", h[t].builtVer)
    /\ IF t \in Handlers THEN Goto(t, "readCreds") ELSE Done(t)
    /\ UNCHANGED <<listed, poolCfg, aliased, creds, file, failed>>

\* Gateway.Rebuild: rebuildCreds asks for the list of now, and stores a new map.
CredsRead(r) ==
    /\ h[r].stage = "readCreds"
    /\ h' = [h EXCEPT ![r].stage = "storeCreds", ![r].map = CredMap(groups),
                      ![r].mapVer = version]
    /\ UNCHANGED <<listed, pushed, history>>

\* Mutant: the gateway keeps its old table.
CredsStoreNothing(r) ==
    /\ h[r].stage = "storeCreds"
    /\ Goto(r, "persist")
    /\ UNCHANGED <<listed, pushed, history>>

CredsStore(r) ==
    /\ h[r].stage = "storeCreds"
    /\ creds' = h[r].map
    /\ Given("gateway", h[r].mapVer)
    /\ Goto(r, "persist")
    /\ UNCHANGED <<listed, poolCfg, aliased, served, file, failed>>

\* ReplaceGroups: the whole file is replaced by a rename; and the answer.
Persist(r) ==
    /\ h[r].stage = "persist"
    /\ file' = h[r].list
    /\ Given("file", h[r].ver)
    /\ Done(r)
    /\ UNCHANGED <<listed, poolCfg, aliased, served, creds, failed>>

\* A failure is logged, and the request answered as if there were none.
PersistFails(r) ==
    /\ h[r].stage = "persist"
    /\ failed' = Max({failed, h[r].ver})
    /\ Done(r)
    /\ UNCHANGED <<listed, pushed, has, crossed>>

-----------------------------------------------------------------------------
(* Start of the process *)

\* AttachGroups, AttachStore, gateway.New: the file's groups if there are any,
\* else those of config.yaml, which are then written to it.
Start(readable, saved) ==
    LET list == IF readable /\ file # << >> THEN file ELSE Configured
    IN  /\ groups' = list /\ poolCfg' = list /\ served' = list
        /\ aliased' = TRUE
        /\ creds' = CredMap(list)
        /\ file' = IF readable /\ saved THEN list ELSE file
        /\ h' = [t \in Handlers \cup Rebuilders |-> NoRequest]
        /\ version' = 0 /\ touched' = [n \in Names |-> 0] /\ has' = [t \in Targets |-> 0]
        /\ crossed' = -1 /\ failed' = IF file' = list THEN -1 ELSE 0

Init ==
    /\ groups = Configured /\ poolCfg = Configured /\ served = Configured
    /\ file = Configured
    /\ aliased = TRUE
    /\ creds = CredMap(Configured)
    /\ h = [t \in Handlers \cup Rebuilders |-> NoRequest]
    /\ version = 0 /\ touched = [n \in Names |-> 0] /\ has = [t \in Targets |-> 0]
    /\ crossed = -1 /\ failed = -1

Next ==
    \/ \E r \in Handlers, op \in {"add", "update", "remove"}, a \in Accounts, g \in Bodies :
          Submit(r, op, a, g)
    \/ \E r \in Handlers :
          \/ Change(r) \/ Copy(r) \/ SetGroups(r) \/ CredsRead(r) \/ CredsStore(r)
          \/ Persist(r) \/ PersistFails(r)
    \/ \E t \in Handlers \cup Rebuilders : RebuildBuilds(t) \/ RebuildStores(t)
    \/ \E readable, saved \in BOOLEAN : Start(readable, saved)

Spec == Init /\ [][Next]_vars

-----------------------------------------------------------------------------
(* Properties *)

UniqueNames(list) == \A j, k \in DOMAIN list : list[j].name = list[k].name => j = k

\* Type correctness: the server's list and the file's name each group once.
TypeOK ==
    /\ Range(groups) \cup Range(file) \cup Range(poolCfg) \cup Range(served) \subseteq
          Range(Configured) \cup {Owned(a, g) : a \in Accounts, g \in Bodies}
    /\ UniqueNames(groups) /\ UniqueNames(file)
    /\ creds \in [Creds -> Names \cup {Nil}]
    /\ version \in 0..MaxChanges
    /\ touched \in [Names -> 0..version] /\ has \in [Targets -> 0..version]
    /\ crossed \in -1..version /\ failed \in -1..version

\* No request is between its change and the end of applyGroups.
AtRest == \A r \in Handlers : h[r].stage \in {"idle", "change"}

\* When the requests are through, the pool is configured with the server's list
\* and schedules by it, the gateway lets in by it and the file has it
\* (server.go:1805), unless one of them was given an older list than it had
\* since the last change, or the newest list could not be written.
Settled ==
    AtRest /\ crossed < version =>
        /\ poolCfg = groups /\ served = groups
        /\ creds = CredMap(groups)
        /\ failed < version => file = groups

\* list has the change of request r.
Shows(list, r) == IF h[r].op = "remove" THEN h[r].group.name \notin NamesOf(list)
                  ELSE h[r].group \in Range(list)

\* A change is in effect when its request is answered (server.go:1635): the pool
\* schedules by it, the file has it, and no credentials lead to the group but
\* those it was given, while other requests and rebuilds are under way; unless
\* the group was changed again, or something was given an older list than it
\* had since the change.
InEffect ==
    [][\A r \in Handlers :
          LET n == h[r].group.name
          IN  (Persist(r) /\ touched[n] = h[r].made /\ crossed' < h[r].made) =>
                 /\ Shows(poolCfg, r) /\ Shows(served, r) /\ Shows(file', r)
                 /\ \A c \in Creds :
                       creds[c] = n => h[r].op # "remove" /\ h[r].group.cred = c]_vars

=============================================================================
