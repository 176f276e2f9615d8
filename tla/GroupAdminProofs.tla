-------------------------- MODULE GroupAdminProofs --------------------------
(***************************************************************************)
(* For any number of requests, rebuilds and changes and any groups: when   *)
(* requests are through, pool, gateway and file have the server's list,    *)
(* and a request is answered when its change is in effect, unless          *)
(* something was given an older list than it had.                          *)
(***************************************************************************)
EXTENDS GroupAdmin, SequenceTheorems, WellFoundedInduction, TLAPS

-----------------------------------------------------------------------------
(* The inductive invariant *)

\* A request is a record with these fields.
Fields == {"stage", "op", "group", "made", "list", "ver", "built", "builtVer", "map", "mapVer"}
Shaped(q) == q = [f \in Fields |-> q[f]]

Threads == Handlers \cup Rebuilders

\* The versions in a request's record are at most v.
Versions(q, v) ==
    /\ q.made \in Nat /\ q.ver \in Nat /\ q.builtVer \in Nat /\ q.mapVer \in Nat
    /\ q.made <= v /\ q.ver <= v /\ q.builtVer <= v /\ q.mapVer <= v

Types ==
    /\ version \in Nat /\ has \in [Targets -> Nat]
    /\ \A t \in Targets : has[t] <= version
    /\ crossed \in Int /\ crossed <= version /\ -1 <= crossed
    /\ failed \in Int /\ failed <= version /\ -1 <= failed
    /\ touched \in [Names -> Nat] /\ \A n \in Names : touched[n] <= version
    /\ h = [t \in Threads |-> h[t]]
    /\ \A t \in Threads : Shaped(h[t]) /\ Versions(h[t], version)
    /\ \A t \in Threads \ Handlers : h[t].stage \in {"idle", "store"}

\* The stages at which a request has a copy of the list.
Copied == {"setGroups", "rebuild", "store", "readCreds", "storeCreds", "persist"}

\* A copy of the newest version is the list of now.
CopiesOK ==
    /\ \A r \in Handlers :
          /\ h[r].stage \in Copied /\ h[r].ver = version => h[r].list = groups
          /\ h[r].stage = "storeCreds" /\ h[r].mapVer = version => h[r].map = CredMap(groups)
    /\ \A t \in Threads :
          h[t].stage = "store" /\ h[t].builtVer = version => h[t].built = groups

\* A target that has the newest version has the list of now.
HoldsOK ==
    /\ has["config"] = version => poolCfg = groups
    /\ has["snapshot"] = version => served = groups
    /\ has["gateway"] = version => creds = CredMap(groups)
    /\ has["file"] = version /\ failed < version => file = groups

\* Requests that will give a target the newest version.
WillGive(r, t) ==
    \/ h[r].stage = "copy"
    \/ t = "config" /\ h[r].stage = "setGroups" /\ h[r].ver = version
    \/ t = "snapshot" /\ h[r].stage = "setGroups" /\ h[r].ver = version
    \/ t = "snapshot" /\ h[r].stage = "rebuild" /\ has["config"] = version
    \/ t = "snapshot" /\ h[r].stage = "store" /\ h[r].builtVer = version
    \/ t = "gateway" /\ h[r].stage \in {"setGroups", "rebuild", "store", "readCreds"}
    \/ t = "gateway" /\ h[r].stage = "storeCreds" /\ h[r].mapVer = version
    \/ t = "file" /\ h[r].stage \in Copied /\ h[r].ver = version

SomebodyWill ==
    crossed < version =>
        \A t \in Targets : has[t] < version =>
            (t = "file" /\ failed = version) \/ \E r \in Handlers : WillGive(r, t)

IInv == Types /\ CopiesOK /\ HoldsOK /\ SomebodyWill

-----------------------------------------------------------------------------
(* What steps do to the records of requests and to the history *)

\* The larger of two versions.
LEMMA MaxFact ==
  ASSUME NEW a \in Int, NEW b \in Int
  PROVE  Max({a, b}) = IF a < b THEN b ELSE a
BY DEF Max

\* What it does to the history to give version v to target t.
LEMMA GivenFact ==
  ASSUME Types, NEW t \in Targets, NEW v \in Nat, v <= version, Given(t, v)
  PROVE  /\ has' \in [Targets -> Nat] /\ \A u \in Targets : has'[u] <= version
         /\ has'[t] = v /\ \A u \in Targets \ {t} : has'[u] = has[u]
         /\ crossed' = IF v < has[t] THEN version ELSE crossed
         /\ crossed' \in Int /\ crossed' <= version /\ -1 <= crossed'
         /\ crossed <= crossed'
BY DEF Types, Given

\* What Types says of one record.
LEMMA ThreadFact ==
  ASSUME Types, NEW t \in Threads
  PROVE  Shaped(h[t]) /\ Versions(h[t], version) /\ version \in Nat
BY DEF Types

\* The record of t changes to q, and no other does.
Goes(t, q) ==
    /\ h' = [s \in Threads |-> h'[s]]
    /\ h'[t] = q /\ \A s \in Threads \ {t} : h'[s] = h[s]

\* One record changes.
LEMMA OneThread ==
  ASSUME Types, NEW t \in Threads, NEW q, h' = [h EXCEPT ![t] = q]
  PROVE  Goes(t, q)
BY DEF Types, Goes

\* Request r keeps what it was sent for.
KeepsRequest(r) == h'[r].op = h[r].op /\ h'[r].group = h[r].group /\ h'[r].made = h[r].made

\* It keeps its copies too.
KeepsCopies(r) ==
    /\ h'[r].list = h[r].list /\ h'[r].ver = h[r].ver
    /\ h'[r].built = h[r].built /\ h'[r].builtVer = h[r].builtVer
    /\ h'[r].map = h[r].map /\ h'[r].mapVer = h[r].mapVer

\* A request goes on to another stage.
LEMMA GotoFact ==
  ASSUME Types, NEW r \in Threads, NEW st, Goto(r, st)
  PROVE  /\ Goes(r, h'[r]) /\ Shaped(h'[r]) /\ h'[r].stage = st
         /\ KeepsRequest(r) /\ KeepsCopies(r)
<1> DEFINE q == [h[r] EXCEPT !.stage = st]
<1>1. h' = [h EXCEPT ![r] = q]
  BY DEF Goto, Types
<1>2. /\ q.stage = st /\ q.op = h[r].op /\ q.group = h[r].group /\ q.made = h[r].made
      /\ q.list = h[r].list /\ q.ver = h[r].ver /\ q.built = h[r].built
      /\ q.builtVer = h[r].builtVer /\ q.map = h[r].map /\ q.mapVer = h[r].mapVer
      /\ Shaped(q)
  BY ThreadFact DEF Shaped, Fields
<1> HIDE DEF q
<1>3. Goes(r, q)
  BY <1>1, OneThread
<1>4. QED
  BY <1>2, <1>3 DEF Shaped, Goes, KeepsRequest, KeepsCopies

\* A request that is not there.
LEMMA IdleRequest ==
  /\ Shaped(NoRequest) /\ NoRequest.stage = "idle" /\ NoRequest.made = 0
  /\ NoRequest.ver = 0 /\ NoRequest.builtVer = 0 /\ NoRequest.mapVer = 0
BY DEF NoRequest, Shaped, Fields

\* A request ends.
LEMMA DoneFact ==
  ASSUME Types, NEW r \in Threads, Done(r)
  PROVE  Goes(r, NoRequest)
BY OneThread DEF Done

\* A request that was checked.
LEMMA SubmitFact ==
  ASSUME Types, NEW r \in Handlers, NEW op, NEW a, NEW g, Submit(r, op, a, g)
  PROVE  /\ h[r].stage = "idle" /\ Goes(r, h'[r]) /\ Shaped(h'[r])
         /\ h'[r].stage = "change" /\ h'[r].op = op /\ h'[r].group = Owned(a, g)
         /\ h'[r].made = 0 /\ h'[r].ver = 0 /\ h'[r].builtVer = 0 /\ h'[r].mapVer = 0
<1>1. PICK mine : mine = Owned(a, g)
  OBVIOUS
<1>2. PICK q : q = [NoRequest EXCEPT !.stage = "change", !.op = op, !.group = mine]
  OBVIOUS
<1>3. h[r].stage = "idle" /\ h' = [h EXCEPT ![r] = q]
  BY <1>1, <1>2 DEF Submit
<1>4. /\ q.stage = "change" /\ q.op = op /\ q.group = mine /\ q.made = 0
      /\ q.ver = 0 /\ q.builtVer = 0 /\ q.mapVer = 0 /\ Shaped(q)
  BY <1>2 DEF NoRequest, Shaped, Fields
<1>5. Goes(r, q)
  BY <1>3, OneThread DEF Threads
<1>6. h'[r] = q
  BY <1>5 DEF Goes
<1>7. Goes(r, h'[r]) /\ Shaped(h'[r])
  BY <1>4, <1>5, <1>6
<1>8. QED
  BY <1>1, <1>3, <1>4, <1>6, <1>7

\* A request that has changed the list.
LEMMA ChangeFact ==
  ASSUME Types, NEW r \in Handlers,
         h' = [h EXCEPT ![r].stage = "copy", ![r].made = version + 1]
  PROVE  /\ Goes(r, h'[r]) /\ Shaped(h'[r]) /\ h'[r].stage = "copy"
         /\ h'[r].op = h[r].op /\ h'[r].group = h[r].group /\ h'[r].made = version + 1
         /\ KeepsCopies(r)
<1> DEFINE q == [h[r] EXCEPT !.stage = "copy", !.made = version + 1]
<1>1. h' = [h EXCEPT ![r] = q]
  BY DEF Types, Threads
<1>2. /\ q.stage = "copy" /\ q.op = h[r].op /\ q.group = h[r].group /\ q.made = version + 1
      /\ q.list = h[r].list /\ q.ver = h[r].ver /\ q.built = h[r].built
      /\ q.builtVer = h[r].builtVer /\ q.map = h[r].map /\ q.mapVer = h[r].mapVer
      /\ Shaped(q)
  BY ThreadFact DEF Shaped, Fields, Threads
<1> HIDE DEF q
<1>3. Goes(r, q)
  BY <1>1, OneThread DEF Threads
<1>4. h'[r] = q
  BY <1>3 DEF Goes
<1>5. Goes(r, h'[r]) /\ Shaped(h'[r])
  BY <1>2, <1>3, <1>4
<1>6. QED
  BY <1>2, <1>4, <1>5 DEF KeepsCopies

\* A request that has copied the list.
LEMMA CopyFact ==
  ASSUME Types, NEW r \in Handlers, Copy(r)
  PROVE  /\ h[r].stage = "copy" /\ Goes(r, h'[r]) /\ Shaped(h'[r])
         /\ h'[r].stage = "setGroups" /\ KeepsRequest(r)
         /\ h'[r].list = groups /\ h'[r].ver = version
         /\ h'[r].builtVer = h[r].builtVer /\ h'[r].mapVer = h[r].mapVer
<1> DEFINE q == [h[r] EXCEPT !.stage = "setGroups", !.list = groups, !.ver = version]
<1>1. h[r].stage = "copy" /\ h' = [h EXCEPT ![r] = q]
  BY DEF Copy, Types, Threads
<1>2. /\ q.stage = "setGroups" /\ q.op = h[r].op /\ q.group = h[r].group /\ q.made = h[r].made
      /\ q.list = groups /\ q.ver = version
      /\ q.builtVer = h[r].builtVer /\ q.mapVer = h[r].mapVer /\ Shaped(q)
  BY ThreadFact DEF Shaped, Fields, Threads
<1> HIDE DEF q
<1>3. Goes(r, q)
  BY <1>1, OneThread DEF Threads
<1>4. h'[r] = q
  BY <1>3 DEF Goes
<1>5. Goes(r, h'[r]) /\ Shaped(h'[r])
  BY <1>2, <1>3, <1>4
<1>6. QED
  BY <1>1, <1>2, <1>4, <1>5 DEF KeepsRequest

\* A request or another goroutine that has built a snapshot.
LEMMA BuiltFact ==
  ASSUME Types, NEW t \in Threads, RebuildBuilds(t)
  PROVE  /\ h[t].stage = IF t \in Handlers THEN "rebuild" ELSE "idle"
         /\ Goes(t, h'[t]) /\ Shaped(h'[t])
         /\ h'[t].stage = "store" /\ KeepsRequest(t)
         /\ h'[t].list = h[t].list /\ h'[t].ver = h[t].ver /\ h'[t].mapVer = h[t].mapVer
         /\ h'[t].built = poolCfg /\ h'[t].builtVer = has["config"]
<1> DEFINE q == [h[t] EXCEPT !.stage = "store", !.built = poolCfg, !.builtVer = has["config"]]
<1>1. /\ h[t].stage = IF t \in Handlers THEN "rebuild" ELSE "idle"
      /\ h' = [h EXCEPT ![t] = q]
  BY DEF RebuildBuilds, Types
<1>2. /\ q.stage = "store" /\ q.op = h[t].op /\ q.group = h[t].group /\ q.made = h[t].made
      /\ q.list = h[t].list /\ q.ver = h[t].ver /\ q.mapVer = h[t].mapVer
      /\ q.built = poolCfg /\ q.builtVer = has["config"] /\ Shaped(q)
  BY ThreadFact DEF Shaped, Fields
<1> HIDE DEF q
<1>3. Goes(t, q)
  BY <1>1, OneThread
<1>4. h'[t] = q
  BY <1>3 DEF Goes
<1>5. Goes(t, h'[t]) /\ Shaped(h'[t])
  BY <1>2, <1>3, <1>4
<1>6. QED
  BY <1>1, <1>2, <1>4, <1>5 DEF KeepsRequest

\* A request that has made a table of credentials.
LEMMA CredsReadFact ==
  ASSUME Types, NEW r \in Handlers, CredsRead(r)
  PROVE  /\ h[r].stage = "readCreds" /\ Goes(r, h'[r]) /\ Shaped(h'[r])
         /\ h'[r].stage = "storeCreds" /\ KeepsRequest(r)
         /\ h'[r].list = h[r].list /\ h'[r].ver = h[r].ver /\ h'[r].builtVer = h[r].builtVer
         /\ h'[r].map = CredMap(groups) /\ h'[r].mapVer = version
<1>0. PICK table : table = CredMap(groups)
  OBVIOUS
<1> DEFINE q == [h[r] EXCEPT !.stage = "storeCreds", !.map = table, !.mapVer = version]
<1>1. h[r].stage = "readCreds" /\ h' = [h EXCEPT ![r] = q]
  BY <1>0 DEF CredsRead, Types, Threads
<1>2. /\ q.stage = "storeCreds" /\ q.op = h[r].op /\ q.group = h[r].group /\ q.made = h[r].made
      /\ q.list = h[r].list /\ q.ver = h[r].ver /\ q.builtVer = h[r].builtVer
      /\ q.map = table /\ q.mapVer = version /\ Shaped(q)
  BY ThreadFact DEF Shaped, Fields, Threads
<1> HIDE DEF q
<1>3. Goes(r, q)
  BY <1>1, OneThread DEF Threads
<1>4. h'[r] = q
  BY <1>3 DEF Goes
<1>5. Goes(r, h'[r]) /\ Shaped(h'[r])
  BY <1>2, <1>3, <1>4
<1>6. QED
  BY <1>0, <1>1, <1>2, <1>4, <1>5 DEF KeepsRequest

\* The version only grows and the history stays within it.
TypesKept ==
    /\ version' \in Nat /\ version <= version'
    /\ has' \in [Targets -> Nat] /\ \A u \in Targets : has'[u] <= version'
    /\ crossed' \in Int /\ crossed' <= version' /\ -1 <= crossed'
    /\ failed' \in Int /\ failed' <= version' /\ -1 <= failed'
    /\ touched' \in [Names -> Nat] /\ \A n \in Names : touched'[n] <= version'

\* The other requests are as they were.
LEMMA TypesAfter ==
  ASSUME Types, NEW t \in Threads, Goes(t, h'[t]), Shaped(h'[t]), Versions(h'[t], version'),
         t \in Handlers \/ h'[t].stage \in {"idle", "store"},
         TypesKept
  PROVE  Types'
<1>1. ASSUME NEW s \in Threads \ {t}
      PROVE  Shaped(h'[s]) /\ Versions(h'[s], version')
             /\ (s \in Handlers \/ h'[s].stage \in {"idle", "store"})
  BY DEF Types, TypesKept, Shaped, Versions, Goes
<1>2. QED
  BY <1>1 DEF Types, TypesKept, Goes

-----------------------------------------------------------------------------
(* Targets catch up with the list *)

\* A step that leaves the lists alone and moves one thread on.
LEMMA Unmoved ==
  ASSUME IInv, NEW t \in Threads, Goes(t, h'[t]),
         Types', groups' = groups, version' = version
  PROVE  /\ CredMap(groups)' = CredMap(groups)
         /\ \A r \in Handlers \ {t} :
               /\ h'[r].stage \in Copied /\ h'[r].ver = version' => h'[r].list = groups'
               /\ h'[r].stage = "storeCreds" /\ h'[r].mapVer = version' =>
                     h'[r].map = CredMap(groups)'
         /\ \A s \in Threads \ {t} :
               h'[s].stage = "store" /\ h'[s].builtVer = version' => h'[s].built = groups'
<1>1. CredMap(groups)' = CredMap(groups)
  BY DEF CredMap
<1>2. QED
  BY <1>1 DEF IInv, CopiesOK, Goes, Threads

\* Requests that do not move and were about to give a target the newest version
\* still are, unless the pool's list went back.
LEMMA StillGives ==
  ASSUME NEW t \in Threads, Goes(t, h'[t]), version' = version,
         has["config"] = version => has'["config"] = version,
         NEW u \in Targets, NEW r \in Handlers \ {t}, WillGive(r, u)
  PROVE  WillGive(r, u)'
<1>1. h'[r] = h[r]
  BY DEF Goes, Threads
<1>2. QED
  BY <1>1 DEF WillGive

\* The part before the lock (server.go:1605, 1643, 1686).
LEMMA SubmitOK ==
  ASSUME IInv, NEW r \in Handlers, NEW op \in {"add", "update", "remove"}, NEW a \in Accounts,
         NEW g \in Bodies, Submit(r, op, a, g)
  PROVE  IInv'
<1>1. /\ h[r].stage = "idle" /\ Goes(r, h'[r]) /\ Shaped(h'[r])
      /\ h'[r].stage = "change"
      /\ h'[r].made = 0 /\ h'[r].ver = 0 /\ h'[r].builtVer = 0 /\ h'[r].mapVer = 0
  BY SubmitFact DEF IInv
<1>2. /\ groups' = groups /\ poolCfg' = poolCfg /\ served' = served /\ creds' = creds
      /\ file' = file /\ version' = version /\ touched' = touched /\ has' = has
      /\ crossed' = crossed /\ failed' = failed
  BY DEF Submit, pushed, history, listed
<1>3. Types'
  <2>1. Types /\ r \in Threads /\ version \in Nat
    BY ThreadFact DEF IInv, Threads
  <2>2. Versions(h'[r], version')
    BY <1>1, <1>2, <2>1 DEF Versions, IInv, Types
  <2>3. TypesKept
    BY <1>2 DEF IInv, Types, TypesKept
  <2>4. QED
    BY <1>1, <2>1, <2>2, <2>3, TypesAfter
<1>4. CopiesOK'
  BY <1>1, <1>2, <1>3, Unmoved DEF CopiesOK, Copied, Threads
<1>5. HoldsOK'
  BY <1>2 DEF IInv, HoldsOK, CredMap
<1>6. SomebodyWill'
  <2>1. \A u \in Targets : ~WillGive(r, u)
    BY <1>1 DEF WillGive, Copied
  <2>2. QED
    BY <1>1, <1>2, <2>1, StillGives DEF IInv, SomebodyWill, Threads
<1>7. QED
  BY <1>3, <1>4, <1>5, <1>6 DEF IInv

\* Under groupsMu: the list changes, and somebody has it to give.
LEMMA ChangeOK ==
  ASSUME IInv, NEW r \in Handlers, Change(r)
  PROVE  IInv'
<1>0. /\ h[r].stage = "change" /\ served' = served /\ creds' = creds /\ file' = file
      /\ has' = has /\ crossed' = crossed /\ failed' = failed
  BY DEF Change, history
<1>1. CASE /\ version' = version + 1 /\ h' = [h EXCEPT ![r].stage = "copy", ![r].made = version + 1]
           /\ touched' = [touched EXCEPT ![h[r].group.name] = version + 1]
  <2>1. /\ Goes(r, h'[r]) /\ Shaped(h'[r]) /\ h'[r].stage = "copy"
        /\ h'[r].made = version + 1 /\ KeepsCopies(r)
    BY <1>1, ChangeFact DEF IInv
  <2>2. version' \in Nat /\ version \in Nat /\ version < version'
    BY <1>1 DEF IInv, Types
  <2>3. \A u \in Targets : has'[u] < version'
    BY <1>0, <2>2 DEF IInv, Types
  <2>4. \A s \in Threads : h[s].ver < version' /\ h[s].mapVer < version'
                           /\ h[s].builtVer < version'
    BY <2>2 DEF IInv, Types, Versions
  <2>5. Types'
    <3>0. Types /\ r \in Threads /\ Versions(h[r], version)
      BY ThreadFact DEF IInv, Threads
    <3>1. Versions(h'[r], version')
      BY <1>1, <2>1, <2>2, <3>0 DEF Versions, KeepsCopies
    <3>2. touched' \in [Names -> Nat] /\ \A n \in Names : touched'[n] <= version'
      <4>1. /\ touched \in [Names -> Nat]
            /\ version \in Nat /\ version' \in Nat /\ version < version'
            /\ \A n \in Names : touched[n] <= version
        BY <2>2 DEF IInv, Types
      <4>2. PICK m : m = h[r].group.name
        OBVIOUS
      <4>3. touched' = [touched EXCEPT ![m] = version']
        BY <1>1, <4>2
      <4>4. ASSUME NEW n \in Names PROVE touched'[n] \in Nat /\ touched'[n] <= version'
        BY <4>1, <4>3
      <4>5. QED
        BY <4>1, <4>3, <4>4
    <3>3. TypesKept
      BY <1>0, <2>2, <2>3, <3>2 DEF IInv, Types, TypesKept
    <3>4. QED
      BY <2>1, <3>0, <3>1, <3>3, TypesAfter
  <2>6. CopiesOK'
    BY <2>1, <2>2, <2>4 DEF CopiesOK, Copied, Goes, Threads
  <2>7. SomebodyWill'
    BY <2>1 DEF SomebodyWill, WillGive
  <2>8. HoldsOK'
    BY <2>2, <2>3 DEF HoldsOK, Targets
  <2>9. QED
    BY <2>5, <2>6, <2>7, <2>8 DEF IInv
<1>2. CASE Done(r) /\ groups' = groups /\ version' = version /\ touched' = touched
           /\ poolCfg' = poolCfg
  <2>1. Goes(r, NoRequest) /\ h'[r] = NoRequest
    BY <1>2, DoneFact DEF IInv, Threads, Goes
  <2>2. Types'
    <3>1. Types /\ r \in Threads /\ version \in Nat
      BY ThreadFact DEF IInv, Threads
    <3>2. Versions(h'[r], version') /\ Shaped(h'[r]) /\ Goes(r, h'[r]) /\ h'[r].stage = "idle"
      BY <1>2, <2>1, <3>1, IdleRequest DEF Versions, IInv, Types
    <3>3. TypesKept
      BY <1>0, <1>2 DEF IInv, Types, TypesKept
    <3>4. QED
      BY <3>1, <3>2, <3>3, TypesAfter
  <2>3. CopiesOK'
    BY <1>0, <1>2, <2>1, <2>2, IdleRequest, Unmoved DEF CopiesOK, Copied, Threads
  <2>4. HoldsOK'
    BY <1>0, <1>2 DEF IInv, HoldsOK, CredMap
  <2>5. SomebodyWill'
    <3>1. \A u \in Targets : ~WillGive(r, u)
      BY <1>0 DEF WillGive, Copied
    <3>2. QED
      BY <1>0, <1>2, <2>1, <3>1, StillGives DEF IInv, SomebodyWill, Threads
  <2>6. QED
    BY <2>2, <2>3, <2>4, <2>5 DEF IInv
<1>3. QED
  BY <1>1, <1>2 DEF Change, listed

\* s.groups is copied (server.go:1805).
LEMMA CopyOK ==
  ASSUME IInv, NEW r \in Handlers, Copy(r)
  PROVE  IInv'
<1>1. /\ h[r].stage = "copy" /\ Goes(r, h'[r]) /\ Shaped(h'[r])
      /\ h'[r].stage = "setGroups" /\ KeepsRequest(r)
      /\ h'[r].list = groups /\ h'[r].ver = version
      /\ h'[r].builtVer = h[r].builtVer /\ h'[r].mapVer = h[r].mapVer
  BY CopyFact DEF IInv
<1>2. /\ groups' = groups /\ poolCfg' = poolCfg /\ served' = served /\ creds' = creds
      /\ file' = file /\ version' = version /\ touched' = touched /\ has' = has
      /\ crossed' = crossed /\ failed' = failed
  BY DEF Copy, pushed, history, listed
<1>3. Types'
  <2>1. Types /\ r \in Threads /\ Versions(h[r], version) /\ version \in Nat
    BY ThreadFact DEF IInv, Threads
  <2>2. Versions(h'[r], version')
    BY <1>1, <1>2, <2>1 DEF Versions, KeepsRequest
  <2>3. TypesKept
    BY <1>2 DEF IInv, Types, TypesKept
  <2>4. QED
    BY <1>1, <2>1, <2>2, <2>3, TypesAfter
<1>4. CopiesOK'
  BY <1>1, <1>2, <1>3, Unmoved DEF CopiesOK, Copied, Threads
<1>5. HoldsOK'
  BY <1>2 DEF IInv, HoldsOK, CredMap
<1>6. SomebodyWill'
  <2>1. \A u \in Targets : WillGive(r, u)'
    BY <1>1, <1>2 DEF WillGive, Copied, Targets
  <2>2. QED
    BY <2>1 DEF SomebodyWill
<1>7. QED
  BY <1>3, <1>4, <1>5, <1>6 DEF IInv

\* The pool's list becomes the copy.
LEMMA SetGroupsOK ==
  ASSUME IInv, NEW r \in Handlers, SetGroups(r)
  PROVE  IInv'
<1>0. Types /\ r \in Threads /\ Versions(h[r], version) /\ version \in Nat
  BY ThreadFact DEF IInv, Threads
<1>1. /\ h[r].stage = "setGroups" /\ poolCfg' = h[r].list
      /\ groups' = groups /\ served' = served /\ creds' = creds /\ file' = file
      /\ version' = version /\ touched' = touched /\ failed' = failed
  BY DEF SetGroups, listed
<1>2. /\ Goes(r, h'[r]) /\ Shaped(h'[r]) /\ h'[r].stage = "rebuild"
      /\ KeepsRequest(r) /\ KeepsCopies(r)
  BY <1>0, GotoFact DEF SetGroups
<1>3. /\ has' \in [Targets -> Nat] /\ \A u \in Targets : has'[u] <= version
      /\ has'["config"] = h[r].ver /\ \A u \in Targets \ {"config"} : has'[u] = has[u]
      /\ crossed' = IF h[r].ver < has["config"] THEN version ELSE crossed
      /\ crossed' \in Int /\ crossed' <= version /\ -1 <= crossed' /\ crossed <= crossed'
  BY <1>0, GivenFact DEF SetGroups, Targets, Versions
<1>4. Types'
  <2>1. Versions(h'[r], version')
    BY <1>0, <1>1, <1>2 DEF Versions, KeepsRequest, KeepsCopies
  <2>2. TypesKept
    BY <1>0, <1>1, <1>3 DEF Types, TypesKept
  <2>3. QED
    BY <1>0, <1>2, <2>1, <2>2, TypesAfter
<1>5. /\ h[r].ver = version => h[r].list = groups
      /\ CredMap(groups)' = CredMap(groups)
  BY <1>1 DEF IInv, CopiesOK, Copied, CredMap
<1>6. CopiesOK'
  BY <1>0, <1>1, <1>2, <1>4, <1>5, Unmoved DEF CopiesOK, Copied, KeepsCopies, Threads
<1>7. HoldsOK'
  BY <1>1, <1>3, <1>5 DEF IInv, HoldsOK, Targets
<1>8. SomebodyWill'
  <2> SUFFICES ASSUME crossed' < version, NEW t \in Targets, has'[t] < version,
                      ~(t = "file" /\ failed = version)
               PROVE  \E s \in Handlers : WillGive(s, t)'
    BY <1>1 DEF SomebodyWill
  <2>1. has["config"] <= h[r].ver /\ crossed < version
    BY <1>0, <1>3 DEF Types, Targets, Versions
  <2>2. has[t] < version
    BY <1>0, <1>3, <2>1 DEF Types, Targets, Versions
  <2>3. PICK s \in Handlers : WillGive(s, t)
    BY <2>1, <2>2 DEF IInv, SomebodyWill
  <2>4. has["config"] = version => has'["config"] = version
    BY <1>0, <1>3, <2>1 DEF Versions
  <2>5. CASE s # r
    BY <1>0, <1>1, <1>2, <2>3, <2>4, <2>5, StillGives
  <2>6. CASE s = r
    <3>1. WillGive(r, t) /\ (t = "config" => has'["config"] < version)
      BY <2>3, <2>6
    <3>2. /\ t = "snapshot" => h[r].ver = version
          /\ t = "file" => h[r].ver = version
          /\ t # "config"
      BY <1>1, <1>3, <3>1 DEF WillGive
    <3>3. WillGive(r, t)'
      BY <1>1, <1>2, <1>3, <3>2 DEF WillGive, Targets, Copied, KeepsCopies
    <3>4. QED
      BY <3>3
  <2>7. QED
    BY <2>5, <2>6
<1>9. QED
  BY <1>4, <1>6, <1>7, <1>8 DEF IInv

\* A snapshot is built of the pool's list of now.
LEMMA BuildsOK ==
  ASSUME IInv, NEW t \in Threads, RebuildBuilds(t)
  PROVE  IInv'
<1>0. Types /\ Versions(h[t], version) /\ version \in Nat
  BY ThreadFact DEF IInv
<1>1. /\ h[t].stage = IF t \in Handlers THEN "rebuild" ELSE "idle"
      /\ Goes(t, h'[t]) /\ Shaped(h'[t])
      /\ h'[t].stage = "store" /\ KeepsRequest(t)
      /\ h'[t].list = h[t].list /\ h'[t].ver = h[t].ver /\ h'[t].mapVer = h[t].mapVer
      /\ h'[t].built = poolCfg /\ h'[t].builtVer = has["config"]
  BY <1>0, BuiltFact
<1>2. /\ groups' = groups /\ poolCfg' = poolCfg /\ served' = served /\ creds' = creds
      /\ file' = file /\ version' = version /\ touched' = touched /\ has' = has
      /\ crossed' = crossed /\ failed' = failed
  BY DEF RebuildBuilds, pushed, history, listed
<1>3. Types'
  <2>1. Versions(h'[t], version')
    BY <1>0, <1>1, <1>2 DEF Versions, KeepsRequest, Types, Targets
  <2>2. TypesKept
    BY <1>0, <1>2 DEF Types, TypesKept
  <2>3. QED
    BY <1>0, <1>1, <2>1, <2>2, TypesAfter
<1>4. CopiesOK'
  <2>1. t \in Handlers /\ h[t].ver = version => h[t].list = groups
    BY <1>1 DEF IInv, CopiesOK, Copied
  <2>2. has["config"] = version => poolCfg = groups
    BY DEF IInv, HoldsOK
  <2>3. QED
    BY <1>1, <1>2, <1>3, <2>1, <2>2, Unmoved DEF CopiesOK, Copied
<1>5. HoldsOK'
  BY <1>2 DEF IInv, HoldsOK, CredMap
<1>6. SomebodyWill'
  <2> SUFFICES ASSUME crossed < version, NEW u \in Targets, has[u] < version,
                      ~(u = "file" /\ failed = version)
               PROVE  \E s \in Handlers : WillGive(s, u)'
    BY <1>2 DEF SomebodyWill
  <2>1. PICK s \in Handlers : WillGive(s, u)
    BY DEF IInv, SomebodyWill
  <2>2. CASE s # t
    BY <1>1, <1>2, <2>1, <2>2, StillGives
  <2>3. CASE s = t
    <3>1. t \in Handlers /\ WillGive(t, u) /\ h[t].stage = "rebuild"
      BY <1>1, <2>1, <2>3
    <3>2. WillGive(t, u)'
      BY <1>1, <1>2, <3>1 DEF WillGive, Copied
    <3>3. QED
      BY <3>1, <3>2
  <2>4. QED
    BY <2>2, <2>3
<1>7. QED
  BY <1>3, <1>4, <1>5, <1>6 DEF IInv

\* A snapshot is stored: by a request that goes on, or by another goroutine.
LEMMA StoresFact ==
  ASSUME Types, NEW t \in Threads, RebuildStores(t)
  PROVE  /\ h[t].stage = "store" /\ served' = h[t].built
         /\ groups' = groups /\ poolCfg' = poolCfg /\ creds' = creds /\ file' = file
         /\ version' = version /\ touched' = touched /\ failed' = failed /\ aliased' = aliased
         /\ Goes(t, h'[t]) /\ Shaped(h'[t])
         /\ t \in Handlers => h'[t].stage = "readCreds" /\ KeepsRequest(t) /\ KeepsCopies(t)
         /\ t \notin Handlers => h'[t] = NoRequest
         /\ Given("snapshot", h[t].builtVer)
<1>1. CASE t \in Handlers
  BY <1>1, GotoFact DEF RebuildStores, listed
<1>2. CASE t \notin Handlers
  <2>1. Done(t)
    BY <1>2 DEF RebuildStores
  <2>2. Goes(t, NoRequest) /\ h'[t] = NoRequest
    BY <2>1, DoneFact DEF Goes
  <2>3. QED
    BY <1>2, <2>2, IdleRequest DEF RebuildStores, listed
<1>3. QED
  BY <1>1, <1>2

\* The snapshot is replaced.
LEMMA StoresOK ==
  ASSUME IInv, NEW t \in Threads, RebuildStores(t)
  PROVE  IInv'
<1>0. Types /\ Versions(h[t], version) /\ version \in Nat
  BY ThreadFact DEF IInv
<1>1. /\ h[t].stage = "store" /\ served' = h[t].built
      /\ groups' = groups /\ poolCfg' = poolCfg /\ creds' = creds /\ file' = file
      /\ version' = version /\ touched' = touched /\ failed' = failed
      /\ Goes(t, h'[t]) /\ Shaped(h'[t])
      /\ t \in Handlers => h'[t].stage = "readCreds" /\ KeepsRequest(t) /\ KeepsCopies(t)
      /\ t \notin Handlers => h'[t] = NoRequest
      /\ Given("snapshot", h[t].builtVer)
  BY <1>0, StoresFact
<1>2. h[t].builtVer \in Nat /\ h[t].builtVer <= version
  BY <1>0 DEF Versions
<1>3. /\ has' \in [Targets -> Nat] /\ \A u \in Targets : has'[u] <= version
      /\ has'["snapshot"] = h[t].builtVer /\ \A u \in Targets \ {"snapshot"} : has'[u] = has[u]
      /\ crossed' = IF h[t].builtVer < has["snapshot"] THEN version ELSE crossed
      /\ crossed' \in Int /\ crossed' <= version /\ -1 <= crossed' /\ crossed <= crossed'
  BY <1>0, <1>1, <1>2, GivenFact DEF Targets
<1>4. Types'
  <2>1. Versions(h'[t], version') /\ (t \in Handlers \/ h'[t].stage = "idle")
    BY <1>0, <1>1, IdleRequest DEF Versions, KeepsRequest, KeepsCopies
  <2>2. TypesKept
    BY <1>0, <1>1, <1>3 DEF Types, TypesKept
  <2>3. QED
    BY <1>0, <1>1, <2>1, <2>2, TypesAfter
<1>5. /\ h[t].builtVer = version => h[t].built = groups
      /\ t \in Handlers /\ h[t].ver = version => h[t].list = groups
      /\ CredMap(groups)' = CredMap(groups)
  BY <1>1 DEF IInv, CopiesOK, Copied, CredMap
<1>6. CopiesOK'
  <2>1. t \notin Handlers => h'[t].stage = "idle"
    BY <1>1, IdleRequest
  <2>2. QED
    BY <1>1, <1>4, <1>5, <2>1, Unmoved DEF CopiesOK, Copied, KeepsCopies
<1>7. HoldsOK'
  BY <1>1, <1>3, <1>5 DEF IInv, HoldsOK, Targets
<1>8. SomebodyWill'
  <2> SUFFICES ASSUME crossed' < version, NEW u \in Targets, has'[u] < version,
                      ~(u = "file" /\ failed = version)
               PROVE  \E s \in Handlers : WillGive(s, u)'
    BY <1>1 DEF SomebodyWill
  <2>1. has["snapshot"] <= h[t].builtVer /\ crossed < version
    BY <1>0, <1>2, <1>3 DEF Types, Targets
  <2>2. has[u] < version
    BY <1>0, <1>2, <1>3, <2>1 DEF Types, Targets
  <2>3. PICK s \in Handlers : WillGive(s, u)
    BY <2>1, <2>2 DEF IInv, SomebodyWill
  <2>4. has'["config"] = has["config"]
    BY <1>3 DEF Targets
  <2>5. CASE s # t
    BY <1>1, <2>3, <2>4, <2>5, StillGives
  <2>6. CASE s = t
    <3>1. t \in Handlers /\ WillGive(t, u)
      BY <2>3, <2>6
    <3>2. u = "gateway" \/ (u = "file" /\ h[t].ver = version)
      BY <1>1, <1>3, <3>1 DEF WillGive
    <3>3. WillGive(t, u)'
      BY <1>1, <3>1, <3>2 DEF WillGive, Copied, KeepsCopies
    <3>4. QED
      BY <3>1, <3>3
  <2>7. QED
    BY <2>5, <2>6
<1>9. QED
  BY <1>4, <1>6, <1>7, <1>8 DEF IInv

\* The gateway reads the list of now.
LEMMA CredsReadOK ==
  ASSUME IInv, NEW r \in Handlers, CredsRead(r)
  PROVE  IInv'
<1>0. Types /\ r \in Threads /\ Versions(h[r], version) /\ version \in Nat
  BY ThreadFact DEF IInv, Threads
<1>1. /\ h[r].stage = "readCreds" /\ Goes(r, h'[r]) /\ Shaped(h'[r])
      /\ h'[r].stage = "storeCreds" /\ KeepsRequest(r)
      /\ h'[r].list = h[r].list /\ h'[r].ver = h[r].ver /\ h'[r].builtVer = h[r].builtVer
      /\ h'[r].map = CredMap(groups) /\ h'[r].mapVer = version
  BY <1>0, CredsReadFact
<1>2. /\ groups' = groups /\ poolCfg' = poolCfg /\ served' = served /\ creds' = creds
      /\ file' = file /\ version' = version /\ touched' = touched /\ has' = has
      /\ crossed' = crossed /\ failed' = failed
  BY DEF CredsRead, pushed, history, listed
<1>3. Types'
  <2>1. Versions(h'[r], version')
    BY <1>0, <1>1, <1>2 DEF Versions, KeepsRequest
  <2>2. TypesKept
    BY <1>0, <1>2 DEF Types, TypesKept
  <2>3. QED
    BY <1>0, <1>1, <2>1, <2>2, TypesAfter
<1>4. CredMap(groups)' = CredMap(groups) /\ (h[r].ver = version => h[r].list = groups)
  BY <1>1, <1>2 DEF CredMap, IInv, CopiesOK, Copied
<1>5. CopiesOK'
  BY <1>0, <1>1, <1>2, <1>3, <1>4, Unmoved DEF CopiesOK, Copied
<1>6. HoldsOK'
  BY <1>2, <1>4 DEF IInv, HoldsOK
<1>7. SomebodyWill'
  <2> SUFFICES ASSUME crossed < version, NEW u \in Targets, has[u] < version,
                      ~(u = "file" /\ failed = version)
               PROVE  \E s \in Handlers : WillGive(s, u)'
    BY <1>2 DEF SomebodyWill
  <2>1. PICK s \in Handlers : WillGive(s, u)
    BY DEF IInv, SomebodyWill
  <2>2. CASE s # r
    BY <1>0, <1>1, <1>2, <2>1, <2>2, StillGives
  <2>3. CASE s = r
    <3>1. WillGive(r, u)'
      BY <1>1, <1>2, <2>1, <2>3 DEF WillGive, Copied
    <3>2. QED
      BY <3>1
  <2>4. QED
    BY <2>2, <2>3
<1>8. QED
  BY <1>3, <1>5, <1>6, <1>7 DEF IInv

\* The gateway's table is replaced.
LEMMA CredsStoreOK ==
  ASSUME IInv, NEW r \in Handlers, CredsStore(r)
  PROVE  IInv'
<1>0. Types /\ r \in Threads /\ Versions(h[r], version) /\ version \in Nat
  BY ThreadFact DEF IInv, Threads
<1>1. /\ h[r].stage = "storeCreds" /\ creds' = h[r].map
      /\ groups' = groups /\ poolCfg' = poolCfg /\ served' = served /\ file' = file
      /\ version' = version /\ touched' = touched /\ failed' = failed
  BY DEF CredsStore, listed
<1>2. /\ Goes(r, h'[r]) /\ Shaped(h'[r]) /\ h'[r].stage = "persist"
      /\ KeepsRequest(r) /\ KeepsCopies(r)
  BY <1>0, GotoFact DEF CredsStore
<1>3. /\ has' \in [Targets -> Nat] /\ \A u \in Targets : has'[u] <= version
      /\ has'["gateway"] = h[r].mapVer /\ \A u \in Targets \ {"gateway"} : has'[u] = has[u]
      /\ crossed' = IF h[r].mapVer < has["gateway"] THEN version ELSE crossed
      /\ crossed' \in Int /\ crossed' <= version /\ -1 <= crossed' /\ crossed <= crossed'
  BY <1>0, GivenFact DEF CredsStore, Targets, Versions
<1>4. Types'
  <2>1. Versions(h'[r], version')
    BY <1>0, <1>1, <1>2 DEF Versions, KeepsRequest, KeepsCopies
  <2>2. TypesKept
    BY <1>0, <1>1, <1>3 DEF Types, TypesKept
  <2>3. QED
    BY <1>0, <1>2, <2>1, <2>2, TypesAfter
<1>5. /\ h[r].ver = version => h[r].list = groups
      /\ h[r].mapVer = version => h[r].map = CredMap(groups)
      /\ CredMap(groups)' = CredMap(groups)
  BY <1>1 DEF IInv, CopiesOK, Copied, CredMap
<1>6. CopiesOK'
  BY <1>0, <1>1, <1>2, <1>4, <1>5, Unmoved DEF CopiesOK, Copied, KeepsCopies
<1>7. HoldsOK'
  BY <1>1, <1>3, <1>5 DEF IInv, HoldsOK, Targets
<1>8. SomebodyWill'
  <2> SUFFICES ASSUME crossed' < version, NEW t \in Targets, has'[t] < version,
                      ~(t = "file" /\ failed = version)
               PROVE  \E s \in Handlers : WillGive(s, t)'
    BY <1>1 DEF SomebodyWill
  <2>1. has["gateway"] <= h[r].mapVer /\ crossed < version
    BY <1>0, <1>3 DEF Types, Targets, Versions
  <2>2. has[t] < version
    BY <1>0, <1>3, <2>1 DEF Types, Targets, Versions
  <2>3. PICK s \in Handlers : WillGive(s, t)
    BY <2>1, <2>2 DEF IInv, SomebodyWill
  <2>4. has'["config"] = has["config"]
    BY <1>3 DEF Targets
  <2>5. CASE s # r
    BY <1>0, <1>1, <1>2, <2>3, <2>4, <2>5, StillGives
  <2>6. CASE s = r
    <3>1. t = "file" /\ h[r].ver = version
      BY <1>1, <1>3, <2>3, <2>6 DEF WillGive
    <3>2. WillGive(r, t)'
      BY <1>1, <1>2, <3>1 DEF WillGive, Copied, KeepsCopies
    <3>3. QED
      BY <3>2
  <2>7. QED
    BY <2>5, <2>6
<1>9. QED
  BY <1>4, <1>6, <1>7, <1>8 DEF IInv

\* The file is replaced, or not, and the request ends.
LEMMA PersistOK ==
  ASSUME IInv, NEW r \in Handlers, Persist(r) \/ PersistFails(r)
  PROVE  IInv'
<1>0. Types /\ r \in Threads /\ Versions(h[r], version) /\ version \in Nat
  BY ThreadFact DEF IInv, Threads
<1>1. /\ h[r].stage = "persist" /\ groups' = groups /\ poolCfg' = poolCfg /\ served' = served
      /\ creds' = creds /\ version' = version /\ touched' = touched
  BY DEF Persist, PersistFails, listed, pushed
<1>2. /\ Goes(r, h'[r]) /\ h'[r] = NoRequest /\ Shaped(h'[r]) /\ h'[r].stage = "idle"
      /\ h'[r].made = 0 /\ h'[r].ver = 0 /\ h'[r].builtVer = 0 /\ h'[r].mapVer = 0
  <2>1. Goes(r, NoRequest) /\ h'[r] = NoRequest
    BY <1>0, DoneFact DEF Persist, PersistFails, Goes
  <2>2. QED
    BY <2>1, IdleRequest
<1>3. h[r].ver = version => h[r].list = groups
  BY <1>1 DEF IInv, CopiesOK, Copied
<1>4. CredMap(groups)' = CredMap(groups)
  BY <1>1 DEF CredMap
<1>5. /\ has' \in [Targets -> Nat] /\ \A u \in Targets : has'[u] <= version
      /\ \A u \in Targets \ {"file"} : has'[u] = has[u]
      /\ crossed' \in Int /\ crossed' <= version /\ -1 <= crossed'
      /\ failed' \in Int /\ failed' <= version /\ -1 <= failed' /\ failed <= failed'
      /\ crossed' < version =>
            /\ crossed < version
            /\ has["file"] = version => has'["file"] = version
            /\ h[r].ver = version => has'["file"] = version \/ failed' = version
      /\ \/ has'["file"] = h[r].ver /\ file' = h[r].list
         \/ has'["file"] = has["file"] /\ file' = file
  <2>1. CASE Persist(r)
    <3>1. file' = h[r].list /\ Given("file", h[r].ver) /\ failed' = failed
      BY <2>1 DEF Persist
    <3>2. /\ has' \in [Targets -> Nat] /\ \A u \in Targets : has'[u] <= version
          /\ has'["file"] = h[r].ver /\ \A u \in Targets \ {"file"} : has'[u] = has[u]
          /\ crossed' = IF h[r].ver < has["file"] THEN version ELSE crossed
          /\ crossed' \in Int /\ crossed' <= version /\ -1 <= crossed' /\ crossed <= crossed'
      BY <1>0, <3>1, GivenFact DEF Targets, Versions
    <3>3. has["file"] = version => h[r].ver < has["file"] \/ h[r].ver = version
      BY <1>0 DEF Versions
    <3>4. QED
      BY <1>0, <3>1, <3>2, <3>3 DEF Types
  <2>2. CASE PersistFails(r)
    <3>1. failed' = Max({failed, h[r].ver}) /\ has' = has /\ crossed' = crossed /\ file' = file
      BY <2>2 DEF PersistFails, pushed
    <3>2. h[r].ver \in Nat /\ h[r].ver <= version /\ failed \in Int /\ failed <= version
          /\ -1 <= failed
      BY <1>0 DEF Types, Versions
    <3>3. failed' = IF failed < h[r].ver THEN h[r].ver ELSE failed
      BY <3>1, <3>2, MaxFact
    <3>4. failed' \in Int /\ failed' <= version /\ -1 <= failed' /\ failed <= failed'
      BY <1>0, <3>2, <3>3
    <3>5. h[r].ver = version => failed' = version
      BY <1>0, <3>2, <3>3
    <3>6. /\ has \in [Targets -> Nat] /\ \A u \in Targets : has[u] <= version
          /\ crossed \in Int /\ crossed <= version /\ -1 <= crossed
      BY <1>0 DEF Types
    <3>7. QED
      BY <3>1, <3>4, <3>5, <3>6
  <2>3. QED
    BY <2>1, <2>2
<1>6. Types'
  <2>1. Versions(h'[r], version')
    BY <1>0, <1>1, <1>2 DEF Versions
  <2>2. TypesKept
    BY <1>0, <1>1, <1>5 DEF Types, TypesKept
  <2>3. QED
    BY <1>0, <1>2, <2>1, <2>2, TypesAfter
<1>7. CopiesOK'
  BY <1>0, <1>1, <1>2, <1>6, Unmoved DEF CopiesOK, Copied
<1>8. HoldsOK'
  <2>1. /\ has'["config"] = has["config"] /\ has'["snapshot"] = has["snapshot"]
        /\ has'["gateway"] = has["gateway"]
    BY <1>5 DEF Targets
  <2>2. has'["file"] = version /\ failed' < version => file' = groups
    BY <1>0, <1>3, <1>5 DEF IInv, HoldsOK, Types
  <2>3. QED
    BY <1>1, <1>4, <2>1, <2>2 DEF IInv, HoldsOK
<1>9. SomebodyWill'
  <2> SUFFICES ASSUME crossed' < version, NEW t \in Targets, has'[t] < version,
                      ~(t = "file" /\ failed' = version)
               PROVE  \E s \in Handlers : WillGive(s, t)'
    BY <1>1 DEF SomebodyWill
  <2>1. crossed < version /\ has[t] < version /\ ~(t = "file" /\ failed = version)
    BY <1>0, <1>5 DEF Types
  <2>2. PICK s \in Handlers : WillGive(s, t)
    BY <2>1 DEF IInv, SomebodyWill
  <2>3. s # r
    BY <1>1, <1>5, <2>2 DEF WillGive
  <2>4. has'["config"] = has["config"]
    BY <1>5 DEF Targets
  <2>5. QED
    BY <1>0, <1>1, <1>2, <2>2, <2>3, <2>4, StillGives
<1>10. QED
  BY <1>6, <1>7, <1>8, <1>9 DEF IInv

\* After a start everybody has the list that was loaded (main.go:87).
LEMMA Fresh ==
  ASSUME groups' = poolCfg', groups' = served', creds' = CredMap(groups'),
         h' = [t \in Threads |-> NoRequest], version' = 0,
         touched' = [n \in Names |-> 0], has' = [t \in Targets |-> 0],
         crossed' = -1, failed' \in {-1, 0}, failed' = -1 => file' = groups'
  PROVE  IInv'
<1>1. \A t \in Threads : h'[t] = NoRequest
  OBVIOUS
<1>2. Types'
  BY <1>1, IdleRequest DEF Types, Versions
<1>3. CopiesOK' /\ SomebodyWill'
  BY <1>1, IdleRequest DEF CopiesOK, Copied, SomebodyWill, Threads
<1>4. HoldsOK'
  BY DEF HoldsOK
<1>5. QED
  BY <1>2, <1>3, <1>4 DEF IInv

\* A start, after an end at any point.
LEMMA StartOK ==
  ASSUME NEW readable \in BOOLEAN, NEW saved \in BOOLEAN, Start(readable, saved)
  PROVE  IInv'
BY Fresh DEF Start, Threads

\* The first start.
LEMMA InitOK == Init => IInv
<1> SUFFICES ASSUME Init PROVE IInv
  OBVIOUS
<1>1. \A t \in Threads : h[t] = NoRequest
  BY DEF Init, Threads
<1>2. Types
  BY <1>1, IdleRequest DEF Init, Types, Versions, Threads
<1>3. CopiesOK /\ SomebodyWill
  BY <1>1, IdleRequest DEF Init, CopiesOK, Copied, SomebodyWill, Threads
<1>4. HoldsOK
  BY DEF Init, HoldsOK
<1>5. QED
  BY <1>2, <1>3, <1>4 DEF IInv

\* Every step keeps the invariant.
LEMMA NextOK == IInv /\ [Next]_vars => IInv'
<1> SUFFICES ASSUME IInv, [Next]_vars PROVE IInv'
  OBVIOUS
<1>1. CASE UNCHANGED vars
  <2>1. /\ served' = served /\ groups' = groups /\ poolCfg' = poolCfg /\ creds' = creds
        /\ file' = file /\ h' = h /\ version' = version /\ touched' = touched /\ has' = has
        /\ crossed' = crossed /\ failed' = failed
    BY <1>1 DEF vars
  <2>2. Types'
    BY <2>1 DEF IInv, Types
  <2>3. SomebodyWill'
    BY <2>1 DEF IInv, SomebodyWill, WillGive
  <2>4. CredMap(groups)' = CredMap(groups)
    BY <2>1 DEF CredMap
  <2>5. CopiesOK' /\ HoldsOK'
    BY <2>1, <2>4 DEF IInv, CopiesOK, HoldsOK
  <2>6. QED
    BY <2>2, <2>3, <2>5 DEF IInv
<1>2. ASSUME NEW r \in Handlers, NEW op \in {"add", "update", "remove"}, NEW a \in Accounts,
             NEW g \in Bodies, Submit(r, op, a, g)
      PROVE  IInv'
  BY <1>2, SubmitOK
<1>3. ASSUME NEW r \in Handlers,
             \/ Change(r) \/ Copy(r) \/ SetGroups(r) \/ CredsRead(r) \/ CredsStore(r)
             \/ Persist(r) \/ PersistFails(r)
      PROVE  IInv'
  BY <1>3, ChangeOK, CopyOK, SetGroupsOK, CredsReadOK, CredsStoreOK, PersistOK
<1>4. ASSUME NEW t \in Threads, RebuildBuilds(t) \/ RebuildStores(t)
      PROVE  IInv'
  BY <1>4, BuildsOK, StoresOK
<1>5. ASSUME NEW readable \in BOOLEAN, NEW saved \in BOOLEAN, Start(readable, saved)
      PROVE  IInv'
  BY <1>5, StartOK
<1>6. QED
  BY <1>1, <1>2, <1>3, <1>4, <1>5 DEF Next, Threads

\* Every reachable state has it.
LEMMA Inductive == Spec => []IInv
BY InitOK, NextOK, PTL DEF Spec

-----------------------------------------------------------------------------
(* The lists of groups *)

\* The groups there can be.
Known == Range(Configured) \cup {Owned(a, g) : a \in Accounts, g \in Bodies}

Listing(list) == list \in Seq(Known) /\ UniqueNames(list)
Table == [Creds -> Names \cup {Nil}]

\* The stages of a request.
Working == {"change", "copy"} \cup Copied

RequestLists(q) ==
    /\ q.stage \in Working => q.group \in Known /\ q.op \in {"add", "update", "remove"}
    /\ q.stage \in Copied => Listing(q.list)
    /\ q.stage = "storeCreds" => q.map \in Table

\* Every list that is kept, copied, built from or written is one of known groups,
\* and those that become the server's list name each once.
ListsOK ==
    /\ Listing(groups) /\ Listing(file) /\ poolCfg \in Seq(Known) /\ served \in Seq(Known)
    /\ creds \in Table
    /\ version <= MaxChanges
    /\ \A r \in Handlers : RequestLists(h[r])
    /\ \A t \in Threads : h[t].stage = "store" => h[t].built \in Seq(Known)

\* A set of numbers has a least one.
LEMMA LeastNatural ==
  ASSUME NEW T, T \subseteq Nat, T # {}
  PROVE  \E x \in T : \A y \in T : x <= y
<1>1. IsWellFoundedOn({xy \in Nat \X Nat : xy[1] < xy[2]}, Nat)
  BY NatLessThanWellFounded DEF OpToRel
<1>2. PICK R : R = {xy \in Nat \X Nat : xy[1] < xy[2]}
  OBVIOUS
<1>3. PICK x \in T : \A y \in T : ~(<<y, x>> \in R)
  BY <1>1, <1>2, WFMin
<1>4. ASSUME NEW y \in T PROVE x <= y
  <2>1. <<y, x>> \in Nat \X Nat /\ <<y, x>>[1] = y /\ <<y, x>>[2] = x
    OBVIOUS
  <2>2. ~(y < x)
    BY <1>2, <1>3, <2>1
  <2>3. QED
    BY <2>2
<1>5. QED
  BY <1>4

\* A set of positions has a last one.
LEMMA LastPosition ==
  ASSUME NEW n \in Nat, NEW S, S \subseteq 1..n, S # {}
  PROVE  Max(S) \in S
<1> DEFINE T == {n - k : k \in S}
<1>1. \A k \in S : k \in Nat /\ k <= n /\ n - k \in Nat
  OBVIOUS
<1>2. T \subseteq Nat /\ T # {}
  BY <1>1
<1>3. PICK x \in T : \A y \in T : x <= y
  BY <1>2, LeastNatural
<1>4. PICK m \in S : x = n - m
  BY <1>3
<1>5. ASSUME NEW k \in S PROVE m >= k
  <2>1. n - m <= n - k
    BY <1>3, <1>4
  <2>2. QED
    BY <1>1, <2>1
<1>6. QED
  BY <1>5 DEF Max

\* Known groups have known names; who owns one does not matter.
LEMMA KnownNames == \A g \in Known : g.name \in Names
<1>1. ASSUME NEW a \in Accounts, NEW g \in Bodies PROVE Owned(a, g).name \in Names
  <2>1. "name" \in DOMAIN g /\ g.name \in Names
    BY GroupAdminAssumption
  <2>2. [g EXCEPT !.owner = a].name = g.name
    BY <2>1
  <2>3. QED
    BY <2>1, <2>2 DEF Owned
<1>2. QED
  BY <1>1, GroupAdminAssumption DEF Known

\* The groups of config.yaml are a list.
LEMMA ConfiguredListing == Listing(Configured)
<1>1. Configured \in Seq(Range(Configured)) /\ Range(Configured) \subseteq Known
  BY GroupAdminAssumption DEF Known
<1>2. Configured \in Seq(Known)
  BY <1>1
<1>3. UniqueNames(Configured)
  BY GroupAdminAssumption DEF UniqueNames
<1>4. QED
  BY <1>2, <1>3 DEF Listing

\* rebuildCreds maps credentials to names of groups.
LEMMA CredMapTable ==
  ASSUME NEW list \in Seq(Known)
  PROVE  CredMap(list) \in Table
<1>1. ASSUME NEW c \in Creds, NEW having, having = {k \in DOMAIN list : list[k].cred = c},
             having # {}
      PROVE  list[Max(having)].name \in Names
  <2>1. Len(list) \in Nat /\ DOMAIN list = 1..Len(list)
    OBVIOUS
  <2>2. Max(having) \in having
    BY <1>1, <2>1, LastPosition
  <2>3. Max(having) \in DOMAIN list
    BY <1>1, <2>2
  <2>4. list[Max(having)] \in Known
    BY <2>1, <2>3
  <2>5. QED
    BY <2>4, KnownNames
<1>2. QED
  BY <1>1 DEF CredMap, Table

\* A group with a new name is appended.
LEMMA AddListing ==
  ASSUME NEW list, Listing(list), NEW g \in Known, g.name \notin NamesOf(list)
  PROVE  Listing(Append(list, g)) /\ Range(Append(list, g)) = Range(list) \cup {g}
<1>1. list \in Seq(Known) /\ UniqueNames(list) /\ Append(list, g) \in Seq(Known)
  BY DEF Listing
<1>2. PICK new : new = Append(list, g)
  OBVIOUS
<1>3. PICK n \in Nat : n = Len(list) /\ DOMAIN list = 1..n
  BY <1>1
<1>4. DOMAIN new = 1..(n + 1) /\ new[n + 1] = g /\ \A k \in 1..n : new[k] = list[k]
  BY <1>1, <1>2, <1>3
<1>5. \A k \in 1..n : list[k].name # g.name
  BY <1>3 DEF NamesOf
<1>6. ASSUME NEW j \in DOMAIN new, NEW k \in DOMAIN new, new[j].name = new[k].name
      PROVE  j = k
  <2>1. CASE j \in 1..n /\ k \in 1..n
    BY <1>1, <1>3, <1>4, <1>6, <2>1 DEF UniqueNames
  <2>2. CASE j \in 1..n /\ k \notin 1..n
    <3>1. k = n + 1
      BY <1>4, <2>2
    <3>2. QED
      BY <1>4, <1>5, <1>6, <2>2, <3>1
  <2>3. CASE j \notin 1..n /\ k \in 1..n
    <3>1. j = n + 1
      BY <1>4, <2>3
    <3>2. QED
      BY <1>4, <1>5, <1>6, <2>3, <3>1
  <2>4. CASE j \notin 1..n /\ k \notin 1..n
    BY <1>4, <2>4
  <2>5. QED
    BY <2>1, <2>2, <2>3, <2>4
<1>7. Range(new) = Range(list) \cup {g}
  BY <1>3, <1>4 DEF Range
<1>8. QED
  BY <1>1, <1>2, <1>6, <1>7 DEF Listing, UniqueNames

\* A group takes the place of the one with its name.
LEMMA UpdateListing ==
  ASSUME NEW list, Listing(list), NEW g \in Known, g.name \in NamesOf(list)
  PROVE  /\ Listing(ReplaceAt(list, Find(list, g.name), g))
         /\ Range(ReplaceAt(list, Find(list, g.name), g)) =
               {list[k] : k \in DOMAIN list \ {Find(list, g.name)}} \cup {g}
<1>1. list \in Seq(Known) /\ UniqueNames(list)
  BY DEF Listing
<1>2. PICK i \in DOMAIN list : i = Find(list, g.name) /\ list[i].name = g.name
  BY DEF Find, NamesOf
<1>3. PICK new : new = ReplaceAt(list, Find(list, g.name), g)
  OBVIOUS
<1>4. new = [list EXCEPT ![i] = g]
  BY <1>2, <1>3 DEF ReplaceAt
<1>5. /\ DOMAIN new = DOMAIN list /\ new \in Seq(Known)
      /\ \A k \in DOMAIN list : new[k] = IF k = i THEN g ELSE list[k]
  BY <1>1, <1>2, <1>4
<1>6. DOMAIN new = DOMAIN list /\ \A k \in DOMAIN list : new[k].name = list[k].name
  BY <1>2, <1>5
<1>7. UniqueNames(new)
  BY <1>1, <1>6 DEF UniqueNames
<1>8. Range(new) = {list[k] : k \in DOMAIN list \ {i}} \cup {g}
  BY <1>2, <1>5 DEF Range
<1>9. QED
  BY <1>2, <1>3, <1>5, <1>7, <1>8 DEF Listing

\* A group is taken out.
LEMMA RemoveListing ==
  ASSUME NEW list, Listing(list), NEW i \in DOMAIN list
  PROVE  /\ Listing(RemoveAt(list, i))
         /\ Range(RemoveAt(list, i)) = {list[k] : k \in DOMAIN list \ {i}}
<1>1. list \in Seq(Known) /\ UniqueNames(list)
  BY DEF Listing
<1>2. PICK n \in Nat : n = Len(list) /\ DOMAIN list = 1..n
  BY <1>1
<1>3. i \in 1..n /\ i \in Nat
  BY <1>2
<1>4. PICK front : front = SubSeq(list, 1, i - 1)
  OBVIOUS
<1>5. PICK back : back = SubSeq(list, i + 1, n)
  OBVIOUS
<1>6. /\ front \in Seq(Known) /\ Len(front) = i - 1
      /\ \A k \in 1..(i - 1) : front[k] = list[k]
  BY <1>1, <1>2, <1>3, <1>4
<1>7. /\ back \in Seq(Known) /\ Len(back) = n - i
      /\ \A k \in 1..(n - i) : back[k] = list[i + k]
  BY <1>1, <1>2, <1>3, <1>5
<1>8. PICK new : new = front \o back
  OBVIOUS
<1>9. RemoveAt(list, i) = new
  BY <1>2, <1>4, <1>5, <1>8 DEF RemoveAt
<1>10. new \in Seq(Known) /\ Len(new) = n - 1 /\ DOMAIN new = 1..(n - 1)
  <2>1. new \in Seq(Known) /\ Len(new) = Len(front) + Len(back)
    BY <1>6, <1>7, <1>8, ConcatProperties
  <2>2. Len(new) = n - 1 /\ DOMAIN new = 1..Len(new)
    BY <1>3, <1>6, <1>7, <2>1
  <2>3. QED
    BY <2>1, <2>2
<1>11. ASSUME NEW k \in 1..(n - 1) PROVE new[k] = IF k < i THEN list[k] ELSE list[k + 1]
  <2>1. CASE k < i
    BY <1>3, <1>6, <1>7, <1>8, <2>1
  <2>2. CASE ~(k < i)
    <3>1. k - (i - 1) \in 1..(n - i) /\ i + (k - (i - 1)) = k + 1
      BY <1>3, <2>2
    <3>2. new[k] = back[k - (i - 1)]
      BY <1>3, <1>6, <1>7, <1>8, <2>2
    <3>3. QED
      BY <1>7, <2>2, <3>1, <3>2
  <2>3. QED
    BY <2>1, <2>2
<1>12. ASSUME NEW j \in 1..(n - 1), NEW k \in 1..(n - 1), new[j].name = new[k].name
       PROVE  j = k
  <2>1. PICK x \in 1..n : x = IF j < i THEN j ELSE j + 1
    BY <1>3
  <2>2. PICK y \in 1..n : y = IF k < i THEN k ELSE k + 1
    BY <1>3
  <2>3. new[j] = list[x] /\ new[k] = list[y]
    BY <1>11, <2>1, <2>2
  <2>4. x = y
    BY <1>1, <1>2, <1>12, <2>3 DEF UniqueNames
  <2>5. QED
    BY <1>3, <2>1, <2>2, <2>4
<1>13. UniqueNames(new)
  BY <1>10, <1>12 DEF UniqueNames
<1>14. Range(new) = {list[k] : k \in DOMAIN list \ {i}}
  <2>1. ASSUME NEW k \in 1..(n - 1) PROVE new[k] \in {list[x] : x \in DOMAIN list \ {i}}
    <3>1. PICK x \in 1..n : x = IF k < i THEN k ELSE k + 1
      BY <1>3
    <3>2. x # i /\ new[k] = list[x]
      BY <1>3, <1>11, <3>1
    <3>3. QED
      BY <1>2, <3>2
  <2>2. ASSUME NEW x \in DOMAIN list \ {i} PROVE list[x] \in Range(new)
    <3>1. x \in 1..n /\ x # i
      BY <1>2
    <3>2. PICK k \in 1..(n - 1) : k = IF x < i THEN x ELSE x - 1
      BY <1>3, <3>1
    <3>3. list[x] = new[k]
      BY <1>3, <1>11, <3>1, <3>2
    <3>4. QED
      BY <1>10, <3>3 DEF Range
  <2>3. QED
    BY <1>10, <2>1, <2>2 DEF Range
<1>15. QED
  BY <1>9, <1>10, <1>13, <1>14 DEF Listing

\* The lists are left alone, and one thread goes on.
LEMMA ListsKept ==
  ASSUME ListsOK, NEW t \in Threads, Goes(t, h'[t]),
         t \in Handlers => RequestLists(h'[t]),
         h'[t].stage = "store" => h'[t].built \in Seq(Known),
         Listing(groups'), Listing(file'), poolCfg' \in Seq(Known), served' \in Seq(Known),
         creds' \in Table, version' <= MaxChanges
  PROVE  ListsOK'
<1>1. ASSUME NEW s \in Handlers PROVE RequestLists(h'[s])
  BY DEF ListsOK, Goes, Threads
<1>2. \A s \in Handlers : RequestLists(h[s])'
  BY <1>1 DEF RequestLists, Listing, UniqueNames
<1>3. \A s \in Threads : h'[s].stage = "store" => h'[s].built \in Seq(Known)
  BY DEF ListsOK, Goes
<1>4. QED
  BY <1>2, <1>3 DEF ListsOK, Listing, UniqueNames

\* A request whose group has been checked.
LEMMA SubmitLists ==
  ASSUME IInv, ListsOK, NEW r \in Handlers, NEW op \in {"add", "update", "remove"},
         NEW a \in Accounts, NEW g \in Bodies, Submit(r, op, a, g)
  PROVE  ListsOK'
<1>1. /\ h[r].stage = "idle" /\ Goes(r, h'[r])
      /\ h'[r].stage = "change" /\ h'[r].op = op /\ h'[r].group = Owned(a, g)
  BY SubmitFact DEF IInv
<1>2. /\ groups' = groups /\ poolCfg' = poolCfg /\ served' = served /\ creds' = creds
      /\ file' = file /\ version' = version
  BY DEF Submit, pushed, listed
<1>3. Owned(a, g) \in Known
  BY DEF Known
<1>4. RequestLists(h'[r])
  BY <1>1, <1>3 DEF RequestLists, Copied
<1>5. QED
  BY <1>1, <1>2, <1>4, ListsKept DEF ListsOK, Threads

\* What an array shows that was edited in is a list of groups.
LEMMA ThroughOK ==
  ASSUME NEW list \in Seq(Known), poolCfg \in Seq(Known)
  PROVE  Through(list) \in Seq(Known)
<1>1. PICK n \in Nat : DOMAIN poolCfg = 1..n
  OBVIOUS
<1>2. \A k \in DOMAIN poolCfg :
         (IF k \in DOMAIN list THEN list[k] ELSE poolCfg[k]) \in Known
  OBVIOUS
<1>3. Through(list) \in [1..n -> Known]
  BY <1>1, <1>2 DEF Through
<1>4. QED
  BY <1>3

\* The list after a change that is possible names each group once.
LEMMA ChangedListing ==
  ASSUME Listing(groups), NEW op \in {"add", "update", "remove"}, NEW g \in Known,
         Possible(op, g)
  PROVE  Listing(Changed(op, g))
<1>1. CASE op = "add"
  <2>1. Changed(op, g) = Append(groups, g) /\ g.name \notin NamesOf(groups)
    BY <1>1 DEF Changed, Possible
  <2>2. Listing(Append(groups, g))
    BY <2>1, AddListing
  <2>3. QED
    BY <2>1, <2>2
<1>2. CASE op = "update"
  <2>1. /\ Changed(op, g) = ReplaceAt(groups, Find(groups, g.name), g)
        /\ g.name \in NamesOf(groups)
    BY <1>2 DEF Changed, Possible
  <2>2. Listing(ReplaceAt(groups, Find(groups, g.name), g))
    BY <2>1, UpdateListing
  <2>3. QED
    BY <2>1, <2>2
<1>3. CASE op = "remove"
  <2>1. Changed(op, g) = RemoveAt(groups, Find(groups, g.name)) /\ g.name \in NamesOf(groups)
    BY <1>3 DEF Changed, Possible
  <2>2. Find(groups, g.name) \in DOMAIN groups
    BY <2>1 DEF Find, NamesOf
  <2>3. Listing(RemoveAt(groups, Find(groups, g.name)))
    BY <2>2, RemoveListing
  <2>4. QED
    BY <2>1, <2>3
<1>4. QED
  BY <1>1, <1>2, <1>3

\* Under groupsMu the name is looked up again: the list is one of different
\* names after the change (server.go:1622, 1661, 1689).
LEMMA ChangeLists ==
  ASSUME IInv, ListsOK, NEW r \in Handlers, Change(r)
  PROVE  ListsOK'
<1>1. /\ h[r].stage = "change" /\ version < MaxChanges
      /\ served' = served /\ creds' = creds /\ file' = file
  BY DEF Change, history
<1>2. CASE /\ Possible(h[r].op, h[r].group) /\ groups' = Changed(h[r].op, h[r].group)
           /\ version' = version + 1
           /\ h' = [h EXCEPT ![r].stage = "copy", ![r].made = version + 1]
           /\ poolCfg' = IF aliased THEN Through(groups') ELSE poolCfg
  <2>1. PICK g \in Known : g = h[r].group
    BY <1>1 DEF ListsOK, RequestLists, Working
  <2>2. PICK op \in {"add", "update", "remove"} : op = h[r].op
    BY <1>1 DEF ListsOK, RequestLists, Working
  <2>3. Listing(groups')
    <3>1. Possible(op, g) /\ groups' = Changed(op, g) /\ Listing(groups)
      BY <1>2, <2>1, <2>2 DEF ListsOK
    <3>2. Listing(Changed(op, g))
      BY <3>1, ChangedListing
    <3>3. QED
      BY <3>1, <3>2
  <2>4. poolCfg' \in Seq(Known)
    <3>1. PICK list \in Seq(Known) : list = groups'
      BY <2>3 DEF Listing
    <3>2. Through(list) \in Seq(Known)
      BY <3>1, ThroughOK DEF ListsOK
    <3>3. poolCfg' = IF aliased THEN Through(list) ELSE poolCfg
      BY <1>2, <3>1
    <3>4. QED
      BY <3>2, <3>3 DEF ListsOK
  <2>5. /\ h'[r].stage = "copy" /\ h'[r].op = op /\ h'[r].group = g /\ Goes(r, h'[r])
    BY <1>2, <2>1, <2>2, ChangeFact DEF IInv
  <2>6. RequestLists(h'[r])
    BY <2>1, <2>2, <2>5 DEF RequestLists, Copied
  <2>7. version' <= MaxChanges
    BY <1>1, <1>2, GroupAdminAssumption DEF IInv, Types
  <2>8. QED
    BY <1>1, <2>3, <2>4, <2>5, <2>6, <2>7, ListsKept DEF ListsOK, Threads
<1>3. CASE Done(r) /\ groups' = groups /\ version' = version /\ poolCfg' = poolCfg
  <2>1. h'[r].stage = "idle" /\ Goes(r, h'[r])
    BY <1>3, DoneFact, IdleRequest DEF IInv, Goes, Threads
  <2>2. RequestLists(h'[r])
    BY <2>1 DEF RequestLists, Copied, Working
  <2>3. QED
    BY <1>1, <1>3, <2>1, <2>2, ListsKept DEF ListsOK, Threads
<1>4. QED
  BY <1>2, <1>3 DEF Change, listed

\* A request copies the list.
LEMMA CopyLists ==
  ASSUME IInv, ListsOK, NEW r \in Handlers, Copy(r)
  PROVE  ListsOK'
<1>1. /\ groups' = groups /\ poolCfg' = poolCfg /\ served' = served /\ creds' = creds
      /\ file' = file /\ version' = version
  BY DEF Copy, pushed, listed
<1>2. /\ h[r].stage = "copy" /\ Goes(r, h'[r]) /\ h'[r].stage = "setGroups" /\ KeepsRequest(r)
      /\ h'[r].list = groups
  BY CopyFact DEF IInv
<1>3. RequestLists(h'[r])
  BY <1>2 DEF RequestLists, ListsOK, KeepsRequest, Working
<1>4. QED
  BY <1>1, <1>2, <1>3, ListsKept DEF ListsOK, Threads

\* The copy becomes the pool's list.
LEMMA SetGroupsLists ==
  ASSUME IInv, ListsOK, NEW r \in Handlers, SetGroups(r)
  PROVE  ListsOK'
<1>1. /\ h[r].stage = "setGroups" /\ poolCfg' = h[r].list /\ served' = served
      /\ groups' = groups /\ creds' = creds /\ file' = file /\ version' = version
  BY DEF SetGroups, listed
<1>2. Goes(r, h'[r]) /\ h'[r].stage = "rebuild" /\ KeepsRequest(r) /\ KeepsCopies(r)
  BY GotoFact DEF SetGroups, IInv, Threads
<1>3. Listing(h[r].list)
  BY <1>1 DEF ListsOK, RequestLists, Copied
<1>4. RequestLists(h'[r])
  BY <1>1, <1>2, <1>3 DEF RequestLists, ListsOK, KeepsRequest, KeepsCopies, Working, Copied
<1>5. QED
  BY <1>1, <1>2, <1>3, <1>4, ListsKept DEF ListsOK, Listing, Threads

\* A snapshot is built of the pool's list.
LEMMA BuildsLists ==
  ASSUME IInv, ListsOK, NEW t \in Threads, RebuildBuilds(t)
  PROVE  ListsOK'
<1>1. /\ groups' = groups /\ poolCfg' = poolCfg /\ served' = served /\ creds' = creds
      /\ file' = file /\ version' = version
  BY DEF RebuildBuilds, pushed, listed
<1>2. /\ t \in Handlers => h[t].stage = "rebuild"
      /\ Goes(t, h'[t]) /\ h'[t].stage = "store" /\ KeepsRequest(t)
      /\ h'[t].list = h[t].list /\ h'[t].built = poolCfg
  BY BuiltFact DEF IInv
<1>3. t \in Handlers => RequestLists(h'[t])
  BY <1>2 DEF RequestLists, ListsOK, KeepsRequest, Working, Copied
<1>4. QED
  BY <1>1, <1>2, <1>3, ListsKept DEF ListsOK

\* It is stored.
LEMMA StoresLists ==
  ASSUME IInv, ListsOK, NEW t \in Threads, RebuildStores(t)
  PROVE  ListsOK'
<1>1. /\ h[t].stage = "store" /\ served' = h[t].built
      /\ groups' = groups /\ poolCfg' = poolCfg /\ creds' = creds /\ file' = file
      /\ version' = version /\ Goes(t, h'[t])
      /\ t \in Handlers => h'[t].stage = "readCreds" /\ KeepsRequest(t) /\ KeepsCopies(t)
      /\ t \notin Handlers => h'[t] = NoRequest
  BY StoresFact DEF IInv
<1>2. t \in Handlers => RequestLists(h'[t])
  BY <1>1 DEF RequestLists, ListsOK, KeepsRequest, KeepsCopies, Working, Copied
<1>3. h'[t].stage # "store"
  BY <1>1, IdleRequest
<1>4. QED
  BY <1>1, <1>2, <1>3, ListsKept DEF ListsOK

\* The gateway makes a table of the list.
LEMMA CredsReadLists ==
  ASSUME IInv, ListsOK, NEW r \in Handlers, CredsRead(r)
  PROVE  ListsOK'
<1>1. /\ groups' = groups /\ poolCfg' = poolCfg /\ served' = served /\ creds' = creds
      /\ file' = file /\ version' = version
  BY DEF CredsRead, pushed, listed
<1>2. /\ h[r].stage = "readCreds" /\ Goes(r, h'[r]) /\ h'[r].stage = "storeCreds"
      /\ KeepsRequest(r) /\ h'[r].list = h[r].list /\ h'[r].map = CredMap(groups)
  BY CredsReadFact DEF IInv
<1>3. CredMap(groups) \in Table
  BY CredMapTable DEF ListsOK, Listing
<1>4. RequestLists(h'[r])
  BY <1>2, <1>3 DEF RequestLists, ListsOK, KeepsRequest, Working, Copied
<1>5. QED
  BY <1>1, <1>2, <1>4, ListsKept DEF ListsOK, Threads

\* The table is stored.
LEMMA CredsStoreLists ==
  ASSUME IInv, ListsOK, NEW r \in Handlers, CredsStore(r)
  PROVE  ListsOK'
<1>1. /\ h[r].stage = "storeCreds" /\ creds' = h[r].map
      /\ groups' = groups /\ poolCfg' = poolCfg /\ served' = served /\ file' = file
      /\ version' = version
  BY DEF CredsStore, listed
<1>2. Goes(r, h'[r]) /\ h'[r].stage = "persist" /\ KeepsRequest(r) /\ KeepsCopies(r)
  BY GotoFact DEF CredsStore, IInv, Threads
<1>3. RequestLists(h'[r]) /\ creds' \in Table
  BY <1>1, <1>2 DEF RequestLists, ListsOK, KeepsRequest, KeepsCopies, Working, Copied
<1>4. QED
  BY <1>1, <1>2, <1>3, ListsKept DEF ListsOK, Threads

\* The copy becomes the file's list, or it does not.
LEMMA PersistLists ==
  ASSUME IInv, ListsOK, NEW r \in Handlers, Persist(r) \/ PersistFails(r)
  PROVE  ListsOK'
<1>1. /\ h[r].stage = "persist" /\ file' \in {file, h[r].list}
      /\ groups' = groups /\ poolCfg' = poolCfg /\ served' = served /\ creds' = creds
      /\ version' = version
  BY DEF Persist, PersistFails, pushed, listed
<1>2. h'[r].stage = "idle" /\ Goes(r, h'[r])
  BY DoneFact, IdleRequest DEF Persist, PersistFails, IInv, Goes, Threads
<1>3. Listing(h[r].list) /\ Listing(file)
  BY <1>1 DEF ListsOK, RequestLists, Copied
<1>4. Listing(file')
  BY <1>1, <1>3
<1>5. RequestLists(h'[r])
  BY <1>2 DEF RequestLists, Copied, Working
<1>6. QED
  BY <1>1, <1>2, <1>4, <1>5, ListsKept DEF ListsOK, Threads

\* After a start everybody has the list that was loaded.
LEMMA StartLists ==
  ASSUME ListsOK, NEW readable \in BOOLEAN, NEW saved \in BOOLEAN, Start(readable, saved)
  PROVE  ListsOK'
<1>1. PICK list : list = IF readable /\ file # << >> THEN file ELSE Configured
  OBVIOUS
<1>2. /\ groups' = list /\ poolCfg' = list /\ served' = list /\ creds' = CredMap(list)
      /\ file' \in {list, file} /\ version' = 0
      /\ h' = [t \in Threads |-> NoRequest]
  BY <1>1 DEF Start, Threads
<1>3. Listing(list) /\ Listing(file)
  BY <1>1, ConfiguredListing DEF ListsOK
<1>4. /\ Listing(groups') /\ Listing(file') /\ poolCfg' \in Seq(Known)
      /\ served' \in Seq(Known)
  BY <1>2, <1>3 DEF Listing
<1>5. creds' \in Table
  BY <1>2, <1>3, CredMapTable DEF Listing
<1>6. version' <= MaxChanges
  BY <1>2, GroupAdminAssumption
<1>7. RequestLists(NoRequest) /\ NoRequest.stage = "idle"
  BY IdleRequest DEF RequestLists, Copied, Working
<1>8. /\ \A r \in Handlers : RequestLists(h'[r])
      /\ \A t \in Threads : h'[t].stage = "idle"
  BY <1>2, <1>7 DEF Threads
<1>9. \A r \in Handlers : RequestLists(h[r])'
  BY <1>8 DEF RequestLists, Listing, UniqueNames
<1>10. QED
  BY <1>4, <1>5, <1>6, <1>8, <1>9 DEF ListsOK, Listing, UniqueNames

\* Every step keeps the lists.
LEMMA NextLists == IInv /\ ListsOK /\ [Next]_vars => ListsOK'
<1> SUFFICES ASSUME IInv, ListsOK, [Next]_vars PROVE ListsOK'
  OBVIOUS
<1>1. CASE UNCHANGED vars
  <2>1. /\ groups' = groups /\ poolCfg' = poolCfg /\ creds' = creds /\ served' = served
        /\ file' = file /\ h' = h /\ version' = version
    BY <1>1 DEF vars
  <2>2. \A r \in Handlers : RequestLists(h[r])'
    BY <2>1 DEF ListsOK, RequestLists, Listing, UniqueNames
  <2>3. QED
    BY <2>1, <2>2 DEF ListsOK, Listing, UniqueNames
<1>2. ASSUME NEW r \in Handlers, NEW op \in {"add", "update", "remove"}, NEW a \in Accounts,
             NEW g \in Bodies, Submit(r, op, a, g)
      PROVE  ListsOK'
  BY <1>2, SubmitLists
<1>3. ASSUME NEW r \in Handlers,
             \/ Change(r) \/ Copy(r) \/ SetGroups(r) \/ CredsRead(r) \/ CredsStore(r)
             \/ Persist(r) \/ PersistFails(r)
      PROVE  ListsOK'
  BY <1>3, ChangeLists, CopyLists, SetGroupsLists, CredsReadLists, CredsStoreLists, PersistLists
<1>4. ASSUME NEW t \in Threads, RebuildBuilds(t) \/ RebuildStores(t)
      PROVE  ListsOK'
  BY <1>4, BuildsLists, StoresLists
<1>5. ASSUME NEW readable \in BOOLEAN, NEW saved \in BOOLEAN, Start(readable, saved)
      PROVE  ListsOK'
  BY <1>5, StartLists
<1>6. QED
  BY <1>1, <1>2, <1>3, <1>4, <1>5 DEF Next, Threads

\* The groups of config.yaml are everybody's list at the first start.
LEMMA InitLists == Init => ListsOK
<1> SUFFICES ASSUME Init PROVE ListsOK
  OBVIOUS
<1>1. /\ groups = Configured /\ poolCfg = Configured /\ served = Configured /\ file = Configured
      /\ creds = CredMap(Configured) /\ version = 0
      /\ \A t \in Threads : h[t] = NoRequest
  BY DEF Init, Threads
<1>2. Configured \in Seq(Known) /\ CredMap(Configured) \in Table
  BY ConfiguredListing, CredMapTable DEF Listing
<1>3. RequestLists(NoRequest) /\ NoRequest.stage = "idle"
  BY IdleRequest DEF RequestLists, Copied, Working
<1>4. 0 <= MaxChanges
  BY GroupAdminAssumption
<1>5. QED
  BY <1>1, <1>2, <1>3, <1>4, ConfiguredListing DEF ListsOK, Threads

-----------------------------------------------------------------------------
(* Changes take effect *)

\* The groups of a list that have a name: one or none.
Of(list, n) == {g \in Range(list) : g.name = n}

\* List gs names the change of ts[n] last for group n.  A list of version v shows
\* each group as gs does that was changed since the start, but not after v.
Agrees(list, v, gs, ts) ==
    \A n \in Names : 0 < ts[n] /\ ts[n] <= v => Of(list, n) = Of(gs, n)

\* So does a table of credentials: what leads to such a group are its own.
LeadsRight(table, v, gs, ts) ==
    \A n \in Names : 0 < ts[n] /\ ts[n] <= v =>
        \A c \in Creds : table[c] = n => \E g \in Of(gs, n) : g.cred = c

\* The copies in the record of thread t agree with gs.
CopiesAgree(t, q, gs, ts) ==
    /\ t \in Handlers /\ q.stage \in Copied => Agrees(q.list, q.ver, gs, ts)
    /\ q.stage = "storeCreds" => LeadsRight(q.map, q.mapVer, gs, ts)
    /\ q.stage = "store" => Agrees(q.built, q.builtVer, gs, ts)

AgreeOK ==
    /\ aliased => has["config"] = 0
    /\ Agrees(poolCfg, has["config"], groups, touched)
    /\ Agrees(served, has["snapshot"], groups, touched)
    /\ LeadsRight(creds, has["gateway"], groups, touched)
    /\ \A t \in Threads : CopiesAgree(t, h[t], groups, touched)

\* A list shows what a request was sent for.
Shown(list, q) ==
    IF q.op = "remove" THEN Of(list, q.group.name) = {} ELSE q.group \in Of(list, q.group.name)

\* What a request has been through has its change, unless something was given an
\* older list than it had since.
Passed(q, gs, ts, hs, x) ==
    /\ q.stage \in Copied \cup {"copy"} =>
          0 < q.made /\ (ts[q.group.name] = q.made => Shown(gs, q))
    /\ q.stage \in Copied => q.made <= q.ver
    /\ x < q.made =>
          /\ q.stage \in Copied \ {"setGroups"} => q.ver <= hs["config"]
          /\ q.stage = "store" => q.ver <= q.builtVer
          /\ q.stage \in {"readCreds", "storeCreds", "persist"} => q.ver <= hs["snapshot"]
          /\ q.stage = "storeCreds" => q.ver <= q.mapVer
          /\ q.stage = "persist" => q.ver <= hs["gateway"]

PassedOK == \A r \in Handlers : Passed(h[r], groups, touched, has, crossed)

EffectOK == AgreeOK /\ PassedOK

\* A target that is given a version leaves every request what it was through,
\* unless that version is older than the one the target had.
LEMMA PassedStays ==
  ASSUME NEW q, NEW gs, NEW ts, NEW hs \in [Targets -> Nat], NEW hs2 \in [Targets -> Nat],
         NEW x, NEW x2, q.ver \in Nat,
         x2 < q.made => x < q.made /\ \A u \in Targets : hs[u] <= hs2[u],
         Passed(q, gs, ts, hs, x)
  PROVE  Passed(q, gs, ts, hs2, x2)
<1>1. /\ hs["config"] \in Nat /\ hs2["config"] \in Nat /\ hs["snapshot"] \in Nat
      /\ hs2["snapshot"] \in Nat /\ hs["gateway"] \in Nat /\ hs2["gateway"] \in Nat
      /\ x2 < q.made => hs["config"] <= hs2["config"] /\ hs["snapshot"] <= hs2["snapshot"]
                        /\ hs["gateway"] <= hs2["gateway"]
  BY DEF Targets
<1>2. QED
  BY <1>1 DEF Passed

\* The table rebuildCreds makes leads to groups of the list.
LEMMA CredMapLeads ==
  ASSUME Listing(groups), NEW v
  PROVE  LeadsRight(CredMap(groups), v, groups, touched)
<1> SUFFICES ASSUME NEW n \in Names, NEW c \in Creds, CredMap(groups)[c] = n
             PROVE  \E g \in Of(groups, n) : g.cred = c
  BY DEF LeadsRight
<1>1. PICK having : having = {k \in DOMAIN groups : groups[k].cred = c}
  OBVIOUS
<1>2. n = IF having = {} THEN Nil ELSE groups[Max(having)].name
  BY <1>1 DEF CredMap
<1>3. having # {} /\ n = groups[Max(having)].name
  BY <1>2, GroupAdminAssumption
<1>4. Len(groups) \in Nat /\ DOMAIN groups = 1..Len(groups)
  BY DEF Listing
<1>5. Max(having) \in having
  BY <1>1, <1>3, <1>4, LastPosition
<1>6. groups[Max(having)] \in Range(groups) /\ groups[Max(having)].cred = c
  BY <1>1, <1>5 DEF Range
<1>7. QED
  BY <1>3, <1>6 DEF Of

\* A change leaves the groups of other names, and shows.
LEMMA ChangedOf ==
  ASSUME Listing(groups), NEW op \in {"add", "update", "remove"}, NEW g \in Known,
         Possible(op, g)
  PROVE  /\ \A n \in Names \ {g.name} : Of(Changed(op, g), n) = Of(groups, n)
         /\ IF op = "remove" THEN Of(Changed(op, g), g.name) = {}
            ELSE g \in Of(Changed(op, g), g.name)
<1>1. CASE op = "add"
  <2>1. Changed(op, g) = Append(groups, g) /\ g.name \notin NamesOf(groups)
    BY <1>1 DEF Changed, Possible
  <2>2. Range(Append(groups, g)) = Range(groups) \cup {g}
    BY <2>1, AddListing
  <2>3. PICK new : new = Append(groups, g) /\ Range(new) = Range(groups) \cup {g}
    BY <2>2
  <2>4. /\ \A n \in Names \ {g.name} : Of(new, n) = Of(groups, n)
        /\ g \in Of(new, g.name)
    BY <2>3 DEF Of
  <2>5. QED
    BY <1>1, <2>1, <2>3, <2>4
<1>2. CASE op # "add"
  <2>1. PICK i : i = Find(groups, g.name)
    OBVIOUS
  <2>2. i \in DOMAIN groups /\ groups[i].name = g.name /\ g.name \in NamesOf(groups)
    BY <1>2, <2>1 DEF Possible, Find, NamesOf
  <2>3. PICK S : S = {groups[k] : k \in DOMAIN groups \ {i}}
    OBVIOUS
  <2>4. \A k \in DOMAIN groups \ {i} : groups[k].name # g.name
    BY <2>2 DEF Listing, UniqueNames
  <2>5. /\ Range(groups) = S \cup {groups[i]}
        /\ \A x \in S : x.name # g.name
    BY <2>2, <2>3, <2>4 DEF Range
  <2>6. CASE op = "update"
    <3>1. Changed(op, g) = ReplaceAt(groups, Find(groups, g.name), g)
      BY <2>6 DEF Changed
    <3>2. Range(ReplaceAt(groups, Find(groups, g.name), g)) = S \cup {g}
      BY <2>1, <2>2, <2>3, UpdateListing
    <3>3. QED
      BY <2>2, <2>5, <2>6, <3>1, <3>2 DEF Of
  <2>7. CASE op = "remove"
    <3>1. Changed(op, g) = RemoveAt(groups, i)
      BY <2>1, <2>7 DEF Changed
    <3>2. Range(RemoveAt(groups, i)) = S
      BY <2>2, <2>3, RemoveListing
    <3>3. QED
      BY <2>2, <2>5, <2>7, <3>1, <3>2 DEF Of
  <2>8. QED
    BY <1>2, <2>6, <2>7
<1>3. QED
  BY <1>1, <1>2

\* After a change of the group m every copy agrees that did: it is older.
LEMMA ChangeAgrees ==
  ASSUME NEW ts \in [Names -> Nat], NEW m, NEW w \in Nat, NEW gs, NEW gs2,
         \A n \in Names \ {m} : Of(gs2, n) = Of(gs, n),
         NEW v \in Nat, v <= w
  PROVE  /\ \A list : Agrees(list, v, gs, ts) => Agrees(list, v, gs2, [ts EXCEPT ![m] = w + 1])
         /\ \A table : LeadsRight(table, v, gs, ts) =>
                          LeadsRight(table, v, gs2, [ts EXCEPT ![m] = w + 1])
<1> DEFINE ts2 == [ts EXCEPT ![m] = w + 1]
<1>1. ASSUME NEW n \in Names, 0 < ts2[n] /\ ts2[n] <= v
      PROVE  0 < ts[n] /\ ts[n] <= v /\ Of(gs2, n) = Of(gs, n)
  BY <1>1
<1> HIDE DEF ts2
<1>2. QED
  BY <1>1 DEF Agrees, LeadsRight, ts2

\* A step that leaves the server's list alone and moves one thread on.
LEMMA EffectAfter ==
  ASSUME Types, EffectOK, NEW t \in Threads, Goes(t, h'[t]),
         groups' = groups, touched' = touched,
         aliased' => has'["config"] = 0,
         Agrees(poolCfg', has'["config"], groups, touched),
         Agrees(served', has'["snapshot"], groups, touched),
         LeadsRight(creds', has'["gateway"], groups, touched),
         CopiesAgree(t, h'[t], groups, touched),
         t \in Handlers => Passed(h'[t], groups, touched, has', crossed'),
         has' \in [Targets -> Nat], crossed' \in Int,
         \/ crossed' = version
         \/ crossed' = crossed /\ \A u \in Targets : has[u] <= has'[u]
  PROVE  EffectOK'
<1>1. AgreeOK'
  BY DEF EffectOK, AgreeOK, Goes
<1>2. ASSUME NEW s \in Handlers, s # t
      PROVE  Passed(h'[s], groups, touched, has', crossed')
  <2>1. h'[s] = h[s] /\ Passed(h[s], groups, touched, has, crossed)
    BY <1>2 DEF EffectOK, PassedOK, Goes, Threads
  <2>2. h[s].ver \in Nat /\ h[s].made \in Nat /\ h[s].made <= version /\ version \in Nat
    BY ThreadFact DEF Versions, Threads
  <2>3. crossed' < h[s].made => crossed < h[s].made /\ \A u \in Targets : has[u] <= has'[u]
    BY <2>2
  <2>4. QED
    BY <2>1, <2>2, <2>3, PassedStays DEF Types
<1>3. PassedOK'
  BY <1>2 DEF PassedOK
<1>4. QED
  BY <1>1, <1>3 DEF EffectOK

\* What the request of thread r has, and what it was through.
LEMMA RequestFact ==
  ASSUME Types, EffectOK, NEW r \in Handlers
  PROVE  /\ r \in Threads /\ Versions(h[r], version) /\ version \in Nat
         /\ CopiesAgree(r, h[r], groups, touched)
         /\ Passed(h[r], groups, touched, has, crossed)
         /\ has["config"] \in Nat /\ has["snapshot"] \in Nat /\ has["gateway"] \in Nat
         /\ crossed \in Int
BY ThreadFact DEF EffectOK, AgreeOK, PassedOK, Threads, Types, Targets

\* A request that was checked is through nothing yet.
LEMMA SubmitEffect ==
  ASSUME Types, EffectOK, NEW r \in Handlers, NEW op, NEW a, NEW g, Submit(r, op, a, g)
  PROVE  EffectOK'
<1>1. Goes(r, h'[r]) /\ h'[r].stage = "change" /\ h'[r].made = 0
  BY SubmitFact
<1>2. /\ groups' = groups /\ poolCfg' = poolCfg /\ served' = served /\ creds' = creds
      /\ aliased' = aliased /\ touched' = touched /\ has' = has /\ crossed' = crossed
  BY DEF Submit, pushed, history, listed
<1>3. CopiesAgree(r, h'[r], groups, touched)
  BY <1>1 DEF CopiesAgree, Copied
<1>4. Passed(h'[r], groups, touched, has', crossed')
  BY <1>1 DEF Passed, Copied
<1>5. /\ has' \in [Targets -> Nat] /\ crossed' \in Int
      /\ crossed' = crossed /\ \A u \in Targets : has[u] <= has'[u]
  BY <1>2 DEF Types
<1>6. QED
  BY <1>1, <1>2, <1>3, <1>4, <1>5, EffectAfter DEF EffectOK, AgreeOK, Threads

\* The change shows in the server's list, and nobody else has that version yet.
LEMMA ChangeEffect ==
  ASSUME IInv, ListsOK, EffectOK, NEW r \in Handlers, Change(r)
  PROVE  EffectOK'
<1>0. Types /\ h[r].stage = "change" /\ r \in Threads
  BY DEF Change, IInv, Threads
<1>1. /\ served' = served /\ creds' = creds /\ has' = has /\ crossed' = crossed
      /\ aliased' => aliased
  BY DEF Change, history
<1>2. PICK g \in Known : g = h[r].group
  BY <1>0 DEF ListsOK, RequestLists, Working
<1>3. PICK op \in {"add", "update", "remove"} : op = h[r].op
  BY <1>0 DEF ListsOK, RequestLists, Working
<1>4. CASE /\ Possible(op, g) /\ groups' = Changed(op, g)
           /\ version' = version + 1 /\ touched' = [touched EXCEPT ![g.name] = version + 1]
           /\ h' = [h EXCEPT ![r].stage = "copy", ![r].made = version + 1]
           /\ poolCfg' = IF aliased THEN Through(groups') ELSE poolCfg
  <2>1. /\ Goes(r, h'[r]) /\ h'[r].stage = "copy" /\ h'[r].op = op /\ h'[r].group = g
        /\ h'[r].made = version + 1
    BY <1>0, <1>2, <1>3, <1>4, ChangeFact
  <2>2. /\ \A n \in Names \ {g.name} : Of(groups', n) = Of(groups, n)
        /\ Shown(groups', h'[r])
    <3>1. /\ \A n \in Names \ {g.name} : Of(Changed(op, g), n) = Of(groups, n)
          /\ IF op = "remove" THEN Of(Changed(op, g), g.name) = {}
             ELSE g \in Of(Changed(op, g), g.name)
      BY <1>4, ChangedOf DEF ListsOK
    <3>2. QED
      BY <1>4, <2>1, <3>1 DEF Shown
  <2>3. version \in Nat /\ touched \in [Names -> Nat]
    BY <1>0 DEF Types
  <2>4. ASSUME NEW v \in Nat, v <= version
        PROVE  /\ \A list : Agrees(list, v, groups, touched) => Agrees(list, v, groups', touched')
               /\ \A table : LeadsRight(table, v, groups, touched) =>
                                LeadsRight(table, v, groups', touched')
    <3>1. PICK gs2 : gs2 = groups'
      OBVIOUS
    <3>2. \A n \in Names \ {g.name} : Of(gs2, n) = Of(groups, n)
      BY <2>2, <3>1
    <3>3. /\ \A list : Agrees(list, v, groups, touched) =>
                          Agrees(list, v, gs2, [touched EXCEPT ![g.name] = version + 1])
          /\ \A table : LeadsRight(table, v, groups, touched) =>
                           LeadsRight(table, v, gs2, [touched EXCEPT ![g.name] = version + 1])
      BY <2>3, <2>4, <3>2, ChangeAgrees
    <3>4. QED
      BY <1>4, <3>1, <3>3
  <2>5. \A list : Agrees(list, 0, groups', touched')
    <3>1. \A n \in Names : touched'[n] \in Nat
      BY <1>4, <2>3
    <3>2. QED
      BY <3>1 DEF Agrees
  <2>6. AgreeOK'
    <3>1. /\ has["config"] \in Nat /\ has["config"] <= version
          /\ has["snapshot"] \in Nat /\ has["snapshot"] <= version
          /\ has["gateway"] \in Nat /\ has["gateway"] <= version
      BY <1>0 DEF Types, Targets
    <3>2. Agrees(poolCfg', has["config"], groups', touched')
      BY <1>4, <2>4, <2>5, <3>1 DEF EffectOK, AgreeOK
    <3>3. Agrees(served, has["snapshot"], groups', touched')
          /\ LeadsRight(creds, has["gateway"], groups', touched')
      BY <2>4, <3>1 DEF EffectOK, AgreeOK
    <3>4. ASSUME NEW t \in Threads PROVE CopiesAgree(t, h'[t], groups', touched')
      <4>1. CASE t = r
        BY <2>1, <4>1 DEF CopiesAgree, Copied
      <4>2. CASE t # r
        <5>1. h'[t] = h[t] /\ CopiesAgree(t, h[t], groups, touched)
          BY <2>1, <4>2 DEF Goes, EffectOK, AgreeOK
        <5>2. Versions(h[t], version)
          BY <1>0, ThreadFact
        <5>3. QED
          BY <2>4, <5>1, <5>2 DEF CopiesAgree, Versions
      <4>3. QED
        BY <4>1, <4>2
    <3>5. aliased' => has'["config"] = 0
      BY <1>1 DEF EffectOK, AgreeOK
    <3>6. QED
      BY <1>1, <3>2, <3>3, <3>4, <3>5 DEF AgreeOK
  <2>7. ASSUME NEW s \in Handlers PROVE Passed(h'[s], groups', touched', has', crossed')
    <3>1. CASE s = r
      BY <2>1, <2>2, <2>3, <3>1 DEF Passed, Copied
    <3>2. CASE s # r
      <4>1. h'[s] = h[s] /\ Passed(h[s], groups, touched, has, crossed)
        BY <2>1, <3>2 DEF Goes, EffectOK, PassedOK, Threads
      <4>2. h[s].made \in Nat /\ h[s].made <= version
        BY <1>0, ThreadFact DEF Versions, Threads
      <4>3. CASE h[s].stage \in Copied \cup {"copy"}
        <5>1. PICK m \in Names : m = h[s].group.name
          BY <4>3, KnownNames DEF ListsOK, RequestLists, Working
        <5>2. touched'[m] = h[s].made => m # g.name /\ touched'[m] = touched[m]
          BY <1>4, <2>3, <4>2
        <5>3. m # g.name => Of(groups', m) = Of(groups, m)
          BY <2>2
        <5>4. touched'[m] = h[s].made => Shown(groups', h[s])
          BY <4>1, <4>3, <5>1, <5>2, <5>3 DEF Passed, Shown
        <5>5. QED
          BY <1>1, <4>1, <5>1, <5>4 DEF Passed
      <4>4. CASE h[s].stage \notin Copied \cup {"copy"}
        BY <4>1, <4>4 DEF Passed, Copied
      <4>5. QED
        BY <4>3, <4>4
    <3>3. QED
      BY <3>1, <3>2
  <2>8. QED
    BY <2>6, <2>7 DEF EffectOK, PassedOK
<1>5. CASE /\ Done(r) /\ groups' = groups /\ touched' = touched /\ poolCfg' = poolCfg
           /\ aliased' = aliased
  <2>1. Goes(r, h'[r]) /\ h'[r].stage = "idle" /\ h'[r].made = 0
    BY <1>0, <1>5, DoneFact, IdleRequest DEF Goes
  <2>2. CopiesAgree(r, h'[r], groups, touched) /\ Passed(h'[r], groups, touched, has', crossed')
    BY <2>1 DEF CopiesAgree, Passed, Copied
  <2>3. QED
    BY <1>0, <1>1, <1>5, <2>1, <2>2, EffectAfter DEF EffectOK, AgreeOK, Types
<1>6. QED
  BY <1>2, <1>3, <1>4, <1>5 DEF Change, listed

\* The copy has the change, and those before it.
LEMMA CopyEffect ==
  ASSUME Types, EffectOK, NEW r \in Handlers, Copy(r)
  PROVE  EffectOK'
<1>1. /\ h[r].stage = "copy" /\ Goes(r, h'[r]) /\ h'[r].stage = "setGroups" /\ KeepsRequest(r)
      /\ h'[r].list = groups /\ h'[r].ver = version
  BY CopyFact
<1>2. /\ groups' = groups /\ poolCfg' = poolCfg /\ served' = served /\ creds' = creds
      /\ aliased' = aliased /\ touched' = touched /\ has' = has /\ crossed' = crossed
  BY DEF Copy, pushed, history, listed
<1>3. CopiesAgree(r, h'[r], groups, touched)
  BY <1>1 DEF CopiesAgree, Agrees
<1>4. Passed(h'[r], groups, touched, has', crossed')
  BY <1>1, <1>2, RequestFact DEF Passed, Copied, KeepsRequest, Shown, Versions
<1>5. QED
  BY <1>1, <1>2, <1>3, <1>4, EffectAfter DEF EffectOK, AgreeOK, Types, Threads

\* The pool's list has what the copy has.
LEMMA SetGroupsEffect ==
  ASSUME Types, EffectOK, NEW r \in Handlers, SetGroups(r)
  PROVE  EffectOK'
<1>0. /\ r \in Threads /\ Versions(h[r], version) /\ version \in Nat
      /\ CopiesAgree(r, h[r], groups, touched)
      /\ Passed(h[r], groups, touched, has, crossed)
      /\ has["config"] \in Nat
  BY RequestFact
<1>1. /\ h[r].stage = "setGroups" /\ poolCfg' = h[r].list /\ aliased' = FALSE
      /\ groups' = groups /\ served' = served /\ creds' = creds /\ touched' = touched
  BY DEF SetGroups, listed
<1>2. Goes(r, h'[r]) /\ h'[r].stage = "rebuild" /\ KeepsRequest(r) /\ KeepsCopies(r)
  BY <1>0, GotoFact DEF SetGroups
<1>3. /\ has' \in [Targets -> Nat]
      /\ has'["config"] = h[r].ver /\ \A u \in Targets \ {"config"} : has'[u] = has[u]
      /\ crossed' = IF h[r].ver < has["config"] THEN version ELSE crossed
      /\ crossed' \in Int /\ crossed <= crossed'
  BY <1>0, GivenFact DEF SetGroups, Targets, Versions
<1>4. CopiesAgree(r, h'[r], groups, touched) /\ Agrees(h[r].list, h[r].ver, groups, touched)
  BY <1>0, <1>1, <1>2 DEF CopiesAgree, KeepsCopies, Copied
<1>5. Passed(h'[r], groups, touched, has', crossed')
  <2>1. h[r].ver \in Nat
    BY <1>0 DEF Versions
  <2>2. QED
    BY <1>0, <1>1, <1>2, <1>3, <2>1 DEF Passed, KeepsRequest, KeepsCopies, Copied, Shown
<1>6. crossed' = version \/ (crossed' = crossed /\ \A u \in Targets : has[u] <= has'[u])
  BY <1>0, <1>3 DEF Types, Targets, Versions
<1>7. has'["snapshot"] = has["snapshot"] /\ has'["gateway"] = has["gateway"]
  BY <1>3 DEF Targets
<1>8. QED
  BY <1>0, <1>1, <1>2, <1>3, <1>4, <1>5, <1>6, <1>7, EffectAfter DEF EffectOK, AgreeOK

\* What is built has what the pool's list has.
LEMMA BuildsEffect ==
  ASSUME Types, EffectOK, NEW t \in Threads, RebuildBuilds(t)
  PROVE  EffectOK'
<1>1. /\ h[t].stage = IF t \in Handlers THEN "rebuild" ELSE "idle"
      /\ Goes(t, h'[t]) /\ h'[t].stage = "store" /\ KeepsRequest(t)
      /\ h'[t].list = h[t].list /\ h'[t].ver = h[t].ver /\ h'[t].mapVer = h[t].mapVer
      /\ h'[t].built = poolCfg /\ h'[t].builtVer = has["config"]
  BY BuiltFact
<1>2. /\ groups' = groups /\ poolCfg' = poolCfg /\ served' = served /\ creds' = creds
      /\ aliased' = aliased /\ touched' = touched /\ has' = has /\ crossed' = crossed
  BY DEF RebuildBuilds, pushed, history, listed
<1>3. CopiesAgree(t, h'[t], groups, touched)
  BY <1>1 DEF CopiesAgree, EffectOK, AgreeOK, Copied
<1>4. ASSUME t \in Handlers
      PROVE  Passed(h'[t], groups, touched, has', crossed')
  BY <1>1, <1>2, <1>4, RequestFact DEF Passed, Copied, KeepsRequest, Shown
<1>5. QED
  BY <1>1, <1>2, <1>3, <1>4, EffectAfter DEF EffectOK, AgreeOK, Types

\* The snapshot has what was built.
LEMMA StoresEffect ==
  ASSUME Types, EffectOK, NEW t \in Threads, RebuildStores(t)
  PROVE  EffectOK'
<1>0. /\ Versions(h[t], version) /\ version \in Nat /\ CopiesAgree(t, h[t], groups, touched)
      /\ has["snapshot"] \in Nat
  BY ThreadFact DEF EffectOK, AgreeOK, Types, Targets
<1>1. /\ h[t].stage = "store" /\ served' = h[t].built /\ aliased' = aliased
      /\ groups' = groups /\ poolCfg' = poolCfg /\ creds' = creds /\ touched' = touched
      /\ Goes(t, h'[t])
      /\ t \in Handlers => h'[t].stage = "readCreds" /\ KeepsRequest(t) /\ KeepsCopies(t)
      /\ t \notin Handlers => h'[t] = NoRequest
      /\ Given("snapshot", h[t].builtVer)
  BY StoresFact
<1>2. h[t].builtVer \in Nat /\ h[t].builtVer <= version
  BY <1>0 DEF Versions
<1>3. /\ has' \in [Targets -> Nat]
      /\ has'["snapshot"] = h[t].builtVer /\ \A u \in Targets \ {"snapshot"} : has'[u] = has[u]
      /\ crossed' = IF h[t].builtVer < has["snapshot"] THEN version ELSE crossed
      /\ crossed' \in Int /\ crossed <= crossed'
  BY <1>1, <1>2, GivenFact DEF Targets
<1>4. CopiesAgree(t, h'[t], groups, touched) /\ Agrees(h[t].built, h[t].builtVer, groups, touched)
  BY <1>0, <1>1, IdleRequest DEF CopiesAgree, KeepsCopies, Copied
<1>5. ASSUME t \in Handlers
      PROVE  Passed(h'[t], groups, touched, has', crossed')
  <2>1. Passed(h[t], groups, touched, has, crossed) /\ crossed \in Int /\ h[t].ver \in Nat
        /\ has["config"] \in Nat /\ h[t].made \in Nat /\ h[t].made <= version
    BY <1>5, RequestFact DEF Versions
  <2>2. has'["config"] = has["config"]
    BY <1>3 DEF Targets
  <2>3. QED
    BY <1>0, <1>1, <1>2, <1>3, <1>5, <2>1, <2>2
    DEF Passed, KeepsRequest, KeepsCopies, Copied, Shown
<1>6. crossed' = version \/ (crossed' = crossed /\ \A u \in Targets : has[u] <= has'[u])
  BY <1>0, <1>2, <1>3 DEF Types, Targets
<1>7. has'["config"] = has["config"] /\ has'["gateway"] = has["gateway"]
  BY <1>3 DEF Targets
<1>8. QED
  BY <1>0, <1>1, <1>3, <1>4, <1>5, <1>6, <1>7, EffectAfter DEF EffectOK, AgreeOK

\* The gateway's new table is of the list of now.
LEMMA CredsReadEffect ==
  ASSUME Types, ListsOK, EffectOK, NEW r \in Handlers, CredsRead(r)
  PROVE  EffectOK'
<1>0. /\ r \in Threads /\ Versions(h[r], version) /\ version \in Nat
      /\ CopiesAgree(r, h[r], groups, touched)
      /\ Passed(h[r], groups, touched, has, crossed)
  BY RequestFact
<1>1. /\ h[r].stage = "readCreds" /\ Goes(r, h'[r])
      /\ h'[r].stage = "storeCreds" /\ KeepsRequest(r)
      /\ h'[r].list = h[r].list /\ h'[r].ver = h[r].ver
      /\ h'[r].map = CredMap(groups) /\ h'[r].mapVer = version
  BY CredsReadFact
<1>2. /\ groups' = groups /\ poolCfg' = poolCfg /\ served' = served /\ creds' = creds
      /\ aliased' = aliased /\ touched' = touched /\ has' = has /\ crossed' = crossed
  BY DEF CredsRead, pushed, history, listed
<1>3. LeadsRight(CredMap(groups), version, groups, touched)
  BY CredMapLeads DEF ListsOK
<1>4. CopiesAgree(r, h'[r], groups, touched)
  BY <1>0, <1>1, <1>3 DEF CopiesAgree, Copied
<1>5. Passed(h'[r], groups, touched, has', crossed')
  BY <1>0, <1>1, <1>2 DEF Passed, Copied, KeepsRequest, Shown, Versions
<1>6. QED
  BY <1>0, <1>1, <1>2, <1>4, <1>5, EffectAfter DEF EffectOK, AgreeOK, Types

\* The gateway has what the table has.
LEMMA CredsStoreEffect ==
  ASSUME Types, EffectOK, NEW r \in Handlers, CredsStore(r)
  PROVE  EffectOK'
<1>0. /\ r \in Threads /\ Versions(h[r], version) /\ version \in Nat
      /\ CopiesAgree(r, h[r], groups, touched)
      /\ Passed(h[r], groups, touched, has, crossed)
      /\ has["config"] \in Nat /\ has["snapshot"] \in Nat /\ has["gateway"] \in Nat
      /\ crossed \in Int
  BY RequestFact
<1>1. /\ h[r].stage = "storeCreds" /\ creds' = h[r].map /\ aliased' = aliased
      /\ groups' = groups /\ poolCfg' = poolCfg /\ served' = served /\ touched' = touched
  BY DEF CredsStore, listed
<1>2. Goes(r, h'[r]) /\ h'[r].stage = "persist" /\ KeepsRequest(r) /\ KeepsCopies(r)
  BY <1>0, GotoFact DEF CredsStore
<1>3. /\ has' \in [Targets -> Nat]
      /\ has'["gateway"] = h[r].mapVer /\ \A u \in Targets \ {"gateway"} : has'[u] = has[u]
      /\ crossed' = IF h[r].mapVer < has["gateway"] THEN version ELSE crossed
      /\ crossed' \in Int /\ crossed <= crossed'
  BY <1>0, GivenFact DEF CredsStore, Targets, Versions
<1>4. CopiesAgree(r, h'[r], groups, touched) /\ LeadsRight(h[r].map, h[r].mapVer, groups, touched)
  BY <1>0, <1>1, <1>2 DEF CopiesAgree, KeepsCopies, Copied
<1>5. has'["config"] = has["config"] /\ has'["snapshot"] = has["snapshot"]
  BY <1>3 DEF Targets
<1>6. Passed(h'[r], groups, touched, has', crossed')
  <2>1. /\ h[r].ver \in Nat /\ h[r].mapVer \in Nat /\ h[r].made \in Nat /\ h[r].made <= version
    BY <1>0 DEF Versions
  <2>2. QED
    BY <1>0, <1>1, <1>2, <1>3, <1>5, <2>1 DEF Passed, KeepsRequest, KeepsCopies, Copied, Shown
<1>7. crossed' = version \/ (crossed' = crossed /\ \A u \in Targets : has[u] <= has'[u])
  BY <1>0, <1>3 DEF Types, Targets, Versions
<1>8. QED
  BY <1>0, <1>1, <1>2, <1>3, <1>4, <1>5, <1>6, <1>7, EffectAfter DEF EffectOK, AgreeOK

\* The request ends.
LEMMA PersistEffect ==
  ASSUME Types, EffectOK, NEW r \in Handlers, Persist(r) \/ PersistFails(r)
  PROVE  EffectOK'
<1>0. /\ r \in Threads /\ Versions(h[r], version) /\ version \in Nat /\ crossed \in Int
      /\ has \in [Targets -> Nat]
  BY RequestFact DEF Types
<1>1. /\ groups' = groups /\ poolCfg' = poolCfg /\ served' = served /\ creds' = creds
      /\ touched' = touched /\ aliased' = aliased
  BY DEF Persist, PersistFails, listed, pushed
<1>2. Goes(r, h'[r]) /\ h'[r].stage = "idle" /\ h'[r].made = 0
  BY <1>0, DoneFact, IdleRequest DEF Persist, PersistFails, Goes
<1>3. CopiesAgree(r, h'[r], groups, touched) /\ Passed(h'[r], groups, touched, has', crossed')
  BY <1>2 DEF CopiesAgree, Passed, Copied
<1>4. CASE Persist(r)
  <2>1. /\ has' \in [Targets -> Nat]
        /\ has'["file"] = h[r].ver /\ \A u \in Targets \ {"file"} : has'[u] = has[u]
        /\ crossed' = IF h[r].ver < has["file"] THEN version ELSE crossed
        /\ crossed' \in Int
    BY <1>0, <1>4, GivenFact DEF Persist, Targets, Versions
  <2>2. crossed' = version \/ (crossed' = crossed /\ \A u \in Targets : has[u] <= has'[u])
    BY <1>0, <2>1 DEF Targets, Versions
  <2>3. /\ has'["config"] = has["config"] /\ has'["snapshot"] = has["snapshot"]
        /\ has'["gateway"] = has["gateway"]
    BY <2>1 DEF Targets
  <2>4. QED
    BY <1>0, <1>1, <1>2, <1>3, <2>1, <2>2, <2>3, EffectAfter DEF EffectOK, AgreeOK
<1>5. CASE PersistFails(r)
  <2>1. has' = has /\ crossed' = crossed
    BY <1>5 DEF PersistFails
  <2>2. crossed' = crossed /\ \A u \in Targets : has[u] <= has'[u]
    BY <1>0, <2>1
  <2>3. QED
    BY <1>0, <1>1, <1>2, <1>3, <2>1, <2>2, EffectAfter DEF EffectOK, AgreeOK
<1>6. QED
  BY <1>4, <1>5

\* After a start nothing has changed.
LEMMA FreshEffect ==
  ASSUME h' = [t \in Threads |-> NoRequest], touched' = [n \in Names |-> 0],
         has' = [t \in Targets |-> 0]
  PROVE  EffectOK'
<1>1. \A t \in Threads : h'[t] = NoRequest
  OBVIOUS
<1>2. AgreeOK'
  BY <1>1, IdleRequest DEF AgreeOK, Agrees, LeadsRight, CopiesAgree, Copied, Targets
<1>3. PassedOK'
  BY <1>1, IdleRequest DEF PassedOK, Passed, Copied, Threads
<1>4. QED
  BY <1>2, <1>3 DEF EffectOK

\* The first start.
LEMMA InitEffect == Init => EffectOK
<1> SUFFICES ASSUME Init PROVE EffectOK
  OBVIOUS
<1>1. /\ \A t \in Threads : h[t] = NoRequest
      /\ touched = [n \in Names |-> 0] /\ has = [t \in Targets |-> 0]
  BY DEF Init, Threads
<1>2. AgreeOK
  BY <1>1, IdleRequest DEF AgreeOK, Agrees, LeadsRight, CopiesAgree, Copied, Targets
<1>3. PassedOK
  BY <1>1, IdleRequest DEF PassedOK, Passed, Copied, Threads
<1>4. QED
  BY <1>2, <1>3 DEF EffectOK

\* Every step keeps it.
LEMMA NextEffect == IInv /\ ListsOK /\ EffectOK /\ [Next]_vars => EffectOK'
<1> SUFFICES ASSUME IInv, ListsOK, EffectOK, [Next]_vars PROVE EffectOK'
  OBVIOUS
<1>0. Types
  BY DEF IInv
<1>1. CASE UNCHANGED vars
  <2>1. /\ groups' = groups /\ poolCfg' = poolCfg /\ creds' = creds /\ served' = served
        /\ aliased' = aliased /\ h' = h /\ touched' = touched /\ has' = has
        /\ crossed' = crossed
    BY <1>1 DEF vars
  <2>2. QED
    BY <2>1 DEF EffectOK, AgreeOK, PassedOK
<1>2. ASSUME NEW r \in Handlers, NEW op \in {"add", "update", "remove"}, NEW a \in Accounts,
             NEW g \in Bodies, Submit(r, op, a, g)
      PROVE  EffectOK'
  BY <1>0, <1>2, SubmitEffect
<1>3. ASSUME NEW r \in Handlers,
             \/ Change(r) \/ Copy(r) \/ SetGroups(r) \/ CredsRead(r) \/ CredsStore(r)
             \/ Persist(r) \/ PersistFails(r)
      PROVE  EffectOK'
  BY <1>0, <1>3, ChangeEffect, CopyEffect, SetGroupsEffect, CredsReadEffect, CredsStoreEffect,
     PersistEffect
<1>4. ASSUME NEW t \in Threads, RebuildBuilds(t) \/ RebuildStores(t)
      PROVE  EffectOK'
  BY <1>0, <1>4, BuildsEffect, StoresEffect
<1>5. ASSUME NEW readable \in BOOLEAN, NEW saved \in BOOLEAN, Start(readable, saved)
      PROVE  EffectOK'
  BY <1>5, FreshEffect DEF Start, Threads
<1>6. QED
  BY <1>1, <1>2, <1>3, <1>4, <1>5 DEF Next, Threads

-----------------------------------------------------------------------------
(* The theorems *)

\* When no request is between its change and the end of applyGroups, the pool is
\* configured with the server's list and schedules by it, the gateway lets in by
\* it and the file has it (server.go:1805), unless since the last change one of
\* them was given an older list than it had, or the list could not be written.
THEOREM PushesSettle == Spec => []Settled
<1>1. ASSUME IInv PROVE Settled
  <2> SUFFICES ASSUME AtRest, crossed < version
               PROVE  \A t \in Targets :
                         has[t] = version \/ (t = "file" /\ failed = version)
    BY <1>1 DEF IInv, Types, HoldsOK, Settled, Targets
  <2>1. \A r \in Handlers, t \in Targets : ~WillGive(r, t)
    BY DEF AtRest, WillGive, Copied
  <2>2. QED
    BY <1>1, <2>1 DEF IInv, Types, SomebodyWill
<1>2. QED
  BY <1>1, Inductive, PTL

\* The server's list and the file's name each group once, whatever requests race
\* each other and wherever the service is restarted; every list holds groups
\* that were configured or submitted; and the gateway's table leads to names of
\* groups (server.go:1622, 1661, 1689; gateway.go:92).
THEOREM GroupAdminTypeCorrect == Spec => []TypeOK
<1>1. ASSUME IInv, ListsOK PROVE TypeOK
  <2>1. ASSUME NEW list \in Seq(Known) PROVE Range(list) \subseteq Known
    BY DEF Range
  <2>2. Range(groups) \cup Range(file) \cup Range(poolCfg) \cup Range(served) \subseteq Known
    BY <1>1, <2>1 DEF ListsOK, Listing
  <2>3. UniqueNames(groups) /\ UniqueNames(file) /\ creds \in Table
    BY <1>1 DEF ListsOK, Listing
  <2>4. version \in 0..MaxChanges /\ has \in [Targets -> 0..version]
    BY <1>1, GroupAdminAssumption DEF IInv, Types, ListsOK
  <2>5. touched \in [Names -> 0..version] /\ crossed \in -1..version /\ failed \in -1..version
    BY <1>1 DEF IInv, Types
  <2>6. QED
    BY <2>2, <2>3, <2>4, <2>5 DEF TypeOK, Known, Table
<1>2. QED
  BY <1>1, Inductive, InitLists, NextLists, PTL DEF Spec

\* When a request is answered, the pool schedules by its change, the file has it,
\* and no credentials lead to its group but those it was given, whatever other
\* requests and rebuilds are under way (server.go:1635); unless the group was
\* changed again, or something was given an older list than it had since.
THEOREM ChangesTakeEffect == Spec => InEffect
<1> DEFINE Good(r) ==
      LET n == h[r].group.name
      IN  (Persist(r) /\ touched[n] = h[r].made /\ crossed' < h[r].made) =>
             /\ Shows(poolCfg, r) /\ Shows(served, r) /\ Shows(file', r)
             /\ \A c \in Creds : creds[c] = n => h[r].op # "remove" /\ h[r].group.cred = c
<1>1. ASSUME IInv, ListsOK, EffectOK, NEW r \in Handlers
      PROVE  Good(r)
  <2> SUFFICES ASSUME Persist(r), touched[h[r].group.name] = h[r].made, crossed' < h[r].made
               PROVE  /\ Shows(poolCfg, r) /\ Shows(served, r) /\ Shows(file', r)
                      /\ \A c \in Creds :
                            creds[c] = h[r].group.name =>
                               h[r].op # "remove" /\ h[r].group.cred = c
    OBVIOUS
  <2>0. /\ Versions(h[r], version) /\ version \in Nat /\ CopiesAgree(r, h[r], groups, touched)
        /\ Passed(h[r], groups, touched, has, crossed)
        /\ has["config"] \in Nat /\ has["snapshot"] \in Nat /\ has["gateway"] \in Nat
        /\ crossed \in Int
    BY <1>1, RequestFact DEF IInv
  <2>1. h[r].stage = "persist" /\ file' = h[r].list
    BY DEF Persist
  <2>2. PICK g \in Known : g = h[r].group
    BY <1>1, <2>1 DEF ListsOK, RequestLists, Working, Copied
  <2>3. g.name \in Names
    BY KnownNames
  <2>4. crossed < h[r].made
    <3>1. crossed' = version \/ crossed' = crossed
      BY DEF Persist, Given
    <3>2. QED
      BY <2>0, <3>1 DEF Versions
  <2>5. /\ 0 < h[r].made /\ Shown(groups, h[r]) /\ h[r].made <= h[r].ver
        /\ h[r].ver <= has["config"] /\ h[r].ver <= has["snapshot"]
        /\ h[r].ver <= has["gateway"]
    BY <2>0, <2>1, <2>4 DEF Passed, Copied
  <2>6. /\ touched[g.name] = h[r].made /\ 0 < touched[g.name] /\ h[r].ver \in Nat
        /\ touched[g.name] <= h[r].ver /\ touched[g.name] <= has["config"]
        /\ touched[g.name] <= has["snapshot"] /\ touched[g.name] <= has["gateway"]
    BY <2>0, <2>2, <2>5 DEF Versions
  <2>7. /\ Agrees(poolCfg, has["config"], groups, touched)
        /\ Agrees(served, has["snapshot"], groups, touched)
        /\ LeadsRight(creds, has["gateway"], groups, touched)
        /\ Agrees(h[r].list, h[r].ver, groups, touched)
    BY <1>1, <2>0, <2>1 DEF EffectOK, AgreeOK, CopiesAgree, Copied
  <2>8. /\ Of(poolCfg, g.name) = Of(groups, g.name) /\ Of(served, g.name) = Of(groups, g.name)
        /\ Of(h[r].list, g.name) = Of(groups, g.name)
    BY <2>3, <2>6, <2>7 DEF Agrees
  <2>9. ASSUME NEW list, Of(list, g.name) = Of(groups, g.name)
        PROVE  Shows(list, r)
    <3>1. Shown(list, h[r])
      BY <2>2, <2>5, <2>9 DEF Shown
    <3>2. QED
      BY <3>1 DEF Shown, Shows, Of, NamesOf, Range
  <2>10. Shows(poolCfg, r) /\ Shows(served, r) /\ Shows(h[r].list, r)
    BY <2>8, <2>9
  <2>11. ASSUME NEW c \in Creds, creds[c] = g.name
         PROVE  h[r].op # "remove" /\ h[r].group.cred = c
    <3>1. PICK k \in Of(groups, g.name) : k.cred = c
      BY <2>3, <2>6, <2>7, <2>11 DEF LeadsRight
    <3>2. h[r].op # "remove" /\ g \in Of(groups, g.name)
      BY <2>2, <2>5, <3>1 DEF Shown
    <3>3. k = g
      BY <1>1, <3>1, <3>2 DEF Of, Range, ListsOK, Listing, UniqueNames
    <3>4. QED
      BY <2>2, <3>1, <3>2, <3>3
  <2>12. Shows(file', r)
    BY <2>1, <2>10 DEF Shows, NamesOf
  <2>13. QED
    BY <2>2, <2>10, <2>11, <2>12
<1>2. IInv /\ ListsOK /\ EffectOK => [\A r \in Handlers : Good(r)]_vars
  BY <1>1
<1>3. QED
  BY <1>2, Inductive, InitLists, NextLists, InitEffect, NextEffect, PTL DEF Spec, InEffect

=============================================================================
