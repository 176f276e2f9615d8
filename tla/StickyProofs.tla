---------------------------- MODULE StickyProofs ----------------------------
(***************************************************************************)
(* For any numbers of clients, calls, proxies, groups and sessions: a      *)
(* client keeps its proxy for its window.                                  *)
(***************************************************************************)
EXTENDS Sticky, TLAPS

-----------------------------------------------------------------------------
(* The inductive invariant *)

Call == [stage : {"idle", "lookup", "pick", "record"}, client : Clients \cup {Nil},
         group : Groups \cup {Nil}, window : Nat, now : Nat,
         proxy : Proxies \cup {Nil}, alone : BOOLEAN]

\* What a call knows at each stage; it read the clock in the past.
CallOK(r) ==
    /\ r \in Call
    /\ r.now <= now
    /\ r.stage # "idle" => r.client \in Clients /\ r.group \in Groups /\ r.window > 0
    /\ r.stage = "record" => r.proxy \in Proxies

Work == [stage : {"idle", "clear", "scan", "store"}, proxy : Proxies \cup {Nil},
         seen : SUBSET Proxies]

Types ==
    /\ now \in 0..MaxNow
    /\ registered \subseteq Proxies /\ alive \subseteq Proxies /\ snapshot \subseteq Proxies
    /\ work \in [Workers -> Work]
    /\ sessions \in [Clients -> Session \cup {Nil}]
    /\ told \in [Clients -> [proxy : Proxies, until : Nat] \cup {Nil}]
    /\ DOMAIN call = Calls /\ call = [c \in Calls |-> call[c]]
    /\ \A c \in Calls : CallOK(call[c])

\* A call that is alone with its client's session is the only one.
AloneOK ==
    \A c, d \in Calls : call[c].stage # "idle" /\ call[c].alone = TRUE /\ c # d =>
        ~Same(d, call[c].client)

\* A call of the client that found no session to use, and will answer.
Assigning(k) == \E c \in Calls : call[c].stage \in {"pick", "record"} /\ call[c].client = k

\* The session agrees with the last answer.
Agrees(k) == sessions[k] # Nil /\ sessions[k].proxy = told[k].proxy
                               /\ sessions[k].expireAt = told[k].until

ToldOK == \A k \in Clients : \/ told[k] = Nil \/ told[k].until <= now
                             \/ Agrees(k) \/ Assigning(k)

IInv == Types /\ AloneOK /\ ToldOK

-----------------------------------------------------------------------------
(* The steps *)

\* No session stands for Nil.
LEMMA NilFacts ==
  /\ Nil \notin Proxies /\ Nil \notin Clients /\ Nil \notin Groups
  /\ MaxNow \in Nat /\ InGroup \in [Groups -> SUBSET Proxies] /\ Churning \subseteq Proxies
  /\ \A w \in Windows : w \in Nat /\ w > 0
BY StickyAssumption

\* StickyNext begins (pool.go:663).
LEMMA BeginOK ==
  ASSUME IInv, NEW c \in Calls, NEW k \in Clients, NEW g \in Groups, NEW w \in Windows,
         Begin(c, k, g, w)
  PROVE  IInv'
<1> DEFINE r == [NoCall EXCEPT !.stage = "lookup", !.client = k, !.group = g,
                               !.window = w, !.now = now,
                               !.alone = ~\E e \in Calls : Same(e, k)]
<1>1. /\ call[c].stage = "idle"
      /\ call' = [d \in Calls |-> IF d = c THEN r
                    ELSE IF Same(d, k) THEN [call[d] EXCEPT !.alone = FALSE] ELSE call[d]]
      /\ now' = now /\ registered' = registered /\ alive' = alive /\ snapshot' = snapshot
      /\ work' = work /\ sessions' = sessions /\ told' = told
  BY DEF Begin, poolVars
<1>2. /\ r.stage = "lookup" /\ r.client = k /\ r.group = g /\ r.window = w /\ r.now = now
      /\ r.proxy = Nil /\ r.alone = (~\E e \in Calls : Same(e, k))
  BY DEF NoCall
<1>3. r \in Call
  <2>1. now \in Nat /\ w \in Nat
    BY NilFacts DEF IInv, Types
  <2>2. QED
    BY <2>1 DEF NoCall, Call
<1> HIDE DEF r
<1>4. ASSUME NEW d \in Calls \ {c}
      PROVE  /\ call'[d].stage = call[d].stage /\ call'[d].client = call[d].client
             /\ call'[d].alone = TRUE => call[d].alone = TRUE /\ ~Same(d, k)
             /\ CallOK(call'[d])
  <2>1. CallOK(call[d]) /\ call[d] \in Call
    BY DEF IInv, Types, CallOK
  <2>2. CASE Same(d, k)
    <3> DEFINE q == [call[d] EXCEPT !.alone = FALSE]
    <3>1. q \in Call /\ q.alone = FALSE
      BY <2>1 DEF Call
    <3>2. /\ q.stage = call[d].stage /\ q.client = call[d].client /\ q.group = call[d].group
          /\ q.window = call[d].window /\ q.now = call[d].now /\ q.proxy = call[d].proxy
      BY <2>1 DEF Call
    <3>3. call'[d] = q
      BY <1>1, <2>2
    <3> HIDE DEF q
    <3>4. QED
      BY <2>1, <3>1, <3>2, <3>3 DEF CallOK
  <2>3. CASE ~Same(d, k)
    BY <1>1, <2>1, <2>3
  <2>4. QED
    BY <2>2, <2>3
<1>5. Types'
  <2>1. CallOK(call'[c])
    BY <1>1, <1>2, <1>3, NilFacts DEF IInv, Types, CallOK
  <2>2. \A d \in Calls : CallOK(call'[d])
    BY <1>4, <2>1
  <2>3. \A d \in Calls : CallOK(call[d])'
    BY <1>1, <2>2 DEF CallOK
  <2>4. QED
    BY <1>1, <2>3 DEF IInv, Types
<1>6. AloneOK'
  <2> SUFFICES ASSUME NEW d \in Calls, NEW e \in Calls, d # e,
                      call'[d].stage # "idle", call'[d].alone = TRUE,
                      call'[e].stage # "idle", call'[e].client = call'[d].client
               PROVE  FALSE
    BY DEF AloneOK, Same
  <2>1. CASE d = c
    <3>1. r.alone = TRUE /\ call'[d].client = k
      BY <1>1, <1>2, <2>1
    <3>2. Same(e, k)
      BY <1>4, <2>1, <3>1 DEF Same
    <3>3. QED
      BY <1>2, <3>1, <3>2
  <2>2. CASE e = c
    <3>1. call'[e].client = k
      BY <1>1, <1>2, <2>2
    <3>2. Same(d, k)
      BY <1>4, <2>2, <3>1 DEF Same
    <3>3. QED
      BY <1>4, <2>2, <3>2
  <2>3. CASE d # c /\ e # c
    BY <1>4, <2>3 DEF IInv, AloneOK, Same
  <2>4. QED
    BY <2>1, <2>2, <2>3
<1>7. ToldOK'
  BY <1>1, <1>2, <1>4 DEF IInv, ToldOK, Agrees, Assigning
<1>8. QED
  BY <1>5, <1>6, <1>7 DEF IInv

\* A step of a call that returns or goes on with the same client.
LEMMA OneCall ==
  ASSUME IInv, NEW c \in Calls, NEW r, CallOK(r), call' = [call EXCEPT ![c] = r],
         now' = now,
         \/ r.stage = "idle"
         \/ call[c].stage # "idle" /\ r.client = call[c].client /\ r.alone = call[c].alone
  PROVE  /\ DOMAIN call' = Calls /\ call' = [d \in Calls |-> call'[d]]
         /\ \A d \in Calls : CallOK(call[d])'
         /\ AloneOK'
         /\ call'[c] = r /\ \A d \in Calls \ {c} : call'[d] = call[d]
<1>1. DOMAIN call' = Calls /\ call' = [d \in Calls |-> call'[d]]
  BY DEF IInv, Types
<1>2. call'[c] = r /\ \A d \in Calls \ {c} : call'[d] = call[d]
  BY DEF IInv, Types
<1>3. \A d \in Calls : CallOK(call'[d])
  BY <1>2 DEF IInv, Types
<1>4. \A d \in Calls : CallOK(call[d])'
  BY <1>3 DEF CallOK
<1>5. AloneOK'
  BY <1>2 DEF IInv, AloneOK, Same
<1>6. QED
  BY <1>1, <1>2, <1>4, <1>5

\* What a step of a call makes of its own record.
LEMMA CallForms ==
  ASSUME IInv, NEW c \in Calls, call[c].stage # "idle"
  PROVE  /\ CallOK(NoCall) /\ NoCall.stage = "idle"
         /\ LET r == [call[c] EXCEPT !.stage = "pick"]
            IN  CallOK(r) /\ r.stage = "pick" /\ r.client = call[c].client
                          /\ r.alone = call[c].alone
         /\ \A p \in Proxies :
              LET r == [call[c] EXCEPT !.stage = "record", !.proxy = p]
              IN  CallOK(r) /\ r.stage = "record" /\ r.client = call[c].client
                            /\ r.alone = call[c].alone
<1>1. CallOK(call[c]) /\ call[c] \in Call /\ now \in Nat
  BY NilFacts DEF IInv, Types, CallOK
<1>2. CallOK(NoCall) /\ NoCall.stage = "idle"
  BY <1>1, NilFacts DEF NoCall, CallOK, Call
<1>3. ASSUME NEW q, NEW st \in {"pick", "record"}, NEW p \in Proxies \cup {Nil},
             st = "record" => p \in Proxies,
             q = [call[c] EXCEPT !.stage = st, !.proxy = p]
      PROVE  CallOK(q) /\ q.stage = st /\ q.client = call[c].client /\ q.alone = call[c].alone
  <2>1. q \in Call
    BY <1>1, <1>3 DEF Call
  <2>2. /\ q.stage = st /\ q.client = call[c].client /\ q.group = call[c].group
        /\ q.window = call[c].window /\ q.now = call[c].now /\ q.proxy = p
        /\ q.alone = call[c].alone
    BY <1>1, <1>3 DEF Call
  <2>3. QED
    BY <1>1, <1>3, <2>1, <2>2 DEF CallOK
<1>4. /\ call[c].proxy \in Proxies \cup {Nil}
      /\ [call[c] EXCEPT !.stage = "pick"]
           = [call[c] EXCEPT !.stage = "pick", !.proxy = call[c].proxy]
  BY <1>1 DEF Call
<1>5. QED
  BY <1>2, <1>3, <1>4

\* The first critical section (pool.go:674) agrees with its answer, or leaves a
\* call that is about to assign a proxy.
LEMMA LookupOK ==
  ASSUME IInv, NEW c \in Calls, Lookup(c)
  PROVE  IInv'
<1> DEFINE k == call[c].client
           s == sessions[k]
           hit == Valid(s, call[c].now) /\ s.proxy \in registered \cap alive
<1>1. /\ call[c].stage = "lookup" /\ k \in Clients
      /\ now' = now /\ registered' = registered /\ alive' = alive /\ snapshot' = snapshot
      /\ work' = work
  BY DEF Lookup, poolVars, IInv, Types, CallOK
<1>2. s \in Session \cup {Nil}
  BY <1>1 DEF IInv, Types
<1>3. CASE hit
  <2>1. /\ call' = [call EXCEPT ![c] = NoCall] /\ sessions' = sessions
        /\ told' = [told EXCEPT ![k] = [proxy |-> s.proxy, until |-> s.expireAt]]
    BY <1>3 DEF Lookup, Return
  <2>2. s # Nil /\ s.proxy \in Proxies /\ s.expireAt \in Nat
    BY <1>2, <1>3 DEF Valid, Session
  <2> DEFINE t == [proxy |-> s.proxy, until |-> s.expireAt]
  <2>3. /\ t \in [proxy : Proxies, until : Nat]
        /\ t.proxy = s.proxy /\ t.until = s.expireAt
    BY <2>2
  <2>4. told' = [told EXCEPT ![k] = t]
    BY <2>1
  <2> HIDE DEF t
  <2>5. /\ told'[k] = t /\ \A j \in Clients \ {k} : told'[j] = told[j]
        /\ told' \in [Clients -> [proxy : Proxies, until : Nat] \cup {Nil}]
    BY <1>1, <2>3, <2>4 DEF IInv, Types
  <2>6. /\ DOMAIN call' = Calls /\ call' = [d \in Calls |-> call'[d]]
        /\ \A d \in Calls : CallOK(call[d])'
        /\ AloneOK'
        /\ call'[c] = NoCall /\ \A d \in Calls \ {c} : call'[d] = call[d]
    BY <1>1, <2>1, OneCall, CallForms
  <2>7. Types'
    BY <1>1, <2>1, <2>5, <2>6 DEF IInv, Types
  <2>8. ASSUME NEW j \in Clients
        PROVE  told'[j] = Nil \/ told'[j].until <= now \/ Agrees(j)' \/ Assigning(j)'
    <3>1. CASE j = k
      BY <2>1, <2>2, <2>3, <2>5, <3>1 DEF Agrees
    <3>2. CASE j # k
      <4>1. Assigning(j) => Assigning(j)'
        BY <1>1, <2>6 DEF Assigning
      <4>2. Agrees(j) => Agrees(j)'
        BY <2>1, <2>5, <3>2 DEF Agrees
      <4>3. QED
        BY <2>5, <3>2, <4>1, <4>2 DEF IInv, ToldOK
    <3>3. QED
      BY <3>1, <3>2
  <2>9. QED
    BY <1>1, <2>6, <2>7, <2>8 DEF IInv, ToldOK
<1>4. CASE ~hit
  <2> DEFINE r == [call[c] EXCEPT !.stage = "pick"]
  <2>1. /\ call' = [call EXCEPT ![c] = r] /\ told' = told
        /\ sessions' = IF Valid(s, call[c].now) THEN [sessions EXCEPT ![k] = Nil] ELSE sessions
    BY <1>4 DEF Lookup, Goto
  <2>2. CallOK(r) /\ r.stage = "pick" /\ r.client = k /\ r.alone = call[c].alone
    BY <1>1, CallForms
  <2> HIDE DEF r
  <2>3. /\ DOMAIN call' = Calls /\ call' = [d \in Calls |-> call'[d]]
        /\ \A d \in Calls : CallOK(call[d])'
        /\ AloneOK'
        /\ call'[c] = r /\ \A d \in Calls \ {c} : call'[d] = call[d]
    BY <1>1, <2>1, <2>2, OneCall
  <2>4. /\ sessions' \in [Clients -> Session \cup {Nil}]
        /\ \A j \in Clients \ {k} : sessions'[j] = sessions[j]
    BY <2>1 DEF IInv, Types
  <2>5. Types'
    BY <1>1, <2>1, <2>3, <2>4 DEF IInv, Types
  <2>6. ASSUME NEW j \in Clients
        PROVE  told'[j] = Nil \/ told'[j].until <= now \/ Agrees(j)' \/ Assigning(j)'
    <3>1. CASE j = k
      BY <2>2, <2>3, <3>1 DEF Assigning
    <3>2. CASE j # k
      <4>1. Assigning(j) => Assigning(j)'
        BY <1>1, <2>3 DEF Assigning
      <4>2. Agrees(j) => Agrees(j)'
        BY <2>1, <2>4, <3>2 DEF Agrees
      <4>3. QED
        BY <2>1, <4>1, <4>2 DEF IInv, ToldOK
    <3>3. QED
      BY <3>1, <3>2
  <2>7. QED
    BY <1>1, <2>3, <2>5, <2>6 DEF IInv, ToldOK
<1>5. QED
  BY <1>3, <1>4

\* NextInGroup between the critical sections: a pick from the snapshot, or the
\* answer that there is none.
LEMMA PickOK ==
  ASSUME IInv, NEW c \in Calls, Pick(c)
  PROVE  IInv'
<1> DEFINE k == call[c].client
<1>1. /\ call[c].stage = "pick" /\ k \in Clients /\ call[c].group \in Groups
      /\ now' = now /\ registered' = registered /\ alive' = alive /\ snapshot' = snapshot
      /\ work' = work /\ sessions' = sessions
  BY DEF Pick, poolVars, IInv, Types, CallOK
<1>2. ASSUME NEW p \in InGroup[call[c].group],
             call' = [call EXCEPT ![c].stage = "record", ![c].proxy = p], told' = told
      PROVE  IInv'
  <2> DEFINE r == [call[c] EXCEPT !.stage = "record", !.proxy = p]
  <2>1. p \in Proxies
    BY <1>1, NilFacts
  <2>2. CallOK(r) /\ r.stage = "record" /\ r.client = k /\ r.alone = call[c].alone
    BY <1>1, <2>1, CallForms
  <2>3. call' = [call EXCEPT ![c] = r]
    BY <1>2 DEF IInv, Types
  <2> HIDE DEF r
  <2>4. /\ DOMAIN call' = Calls /\ call' = [d \in Calls |-> call'[d]]
        /\ \A d \in Calls : CallOK(call[d])'
        /\ AloneOK'
        /\ call'[c] = r /\ \A d \in Calls \ {c} : call'[d] = call[d]
    BY <1>1, <2>2, <2>3, OneCall
  <2>5. Types'
    BY <1>1, <1>2, <2>4 DEF IInv, Types
  <2>6. \A j \in Clients : Assigning(j) => Assigning(j)'
    BY <1>1, <2>2, <2>4 DEF Assigning
  <2>7. ToldOK'
    BY <1>1, <1>2, <2>6 DEF IInv, ToldOK, Agrees
  <2>8. QED
    BY <2>4, <2>5, <2>7 DEF IInv
<1>3. ASSUME call' = [call EXCEPT ![c] = NoCall], told' = [told EXCEPT ![k] = Nil]
      PROVE  IInv'
  <2>1. /\ DOMAIN call' = Calls /\ call' = [d \in Calls |-> call'[d]]
        /\ \A d \in Calls : CallOK(call[d])'
        /\ AloneOK'
        /\ call'[c] = NoCall /\ \A d \in Calls \ {c} : call'[d] = call[d]
    BY <1>1, <1>3, OneCall, CallForms
  <2>2. /\ told'[k] = Nil /\ \A j \in Clients \ {k} : told'[j] = told[j]
        /\ told' \in [Clients -> [proxy : Proxies, until : Nat] \cup {Nil}]
    BY <1>1, <1>3 DEF IInv, Types
  <2>3. Types'
    BY <1>1, <2>1, <2>2 DEF IInv, Types
  <2>4. \A j \in Clients \ {k} : Assigning(j) => Assigning(j)'
    BY <1>1, <2>1 DEF Assigning
  <2>5. ToldOK'
    BY <1>1, <2>2, <2>4 DEF IInv, ToldOK, Agrees
  <2>6. QED
    BY <2>1, <2>3, <2>5 DEF IInv
<1>4. QED
  BY <1>2, <1>3 DEF Pick, Return

\* Purging takes no session that holds at the time t, nor a later one.
LEMMA PurgedFact ==
  ASSUME NEW f \in [Clients -> Session \cup {Nil}], NEW t \in Nat
  PROVE  /\ Purged(f, t) \in [Clients -> Session \cup {Nil}]
         /\ \A j \in Clients : f[j] # Nil /\ f[j].expireAt > t => Purged(f, t)[j] = f[j]
BY DEF Purged, Valid

\* The second critical section (pool.go:697), and the answer.
LEMMA RecordOK ==
  ASSUME IInv, NEW c \in Calls, Record(c)
  PROVE  IInv'
<1> DEFINE k == call[c].client
           s == [proxy |-> call[c].proxy, expireAt |-> call[c].now + call[c].window]
           t == [proxy |-> s.proxy, until |-> s.expireAt]
           f == [sessions EXCEPT ![k] = s]
<1>1. /\ call[c].stage = "record"
      /\ now' = now /\ registered' = registered /\ alive' = alive /\ snapshot' = snapshot
      /\ work' = work
      /\ sessions' = Purged(f, call[c].now)
      /\ told' = [told EXCEPT ![k] = t]
      /\ call' = [call EXCEPT ![c] = NoCall]
  BY DEF Record, poolVars, Return
<1>2. /\ k \in Clients /\ call[c].proxy \in Proxies /\ call[c].now \in Nat
      /\ call[c].window \in Nat /\ call[c].window > 0 /\ call[c].now <= now /\ now \in Nat
  BY <1>1, NilFacts DEF IInv, Types, CallOK, Call
<1>3. /\ s \in Session /\ s # Nil /\ s.expireAt > call[c].now /\ s.expireAt \in Nat
      /\ t \in [proxy : Proxies, until : Nat]
      /\ t.proxy = s.proxy /\ t.until = s.expireAt
  <2>1. Nil \notin Session
    BY StickyAssumption
  <2>2. QED
    BY <1>2, <2>1 DEF Session
<1> HIDE DEF s, t
<1>4. f \in [Clients -> Session \cup {Nil}] /\ f[k] = s /\ \A j \in Clients \ {k} : f[j] = sessions[j]
  BY <1>2, <1>3 DEF IInv, Types
<1> HIDE DEF f
<1>5. /\ sessions' \in [Clients -> Session \cup {Nil}] /\ sessions'[k] = s
      /\ \A j \in Clients \ {k} : sessions[j] # Nil /\ sessions[j].expireAt > now =>
            sessions'[j] = sessions[j]
  <2>1. /\ sessions' \in [Clients -> Session \cup {Nil}]
        /\ \A j \in Clients : f[j] # Nil /\ f[j].expireAt > call[c].now => sessions'[j] = f[j]
    BY <1>1, <1>2, <1>4, PurgedFact
  <2>2. \A j \in Clients : sessions[j] # Nil => sessions[j].expireAt \in Nat
    BY DEF IInv, Types, Session
  <2>3. QED
    BY <1>2, <1>3, <1>4, <2>1, <2>2
<1>6. /\ told'[k] = t /\ \A j \in Clients \ {k} : told'[j] = told[j]
      /\ told' \in [Clients -> [proxy : Proxies, until : Nat] \cup {Nil}]
  BY <1>1, <1>2, <1>3 DEF IInv, Types
<1>7. /\ DOMAIN call' = Calls /\ call' = [d \in Calls |-> call'[d]]
      /\ \A d \in Calls : CallOK(call[d])'
      /\ AloneOK'
      /\ call'[c] = NoCall /\ \A d \in Calls \ {c} : call'[d] = call[d]
  BY <1>1, OneCall, CallForms
<1>8. Types'
  BY <1>1, <1>5, <1>6, <1>7 DEF IInv, Types
<1>9. ASSUME NEW j \in Clients
      PROVE  told'[j] = Nil \/ told'[j].until <= now \/ Agrees(j)' \/ Assigning(j)'
  <2>1. CASE j = k
    BY <1>3, <1>5, <1>6, <2>1 DEF Agrees
  <2>2. CASE j # k
    <3>1. Assigning(j) => Assigning(j)'
      BY <1>1, <1>7, <2>2 DEF Assigning
    <3>2. told[j] # Nil => told[j].until \in Nat
      BY DEF IInv, Types
    <3>3. told[j] # Nil /\ ~(told[j].until <= now) /\ Agrees(j) => Agrees(j)'
      BY <1>2, <1>5, <1>6, <2>2, <3>2 DEF Agrees
    <3>4. QED
      BY <1>6, <2>2, <3>1, <3>3 DEF IInv, ToldOK
  <2>3. QED
    BY <2>1, <2>2
<1>10. QED
  BY <1>1, <1>7, <1>8, <1>9 DEF IInv, ToldOK

\* A worker's own record: what it scanned is a set of proxies.
LEMMA WorkFact ==
  ASSUME IInv, NEW w \in Workers
  PROVE  /\ work[w] \in Work /\ NoWork \in Work
         /\ \A st \in {"idle", "clear", "scan", "store"} : [NoWork EXCEPT !.stage = st] \in Work
BY NilFacts DEF IInv, Types, Work, NoWork

\* The steps of the pool: sessions go only with their proxy, and the answers
\* that named it go with them (pool.go:165).
LEMMA PoolStepOK ==
  ASSUME IInv, NEW w \in Workers, PoolStep(w)
  PROVE  IInv'
<1>1. call' = call /\ now' = now
  BY DEF PoolStep, Report, Remove, ClearSticky, RemoveExpired, Add, RebuildScans, RebuildStores
<1>2. registered' \subseteq Proxies /\ alive' \subseteq Proxies /\ snapshot' \subseteq Proxies
  <2>1. work[w].seen \subseteq Proxies
    BY WorkFact DEF Work
  <2>2. QED
    BY <2>1, NilFacts DEF PoolStep, Report, Remove, ClearSticky, RemoveExpired, Add,
                         RebuildScans, RebuildStores, IInv, Types
<1>3. work' \in [Workers -> Work]
  <2>1. ASSUME NEW q \in Work, work' = [work EXCEPT ![w] = q]
        PROVE  work' \in [Workers -> Work]
    BY <2>1 DEF IInv, Types
  <2>2. \A st \in {"idle", "clear", "scan", "store"} :
           Turn(w, st) => work' \in [Workers -> Work]
    BY <2>1, WorkFact DEF Turn
  <2>3. ASSUME NEW p \in Churning, Remove(w, p)
        PROVE  work' \in [Workers -> Work]
    <3> DEFINE q == [work[w] EXCEPT !.stage = "clear", !.proxy = p]
    <3>1. q \in Work
      BY NilFacts, WorkFact DEF Work
    <3>2. work' = [work EXCEPT ![w] = q]
      BY <2>3 DEF Remove, IInv, Types
    <3>3. QED
      BY <2>1, <3>1, <3>2
  <2>4. ASSUME RebuildScans(w)
        PROVE  work' \in [Workers -> Work]
    <3> DEFINE q == [work[w] EXCEPT !.stage = "store", !.seen = registered \cap alive]
    <3>1. q \in Work
      BY WorkFact DEF Work, IInv, Types
    <3>2. work' = [work EXCEPT ![w] = q]
      BY <2>4 DEF RebuildScans, IInv, Types
    <3>3. QED
      BY <2>1, <3>1, <3>2
  <2>5. RebuildStores(w) => work' \in [Workers -> Work]
    BY <2>1, WorkFact DEF RebuildStores
  <2>6. QED
    BY <2>2, <2>3, <2>4, <2>5 DEF PoolStep, Report, ClearSticky, RemoveExpired, Add
<1>4. \A k \in Clients : Assigning(k)' = Assigning(k)
  BY <1>1 DEF Assigning
<1>5. CASE sessions' = sessions /\ told' = told
  BY <1>1, <1>2, <1>3, <1>4, <1>5
     DEF IInv, Types, CallOK, AloneOK, Same, ToldOK, Agrees
<1>6. CASE ClearSticky(w)
  <2> DEFINE p == work[w].proxy
  <2>1. /\ sessions' = [k \in Clients |-> IF sessions[k] # Nil /\ sessions[k].proxy = p
                                          THEN Nil ELSE sessions[k]]
        /\ told' = [k \in Clients |-> IF told[k] # Nil /\ told[k].proxy = p
                                      THEN Nil ELSE told[k]]
    BY <1>6 DEF ClearSticky
  <2>2. Types'
    BY <1>1, <1>2, <1>3, <2>1 DEF IInv, Types, CallOK
  <2>3. AloneOK'
    BY <1>1 DEF IInv, AloneOK, Same
  <2>4. ToldOK'
    BY <1>1, <1>4, <2>1 DEF IInv, ToldOK, Agrees
  <2>5. QED
    BY <2>2, <2>3, <2>4 DEF IInv
<1>7. QED
  BY <1>5, <1>6 DEF PoolStep, Report, Remove, RemoveExpired, Add, RebuildScans, RebuildStores

\* Time passes: windows end.
LEMMA TickOK ==
  ASSUME IInv, Tick
  PROVE  IInv'
<1>1. /\ now' = now + 1 /\ now' \in 0..MaxNow /\ now \in Nat
      /\ registered' = registered /\ alive' = alive /\ snapshot' = snapshot
      /\ work' = work /\ sessions' = sessions /\ call' = call
      /\ told' = [k \in Clients |-> IF told[k] # Nil /\ told[k].until <= now' THEN Nil ELSE told[k]]
  BY NilFacts DEF Tick, poolVars, IInv, Types
<1>2. \A c \in Calls : CallOK(call[c])'
  BY <1>1 DEF IInv, Types, CallOK, Call
<1>3. Types'
  BY <1>1, <1>2 DEF IInv, Types
<1>4. AloneOK' /\ \A k \in Clients : Assigning(k)' = Assigning(k)
  BY <1>1 DEF IInv, AloneOK, Same, Assigning
<1>5. ToldOK'
  BY <1>1, <1>4 DEF IInv, Types, ToldOK, Agrees
<1>6. QED
  BY <1>3, <1>4, <1>5 DEF IInv

\* The pool starts with no sessions and no calls.
LEMMA InitOK == Init => IInv
<1> SUFFICES ASSUME Init PROVE IInv
  OBVIOUS
<1>1. CallOK(NoCall) /\ NoCall.stage = "idle"
  BY NilFacts DEF Init, NoCall, CallOK, Call
<1>2. Types
  BY <1>1, NilFacts DEF Init, Types, Work, NoWork
<1>3. AloneOK /\ ToldOK
  BY <1>1 DEF Init, AloneOK, ToldOK
<1>4. QED
  BY <1>2, <1>3 DEF IInv

\* Every step keeps the invariant.
LEMMA NextOK == IInv /\ [Next]_vars => IInv'
<1> SUFFICES ASSUME IInv, [Next]_vars PROVE IInv'
  OBVIOUS
<1>1. CASE UNCHANGED vars
  BY <1>1 DEF vars, poolVars, IInv, Types, CallOK, AloneOK, Same, ToldOK, Agrees, Assigning
<1>2. QED
  BY <1>1, BeginOK, LookupOK, PickOK, RecordOK, PoolStepOK, TickOK DEF Next

\* Every reachable state has it.
LEMMA Inductive == Spec => []IInv
BY InitOK, NextOK, PTL DEF Spec

-----------------------------------------------------------------------------
(* The theorems *)

\* Type correctness: sessions and answers name proxies, never "none"
\* (pool.go:693), however many overtaken rebuilds leave the snapshot behind.
THEOREM StickyTypeCorrect == Spec => []TypeOK
<1>1. IInv => TypeOK
  BY DEF IInv, Types, CallOK, Call, Work, TypeOK
<1>2. QED
  BY <1>1, Inductive, PTL

\* A client keeps its proxy for the length of its window (README.md:10), as
\* long as the proxy is there and alive and the client's calls come one after
\* the other; whatever other clients, purges, deaths and recoveries do.
THEOREM ClientsKeepTheirProxy == Spec => StickyHolds
<1> DEFINE Holds(c) ==
      LET k == call[c].client
      IN  (/\ call[c].stage = "lookup" /\ call'[c].stage # "lookup" /\ call[c].alone
           /\ told[k] # Nil
           /\ told[k].until > now /\ told[k].proxy \in registered \cap alive)
          => call'[c].stage = "idle" /\ told'[k].proxy = told[k].proxy
<1>1. ASSUME IInv, Next, NEW c \in Calls,
             call[c].stage = "lookup", call'[c].stage # "lookup"
      PROVE  Lookup(c)
  <2>1. ASSUME NEW d \in Calls, NEW k \in Clients, NEW g \in Groups, NEW w \in Windows,
               Begin(d, k, g, w)
        PROVE  FALSE
    <3>1. d # c
      BY <1>1, <2>1 DEF Begin
    <3>2. call'[c].stage = call[c].stage
      BY <1>1, <2>1, <3>1 DEF Begin, IInv, Types, CallOK, Call
    <3>3. QED
      BY <1>1, <3>2
  <2>2. ASSUME NEW d \in Calls, d # c, Lookup(d) \/ Pick(d) \/ Record(d)
        PROVE  FALSE
    <3>1. call'[c] = call[c]
      BY <1>1, <2>2 DEF Lookup, Pick, Record, Goto, Return, IInv, Types
    <3>2. QED
      BY <1>1, <3>1
  <2>3. ~Pick(c) /\ ~Record(c)
    BY <1>1 DEF Pick, Record
  <2>4. ASSUME NEW w \in Workers, PoolStep(w)
        PROVE  FALSE
    BY <1>1, <2>4 DEF PoolStep, Report, Remove, ClearSticky, RemoveExpired, Add,
                     RebuildScans, RebuildStores
  <2>5. ~Tick
    BY <1>1 DEF Tick
  <2>6. QED
    BY <1>1, <2>1, <2>2, <2>3, <2>4, <2>5 DEF Next
<1>2. ASSUME IInv, Next, NEW c \in Calls
      PROVE  Holds(c)
  <2> DEFINE k == call[c].client
  <2> SUFFICES ASSUME call[c].stage = "lookup", call'[c].stage # "lookup", call[c].alone,
                      told[k] # Nil, told[k].until > now, told[k].proxy \in registered \cap alive
               PROVE  call'[c].stage = "idle" /\ told'[k].proxy = told[k].proxy
    OBVIOUS
  <2>1. Lookup(c)
    BY <1>1, <1>2
  <2>2. k \in Clients /\ call[c].now <= now /\ call[c].now \in Nat /\ now \in Nat
    BY <1>2, NilFacts DEF IInv, Types, CallOK, Call
  <2>3. call[c].alone = TRUE
    BY <1>2 DEF IInv, Types, CallOK, Call
  <2>4. ~Assigning(k)
    BY <1>2, <2>3 DEF IInv, AloneOK, Same, Assigning
  <2>5. told[k].until \in Nat
    BY <1>2, <2>2 DEF IInv, Types
  <2>6. Agrees(k)
    BY <1>2, <2>2, <2>4, <2>5 DEF IInv, ToldOK
  <2>7. Valid(sessions[k], call[c].now) /\ sessions[k].proxy \in registered \cap alive
    BY <2>2, <2>5, <2>6 DEF Agrees, Valid
  <2>8. /\ call' = [call EXCEPT ![c] = NoCall]
        /\ told' = [told EXCEPT ![k] = [proxy |-> sessions[k].proxy,
                                         until |-> sessions[k].expireAt]]
    BY <2>1, <2>7 DEF Lookup, Return
  <2>9. call'[c].stage = "idle"
    BY <1>2, <2>8 DEF NoCall, IInv, Types
  <2>10. told'[k].proxy = sessions[k].proxy
    BY <1>2, <2>2, <2>8 DEF IInv, Types
  <2>11. QED
    BY <2>6, <2>9, <2>10 DEF Agrees
<1>3. IInv /\ [Next]_vars => [\A c \in Calls : Holds(c)]_vars
  BY <1>2
<1>4. QED
  BY <1>3, Inductive, PTL DEF StickyHolds, Spec

=============================================================================
