------------------------------- MODULE Gateway -------------------------------
(***************************************************************************)
(* The forward proxy (internal/gateway/gateway.go): what happens to a      *)
(* request after its credentials have named a group.  A request picks a    *)
(* proxy of the group, dials it, writes the request, reads the answer and  *)
(* relays it, or goes on to a fresh proxy, up to MaxProxyAttempts times.   *)
(* Requests run concurrently and share the pool's SWRR state; a pick takes *)
(* the lock once per round (pool.go:544), so the rounds of two requests    *)
(* interleave.  Which group a client may name is the subject of            *)
(* GroupAdmin.                                                             *)
(*                                                                         *)
(* Upstream proxies are the environment: they refuse, break off, serve an  *)
(* error page, answer, or say nothing for ever.                            *)
(***************************************************************************)
EXTENDS GroupLayers

CONSTANTS
    Clients,            \* requests that can be in progress at a time
    KindsOf,            \* the kinds of requests each client sends
    MaxProxyAttempts    \* maxProxyAttempts; 3 in the code

ASSUME GatewayAssumption ==
    /\ KindsOf \in [Clients -> SUBSET {"get", "post", "connect", "plain"}]
    /\ MaxProxyAttempts \in Nat \ {0}

VARIABLES
    configured, \* the groups in the pool's snapshot
    req         \* the state of each request:
                \*   stage     where it is
                \*   kind      "get": no body, "post": with one, "connect": a
                \*             tunnel, "plain": ForwardPlain of /api/v1/gw
                \*   group     its group
                \*   excluded  handleHTTP's and handleConnect's excluded
                \*   tried     their counter; it equals attempt
                \*   rest      layers of the loaded snapshot still to be looked at
                \*   rounds    SWRR rounds made in the first of them
                \*   bodyLeft  r.Body has not been read from
                \*   reply     what the client of the last request was told
                \*   empty     history: the snapshot had no usable layer
                \*   whole     history: how often all of its body was written

vars == <<layerVars, configured, req>>

\* A request at stage s whose locals are not there yet, or gone.
Blank(s) ==
    [stage |-> s, kind |-> "none", group |-> Nil, excluded |-> {}, tried |-> 0,
     rest |-> << >>, rounds |-> 0, bodyLeft |-> TRUE, reply |-> "none",
     empty |-> FALSE, whole |-> 0]

\* The handler returns, having told the client r.
Answer(c, r) == req' = [req EXCEPT ![c] = [Blank("idle") EXCEPT !.reply = r]]

-----------------------------------------------------------------------------
(* Picking *)

\* The layers of the snapshot that NextInGroupExcluding does not pass over.
UsableLayers(g) ==
    FlattenSeq([k \in DOMAIN Layers(g) |-> IF Usable(Layers(g)[k]) THEN <<Layers(g)[k]>> ELSE << >>])

\* NextInGroupExcluding loads the snapshot and looks the group up by name.
LoadLayers(r) ==
    LET layers == IF r.group \in configured THEN UsableLayers(r.group) ELSE << >>
    IN  [r EXCEPT !.stage = "pick", !.rest = layers, !.rounds = 0, !.empty = layers = << >>]

\* ServeHTTP or handleGatewayProxy has found the group of the credentials, and
\* the first attempt begins.
Arrive(c, k, g) ==
    /\ req[c].stage = "idle"
    /\ req' = [req EXCEPT ![c] = LoadLayers([Blank("pick") EXCEPT !.kind = k, !.group = g])]
    /\ UNCHANGED <<layerVars, configured>>

\* Mutant: one attempt too many.
RetryOnceMore(c, r) ==
    IF r.kind = "plain" \/ r.tried > MaxProxyAttempts THEN Answer(c, "allFailed")
    ELSE req' = [req EXCEPT ![c] = LoadLayers(r)]

\* "retry": another attempt if there is one left.  ForwardPlain has only one.
Retry(c, r) ==
    IF r.kind = "plain" \/ r.tried >= MaxProxyAttempts THEN Answer(c, "allFailed")
    ELSE req' = [req EXCEPT ![c] = LoadLayers(r)]

\* Mutant: the chosen proxy is not excluded from the next attempts.
ChosenNotExcluded(r, p) ==
    [r EXCEPT !.stage = "dial", !.tried = @ + 1, !.rest = << >>, !.rounds = 0]

\* The pick returns p.
Chosen(r, p) ==
    [r EXCEPT !.stage = "dial", !.tried = @ + 1, !.rest = << >>, !.rounds = 0,
              !.excluded = @ \cup {p}]

\* Mutant: a layer whose proxies are excluded is looked at again.
NextLayerAgain(r) == [r EXCEPT !.rounds = 0]

\* The layer yields nothing: on to the next one.
NextLayer(r) == [r EXCEPT !.rest = Tail(@), !.rounds = 0]

\* One round of pickLayer: a turn of the SWRR, or the 1000 random draws, which
\* may all hit excluded proxies if there are any.
PickRound(c) ==
    /\ req[c].stage = "pick" /\ req[c].rest # << >>
    /\ LET r == req[c]
           l == Head(r.rest)
           turn == PickSWRR(l, swrr, latency)
       IN  \/ /\ l.useSWRR
              /\ swrr' = turn.swrr
              /\ req' = [req EXCEPT ![c] =
                            IF turn.best \notin r.excluded THEN Chosen(r, turn.best)
                            ELSE IF r.rounds + 1 = Len(l.proxies) THEN NextLayer(r)
                            ELSE [r EXCEPT !.rounds = @ + 1]]
           \/ /\ ~l.useSWRR
              /\ \/ \E p \in Range(l.proxies) \ r.excluded : req' = [req EXCEPT ![c] = Chosen(r, p)]
                 \/ /\ Range(l.proxies) \cap r.excluded # {}
                    /\ req' = [req EXCEPT ![c] = NextLayer(r)]
              /\ UNCHANGED swrr
    /\ UNCHANGED <<registered, alive, order, latency, configured>>

\* The pick returns nil: exhausted after the first attempt, empty before it.
NoneLeft(c) ==
    /\ req[c].stage = "pick" /\ req[c].rest = << >>
    /\ Answer(c, IF req[c].tried > 0 THEN "allFailed" ELSE "noProxy")
    /\ UNCHANGED <<layerVars, configured>>

-----------------------------------------------------------------------------
(* One attempt *)

Goto(c, s) == req' = [req EXCEPT ![c].stage = s]

\* An upstream that has the connection and says nothing for ever: no deadline
\* ends the wait.
Hang(c) == req' = [req EXCEPT ![c] = Blank("silent")]

\* dialUpstream, dialTCP: bounded by dialTimeout, except for the TLS handshake
\* with an https upstream, which relayConnect does not make.
Dial(c) ==
    /\ req[c].stage = "dial"
    /\ \/ Goto(c, "send")
       \/ req[c].kind # "connect" /\ Hang(c)
       \/ Retry(c, req[c])
    /\ UNCHANGED <<layerVars, configured>>

\* Mutant: every attempt gets a body of its own.
CanWriteAgain(r) == TRUE

\* WriteProxy of a clone that shares r.Body: a body that has been read from is
\* closed or shorter than its Content-Length, and the write fails.
CanWrite(r) == r.kind = "post" => r.bodyLeft

\* The request is written to the upstream, which answers or says nothing.
Send(c) ==
    /\ req[c].stage = "send" /\ CanWrite(req[c])
    /\ \/ IF req[c].kind = "post"
          THEN req' = [req EXCEPT ![c].stage = "read", ![c].bodyLeft = FALSE,
                                  ![c].whole = IF req[c].bodyLeft THEN @ + 1 ELSE @]
          ELSE Goto(c, "read")
       \/ Hang(c)
    /\ UNCHANGED <<layerVars, configured>>

\* Writing fails; WriteProxy has closed the body all the same.  A tunnel that
\* cannot be asked for is answered 502 at once.
SendFails(c) ==
    /\ req[c].stage = "send"
    /\ IF req[c].kind = "connect" THEN Answer(c, "refused")
       ELSE Retry(c, [req[c] EXCEPT !.bodyLeft = req[c].kind # "post"])
    /\ UNCHANGED <<layerVars, configured>>

OpenTunnel(c) == req' = [req EXCEPT ![c] = [Blank("tunnel") EXCEPT !.kind = "connect"]]

\* An answer arrives.  No answer, an error page or a refused tunnel is a
\* failed attempt; ForwardPlain does not look for error pages.  A tunnel
\* whose connection cannot be hijacked is refused, and so is one whose client
\* is gone by then.
Read(c) ==
    /\ req[c].stage = "read"
    /\ \/ req[c].kind # "connect" /\ Answer(c, "relayed")
       \/ req[c].kind = "connect" /\ (OpenTunnel(c) \/ Answer(c, "refused"))
       \/ Retry(c, req[c])
    /\ UNCHANGED <<layerVars, configured>>

\* Both directions of the tunnel have been copied to their end.
TunnelEnds(c) ==
    /\ req[c].stage = "tunnel"
    /\ Answer(c, "relayed")
    /\ UNCHANGED <<layerVars, configured>>

-----------------------------------------------------------------------------
(* The pool under the requests *)

PoolChanges == LayersChange /\ UNCHANGED <<configured, req>>

\* Pool.SetGroups: a group is configured or removed, and the pool rebuilt.
SetGroups(g) ==
    /\ configured' = IF g \in configured THEN configured \ {g} ELSE configured \cup {g}
    /\ Rebuilt
    /\ UNCHANGED <<registered, alive, latency, swrr, req>>

Init ==
    /\ LayersInit
    /\ configured = Groups
    /\ req = [c \in Clients |-> Blank("idle")]

\* The gateway's own part of a request.
Step(c) ==
    \/ PickRound(c) \/ NoneLeft(c)
    \/ Dial(c) \/ Send(c) \/ SendFails(c) \/ Read(c)

Next ==
    \/ \E c \in Clients : Step(c) \/ TunnelEnds(c)
    \/ \E c \in Clients, g \in Groups : \E k \in KindsOf[c] : Arrive(c, k, g)
    \/ \E g \in Groups : SetGroups(g)
    \/ PoolChanges

Spec == Init /\ [][Next]_vars

\* Goroutines of requests keep running.  Nothing is assumed of tunnels, of
\* silent upstreams or of the pool.
FairSpec == Spec /\ \A c \in Clients : WF_vars(Step(c))

-----------------------------------------------------------------------------
(* Properties *)

\* Type correctness: at most MaxProxyAttempts attempts, and at most as many
\* rounds as the layer has proxies.
TypeOK ==
    /\ LayersTypeOK
    /\ configured \subseteq Groups
    /\ \A c \in Clients : LET r == req[c] IN
         /\ r.stage \in {"idle", "pick", "dial", "send", "read", "tunnel", "silent"}
         /\ r.kind \in KindsOf[c] \cup {"none"}
         /\ r.group \in Groups \cup {Nil}
         /\ r.excluded \subseteq Proxies
         /\ r.tried \in 0..MaxProxyAttempts
         /\ r.rest # << >> => r.rounds < Len(Head(r.rest).proxies)
         /\ r.reply \in {"none", "noProxy", "allFailed", "refused", "relayed"}

\* The handler of c returns in this step, with reply r.
Told(c, r) == req[c].stage # "idle" /\ req'[c].stage = "idle" /\ req'[c].reply = r

\* A request with a body (gateway.go:316, Clone shares the body) is written
\* completely to at most one upstream however often it is retried, so it is
\* never executed twice; and what is relayed to the client is the answer to
\* the whole of it, never to what a failed attempt had left of the body.
BodyAtMostOnce ==
    [][\A c \in Clients :
          /\ req'[c].whole <= 1
          /\ req[c].kind = "post" /\ Told(c, "relayed") => req[c].whole = 1]_vars

\* What a refusal means (gateway.go:278-300): "no available proxy" is only
\* said when the snapshot had no usable layer; "all upstream proxies failed"
\* only after as many different proxies as there were attempts.
HonestRefusal ==
    [][\A c \in Clients :
          /\ Told(c, "noProxy") => req[c].empty
          /\ Told(c, "allFailed") =>
                req[c].tried > 0 /\ Cardinality(req[c].excluded) = req[c].tried]_vars

\* Every request ends, whatever the other requests, the pool and the groups do
\* meanwhile, unless it has become a tunnel or waits for an upstream that took
\* the connection and says nothing: there is no deadline on that.
RequestsEnd ==
    \A c \in Clients :
        req[c].stage = "pick" ~> req[c].stage \in {"idle", "tunnel", "silent"}

=============================================================================
