----------------------------- MODULE GroupLayers -----------------------------
(***************************************************************************)
(* Explicit scheduling groups (internal/pool/pool.go): how a group's       *)
(* layers are made from its configuration and the live proxies, how a      *)
(* layer is chosen, and how a proxy is picked inside it: smooth weighted   *)
(* round-robin with latency-scaled weights, or weighted random as soon as  *)
(* the layer has a tunnel.  The SWRR state is one map for the whole pool,  *)
(* keyed by proxy ID.                                                      *)
(*                                                                         *)
(* Rebuild is one step here (its races are the subject of Pool); the order *)
(* in which it lists a provider's proxies is Go's map iteration order,     *)
(* chosen anew by every rebuild.  GroupSchedule, Gateway and Sticky are    *)
(* what is served from the layers.                                         *)
(***************************************************************************)
EXTENDS Integers, Sequences, FiniteSets, FiniteSetsExt, SequencesExt, Functions

CONSTANTS
    Proxies,       \* proxy IDs
    ProviderOf,    \* the provider of each
    Tunnels,       \* those of KindTunnel
    WeightOf,      \* Proxy.Weight
    CountryOf,     \* Proxy.Country
    Orders,        \* enumerations of Proxies a rebuild may iterate in
    Groups,        \* the configured groups
    Churning,      \* the proxies that come, go, die and recover
    Measured,      \* the proxies whose latency changes
    Latencies,     \* values of LatencyMS; 0: no sample yet
    FallsShort,    \* <<ref, base, lat>> whose float64 product base * (ref/lat) is
                   \* less than the whole number it should be
    Nil            \* no proxy

ASSUME GroupAssumption ==
    /\ WeightOf \in [Proxies -> Nat \ {0}]
    /\ 0 \in Latencies /\ Latencies \subseteq Nat
    /\ Nil \notin Proxies /\ Nil \notin Groups
    /\ IsFiniteSet(Proxies) /\ Churning \subseteq Proxies
    /\ \A o \in Orders : o \in [Proxies -> Nat] /\ IsInjective(o)
    /\ \A g \in Groups :
          /\ g.primary \in Seq(Range(ProviderOf)) /\ g.primary # << >>
          /\ g.backups \in Seq(Range(g.backups))
          /\ \A k \in DOMAIN g.backups : g.backups[k].providers \in Seq(Range(ProviderOf))
          /\ \A n \in DOMAIN g.primaryWeights : g.primaryWeights[n] \in Int
          /\ \A n \in DOMAIN g.backupWeights : g.backupWeights[n] \in Int

VARIABLES
    registered, \* the proxies in the pool
    alive,      \* the live ones
    order,      \* the iteration order of the last rebuild
    latency,    \* LatencyMS
    swrr        \* Pool.swrr; an absent key reads as 0

layerVars == <<registered, alive, order, latency, swrr>>

-----------------------------------------------------------------------------
(* Layers *)

\* The sum of a list of numbers, added up from its beginning.
Sums(s)  == LET sum[k \in 0..Len(s)] == IF k = 0 THEN 0 ELSE sum[k - 1] + s[k] IN sum
Total(s) == Sums(s)[Len(s)]

\* regionMatches; "domestic", "overseas" or a country code.
RegionMatches(regions, country) ==
    \/ regions = {}
    \/ "domestic" \in regions /\ country = "CN"
    \/ "overseas" \in regions /\ country # "CN"
    \/ country \in regions

\* regionAggregates: what the group may use of the proxies S of a provider.
ByProv(g, pn, S) == {p \in S : ProviderOf[p] = pn /\ RegionMatches(g.regions, CountryOf[p])}

\* The base weight of a proxy in a layer: the group's percentage for its
\* provider if there is one, its own weight otherwise.
LayerWeight(weights, p) ==
    IF ProviderOf[p] \in DOMAIN weights /\ weights[ProviderOf[p]] > 0
    THEN weights[ProviderOf[p]] ELSE WeightOf[p]

\* The order in which a layer lists its proxies: by the first mention of their
\* provider, then as the rebuild came by them.
Mention(providers, p) == Min({k \in DOMAIN providers : providers[k] = ProviderOf[p]})
Before(providers, ord, p, q) ==
    \/ Mention(providers, p) < Mention(providers, q)
    \/ Mention(providers, p) = Mention(providers, q) /\ ord[p] < ord[q]

\* The members of S in that order: the k-th has k - 1 before it.
Listing(S, providers, ord) ==
    LET rank == [p \in S |-> Cardinality({q \in S : Before(providers, ord, q, p)})]
    IN  [k \in 1..Cardinality(S) |-> CHOOSE p \in S : rank[p] = k - 1]

\* buildLayer, of the registered proxies reg and the live ones among them.  A
\* provider named twice is listed once but counted twice in aliveTotal.
BuildLayer(g, providers, weights, minRatio, reg, live, ord) ==
    LET listed == UNION {ByProv(g, pn, reg \cap live) : pn \in Range(providers)}
    IN  [proxies    |-> Listing(listed, providers, ord),
         aliveTotal |-> Total([k \in DOMAIN providers |->
                                 Cardinality(ByProv(g, providers[k], reg))]),
         aliveCount |-> Cardinality(listed),
         minRatio   |-> minRatio,
         useSWRR    |-> listed \cap Tunnels = {},
         weight     |-> [p \in listed |-> LayerWeight(weights, p)]]

BackupProviders(g) == FlattenSeq([k \in DOMAIN g.backups |-> g.backups[k].providers])

\* buildGroups: the primary layer, and one layer of all the backups together,
\* with the ratio of the first of them.
PrimaryLayer(g, reg, live, ord) ==
    BuildLayer(g, g.primary, g.primaryWeights, g.minRatio, reg, live, ord)
BackupLayer(g, reg, live, ord) ==
    BuildLayer(g, BackupProviders(g), g.backupWeights, g.backups[1].minRatio, reg, live, ord)
BuildLayers(g, reg, live, ord) ==
    IF BackupProviders(g) = << >> THEN <<PrimaryLayer(g, reg, live, ord)>>
    ELSE <<PrimaryLayer(g, reg, live, ord), BackupLayer(g, reg, live, ord)>>

\* The layers of the group in the snapshot.
Layers(g) == BuildLayers(g, registered, alive, order)

\* aliveCount/aliveTotal >= minRatio, ratios in percent.
Usable(l) == l.aliveCount > 0 /\ 100 * l.aliveCount >= l.minRatio * l.aliveTotal

-----------------------------------------------------------------------------
(* Picking in a layer *)

\* layerRefLatency: the mean of the samples among the latencies lat.
RefLatency(l, lat) ==
    LET sampled == {k \in DOMAIN l.proxies : lat[l.proxies[k]] > 0}
    IN  IF sampled = {} THEN 0
        ELSE Total([k \in DOMAIN l.proxies |-> lat[l.proxies[k]]]) \div Cardinality(sampled)

\* int64(float64(base) * factor): truncated after rounding, so one less than
\* base * ref / lat where that is whole and the product falls short of it
\* (11 * (15.0 / 11.0) gives 14).
Product(ref, base, lat) ==
    LET exact == (base * ref) \div lat
    IN  IF <<ref, base, lat>> \in FallsShort THEN exact - 1 ELSE exact

\* Mutant: the discounted weight may become 0.
LatencyScaledWeightNoFloor(ref, base, lat) ==
    IF lat = 0 \/ ref = 0 THEN base
    ELSE IF ref > 2 * lat THEN 2 * base
    ELSE IF 2 * ref < lat THEN base \div 2
    ELSE Product(ref, base, lat)

\* latencyScaledWeight: the factor ref/latency clamped to [1/2, 2].
LatencyScaledWeight(ref, base, lat) ==
    LET scaled == IF lat = 0 \/ ref = 0 THEN base
                  ELSE IF ref > 2 * lat THEN 2 * base
                  ELSE IF 2 * ref < lat THEN base \div 2
                  ELSE Product(ref, base, lat)
    IN  IF scaled < 1 THEN 1 ELSE scaled

EffectiveWeight(l, p, lat) == LatencyScaledWeight(RefLatency(l, lat), l.weight[p], lat[p])
TotalWeight(l, lat) ==
    Total([k \in DOMAIN l.proxies |-> EffectiveWeight(l, l.proxies[k], lat)])

\* Mutant: the picked proxy pays the layer's total before latency scaling.
PickSWRRPaysBase(l, s, lat) ==
    LET up   == [p \in Proxies |-> IF p \in Range(l.proxies)
                                   THEN s[p] + EffectiveWeight(l, p, lat) ELSE s[p]]
        best == l.proxies[CHOOSE k \in DOMAIN l.proxies :
                            \A j \in DOMAIN l.proxies : up[l.proxies[j]] <= up[l.proxies[k]]]
    IN  [best |-> best, swrr |-> [up EXCEPT ![best] = @ - FoldFunction(+, 0, l.weight)]]

\* pickSWRR on the state s: every proxy of the layer gains its weight, the
\* first with the largest sum is picked and pays the total.
PickSWRR(l, s, lat) ==
    LET up   == [p \in Proxies |-> IF p \in Range(l.proxies)
                                   THEN s[p] + EffectiveWeight(l, p, lat) ELSE s[p]]
        k    == CHOOSE k \in DOMAIN l.proxies :
                  /\ \A j \in DOMAIN l.proxies : up[l.proxies[j]] <= up[l.proxies[k]]
                  /\ \A j \in 1..(k - 1) : up[l.proxies[j]] < up[l.proxies[k]]
        best == l.proxies[k]
    IN  [best |-> best, swrr |-> [up EXCEPT ![best] = @ - TotalWeight(l, lat)]]

\* pickLayer without exclusions (those are Gateway's): the outcomes [proxy, swrr]
\* it can have.  The random draw can hit every proxy, as weights are positive.
PickLayer(l, s, lat) ==
    IF l.useSWRR THEN LET turn == PickSWRR(l, s, lat)
                      IN  {[proxy |-> turn.best, swrr |-> turn.swrr]}
    ELSE {[proxy |-> p, swrr |-> s] : p \in Range(l.proxies)}

\* Mutant: the loop over the layers does not stop at the first proxy found.
NextFromLastLayer(layers, s, lat) ==
    LET usable == {k \in DOMAIN layers : Usable(layers[k])}
    IN  IF usable = {} THEN {[proxy |-> Nil, swrr |-> s]}
        ELSE PickLayer(layers[Max(usable)], s, lat)

\* nextFromGroup: the layers in order, passing over those that are not usable;
\* the first that is has a live proxy and so yields one.
NextFrom(layers, s, lat) ==
    LET usable == {k \in DOMAIN layers : Usable(layers[k])}
    IN  IF usable = {} THEN {[proxy |-> Nil, swrr |-> s]}
        ELSE PickLayer(layers[Min(usable)], s, lat)

-----------------------------------------------------------------------------
(* What changes the layers *)

Rebuilt == order' \in Orders

\* A live proxy is marked dead, a dead one recovers.
Die(p) ==
    /\ p \in alive
    /\ alive' = alive \ {p}
    /\ UNCHANGED <<registered, latency, swrr>>
    /\ Rebuilt

Recover(p) ==
    /\ p \in registered \ alive
    /\ alive' = alive \cup {p}
    /\ UNCHANGED <<registered, latency, swrr>>
    /\ Rebuilt

\* Pool.Remove drops the SWRR state with the proxy, RemoveExpired does not.
RemoveProxy(p) ==
    /\ p \in registered
    /\ registered' = registered \ {p}
    /\ alive' = alive \ {p}
    /\ swrr' = [swrr EXCEPT ![p] = 0]
    /\ UNCHANGED latency
    /\ Rebuilt

\* Mutant: the expired proxy stays among the live ones.
RemoveExpiredStaysListed(p) ==
    /\ p \in registered
    /\ registered' = registered \ {p}
    /\ UNCHANGED <<alive, latency, swrr>>
    /\ Rebuilt

RemoveExpired(p) ==
    /\ p \in registered
    /\ registered' = registered \ {p}
    /\ alive' = alive \ {p}
    /\ UNCHANGED <<latency, swrr>>
    /\ Rebuilt

\* Add of an ID that is not registered: alive, with no latency sample.
AddProxy(p) ==
    /\ p \notin registered
    /\ registered' = registered \cup {p}
    /\ alive' = alive \cup {p}
    /\ latency' = [latency EXCEPT ![p] = 0]
    /\ UNCHANGED swrr
    /\ Rebuilt

\* MarkSuccess of a live proxy: a new sample, no rebuild.
Measure(p, lat) ==
    /\ p \in alive /\ lat > 0 /\ latency[p] # lat
    /\ latency' = [latency EXCEPT ![p] = lat]
    /\ UNCHANGED <<registered, alive, order, swrr>>

LayersChange ==
    \/ \E p \in Churning :
          Die(p) \/ Recover(p) \/ RemoveProxy(p) \/ RemoveExpired(p) \/ AddProxy(p)
    \/ \E p \in Measured, lat \in Latencies : Measure(p, lat)

\* The pool after LoadInitial: every proxy alive, none measured or served.
LayersInit ==
    /\ registered = Proxies /\ alive = Proxies
    /\ order \in Orders
    /\ latency = [p \in Proxies |-> 0]
    /\ swrr = [p \in Proxies |-> 0]

\* The part of type correctness that is about the layers.
LayersTypeOK ==
    /\ registered \subseteq Proxies /\ alive \subseteq registered
    /\ order \in Orders
    /\ latency \in [Proxies -> Latencies]
    /\ swrr \in [Proxies -> Int]

=============================================================================
