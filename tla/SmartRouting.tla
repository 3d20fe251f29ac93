---------------------------- MODULE SmartRouting ----------------------------
(***************************************************************************)
(* The smart upstream selector of src/src/routing/smart.rs as the router  *)
(* of routing/router.rs owns it.  Router::enable_smart_routing builds a    *)
(* SmartRoutingManager from the configured upstreams; the manager keeps    *)
(* the registered upstreams (id -> address) and, behind an RwLock shared  *)
(* with its probe tasks, one ProxyMetrics per upstream: rolling windows of *)
(* latencies and success flags from which the health status and the score *)
(* are derived.  start_health_checking spawns a task that, every interval, *)
(* spawns one probe per upstream of the map it copied when it started;     *)
(* force_health_check spawns one probe per upstream registered now.  A     *)
(* probe dials, then takes the write lock and records into the entry of    *)
(* its id, if there still is one.                                          *)
(*                                                                         *)
(* gen counts the managers built: 0 is smart_routing = None.  A probe and *)
(* a health task carry the generation whose metrics map (an Arc) they      *)
(* write; a manager that enable_smart_routing replaced is unreachable, so  *)
(* what its tasks record is not modelled.  Latencies are whole            *)
(* milliseconds from a small set.  health_status is kept by record_latency *)
(* equal to the status of the windows, so it is derived here;              *)
(* connection_count and last_health_check are only reported.              *)
(***************************************************************************)
EXTENDS Naturals, FiniteSets, Sequences, SequencesExt, TLC

CONSTANTS Ids,             \* upstream ids
          UpAddrs,         \* addresses an upstream may be registered with
          CfgUps,          \* config.routing.upstream_proxies as id -> address
          Latencies,       \* measured latencies, in ms
          ProbeTimeout,    \* health_check_timeout, in ms
          MinMeasurements, \* min_measurements
          MaxMeasurements, \* MAX_MEASUREMENTS, the window length
          HealthRouting,   \* enable_health_routing
          LatencyRouting,  \* enable_latency_routing
          MaxGen,          \* bound on enable_smart_routing calls
          MaxLoops,        \* bound on start_health_checking calls
          NoProxy          \* select_best_proxy returned None

ASSUME /\ DOMAIN CfgUps \subseteq Ids
       /\ Latencies \subseteq Nat /\ MaxMeasurements \in Nat \ {0}

VARIABLES gen,      \* managers built so far (0: smart routing disabled)
          smUps,    \* upstream_proxies: id -> address
          metrics,  \* the metrics map: id -> [lat, res] windows
          loops,    \* health tasks: [gen, snap] with the map they copied
          probes    \* probe tasks in flight: [src, gen, id, addr]

smVars == <<gen, smUps, metrics, loops, probes>>

\* ProxyMetrics::new: empty windows (status Unknown).
NewMetrics == [lat |-> <<>>, res |-> <<>>]

\* Keep the last MaxMeasurements samples: push, then remove(0) when over.
Window(s) == IF Len(s) > MaxMeasurements THEN Tail(s) ELSE s

SumOf(s) == FoldLeft(LAMBDA a, b : a + b, 0, s)
Successes(m) == Len(SelectSeq(m.res, LAMBDA r : r))

(***************************************************************************)
(* update_health_status: Unknown without results; Unhealthy below a 50%   *)
(* success rate; Degraded below 80% or with an average latency above 5 s; *)
(* else Healthy.  The rates are exact: k/n < 0.5 and k/n < 0.8 hold in   *)
(* f64 exactly when they hold for the fractions (n <= 10), and the        *)
(* Duration average exceeds 5 s exactly when the sum exceeds 5000 * n ms. *)
(***************************************************************************)
Status(m) ==
    LET n == Len(m.res)  k == Successes(m) IN
    CASE n = 0                                                   -> "Unknown"
      [] 2 * k < n                                               -> "Unhealthy"
      [] 5 * k < 4 * n \/ SumOf(m.lat) > 5000 * Len(m.lat)       -> "Degraded"
      [] OTHER                                                   -> "Healthy"

\* Fault variant of RecordLatency: recent_results is pushed but not trimmed.
RecordLatencyUntrimmedResults(m, l, ok) ==
    [lat |-> Window(Append(m.lat, l)), res |-> Append(m.res, ok)]

\* record_latency: both windows, then the status (derived).
RecordLatency(m, l, ok) ==
    [lat |-> Window(Append(m.lat, l)), res |-> Window(Append(m.res, ok))]

(***************************************************************************)
(* get_score as an exact fraction [num, den]: Unhealthy 0, Unknown 1/10,  *)
(* otherwise (rate + 1/(1 + L/1000)) / 2 with L = avg_latency.as_millis(),*)
(* halved when Degraded.                                                   *)
(***************************************************************************)
Score(m) ==
    LET n == Len(m.res)  k == Successes(m)
        L == IF m.lat = <<>> THEN 0 ELSE SumOf(m.lat) \div Len(m.lat)
        h == [num |-> k * (1000 + L) + 1000 * n, den |-> 2 * n * (1000 + L)]
    IN CASE Status(m) = "Unhealthy" -> [num |-> 0, den |-> 1]
         [] Status(m) = "Unknown"   -> [num |-> 1, den |-> 10]
         [] Status(m) = "Degraded"  -> [h EXCEPT !.den = 2 * @]
         [] OTHER                   -> h

Neutral == [num |-> 1, den |-> 2]
Greater(a, b) == a.num * b.den > b.num * a.den

\* select_best_proxy's view of one upstream: skipped when Unhealthy under
\* health routing, neutral below min_measurements under latency routing.
Eligible(id) ==
    ~(HealthRouting /\ id \in DOMAIN metrics /\ Status(metrics[id]) = "Unhealthy")
EffectiveScore(id) ==
    IF id \notin DOMAIN metrics THEN Neutral
    ELSE IF LatencyRouting /\ Len(metrics[id].lat) < MinMeasurements THEN Neutral
    ELSE Score(metrics[id])

\* Fault variant of SelectBestProxy: the health filter is forgotten.
SelectBestProxyUnfiltered(order) ==
    LET RECURSIVE Scan(_, _)
        Scan(i, best) ==
            IF i > Len(order) THEN best
            ELSE LET id == order[i] IN
                 IF best = NoProxy \/ Greater(EffectiveScore(id), EffectiveScore(best))
                   THEN Scan(i + 1, id) ELSE Scan(i + 1, best)
    IN Scan(1, NoProxy)

(***************************************************************************)
(* select_best_proxy(&[]) scanning the upstreams in the order the HashMap *)
(* yields them: the first of strictly greatest score wins.                 *)
(***************************************************************************)
SelectBestProxy(order) ==
    LET RECURSIVE Scan(_, _)
        Scan(i, best) ==
            IF i > Len(order) THEN best
            ELSE LET id == order[i] IN
                 IF ~Eligible(id) THEN Scan(i + 1, best)
                 ELSE IF best = NoProxy \/ Greater(EffectiveScore(id), EffectiveScore(best))
                   THEN Scan(i + 1, id) ELSE Scan(i + 1, best)
    IN Scan(1, NoProxy)

\* The probes one tick (src = task index) or one force_health_check
\* (src = 0) spawns over the map m of manager g.
ProbeSet(src, g, m) == {[src |-> src, gen |-> g, id |-> i, addr |-> m[i]] : i \in DOMAIN m}

\* A source's probes of the previous round have all ended.
Idle(src) == \A p \in probes : p.src # src
-----------------------------------------------------------------------------
SmInit ==
    /\ gen = 0
    /\ smUps = <<>>
    /\ metrics = <<>>
    /\ loops = <<>>
    /\ probes = {}

\* Router::enable_smart_routing: a new manager with the configured
\* upstreams and fresh metrics; running health tasks keep the old map.
EnableSmartRouting ==
    /\ gen < MaxGen
    /\ gen' = gen + 1
    /\ smUps' = CfgUps
    /\ metrics' = [i \in DOMAIN CfgUps |-> NewMetrics]
    /\ UNCHANGED <<loops, probes>>

\* Router::add_upstream_proxy's smart part: insert or replace the upstream
\* and reset its metrics.
SmAddUpstreamProxy(id, a) ==
    /\ gen > 0
    /\ smUps' = (id :> a) @@ smUps
    /\ metrics' = (id :> NewMetrics) @@ metrics
    /\ UNCHANGED <<gen, loops, probes>>

\* SmartRoutingManager::remove_upstream_proxy
RemoveUpstreamProxy(id) ==
    /\ gen > 0 /\ id \in DOMAIN smUps
    /\ smUps' = [i \in DOMAIN smUps \ {id} |-> smUps[i]]
    /\ metrics' = [i \in DOMAIN metrics \ {id} |-> metrics[i]]
    /\ UNCHANGED <<gen, loops, probes>>

\* Router::start_smart_routing_health_checks: a task with a copy of the map.
StartHealthChecking ==
    /\ gen > 0 /\ Len(loops) < MaxLoops
    /\ loops' = Append(loops, [gen |-> gen, snap |-> smUps])
    /\ UNCHANGED <<gen, smUps, metrics, probes>>

(***************************************************************************)
(* One interval tick of health task i: a probe per upstream of its copy.  *)
(* A probe's dial is bounded by health_check_timeout (5 s by default),     *)
(* shorter than health_check_interval (30 s), so the probes of one tick   *)
(* have ended when the next tick comes; probes of different tasks and of   *)
(* force_health_check overlap freely.  force_health_check is taken here  *)
(* to be called again only once its previous probes ended.                *)
(***************************************************************************)
HealthTick(i) ==
    /\ Idle(i)
    /\ probes' = probes \cup ProbeSet(i, loops[i].gen, loops[i].snap)
    /\ UNCHANGED <<gen, smUps, metrics, loops>>

\* Router::force_health_check: a probe per upstream registered now.
ForceHealthCheck ==
    /\ gen > 0
    /\ Idle(0)
    /\ probes' = probes \cup ProbeSet(0, gen, smUps)
    /\ UNCHANGED <<gen, smUps, metrics, loops>>

\* Fault variant of ProbeCompletes: the result is recorded with
\* entry().or_insert_with(new), re-creating a removed upstream's entry.
ProbeCompletesInserting(p, l, ok) ==
    /\ p \in probes
    /\ ok => l < ProbeTimeout
    /\ probes' = probes \ {p}
    /\ metrics' = IF p.gen = gen
                    THEN (p.id :> RecordLatency(IF p.id \in DOMAIN metrics
                                                  THEN metrics[p.id] ELSE NewMetrics, l, ok))
                         @@ metrics
                    ELSE metrics
    /\ UNCHANGED <<gen, smUps, loops>>

\* Fault variant of ProbeCompletes: only a successful dial is recorded.
ProbeCompletesSuccessOnly(p, l, ok) ==
    /\ p \in probes
    /\ ok => l < ProbeTimeout
    /\ probes' = probes \ {p}
    /\ metrics' = IF p.gen = gen /\ p.id \in DOMAIN metrics /\ ok
                    THEN [metrics EXCEPT ![p.id] = RecordLatency(@, l, ok)]
                    ELSE metrics
    /\ UNCHANGED <<gen, smUps, loops>>

\* A probe's dial ends after l ms, in success only within the timeout; its
\* result goes into the entry of its id in its manager's map, if present.
ProbeCompletes(p, l, ok) ==
    /\ p \in probes
    /\ ok => l < ProbeTimeout
    /\ probes' = probes \ {p}
    /\ metrics' = IF p.gen = gen /\ p.id \in DOMAIN metrics
                    THEN [metrics EXCEPT ![p.id] = RecordLatency(@, l, ok)]
                    ELSE metrics
    /\ UNCHANGED <<gen, smUps, loops>>

\* Router::record_connection_result: into the entry of id, if present.
RecordConnectionResult(id, l, ok) ==
    /\ gen > 0 /\ id \in DOMAIN metrics
    /\ metrics' = [metrics EXCEPT ![id] = RecordLatency(@, l, ok)]
    /\ UNCHANGED <<gen, smUps, loops, probes>>

SmNext ==
    \/ EnableSmartRouting
    \/ \E id \in Ids, a \in UpAddrs : SmAddUpstreamProxy(id, a)
    \/ \E id \in Ids : RemoveUpstreamProxy(id)
    \/ StartHealthChecking
    \/ \E i \in 1..Len(loops) : HealthTick(i)
    \/ ForceHealthCheck
    \/ \E p \in probes, l \in Latencies, ok \in BOOLEAN : ProbeCompletes(p, l, ok)
    \/ \E id \in Ids, l \in Latencies, ok \in BOOLEAN : RecordConnectionResult(id, l, ok)

(***************************************************************************)
(* The interval timer of a health task keeps firing (tokio's interval,   *)
(* in a loop that never exits), and a probe ends within                   *)
(* health_check_timeout and then takes the write lock, which every holder *)
(* releases without awaiting.  Nothing obliges callers of the API.        *)
(***************************************************************************)
\* Every probe task the model can spawn.
Probe == [src : 0..MaxLoops, gen : 1..MaxGen, id : Ids, addr : UpAddrs]

SmFairness ==
    /\ \A i \in 1..MaxLoops : WF_smVars(i <= Len(loops) /\ HealthTick(i))
    /\ \A p \in Probe :
          WF_smVars(\E l \in Latencies, ok \in BOOLEAN : ProbeCompletes(p, l, ok))

SmSpec == SmInit /\ [][SmNext]_smVars
SmLiveSpec == SmSpec /\ SmFairness
-----------------------------------------------------------------------------
(* Properties *)

Metrics == [lat : Seq(Latencies), res : Seq(BOOLEAN)]

SmTypeOK ==
    /\ gen \in 0..MaxGen
    /\ DOMAIN smUps \subseteq Ids /\ \A i \in DOMAIN smUps : smUps[i] \in UpAddrs
    /\ DOMAIN metrics \subseteq Ids
    /\ \A i \in DOMAIN metrics : /\ metrics[i] \in Metrics
                                 /\ Len(metrics[i].res) = Len(metrics[i].lat)
                                 /\ Len(metrics[i].res) <= MaxMeasurements
    /\ \A i \in 1..Len(loops) : loops[i].gen \in 1..MaxGen
    /\ probes \subseteq Probe

(***************************************************************************)
(* Metrics exist exactly for the registered upstreams: a probe that was    *)
(* spawned for an upstream and ends after remove_upstream_proxy, or a      *)
(* connection result reported late, never brings its entry back, and      *)
(* every upstream added has its entry.                                     *)
(***************************************************************************)
MetricsOnlyForRegistered == DOMAIN metrics = DOMAIN smUps

(***************************************************************************)
(* select_best_proxy, in whatever order the HashMap yields the upstreams, *)
(* returns None exactly when every upstream is excluded as Unhealthy, and *)
(* otherwise an upstream it does not exclude whose score no other such    *)
(* upstream beats, whatever the probes and connection results recorded.   *)
(***************************************************************************)
SelectionIsBest ==
    LET E == {i \in DOMAIN smUps : Eligible(i)} IN
    \A order \in SetToSeqs(DOMAIN smUps) :
        LET r == SelectBestProxy(order) IN
        IF E = {} THEN r = NoProxy
        ELSE r \in E /\ \A e \in E : ~Greater(EffectiveScore(e), EffectiveScore(r))

(***************************************************************************)
(* An upstream that a running health task of the current manager copied, *)
(* and that is still registered, eventually has a sample in its windows   *)
(* (or is removed, or the manager is replaced).                            *)
(***************************************************************************)
ProbedUpstreamsMeasured ==
    \A g \in 1..MaxGen, id \in Ids :
        (/\ gen = g /\ id \in DOMAIN metrics /\ metrics[id].res = <<>>
         /\ \E i \in 1..Len(loops) : loops[i].gen = g /\ id \in DOMAIN loops[i].snap)
        ~> (gen # g \/ id \notin DOMAIN metrics \/ metrics[id].res # <<>>)
=============================================================================
