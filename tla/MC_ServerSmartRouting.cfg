\* The connection manager with authentication required: two connections
\* from two addresses (one whitelisted for fail2ban) compete for one
\* permit.  Smart routing: two upstream ids, windows of two samples
\* (MAX_MEASUREMENTS is 10; min_measurements = 2 keeps the neutral-score
\* phase reachable), one latency under and one over the 5 s Degraded
\* threshold, a 5 s probe timeout, both routing flags on, two managers, one
\* health task.  Each behaviour runs one of the two.
CONSTANTS
    c1 = c1  c2 = c2  c3 = c3  i1 = i1  i2 = i2  alice = alice
    NoIp = NoIp  NoConn = NoConn  Anonymous = Anonymous
    Conns <- MCConnPair
    Ips <- MCIps
    Users <- MCUsers
    Whitelist <- MCWhitelist
    MaxConnections = 1
    MaxPerIp = 1
    GlobalThreshold = 2
    FloodThreshold = 1
    MaxFailures = 2
    AuthEnabled = TRUE
    Ids = {"p1", "p2"}
    UpAddrs = {"a1"}
    CfgUps <- MCCfgUps
    Latencies = {100, 6000}
    ProbeTimeout = 5000
    MinMeasurements = 2
    MaxMeasurements = 2
    HealthRouting = TRUE
    LatencyRouting = TRUE
    MaxGen = 2
    MaxLoops = 1
    NoProxy = NoProxy
SPECIFICATION SsSpec
INVARIANTS
    TypeOK
    PermitAccounting
    CountersTrackTasks
    SessionIndexConsistent
    SmTypeOK
    MetricsOnlyForRegistered
    SelectionIsBest
PROPERTIES
    SlotDiscipline
    AdmittedConnectionsEnd
    SessionsExpire
    ProbedUpstreamsMeasured
