\* The wire peers of MC_Socks5Wire; the metrics registry with two callers
\* of at most two calls each, one byte per update or record, a history
\* bound of two that drops two records when exceeded, and 16 for 2^64 (no
\* counter gets near it); and the router over the configurations of
\* MC_Router.  Each behaviour runs one of the three.
CONSTANTS
    NoneV = NoneV
    None <- NoneV
    NoUserV = NoUserV
    NoUser <- NoUserV
    ClientSpecs <- MCClientSpecs
    Users <- MCUsers
    NameWords <- MCNameWords
    BoundAddr <- MCBoundAddr
    BoundPort = 513
    m1 = m1  m2 = m2
    Callers <- MCCallers
    ByteSizes = {1}
    HistCap = 2
    HistDrop = 2
    MaxCalls = 2
    CounterModulus = 16
    W = 2
    Upstreams = {"u1"}
    RuleSpecs <- MCRuleSpecs
    Requests <- MCRequests
    AclSpecs <- MCAclSpecs
    PolicyNames = {"allow", "block"}
    MaxCfgRules = 2
    MaxCfgUpstreams = 1
    MaxAclRules = 1
INIT WmrInit
NEXT WmrNext
INVARIANTS
    WireTypeOK
    ReplyDiscipline
    ChainAgreement
    MetTypeOK
    GaugeCoversTable
    HistoryKeepsNewest
    FailuresWithinAttempts
    RouterTypeOK
    ConfiguredRulesLoaded
    RrTypeOK
    FirstMatch
    AddThenRemoveRestores
