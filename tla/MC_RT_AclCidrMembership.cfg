\* Violation run: AclCidrMembership (see PROJECT.json findings).
CONSTANTS
    NoUserV = NoUserV
    NoneV = NoneV
    NoUser <- NoUserV
    None <- NoneV
    W = 2
    Upstreams = {"u1"}
    RuleSpecs <- MCRuleSpecs
    Requests <- MCRequests
    AclSpecs <- MCAclSpecs
    PolicyNames = {"allow", "block"}
    MaxCfgRules = 2
    MaxCfgUpstreams = 1
    MaxAclRules = 1
INIT RouterInit
NEXT RouterNext
INVARIANT AclCidrMembership
