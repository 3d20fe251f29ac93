\* Violation run: SubdomainWildcardMatchesSubdomains (see PROJECT.json findings).
CONSTANTS
    NoUserV = NoUserV
    NoneV = NoneV
    NoUser <- NoUserV
    None <- NoneV
    W = 2
    Upstreams = {"u1"}
    RuleSpecs <- MCRuleSpecs
    Requests <- MCRequests
INIT RrInit
NEXT RrNext
INVARIANT SubdomainWildcardMatchesSubdomains
