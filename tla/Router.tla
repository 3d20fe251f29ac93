------------------------------- MODULE Router -------------------------------
(***************************************************************************)
(* The router of src/src/routing/router.rs with the access control list   *)
(* of routing/acl.rs and routing/types.rs.  The connection manager builds *)
(* a Router from the configuration for every CONNECT, BIND or UDP request *)
(* and asks it once for a decision.  Router::new loads the configured     *)
(* rules one by one into a RoutingRules engine (a rule the engine rejects *)
(* is logged and skipped), then registers the upstream proxies; the ACL   *)
(* is built from the access_control section when it is enabled.           *)
(* route_request asks the ACL, then the rules engine, then falls back to  *)
(* the first configured upstream.                                          *)
(*                                                                         *)
(* The configuration is chosen in the initial state from small sets; so   *)
(* is the build, because ip_in_network overflows a shift and a u8 and     *)
(* Rust panics on that in a debug build and wraps in a release build (the *)
(* repository carries no Cargo manifest that would settle which).  The    *)
(* router is never built with GeoIP here (smart_routing and geoip_filter  *)
(* stay None on this path).                                                *)
(***************************************************************************)
EXTENDS Integers, RoutingRules, Bitwise

CONSTANTS AclSpecs,        \* access rules a configuration may list
          PolicyNames,     \* strings a configuration may give as default_policy
          MaxCfgRules,     \* bound on routing.rules in a configuration
          MaxCfgUpstreams, \* bound on routing.upstream_proxies
          MaxAclRules      \* bound on access_control.rules

VARIABLES cfg,     \* the Config the router is built from
          build,   \* "debug" or "release"
          pos,     \* Router::new's progress through the configured lists
          routed   \* the last route_request: its request and decision

routerVars == <<rrVars, cfg, build, pos, routed>>

Configs ==
    [rules   : SeqOf(RuleSpecs, MaxCfgRules),
     ups     : SeqOf(Upstreams, MaxCfgUpstreams),
     routing : BOOLEAN,
     aclOn   : BOOLEAN,
     policy  : PolicyNames,
     acl     : SeqOf(AclSpecs, MaxAclRules)]

Direct == [d |-> "Allow", up |-> None]

\* A match or access result that may also be a panic: "yes", "no", "panic".
Tri(b) == IF b THEN "yes" ELSE "no"

\* Policy::from and Action::from: anything but "block" is Allow.
AllowsByName(s) == s # "block"

(***************************************************************************)
(* ip_in_network for IPv4: mask = !((1 << (32 - prefix_len)) - 1).  The   *)
(* u8 subtraction underflows for a prefix above the width and the shift   *)
(* overflows for a prefix of 0: a debug build panics, a release build     *)
(* wraps the u8 and masks the shift amount to the width.                   *)
(***************************************************************************)
IpInNetwork(a, net, plen) ==
    LET sh   == ((W - plen) % 256) % W
        mask == (2^W - 1) - (2^sh - 1)
    IN IF build = "debug" /\ (plen = 0 \/ plen > W) THEN "panic"
       ELSE Tri((a & mask) = (net & mask))

\* AccessControlList::matches_ip_pattern: an exact address, "net/prefix",
\* or nothing.
AclMatchesIp(p, a) ==
    CASE "ip" \in DOMAIN p  -> Tri(p.ip = a)
      [] "net" \in DOMAIN p -> IpInNetwork(a, p.net, p.plen)
      [] OTHER              -> "no"

\* matches_domain_pattern: exact, "*.base" (base itself or a dot before
\* it, found by the character at a byte offset) or ".suffix".
MatchesDomainPattern(p, d) ==
    \/ p = d
    \/ /\ IsPrefix(<<"*", ".">>, p)
       /\ LET base == Tail(Tail(p)) IN
            /\ IsSuffix(base, d)
            /\ \/ ByteLen(d) = ByteLen(base)
               \/ NthChar(d, ByteLen(d) - ByteLen(base) - 1) = "."
    \/ ~IsPrefix(<<"*", ".">>, p) /\ IsPrefix(<<".">>, p) /\ IsSuffix(p, d)

\* matches_pattern: "*", then the source address, then the target.
AclMatchesPattern(p, t, src) ==
    LET s == AclMatchesIp(p, src) IN
    IF "any" \in DOMAIN p THEN "yes"
    ELSE IF s # "no" THEN s
    ELSE IF t.kind = "ipv4" THEN AclMatchesIp(p, t.addr)
    ELSE Tri("text" \in DOMAIN p /\ MatchesDomainPattern(p.text, t.name))

\* AccessControlList::matches_rule: the ports, then the pattern.
AclMatchesRule(r, q) ==
    IF r.ports # None /\ q.port \notin r.ports THEN "no"
    ELSE AclMatchesPattern(r.pat, q.target, q.src)

\* evaluate_access: the first matching rule, else the default policy.
EvaluateAccess(q) ==
    LET RECURSIVE Scan(_)
        Scan(i) == IF i > Len(cfg.acl) THEN Tri(AllowsByName(cfg.policy))
                   ELSE LET m == AclMatchesRule(cfg.acl[i], q) IN
                        CASE m = "panic" -> "panic"
                          [] m = "yes"   -> Tri(AllowsByName(cfg.acl[i].act))
                          [] OTHER       -> Scan(i + 1)
    IN Scan(1)

\* select_upstream_proxy without smart routing: the first configured one.
SelectUpstreamProxy == IF cfg.ups = <<>> THEN None ELSE Head(cfg.ups)

\* route_request; "Panic" is the task unwinding out of the ACL.
RouteRequest(q) ==
    LET acl == IF cfg.aclOn THEN EvaluateAccess(q) ELSE "yes"
        e   == EvaluateRules(rules, compiled, upstreams, q)
    IN CASE acl = "panic"  -> [d |-> "Panic", up |-> None]
         [] acl = "no"     -> [d |-> "Block", up |-> None]
         [] ~cfg.routing   -> Direct
         [] e = Direct     -> [d |-> "Allow", up |-> SelectUpstreamProxy]
         [] OTHER          -> e

RouterInit ==
    /\ RrInit
    /\ cfg \in Configs
    /\ build \in {"debug", "release"}
    /\ pos = 1
    /\ routed = None

\* One iteration of Router::new's rule loop: add_rule, a failure skipped.
LoadRule ==
    /\ pos <= Len(cfg.rules)
    /\ AddRule(cfg.rules[pos])
    /\ pos' = pos + 1
    /\ UNCHANGED <<cfg, build, routed>>

\* One iteration of Router::new's upstream loop.
LoadUpstream ==
    /\ pos > Len(cfg.rules)
    /\ pos <= Len(cfg.rules) + Len(cfg.ups)
    /\ AddUpstreamProxy(cfg.ups[pos - Len(cfg.rules)])
    /\ pos' = pos + 1
    /\ UNCHANGED <<cfg, build, routed>>

Ready == pos > Len(cfg.rules) + Len(cfg.ups)

\* route_request on the built router, which it does not change.
Route(q) ==
    /\ Ready
    /\ routed' = [q |-> q, d |-> RouteRequest(q)]
    /\ UNCHANGED <<rrVars, cfg, build, pos>>

RouterNext ==
    \/ LoadRule
    \/ LoadUpstream
    \/ \E q \in Requests : Route(q)

RouterSpec == RouterInit /\ [][RouterNext]_routerVars
-----------------------------------------------------------------------------
(* Properties *)

Decisions == [d : {"Allow", "Block", "Redirect", "Panic"}, up : Upstreams \cup {None}]

RouterTypeOK ==
    /\ cfg \in Configs
    /\ build \in {"debug", "release"}
    /\ pos \in 1..(Len(cfg.rules) + Len(cfg.ups) + 1)
    /\ routed = None \/ (routed.q \in Requests /\ routed.d \in Decisions)

\* A configured rule that add_rule accepts on an empty engine.
AcceptedAlone(r) == ValidateRule([rules |-> <<>>, compiled |-> <<>>], r)

(***************************************************************************)
(* Router::new leaves in the engine exactly the configured rules that      *)
(* validate and come first among the valid rules with their id (a later   *)
(* duplicate is rejected and only logged), in descending priority order.  *)
(***************************************************************************)
ConfiguredRulesLoaded ==
    LET n == Len(cfg.rules)
        Kept == {i \in 1..n : /\ AcceptedAlone(cfg.rules[i])
                              /\ ~\E j \in 1..(i - 1) : /\ cfg.rules[j].id = cfg.rules[i].id
                                                        /\ AcceptedAlone(cfg.rules[j])}
    IN Ready =>
         /\ Len(rules) = Cardinality(Kept)
         /\ ToSet(rules) = {cfg.rules[i] : i \in Kept}
         /\ \A i \in 1..(Len(rules) - 1) : rules[i].priority >= rules[i + 1].priority

(***************************************************************************)
(* An ACL entry "net/prefix" with a prefix no longer than the address     *)
(* matches, without panicking, exactly the addresses whose first prefix   *)
(* bits are those of net: "0.0.0.0/0" matches every address.              *)
(***************************************************************************)
AclCidrMembership ==
    \A i \in 1..Len(cfg.acl), a \in Addrs :
        LET p == cfg.acl[i].pat IN
        ("net" \in DOMAIN p /\ p.plen <= W) =>
            AclMatchesIp(p, a) = Tri(InPrefix(a, p.net, p.plen))
=============================================================================
