-------------------------- MODULE MC_RoutingRules --------------------------
(***************************************************************************)
(* A small world for the routing rules engine: 2-bit addresses, one       *)
(* upstream, and six candidate rules chosen so that priorities tie and     *)
(* differ, ids repeat, one rule fails validation, one is disabled, and    *)
(* every pattern kind, port, source and user predicate is exercised.      *)
(***************************************************************************)
EXTENDS RoutingRules, MC_OptionNone

CONSTANT NoUserV

Rule(id, prio, pat, act, ports, srcs, users, en) ==
    [id |-> id, priority |-> prio, pat |-> pat, act |-> act,
     ports |-> ports, srcs |-> srcs, users |-> users, enabled |-> en]

MCRuleSpecs ==
    { Rule("x", 2, [text |-> <<"*", ".", "a">>], [type |-> "Block"], NoneV, NoneV, NoneV, TRUE),
      Rule("y", 1, [text |-> <<"*">>], [type |-> "Proxy", up |-> "u1"], {1}, NoneV, NoneV, TRUE),
      Rule("x", 1, [text |-> <<"a">>], [type |-> "Proxy", up |-> ""], NoneV, NoneV, NoneV, TRUE),
      Rule("z", 2, [net |-> 0, plen |-> 1], [type |-> "Allow"], NoneV,
           {[net |-> 2, plen |-> 1]}, {"alice"}, TRUE),
      Rule("w", 1, [ip |-> 2], [type |-> "ProxyChain", ups |-> <<"u2">>], NoneV,
           {[ip |-> 3]}, {}, TRUE),
      Rule("v", 2, [text |-> <<".", "a">>], [type |-> "Redirect"], NoneV, NoneV, NoneV, FALSE) }

MCTargets ==
    { [kind |-> "domain", name |-> <<"a">>],
      [kind |-> "domain", name |-> <<"b", ".", "a">>],
      [kind |-> "domain", name |-> <<"é", ".", "a">>],
      [kind |-> "ipv4", addr |-> 0],
      [kind |-> "ipv4", addr |-> 2] }

MCRequests ==
    [target : MCTargets, port : {1, 2}, src : {1, 3}, user : {"alice", NoUserV}]
=============================================================================
