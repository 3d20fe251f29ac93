------------------------------ MODULE MC_Router ------------------------------
(***************************************************************************)
(* Router configurations for TLC: up to two routing rules from the        *)
(* engine's candidates (so ids can repeat and a rule can be rejected), an *)
(* optional upstream, routing on or off, and an optional ACL of at most    *)
(* one entry, among them "0.0.0.0/0", a "*." pattern, a blocked source    *)
(* and an action name the parser does not know.                            *)
(***************************************************************************)
EXTENDS Router, MC_RoutingRules

MCAclSpecs ==
    { [pat |-> [net |-> 0, plen |-> 0], act |-> "allow", ports |-> NoneV],
      [pat |-> [text |-> <<"*", ".", "a">>], act |-> "block", ports |-> {2}],
      [pat |-> [ip |-> 3], act |-> "block", ports |-> NoneV],
      [pat |-> [any |-> TRUE], act |-> "redirect", ports |-> {1}] }
=============================================================================
