--------------------------- MODULE MC_SmartRouting ---------------------------
(***************************************************************************)
(* A smart routing manager for TLC: the configuration lists one upstream, *)
(* a second one can be added at runtime, and enable_smart_routing can run *)
(* twice, so that a health task of a replaced manager keeps ticking.       *)
(***************************************************************************)
EXTENDS SmartRouting

MCCfgUps == "p1" :> "a1"
==============================================================================
