---------------------------- MODULE MC_DdosTimed ----------------------------
(* DdosTimed alone, for the property that TLC finds violated. *)
EXTENDS DdosTimed

CONSTANTS d1, d2, t1

MCDdIps == {d1, d2}
=============================================================================
