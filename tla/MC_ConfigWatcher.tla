--------------------------- MODULE MC_ConfigWatcher ---------------------------
(***************************************************************************)
(* Two valid configuration files and one invalid one; one task that may   *)
(* call reload(); two changes of the file by the world, enough for a      *)
(* write to race a reload and for a removal after a write.                *)
(***************************************************************************)
EXTENDS ConfigWatcher

CONSTANTS f1, f2, r1

MCConfigs == {f1, f2}
MCCallers == {r1}
=============================================================================
