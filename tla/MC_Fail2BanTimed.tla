--------------------------- MODULE MC_Fail2BanTimed ---------------------------
(***************************************************************************)
(* Two addresses that fail and one whitelisted address.                   *)
(***************************************************************************)
EXTENDS Fail2BanTimed

CONSTANTS i1, i2, i3

MCIps == {i1, i2, i3}
MCWhitelist == {i3}
=============================================================================
