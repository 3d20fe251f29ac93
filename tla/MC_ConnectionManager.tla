------------------------ MODULE MC_ConnectionManager ------------------------
(* Three connections from two client addresses, one of them whitelisted  *)
(* for fail2ban, against two permits, so that the semaphore, the per-IP  *)
(* and global DDoS limits and a fail2ban ban can all be reached.          *)
EXTENDS ConnectionManager, TLC

CONSTANTS c1, c2, c3, i1, i2, alice

MCConns == {c1, c2, c3}
MCConnPair == {c1, c2}
MCIps == {i1, i2}
MCUsers == {alice}
MCWhitelist == {i2}
ConnSymmetry == Permutations(MCConns)
=============================================================================
