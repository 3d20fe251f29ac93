------------------------------ MODULE Fail2Ban ------------------------------
(***************************************************************************)
(* The brute-force protection of src/src/security/fail2ban.rs: per-IP     *)
(* BruteForceDetector entries (a sliding window of failure times and a     *)
(* ban) behind one mutex.  A missing entry behaves like a fresh one (empty *)
(* window, no ban), so the map is a total function here; cleanup only      *)
(* removes entries that are indistinguishable from fresh ones.  Time is    *)
(* abstract: a ban running out is the BanExpires step, and the pruning of  *)
(* the window, done only inside record_failure, is a choice of how many    *)
(* old failures have left it.                                              *)
(***************************************************************************)
EXTENDS Naturals

CONSTANTS Ips,         \* client addresses
          Whitelist,   \* parsed whitelist entries
          MaxFailures  \* max_auth_failures within failure_window_minutes

ASSUME Whitelist \subseteq Ips /\ MaxFailures \in Nat \ {0}

VARIABLES failures, \* failure_times.len() per IP
          banned    \* banned_until is in the future

f2bVars == <<failures, banned>>

F2bInit ==
    /\ failures = [ip \in Ips |-> 0]
    /\ banned = [ip \in Ips |-> FALSE]

F2bTypeOK ==
    /\ failures \in [Ips -> Nat]
    /\ banned \in [Ips -> BOOLEAN]

\* BruteForceDetector::get_progressive_delay is positive: the window,
\* whether or not it has been pruned lately, is not empty.
HasProgressiveDelay(ip) == failures[ip] > 0

(***************************************************************************)
(* check_auth_attempt: whitelisted IPs pass; a banned IP is blocked; an IP *)
(* with a positive progressive delay is delayed.                           *)
(***************************************************************************)
AuthDecision(ip) ==
    CASE ip \in Whitelist         -> "Allow"
      [] banned[ip]               -> "Block"
      [] HasProgressiveDelay(ip)  -> "Delay"
      [] OTHER                    -> "Allow"

(***************************************************************************)
(* BruteForceDetector::record_failure: while banned the failure is counted *)
(* but not pushed; otherwise it is pushed, the window pruned (w failures   *)
(* stay) and reaching MaxFailures bans the IP.  The window is not cleared  *)
(* when the ban is issued.                                                 *)
(***************************************************************************)
DetectorRecordFailure(ip) ==
    IF banned[ip]
      THEN UNCHANGED f2bVars
      ELSE \E w \in 1..(failures[ip] + 1) :
             /\ failures' = [failures EXCEPT ![ip] = w]
             /\ banned' = [banned EXCEPT ![ip] = (w >= MaxFailures)]

\* record_auth_failure: nothing is recorded for a whitelisted IP.
RecordAuthFailure(ip) ==
    IF ip \in Whitelist THEN UNCHANGED f2bVars ELSE DetectorRecordFailure(ip)

\* record_auth_success: clears the window, keeps the ban.
RecordAuthSuccess(ip) ==
    /\ failures' = [failures EXCEPT ![ip] = 0]
    /\ UNCHANGED banned

(***************************************************************************)
(* cleanup_old_entries: an entry is dropped only when it is inactive, not  *)
(* banned and has an empty window, which is how a fresh entry behaves; the *)
(* ban_count it loses only lengthens later bans, whose length is not       *)
(* modelled.                                                               *)
(***************************************************************************)
F2bCleanupOldEntries == UNCHANGED f2bVars

\* banned_until passes.
BanExpires(ip) ==
    /\ banned[ip]
    /\ banned' = [banned EXCEPT ![ip] = FALSE]
    /\ UNCHANGED failures

\* The bans of a set of IPs pass at the same instant.
BansExpire(S) ==
    /\ S # {}
    /\ \A ip \in S : banned[ip]
    /\ banned' = [ip \in Ips |-> IF ip \in S THEN FALSE ELSE banned[ip]]
    /\ UNCHANGED failures

(***************************************************************************)
(* ban_ip(ip, duration): nothing for a whitelisted IP; otherwise          *)
(* banned_until is overwritten, so the IP is banned afterwards exactly     *)
(* when the duration is positive (lasts), even if it was banned before.   *)
(***************************************************************************)
BanIp(ip, lasts) ==
    IF ip \in Whitelist THEN UNCHANGED f2bVars
                      ELSE banned' = [banned EXCEPT ![ip] = lasts] /\ UNCHANGED failures

\* unban_ip: a banned IP loses its ban and its failure window.
UnbanIp(ip) ==
    IF banned[ip]
      THEN /\ banned' = [banned EXCEPT ![ip] = FALSE]
           /\ failures' = [failures EXCEPT ![ip] = 0]
      ELSE UNCHANGED f2bVars

\* Every operation of Fail2BanManager that changes a detector, and time.
F2bNext ==
    \/ \E ip \in Ips : \/ RecordAuthFailure(ip) \/ RecordAuthSuccess(ip)
                       \/ \E lasts \in BOOLEAN : BanIp(ip, lasts)
                       \/ UnbanIp(ip)
    \/ F2bCleanupOldEntries
    \/ \E S \in SUBSET Ips : BansExpire(S)

F2bSpec == F2bInit /\ [][F2bNext]_f2bVars
=============================================================================
