---------------------------- MODULE Fail2BanTimed ----------------------------
(***************************************************************************)
(* Fail2BanManager and BruteForceDetector of src/src/security/fail2ban.rs  *)
(* with the clock: the map of detectors behind its mutex, each one's       *)
(* failure_times deque, ban_count, banned_until and last_activity.  Every  *)
(* public method holds the mutex for its whole body, so it is one step.    *)
(* Instants are ticks since the process started (the machine has been up  *)
(* long enough that no Instant subtraction below goes before boot).        *)
(* banned_until = None is 0: the methods only compare it with now, and     *)
(* None and an instant not after now behave alike in every one of them.   *)
(* config.enabled is true; the statistics, which nothing here reads, and   *)
(* last_failure_time, read only by get_suspicious_ips, are left out.       *)
(* add_to_whitelist and remove_from_whitelist take &mut self, which the    *)
(* Arc the server keeps the manager in never gives, so the whitelist is    *)
(* the parsed configuration list.                                          *)
(***************************************************************************)
EXTENDS Integers, Sequences

CONSTANTS Ips,             \* client addresses
          Whitelist,       \* the parsed whitelist_ips
          MaxFailures,     \* max_auth_failures
          WindowLen,       \* failure_window_minutes, in ticks
          BanBase,         \* ban_duration_minutes, in ticks
          BanMultiplier,   \* progressive_ban_multiplier (a whole number here)
          MaxBan,          \* max_ban_duration_hours, in ticks
          CleanupInterval, \* cleanup_interval_seconds, in ticks
          EnableDelays,    \* enable_progressive_delays
          BaseDelay,       \* base_delay_ms
          MaxDelay,        \* max_delay_ms
          ManualDurations, \* durations a ban_ip caller passes, in ticks
          MaxTime,         \* bound on the clock
          MaxBans          \* bound on ban_count

ASSUME /\ Whitelist \subseteq Ips
       /\ {MaxFailures, WindowLen, BanBase, BanMultiplier, MaxBan} \subseteq Nat \ {0}

VARIABLES det,  \* ip_detectors: IP -> detector, for the IPs that have one
          now   \* Instant::now()

f2tVars == <<det, now>>

NewDetector == [times |-> <<>>, banCount |-> 0, until |-> 0, last |-> now]

\* The entry of ip, or the one or_insert_with(BruteForceDetector::new) adds.
EntryOf(ip) == IF ip \in DOMAIN det THEN det[ip] ELSE NewDetector

Put(ip, d) == det' = [x \in DOMAIN det \cup {ip} |-> IF x = ip THEN d ELSE det[x]]

\* BruteForceDetector::is_banned.
IsBanned(d) == now < d.until

Lesser(a, b) == IF a < b THEN a ELSE b

\* The ban for the k-th ban_count: ban_duration * multiplier^(k-1), capped.
BanLength(k) == Lesser(BanBase * BanMultiplier ^ (k - 1), MaxBan)

\* The while loop of record_failure: pop the front while it is older than
\* the window's start.
RECURSIVE PopOld(_)
PopOld(s) == IF s # <<>> /\ Head(s) < now - WindowLen THEN PopOld(Tail(s)) ELSE s

\* The failure deque after pushing now and pruning.
Pruned(ts) == PopOld(Append(ts, now))

\* Mutant: the ban issued only past max_auth_failures, not on reaching it.
RecordFailureBanPast(d) ==
    IF IsBanned(d) THEN [d EXCEPT !.last = now]
    ELSE LET ts == Pruned(d.times)
             ban == Len(ts) > MaxFailures
         IN [times |-> ts, last |-> now,
             banCount |-> IF ban THEN d.banCount + 1 ELSE d.banCount,
             until |-> IF ban THEN now + BanLength(d.banCount + 1) ELSE 0]

\* Mutant: clearing an expired ban also resets ban_count, as the DDoS
\* detector's record_connection does with its violation_count.
RecordFailureResetOnExpiry(d) ==
    IF IsBanned(d) THEN [d EXCEPT !.last = now]
    ELSE LET ts == Pruned(d.times)
             ban == Len(ts) >= MaxFailures
             k  == IF d.until # 0 THEN 0 ELSE d.banCount
         IN [times |-> ts, last |-> now,
             banCount |-> IF ban THEN k + 1 ELSE k,
             until |-> IF ban THEN now + BanLength(k + 1) ELSE 0]

(***************************************************************************)
(* BruteForceDetector::record_failure: during a ban nothing but the        *)
(* activity time changes; otherwise an expired ban is cleared, the failure *)
(* pushed, the deque pruned, and reaching max_auth_failures raises         *)
(* ban_count and bans for the progressive length.  The deque is kept.     *)
(***************************************************************************)
DetectorRecordFailure(d) ==
    IF IsBanned(d) THEN [d EXCEPT !.last = now]
    ELSE LET ts == Pruned(d.times)
             ban == Len(ts) >= MaxFailures
         IN [times |-> ts, last |-> now,
             banCount |-> IF ban THEN d.banCount + 1 ELSE d.banCount,
             until |-> IF ban THEN now + BanLength(d.banCount + 1) ELSE 0]

\* BruteForceDetector::get_progressive_delay, in milliseconds.
ProgressiveDelay(d) ==
    IF ~EnableDelays \/ d.times = <<>> THEN 0
    ELSE Lesser(BaseDelay * 2 ^ Lesser(Len(d.times) - 1, 10), MaxDelay)

\* check_auth_attempt, without the reason, delay and remaining-ban values.
CheckAuthAttempt(ip) ==
    CASE ip \in Whitelist                                -> "Allow"
      [] ip \in DOMAIN det /\ IsBanned(det[ip])          -> "Block"
      [] ip \in DOMAIN det /\ ProgressiveDelay(det[ip]) > 0 -> "Delay"
      [] OTHER                                           -> "Allow"

F2tInit ==
    /\ det = [ip \in {} |-> NewDetector]
    /\ now = 0

\* record_auth_failure: nothing for a whitelisted IP.
RecordAuthFailure(ip) ==
    /\ EntryOf(ip).banCount < MaxBans
    /\ IF ip \in Whitelist THEN UNCHANGED det
                          ELSE Put(ip, DetectorRecordFailure(EntryOf(ip)))
    /\ UNCHANGED now

\* record_auth_success: an existing detector's deque is cleared.
RecordAuthSuccess(ip) ==
    /\ ip \in DOMAIN det
    /\ det' = [det EXCEPT ![ip] = [@ EXCEPT !.times = <<>>, !.last = now]]
    /\ UNCHANGED now

\* ban_ip(ip, duration): banned_until is overwritten, ban_count raised; the
\* activity time is left as it was.
BanIp(ip, dur) ==
    /\ EntryOf(ip).banCount < MaxBans
    /\ IF ip \in Whitelist THEN UNCHANGED det
       ELSE Put(ip, [EntryOf(ip) EXCEPT !.until = now + dur, !.banCount = @ + 1])
    /\ UNCHANGED now

\* unban_ip: only a banned detector changes; it loses its ban and deque.
UnbanIp(ip) ==
    /\ ip \in DOMAIN det /\ IsBanned(det[ip])
    /\ det' = [det EXCEPT ![ip] = [@ EXCEPT !.until = 0, !.times = <<>>]]
    /\ UNCHANGED now

\* cleanup_old_entries: retain the detectors active within twice the
\* cleanup interval, banned, or with a non-empty deque.
Retained(d) ==
    \/ d.last > now - 2 * CleanupInterval
    \/ IsBanned(d)
    \/ d.times # <<>>

CleanupOldEntries ==
    /\ det' = [ip \in {x \in DOMAIN det : Retained(det[x])} |-> det[ip]]
    /\ UNCHANGED now

Tick ==
    /\ now < MaxTime
    /\ now' = now + 1
    /\ UNCHANGED det

F2tNext ==
    \/ \E ip \in Ips :
         \/ RecordAuthFailure(ip) \/ RecordAuthSuccess(ip) \/ UnbanIp(ip)
         \/ \E dur \in ManualDurations : BanIp(ip, dur)
    \/ CleanupOldEntries
    \/ Tick

F2tSpec == F2tInit /\ [][F2tNext]_f2tVars
-----------------------------------------------------------------------------
(* Properties. *)

\* The abstract Fail2Ban of the connection manager, seen through the
\* deque lengths and is_banned.
Abs == INSTANCE Fail2Ban
         WITH failures <- [ip \in Ips |-> IF ip \in DOMAIN det THEN Len(det[ip].times) ELSE 0],
              banned   <- [ip \in Ips |-> ip \in DOMAIN det /\ IsBanned(det[ip])]

\* The detectors with their clock implement the abstract Fail2Ban: a
\* failure prunes some old entries but never the new one and bans exactly
\* at max_auth_failures, bans only run out as time passes, and a cleanup
\* drops only detectors that behave like fresh ones.
ImplementsAbstractFail2Ban == Abs!F2bSpec

\* Spec section 8: a record with no activity for 2 x cleanup_interval is
\* evicted by cleanup_old_entries unless the IP is banned.
IdleRecordsEvicted ==
    [][CleanupOldEntries =>
         \A ip \in DOMAIN det' : det'[ip].last > now - 2 * CleanupInterval \/ IsBanned(det'[ip])]_f2tVars

\* check_auth_attempt delays an IP only for failures within the window
\* ("progressive delay based on recent failures", fail2ban.rs:151).
DelayOnlyForRecentFailures ==
    \A ip \in Ips : CheckAuthAttempt(ip) = "Delay" =>
        \E i \in 1..Len(det[ip].times) : det[ip].times[i] >= now - WindowLen

\* ban_count is a lifetime counter (spec section 4.6: a success "preserves
\* lifetime counters and ban count"): no step lowers the ban_count of a
\* detector that stays in the map, neither a ban running out and cleared by
\* record_failure, nor unban_ip, nor record_auth_success, so a repeat
\* offender's next ban is the next, longer one.
BanCountKept ==
    [][\A ip \in DOMAIN det \cap DOMAIN det' : det'[ip].banCount >= det[ip].banCount]_f2tVars
=============================================================================
