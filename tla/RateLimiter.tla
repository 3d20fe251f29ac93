---------------------------- MODULE RateLimiter ----------------------------
(***************************************************************************)
(* The token-bucket rate limiter of src/src/security/rate_limiter.rs: one  *)
(* global connection bucket and, per IP, a connection bucket, an auth      *)
(* bucket, the last activity time and an optional block, all behind        *)
(* mutexes that each call holds for its whole body.                        *)
(*                                                                         *)
(* Time is explicit (whole seconds, the clock stops at MaxTime) because    *)
(* the limiter's promise is about rates.  Token counts are kept exactly,   *)
(* in sixtieths of a token: a bucket configured with r tokens per minute   *)
(* gains r sixtieths per second, which is the code's elapsed * r / 60.     *)
(* A blocked_until of None is 0: every real block ends after time 0.       *)
(* The limiter is enabled; a disabled one (enabled = false) returns true   *)
(* at once and never changes state.                                        *)
(***************************************************************************)
EXTENDS Integers

CONSTANTS Ips,             \* client addresses
          Burst,           \* connections_per_ip_burst
          PerMinute,       \* connections_per_ip_per_minute
          AuthBurst,       \* auth_attempts_per_ip_burst
          AuthPerMinute,   \* auth_attempts_per_ip_per_minute
          GlobalPerSecond, \* global_connections_per_second
          BlockSecs,       \* block_duration_minutes * 60
          CleanupSecs,     \* cleanup_interval_seconds
          MaxTime          \* the last second explored

ASSUME /\ {Burst, PerMinute, AuthBurst, AuthPerMinute, GlobalPerSecond,
           BlockSecs, CleanupSecs, MaxTime} \subseteq Nat
       /\ BlockSecs > 0

VARIABLES now,      \* Instant::now(), in seconds
          global,   \* global_bucket
          limits,   \* ip_limits: a map whose domain is the IPs with an entry
          ideal,    \* history: an eagerly refilled, never evicted bucket per IP
          bans      \* history: the end of the last block installed on ip

rlVars == <<now, global, limits, ideal, bans>>

Scale == 60   \* sixtieths per token

\* The global bucket: capacity ten seconds' worth, refill per minute.
GlobalCap == GlobalPerSecond * 10
GlobalPerMinute == GlobalPerSecond * 60

\* TokenBucket::new: full, last refilled now.
NewBucket(cap) == [tok |-> cap * Scale, last |-> now]

\* IpRateLimit::new
NewIpLimit == [conn |-> NewBucket(Burst), auth |-> NewBucket(AuthBurst),
               act |-> now, until |-> 0]

LeastOf(a, b) == IF a < b THEN a ELSE b

\* Fault variant of Refill: the capacity bound is forgotten.
RefillUncapped(b, cap, perMin) ==
    IF now > b.last
      THEN [tok |-> b.tok + (now - b.last) * perMin, last |-> now]
      ELSE b

\* TokenBucket::refill: add the tokens of the elapsed time, up to capacity.
Refill(b, cap, perMin) ==
    IF now > b.last
      THEN [tok |-> LeastOf(b.tok + (now - b.last) * perMin, cap * Scale),
            last |-> now]
      ELSE b

\* TokenBucket::try_consume(1) on a bucket already refilled.
\* Fault variant of HasToken: any fraction of a token is taken as enough.
HasTokenFraction(b) == b.tok > 0

HasToken(b) == b.tok >= Scale
Take(b) == [b EXCEPT !.tok = @ - Scale]

\* IpRateLimit::is_blocked
IsBlocked(e) == now < e.until

EntryOf(ip) == IF ip \in DOMAIN limits THEN limits[ip] ELSE NewIpLimit
Put(ip, e) == [i \in DOMAIN limits \cup {ip} |-> IF i = ip THEN e ELSE limits[i]]

Bucket == [tok : Nat, last : 0..MaxTime]
IpLimit == [conn : Bucket, auth : Bucket, act : 0..MaxTime, until : Nat]

RlTypeOK ==
    /\ now \in 0..MaxTime
    /\ global \in Bucket /\ global.tok <= GlobalCap * Scale
    /\ DOMAIN limits \subseteq Ips
    /\ \A ip \in DOMAIN limits :
          /\ limits[ip] \in IpLimit
          /\ limits[ip].conn.tok <= Burst * Scale
          /\ limits[ip].auth.tok <= AuthBurst * Scale
    /\ ideal \in [Ips -> Int]
    /\ bans \in [Ips -> Nat]

RlInit ==
    /\ now = 0
    /\ global = [tok |-> GlobalCap * Scale, last |-> 0]
    /\ limits = [ip \in {} |-> NewIpLimit]
    /\ ideal = [ip \in Ips |-> Burst * Scale]
    /\ bans = [ip \in Ips |-> 0]

(***************************************************************************)
(* check_connection_rate(ip): the global bucket first; then the entry is   *)
(* created, an active block refuses, and a token of the connection bucket *)
(* admits and refreshes last_activity, while an empty bucket blocks the IP *)
(* for block_duration.  ok is the returned verdict.                        *)
(***************************************************************************)
CheckConnectionRate(ip, ok) ==
    LET g == Refill(global, GlobalCap, GlobalPerMinute)
        e == EntryOf(ip)
        c == Refill(e.conn, Burst, PerMinute)
    IN
    \/ /\ ~HasToken(g)
       /\ ok = FALSE
       /\ global' = g
       /\ UNCHANGED <<now, limits, ideal, bans>>
    \/ /\ HasToken(g)
       /\ global' = Take(g)
       /\ \/ /\ IsBlocked(e)
             /\ ok = FALSE
             /\ limits' = Put(ip, e)
             /\ UNCHANGED <<ideal, bans>>
          \/ /\ ~IsBlocked(e) /\ HasToken(c)
             /\ ok = TRUE
             /\ limits' = Put(ip, [e EXCEPT !.conn = Take(c), !.act = now])
             /\ ideal' = [ideal EXCEPT ![ip] = @ - Scale]
             /\ UNCHANGED bans
          \/ /\ ~IsBlocked(e) /\ ~HasToken(c)
             /\ ok = FALSE
             /\ limits' = Put(ip, [e EXCEPT !.conn = c, !.until = now + BlockSecs])
             /\ bans' = [bans EXCEPT ![ip] = now + BlockSecs]
             /\ UNCHANGED ideal
       /\ UNCHANGED now

(***************************************************************************)
(* check_auth_rate(ip): the same per-IP logic on the auth bucket, with no  *)
(* global bucket; depletion blocks the IP on both axes.  No server path  *)
(* calls it; it is the limiter's other public operation.                  *)
(***************************************************************************)
CheckAuthRate(ip, ok) ==
    LET e == EntryOf(ip)
        a == Refill(e.auth, AuthBurst, AuthPerMinute)
    IN
    /\ \/ /\ IsBlocked(e)
          /\ ok = FALSE
          /\ limits' = Put(ip, e)
          /\ UNCHANGED bans
       \/ /\ ~IsBlocked(e) /\ HasToken(a)
          /\ ok = TRUE
          /\ limits' = Put(ip, [e EXCEPT !.auth = Take(a), !.act = now])
          /\ UNCHANGED bans
       \/ /\ ~IsBlocked(e) /\ ~HasToken(a)
          /\ ok = FALSE
          /\ limits' = Put(ip, [e EXCEPT !.auth = a, !.until = now + BlockSecs])
          /\ bans' = [bans EXCEPT ![ip] = now + BlockSecs]
    /\ UNCHANGED <<now, global, ideal>>

\* Fault variant of CleanupOldEntries: blocked entries are not protected.
CleanupIgnoringBlocks ==
    /\ limits' = [ip \in {i \in DOMAIN limits :
                           limits[i].act + 2 * CleanupSecs > now} |-> limits[ip]]
    /\ UNCHANGED <<now, global, ideal, bans>>

\* cleanup_old_entries: keep an entry active after now - 2 * interval, or
\* blocked.
CleanupOldEntries ==
    /\ limits' = [ip \in {i \in DOMAIN limits :
                           \/ limits[i].act + 2 * CleanupSecs > now
                           \/ IsBlocked(limits[i])} |-> limits[ip]]
    /\ UNCHANGED <<now, global, ideal, bans>>

\* A second passes.
Tick ==
    /\ now < MaxTime
    /\ now' = now + 1
    /\ ideal' = [ip \in Ips |-> LeastOf(ideal[ip] + PerMinute, Burst * Scale)]
    /\ UNCHANGED <<global, limits, bans>>

RlNext ==
    \/ \E ip \in Ips, ok \in BOOLEAN : CheckConnectionRate(ip, ok) \/ CheckAuthRate(ip, ok)
    \/ CleanupOldEntries
    \/ Tick

RlSpec == RlInit /\ [][RlNext]_rlVars

-----------------------------------------------------------------------------
(* Properties *)

(***************************************************************************)
(* The token-bucket promise of check_connection_rate: in every interval    *)
(* [t0, now] an IP is admitted at most burst + (now - t0) * rate times,    *)
(* whatever the lazy refills, blocks and evictions of its entry in         *)
(* between.  Equivalently, a bucket refilled every second and never        *)
(* evicted, from which every admission takes a token, never goes below     *)
(* zero.                                                                   *)
(***************************************************************************)
RateBound == \A ip \in Ips : ideal[ip] >= 0

(***************************************************************************)
(* A block installed on an IP by depleting either bucket is honoured: no   *)
(* connection from it is admitted before the block ends, although the      *)
(* janitor's cleanup_old_entries may run meanwhile.                        *)
(***************************************************************************)
BlockHonoured ==
    [][\A ip \in Ips : ideal'[ip] < ideal[ip] => now >= bans[ip]]_rlVars
=============================================================================
