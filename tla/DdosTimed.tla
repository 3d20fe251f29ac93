------------------------------ MODULE DdosTimed ------------------------------
(***************************************************************************)
(* DdosProtection and ConnectionFloodDetector of                           *)
(* src/src/security/ddos_protection.rs with the clock: each detector's     *)
(* connection_times deque, blocked_until, violation_count, last_activity   *)
(* and current_connections, and the global concurrent count.               *)
(* check_connection reads the global count under global_stats' mutex and   *)
(* then, with that one released, works on its entry under ip_detectors'   *)
(* mutex: two steps of the accept loop.  connection_started and            *)
(* connection_ended take global_stats while they still hold ip_detectors,  *)
(* so each is one step of the connection's task.  A task is spawned after  *)
(* an Allow, or a later gate (fail2ban, the semaphore) drops the           *)
(* connection.  Instants are ticks since the process started, and         *)
(* blocked_until = None is 0, which every method treats as a block that   *)
(* has ended (violation_count is 0 whenever blocked_until is None).       *)
(* config.enabled is true.  Left out: the statistics counters, read only   *)
(* by get_stats, and the delay of a Block (get_progressive_delay), which   *)
(* the accept loop sleeps before its next accept and which changes no      *)
(* state of the protector.                                                 *)
(***************************************************************************)
EXTENDS Integers, Sequences

CONSTANTS Ips,             \* client addresses
          Tasks,           \* connection tasks that can be alive at once
          Threshold,       \* connection_threshold
          Window,          \* time_window_seconds, in ticks
          BlockBase,       \* block_duration_minutes * 60, in ticks
          MaxPerIp,        \* max_connections_per_ip
          GlobalThreshold, \* global_connection_threshold
          CleanupAge,      \* cleanup_interval_seconds * 2, in ticks
          ManualDurations, \* durations a block_ip caller passes, in ticks
          MaxTime,         \* bound on the clock
          MaxManual        \* bound on the block_ip and unblock_ip calls

VARIABLES dd,       \* ip_detectors: IP -> detector, for the IPs that have one
          ddGlobal, \* global_stats.current_global_connections
          ddNow,    \* Instant::now()
          chk,      \* the IP whose check_connection is between its locks, or "idle"
          task,     \* per task: [pc, ip]
          admitted, \* history: per IP, the Allow decisions of the last Window ticks
          manual,   \* the block_ip and unblock_ip calls made so far
          blocks    \* history: per IP, the lengths of the flood blocks of its entry

ddVars == <<dd, ddGlobal, ddNow, chk, task, admitted, manual, blocks>>

NewFlood == [times |-> <<>>, until |-> 0, viol |-> 0, last |-> ddNow, cur |-> 0]

DdEntry(ip) == IF ip \in DOMAIN dd THEN dd[ip] ELSE NewFlood

DdPut(ip, d) == dd' = [x \in DOMAIN dd \cup {ip} |-> IF x = ip THEN d ELSE dd[x]]

\* ConnectionFloodDetector::is_blocked.
IsBlocked(d) == ddNow < d.until

LeastOf2(a, b) == IF a < b THEN a ELSE b

\* The block of a violation: block_duration * 2^min(violation_count, 5).
BlockLength(v) == BlockBase * 2 ^ LeastOf2(v, 5)

\* Mutant: the window prune also pops a timestamp exactly window_start.
RECURSIVE PruneAtStart(_)
PruneAtStart(s) ==
    IF s # <<>> /\ Head(s) <= ddNow - Window THEN PruneAtStart(Tail(s)) ELSE s

\* The while loop of record_connection: pop the front while it is older
\* than now - time_window.
RECURSIVE PruneWindow(_)
PruneWindow(s) ==
    IF s # <<>> /\ Head(s) < ddNow - Window THEN PruneWindow(Tail(s)) ELSE s

(***************************************************************************)
(* ConnectionFloodDetector::record_connection on an entry that is not      *)
(* blocked: the activity time is set, an ended block is cleared together   *)
(* with violation_count, the instant pushed and the deque pruned; more     *)
(* than connection_threshold timestamps is a violation and a block.        *)
(***************************************************************************)
RecordConnection(d) ==
    LET ts == PruneWindow(Append(d.times, ddNow))
        v  == IF d.until # 0 THEN 0 ELSE d.viol
        flood == Len(ts) > Threshold
    IN [d EXCEPT !.last = ddNow, !.times = ts,
                 !.viol = IF flood THEN v + 1 ELSE v,
                 !.until = IF flood THEN ddNow + BlockLength(v + 1) ELSE 0]

\* check_connection, under global_stats: at the global concurrent limit
\* the connection is refused and the loop sleeps, a step that changes no
\* state here; below it the check goes on to the detector.
CheckGlobal(ip) ==
    /\ chk = "idle"
    /\ ddGlobal < GlobalThreshold
    /\ chk' = ip
    /\ UNCHANGED <<dd, ddGlobal, ddNow, task, admitted, blocks, manual>>

(***************************************************************************)
(* check_connection, under ip_detectors: the entry is inserted; an active  *)
(* block or the concurrent limit refuses; otherwise record_connection     *)
(* decides.  After an Allow the loop spawns a task if one is free and a   *)
(* later gate lets the connection through, or drops it.                   *)
(***************************************************************************)
CheckDetector ==
    LET ip == chk
        d  == DdEntry(ip)
        r  == RecordConnection(d)
    IN
    /\ chk \in Ips
    /\ chk' = "idle"
    /\ CASE IsBlocked(d) ->
              DdPut(ip, d)
              /\ UNCHANGED <<task, admitted, blocks>>
         [] d.cur >= MaxPerIp ->
              DdPut(ip, d)
              /\ UNCHANGED <<task, admitted, blocks>>
         [] IsBlocked(r) ->
              DdPut(ip, r)
              /\ blocks' = [blocks EXCEPT ![ip] = Append(@, r.until - ddNow)]
              /\ UNCHANGED <<task, admitted>>
         [] OTHER ->
              DdPut(ip, r)
              /\ admitted' = [admitted EXCEPT ![ip] = Append(@, ddNow)]
              /\ \/ \E t \in Tasks : task[t].pc = "free" /\ task' = [task EXCEPT ![t] = [pc |-> "spawned", ip |-> ip]]
                 \/ UNCHANGED task
              /\ UNCHANGED blocks
    /\ UNCHANGED <<ddGlobal, ddNow, manual>>

\* connection_started: under ip_detectors, current_connections + 1 for an
\* IP that still has an entry, and, with that lock still held, the global
\* count + 1 under global_stats.
ConnectionStarted(t) ==
    LET ip == task[t].ip IN
    /\ task[t].pc = "spawned"
    /\ dd' = IF ip \in DOMAIN dd THEN [dd EXCEPT ![ip].cur = @ + 1] ELSE dd
    /\ ddGlobal' = ddGlobal + 1
    /\ task' = [task EXCEPT ![t].pc = "running"]
    /\ UNCHANGED <<ddNow, chk, admitted, blocks, manual>>

\* Mutant: connection_ended without the current_connections > 0 test.
ConnectionEndedUnsaturated(t) ==
    LET ip == task[t].ip IN
    /\ task[t].pc = "running"
    /\ dd' = IF ip \in DOMAIN dd THEN [dd EXCEPT ![ip].cur = @ - 1] ELSE dd
    /\ ddGlobal' = IF ddGlobal > 0 THEN ddGlobal - 1 ELSE 0
    /\ task' = [task EXCEPT ![t].pc = "free"]
    /\ UNCHANGED <<ddNow, chk, admitted, blocks, manual>>

\* connection_ended: the same two sections with saturating decrements, of
\* the entry the IP has now, if it has one.
ConnectionEnded(t) ==
    LET ip == task[t].ip IN
    /\ task[t].pc = "running"
    /\ dd' = IF ip \in DOMAIN dd /\ dd[ip].cur > 0
               THEN [dd EXCEPT ![ip].cur = @ - 1] ELSE dd
    /\ ddGlobal' = IF ddGlobal > 0 THEN ddGlobal - 1 ELSE 0
    /\ task' = [task EXCEPT ![t].pc = "free"]
    /\ UNCHANGED <<ddNow, chk, admitted, blocks, manual>>

\* block_ip: the entry is inserted, blocked for the duration, and its
\* violation_count raised.
BlockIp(ip, dur) ==
    /\ manual < MaxManual /\ manual' = manual + 1
    /\ DdPut(ip, [DdEntry(ip) EXCEPT !.until = ddNow + dur, !.viol = @ + 1])
    /\ UNCHANGED <<ddGlobal, ddNow, chk, task, admitted, blocks>>

\* unblock_ip: an entry under an active block is cleared; anything else
\* returns false.
UnblockIp(ip) ==
    /\ manual < MaxManual /\ manual' = manual + 1
    /\ ip \in DOMAIN dd /\ IsBlocked(dd[ip])
    /\ dd' = [dd EXCEPT ![ip].until = 0, ![ip].viol = 0]
    /\ blocks' = [blocks EXCEPT ![ip] = <<>>]
    /\ UNCHANGED <<ddGlobal, ddNow, chk, task, admitted>>

\* Keep(d) is the retain predicate of cleanup_old_entries.
Keep(d) == d.last > ddNow - CleanupAge \/ IsBlocked(d) \/ d.cur > 0


\* cleanup_old_entries, run by the janitor task: entries that are idle, not
\* blocked and without connections are dropped (their history with them).
CleanupOldEntries ==
    LET gone == {ip \in DOMAIN dd : ~Keep(dd[ip])} IN
    /\ gone # {}
    /\ dd' = [ip \in DOMAIN dd \ gone |-> dd[ip]]
    /\ blocks' = [ip \in Ips |-> IF ip \in gone THEN <<>> ELSE blocks[ip]]
    /\ UNCHANGED <<ddGlobal, ddNow, chk, task, admitted, manual>>

DdTick ==
    /\ ddNow < MaxTime
    /\ ddNow' = ddNow + 1
    /\ admitted' = [ip \in Ips |-> SelectSeq(admitted[ip], LAMBDA s : s >= ddNow' - Window)]
    /\ UNCHANGED <<dd, ddGlobal, chk, task, blocks, manual>>

DdInit ==
    /\ dd = [ip \in {} |-> NewFlood]
    /\ ddGlobal = 0
    /\ ddNow = 0
    /\ chk = "idle"
    /\ task = [t \in Tasks |-> [pc |-> "free", ip |-> CHOOSE ip \in Ips : TRUE]]
    /\ admitted = [ip \in Ips |-> <<>>]
    /\ manual = 0
    /\ blocks = [ip \in Ips |-> <<>>]

DdNext ==
    \/ \E ip \in Ips : CheckGlobal(ip)
    \/ CheckDetector
    \/ \E t \in Tasks : ConnectionStarted(t) \/ ConnectionEnded(t)
    \/ \E ip \in Ips, dur \in ManualDurations : BlockIp(ip, dur)
    \/ \E ip \in Ips : UnblockIp(ip)
    \/ CleanupOldEntries
    \/ DdTick

DdSpec == DdInit /\ [][DdNext]_ddVars

-----------------------------------------------------------------------------
(* Properties *)

Detector == [times : Seq(0..MaxTime), until : Nat, viol : Nat,
             last : 0..MaxTime, cur : Nat]

\* Every detector and task is well formed.
DdtTypeOK ==
    /\ DOMAIN dd \subseteq Ips /\ \A ip \in DOMAIN dd : dd[ip] \in Detector
    /\ ddGlobal \in Nat /\ ddNow \in 0..MaxTime
    /\ chk \in Ips \cup {"idle"}
    /\ \A t \in Tasks : task[t].pc \in {"free", "spawned", "running"}

\* The flood bound: in any span of time_window_seconds (both ends
\* included) check_connection allows an IP at most connection_threshold
\* connections, whatever the janitor's cleanup_old_entries dropped
\* between them: an entry is dropped only after 2 * cleanup_interval of
\* inactivity, longer than the window its timestamps still count in.
FloodBound == \A ip \in Ips : Len(admitted[ip]) <= Threshold

\* Progressive bans (spec 4.5, "banned for baseBan * 2^min(violationCount,
\* 5)"): each flood block of an entry after its first is longer than the
\* one before, until the 2^5 cap, unless unblock_ip cleared it.
ProgressiveBans ==
    \A ip \in Ips : \A i \in 2..Len(blocks[ip]) :
        blocks[ip][i] > blocks[ip][i-1] \/ blocks[ip][i-1] = BlockBase * 32
====
