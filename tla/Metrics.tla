------------------------------- MODULE Metrics -------------------------------
(***************************************************************************)
(* The metrics registry of src/src/metrics/collector.rs (Metrics) and     *)
(* src/src/metrics/types.rs: a table of active connections behind one      *)
(* RwLock, a Vec of finished ConnectionStats behind another, and atomic    *)
(* counters (AtomicU64s and the Prometheus counters and gauge beside       *)
(* them) updated outside both locks.                                       *)
(*                                                                         *)
(* Nothing in the server calls these methods (main.rs hands the registry   *)
(* only to the management API), so the callers are API callers: each one   *)
(* tracks connections under its own session id.  Every method is split     *)
(* where it releases a lock or moves to another atomic: a step holds one   *)
(* lock, or does the counter updates that follow it.  The Prometheus       *)
(* counter and the AtomicU64 that count the same thing are updated in one  *)
(* step, as nothing reads one against the other.  A stored record keeps   *)
(* its session id and byte total; n numbers the records in push order and  *)
(* is not part of ConnectionStats.                                         *)
(***************************************************************************)
EXTENDS Naturals, Sequences, FiniteSets, TLC

CONSTANTS Callers,        \* API callers; a caller's session id is itself
          ByteSizes,      \* byte counts an update or a record carries
          HistCap,        \* the 10000 of `historical.len() > 10000`
          HistDrop,       \* the 1000 of `historical.drain(0..1000)`
          MaxCalls,       \* bound on the API calls of one caller
          CounterModulus  \* 2^64, the width of the AtomicU64 counters

ASSUME 0 < HistDrop /\ HistDrop <= HistCap

VARIABLES active,      \* active_connections: session id -> [up, down]
          hist,        \* historical_connections
          pushes,      \* records ever pushed onto hist
          gauge,       \* the active_connections gauge
          connTotal,   \* total_connections (and connections_total)
          totalBytes,  \* total_bytes (and bytes_transferred_total)
          attempts,    \* auth_attempts
          successes,   \* auth_successes
          blocked,     \* blocked_requests
          caller,      \* per caller: pc, the stats it carries, calls made
          reader       \* a get_auth_failures caller: pc, attempts loaded, result

metVars == <<active, hist, pushes, gauge, connTotal, totalBytes, attempts,
             successes, blocked, caller, reader>>

CallerPcs == {"idle", "inserted", "open", "removed", "counted", "recording", "auth"}

Record == [sid : Callers, bytes : Nat, n : Nat \ {0}]

\* Metrics::new: empty tables, every counter zero.
MetInit ==
    /\ active = [s \in {} |-> [up |-> 0, down |-> 0]]
    /\ hist = <<>>
    /\ pushes = 0
    /\ gauge = 0 /\ connTotal = 0 /\ totalBytes = 0
    /\ attempts = 0 /\ successes = 0 /\ blocked = 0
    /\ caller = [t \in Callers |-> [pc |-> "idle", st |-> 0, calls |-> 0]]
    /\ reader = [pc |-> "idle", a |-> 0, rep |-> 0]

MetTypeOK ==
    /\ DOMAIN active \subseteq Callers
    /\ \A s \in DOMAIN active : active[s] \in [up : Nat, down : Nat]
    /\ hist \in Seq(Record)
    /\ {gauge, connTotal, totalBytes, attempts, successes, blocked, pushes} \subseteq Nat
    /\ caller \in [Callers -> [pc : CallerPcs, st : Nat, calls : 0..MaxCalls]]
    /\ reader \in [pc : {"idle", "loaded"}, a : Nat, rep : Nat]

\* fetch_add on a u64 wraps.
Add64(a, b) == (a + b) % CounterModulus

\* A caller may make another API call.
CanCall(t) == caller[t].pc = "idle" /\ caller[t].calls < MaxCalls

SetCaller(t, pc, st) ==
    caller' = [caller EXCEPT ![t] = [pc |-> pc, st |-> st, calls |-> @.calls + 1]]
GoTo(t, pc) == caller' = [caller EXCEPT ![t].pc = pc]

Counters == <<gauge, connTotal, totalBytes, attempts, successes, blocked>>
-----------------------------------------------------------------------------
(* Connection tracking. *)

\* start_connection, under the write lock: ActiveConnection::new with zero
\* byte counters, inserted under the session id (replacing any entry, so a
\* caller that already tracks its id may call it again).
StartInsert(t) ==
    /\ caller[t].pc \in {"idle", "open"} /\ caller[t].calls < MaxCalls
    /\ active' = (t :> [up |-> 0, down |-> 0]) @@ active
    /\ SetCaller(t, "inserted", 0)
    /\ UNCHANGED <<hist, pushes, reader, Counters>>

\* start_connection, after the lock: connections_total, the gauge and
\* total_connections go up.
StartCount(t) ==
    /\ caller[t].pc = "inserted"
    /\ gauge' = gauge + 1
    /\ connTotal' = Add64(connTotal, 1)
    /\ GoTo(t, "open")
    /\ UNCHANGED <<active, hist, pushes, totalBytes, attempts, successes, blocked, reader>>

\* update_connection_bytes, under the read lock: the entry's atomics grow;
\* an id no longer (or not yet) tracked is ignored.
UpdateConnectionBytes(t, up, down) ==
    /\ caller[t].pc \in {"idle", "open"} /\ caller[t].calls < MaxCalls
    /\ active' = IF t \in DOMAIN active
                   THEN [active EXCEPT ![t] = [up |-> Add64(@.up, up), down |-> Add64(@.down, down)]]
                   ELSE active
    /\ caller' = [caller EXCEPT ![t].calls = @ + 1]
    /\ UNCHANGED <<hist, pushes, reader, Counters>>

\* Fault variant of EndRemove: an unknown id is handled as if removed,
\* as without the `if let Some(connection)`.
EndRemoveIgnoringAbsence(t) ==
    /\ caller[t].pc \in {"idle", "open"} /\ caller[t].calls < MaxCalls
    /\ active' = [s \in DOMAIN active \ {t} |-> active[s]]
    /\ caller' = [caller EXCEPT ![t] = [pc |-> "removed",
                    st |-> IF t \in DOMAIN active THEN active[t].up + active[t].down ELSE 0,
                    calls |-> @.calls + 1]]
    /\ UNCHANGED <<hist, pushes, reader, Counters>>

\* end_connection, under the write lock: the entry is removed and its
\* to_stats taken; an unknown id only logs a warning.
EndRemove(t) ==
    /\ caller[t].pc \in {"idle", "open"} /\ caller[t].calls < MaxCalls
    /\ IF t \in DOMAIN active
         THEN /\ active' = [s \in DOMAIN active \ {t} |-> active[s]]
              /\ caller' = [caller EXCEPT ![t] = [pc |-> "removed",
                              st |-> active[t].up + active[t].down, calls |-> @.calls + 1]]
         ELSE /\ caller' = [caller EXCEPT ![t].calls = @ + 1]
              /\ UNCHANGED active
    /\ UNCHANGED <<hist, pushes, reader, Counters>>

\* end_connection, after the lock: the gauge goes down and the bytes are
\* added to total_bytes (the histogram is not modelled).
EndCount(t) ==
    /\ caller[t].pc = "removed"
    /\ gauge' = gauge - 1
    /\ totalBytes' = Add64(totalBytes, caller[t].st)
    /\ GoTo(t, "counted")
    /\ UNCHANGED <<active, hist, pushes, connTotal, attempts, successes, blocked, reader>>

\* Fault variant of PushHistory: the drop starts at the bound (>=).
PushHistoryAtBound(t, b) ==
    LET h == Append(hist, [sid |-> t, bytes |-> b, n |-> pushes + 1])
    IN /\ hist' = IF Len(h) >= HistCap THEN SubSeq(h, HistDrop + 1, Len(h)) ELSE h
       /\ pushes' = pushes + 1

\* The history write: push, then drop the oldest HistDrop records once the
\* Vec is longer than HistCap.
PushHistory(t, b) ==
    LET h == Append(hist, [sid |-> t, bytes |-> b, n |-> pushes + 1])
    IN /\ hist' = IF Len(h) > HistCap THEN SubSeq(h, HistDrop + 1, Len(h)) ELSE h
       /\ pushes' = pushes + 1

\* end_connection, under the history write lock.
EndStore(t) ==
    /\ caller[t].pc = "counted"
    /\ PushHistory(t, caller[t].st)
    /\ GoTo(t, "idle")
    /\ UNCHANGED <<active, reader, Counters>>

\* record_connection(stats) for a connection tracked elsewhere: the bytes
\* are counted first, then the stats are stored.
RecordConnection(t, b) ==
    /\ CanCall(t)
    /\ totalBytes' = Add64(totalBytes, b)
    /\ SetCaller(t, "recording", b)
    /\ UNCHANGED <<active, hist, pushes, gauge, connTotal, attempts, successes, blocked, reader>>

RecordStore(t) ==
    /\ caller[t].pc = "recording"
    /\ PushHistory(t, caller[t].st)
    /\ GoTo(t, "idle")
    /\ UNCHANGED <<active, reader, Counters>>
-----------------------------------------------------------------------------
(* Authentication and block counters. *)

\* increment_auth_attempts(success): auth_attempts first; for a success,
\* auth_successes is a second, separate fetch_add.
IncrementAuthAttempts(t, success) ==
    /\ CanCall(t)
    /\ attempts' = Add64(attempts, 1)
    /\ SetCaller(t, IF success THEN "auth" ELSE "idle", 0)
    /\ UNCHANGED <<active, hist, pushes, gauge, connTotal, totalBytes, successes, blocked, reader>>

AuthSuccessCounted(t) ==
    /\ caller[t].pc = "auth"
    /\ successes' = Add64(successes, 1)
    /\ GoTo(t, "idle")
    /\ UNCHANGED <<active, hist, pushes, gauge, connTotal, totalBytes, attempts, blocked, reader>>

\* record_blocked_request.
RecordBlockedRequest(t) ==
    /\ CanCall(t)
    /\ blocked' = Add64(blocked, 1)
    /\ SetCaller(t, "idle", 0)
    /\ UNCHANGED <<active, hist, pushes, gauge, connTotal, totalBytes, attempts, successes, reader>>

\* u64::saturating_sub.
SaturatingSub(a, b) == IF a > b THEN a - b ELSE 0

\* Fault variant of GetAuthFailures: a plain u64 subtraction, which wraps.
GetAuthFailuresWrapping ==
    /\ reader.pc = "loaded"
    /\ reader' = [pc |-> "idle", a |-> 0,
                  rep |-> (reader.a + CounterModulus - successes) % CounterModulus]
    /\ UNCHANGED <<active, hist, pushes, caller, Counters>>

\* get_auth_failures loads auth_attempts, then auth_successes, and returns
\* the saturating difference.
LoadAttempts ==
    /\ reader.pc = "idle"
    /\ reader' = [reader EXCEPT !.pc = "loaded", !.a = attempts]
    /\ UNCHANGED <<active, hist, pushes, caller, Counters>>

GetAuthFailures ==
    /\ reader.pc = "loaded"
    /\ reader' = [pc |-> "idle", a |-> 0, rep |-> SaturatingSub(reader.a, successes)]
    /\ UNCHANGED <<active, hist, pushes, caller, Counters>>
-----------------------------------------------------------------------------
MetNext ==
    \/ \E t \in Callers :
         \/ StartInsert(t) \/ StartCount(t)
         \/ \E u, d \in ByteSizes \cup {0} : UpdateConnectionBytes(t, u, d)
         \/ EndRemove(t) \/ EndCount(t) \/ EndStore(t)
         \/ \E b \in ByteSizes : RecordConnection(t, b)
         \/ RecordStore(t)
         \/ \E s \in BOOLEAN : IncrementAuthAttempts(t, s)
         \/ AuthSuccessCounted(t) \/ RecordBlockedRequest(t)
    \/ LoadAttempts \/ GetAuthFailures

MetSpec == MetInit /\ [][MetNext]_metVars
-----------------------------------------------------------------------------
(* Properties. *)

\* The gauge never counts fewer connections than the table tracks, once
\* the callers between a table change and the counter update after it are
\* settled: end_connection lowers the gauge only when it removed an entry,
\* so an end_connection for an unknown id (one before its start_connection,
\* or a second one) leaves it alone.  It may count more: a second
\* start_connection for a tracked id replaces the entry and still raises it.
GaugeCoversTable ==
    gauge + Cardinality({t \in Callers : caller[t].pc = "inserted"})
          - Cardinality({t \in Callers : caller[t].pc = "removed"})
        >= Cardinality(DOMAIN active)

\* The history holds the newest records in push order, never more than
\* HistCap, and once records have been dropped never fewer than
\* HistCap - HistDrop + 1: end_connection and record_connection drop one
\* batch of the oldest when the Vec outgrows its bound (spec 4.13).
HistoryKeepsNewest ==
    /\ Len(hist) <= HistCap
    /\ \A i \in 1..Len(hist) : hist[i].n = pushes - Len(hist) + i
    /\ pushes > Len(hist) => Len(hist) > HistCap - HistDrop

\* get_auth_failures never reports more failures than auth_attempts holds,
\* although it loads the two counters at different times: an
\* increment_auth_attempts(true) that runs between the loads makes the
\* successes it sees exceed the attempts it saw, which saturating_sub
\* turns into 0 instead of a wrapped u64.
FailuresWithinAttempts == reader.rep <= attempts
=============================================================================
