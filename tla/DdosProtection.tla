--------------------------- MODULE DdosProtection ---------------------------
(***************************************************************************)
(* The DDoS protector of src/src/security/ddos_protection.rs: the map of   *)
(* per-IP ConnectionFloodDetector entries behind one mutex, and the global *)
(* concurrent-connection counter.  Each operation below is one call of the *)
(* public API and is atomic, as the code holds the mutex for its whole     *)
(* body.  Time is abstract: a block that has run out ("blocked_until" in   *)
(* the past) behaves exactly like no block, so it is modelled by the       *)
(* BlockExpires step that clears it, and the pruning of the sliding        *)
(* window by age is a choice of how many old timestamps have left it.      *)
(***************************************************************************)
EXTENDS Naturals, FiniteSets

CONSTANTS Ips,             \* client addresses
          MaxPerIp,        \* max_connections_per_ip
          GlobalThreshold, \* global_connection_threshold
          FloodThreshold   \* connection_threshold (per time window)

VARIABLES detectors, \* ip_detectors: a map whose domain is the IPs with an entry
          ddosGlobal \* global_stats.current_global_connections

ddosVars == <<detectors, ddosGlobal>>

Detector == [cur : Nat, win : Nat, blocked : BOOLEAN]

\* ConnectionFloodDetector::new
NewDetector == [cur |-> 0, win |-> 0, blocked |-> FALSE]

DdosInit ==
    /\ detectors = [ip \in {} |-> NewDetector]
    /\ ddosGlobal = 0

DdosTypeOK ==
    /\ DOMAIN detectors \subseteq Ips
    /\ \A ip \in DOMAIN detectors : detectors[ip] \in Detector
    /\ ddosGlobal \in Nat

\* The entry of ip, as entry(ip).or_insert_with(new) would see it.
EntryOf(ip) == IF ip \in DOMAIN detectors THEN detectors[ip] ELSE NewDetector

\* detectors with the entry of ip set to d (inserting it if absent).
Put(ip, d) == [i \in DOMAIN detectors \cup {ip} |-> IF i = ip THEN d ELSE detectors[i]]

\* exceeds_global_limit
ExceedsGlobalLimit == ddosGlobal >= GlobalThreshold

\* ConnectionFloodDetector::exceeds_concurrent_limit
ExceedsConcurrentLimit(d) == d.cur >= MaxPerIp

\* ConnectionFloodDetector::record_connection on the entry d of ip, which
\* is not blocked: push the timestamp, prune those older than the window
\* (w of them stay), and block when more than FloodThreshold remain.
RecordConnection(ip, d, decision) ==
    \E w \in 1..(d.win + 1) :
        /\ detectors' = Put(ip, [d EXCEPT !.win = w, !.blocked = (w > FloodThreshold)])
        /\ decision = IF w > FloodThreshold THEN "Block" ELSE "Allow"

(***************************************************************************)
(* check_connection: the global limit is tested before the map is touched; *)
(* then the entry is inserted, and an active block, the concurrent limit   *)
(* and finally record_connection decide.  decision is the returned         *)
(* DdosDecision.                                                           *)
(***************************************************************************)
CheckConnection(ip, decision) ==
    LET d == EntryOf(ip) IN
    \/ /\ ExceedsGlobalLimit
       /\ decision = "Block"
       /\ UNCHANGED ddosVars
    \/ /\ ~ExceedsGlobalLimit
       /\ d.blocked \/ ExceedsConcurrentLimit(d)
       /\ decision = "Block"
       /\ detectors' = Put(ip, d)
       /\ UNCHANGED ddosGlobal
    \/ /\ ~ExceedsGlobalLimit
       /\ ~d.blocked /\ ~ExceedsConcurrentLimit(d)
       /\ RecordConnection(ip, d, decision)
       /\ UNCHANGED ddosGlobal

\* connection_started: the per-IP count only moves if the entry exists.
ConnectionStarted(ip) ==
    /\ detectors' = IF ip \in DOMAIN detectors
                      THEN [detectors EXCEPT ![ip].cur = @ + 1]
                      ELSE detectors
    /\ ddosGlobal' = ddosGlobal + 1

\* connection_ended: both counts saturate at zero.
ConnectionEnded(ip) ==
    /\ detectors' = IF ip \in DOMAIN detectors /\ detectors[ip].cur > 0
                      THEN [detectors EXCEPT ![ip].cur = @ - 1]
                      ELSE detectors
    /\ ddosGlobal' = IF ddosGlobal > 0 THEN ddosGlobal - 1 ELSE 0

\* blocked_until passes.
BlockExpires(ip) ==
    /\ ip \in DOMAIN detectors
    /\ detectors[ip].blocked
    /\ detectors' = [detectors EXCEPT ![ip].blocked = FALSE]
    /\ UNCHANGED ddosGlobal

\* Fault variant of CleanupOldEntries: entries with connections in
\* progress are not protected.
CleanupEvictingBusy(stale) ==
    /\ detectors' = [ip \in {i \in DOMAIN detectors :
                               i \notin stale \/ detectors[i].blocked} |-> detectors[ip]]
    /\ UNCHANGED ddosGlobal

\* cleanup_old_entries: an entry is kept if it was active recently (its IP
\* is not in stale), is blocked, or has connections in progress.
CleanupOldEntries(stale) ==
    /\ detectors' = [ip \in {i \in DOMAIN detectors :
                               i \notin stale \/ detectors[i].blocked
                                 \/ detectors[i].cur > 0} |-> detectors[ip]]
    /\ UNCHANGED ddosGlobal
=============================================================================
