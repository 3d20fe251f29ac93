-------------------------- MODULE ResourceManager --------------------------
(***************************************************************************)
(* The memory budget and the upstream connection pool of ResourceManager  *)
(* (src/src/resource.rs).  The connection semaphore is SlotLifecycle.      *)
(*                                                                         *)
(* Memory: allocate_memory and deallocate_memory work on two AtomicU64s    *)
(* with Relaxed operations and no lock, so every atomic operation is a     *)
(* step of its own: fetch_add, then fetch_sub (roll back) or the load of   *)
(* the peak, then one compare_exchange_weak per turn of the peak loop.     *)
(* Each task of Tasks allocates some bytes, holds them, and gives back     *)
(* the same amount; nothing in the server calls these functions, so the   *)
(* tasks are the callers the API is written for.  Values are u64s, kept  *)
(* modulo MemModulus.                                                      *)
(*                                                                         *)
(* Pool: every pool operation holds the pool's RwLock write guard for its  *)
(* whole body, so it is one step.  A pooled entry is its stream and        *)
(* whether it has outlived the 300 s age or the idle timeout (time only   *)
(* makes an entry stale, so the flag is what the two elapsed() tests       *)
(* tell apart).  A task holds at most one stream, which it took from the   *)
(* pool or dialled itself.                                                 *)
(***************************************************************************)
EXTENDS Naturals, Sequences, FiniteSets, FiniteSetsExt

CONSTANTS Tasks,        \* concurrent callers
          Sizes,        \* byte counts a task may allocate
          MaxMemory,    \* max_memory_mb * 1024 * 1024
          MemModulus,   \* 2^64
          Keys,         \* upstream ids
          Streams,      \* TCP streams to upstreams
          MaxPoolSize,  \* connection_pool_size
          MaxPoolGets,  \* bound on get_pooled_connection calls explored
          NoStream

VARIABLES mem,      \* memory_usage
          peakMem,  \* stats.peak_memory_usage
          task,     \* per task: allocate_memory's progress and locals
          pools,    \* ConnectionPool.pools: key -> Vec of entries
          held,     \* the stream each task holds
          dialled,  \* streams ever opened (a stream is opened once)
          hits,     \* stats.pool_hits
          misses    \* stats.pool_misses

resVars == <<mem, peakMem, task, pools, held, dialled, hits, misses>>

Entry == [s : Streams, stale : BOOLEAN]

ResInit ==
    /\ mem = 0 /\ peakMem = 0
    /\ task = [t \in Tasks |-> [pc |-> "idle", bytes |-> 0, cur |-> 0, seen |-> 0]]
    /\ pools = [k \in {} |-> <<>>]
    /\ held = [t \in Tasks |-> NoStream]
    /\ dialled = {}
    /\ hits = 0 /\ misses = 0

ResTypeOK ==
    /\ mem \in 0..(MemModulus - 1) /\ peakMem \in 0..(MemModulus - 1)
    /\ task \in [Tasks -> [pc : {"idle", "added", "cas", "holding"},
                           bytes : Sizes \cup {0}, cur : 0..(MemModulus - 1),
                           seen : 0..(MemModulus - 1)]]
    /\ DOMAIN pools \subseteq Keys
    /\ \A k \in DOMAIN pools : pools[k] \in Seq(Entry) /\ Len(pools[k]) <= MaxPoolSize
    /\ held \in [Tasks -> Streams \cup {NoStream}]
    /\ dialled \subseteq Streams
    /\ hits + misses <= MaxPoolGets

Plus(a, b) == (a + b) % MemModulus
Minus(a, b) == (a + MemModulus - b) % MemModulus

UnchangedPool == UNCHANGED <<pools, held, dialled, hits, misses>>
UnchangedMem == UNCHANGED <<mem, peakMem, task>>

-----------------------------------------------------------------------------
(* allocate_memory and deallocate_memory *)

\* Fault variant of AllocateAdd: current is fetch_add's return value, the
\* usage before this allocation.
AllocateAddForgettingBytes(t, b) ==
    /\ task[t].pc = "idle"
    /\ mem' = Plus(mem, b)
    /\ task' = [task EXCEPT ![t] = [pc |-> "added", bytes |-> b, cur |-> mem, seen |-> 0]]
    /\ UNCHANGED peakMem /\ UnchangedPool

\* current = memory_usage.fetch_add(bytes) + bytes
AllocateAdd(t, b) ==
    /\ task[t].pc = "idle"
    /\ mem' = Plus(mem, b)
    /\ task' = [task EXCEPT ![t] = [pc |-> "added", bytes |-> b,
                                    cur |-> Plus(mem, b), seen |-> 0]]
    /\ UNCHANGED peakMem /\ UnchangedPool

\* Over the limit: fetch_sub(bytes) and Err.  Otherwise the first load of
\* peak_memory_usage before the loop.
AllocateCheck(t) ==
    /\ task[t].pc = "added"
    /\ IF task[t].cur > MaxMemory
         THEN /\ mem' = Minus(mem, task[t].bytes)
              /\ task' = [task EXCEPT ![t] = [pc |-> "idle", bytes |-> 0, cur |-> 0, seen |-> 0]]
         ELSE /\ task' = [task EXCEPT ![t].pc = "cas", ![t].seen = peakMem]
              /\ UNCHANGED mem
    /\ UNCHANGED peakMem /\ UnchangedPool

\* Fault variant of PeakCas: a plain store of current once it beats the
\* value loaded earlier.
PeakCasStoring(t) ==
    /\ task[t].pc = "cas"
    /\ IF task[t].cur > task[t].seen THEN peakMem' = task[t].cur ELSE UNCHANGED peakMem
    /\ task' = [task EXCEPT ![t].pc = "holding"]
    /\ UNCHANGED mem /\ UnchangedPool

(***************************************************************************)
(* One turn of `while current > peak`: the loop ends when current is no   *)
(* longer above the value seen; compare_exchange_weak installs current if *)
(* the peak still holds that value, and otherwise (or spuriously) fails   *)
(* returning the peak, which becomes the value seen.                      *)
(***************************************************************************)
PeakCas(t) ==
    /\ task[t].pc = "cas"
    /\ \/ /\ task[t].cur <= task[t].seen
          /\ task' = [task EXCEPT ![t].pc = "holding"]
          /\ UNCHANGED peakMem
       \/ /\ task[t].cur > task[t].seen
          /\ peakMem = task[t].seen
          /\ peakMem' = task[t].cur
          /\ task' = [task EXCEPT ![t].pc = "holding"]
       \/ /\ task[t].cur > task[t].seen
          /\ task' = [task EXCEPT ![t].seen = peakMem]
          /\ UNCHANGED peakMem
    /\ UNCHANGED mem /\ UnchangedPool

\* deallocate_memory(bytes) by the task that allocated them.
DeallocateMemory(t) ==
    /\ task[t].pc = "holding"
    /\ mem' = Minus(mem, task[t].bytes)
    /\ task' = [task EXCEPT ![t] = [pc |-> "idle", bytes |-> 0, cur |-> 0, seen |-> 0]]
    /\ UNCHANGED peakMem /\ UnchangedPool
-----------------------------------------------------------------------------
(* The connection pool *)

VecOf(k) == IF k \in DOMAIN pools THEN pools[k] ELSE <<>>
SetVec(k, v) == [x \in DOMAIN pools \cup {k} |-> IF x = k THEN v ELSE pools[x]]
(***************************************************************************)
(* get_pooled_connection(k): entries are popped from the back of k's Vec; *)
(* a stale one is dropped and the next tried, the first usable one is     *)
(* handed out (a hit).  A Vec emptied this way stays in the map; without  *)
(* a usable entry the call is a miss.                                      *)
(***************************************************************************)
GetPooledConnection(t, k) ==
    LET v == VecOf(k)
        Usable == {i \in DOMAIN v : ~v[i].stale}
    IN /\ held[t] = NoStream /\ hits + misses < MaxPoolGets
       /\ IF Usable # {}
            THEN /\ pools' = SetVec(k, SubSeq(v, 1, Max(Usable) - 1))
                 /\ held' = [held EXCEPT ![t] = v[Max(Usable)].s]
                 /\ hits' = hits + 1 /\ UNCHANGED misses
            ELSE /\ pools' = IF k \in DOMAIN pools THEN SetVec(k, <<>>) ELSE pools
                 /\ misses' = misses + 1 /\ UNCHANGED <<held, hits>>
       /\ UNCHANGED dialled /\ UnchangedMem

\* Fault variant of ReturnConnectionToPool: the size test is off by one.
ReturnConnectionToPoolOffByOne(t, k, s) ==
    LET v == VecOf(k) IN
    /\ \/ held[t] = s
       \/ held[t] = NoStream /\ s \notin dialled
    /\ pools' = SetVec(k, IF Len(v) > MaxPoolSize THEN v
                          ELSE Append(v, [s |-> s, stale |-> FALSE]))
    /\ held' = [held EXCEPT ![t] = NoStream]
    /\ dialled' = dialled \cup {s}
    /\ UNCHANGED <<hits, misses>> /\ UnchangedMem

(***************************************************************************)
(* return_connection_to_pool(k, stream): the task gives back the stream   *)
(* it holds, or one it has just dialled.  The key's Vec is created if     *)
(* missing; a full Vec drops the stream, otherwise a fresh entry is       *)
(* pushed.                                                                 *)
(***************************************************************************)
ReturnConnectionToPool(t, k, s) ==
    LET v == VecOf(k) IN
    /\ \/ held[t] = s
       \/ held[t] = NoStream /\ s \notin dialled
    /\ pools' = SetVec(k, IF Len(v) >= MaxPoolSize THEN v
                          ELSE Append(v, [s |-> s, stale |-> FALSE]))
    /\ held' = [held EXCEPT ![t] = NoStream]
    /\ dialled' = dialled \cup {s}
    /\ UNCHANGED <<hits, misses>> /\ UnchangedMem

\* The task closes the stream it holds instead of returning it.
CloseStream(t) ==
    /\ held[t] # NoStream
    /\ held' = [held EXCEPT ![t] = NoStream]
    /\ UNCHANGED <<pools, dialled, hits, misses>> /\ UnchangedMem

\* A pooled entry reaches 300 s of age or the idle timeout.
EntryExpires(k, i) ==
    /\ k \in DOMAIN pools /\ i \in DOMAIN pools[k] /\ ~pools[k][i].stale
    /\ pools' = [pools EXCEPT ![k][i].stale = TRUE]
    /\ UNCHANGED <<held, dialled, hits, misses>> /\ UnchangedMem

(***************************************************************************)
(* cleanup_connection_pool, run by the manager's janitor and by the       *)
(* resource manager's own 60 s cleanup task: every Vec keeps its usable   *)
(* entries, then the keys left with an empty Vec are removed.             *)
(***************************************************************************)
CleanupConnectionPool ==
    LET Kept(k) == SelectSeq(pools[k], LAMBDA e : ~e.stale)
    IN /\ pools' = [k \in {x \in DOMAIN pools : Kept(x) # <<>>} |-> Kept(k)]
       /\ UNCHANGED <<held, dialled, hits, misses>> /\ UnchangedMem

\* One tick of start_cleanup_task's 60 s loop: cleanup_connection_pool,
\* then get_stats, which only reads and is logged.
CleanupTaskTick == CleanupConnectionPool

ResNext ==
    \/ \E t \in Tasks :
         \/ \E b \in Sizes : AllocateAdd(t, b)
         \/ AllocateCheck(t) \/ PeakCas(t) \/ DeallocateMemory(t)
         \/ \E k \in Keys : GetPooledConnection(t, k)
         \/ \E k \in Keys, s \in Streams : ReturnConnectionToPool(t, k, s)
         \/ CloseStream(t)
    \/ \E k \in Keys, i \in 1..MaxPoolSize : EntryExpires(k, i)
    \/ CleanupTaskTick

ResSpec == ResInit /\ [][ResNext]_resVars
-----------------------------------------------------------------------------
(* Properties *)

(***************************************************************************)
(* The budget: the allocations that allocate_memory accepted and that are *)
(* not yet given back never add up to more than max_memory, however the   *)
(* fetch_add, the check and the roll-back of concurrent callers           *)
(* interleave.                                                             *)
(***************************************************************************)
AcceptedWithinBudget ==
    MapThenSumSet(LAMBDA t : task[t].bytes,
                  {t \in Tasks : task[t].pc \in {"cas", "holding"}}) <= MaxMemory

(***************************************************************************)
(* peak_memory_usage is a high-water mark: once a caller's peak loop has  *)
(* ended, the peak is at least the usage that caller saw, although        *)
(* another caller may have loaded an older peak and be about to write.    *)
(***************************************************************************)
PeakIsHighWater ==
    \A t \in Tasks : task[t].pc = "holding" => peakMem >= task[t].cur
=============================================================================
