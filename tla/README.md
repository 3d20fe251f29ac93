# TLA+ models of RustProxy-socks5

These modules model the concurrent core of the SOCKS5 proxy under `src/src/`. The core covers:
- the accept loop;
- the per-connection tasks it spawns;
- the shared security state those tasks update;
- the connection semaphore;
- the graceful shutdown path taken by `main.rs`.

They are checked with TLC. `PROJECT.json` lists:
- every component of the program, modelled or not;
- the runs, and the mutants that show each checked property can fail;
- the source lines behind every definition;
- the findings and the hazards.

## The system and how its parts interact

`main.rs` builds a `ConnectionManager` (`connection/manager.rs`). It then races `manager.start()` against a shutdown signal.

`start()` spawns the **janitor** (`start_cleanup_task`, every 60 s) and runs the **accept loop**. For each accepted socket the loop does the following, in order:
1. asks the **rate limiter** (`security/rate_limiter.rs`);
2. asks the **DDoS protector** (`security/ddos_protection.rs`, per-IP flood detectors plus a global counter);
3. asks **fail2ban** (`security/fail2ban.rs`).

A Delay or Block verdict makes the loop *itself* sleep. After a Delay it may still admit the socket; after a Block it drops it.

Admission takes a permit from the **resource manager's** semaphore (`resource.rs`, `try_acquire_owned`) and spawns a task. That task:
- increments the DDoS counters and `active_connections`;
- runs the SOCKS5 handshake and authentication under `handshake_timeout`:
  - method selection in `protocol/handler.rs`;
  - `AuthManager::authenticate` in `auth/manager.rs`, with its own per-IP and per-user back-off;
  - reporting failures and successes to fail2ban;
- runs the request and relay under the same timeout;
- finally decrements the counters and drops the permit.

On a signal, the server task drops `start()`, which ends the accept loop. The janitor is detached with `tokio::spawn` (`manager.rs:89`) and keeps running until the process exits. It then calls `initiate_shutdown`, which sets the flag and broadcasts to the tasks, and `wait_for_connections_to_close`, which polls `active_connections` until it is 0 or `shutdown_timeout` passes. After that the process exits.

## Modules

| Module | Models | State |
|---|---|---|
| `SlotLifecycle` | The promise of the connection semaphore: each admitted connection holds exactly one permit from acquisition until its handle is dropped, and the runtime may halt. It is the abstract specification. | `holders`, `released`, `free`, `halted` |
| `DdosProtection` | `DdosProtection` and `ConnectionFloodDetector`. Each public call is one atomic operator, because the code holds the map's mutex for its whole body. | `detectors` (partial map IP → `[cur, win, blocked]`), `ddosGlobal` |
| `DdosTimed` | The same DDoS code over an explicit clock: each detector's `connection_times` deque (pruned by `record_connection`'s while loop, a RECURSIVE `PruneWindow`), `blocked_until`, `violation_count`, `last_activity` and `current_connections`, and the global count. `check_connection` is two steps, its `global_stats` section and then its `ip_detectors` section (`CheckGlobal`, `CheckDetector`); `connection_started`/`connection_ended` are one step each, because they take `global_stats` while still holding `ip_detectors`. Also `block_ip`, `unblock_ip`, `cleanup_old_entries` and a clock tick. An Allow spawns the connection's task, or a later gate drops the connection. | `dd` (partial map IP → `[times, until, viol, last, cur]`), `ddGlobal`, `ddNow`, `chk`, `task`, `manual`, histories `admitted` (the Allow instants of the last window), `blocks` (the flood-block lengths of each entry) |
| `Fail2Ban` | `Fail2BanManager` and `BruteForceDetector`, with time abstracted: a ban running out is a step (`BansExpire`), and the window's pruning is a choice of how many failures stay. It is the abstract specification that `ConnectionManager` uses and that `Fail2BanTimed` refines. | `failures` (window length per IP), `banned` |
| `Fail2BanTimed` | The same code over an explicit clock: the detector map behind its mutex, each detector's `failure_times` deque (pruned by `record_failure`'s while loop, a RECURSIVE `PopOld`), `ban_count`, `banned_until` and `last_activity`; `check_auth_attempt`, `record_auth_failure`, `record_auth_success`, `ban_ip`, `unban_ip`, `cleanup_old_entries` and a clock tick. Each public method holds the mutex for its whole body, so it is one step. | `det` (partial map IP → `[times, banCount, until, last]`), `now` |
| `AuthManager` | `authenticate` with the `RateLimitInfo` tables. | `locked` (IPs and users whose `blocked_until` is in the future) |
| `ConnectionManager` | The composition: the accept loop, one task per connection, the janitor, signal, shutdown wait and exit. It instantiates the three security modules (`D`, `F`, `A`) over shared variables, and `SlotLifecycle` as a refinement. | `conn[c]` (`ph`, `ip`, `auth`), `loop`, `permits`, `active`, `srv`, `notified`, `graceful`, plus the security state |
| `RateLimiter` | `RateLimiter` of `security/rate_limiter.rs`: the global bucket, the per-IP connection and auth buckets, blocks, and `cleanup_old_entries`, with explicit time. | `now`, `global`, `limits` (partial map IP → `[conn, auth, act, until]`), histories `ideal`, `bans` |
| `RoutingRules` | `RoutingRulesEngine` of `routing/rules.rs`: the sorted rule list, the compiled patterns, the upstreams, every matcher, and `evaluate_rules`. | `rules`, `compiled`, `upstreams`, histories `undo`, `added` |
| `Router` | `Router::new` and `route_request` of `routing/router.rs`, with the ACL of `routing/acl.rs` and `routing/types.rs`. It extends `RoutingRules`, and `Router::new`'s loops call its `AddRule` and `AddUpstreamProxy`. | `cfg`, `build`, `pos`, `routed`, plus the engine |
| `Socks5Wire` | One connection byte by byte: the server half of `protocol/handler.rs` as `handle_connection_static` drives it, and as the peer either the proxy chain connector of `routing/chain.rs` with this server as its first proxy, or a raw byte script. | pipes `c2s`, `s2c`, `cOpen`, `sOpen`, `cli`, `cpc`, `rawAt`, `spc`, `srvCmd`, history `replies` |
| `SmartRouting` | `SmartRoutingManager` and `ProxyMetrics` of `routing/smart.rs`, with the router's smart routing calls of `routing/router.rs`: `enable_smart_routing` (a new manager from the configured upstreams), `add_upstream_proxy`'s smart part, `remove_upstream_proxy`, `record_connection_result`, `start_health_checking` (a task that keeps the map it copied), one interval tick of a task, `force_health_check`, and the end of one probe task. `select_best_proxy` is a RECURSIVE operator over one HashMap order. | `gen` (managers built, 0 = `None`), `smUps`, `metrics` (id → latency and result windows), `loops` (tasks: manager and copied map), `probes` (set of `[src, gen, id, addr]`) |
| `ResourceManager` | The memory budget and the upstream connection pool of `resource.rs`. `allocate_memory` is split at its atomic operations (`fetch_add`; the check with its `fetch_sub` roll-back or the first load of the peak; one `compare_exchange_weak` per loop turn), because they are Relaxed atomics with no lock. `deallocate_memory`, `get_pooled_connection`, `return_connection_to_pool`, `cleanup_connection_pool` and the cleanup task's tick are one step each, because each holds the pool's write guard for its whole body. Values are u64s modulo `MemModulus`. | `mem`, `peakMem`, `task` (per caller: `pc`, `bytes`, `cur`, `seen`), `pools` (partial map key → Vec of `[s, stale]`), `held`, `dialled`, `hits`, `misses` |
| `Metrics` | The registry of `metrics/collector.rs` and `metrics/types.rs`: `start_connection`, `end_connection`, `update_connection_bytes`, `record_connection`, `increment_auth_attempts`, `record_blocked_request` and `get_auth_failures`. Each method is split where it releases a lock or moves to another atomic, because the counters are Relaxed atomics updated outside both RwLocks. The Prometheus counter and the AtomicU64 counting the same thing move in one step. Counters are u64s modulo `CounterModulus`. | `active` (session id → bytes up and down), `hist` (the stored `ConnectionStats`, numbered in push order), `pushes`, `gauge`, `connTotal`, `totalBytes`, `attempts`, `successes`, `blocked`, `caller` (per API caller: `pc`, the bytes it carries, calls made), `reader` |
| `Secrets` | `SecretsManager` of `security/secrets.rs`: `new` (Init), `load_secure_config` with `load_from_file` (plain, or base64-decoded and XOR-decrypted), `load_from_environment` (the `USER_<i>_*` and `PROXY_<i>_*` loops as RECURSIVE operators up to the first unset name, `ENABLED` parsed as a bool defaulting to true, API keys under their lower-cased name with the `env::vars` order a choice) and `resolve_secrets` (the `*_env` passwords, and the TLS loop writing the cache); `save_secure_config` with `encrypt_content`; `store_secret`; `clear_secrets_cache`. `simple_encrypt`, `simple_decrypt` (Bitwise XOR, key cycled with `%`), the STANDARD base64 `encode` and `decode` (RECURSIVE, over character codes, with canonical padding and zero trailing bits), `secure_compare` and `validate_user_credentials` are operators. Bytes are small numbers; toml serialization is an injective `TomlOf`, and `toml::from_str` accepts exactly its images. A panic (an empty key) or an error is an outcome of the step. | `env` (fixed per behaviour), `settings`, `cache`, `file`, `saved`, `loaded`, `lastSave` |
| `ConfigWatcher` | `ConfigWatcher` and `ConfigReloadService` of `config/watcher.rs`, over a file the world writes (truncate, then fill), and removes, each change queueing one notify event. The notify callback (`handle_file_event`) and `reload()` each load, write the RwLock'd cell and broadcast as three steps; `start` copies the cell, subscribes, and returns, dropping the watcher; its task applies events. Nothing in the server constructs either. | `file`, `events`, `writing`, `fileOps`, `cur`, `cb`, `rl` (per caller), `svc`, `dropped`, `sent` |
| `ManagementApi` | The handlers of `management/handlers.rs` that write the configuration cell `main.rs` hands the management server: `update_config` (validate, then replace unless `validate_only`), `create_user` (length checks on the request, then the duplicate check and the push under the write lock) and `delete_user` (`retain` by name). Each holds the write lock for all of its reading and writing of the cell, so each is one step; an error answer is a stutter. A `Config` is its auth section plus whether its other sections validate; `Validate` is `Config::validate` with `validate_auth_config` in full. Strings are names or passwords, or `EmptyStr` / `LongStr` for the lengths the checks reject. | `cell`, history `installed` (the users of the last configuration installed whole) |
| `MC_WireMetricsRouter`, `MC_ResourcesSecurity`, `MC_ServerSmartRouting`, `MC_GatesApi` | Composed models of components that share no variable and no lock (see *Composed models* below). | `part` |
| `OptionNone`, `MC_OptionNone` | `Option::None` and the model value for it, shared so that a model composing `Socks5Wire` and `RoutingRules` has a single `None`. | — |
| `MC_ConnectionManager`, `MC_RateLimiter`, `MC_RoutingRules`, `MC_Router`, `MC_Socks5Wire`, `MC_SmartRouting`, `MC_ResourceManager`, `MC_Fail2BanTimed`, `MC_Secrets`, `MC_ConfigWatcher`, `MC_ManagementApi`, `MC_DdosTimed` | Model values and candidate rules, requests, ACL entries and peers. | — |

### How the ConnectionManager actions map to the code

- **`Accept(c, ip)`** is one iteration of the accept loop, up to the decision. It chooses the rate limiter's verdict, runs `D!CheckConnection`, and consults `F!AuthDecision`. The result is one of:
  - a refusal;
  - the loop going to sleep (`loop.st = "sleep"`, remembering whether the socket is still admitted afterwards);
  - `Spawn`, which is admission: a permit is taken, the phase becomes `spawned`, and an exhausted semaphore refuses the socket.
- **`SleepEnds`** is the end of that sleep. It spawns or refuses the socket.
- **Spawned-task actions:**
  - **`TaskStart`** is `connection_started` plus the `active_connections` increment.
  - **`Greeting`**, **`UserPassAuth`**, **`AuthReply`** and **`Request`** are the steps of `handle_connection_static`.
  - **`RelayEnds`** is the end of the relay. A clean end calls `update_session_activity` for a connection that was given a session.
  - **`HandshakeTimeout`** is the `timeout` future firing in any handling phase.
  - **`ShutdownNotice`** is the broadcast branch of `handle_connection_with_shutdown`.
  - **`Finish`** is the common tail: `connection_ended`, the decrement, and dropping the permit.
- **Every error path** (`?` on a read or a write) is a disjunct going to `closing`.
- **`Janitor`** is `AuthManager::cleanup_expired`, which removes every idle session, then the DDoS `cleanup_old_entries` with a nondeterministic set of stale IPs. Fail2ban's `cleanup_old_entries` (`F2bCleanupOldEntries`) leaves the model's state unchanged: it drops only detectors that are unbanned and have an empty window, which behave like fresh ones. The `ban_count` it forgets only lengthens later bans, and ban lengths are not modelled.
- **`SessionTimesOut`** is an hour passing since a session's last activity.
- **Sessions.** `AuthManager` holds the `SessionTracker`'s two maps: `sessions` (id to principal and an idle flag) and `userSessions` (principal to the `Vec` of its ids). A successful `authenticate` mints a session whose id is the connection's.
- **`TimePasses`** is a ban, block or lock running out.
- **Shutdown:**
  - **`Signal`** is the server task's select arm plus `initiate_shutdown` (`InitiateShutdown`: the flag and the broadcast). A socket sleeping in the loop is dropped with it.
  - **`WaitDone`** and **`WaitTimeout`** are the two exits of `wait_for_connections_to_close`.

### Abstractions

- **Rate limiter.** Its verdict is a free boolean input. Its buckets are touched by nothing else on the modelled paths.
- **Time.** Time is not a variable. A block, ban or lock that has run out is its expiry step. Pruning a sliding window is a choice of how many entries stay (`1..len+1` after the push).
- **Janitor staleness.** The janitor may treat as stale any IP with no connection between check and start: `last_activity` is refreshed on every check, and the cutoff is 10 minutes.
- **Request phase.** The request phase abstracts routing, dialing, Bind and UdpAssociate into one step with two outcomes (relay or close). The connection tracker is not part of this state.
- **The accept loop's own `shutdown_rx` arm.** It is unreachable on the `main.rs` path, because the broadcast is sent only after the loop future has been dropped.

### The rate limiter

- **Shape.** `CheckConnectionRate(ip, ok)` and `CheckAuthRate(ip, ok)` are the two public checks. Each is one atomic step, because the code holds the mutexes for the whole call.
- **Order.** The global bucket is drained first, even for an IP that is then refused as blocked. After that come the block test, the token, and the block installed on an empty bucket.
- **Blocks.** Depleting either bucket sets the entry's `blocked_until`, so the auth bucket blocks connections too. The history `bans` records the end of the latest block for each IP.
- **Cleanup and time.** `CleanupOldEntries` is the janitor's eviction. `Tick` is one second passing.
- **Token arithmetic.** Tokens are counted exactly, in sixtieths. A bucket with a rate of *r* per minute gains *r* sixtieths per second, which is the code's `elapsed * r / 60`.
- **History variable `ideal`.** It is a bucket per IP that is refilled every second and never evicted. It never going negative is the same as the windowed rate bound over every interval.
- **History variable `bans`.** It remembers the end of the last block installed on each IP.

### The routing engine and the router

- **Data.**
  - Domains are sequences over `{"a", "b", ".", "é"}`. `"é"` is two bytes wide, so `str::len()` (bytes) and `chars().nth()` (characters) differ as they do in Rust.
  - Addresses are `W`-bit numbers. Their text keeps the dotted-quad shape.
  - A rule pattern is an address, an address with a prefix length, or text over the alphabet plus `*` and `?`.
  - Regex patterns are left out.
- **Engine operations.**
  - `AddRule` is validation, compilation, the push and the stable sort, as one step.
  - The other operations are `RemoveRule`, `UpdateRule` (remove, then add), `ClearRules` and `AddUpstreamProxy`.
  - `EvaluateRules` and `MatchesWildcard` are RECURSIVE operators.
- **Router.**
  - A configuration and a build (`debug` or `release`) are chosen in the initial state.
  - `LoadRule` and `LoadUpstream` are the two loops of `Router::new`.
  - `Route(q)` is one `route_request` call on the finished router: the ACL, then the engine, then the fallback to the first configured upstream.
  - The ACL's `ip_in_network` uses the W-bit mask arithmetic of the code. In a debug build an overflow is a `"panic"` outcome; in a release build the u8 wraps and the shift amount is masked.

### The SOCKS5 wire

- **Pipes.** `c2s` and `s2c` hold the bytes written and not yet read. Each end may close.
  - A read (`read_exact`) waits for its bytes, and fails at end of stream.
  - A write to a closed peer may report success (the bytes are lost) or fail.
- **Decoders and encoders.** They are operators over byte sequences that follow the code's order of reads and checks.
  - `read_greeting` rejects NMETHODS 0 before it reads the methods, and checks VER only after.
  - `read_request` reads the whole frame before VER, RSV and CMD are checked.
  - `receive_connect_response` checks VER first and ignores RSV.
  - The encoders cast lengths to u8.
- **Server steps.** Each runs from one blocking read to the next:
  - `Handshake`: `handle_handshake`, then the manager's match on the method;
  - `UserPassAuth`: the RFC 1929 frame, `authenticate` and the status reply;
  - `Request`: `handle_request`, the router's decision (chosen freely; `Router` models it) and the whole command handling up to the relay, the BIND accept or the UDP sleep. `Dispatch` picks the decision; `Refused` is the Block and Redirect arms, alike for the three commands, and `ConnectAllowed`, `BindAllowed` and `UdpAllowed` are the Allow arms;
  - `BindAccept`, `ServerDone` and `HandshakeTimeout`.
- **Client steps.** They follow `connect_through_chain` on the stream it opens to its first proxy, this server. A raw peer writes its script in chunks and may close.
  - `Speaking` is the proxy whose settings the code uses on that stream. For a chain of one it is that proxy. For a longer chain it is the second proxy, because the loop starts at index 1.
  - `CliGreet` writes the SOCKS5 greeting, or the HTTP CONNECT request. `CliMethod`, `CliAuth` and `SendRequest` do the method check, RFC 1929 and the next-proxy lookup (`get_next_proxy_after`), then send CONNECT. `CliReply` reads the reply; `CliHttpRead` reads the HTTP status line.
  - The HTTP request is kept as its first two bytes (`C`, `O`) and its length. This server reads those as VER and NMETHODS.
  - A tunnel through this server ends in `ok` (to the target) or `beyond` (to further proxies, which are not modelled).
- **Data.**
  - Names and credentials are one or two ASCII bytes, or the byte 255, which no UTF-8 text contains.
  - A dial error is the set of substrings `connection_error_to_socks5_code` scans for.
  - `authenticate`'s IP and user lockouts are left to `AuthManager`, because they depend on other connections.

### The smart upstream selector

- **Metrics.** A `ProxyMetrics` is its two windows; the status and the score are derived from them, as `record_latency` keeps `health_status` equal to `update_health_status` of the windows. The score is an exact fraction: the rates compared in `f64` have denominators of at most 10, and `avg_latency.as_millis()` is the truncated mean in milliseconds, so the comparisons agree with the code's.
- **Probes.** A tick of task `i` adds one probe per upstream of the task's copy, stamped with the manager that built it; `ProbeCompletes` ends one, in success only within the timeout, and records into the entry of its id if the current manager still has it. What a replaced manager's tasks write goes to a map nothing reads again, so it is dropped.
- **Rounds.** A task ticks again only when the probes of its previous tick have ended, because a dial is bounded by `health_check_timeout` (5 s by default) and the interval is 30 s. The same one-round rule keeps `force_health_check` finite. Probes of different sources overlap freely.

## Composed models

TLC's runs are grouped so that components which share no variable and no lock are checked in one model. `MC_WireMetricsRouter` holds the wire peers, the metrics registry and the router; `MC_ResourcesSecurity` holds the resource manager, the timed fail2ban detectors and the secrets manager; `MC_ServerSmartRouting` holds the connection manager and the smart routing manager; `MC_GatesApi` holds the rate limiter, the timed DDoS protector (instantiated with its bounds, because its constant names are the rate limiter's) and the management API's configuration handlers. In each one, `Init` picks the component that runs (`part`) and every other component stays at one initial state: the first peer for the wire, an empty configuration in a debug build for the router, a manager with no file, default-off settings and an environment without a key for the secrets, a configuration without authentication or users for the management API, an empty detector map at tick 0 for the DDoS protector, and the deterministic initial state of the others. The running component starts in every one of its initial states and takes all of its steps. Because no step of one component reads or writes another's state, a property of one holds in every interleaving with the others exactly when it holds of the component alone, so this sum explores the same behaviours per component as separate runs, without the product of their state spaces.

`MC_ServerSmartRouting` restates each component's fairness over its own steps in the composed model (`WF` of `part = "server" /\ A`, and likewise for `"smart"`), because a parked component takes no step and so is owed none. `MC_ResourcesSecurity` uses symmetry over the tasks, over the streams and over the two non-whitelisted addresses; it has no liveness property.

## Runs

The connection-manager run uses 2 connections from 2 IPs (one whitelisted) and one user; the violation runs use 3 connections with symmetry. The settings are:
- `MaxConnections = 1` (2 in the violation runs);
- `MaxPerIp = 1`;
- `GlobalThreshold = 2`;
- `FloodThreshold = 1`;
- `MaxFailures = 2`;
- authentication on.

These bounds let every limit be reached and exceeded: the semaphore, the per-IP limit, the global limit, the flood block and the ban. Two connections can share an IP, and one waits while the other holds the only permit. Each connection is used once, so the model is finite without extra counters. The safety and liveness properties share one run without symmetry, because symmetry is unsound for liveness; it is the server part of `server_smart_routing`. With one permit the semaphore blocks, so these bounds still reach every path the safety properties are about.

| Run | Expect | What it checks |
|---|---|---|
| `server_smart_routing` (server part) | pass | `TypeOK`; `SessionIndexConsistent` (a principal has a `user_sessions` entry exactly when it has sessions, listing each of them once, across concurrent authentications, refreshes and expiry); `PermitAccounting` (free permits + connections holding one = `max_connections` in every state, across errors, timeouts, shutdown notices and refusals after a sleep); `CountersTrackTasks` (`active_connections`, the global DDoS counter and every per-IP count equal the started-but-unfinished tasks, whatever the janitor evicts); `SlotDiscipline` (the manager implements `SlotLifecycle` under the refinement mapping `holders <- HoldingSlot`). |
| | | `AdmittedConnectionsEnd`: every spawned connection reaches `done` unless the process exits first. `SessionsExpire`: the session of an ended connection is eventually removed by the janitor. |
| `cm_noauth_bypass` | violation | `AuthRequiredForRequest`: a connection reaches the request phase only after successful authentication. |
| `cm_per_ip_race` | violation | `ConcurrentLimitPerIp`: no more than `MaxPerIp` connections from one non-whitelisted IP are admitted at once. |
| `cm_unrecorded_failure` | violation | `FailedAuthRecorded`: no connection ends with a wrong password that fail2ban never saw. |

The rate limiter runs use:
- 2 IPs;
- burst 2 at 30 per minute;
- auth burst 1 at 60 per minute;
- a global rate of 1 per second;
- a 4 s block;
- a 2 s cleanup interval;
- 4 s of time;
- symmetry over the two IPs, which nothing in the three parts tells apart.

Within these bounds, buckets empty and refill partly and fully. Blocks are installed by depleting either bucket. A block installed at second 0 expires within the horizon, while one installed at second 1 is still active when its entry is 4 s old and past the cleanup age. Entries are evicted and re-created.

The routing runs use:
- 2-bit addresses, one upstream `u1`, and six candidate rules:
  - two share the id `x`, and one of those is invalid (empty upstream id);
  - priorities tie at 1 and at 2;
  - one rule is disabled;
  - one chains the unknown upstream `u2`;
  - the patterns are `*.a`, `*`, `a`, `0/1`, the exact address `2` and `.a`;
  - the rules restrict ports, source CIDRs, sources and users.
- 40 requests. Among the targets are `a`, `b.a`, `é.a` and two addresses.
- For the router:
  - every configuration of at most 2 rules, at most 1 upstream and at most 1 ACL entry;
  - both `routing.enabled` values and both default policies;
  - both builds.
- The engine's own operation sequences (`remove_rule`, `update_rule`, `clear_rules` after any adds), which only the unused `Router` wrappers reach, are explored by the `rr_subdomain_bytes` run over `RrNext`. The engine properties are checked on the engines `Router::new` builds, which is how the server uses the engine: one router per request, built from the configuration.

| Run | Expect | What it checks |
|---|---|---|
| `gates_api` (rate part) | pass | `RlTypeOK` (including the bucket capacities); `RateBound` (no IP is admitted more than burst + elapsed × rate times in any interval); `BlockHonoured` (no admission before a block ends, whether the connection or the auth bucket was depleted, although cleanup runs). |
| `gates_api` (management part) | pass | `ApiTypeOK` (the cell's method is one `validate_auth_config` accepts); `UsersWellFormed` (every stored username and password has 1 to 255 characters, although `create_user` pushes without calling `validate()`); `NoDuplicateCreated` (a username occurs at most once, or at most as often as in the configuration last installed whole, over every interleaving of creates, deletes and updates). |
| `gates_api` (DDoS part) | pass | `DdtTypeOK`; `FloodBound` (within any `time_window`, both ends included, `check_connection` allows an IP at most `connection_threshold` connections, although the janitor may evict its entry between them). |
| `ddos_bans_reset` | violation | `ProgressiveBans`: each flood block of an entry after its first is longer than the one before, up to the 2^5 cap, unless `unblock_ip` cleared it (spec §4.5). |
| `rr_subdomain_bytes` | violation | `SubdomainWildcardMatchesSubdomains`: `*.a` matches `a` and exactly the domains ending in `.a`. |
| `wire_metrics_router` (router part) | pass | `RouterTypeOK` (every decision names a registered upstream or none); `ConfiguredRulesLoaded` (`Router::new` keeps exactly the first valid rule per id, in priority order); on the engine it builds, `RrTypeOK` (unique ids; a compiled pattern for exactly the present rules), `FirstMatch` (evaluation picks the highest-priority, earliest-added matching rule) and `AddThenRemoveRestores` (removing the rule just added restores the engine; spec §8). |
| `acl_cidr_prefix0` | violation | `AclCidrMembership`: an ACL entry `net/p` with `p ≤ 32` matches exactly its prefix, without panicking. |

The management part of `gates_api` has usernames `alice` and `bob`, one password, and the empty and over-long strings. The server starts with `userpass` and `alice`, or with no authentication and no users. A `PUT /config` may carry `alice` twice (which `validate()` accepts), an unknown method, a user with an empty password, or a configuration whose other sections fail. `create_user` may grow the list to three users (`MaxUsers`, a bound of the model: the code has none). That is enough for a create to meet an existing name, a delete to remove two copies, and a create after it. Two observations have no run: `update_config` stores repeated usernames, because `validate()` does not look for them, and `delete_user` can remove the last user of an enabled `userpass` configuration, leaving a cell that `validate()` rejects (both in the hazard at `handlers.rs:206`). Nothing reads this cell but the management API itself, so neither reaches the running server.

The DDoS part of `gates_api` and `ddos_bans_reset` use two IPs and one connection task. In ticks, the window is 2, the base block 1 (so a flood block lasts 2 ticks, `2^1` times the base), the eviction age (`cleanup_interval × 2`) 3, and the clock runs to 3. The threshold is one connection, the per-IP and global limits one concurrent connection, and `block_ip` and `unblock_ip` are called at most twice in all (`MaxManual`, a bound of the model), with a 2-tick duration. With these bounds an IP is allowed, floods, is blocked, sees its block expire and floods again; the concurrent and global limits refuse while the task runs; the janitor evicts an idle entry while an admitted connection's task has not started yet; and a manual block and unblock meet a flood block. About 430 000 states of the 3 million of `gates_api`. `FloodBound` depends on the configuration: it holds because the eviction age (3) exceeds the window (2), as with the defaults (600 s against 60 s).

The resource run uses three tasks, allocation sizes 1 and 2 against a budget of 2, one upstream key whose pool keeps two entries, three streams and three `get_pooled_connection` calls; about 435 000 states. Three tasks are the fewest for which one caller's add can overshoot while a second holds memory and a third rolls back, and three streams the fewest for which a return finds the pool full.

| Run | Expect | What it checks |
|---|---|---|
| `resources_security` (resource part) | pass | `ResTypeOK` (including every Vec at most `connection_pool_size` long); `AcceptedWithinBudget` (the allocations accepted and not yet released never add up to more than the budget, whatever the interleaving of adds, checks and roll-backs); `PeakIsHighWater` (once a caller's compare-exchange loop has ended, the peak is at least the usage it saw). |

The smart routing run uses upstreams `p1` (configured) and `p2` (added at runtime), one address, latencies 100 ms and 6000 ms (over the 5 s Degraded threshold), a 5 s probe timeout, windows of 2 samples with `min_measurements = 2` (the code's window is 10; 2 is the least that reaches every status and the neutral phase), both routing flags on, two `enable_smart_routing` calls and one health task. About 84 000 states.

| Run | Expect | What it checks |
|---|---|---|
| `server_smart_routing` (smart part) | pass | `SmTypeOK` (windows of equal length, at most `MAX_MEASUREMENTS`); `MetricsOnlyForRegistered` (metrics exist exactly for the registered upstreams, although probes end after the upstream was removed or reset); `SelectionIsBest` (in every HashMap order `select_best_proxy` returns an upstream it does not exclude with no higher-scoring one, and `None` only when every upstream is Unhealthy); `ProbedUpstreamsMeasured` (an upstream in a running task's copy eventually has a sample). |

The wire run uses 29 peers:
- The chain connector with this server as its only proxy, to an IPv4, an IPv6 or a domain target on port 258. Port 258 has two different bytes, so byte order shows.
- Its credentials are none, right, a wrong password, or an empty user name.
- Chains of two and three proxies, with SOCKS5 and HTTP second proxies, and one-proxy HTTP chains. One HTTP request (88 bytes) is long enough for this server to read a whole greeting from it, and one (39 bytes) is not.
- Twelve raw scripts. They reach every decoder error: NMETHODS 0, SOCKS4, no usable method, an empty or non-UTF-8 domain, an unknown ATYP, bad RSV and CMD, PLEN 0 and a truncated frame.
- The scripts also cover a BIND request split over three writes, a UDP ASSOCIATE, and a request that stalls with the socket held open.
- The router may answer Allow, Block or Redirect.
- A CONNECT dial follows `connect_to_target`: a domain may fail to resolve (an error, a timeout or no addresses) or resolve to one or two addresses; each attempt may succeed, be refused, time out, or find the network or host unreachable. The target `t` stands for a name containing "timeout", because the error text embeds the target's name.

The metrics part of the same run has two API callers, each its own session id, with byte counts 0 and 1 and two calls each. The history bound is 2 and a drain removes 2, standing for 10 000 and 1 000: the bound is reached after two pushes and the drain empties the Vec, so both the push below the bound and the drain occur. `CounterModulus` is 16 for 2^64, since no counter gets near it. Nothing in the server calls the registry; `main.rs` hands it only to the management API, so the callers stand for API callers. Nothing in the module tells the two callers apart.

| Run | Expect | What it checks |
|---|---|---|
| `wire_metrics_router` (wire and metrics parts) | pass | `WireTypeOK` (every pipe holds bytes); `ReplyDiscipline` (at most one SOCKS5 reply per request, two for BIND, none after a failure reply; spec §8); `ChainAgreement` (when the chain connector gets a tunnel through this server, the server decoded exactly the CONNECT it encoded, sent one success reply, had accepted its credentials, and no handshake byte is left in either pipe); `MetTypeOK`; `GaugeCoversTable` (the gauge, counting callers between the table change and the counter update, is never below the table size, so an `end_connection` for an unknown id leaves it alone; it may be above it, because a second `start_connection` for a tracked id replaces the entry and still increments the gauge, which TLC reaches); `HistoryKeepsNewest` (the history holds the newest records in push order, at most the bound, and after a drain more than bound − drop); `FailuresWithinAttempts` (`get_auth_failures` never reports more than `auth_attempts`, even when a successful attempt lands between its two loads). |

The fail2ban runs use three addresses, one whitelisted. In ticks, the window is 2, a ban lasts 2 and then 3 (the cap), and cleanup runs with an interval of 1, so its threshold (2) equals the window. Two failures ban, delays start at 1000 ms and double up to 30 000 ms, `ban_ip` passes 0 or 1 tick, the clock runs to 5, and each address is banned at most twice. With these bounds:
- a failure leaves the window before a second one arrives;
- a ban runs out and is followed by a second, longer one;
- cleanup meets idle, banned and failing detectors.

The passing run has about 558 000 states together with the resource part.

| Run | Expect | What it checks |
|---|---|---|
| `resources_security` (fail2ban part) | pass | `ImplementsAbstractFail2Ban`: the timed detectors implement `Fail2Ban` under the mapping `failures <- Len(times)`, `banned <- now < banned_until`. So the abstraction the connection manager is checked with is sound: a failure prunes old entries but never the new one and bans on reaching `max_auth_failures`; a ban only ends as time passes, by `unban_ip` or by a shorter `ban_ip`; a cleanup drops only detectors that behave like fresh ones. `BanCountKept`: no step lowers the `ban_count` of a detector that stays in the map. When a ban expires, `record_failure` clears only `banned_until`, so a repeat offender's next ban is longer (spec §4.6). Only `cleanup_old_entries` resets the count, by dropping the whole detector. |
| `resources_security` (secrets part) | pass | `SecTypeOK` (the cache holds only `store_secret`'s and the TLS loop's keys; the file is text); `FileRoundTrip` (whatever `save_secure_config` last wrote, `load_from_file` reads back as the same configuration: the key is cycled from the same offset on both sides and `decode` accepts exactly what `encode` padded); `AcceptedOnlyFromSources` (against a configuration `load_secure_config` returned, `validate_user_credentials` accepts a password only if it is exactly one that an enabled file user, with `password_env` resolved, or an enabled `USER_<i>_*` entry before the first gap grants that name). |
| `f2b_stale_delay` | violation | `DelayOnlyForRecentFailures`: `check_auth_attempt` delays an address only for failures inside the window, as the comments at `fail2ban.rs:151` and `:251` say. |

The secrets part uses two configurations whose toml is 1 and 3 bytes long (so `encode` pads with two `=` and a two-byte key wraps around), three environments (key `<<1, 3>>` with a user list that has a gap before a `bob` whose `ENABLED` is `no`, API keys `K` and `k`, and a TLS certificate variable; an empty key; no key), the four settings, and a file that is absent, plain toml, not toml, not base64, or a configuration encrypted under the first key. Every outcome occurs: a load that errs, panics (the empty key on an encrypted file) or succeeds with and without the environment, a save that errs, panics or writes. It adds about 1 300 states. Nothing in the server calls `SecretsManager` (it is only re-exported by `security/mod.rs`), so the environment stands for whatever process would build one. Two behaviours found while modelling have no run (the first is a hazard in `PROJECT.json`): the environment users are appended after the file's rather than overriding them as the comment at `secrets.rs:118` says, so after a load a name can carry two passwords and both are accepted; and TLS entries are written to the cache on every load and never removed, so a certificate stays cached after a reload of a configuration that no longer lists it.

The fail2ban violation is a spec/code divergence whose root cause is that `failure_times` is pruned only inside `record_failure`:
- **`f2b_stale_delay`**: one failure at time 0, then three ticks, and the address is still delayed. The accept loop sleeps for that delay before it accepts anyone else.
- The same cause keeps idle detectors: `IdleRecordsEvicted` in `Fail2BanTimed` states spec §8's eviction (a cleanup keeps no detector idle for 2 × `cleanup_interval` unless it is banned). With `SPECIFICATION F2tSpec` and that property, TLC shows one failure, then two idle ticks, and a cleanup that keeps the detector because its deque is not empty. It shares the run's root cause and has no run of its own.

### Hot reload

The watcher model has a file that starts with one of two valid contents or absent, an invalid content the world may also write, one task that may call `reload()`, a reload service that may be started, and a world that changes the file twice (a write is two changes of content: the truncation and the fill). About 69 000 states.

| Run | Expect | What it checks |
|---|---|---|
| `cfg_reload_race` | violation | `WatcherConverges`: while the watcher lives, once the file stops changing and holds a valid configuration, the current config is that configuration. |

**`cfg_reload_race`** (a code bug). `reload()` loads the file and only then takes the write lock; the notify callback does the same on its own thread. Every counterexample has one shape: `reload()` loads a version of the file; the world then changes the file, and the callback handles the events, loads the newer version and installs it; only then does `reload()` take the lock and write its older load. No event follows, so the current config stays the older load while the file holds the newer configuration. The trace TLC prints depends on how its workers schedule the search. One of them: `reload()` loads `f1`; the world removes the file, creates it empty and writes `f2`; the callback installs `f2`; `reload()` then writes `f1` over it. In another, the world first removes the file, so `reload()` loads `Config::default()`, and that default is what overwrites `f2`. Two more behaviours are hazards without a run. `ConfigReloadService::start` drops its watcher when it returns, so the service never sees a change. A Modify handled after a removal installs `Config::default()`, against the comment that the current configuration is kept.

Four observations from modelling are not runs (the first, third and fourth are hazards in `PROJECT.json`):
- **The rate bound depends on the cleanup interval.** It holds only if `2 × cleanup_interval × rate / 60 ≥ burst`, which the default configuration satisfies. With a 1 s interval, eviction re-creates a full bucket early, and `RateBound` fails after seven steps.
- **`route_request` ignores an explicit Allow.** It cannot tell the engine's "Allow direct" from "no rule matched", and gives both the first configured upstream, against spec §4.7. The connection manager dials directly whatever upstream it is given, so nothing can observe this yet.
- **`update_rule` can lose a rule.** It removes the old rule before validating the new one, so a rejected update deletes the rule. Nothing on the server path calls it.
- **The chain connector skips its first proxy.** `connect_through_chain` drives the stream to proxy 0 with the settings of proxy 1. A two-proxy chain therefore authenticates with the wrong credentials and then fails with "No next proxy found in chain". A three-proxy chain asks proxy 0 for proxy 2. `Socks5Wire` reaches both outcomes. No run states the hop order of spec §4.9 yet.

The routing violations are findings:
- **`rr_subdomain_bytes`** (a code bug): a byte length is used as a character index. The ACL has the same expression.
- **`acl_cidr_prefix0`** (a code bug): `0.0.0.0/0` panics (debug) or matches one address (release).

The three connection-manager violations are findings, described in `PROJECT.json`:
- **`cm_noauth_bypass`** (a code bug): NoAuth is always preferred, and its failed `authenticate` result is ignored.
- **`cm_per_ip_race`** (a spec/code divergence): the DDoS counters are incremented in the task, after the loop's check, so a burst passes the per-IP and global limits. The same lag lets the shutdown wait see zero active connections while admitted tasks hold permits and report a graceful exit (`GracefulMeansDrained` in the module states this; it has no run of its own).
- **`cm_unrecorded_failure`** (a spec/code divergence): the auth reply is written, with `?`, before the failure is recorded.

The DDoS violation is a finding:
- **`ddos_bans_reset`** (a spec/code divergence): `record_connection` resets `violation_count` together with an expired `blocked_until` (`ddos_protection.rs:82`). The next flood is again violation 1, so every flood block lasts `block_duration × 2`, and the progressive delay stays at `base_delay_ms`. TLC's trace: a flood at tick 0, a 2-tick block, a flood at tick 2, a 2-tick block again.

An observation of the wire has no run of its own: `connect_to_target` wraps the resolver's error in `.context("Failed to resolve target address")`, and `to_string()` shows only that outer text, so `connection_error_to_socks5_code` answers every DNS failure with GeneralFailure (0x01), where spec §4.10 asks for HostUnreachable (0x04) or TtlExpired (0x06). `ResolutionFailureReply` in `Socks5Wire` states the spec's rule, and `MC_Socks5Wire` with it as its invariant finds it violated.

## Fairness

The liveness run assumes weak fairness only on steps the runtime or a timer forces:
- the end of a sleep in the accept loop (a tokio timer);
- a spawned task being polled (`TaskStart`);
- the handshake timeout firing in a handling phase;
- the relay ending, bounded by the same timeout;
- the task's shutdown branch once notified;
- the task's tail;
- the janitor's 60 s tick, and a session going idle once an hour passes without activity;
- the shutdown wait finishing or timing out.

The smart routing run assumes weak fairness on a health task's interval tick (the task loops forever on a tokio interval) and on the end of every probe (a dial is bounded by `health_check_timeout`, and the write lock it then takes is held by no one across an await). Nothing is assumed of the API's callers.

The hot-reload run assumes weak fairness on the notify callback's steps (notify's thread delivers every queued event, and a callback runs to its end), on the write and send of a `reload()` already called (the caller awaits it), and on `start`'s steps after the copy and on the service task (spawned on the runtime). Nothing is assumed of the world, of whether anyone calls `reload()`, or of whether a service is started. The run does not check deadlock, because a watcher with no event to handle waits.

The rate-limiter run and the two other composed runs check safety properties only, and assume no fairness. `ImplementsAbstractFail2Ban` is a safety property, because `Fail2Ban` has no fairness.

Client behaviour (sending a greeting, a password or a request) is never assumed. A stalled client is ended by the timeout, not by fairness on the client.

## Not modelled yet, and the plan

The following are planned for later sittings:
- **The health task's copied map:** `start_health_checking` clones `upstream_proxies`, so an upstream added later is never probed and a replaced one is probed at its old address, against spec §4.8. Stated over the current map, `ProbedUpstreamsMeasured` fails; it is listed as a hazard in `PROJECT.json` and has no run.
- **`get_health_summary`** and `HealthSummary`: read-only reports of the metrics.
- **Resource manager:** a `deallocate_memory` of more than is held wraps the u64 (`MemModulus` keeps the width, but the model's callers give back what they took). `allocate_memory` can reject an allocation that fits, because a concurrent caller's add is counted before its roll-back; spec §4.12 says it fails only if it would exceed the budget. No run states either.
- **The handshake timeout:** it also cuts established relays, and it closes without the GeneralFailure reply that spec §4.2 asks for once bytes have been written. `Socks5Wire` models the timeout, but no property states the spec's reply yet.
- **The stale fail2ban decision after a Delay sleep**: it is listed as a hazard in `PROJECT.json`, without a run.
- **Secrets:** the getters `get_secret`, `get_proxy_credentials`, `get_api_key` and `validate_secrets_config` change nothing; `hash_password` and `verify_password_hash` are constant stubs (an error, `false`), so a `password_hash` never authenticates and is left out. toml's text, `from_utf8_lossy` on bytes of 128 and above, and file I/O errors are abstracted away.
- **Fail2ban boundaries:**
  - `Instant::now() - Duration` in `record_failure` and `cleanup_old_entries` panics if the process has been up for less than the window or the cleanup threshold. The model's clock starts far enough from boot that this never happens.
  - The ban length goes through `f64` and `powi`, and `base_delay_ms * 2^10` can overflow a u64 for a huge `base_delay_ms`. The model uses whole multipliers and small delays.
  - The statistics counters are not modelled; only `get_stats` reads them.
- **DDoS boundaries:** `get_progressive_delay` (the sleep a Block asks for) and the statistics counters change no protector state and are left out of `DdosTimed`. `now - time_window` in `record_connection` and `Instant::now() - cleanup_threshold` panic within the first window or threshold after boot; the model's clock starts far enough from boot. `DdosTimed` is not composed with `ConnectionManager`, which uses the untimed `DdosProtection`; no refinement between the two is checked yet.
- **Metrics:** `get_auth_failures` can over-report by one while a successful `increment_auth_attempts` is between its two `fetch_add`s; the code accepts this, so no property forbids it. A second `start_connection` with a tracked session id replaces the entry and counts the gauge twice. The model lets any caller do so, and TLC reaches a gauge above the table size. `GaugeCoversTable` therefore bounds the gauge from below only. Nothing in the repository calls `start_connection` except the unused `MetricsManager` wrapper.

Out of scope:
- the read-only parts of metrics: the summaries, the Prometheus export, and the `MetricsReporter`, `MetricsServer` and `MetricsManager` wrappers, which only format or serve what the registry holds. `daily_stats` is never written;
- configuration parsing and validation: `load_from_file` is reduced to its outcome (a valid config, the defaults for a missing file, or an error); the field checks of `validate`, `load_from_env` and `merge_with_cli_args` are conversions of the configuration's fields, and no property is about them;
- the management HTTP API's other handlers: they read the registry or the config cell, and `reload_config` only logs and returns success. The API key and basic-auth checks of `management/auth.rs` compare request headers with the configured values and keep no state;
- GeoIP (a stub), and the ACL's country checks, which only `Router::with_geoip` enables and the server never calls;
- regex routing patterns (the regex engine).
