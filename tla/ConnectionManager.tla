-------------------------- MODULE ConnectionManager --------------------------
(***************************************************************************)
(* The connection manager of src/src/connection/manager.rs as run by       *)
(* src/src/main.rs: one accept loop task, one spawned task per admitted    *)
(* connection, the janitor, and the graceful shutdown driven by the server *)
(* task.  It composes the DDoS protector, fail2ban, the authentication     *)
(* manager and the resource manager's connection semaphore, which all the  *)
(* tasks share.  A step is the code between two await points of one task. *)
(***************************************************************************)
EXTENDS Naturals, FiniteSets, Sequences

CONSTANTS Conns,           \* TCP connections that arrive at the listener
          Ips, Users, Whitelist,
          MaxConnections,  \* config.server.max_connections
          MaxPerIp, GlobalThreshold, FloodThreshold, MaxFailures,
          AuthEnabled,
          Anonymous,       \* the principal of a NoAuth session
          NoIp,            \* the address of a connection not yet accepted
          NoConn           \* the accept loop holds no connection

VARIABLES conn,     \* per connection: its phase, client IP and auth outcome
          loop,     \* the accept loop: waiting in accept, or sleeping on a connection
          permits,  \* available permits of the connection semaphore
          active,   \* active_connections
          srv,      \* the server task: "running", "draining", "exited"
          notified, \* shutdown_flag set and the shutdown broadcast sent
          graceful, \* wait_for_connections_to_close saw zero active connections
          detectors, ddosGlobal, failures, banned, locked, sessions, userSessions

D == INSTANCE DdosProtection
F == INSTANCE Fail2Ban
A == INSTANCE AuthManager WITH Sids <- Conns

authState == <<locked, sessions, userSessions>>
secVars == <<detectors, ddosGlobal, failures, banned, authState>>
vars == <<conn, loop, permits, active, srv, notified, graceful, secVars>>



\* Phases of a connection.  "checking": held by the accept loop while it
\* sleeps on a security delay; "spawned": the task owns a slot but has not
\* run; "greeting" .. "relay": inside handle_connection_static; "closing":
\* the task has left it and runs its clean-up.
Phases == {"new", "checking", "refused", "spawned", "greeting", "userpass",
           "authreply", "request", "relay", "closing", "done"}
Handling == {"greeting", "userpass", "authreply", "request", "relay"}
Started == {c \in Conns : conn[c].ph \in Handling \cup {"closing"}}
HoldingSlot == {c \in Conns : conn[c].ph \in Handling \cup {"spawned", "closing"}}

\* The outcome of authentication as the task sees it: "anon"/"denied" from
\* the NoAuth branch, "user"/"failed" from UserPass, "recorded" once a
\* failure has been reported to fail2ban.
AuthStates == {"none", "anon", "denied", "user", "failed", "recorded"}

Methods == {"NoAuth", "UserPass", "GSSAPI"}

TypeOK ==
    /\ conn \in [Conns -> [ph : Phases, ip : Ips \cup {NoIp}, auth : AuthStates]]
    /\ loop \in [st : {"accept", "sleep", "stopped"}, c : Conns \cup {NoConn},
                 admit : BOOLEAN]
    /\ permits \in 0..MaxConnections
    /\ active \in Nat
    /\ srv \in {"running", "draining", "exited"}
    /\ notified \in BOOLEAN /\ graceful \in BOOLEAN
    /\ D!DdosTypeOK /\ F!F2bTypeOK /\ A!AuthTypeOK

Init ==
    /\ conn = [c \in Conns |-> [ph |-> "new", ip |-> NoIp, auth |-> "none"]]
    /\ loop = [st |-> "accept", c |-> NoConn, admit |-> FALSE]
    /\ permits = MaxConnections
    /\ active = 0
    /\ srv = "running"
    /\ notified = FALSE /\ graceful = FALSE
    /\ D!DdosInit /\ F!F2bInit /\ A!AuthInit

SetPh(c, p) == conn' = [conn EXCEPT ![c].ph = p]

\* The accept loop records c as coming from ip and in phase p.
Enter(c, ip, p) == conn' = [conn EXCEPT ![c] = [@ EXCEPT !.ph = p, !.ip = ip]]

-----------------------------------------------------------------------------
(* The accept loop (accept_connections). *)

\* Fault variants of Spawn: the permit is taken even when none is left (a
\* blocking acquire on an unbounded count), or it is dropped at once as
\* with `let _ = slot`.
SpawnWithoutLimit(c, ip) ==
    /\ permits' = permits - 1
    /\ Enter(c, ip, "spawned")
    /\ loop' = [st |-> "accept", c |-> NoConn, admit |-> FALSE]
SpawnDroppingSlot(c, ip) ==
    /\ IF permits > 0 THEN Enter(c, ip, "spawned") ELSE Enter(c, ip, "refused")
    /\ UNCHANGED permits
    /\ loop' = [st |-> "accept", c |-> NoConn, admit |-> FALSE]

\* acquire_connection_slot, then subscribe and tokio::spawn; without a
\* permit the stream is dropped.  The loop goes back to accept either way.
Spawn(c, ip) ==
    /\ IF permits > 0
         THEN /\ permits' = permits - 1
              /\ Enter(c, ip, "spawned")
         ELSE /\ Enter(c, ip, "refused")
              /\ UNCHANGED permits
    /\ loop' = [st |-> "accept", c |-> NoConn, admit |-> FALSE]

\* listener.accept() returns c from ip; the rate limiter, the DDoS
\* protector and fail2ban are consulted in that order.  Every Block has a
\* positive delay, which the loop sleeps before dropping the stream; a
\* fail2ban Delay is slept before going on to the semaphore.
Accept(c, ip) ==
    /\ srv = "running" /\ loop.st = "accept"
    /\ conn[c].ph = "new"
    /\ ~notified
    /\ \E rateOk \in BOOLEAN :
         \/ /\ ~rateOk
            /\ Enter(c, ip, "refused")
            /\ UNCHANGED <<loop, permits, detectors, ddosGlobal>>
         \/ /\ rateOk
            /\ \E dd \in {"Allow", "Block"} :
                 /\ D!CheckConnection(ip, dd)
                 /\ IF dd = "Block" \/ F!AuthDecision(ip) # "Allow"
                      THEN /\ Enter(c, ip, "checking")
                           /\ loop' = [st |-> "sleep", c |-> c,
                                       admit |-> dd = "Allow" /\ F!AuthDecision(ip) = "Delay"]
                           /\ UNCHANGED permits
                      ELSE Spawn(c, ip)
    /\ UNCHANGED <<active, srv, notified, graceful, failures, banned, authState>>

\* The loop wakes from its sleep on loop.c.
SleepEnds ==
    /\ srv = "running" /\ loop.st = "sleep"
    /\ IF loop.admit
         THEN Spawn(loop.c, conn[loop.c].ip)
         ELSE /\ SetPh(loop.c, "refused")
              /\ loop' = [st |-> "accept", c |-> NoConn, admit |-> FALSE]
              /\ UNCHANGED permits
    /\ UNCHANGED <<active, srv, notified, graceful, secVars>>
-----------------------------------------------------------------------------
(* The task spawned for one connection. *)

TaskVars == <<loop, srv, notified, graceful>>

\* connection_started, active_connections += 1, tracker insert; then the
\* handshake timeout is armed around handle_connection_with_shutdown.
TaskStart(c) ==
    /\ srv # "exited" /\ conn[c].ph = "spawned"
    /\ D!ConnectionStarted(conn[c].ip)
    /\ active' = active + 1
    /\ SetPh(c, "greeting")
    /\ UNCHANGED <<TaskVars, permits, failures, banned, authState>>

\* Socks5Handler::select_auth_method: NoAuth wins whenever it is offered.
SelectAuthMethod(offered) ==
    IF "NoAuth" \in offered THEN "NoAuth"
    ELSE IF "UserPass" \in offered THEN "UserPass"
    ELSE "Unsupported"

\* handle_handshake reads the greeting and answers with the selected
\* method; a bad version, NMETHODS = 0 or an I/O error ends the handler.
\* For NoAuth the manager then calls authenticate and goes on to the
\* request whatever it returns; Unsupported closes.
Greeting(c) ==
    /\ srv # "exited" /\ conn[c].ph = "greeting"
    /\ \/ /\ SetPh(c, "closing")
          /\ UNCHANGED authState
       \/ \E offered \in SUBSET Methods \ {{}} :
            CASE SelectAuthMethod(offered) = "NoAuth" ->
                   \E ok \in BOOLEAN :
                     /\ A!Authenticate("NoAuth", conn[c].ip, "", FALSE, ok, c)
                     /\ conn' = [conn EXCEPT ![c].ph = "request",
                                             ![c].auth = IF ok THEN "anon" ELSE "denied"]
              [] SelectAuthMethod(offered) = "UserPass" ->
                   /\ SetPh(c, "userpass")
                   /\ UNCHANGED authState
              [] OTHER ->
                   /\ SetPh(c, "closing")
                   /\ UNCHANGED authState
    /\ UNCHANGED <<TaskVars, permits, active, detectors, ddosGlobal, failures, banned>>

\* handle_userpass_auth reads the RFC 1929 frame (a malformed frame gets a
\* failure reply and ends the handler, recording nothing), then
\* authenticate decides.
UserPassAuth(c) ==
    /\ srv # "exited" /\ conn[c].ph = "userpass"
    /\ \/ /\ SetPh(c, "closing")
          /\ UNCHANGED authState
       \/ \E u \in Users, good, ok \in BOOLEAN :
            /\ A!Authenticate("UserPass", conn[c].ip, u, good, ok, c)
            /\ conn' = [conn EXCEPT ![c].ph = "authreply",
                                    ![c].auth = IF ok THEN "user" ELSE "failed"]
    /\ UNCHANGED <<TaskVars, permits, active, detectors, ddosGlobal, failures, banned>>

\* send_userpass_auth_response(success).await? and only then the report to
\* fail2ban: a failed write ends the handler before anything is recorded.
AuthReply(c) ==
    /\ srv # "exited" /\ conn[c].ph = "authreply"
    /\ \/ /\ SetPh(c, "closing")
          /\ UNCHANGED <<failures, banned>>
       \/ /\ conn[c].auth = "failed"
          /\ F!RecordAuthFailure(conn[c].ip)
          /\ conn' = [conn EXCEPT ![c].ph = "closing", ![c].auth = "recorded"]
       \/ /\ conn[c].auth = "user"
          /\ F!RecordAuthSuccess(conn[c].ip)
          /\ SetPh(c, "request")
    /\ UNCHANGED <<TaskVars, permits, active, detectors, ddosGlobal, authState>>

\* handle_request, routing, the dial and the reply: either the relay (or
\* the Bind / UdpAssociate wait) starts, or a failure reply or a read error
\* ends the handler.
Request(c) ==
    /\ srv # "exited" /\ conn[c].ph = "request"
    /\ \E next \in {"relay", "closing"} : SetPh(c, next)
    /\ UNCHANGED <<TaskVars, permits, active, secVars>>

\* copy_bidirectional ends (EOF, I/O error or connection_timeout), or the
\* 300 s Bind/UdpAssociate wait ends.  Only a clean end reaches the
\* update_session_activity after the command's match, and only a
\* connection whose authentication returned a session id has one.
RelayEnds(c) ==
    /\ srv # "exited" /\ conn[c].ph = "relay"
    /\ SetPh(c, "closing")
    /\ \E clean \in BOOLEAN :
         IF clean /\ conn[c].auth \in {"anon", "user"}
           THEN A!UpdateSessionActivity(c)
           ELSE UNCHANGED authState
    /\ UNCHANGED <<TaskVars, permits, active, detectors, ddosGlobal, failures, banned>>

\* Fault variant of HandshakeTimeout: the deadline is armed only once the
\* greeting has been read.
HandshakeTimeoutAfterGreeting(c) ==
    /\ srv # "exited" /\ conn[c].ph \in Handling \ {"greeting"}
    /\ SetPh(c, "closing")
    /\ UNCHANGED <<TaskVars, permits, active, secVars>>

\* The handshake_timeout wraps the whole of handle_connection_with_shutdown.
HandshakeTimeout(c) ==
    /\ srv # "exited" /\ conn[c].ph \in Handling
    /\ SetPh(c, "closing")
    /\ UNCHANGED <<TaskVars, permits, active, secVars>>

\* The select in handle_connection_with_shutdown sees the broadcast.
ShutdownNotice(c) ==
    /\ srv # "exited" /\ notified /\ conn[c].ph \in Handling
    /\ SetPh(c, "closing")
    /\ UNCHANGED <<TaskVars, permits, active, secVars>>

\* Fault variant of Finish: the slot outlives the task.
FinishKeepingSlot(c) ==
    /\ srv # "exited" /\ conn[c].ph = "closing"
    /\ D!ConnectionEnded(conn[c].ip)
    /\ active' = active - 1
    /\ SetPh(c, "done")
    /\ UNCHANGED <<TaskVars, permits, failures, banned, authState>>

\* Tracker remove, connection_ended, active_connections -= 1, and the
\* ConnectionSlot dropped with the task.
Finish(c) ==
    /\ srv # "exited" /\ conn[c].ph = "closing"
    /\ D!ConnectionEnded(conn[c].ip)
    /\ active' = active - 1
    /\ permits' = permits + 1
    /\ SetPh(c, "done")
    /\ UNCHANGED <<TaskVars, failures, banned, authState>>
-----------------------------------------------------------------------------
(* The janitor, the passage of time, and graceful shutdown. *)

\* IPs whose DDoS entry may be older than the cleanup cutoff (twice the
\* cleanup interval, 600 s by default).  An IP with a connection sleeping in
\* the accept loop or spawned but not yet started was checked an instant
\* ago, well inside the cutoff.
StaleCandidates ==
    DOMAIN detectors \ {conn[c].ip : c \in {x \in Conns : conn[x].ph \in {"checking", "spawned"}}}

\* The 60 s cleanup task: the authentication manager's clean-up (expired
\* sessions), then the DDoS and fail2ban clean-ups.  The rate limiter's
\* clean-up only drops entries that behave like fresh ones, and the
\* idle-connection scan only logs.
Janitor ==
    /\ srv # "exited"
    /\ A!CleanupExpired
    /\ \E stale \in SUBSET StaleCandidates : D!CleanupOldEntries(stale)
    /\ F!F2bCleanupOldEntries
    /\ UNCHANGED <<conn, loop, permits, active, srv, notified, graceful>>

\* A DDoS block, a fail2ban ban or an authentication back-off runs out.
TimePasses ==
    /\ srv # "exited"
    /\ \/ \E ip \in Ips : D!BlockExpires(ip) /\ UNCHANGED <<failures, banned, authState>>
       \/ \E ip \in Ips : F!BanExpires(ip) /\ UNCHANGED <<detectors, ddosGlobal, authState>>
       \/ \E k \in Ips \cup Users :
            A!LockExpires(k) /\ UNCHANGED <<detectors, ddosGlobal, failures, banned>>
    /\ UNCHANGED <<conn, loop, permits, active, srv, notified, graceful>>

\* An hour passes since the last activity of the session minted for c.
SessionTimesOut(c) ==
    /\ srv # "exited"
    /\ A!SessionIdles(c)
    /\ UNCHANGED <<conn, loop, permits, active, srv, notified, graceful,
                   detectors, ddosGlobal, failures, banned>>

\* initiate_shutdown: shutdown_flag is set and the broadcast sent to every
\* connection task's receiver.
InitiateShutdown ==
    /\ srv' = "draining"
    /\ notified' = TRUE

\* main.rs: the server task's select takes the shutdown branch, dropping
\* the accept loop (with any connection it was sleeping on), then
\* initiate_shutdown sets the flag and sends the broadcast that every
\* spawned task subscribed to before it was spawned.
Signal ==
    /\ srv = "running"
    /\ InitiateShutdown
    /\ loop' = [st |-> "stopped", c |-> NoConn, admit |-> FALSE]
    /\ IF loop.st = "sleep" THEN SetPh(loop.c, "refused") ELSE UNCHANGED conn
    /\ UNCHANGED <<permits, active, graceful, secVars>>

\* wait_for_connections_to_close reads active_connections as zero; main
\* then returns and the runtime drops every task.
WaitDone ==
    /\ srv = "draining" /\ active = 0
    /\ srv' = "exited" /\ graceful' = TRUE
    /\ UNCHANGED <<conn, loop, permits, active, notified, secVars>>

\* shutdown_timeout elapses with connections still counted.
WaitTimeout ==
    /\ srv = "draining" /\ active > 0
    /\ srv' = "exited"
    /\ UNCHANGED <<conn, loop, permits, active, notified, graceful, secVars>>

\* The process has exited.
Terminated ==
    /\ srv = "exited"
    /\ UNCHANGED vars

TaskStep(c) ==
    \/ TaskStart(c) \/ Greeting(c) \/ UserPassAuth(c) \/ AuthReply(c)
    \/ Request(c) \/ RelayEnds(c) \/ HandshakeTimeout(c) \/ ShutdownNotice(c)
    \/ Finish(c)

Next ==
    \/ \E c \in Conns, ip \in Ips : Accept(c, ip)
    \/ SleepEnds
    \/ \E c \in Conns : TaskStep(c)
    \/ Janitor \/ TimePasses \/ \E c \in Conns : SessionTimesOut(c)
    \/ Signal \/ WaitDone \/ WaitTimeout \/ Terminated

(***************************************************************************)
(* Fairness.  The tokio scheduler polls every ready task, timers fire,    *)
(* the server task's wait loop polls every 500 ms and the janitor ticks   *)
(* every 60 s, so those steps are weakly fair; so is a session going idle, *)
(* which takes only an hour without activity.  Clients (greeting,          *)
(* credentials, request), the relay's peers, new arrivals and the         *)
(* operator's signal owe nothing.                                          *)
(***************************************************************************)
Fairness ==
    /\ WF_vars(SleepEnds)
    /\ \A c \in Conns :
         /\ WF_vars(TaskStart(c)) /\ WF_vars(Finish(c))
         /\ WF_vars(HandshakeTimeout(c)) /\ WF_vars(RelayEnds(c))
         /\ WF_vars(ShutdownNotice(c))
         /\ WF_vars(SessionTimesOut(c))
    /\ WF_vars(WaitDone) /\ WF_vars(WaitTimeout)
    /\ WF_vars(Janitor)

Spec == Init /\ [][Next]_vars /\ Fairness
-----------------------------------------------------------------------------
(* Properties. *)

\* The number of free permits plus the connections owning a ConnectionSlot
\* (from the accept loop's acquire to the drop at the end of the task, on
\* every path: refusal, errors, timeout, shutdown) is max_connections.
PermitAccounting == permits + Cardinality(HoldingSlot) = MaxConnections

\* The counters the tasks keep (active_connections, the DDoS global count
\* and, for every IP that has a detector, its current_connections) equal
\* the number of tasks between connection_started and connection_ended,
\* however the janitor's cleanup interleaves with them.
FromIp(S, ip) == {c \in S : conn[c].ip = ip}
CountersTrackTasks ==
    /\ active = Cardinality(Started)
    /\ ddosGlobal = Cardinality(Started)
    /\ \A ip \in DOMAIN detectors : detectors[ip].cur = Cardinality(FromIp(Started, ip))

(***************************************************************************)
(* The session tracker's two maps agree, however sessions are minted by   *)
(* concurrent authentications, refreshed at the end of relays and expired *)
(* by the janitor: a principal has a Vec exactly when it has sessions, and *)
(* its Vec lists each of them exactly once (spec 4.3: the inverse map     *)
(* from principal to its active session ids).                              *)
(***************************************************************************)
SessionIndexConsistent ==
    /\ DOMAIN userSessions = {sessions[s].user : s \in DOMAIN sessions}
    /\ \A p \in DOMAIN userSessions :
         LET ids == {userSessions[p][i] : i \in 1..Len(userSessions[p])}
         IN /\ ids = {s \in DOMAIN sessions : sessions[s].user = p}
            /\ Len(userSessions[p]) = Cardinality(ids)

\* The manager uses the semaphore as the resource manager promises: each
\* admitted connection takes one permit and gives exactly one back.
Lifecycle == INSTANCE SlotLifecycle
    WITH holders <- HoldingSlot,
         released <- {c \in Conns : conn[c].ph = "done"},
         free <- permits,
         halted <- (srv = "exited")
SlotDiscipline == Lifecycle!Spec

\* Every admitted connection ends (slot dropped, connection_ended called)
\* unless the process exits first: a client that stops sending is cut by
\* the handshake timeout.
AdmittedConnectionsEnd ==
    \A c \in Conns : conn[c].ph = "spawned" ~> (conn[c].ph = "done" \/ srv = "exited")

\* The session minted for a connection is gone some time after the
\* connection ended, unless the process exits first: the connection path
\* never removes it, the janitor's cleanup_expired does once it has been
\* idle for the session timeout (spec 5: a finished task leaks no session
\* entries).
SessionsExpire ==
    \A c \in Conns : (conn[c].ph = "done" /\ c \in DOMAIN sessions)
                       ~> (c \notin DOMAIN sessions \/ srv = "exited")

\* With authentication required, a connection reaches request dispatch
\* only after a successful username/password authentication (spec 4.2:
\* without UserPass offered the server answers 0xFF and closes).
AuthRequiredForRequest ==
    AuthEnabled => \A c \in Conns : conn[c].ph \in {"request", "relay"} => conn[c].auth = "user"

\* No IP ever has more than max_connections_per_ip connections admitted
\* and not yet ended (spec 4.5: exceeding maxPerIp short-circuits admission).
ConcurrentLimitPerIp == \A ip \in Ips : Cardinality(FromIp(HoldingSlot, ip)) <= MaxPerIp

\* Every failed username/password authentication is reported to fail2ban
\* before its connection ends (spec 4.11 step 8).
FailedAuthRecorded == \A c \in Conns : conn[c].ph = "done" => conn[c].auth # "failed"

\* When the shutdown wait reports that all connections closed gracefully,
\* no admitted connection still holds a slot (spec 5: the semaphore's
\* permit count is the ground truth for the active count).
GracefulMeansDrained == (srv = "exited" /\ graceful) => HoldingSlot = {}
=============================================================================
