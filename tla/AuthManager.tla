----------------------------- MODULE AuthManager -----------------------------
(***************************************************************************)
(* AuthManager::authenticate (src/src/auth/manager.rs) with its per-IP and *)
(* per-user RateLimitInfo tables (src/src/auth/types.rs).  Every recorded  *)
(* failure sets blocked_until to now plus a progressive delay (1 s to      *)
(* 300 s), so right after a failure the key is blocked; that block running *)
(* out is the LockExpires step.  The set locked holds the IPs and user     *)
(* names whose blocked_until lies in the future.                           *)
(*                                                                         *)
(* The SessionTracker behind it maps a session id to its UserSession and   *)
(* each principal to the Vec of its session ids.  A session id is a fresh *)
(* UUID; here it is drawn from Sids by the caller.  Time is abstract: a    *)
(* session's last_activity lying more than the cleanup timeout (3600 s)   *)
(* in the past is its idle flag, set by the SessionIdles step.             *)
(***************************************************************************)
EXTENDS Sequences, TLC

CONSTANTS Ips,         \* client addresses
          Users,       \* configured user names
          AuthEnabled, \* config.auth.enabled
          Sids,        \* session ids the callers hand out
          Anonymous    \* the principal "anonymous"

VARIABLES locked,       \* keys whose RateLimitInfo is blocked
          sessions,     \* SessionTracker.sessions: id -> [user, idle]
          userSessions  \* SessionTracker.user_sessions: principal -> ids

authVars == <<locked, sessions, userSessions>>

Principals == Users \cup {Anonymous}

AuthInit ==
    /\ locked = {}
    /\ sessions = [s \in {} |-> [user |-> Anonymous, idle |-> FALSE]]
    /\ userSessions = [p \in {} |-> <<>>]

AuthTypeOK ==
    /\ locked \subseteq Ips \cup Users
    /\ DOMAIN sessions \subseteq Sids
    /\ \A s \in DOMAIN sessions : sessions[s] \in [user : Principals, idle : BOOLEAN]
    /\ DOMAIN userSessions \subseteq Principals
    /\ \A p \in DOMAIN userSessions : userSessions[p] \in Seq(Sids)

(***************************************************************************)
(* SessionTracker::create_session: the session is inserted and its id      *)
(* pushed onto its principal's Vec, which is created if missing.           *)
(***************************************************************************)
CreateSession(sid, p) ==
    /\ sessions' = (sid :> [user |-> p, idle |-> FALSE]) @@ sessions
    /\ userSessions' = IF p \in DOMAIN userSessions
                         THEN [userSessions EXCEPT ![p] = Append(@, sid)]
                         ELSE (p :> <<sid>>) @@ userSessions

NoSession == UNCHANGED <<sessions, userSessions>>

\* Fault variant of RemoveSessions: a Vec left empty keeps its key.
RemoveSessionsKeepingEmpty(E) ==
    LET users == {sessions[s].user : s \in E}
    IN /\ sessions' = [s \in DOMAIN sessions \ E |-> sessions[s]]
       /\ userSessions' = [p \in DOMAIN userSessions |->
                             IF p \in users THEN SelectSeq(userSessions[p], LAMBDA s : s \notin E)
                             ELSE userSessions[p]]

(***************************************************************************)
(* remove_session for every id of E, one after the other: the session is  *)
(* dropped, its id retained out of its principal's Vec, and a Vec left     *)
(* empty is removed with its key.                                          *)
(***************************************************************************)
RemoveSessions(E) ==
    LET users   == {sessions[s].user : s \in E}
        Left(p) == SelectSeq(userSessions[p], LAMBDA s : s \notin E)
    IN /\ sessions' = [s \in DOMAIN sessions \ E |-> sessions[s]]
       /\ userSessions' = [p \in {q \in DOMAIN userSessions : q \notin users \/ Left(q) # <<>>} |->
                             IF p \in users THEN Left(p) ELSE userSessions[p]]

\* RateLimitInfo::record_failure on the entries of keys (created by
\* RateLimitInfo::new when missing): every failure sets blocked_until to a
\* time after now, whatever the delay its attempt count selects.
RecordFailure(keys) == locked' = locked \cup keys

\* RateLimitInfo::reset: blocked_until becomes None.
ResetLimits(keys) == locked' = locked \ keys

(***************************************************************************)
(* authenticate(method, credentials, ip): the per-IP block is checked      *)
(* first.  NoAuth succeeds only when authentication is disabled, and       *)
(* records an IP failure otherwise.  UserPass checks the per-user block,   *)
(* then the password: success resets both tables, failure records in both. *)
(* good says whether the password matches an enabled user record.          *)
(***************************************************************************)
Authenticate(method, ip, user, good, success, sid) ==
    \/ /\ ip \in locked
       /\ success = FALSE
       /\ UNCHANGED locked /\ NoSession
    \/ /\ ip \notin locked
       /\ method = "NoAuth"
       /\ success = ~AuthEnabled
       /\ IF AuthEnabled THEN RecordFailure({ip}) /\ NoSession
                         ELSE UNCHANGED locked /\ CreateSession(sid, Anonymous)
    \/ /\ ip \notin locked
       /\ method = "UserPass"
       /\ \/ /\ user \in locked
             /\ success = FALSE
             /\ UNCHANGED locked /\ NoSession
          \/ /\ user \notin locked
             /\ success = good
             /\ IF good THEN ResetLimits({ip, user}) /\ CreateSession(sid, user)
                        ELSE RecordFailure({ip, user}) /\ NoSession

\* A RateLimitInfo's blocked_until passes.
LockExpires(k) ==
    /\ k \in locked
    /\ locked' = locked \ {k}
    /\ NoSession

\* update_session_activity: refreshes last_activity of a session that is
\* still there, and does nothing for one already removed.
UpdateSessionActivity(sid) ==
    /\ sessions' = IF sid \in DOMAIN sessions THEN [sessions EXCEPT ![sid].idle = FALSE]
                   ELSE sessions
    /\ UNCHANGED <<locked, userSessions>>

\* An hour passes since a session's last activity.
SessionIdles(sid) ==
    /\ sid \in DOMAIN sessions /\ ~sessions[sid].idle
    /\ sessions' = [sessions EXCEPT ![sid].idle = TRUE]
    /\ UNCHANGED <<locked, userSessions>>

\* Fault variant of CleanupExpired: the expired ids are counted, not removed.
CleanupExpiredCountingOnly == UNCHANGED authVars

(***************************************************************************)
(* cleanup_expired: cleanup_expired_sessions removes every session idle   *)
(* longer than the timeout; the rate-limit tables then drop entries that   *)
(* are neither recent nor blocked, which behave like fresh ones.           *)
(***************************************************************************)
CleanupExpired ==
    /\ RemoveSessions({s \in DOMAIN sessions : sessions[s].idle})
    /\ UNCHANGED locked
=============================================================================
