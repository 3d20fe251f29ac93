---------------------------- MODULE ManagementApi ----------------------------
(***************************************************************************)
(* The management API's handlers that change the shared configuration     *)
(* cell, src/src/management/handlers.rs: update_config, create_user and   *)
(* delete_user.  Each takes state.config's write lock once and does all   *)
(* its reading and writing of the cell under it (what it checks before    *)
(* the lock is the request alone), so each handler is one atomic step and *)
(* concurrent requests are their interleavings.  A request answered with  *)
(* an error, or a validate_only update, leaves the cell as it was: a      *)
(* stuttering step.  A Config is abstracted to its auth section and      *)
(* whether every other section validates.  A string is a name, a         *)
(* password, or one of the two lengths the checks reject: EmptyStr and    *)
(* LongStr (more than 255 characters).                                    *)
(***************************************************************************)
EXTENDS Naturals, Sequences, FiniteSets

CONSTANTS Names,          \* usernames of 1 to 255 characters
          Passwords,      \* passwords of 1 to 255 characters
          EmptyStr,       \* ""
          LongStr,        \* a string longer than 255 characters
          Methods,        \* the auth.method values validate_auth_config accepts
          InitConfigs,    \* configurations the server may start with
          UpdateConfigs,  \* configurations a PUT /config may carry
          MaxUsers        \* bound on the users create_user can add to

VARIABLES cell,       \* state.config: [enabled, method, users, othersOk]
          installed   \* history: the users of the last configuration installed whole

apiVars == <<cell, installed>>

Str(S) == S \cup {EmptyStr, LongStr}

\* The length checks of create_user and validate_auth_config.
LengthOk(s) == s \notin {EmptyStr, LongStr}

\* Config::validate: the auth section as validate_auth_config checks it,
\* the other sections summed up in othersOk.
Validate(c) ==
    /\ c.othersOk
    /\ c.method \in Methods
    /\ ~(c.enabled /\ c.method = "userpass" /\ c.users = <<>>)
    /\ \A i \in DOMAIN c.users :
          LengthOk(c.users[i].username) /\ LengthOk(c.users[i].password)

UserNamed(us, n) == \E i \in DOMAIN us : us[i].username = n
NameCount(us, n) == Cardinality({i \in DOMAIN us : us[i].username = n})

-----------------------------------------------------------------------------

\* main validates the configuration before the management server gets it.
ApiInit ==
    /\ cell \in {c \in InitConfigs : Validate(c)}
    /\ installed = cell.users

\* A bug update_config could have: applying the request before validating.
UpdateConfigUnvalidated(c, validateOnly) ==
    /\ ~validateOnly
    /\ cell' = c
    /\ installed' = c.users

\* update_config: a configuration that validates replaces the cell, unless
\* validate_only; one that does not is reported and changes nothing.
UpdateConfig(c, validateOnly) ==
    /\ Validate(c) /\ ~validateOnly
    /\ cell' = c
    /\ installed' = c.users

\* Bugs create_user could have: no duplicate check, no password check.
CreateUserNoDupCheck(u, pw, en) ==
    /\ LengthOk(u) /\ LengthOk(pw) /\ Len(cell.users) < MaxUsers
    /\ cell' = [cell EXCEPT !.users =
                  Append(@, [username |-> u, password |-> pw, enabled |-> en])]
    /\ UNCHANGED installed
CreateUserNoPwCheck(u, pw, en) ==
    /\ LengthOk(u) /\ ~UserNamed(cell.users, u) /\ Len(cell.users) < MaxUsers
    /\ cell' = [cell EXCEPT !.users =
                  Append(@, [username |-> u, password |-> pw, enabled |-> en])]
    /\ UNCHANGED installed

\* create_user: the request's lengths are checked first; under the lock, an
\* existing username is an error, otherwise the user is pushed.
CreateUser(u, pw, en) ==
    /\ LengthOk(u) /\ LengthOk(pw)
    /\ ~UserNamed(cell.users, u)
    /\ Len(cell.users) < MaxUsers
    /\ cell' = [cell EXCEPT !.users =
                  Append(@, [username |-> u, password |-> pw, enabled |-> en])]
    /\ UNCHANGED installed

\* delete_user: retain drops every user with that name; none is "not found".
DeleteUser(u) ==
    /\ UserNamed(cell.users, u)
    /\ cell' = [cell EXCEPT !.users = SelectSeq(@, LAMBDA x : x.username # u)]
    /\ UNCHANGED installed

ApiNext ==
    \/ \E c \in UpdateConfigs, v \in BOOLEAN : UpdateConfig(c, v)
    \/ \E u \in Str(Names), pw \in Str(Passwords), en \in BOOLEAN :
          CreateUser(u, pw, en)
    \/ \E u \in Str(Names) : DeleteUser(u)

ApiSpec == ApiInit /\ [][ApiNext]_apiVars

-----------------------------------------------------------------------------
(* Properties *)

User == [username : Str(Names), password : Str(Passwords), enabled : BOOLEAN]

\* The cell holds a configuration whose method validate_auth_config
\* accepts: update_config installs only what validates.
ApiTypeOK ==
    /\ cell.enabled \in BOOLEAN /\ cell.method \in Methods /\ cell.othersOk \in BOOLEAN
    /\ cell.users \in Seq(User) /\ installed \in Seq(User)

\* Every user in the cell has a username and a password of 1 to 255
\* characters, although create_user pushes without calling validate(): its
\* own checks must agree with validate_auth_config's.
UsersWellFormed ==
    \A i \in DOMAIN cell.users :
        LengthOk(cell.users[i].username) /\ LengthOk(cell.users[i].password)

\* create_user never makes a username ambiguous: a name occurs in the cell
\* at most once, or at most as often as in the configuration last installed
\* whole (validate() does not reject repeated usernames), whatever the
\* interleaving of creates and deletes since.
NoDuplicateCreated ==
    \A n \in Str(Names) :
        NameCount(cell.users, n) <= IF NameCount(installed, n) > 1
                                    THEN NameCount(installed, n) ELSE 1
=============================================================================
