--------------------------- MODULE MC_ManagementApi ---------------------------
(***************************************************************************)
(* Two usernames and one password, with the empty and the over-long       *)
(* string.  The server starts with userpass and alice, or with no auth    *)
(* and no users.  A PUT /config may carry: alice twice (validate() lets   *)
(* it through), an unknown method, a user with an empty password, or a    *)
(* configuration whose other sections fail.  create_user can grow the     *)
(* list to three users.                                                   *)
(***************************************************************************)
EXTENDS ManagementApi

CONSTANTS EmptyStrV, LongStrV

MgUser(n, p) == [username |-> n, password |-> p, enabled |-> TRUE]
MgConfig(en, m, us, ok) == [enabled |-> en, method |-> m, users |-> us, othersOk |-> ok]

MCInitConfigs ==
    { MgConfig(TRUE, "userpass", <<MgUser("alice", "pw")>>, TRUE),
      MgConfig(FALSE, "none", <<>>, TRUE) }
MCUpdateConfigs ==
    { MgConfig(TRUE, "userpass", <<MgUser("alice", "pw"), MgUser("alice", "pw")>>, TRUE),
      MgConfig(TRUE, "ldap", <<>>, TRUE),
      MgConfig(FALSE, "userpass", <<MgUser("bob", EmptyStrV)>>, TRUE),
      MgConfig(FALSE, "none", <<>>, FALSE) }
=============================================================================
