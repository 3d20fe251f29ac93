------------------------------ MODULE MC_Secrets ------------------------------
(***************************************************************************)
(* Two configurations a caller may save: C1 takes alice's password from   *)
(* the PW variable and caches a TLS certificate; C2 has a disabled alice   *)
(* and an enabled bob.  Their toml texts are one and three bytes long, so  *)
(* that base64 pads with two '=' and a two-byte key wraps around.  Three   *)
(* environments: E1 has the key <<1, 3>>, PW, a user list with a gap      *)
(* before a bob whose ENABLED does not parse, a proxy without USERNAME,    *)
(* and API_KEY_K next to API_KEY_k; E2 sets the key to the empty string;   *)
(* E3 has no key.  The file starts absent, as C1's plain text, as text     *)
(* that is not toml, as text that is not base64, or as C2 encrypted under  *)
(* E1's key (which E2's empty key makes simple_decrypt panic on).          *)
(***************************************************************************)
EXTENDS Secrets, MC_OptionNone

CONSTANT NoFileV

MCNames == {"alice", "bob", "t"}
MCPasswords == {<<>>, <<1>>, <<2>>, <<1, 2>>}

C1 == [users   |-> <<[name |-> "alice", pw |-> NoneV, pwEnv |-> "PW", enabled |-> TRUE]>>,
       proxies |-> <<>>,
       tls     |-> <<[name |-> "t", cert |-> "CERT", key |-> "TKEY"]>>,
       api     |-> ("k" :> <<2>>)]
C2 == [users   |-> <<[name |-> "alice", pw |-> <<1, 2>>, pwEnv |-> NoneV, enabled |-> FALSE],
                     [name |-> "bob", pw |-> <<1>>, pwEnv |-> NoneV, enabled |-> TRUE]>>,
       proxies |-> <<[name |-> "p", pwEnv |-> "PW", pw |-> NoneV, user |-> <<1>>]>>,
       tls     |-> <<>>,
       api     |-> <<>>]

MCFileConfigs == {C1, C2}
MCTomlOf(c) == IF c = C1 THEN <<1>> ELSE <<1, 2, 3>>

E1 == [vars    |-> ("KEY" :> <<1, 3>>) @@ ("PW" :> <<1, 2>>) @@ ("CERT" :> <<3>>),
       users   |-> <<[name |-> "alice", pw |-> <<2>>, en |-> NoneV],
                     [name |-> NoneV, pw |-> NoneV, en |-> NoneV],
                     [name |-> "bob", pw |-> <<1, 2>>, en |-> "no"]>>,
       proxies |-> <<[name |-> "p", user |-> NoneV, pw |-> <<2>>]>>,
       api     |-> {[name |-> "k", val |-> <<1>>], [name |-> "k", val |-> <<3>>]}]
E2 == [vars    |-> ("KEY" :> <<>>) @@ ("PW" :> <<2>>),
       users   |-> <<[name |-> "bob", pw |-> <<2>>, en |-> "false"]>>,
       proxies |-> <<>>,
       api     |-> {}]
E3 == [vars    |-> ("PW" :> <<1>>),
       users   |-> <<>>,
       proxies |-> <<>>,
       api     |-> {[name |-> "k", val |-> <<1>>]}]

MCEnvs == {E1, E2, E3}
MCSettings == [encrypt : BOOLEAN, useEnv : BOOLEAN]
MCInitFiles == {NoFileV, <<1>>, <<2, 2>>, <<61, 61, 61, 61>>, Encode(SimpleEncrypt(MCTomlOf(C2), <<1, 3>>))}
MCCacheKeys == {<<"cert", "t">>, <<"token", "t">>}
MCCacheValues == {<<3>>}
=============================================================================
