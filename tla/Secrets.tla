------------------------------ MODULE Secrets ------------------------------
(***************************************************************************)
(* SecretsManager of src/src/security/secrets.rs: loading a SecureConfig   *)
(* from a file (plain or XOR-encrypted and base64-encoded) and from the    *)
(* environment, resolving *_env references, saving, the secrets cache, and *)
(* validate_user_credentials.  A manager is built with its settings and    *)
(* lives in one process, whose environment does not change.  Bytes are     *)
(* small numbers: plaintext bytes are below 4, under every base64          *)
(* character code, so String::from_utf8_lossy, which only touches bytes   *)
(* of 128 and above, returns its input here.  toml serialization is the    *)
(* injective TomlOf on the configurations a caller saves; toml::from_str   *)
(* parses exactly the images of TomlOf.  verify_password_hash always       *)
(* answers false, so password_hash only matters by not being a password   *)
(* and is left out.                                                        *)
(***************************************************************************)
EXTENDS Integers, Sequences, Bitwise, TLC, OptionNone

CONSTANTS FileConfigs,   \* SecureConfig values a caller passes to save_secure_config
          TomlOf(_),     \* toml::to_string_pretty on them, as bytes
          InitFiles,     \* what the file holds before the manager runs, or NoFile
          Envs,          \* the process environments
          Settings,      \* the SecureConfigSettings a manager is built with
          KeyVar,        \* config_encryption_key_env
          Names, Passwords,
          CacheKeys, CacheValues,
          NoFile

VARIABLES env,      \* the process environment
          settings, \* SecretsManager.config
          cache,    \* secrets_cache
          file,     \* the secure config file on disk
          saved,    \* history: the config last written by save_secure_config
          loaded,   \* the last outcome of load_secure_config
          lastSave  \* the last outcome of save_secure_config

secVars == <<env, settings, cache, file, saved, loaded, lastSave>>

Ok(c) == [st |-> "ok", cfg |-> c]
Err == [st |-> "err"]
Panic == [st |-> "panic"]

EmptyConfig == [users |-> <<>>, proxies |-> <<>>, tls |-> <<>>, api |-> <<>>]

\* The environment variable v, or None when it is not set.
Var(v) == IF v \in DOMAIN env.vars THEN env.vars[v] ELSE None

-----------------------------------------------------------------------------
(* Conversions *)

\* simple_encrypt and simple_decrypt: byte i XOR key byte (i mod key length).
SimpleEncrypt(data, key) == [i \in 1..Len(data) |-> data[i] ^^ key[((i - 1) % Len(key)) + 1]]
SimpleDecryptShifted(data, key) == [i \in 1..Len(data) |-> data[i] ^^ key[(i % Len(key)) + 1]]
SimpleDecrypt(data, key) == [i \in 1..Len(data) |-> data[i] ^^ key[((i - 1) % Len(key)) + 1]]

\* The STANDARD alphabet: 'A'..'Z', 'a'..'z', '0'..'9', '+', '/'; '=' pads.
B64Char(i) == CASE i < 26 -> 65 + i [] i < 52 -> 71 + i [] i < 62 -> i - 4
                [] i = 62 -> 43 [] OTHER -> 47
PadChar == 61
B64Index(c) == IF \E i \in 0..63 : B64Char(i) = c THEN CHOOSE i \in 0..63 : B64Char(i) = c ELSE -1

Take(s, n) == SubSeq(s, 1, IF n < Len(s) THEN n ELSE Len(s))
Drop(s, n) == SubSeq(s, n + 1, Len(s))

\* general_purpose::STANDARD.encode: three bytes to four characters, the
\* last group padded with '='.
RECURSIVE Encode(_)
Encode(s) ==
    IF s = <<>> THEN <<>>
    ELSE LET g == Take(s, 3)
             n == g[1] * 65536 + (IF Len(g) > 1 THEN g[2] * 256 ELSE 0) + (IF Len(g) > 2 THEN g[3] ELSE 0)
             q == <<n \div 262144, (n \div 4096) % 64, (n \div 64) % 64, n % 64>>
         IN [i \in 1..4 |-> IF i <= Len(g) + 1 THEN B64Char(q[i]) ELSE PadChar] \o Encode(Drop(s, 3))

\* One group of STANDARD.decode: canonical padding only in the last group,
\* and the bits a padded group drops must be zero.
DecodeGroup(c, last) ==
    LET pads == Len(SelectSeq(c, LAMBDA x : x = PadChar))
        idx  == [i \in 1..4 |-> IF i > 4 - pads THEN 0 ELSE B64Index(c[i])]
        n    == idx[1] * 262144 + idx[2] * 4096 + idx[3] * 64 + idx[4]
        out  == <<n \div 65536, (n \div 256) % 256, n % 256>>
    IN IF /\ pads <= 2 /\ (pads > 0 => last)
          /\ \A i \in 1..(4 - pads) : c[i] # PadChar /\ idx[i] >= 0
          /\ \A i \in (4 - pads)..3 : i > 0 => out[i] = 0
       THEN [ok |-> TRUE, bytes |-> Take(out, 3 - pads)]
       ELSE [ok |-> FALSE]

RECURSIVE Decode(_)
Decode(t) ==
    IF t = <<>> THEN [ok |-> TRUE, bytes |-> <<>>]
    ELSE IF Len(t) < 4 THEN [ok |-> FALSE]
    ELSE LET g == DecodeGroup(Take(t, 4), Len(t) = 4)
             r == Decode(Drop(t, 4))
         IN IF g.ok /\ r.ok THEN [ok |-> TRUE, bytes |-> g.bytes \o r.bytes] ELSE [ok |-> FALSE]

\* toml::from_str.
Parse(bytes) ==
    IF \E c \in FileConfigs : TomlOf(c) = bytes
      THEN Ok(CHOOSE c \in FileConfigs : TomlOf(c) = bytes) ELSE Err

-----------------------------------------------------------------------------
(* load_secure_config and its helpers *)

\* load_from_file: the file's text, decrypted first when encrypt_config is
\* set; a missing key or a bad encoding is an error, and a key that is set
\* but empty makes the XOR's i % 0 panic on any non-empty data.
LoadFromFile(content) ==
    IF ~settings.encrypt THEN Parse(content)
    ELSE LET key == Var(KeyVar)
             dec == Decode(content)
         IN CASE key = None                       -> Err
              [] ~dec.ok                          -> Err
              [] key = <<>> /\ dec.bytes # <<>>   -> Panic
              [] OTHER -> Parse(SimpleDecrypt(dec.bytes, key))

\* The USER_<i>_* loop: users are read from index 0 up to the first index
\* whose USERNAME is unset; ENABLED parses as a bool, defaulting to true.
RECURSIVE EnvUsers(_)
EnvUsers(us) ==
    IF us = <<>> \/ Head(us).name = None THEN <<>>
    ELSE <<[name |-> Head(us).name, pw |-> Head(us).pw, pwEnv |-> None,
            enabled |-> Head(us).en # "false"]>> \o EnvUsers(Tail(us))

\* The PROXY_<i>_* loop, up to the first unset NAME; USERNAME defaults to "".
RECURSIVE EnvProxies(_)
EnvProxies(ps) ==
    IF ps = <<>> \/ Head(ps).name = None THEN <<>>
    ELSE <<[name |-> Head(ps).name, pwEnv |-> None, pw |-> Head(ps).pw,
            user |-> IF Head(ps).user = None THEN <<>> ELSE Head(ps).user]>>
         \o EnvProxies(Tail(ps))

\* The lower-cased API names of the API_KEY_* variables.
ApiNames == {v.name : v \in env.api}

\* load_from_environment: users and proxies are appended to what the file
\* gave; each API key is inserted under its lower-cased name, the variable
\* env::vars() yields last winning (pick) when two differ only in case.
LoadFromEnvironment(c, pick) ==
    [c EXCEPT !.users = @ \o EnvUsers(env.users),
              !.proxies = @ \o EnvProxies(env.proxies),
              !.api = [n \in DOMAIN @ \cup ApiNames |-> IF n \in ApiNames THEN pick[n].val ELSE @[n]]]

\* resolve_secrets: a missing password is read from its *_env variable.
Resolved(r) == IF r.pw = None /\ r.pwEnv # None /\ Var(r.pwEnv) # None
                 THEN [r EXCEPT !.pw = Var(r.pwEnv)] ELSE r

\* resolve_secrets' TLS loop: each certificate and key found in the
\* environment goes into the cache, later entries overwriting earlier ones.
RECURSIVE CacheTls(_, _)
CacheTls(ts, m) ==
    IF ts = <<>> THEN m
    ELSE LET t == Head(ts)
             add(k, v) == IF v # None /\ Var(v) # None THEN (k :> Var(v)) ELSE <<>>
         IN CacheTls(Tail(ts), add(<<"cert", t.name>>, t.cert) @@ add(<<"key", t.name>>, t.key) @@ m)

ResolveSecrets(c) ==
    [c EXCEPT !.users = [i \in DOMAIN @ |-> Resolved(@[i])],
              !.proxies = [i \in DOMAIN @ |-> Resolved(@[i])]]

\* secure_compare: unequal lengths differ; otherwise OR the XORs of the
\* byte pairs.
SecureCompareUnchecked(a, b) ==
    \A i \in 1..(IF Len(a) < Len(b) THEN Len(a) ELSE Len(b)) : a[i] ^^ b[i] = 0
SecureCompare(a, b) == Len(a) = Len(b) /\ \A i \in 1..Len(a) : a[i] ^^ b[i] = 0

\* validate_user_credentials: some enabled user of that name has a password
\* equal to the one given (a password_hash never verifies).
ValidateUserCredentials(c, u, p) ==
    \E i \in DOMAIN c.users :
        /\ c.users[i].name = u /\ c.users[i].enabled
        /\ c.users[i].pw # None /\ SecureCompare(p, c.users[i].pw)

-----------------------------------------------------------------------------
(* Operations *)

SecInit ==
    /\ env \in Envs
    /\ settings \in Settings
    /\ cache = <<>>
    /\ file \in InitFiles
    /\ saved = None
    /\ loaded = None
    /\ lastSave = None

\* load_secure_config(path): the file if a path is given and exists, then
\* the environment if use_env_secrets, then resolve_secrets.
LoadSecureConfig(usePath) ==
    LET base == IF usePath /\ file # NoFile THEN LoadFromFile(file) ELSE Ok(EmptyConfig)
    IN IF base.st # "ok"
         THEN loaded' = base /\ UNCHANGED <<cache>>
         ELSE \E pick \in [ApiNames -> env.api] :
                /\ \A n \in ApiNames : pick[n].name = n
                /\ LET c == IF settings.useEnv THEN LoadFromEnvironment(base.cfg, pick) ELSE base.cfg
                   IN /\ loaded' = Ok(ResolveSecrets(c))
                      /\ cache' = CacheTls(c.tls, cache)

\* save_secure_config(config): toml, encrypted and encoded when
\* encrypt_config is set, then written.
SaveSecureConfig(c) ==
    LET text == TomlOf(c)
        key == Var(KeyVar)
    IN IF settings.encrypt /\ key = None
         THEN lastSave' = "err" /\ UNCHANGED <<file, saved>>
       ELSE IF settings.encrypt /\ key = <<>> /\ text # <<>>
         THEN lastSave' = "panic" /\ UNCHANGED <<file, saved>>
       ELSE /\ file' = IF settings.encrypt THEN Encode(SimpleEncrypt(text, key)) ELSE text
            /\ saved' = c
            /\ lastSave' = "ok"

StoreSecretSwapped(k, v) == cache' = (v :> k) @@ cache
StoreSecret(k, v) == cache' = (k :> v) @@ cache

ClearSecretsCache == cache' = <<>>

SecNext ==
    \/ \E usePath \in BOOLEAN :
         LoadSecureConfig(usePath) /\ UNCHANGED <<env, settings, file, saved, lastSave>>
    \/ \E c \in FileConfigs :
         SaveSecureConfig(c) /\ UNCHANGED <<env, settings, cache, loaded>>
    \/ \E k \in CacheKeys, v \in CacheValues :
         StoreSecret(k, v) /\ UNCHANGED <<env, settings, file, saved, loaded, lastSave>>
    \/ ClearSecretsCache /\ UNCHANGED <<env, settings, file, saved, loaded, lastSave>>

SecSpec == SecInit /\ [][SecNext]_secVars

-----------------------------------------------------------------------------
(* Properties *)

\* The cache only holds what store_secret and the TLS loop of
\* resolve_secrets put there, under their keys; the file is text (or
\* absent), as read_to_string in load_from_file requires.
SecTypeOK ==
    /\ DOMAIN cache \subseteq CacheKeys \cup ({"cert", "key"} \X Names)
    /\ file = NoFile \/ file \in Seq(0..127)
    /\ lastSave \in {None, "ok", "err", "panic"}
    /\ loaded = None \/ loaded.st \in {"ok", "err", "panic"}

\* Whatever save_secure_config last wrote, load_from_file reads back as
\* the same configuration under the same settings and environment: the
\* XOR key is cycled from the same offset in simple_encrypt and
\* simple_decrypt, and STANDARD.decode accepts exactly what encode emits.
FileRoundTrip ==
    lastSave = "ok" => LoadFromFile(file) = Ok(saved)

\* The passwords a source grants user u: the enabled file users of that
\* name, with password_env resolved, and the enabled USER_<i>_* entries of
\* the environment that precede every unset USERNAME.
FilePasswords(u) ==
    UNION { { Resolved(c.users[i]).pw :
                i \in {j \in DOMAIN c.users : c.users[j].name = u /\ c.users[j].enabled} } :
            c \in FileConfigs }
EnvPasswords(u) ==
    IF ~settings.useEnv THEN {}
    ELSE { env.users[i].pw : i \in { j \in DOMAIN env.users :
                 /\ \A k \in 1..j : env.users[k].name # None
                 /\ env.users[j].name = u /\ env.users[j].en # "false" } }

\* validate_user_credentials, against the configuration load_secure_config
\* returned, accepts a password only if it is exactly one of those
\* (secure_compare's length check; the environment loop's stop at the
\* first gap; ENABLED=false honoured).
AcceptedOnlyFromSources ==
    loaded # None /\ loaded.st = "ok" =>
        \A u \in Names, p \in Passwords :
            ValidateUserCredentials(loaded.cfg, u, p) => p \in FilePasswords(u) \cup EnvPasswords(u)
=============================================================================
