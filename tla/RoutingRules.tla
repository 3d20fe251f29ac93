---------------------------- MODULE RoutingRules ----------------------------
(***************************************************************************)
(* The custom routing rules engine of src/src/routing/rules.rs: a list of  *)
(* rules kept sorted by priority, the patterns compiled from them keyed by *)
(* rule id, and the known upstream proxies.  The engine's operations are   *)
(* the actions; evaluate_rules and the pattern matchers are operators.     *)
(*                                                                         *)
(* Data.  A domain is a sequence of characters over a small alphabet in    *)
(* which "é" takes two bytes in UTF-8, so that byte lengths and character  *)
(* positions differ as they do in Rust strings.  An IPv4 address is a      *)
(* W-bit number; its text (ip.to_string()) keeps the dotted-quad shape.    *)
(* A rule's pattern string is one of: an address ([ip]), an address with   *)
(* a prefix length ([net, plen]), or text over the domain alphabet and the *)
(* wildcard characters.  Regex patterns ("^...") are not in the alphabet:  *)
(* the regex engine is out of the model's reach.                           *)
(***************************************************************************)
EXTENDS Naturals, Sequences, SequencesExt, OptionNone

CONSTANTS W,          \* address width in bits (32 for IPv4)
          Upstreams,  \* ids of configured upstream proxies
          RuleSpecs,  \* the rules a caller may pass to add_rule/update_rule
          Requests,   \* the (target, port, source, user) tuples evaluated
          NoUser      \* user = None

VARIABLES rules,      \* Vec<RoutingRule>, sorted by priority
          compiled,   \* compiled_patterns: rule id -> compiled pattern
          upstreams,  \* upstream_proxies: the ids registered
          undo,       \* history: the engine before the last successful add
          added       \* history: ids of the rules present, in insertion order

rrVars == <<rules, compiled, upstreams, undo, added>>

Addrs == 0..(2^W - 1)

\* UTF-8 length of a character of the model alphabet.
Width(c) == IF c = "é" THEN 2 ELSE 1

\* str::len(): the length in bytes.
ByteLen(s) == FoldLeft(LAMBDA n, c : n + Width(c), 0, s)

\* str::chars().nth(k): the k-th character, counting from 0.
NthChar(s, k) == IF k < Len(s) THEN s[k + 1] ELSE "none"

\* ip.to_string(): four numbers joined by dots.
IpText(a) == <<a, ".", a, ".", a, ".", a>>

\* The text of an address with a prefix length, "a/p".
NetText(p) == IpText(p.net) \o <<"/", p.plen>>

TargetStr(t) == IF t.kind = "domain" THEN t.name ELSE IpText(t.addr)

\* ipnet::IpNet::contains: the first plen bits agree.
InPrefix(a, net, plen) == a \div 2^(W - plen) = net \div 2^(W - plen)

(***************************************************************************)
(* compile_pattern: IP/CIDR, then a bare IP (exact text), then ".suffix",  *)
(* "*.base", (regex), a pattern containing * or ?, and otherwise exact.   *)
(* An "a/p" whose prefix is too long parses as neither and is exact text.  *)
(***************************************************************************)
CompilePattern(p) ==
    CASE "net" \in DOMAIN p /\ p.plen <= W -> [kind |-> "cidr", net |-> p.net, plen |-> p.plen]
      [] "net" \in DOMAIN p -> [kind |-> "exact", s |-> NetText(p)]
      [] "ip" \in DOMAIN p  -> [kind |-> "exact", s |-> IpText(p.ip)]
      [] IsPrefix(<<".">>, p.text) -> [kind |-> "suffix", s |-> p.text]
      [] IsPrefix(<<"*", ".">>, p.text) -> [kind |-> "subwild", s |-> Tail(Tail(p.text))]
      [] Contains(p.text, "*") \/ Contains(p.text, "?") -> [kind |-> "wild", s |-> p.text]
      [] OTHER -> [kind |-> "exact", s |-> p.text]

(***************************************************************************)
(* matches_wildcard: the pattern becomes the regex ^...$ with "." escaped, *)
(* "*" as ".*" and "?" as ".", which matches exactly as a glob does.       *)
(***************************************************************************)
RECURSIVE MatchesWildcard(_, _)
MatchesWildcard(p, t) ==
    IF p = <<>> THEN t = <<>>
    ELSE IF Head(p) = "*"
           THEN MatchesWildcard(Tail(p), t) \/ (t # <<>> /\ MatchesWildcard(p, Tail(t)))
         ELSE /\ t # <<>>
              /\ Head(p) \in {"?", Head(t)}
              /\ MatchesWildcard(Tail(p), Tail(t))

\* The SubdomainWildcard arm: the character at the byte offset just before
\* the base must be a dot.
SubdomainMatch(base, d) ==
    \/ d = base
    \/ /\ IsSuffix(base, d)
       /\ NthChar(d, ByteLen(d) - ByteLen(base) - 1) = "."

\* matches_pattern
MatchesPattern(cp, t) ==
    CASE cp.kind = "exact"   -> TargetStr(t) = cp.s
      [] cp.kind = "wild"    -> MatchesWildcard(cp.s, TargetStr(t))
      [] cp.kind = "cidr"    -> t.kind = "ipv4" /\ InPrefix(t.addr, cp.net, cp.plen)
      [] cp.kind = "suffix"  -> t.kind = "domain" /\ IsSuffix(cp.s, t.name)
      [] cp.kind = "subwild" -> t.kind = "domain" /\ SubdomainMatch(cp.s, t.name)

\* matches_ip_pattern: an exact address, or a CIDR that ipnet parses.
MatchesIpPattern(p, a) ==
    IF "ip" \in DOMAIN p THEN p.ip = a
    ELSE p.plen <= W /\ InPrefix(a, p.net, p.plen)

\* matches_rule: ports, source IPs, users, then the compiled pattern.
MatchesRule(c, r, q) ==
    /\ r.ports = None \/ q.port \in r.ports
    /\ r.srcs = None \/ \E p \in r.srcs : MatchesIpPattern(p, q.src)
    /\ \/ r.users = None
       \/ q.user # NoUser /\ q.user \in r.users
       \/ q.user = NoUser /\ r.users = {}
    /\ r.id \in DOMAIN c
    /\ MatchesPattern(c[r.id], q.target)

\* Fault variant of ApplyAction: the upstream id is used without looking
\* it up among the registered proxies.
ApplyActionNoLookup(a, ups) ==
    CASE a.type \in {"Allow", "Block", "Redirect"} -> [d |-> a.type, up |-> None]
      [] a.type = "Proxy"      -> [d |-> "Allow", up |-> a.up]
      [] a.type = "ProxyChain" -> [d |-> "Allow", up |-> IF a.ups = <<>> THEN None ELSE Head(a.ups)]

\* apply_action: unknown upstreams downgrade to a direct Allow.
ApplyAction(a, ups) ==
    LET Direct == [d |-> "Allow", up |-> None]
        Via(u) == IF u \in ups THEN [d |-> "Allow", up |-> u] ELSE Direct
    IN CASE a.type = "Allow"      -> Direct
         [] a.type = "Block"      -> [d |-> "Block", up |-> None]
         [] a.type = "Redirect"   -> [d |-> "Redirect", up |-> None]
         [] a.type = "Proxy"      -> Via(a.up)
         [] a.type = "ProxyChain" -> IF a.ups = <<>> THEN Direct ELSE Via(Head(a.ups))

\* evaluate_rules: the first enabled rule that matches decides.
EvaluateRules(rs, c, ups, q) ==
    LET RECURSIVE Scan(_)
        Scan(i) == IF i > Len(rs) THEN [d |-> "Allow", up |-> None]
                   ELSE IF rs[i].enabled /\ MatchesRule(c, rs[i], q)
                          THEN ApplyAction(rs[i].act, ups)
                          ELSE Scan(i + 1)
    IN Scan(1)
-----------------------------------------------------------------------------
(* The engine's state and operations *)

Engine == [rules |-> rules, compiled |-> compiled]

\* Fault variant of SortRulesByPriority: a rule goes before the rules of
\* equal priority (an unstable or reversed tie order).
SortRulesNewestFirst(rs) ==
    LET Insert(s, r) ==
          InsertAt(s, SelectLastInSeq(s, LAMBDA x : x.priority > r.priority) + 1, r)
    IN FoldLeft(Insert, <<>>, rs)

\* sort_rules_by_priority: Vec::sort_by on descending priority, which is
\* stable: each rule goes after every rule of greater or equal priority
\* that precedes it.
SortRulesByPriority(rs) ==
    LET Insert(s, r) ==
          InsertAt(s, SelectLastInSeq(s, LAMBDA x : x.priority >= r.priority) + 1, r)
    IN FoldLeft(Insert, <<>>, rs)

\* Fault variant of ValidateRule: duplicate ids are not rejected.
ValidateRuleAnyId(e, r) ==
    /\ ~(r.act.type = "Proxy" /\ r.act.up = "")
    /\ ~(r.act.type = "ProxyChain" /\ r.act.ups = <<>>)

\* validate_rule: a fresh id, a pattern that compiles, and a non-empty
\* upstream id or chain.
ValidateRule(e, r) ==
    /\ ~\E i \in 1..Len(e.rules) : e.rules[i].id = r.id
    /\ ~(r.act.type = "Proxy" /\ r.act.up = "")
    /\ ~(r.act.type = "ProxyChain" /\ r.act.ups = <<>>)

\* add_rule: validate, compile and insert the pattern, push, sort.  A rule
\* that fails validation leaves the engine as it was.
AddResult(e, r) ==
    IF ValidateRule(e, r)
      THEN [rules    |-> SortRulesByPriority(Append(e.rules, r)),
            compiled |-> [x \in DOMAIN e.compiled \cup {r.id} |->
                            IF x = r.id THEN CompilePattern(r.pat) ELSE e.compiled[x]]]
      ELSE e

\* remove_rule: the first rule with the id, and its compiled pattern.
RemoveResult(e, id) ==
    LET pos == SelectInSeq(e.rules, LAMBDA x : x.id = id) IN
    IF pos = 0 THEN e
    ELSE [rules    |-> RemoveAt(e.rules, pos),
          compiled |-> [x \in DOMAIN e.compiled \ {id} |-> e.compiled[x]]]

\* update_rule: remove_rule, then add_rule.
UpdateResult(e, r) == AddResult(RemoveResult(e, r.id), r)

\* The insertion history without id.
Without(s, id) == SelectSeq(s, LAMBDA x : x # id)

\* When the rule with this id was added, relative to the others present.
AddedAt(id) == SelectInSeq(added, LAMBDA x : x = id)

SetEngine(e) == rules' = e.rules /\ compiled' = e.compiled

RrInit ==
    /\ rules = <<>>
    /\ compiled = [x \in {} |-> None]
    /\ upstreams = {}
    /\ undo = None
    /\ added = <<>>

AddRule(r) ==
    /\ SetEngine(AddResult(Engine, r))
    /\ undo' = IF ValidateRule(Engine, r) THEN [id |-> r.id, before |-> Engine] ELSE None
    /\ added' = IF ValidateRule(Engine, r) THEN Append(added, r.id) ELSE added
    /\ UNCHANGED upstreams

RemoveRule(id) ==
    /\ SetEngine(RemoveResult(Engine, id))
    /\ undo' = None
    /\ added' = Without(added, id)
    /\ UNCHANGED upstreams

UpdateRule(r) ==
    /\ SetEngine(UpdateResult(Engine, r))
    /\ undo' = None
    /\ added' = IF ValidateRule(RemoveResult(Engine, r.id), r)
                 THEN Append(Without(added, r.id), r.id) ELSE Without(added, r.id)
    /\ UNCHANGED upstreams

\* add_upstream_proxy: insert (or replace) the proxy under its id.
AddUpstreamProxy(u) ==
    /\ upstreams' = upstreams \cup {u}
    /\ UNCHANGED <<rules, compiled, undo, added>>

\* clear_rules
ClearRules ==
    /\ rules' = <<>>
    /\ compiled' = [x \in {} |-> None]
    /\ undo' = None
    /\ added' = <<>>
    /\ UNCHANGED upstreams

RuleIds == {r.id : r \in RuleSpecs}

RrNext ==
    \/ \E r \in RuleSpecs : AddRule(r) \/ UpdateRule(r)
    \/ \E id \in RuleIds : RemoveRule(id)
    \/ \E u \in Upstreams : AddUpstreamProxy(u)
    \/ ClearRules

RrSpec == RrInit /\ [][RrNext]_rrVars

-----------------------------------------------------------------------------
(* Properties *)

RrTypeOK ==
    /\ rules \in Seq(RuleSpecs)
    /\ \A i, j \in 1..Len(rules) : rules[i].id = rules[j].id => i = j
    /\ DOMAIN compiled = {rules[i].id : i \in 1..Len(rules)}
    /\ upstreams \subseteq Upstreams
    /\ added \in Seq(RuleIds)

(***************************************************************************)
(* evaluate_rules returns the action of the highest-priority enabled rule  *)
(* that matches, the earliest added among rules of equal priority (spec   *)
(* section 3: "ties break by insertion order"), and a                     *)
(* direct Allow when none matches, after any sequence of add_rule,         *)
(* remove_rule, update_rule and clear_rules: the scan's first match agrees *)
(* with this declarative choice only while add_rule keeps the list sorted  *)
(* and every rule's compiled pattern is in the map.                        *)
(***************************************************************************)
FirstMatch ==
    \A q \in Requests :
        LET M == {i \in 1..Len(rules) : rules[i].enabled /\ MatchesRule(compiled, rules[i], q)}
            Best(i) == \A j \in M : rules[j].priority < rules[i].priority
                                    \/ /\ rules[j].priority = rules[i].priority
                                       /\ AddedAt(rules[i].id) <= AddedAt(rules[j].id)
        IN EvaluateRules(rules, compiled, upstreams, q) =
             IF M = {} THEN [d |-> "Allow", up |-> None]
             ELSE ApplyAction(rules[CHOOSE i \in M : Best(i)].act, upstreams)

(***************************************************************************)
(* remove_rule undoes add_rule: removing the id of a rule just added       *)
(* restores both the rule list and the compiled-pattern map exactly.       *)
(***************************************************************************)
AddThenRemoveRestores ==
    undo # None => RemoveResult(Engine, undo.id) = undo.before

(***************************************************************************)
(* A compiled "*.base" pattern matches base itself and exactly the        *)
(* domains that end in "." \o base (spec section 4.7), whatever           *)
(* characters the domain contains.                                        *)
(***************************************************************************)
SubdomainWildcardMatchesSubdomains ==
    \A id \in DOMAIN compiled, q \in Requests :
        LET c == compiled[id]
            d == q.target.name
        IN (c.kind = "subwild" /\ q.target.kind = "domain") =>
              (MatchesPattern(c, q.target) <=> (d = c.s \/ IsSuffix(<<".">> \o c.s, d)))
=============================================================================
