---------------------------- MODULE MC_Socks5Wire ----------------------------
(***************************************************************************)
(* Small peers for Socks5Wire.  Bytes: 97 is 'a', 98 is 'b'.  Port 258   *)
(* has two different bytes, so a byte-order slip shows.                   *)
(***************************************************************************)
EXTENDS Socks5Wire, MC_OptionNone

Ip4 == [atyp |-> 1, bytes |-> <<127, 0, 0, 1>>]
Ip6 == [atyp |-> 4, bytes |-> [i \in 1..16 |-> IF i = 16 THEN 1 ELSE 0]]
Name == [atyp |-> 3, bytes |-> <<97>>]
\* 't' stands for a name whose text contains "timeout", as in
\* "timeout.example.com".
TName == [atyp |-> 3, bytes |-> <<116>>]

Alice == [user |-> <<97>>, pass |-> <<98>>]

\* This server as the first proxy of a chain, and two other proxies.
Proxy(proto, a, p, c) == [proto |-> proto, addr |-> a, port |-> p, auth |-> c]
Ip4B == [atyp |-> 1, bytes |-> <<10, 0, 0, 2>>]
Ip4C == [atyp |-> 1, bytes |-> <<10, 0, 0, 3>>]
Px == Proxy("socks5", Ip4B, 1080, Alice)
Py == Proxy("socks5", Ip4C, 1080, NoneV)
Hx == Proxy("http", Ip4B, 8080, NoneV)
Us(c) == Proxy("socks5", Ip4, 1080, c)
Chain(hs, t) == [kind |-> "chain", hops |-> hs, target |-> t, port |-> 258]

\* One-proxy chains through this server: no credentials, the right ones,
\* a wrong password, or an empty user name (ULEN 0); longer chains, where
\* the stream to this server is driven with the second proxy's settings;
\* and HTTP proxies, whose request this server reads as a greeting (88
\* bytes with credentials to 127.0.0.1, more than VER, NMETHODS 'O' and
\* 79 methods; 39 bytes without, to "a").
ChainPeers ==
    {Chain(<<Us(c)>>, t) : c \in {NoneV, Alice}, t \in {Ip4, Ip6, Name, TName}}
    \cup
    {Chain(<<Us(c)>>, Name) : c \in {[user |-> <<97>>, pass |-> <<97>>],
                                     [user |-> <<>>, pass |-> <<98>>]}}
    \cup
    {Chain(<<Us(NoneV), Px>>, Name), Chain(<<Us(NoneV), Py>>, Name),
     Chain(<<Us(NoneV), Py, Px>>, Name),
     Chain(<<Us(NoneV), Hx>>, Name), Chain(<<Us(NoneV), Hx, Py>>, Name),
     Chain(<<Proxy("http", Ip4, 8080, NoneV)>>, Name),
     Chain(<<Proxy("http", Ip4, 8080, Alice)>>, Ip4)}

Raw(cs, cl) == [kind |-> "raw", chunks |-> cs, close |-> cl]

\* Raw peers for the decoders' error paths and for split frames.
RawPeers ==
    { Raw(<<<<5, 0>>>>, TRUE),                                \* NMETHODS 0
      Raw(<<<<4, 1, 0>>>>, TRUE),                             \* SOCKS4 greeting
      Raw(<<<<5, 1, 3>>>>, FALSE),                            \* no usable method
      Raw(<<<<5, 1, 0>>, <<5, 1, 0, 3, 0, 1, 2>>>>, TRUE),    \* empty domain
      Raw(<<<<5, 1, 0>>, <<5, 1, 0, 3, 1, 255, 1, 2>>>>, TRUE), \* non-UTF-8 name
      Raw(<<<<5, 1, 0>>, <<5, 3, 0, 9>>>>, TRUE),             \* unknown ATYP
      Raw(<<<<5, 1, 0>>, <<5, 4, 1, 1, 0, 0, 0, 0, 0, 0>>>>, TRUE), \* RSV and CMD
      Raw(<<<<5, 1, 2>>, <<1, 1, 97, 0>>>>, TRUE),            \* PLEN 0
      Raw(<<<<5, 1, 2>>, <<1, 1, 97>>>>, TRUE),               \* truncated userpass
      Raw(<<<<5, 2, 0>>, <<2>>, <<5, 2, 0, 1, 0, 0>>, <<0, 0, 1, 2>>>>, FALSE), \* BIND, split
      Raw(<<<<5, 1, 0>>, <<5, 3, 0, 3, 1, 97, 1, 2>>>>, FALSE),  \* UDP ASSOCIATE
      Raw(<<<<5, 1, 0>>, <<5, 1, 0, 1, 127>>>>, FALSE) }      \* stalls mid-request

MCClientSpecs == ChainPeers \cup RawPeers
MCUsers == {Alice}
MCNameWords(a) == IF a = TName THEN {"timeout"} ELSE {}
MCBoundAddr == [atyp |-> 1, bytes |-> <<0, 0, 0, 0>>]
==============================================================================
