------------------------------ MODULE Socks5Wire ------------------------------
(***************************************************************************)
(* One SOCKS5 connection on the wire: the server side of                  *)
(* protocol/handler.rs driven by handle_connection_static                  *)
(* (connection/manager.rs), and on the other end either this repository's  *)
(* proxy chain connector (routing/chain.rs, using the client half of      *)
(* handler.rs) with this server as its first proxy, or a raw peer that    *)
(* writes a fixed script of bytes.  The two directions are byte pipes (c2s, s2c); each   *)
(* side may close its end.  A server step runs from one blocking read to   *)
(* the next: read_exact waits until the bytes it needs have arrived and   *)
(* fails at end of stream.  A write to a peer that has closed may still   *)
(* succeed (the bytes are lost) or fail.                                   *)
(*                                                                         *)
(* Bytes are integers 0..255; names and credentials are short sequences   *)
(* of ASCII bytes, or the byte 255, which no UTF-8 text contains.  The    *)
(* router's decision and the outcome of dialling are chosen freely here   *)
(* (Router.tla models the router); the text of a dial error is abstracted *)
(* to the set of substrings connection_error_to_socks5_code looks for.    *)
(***************************************************************************)
EXTENDS Naturals, Sequences, SequencesExt, OptionNone

CONSTANTS ClientSpecs, \* what the peer is: our chain connector with its
                       \* proxies, target and port, or a raw script
          Users,       \* enabled [user, pass] pairs of the user store
          NameWords(_), \* the scanned substrings a target's text contains
          BoundAddr,   \* the local address of a BIND or UDP socket
          BoundPort

VARIABLES c2s,     \* bytes written by the client, not yet read by the server
          s2c,     \* bytes written by the server, not yet read by the client
          cOpen,   \* the client's end is open
          sOpen,   \* the server's end is open
          cli,     \* the peer, one of ClientSpecs
          cpc,     \* the client's place in its code
          rawAt,   \* chunks of a raw script written so far
          spc,     \* the server's place in handle_connection_static
          srvCmd,  \* the command handle_request returned, or None
          replies, \* history: the REP codes of the SOCKS5 replies written
          dial     \* history: the cause and reply code of the last dial

wireVars == <<c2s, s2c, cOpen, sOpen, cli, cpc, rawAt, spc, srvCmd, replies, dial>>

Ver == 5
Ascii(s) == \A k \in 1..Len(s) : s[k] < 128

(***************************************************************************)
(* Decoders.  A decoder looks at the bytes a sequence of read_exact calls  *)
(* would consume: Need when the bytes end before the frame does (the read *)
(* blocks, or fails at end of stream), Bad when the frame is rejected,    *)
(* else the value and the number of bytes consumed.                       *)
(***************************************************************************)
Need == [st |-> "need"]
Bad == [st |-> "err"]
Got(v, n) == [st |-> "ok", v |-> v, n |-> n]

AfterFrame(b, r) == SubSeq(b, r.n + 1, Len(b))

\* read_greeting: VER NMETHODS, NMETHODS = 0 rejected, then the methods;
\* handle_handshake checks VER afterwards.
DecodeGreeting(b) ==
    IF Len(b) < 2 THEN Need
    ELSE IF b[2] = 0 THEN Bad
    ELSE IF Len(b) < 2 + b[2] THEN Need
    ELSE IF b[1] # Ver THEN Bad
    ELSE Got(SubSeq(b, 3, 2 + b[2]), 2 + b[2])

\* The address of read_request / receive_connect_response at index i:
\* IPv4 4 bytes, IPv6 16 bytes, or a length byte (0 rejected) and a name
\* that must be UTF-8.
DecodeAddr(b, i, atyp) ==
    IF atyp = 1 THEN IF Len(b) < i + 3 THEN Need
                     ELSE Got([atyp |-> 1, bytes |-> SubSeq(b, i, i + 3)], 4)
    ELSE IF atyp = 4 THEN IF Len(b) < i + 15 THEN Need
                          ELSE Got([atyp |-> 4, bytes |-> SubSeq(b, i, i + 15)], 16)
    ELSE IF atyp = 3 THEN
        IF Len(b) < i THEN Need
        ELSE IF b[i] = 0 THEN Bad
        ELSE IF Len(b) < i + b[i] THEN Need
        ELSE IF ~Ascii(SubSeq(b, i + 1, i + b[i])) THEN Bad
        ELSE Got([atyp |-> 3, bytes |-> SubSeq(b, i + 1, i + b[i])], 1 + b[i])
    ELSE Bad

\* Fault variant of DecodeAddrPort: the port is read little-endian.
DecodeAddrPortLE(b) ==
    LET a == DecodeAddr(b, 5, b[4]) IN
    IF a.st # "ok" THEN a
    ELSE IF Len(b) < 6 + a.n THEN Need
    ELSE Got([addr |-> a.v, port |-> b[6 + a.n] * 256 + b[5 + a.n]], 6 + a.n)

\* The address and the big-endian port after a 4-byte header.
DecodeAddrPort(b) ==
    LET a == DecodeAddr(b, 5, b[4]) IN
    IF a.st # "ok" THEN a
    ELSE IF Len(b) < 6 + a.n THEN Need
    ELSE Got([addr |-> a.v, port |-> b[5 + a.n] * 256 + b[6 + a.n]], 6 + a.n)

\* read_request, then handle_request's checks of VER, RSV and CMD.
DecodeRequest(b) ==
    IF Len(b) < 4 THEN Need
    ELSE LET t == DecodeAddrPort(b) IN
         IF t.st # "ok" THEN t
         ELSE IF b[1] # Ver \/ b[3] # 0 \/ b[2] \notin {1, 2, 3} THEN Bad
         ELSE Got([cmd |-> b[2], addr |-> t.v.addr, port |-> t.v.port], t.n)

\* receive_connect_response: VER is checked before the address; RSV is not.
DecodeReply(b) ==
    IF Len(b) < 4 THEN Need
    ELSE IF b[1] # Ver THEN Bad
    ELSE LET t == DecodeAddrPort(b) IN
         IF t.st # "ok" THEN t
         ELSE Got([rep |-> b[2], addr |-> t.v.addr, port |-> t.v.port], t.n)

\* handle_userpass_auth: VER 1, ULEN in 1..255, UNAME, PLEN in 1..255, PASSWD.
DecodeUserPass(b) ==
    IF Len(b) < 2 THEN Need
    ELSE IF b[1] # 1 \/ b[2] = 0 THEN Bad
    ELSE LET u == b[2] IN
         IF Len(b) < 3 + u THEN Need
         ELSE IF b[3 + u] = 0 THEN Bad
         ELSE IF Len(b) < 3 + u + b[3 + u] THEN Need
         ELSE Got([user |-> SubSeq(b, 3, 2 + u),
                   pass |-> SubSeq(b, 4 + u, 3 + u + b[3 + u])], 3 + u + b[3 + u])

(***************************************************************************)
(* Encoders: send_greeting, authenticate_username_password's frame,        *)
(* send_connect_request and send_response.  Lengths are cast to u8.  The   *)
(* "Domain name too long" check of the last two never fires here: every   *)
(* name of the model is shorter than 256 bytes.                            *)
(***************************************************************************)
\* Fault variant of PortBytes: the low byte is not truncated to u8.
PortBytesUnmasked(p) == <<p \div 256, p>>
PortBytes(p) == <<p \div 256, p % 256>>
AddrBytes(a) == IF a.atyp = 3 THEN <<Len(a.bytes) % 256>> \o a.bytes ELSE a.bytes
GreetingBytes(ms) == <<Ver, Len(ms) % 256>> \o ms
UserPassBytes(c) == <<1, Len(c.user) % 256>> \o c.user \o <<Len(c.pass) % 256>> \o c.pass
FrameBytes(code, a, p) == <<Ver, code, 0, a.atyp>> \o AddrBytes(a) \o PortBytes(p)

\* Socks5Response::error: the reply code with 0.0.0.0:0.
Zero4 == [atyp |-> 1, bytes |-> <<0, 0, 0, 0>>]

\* RelayEngine::connection_error_to_socks5_code: a substring scan of the
\* lower-cased error text, in this order.
ConnectionErrorCode(e) ==
    IF "timed out" \in e \/ "timeout" \in e THEN 6
    ELSE IF "refused" \in e THEN 5
    ELSE IF "unreachable" \in e THEN 3
    ELSE IF "no route" \in e THEN 4
    ELSE IF "dns" \in e \/ "resolution" \in e THEN 4
    ELSE 1

(***************************************************************************)
(* RelayEngine::connect_to_target.  A literal address resolves to itself; *)
(* a name resolves to one or two addresses or fails (lookup error,        *)
(* timeout, no addresses).  Each address is tried in turn until one       *)
(* connects.  The error's text, which the reply code is computed from, is *)
(* what Display shows of the anyhow error: for a failed resolution only   *)
(* the outer context "Failed to resolve target address"; for failed       *)
(* connects "Failed to connect to target <target>:<port>: " and the last  *)
(* attempt's error, so the target's own text is scanned too.              *)
(***************************************************************************)
Attempts == {"ok", "refused", "timeout", "netunreach", "noroute"}

\* The scanned substrings of try_connect_to_address's errors: "Connection
\* failed: <io error>" and "Connection timed out".
IoWords(o) ==
    CASE o = "refused"    -> {"refused"}
      [] o = "timeout"    -> {"timed out"}
      [] o = "netunreach" -> {"unreachable"}
      [] o = "noroute"    -> {"no route"}

ResolveFailures(a) ==
    IF a.atyp = 3 THEN {"dns failed", "dns timed out", "dns empty"} ELSE {}
ResolvedCounts(a) == IF a.atyp = 3 THEN {1, 2} ELSE {1}

\* The outcome of trying the resolved addresses with results t.
Tried(a, t) ==
    IF \E i \in DOMAIN t : t[i] = "ok"
      THEN [ok |-> TRUE, cause |-> "ok", code |-> 0]
      ELSE [ok |-> FALSE, cause |-> t[Len(t)],
            code |-> ConnectionErrorCode(NameWords(a) \cup IoWords(t[Len(t)]))]

ConnectResults(a) ==
    {[ok |-> FALSE, cause |-> r, code |-> ConnectionErrorCode({})] : r \in ResolveFailures(a)}
    \cup
    {Tried(a, t) : t \in UNION {[1..n -> Attempts] : n \in ResolvedCounts(a)}}

\* AuthMethod::method_code of select_auth_method's choice: NoAuth if
\* offered, else UserPass if offered, else 0xFF.
SelectAuthMethod(ms) ==
    IF 0 \in ToSet(ms) THEN 0 ELSE IF 2 \in ToSet(ms) THEN 2 ELSE 255
-----------------------------------------------------------------------------
(* The server: handle_connection_static over a Socks5Handler *)

\* A write to the client: delivered while its end is open; after it closed
\* the write may report success (the bytes are lost) or fail.
SrvWriteOutcomes == IF cOpen THEN {TRUE} ELSE {TRUE, FALSE}
SrvWrite(bytes) == s2c' = IF cOpen THEN s2c \o bytes ELSE s2c

\* The server moves to p; "closed" drops the stream and its unread bytes.
SrvGo(p, rest) ==
    /\ spc' = p
    /\ sOpen' = (p # "closed")
    /\ c2s' = IF p = "closed" THEN <<>> ELSE rest

\* send_response(code, addr, port); a failed write sends nothing.
Reply(code, a, p, ok) ==
    /\ SrvWrite(FrameBytes(code, a, p))
    /\ replies' = IF ok THEN Append(replies, code) ELSE replies

\* A server step that reads c2s is enabled when its frame is complete or
\* the client's end is closed (read_exact then fails).
Readable(r) == r.st # "need" \/ ~cOpen

(***************************************************************************)
(* handle_handshake and the manager's match on its result: a rejected or  *)
(* truncated greeting ends the task without a reply; otherwise the method *)
(* is sent; Unsupported (0xFF) closes, UserPass continues with the        *)
(* sub-negotiation, NoAuth goes straight to the request (the result of    *)
(* authenticate(NoAuth) is not looked at).                                 *)
(***************************************************************************)
Handshake ==
    LET r == DecodeGreeting(c2s) IN
    /\ spc = "greeting"
    /\ Readable(r)
    /\ IF r.st # "ok"
         THEN SrvGo("closed", <<>>) /\ UNCHANGED s2c
         ELSE LET m == SelectAuthMethod(r.v) IN
              \E ok \in SrvWriteOutcomes :
                 /\ SrvWrite(<<Ver, m>>)
                 /\ SrvGo(IF ~ok \/ m = 255 THEN "closed"
                          ELSE IF m = 2 THEN "userpass" ELSE "request",
                          AfterFrame(c2s, r))
    /\ UNCHANGED <<cOpen, cli, cpc, rawAt, srvCmd, replies, dial>>

(***************************************************************************)
(* handle_userpass_auth, authenticate(UserPass) and                        *)
(* send_userpass_auth_response: a malformed frame gets status 1 and ends  *)
(* the task; credentials of an enabled user get status 0 and the request  *)
(* follows; others get status 1 and the connection closes.                 *)
(***************************************************************************)
UserPassAuth ==
    LET r == DecodeUserPass(c2s) IN
    /\ spc = "userpass"
    /\ Readable(r)
    /\ \E ok \in SrvWriteOutcomes :
         IF r.st # "ok"
           THEN SrvWrite(<<1, 1>>) /\ SrvGo("closed", <<>>)
           ELSE LET good == r.v \in Users IN
                /\ SrvWrite(<<1, IF good THEN 0 ELSE 1>>)
                /\ SrvGo(IF ok /\ good THEN "request" ELSE "closed", AfterFrame(c2s, r))
    /\ UNCHANGED <<cOpen, cli, cpc, rawAt, srvCmd, replies, dial>>

(***************************************************************************)
(* Step 4 for a decoded request q: the router's decision d, then for an   *)
(* allowed CONNECT the dial (an error is mapped to its reply code and     *)
(* ends the task, success is answered 0.0.0.0:0 and the relay starts),    *)
(* for an allowed BIND or UDP ASSOCIATE the socket (a bind error is a     *)
(* general failure) and the first reply with its local address; a failed *)
(* first reply makes the manager write a general failure to the broken   *)
(* stream, which fails as well.  Block replies 0x02, Redirect 0x01.       *)
(***************************************************************************)
\* Fault variant of Dispatch: a CONNECT whose dial failed sends the error
\* reply and carries on to the success reply.
DispatchFallThrough(q, rest) ==
    \E o \in ConnectResults(q.addr) :
       /\ q.cmd = 1 /\ ~o.ok
       /\ SrvWrite(FrameBytes(o.code, Zero4, 0) \o FrameBytes(0, Zero4, 0))
       /\ replies' = replies \o <<o.code, 0>>
       /\ dial' = o
       /\ SrvGo("relay", rest)

\* The Block and Redirect arms, alike for the three commands: Connection
\* not allowed (0x02), or a general failure (0x01) for a redirect.
Refused(d, ok, rest) ==
    /\ \/ d = "Block" /\ Reply(2, Zero4, 0, ok)
       \/ d = "Redirect" /\ Reply(1, Zero4, 0, ok)
    /\ SrvGo("closed", rest)
    /\ UNCHANGED dial

\* CONNECT allowed: the dial's error is mapped to its reply code and ends
\* the task; success is answered 0.0.0.0:0 and the relay starts.
ConnectAllowed(q, ok, rest) ==
    \E o \in ConnectResults(q.addr) :
       /\ dial' = o
       /\ \/ ~o.ok /\ Reply(o.code, Zero4, 0, ok) /\ SrvGo("closed", rest)
          \/ o.ok /\ Reply(0, Zero4, 0, ok) /\ SrvGo(IF ok THEN "relay" ELSE "closed", rest)

\* BIND allowed: a listener that fails to bind is a general failure;
\* otherwise the first reply carries its local address.
BindAllowed(ok, rest) ==
    /\ UNCHANGED dial
    /\ \/ Reply(1, Zero4, 0, ok) /\ SrvGo("closed", rest)
       \/ Reply(0, BoundAddr, BoundPort, ok) /\ SrvGo(IF ok THEN "bindwait" ELSE "closed", rest)

\* UDP ASSOCIATE allowed: the same for the UDP socket, then the sleep.
UdpAllowed(ok, rest) ==
    /\ UNCHANGED dial
    /\ \/ Reply(1, Zero4, 0, ok) /\ SrvGo("closed", rest)
       \/ Reply(0, BoundAddr, BoundPort, ok) /\ SrvGo(IF ok THEN "udpwait" ELSE "closed", rest)

Dispatch(q, rest) ==
    \E d \in {"Allow", "Block", "Redirect"}, ok \in SrvWriteOutcomes :
       \/ Refused(d, ok, rest)
       \/ d = "Allow" /\ q.cmd = 1 /\ ConnectAllowed(q, ok, rest)
       \/ d = "Allow" /\ q.cmd = 2 /\ BindAllowed(ok, rest)
       \/ d = "Allow" /\ q.cmd = 3 /\ UdpAllowed(ok, rest)

\* handle_request and the command's handling: a malformed or unsupported
\* request ends the task without a reply.
Request ==
    LET r == DecodeRequest(c2s) IN
    /\ spc = "request"
    /\ Readable(r)
    /\ IF r.st # "ok"
         THEN SrvGo("closed", <<>>) /\ UNCHANGED <<s2c, srvCmd, replies, dial>>
         ELSE srvCmd' = r.v /\ Dispatch(r.v, AfterFrame(c2s, r))
    /\ UNCHANGED <<cOpen, cli, cpc, rawAt>>

\* handle_bind_command after its first reply: accept() yields a peer (a
\* second success reply) or fails or times out (a general failure).
BindAccept ==
    /\ spc = "bindwait"
    /\ \E accepted \in BOOLEAN, ok \in SrvWriteOutcomes :
          IF accepted THEN Reply(0, BoundAddr, BoundPort, ok)
                      ELSE Reply(1, Zero4, 0, ok)
    /\ SrvGo("closed", c2s)
    /\ UNCHANGED <<cOpen, cli, cpc, rawAt, srvCmd, dial>>

\* handle_udp_associate_command's sleep ends, or the relay finishes.
ServerDone ==
    /\ spc \in {"udpwait", "relay"}
    /\ SrvGo("closed", c2s)
    /\ UNCHANGED <<s2c, cOpen, cli, cpc, rawAt, srvCmd, replies, dial>>

\* The handshake_timeout around the whole task fires: the future is dropped
\* and the stream closed, without a reply.
HandshakeTimeout ==
    /\ spc # "closed"
    /\ SrvGo("closed", c2s)
    /\ UNCHANGED <<s2c, cOpen, cli, cpc, rawAt, srvCmd, replies, dial>>

-----------------------------------------------------------------------------
(* The client: ProxyChainConnector::connect_through_chain, or a raw script *)

(***************************************************************************)
(* A chain is a Vec of proxies [proto, addr, port, auth]; this server is  *)
(* the first, which connect_to_first_proxy dials.  connect_through_chain  *)
(* then hands that stream to chain_through_proxy for the second proxy     *)
(* (the loop skips index 0), or, for a chain of one, to                    *)
(* connect_to_target_through_proxy for the last.  Speaking is the proxy   *)
(* whose protocol and credentials the code uses on the stream to this     *)
(* server.                                                                 *)
(***************************************************************************)
Speaking == IF Len(cli.hops) = 1 THEN cli.hops[1] ELSE cli.hops[2]

\* get_next_proxy_after: the proxy after the first one with the same
\* address, port and protocol.
NextAfter(h) ==
    LET j == SelectInSeq(cli.hops, LAMBDA q : q.addr = h.addr /\ q.port = h.port
                                             /\ q.proto = h.proto)
    IN IF j + 1 <= Len(cli.hops) THEN cli.hops[j + 1] ELSE None

\* What the exchange asks this server to connect to: the target, or the
\* proxy after Speaking (TargetAddr::from_socket_addr), or None when the
\* lookup finds none and the code returns "No next proxy found in chain".
Asked ==
    IF Len(cli.hops) = 1 THEN [addr |-> cli.target, port |-> cli.port]
    ELSE LET n == NextAfter(Speaking) IN
         IF n = None THEN None ELSE [addr |-> n.addr, port |-> n.port]

\* Where a tunnel through this server leads: the target, or further
\* proxies that are not modelled.
Tunnel == IF Len(cli.hops) = 1 THEN "ok" ELSE "beyond"

\* The method our client offers: UserPass when the hop has credentials.
Offered == IF Speaking.auth = None THEN 0 ELSE 2

\* send_connect_request for what the exchange asks.
RequestBytes == FrameBytes(1, Asked.addr, Asked.port)

(***************************************************************************)
(* The HTTP CONNECT request of connect_to_target_through_http and          *)
(* chain_through_http_proxy: "CONNECT h:p HTTP/1.1\r\nHost: h:p\r\n", a   *)
(* "Proxy-Authorization: Basic <base64(user:pass)>\r\n" line with         *)
(* credentials, and "\r\n".  A SOCKS5 server reads it as VER 'C' (67),    *)
(* NMETHODS 'O' (79) and method bytes it never inspects, so the text is   *)
(* kept as its first two bytes and its length.  The host is the address   *)
(* as text: dotted decimal, or the name (the IPv6 text form is not        *)
(* modelled, and no model gives an HTTP hop an IPv6 target).              *)
(***************************************************************************)
Digits(n) == IF n < 10 THEN 1 ELSE IF n < 100 THEN 2 ELSE IF n < 1000 THEN 3
             ELSE IF n < 10000 THEN 4 ELSE 5
HostLen(a) ==
    CASE a.atyp = 1 -> 3 + Digits(a.bytes[1]) + Digits(a.bytes[2])
                         + Digits(a.bytes[3]) + Digits(a.bytes[4])
      [] a.atyp = 3 -> Len(a.bytes)
AuthLineLen(c) == 27 + 4 * ((Len(c.user) + 1 + Len(c.pass) + 2) \div 3) + 2
HttpConnectBytes(a, p, c) ==
    LET n == 29 + 2 * (HostLen(a) + 1 + Digits(p)) + (IF c = None THEN 0 ELSE AuthLineLen(c))
    IN <<67, 79>> \o [k \in 1..(n - 2) |-> 32]

\* "HTTP/1.1 200" and "HTTP/1.0 200" in ASCII.
HttpOk(minor) == <<72, 84, 84, 80, 47, 49, 46, minor, 32, 50, 48, 48>>

CliWriteOutcomes == IF sOpen THEN {TRUE} ELSE {TRUE, FALSE}
CliWrite(bytes) == c2s' = IF sOpen THEN c2s \o bytes ELSE c2s

\* The client moves to p; on "failed" the Err drops the handler and the
\* stream with it.
CliGo(p, rest) ==
    /\ cpc' = p
    /\ cOpen' = (p # "failed")
    /\ s2c' = IF p = "failed" THEN <<>> ELSE rest

\* A client step that reads s2c waits for its bytes or end of stream.
CliReadable(r) == r.st # "need" \/ ~sOpen

\* Two bytes VER STATUS, as receive_auth_method and the end of
\* authenticate_username_password read them.
Pair(b) == IF Len(b) < 2 THEN Need ELSE Got(<<b[1], b[2]>>, 2)

\* The first write on the stream: send_greeting(&[auth_method]) for a
\* SOCKS5 proxy; for an HTTP proxy the next-proxy lookup (when chaining)
\* and then the CONNECT request.
CliGreet ==
    /\ cpc = "greet"
    /\ \E ok \in CliWriteOutcomes :
         \/ /\ Speaking.proto = "socks5"
            /\ CliWrite(GreetingBytes(<<Offered>>))
            /\ CliGo(IF ok THEN "method" ELSE "failed", s2c)
         \/ /\ Speaking.proto = "http" /\ Asked = None
            /\ CliGo("failed", s2c) /\ UNCHANGED c2s
         \/ /\ Speaking.proto = "http" /\ Asked # None
            /\ CliWrite(HttpConnectBytes(Asked.addr, Asked.port, Speaking.auth))
            /\ CliGo(IF ok THEN "httpread" ELSE "failed", s2c)
    /\ UNCHANGED <<sOpen, cli, rawAt, spc, srvCmd, replies, dial>>

\* stream.read of the HTTP response (whatever has arrived, or 0 bytes at
\* end of stream) and the test for a 200 status line.
CliHttpRead ==
    /\ cpc = "httpread"
    /\ s2c # <<>> \/ ~sOpen
    /\ CliGo(IF IsPrefix(HttpOk(49), s2c) \/ IsPrefix(HttpOk(48), s2c) THEN Tunnel ELSE "failed",
             <<>>)
    /\ UNCHANGED <<c2s, sOpen, cli, rawAt, spc, srvCmd, replies, dial>>

\* After the method exchange (and authentication): the next-proxy lookup
\* when chaining, then send_connect_request.
SendRequest(rest) ==
    IF Asked = None
      THEN CliGo("failed", rest) /\ UNCHANGED c2s
      ELSE \E ok \in CliWriteOutcomes :
             /\ CliWrite(RequestBytes)
             /\ CliGo(IF ok THEN "reply" ELSE "failed", rest)

\* receive_auth_method, the comparison with the offered method, then the
\* userpass frame, or else what SendRequest does.
CliMethod ==
    LET r == Pair(s2c) IN
    /\ cpc = "method"
    /\ CliReadable(r)
    /\ IF r.st # "ok" \/ r.v[1] # Ver \/ r.v[2] # Offered
         THEN CliGo("failed", s2c) /\ UNCHANGED c2s
         ELSE IF Speaking.auth = None THEN SendRequest(AfterFrame(s2c, r))
         ELSE \E ok \in CliWriteOutcomes :
                /\ CliWrite(UserPassBytes(Speaking.auth))
                /\ CliGo(IF ok THEN "auth" ELSE "failed", AfterFrame(s2c, r))
    /\ UNCHANGED <<sOpen, cli, rawAt, spc, srvCmd, replies, dial>>

\* The reply of authenticate_username_password (VER 1, STATUS 0 or Err),
\* then SendRequest.
CliAuth ==
    LET r == Pair(s2c) IN
    /\ cpc = "auth"
    /\ CliReadable(r)
    /\ IF r.st # "ok" \/ r.v[1] # 1 \/ r.v[2] # 0
         THEN CliGo("failed", s2c) /\ UNCHANGED c2s
         ELSE SendRequest(AfterFrame(s2c, r))
    /\ UNCHANGED <<sOpen, cli, rawAt, spc, srvCmd, replies, dial>>

\* receive_connect_response; a reply code other than 0 is an Err, 0 hands
\* the stream on as the tunnel.
CliReply ==
    LET r == DecodeReply(s2c) IN
    /\ cpc = "reply"
    /\ CliReadable(r)
    /\ CliGo(IF r.st = "ok" /\ r.v.rep = 0 THEN Tunnel ELSE "failed",
             IF r.st = "ok" THEN AfterFrame(s2c, r) ELSE s2c)
    /\ UNCHANGED <<c2s, sOpen, cli, rawAt, spc, srvCmd, replies, dial>>

\* A raw peer writes the next chunk of its script.
RawWrite ==
    /\ cpc = "raw"
    /\ rawAt < Len(cli.chunks)
    /\ CliWrite(cli.chunks[rawAt + 1])
    /\ rawAt' = rawAt + 1
    /\ UNCHANGED <<s2c, cOpen, sOpen, cli, cpc, spc, srvCmd, replies, dial>>

\* A raw peer that closes after its script.
RawClose ==
    /\ cpc = "raw"
    /\ rawAt = Len(cli.chunks)
    /\ cli.close
    /\ cpc' = "gone"
    /\ cOpen' = FALSE
    /\ UNCHANGED <<c2s, s2c, sOpen, cli, rawAt, spc, srvCmd, replies, dial>>
-----------------------------------------------------------------------------
WireInit ==
    /\ cli \in ClientSpecs
    /\ cpc = IF cli.kind = "chain" THEN "greet" ELSE "raw"
    /\ rawAt = 0
    /\ c2s = <<>> /\ s2c = <<>>
    /\ cOpen = TRUE /\ sOpen = TRUE
    /\ spc = "greeting"
    /\ srvCmd = None
    /\ replies = <<>>
    /\ dial = None

\* Both ends are finished: the server task has ended and the client has
\* its result, has gone, or (a raw peer that holds the socket) is idle.
Finished ==
    /\ spc = "closed"
    /\ cpc \in {"ok", "beyond", "failed", "gone", "raw"}
    /\ UNCHANGED wireVars

WireNext ==
    \/ Handshake \/ UserPassAuth \/ Request \/ BindAccept \/ ServerDone
    \/ HandshakeTimeout
    \/ CliGreet \/ CliHttpRead \/ CliMethod \/ CliAuth \/ CliReply
    \/ RawWrite \/ RawClose
    \/ Finished

WireSpec == WireInit /\ [][WireNext]_wireVars
-----------------------------------------------------------------------------
(* Properties *)

Byte == 0..255
Addr == [atyp : {1, 3, 4}, bytes : Seq(Byte)]

WireTypeOK ==
    /\ c2s \in Seq(Byte) /\ s2c \in Seq(Byte)
    /\ cpc \in {"greet", "method", "auth", "reply", "httpread", "ok", "beyond", "failed",
               "raw", "gone"}
    /\ spc \in {"greeting", "userpass", "request", "bindwait", "udpwait", "relay", "closed"}
    /\ srvCmd = None \/ srvCmd \in [cmd : {1, 2, 3}, addr : Addr, port : 0..65535]
    /\ replies \in Seq(Byte)
    /\ dial = None \/ dial \in [ok : BOOLEAN, cause : STRING, code : Byte]

(***************************************************************************)
(* At most one SOCKS5 reply per request (spec section 8), except that a   *)
(* BIND may follow its first success reply with a second one; no reply   *)
(* ever follows a failure reply.  The manager's error paths each send a   *)
(* reply and return, and a reply after a failed write is never counted.   *)
(***************************************************************************)
ReplyDiscipline ==
    /\ Len(replies) <= (IF srvCmd # None /\ srvCmd.cmd = 2 THEN 2 ELSE 1)
    /\ \A i \in 1..(Len(replies) - 1) : replies[i] = 0

(***************************************************************************)
(* Our chain connector and our server agree: when the connector has a     *)
(* tunnel through this server (to the target, or on to further proxies),  *)
(* the server decoded exactly the CONNECT the connector encoded (address  *)
(* and port round-trip), answered it with one success reply, and had      *)
(* accepted the credentials the connector sent, if any; no byte of the    *)
(* handshake is left over for the relay on either side.                    *)
(***************************************************************************)
ChainAgreement ==
    cpc \in {"ok", "beyond"} =>
        /\ srvCmd = [cmd |-> 1, addr |-> Asked.addr, port |-> Asked.port]
        /\ replies = <<0>>
        /\ Speaking.auth # None => Speaking.auth \in Users
        /\ s2c = <<>> /\ c2s = <<>>

(***************************************************************************)
(* Spec section 4.10 maps a failed connection to a reply code by the text *)
(* of its error: "dns" or "resolution" gives HostUnreachable, "timeout"   *)
(* (checked first) TtlExpired.  A failed resolution of the target name,   *)
(* whose errors read "DNS resolution failed for ...", "DNS resolution     *)
(* timed out for ..." and "DNS resolution returned no addresses for ...", *)
(* is therefore answered HostUnreachable, or TtlExpired for the timeout.  *)
(***************************************************************************)
SpecResolutionCode(cause) == IF cause = "dns timed out" THEN 6 ELSE 4

ResolutionFailureReply ==
    (dial # None /\ dial.cause \in {"dns failed", "dns timed out", "dns empty"})
        => dial.code = SpecResolutionCode(dial.cause)

==============================================================================
