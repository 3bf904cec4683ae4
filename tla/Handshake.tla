------------------------------ MODULE Handshake ------------------------------
(***************************************************************************)
(* Handshaker::start (src/src/handshake.rs): finds out which of SOCKS 5,   *)
(* SOCKS 4 and HTTP a client speaks from the bytes it has sent so far, and *)
(* reads its request, however the bytes are cut into reads.                *)
(*                                                                         *)
(* A handshake is a record: phase is the ParseState ("init", or "socks5",  *)
(* "socks4", "http" when one protocol is left), "request" in               *)
(* handshake_socks5, "done" or "failed"; out is what the last step answers.*)
(***************************************************************************)
EXTENDS Socks, RWBuffer

CONSTANTS
    UriBytes,       \* the bytes that httparse takes for a part of a request's path
    SocketTexts,    \* the texts SocketAddr::from_str reads, and which addresses they are
    PortTexts,      \* the texts of a u16, and the two bytes of the port
    Urls            \* the texts HttpUrl::try_from reads, and which addresses they lead to

Colon == 58
Space == 32

ASSUME TextsAssumption ==
    /\ UriBytes \subseteq Byte \ {10, 13, Space}
    /\ \A t \in DOMAIN SocketTexts : IsSocketAddr(SocketTexts[t])
    /\ \A t \in DOMAIN PortTexts :
         /\ t \in Bytes /\ t # <<>> /\ (\A i \in DOMAIN t : t[i] # Colon)
         /\ PortTexts[t] \in Bytes /\ Len(PortTexts[t]) = 2

-----------------------------------------------------------------------------
(* The text of an address.                                                  *)

\* Display: t is the text that is written for the address a.  A host is written as
\* it is.
IsTextOf(t, a) ==
    IF a.kind = "name"
    THEN \E p \in DOMAIN PortTexts : PortTexts[p] = a.port /\ t = a.host \o <<Colon>> \o p
    ELSE t \in DOMAIN SocketTexts /\ SocketTexts[t] = a

\* TryFrom<&str>: a SocketAddr, or a host and a port behind the last colon; {} for
\* a text that is neither.
FromText(t) ==
    LET v == SelectLastInSeq(t, LAMBDA c : c = Colon)
    IN  IF t \in DOMAIN SocketTexts THEN {SocketTexts[t]}
        ELSE {Name(SubSeq(t, 1, v - 1), PortTexts[port]) :
                port \in {p \in DOMAIN PortTexts : 1 < v /\ p = From(t, v + 1)}}

\* The same for a URL.
FromUrl(t) == {Urls[u] : u \in {u \in DOMAIN Urls : u = t}}

-----------------------------------------------------------------------------
(* HTTP.  A method is one byte, 67 for CONNECT, and 72 is the version.  A head   *)
(* ends with its first empty line (httparse also skips empty lines before a      *)
(* head, which nobody sends here).                                               *)

ConnectMethod == 67

EmptyLine == <<13, 10, 13, 10>>

HeadEnd(b) ==
    LET ends == {i \in 1..Len(b) - 3 : SubSeq(b, i, i + 3) = EmptyLine}
    IN  IF ends = {} THEN 0 ELSE Min(ends)

ParseHead(b) ==
    IF b = <<>> THEN Incomplete
    ELSE IF b[1] < 32 THEN Invalid
    ELSE IF HeadEnd(b) = 0 THEN Incomplete
    ELSE Parsed(HeadEnd(b) + 3, SubSeq(b, 1, HeadEnd(b) + 3))

\* HttpRequestBuilder: the path is written into the request line as it is,
\* without headers.
RequestHead(method, path) == <<method, Space>> \o path \o (<<Space, 72>> \o EmptyLine)

NoRequest == [type |-> "none", via |-> "none", dst |-> DefaultAddress]

Request(type, via, dst) == [type |-> type, via |-> via, dst |-> dst]

\* The path in a whole head: what is between the method and the version, if all of
\* it can be part of a path.
Paths(h) ==
    {SubSeq(h, 3, i - 1) :
       i \in {i \in 3..Len(h) - 3 : /\ h[2] = Space
                                   /\ SubSeq(h, i, i + 3) = <<Space, 72, 13, 10>>
                                   /\ \A j \in 3..i - 1 : h[j] \in UriBytes}}

\* What a whole head asks for; {} if it is refused.
ReadHead(h) ==
    IF h[1] = ConnectMethod
    THEN {Request("TCP", "connect", a) : a \in UNION {FromText(p) : p \in Paths(h)}}
    ELSE {Request("HTTP", "http", a) : a \in UNION {FromUrl(p) : p \in Paths(h)}}

\* The one request of a head that is not refused.
AskedBy(h) == CHOOSE q \in ReadHead(h) : TRUE

-----------------------------------------------------------------------------
Hs(phase, buf, req, out) == [phase |-> phase, buf |-> buf, req |-> req, out |-> out]

StartHandshake(len) == Hs("init", NewBuffer(len), NoRequest, <<>>)

Fail(buf, out) == Hs("failed", buf, NoRequest, out)

\* The loop of handshake_socks5, up to its next read.
AwaitRequest(buf, out) ==
    LET r == ParseConnRequest(ReadBuf(buf))
    IN  CASE r.st = "incomplete" -> Hs("request", buf, NoRequest, out)
          [] r.st = "error" -> Fail(buf, out)
          [] r.st = "ok" /\ r.value.cmd = ConnectTcp ->
               Hs("done", AdvanceRead(buf, r.used), Request("TCP", "socks5", r.value.addr), out)
          [] r.st = "ok" /\ r.value.cmd = BindUdp ->
               Hs("done", AdvanceRead(buf, r.used), Request("UDP", "socks5", r.value.addr), out)
          [] OTHER -> Fail(buf, out \o ConnAnswer(UnsupportedCommand, DefaultAddress))

\* handshake_socks5.
Greeted(buf, auths) ==
    IF \E i \in DOMAIN auths : auths[i] = NoPassword
    THEN AwaitRequest(buf, GreetingAnswer(NoPassword))
    ELSE Fail(buf, GreetingAnswer(NotAccepted))

Socks5Parsed(buf, r) == Greeted(AdvanceRead(buf, r.used), r.value)

\* handshake_socks4.
Socks4Parsed(buf, r) ==
    IF r.value.cmd = ConnectTcp
    THEN Hs("done", AdvanceRead(buf, r.used), Request("TCP", "socks4", r.value.addr), <<>>)
    ELSE Fail(buf, <<>>)

\* handshake_http.
HttpParsed(buf, r) ==
    IF ReadHead(r.value) = {} THEN Fail(buf, <<>>)
    ELSE Hs("done", AdvanceRead(buf, r.used), AskedBy(r.value), <<>>)

\* Mutant of Detect: one byte that fits SOCKS 4 rules the others out.
DetectEager(buf) ==
    LET b == ReadBuf(buf)
        p5 == ParseGreeting(b)
        p4 == ParseSocks4(b)
        ph == ParseHead(b)
    IN  CASE p5.st = "ok" -> Socks5Parsed(buf, p5)
          [] p5.st # "ok" /\ p4.st = "ok" -> Socks4Parsed(buf, p4)
          [] p5.st # "ok" /\ p4.st # "ok" /\ ph.st = "ok" -> HttpParsed(buf, ph)
          [] \A p \in {p5, p4, ph} : p.st = "error" -> Fail(buf, <<>>)
          [] p4.st = "incomplete" -> Hs("socks4", buf, NoRequest, <<>>)
          [] OTHER -> Hs("init", buf, NoRequest, <<>>)

\* ParseState::Init: the first protocol of the three that is complete wins; one
\* is settled on when the other two are ruled out.
Detect(buf) ==
    LET b == ReadBuf(buf)
        p5 == ParseGreeting(b)
        p4 == ParseSocks4(b)
        ph == ParseHead(b)
        left == {p \in {<<"socks5", p5>>, <<"socks4", p4>>, <<"http", ph>>} :
                   p[2].st = "incomplete"}
    IN  CASE p5.st = "ok" -> Socks5Parsed(buf, p5)
          [] p5.st # "ok" /\ p4.st = "ok" -> Socks4Parsed(buf, p4)
          [] p5.st # "ok" /\ p4.st # "ok" /\ ph.st = "ok" -> HttpParsed(buf, ph)
          [] \A p \in {p5, p4, ph} : p.st = "error" -> Fail(buf, <<>>)
          [] OTHER -> Hs(IF \E p \in left : left = {p}
                         THEN (CHOOSE p \in left : TRUE)[1] ELSE "init",
                         buf, NoRequest, <<>>)

\* A settled protocol: parse again, or read on.
Continue(hs, buf, r, Next(_, _)) ==
    CASE r.st = "ok" -> Next(buf, r)
      [] r.st = "error" -> Fail(buf, <<>>)
      [] r.st = "incomplete" -> [hs EXCEPT !.buf = buf, !.out = <<>>]

\* One turn of the loop, with the bytes d that a read has brought.
HandshakeStep(hs, d) ==
    LET buf == Filled(hs.buf, d)
        b == ReadBuf(buf)
    IN  CASE hs.phase = "init" -> Detect(buf)
          [] hs.phase = "socks5" -> Continue(hs, buf, ParseGreeting(b), Socks5Parsed)
          [] hs.phase = "socks4" -> Continue(hs, buf, ParseSocks4(b), Socks4Parsed)
          [] hs.phase = "http" -> Continue(hs, buf, ParseHead(b), HttpParsed)
          [] hs.phase = "request" -> AwaitRequest(buf, <<>>)

-----------------------------------------------------------------------------
(* What a handshake should make of bytes, if it had them all at once.       *)

HttpAtOnce(b) ==
    LET r == ParseHead(b)
    IN  IF r.st # "ok" THEN r
        ELSE IF ReadHead(r.value) = {} THEN Invalid
        ELSE Parsed(r.used, AskedBy(r.value))

Socks4AtOnce(b) ==
    LET r == ParseSocks4(b)
    IN  IF r.st # "ok" THEN r
        ELSE IF r.value.cmd # ConnectTcp THEN Invalid
        ELSE Parsed(r.used, Request("TCP", "socks4", r.value.addr))

Socks5AtOnce(b) ==
    LET g == ParseGreeting(b)
        r == ParseConnRequest(From(b, g.used + 1))
    IN  IF g.st # "ok" THEN g
        ELSE IF \A i \in DOMAIN g.value : g.value[i] # NoPassword THEN Invalid
        ELSE IF r.st # "ok" THEN r
        ELSE IF r.value.cmd \notin {ConnectTcp, BindUdp} THEN Invalid
        ELSE Parsed(g.used + r.used,
                    Request(IF r.value.cmd = ConnectTcp THEN "TCP" ELSE "UDP", "socks5", r.value.addr))

\* The first byte tells the protocols apart.
AtOnce(b) ==
    IF b = <<>> THEN Incomplete
    ELSE CASE b[1] = 5 -> Socks5AtOnce(b)
           [] b[1] = 4 -> Socks4AtOnce(b)
           [] OTHER -> HttpAtOnce(b)

\* The same for each server; parse_request reads HTTP only.
MeantBy(server, b) == IF server = "http" THEN HttpAtOnce(b) ELSE AtOnce(b)

-----------------------------------------------------------------------------
\* respond_ok, with the bound address if there is one.
RespondOk(via, bound) ==
    CASE via = "socks5" -> ConnAnswer(Granted, bound)
      [] via = "socks4" -> Socks4Answer(TRUE)
      [] via = "connect" -> <<72, 200>> \o EmptyLine
      [] via = "http" -> <<>>

\* respond_err.
RespondErr(via) ==
    CASE via = "socks5" -> ConnAnswer(Failed, DefaultAddress)
      [] via = "socks4" -> Socks4Answer(FALSE)
      [] via \in {"connect", "http"} -> <<72, 50>> \o EmptyLine

=============================================================================
