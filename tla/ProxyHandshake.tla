--------------------------- MODULE ProxyHandshake ---------------------------
(***************************************************************************)
(* One connection to a proxy, byte by byte, from its first byte to the end *)
(* of its relay.  The client is one of the program's own upstream          *)
(* protocols, Socks5 or HttpProxy (src/src/protocol/socks5/mod.rs,         *)
(* http/mod.rs), or some other program that sends all it has at once.  The *)
(* server is the local proxy (src/src/client/handler.rs) or the HTTP proxy *)
(* server (src/src/protocol/http/server.rs).  A read returns any part of   *)
(* the bytes on their way.                                                 *)
(***************************************************************************)
EXTENDS Handshake

CONSTANTS
    Sessions,       \* what is tried, see SessionOK
    HandshakeLen,   \* the first length of the server's RWBuffer
    ResponseLen     \* the first length of the client's RWBuffer

\* What a server that hears of the address a connects to: the text of an IP address
\* becomes that address.
Understood(a) == IF a.kind = "name" THEN FromHost(a.host, a.port) ELSE a

\* An Address; the host of a name is a String.
IsTarget(a) ==
    \/ IsSocketAddr(a)
    \/ /\ a \in [kind : {"name"}, host : Bytes, port : Bytes]
       /\ Len(a.port) = 2 /\ IsUtf8(a.host)

\* SOCKS 5 has an address for it: names have a length of one byte.
Sayable(a) == a.kind # "name" \/ Len(a.host) <= 255

\* s.meant is what a server should make of what the client sends, however it comes;
\* it is known from the target of an upstream protocol, and from the bytes of
\* another program.  HttpProxy writes s.text, the text of its target, into its
\* request; s.head is what this becomes up to the first empty line, and s.payload
\* all that is behind it.
SessionOK(s) ==
    /\ s.client \in {"socks5", "http", "other"}
    /\ s.server \in {"handshaker", "http"}
    /\ {s.text, s.head, s.script, s.payload, s.reply} \subseteq Bytes
    /\ s.cmd \in {ConnectTcp, BindUdp}
    /\ IsTarget(s.dst)
    /\ s.client = "socks5" =>
         /\ s.server = "handshaker"
         /\ s.meant = IF Sayable(s.dst)
                      THEN Request(IF s.cmd = ConnectTcp THEN "TCP" ELSE "UDP", "socks5",
                                   Understood(s.dst))
                      ELSE NoRequest
    /\ s.client = "http" =>
         /\ IsTextOf(s.text, s.dst)
         /\ IsPrefix(RequestHead(ConnectMethod, s.text), s.head \o s.payload)
         /\ ParseHead(s.head) = Parsed(Len(s.head), s.head)
         /\ s.meant = IF ReadHead(s.head) = {} THEN NoRequest ELSE AskedBy(s.head)
    /\ s.client = "other" =>
         LET m == MeantBy(s.server, s.script \o s.payload)
         IN  /\ \A i \in DOMAIN s.script : i = 1 => s.script[i] \notin {10, 13}
             /\ m.st = "ok" => m.used = Len(s.script) /\ s.meant = m.value
             /\ m.st = "error" => s.meant = NoRequest

ASSUME HandshakeAssumption ==
    /\ \A s \in Sessions : SessionOK(s)
    /\ HandshakeLen \in Nat \ {0, 1}
    /\ ResponseLen \in Nat \ {0, 1}

VARIABLES
    session,        \* the session, which the code does not have as such
    up,             \* bytes on their way to the server
    down,           \* bytes on their way to the client
    client,         \* [phase, buf, got]: buf of parse_response, then body_buf
    server,         \* [phase, hs, relayed]: hs.buf is body_buf after parse_request
    replied,        \* how many of the target's bytes copy_duplex has passed on
    fin             \* the client sends no more

vars == <<session, up, down, client, server, replied, fin>>

Client(phase) == [phase |-> phase, buf |-> NewBuffer(ResponseLen), got |-> <<>>]

\* The first bytes of a client.  HttpProxy sends the initial data right after its
\* CONNECT request.
FirstBytes(s) ==
    CASE s.client = "socks5" -> Greeting(<<NoPassword>>)
      [] s.client = "http" -> s.head \o s.payload
      [] s.client = "other" -> s.script \o s.payload

Init ==
    /\ session \in Sessions
    /\ up = FirstBytes(session)
    /\ down = <<>>
    /\ client = Client(CASE session.client = "socks5" -> "greeting"
                         [] session.client = "http" -> "response"
                         [] session.client = "other" -> "open")
    /\ server = [phase |-> "handshake", hs |-> StartHandshake(HandshakeLen), relayed |-> <<>>]
    /\ replied = 0
    /\ fin = FALSE

Gone == server.phase \in {"closed", "ended", "broken"}

-----------------------------------------------------------------------------
(* The client side.                                                         *)

\* request_socks5, the answer to the greeting.  A request whose address cannot
\* be written fails after its first three bytes.
GreetingAnswered ==
    /\ client.phase = "greeting"
    /\ LET r == ReadGreetingAnswer(down)
       IN  /\ r.st # "incomplete"
           /\ down' = From(down, 3)
           /\ IF r.st = "ok" /\ r.value = NoPassword /\ Writable(session.dst)
              THEN /\ up' = up \o ConnRequest(session.cmd, session.dst)
                   /\ client' = [client EXCEPT !.phase = "answer"]
              ELSE /\ up' = up \o (IF r.st = "ok" /\ r.value = NoPassword
                                   THEN <<5, session.cmd, 0>> ELSE <<>>)
                   /\ client' = [client EXCEPT !.phase = "failed"]
    /\ UNCHANGED <<session, server, replied, fin>>

\* request_socks5, the answer to the request; then new_stream sends the initial
\* data.  (new_datagram goes on over UDP.)
RequestAnswered ==
    /\ client.phase = "answer"
    /\ LET r == ParseConnAnswer(down)
       IN  /\ r.st # "incomplete"
           /\ IF r.st = "ok" /\ r.value.code = Granted
              THEN /\ down' = From(down, r.used + 1)
                   /\ up' = IF session.cmd = ConnectTcp THEN up \o session.payload ELSE up
                   /\ client' = [client EXCEPT !.phase = "open"]
              ELSE /\ client' = [client EXCEPT !.phase = "failed"]
                   /\ UNCHANGED <<up, down>>
    /\ UNCHANGED <<session, server, replied, fin>>

\* Mutant of ResponseParsed: what was read behind the head is not kept.
ResponseParsedDropsRest(buf, r) ==
    [client EXCEPT !.phase = IF r.value[2] = 200 THEN "open" ELSE "failed",
                   !.buf = NewBuffer(ResponseLen)]

\* parse_response has the whole head: what is behind it is kept in body_buf.
ResponseParsed(buf, r) ==
    [client EXCEPT !.phase = IF r.value[2] = 200 THEN "open" ELSE "failed",
                   !.buf = AdvanceRead(buf, r.used)]

\* parse_response: one read of n bytes.
ResponseRead(n) ==
    /\ client.phase = "response"
    /\ n \in 1..Room(client.buf)
    /\ n <= Len(down)
    /\ LET buf == Filled(client.buf, SubSeq(down, 1, n))
           r == ParseHead(ReadBuf(buf))
       IN  client' = CASE r.st = "ok" -> ResponseParsed(buf, r)
                       [] r.st = "incomplete" -> [client EXCEPT !.buf = buf]
                       [] r.st = "error" -> [client EXCEPT !.phase = "failed"]
    /\ down' = From(down, n + 1)
    /\ UNCHANGED <<session, up, server, replied, fin>>

\* A read of what the target sends: from body_buf as long as there is one.
ClientReads(n) ==
    /\ client.phase = "open" /\ ~fin
    /\ session.client # "other"
    /\ LET kept == ReadBuf(client.buf)
       IN  IF kept # <<>>
           THEN /\ n \in 1..Len(kept)
                /\ client' = [client EXCEPT !.got = @ \o SubSeq(kept, 1, n),
                                            !.buf = AdvanceRead(@, n)]
                /\ UNCHANGED down
           ELSE /\ n \in 1..Len(down)
                /\ client' = [client EXCEPT !.got = @ \o SubSeq(down, 1, n)]
                /\ down' = From(down, n + 1)
    /\ UNCHANGED <<session, up, server, replied, fin>>

\* The connection ends before the answer is complete.
ClientSeesEnd ==
    /\ Gone
    /\ \/ client.phase = "greeting" /\ ReadGreetingAnswer(down).st = "incomplete"
       \/ client.phase = "answer" /\ ParseConnAnswer(down).st = "incomplete"
       \/ client.phase = "response" /\ down = <<>>
    /\ client' = [client EXCEPT !.phase = "failed"]
    /\ UNCHANGED <<session, up, down, server, replied, fin>>

\* The stream of an upstream protocol is dropped when the connection it serves has
\* ended; another program may finish its upload at any time and read on.
Finishes ==
    /\ client.phase = "open"
    /\ ~fin
    /\ fin' = TRUE
    /\ UNCHANGED <<session, up, down, client, server, replied>>

-----------------------------------------------------------------------------
(* The server side.                                                         *)

\* parse_request: one turn of its loop with the bytes d.
ParseRequestStep(hs, d) ==
    LET buf == Filled(hs.buf, d)
    IN  Continue(hs, buf, ParseHead(ReadBuf(buf)), HttpParsed)

\* A read by the handshake.
HandshakeReads(n) ==
    /\ server.phase = "handshake"
    /\ n \in 1..Room(server.hs.buf)
    /\ n <= Len(up)
    /\ LET d == SubSeq(up, 1, n)
           hs == IF session.server = "handshaker" THEN HandshakeStep(server.hs, d)
                 ELSE ParseRequestStep(server.hs, d)
       IN  /\ server' = [server EXCEPT
                !.hs = [hs EXCEPT !.out = <<>>],
                !.phase = CASE hs.phase = "done" -> "connecting"
                            [] hs.phase = "failed" -> "closed"
                            [] OTHER -> "handshake"]
           /\ down' = down \o hs.out
    /\ up' = From(up, n + 1)
    /\ UNCHANGED <<session, client, replied, fin>>

\* Unexpected EOF.
HandshakeSeesEnd ==
    /\ server.phase = "handshake"
    /\ up = <<>>
    /\ client.phase = "failed" \/ fin
    /\ server' = [server EXCEPT !.phase = "closed"]
    /\ UNCHANGED <<session, up, down, client, replied, fin>>

\* Mutant of Answer: an answer to SOCKS 5 is sent as the bare code.
AnswerBare(ok) ==
    IF ok THEN <<5, Granted>> ELSE RespondErr(server.hs.req.via)

\* What the client is told once the target is connected, or cannot be.  The HTTP
\* server answers a failure whatever the method.
Answer(ok) ==
    IF ok THEN RespondOk(server.hs.req.via, DefaultAddress) ELSE RespondErr(server.hs.req.via)

Connected ==
    /\ server.phase = "connecting"
    /\ server' = [server EXCEPT
         !.phase = IF server.hs.req.type = "UDP" THEN "association" ELSE "relay"]
    /\ down' = down \o Answer(TRUE)
    /\ UNCHANGED <<session, up, client, replied, fin>>

ConnectFails ==
    /\ server.phase = "connecting"
    /\ server' = [server EXCEPT !.phase = "closed"]
    /\ down' = down \o Answer(FALSE)
    /\ UNCHANGED <<session, up, client, replied, fin>>

\* Mutant of Kept: the bytes read along with the request are lost.
KeptNot == <<>>

\* The bytes that were read along with the request.  The HTTP server relays them
\* (body_buf), serve_proxy_conn drops its buffer.
Kept == IF session.server = "http" THEN ReadBuf(server.hs.buf) ELSE <<>>

\* copy_duplex reads from the client and writes to the target.
Relays(n) ==
    /\ server.phase = "relay"
    /\ IF Kept # <<>>
       THEN /\ n \in 1..Len(Kept)
            /\ server' = [server EXCEPT !.relayed = @ \o SubSeq(Kept, 1, n),
                                        !.hs.buf = AdvanceRead(@, n)]
            /\ UNCHANGED up
       ELSE /\ n \in 1..Len(up)
            /\ server' = [server EXCEPT !.relayed = @ \o SubSeq(up, 1, n)]
            /\ up' = From(up, n + 1)
    /\ UNCHANGED <<session, down, client, replied, fin>>

\* copy_duplex in the other direction.
RelaysBack(n) ==
    /\ server.phase = "relay"
    /\ n \in 1..(Len(session.reply) - replied)
    /\ replied' = replied + n
    /\ down' = down \o SubSeq(session.reply, replied + 1, replied + n)
    /\ UNCHANGED <<session, up, client, server, fin>>

\* Mutant of UploadEnded: the end is looked for behind the bytes of body_buf.
UploadEndedEarly == fin /\ up = <<>>

\* The upload's read returns 0.
UploadEnded == fin /\ up = <<>> /\ Kept = <<>>

\* race: the first copy to end ends the relay, and both streams are dropped.  Here it
\* has come to the end of what it reads.
RelayEnds(ended) ==
    /\ server.phase = "relay"
    /\ ended
    /\ server' = [server EXCEPT !.phase = "ended"]
    /\ UNCHANGED <<session, up, down, client, replied, fin>>

\* The target has closed its stream behind its bytes.
TargetCloses == RelayEnds(replied = Len(session.reply))

\* A read or a write of either copy fails, and race returns its error.
RelayFails ==
    /\ server.phase = "relay"
    /\ server' = [server EXCEPT !.phase = "broken"]
    /\ UNCHANGED <<session, up, down, client, replied, fin>>

ClientStep ==
    \/ GreetingAnswered
    \/ RequestAnswered
    \/ \E n \in 1..Len(down) : ResponseRead(n)
    \/ \E n \in 1..(Len(down) + client.buf.write) : ClientReads(n)
    \/ ClientSeesEnd

ServerStep ==
    \/ \E n \in 1..Len(up) : HandshakeReads(n)
    \/ HandshakeSeesEnd
    \/ \E n \in 1..(Len(up) + server.hs.buf.write) : Relays(n)
    \/ \E n \in 1..Len(session.reply) : RelaysBack(n)
    \/ RelayEnds(UploadEnded)

\* The attempt to connect to the target ends.
ConnectEnds == Connected \/ ConnectFails

Next == ClientStep \/ ServerStep \/ ConnectEnds \/ Finishes \/ TargetCloses \/ RelayFails

Spec == Init /\ [][Next]_vars

\* Each side is polled whenever its socket is ready.  Nobody has to finish or to
\* close, and an attempt to connect need not end: the new_stream of an upstream
\* protocol waits for its proxy's answer without a timeout.
FairSpec == Spec /\ WF_vars(ClientStep) /\ WF_vars(ServerStep)

-----------------------------------------------------------------------------
\* The window of a buffer lies within it, and an empty one is at the front.
BufferOK(b) ==
    /\ 0 <= b.read /\ b.read <= b.write /\ b.write <= Len(b.cells)
    /\ (b.read = b.write => b.read = 0)

\* A text that httparse takes for one path.
Plain(text) == \A i \in DOMAIN text : text[i] \in UriBytes

\* The address that was asked for; a name which is the text of an IP address stands
\* for that address.
Heard(s) ==
    IF s.client = "socks5" THEN Understood(s.dst)
    ELSE IF s.text \in DOMAIN SocketTexts THEN SocketTexts[s.text] ELSE s.dst

\* The upstream protocols and the proxies agree: when request_socks5 or new_stream
\* of HttpProxy succeeds, the server connected to the address that was asked for.
\* HttpProxy writes the host of a name into its request line as it is, so there it
\* is said only of hosts without spaces, line breaks and the like.
AgreeOnTarget ==
    client.phase = "open" /\ session.client # "other" =>
        /\ server.phase \in {"relay", "association", "ended", "broken"}
        /\ (session.client = "http" => Plain(session.text)) =>
             server.hs.req.dst = Heard(session)

\* However its bytes are cut into reads, a request is understood as what it is
\* (session.meant), and what is none is refused; Handshaker::start never takes one
\* protocol for another.
UnderstoodAsMeant ==
    server.hs.phase \in {"done", "failed"} => server.hs.req = session.meant

\* The bytes for the target, behind the request, that the client has written.
Written ==
    IF session.client = "socks5" /\ (client.phase # "open" \/ session.cmd # ConnectTcp)
    THEN <<>> ELSE session.payload

UploadIsKept ==
    server.phase = "relay" =>
        /\ IsSuffix(server.relayed \o Kept \o up, Written)
        /\ (session.server = "http" \/ session.client = "socks5"
              => server.relayed \o Kept \o up = Written)

DownloadIsKept ==
    client.phase = "open" /\ session.client # "other" =>
        client.got \o ReadBuf(client.buf) \o down = SubSeq(session.reply, 1, replied)

\* No byte of the upload is lost, added or doubled between the request and the
\* relay, and none of the request gets into it: with the HTTP server, and with a
\* client that waits for the answer before it sends on.  serve_proxy_conn drops
\* what came along with the request of any other client, so that there the relay
\* carries the end of the upload.  Nothing of the answer gets into the download, and
\* nothing of the download into the answer: parse_response keeps what it has read
\* behind the head.
BytesAreKept ==
    /\ BufferOK(client.buf) /\ BufferOK(server.hs.buf)
    /\ UploadIsKept
    /\ DownloadIsKept

\* A connection of the upstream protocols never ends up with both sides waiting for
\* each other: it is opened or given up, and so is the server's end, unless the
\* server's attempt to connect to the target never ends.
Settles ==
    session.client # "other" ~>
        \/ /\ client.phase \in {"open", "failed"}
           /\ server.phase \in {"relay", "association", "closed", "ended", "broken"}
        \/ [](server.phase = "connecting")

\* copy_duplex ends both directions with the first of them, and the other may be
\* cut: a reply when a client has finished its upload, an upload when the target
\* closes.  But when it returns without an error it has not cut both; one direction
\* has been carried to its end.
RelayCutsOneSide ==
    server.phase = "ended" =>
        \/ replied = Len(session.reply)
        \/ /\ fin
           /\ IsSuffix(server.relayed, Written)
           /\ (session.server = "http" \/ session.client = "socks5"
                 => server.relayed = Written)

\* The reply of a target gets to the reader of an upstream protocol's stream,
\* to its last byte, unless the stream is dropped, the relay fails, or it ends with
\* some of the upload unread, upon which the connection is reset.
DownloadArrives ==
    session.client # "other" /\ server.phase = "relay" ~>
        \/ fin
        \/ server.phase = "broken"
        \/ server.phase = "ended" /\ up # <<>>
        \/ client.got = session.reply

=============================================================================
