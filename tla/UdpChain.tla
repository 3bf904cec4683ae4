------------------------------- MODULE UdpChain -------------------------------
(***************************************************************************)
(* Datagrams of a SOCKS 5 UDP association through TCPMan:                  *)
(*                                                                         *)
(*   application <-> relay socket (src/src/client/udp.rs,                  *)
(*   socks5/udp_relay.rs) <-> TCPMan client (protocol/tcpman/mod.rs,       *)
(*   dgram.rs) <-> TCPMan server (tcpman/server/handler.rs) <-> Direct     *)
(*   (protocol/direct/mod.rs) <-> targets                                  *)
(*                                                                         *)
(* Each direction is a pipe: Forward into a channel, a task that writes    *)
(* frames to the connection, and Forward from the connection to a UDP      *)
(* socket.  The connection is the reliable byte stream that CipherStream   *)
(* implements.  Datagrams arrive at a socket in some order, later ones     *)
(* than were sent, or never: arrivals is the order they arrive in.         *)
(***************************************************************************)
EXTENDS Socks, TcpManUdp, UdpSink

CONSTANTS
    Scripts,        \* what happens outside, see ScriptOK
    Unresolvable,   \* the names that cannot be resolved
    ChannelLen      \* the length given to the channels of create_udp_sink (10)

\* What a UDP socket sends or receives at once.
MaxDatagram == 65535
Datagrams == {b \in Bytes : Len(b) <= MaxDatagram}

\* arrivals are at the relay socket, from the application or another sender; replies
\* are what targets send to Direct's socket; upstreams is how many of them
\* find_best_upstream gives.
ScriptOK(s) ==
    /\ s \in [arrivals : Seq([from : {"app", "stranger"}, bytes : Datagrams]),
              replies : Seq([addr : [kind : {"v4", "v6"}, host : Bytes, port : Bytes],
                             payload : Datagrams]),
              upstreams : Nat]
    /\ \A i \in DOMAIN s.replies : IsSocketAddr(s.replies[i].addr)

ASSUME ChainAssumption ==
    /\ \A s \in Scripts : ScriptOK(s)
    /\ ChannelLen \in Nat
    /\ MaxBuffer \in Nat \ {0}

VARIABLES
    script,         \* the script, with what has not happened yet
    control,        \* the application keeps its control connection open
    relay,          \* [queue, last]: the relay socket and last_addr
    assoc,          \* [phase, first, left]: the association, its first datagram
    up,             \* the pipe to the target, see NewPipe
    down,           \* the pipe back
    server,         \* [phase, family, queue]: the server's session and its socket
    broken,         \* the connection to the server has failed
    target,         \* the datagrams sent to targets
    got,            \* [to, packet]: what was sent back from the relay socket
    taken,          \* history: the datagrams the association has read
    answered        \* history: the datagrams the server's session has read

vars == <<script, control, relay, assoc, up, down, server, broken, target, got, taken,
          answered>>

Dgram(addr, payload) == [addr |-> addr, payload |-> payload]

\* item is Forward's, chan the channel, open says its task still runs, wire the
\* bytes on the connection, wlast and rlast the last addresses of the PacketWriter
\* and the PacketReader, fwd the Forward at the other end.
NewPipe(rlast) ==
    [item |-> <<>>, chan |-> <<>>, open |-> TRUE, wlast |-> <<>>, wire |-> <<>>,
     rlast |-> rlast, fwd |-> NewForward]

NoServer == [phase |-> "none", family |-> "v4", queue |-> <<>>]

Init ==
    /\ script \in Scripts
    /\ control = TRUE
    /\ relay = [queue |-> <<>>, last |-> "nobody"]
    /\ assoc = [phase |-> "first", first |-> Dgram(DefaultAddress, <<>>),
                left |-> script.upstreams]
    /\ up = NewPipe(<<>>)
    /\ down = NewPipe(<<>>)
    /\ server = NoServer
    /\ broken = FALSE
    /\ target = <<>>
    /\ got = <<>>
    /\ taken = <<>>
    /\ answered = <<>>

-----------------------------------------------------------------------------
(* Outside.                                                                 *)

Arrives ==
    /\ script.arrivals # <<>>
    /\ script' = [script EXCEPT !.arrivals = Tail(@)]
    /\ relay' = [relay EXCEPT !.queue = Append(@, Head(script.arrivals))]
    /\ UNCHANGED <<control, assoc, up, down, server, broken, target, got, taken, answered>>

AppCloses ==
    /\ control
    /\ control' = FALSE
    /\ UNCHANGED <<script, relay, assoc, up, down, server, broken, target, got, taken, answered>>

\* A source address as the server's socket shows it: the one for an IPv4 target is
\* an IPv6 socket, on which IPv4 addresses are mapped.
Shown(family, a) ==
    IF family = "v6" /\ a.kind = "v4"
    THEN V6(<<0, 0, 0, 0, 0, 0, 0, 0, 0, 0, 255, 255>> \o a.host, a.port) ELSE a

TargetReplies ==
    /\ server.phase = "running"
    /\ script.replies # <<>>
    /\ script' = [script EXCEPT !.replies = Tail(@)]
    /\ LET r == Head(script.replies)
       IN  server' = [server EXCEPT !.queue = Append(@, Dgram(Shown(server.family, r.addr),
                                                              r.payload))]
    /\ UNCHANGED <<control, relay, assoc, up, down, broken, target, got, taken, answered>>

ConnectionBreaks ==
    /\ server.phase = "running"
    /\ ~broken
    /\ broken' = TRUE
    /\ up' = [up EXCEPT !.wire = <<>>]
    /\ down' = [down EXCEPT !.wire = <<>>]
    /\ UNCHANGED <<script, control, relay, assoc, server, target, got, taken, answered>>

-----------------------------------------------------------------------------
(* serve_udp_proxy_conn.                                                    *)

\* The stream of new_udp_relay reads a datagram: whoever sent it is the one to
\* answer, well-formed or not.
RelayReads ==
    /\ relay.queue # <<>>
    /\ relay' = [queue |-> Tail(relay.queue), last |-> Head(relay.queue).from]

Arrived == CheckPacket(Head(relay.queue).bytes)

FirstPacket ==
    /\ assoc.phase = "first"
    /\ RelayReads
    /\ IF Arrived.st = "ok"
       THEN /\ assoc' = [assoc EXCEPT !.phase = "trying",
                           !.first = Dgram(Arrived.value.addr, Arrived.value.payload)]
            /\ taken' = <<assoc'.first>>
       ELSE UNCHANGED <<assoc, taken>>
    /\ UNCHANGED <<script, control, up, down, server, broken, target, got, answered>>

EndAssoc == assoc' = [assoc EXCEPT !.phase = "ended"]

\* No upstream is left: the last error.
UpstreamsExhausted ==
    /\ assoc.phase = "trying"
    /\ assoc.left = 0
    /\ EndAssoc
    /\ UNCHANGED <<script, control, relay, up, down, server, broken, target, got, taken, answered>>

\* to_vec unwraps the error of write_to, and the panic ends the task.
RequestPanics ==
    /\ assoc.phase = "trying"
    /\ assoc.left > 0
    /\ ~Writable(assoc.first.addr)
    /\ EndAssoc
    /\ UNCHANGED <<script, control, relay, up, down, server, broken, target, got, taken, answered>>

NextUpstream == assoc' = [assoc EXCEPT !.left = @ - 1]

\* The request as serve_client gets it.
Received == ParseRequest(ToVec(RequestUdp, assoc.first.addr, assoc.first.payload)).value

\* Direct binds an IPv6 socket for an IPv4 address and an IPv4 socket for others.
Family(dst) == IF dst.kind = "v4" THEN "v6" ELSE "v4"

\* The system sends to a from such a socket.
Sendable(family, a) ==
    /\ a \notin Unresolvable
    /\ family = "v4" => a.kind # "v6"

\* An upstream cannot be connected, or its server answers with an error, because
\* Direct cannot send the first datagram.
UpstreamFails ==
    /\ assoc.phase = "trying"
    /\ assoc.left > 0
    /\ Writable(assoc.first.addr)
    /\ NextUpstream
    /\ UNCHANGED <<script, control, relay, up, down, server, broken, target, got, taken, answered>>

\* Direct has sent the first datagram, and the connection fails before its answer.
UpstreamFailsLate ==
    /\ assoc.phase = "trying"
    /\ assoc.left > 0
    /\ Writable(assoc.first.addr)
    /\ Sendable(Family(Received.dst), Received.dst)
    /\ NextUpstream
    /\ target' = Append(target, Dgram(Received.dst, Received.data))
    /\ UNCHANGED <<script, control, relay, up, down, server, broken, got, taken, answered>>

\* get_one_off_udp_query_timeout.
OneOff(a) == a.port = <<0, 53>>

\* new_datagram of TCPMan succeeds: the server has sent the first datagram.
UpstreamConnects ==
    /\ assoc.phase = "trying"
    /\ assoc.left > 0
    /\ Writable(assoc.first.addr)
    /\ Sendable(Family(Received.dst), Received.dst)
    /\ assoc' = [assoc EXCEPT !.left = @ - 1,
                   !.phase = IF OneOff(assoc.first.addr) THEN "oneOff" ELSE "relaying"]
    /\ server' = [phase |-> "running", family |-> Family(Received.dst), queue |-> <<>>]
    /\ target' = Append(target, Dgram(Received.dst, Received.data))
    /\ up' = NewPipe(<<Received.dst>>)
    /\ UNCHANGED <<script, control, relay, down, broken, got, taken, answered>>

-----------------------------------------------------------------------------
(* What both pipes do.                                                      *)

\* The channel takes one more than its length from its only sender.
HasRoom(p) == Len(p.chan) <= ChannelLen

\* Forward passes its item to the channel.
ToChannel(p) == [p EXCEPT !.chan = @ \o p.item, !.item = <<>>]

\* The task of create_udp_sink writes a frame; nobody reads it once the other end
\* is gone, and then the write may fail and end the task, whose channel is closed.
Written(p, reader) ==
    LET d == Head(p.chan)
        q == [p EXCEPT !.chan = Tail(@), !.wlast = <<d.addr>>]
    IN  IF reader THEN {[q EXCEPT !.wire = @ \o WriteFrame(p.wlast, d.addr, d.payload)]}
        ELSE {q, [q EXCEPT !.open = FALSE, !.chan = <<>>]}

\* create_udp_stream, as Forward polls it: only without an item to pass on.
Frame(p) == ReadFrame(p.rlast, p.wire)

FrameTaken(p) ==
    [p EXCEPT !.wire = From(@, Frame(p).used + 1), !.rlast = <<Frame(p).value.addr>>,
              !.fwd.item = <<Dgram(Frame(p).value.addr, Frame(p).value.payload)>>]

\* Mutant of ReadEnds: the end of the connection is not an error.
ReadEndsNever(p, closed) == Frame(p).st = "error"

\* A frame is cut off by the end of the connection, or is broken.
ReadEnds(p, closed) ==
    \/ Frame(p).st = "error"
    \/ Frame(p).st = "incomplete" /\ closed

-----------------------------------------------------------------------------
(* The upload.                                                              *)

UpTake ==
    /\ assoc.phase = "relaying"
    /\ up.item = <<>>
    /\ RelayReads
    /\ IF Arrived.st = "ok"
       THEN /\ up' = [up EXCEPT !.item = <<Dgram(Arrived.value.addr, Arrived.value.payload)>>]
            /\ taken' = taken \o up'.item
       ELSE UNCHANGED <<up, taken>>
    /\ UNCHANGED <<script, control, assoc, down, server, broken, target, got, answered>>

UpPush ==
    /\ assoc.phase = "relaying"
    /\ up.item # <<>>
    /\ up.open
    /\ HasRoom(up)
    /\ up' = ToChannel(up)
    /\ UNCHANGED <<script, control, relay, assoc, down, server, broken, target, got, taken, answered>>

UpWrite ==
    /\ up.open
    /\ up.chan # <<>>
    /\ up' \in Written(up, server.phase = "running" /\ ~broken)
    /\ UNCHANGED <<script, control, relay, assoc, down, server, broken, target, got, taken, answered>>

ServerReads ==
    /\ server.phase = "running"
    /\ up.fwd.item = <<>>
    /\ Frame(up).st = "ok"
    /\ up' = FrameTaken(up)
    /\ UNCHANGED <<script, control, relay, assoc, down, server, broken, target, got, taken, answered>>

\* Whether resolve_first, which With polls, fails for what it holds.
ResolveFails == up.fwd.state # <<>> /\ up.fwd.state[1].addr \in Unresolvable

ServerPush ==
    /\ server.phase = "running"
    /\ up.fwd.item # <<>>
    /\ ~ResolveFails
    /\ IF Ready(up.fwd)
       THEN up' = [up EXCEPT !.fwd = Pushed(@, @.item[1])]
       ELSE up' = [up EXCEPT !.fwd = Polled(@)] /\ up' # up
    /\ UNCHANGED <<script, control, relay, assoc, down, server, broken, target, got, taken, answered>>

\* Mutant of ServerFlushes: the socket is flushed once the buffers are full.
ServerFlushesFull(n) ==
    /\ server.phase = "running"
    /\ up.fwd.item = <<>>
    /\ Frame(up).st = "incomplete"
    /\ Len(up.fwd.buffers) = MaxBuffer
    /\ n = MaxBuffer
    /\ target' = target \o FlushSends(up.fwd, n)
    /\ up' = [up EXCEPT !.fwd = Flushed(@, n)]
    /\ UNCHANGED <<script, control, relay, assoc, down, server, broken, got, taken, answered>>

ServerFlushes(n) ==
    /\ server.phase = "running"
    /\ up.fwd.item = <<>>
    /\ Frame(up).st = "incomplete"
    /\ ~ResolveFails
    /\ IF FlushReady(up.fwd)
       THEN /\ n \in 0..Len(Polled(up.fwd).buffers)
            /\ \A d \in ToSet(FlushSends(up.fwd, n)) : Sendable(server.family, d.addr)
            /\ target' = target \o FlushSends(up.fwd, n)
            /\ up' = [up EXCEPT !.fwd = Flushed(@, n)]
       ELSE /\ n = 0
            /\ up' = [up EXCEPT !.fwd = Polled(@)]
            /\ UNCHANGED target
    /\ up' # up
    /\ UNCHANGED <<script, control, relay, assoc, down, server, broken, got, taken, answered>>

\* The connection has ended as the server sees it: the client's writer task is
\* done, which passes on what is in the channel first.
UpClosed == broken \/ (assoc.phase = "ended" /\ up.chan = <<>>)

\* race: the end of one task of serve_client drops the other.
EndServer == server' = [server EXCEPT !.phase = "ended"]

\* The upload task ends: at the end of the connection, with a name that is not
\* resolved, or with a datagram that cannot be sent.
ServerUploadEnds ==
    /\ server.phase = "running"
    /\ \/ up.fwd.item = <<>> /\ ReadEnds(up, UpClosed)
       \/ ResolveFails
       \/ /\ up.fwd.item = <<>> /\ Frame(up).st = "incomplete" /\ FlushReady(up.fwd)
          /\ up.fwd.buffers # <<>> /\ ~Sendable(server.family, up.fwd.buffers[1].addr)
    /\ EndServer
    /\ UNCHANGED <<script, control, relay, assoc, up, down, broken, target, got, taken, answered>>

-----------------------------------------------------------------------------
(* The download.                                                            *)

DownTake ==
    /\ server.phase = "running"
    /\ down.item = <<>>
    /\ server.queue # <<>>
    /\ server' = [server EXCEPT !.queue = Tail(@)]
    /\ down' = [down EXCEPT !.item = <<Head(server.queue)>>]
    /\ answered' = Append(answered, Head(server.queue))
    /\ UNCHANGED <<script, control, relay, assoc, up, broken, target, got, taken>>

DownPush ==
    /\ server.phase = "running"
    /\ down.item # <<>>
    /\ down.open
    /\ HasRoom(down)
    /\ down' = ToChannel(down)
    /\ UNCHANGED <<script, control, relay, assoc, up, server, broken, target, got, taken, answered>>

DownWrite ==
    /\ down.open
    /\ down.chan # <<>>
    /\ down' \in Written(down, assoc.phase # "ended" /\ ~broken)
    /\ UNCHANGED <<script, control, relay, assoc, up, server, broken, target, got, taken, answered>>

\* The download task of the server ends: its socket fails, or its channel is closed.
ServerDownloadEnds ==
    /\ server.phase = "running"
    /\ \/ down.item = <<>> /\ server.queue # <<>>
       \/ down.item # <<>> /\ ~down.open
    /\ EndServer
    /\ UNCHANGED <<script, control, relay, assoc, up, down, broken, target, got, taken, answered>>

DownClosed == broken \/ (server.phase = "ended" /\ down.chan = <<>>)

ClientReads ==
    /\ assoc.phase = "relaying"
    /\ down.fwd.item = <<>>
    /\ Frame(down).st = "ok"
    /\ down' = FrameTaken(down)
    /\ UNCHANGED <<script, control, relay, assoc, up, server, broken, target, got, taken, answered>>

\* The packet for d, to the address that sent last; With reads it at once.  The
\* address of d, which a socket has shown, can be written.
Reply(d) == [to |-> relay.last, packet |-> ToPacket(d.addr, d.payload)]

ClientPush ==
    /\ assoc.phase = "relaying"
    /\ down.fwd.item # <<>>
    /\ IF Ready(down.fwd)
       THEN down' = [down EXCEPT !.fwd = Pushed(@, Reply(@.item[1]))]
       ELSE down' = [down EXCEPT !.fwd = Polled(@)] /\ down' # down
    /\ UNCHANGED <<script, control, relay, assoc, up, server, broken, target, got, taken, answered>>

ClientFlushes(n) ==
    /\ assoc.phase = "relaying"
    /\ down.fwd.item = <<>>
    /\ Frame(down).st = "incomplete"
    /\ IF FlushReady(down.fwd)
       THEN /\ n \in 0..Len(Polled(down.fwd).buffers)
            /\ got' = got \o FlushSends(down.fwd, n)
            /\ down' = [down EXCEPT !.fwd = Flushed(@, n)]
       ELSE /\ n = 0
            /\ down' = [down EXCEPT !.fwd = Polled(@)]
            /\ UNCHANGED got
    /\ down' # down
    /\ UNCHANGED <<script, control, relay, assoc, up, server, broken, target, taken, answered>>

\* A one-off query takes the first reply and is done.
OneOffReplied ==
    /\ assoc.phase = "oneOff"
    /\ Frame(down).st = "ok"
    /\ got' = Append(got, Reply(Dgram(Frame(down).value.addr, Frame(down).value.payload)))
    /\ EndAssoc
    /\ UNCHANGED <<script, control, relay, up, down, server, broken, target, taken, answered>>

\* Two seconds have passed or the connection has ended; no other upstream is tried.
OneOffFails ==
    /\ assoc.phase = "oneOff"
    /\ EndAssoc
    /\ UNCHANGED <<script, control, relay, up, down, server, broken, target, got, taken, answered>>

\* select! in serve_udp_proxy_conn: a task has ended, or the control connection.
AssocStops ==
    /\ assoc.phase = "relaying"
    /\ \/ up.item # <<>> /\ ~up.open
       \/ down.fwd.item = <<>> /\ ReadEnds(down, DownClosed)
       \/ ~control
    /\ EndAssoc
    /\ UNCHANGED <<script, control, relay, up, down, server, broken, target, got, taken, answered>>

\* 60 s without a datagram, or a relay socket that fails.
AssocIdles ==
    /\ assoc.phase = "relaying"
    /\ EndAssoc
    /\ UNCHANGED <<script, control, relay, up, down, server, broken, target, got, taken, answered>>

-----------------------------------------------------------------------------
Outside == Arrives \/ AppCloses \/ TargetReplies \/ ConnectionBreaks

\* The end of an attempt on an upstream, whatever it is.
AttemptEnds == RequestPanics \/ UpstreamFails \/ UpstreamFailsLate \/ UpstreamConnects

Association == FirstPacket \/ UpstreamsExhausted \/ OneOffReplied \/ OneOffFails

\* The tasks of the association and of the server, each polled when it can go on.
ClientUpload == UpTake \/ UpPush
ServerUpload == ServerReads \/ ServerPush \/ (\E n \in 0..MaxBuffer : ServerFlushes(n))
ServerDownload == DownTake \/ DownPush
ClientDownload == ClientReads \/ ClientPush \/ (\E n \in 0..MaxBuffer : ClientFlushes(n))

Next ==
    \/ Outside \/ Association \/ AttemptEnds
    \/ ClientUpload \/ UpWrite \/ ServerUpload \/ ServerUploadEnds
    \/ ServerDownload \/ DownWrite \/ ServerDownloadEnds \/ ClientDownload
    \/ AssocStops \/ AssocIdles

Spec == Init /\ [][Next]_vars

\* The executor polls a task that was woken, and a one-off query times out.  An
\* attempt on an upstream need not end: new_datagram has no timeout.
FairSpec ==
    /\ Spec
    /\ WF_vars(Association)
    /\ WF_vars(ClientUpload) /\ WF_vars(UpWrite) /\ WF_vars(ServerUpload)
    /\ WF_vars(ServerUploadEnds)
    /\ WF_vars(ServerDownload) /\ WF_vars(DownWrite) /\ WF_vars(ClientDownload)
    /\ WF_vars(AssocStops)

-----------------------------------------------------------------------------
\* No channel or buffer holds more than it may, and With never overwrites the
\* datagram in SplitSink's slot (start_send without poll_ready).
PipeOK(p) ==
    /\ Len(p.item) <= 1 /\ Len(p.wlast) <= 1 /\ Len(p.rlast) <= 1
    /\ Len(p.chan) <= ChannelLen + 1
    /\ \A s \in {p.fwd.item, p.fwd.state, p.fwd.slot} : Len(s) <= 1
    /\ p.fwd.state = <<>> \/ p.fwd.slot = <<>>
    /\ Len(p.fwd.buffers) <= MaxBuffer

\* One more frame for a PacketReader that has read the datagrams out and has the
\* address last and the bytes rest before it.
ReadOn(s) ==
    LET r == ReadFrame(s.last, s.rest)
    IN  IF r.st # "ok" THEN s
        ELSE [out |-> Append(s.out, Dgram(r.value.addr, r.value.payload)),
              last |-> <<r.value.addr>>, rest |-> From(s.rest, r.used + 1)]

\* The datagrams in the bytes b, which are no more than bytes.
Decoded(last, b) ==
    LET read[k \in 0..Len(b)] ==
            IF k = 0 THEN [out |-> <<>>, last |-> last, rest |-> b] ELSE ReadOn(read[k - 1])
    IN  read[Len(b)].out

\* What is between a Forward's item and the other end's Forward.
OnTheWay(p) == Decoded(p.rlast, p.wire) \o p.chan \o p.item

\* What was sent to targets, without the first datagrams that were sent by the
\* upstreams that failed late.
SentBySession(k) ==
    IF k \in 0..(script.upstreams - assoc.left)
       /\ \A i \in 1..k : i \in DOMAIN target /\ target[i] = assoc.first
    THEN {From(target, k + 1)} ELSE {}

UploadConserved ==
    \E k \in 0..Len(target) : \E sent \in SentBySession(k) :
        /\ IsPrefix(sent, taken)
        /\ (assoc.phase = "relaying" /\ server.phase = "running" /\ ~broken
              => sent \o Held(up.fwd) \o OnTheWay(up) = taken)

Packets(ds) == [i \in DOMAIN ds |-> ToPacket(ds[i].addr, ds[i].payload)]
Sent(rs) == [i \in DOMAIN rs |-> rs[i].packet]

DownloadConserved ==
    /\ IsPrefix(Sent(got), Packets(answered))
    /\ (assoc.phase = "relaying" /\ server.phase = "running" /\ ~broken
          => LET f == down.fwd
             IN  Sent(got \o f.buffers \o f.slot \o f.state) \o Packets(f.item \o OnTheWay(down))
                 = Packets(answered))

\* Every datagram the association has read reaches its own target, in order and
\* once, through framing, channels and buffers within their bounds; its address is
\* right although the frames leave it out when it is the last one, and the two ends
\* start from different last addresses.  When the association or the connection
\* ends, a tail is lost; upstreams that failed late have sent the first datagram
\* before.  The same on the way back: the application gets the answers in order and
\* once, each with the address that Direct's socket has shown.
DatagramsConserved ==
    /\ PipeOK(up) /\ PipeOK(down)
    /\ UploadConserved
    /\ DownloadConserved

\* Once MAX_BUFFER_SIZE datagrams are buffered and one more is in front of them, the
\* server's session sends nothing any more: Forward waits for poll_ready and does
\* not flush, and poll_flush of SplitSink waits for its slot.
JamIsForGood ==
    [][Jammed(up.fwd) /\ server'.phase = "running"
         => target' = target /\ Jammed(up'.fwd)]_vars

\* A datagram that reached the server is sent, unless the session ends or jams.
UploadFlushed ==
    server.phase = "running" /\ Held(up.fwd) # <<>>
        ~> Held(up.fwd) = <<>> \/ server.phase = "ended" \/ Jammed(up.fwd)

AwaitsUpstream == assoc.phase = "trying" /\ assoc.left > 0

AssociationEnds ==
    assoc.phase # "first" /\ ~control ~> assoc.phase = "ended" \/ []AwaitsUpstream

ServerFollows ==
    assoc.phase = "ended" /\ server.phase = "running"
        ~> server.phase = "ended" \/ Jammed(up.fwd)

\* When the application closes its control connection the association ends, if a
\* first datagram has come (before that, only the relay socket is waited for), unless
\* it waits for ever for an upstream that does not answer, and so does not see the
\* close; and the end of the association ends the server's session, unless its upload
\* is jammed and so never reads the end of the connection.
BothEndsEnd == AssociationEnds /\ ServerFollows

=============================================================================
