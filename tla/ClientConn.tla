------------------------------ MODULE ClientConn ------------------------------
(***************************************************************************)
(* What the client does with the TCP connections its proxy port accepts    *)
(* (serve_proxy_conn in src/src/client/handler.rs): the SOCKS or HTTP      *)
(* handshake, or the pre-read of a transparently redirected connection;    *)
(* the choice of upstreams by the rules and by when each was last used;    *)
(* the attempts on them in turn; the answer; and the upload that follows.  *)
(*                                                                         *)
(* The connections are tasks of their own.  They share the configuration,  *)
(* which stays what it was when they were accepted, the activity counters  *)
(* and the clock.  The bytes a client sends after its request are numbered.*)
(***************************************************************************)
EXTENDS Rules, SequencesExt

CONSTANTS
    Conns,          \* accepted connections
    Clients,        \* what each connection may turn out to be: kind and request
    Upstreams,      \* upstream name -> [protocol, groups, enabled]
    Counted,        \* upstreams with an entry in ClientStatistics
    ScoreMax,       \* the largest score: u16::MAX seconds in the code
    Times,          \* bound: the values of the clock
    MaxBytes,       \* bound: bytes a client sends after its request
    PreReadCap,     \* the buffer of the pre-read: 4096 in the code
    Served          \* bound: the rule texts that are put in service

NoUpstream == "no upstream"
Ungrouped  == {"ungrouped"}
Names      == DOMAIN Upstreams

\* 0 stands for a counter that was never set: longer ago than any score tells.
ASSUME ClientAssumption ==
    /\ Times \subseteq Nat \ 0..ScoreMax
    /\ Counted \subseteq Names
    /\ IsFiniteSet(Names) /\ NoUpstream \notin Names
    /\ Times # {}
    /\ ScoreMax \in Nat \ {0} /\ MaxBytes \in Nat /\ PreReadCap \in Nat \ {0}

VARIABLES
    serving,    \* the rules are in service
    now,        \* the system clock, in seconds
    activity,   \* last_activity of each counted upstream
    conn        \* the connections

clientVars == <<serving, now, activity, conn>>
allVars    == <<vars, clientVars>>

Idle == [phase |-> "idle", kind |-> "tunnel", request |-> NoData, data |-> NoData,
         sent |-> 0, eof |-> FALSE, taken |-> 0, lost |-> 0,
         bytes |-> <<>>, cands |-> <<>>, longer |-> {}, attempts |-> <<>>,
         via |-> NoUpstream, got |-> <<>>, told |-> "nothing"]

-----------------------------------------------------------------------------
(* The choice of upstreams: find_best_upstream for a stream.               *)

\* Mutant of Score: the saturation is lost and the seconds wrap around.
ScoreWraps(n) == IF n \in Counted THEN Max({0, now - activity[n]}) % (ScoreMax + 1)
                 ELSE ScoreMax

\* calc_last_visit_score: seconds since the upstream was last used, saturated; as
\* if never used when there are no statistics for it, 0 if the clock was set back.
Score(n) == IF n \in Counted THEN Min({ScoreMax, Max({0, now - activity[n]})})
            ELSE ScoreMax

\* supports(Stream): every protocol but UDPMan.
Supports(n) == Upstreams[n].protocol # "udpman"

\* The upstreams a result of the rules leaves.  One that is named is not asked
\* whether it supports streams; one in no group belongs to every group.
Eligible(result) ==
    {n \in Names :
       /\ Upstreams[n].enabled
       /\ CASE result.kind = "none"   -> Supports(n)
            [] result.kind = "proxy"  -> n = result.arg
            [] result.kind = "group"  -> /\ Supports(n)
                                         /\ \/ Upstreams[n].groups = Ungrouped
                                            \/ result.arg \in Upstreams[n].groups
            [] result.kind = "reject" -> FALSE}

\* Sorted by score, least first; a hash map gives ties in any order.
BestUpstreams(result) ==
    {order \in SetToSeqs(Eligible(result)) :
       \A i, j \in DOMAIN order : i < j => Score(order[i]) <= Score(order[j])}

\* v has been idle longer than u by a difference that scores can tell.  (History:
\* no guard reads it.)
IdleLonger ==
    {p \in Counted \X Counted :
       /\ activity[p[1]] < activity[p[2]]
       /\ activity[p[1]] < now
       /\ now - activity[p[2]] < ScoreMax}

-----------------------------------------------------------------------------
(* From the accepted socket to the destination.                            *)

Become(c, update) == conn' = [conn EXCEPT ![c] = update]

\* The task of a connection ends, and what it held with it.
Ended(s) == [Idle EXCEPT !.phase = "closed", !.kind = s.kind, !.told = s.told]

\* A redirected connection goes to its original destination, and is read from first
\* if that may be HTTP or TLS; any other starts a handshake.
Accept(c, client) ==
    /\ conn[c].phase = "idle"
    /\ Become(c, [conn[c] EXCEPT
         !.kind = client.kind, !.request = client.request,
         !.phase = CASE client.kind # "transparent"               -> "handshake"
                     [] client.kind = "transparent"
                          /\ client.request.target.port \in {80, 443} -> "preread"
                     [] OTHER                                     -> "select"])
    /\ UNCHANGED <<vars, serving, now, activity>>

\* Handshaker::start: the request is parsed out of what was read.  Bytes read along
\* with it stay in a buffer that is dropped.  A plain HTTP request is the first data.
Handshake(c) ==
    /\ conn[c].phase = "handshake"
    /\ \E extra \in 0..conn[c].sent :
         Become(c, [conn[c] EXCEPT
           !.phase = "select", !.taken = extra, !.lost = extra,
           !.data = IF conn[c].kind = "http" THEN conn[c].request.data ELSE NoData])
    /\ UNCHANGED <<vars, serving, now, activity>>

\* End of stream, no known protocol, an unsupported method or command.
HandshakeFails(c) ==
    /\ conn[c].phase = "handshake"
    /\ Become(c, Ended(conn[c]))
    /\ UNCHANGED <<vars, serving, now, activity>>

Numbers(from, to) == [i \in 1..(to - from + 1) |-> from + i - 1]

\* The read of serve_tcp_tproxy_conn ends with some of what was sent, which names the
\* host or stops short of it, or with nothing at the end of the stream.
PreRead(c) ==
    LET s == conn[c]
        cut == [NoData EXCEPT !.given = TRUE]
    IN  /\ s.phase = "preread"
        /\ \E n \in 0..Min({s.sent, PreReadCap}) :
             /\ n = 0 => s.eof /\ s.sent = 0
             /\ \E data \in IF n = 0 THEN {cut} ELSE {cut, s.request.data} :
                  Become(c, [s EXCEPT !.phase = "select", !.data = data,
                                      !.taken = n, !.bytes = Numbers(1, n)])
        /\ UNCHANGED <<vars, serving, now, activity>>

\* Nothing came for TCP_PROXY_PRE_READ_TIMEOUT: the upstream is chosen without.
PreReadTimeout(c) ==
    /\ conn[c].phase = "preread"
    /\ conn[c].sent = 0 /\ ~conn[c].eof
    /\ Become(c, [conn[c] EXCEPT !.phase = "select"])
    /\ UNCHANGED <<vars, serving, now, activity>>

PreReadFails(c) ==
    /\ conn[c].phase = "preread"
    /\ Become(c, Ended(conn[c]))
    /\ UNCHANGED <<vars, serving, now, activity>>

-----------------------------------------------------------------------------
(* find_and_connect_stream.                                                *)

ResultFor(s) == ExecuteRules(rules, s.request.target, "tcp", s.data)

Select(c) ==
    /\ conn[c].phase = "select"
    /\ \E order \in BestUpstreams(ResultFor(conn[c])) :
         Become(c, [conn[c] EXCEPT !.phase = "trying", !.cands = order,
                                   !.longer = IdleLonger])
    /\ UNCHANGED <<vars, serving, now, activity>>

\* The list is popped: the upstream idle for longest comes first.
Chosen(cands) == Last(cands)

Others(cands) == Front(cands)

\* Mutant of InitialData: the first attempt consumes it.
InitialDataOnce(s) == IF s.attempts = <<>> THEN s.bytes ELSE <<>>

\* Every attempt is given the same initial data.
InitialData(s) == s.bytes

\* new_stream of one upstream succeeds, with the initial data on its way, and
\* update_upstream records it.  A client that asked for https:// waits for TLS.
TryOk(c) ==
    LET s == conn[c]
        n == Chosen(s.cands)
    IN  /\ s.phase = "trying" /\ s.cands # <<>>
        /\ Supports(n)
        /\ Become(c, [s EXCEPT
             !.phase = CASE s.kind = "https"       -> "tls"
                         [] s.kind = "transparent" -> "relay"
                         [] OTHER                  -> "answer",
             !.cands = Others(@), !.attempts = Append(@, n),
             !.via = n, !.got = InitialData(s)])
        /\ activity' = IF n \in Counted THEN [activity EXCEPT ![n] = now] ELSE activity
        /\ UNCHANGED <<vars, serving, now>>

\* Mutant of LeftAfterFailure: the first error ends the attempts, as in udp.rs after
\* a query that got no answer.
LeftAfterFailureNone(cands) == <<>>

LeftAfterFailure(cands) == Others(cands)

\* It fails, before or after the initial data was written, or has no streams at all.
TryFails(c) ==
    LET s == conn[c]
    IN  /\ s.phase = "trying" /\ s.cands # <<>>
        /\ Become(c, [s EXCEPT !.cands = LeftAfterFailure(@),
                               !.attempts = Append(@, Chosen(s.cands))])
        /\ UNCHANGED <<vars, serving, now, activity>>

\* No upstream is left: an error is answered where there was a handshake.
Exhausted(c) ==
    /\ conn[c].phase = "trying" /\ conn[c].cands = <<>>
    /\ Become(c, [conn[c] EXCEPT !.phase = "closed",
                    !.told = IF conn[c].kind = "transparent" THEN @ ELSE "error"])
    /\ UNCHANGED <<vars, serving, now, activity>>

\* find_and_connect_tls: the TLS handshake through the upstream, then the request.
TlsOk(c) ==
    /\ conn[c].phase = "tls"
    /\ Become(c, [conn[c] EXCEPT !.phase = "answer"])
    /\ UNCHANGED <<vars, serving, now, activity>>

\* Mutant of AfterTlsFailure: the answer is left to the end of the attempts.
AfterTlsFailureSilent(s) == [s EXCEPT !.phase = "closed"]

\* No other upstream is tried.
AfterTlsFailure(s) == [s EXCEPT !.phase = "closed", !.told = "error"]

TlsFails(c) ==
    /\ conn[c].phase = "tls"
    /\ Become(c, AfterTlsFailure(conn[c]))
    /\ UNCHANGED <<vars, serving, now, activity>>

\* respond_ok writes nothing for a request that is itself forwarded: its answer is the
\* target's.
RespondOk(c) ==
    /\ conn[c].phase = "answer"
    /\ Become(c, [conn[c] EXCEPT !.phase = "relay",
                    !.told = IF conn[c].kind \in {"http", "https"} THEN @ ELSE "ok"])
    /\ UNCHANGED <<vars, serving, now, activity>>

\* The client is gone.
RespondFails(c) ==
    /\ conn[c].phase = "answer"
    /\ Become(c, Ended(conn[c]))
    /\ UNCHANGED <<vars, serving, now, activity>>

\* The upload half of copy_duplex.
Relay(c) ==
    LET s == conn[c]
    IN  /\ s.phase = "relay"
        /\ \E to \in (s.taken + 1)..s.sent :
             Become(c, [s EXCEPT !.taken = to, !.got = @ \o Numbers(s.taken + 1, to)])
        /\ UNCHANGED <<vars, serving, now, activity>>

\* Either half of copy_duplex ends, and the race drops the other.
RelayEnds(c) ==
    /\ conn[c].phase = "relay"
    /\ Become(c, Ended(conn[c]))
    /\ UNCHANGED <<vars, serving, now, activity>>

-----------------------------------------------------------------------------
(* The clients, the clock and the rules.                                   *)

\* Bytes sent between the request and the relay wait in the socket, as if they were
\* sent when the relay starts.
ClientSends(c) ==
    /\ conn[c].phase \in {"preread", "handshake", "relay"}
    /\ ~conn[c].eof /\ conn[c].sent < MaxBytes
    /\ Become(c, [conn[c] EXCEPT !.sent = @ + 1])
    /\ UNCHANGED <<vars, serving, now, activity>>

\* The end of the stream shows in the pre-read.  (In a handshake it is one of the
\* ways to fail, later it is one of the ways the relay ends.)
ClientCloses(c) ==
    /\ conn[c].phase = "preread"
    /\ ~conn[c].eof
    /\ Become(c, [conn[c] EXCEPT !.eof = TRUE])
    /\ UNCHANGED <<vars, serving, now, activity>>

\* Time passes, or the clock is set, forward or back.
ClockMoves ==
    /\ serving
    /\ now' \in Times \ {now}
    /\ UNCHANGED <<vars, serving, activity, conn>>

\* The text of the rules is read, and served if it was not refused.
ReadLine == ~serving /\ Next /\ UNCHANGED clientVars

StartServing ==
    /\ ~serving /\ ~failed
    /\ rules \in Served
    /\ serving' = TRUE
    /\ last' = NoName
    /\ UNCHANGED <<rules, failed, now, activity, conn>>

ConnNext(c) ==
    \/ Handshake(c) \/ HandshakeFails(c)
    \/ PreRead(c) \/ PreReadTimeout(c) \/ PreReadFails(c)
    \/ Select(c) \/ TryOk(c) \/ TryFails(c) \/ Exhausted(c)
    \/ TlsOk(c) \/ TlsFails(c) \/ RespondOk(c) \/ RespondFails(c)
    \/ Relay(c) \/ RelayEnds(c)
    \/ ClientSends(c) \/ ClientCloses(c)

ClientInit ==
    /\ Init
    /\ serving = FALSE
    /\ now = Min(Times)
    /\ activity = [n \in Counted |-> 0]
    /\ conn = [c \in Conns |-> Idle]

ClientNext ==
    \/ ReadLine
    \/ StartServing
    \/ ClockMoves
    \/ \E c \in Conns : \/ serving /\ \E client \in Clients[c] : Accept(c, client)
                        \/ ConnNext(c)

ClientSpec == ClientInit /\ [][ClientNext]_allVars

-----------------------------------------------------------------------------
(* Properties.                                                             *)

\* The upstream gets the client's bytes in order and whole: what the pre-read took
\* reaches whichever upstream takes the connection in the end, and only bytes that
\* came in with a handshake are missing.
UploadIsWhole ==
    \A c \in Conns :
      LET s == conn[c]
      IN  s.via # NoUpstream
          => /\ s.got = Numbers(s.lost + 1, s.taken)
             /\ s.kind = "transparent" => s.lost = 0

\* Upstreams are tried in the order of how long they had been idle when the list was
\* made, whatever other connections have used since; but only as far as a saturated
\* score and the statistics there are can tell.
LongestIdleFirst ==
    \A c \in Conns :
      LET s == conn[c]
          order == s.attempts \o Reverse(s.cands)
      IN  \A i, j \in DOMAIN order :
            i < j => <<order[j], order[i]>> \notin s.longer

\* A client is told of a failure only when every upstream the rules leave it failed,
\* or when the one that took the connection could not be used for TLS.
ErrorMeansAllTried ==
    \A c \in Conns :
      LET s == conn[c]
      IN  s.told = "error"
          => \/ ToSet(s.attempts) = Eligible(ResultFor(s))
             \/ s.kind = "https" /\ s.via # NoUpstream

\* A client whose upstreams all fail, or whose TLS handshake fails behind one, is told
\* before its connection is dropped, and no answer is followed by another.
AnsweredOnce ==
    [][\A c \in Conns :
         LET s == conn[c]
             t == conn'[c]
         IN  /\ s.told # "nothing" => t.told = s.told
             /\ s.kind # "transparent" /\ s.phase \in {"trying", "tls"}
                  /\ t.phase \in {"relay", "closed"}
                => t.told # "nothing"]_allVars

=============================================================================
