# Verification of cpxy

cpxy is a proxy: a client process that accepts SOCKS, HTTP and transparently
redirected traffic, chooses an upstream for it by rules, and carries it there
over one of several protocols (TCPMan, FireTCP, UDPMan, SOCKS5, HTTP, direct),
and the servers for those protocols. This directory holds TLA+ models of its
stateful parts, the TLC runs that check them on small instances, and proofs that
TLAPS checks for every value of the constants. `PROJECT.json` maps every
definition to the lines it models.

    tlc -config CipherStream.cfg MCCipherStream      # a run
    tlapm CipherStreamProofs.tla                     # a proof

## Inventory

| Component | State | Operations | Hard behaviour |
|---|---|---|---|
| TCPMan cipher stream (`protocol/tcpman/cipher`) | cipher position and counter at both ends, last written size | connect, accept, poll_write, poll_read | short, refused and failed writes after the keystream was applied; a FirstN span that ends anywhere |
| FireTCP cipher (`protocol/firetcp`) | bytes left under the initial cipher, establish cipher | poll_write, poll_read, set_establish_cipher | the reader learns the second cipher from bytes under the first; the 512 byte edge; full transport |
| UDPMan server (`protocol/udpman/server.rs`) | ConnMap, connection tasks, their channels and timer | Connect, Data, task steps, deferred removal, end of serve | id exhaustion and reuse, cancellation, receiver gone before its task, lost timers |
| UDPMan client (`protocol/udpman/client.rs`) | session, uuid, connection id | new_datagram, upload, download | lost, reordered and duplicated messages; address reuse; timeouts |
| Controller (`controller.rs`, `broadcast.rs`) | current configuration, file, broadcast slot | set_config, update_upstreams, delete_upstreams, restart | truncation of the only copy, crash, overtaking |
| Client life cycle (`client/handler.rs`, `iptables.rs`) | listener, UDP proxy, router rules | run_client's loop, run_proxy_with | rules that outlive what they point to |
| Statistics (`client/stats.rs`) | counters per upstream | renames, replacements, deletions in batches | chains and cycles of renames |
| UDP transparent proxy (`client/transparent`) | sessions, cleanup channel, session tasks | datagrams, cleanup, relay | stale cleanup keys, bounded cleanup channel, early returns, lost timers |
| UDP sink (`io/udp.rs`) | ten buffered datagrams, one waker | poll_ready, start_send, poll_flush under Forward and SplitSink | a waiter nobody wakes |
| Upstream selection (`config.rs`, `rule.rs`, `pattern.rs`) | rules, upstreams, activity | find_best_upstream, rule evaluation | jumps and their limit, ties and saturation of scores, stale activity |
| Handshake (`handshake.rs`, `socks4.rs`, `socks5/*`, `http.rs`) | bytes read so far | detection, incremental parsing, answers | input cut anywhere; bytes read too early; both sides waiting |
| TCPMan framing (`protocol/tcpman/udp_stream.rs`, `proto.rs`, `dgram.rs`) | last address on both ends, channels, the server's session | requests, delta-coded datagrams, both relay tasks | the ends' addresses in step; a session that fails, jams or ends on one side |
| UDPMan codec (`protocol/udpman/proto.rs`) | none | encode, decode | optional fields, short messages |
| Relay and buffers (`utils.rs`, `buf.rs`, `io/utils.rs`) | buffer window | copy_duplex, race, growth | half-closed streams |
| Client serving (`client/tcp.rs`, `http.rs`, `udp.rs`) | a connection's first data, its list of upstreams; an association's first datagram, control connection and relay socket | pre-read, upstreams in turn, answers, datagrams in both directions | failure after data was sent, bytes read too early, strays at the relay socket |
| DNS cache (`dns.rs`) | address map | cache, get, clean_up | expiry |
| Other protocols (`protocol/direct`, `http`, `socks5`) | none of their own | new_stream, new_datagram, the HTTP proxy server | a proxy's answer and the target's first bytes in one read |
| Ad blocking, GeoIP, HTTP utilities, programs | none | wrappers, look-ups | |

The controller owns the configuration and sends it, with the statistics, through
a broadcast channel of capacity one to `run_client`, which rebuilds the listeners
for each configuration it takes. The listeners spawn one task per connection,
which calls a protocol's `new_stream` or `new_datagram`. Tasks run on smol's
executor; dropping a `Task` cancels it, and its future is dropped by the executor
at some later time. That delay, and everything that happens in it, is what most
of the interleavings here are about.

## Modules

**CipherStream** models one direction of a TCPMan connection, the client's
writer, the bytes in between and the server's reader. A byte is its offset in
the plaintext and the keystream position it was XORed with, so that "decrypts
correctly" is "the reader used the same position". `Connect` and `Accept` are
`cipher::client::connect` and `cipher::server::accept_client` with the strategy
travelling as text; `PollWrite...` has one action per answer of the transport.
The counter of `FirstN` goes negative as in `PartialStreamCipher`.

**FireTcpCipher** does the same for FireTCP, with the switch of ciphers after
`InitLen` bytes. `Spec` has a transport that takes at least one byte of each
write; `SpecWithFullTransport` adds the transport that takes none
(`PollWritePending`).

**ConnMap** holds the operators of the server's `ConnMap`. **UdpManServer** has
the map, the connection tasks and the messages to clients; a task's life is
spawned, waitReply, relaying, ending, done. `rx` says whether the receiver of
its channel still exists, `cancelled` that its `Task` was dropped, `armed` that
its timer is registered with a waker. `ServeConnect` and the `Data...` actions
are the branches of the receive loop, `Forget` the deferred removal. **UdpMan**
adds clients and a network that loses, reorders and duplicates; an address
serves several sessions in turn, so that messages for an earlier session reach
a later one.

**UpstreamStats** holds what the controller's requests do to upstreams and
statistics. **Controller** has the controller, the file, the broadcast channel
and `run_client`. A save is two steps, `BeginSave` (which truncates) and
`SaveSucceeds` or `SaveFails`, so that a crash can come between. `version` and
`replaced` are marks only properties read, and so is `cleaned`, whether the last
`clean_up` left nothing. The router rules are the chain of the `nat` and of the
`mangle` table, each missing, without effect, or redirecting to a port of 127.0.0.1,
the only thing `add_rules` is told of an address. Every command may fail: `CleanUps`
and `AddedInPart` are what can be left, `StopOld` and `StartProxy` go on regardless as
`run_client` does, and a crash finds the chains half done (`HalfWay`).

**TProxy** models the sessions of the UDP transparent proxy, keyed by source and
destination, the cleanup channel and the session tasks.

**Rules** reads a rule text line by line into tables (`parse_rules`) and executes
them (`execute_table`); the recursion over jumps is a function of the levels
left. **ClientConn** extends it with the TCP connections of the client: a
connection is pre-read or makes its handshake, gets the list of upstreams that
the rules and the activity counters give, tries them from the end of the list,
answers and relays the upload. Connections share counters and clock, which may
be set back. The client's bytes are numbered from its request on; `lost` counts
those that were read along with the handshake, `longer` (which no guard reads)
which upstreams had been idle longer than which when the list was made.

**Pipe** is the abstract specification of a reliable stream of bytes, with what
is written and what is delivered as its only state. `CipherStream!CipherIsPipe`
maps the acknowledged offset (the initial data counts once `Connect` has sent it)
and the received bytes to it, `FireTcpCipher!FireTcpIsPipe` the sent offset and
what the server passes on.

**Address** reads and writes a target address as SOCKS and TCPMan do, including
literals, names that are not UTF-8 and names that do not fit. `Repaired` is what
`from_utf8_lossy` makes of names that are no UTF-8, and `AddressAssumption` says what
is used of it: the result is UTF-8, and at most three times as long. **Socks** has the
SOCKS 4 and 5 messages and the UDP packets on top of it, **RWBuffer** the window
of `buf.rs` with its growth, **Handshake** `Handshaker::start` as a function of
the bytes of each read. **ProxyHandshake** composes them into one connection,
byte by byte: the client is the program's own `Socks5` or `HttpProxy` upstream or
a foreign program, the server is the local proxy or the HTTP proxy server, and a
read returns any part of what is on its way. It ends with the relay: both
directions of `copy_duplex` and the race, which ends with the end of what either
copy reads (`RelayEnds`) or with the error of either (`RelayFails`). The target of a
CONNECT is text: `IsTextOf` is the `Display` of an address, `FromText` reads it back,
and `RequestHead` puts it into the request line without escaping anything, so that
`ReadHead` finds it there, or something else, or nothing. The texts of ports, of
socket addresses and of URLs, and which bytes httparse takes in a path, are
constants; of headers there are none, and a method is one byte.

**UdpManProto** has the bytes of UDPMan's messages, with every field found by its
place; `UdpMan!WireFaithful` reads back every message in flight.

**TcpManUdp** has TCPMan's request and its frames, which leave out an address that
is the last one. **UdpSink** has Forward, With, SplitSink and the socket's buffer
as one chain of slots; a poll moves on what it can. **UdpChain** composes both
with the SOCKS UDP packets into an association from the application to the targets
and back: relay socket, upstreams in turn, request, channels, frames on the
connection, the server's session with Direct's socket, the one-off query, and all
the ways in which the association, the connection and the session end. The
connection between the two processes is a reliable stream, which is what
`CipherIsPipe` shows of it.

The `MC...` modules give constants and symmetry for TLC; the `...Proofs` modules
hold theorems. Definitions whose comment begins with "Mutant of" are faulty
variants used to show that a property can fail; no specification uses them.

## Runs

| Run | Configuration | Result | What it shows |
|---|---|---|---|
| cipher_stream | CipherStream.cfg | pass | the stream implements Pipe, so plaintext is delivered in order; acknowledged bytes in flight once, exactly the span encrypted |
| firetcp_cipher | FireTcpCipher.cfg | pass | the stream implements Pipe; ciphers switch at the same byte; a full request is refused |
| firetcp_full_transport | FireTcpFullTransport.cfg | violation | a full transport garbles the stream (`cipher/write.rs:77`) |
| udpman_server | UdpManServer.cfg | pass | exactly the living connections are in the map, evictions only by stale removals, connections are forgotten unless they lost their timer |
| udpman_server_idle | UdpManServerIdle.cfg | violation | after a relayed datagram the idle timeout is lost (`io/timer.rs:23`) |
| udpman | UdpMan.cfg | pass | a session's id was made for it; data strays only after its connection is gone; messages survive their encoding |
| udpman_own_echo | UdpManOwnEcho.cfg | violation | a session can receive another session's echo (`udpman/server.rs:116`) |
| controller | Controller.cfg | pass | saved before used, no rollback, an acknowledged configuration reaches `run_client`; counters are neither shared nor left behind; unless the last `clean_up` failed, the redirections are those of the configuration in use and lead to its proxy if that listens on 127.0.0.1 |
| tproxy | TProxy.cfg | pass | one session per flow, ended ones announced and forgotten, with the exceptions the code has (a lost timer, an upstream that stays silent); evictions only by stale keys |
| client_conn | ClientConn.cfg | pass | rules decide stably, their limit is for loops only, a sniffed host overrides the DNS cache; upstreams in order of idleness, none the rules forbid, all of them before an error; one answer; the upload whole but for bytes read with a handshake |
| proxy_handshake | ProxyHandshake.cfg | pass | however the bytes are cut, a request is understood as what it is, both ends agree on the target if its text fits a request line, no byte moves between handshake and relay, the two never wait for each other; a relay that ends without an error has carried one direction to its end, and a reply arrives unless the stream is dropped, fails or is reset |
| udp_chain | UdpChain.cfg | pass | datagrams go through in order, once and with their addresses, in both directions; a full sink is stuck for good, and short of that everything is sent; both ends end, with the exceptions the code has (no first datagram, a jam, a silent upstream) |

Bounds, and why they are enough:

- The TCPMan stream is eleven bytes with chunk limits two and three instead of
  512 and 4096: the FirstN spans end inside the initial data, at its edge and
  inside a chunk, and several writes of every size fit. FireTCP's initial span is
  five bytes in a stream of fourteen, with requests of three to seven bytes.
- Two ids and three tasks make ids run out, be reused while the previous holder
  is still being dropped, and be reused again. `IncomingCap` 1 makes channels
  full. One message in flight to clients is enough because the network is a set
  that delivers or loses in any order and the tasks never look at it. UdpMan has
  one address with two sessions and one duplicate.
- Three configurations and one crash give an initial, an overtaken and a newest
  configuration, and a restart in the middle. There are two
  names, two protocols and batches of two, which contain swaps and replacements.
  A proxy is on all addresses without rules, on 127.0.0.1 with rules for TCP and UDP,
  or on another address with rules for TCP. `EditedUnder` restricts updates and
  deletions of upstreams to the first: they do not look at these settings, and
  `run_client`'s rules not at the upstreams, so that all combinations would only
  multiply the states. The theorems hold for every `EditedUnder`, all settings included.
- The transparent proxy has two flows, one of them one-off, three session tasks
  and one place each in a session's channel and the cleanup channel, so that both
  are full.
- The rule texts have up to three rules in three tables with three levels: the
  longest chain of jumps, loops, a jump to a missing table. Two of them are put in
  service. Two connections, two usable upstreams next to one without streams and
  one that is disabled, two bytes and two times, the later of which saturates the
  score of what was used at the earlier.
- ProxyHandshake has 25 sessions: each protocol, each kind of address, broken and
  unsupported requests, hosts that are too long, empty, of colons, with a space or
  the text of an IP address, requests sent at once with their upload. Buffers start with five bytes, less than most requests, so that they
  grow; uploads and replies of two bytes can be cut.
- UdpChain has eight scripts of up to five datagrams: repeated and changing
  addresses, a stray packet, a one-off query, replies from two targets, names that
  cannot be resolved or sent to, two upstreams of which the first may fail before
  or after it has passed the first datagram on. `MaxBuffer` 2 and `ChannelLen` 1
  instead of ten make both full.
- Deadlock is not checked: bounded runs end when the tasks or requests are used
  up.

Fairness:

- `FairServerSpec` is weak fairness of the steps the executor or the reactor
  guarantee: a runnable task is polled, a registered timer fires, a cancelled
  future is dropped, the outgoing channel is emptied. `Establish` gets strong
  fairness because the channel serves waiting senders in turn. A timer that is
  not registered gets none. Neither clients nor destinations are assumed to do
  anything.
- `Controller!FairSpec` is weak fairness of `run_client`, whose awaits all end.
- `TProxy!FairSpec` is weak fairness of the loop's cleanup branch and of the
  session tasks, strong fairness of sending a key for the same reason as above.
- `ProxyHandshake!FairSpec` is weak fairness of both programs' steps, which are
  polled when their sockets are ready; a target sends its reply, but nobody has to
  close.
- `UdpChain!FairSpec` is weak fairness of each task. The application, the targets,
  the connection and the idle timer of the association (see finding 3) owe
  nothing.
- In none of the last three does an attempt to connect to an upstream have to end:
  `new_stream` and `new_datagram` of the proxy protocols wait for an answer without a
  timeout. So there is no fairness of `TProxy`'s and `UdpChain`'s steps that end an
  attempt (`UpstreamFails`, `StartServing`, `AttemptEnds`), nor of
  `ProxyHandshake!ConnectEnds`, and the liveness properties except what waits for
  ever (`AwaitsUpstream`, `[](server.phase = "connecting")`). A one-off query, which
  does have a timeout, is fair (`OneOffReturns`).

## Findings

1. `CipherWrite::poll_write` (FireTCP) leaves through `ready!` after it has
   applied the keystream, so that the retry of a refused write is garbled.
   TCPMan's `CipherStream` rewinds at the same place, and is proved correct.
2. UDPMan's server accepts data by connection id alone. Ids are reused at once,
   so late data of one client reaches, and is answered to, another.
3. `Timer::reset` drops the timer whose waker is registered. As it is always
   called from another task than the one that waits, the idle timeout is lost
   with the first relayed datagram (UDPMan server, SOCKS UDP, transparent UDP).

Also visible in the models, without a line of the repository that says otherwise:
eleven datagrams that are ready at once jam a UDP sink for good (`io/udp.rs:126`,
`JamIsForGood`), after which the server's session does not see its client leave
(`ServerFollows`); the local proxy drops what is read along with a request
(`client/handler.rs:133`, `UploadIsKept`), which is what `HttpProxy` sends behind
its CONNECT; `copy_duplex` cuts a reply when the client finishes its upload
(`RelayCutsOneSide`); `HttpProxy` writes a host with a space or a line break into its
request line as it is (`http.rs:48`, `Plain`); the router rules lead to 127.0.0.1
whatever address the proxy is bound to (`client/handler.rs:60`, `IsLocal`); Direct inverts the argument of `bind_udp`
(`protocol/direct/mod.rs:57`), so that literal IPv6 targets fail and IPv4 targets
answer under mapped addresses (`UdpChain!Family`, `Shown`).

## Proofs

| Module | Theorems | Assumptions |
|---|---|---|
| CipherStreamProofs | `CipherImplementsPipe`, `TypeCorrect`, `DeliversPlaintextTheorem`, `AcknowledgedTheorem`, `SpanEncryptedTheorem` | `CipherAssumption` |
| ControllerProofs | `AcknowledgedIsSavedTheorem`, `ClientNeverAheadTheorem`, `RulesLeadToProxyTheorem`, `NoRollbackTheorem`, `StatsFollowUpstreamsTheorem` | `ControllerAssumption` |
| TProxyProofs | `OneSessionPerKeyTheorem`, `EndedIsAnnouncedTheorem`, `OnlyStaleCleanupEvictsTheorem` | `TProxyAssumption` |
| FireTcpCipherProofs | `FireTcpImplementsPipe`, `DeliversPlaintextTheorem`, `RefusesFullRequestTheorem` | `FireTcpAssumption` |
| UdpManProofs, the map | lemmas on insert, remove, binary search; `AvailableIdIsFree` | `MaxIdAssumption` |
| UdpManProofs, the server | `ServerTypeCorrect`, `MapStaysSorted`, `NoConnectionLeaks`, `OnlyStaleDeferEvictsTheorem`, `InsertKeepsOthersTheorem` | `MaxIdAssumption`, `ServerAssumption` |
| UdpManProofs, end to end | `EstablishedIdIsMineTheorem`, `StrayOnlyAfterForgottenTheorem`, `ServedClientsImplementServer`, `CodecSurvives`, `WireFaithfulTheorem` | `MaxIdAssumption`, `ServerAssumption`, `ClientAssumption` |
| ClientConnProofs | `LimitIsForLoopsTheorem`, `SniffedHostDecidesTheorem`, `DecidedIsStableTheorem`, `UploadIsWholeTheorem`, `LongestIdleFirstTheorem`, `ErrorMeansAllTriedTheorem`, `AnsweredOnceTheorem` | `RulesAssumption`, `ClientAssumption` |
| UdpChainProofs | `DatagramsConservedTheorem`, `JamIsForGoodTheorem` | `ChainAssumption`, `AddressAssumption` |
| ProxyHandshakeProofs | `UnderstoodAsMeantTheorem`, `AgreeOnTargetTheorem`, `BytesAreKeptTheorem`, `RelayCutsOneSideTheorem` | `HandshakeAssumption`, `TextsAssumption`, `AddressAssumption` |

- CipherStream: `DeliversPlaintext` is not inductive, because it says nothing of
  the two ciphers. The invariant `IInv` adds that each cipher is *in step* with
  the number of bytes that went through it: position and counter are those of a
  fresh cipher applied to that many bytes at once, or the cipher is gone and the
  span is over. Two lemmas carry the argument: applying to a chunk and rewinding
  what was not taken is the same as applying to what was taken
  (`AfterWriteIsApply`), and a refused write is the identity
  (`AfterPendingIsIdentity`). Then every byte on the wire has the position
  promised for its offset, and a reader in step removes it. For
  `CipherImplementsPipe` the same invariant gives that each step of the stream is
  a step of Pipe or leaves its two variables alone: what a write acknowledges
  only grows `Written`, what a read appends is the next bytes in clear, and
  `AcknowledgedIsInFlight` bounds it by what was written. `StepImplementsPipe` goes
  through the actions one by one.
- UdpManServer: `SInv` strengthens `MapHoldsAlive` with the order of the map and
  the types. Order gives uniqueness of ids, `AvailableIdIsFree` gives that
  insertion never replaces, and `RemoveOne` that removal touches one id. The
  eviction theorem needs the invariant because a task that still has its entry
  can only remove itself.
- Controller: `CInv` orders the versions: what `run_client` has, the initial and
  broadcast configurations, the current one, the one being saved; and relates
  the rules to the phase of `run_client`: after a `clean_up` that left nothing there
  are none, then those of the configuration, or, when `add_rules` failed, those that
  the second `clean_up` left, of which `cleaned` speaks anew. `StatsFollowUpstreams` needs the same of the configuration that is being
  written, because a failed save drops it (`StatsInv`). A request changes
  several upstreams in turn, each with the counters the one before has left:
  `UpdatesInTurn` goes along the batch. New counters are told apart by the
  version that made them and their place in its batch.
- TProxy: `OneSessionPerKey` depends on what the map holds being the session
  task's own, on a task keeping the key it was started for, and on the keys in the
  cleanup channel coming from tasks that have ended (`MapHoldsOwn`,
  `StartedForKey`, `KeysFromEnded`). By the last, a key can evict a running
  session only if that was started later than the one that sent it. Most actions
  change one task's record and share `LocalStep`.
- FireTcpCipher: each side's cipher is in step with the bytes that went through it,
  as above, with one difference: the server's reader knows whether there is an
  establish cipher only after it has read the request (`EstKnown`). Until then
  it has taken no more than the request, and a request that fills the initial span
  is refused (`RefusesFullRequest`): no byte behind the span was read without the
  cipher. All of it is about `Spec`, whose transport takes at
  least one byte of a write; with `PollWritePending` it is false (finding 1).
- UdpMan: every step of the composition is a step of the server or leaves its
  variables alone (`ServedClientsImplementServer`), so that what is proved of
  `UdpManServer` holds with real clients (`EndToEndMap`). `UInv` adds that the
  id in a message under way was given to a connection made for the session that the
  message is about (`UplinkOwned`, `DownOwned`). The message may outlive both, which
  is why this speaks of every connection that was ever made.
- The UDPMan codec: `CodecSurvives` is about messages of any byte strings within
  the widths of their length fields. Each optional field is read at the place where
  the fields before it end; `Row` and `Layout` say where that is, `OptRead`,
  `AddrRead` and `ReplyRead` that it is read back. A part of a message is refused or
  differs in its payload only, because the payload is what comes last and has no
  length. `WireFaithful` follows, as only messages made by the constructors are
  under way.
- ClientConn: for the rules, `RulesInv` says that tables hold rules. Without a loop,
  each further level settles the verdict of one more table (`UnsettledShrinks`), so
  that a level for each table is enough and more change nothing. A connection
  satisfies `ConnOK`: what was tried and what is left are the upstreams the rules
  gave (`Trying`), ordered by the idleness at the time it was made
  (`Ordered`), nothing is answered before the relay and no error with it
  (`Answered`), and what was taken is in hand or with the upstream but for what came
  with a handshake (`Uploading`).
- UdpChain: for `DatagramsConserved` one has to know what each piece of bytes on the
  way stands for. `AddressRead` says that parsing undoes `write_to` whatever follows,
  `RequestReceived` and `FrameRead` the same of the request and of a frame that
  leaves out the last address. The connection is then a row of whole frames which
  decode to the datagrams that were put in, with the same last address at both ends
  (`DecodedIs`), and a poll of the chain of slots moves datagrams on without
  changing their row (`PolledKeeps`). `IInv` puts this together for the upload
  (`UpKept`: what was sent, and behind it what each stage holds, is what came in)
  and for the download (`DownKept`, against the answers of the targets), along with
  the phases of both ends (`Phases`), as what is abandoned depends on who has ended.
- ProxyHandshake: every parser *settles*: what it has made of some bytes, other than
  "incomplete", is what it makes of them when more have come (`GreetingSettles` to
  `AtOnceSettles`). `MeantBy` is what bytes mean to someone who has them all at once,
  and `HandshakeStepOK` shows that a handshake is, after every read, where the
  bytes so far put it (`HsOK`), with what it has not used in its buffer (`Holds`).
  `SentMeans` says what the bytes of each client mean, which needs that addresses
  are read back as they were written; for a CONNECT, that the text of an address that
  is one path is the path found in the head (`RequestHeadIs`, `HeadFound`, `PlainHead`),
  and that what is read of it is the address, or the socket address it is the text of
  (`TextRead`). `IInv` follows the two directions: the upload
  behind the request is with the target, in the buffer or on its way (`UpOK`,
  `CarryOK`); the client waits for exactly one answer, and what comes down is this
  answer and the reply behind it (`DownOK`); a relay that ends without an error does so
  with the reply passed on or with nothing left of the upload (`EndOK`). A `SessionOK` session is any target,
  payload and reply of the upstream protocols, or any bytes of another program that
  do not begin with an empty line (httparse skips such lines), with `meant` fixed by
  them. What a CONNECT becomes is not assumed but computed: `head` is whatever the
  request line with the text of the target is up to the first empty line, and for a
  target that breaks the line `meant` is what is read there.
- `DeliversPlaintext` (of both streams, under `Spec`), `MapSorted`,
  `InsertKeepsOthers`, `ServedClientsImplementServer` and `CodecSurvives` have no
  passing run of their own: they show in `CipherIsPipe`, `FireTcpIsPipe`,
  `MapHoldsAlive` and `WireFaithful`, which the runs check.

Where an argument goes by induction over a number (levels of jumps, places in a
batch or a list), it is written as the choice of a least counterexample
(`LeastNatural`, `LeastOf`), since the provers cannot instantiate a theorem that has
a formula as its parameter. Recursive functions come with a lemma that unfolds them
once (`ExecuteUnfolds`).

Only model-checked is what must happen in the end (`QuietConnIsForgotten`,
`QuietSessionIsForgotten`, `AcknowledgedIsApplied`, `Settles`, `DownloadArrives`,
`UploadFlushed`, `BothEndsEnd`), as the prover does neither fairness nor ENABLED.

## Hazards without a property

- `client/common.rs:35`: an upstream that accepts and stays silent holds a
  connection for good, and one that fails after it has passed the initial data on
  makes the next one send the request again. The code retries by design and has no
  timeout; no fairness makes the attempt end, and the liveness properties except it.
- `client/handler.rs:88`, `:108`, `iptables.rs:36`: the UDP proxy does not start,
  `accept` fails once, a clean-up command fails, and rules lead to nobody until the
  next configuration. Nothing in the code promises otherwise; `RulesLeadToProxy` says
  nothing of the time after a `clean_up` that left something.
- `client/handler.rs:60`: a proxy bound to one address other than 127.0.0.1 is not
  where the rules lead.
- `client/handler.rs:133`: what is read along with a request is dropped;
  `UploadIsWhole` and `BytesAreKept` except exactly this.
- `controller.rs:125`: the only copy of the configuration is truncated before it is
  written; `AcknowledgedIsSaved` excuses the damaged file.
- `rule.rs:208`: that a loop of jumps is cut holds by the shape of `Execute`;
  `LimitIsForLoops` is about what is not a loop.
- `tcpman/proto.rs:59`: an address that grew in its repair panics the task, which is
  modelled as the end of the association (`RequestPanics`).
- `client/udp.rs:43`: an association whose application leaves before its first
  datagram stays; `BothEndsEnd` begins with that datagram.
- `firetcp/server.rs:36`: the task of a served client removes the table entry of its
  address, which by then may be that of a new connection.
- `socks5/udp_relay.rs:44`: replies go to whoever has sent to the relay socket last,
  a malformed packet included (`UdpChain!RelayReads`).
- `protocol/socks5/mod.rs:110`: the control connection of a SOCKS association is
  dropped when `new_datagram` returns.
- `io/udp.rs:158`: closing a sink drops what it buffers.
- `http.rs:203`: the chunked body reader subtracts what it has from a chunk's length,
  and with two chunks in the buffer underflows or drops the second.
- `dns.rs:77`: an answer behind a CNAME is not cached.
- `tcpman/cipher/stream.rs:144`: a vectored write goes on after a short one.

## Not modelled

- `poll_write_vectored` and `RWBuffer::compact` (no caller), key derivation
  (`pw.rs`, `suite.rs` beyond positions), message texts, HTTP headers and bodies.
- The iptables and ip command lines (which of them fails is modelled), sockets and their options, counts
  and latencies: outside the program, or without influence on its control.
- FireTCP's table of clients (`firetcp/server.rs:21`), whose hazard is that of the
  UDPMan deferred removal.
- The DNS cache: its content is an arbitrary input of the rules.
- Datagrams over `Socks5`, the stream branch of TCPMan's server, the binding of the
  SOCKS relay socket: single calls around what is modelled.
- Ad blocking, GeoIP, URLs, SNI, fetching, programs and bindings: look-ups and text
  parsing without state, or glue.

## Plan

Done: CipherStream, FireTcpCipher, Pipe, ConnMap, UdpManServer, UdpManProto, UdpMan,
UpstreamStats, Controller, TProxy, Rules, ClientConn, Handshake and what it is made
of, ProxyHandshake, UdpSink, TcpManUdp, UdpChain.

Theorems done: the invariants and action properties of all components, and both
refinements of Pipe.

Refinement worth stating next: Controller implements a register whose reader sees a
growing sequence of versions.
