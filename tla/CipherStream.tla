----------------------------- MODULE CipherStream -----------------------------
(***************************************************************************)
(* One direction of a TCPMan connection: the client's CipherStream writer, *)
(* the byte stream under it, and the server's CipherStream reader, from    *)
(* the handshake on (src/src/protocol/tcpman/cipher).                      *)
(*                                                                         *)
(* A byte is abstracted to its offset in the plaintext, counted from the   *)
(* first byte of the request that travels in the X-Cache-Key header.  On   *)
(* the wire it also carries the keystream position it was XORed with, or   *)
(* Plain.  Reading XORs again: the byte comes out clear exactly when the   *)
(* reader uses the position the writer used.                               *)
(*                                                                         *)
(* The opposite direction is the same code with client and server swapped, *)
(* the receive strategy, and no header bytes (initialLen = 0).             *)
(***************************************************************************)
EXTENDS Integers, Sequences

CONSTANTS
    Strategies,     \* the EncryptionStrategy values a client may pick
    InitialLens,    \* lengths of the request sent in the header
    DefaultChunk,   \* write chunk before the first write (4096 in the code)
    MinChunk,       \* smallest chunk limit (512 in the code)
    StreamLen,      \* bound: bytes the application writes after the handshake
    BufLen          \* bound: longest buffer of one poll_write or poll_read

FirstN(k) == [kind |-> "FirstN", n |-> k]
Always == [kind |-> "Always", n |-> 0]
Never == [kind |-> "Never", n |-> 0]

\* FirstN carries a NonZeroUsize.
AllStrategies ==
    {s \in [kind : {"FirstN", "Always", "Never"}, n : Nat] :
        s.kind = "FirstN" <=> s.n > 0}

ASSUME CipherAssumption ==
    /\ Strategies \subseteq AllStrategies
    /\ InitialLens \subseteq Nat
    /\ DefaultChunk \in Nat \ {0}
    /\ MinChunk \in Nat \ {0}
    /\ StreamLen \in Nat
    /\ BufLen \in Nat \ {0}

VARIABLES
    strategy,       \* the client's send strategy
    initialLen,     \* bytes of the request in the header
    phase,          \* "idle", "requested", "accepted", "streaming", "refused"
    request,        \* what the HTTP request carries: strategy text and header bytes
    wrCipher,       \* the writer's Option<cipher>
    lastWritten,    \* the writer's last_written_size
    wrFailed,       \* the transport returned an error to the writer
    sent,           \* bytes poll_write has acknowledged to its caller
    log,            \* every byte handed to the transport, in order
    taken,          \* how many bytes of log the reader has taken
    rdCipher,       \* the reader's Option<cipher>
    recv            \* the bytes the server's application got, decrypted

vars == <<strategy, initialLen, phase, request, wrCipher, lastWritten, wrFailed,
          sent, log, taken, rdCipher, recv>>
writerVars == <<wrCipher, lastWritten, wrFailed, sent, log>>
readerVars == <<taken, rdCipher, recv>>
setupVars == <<strategy, initialLen, request>>

Plain == -1
NoSize == -1
NoCipher == [kind |-> "None", n |-> 0, pos |-> 0]

MinOf(a, b) == IF a < b THEN a ELSE b
MaxOf(a, b) == IF a < b THEN b ELSE a

-----------------------------------------------------------------------------
(* The cipher: ChaCha20 (a seekable position) under a StrategyCipher.       *)

WrapCipher(s) == [kind |-> s.kind, n |-> s.n, pos |-> 0]

WillModifyData(c) ==
    \/ c.kind = "Always"
    \/ c.kind = "FirstN" /\ c.n > 0

\* How many bytes of a buffer of this length the keystream is applied to.
Covered(c, len) ==
    IF c.kind = "FirstN" THEN (IF c.n > 0 THEN MinOf(c.n, len) ELSE 0)
    ELSE IF c.kind = "Always" THEN len ELSE 0

\* The keystream position the i-th byte of the buffer is XORed with.
KeystreamAt(c, len, i) == IF i <= Covered(c, len) THEN c.pos + i - 1 ELSE Plain

ApplyKeystream(c, len) ==
    [kind |-> c.kind,
     n    |-> IF c.kind = "FirstN" /\ c.n > 0 THEN c.n - len ELSE c.n,
     pos  |-> c.pos + Covered(c, len)]

\* Mutant of RewindPartial: a negative counter is not clamped (no max(old_n, 0)).
RewindPartialNoClamp(c, cnt) ==
    [kind |-> c.kind, n |-> c.n + cnt,
     pos |-> IF c.n + cnt > 0 THEN c.pos - cnt ELSE c.pos]

RewindPartial(c, cnt) ==
    LET n == c.n + cnt
    IN  [kind |-> c.kind,
         n    |-> n,
         pos  |-> IF n > 0 THEN c.pos - (n - MaxOf(c.n, 0)) ELSE c.pos]

Rewind(c, cnt) ==
    IF c.kind = "FirstN" THEN RewindPartial(c, cnt)
    ELSE IF c.kind = "Always"
    THEN [kind |-> c.kind, n |-> c.n, pos |-> c.pos - cnt]
    ELSE c

-----------------------------------------------------------------------------
(* The strategy travels as text in the request path: a decimal number, "a"  *)
(* or "n".  A number 0 is rejected when parsed.                             *)

ToText(s) ==
    IF s.kind = "FirstN" THEN <<"number", s.n>>
    ELSE IF s.kind = "Always" THEN <<"a", 0>> ELSE <<"n", 0>>

Parses(text) == text[1] = "number" => text[2] > 0

ParseStrategy(text) ==
    IF text[1] = "number" THEN FirstN(text[2])
    ELSE IF text[1] = "a" THEN Always ELSE Never

-----------------------------------------------------------------------------
(* A buffer of len plaintext bytes that starts at offset off, encrypted.    *)
Encrypt(c, off, len) ==
    [i \in 1..len |-> [off |-> off + i - 1, ks |-> KeystreamAt(c, len, i)]]

(* The bytes of bs as the reader's cipher leaves them.                      *)
Decrypt(c, bs) ==
    [i \in 1..Len(bs) |->
        [off |-> bs[i].off, clear |-> (bs[i].ks = KeystreamAt(c, Len(bs), i))]]

Init ==
    /\ strategy \in Strategies
    /\ initialLen \in InitialLens
    /\ phase = "idle"
    /\ request = [path |-> <<>>, header |-> <<>>]
    /\ wrCipher = NoCipher
    /\ lastWritten = NoSize
    /\ wrFailed = FALSE
    /\ sent = 0
    /\ log = <<>>
    /\ taken = 0
    /\ rdCipher = NoCipher
    /\ recv = <<>>

\* cipher::client::connect up to the request: the request bytes are encrypted
\* with the cipher that later encrypts the stream.
Connect ==
    /\ phase = "idle"
    /\ request' = [path |-> ToText(strategy),
                   header |-> Encrypt(WrapCipher(strategy), 0, initialLen)]
    /\ wrCipher' = ApplyKeystream(WrapCipher(strategy), initialLen)
    /\ phase' = "requested"
    /\ UNCHANGED <<strategy, initialLen, lastWritten, wrFailed, sent, log, readerVars>>

\* cipher::server::accept_client: both ciphers are rebuilt from the path, the
\* header is decoded and decrypted.
Accept ==
    /\ phase = "requested"
    /\ Parses(request.path)
    /\ LET rd == WrapCipher(ParseStrategy(request.path))
       IN  /\ rdCipher' = ApplyKeystream(rd, Len(request.header))
           /\ recv' = Decrypt(rd, request.header)
    /\ phase' = "accepted"
    /\ UNCHANGED <<setupVars, writerVars, taken>>

\* Handshaker::respond_success and the client's reading of the 101 response.
RespondSuccess ==
    /\ phase = "accepted"
    /\ phase' = "streaming"
    /\ UNCHANGED <<setupVars, writerVars, readerVars>>

\* Handshaker::respond_error: the client bails out on a status other than 101.
RespondError ==
    /\ phase = "accepted"
    /\ phase' = "refused"
    /\ UNCHANGED <<setupVars, writerVars, readerVars>>

-----------------------------------------------------------------------------
(* CipherStream::poll_write.  The caller offers the bytes after the ones    *)
(* acknowledged so far.                                                     *)

MayWrite(len) ==
    /\ phase = "streaming"
    /\ ~wrFailed
    /\ sent + len <= StreamLen

Chunk(len) ==
    MinOf(len, MaxOf(IF lastWritten = NoSize THEN DefaultChunk ELSE lastWritten, MinChunk))

\* Mutant of AfterWrite: a short write does not rewind the bytes left over.
AfterWriteNoRewind(c, desired, a) == ApplyKeystream(c, desired)

\* The cipher after the transport took a of the bytes it was applied to.
AfterWrite(c, desired, a) ==
    LET applied == ApplyKeystream(c, desired)
    IN  IF a < desired THEN Rewind(applied, desired - a) ELSE applied

\* Mutant of AfterPending: the cipher is not rewound when the transport is full.
AfterPendingNoRewind(c, desired) == ApplyKeystream(c, desired)

\* The cipher after the transport had no room for any of them.
AfterPending(c, desired) == Rewind(ApplyKeystream(c, desired), desired)

\* Mutant of PollWriteReady: the whole chunk is acknowledged on a short write.
PollWriteReadyAckChunk(len, a) ==
    /\ MayWrite(len)
    /\ WillModifyData(wrCipher)
    /\ a \in 1..Chunk(len)
    /\ wrCipher' = AfterWrite(wrCipher, Chunk(len), a)
    /\ log' = log \o SubSeq(Encrypt(wrCipher, initialLen + sent, Chunk(len)), 1, a)
    /\ lastWritten' = a
    /\ sent' = sent + Chunk(len)
    /\ UNCHANGED <<setupVars, phase, wrFailed, readerVars>>

\* The transport takes a of the encrypted bytes.
PollWriteReady(len, a) ==
    /\ MayWrite(len)
    /\ WillModifyData(wrCipher)
    /\ a \in 1..Chunk(len)
    /\ wrCipher' = AfterWrite(wrCipher, Chunk(len), a)
    /\ log' = log \o SubSeq(Encrypt(wrCipher, initialLen + sent, Chunk(len)), 1, a)
    /\ lastWritten' = a
    /\ sent' = sent + a
    /\ UNCHANGED <<setupVars, phase, wrFailed, readerVars>>

\* The transport is full.
PollWritePending(len) ==
    /\ MayWrite(len)
    /\ WillModifyData(wrCipher)
    /\ wrCipher' = AfterPending(wrCipher, Chunk(len))
    /\ UNCHANGED <<setupVars, phase, lastWritten, wrFailed, sent, log, readerVars>>

\* The transport fails; the caller drops the stream, so the cipher, which is
\* not rewound, is not used again.
PollWriteError(len) ==
    /\ MayWrite(len)
    /\ WillModifyData(wrCipher)
    /\ wrCipher' = ApplyKeystream(wrCipher, Chunk(len))
    /\ wrFailed' = TRUE
    /\ UNCHANGED <<setupVars, phase, lastWritten, sent, log, readerVars>>

\* A cipher that will not change any more data is dropped and the caller's
\* bytes go to the transport as they are.
PollWritePlain(len, a) ==
    /\ MayWrite(len)
    /\ ~WillModifyData(wrCipher)
    /\ a \in 1..len
    /\ wrCipher' = NoCipher
    /\ log' = log \o Encrypt(NoCipher, initialLen + sent, a)
    /\ sent' = sent + a
    /\ UNCHANGED <<setupVars, phase, lastWritten, wrFailed, readerVars>>

\* The same with a transport that is full (failed = FALSE) or fails.
PollWritePlainNone(len, failed) ==
    /\ MayWrite(len)
    /\ ~WillModifyData(wrCipher)
    /\ wrCipher' = NoCipher
    /\ wrFailed' = failed
    /\ UNCHANGED <<setupVars, phase, lastWritten, sent, log, readerVars>>

-----------------------------------------------------------------------------
(* CipherStream::poll_read returning k > 0 bytes.  End of file, an error    *)
(* and Pending leave the cipher alone.                                      *)
PollRead(k) ==
    /\ phase = "streaming"
    /\ k <= Len(log) - taken
    /\ recv' = recv \o Decrypt(rdCipher, SubSeq(log, taken + 1, taken + k))
    /\ taken' = taken + k
    /\ rdCipher' = IF WillModifyData(rdCipher) THEN ApplyKeystream(rdCipher, k)
                                               ELSE NoCipher
    /\ UNCHANGED <<setupVars, phase, writerVars>>

Next ==
    \/ Connect
    \/ Accept
    \/ RespondSuccess
    \/ RespondError
    \/ \E len \in 1..BufLen :
         \/ \E a \in 1..len : PollWriteReady(len, a)
         \/ PollWritePending(len)
         \/ PollWriteError(len)
         \/ \E a \in 1..len : PollWritePlain(len, a)
         \/ \E failed \in BOOLEAN : PollWritePlainNone(len, failed)
    \/ \E k \in 1..BufLen : PollRead(k)

Spec == Init /\ [][Next]_vars

-----------------------------------------------------------------------------
Ciphers == [kind : {"FirstN", "Always", "Never", "None"}, n : Int, pos : Nat]
WireByte == [off : Nat, ks : Nat \cup {Plain}]
ClearByte == [off : Nat, clear : BOOLEAN]

\* Type correctness of the two CipherStream ends and the handshake between them
\* (the PartialStreamCipher counter n may be negative, its position may not).
TypeOK ==
    /\ strategy \in AllStrategies
    /\ initialLen \in Nat
    /\ phase \in {"idle", "requested", "accepted", "streaming", "refused"}
    /\ request.header \in Seq(WireByte)
    /\ wrCipher \in Ciphers
    /\ rdCipher \in Ciphers
    /\ lastWritten \in Nat \cup {NoSize}
    /\ wrFailed \in BOOLEAN
    /\ sent \in Nat
    /\ taken \in Nat
    /\ log \in Seq(WireByte)
    /\ recv \in Seq(ClearByte)

\* Everything the server's application reads, the request of the header first,
\* is the client's plaintext: the bytes in order, without gap or repetition, each
\* decrypted, however writes were split, refused and retried (poll_write's
\* rewinds) and reads were cut (poll_read).
DeliversPlaintext ==
    \A j \in 1..Len(recv) : recv[j] = [off |-> j - 1, clear |-> TRUE]

\* Bytes acknowledged by poll_write are on the wire and none are taken twice:
\* what the reader has and what is in flight add up to what was acknowledged.
AcknowledgedIsInFlight ==
    phase \in {"accepted", "streaming", "refused"} =>
        Len(recv) + (Len(log) - taken) = initialLen + sent

\* The keystream position the strategy promises for the byte at an offset.
PromisedKeystream(off) ==
    IF strategy.kind = "Always" \/ (strategy.kind = "FirstN" /\ off < strategy.n)
    THEN off ELSE Plain

\* The span the strategy promises to encrypt is encrypted on the wire, header
\* and stream together, and no keystream position is used for two offsets: the
\* byte at offset o is XORed with position o inside the span and with nothing
\* after it (EncryptionStrategy, PartialStreamCipher).
SpanEncrypted ==
    /\ \A j \in 1..Len(request.header) :
         request.header[j].ks = PromisedKeystream(request.header[j].off)
    /\ \A j \in 1..Len(log) : log[j].ks = PromisedKeystream(log[j].off)

-----------------------------------------------------------------------------
\* The bytes of the header count as written when the request is sent.
Written == IF phase = "idle" THEN 0 ELSE initialLen + sent

P == INSTANCE Pipe WITH written <- Written, delivered <- recv

\* To the code above them the two ends are a reliable stream of bytes: handshake,
\* chunks, encryption, rewinds and failures are steps of Pipe or steps it does
\* not see (CipherStream implements AsyncRead and AsyncWrite).
CipherIsPipe == P!Spec

=============================================================================
