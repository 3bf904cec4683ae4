---------------------------- MODULE FireTcpCipher ----------------------------
(***************************************************************************)
(* The client-to-server direction of a FireTCP connection: CipherWrite in  *)
(* the client, CipherRead in the server (src/src/protocol/firetcp).  The   *)
(* first InitLen bytes are encrypted with the cipher derived from the      *)
(* password; after them both ends switch to the "establish" cipher that    *)
(* the request itself carries, or to plain bytes when it carries none.     *)
(* The other direction is not encrypted.                                   *)
(*                                                                         *)
(* A byte is its offset in the plaintext (the length-prefixed request      *)
(* first) and, on the wire, the keystream it was XORed with.               *)
(***************************************************************************)
EXTENDS Integers, Sequences

CONSTANTS
    InitLen,        \* INITIAL_CIPHER_LEN (512 in the code)
    WriteBuf,       \* length of CipherWrite's scratch buffer
    RequestLens,    \* lengths of the encoded request, its two length bytes included
    StreamLen,      \* bound: bytes written, the request included
    BufLen          \* bound: longest buffer of one poll_write or poll_read

ASSUME FireTcpAssumption ==
    /\ InitLen \in Nat \ {0}
    /\ WriteBuf \in Nat /\ WriteBuf >= InitLen
    /\ RequestLens \subseteq {n \in Nat : n > 2}
    /\ StreamLen \in Nat
    /\ BufLen \in Nat \ {0}

VARIABLES
    requestLen,     \* bytes of the encoded request
    estCipher,      \* TRUE iff the request carries an establish cipher (port # 443)
    wr,             \* the writer's state
    sent,           \* bytes acknowledged by poll_write
    log,            \* every byte handed to the transport
    rd,             \* the reader's state
    taken,          \* bytes of log the reader has taken
    recv,           \* bytes the server got, decrypted
    server          \* "request", "serving", "refused"

vars == <<requestLen, estCipher, wr, sent, log, rd, taken, recv, server>>
setupVars == <<requestLen, estCipher>>
writerVars == <<wr, sent, log>>
readerVars == <<rd, taken, recv>>

MinOf(a, b) == IF a < b THEN a ELSE b

\* ReadState and WriteState, with establish_cipher: left counts the bytes the
\* initial cipher still has to cover, est tells whether the establish cipher is
\* set, pos is the position of the cipher in use.
NewCipherState(est) == [state |-> "Init", left |-> InitLen, est |-> est, pos |-> 0]

\* set_establish_cipher; the caller checks that the state is still Init.
SetEstablishCipher(c, est) == [c EXCEPT !.est = est]

\* The keystream a cipher state applies to the i-th byte of a buffer.
Keystream(c, i) ==
    IF c.state = "Init" THEN <<"init", c.pos + i - 1>>
    ELSE IF c.est THEN <<"est", c.pos + i - 1>> ELSE <<"plain", 0>>

\* The state after k bytes of it went through: the switch happens when none of
\* the initial bytes is left, and starts the establish cipher at position 0.
Advance(c, k) ==
    IF c.state = "Init" /\ c.left = k
    THEN [c EXCEPT !.state = "Established", !.left = 0, !.pos = 0]
    ELSE [c EXCEPT !.left = IF c.state = "Init" THEN @ - k ELSE @, !.pos = @ + k]

Init ==
    /\ requestLen \in RequestLens
    /\ estCipher \in BOOLEAN
    /\ wr = NewCipherState(estCipher)
    /\ sent = 0
    /\ log = <<>>
    /\ rd = NewCipherState(FALSE)
    /\ taken = 0
    /\ recv = <<>>
    /\ server = "request"

-----------------------------------------------------------------------------
\* new_stream writes the request with one write_all, so a buffer never spans the
\* end of the request; initial data and the application's bytes follow.
MayWrite(len) ==
    /\ sent + len <= StreamLen
    /\ sent < requestLen => sent + len = requestLen

\* How much of the caller's buffer one poll_write encrypts.
WriteLen(len) ==
    IF wr.state = "Init" THEN MinOf(len, wr.left)
    ELSE IF wr.est THEN MinOf(len, WriteBuf) ELSE len

\* Mutant of PollWrite: a short write does not rewind the cipher.
PollWriteNoRewind(len, a) ==
    /\ MayWrite(len)
    /\ a \in 1..WriteLen(len)
    /\ log' = log \o [i \in 1..a |-> [off |-> sent + i - 1, ks |-> Keystream(wr, i)]]
    /\ wr' = LET c == Advance(wr, a)
             IN  IF c.state = wr.state THEN [c EXCEPT !.pos = wr.pos + WriteLen(len)] ELSE c
    /\ sent' = sent + a
    /\ UNCHANGED <<setupVars, readerVars, server>>

\* CipherWrite::poll_write when the transport takes a bytes; a short write
\* rewinds the cipher to the first byte not taken.
PollWrite(len, a) ==
    /\ MayWrite(len)
    /\ a \in 1..WriteLen(len)
    /\ log' = log \o [i \in 1..a |-> [off |-> sent + i - 1, ks |-> Keystream(wr, i)]]
    /\ wr' = Advance(wr, a)
    /\ sent' = sent + a
    /\ UNCHANGED <<setupVars, readerVars, server>>

\* CipherWrite::poll_write when the transport is full: ready! returns after the
\* keystream was applied, and nothing takes the cipher back.
PollWritePending(len) ==
    /\ MayWrite(len)
    /\ wr' = IF wr.state = "Init" \/ wr.est
             THEN [wr EXCEPT !.pos = @ + WriteLen(len)] ELSE wr
    /\ UNCHANGED <<setupVars, sent, log, readerVars, server>>

-----------------------------------------------------------------------------
\* CipherRead::poll_read with a buffer of len bytes, returning k of them.
PollRead(len, k) ==
    /\ k \in 1..MinOf(IF rd.state = "Init" THEN MinOf(len, rd.left) ELSE len,
                      Len(log) - taken)
    /\ recv' = recv \o [i \in 1..k |->
                   [off |-> log[taken + i].off,
                    clear |-> log[taken + i].ks = Keystream(rd, i)]]
    /\ rd' = Advance(rd, k)
    /\ taken' = taken + k

\* read_bincode_lengthed_async: read_exact of the two length bytes, then of the
\* request, so no byte after the request is read before the cipher is set.
RequestBytesLeft == (IF Len(recv) < 2 THEN 2 ELSE requestLen) - Len(recv)

ReadRequest(k) ==
    /\ server = "request"
    /\ PollRead(RequestBytesLeft, k)
    /\ UNCHANGED <<setupVars, writerVars, server>>

\* The request as received decodes: a garbled byte spoils its JSON.
RequestDecodes == \A j \in 1..requestLen : recv[j].clear

\* Mutant of EstablishServer: set_establish_cipher without its state check.
EstablishServerUnchecked ==
    /\ server = "request"
    /\ Len(recv) = requestLen
    /\ rd' = SetEstablishCipher(rd, estCipher)
    /\ server' = IF RequestDecodes THEN "serving" ELSE "refused"
    /\ UNCHANGED <<setupVars, writerVars, taken, recv>>

\* serve after the request: decoding may fail, and set_establish_cipher bails out
\* when the reader is already past its initial bytes.
EstablishServer ==
    /\ server = "request"
    /\ Len(recv) = requestLen
    /\ IF RequestDecodes /\ rd.state = "Init"
       THEN /\ rd' = SetEstablishCipher(rd, estCipher)
            /\ server' = "serving"
       ELSE /\ server' = "refused"
            /\ UNCHANGED rd
    /\ UNCHANGED <<setupVars, writerVars, taken, recv>>

\* The upload task's copy.
ReadStream(len, k) ==
    /\ server = "serving"
    /\ PollRead(len, k)
    /\ UNCHANGED <<setupVars, writerVars, server>>

Next ==
    \/ \E len \in 1..BufLen : \E a \in 1..len : PollWrite(len, a)
    \/ \E k \in 1..BufLen : ReadRequest(k)
    \/ EstablishServer
    \/ \E len \in 1..BufLen : \E k \in 1..len : ReadStream(len, k)

Spec == Init /\ [][Next]_vars

\* The same with a transport that may also be full.
NextWithFullTransport == Next \/ \E len \in 1..BufLen : PollWritePending(len)

SpecWithFullTransport == Init /\ [][NextWithFullTransport]_vars

-----------------------------------------------------------------------------
\* What a serving server hands to the upstream is exactly the client's
\* plaintext, in order and decrypted: CipherWrite and CipherRead switch ciphers at
\* the same byte although the reader learns the second cipher from bytes under
\* the first.
DeliversPlaintext ==
    server = "serving" =>
        \A j \in 1..Len(recv) : recv[j] = [off |-> j - 1, clear |-> TRUE]

\* A request is refused exactly when it leaves no byte to the initial cipher
\* (set_establish_cipher or the decoding fails): a request of InitLen - 1 bytes is
\* served, one of InitLen bytes is not, whatever the sizes of the reads.
RefusesFullRequest ==
    /\ server = "serving" => requestLen < InitLen
    /\ server = "refused" => requestLen >= InitLen

-----------------------------------------------------------------------------
\* What serve passes on; the request is the first of it.
Served == IF server = "serving" THEN recv ELSE <<>>

P == INSTANCE Pipe WITH written <- sent, delivered <- Served

\* CipherWrite and CipherRead are a reliable stream of bytes to the code above
\* them, as long as the transport is never full: the switch of ciphers cannot be
\* seen from there, and a server that refuses the request delivers nothing.
FireTcpIsPipe == P!Spec

=============================================================================
