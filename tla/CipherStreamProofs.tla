-------------------------- MODULE CipherStreamProofs --------------------------
(***************************************************************************)
(* CipherStream delivers the plaintext, for every strategy, chunk size,    *)
(* stream length and pattern of short, refused and failed writes.          *)
(*                                                                         *)
(* The argument: after w bytes both ciphers are "in step" with the         *)
(* strategy (InStep), a rewind undoes exactly the keystream of the bytes   *)
(* the transport did not take (AfterWriteIsApply), and a cipher in step    *)
(* XORs the byte at an offset with the position the strategy promises for  *)
(* it (InStepKeystream), so writer and reader use the same position.       *)
(***************************************************************************)
EXTENDS CipherStream, TLAPS

\* Cipher c is what the strategy requires once w bytes have gone through it.
InStep(c, w) ==
    \/ /\ strategy.kind = "Always"
       /\ c.kind = "Always"
       /\ c.pos = w
    \/ /\ strategy.kind = "FirstN"
       /\ c.kind = "FirstN"
       /\ c.n > 0
       /\ c.n = strategy.n - w
       /\ c.pos = w
    \/ /\ strategy.kind = "FirstN"
       /\ c.kind \in {"FirstN", "None"}
       /\ c.n <= 0
       /\ w >= strategy.n
    \/ /\ strategy.kind = "Never"
       /\ c.kind \in {"Never", "None"}

WriterInv ==
    IF phase = "idle"
    THEN request.header = <<>>
    ELSE /\ ~wrFailed => InStep(wrCipher, initialLen + sent)
         /\ request.path = ToText(strategy)
         /\ request.header = Encrypt(WrapCipher(strategy), 0, initialLen)

ReaderInv ==
    IF phase \in {"idle", "requested"}
    THEN recv = <<>>
    ELSE /\ Len(recv) = initialLen + taken
         /\ InStep(rdCipher, initialLen + taken)

LogInv ==
    /\ phase # "streaming" => sent = 0
    /\ Len(log) = sent
    /\ taken <= sent
    /\ \A j \in 1..Len(log) :
         log[j] = [off |-> initialLen + j - 1,
                   ks |-> PromisedKeystream(initialLen + j - 1)]

IInv ==
    /\ TypeOK
    /\ WriterInv
    /\ ReaderInv
    /\ LogInv
    /\ DeliversPlaintext

-----------------------------------------------------------------------------
(* The cipher operators.                                                    *)

\* StrategyCipher::apply_keystream keeps a cipher well typed.
LEMMA ApplyType ==
    ASSUME NEW c \in Ciphers, NEW len \in Nat
    PROVE  ApplyKeystream(c, len) \in Ciphers
BY DEF Ciphers, ApplyKeystream, Covered, MinOf

\* A short write leaves the cipher as if only the bytes taken had been offered,
\* at every point of a FirstN span (poll_write's rewind, PartialStreamCipher).
LEMMA AfterWriteIsApply ==
    ASSUME NEW c \in Ciphers, WillModifyData(c), NEW d \in Nat, NEW a \in 0..d
    PROVE  AfterWrite(c, d, a) = ApplyKeystream(c, a)
<1>1. CASE c.kind = "Always"
  BY <1>1 DEF AfterWrite, ApplyKeystream, Rewind, Covered, Ciphers
<1>2. CASE c.kind = "FirstN" /\ c.n > 0
  <2>1. CASE c.n - a > 0 /\ d <= c.n
    BY <1>2, <2>1 DEF AfterWrite, ApplyKeystream, Rewind, RewindPartial, Covered, MinOf, MaxOf, Ciphers
  <2>2. CASE c.n - a > 0 /\ d > c.n
    BY <1>2, <2>2 DEF AfterWrite, ApplyKeystream, Rewind, RewindPartial, Covered, MinOf, MaxOf, Ciphers
  <2>3. CASE ~(c.n - a > 0)
    BY <1>2, <2>3 DEF AfterWrite, ApplyKeystream, Rewind, RewindPartial, Covered, MinOf, MaxOf, Ciphers
  <2> QED BY <2>1, <2>2, <2>3 DEF Ciphers
<1> QED BY <1>1, <1>2 DEF WillModifyData

\* A write the transport has no room for leaves the cipher as it was.
LEMMA AfterPendingIsIdentity ==
    ASSUME NEW c \in Ciphers, WillModifyData(c), NEW d \in Nat \ {0}
    PROVE  AfterPending(c, d) = c
<1>1. AfterPending(c, d) = AfterWrite(c, d, 0)
  BY DEF AfterPending, AfterWrite
<1>2. AfterWrite(c, d, 0) = ApplyKeystream(c, 0)
  BY AfterWriteIsApply
<1>3. ApplyKeystream(c, 0) = c
  BY DEF ApplyKeystream, Covered, MinOf, Ciphers
<1> QED BY <1>1, <1>2, <1>3

\* The strategy survives its journey as text (to_string and from_str).
LEMMA StrategyRoundTrip ==
    ASSUME NEW s \in AllStrategies
    PROVE  /\ Parses(ToText(s))
           /\ ParseStrategy(ToText(s)) = s
BY DEF AllStrategies, Parses, ToText, ParseStrategy, FirstN, Always, Never

\* A fresh cipher is in step.
LEMMA WrapInStep ==
    ASSUME strategy \in AllStrategies
    PROVE  /\ WrapCipher(strategy) \in Ciphers
           /\ InStep(WrapCipher(strategy), 0)
BY DEF AllStrategies, WrapCipher, Ciphers, InStep

\* apply_keystream on len bytes keeps a cipher in step.
LEMMA ApplyInStep ==
    ASSUME strategy \in AllStrategies, NEW c \in Ciphers, NEW w \in Nat, NEW len \in Nat,
           InStep(c, w)
    PROVE  InStep(ApplyKeystream(c, len), w + len)
BY DEF AllStrategies, Ciphers, InStep, ApplyKeystream, Covered, MinOf

\* Dropping a cipher that will not modify data any more keeps it in step.
LEMMA DropInStep ==
    ASSUME strategy \in AllStrategies, NEW c \in Ciphers, NEW w \in Nat, NEW len \in Nat,
           InStep(c, w), ~WillModifyData(c)
    PROVE  InStep(NoCipher, w + len)
BY DEF AllStrategies, Ciphers, InStep, WillModifyData, NoCipher

\* A cipher in step XORs the i-th byte of a buffer with the position promised
\* for its offset.
LEMMA InStepKeystream ==
    ASSUME strategy \in AllStrategies, NEW c \in Ciphers, NEW w \in Nat, InStep(c, w),
           NEW len \in Nat, NEW i \in 1..len
    PROVE  KeystreamAt(c, len, i) = PromisedKeystream(w + i - 1)
<1>1. CASE strategy.kind = "FirstN" /\ c.kind = "FirstN" /\ c.n > 0
  BY <1>1 DEF AllStrategies, Ciphers, InStep, KeystreamAt, Covered, MinOf, PromisedKeystream, Plain
<1>2. CASE ~(strategy.kind = "FirstN" /\ c.kind = "FirstN" /\ c.n > 0)
  BY <1>2 DEF AllStrategies, Ciphers, InStep, KeystreamAt, Covered, MinOf, PromisedKeystream, Plain
<1> QED BY <1>1, <1>2

\* The position a strategy promises is a keystream position or none.
LEMMA PromisedType ==
    ASSUME strategy \in AllStrategies, NEW off \in Nat
    PROVE  PromisedKeystream(off) \in Nat \cup {Plain}
BY DEF AllStrategies, PromisedKeystream

-----------------------------------------------------------------------------
(* The wire and the two ends.                                               *)

\* A function on 1..n with values in S is a sequence over S of length n.
LEMMA FunctionIsSeq ==
    ASSUME NEW S, NEW n \in Nat, NEW f, f = [i \in 1..n |-> f[i]], \A i \in 1..n : f[i] \in S
    PROVE  f \in Seq(S) /\ Len(f) = n
OBVIOUS

\* len bytes of the stream, at their offsets, with their promised positions.
IsPromised(bs, len) ==
    /\ bs \in Seq(WireByte)
    /\ Len(bs) = len
    /\ \A j \in 1..Len(bs) : bs[j] = [off |-> initialLen + j - 1,
                                     ks |-> PromisedKeystream(initialLen + j - 1)]

\* The bytes poll_write hands to the transport continue the log as promised.
LEMMA LogExtends ==
    ASSUME IInv, NEW c \in Ciphers, InStep(c, initialLen + sent),
           NEW d \in Nat, NEW a \in 0..d
    PROVE  IsPromised(log \o SubSeq(Encrypt(c, initialLen + sent, d), 1, a), sent + a)
<1> DEFINE E == Encrypt(c, initialLen + sent, d)
           piece == SubSeq(E, 1, a)
           Promised(o) == [off |-> o, ks |-> PromisedKeystream(o)]
<1>1. /\ initialLen \in Nat /\ sent \in Nat /\ strategy \in AllStrategies
      /\ log \in Seq(WireByte) /\ Len(log) = sent
  BY DEF IInv, TypeOK, LogInv
<1>2. ASSUME NEW i \in 1..d
      PROVE  E[i] = Promised(initialLen + sent + i - 1) /\ E[i] \in WireByte
  <2>1. E[i] = [off |-> initialLen + sent + i - 1, ks |-> KeystreamAt(c, d, i)]
    BY DEF Encrypt
  <2>2. KeystreamAt(c, d, i) = PromisedKeystream(initialLen + sent + i - 1)
    <3>1. initialLen + sent \in Nat BY <1>1
    <3> QED BY <1>1, <3>1, InStepKeystream
  <2>3. PromisedKeystream(initialLen + sent + i - 1) \in Nat \cup {Plain}
    <3>1. initialLen + sent + i - 1 \in Nat BY <1>1
    <3> QED BY <1>1, <3>1, PromisedType
  <2>4. initialLen + sent + i - 1 \in Nat BY <1>1
  <2> QED BY <2>1, <2>2, <2>3, <2>4 DEF WireByte
<1>3. E \in Seq(WireByte) /\ Len(E) = d
  <2>1. E = [i \in 1..d |-> E[i]] BY DEF Encrypt
  <2>2. \A i \in 1..d : E[i] \in WireByte BY <1>2
  <2> HIDE DEF E
  <2> QED BY <2>1, <2>2, FunctionIsSeq
<1>4. /\ piece \in Seq(WireByte) /\ Len(piece) = a
      /\ \A i \in 1..a : piece[i] = E[i]
  <2> HIDE DEF E
  <2> QED BY <1>3
<1> HIDE DEF E, piece
<1>5. log \o piece \in Seq(WireByte) /\ Len(log \o piece) = sent + a
  BY <1>1, <1>4
<1>6. ASSUME NEW j \in 1..Len(log \o piece)
      PROVE  (log \o piece)[j] = Promised(initialLen + j - 1)
  <2>1. CASE j <= sent
    <3>1. (log \o piece)[j] = log[j] BY <1>1, <1>4, <2>1
    <3>2. log[j] = Promised(initialLen + j - 1) BY <1>1, <2>1 DEF IInv, LogInv
    <3> QED BY <3>1, <3>2
  <2>2. CASE j > sent
    <3>1. (log \o piece)[j] = piece[j - sent] BY <1>1, <1>4, <2>2
    <3>2. j - sent \in 1..a BY <1>1, <1>5, <2>2
    <3>3. j - sent \in 1..d BY <3>2
    <3>4. E[j - sent] = Promised(initialLen + sent + (j - sent) - 1) BY <3>3, <1>2
    <3>5. initialLen + sent + (j - sent) - 1 = initialLen + j - 1 BY <1>1
    <3> QED BY <3>1, <3>2, <3>4, <3>5, <1>4
  <2> QED BY <1>1, <2>1, <2>2
<1> QED BY <1>5, <1>6 DEF IsPromised, E, piece

\* A reader in step decrypts bytes that carry the promised positions.
LEMMA DecryptsPromised ==
    ASSUME strategy \in AllStrategies, NEW c \in Ciphers, NEW w \in Nat, InStep(c, w),
           NEW bs \in Seq(WireByte),
           \A i \in 1..Len(bs) : bs[i] = [off |-> w + i - 1, ks |-> PromisedKeystream(w + i - 1)]
    PROVE  /\ Decrypt(c, bs) \in Seq(ClearByte)
           /\ Len(Decrypt(c, bs)) = Len(bs)
           /\ \A i \in 1..Len(bs) : Decrypt(c, bs)[i] = [off |-> w + i - 1, clear |-> TRUE]
<1>1. ASSUME NEW i \in 1..Len(bs)
      PROVE  Decrypt(c, bs)[i] = [off |-> w + i - 1, clear |-> TRUE]
  <2>1. KeystreamAt(c, Len(bs), i) = PromisedKeystream(w + i - 1)
    <3>1. Len(bs) \in Nat OBVIOUS
    <3> QED BY <3>1, InStepKeystream
  <2>2. bs[i].off = w + i - 1 /\ bs[i].ks = PromisedKeystream(w + i - 1)
    <3>1. bs[i] = [off |-> w + i - 1, ks |-> PromisedKeystream(w + i - 1)] OBVIOUS
    <3> QED BY <3>1
  <2>3. Decrypt(c, bs)[i] = [off |-> bs[i].off,
                             clear |-> (bs[i].ks = KeystreamAt(c, Len(bs), i))]
    BY DEF Decrypt
  <2>4. (bs[i].ks = KeystreamAt(c, Len(bs), i)) = TRUE BY <2>1, <2>2
  <2> QED BY <2>2, <2>3, <2>4
<1>2. ASSUME NEW i \in 1..Len(bs) PROVE Decrypt(c, bs)[i] \in ClearByte
  <2>1. w + i - 1 \in Nat OBVIOUS
  <2>2. [off |-> w + i - 1, clear |-> TRUE] \in ClearByte BY <2>1 DEF ClearByte
  <2> QED BY <1>1, <2>2
<1>3. Decrypt(c, bs) = [i \in 1..Len(bs) |-> Decrypt(c, bs)[i]]
  BY DEF Decrypt
<1>4. Len(bs) \in Nat OBVIOUS
<1>5. Decrypt(c, bs) \in Seq(ClearByte) /\ Len(Decrypt(c, bs)) = Len(bs)
  BY <1>2, <1>3, <1>4, FunctionIsSeq
<1> QED BY <1>1, <1>5

-----------------------------------------------------------------------------
(* The inductive invariant.                                                 *)

\* The initial state satisfies the inductive invariant.
LEMMA InitInv == Init => IInv
<1> SUFFICES ASSUME Init PROVE IInv
  OBVIOUS
<1> USE DEF Init
<1>1. TypeOK
  <2>1. strategy \in AllStrategies /\ initialLen \in Nat
    BY CipherAssumption
  <2>2. NoCipher \in Ciphers
    BY DEF NoCipher, Ciphers
  <2>3. request.header \in Seq(WireByte)
    OBVIOUS
  <2>4. log \in Seq(WireByte) /\ recv \in Seq(ClearByte)
    OBVIOUS
  <2>5. /\ wrFailed \in BOOLEAN /\ sent \in Nat /\ taken \in Nat
        /\ lastWritten \in Nat \cup {NoSize}
        /\ phase \in {"idle", "requested", "accepted", "streaming", "refused"}
        /\ wrCipher \in Ciphers /\ rdCipher \in Ciphers
    BY <2>2
  <2> QED BY <2>1, <2>3, <2>4, <2>5 DEF TypeOK
<1>2. WriterInv /\ ReaderInv /\ LogInv /\ DeliversPlaintext
  BY DEF WriterInv, ReaderInv, LogInv, DeliversPlaintext
<1> QED BY <1>1, <1>2 DEF IInv

\* connect leaves the writer in step after the bytes of the header.
LEMMA ConnectInv == IInv /\ Connect => IInv'
<1> SUFFICES ASSUME IInv, Connect PROVE IInv'
  OBVIOUS
<1> USE DEF IInv
<1>1. strategy \in AllStrategies /\ initialLen \in Nat /\ sent = 0
  BY DEF TypeOK, LogInv, Connect
<1>2. /\ ApplyKeystream(WrapCipher(strategy), initialLen) \in Ciphers
      /\ InStep(ApplyKeystream(WrapCipher(strategy), initialLen), initialLen)
  <2>1. 0 + initialLen = initialLen BY <1>1
  <2> QED BY <1>1, <2>1, WrapInStep, ApplyInStep, ApplyType
<1>3. Encrypt(WrapCipher(strategy), 0, initialLen) \in Seq(WireByte)
  <2> DEFINE E == Encrypt(WrapCipher(strategy), 0, initialLen)
  <2>1. E = [i \in 1..initialLen |-> E[i]] BY DEF Encrypt
  <2>2. ASSUME NEW i \in 1..initialLen PROVE E[i] \in WireByte
    <3>1. E[i] = [off |-> 0 + i - 1, ks |-> KeystreamAt(WrapCipher(strategy), initialLen, i)]
      BY DEF Encrypt
    <3>2. KeystreamAt(WrapCipher(strategy), initialLen, i) = PromisedKeystream(0 + i - 1)
      BY <1>1, WrapInStep, InStepKeystream
    <3>3. 0 + i - 1 \in Nat BY <1>1
    <3>4. PromisedKeystream(0 + i - 1) \in Nat \cup {Plain} BY <1>1, <3>3, PromisedType
    <3> QED BY <3>1, <3>2, <3>3, <3>4 DEF WireByte
  <2>3. E \in Seq(WireByte)
    <3> HIDE DEF E
    <3> QED BY <1>1, <2>1, <2>2, FunctionIsSeq
  <2> QED BY <2>3
<1>4. TypeOK'
  BY <1>2, <1>3 DEF TypeOK, Connect, readerVars
<1>5. WriterInv'
  <2>1. initialLen + sent = initialLen BY <1>1
  <2> QED BY <1>2, <2>1 DEF WriterInv, Connect, InStep
<1>6. ReaderInv'
  BY DEF ReaderInv, Connect, readerVars
<1>7. LogInv' /\ DeliversPlaintext'
  BY DEF LogInv, DeliversPlaintext, Connect, readerVars, PromisedKeystream
<1> QED BY <1>4, <1>5, <1>6, <1>7

\* accept_client recovers the request of the header and is in step after it.
LEMMA AcceptInv == IInv /\ Accept => IInv'
<1> SUFFICES ASSUME IInv, Accept PROVE IInv'
  OBVIOUS
<1> USE DEF IInv
<1> DEFINE W == WrapCipher(strategy)
           E == Encrypt(W, 0, initialLen)
<1>1. /\ strategy \in AllStrategies /\ initialLen \in Nat
      /\ sent = 0 /\ taken = 0 /\ recv = <<>>
      /\ phase = "requested"
  BY DEF TypeOK, LogInv, ReaderInv, Accept
<1>2. request.header = E /\ request.path = ToText(strategy) /\ request.header \in Seq(WireByte)
  BY <1>1 DEF WriterInv, TypeOK
<1>3. Len(request.header) = initialLen
  BY <1>1, <1>2 DEF Encrypt
<1>4. \A i \in 1..Len(request.header) :
        request.header[i] = [off |-> 0 + i - 1, ks |-> PromisedKeystream(0 + i - 1)]
  <2> TAKE i \in 1..Len(request.header)
  <2>1. E[i] = [off |-> 0 + i - 1, ks |-> KeystreamAt(W, initialLen, i)]
    BY <1>1, <1>3 DEF Encrypt
  <2>2. KeystreamAt(W, initialLen, i) = PromisedKeystream(0 + i - 1)
    BY <1>1, <1>3, WrapInStep, InStepKeystream
  <2> QED BY <1>2, <2>1, <2>2
<1>5. ParseStrategy(request.path) = strategy
  BY <1>1, <1>2, StrategyRoundTrip
<1>6. W \in Ciphers /\ InStep(W, 0)
  BY <1>1, WrapInStep
<1>7. rdCipher' = ApplyKeystream(W, initialLen) /\ recv' = Decrypt(W, request.header)
  BY <1>3, <1>5 DEF Accept
<1>8. /\ recv' \in Seq(ClearByte)
      /\ Len(recv') = initialLen
      /\ \A i \in 1..Len(recv') : recv'[i] = [off |-> i - 1, clear |-> TRUE]
  <2> HIDE DEF W
  <2>1. /\ Decrypt(W, request.header) \in Seq(ClearByte)
        /\ Len(Decrypt(W, request.header)) = Len(request.header)
        /\ \A i \in 1..Len(request.header) :
             Decrypt(W, request.header)[i] = [off |-> 0 + i - 1, clear |-> TRUE]
    BY <1>1, <1>2, <1>4, <1>6, DecryptsPromised
  <2>2. \A i \in 1..initialLen : 0 + i - 1 = i - 1 BY <1>1
  <2> QED BY <1>3, <1>7, <2>1, <2>2
<1>9. rdCipher' \in Ciphers /\ InStep(rdCipher', initialLen)
  <2> HIDE DEF W
  <2>1. 0 + initialLen = initialLen BY <1>1
  <2> QED BY <1>1, <1>6, <1>7, <2>1, ApplyInStep, ApplyType
<1>10. TypeOK'
  BY <1>8, <1>9 DEF TypeOK, Accept, setupVars, writerVars
<1>11. WriterInv'
  BY <1>1 DEF WriterInv, Accept, setupVars, writerVars, InStep
<1>12. ReaderInv'
  <2>1. initialLen + taken = initialLen BY <1>1
  <2> QED BY <1>8, <1>9, <2>1 DEF ReaderInv, Accept, setupVars, InStep
<1>13. LogInv'
  BY DEF LogInv, Accept, setupVars, writerVars, PromisedKeystream
<1>14. DeliversPlaintext'
  BY <1>8 DEF DeliversPlaintext
<1> QED BY <1>10, <1>11, <1>12, <1>13, <1>14

\* respond_success and respond_error touch neither end nor the log.
LEMMA RespondInv == IInv /\ (RespondSuccess \/ RespondError) => IInv'
<1> SUFFICES ASSUME IInv, RespondSuccess \/ RespondError PROVE IInv'
  OBVIOUS
<1> USE DEF IInv
<1>1. /\ phase = "accepted" /\ phase' \in {"streaming", "refused"}
      /\ UNCHANGED <<setupVars, writerVars, readerVars>>
  BY DEF RespondSuccess, RespondError
<1> USE DEF setupVars, writerVars, readerVars
<1>2. TypeOK'
  BY <1>1 DEF TypeOK
<1>3. WriterInv' /\ ReaderInv'
  BY <1>1 DEF WriterInv, ReaderInv, InStep
<1>4. LogInv' /\ DeliversPlaintext'
  BY <1>1 DEF LogInv, DeliversPlaintext, PromisedKeystream
<1> QED BY <1>2, <1>3, <1>4

\* A write that hands the next a bytes to the transport, and leaves the writer in
\* step after them, preserves the invariant.
LEMMA WriteInv ==
    ASSUME IInv, phase = "streaming", phase' = phase,
           NEW c \in Ciphers, InStep(c, initialLen + sent),
           NEW d \in Nat, NEW a \in 0..d,
           log' = log \o SubSeq(Encrypt(c, initialLen + sent, d), 1, a),
           sent' = sent + a,
           wrCipher' \in Ciphers,
           ~wrFailed' => InStep(wrCipher', initialLen + sent + a),
           lastWritten' \in Nat \cup {NoSize}, wrFailed' \in BOOLEAN,
           UNCHANGED <<setupVars, readerVars>>
    PROVE  IInv'
<1> DEFINE newLog == log \o SubSeq(Encrypt(c, initialLen + sent, d), 1, a)
<1>1. initialLen \in Nat /\ sent \in Nat /\ taken \in Nat
  BY DEF IInv, TypeOK
<1>2. /\ newLog \in Seq(WireByte)
      /\ Len(newLog) = sent + a
      /\ \A j \in 1..Len(newLog) :
           newLog[j] = [off |-> initialLen + j - 1,
                        ks |-> PromisedKeystream(initialLen + j - 1)]
  <2>1. IsPromised(newLog, sent + a) BY LogExtends
  <2> HIDE DEF newLog
  <2> QED BY <2>1 DEF IsPromised
<1>3. log' = newLog
  OBVIOUS
<1> HIDE DEF newLog
<1> USE DEF IInv, setupVars, readerVars
<1>4. TypeOK'
  <2>1. sent' \in Nat BY <1>1
  <2> QED BY <1>2, <1>3, <2>1 DEF TypeOK
<1>5. WriterInv'
  <2>1. initialLen + sent' = initialLen + sent + a BY <1>1
  <2> QED BY <2>1 DEF WriterInv, InStep
<1>6. ReaderInv'
  BY DEF ReaderInv, InStep
<1>7. LogInv'
  <2>1. taken <= sent' BY <1>1 DEF LogInv
  <2> QED BY <1>2, <1>3, <2>1 DEF LogInv, PromisedKeystream
<1>8. DeliversPlaintext'
  BY DEF DeliversPlaintext
<1> QED BY <1>4, <1>5, <1>6, <1>7, <1>8

\* Every poll_write, whatever the transport answers, preserves the invariant.
LEMMA PollWriteInv ==
    ASSUME IInv, NEW len \in 1..BufLen,
           \/ \E a \in 1..len : PollWriteReady(len, a)
           \/ PollWritePending(len)
           \/ PollWriteError(len)
           \/ \E a \in 1..len : PollWritePlain(len, a)
           \/ \E failed \in BOOLEAN : PollWritePlainNone(len, failed)
    PROVE  IInv'
<1> DEFINE w == initialLen + sent
           d == Chunk(len)
<1>1. /\ strategy \in AllStrategies /\ initialLen \in Nat /\ sent \in Nat /\ w \in Nat
      /\ wrCipher \in Ciphers /\ lastWritten \in Nat \cup {NoSize}
      /\ log \in Seq(WireByte) /\ Len(log) = sent
  BY DEF IInv, TypeOK, LogInv
<1>2. phase = "streaming" /\ ~wrFailed /\ len \in Nat \ {0}
  BY CipherAssumption
     DEF PollWriteReady, PollWritePending, PollWriteError, PollWritePlain, PollWritePlainNone, MayWrite
<1>3. InStep(wrCipher, w)
  BY <1>2 DEF IInv, WriterInv
<1>4. d \in Nat \ {0}
  BY <1>1, <1>2, CipherAssumption DEF Chunk, MinOf, MaxOf, NoSize
<1>5. \A off \in Nat : log \o SubSeq(Encrypt(wrCipher, off, d), 1, 0) = log
  <2> TAKE off \in Nat
  <2>1. SubSeq(Encrypt(wrCipher, off, d), 1, 0) = <<>> OBVIOUS
  <2> QED BY <1>1, <2>1
<1>6. NoCipher \in Ciphers
  BY DEF NoCipher, Ciphers
<1> HIDE DEF w, d
<1>7. CASE \E a \in 1..len : PollWriteReady(len, a)
  <2> PICK a \in 1..len : PollWriteReady(len, a)
    BY <1>7
  <2>1. a \in 1..d /\ a \in 0..d /\ a \in Nat
    BY <1>4 DEF PollWriteReady, d
  <2>2. wrCipher' = ApplyKeystream(wrCipher, a)
    BY <1>1, <1>4, <2>1, AfterWriteIsApply DEF PollWriteReady, d
  <2>3. wrCipher' \in Ciphers /\ InStep(wrCipher', w + a)
    BY <1>1, <1>3, <2>1, <2>2, ApplyType, ApplyInStep
  <2> QED BY <1>1, <1>2, <1>3, <1>4, <2>1, <2>3, WriteInv DEF PollWriteReady, IInv, TypeOK, d, w
<1>8. CASE PollWritePending(len)
  <2>1. wrCipher' = wrCipher
    BY <1>1, <1>4, <1>8, AfterPendingIsIdentity DEF PollWritePending, d
  <2>2. UNCHANGED vars
    BY <1>8, <2>1 DEF PollWritePending, vars, setupVars, readerVars
  <2> QED BY <2>2 DEF vars, IInv, TypeOK, WriterInv, ReaderInv, LogInv, DeliversPlaintext, InStep, PromisedKeystream
<1>9. CASE PollWriteError(len)
  <2>1. wrCipher' \in Ciphers /\ wrFailed'
    BY <1>1, <1>4, <1>9, ApplyType DEF PollWriteError, d
  <2>2. log' = log \o SubSeq(Encrypt(wrCipher, initialLen + sent, d), 1, 0) /\ sent' = sent + 0
    BY <1>1, <1>5, <1>9 DEF PollWriteError, w
  <2> QED BY <1>1, <1>2, <1>3, <1>4, <1>9, <2>1, <2>2, WriteInv DEF PollWriteError, IInv, TypeOK, w
<1>10. CASE \E a \in 1..len : PollWritePlain(len, a)
  <2> PICK a \in 1..len : PollWritePlain(len, a)
    BY <1>10
  <2>1. InStep(NoCipher, w) /\ InStep(NoCipher, w + a)
    <3>1. a \in Nat /\ 0 \in Nat /\ w + 0 = w BY <1>1, <1>2 DEF w
    <3> QED BY <1>1, <1>3, <3>1, DropInStep DEF PollWritePlain
  <2>2. SubSeq(Encrypt(NoCipher, initialLen + sent, a), 1, a) = Encrypt(NoCipher, initialLen + sent, a)
    <3>1. a \in Nat BY <1>2
    <3>2. Encrypt(NoCipher, initialLen + sent, a) \in Seq([off : Int, ks : Int])
      BY <1>1, <3>1 DEF Encrypt, KeystreamAt, Covered, NoCipher, Plain
    <3>3. Len(Encrypt(NoCipher, initialLen + sent, a)) = a
      BY <3>1 DEF Encrypt
    <3> QED BY <3>1, <3>2, <3>3
  <2>3. a \in Nat /\ a \in 0..a
    BY <1>2
  <2> QED BY <1>1, <1>2, <1>6, <2>1, <2>2, <2>3, WriteInv DEF PollWritePlain, IInv, TypeOK, w
<1>11. CASE \E failed \in BOOLEAN : PollWritePlainNone(len, failed)
  <2> PICK failed \in BOOLEAN : PollWritePlainNone(len, failed)
    BY <1>11
  <2>1. InStep(NoCipher, w + 0)
    BY <1>1, <1>3, DropInStep DEF PollWritePlainNone
  <2>2. log' = log \o SubSeq(Encrypt(wrCipher, initialLen + sent, d), 1, 0) /\ sent' = sent + 0
    BY <1>1, <1>5 DEF PollWritePlainNone, w
  <2> QED BY <1>1, <1>2, <1>3, <1>4, <1>6, <2>1, <2>2, WriteInv DEF PollWritePlainNone, IInv, TypeOK, w
<1> QED BY <1>7, <1>8, <1>9, <1>10, <1>11

\* poll_read of k bytes hands out the next k bytes of the plaintext and keeps the
\* reader in step, whether its cipher still modifies data or is dropped.
LEMMA PollReadInv ==
    ASSUME IInv, NEW k \in 1..BufLen, PollRead(k)
    PROVE  IInv'
<1> DEFINE w == initialLen + taken
           bs == SubSeq(log, taken + 1, taken + k)
           new == Decrypt(rdCipher, bs)
<1>1. /\ strategy \in AllStrategies /\ initialLen \in Nat /\ taken \in Nat /\ sent \in Nat
      /\ k \in Nat /\ k > 0 /\ w \in Nat
      /\ rdCipher \in Ciphers /\ log \in Seq(WireByte) /\ recv \in Seq(ClearByte)
      /\ Len(log) = sent
  BY CipherAssumption DEF IInv, TypeOK, LogInv
<1>2. phase = "streaming" /\ taken + k <= sent /\ taken + k \in Nat
  BY <1>1 DEF PollRead
<1>3. InStep(rdCipher, w) /\ Len(recv) = w
  BY <1>2 DEF IInv, ReaderInv
<1>4. bs \in Seq(WireByte) /\ Len(bs) = k /\ \A i \in 1..k : bs[i] = log[taken + i]
  BY <1>1, <1>2
<1>5. \A i \in 1..Len(bs) : bs[i] = [off |-> w + i - 1, ks |-> PromisedKeystream(w + i - 1)]
  <2> TAKE i \in 1..Len(bs)
  <2>1. taken + i \in 1..Len(log) /\ initialLen + (taken + i) - 1 = w + i - 1
    BY <1>1, <1>2, <1>4
  <2>2. log[taken + i] = [off |-> initialLen + (taken + i) - 1,
                          ks |-> PromisedKeystream(initialLen + (taken + i) - 1)]
    BY <2>1 DEF IInv, LogInv
  <2> QED BY <1>4, <2>1, <2>2
<1> HIDE DEF w, bs
<1>6. /\ new \in Seq(ClearByte)
      /\ Len(new) = k
      /\ \A i \in 1..k : new[i] = [off |-> w + i - 1, clear |-> TRUE]
  BY <1>1, <1>3, <1>4, <1>5, DecryptsPromised
<1>7. recv' = recv \o new /\ taken' = taken + k
  BY DEF PollRead, bs
<1> HIDE DEF new
<1>8. recv' \in Seq(ClearByte) /\ Len(recv') = w + k
  <2>1. new \in Seq(ClearByte) /\ Len(new) = k BY <1>6
  <2>2. recv \o new \in Seq(ClearByte) BY <1>1, <2>1
  <2>3. Len(recv \o new) = Len(recv) + Len(new) BY <1>1, <2>1
  <2> QED BY <1>3, <1>7, <2>1, <2>2, <2>3
<1>9. \A j \in 1..Len(recv') : recv'[j] = [off |-> j - 1, clear |-> TRUE]
  <2> TAKE j \in 1..Len(recv')
  <2>1. CASE j <= w
    <3>1. recv'[j] = recv[j] /\ j \in 1..Len(recv) BY <1>1, <1>3, <1>6, <1>7, <2>1
    <3> QED BY <3>1 DEF IInv, DeliversPlaintext
  <2>2. CASE j > w
    <3>1. j - w \in 1..k BY <1>1, <1>8, <2>2
    <3>2. recv'[j] = new[j - w]
      <4>1. new \in Seq(ClearByte) /\ Len(new) = k BY <1>6
      <4>2. j \in 1..Len(recv) + Len(new) /\ j > Len(recv) BY <1>1, <1>3, <1>8, <2>2, <4>1
      <4>3. (recv \o new)[j] = new[j - Len(recv)] BY <1>1, <4>1, <4>2
      <4> QED BY <1>3, <1>7, <4>3
    <3>3. new[j - w] = [off |-> w + (j - w) - 1, clear |-> TRUE] BY <1>6, <3>1
    <3>4. w + (j - w) - 1 = j - 1 BY <1>1
    <3> QED BY <3>2, <3>3, <3>4
  <2> QED BY <1>1, <2>1, <2>2
<1>10. rdCipher' \in Ciphers /\ InStep(rdCipher', w + k)
  <2>1. CASE WillModifyData(rdCipher)
    BY <1>1, <1>3, <2>1, ApplyType, ApplyInStep DEF PollRead
  <2>2. CASE ~WillModifyData(rdCipher)
    <3>1. rdCipher' = NoCipher BY <2>2 DEF PollRead
    <3>2. NoCipher \in Ciphers BY DEF NoCipher, Ciphers
    <3> QED BY <1>1, <1>3, <2>2, <3>1, <3>2, DropInStep
  <2> QED BY <2>1, <2>2
<1>11. UNCHANGED <<strategy, initialLen, request, phase, wrCipher, lastWritten, wrFailed, sent, log>>
  BY DEF PollRead, setupVars, writerVars
<1>12. TypeOK'
  BY <1>2, <1>7, <1>8, <1>10, <1>11 DEF IInv, TypeOK
<1>13. WriterInv'
  BY <1>11 DEF IInv, WriterInv, InStep
<1>14. ReaderInv'
  <2>1. initialLen + taken' = w + k BY <1>1, <1>7 DEF w
  <2> QED BY <1>2, <1>8, <1>10, <1>11, <2>1 DEF ReaderInv, InStep
<1>15. LogInv'
  BY <1>2, <1>7, <1>11 DEF IInv, LogInv, PromisedKeystream
<1>16. DeliversPlaintext'
  BY <1>9 DEF DeliversPlaintext
<1> QED BY <1>12, <1>13, <1>14, <1>15, <1>16 DEF IInv

\* Every step preserves the inductive invariant.
LEMMA NextInv == IInv /\ [Next]_vars => IInv'
<1> SUFFICES ASSUME IInv, [Next]_vars PROVE IInv'
  OBVIOUS
<1>1. CASE Connect
  BY <1>1, ConnectInv
<1>2. CASE Accept
  BY <1>2, AcceptInv
<1>3. CASE RespondSuccess \/ RespondError
  BY <1>3, RespondInv
<1>4. ASSUME NEW len \in 1..BufLen,
             \/ \E a \in 1..len : PollWriteReady(len, a)
             \/ PollWritePending(len)
             \/ PollWriteError(len)
             \/ \E a \in 1..len : PollWritePlain(len, a)
             \/ \E failed \in BOOLEAN : PollWritePlainNone(len, failed)
      PROVE  IInv'
  BY <1>4, PollWriteInv
<1>5. ASSUME NEW k \in 1..BufLen, PollRead(k)
      PROVE  IInv'
  BY <1>5, PollReadInv
<1>6. CASE UNCHANGED vars
  BY <1>6 DEF vars, IInv, TypeOK, WriterInv, ReaderInv, LogInv, DeliversPlaintext, InStep, PromisedKeystream
<1> QED BY <1>1, <1>2, <1>3, <1>4, <1>5, <1>6 DEF Next

\* The inductive invariant holds in every reachable state.
THEOREM Invariance == Spec => []IInv
<1>1. Init => IInv BY InitInv
<1>2. IInv /\ [Next]_vars => IInv' BY NextInv
<1> QED BY <1>1, <1>2, PTL DEF Spec

\* Both ends of a CipherStream and the handshake stay well typed; in particular
\* no rewind moves a keystream position below zero.
THEOREM TypeCorrect == Spec => []TypeOK
<1>1. IInv => TypeOK BY DEF IInv
<1> QED BY <1>1, Invariance, PTL

\* Whatever the strategy, the chunk limits and the transport's short, refused and
\* failed writes, poll_read hands out the client's plaintext in order.
THEOREM DeliversPlaintextTheorem == Spec => []DeliversPlaintext
<1>1. IInv => DeliversPlaintext BY DEF IInv
<1> QED BY <1>1, Invariance, PTL

\* Exactly the bytes poll_write acknowledged are delivered or in flight.
THEOREM AcknowledgedTheorem == Spec => []AcknowledgedIsInFlight
<1>1. IInv => AcknowledgedIsInFlight
  <2> SUFFICES ASSUME IInv, phase \in {"accepted", "streaming", "refused"}
               PROVE  Len(recv) + (Len(log) - taken) = initialLen + sent
    BY DEF AcknowledgedIsInFlight
  <2>1. initialLen \in Nat /\ taken \in Nat /\ sent \in Nat BY DEF IInv, TypeOK
  <2>2. Len(recv) = initialLen + taken BY DEF IInv, ReaderInv
  <2>3. Len(log) = sent BY DEF IInv, LogInv
  <2> QED BY <2>1, <2>2, <2>3
<1> QED BY <1>1, Invariance, PTL

\* Header and stream are encrypted over exactly the span the strategy promises.
THEOREM SpanEncryptedTheorem == Spec => []SpanEncrypted
<1>1. IInv => SpanEncrypted
  <2> SUFFICES ASSUME IInv PROVE SpanEncrypted
    OBVIOUS
  <2>1. strategy \in AllStrategies /\ initialLen \in Nat
    BY DEF IInv, TypeOK
  <2>2. ASSUME NEW j \in 1..Len(request.header)
        PROVE  request.header[j].ks = PromisedKeystream(request.header[j].off)
    <3>1. CASE phase = "idle"
      BY <3>1 DEF IInv, WriterInv
    <3>2. CASE phase # "idle"
      <4>1. request.header = Encrypt(WrapCipher(strategy), 0, initialLen)
        BY <3>2 DEF IInv, WriterInv
      <4>2. j \in 1..initialLen
        BY <2>1, <4>1 DEF Encrypt
      <4>3. request.header[j] = [off |-> 0 + j - 1,
                                 ks |-> KeystreamAt(WrapCipher(strategy), initialLen, j)]
        BY <4>1, <4>2 DEF Encrypt
      <4>4. KeystreamAt(WrapCipher(strategy), initialLen, j) = PromisedKeystream(0 + j - 1)
        BY <2>1, <4>2, WrapInStep, InStepKeystream
      <4> QED BY <4>3, <4>4
    <3> QED BY <3>1, <3>2
  <2>3. ASSUME NEW j \in 1..Len(log)
        PROVE  log[j].ks = PromisedKeystream(log[j].off)
    <3>1. log[j] = [off |-> initialLen + j - 1, ks |-> PromisedKeystream(initialLen + j - 1)]
      BY DEF IInv, LogInv
    <3> QED BY <3>1
  <2> QED BY <2>2, <2>3 DEF SpanEncrypted
<1> QED BY <1>1, Invariance, PTL

-----------------------------------------------------------------------------
(* Refinement: what the two ends do is a step of Pipe, or invisible to it.  *)

\* A sequence is the concatenation of two when its elements are theirs.
LEMMA ConcatByElements ==
    ASSUME NEW S, NEW r \in Seq(S), NEW t \in Seq(S), NEW s \in Seq(S),
           Len(s) = Len(r) + Len(t),
           \A j \in 1..Len(r) : s[j] = r[j],
           \A j \in 1..Len(t) : s[Len(r) + j] = t[j]
    PROVE  s = r \o t
<1>1. r \o t \in Seq(S) /\ Len(r \o t) = Len(s)
  OBVIOUS
<1>2. ASSUME NEW j \in 1..Len(s) PROVE s[j] = (r \o t)[j]
  <2>1. CASE j <= Len(r)
    BY <2>1
  <2>2. CASE j > Len(r)
    <3>1. j - Len(r) \in 1..Len(t) BY <2>2
    <3>2. s[Len(r) + (j - Len(r))] = t[j - Len(r)] BY <3>1
    <3>3. Len(r) + (j - Len(r)) = j OBVIOUS
    <3>4. (r \o t)[j] = t[j - Len(r)] BY <2>2
    <3> QED BY <3>2, <3>3, <3>4
  <2> QED BY <2>1, <2>2
<1> QED BY <1>1, <1>2

\* Two sequences of plaintext bytes of which the second is longer by k: it extends
\* the first by the next k bytes.
LEMMA PlaintextExtends ==
    ASSUME NEW r \in Seq(ClearByte), NEW s \in Seq(ClearByte), NEW k \in Nat,
           Len(s) = Len(r) + k,
           \A j \in 1..Len(r) : r[j] = [off |-> j - 1, clear |-> TRUE],
           \A j \in 1..Len(s) : s[j] = [off |-> j - 1, clear |-> TRUE]
    PROVE  s = r \o [i \in 1..k |-> P!Byte(Len(r) + i - 1)]
<1> DEFINE t == [i \in 1..k |-> P!Byte(Len(r) + i - 1)]
<1>1. \A i \in 1..k : P!Byte(Len(r) + i - 1) \in ClearByte
  BY DEF P!Byte, ClearByte
<1>2. t \in Seq(ClearByte) /\ Len(t) = k
  BY <1>1, FunctionIsSeq
<1>3. ASSUME NEW j \in 1..Len(r) PROVE s[j] = r[j]
  OBVIOUS
<1>4. ASSUME NEW j \in 1..k PROVE s[Len(r) + j] = t[j]
  <2> DEFINE n == Len(r) + j
  <2>1. n \in 1..Len(s) OBVIOUS
  <2>2. t[j] = P!Byte(n - 1) OBVIOUS
  <2> HIDE DEF n, t
  <2>3. s[n] = [off |-> n - 1, clear |-> TRUE] BY <2>1
  <2>4. s[n] = t[j] BY <2>2, <2>3 DEF P!Byte
  <2> QED BY <2>4 DEF n
<1> HIDE DEF t
<1>5. s = r \o t
  BY <1>2, <1>3, <1>4, ConcatByElements
<1> QED BY <1>5 DEF t

\* A step that leaves the written bytes alone and hands out k more is a Read.
LEMMA DeliveryIsRead ==
    ASSUME IInv, IInv', Written' = Written, phase' \notin {"idle", "requested"},
           NEW k \in Nat, k > 0, Len(recv') = Len(recv) + k
    PROVE  P!Read
<1>1. recv \in Seq(ClearByte) /\ recv' \in Seq(ClearByte)
  BY DEF IInv, TypeOK
<1>2. recv' = recv \o [i \in 1..k |-> P!Byte(Len(recv) + i - 1)]
  BY <1>1, PlaintextExtends DEF IInv, DeliversPlaintext
<1>3. initialLen' \in Nat /\ sent' \in Nat /\ taken' \in Nat
  BY DEF IInv, TypeOK
<1>4. Len(recv') <= Written'
  BY <1>3 DEF IInv, ReaderInv, LogInv, Written
<1>5. Len(recv') - Len(recv) = k
  BY <1>1
<1> QED BY <1>2, <1>4, <1>5 DEF P!Read

\* A step that acknowledges n more bytes and hands out none is a Write.
LEMMA AcknowledgeIsWrite ==
    ASSUME IInv', NEW n \in Nat, n > 0, Written \in Nat, Written' = Written + n, recv' = recv
    PROVE  P!Write
BY DEF P!Write

\* Every step of the two ends is a step of Pipe or leaves its variables alone.
LEMMA StepImplementsPipe == IInv /\ IInv' /\ [Next]_vars => [P!Next]_(P!pipeVars)
<1> SUFFICES ASSUME IInv, IInv', [Next]_vars PROVE P!Next \/ UNCHANGED P!pipeVars
  OBVIOUS
<1>1. /\ initialLen \in Nat /\ sent \in Nat /\ taken \in Nat
      /\ initialLen' \in Nat /\ sent' \in Nat /\ taken' \in Nat
  BY DEF IInv, TypeOK
<1>2. Written \in Nat
  BY <1>1 DEF Written
<1>3. CASE Connect
  <2>1. Written' = Written + initialLen /\ recv' = recv
    BY <1>1, <1>3 DEF Connect, Written, readerVars, IInv, LogInv
  <2>2. CASE initialLen = 0
    BY <1>2, <2>1, <2>2 DEF P!pipeVars
  <2>3. CASE initialLen > 0
    BY <1>1, <1>2, <2>1, <2>3, AcknowledgeIsWrite DEF P!Next
  <2> QED BY <1>1, <2>2, <2>3
<1>4. CASE Accept
  <2>1. Written' = Written /\ phase' = "accepted" /\ recv = <<>> /\ taken' = taken
    BY <1>4 DEF Accept, Written, setupVars, writerVars, IInv, ReaderInv
  <2>2. taken = 0
    BY <1>1, <1>4 DEF Accept, IInv, LogInv
  <2>3. initialLen' = initialLen
    BY <1>4 DEF Accept, setupVars
  <2>4. Len(recv') = Len(recv) + initialLen
    BY <1>1, <2>1, <2>2, <2>3 DEF IInv, ReaderInv
  <2>5. CASE initialLen = 0
    <3>1. recv' \in Seq(ClearByte) BY DEF IInv, TypeOK
    <3>2. recv' = <<>> BY <2>1, <2>4, <2>5, <3>1
    <3> QED BY <2>1, <3>2 DEF P!pipeVars
  <2>6. CASE initialLen > 0
    BY <1>1, <2>1, <2>4, <2>6, DeliveryIsRead DEF P!Next
  <2> QED BY <1>1, <2>5, <2>6
<1>5. CASE RespondSuccess \/ RespondError
  BY <1>5 DEF RespondSuccess, RespondError, Written, setupVars, writerVars, readerVars, P!pipeVars
<1>6. ASSUME NEW len \in 1..BufLen, NEW a \in 1..len,
             PollWriteReady(len, a) \/ PollWritePlain(len, a)
      PROVE  P!Next
  <2>1. phase = "streaming" /\ phase' = phase /\ initialLen' = initialLen /\ recv' = recv
    BY <1>6 DEF PollWriteReady, PollWritePlain, MayWrite, setupVars, readerVars
  <2>2. sent' = sent + a
    BY <1>6 DEF PollWriteReady, PollWritePlain
  <2>3. a \in Nat /\ a > 0
    BY CipherAssumption
  <2>4. Written' = Written + a
    BY <1>1, <2>1, <2>2, <2>3 DEF Written
  <2> QED BY <1>2, <2>1, <2>3, <2>4, AcknowledgeIsWrite DEF P!Next
<1>7. ASSUME NEW len \in 1..BufLen,
             \/ PollWritePending(len)
             \/ PollWriteError(len)
             \/ \E failed \in BOOLEAN : PollWritePlainNone(len, failed)
      PROVE  UNCHANGED P!pipeVars
  BY <1>7 DEF PollWritePending, PollWriteError, PollWritePlainNone, Written, setupVars, readerVars, P!pipeVars
<1>8. ASSUME NEW k \in 1..BufLen, PollRead(k)
      PROVE  P!Next
  <2>1. /\ phase = "streaming" /\ phase' = phase /\ Written' = Written
        /\ initialLen' = initialLen /\ taken' = taken + k
    BY <1>8 DEF PollRead, Written, setupVars, writerVars
  <2>2. k \in Nat /\ k > 0
    BY CipherAssumption
  <2>3. Len(recv') = Len(recv) + k
    BY <1>1, <2>1, <2>2 DEF IInv, ReaderInv
  <2> QED BY <2>1, <2>2, <2>3, DeliveryIsRead DEF P!Next
<1>9. CASE UNCHANGED vars
  BY <1>9 DEF vars, Written, P!pipeVars
<1> QED BY <1>3, <1>4, <1>5, <1>6, <1>7, <1>8, <1>9 DEF Next

\* The encrypted stream implements the reliable stream: whatever the strategy, the
\* chunks and the transport do, the code above a CipherStream sees only writes that
\* are acknowledged and reads that hand out the next acknowledged bytes in clear.
THEOREM CipherImplementsPipe == Spec => CipherIsPipe
<1>1. Init => P!Init
  BY DEF Init, P!Init, Written
<1>2. IInv /\ IInv' /\ [Next]_vars => [P!Next]_(P!pipeVars)
  BY StepImplementsPipe
<1> QED BY <1>1, <1>2, Invariance, PTL DEF Spec, P!Spec, CipherIsPipe

=============================================================================
