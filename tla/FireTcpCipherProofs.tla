------------------------- MODULE FireTcpCipherProofs -------------------------
(***************************************************************************)
(* FireTCP's two ciphers switch at the same byte, for every length of the  *)
(* initial span, of the request, of the buffers and of the stream, as long *)
(* as the transport is never full.                                         *)
(*                                                                         *)
(* The argument: a cipher state is a function of how many bytes have gone  *)
(* through it (InStep), so writer and reader give the byte at an offset    *)
(* the same keystream once they agree on the establish cipher.  The reader *)
(* learns it from the request, and EstablishServer accepts the request     *)
(* only while the reader is within the initial span: no byte after the     *)
(* span has been read by then.                                             *)
(***************************************************************************)
EXTENDS FireTcpCipher, TLAPS

CipherStates == [state : {"Init", "Established"}, left : Nat, est : BOOLEAN, pos : Nat]

\* Cipher state c is the one that w bytes have gone through.
InStep(c, w) ==
    /\ c \in CipherStates
    /\ IF w < InitLen
       THEN c.state = "Init" /\ c.left = InitLen - w /\ c.pos = w
       ELSE c.state = "Established" /\ c.left = 0 /\ c.pos = w - InitLen

\* The keystream the protocol promises for the byte at offset o.
Promised(o, est) ==
    IF o < InitLen THEN <<"init", o>>
    ELSE IF est THEN <<"est", o - InitLen>> ELSE <<"plain", 0>>

ReceivedByte == [off : Nat, clear : BOOLEAN]

Types ==
    /\ requestLen \in Nat /\ requestLen > 2
    /\ estCipher \in BOOLEAN
    /\ sent \in Nat
    /\ taken \in Nat
    /\ log \in Seq([off : Nat, ks : {"init", "est", "plain"} \X Nat])
    /\ recv \in Seq(ReceivedByte)
    /\ server \in {"request", "serving", "refused"}

WriterInv ==
    /\ InStep(wr, sent)
    /\ wr.est = estCipher
    /\ Len(log) = sent
    /\ \A j \in 1..Len(log) : log[j] = [off |-> j - 1, ks |-> Promised(j - 1, estCipher)]

EstKnown == rd.est = IF server = "serving" THEN estCipher ELSE FALSE

ReaderInv ==
    /\ InStep(rd, taken)
    /\ EstKnown
    /\ Len(recv) = taken
    /\ taken <= sent
    /\ server = "request" => taken <= requestLen

ReceivedInv ==
    \A j \in 1..Len(recv) :
        /\ recv[j].off = j - 1
        /\ j <= InitLen \/ server = "serving" => recv[j].clear

IInv ==
    /\ Types
    /\ WriterInv
    /\ ReaderInv
    /\ ReceivedInv
    /\ RefusesFullRequest

-----------------------------------------------------------------------------
\* Bytes within what the state still covers keep it in step, and the switch to
\* the establish cipher happens at the end of the initial span.
LEMMA AdvanceInStep ==
    ASSUME NEW c, NEW w \in Nat, InStep(c, w), NEW k \in Nat,
           c.state = "Init" => k <= c.left
    PROVE  InStep(Advance(c, k), w + k) /\ Advance(c, k).est = c.est
<1> DEFINE d == Advance(c, k)
<1>1. /\ c \in CipherStates /\ InitLen \in Nat /\ c.left \in Nat /\ c.pos \in Nat
      /\ w < InitLen => c.state = "Init" /\ c.left = InitLen - w /\ c.pos = w
      /\ w >= InitLen => c.state = "Established" /\ c.left = 0 /\ c.pos = w - InitLen
  BY FireTcpAssumption DEF InStep, CipherStates
<1>2. CASE w < InitLen /\ c.left = k
  <2> DEFINE none == 0
  <2>1. d = [c EXCEPT !.state = "Established", !.left = none, !.pos = none]
    BY <1>1, <1>2 DEF Advance
  <2>2. none = 0 /\ none \in Nat OBVIOUS
  <2> HIDE DEF none
  <2>3. d \in CipherStates /\ d.state = "Established" /\ d.left = none /\ d.pos = none
        /\ d.est = c.est
    BY <1>1, <2>1, <2>2 DEF CipherStates
  <2>4. w + k = InitLen BY <1>1, <1>2
  <2> HIDE DEF d
  <2> QED BY <1>1, <2>2, <2>3, <2>4 DEF InStep, d
<1>3. CASE w < InitLen /\ c.left # k
  <2> DEFINE l == c.left - k
             p == c.pos + k
  <2>1. d = [c EXCEPT !.left = l, !.pos = p] BY <1>1, <1>3 DEF Advance
  <2>2. l \in Nat /\ p \in Nat /\ l = InitLen - (w + k) /\ p = w + k /\ w + k < InitLen
    BY <1>1, <1>3
  <2> HIDE DEF l, p
  <2>3. d \in CipherStates /\ d.state = c.state /\ d.left = l /\ d.pos = p /\ d.est = c.est
    BY <1>1, <2>1, <2>2 DEF CipherStates
  <2> HIDE DEF d
  <2> QED BY <1>1, <1>3, <2>2, <2>3 DEF InStep, d
<1>4. CASE w >= InitLen
  <2> DEFINE l == c.left
             p == c.pos + k
  <2>1. d = [c EXCEPT !.left = l, !.pos = p] BY <1>1, <1>4 DEF Advance
  <2>2. l \in Nat /\ p \in Nat /\ p = (w + k) - InitLen /\ w + k >= InitLen
    BY <1>1, <1>4
  <2>3. l = 0 BY <1>1, <1>4
  <2> HIDE DEF l, p
  <2>4. d \in CipherStates /\ d.state = c.state /\ d.left = l /\ d.pos = p /\ d.est = c.est
    BY <1>1, <2>1, <2>2 DEF CipherStates
  <2> HIDE DEF d
  <2> QED BY <1>1, <1>4, <2>2, <2>3, <2>4 DEF InStep, d
<1> QED BY <1>1, <1>2, <1>3, <1>4

\* A state in step gives every byte its promised keystream.
LEMMA InStepKeystream ==
    ASSUME NEW c, NEW w \in Nat, InStep(c, w), NEW i \in Nat \ {0},
           c.state = "Init" => i <= c.left
    PROVE  Keystream(c, i) = Promised(w + i - 1, c.est)
BY FireTcpAssumption DEF InStep, Keystream, Promised, CipherStates

\* A promised keystream is one.
LEMMA PromisedType ==
    ASSUME NEW o \in Nat, NEW est
    PROVE  Promised(o, est) \in {"init", "est", "plain"} \X Nat
BY FireTcpAssumption DEF Promised

\* Before the switch the establish cipher plays no part.
LEMMA PromisedEarly ==
    ASSUME NEW o \in Nat, o < InitLen, NEW e, NEW f
    PROVE  Promised(o, e) = Promised(o, f)
BY DEF Promised

\* A function on an initial segment of the positive numbers is a sequence.
LEMMA FunctionIsSeq ==
    ASSUME NEW S, NEW n \in Nat, NEW f, f = [i \in 1..n |-> f[i]], \A i \in 1..n : f[i] \in S
    PROVE  f \in Seq(S) /\ Len(f) = n
OBVIOUS

\* The elements of a concatenation.
LEMMA ConcatElement ==
    ASSUME NEW S, NEW r \in Seq(S), NEW t \in Seq(S), NEW j \in 1..Len(r) + Len(t)
    PROVE  /\ j <= Len(r) => (r \o t)[j] = r[j]
           /\ j > Len(r) => (r \o t)[j] = t[j - Len(r)]
OBVIOUS

\* The client starts with the request unsent, both ends at the first byte.
LEMMA InitIInv == Init => IInv
<1> SUFFICES ASSUME Init PROVE IInv
  OBVIOUS
<1>1. requestLen \in Nat /\ requestLen > 2 /\ estCipher \in BOOLEAN
  BY FireTcpAssumption DEF Init
<1>2. InStep(wr, 0) /\ wr.est = estCipher /\ InStep(rd, 0) /\ rd.est = FALSE
  BY <1>1, FireTcpAssumption DEF Init, NewCipherState, InStep, CipherStates
<1>3. sent = 0 /\ taken = 0 /\ log = <<>> /\ recv = <<>> /\ server = "request"
  BY DEF Init
<1>4. Types BY <1>1, <1>3 DEF Types
<1>5. WriterInv BY <1>2, <1>3 DEF WriterInv
<1>6. EstKnown BY <1>2, <1>3, Zenon DEF EstKnown
<1>8. ReaderInv BY <1>1, <1>2, <1>3, <1>6 DEF ReaderInv
<1>7. ReceivedInv BY <1>3 DEF ReceivedInv
<1> QED BY <1>3, <1>4, <1>5, <1>7, <1>8 DEF IInv, RefusesFullRequest

\* A write that the transport takes a bytes of extends the log as promised.
LEMMA PollWriteInv ==
    ASSUME IInv, NEW len \in 1..BufLen, NEW a \in 1..len, PollWrite(len, a)
    PROVE  IInv'
<1>1. /\ a \in Nat \ {0} /\ len \in Nat /\ a <= WriteLen(len)
      /\ sent' = sent + a /\ wr' = Advance(wr, a)
      /\ UNCHANGED <<requestLen, estCipher, rd, taken, recv, server>>
  BY FireTcpAssumption DEF PollWrite, setupVars, readerVars
<1>2. InStep(wr, sent) /\ wr.est = estCipher /\ sent \in Nat /\ wr \in CipherStates
  BY DEF IInv, WriterInv, Types, InStep
<1>3. wr.state = "Init" => a <= wr.left
  BY <1>1, <1>2 DEF WriteLen, MinOf, CipherStates
<1>4. InStep(wr', sent') /\ wr'.est = estCipher'
  BY <1>1, <1>2, <1>3, AdvanceInStep
<1> DEFINE W == [off : Nat, ks : {"init", "est", "plain"} \X Nat]
           B(o) == [off |-> o, ks |-> Promised(o, estCipher)]
           new == [i \in 1..a |-> [off |-> sent + i - 1, ks |-> Keystream(wr, i)]]
<1>5. log' = log \o new BY DEF PollWrite
<1>6. ASSUME NEW i \in 1..a PROVE new[i] = B(sent + i - 1) /\ new[i] \in W
  <2>1. Keystream(wr, i) = Promised(sent + i - 1, estCipher)
    <3>1. i \in Nat \ {0} /\ (wr.state = "Init" => i <= wr.left)
      BY <1>1, <1>2, <1>3 DEF CipherStates
    <3> QED BY <1>2, <3>1, InStepKeystream
  <2>2. sent + i - 1 \in Nat BY <1>1, <1>2
  <2> QED BY <2>1, <2>2, PromisedType
<1>7. new \in Seq(W) /\ Len(new) = a
  <2>1. new = [i \in 1..a |-> new[i]] OBVIOUS
  <2> HIDE DEF new, W
  <2> QED BY <1>1, <1>6, <2>1, FunctionIsSeq
<1>8. log \in Seq(W) /\ Len(log) = sent /\ \A j \in 1..sent : log[j] = B(j - 1)
  BY DEF IInv, WriterInv, Types
<1> HIDE DEF new, W, B
<1>9. log' \in Seq(W) /\ Len(log') = sent'
  BY <1>1, <1>2, <1>5, <1>7, <1>8
<1>10. ASSUME NEW j \in 1..Len(log') PROVE log'[j] = B(j - 1)
  <2>1. CASE j <= sent BY <1>2, <1>5, <1>7, <1>8, <2>1
  <2>2. CASE j > sent
    <3>1. j - sent \in 1..a BY <1>1, <1>2, <1>9, <2>2
    <3>2. log'[j] = new[j - sent]
      <4>1. j \in 1..Len(log) + Len(new) BY <1>1, <1>2, <1>7, <1>8, <1>9
      <4>2. (log \o new)[j] = new[j - Len(log)] BY <1>2, <1>7, <1>8, <2>2, <4>1, ConcatElement
      <4> QED BY <1>5, <1>8, <4>2
    <3>3. sent + (j - sent) - 1 = j - 1 BY <1>2
    <3> QED BY <1>6, <3>1, <3>2, <3>3
  <2> QED BY <1>2, <2>1, <2>2
<1>11. WriterInv'
  BY <1>1, <1>4, <1>9, <1>10 DEF WriterInv, B
<1>12. Types'
  BY <1>1, <1>2, <1>9 DEF IInv, Types, W
<1>13. ReaderInv'
  <2>1. EstKnown' BY <1>1 DEF IInv, ReaderInv, EstKnown
  <2> QED BY <1>1, <1>2, <2>1 DEF IInv, ReaderInv, Types
<1>14. ReceivedInv' /\ RefusesFullRequest'
  BY <1>1 DEF IInv, ReceivedInv, RefusesFullRequest
<1> QED BY <1>11, <1>12, <1>13, <1>14 DEF IInv

\* A read of k bytes within the initial span, or with the cipher of the writer,
\* decrypts them; any read delivers the next offsets.
LEMMA PollReadInv ==
    ASSUME IInv, NEW len \in Nat \ {0}, NEW k, PollRead(len, k),
           UNCHANGED <<setupVars, writerVars, server>>,
           server = "request" => taken + k <= requestLen
    PROVE  IInv' /\ Len(recv') = Len(recv) + k /\ k \in Nat \ {0}
<1>1. /\ UNCHANGED <<requestLen, estCipher, wr, sent, log, server>>
      /\ rd' = Advance(rd, k) /\ taken' = taken + k
  BY DEF PollRead, setupVars, writerVars
<1>2. /\ InStep(rd, taken) /\ taken \in Nat /\ rd \in CipherStates
      /\ Len(log) = sent /\ sent \in Nat /\ taken <= sent /\ Len(recv) = taken
  BY DEF IInv, WriterInv, ReaderInv, Types, InStep
<1>3. k \in Nat \ {0} /\ taken + k <= sent /\ (rd.state = "Init" => k <= rd.left)
  BY <1>2 DEF PollRead, MinOf, CipherStates
<1>4. InStep(rd', taken') /\ rd'.est = rd.est
  BY <1>1, <1>2, <1>3, AdvanceInStep
<1> DEFINE new == [i \in 1..k |-> [off |-> log[taken + i].off,
                                  clear |-> log[taken + i].ks = Keystream(rd, i)]]
<1>5. recv' = recv \o new BY DEF PollRead
<1>6. ASSUME NEW i \in 1..k
      PROVE  /\ new[i] \in ReceivedByte
             /\ new[i].off = taken + i - 1
             /\ taken + i <= InitLen \/ server = "serving" => new[i].clear
  <2> DEFINE n == taken + i
             same == Promised(n - 1, estCipher) = Promised(n - 1, rd.est)
  <2>1. n \in 1..Len(log) /\ n - 1 \in Nat /\ n - 1 = taken + i - 1 BY <1>2, <1>3
  <2>2. new[i] = [off |-> log[n].off, clear |-> log[n].ks = Keystream(rd, i)]
    OBVIOUS
  <2>3. Keystream(rd, i) = Promised(n - 1, rd.est)
    <3>1. i \in Nat \ {0} /\ (rd.state = "Init" => i <= rd.left)
      BY <1>2, <1>3 DEF CipherStates
    <3> QED BY <1>2, <3>1, InStepKeystream
  <2> HIDE DEF n, new
  <2>4. log[n] = [off |-> n - 1, ks |-> Promised(n - 1, estCipher)]
    BY <2>1 DEF IInv, WriterInv
  <2>5. log[n].off = n - 1 /\ log[n].ks = Promised(n - 1, estCipher)
    BY <2>4
  <2>6. new[i] = [off |-> n - 1, clear |-> same]
    BY <2>2, <2>3, <2>5, Zenon
  <2>7. same \in BOOLEAN OBVIOUS
  <2>8. taken + i <= InitLen => same
    BY <2>1, PromisedEarly, FireTcpAssumption DEF n
  <2>9. server = "serving" => same
    BY DEF IInv, ReaderInv, EstKnown
  <2> HIDE DEF same
  <2>10. new[i] \in ReceivedByte /\ new[i].off = n - 1 /\ new[i].clear = same
    BY <2>1, <2>6, <2>7 DEF ReceivedByte
  <2> QED BY <2>1, <2>8, <2>9, <2>10
<1>7. new \in Seq(ReceivedByte) /\ Len(new) = k
  <2>1. new = [i \in 1..k |-> new[i]] OBVIOUS
  <2> HIDE DEF new
  <2> QED BY <1>3, <1>6, <2>1, FunctionIsSeq
<1> HIDE DEF new
<1>8. recv \in Seq(ReceivedByte) BY DEF IInv, Types
<1>9. recv' \in Seq(ReceivedByte) /\ Len(recv') = taken'
  <2>1. recv \o new \in Seq(ReceivedByte) /\ Len(recv \o new) = Len(recv) + Len(new)
    BY <1>7, <1>8
  <2> QED BY <1>1, <1>2, <1>5, <1>7, <2>1
<1>10. ReceivedInv'
  <2> SUFFICES ASSUME NEW j \in 1..Len(recv')
               PROVE  /\ recv'[j].off = j - 1
                      /\ j <= InitLen \/ server = "serving" => recv'[j].clear
    BY <1>1 DEF ReceivedInv
  <2>0. j \in 1..Len(recv) + Len(new) BY <1>1, <1>2, <1>3, <1>7, <1>9
  <2>1. CASE j <= taken
    <3>1. recv'[j] = recv[j] BY <1>2, <1>5, <1>7, <1>8, <2>0, <2>1, ConcatElement
    <3>2. j \in 1..Len(recv) BY <1>2, <2>1
    <3> QED BY <3>1, <3>2 DEF IInv, ReceivedInv
  <2>2. CASE j > taken
    <3> DEFINE i == j - taken
    <3>1. recv'[j] = new[i] BY <1>2, <1>5, <1>7, <1>8, <2>0, <2>2, ConcatElement
    <3>2. i \in 1..k BY <1>2, <1>3, <1>7, <2>0, <2>2
    <3>3. taken + i = j BY <1>2
    <3> HIDE DEF i
    <3>4. /\ new[i].off = taken + i - 1
          /\ taken + i <= InitLen \/ server = "serving" => new[i].clear
      BY <1>6, <3>2
    <3>5. new[i].off = j - 1 BY <1>2, <1>3, <3>2, <3>3, <3>4
    <3>6. j <= InitLen \/ server = "serving" => new[i].clear BY <3>3, <3>4, Zenon
    <3> QED BY <3>1, <3>5, <3>6, Zenon
  <2> QED BY <1>2, <2>1, <2>2
<1>11. EstKnown' BY <1>1, <1>4 DEF IInv, ReaderInv, EstKnown
<1>12. ReaderInv'
  BY <1>1, <1>2, <1>3, <1>4, <1>9, <1>11 DEF ReaderInv
<1>13. Types' BY <1>1, <1>2, <1>3, <1>9 DEF IInv, Types
<1>14. WriterInv' /\ RefusesFullRequest' BY <1>1 DEF IInv, WriterInv, RefusesFullRequest
<1> QED BY <1>1, <1>2, <1>3, <1>9, <1>10, <1>12, <1>13, <1>14 DEF IInv

\* read_exact never takes a byte after the request.
LEMMA ReadRequestInv ==
    ASSUME IInv, NEW k \in 1..BufLen, ReadRequest(k)
    PROVE  IInv'
<1>1. /\ taken = Len(recv) /\ taken \in Nat /\ requestLen \in Nat /\ requestLen > 2
      /\ server = "request" /\ taken <= requestLen
  BY DEF IInv, ReaderInv, Types, ReadRequest
<1>2. RequestBytesLeft \in Nat /\ taken + RequestBytesLeft <= requestLen
  BY <1>1 DEF RequestBytesLeft
<1>3. k \in Nat \ {0} BY FireTcpAssumption
<1>4. k <= RequestBytesLeft
  <2>1. InStep(rd, taken) /\ Len(log) \in Nat BY DEF IInv, ReaderInv, WriterInv, Types
  <2> QED BY <1>1, <1>2, <1>3, <2>1 DEF ReadRequest, PollRead, MinOf, InStep, CipherStates
<1>5. RequestBytesLeft \in Nat \ {0} /\ taken + k <= requestLen BY <1>1, <1>2, <1>3, <1>4
<1>6. PollRead(RequestBytesLeft, k) /\ UNCHANGED <<setupVars, writerVars, server>>
  BY DEF ReadRequest
<1> HIDE DEF RequestBytesLeft
<1> QED BY <1>5, <1>6, PollReadInv

\* The server accepts the request exactly when the reader is still within the
\* initial span, and then all of it has been decrypted.
LEMMA EstablishInv ==
    ASSUME IInv, EstablishServer
    PROVE  IInv'
<1>1. /\ UNCHANGED <<requestLen, estCipher, wr, sent, log, taken, recv>>
      /\ server = "request" /\ Len(recv) = requestLen
  BY DEF EstablishServer, setupVars, writerVars
<1>2. /\ taken = Len(recv) /\ taken \in Nat /\ requestLen \in Nat /\ InStep(rd, taken)
      /\ rd \in CipherStates /\ estCipher \in BOOLEAN
      /\ rd.est = FALSE
  BY <1>1 DEF IInv, ReaderInv, Types, InStep, EstKnown
<1>3. WriterInv' BY <1>1 DEF IInv, WriterInv
<1>4. CASE RequestDecodes /\ rd.state = "Init"
  <2>1. rd' = [rd EXCEPT !.est = estCipher] /\ server' = "serving"
    BY <1>4 DEF EstablishServer, SetEstablishCipher
  <2>2. /\ rd' \in CipherStates /\ rd'.state = rd.state /\ rd'.left = rd.left
        /\ rd'.pos = rd.pos /\ rd'.est = estCipher
    BY <1>2, <2>1 DEF CipherStates
  <2>3. InStep(rd', taken') BY <1>1, <1>2, <2>2 DEF InStep
  <2>4. EstKnown' BY <1>1, <2>1, <2>2 DEF EstKnown
  <2>5. taken < InitLen BY <1>2, <1>4, FireTcpAssumption DEF InStep
  <2>6. ReceivedInv' BY <1>1, <1>2, <2>5, FireTcpAssumption DEF IInv, ReceivedInv
  <2>7. RefusesFullRequest' BY <1>1, <1>2, <2>1, <2>5 DEF RefusesFullRequest
  <2>8. Types' BY <1>1, <2>1 DEF IInv, Types
  <2>9. ReaderInv' BY <1>1, <2>1, <2>3, <2>4 DEF IInv, ReaderInv
  <2> QED BY <1>3, <2>6, <2>7, <2>8, <2>9 DEF IInv
<1>5. CASE ~(RequestDecodes /\ rd.state = "Init")
  <2>1. rd' = rd /\ server' = "refused"
    BY <1>5 DEF EstablishServer
  <2>2. EstKnown' BY <1>2, <2>1 DEF EstKnown
  <2>3. requestLen >= InitLen
    <3> SUFFICES ASSUME requestLen < InitLen PROVE FALSE
      BY <1>2, FireTcpAssumption
    <3>1. rd.state = "Init" BY <1>1, <1>2 DEF InStep
    <3>2. RequestDecodes
      BY <1>1, <1>2, FireTcpAssumption DEF RequestDecodes, IInv, ReceivedInv
    <3> QED BY <1>5, <3>1, <3>2
  <2>4. ReceivedInv' BY <1>1, <2>1 DEF IInv, ReceivedInv
  <2>5. RefusesFullRequest' BY <1>1, <2>1, <2>3 DEF RefusesFullRequest
  <2>6. Types' BY <1>1, <2>1 DEF IInv, Types
  <2>7. ReaderInv' BY <1>1, <2>1, <2>2 DEF IInv, ReaderInv
  <2> QED BY <1>3, <2>4, <2>5, <2>6, <2>7 DEF IInv
<1> QED BY <1>4, <1>5

\* Every step of the two ends keeps the invariant.
LEMMA NextIInv == IInv /\ [Next]_vars => IInv'
<1> SUFFICES ASSUME IInv, [Next]_vars PROVE IInv'
  OBVIOUS
<1>1. ASSUME NEW len \in 1..BufLen, NEW a \in 1..len, PollWrite(len, a) PROVE IInv'
  BY <1>1, PollWriteInv
<1>2. ASSUME NEW k \in 1..BufLen, ReadRequest(k) PROVE IInv'
  BY <1>2, ReadRequestInv
<1>3. CASE EstablishServer BY <1>3, EstablishInv
<1>4. ASSUME NEW len \in 1..BufLen, NEW k \in 1..len, ReadStream(len, k) PROVE IInv'
  <2>1. len \in Nat \ {0} BY FireTcpAssumption
  <2>2. server = "serving" /\ PollRead(len, k) /\ UNCHANGED <<setupVars, writerVars, server>>
    BY <1>4 DEF ReadStream
  <2> QED BY <2>1, <2>2, PollReadInv
<1>5. CASE UNCHANGED vars
  BY <1>5 DEF vars, IInv, Types, WriterInv, ReaderInv, EstKnown, ReceivedInv, RefusesFullRequest
<1> QED BY <1>1, <1>2, <1>3, <1>4, <1>5 DEF Next

\* The inductive invariant holds in every state.
LEMMA Invariance == Spec => []IInv
BY InitIInv, NextIInv, PTL DEF Spec

-----------------------------------------------------------------------------
\* A server that serves has a request shorter than the initial span, one that
\* refuses has a request that fills it: INITIAL_CIPHER_LEN bounds the request,
\* whatever the sizes of the reads and writes.
THEOREM RefusesFullRequestTheorem == Spec => []RefusesFullRequest
<1>1. IInv => RefusesFullRequest BY DEF IInv
<1> QED BY <1>1, Invariance, PTL

\* What a serving server passes on is the client's plaintext, in order and clear.
THEOREM DeliversPlaintextTheorem == Spec => []DeliversPlaintext
<1>1. ASSUME IInv PROVE DeliversPlaintext
  <2> SUFFICES ASSUME server = "serving", NEW j \in 1..Len(recv)
               PROVE  recv[j] = [off |-> j - 1, clear |-> TRUE]
    BY DEF DeliversPlaintext
  <2>1. recv[j] \in ReceivedByte BY <1>1 DEF IInv, Types
  <2>2. recv[j].off = j - 1 /\ recv[j].clear BY <1>1 DEF IInv, ReceivedInv
  <2> QED BY <2>1, <2>2 DEF ReceivedByte
<1> QED BY <1>1, Invariance, PTL

-----------------------------------------------------------------------------
(* The refinement of Pipe.                                                  *)

\* Two sequences with the same elements after a prefix: the second is the first
\* and the rest.
LEMMA ConcatByElements ==
    ASSUME NEW S, NEW r \in Seq(S), NEW t \in Seq(S), NEW s \in Seq(S),
           Len(s) = Len(r) + Len(t),
           \A j \in 1..Len(r) : s[j] = r[j],
           \A j \in 1..Len(t) : s[Len(r) + j] = t[j]
    PROVE  s = r \o t
<1>1. r \o t \in Seq(S) /\ Len(r \o t) = Len(s)
  OBVIOUS
<1>2. ASSUME NEW j \in 1..Len(s) PROVE s[j] = (r \o t)[j]
  <2>1. CASE j <= Len(r)
    BY <2>1, ConcatElement
  <2>2. CASE j > Len(r)
    <3> DEFINE i == j - Len(r)
    <3>1. i \in 1..Len(t) /\ Len(r) + i = j BY <2>2
    <3>2. (r \o t)[j] = t[i] BY <2>2
    <3> HIDE DEF i
    <3> QED BY <3>1, <3>2
  <2> QED BY <2>1, <2>2
<1> QED BY <1>1, <1>2

ServedInv ==
    /\ Served \in Seq(ReceivedByte)
    /\ Len(Served) <= sent
    /\ \A j \in 1..Len(Served) : Served[j] = P!Byte(j - 1)

\* What a server passes on is plaintext, byte by byte.
LEMMA ServedIsPlaintext == IInv => ServedInv
<1> SUFFICES ASSUME IInv PROVE ServedInv
  OBVIOUS
<1> USE DEF ServedInv
<1>1. CASE server = "serving"
  <2>1. Served = recv BY <1>1 DEF Served
  <2>2. recv \in Seq(ReceivedByte) /\ Len(recv) <= sent BY DEF IInv, Types, ReaderInv
  <2>3. ASSUME NEW j \in 1..Len(recv) PROVE recv[j] = P!Byte(j - 1)
    <3>1. recv[j] \in ReceivedByte BY <2>2
    <3>2. recv[j].off = j - 1 /\ recv[j].clear BY <1>1 DEF IInv, ReceivedInv
    <3> QED BY <3>1, <3>2 DEF ReceivedByte, P!Byte
  <2> QED BY <2>1, <2>2, <2>3
<1>2. CASE server # "serving"
  <2>1. Served = <<>> BY <1>2 DEF Served
  <2>2. sent \in Nat BY DEF IInv, Types
  <2> QED BY <2>1, <2>2
<1> QED BY <1>1, <1>2

\* A step that leaves the written bytes alone and passes k more on is a Read.
LEMMA DeliveryIsRead ==
    ASSUME IInv, IInv', sent' = sent, NEW k \in Nat \ {0}, Len(Served') = Len(Served) + k
    PROVE  P!Read
<1> DEFINE r == Served
           s == Served'
           t == [i \in 1..k |-> P!Byte(Len(r) + i - 1)]
<1>1. /\ r \in Seq(ReceivedByte) /\ \A j \in 1..Len(r) : r[j] = P!Byte(j - 1)
      /\ Len(r) <= sent
  BY ServedIsPlaintext DEF ServedInv
<1>2. /\ s \in Seq(ReceivedByte) /\ \A j \in 1..Len(s) : s[j] = P!Byte(j - 1)
      /\ Len(s) <= sent'
  <2>1. ServedInv' BY ServedIsPlaintext, PTL
  <2> QED BY <2>1 DEF ServedInv
<1> HIDE DEF r, s
<1>3. ASSUME NEW i \in 1..k PROVE t[i] \in ReceivedByte
  <2>1. Len(r) + i - 1 \in Nat BY <1>1
  <2> QED BY <2>1 DEF P!Byte, ReceivedByte
<1>4. t \in Seq(ReceivedByte) /\ Len(t) = k
  <2>1. t = [i \in 1..k |-> t[i]] OBVIOUS
  <2> HIDE DEF t
  <2> QED BY <1>3, <2>1, FunctionIsSeq
<1>5. Len(s) = Len(r) + k BY DEF r, s
<1>6. ASSUME NEW j \in 1..Len(r) PROVE s[j] = r[j]
  <2>1. j \in 1..Len(s) BY <1>1, <1>5
  <2> QED BY <1>1, <1>2, <2>1
<1>7. ASSUME NEW j \in 1..k PROVE s[Len(r) + j] = t[j]
  <2>1. Len(r) + j \in 1..Len(s) BY <1>1, <1>5
  <2>2. t[j] = P!Byte(Len(r) + j - 1) OBVIOUS
  <2> DEFINE n == Len(r) + j
  <2> HIDE DEF n, t
  <2>3. s[n] = P!Byte(n - 1) BY <1>2, <2>1 DEF n
  <2> QED BY <2>2, <2>3 DEF n
<1> HIDE DEF t
<1>8. s = r \o t BY <1>1, <1>2, <1>4, <1>5, <1>6, <1>7, ConcatByElements
<1>9. Served' = Served \o [i \in 1..k |-> P!Byte(Len(Served) + i - 1)]
  BY <1>8 DEF r, s, t
<1>10. Len(Served') - Len(Served) = k /\ Len(Served') <= sent
  BY <1>1, <1>2, <1>5 DEF r, s
<1> QED BY <1>9, <1>10 DEF P!Read

\* Every step of the two ends is a step of Pipe or leaves its variables alone.
LEMMA StepImplementsPipe == IInv /\ IInv' /\ [Next]_vars => [P!Next]_(P!pipeVars)
<1> SUFFICES ASSUME IInv, IInv', [Next]_vars PROVE P!Next \/ UNCHANGED P!pipeVars
  OBVIOUS
<1>0. sent \in Nat /\ taken \in Nat /\ requestLen \in Nat /\ requestLen > 2 /\ Len(recv) = taken
  BY DEF IInv, Types, ReaderInv
<1>1. ASSUME NEW len \in 1..BufLen, NEW a \in 1..len, PollWrite(len, a) PROVE P!Write
  <2>1. a \in Nat /\ a > 0 /\ sent' = sent + a /\ UNCHANGED <<server, recv>>
    BY <1>1, FireTcpAssumption DEF PollWrite, readerVars
  <2> QED BY <1>0, <2>1 DEF P!Write, Served
<1>2. ASSUME NEW k \in 1..BufLen, ReadRequest(k) PROVE UNCHANGED P!pipeVars
  BY <1>2 DEF ReadRequest, writerVars, Served, P!pipeVars
<1>3. CASE EstablishServer
  <2>1. UNCHANGED <<sent, recv>> /\ Served = <<>> /\ Len(recv) = requestLen
    BY <1>3 DEF EstablishServer, writerVars, Served
  <2>2. CASE server' = "serving"
    <3>1. Served' = recv BY <2>1, <2>2 DEF Served
    <3>2. Len(Served') = Len(Served) + requestLen /\ requestLen \in Nat \ {0}
      BY <1>0, <2>1, <3>1
    <3> QED BY <2>1, <3>2, DeliveryIsRead DEF P!Next
  <2>3. CASE server' # "serving"
    BY <2>1, <2>3 DEF Served, P!pipeVars
  <2> QED BY <2>2, <2>3
<1>4. ASSUME NEW len \in 1..BufLen, NEW k \in 1..len, ReadStream(len, k) PROVE P!Read
  <2>1. /\ server = "serving" /\ server' = server /\ sent' = sent
        /\ PollRead(len, k) /\ UNCHANGED <<setupVars, writerVars, server>>
    BY <1>4 DEF ReadStream, writerVars
  <2>2. len \in Nat \ {0} BY FireTcpAssumption
  <2>3. Len(recv') = Len(recv) + k /\ k \in Nat \ {0}
    BY <2>1, <2>2, PollReadInv
  <2>4. Len(Served') = Len(Served) + k BY <2>1, <2>3 DEF Served
  <2> QED BY <2>1, <2>3, <2>4, DeliveryIsRead
<1>5. CASE UNCHANGED vars BY <1>5 DEF vars, Served, P!pipeVars
<1> QED BY <1>1, <1>2, <1>3, <1>4, <1>5 DEF Next, P!Next

\* FireTCP implements the reliable stream: the code above it sees only writes that
\* are acknowledged and reads that hand out the next acknowledged bytes in clear,
\* although the reader learns the second cipher from bytes under the first.
THEOREM FireTcpImplementsPipe == Spec => FireTcpIsPipe
<1>1. Init => P!Init
  BY DEF Init, P!Init, Served
<1>2. IInv /\ IInv' /\ [Next]_vars => [P!Next]_(P!pipeVars)
  BY StepImplementsPipe
<1> QED BY <1>1, <1>2, Invariance, PTL DEF Spec, P!Spec, FireTcpIsPipe

=============================================================================
