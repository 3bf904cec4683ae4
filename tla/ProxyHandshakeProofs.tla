------------------------- MODULE ProxyHandshakeProofs -------------------------
(***************************************************************************)
(* A connection to a proxy, for any sessions, addresses, payloads, replies *)
(* and buffer lengths, and however its bytes are cut into reads.           *)
(*                                                                         *)
(* The argument: what a parser has made of some bytes, other than          *)
(* Incomplete, stays what it makes of them when there are more (Settled).  *)
(* So the phase of a handshake is what the bytes it has read mean at once  *)
(* (HsOK, HandshakeStepOK), and as no byte leaves the buffer but those of  *)
(* the request, what is behind the request is in the buffer or on its way, *)
(* and later with the target (CarryOK).  What a client of the upstream     *)
(* protocols has written means the target it was given (SentMeans).  It    *)
(* waits for an answer before it goes on, so what comes down to it is the  *)
(* one answer of the server's phase and the reply behind that (DownOK),    *)
(* which its own parsers take apart again (SocksAnswer, HttpAnswer).       *)
(***************************************************************************)
EXTENDS ProxyHandshake, SequenceTheorems, WellFoundedInduction, TLAPS

-----------------------------------------------------------------------------
(* Bytes.                                                                   *)

LEMMA BytesTyped ==
    ASSUME NEW b \in Bytes
    PROVE  /\ Len(b) \in Nat
           /\ \A i \in 1..Len(b) : b[i] \in Byte
           /\ b = <<>> <=> Len(b) = 0
           /\ \A i \in Nat \ {0}, j \in 0..Len(b) :
                SubSeq(b, i, j) \in Bytes /\ Len(SubSeq(b, i, j)) = IF i <= j THEN j - i + 1 ELSE 0
<1>0. b \in Seq(Byte)
  BY DEF Bytes
<1>1. Len(b) \in Nat /\ \A i \in 1..Len(b) : b[i] \in Byte
  BY <1>0, LenProperties, ElementOfSeq
<1>2. b = <<>> <=> Len(b) = 0
  BY <1>0, EmptySeq
<1>3. ASSUME NEW i \in Nat \ {0}, NEW j \in 0..Len(b)
      PROVE  SubSeq(b, i, j) \in Bytes /\ Len(SubSeq(b, i, j)) = IF i <= j THEN j - i + 1 ELSE 0
  <2>1. i \in Int /\ j \in Int /\ \A m \in i..j : b[m] \in Byte
    BY <1>1
  <2> QED BY <2>1, SubSeqProperties DEF Bytes
<1> QED BY <1>1, <1>2, <1>3

LEMMA CatBytes ==
    ASSUME NEW x \in Bytes, NEW y \in Bytes
    PROVE  x \o y \in Bytes /\ Len(x \o y) = Len(x) + Len(y)
BY DEF Bytes

LEMMA CatAssoc ==
    ASSUME NEW x \in Bytes, NEW y \in Bytes, NEW z \in Bytes
    PROVE  (x \o y) \o z = x \o (y \o z)
BY DEF Bytes

LEMMA CatLeft ==
    ASSUME NEW x \in Bytes, NEW y \in Bytes
    PROVE  SubSeq(x \o y, 1, Len(x)) = x /\ \A i \in 1..Len(x) : (x \o y)[i] = x[i]
BY DEF Bytes

LEMMA CatRight ==
    ASSUME NEW x \in Bytes, NEW y \in Bytes
    PROVE  /\ SubSeq(x \o y, Len(x) + 1, Len(x) + Len(y)) = y
           /\ From(x \o y, Len(x) + 1) = y
<1>1. SubSeq(x \o y, Len(x) + 1, Len(x) + Len(y)) = y
  BY DEF Bytes
<1>2. Len(x \o y) = Len(x) + Len(y)
  BY DEF Bytes
<1> QED BY <1>1, <1>2, Zenon DEF From

LEMMA CatIndex ==
    ASSUME NEW x \in Bytes, NEW y \in Bytes
    PROVE  \A i \in 1..Len(y) : (x \o y)[Len(x) + i] = y[i]
BY DEF Bytes

LEMMA CatEmpty ==
    ASSUME NEW x \in Bytes
    PROVE  x \o <<>> = x /\ <<>> \o x = x
BY DEF Bytes

LEMMA TwoBytes ==
    ASSUME NEW t \in Byte, NEW u \in Byte
    PROVE  /\ <<t, u>> \in Bytes /\ Len(<<t, u>>) = 2 /\ <<t, u>>[1] = t /\ <<t, u>>[2] = u
           /\ <<t>> \o <<u>> = <<t, u>>
<1>1. /\ <<t, u>> \in Seq(Byte) /\ Len(<<t, u>>) = 2
      /\ <<t, u>>[1] = t /\ <<t, u>>[2] = u
  OBVIOUS
<1>2. /\ <<t>> \o <<u>> \in Seq(Byte) /\ Len(<<t>> \o <<u>>) = 2
      /\ (<<t>> \o <<u>>)[1] = t /\ (<<t>> \o <<u>>)[2] = u
  OBVIOUS
<1>3. PICK p \in Seq(Byte), q \in Seq(Byte) : p = <<t>> \o <<u>> /\ q = <<t, u>>
  BY <1>1, <1>2
<1>4. Len(p) = Len(q) /\ \A i \in 1..Len(p) : p[i] = q[i]
  <2>1. Len(p) = 2 /\ Len(q) = 2 /\ p[1] = t /\ q[1] = t /\ p[2] = u /\ q[2] = u
    BY <1>1, <1>2, <1>3
  <2>2. \A i \in 1..2 : i = 1 \/ i = 2
    OBVIOUS
  <2> HIDE <1>3
  <2> QED BY <2>1, <2>2
<1>5. p = q
  BY <1>4, SeqEqual
<1> QED BY <1>1, <1>3, <1>5 DEF Bytes

LEMMA FewBytes ==
    /\ <<>> \in Bytes
    /\ \A t \in Byte : <<t>> \in Bytes /\ Len(<<t>>) = 1 /\ <<t>>[1] = t /\ <<t>> \o <<>> = <<t>>
    /\ \A t \in Byte, u \in Byte :
         /\ <<t, u>> \in Bytes /\ Len(<<t, u>>) = 2 /\ <<t, u>>[1] = t /\ <<t, u>>[2] = u
         /\ <<t>> \o <<u>> = <<t, u>>
    /\ \A t \in Byte, u \in Byte, v \in Byte :
         /\ <<t, u, v>> \in Bytes /\ Len(<<t, u, v>>) = 3
         /\ <<t, u, v>>[1] = t /\ <<t, u, v>>[2] = u /\ <<t, u, v>>[3] = v
<1>1. <<>> \in Bytes
  BY DEF Bytes
<1>2. ASSUME NEW t \in Byte
      PROVE  <<t>> \in Bytes /\ Len(<<t>>) = 1 /\ <<t>>[1] = t /\ <<t>> \o <<>> = <<t>>
  BY DEF Bytes
<1>3. ASSUME NEW t \in Byte, NEW u \in Byte
      PROVE  /\ <<t, u>> \in Bytes /\ Len(<<t, u>>) = 2 /\ <<t, u>>[1] = t /\ <<t, u>>[2] = u
             /\ <<t>> \o <<u>> = <<t, u>>
  BY TwoBytes, Zenon
<1>5. ASSUME NEW t \in Byte, NEW u \in Byte, NEW v \in Byte
      PROVE  /\ <<t, u, v>> \in Bytes /\ Len(<<t, u, v>>) = 3
             /\ <<t, u, v>>[1] = t /\ <<t, u, v>>[2] = u /\ <<t, u, v>>[3] = v
  BY DEF Bytes
<1> QED BY <1>1, <1>2, <1>3, <1>5, Zenon

LEMMA CatMiddle ==
    ASSUME NEW x \in Bytes, NEW y \in Bytes, NEW z \in Bytes
    PROVE  SubSeq((x \o y) \o z, Len(x) + 1, Len(x) + Len(y)) = y
BY DEF Bytes

\* A head, two fields and the rest, as a parser looks at them.
InFields(b, w, h, x, y, z) ==
    /\ w \in Bytes /\ b \in Bytes
    /\ Len(w) = Len(h) + Len(x) + Len(y)
    /\ Len(b) = Len(h) + Len(x) + Len(y) + Len(z)
    /\ \A i \in 1..Len(h) : b[i] = h[i]
    /\ SubSeq(b, Len(h) + 1, Len(h) + Len(x)) = x
    /\ SubSeq(b, Len(h) + Len(x) + 1, Len(h) + Len(x) + Len(y)) = y

LEMMA InPlace ==
    ASSUME NEW h \in Bytes, NEW x \in Bytes, NEW y \in Bytes, NEW z \in Bytes
    PROVE  InFields((h \o x \o y) \o z, h \o x \o y, h, x, y, z)
<1>1. PICK p : p = h \o x
  OBVIOUS
<1>2. p \in Bytes /\ Len(p) = Len(h) + Len(x)
  BY <1>1, CatBytes, Zenon
<1>3. PICK w : w = p \o y
  OBVIOUS
<1>4. w \in Bytes /\ Len(w) = Len(p) + Len(y)
  BY <1>2, <1>3, CatBytes, Zenon
<1>5. PICK b : b = w \o z
  OBVIOUS
<1>6. b \in Bytes /\ Len(b) = Len(w) + Len(z)
  BY <1>4, <1>5, CatBytes, Zenon
<1>7. \A i \in 1..Len(h) : b[i] = h[i]
  BY <1>1, <1>3, <1>5 DEF Bytes
<1>8. SubSeq(b, Len(h) + 1, Len(h) + Len(x)) = x
  BY <1>1, <1>3, <1>5 DEF Bytes
<1>9. SubSeq(b, Len(p) + 1, Len(p) + Len(y)) = y
  BY <1>2, <1>3, <1>5, CatMiddle, Zenon
<1> QED BY <1>1, <1>2, <1>3, <1>4, <1>5, <1>6, <1>7, <1>8, <1>9, Zenon DEF InFields

\* The front of a row of bytes stays what it is when others come behind.
LEMMA FrontStays ==
    ASSUME NEW b \in Bytes, NEW d \in Bytes
    PROVE  /\ b \o d \in Bytes /\ Len(b \o d) = Len(b) + Len(d) /\ Len(b) \in Nat /\ Len(d) \in Nat
           /\ \A i \in 1..Len(b) : (b \o d)[i] = b[i]
           /\ \A i \in Nat \ {0}, j \in 0..Len(b) : SubSeq(b \o d, i, j) = SubSeq(b, i, j)
           /\ \A i \in 1..Len(b) + 1 : From(b \o d, i) = From(b, i) \o d
<1>1. b \o d \in Bytes /\ Len(b \o d) = Len(b) + Len(d) /\ Len(b) \in Nat /\ Len(d) \in Nat
  BY DEF Bytes
<1>2. \A i \in 1..Len(b) : (b \o d)[i] = b[i]
  BY DEF Bytes
<1>3. \A i \in Nat \ {0}, j \in 0..Len(b) : SubSeq(b \o d, i, j) = SubSeq(b, i, j)
  BY DEF Bytes
<1>4. \A i \in 1..Len(b) + 1 : From(b \o d, i) = From(b, i) \o d
  BY DEF Bytes, From
<1> QED BY <1>1, <1>2, <1>3, <1>4

\* p is c from i to j.
PartIs(p, c, i, j) ==
    /\ p \in Bytes /\ Len(p) = IF i <= j THEN j - i + 1 ELSE 0
    /\ \A k \in 1..Len(p) : p[k] = c[i + k - 1]

LEMMA PartOf ==
    ASSUME NEW c \in Bytes, NEW i \in Nat \ {0}, NEW j \in Nat, j <= Len(c)
    PROVE  PartIs(SubSeq(c, i, j), c, i, j)
<1>1. j \in 0..Len(c)
  BY BytesTyped
<1>2. SubSeq(c, i, j) \in Bytes /\ Len(SubSeq(c, i, j)) = IF i <= j THEN j - i + 1 ELSE 0
  BY <1>1, BytesTyped, Zenon
<1>3. \A k \in 1..Len(SubSeq(c, i, j)) : SubSeq(c, i, j)[k] = c[i + k - 1]
  BY <1>1, <1>2 DEF Bytes
<1> QED BY <1>2, <1>3, Zenon DEF PartIs

LEMMA SameBytes ==
    ASSUME NEW x \in Bytes, NEW y \in Bytes, Len(x) = Len(y), \A k \in 1..Len(x) : x[k] = y[k]
    PROVE  x = y
BY SeqEqual DEF Bytes

\* z is y behind x.
CatIs(x, y, z) ==
    /\ x \in Bytes /\ y \in Bytes /\ z \in Bytes
    /\ Len(z) = Len(x) + Len(y) /\ Len(x) \in Nat /\ Len(y) \in Nat
    /\ \A i \in 1..Len(x) : z[i] = x[i]
    /\ \A i \in 1..Len(y) : z[Len(x) + i] = y[i]

LEMMA CatParts ==
    ASSUME NEW x \in Bytes, NEW y \in Bytes, NEW z, z = x \o y
    PROVE  CatIs(x, y, z)
<1>1. x \o y \in Bytes /\ Len(x \o y) = Len(x) + Len(y) /\ Len(x) \in Nat /\ Len(y) \in Nat
  BY CatBytes, BytesTyped, Zenon
<1>2. \A i \in 1..Len(x) : (x \o y)[i] = x[i]
  BY DEF Bytes
<1>3. \A i \in 1..Len(y) : (x \o y)[Len(x) + i] = y[i]
  BY DEF Bytes
<1> QED BY <1>1, <1>2, <1>3, Zenon DEF CatIs

Assoc(x, y, z) == (x \o y) \o z = x \o (y \o z)

LEMMA CatAssoc3 ==
    ASSUME NEW x \in Bytes, NEW y \in Bytes, NEW z \in Bytes
    PROVE  Assoc(x, y, z)
BY CatAssoc DEF Assoc

LEMMA ByteIsNat == \A x \in Byte : x \in Nat /\ x <= 255
BY DEF Byte

-----------------------------------------------------------------------------
(* Parsers.                                                                 *)

\* What a parser returns for n bytes.
Sound(r, n) == r = Incomplete \/ r = Invalid \/ \E u \in 1..n : \E v : r = Parsed(u, v)

\* r is a result, and no other one once there are more bytes.
Settled(r, n, more) == Sound(r, n) /\ (r # Incomplete => more = r)

LEMMA Results ==
    /\ Incomplete.st = "incomplete" /\ Invalid.st = "error" /\ Incomplete # Invalid
    /\ \A u, v : /\ Parsed(u, v).st = "ok" /\ Parsed(u, v).used = u /\ Parsed(u, v).value = v
                 /\ Parsed(u, v) # Incomplete /\ Parsed(u, v) # Invalid
<1>1. Incomplete.st = "incomplete" /\ Invalid.st = "error"
  BY DEF Incomplete, Invalid
<1>2. \A u, v : Parsed(u, v).st = "ok" /\ Parsed(u, v).used = u /\ Parsed(u, v).value = v
  BY DEF Parsed
<1>3. "incomplete" # "error" /\ "ok" # "error" /\ "ok" # "incomplete"
  OBVIOUS
<1>4. Incomplete # Invalid
  BY <1>1, <1>3, Zenon
<1>5. \A u, v : Parsed(u, v) # Incomplete /\ Parsed(u, v) # Invalid
  <2>1. ASSUME NEW u, NEW v PROVE Parsed(u, v) # Incomplete /\ Parsed(u, v) # Invalid
    <3>1. Parsed(u, v).st = "ok"
      BY DEF Parsed
    <3> QED BY <1>1, <1>3, <3>1, Zenon
  <2> QED BY <2>1, Zenon
<1> QED BY <1>1, <1>2, <1>4, <1>5, Zenon

LEMMA SoundStates ==
    ASSUME NEW r, NEW n, Sound(r, n)
    PROVE  /\ r.st \in {"incomplete", "error", "ok"}
           /\ r.st = "incomplete" <=> r = Incomplete
           /\ r.st = "error" <=> r = Invalid
           /\ r.st = "ok" => r.used \in 1..n /\ r = Parsed(r.used, r.value)
<1>1. CASE r = Incomplete
  BY <1>1, Results, Zenon
<1>2. CASE r = Invalid
  BY <1>2, Results, Zenon
<1>3. CASE \E u \in 1..n : \E v : r = Parsed(u, v)
  <2>0. PICK u \in 1..n : \E v : r = Parsed(u, v)
    BY <1>3, Zenon
  <2>1. PICK v : r = Parsed(u, v)
    BY <2>0, Zenon
  <2>2. r.st = "ok" /\ r.used = u /\ r.value = v /\ r # Incomplete /\ r # Invalid
    BY <2>1, Results, Zenon
  <2>3. "ok" # "error" /\ "ok" # "incomplete"
    OBVIOUS
  <2> QED BY <2>1, <2>2, <2>3, Zenon
<1> QED BY <1>1, <1>2, <1>3, Zenon DEF Sound

LEMMA GreetingSettles ==
    ASSUME NEW b \in Bytes, NEW d \in Bytes
    PROVE  Settled(ParseGreeting(b), Len(b), ParseGreeting(b \o d))
<1>1. PICK x : x = b \o d
  OBVIOUS
<1>2. x \in Bytes /\ Len(x) \in Nat /\ Len(b) \in Nat /\ Len(b) <= Len(x)
  <2>1. x \in Bytes /\ Len(x) = Len(b) + Len(d) /\ Len(b) \in Nat /\ Len(d) \in Nat
    BY <1>1, FrontStays, Zenon
  <2> QED BY <2>1
<1>3. CASE Len(b) < 2
  BY <1>3, Zenon DEF Settled, Sound, ParseGreeting
<1>4. CASE ~(Len(b) < 2)
  <2>1. b[1] = x[1] /\ b[2] = x[2] /\ b[2] \in Byte
    <3>1. 1 \in 1..Len(b) /\ 2 \in 1..Len(b)
      BY <1>2, <1>4
    <3>2. \A i \in 1..Len(b) : x[i] = b[i] /\ b[i] \in Byte
      BY <1>1, FrontStays, BytesTyped, Zenon
    <3> QED BY <3>1, <3>2, Zenon
  <2>2. PICK n \in Nat : n = b[2]
    BY <2>1, ByteIsNat
  <2>3. CASE b[1] # 5
    <3>1. ParseGreeting(b) = Invalid /\ ParseGreeting(x) = Invalid
      BY <1>2, <1>4, <2>1, <2>3 DEF ParseGreeting
    <3> QED BY <1>1, <3>1, Zenon DEF Settled, Sound
  <2>4. CASE b[1] = 5 /\ Len(b) < n + 2
    <3>1. ParseGreeting(b) = Incomplete
      BY <1>4, <2>2, <2>4, Zenon DEF ParseGreeting
    <3> QED BY <3>1, Zenon DEF Settled, Sound
  <2>5. CASE b[1] = 5 /\ ~(Len(b) < n + 2)
    <3>1. SubSeq(x, 3, n + 2) = SubSeq(b, 3, n + 2)
      BY <1>1, <1>2, <2>5, FrontStays
    <3>2. ~(Len(x) < n + 2) /\ ~(Len(x) < 2)
      BY <1>2, <1>4, <2>5
    <3>3. ParseGreeting(b) = Parsed(n + 2, SubSeq(b, 3, n + 2))
      BY <1>4, <2>2, <2>5, Zenon DEF ParseGreeting
    <3>4. ParseGreeting(x) = Parsed(n + 2, SubSeq(b, 3, n + 2))
      BY <2>1, <2>2, <2>5, <3>1, <3>2, Zenon DEF ParseGreeting
    <3>5. n + 2 \in 1..Len(b)
      BY <1>2, <2>5
    <3> QED BY <1>1, <3>3, <3>4, <3>5, Zenon DEF Settled, Sound
  <2> QED BY <2>3, <2>4, <2>5
<1> QED BY <1>3, <1>4

LEMMA Fields ==
    ASSUME NEW b \in Bytes, NEW d \in Bytes, NEW i \in Nat, NEW j \in Nat, 1 <= i, i <= j, j <= Len(b)
    PROVE  /\ SubSeq(b \o d, i, j) = SubSeq(b, i, j) /\ ~(Len(b \o d) < j) /\ ~(Len(b) < j)
           /\ j \in 1..Len(b) /\ (b \o d)[i] = b[i] /\ (b \o d)[j] = b[j]
<1>1. i \in Nat \ {0} /\ j \in 0..Len(b) /\ i \in 1..Len(b) /\ j \in 1..Len(b)
  BY BytesTyped
<1>2. Len(b \o d) = Len(b) + Len(d) /\ Len(b) \in Nat /\ Len(d) \in Nat
  BY FrontStays, Zenon
<1>3. ~(Len(b \o d) < j) /\ ~(Len(b) < j)
  BY <1>2
<1> QED BY <1>1, <1>3, FrontStays, Zenon

LEMMA IpSettles ==
    ASSUME NEW b \in Bytes, NEW d \in Bytes
    PROVE  /\ Settled(ParseIp(b, 4, V4), Len(b), ParseIp(b \o d, 4, V4))
           /\ Settled(ParseIp(b, 16, V6), Len(b), ParseIp(b \o d, 16, V6))
<1>0. Len(b) \in Nat /\ 1 + 4 + 2 = 7 /\ 4 + 1 = 5 /\ 4 + 2 = 6 /\ 4 + 3 = 7
      /\ 1 + 16 + 2 = 19 /\ 16 + 1 = 17 /\ 16 + 2 = 18 /\ 16 + 3 = 19
  BY BytesTyped
<1>1. Settled(ParseIp(b, 4, V4), Len(b), ParseIp(b \o d, 4, V4))
  <2>1. CASE Len(b) < 7
    <3>1. ParseIp(b, 4, V4) = Incomplete
      BY <1>0, <2>1, Zenon DEF ParseIp
    <3> QED BY <3>1, Zenon DEF Settled, Sound
  <2>2. CASE ~(Len(b) < 7)
    <3>1. 7 <= Len(b) /\ 5 <= Len(b)
      BY <1>0, <2>2
    <3>2. /\ SubSeq(b \o d, 2, 5) = SubSeq(b, 2, 5) /\ SubSeq(b \o d, 6, 7) = SubSeq(b, 6, 7)
          /\ ~(Len(b \o d) < 7) /\ 7 \in 1..Len(b)
      BY <3>1, Fields
    <3>3. ParseIp(b, 4, V4) = Parsed(7, V4(SubSeq(b, 2, 5), SubSeq(b, 6, 7)))
      BY <1>0, <2>2, Zenon DEF ParseIp
    <3>4. ParseIp(b \o d, 4, V4) = Parsed(7, V4(SubSeq(b, 2, 5), SubSeq(b, 6, 7)))
      BY <1>0, <3>2, Zenon DEF ParseIp
    <3> QED BY <3>2, <3>3, <3>4, Zenon DEF Settled, Sound
  <2> QED BY <2>1, <2>2
<1>2. Settled(ParseIp(b, 16, V6), Len(b), ParseIp(b \o d, 16, V6))
  <2>1. CASE Len(b) < 19
    <3>1. ParseIp(b, 16, V6) = Incomplete
      BY <1>0, <2>1, Zenon DEF ParseIp
    <3> QED BY <3>1, Zenon DEF Settled, Sound
  <2>2. CASE ~(Len(b) < 19)
    <3>1. 19 <= Len(b) /\ 17 <= Len(b)
      BY <1>0, <2>2
    <3>2. /\ SubSeq(b \o d, 2, 17) = SubSeq(b, 2, 17) /\ SubSeq(b \o d, 18, 19) = SubSeq(b, 18, 19)
          /\ ~(Len(b \o d) < 19) /\ 19 \in 1..Len(b)
      BY SMTT(60), <3>1, Fields
    <3>3. ParseIp(b, 16, V6) = Parsed(19, V6(SubSeq(b, 2, 17), SubSeq(b, 18, 19)))
      BY <1>0, <2>2, Zenon DEF ParseIp
    <3>4. ParseIp(b \o d, 16, V6) = Parsed(19, V6(SubSeq(b, 2, 17), SubSeq(b, 18, 19)))
      BY <1>0, <3>2, Zenon DEF ParseIp
    <3> QED BY <3>2, <3>3, <3>4, Zenon DEF Settled, Sound
  <2> QED BY <2>1, <2>2
<1> QED BY <1>1, <1>2

LEMMA NameSettles ==
    ASSUME NEW b \in Bytes, NEW d \in Bytes
    PROVE  Settled(ParseName(b, LossyName), Len(b), ParseName(b \o d, LossyName))
<1>1. Len(b) \in Nat
  BY BytesTyped
<1>2. CASE Len(b) < 2
  <2>1. ParseName(b, LossyName) = Incomplete
    BY <1>2, Zenon DEF ParseName
  <2> QED BY <2>1, Zenon DEF Settled, Sound
<1>3. CASE ~(Len(b) < 2)
  <2>1. 2 <= Len(b) /\ 2 \in 1..Len(b)
    BY <1>1, <1>3
  <2>2. PICK n \in Nat : n = b[2]
    BY <2>1, BytesTyped, ByteIsNat
  <2>3. (b \o d)[2] = n /\ ~(Len(b \o d) < 2)
    BY <2>1, <2>2, Fields
  <2>4. CASE Len(b) < n + 4
    <3>1. ParseName(b, LossyName) = Incomplete
      BY <2>2, <2>4, Zenon DEF ParseName
    <3> QED BY <3>1, Zenon DEF Settled, Sound
  <2>5. CASE ~(Len(b) < n + 4)
    <3>1. n + 4 <= Len(b) /\ n + 2 <= Len(b) /\ n + 3 \in Nat /\ n + 2 \in Nat /\ n + 4 \in Nat
          /\ 1 <= n + 3 /\ n + 3 <= n + 4
      BY <1>1, <2>5
    <3>2. SubSeq(b \o d, n + 3, n + 4) = SubSeq(b, n + 3, n + 4)
          /\ ~(Len(b \o d) < n + 4) /\ n + 4 \in 1..Len(b)
      BY <3>1, Fields
    <3>3. SubSeq(b \o d, 3, n + 2) = SubSeq(b, 3, n + 2)
      BY <3>1, FrontStays
    <3>4. ParseName(b, LossyName) = Parsed(n + 4, LossyName(SubSeq(b, 3, n + 2), SubSeq(b, n + 3, n + 4)))
      BY <1>3, <2>2, <2>5, Zenon DEF ParseName
    <3>5. ParseName(b \o d, LossyName) = Parsed(n + 4, LossyName(SubSeq(b, 3, n + 2), SubSeq(b, n + 3, n + 4)))
      BY <2>3, <3>2, <3>3, Zenon DEF ParseName
    <3> QED BY <3>2, <3>4, <3>5, Zenon DEF Settled, Sound
  <2> QED BY <2>4, <2>5
<1> QED BY <1>2, <1>3

LEMMA AddressSettles ==
    ASSUME NEW b \in Bytes, NEW d \in Bytes
    PROVE  Settled(ParseAddress(b), Len(b), ParseAddress(b \o d))
<1>1. CASE b = <<>>
  <2>1. ParseAddress(b) = Incomplete
    BY <1>1, Zenon DEF ParseAddress
  <2> QED BY <2>1, Zenon DEF Settled, Sound
<1>2. CASE b # <<>>
  <2>1. Len(b) \in Nat /\ 1 <= Len(b)
    BY <1>2, BytesTyped
  <2>2. b \o d # <<>> /\ (b \o d)[1] = b[1] /\ b \o d \in Bytes
    <3>1. Len(b \o d) = Len(b) + Len(d) /\ b \o d \in Bytes /\ Len(d) \in Nat
      BY FrontStays
    <3>2. Len(b \o d) # 0
      BY <2>1, <3>1
    <3> QED BY <2>1, <3>1, <3>2, FrontStays, BytesTyped
  <2>3. CASE b[1] = 1
    <3>1. ParseAddress(b) = ParseIp(b, 4, V4) /\ ParseAddress(b \o d) = ParseIp(b \o d, 4, V4)
      BY <1>2, <2>2, <2>3 DEF ParseAddress
    <3> QED BY <3>1, IpSettles, Zenon
  <2>4. CASE b[1] = 3
    <3>1. ParseAddress(b) = ParseName(b, LossyName) /\ ParseAddress(b \o d) = ParseName(b \o d, LossyName)
      BY <1>2, <2>2, <2>4 DEF ParseAddress
    <3> QED BY <3>1, NameSettles, Zenon
  <2>5. CASE b[1] = 4
    <3>1. ParseAddress(b) = ParseIp(b, 16, V6) /\ ParseAddress(b \o d) = ParseIp(b \o d, 16, V6)
      BY <1>2, <2>2, <2>5 DEF ParseAddress
    <3> QED BY <3>1, IpSettles, Zenon
  <2>6. CASE b[1] # 1 /\ b[1] # 3 /\ b[1] # 4
    <3>1. ParseAddress(b) = Invalid /\ ParseAddress(b \o d) = Invalid
      BY <1>2, <2>2, <2>6 DEF ParseAddress
    <3> QED BY <3>1, Zenon DEF Settled, Sound
  <2> QED BY <2>3, <2>4, <2>5, <2>6
<1> QED BY <1>1, <1>2

LEMMA RequestSettles ==
    ASSUME NEW b \in Bytes, NEW d \in Bytes
    PROVE  Settled(ParseConnRequest(b), Len(b), ParseConnRequest(b \o d))
<1>1. Len(b) \in Nat
  BY BytesTyped
<1>2. CASE Len(b) < 3
  <2>1. ParseConnRequest(b) = Incomplete
    BY <1>2, Zenon DEF ParseConnRequest
  <2> QED BY <2>1, Zenon DEF Settled, Sound
<1>3. CASE ~(Len(b) < 3)
  <2>1. 3 <= Len(b) /\ 2 <= Len(b)
    BY <1>1, <1>3
  <2>2. (b \o d)[1] = b[1] /\ (b \o d)[3] = b[3] /\ (b \o d)[2] = b[2] /\ ~(Len(b \o d) < 3)
    BY <2>1, Fields
  <2>3. CASE b[1] # 5 \/ b[3] # 0
    <3>1. ParseConnRequest(b) = Invalid /\ ParseConnRequest(b \o d) = Invalid
      BY <1>3, <2>2, <2>3, Zenon DEF ParseConnRequest
    <3> QED BY <3>1, Zenon DEF Settled, Sound
  <2>4. CASE ~(b[1] # 5 \/ b[3] # 0)
    <3>1. PICK q \in Bytes : q = From(b, 4) /\ Len(q) = Len(b) - 3 /\ From(b \o d, 4) = q \o d
      <4>1. From(b, 4) \in Bytes /\ Len(From(b, 4)) = Len(b) - 3
        <5>1. PICK m \in Nat : m = Len(b) /\ 3 <= m
          BY <1>1, <2>1
        <5>2. SubSeq(b, 4, m) \in Bytes /\ Len(SubSeq(b, 4, m)) = IF 4 <= m THEN m - 4 + 1 ELSE 0
          <6>1. 4 \in Nat \ {0} /\ m \in 0..Len(b)
            BY <5>1
          <6> QED BY <6>1, BytesTyped, Zenon
        <5>3. Len(SubSeq(b, 4, m)) = m - 3
          BY <5>1, <5>2
        <5> QED BY <5>1, <5>2, <5>3, Zenon DEF From
      <4>2. 4 \in 1..Len(b) + 1
        BY <1>1, <2>1
      <4> QED BY <4>1, <4>2, FrontStays
    <3>2. PICK r : r = ParseAddress(q)
      OBVIOUS
    <3>3. Settled(r, Len(q), ParseAddress(q \o d))
      BY <3>2, AddressSettles, Zenon
    <3>4. Sound(r, Len(q)) /\ (r # Incomplete => ParseAddress(q \o d) = r)
      BY <3>3, Zenon DEF Settled
    <3>5. ParseConnRequest(b) = IF r.st = "ok" THEN Parsed(r.used + 3, [cmd |-> b[2], addr |-> r.value]) ELSE r
      BY <1>3, <2>4, <3>1, <3>2, Zenon DEF ParseConnRequest
    <3>6. r # Incomplete => ParseConnRequest(b \o d)
            = IF r.st = "ok" THEN Parsed(r.used + 3, [cmd |-> b[2], addr |-> r.value]) ELSE r
      BY <2>2, <2>4, <3>1, <3>4, Zenon DEF ParseConnRequest
    <3>7. CASE r.st = "ok"
      <4>1. r # Incomplete /\ r.used \in 1..Len(q)
        BY <3>4, <3>7, SoundStates, Results, Zenon
      <4>2. r.used + 3 \in 1..Len(b)
        BY <1>1, <3>1, <4>1
      <4> QED BY <3>5, <3>6, <3>7, <4>1, <4>2, Zenon DEF Settled, Sound
    <3>8. CASE r.st # "ok"
      <4>1. r = Incomplete \/ r = Invalid
        BY <3>4, <3>8, SoundStates, Zenon
      <4> QED BY <3>5, <3>6, <3>8, <4>1, Zenon DEF Settled, Sound
    <3> QED BY <3>7, <3>8
  <2> QED BY <2>3, <2>4
<1> QED BY <1>2, <1>3

\* A set of natural numbers that is not empty has a least element, which Min finds.
LEMMA MinIsLeast ==
    ASSUME NEW T, T \subseteq Nat, T # {}
    PROVE  Min(T) \in T /\ \A y \in T : Min(T) <= y
<1> DEFINE R == OpToRel(<, Nat)
<1>1. IsWellFoundedOn(R, Nat)
  BY NatLessThanWellFounded
<1>2. \A x, y \in Nat : <<y, x>> \in R <=> y < x
  BY DEF OpToRel
<1> HIDE DEF R
<1>3. \E x \in T : \A y \in T : ~(<<y, x>> \in R)
  BY <1>1, WFMin
<1>4. \E x \in T : \A y \in T : x <= y
  <2>1. PICK x \in T : \A y \in T : ~(<<y, x>> \in R)
    BY <1>3
  <2>2. ASSUME NEW y \in T PROVE x <= y
    <3>1. x \in Nat /\ y \in Nat /\ ~(y < x)
      BY <1>2, <2>1
    <3> QED BY <3>1
  <2> QED BY <2>2
<1> QED BY <1>4, Zenon DEF Min

\* The least one stays the least when others come behind.
LEMMA LeastStays ==
    ASSUME NEW n \in Nat, NEW T, NEW U, T \subseteq 1..n, T # {}, U \subseteq Nat,
           \A j \in 1..n : j \in T <=> j \in U, 0 \notin U
    PROVE  Min(U) = Min(T) /\ Min(T) \in 1..n /\ U # {}
<1>1. T \subseteq Nat /\ U # {}
  OBVIOUS
<1>2. PICK s : s = Min(T)
  OBVIOUS
<1>3. PICK t : t = Min(U)
  OBVIOUS
<1>4. s \in T /\ \A y \in T : s <= y
  BY <1>1, <1>2, MinIsLeast, Zenon
<1>5. t \in U /\ \A y \in U : t <= y
  BY <1>1, <1>3, MinIsLeast, Zenon
<1>6. s \in 1..n /\ t <= s
  BY <1>4, <1>5
<1>7. t \in 1..n
  BY <1>5, <1>6
<1>8. t = s
  BY <1>4, <1>5, <1>6, <1>7
<1> QED BY <1>1, <1>2, <1>3, <1>6, <1>8, Zenon

\* Where an empty line begins.
Heads(b) == {i \in 1..Len(b) - 3 : SubSeq(b, i, i + 3) = EmptyLine}

LEMMA HeadEndIs ==
    ASSUME NEW b \in Bytes
    PROVE  HeadEnd(b) = IF Heads(b) # {} THEN Min(Heads(b)) ELSE 0
BY Zenon DEF HeadEnd, Heads

LEMMA HeadSettles ==
    ASSUME NEW b \in Bytes, NEW d \in Bytes
    PROVE  Settled(ParseHead(b), Len(b), ParseHead(b \o d))
<1>0. Len(b) \in Nat /\ b \o d \in Bytes /\ Len(b \o d) = Len(b) + Len(d) /\ Len(d) \in Nat
  BY FrontStays, Zenon
<1>1. CASE b = <<>>
  <2>1. ParseHead(b) = Incomplete
    BY <1>1, Zenon DEF ParseHead
  <2> QED BY <2>1, Zenon DEF Settled, Sound
<1>2. CASE b # <<>>
  <2>1. 1 <= Len(b) /\ 1 \in 1..Len(b)
    BY <1>0, <1>2, BytesTyped
  <2>2. (b \o d)[1] = b[1]
    BY <2>1, FrontStays, Zenon
  <2>3. b \o d # <<>>
    <3>1. Len(b \o d) # 0
      BY <1>0, <2>1
    <3> QED BY <1>0, <3>1, BytesTyped, Zenon
  <2>4. CASE b[1] < 32
    <3>1. ParseHead(b) = Invalid /\ ParseHead(b \o d) = Invalid
      BY <1>2, <2>2, <2>3, <2>4, Zenon DEF ParseHead
    <3> QED BY <3>1, Zenon DEF Settled, Sound
  <2>5. CASE ~(b[1] < 32) /\ Heads(b) = {}
    <3>1. HeadEnd(b) = 0
      BY <2>5, HeadEndIs, Zenon
    <3>2. ParseHead(b) = Incomplete
      BY <1>2, <2>5, <3>1, Zenon DEF ParseHead
    <3> QED BY <3>2, Zenon DEF Settled, Sound
  <2>6. CASE ~(b[1] < 32) /\ Heads(b) # {}
    <3>1. Len(b) - 3 \in Nat
      BY <1>0, <2>6 DEF Heads
    <3>2. Heads(b) \subseteq 1..Len(b) - 3
      BY DEF Heads
    <3>3. Heads(b \o d) \subseteq Nat /\ 0 \notin Heads(b \o d)
      BY <1>0 DEF Heads
    <3>4. ASSUME NEW j \in 1..Len(b) - 3 PROVE j \in Heads(b) <=> j \in Heads(b \o d)
      <4>1. j \in Nat \ {0} /\ j + 3 \in 0..Len(b) /\ j \in 1..Len(b \o d) - 3
        BY <1>0, <3>1
      <4>2. SubSeq(b \o d, j, j + 3) = SubSeq(b, j, j + 3)
        BY <4>1, FrontStays, Zenon
      <4> QED BY <4>1, <4>2 DEF Heads
    <3>5. /\ Min(Heads(b \o d)) = Min(Heads(b)) /\ Min(Heads(b)) \in 1..Len(b) - 3
          /\ Heads(b \o d) # {}
      BY <2>6, <3>1, <3>2, <3>3, <3>4, LeastStays
    <3>6. PICK e \in 1..Len(b) - 3 : e = HeadEnd(b) /\ e = HeadEnd(b \o d)
      BY <1>0, <2>6, <3>5, HeadEndIs, Zenon
    <3>7. e # 0 /\ e + 3 \in 1..Len(b) /\ 1 \in Nat \ {0} /\ e + 3 \in 0..Len(b)
      BY <1>0
    <3>8. SubSeq(b \o d, 1, e + 3) = SubSeq(b, 1, e + 3)
      BY <3>7, FrontStays, ZenonT(60)
    <3>9. ParseHead(b) = Parsed(e + 3, SubSeq(b, 1, e + 3))
      BY <1>2, <2>6, <3>6, <3>7, Zenon DEF ParseHead
    <3>10. ParseHead(b \o d) = Parsed(e + 3, SubSeq(b, 1, e + 3))
      BY <2>2, <2>3, <2>6, <3>6, <3>7, <3>8, Zenon DEF ParseHead
    <3> QED BY <3>7, <3>9, <3>10, Zenon DEF Settled, Sound
  <2> QED BY <2>4, <2>5, <2>6
<1> QED BY <1>1, <1>2

Zeros(b, i) == {j \in i..Len(b) : b[j] = 0}

LEMMA ZeroFromIs ==
    ASSUME NEW b, NEW i
    PROVE  ZeroFrom(b, i) = IF Zeros(b, i) # {} THEN Min(Zeros(b, i)) ELSE 0
BY Zenon DEF ZeroFrom, SelectInSubSeq, Zeros

LEMMA ZeroStays ==
    ASSUME NEW b \in Bytes, NEW d \in Bytes, NEW i \in Nat \ {0}, ZeroFrom(b, i) # 0
    PROVE  ZeroFrom(b \o d, i) = ZeroFrom(b, i) /\ ZeroFrom(b, i) \in i..Len(b)
<1>0. Len(b) \in Nat /\ b \o d \in Bytes /\ Len(b \o d) = Len(b) + Len(d) /\ Len(d) \in Nat
  BY FrontStays, Zenon
<1>1. Zeros(b, i) # {}
  BY ZeroFromIs, Zenon
<1>2. Zeros(b, i) \subseteq 1..Len(b) /\ Zeros(b \o d, i) \subseteq Nat /\ 0 \notin Zeros(b \o d, i)
  BY <1>0 DEF Zeros
<1>3. ASSUME NEW j \in 1..Len(b) PROVE j \in Zeros(b, i) <=> j \in Zeros(b \o d, i)
  <2>1. (b \o d)[j] = b[j]
    BY FrontStays, Zenon
  <2>2. j \in i..Len(b) <=> j \in i..Len(b \o d)
    BY <1>0
  <2> QED BY <2>1, <2>2, Zenon DEF Zeros
<1>4. Min(Zeros(b \o d, i)) = Min(Zeros(b, i)) /\ Zeros(b \o d, i) # {}
  BY <1>0, <1>1, <1>2, <1>3, LeastStays
<1>5. Min(Zeros(b, i)) \in Zeros(b, i)
  <2>1. Zeros(b, i) \subseteq Nat
    BY <1>2
  <2> QED BY <1>1, <2>1, MinIsLeast, Zenon
<1>6. Min(Zeros(b, i)) \in i..Len(b)
  BY <1>5 DEF Zeros
<1> QED BY <1>1, <1>4, <1>6, ZeroFromIs, Zenon

LEMMA Socks4Settles ==
    ASSUME NEW b \in Bytes, NEW d \in Bytes
    PROVE  Settled(ParseSocks4(b), Len(b), ParseSocks4(b \o d))
<1>0. Len(b) \in Nat /\ b \o d \in Bytes /\ Len(b \o d) = Len(b) + Len(d) /\ Len(d) \in Nat
  BY FrontStays, Zenon
<1>1. CASE Len(b) < 9
  <2>1. ParseSocks4(b) = Incomplete
    BY <1>1, Zenon DEF ParseSocks4
  <2> QED BY <2>1, Zenon DEF Settled, Sound
<1>2. CASE ~(Len(b) < 9)
  <2>1. 9 <= Len(b) /\ 4 <= Len(b) /\ 8 <= Len(b) /\ 2 <= Len(b)
    BY <1>0, <1>2
  <2>2. /\ SubSeq(b \o d, 3, 4) = SubSeq(b, 3, 4) /\ SubSeq(b \o d, 5, 8) = SubSeq(b, 5, 8)
        /\ ~(Len(b \o d) < 9) /\ (b \o d)[1] = b[1] /\ (b \o d)[2] = b[2]
    BY <2>1, Fields
  <2>3. CASE b[1] # 4
    <3>1. ParseSocks4(b) = Invalid /\ ParseSocks4(b \o d) = Invalid
      BY <1>2, <2>2, <2>3, Zenon DEF ParseSocks4
    <3> QED BY <3>1, Zenon DEF Settled, Sound
  <2>4. CASE b[1] = 4
    <3>1. PICK user : user = ZeroFrom(b, 9)
      OBVIOUS
    <3>2. CASE user = 0
      <4>1. ParseSocks4(b) = Incomplete
        BY <1>2, <2>4, <3>1, <3>2, Zenon DEF ParseSocks4
      <4> QED BY <4>1, Zenon DEF Settled, Sound
    <3>3. CASE user # 0
      <4>1. ZeroFrom(b \o d, 9) = user /\ user \in 9..Len(b)
        <5>1. 9 \in Nat \ {0}
          OBVIOUS
        <5> QED BY <3>1, <3>3, <5>1, ZeroStays, Zenon
      <4>2. user \in 1..Len(b) /\ user + 1 \in Nat \ {0}
        BY <1>0, <4>1
      <4>3. CASE ~HasName(SubSeq(b, 5, 8))
        <5>1. /\ ParseSocks4(b) = Parsed(user, [cmd |-> b[2], addr |-> V4(SubSeq(b, 5, 8), SubSeq(b, 3, 4))])
              /\ ParseSocks4(b \o d) = Parsed(user, [cmd |-> b[2], addr |-> V4(SubSeq(b, 5, 8), SubSeq(b, 3, 4))])
          BY <1>2, <2>2, <2>4, <3>1, <3>3, <4>1, <4>3, Zenon DEF ParseSocks4
        <5> QED BY <4>2, <5>1, Zenon DEF Settled, Sound
      <4>4. CASE HasName(SubSeq(b, 5, 8))
        <5>1. PICK host : host = ZeroFrom(b, user + 1)
          OBVIOUS
        <5>2. CASE host = 0
          <6>1. ParseSocks4(b) = Incomplete
            BY <1>2, <2>4, <3>1, <3>3, <4>4, <5>1, <5>2, Zenon DEF ParseSocks4
          <6> QED BY <6>1, Zenon DEF Settled, Sound
        <5>3. CASE host # 0
          <6>1. ZeroFrom(b \o d, user + 1) = host /\ host \in user + 1..Len(b)
            BY <4>2, <5>1, <5>3, ZeroStays, Zenon
          <6>2. host \in 1..Len(b) /\ host - 1 \in 0..Len(b)
            BY <1>0, <4>2, <6>1
          <6>3. SubSeq(b \o d, user + 1, host - 1) = SubSeq(b, user + 1, host - 1)
            BY <4>2, <6>2, FrontStays, Zenon
          <6>4. PICK res : res = Parsed(host, [cmd |-> b[2],
                                addr |-> Name(Lossy(SubSeq(b, user + 1, host - 1)), SubSeq(b, 3, 4))])
            OBVIOUS
          <6>5. ParseSocks4(b) = res
            BY <1>2, <2>4, <3>1, <3>3, <4>4, <5>1, <5>3, <6>4, Zenon DEF ParseSocks4
          <6>6. ParseSocks4(b \o d) = res
            BY <2>2, <2>4, <3>3, <4>1, <4>4, <5>3, <6>1, <6>3, <6>4, Zenon DEF ParseSocks4
          <6> QED BY <6>2, <6>4, <6>5, <6>6, Zenon DEF Settled, Sound
        <5> QED BY <5>2, <5>3
      <4> QED BY <4>3, <4>4
    <3> QED BY <3>2, <3>3
  <2> QED BY <2>3, <2>4
<1> QED BY <1>1, <1>2

-----------------------------------------------------------------------------
(* The buffer.                                                              *)

BufTyped(b) == b \in [cells : Bytes, read : Nat, write : Nat]

\* A buffer in order whose window has the bytes x.
Holds(b, x) == BufTyped(b) /\ BufferOK(b) /\ ReadBuf(b) = x /\ x \in Bytes

LEMMA NewHolds ==
    ASSUME NEW n \in Nat
    PROVE  Holds(NewBuffer(n), <<>>)
<1>1. PICK z : z = [i \in 1..n |-> 0]
  OBVIOUS
<1>2. z \in Bytes /\ Len(z) = n
  <2>1. 0 \in Byte
    BY DEF Byte
  <2> QED BY <1>1, <2>1 DEF Bytes
<1>3. NewBuffer(n) = [cells |-> z, read |-> 0, write |-> 0]
  BY <1>1, Zenon DEF NewBuffer
<1>4. BufTyped(NewBuffer(n)) /\ BufferOK(NewBuffer(n))
  BY <1>2, <1>3 DEF BufTyped, BufferOK
<1>5. ReadBuf(NewBuffer(n)) = SubSeq(z, 1, 0)
  BY <1>3 DEF ReadBuf
<1>6. SubSeq(z, 1, 0) = <<>>
  BY <1>2 DEF Bytes
<1>7. <<>> \in Bytes
  BY FewBytes, Zenon
<1> QED BY <1>4, <1>5, <1>6, <1>7, Zenon DEF Holds

LEMMA ForWritingHolds ==
    ASSUME NEW b, NEW x, Holds(b, x)
    PROVE  /\ Holds(ForWriting(b), x) /\ ForWriting(b).write = b.write /\ ForWriting(b).read = b.read
<1>0. BufTyped(b) /\ BufferOK(b) /\ ReadBuf(b) = x /\ x \in Bytes
  BY Zenon DEF Holds
<1>1. CASE b.write # Len(b.cells)
  BY <1>1, Zenon DEF ForWriting
<1>2. CASE b.write = Len(b.cells)
  <2>1. PICK c \in Bytes, r \in Nat, len \in Nat : c = b.cells /\ r = b.read /\ len = Len(c)
                                    /\ b = [cells |-> c, read |-> r, write |-> len]
    BY <1>0, <1>2, BytesTyped DEF BufTyped
  <2>2. PICK n \in Nat : n = (len * 15) \div 10 /\ len <= n
    OBVIOUS
  <2>2a. len <= n /\ len = Len(c)
    BY <2>1, <2>2
  <2>3. PICK e : e = [i \in 1..n |-> IF i <= len THEN c[i] ELSE 0]
    OBVIOUS
  <2>4. ForWriting(b) = [cells |-> e, read |-> r, write |-> len]
    <3>1. ForWriting(b) = Grown(b)
      BY <1>2, Zenon DEF ForWriting
    <3>2. Grown(b) = [b EXCEPT !.cells = e]
      BY <2>1, <2>2, <2>3, Zenon DEF Grown
    <3>3. [b EXCEPT !.cells = e] = [cells |-> e, read |-> r, write |-> len]
      BY <2>1
    <3> QED BY <3>1, <3>2, <3>3, Zenon
  <2>5. e \in Bytes /\ Len(e) = n
    <3>1. \A i \in 1..n : (IF i <= len THEN c[i] ELSE 0) \in Byte
      <4>1. \A i \in 1..len : c[i] \in Byte
        BY <2>1, BytesTyped, Zenon
      <4>2. 0 \in Byte
        BY DEF Byte
      <4> QED BY <4>1, <4>2
    <3> QED BY <2>3, <3>1 DEF Bytes
  <2>6. BufTyped(ForWriting(b)) /\ BufferOK(ForWriting(b))
    <3>1. r <= len /\ (r = len => r = 0)
      BY <1>0, <2>1 DEF BufferOK
    <3> QED BY <2>2, <2>4, <2>5, <3>1 DEF BufTyped, BufferOK
  <2>7. SubSeq(e, r + 1, len) = SubSeq(c, r + 1, len)
    <3>1. \A i \in 1..len : e[i] = c[i]
      BY <2>2, <2>3
    <3> HIDE <2>3
    <3>2. r + 1 \in Nat \ {0} /\ len <= Len(c) /\ len <= Len(e)
      BY <2>2a, <2>5
    <3>3. PICK p : p = SubSeq(e, r + 1, len)
      OBVIOUS
    <3>4. PICK q : q = SubSeq(c, r + 1, len)
      OBVIOUS
    <3>5. p \in Bytes /\ Len(p) = (IF r + 1 <= len THEN len - (r + 1) + 1 ELSE 0)
          /\ \A k \in 1..Len(p) : p[k] = e[r + 1 + k - 1]
      <4>1. PartIs(p, e, r + 1, len)
        BY <2>1, <2>5, <3>2, <3>3, PartOf, Zenon
      <4> QED BY <4>1, Zenon DEF PartIs
    <3>6. q \in Bytes /\ Len(q) = (IF r + 1 <= len THEN len - (r + 1) + 1 ELSE 0)
          /\ \A k \in 1..Len(q) : q[k] = c[r + 1 + k - 1]
      <4>1. PartIs(q, c, r + 1, len)
        BY <2>1, <3>2, <3>4, PartOf, Zenon
      <4> QED BY <4>1, Zenon DEF PartIs
    <3>7. \A k \in 1..Len(p) : p[k] = q[k]
      BY <3>1, <3>5, <3>6
    <3>8. p = q
      BY <3>5, <3>6, <3>7, SameBytes, Zenon
    <3> QED BY <3>3, <3>4, <3>8, Zenon
  <2>8. ReadBuf(ForWriting(b)) = ReadBuf(b)
    <3>1. ReadBuf(ForWriting(b)) = SubSeq(e, r + 1, len)
      BY <2>4 DEF ReadBuf
    <3>2. ReadBuf(b) = SubSeq(c, r + 1, len)
      <4>1. b.cells = c /\ b.read = r /\ b.write = len
        BY <2>1
      <4> QED BY <4>1, Zenon DEF ReadBuf
    <3> QED BY <2>7, <3>1, <3>2, Zenon
  <2> QED BY <1>0, <2>1, <2>4, <2>6, <2>8 DEF Holds
<1> QED BY <1>1, <1>2

\* A read puts its bytes behind those in the window.
LEMMA FilledHolds ==
    ASSUME NEW b, NEW x, Holds(b, x), NEW d \in Bytes, d # <<>>, Len(d) <= Room(b)
    PROVE  Holds(Filled(b, d), x \o d)
<1>1. PICK w : w = ForWriting(b)
  OBVIOUS
<1>2. Holds(w, x)
  BY <1>1, ForWritingHolds, Zenon
<1>3. BufTyped(w) /\ BufferOK(w) /\ ReadBuf(w) = x /\ x \in Bytes
  BY <1>2, Zenon DEF Holds
<1>4. PICK c \in Bytes, r \in Nat, wr \in Nat, len \in Nat, k \in Nat :
         /\ w = [cells |-> c, read |-> r, write |-> wr]
         /\ len = Len(c) /\ r <= wr /\ wr <= len /\ k = Len(d) /\ k > 0
  <2>1. Len(d) \in Nat /\ Len(d) > 0
    BY BytesTyped
  <2>2. /\ w.cells \in Bytes /\ w.read \in Nat /\ w.write \in Nat
        /\ w = [cells |-> w.cells, read |-> w.read, write |-> w.write]
    BY <1>3 DEF BufTyped
  <2>3. Len(w.cells) \in Nat
    BY <2>2, BytesTyped, Zenon
  <2>4. w.read <= w.write /\ w.write <= Len(w.cells)
    BY <1>3, Zenon DEF BufferOK
  <2> QED BY <2>1, <2>2, <2>3, <2>4, Zenon
<1>5. wr + k <= len
  <2>1. Room(b) = Len(w.cells) - w.write
    BY <1>1, Zenon DEF Room
  <2> QED BY <1>4, <2>1
<1>6. PICK e : e = [i \in DOMAIN c |-> IF i \in wr + 1..wr + k THEN d[i - wr] ELSE c[i]]
  OBVIOUS
<1>7. Filled(b, d) = [cells |-> e, read |-> r, write |-> wr + k]
  <2>1. Filled(b, d) = [w EXCEPT !.cells = e, !.write = wr + k]
    BY <1>1, <1>4, <1>6 DEF Filled
  <2> QED BY <1>4, <2>1
<1>8. DOMAIN c = 1..len
  BY <1>4 DEF Bytes
<1>9. e \in Bytes /\ Len(e) = len
  <2>1. \A i \in 1..len : (IF i \in wr + 1..wr + k THEN d[i - wr] ELSE c[i]) \in Byte
    <3>1. \A i \in 1..k : d[i] \in Byte
      BY <1>4, BytesTyped, Zenon
    <3>2. \A i \in 1..len : c[i] \in Byte
      BY <1>4, BytesTyped, Zenon
    <3>3. \A i \in wr + 1..wr + k : i - wr \in 1..k
      OBVIOUS
    <3> QED BY <3>1, <3>2, <3>3, Zenon
  <2> QED BY <1>6, <1>8, <2>1 DEF Bytes
<1>10. BufTyped(Filled(b, d)) /\ BufferOK(Filled(b, d))
  BY <1>4, <1>5, <1>7, <1>9 DEF BufTyped, BufferOK
<1>11. ReadBuf(Filled(b, d)) = SubSeq(e, r + 1, wr + k) /\ x = SubSeq(c, r + 1, wr)
  BY <1>3, <1>4, <1>7 DEF ReadBuf
<1>12. SubSeq(e, r + 1, wr + k) = SubSeq(c, r + 1, wr) \o d
  <2>1. /\ \A i \in 1..wr : e[i] = c[i]
        /\ \A i \in 1..k : e[wr + i] = d[i]
    <3>1. \A i \in 1..wr : i \in DOMAIN c /\ i \notin wr + 1..wr + k
      BY <1>4, <1>8
    <3>2. \A i \in 1..k : wr + i \in DOMAIN c /\ wr + i \in wr + 1..wr + k /\ wr + i - wr = i
      BY <1>4, <1>5, <1>8
    <3>3. ASSUME NEW i \in 1..wr PROVE e[i] = c[i]
      BY <1>6, <3>1, Zenon
    <3>4. ASSUME NEW i \in 1..k PROVE e[wr + i] = d[i]
      <4>1. PICK j : j = wr + i
        OBVIOUS
      <4>2. j \in DOMAIN c /\ j \in wr + 1..wr + k /\ j - wr = i
        BY <3>2, <4>1
      <4>3. e[j] = d[j - wr]
        BY <1>6, <4>2, Zenon
      <4> QED BY <4>1, <4>2, <4>3, Zenon
    <3> QED BY <3>3, <3>4
  <2> HIDE <1>6
  <2>2. r + 1 \in Nat \ {0} /\ wr + k \in Nat /\ wr + k <= Len(e) /\ wr <= Len(c)
    BY <1>4, <1>5, <1>9
  <2>3. PICK p : p = SubSeq(e, r + 1, wr + k)
    OBVIOUS
  <2>4. PICK q : q = SubSeq(c, r + 1, wr)
    OBVIOUS
  <2>5. p \in Bytes /\ Len(p) = (IF r + 1 <= wr + k THEN (wr + k) - (r + 1) + 1 ELSE 0)
        /\ \A i \in 1..Len(p) : p[i] = e[r + 1 + i - 1]
    <3>1. PartIs(p, e, r + 1, wr + k)
      BY <1>9, <2>2, <2>3, PartOf, Zenon
    <3> QED BY <3>1, Zenon DEF PartIs
  <2>6. q \in Bytes /\ Len(q) = (IF r + 1 <= wr THEN wr - (r + 1) + 1 ELSE 0)
        /\ \A i \in 1..Len(q) : q[i] = c[r + 1 + i - 1]
    <3>1. PartIs(q, c, r + 1, wr)
      BY <1>4, <2>2, <2>4, PartOf, Zenon
    <3> QED BY <3>1, Zenon DEF PartIs
  <2>7. Len(p) = Len(q) + k /\ Len(q) = wr - r
    BY <1>4, <2>5, <2>6
  <2>8. PICK t : t = q \o d
    OBVIOUS
  <2>9. t \in Bytes /\ Len(t) = Len(q) + k /\ (\A i \in 1..Len(q) : t[i] = q[i])
        /\ \A i \in 1..k : t[Len(q) + i] = d[i]
    BY <1>4, <2>6, <2>8, CatBytes, CatLeft, CatIndex, Zenon
  <2>10. ASSUME NEW i \in 1..Len(p) PROVE p[i] = t[i]
    <3>1. CASE i <= Len(q)
      BY <1>4, <2>1, <2>5, <2>6, <2>7, <2>9, <3>1
    <3>2. CASE ~(i <= Len(q))
      <4>1. PICK j \in 1..k : i = Len(q) + j
        BY <1>4, <2>7, <3>2
      <4>2. t[i] = d[j]
        BY <2>9, <4>1
      <4>3. p[i] = e[wr + j]
        BY <1>4, <2>5, <2>7, <4>1
      <4> QED BY <2>1, <4>2, <4>3
    <3> QED BY <3>1, <3>2
  <2>11. p = t
    BY <2>5, <2>7, <2>9, <2>10, SameBytes, Zenon
  <2> QED BY <2>3, <2>4, <2>8, <2>11, Zenon
<1>13. x \o d \in Bytes
  BY <1>3, CatBytes, Zenon
<1> QED BY <1>10, <1>11, <1>12, <1>13, Zenon DEF Holds

\* What is taken from the front of the window.
LEMMA AdvancedHolds ==
    ASSUME NEW b, NEW x, Holds(b, x), NEW n \in 1..Len(x)
    PROVE  Holds(AdvanceRead(b, n), From(x, n + 1))
<1>1. BufTyped(b) /\ BufferOK(b) /\ ReadBuf(b) = x /\ x \in Bytes
  BY Zenon DEF Holds
<1>2. PICK c \in Bytes, r \in Nat, wr \in Nat :
         /\ b = [cells |-> c, read |-> r, write |-> wr] /\ r <= wr /\ wr <= Len(c)
  BY <1>1 DEF BufTyped, BufferOK
<1>3. x = SubSeq(c, r + 1, wr)
  BY <1>1, <1>2 DEF ReadBuf
<1>4. Len(x) = wr - r /\ Len(c) \in Nat /\ n \in Nat
  BY <1>2, <1>3 DEF Bytes
<1>5. From(x, n + 1) = SubSeq(c, r + n + 1, wr)
  <2>1. From(x, n + 1) = SubSeq(x, n + 1, wr - r)
    BY <1>4, Zenon DEF From
  <2>2. n + 1 \in Nat \ {0} /\ wr - r \in Nat /\ wr - r <= Len(x)
        /\ r + 1 \in Nat \ {0} /\ r + n + 1 \in Nat \ {0}
    BY <1>2, <1>4
  <2>3. PICK p : p = SubSeq(x, n + 1, wr - r)
    OBVIOUS
  <2>4. PICK q : q = SubSeq(c, r + n + 1, wr)
    OBVIOUS
  <2>5. p \in Bytes /\ Len(p) = (IF n + 1 <= wr - r THEN wr - r - (n + 1) + 1 ELSE 0)
        /\ \A k \in 1..Len(p) : p[k] = x[n + 1 + k - 1]
    <3>1. PartIs(p, x, n + 1, wr - r)
      BY <1>1, <2>2, <2>3, PartOf, Zenon
    <3> QED BY <3>1, Zenon DEF PartIs
  <2>6. q \in Bytes /\ Len(q) = (IF r + n + 1 <= wr THEN wr - (r + n + 1) + 1 ELSE 0)
        /\ \A k \in 1..Len(q) : q[k] = c[r + n + 1 + k - 1]
    <3>1. PartIs(q, c, r + n + 1, wr)
      BY <1>2, <2>2, <2>4, PartOf, Zenon
    <3> QED BY <3>1, Zenon DEF PartIs
  <2>7. \A k \in 1..Len(x) : x[k] = c[r + 1 + k - 1]
    <3>1. PartIs(x, c, r + 1, wr)
      BY <1>2, <1>3, <2>2, PartOf, Zenon
    <3> QED BY <3>1, Zenon DEF PartIs
  <2>8. Len(p) = Len(q) /\ \A k \in 1..Len(p) : p[k] = q[k]
    <3>1. Len(p) = wr - r - n /\ Len(q) = wr - r - n
      BY <1>4, <2>5, <2>6
    <3>2. ASSUME NEW k \in 1..Len(p) PROVE p[k] = q[k]
      <4>1. n + 1 + k - 1 = n + k /\ n + k \in 1..Len(x) /\ r + 1 + (n + k) - 1 = r + n + 1 + k - 1
            /\ k \in 1..Len(q)
        BY <1>4, <3>1
      <4>2. p[k] = x[n + k] /\ x[n + k] = c[r + n + 1 + k - 1] /\ q[k] = c[r + n + 1 + k - 1]
        BY <2>5, <2>6, <2>7, <4>1, Zenon
      <4> QED BY <4>2, Zenon
    <3> QED BY <3>1, <3>2
  <2>9. p = q
    BY <2>5, <2>6, <2>8, SameBytes, Zenon
  <2> QED BY <2>1, <2>3, <2>4, <2>9, Zenon
<1>6. From(x, n + 1) \in Bytes
  <2>1. r + n + 1 \in Nat \ {0}
    BY <1>4
  <2>2. PartIs(From(x, n + 1), c, r + n + 1, wr)
    BY <1>2, <1>5, <2>1, PartOf, Zenon
  <2> QED BY <2>2, Zenon DEF PartIs
<1>7. CASE r + n = wr
  <2>1. AdvanceRead(b, n) = [cells |-> c, read |-> 0, write |-> 0]
    BY <1>2, <1>7 DEF AdvanceRead
  <2>2. BufTyped(AdvanceRead(b, n)) /\ BufferOK(AdvanceRead(b, n))
    BY <1>4, <2>1 DEF BufTyped, BufferOK
  <2>3. ReadBuf(AdvanceRead(b, n)) = <<>>
    BY <1>2, <2>1 DEF ReadBuf, Bytes
  <2>4. SubSeq(c, r + n + 1, wr) = <<>>
    BY <1>2, <1>7 DEF Bytes
  <2> QED BY <1>5, <1>6, <2>2, <2>3, <2>4, Zenon DEF Holds
<1>8. CASE r + n # wr
  <2>1. AdvanceRead(b, n) = [cells |-> c, read |-> r + n, write |-> wr]
    BY <1>2, <1>8 DEF AdvanceRead
  <2>2. BufTyped(AdvanceRead(b, n)) /\ BufferOK(AdvanceRead(b, n))
    BY <1>2, <1>4, <1>8, <2>1 DEF BufTyped, BufferOK
  <2>3. ReadBuf(AdvanceRead(b, n)) = SubSeq(c, r + n + 1, wr)
    BY <2>1 DEF ReadBuf
  <2> QED BY <1>5, <1>6, <2>2, <2>3, Zenon DEF Holds
<1> QED BY <1>7, <1>8

-----------------------------------------------------------------------------
(* What is written is read back.                                            *)

\* parse undoes write_to, whatever follows.
LEMMA AddressRead ==
    ASSUME NEW a, IsTarget(a), Writable(a), NEW rest \in Bytes
    PROVE  /\ WriteTo(a) \in Bytes
           /\ Len(WriteTo(a)) \in Nat
           /\ ParseAddress(WriteTo(a) \o rest) = Parsed(Len(WriteTo(a)), Understood(a))
<1>1. CASE a.kind = "v4" \/ a.kind = "v6"
  <2>1. PICK t \in {1, 4} : t = TypeByte(a) /\ (t = 1 <=> a.kind = "v4") /\ (t = 4 <=> a.kind = "v6")
    BY <1>1 DEF TypeByte
  <2>2. IsSocketAddr(a) /\ a.host \in Bytes /\ a.port \in Bytes /\ Len(a.port) = 2
        /\ a = [kind |-> a.kind, host |-> a.host, port |-> a.port]
    BY <1>1 DEF IsTarget, IsSocketAddr
  <2>3. PICK n \in {4, 16} : n = Len(a.host) /\ (t = 1 <=> n = 4) /\ (t = 4 <=> n = 16)
    BY <2>1, <2>2 DEF IsSocketAddr
  <2>4. PICK h \in Bytes : h = <<t>> /\ h = <<t>> \o <<>> /\ Len(h) = 1 /\ h[1] = t
    <3>1. t \in Byte
      BY DEF Byte
    <3> QED BY <3>1, FewBytes, ZenonT(90)
  <2>5. WriteTo(a) = h \o a.host \o a.port
    BY <1>1, <2>1, <2>4 DEF WriteTo
  <2>6. PICK b : b = WriteTo(a) \o rest
    OBVIOUS
  <2>7. /\ WriteTo(a) \in Bytes /\ b \in Bytes /\ Len(WriteTo(a)) = n + 3 /\ Len(b) >= n + 3
        /\ b[1] = t /\ SubSeq(b, 2, n + 1) = a.host /\ SubSeq(b, n + 2, n + 3) = a.port
    <3>1. /\ WriteTo(a) \in Bytes /\ b \in Bytes
          /\ Len(WriteTo(a)) = 1 + n + 2 /\ Len(b) >= 1 + n + 2
          /\ \A i \in 1..1 : b[i] = h[i]
          /\ SubSeq(b, 1 + 1, 1 + n) = a.host /\ SubSeq(b, 1 + n + 1, 1 + n + 2) = a.port
      <4>1. /\ WriteTo(a) \in Bytes /\ b \in Bytes
            /\ Len(WriteTo(a)) = Len(h) + Len(a.host) + Len(a.port)
            /\ Len(b) = Len(h) + Len(a.host) + Len(a.port) + Len(rest)
            /\ \A i \in 1..Len(h) : b[i] = h[i]
            /\ SubSeq(b, Len(h) + 1, Len(h) + Len(a.host)) = a.host
            /\ SubSeq(b, Len(h) + Len(a.host) + 1, Len(h) + Len(a.host) + Len(a.port)) = a.port
        <5>1. InFields(b, WriteTo(a), h, a.host, a.port, rest)
          BY <2>2, <2>5, <2>6, InPlace, Zenon
        <5> QED BY <5>1, Zenon DEF InFields
      <4>2. Len(rest) \in Nat /\ n \in Nat
        BY BytesTyped
      <4>3. 1 + n + 2 + Len(rest) >= 1 + n + 2
        BY <4>2
      <4> QED BY <2>2, <2>3, <2>4, <4>1, <4>3, Zenon
    <3>2. 1 + n + 2 = n + 3 /\ 1 + 1 = 2 /\ 1 + n = n + 1 /\ 1 + n + 1 = n + 2 /\ 1 \in 1..1
      OBVIOUS
    <3> QED BY <2>4, <3>1, <3>2, Zenon
  <2>8. b # <<>> /\ Len(b) \in Nat
    <3>1. Len(b) \in Nat /\ (b = <<>> <=> Len(b) = 0)
      BY <2>7, BytesTyped, Zenon
    <3>2. n + 3 > 0 /\ Len(b) >= n + 3
      BY <2>7
    <3> QED BY <3>1, <3>2
  <2>9. CASE t = 1
    <3>1. ParseAddress(b) = ParseIp(b, 4, V4)
      BY <2>7, <2>8, <2>9 DEF ParseAddress
    <3>2. n = 4 /\ a.kind = "v4"
      BY <2>1, <2>3, <2>9
    <3>3. ~(Len(b) < 1 + 4 + 2)
      BY <2>7, <2>8, <3>2
    <3>4. ParseIp(b, 4, V4) = Parsed(Len(WriteTo(a)), V4(a.host, a.port))
      BY <2>7, <3>2, <3>3, Zenon DEF ParseIp
    <3>5. V4(a.host, a.port) = Understood(a)
      BY <2>2, <3>2 DEF V4, Understood
    <3>6. Len(WriteTo(a)) \in Nat
      BY <2>7, BytesTyped, Zenon
    <3> QED BY <2>6, <2>7, <3>1, <3>4, <3>5, <3>6, Zenon
  <2>10. CASE t = 4
    <3>1. ParseAddress(b) = ParseIp(b, 16, V6)
      BY <2>7, <2>8, <2>10 DEF ParseAddress
    <3>2. n = 16 /\ a.kind = "v6"
      BY <2>1, <2>3, <2>10
    <3>3. ~(Len(b) < 1 + 16 + 2)
      BY <2>7, <2>8, <3>2
    <3>4. ParseIp(b, 16, V6) = Parsed(Len(WriteTo(a)), V6(a.host, a.port))
      BY <2>7, <3>2, <3>3, Zenon DEF ParseIp
    <3>5. V6(a.host, a.port) = Understood(a)
      BY <2>2, <3>2 DEF V6, Understood
    <3>6. Len(WriteTo(a)) \in Nat
      BY <2>7, BytesTyped, Zenon
    <3> QED BY <2>6, <2>7, <3>1, <3>4, <3>5, <3>6, Zenon
  <2> QED BY <2>9, <2>10
<1>2. CASE a.kind = "name"
  <2>1. /\ a.host \in Bytes /\ a.port \in Bytes /\ Len(a.port) = 2
        /\ a = [kind |-> "name", host |-> a.host, port |-> a.port]
        /\ IsUtf8(a.host)
    BY <1>2 DEF IsTarget, IsSocketAddr
  <2>2. PICK n \in Nat : n = Len(a.host)
    BY <2>1, BytesTyped, Zenon
  <2>2a. n <= 255
    BY <1>2, <2>2, Zenon DEF Writable
  <2>3. PICK h \in Bytes : h = <<3>> \o <<n>> /\ Len(h) = 2 /\ h[1] = 3 /\ h[2] = n
    <3>1. 3 \in Byte /\ n \in Byte
      BY <2>2a DEF Byte
    <3>2. <<3, n>> \in Bytes /\ Len(<<3, n>>) = 2 /\ <<3, n>>[1] = 3 /\ <<3, n>>[2] = n
          /\ <<3>> \o <<n>> = <<3, n>>
      BY <3>1, TwoBytes, Zenon
    <3> QED BY <3>2, Zenon
  <2>4. WriteTo(a) = h \o a.host \o a.port
    <3>2. n % 256 = n
      BY <2>2a
    <3>3. TypeByte(a) = 3
      BY <1>2 DEF TypeByte
    <3> QED BY <1>2, <2>2, <2>3, <3>2, <3>3 DEF WriteTo
  <2>5. PICK b : b = WriteTo(a) \o rest
    OBVIOUS
  <2>6. /\ WriteTo(a) \in Bytes /\ b \in Bytes /\ Len(WriteTo(a)) = n + 4 /\ Len(b) >= n + 4
        /\ b[1] = 3 /\ b[2] = n
        /\ SubSeq(b, 3, n + 2) = a.host /\ SubSeq(b, n + 3, n + 4) = a.port
    <3>1. /\ WriteTo(a) \in Bytes /\ b \in Bytes
          /\ Len(WriteTo(a)) = 2 + n + 2 /\ Len(b) >= 2 + n + 2
          /\ \A i \in 1..2 : b[i] = h[i]
          /\ SubSeq(b, 2 + 1, 2 + n) = a.host /\ SubSeq(b, 2 + n + 1, 2 + n + 2) = a.port
      <4>1. /\ WriteTo(a) \in Bytes /\ b \in Bytes
            /\ Len(WriteTo(a)) = Len(h) + Len(a.host) + Len(a.port)
            /\ Len(b) = Len(h) + Len(a.host) + Len(a.port) + Len(rest)
            /\ \A i \in 1..Len(h) : b[i] = h[i]
            /\ SubSeq(b, Len(h) + 1, Len(h) + Len(a.host)) = a.host
            /\ SubSeq(b, Len(h) + Len(a.host) + 1, Len(h) + Len(a.host) + Len(a.port)) = a.port
        <5>1. InFields(b, WriteTo(a), h, a.host, a.port, rest)
          BY <2>1, <2>4, <2>5, InPlace, Zenon
        <5> QED BY <5>1, Zenon DEF InFields
      <4>2. Len(rest) \in Nat
        BY BytesTyped
      <4>3. 2 + n + 2 + Len(rest) >= 2 + n + 2
        BY <4>2
      <4> QED BY <2>1, <2>2, <2>3, <4>1, <4>3, Zenon
    <3>2. 2 + n + 2 = n + 4 /\ 2 + 1 = 3 /\ 2 + n = n + 2 /\ 2 + n + 1 = n + 3
          /\ 1 \in 1..2 /\ 2 \in 1..2
      OBVIOUS
    <3> QED BY <2>3, <3>1, <3>2, Zenon
  <2>7. b # <<>> /\ Len(b) \in Nat
    <3>1. Len(b) \in Nat /\ (b = <<>> <=> Len(b) = 0)
      BY <2>6, BytesTyped, Zenon
    <3>2. n + 4 > 0 /\ Len(b) >= n + 4
      BY <2>6
    <3> QED BY <3>1, <3>2
  <2>8. ParseAddress(b) = ParseName(b, LossyName)
    BY <2>6, <2>7 DEF ParseAddress
  <2>9. ParseName(b, LossyName) = Parsed(n + 4, LossyName(a.host, a.port))
    <3>1. ~(Len(b) < 2) /\ ~(Len(b) < n + 4)
      BY <2>6, <2>7
    <3> QED BY <2>6, <3>1, Zenon DEF ParseName
  <2>10. LossyName(a.host, a.port) = Understood(a)
    BY <1>2, <2>1 DEF LossyName, Lossy, IsUtf8, Understood
  <2>11. n + 4 \in Nat
    OBVIOUS
  <2> QED BY <2>5, <2>6, <2>8, <2>9, <2>10, <2>11, Zenon
<1> QED BY <1>1, <1>2 DEF IsTarget, IsSocketAddr

\* A request is read back, up to where it ends.
LEMMA RequestRead ==
    ASSUME NEW c \in Byte, NEW a, IsTarget(a), Writable(a), NEW rest \in Bytes
    PROVE  /\ ConnRequest(c, a) \in Bytes
           /\ ParseConnRequest(ConnRequest(c, a) \o rest)
                = Parsed(Len(ConnRequest(c, a)), [cmd |-> c, addr |-> Understood(a)])
<1>1. PICK h \in Bytes : h = <<5, c, 0>> /\ Len(h) = 3 /\ h[1] = 5 /\ h[2] = c /\ h[3] = 0
  <2>1. 5 \in Byte /\ 0 \in Byte
    BY DEF Byte
  <2>2. /\ <<5, c, 0>> \in Bytes /\ Len(<<5, c, 0>>) = 3
        /\ <<5, c, 0>>[1] = 5 /\ <<5, c, 0>>[2] = c /\ <<5, c, 0>>[3] = 0
    BY <2>1 DEF Bytes
  <2> QED BY <2>2, Zenon
<1>2. PICK w : w = WriteTo(a)
  OBVIOUS
<1>3. w \in Bytes /\ Len(w) \in Nat /\ ParseAddress(w \o rest) = Parsed(Len(w), Understood(a))
  BY <1>2, AddressRead, Zenon
<1>4. PICK q : q = ConnRequest(c, a)
  OBVIOUS
<1>5. q = h \o w
  BY <1>1, <1>2, <1>4, Zenon DEF ConnRequest
<1>6. q \in Bytes /\ Len(q) = Len(h) + Len(w)
  BY <1>3, <1>5, CatBytes, Zenon
<1>7. PICK v \in Bytes : v = w \o rest
  BY <1>3, CatBytes, Zenon
<1>8. PICK b \in Bytes : b = q \o rest /\ b = h \o v /\ Len(b) = Len(h) + Len(v)
  <2>1. q \o rest = h \o v
    BY <1>3, <1>5, <1>7, CatAssoc, Zenon
  <2> QED BY <1>6, <2>1, CatBytes, Zenon
<1>9. From(b, 4) = v
  <2>1. Len(h) + 1 = 4
    BY <1>1
  <2>2. From(h \o v, Len(h) + 1) = v
    BY CatRight, Zenon
  <2> QED BY <1>8, <2>1, <2>2, Zenon
<1>10. b[1] = 5 /\ b[2] = c /\ b[3] = 0 /\ ~(Len(b) < 3)
  <2>1. \A i \in 1..Len(h) : b[i] = h[i]
    <3>1. \A i \in 1..Len(h) : (h \o v)[i] = h[i]
      BY CatLeft, Zenon
    <3> QED BY <1>8, <3>1, Zenon
  <2>2. 1 \in 1..Len(h) /\ 2 \in 1..Len(h) /\ 3 \in 1..Len(h)
    BY <1>1
  <2>3. Len(v) \in Nat
    BY BytesTyped, Zenon
  <2>4. ~(Len(b) < 3)
    BY <1>1, <1>8, <2>3
  <2> QED BY <1>1, <2>1, <2>2, <2>4, Zenon
<1>11a. PICK r : r = Parsed(Len(w), Understood(a))
  OBVIOUS
<1>11. r = Parsed(Len(w), Understood(a)) /\ r.st = "ok" /\ r.used = Len(w) /\ r.value = Understood(a)
  BY <1>11a, Results, Zenon
<1>12. ParseConnRequest(b) = Parsed(r.used + 3, [cmd |-> b[2], addr |-> r.value])
  BY <1>3, <1>7, <1>9, <1>10, <1>11, Zenon DEF ParseConnRequest
<1>13. Len(w) + 3 = Len(q)
  BY <1>1, <1>3, <1>6
<1> QED BY <1>4, <1>6, <1>8, <1>10, <1>11, <1>12, <1>13, Zenon

\* A request without its address is not complete, nor is a part of it.
LEMMA BareRequest ==
    ASSUME NEW c \in Byte
    PROVE  ParseConnRequest(<<>>) = Incomplete /\ <<5, c, 0>> \in Bytes /\ ParseConnRequest(<<5, c, 0>>) = Incomplete
<1>1. PICK h \in Bytes : h = <<5, c, 0>> /\ Len(h) = 3 /\ h[1] = 5 /\ h[2] = c /\ h[3] = 0
  <2>1. 5 \in Byte /\ 0 \in Byte
    BY DEF Byte
  <2>2. /\ <<5, c, 0>> \in Bytes /\ Len(<<5, c, 0>>) = 3
        /\ <<5, c, 0>>[1] = 5 /\ <<5, c, 0>>[2] = c /\ <<5, c, 0>>[3] = 0
    BY <2>1 DEF Bytes
  <2> QED BY <2>2, Zenon
<1>2. From(h, 4) = <<>>
  <2>1. From(h, 4) = SubSeq(h, 4, 3)
    BY <1>1, Zenon DEF From
  <2> HIDE <1>1
  <2> QED BY <2>1 DEF Bytes
<1>3. ParseAddress(<<>>) = Incomplete
  BY Zenon DEF ParseAddress
<1>4. Incomplete.st # "ok"
  BY DEF Incomplete
<1>5. ~(Len(h) < 3) /\ Len(<<>>) < 3
  BY <1>1
<1>6. ParseConnRequest(h) = Incomplete
  BY <1>1, <1>2, <1>3, <1>4, <1>5, Zenon DEF ParseConnRequest
<1>7. ParseConnRequest(<<>>) = Incomplete
  BY <1>5, Zenon DEF ParseConnRequest
<1> QED BY <1>1, <1>6, <1>7, Zenon

-----------------------------------------------------------------------------
(* What a handshake makes of bytes stays so.                                *)

LEMMA HttpAtOnceSettles ==
    ASSUME NEW b \in Bytes, NEW d \in Bytes
    PROVE  Settled(HttpAtOnce(b), Len(b), HttpAtOnce(b \o d))
<1>1. PICK r : r = ParseHead(b)
  OBVIOUS
<1>2. Sound(r, Len(b)) /\ (r # Incomplete => ParseHead(b \o d) = r)
  BY <1>1, HeadSettles, Zenon DEF Settled
<1>3. CASE r.st # "ok"
  <2>1. r = Incomplete \/ r = Invalid
    BY <1>2, <1>3, SoundStates, Zenon
  <2>2. HttpAtOnce(b) = r /\ (r # Incomplete => HttpAtOnce(b \o d) = r)
    BY <1>1, <1>2, <1>3, Zenon DEF HttpAtOnce
  <2> QED BY <1>2, <2>2, Zenon DEF Settled
<1>4. CASE r.st = "ok"
  <2>1. r # Incomplete /\ r.used \in 1..Len(b)
    BY <1>2, <1>4, SoundStates, Results, Zenon
  <2>2. ParseHead(b \o d) = r
    BY <1>2, <2>1, Zenon
  <2>3. HttpAtOnce(b \o d) = HttpAtOnce(b)
    BY <1>1, <2>2, Zenon DEF HttpAtOnce
  <2>4. HttpAtOnce(b) = Invalid \/ \E v : HttpAtOnce(b) = Parsed(r.used, v)
    BY <1>1, <1>4, Zenon DEF HttpAtOnce
  <2> QED BY <2>1, <2>3, <2>4, Zenon DEF Settled, Sound
<1> QED BY <1>3, <1>4

LEMMA Socks4AtOnceSettles ==
    ASSUME NEW b \in Bytes, NEW d \in Bytes
    PROVE  Settled(Socks4AtOnce(b), Len(b), Socks4AtOnce(b \o d))
<1>1. PICK r : r = ParseSocks4(b)
  OBVIOUS
<1>2. Sound(r, Len(b)) /\ (r # Incomplete => ParseSocks4(b \o d) = r)
  BY <1>1, Socks4Settles, Zenon DEF Settled
<1>3. CASE r.st # "ok"
  <2>1. Socks4AtOnce(b) = r /\ (r # Incomplete => Socks4AtOnce(b \o d) = r)
    BY <1>1, <1>2, <1>3, Zenon DEF Socks4AtOnce
  <2> QED BY <1>2, <2>1, Zenon DEF Settled
<1>4. CASE r.st = "ok"
  <2>1. r # Incomplete /\ r.used \in 1..Len(b)
    BY <1>2, <1>4, SoundStates, Results, Zenon
  <2>2. Socks4AtOnce(b \o d) = Socks4AtOnce(b)
    BY <1>1, <1>2, <2>1, Zenon DEF Socks4AtOnce
  <2>3. Socks4AtOnce(b) = Invalid \/ \E v : Socks4AtOnce(b) = Parsed(r.used, v)
    BY <1>1, <1>4, Zenon DEF Socks4AtOnce
  <2> QED BY <2>1, <2>2, <2>3, Zenon DEF Settled, Sound
<1> QED BY <1>3, <1>4

LEMMA Socks5AtOnceSettles ==
    ASSUME NEW b \in Bytes, NEW d \in Bytes
    PROVE  Settled(Socks5AtOnce(b), Len(b), Socks5AtOnce(b \o d))
<1>1. PICK g : g = ParseGreeting(b)
  OBVIOUS
<1>2. Sound(g, Len(b)) /\ (g # Incomplete => ParseGreeting(b \o d) = g)
  BY <1>1, GreetingSettles, Zenon DEF Settled
<1>3. CASE g.st # "ok"
  <2>1. Socks5AtOnce(b) = g /\ (g # Incomplete => Socks5AtOnce(b \o d) = g)
    BY <1>1, <1>2, <1>3, Zenon DEF Socks5AtOnce
  <2> QED BY <1>2, <2>1, Zenon DEF Settled
<1>4. CASE g.st = "ok"
  <2>1. g # Incomplete /\ g.used \in 1..Len(b)
    BY <1>2, <1>4, SoundStates, Results, Zenon
  <2>2. PICK n \in 1..Len(b) : n = g.used
    BY <2>1
  <2>3. Len(b) \in Nat
    BY BytesTyped, Zenon
  <2>4. PICK x \in Bytes : x = From(b, n + 1) /\ Len(x) = Len(b) - n
    <3>1. n + 1 \in Nat \ {0} /\ Len(b) <= Len(b)
      BY <2>3
    <3>2. PartIs(From(b, n + 1), b, n + 1, Len(b))
      BY <2>3, <3>1, PartOf, Zenon DEF From
    <3>3. PICK p : p = From(b, n + 1)
      OBVIOUS
    <3>4. p \in Bytes /\ Len(p) = IF n + 1 <= Len(b) THEN Len(b) - (n + 1) + 1 ELSE 0
      BY <3>2, <3>3, Zenon DEF PartIs
    <3>5. Len(p) = Len(b) - n
      BY <2>3, <3>4
    <3> QED BY <3>3, <3>4, <3>5, Zenon
  <2>5. From(b \o d, n + 1) = x \o d
    <3>1. n + 1 \in 1..Len(b) + 1
      BY <2>3
    <3> QED BY <2>4, <3>1, FrontStays, Zenon
  <2>6. PICK r : r = ParseConnRequest(x)
    OBVIOUS
  <2>7. Sound(r, Len(x)) /\ (r # Incomplete => ParseConnRequest(x \o d) = r)
    BY <2>6, RequestSettles, Zenon DEF Settled
  <2>8. CASE \A i \in DOMAIN g.value : g.value[i] # NoPassword
    <3>1. Socks5AtOnce(b) = Invalid /\ Socks5AtOnce(b \o d) = Invalid
      BY <1>1, <1>2, <1>4, <2>1, <2>8, Zenon DEF Socks5AtOnce
    <3> QED BY <3>1, Zenon DEF Settled, Sound
  <2>9. CASE ~(\A i \in DOMAIN g.value : g.value[i] # NoPassword) /\ r.st # "ok"
    <3>1. Socks5AtOnce(b) = r
      BY <1>1, <1>4, <2>2, <2>4, <2>6, <2>9, Zenon DEF Socks5AtOnce
    <3>2. r # Incomplete => Socks5AtOnce(b \o d) = r
      BY <1>2, <1>4, <2>1, <2>2, <2>5, <2>7, <2>9, Zenon DEF Socks5AtOnce
    <3>3. r = Incomplete \/ r = Invalid
      BY <2>7, <2>9, SoundStates, Zenon
    <3> QED BY <3>1, <3>2, <3>3, Zenon DEF Settled, Sound
  <2>10. CASE ~(\A i \in DOMAIN g.value : g.value[i] # NoPassword) /\ r.st = "ok"
    <3>1. r # Incomplete /\ r.used \in 1..Len(x)
      BY <2>7, <2>10, SoundStates, Results, Zenon
    <3>2. PICK res : res = IF r.value.cmd \notin {ConnectTcp, BindUdp} THEN Invalid
            ELSE Parsed(g.used + r.used,
                    Request(IF r.value.cmd = ConnectTcp THEN "TCP" ELSE "UDP", "socks5", r.value.addr))
      OBVIOUS
    <3>3. Socks5AtOnce(b) = res
      BY <1>1, <1>4, <2>2, <2>4, <2>6, <2>10, <3>2, Zenon DEF Socks5AtOnce
    <3>4. Socks5AtOnce(b \o d) = res
      BY <1>2, <1>4, <2>1, <2>2, <2>5, <2>7, <2>10, <3>1, <3>2, Zenon DEF Socks5AtOnce
    <3>5. g.used + r.used \in 1..Len(b)
      BY <2>2, <2>3, <2>4, <3>1
    <3>6. Sound(res, Len(b))
      BY <3>2, <3>5, Zenon DEF Sound
    <3> QED BY <3>3, <3>4, <3>6, Zenon DEF Settled
  <2> QED BY <2>8, <2>9, <2>10
<1> QED BY <1>3, <1>4

LEMMA AtOnceSettles ==
    ASSUME NEW b \in Bytes, NEW d \in Bytes, NEW srv
    PROVE  Settled(MeantBy(srv, b), Len(b), MeantBy(srv, b \o d))
<1>1. CASE srv = "http"
  BY <1>1, HttpAtOnceSettles, Zenon DEF MeantBy
<1>2. CASE srv # "http" /\ b = <<>>
  <2>1. MeantBy(srv, b) = Incomplete
    BY <1>2, Zenon DEF MeantBy, AtOnce
  <2> QED BY <2>1, Zenon DEF Settled, Sound
<1>3. CASE srv # "http" /\ b # <<>>
  <2>1. Len(b) \in Nat /\ 1 <= Len(b)
    BY <1>3, BytesTyped
  <2>2. b \o d # <<>> /\ (b \o d)[1] = b[1]
    <3>1. Len(b \o d) = Len(b) + Len(d) /\ b \o d \in Bytes /\ Len(d) \in Nat
      BY FrontStays, Zenon
    <3>2. Len(b \o d) # 0 /\ 1 \in 1..Len(b)
      BY <2>1, <3>1
    <3> QED BY <3>1, <3>2, FrontStays, BytesTyped, Zenon
  <2>3. CASE b[1] = 5
    <3>1. MeantBy(srv, b) = Socks5AtOnce(b) /\ MeantBy(srv, b \o d) = Socks5AtOnce(b \o d)
      BY <1>3, <2>2, <2>3 DEF MeantBy, AtOnce
    <3> QED BY <3>1, Socks5AtOnceSettles, Zenon
  <2>4. CASE b[1] = 4
    <3>1. MeantBy(srv, b) = Socks4AtOnce(b) /\ MeantBy(srv, b \o d) = Socks4AtOnce(b \o d)
      BY <1>3, <2>2, <2>4 DEF MeantBy, AtOnce
    <3> QED BY <3>1, Socks4AtOnceSettles, Zenon
  <2>5. CASE b[1] # 5 /\ b[1] # 4
    <3>1. MeantBy(srv, b) = HttpAtOnce(b) /\ MeantBy(srv, b \o d) = HttpAtOnce(b \o d)
      BY <1>3, <2>2, <2>5 DEF MeantBy, AtOnce
    <3> QED BY <3>1, HttpAtOnceSettles, Zenon
  <2> QED BY <2>3, <2>4, <2>5
<1> QED BY <1>1, <1>2, <1>3

-----------------------------------------------------------------------------
(* A handshake, however its bytes are cut.                                  *)

Reading == {"init", "socks5", "socks4", "http"}

\* ParseGreeting finds the first of the bytes t, up to those in z, to be a greeting
\* that the server accepts.
GreetedIn(t, z) ==
    \E g \in Bytes : \E v : /\ t = g \o z /\ ParseGreeting(t) = Parsed(Len(g), v)
                            /\ \E i \in DOMAIN v : v[i] = NoPassword

\* The state of the handshake of a server srv that was sent the bytes t, of which u
\* are still on their way.
HsOK(srv, phase, buf, req, u, t) ==
    LET x == ReadBuf(buf)
        m == MeantBy(srv, t)
    IN  /\ Holds(buf, x) /\ u \in Bytes /\ t \in Bytes
        /\ phase \in Reading \cup {"request", "done", "failed"}
        /\ srv = "http" => phase \in {"init", "done", "failed"}
        /\ phase \in Reading => t = x \o u /\ req = NoRequest
        /\ phase = "socks5" => x # <<>> /\ x[1] = 5
        /\ phase = "socks4" => x # <<>> /\ x[1] # 5 /\ x[1] < 32
        /\ phase = "http" => x # <<>> /\ ~(x[1] < 32)
        /\ phase = "request" => GreetedIn(t, x \o u) /\ req = NoRequest
        /\ phase = "done" => m.st = "ok" /\ req = m.value /\ x \o u = From(t, m.used + 1)
        /\ phase = "failed" => m.st = "error" /\ req = NoRequest

\* What a step from phase old answers.
OutOK(old, phase, out, t) ==
    /\ out \in Bytes
    /\ (t = <<>> \/ t[1] # 5) => out = <<>>
    /\ phase \in Reading => out = <<>> /\ old # "request"
    /\ old = "request" /\ phase \in {"request", "done"} => out = <<>>
    /\ old # "request" /\ phase \in {"request", "done"} /\ t # <<>> /\ t[1] = 5
         => out = GreetingAnswer(NoPassword)

StepOK(srv, old, h, u, t) ==
    /\ h = Hs(h.phase, h.buf, h.req, h.out)
    /\ HsOK(srv, h.phase, h.buf, h.req, u, t)
    /\ OutOK(old, h.phase, h.out, t)

\* The parts of a row of bytes.
LEMMA Cut ==
    ASSUME NEW x \in Bytes, NEW n \in 1..Len(x)
    PROVE  /\ SubSeq(x, 1, n) \in Bytes /\ Len(SubSeq(x, 1, n)) = n
           /\ From(x, n + 1) \in Bytes /\ Len(From(x, n + 1)) = Len(x) - n
           /\ x = SubSeq(x, 1, n) \o From(x, n + 1)
<1>1. Len(x) \in Nat /\ n \in Nat /\ 1 <= n /\ n <= Len(x)
  BY BytesTyped
<1>2. PICK p : p = SubSeq(x, 1, n)
  OBVIOUS
<1>3. PICK q : q = From(x, n + 1)
  OBVIOUS
<1>4. PartIs(p, x, 1, n)
  <2>1. 1 \in Nat \ {0}
    OBVIOUS
  <2> QED BY <1>1, <1>2, <2>1, PartOf, Zenon
<1>5. PartIs(q, x, n + 1, Len(x))
  <2>1. n + 1 \in Nat \ {0} /\ Len(x) <= Len(x)
    BY <1>1
  <2> QED BY <1>1, <1>3, <2>1, PartOf, Zenon DEF From
<1>6. p \in Bytes /\ Len(p) = (IF 1 <= n THEN n - 1 + 1 ELSE 0) /\ \A k \in 1..Len(p) : p[k] = x[1 + k - 1]
  BY <1>4, Zenon DEF PartIs
<1>7. q \in Bytes /\ Len(q) = (IF n + 1 <= Len(x) THEN Len(x) - (n + 1) + 1 ELSE 0)
      /\ \A k \in 1..Len(q) : q[k] = x[n + 1 + k - 1]
  BY <1>5, Zenon DEF PartIs
<1>8. Len(p) = n /\ Len(q) = Len(x) - n
  BY <1>1, <1>6, <1>7
<1>9. PICK y : y = p \o q
  OBVIOUS
<1>10. y \in Bytes /\ Len(y) = Len(p) + Len(q) /\ (\A i \in 1..Len(p) : y[i] = p[i])
       /\ \A i \in 1..Len(q) : y[Len(p) + i] = q[i]
  BY <1>6, <1>7, <1>9, CatBytes, CatLeft, CatIndex, Zenon
<1>11. ASSUME NEW k \in 1..Len(x) PROVE x[k] = y[k]
  <2>1. CASE k <= n
    <3>1. k \in 1..Len(p) /\ 1 + k - 1 = k
      BY <1>1, <1>8, <2>1
    <3> QED BY <1>6, <1>10, <3>1, Zenon
  <2>2. CASE ~(k <= n)
    <3>1. PICK j \in 1..Len(q) : k = Len(p) + j /\ n + 1 + j - 1 = k
      BY <1>1, <1>8, <2>2
    <3> QED BY <1>7, <1>10, <3>1, Zenon
  <2> QED BY <2>1, <2>2
<1>12. Len(x) = Len(y)
  BY <1>1, <1>8, <1>10
<1>13. x = y
  BY <1>10, <1>11, <1>12, SameBytes, Zenon
<1> QED BY <1>2, <1>3, <1>6, <1>7, <1>8, <1>9, <1>13, Zenon

\* A done handshake has taken what the request is made of.
LEMMA TakenIs ==
    ASSUME NEW buf, NEW x, Holds(buf, x), NEW n \in 1..Len(x), NEW u \in Bytes
    PROVE  /\ Holds(AdvanceRead(buf, n), ReadBuf(AdvanceRead(buf, n)))
           /\ ReadBuf(AdvanceRead(buf, n)) \o u = From(x \o u, n + 1)
<1>1. x \in Bytes /\ Len(x) \in Nat
  BY BytesTyped, Zenon DEF Holds
<1>2. Holds(AdvanceRead(buf, n), From(x, n + 1))
  BY AdvancedHolds, Zenon
<1>3. ReadBuf(AdvanceRead(buf, n)) = From(x, n + 1)
  BY <1>2, Zenon DEF Holds
<1>4. n + 1 \in 1..Len(x) + 1
  BY <1>1
<1>5. From(x \o u, n + 1) = From(x, n + 1) \o u
  BY <1>1, <1>4, FrontStays, Zenon
<1> QED BY <1>2, <1>3, <1>5, Zenon

\* The strings are different ones.
LEMMA Phases ==
    /\ \A p \in Reading : p \notin {"request", "done", "failed"}
    /\ "request" \notin {"done", "failed"} /\ "done" # "failed"
    /\ "init" \in Reading /\ "socks5" \in Reading /\ "socks4" \in Reading /\ "http" \in Reading
    /\ "init" \notin {"socks5", "socks4", "http"} /\ "socks5" \notin {"socks4", "http"}
    /\ "socks4" # "http" /\ "handshaker" # "http"
BY DEF Reading

\* What Fail leaves, if the bytes mean nothing.
LEMMA FailOK ==
    ASSUME NEW srv, NEW old, NEW buf, NEW x, Holds(buf, x), NEW out \in Bytes, NEW u \in Bytes, NEW t \in Bytes,
           MeantBy(srv, t).st = "error", (t = <<>> \/ t[1] # 5) => out = <<>>
    PROVE  StepOK(srv, old, Fail(buf, out), u, t)
<1>1. PICK h : h = Fail(buf, out)
  OBVIOUS
<1>2. h = Hs("failed", buf, NoRequest, out)
  BY <1>1, Zenon DEF Fail
<1>3. h.phase = "failed" /\ h.buf = buf /\ h.req = NoRequest /\ h.out = out
  BY <1>2 DEF Hs
<1>4. Holds(buf, ReadBuf(buf))
  BY Zenon DEF Holds
<1>5. "failed" \notin Reading \cup {"request", "done", "socks5", "socks4", "http"}
  BY DEF Reading
<1>6. HsOK(srv, "failed", buf, NoRequest, u, t)
  BY <1>4, <1>5, Zenon DEF HsOK
<1>7. OutOK(old, "failed", out, t)
  BY <1>5, Zenon DEF OutOK
<1> QED BY <1>1, <1>2, <1>3, <1>6, <1>7, Zenon DEF StepOK

\* What a request that was read leaves.
LEMMA DoneOK ==
    ASSUME NEW srv, NEW old, NEW buf, NEW x, Holds(buf, x), NEW n \in 1..Len(x), NEW u \in Bytes, NEW t \in Bytes,
           NEW req, NEW out \in Bytes,
           MeantBy(srv, t).st = "ok", MeantBy(srv, t).value = req,
           From(x \o u, n + 1) = From(t, MeantBy(srv, t).used + 1),
           OutOK(old, "done", out, t)
    PROVE  StepOK(srv, old, Hs("done", AdvanceRead(buf, n), req, out), u, t)
<1>1. PICK h : h = Hs("done", AdvanceRead(buf, n), req, out)
  OBVIOUS
<1>3. h.phase = "done" /\ h.buf = AdvanceRead(buf, n) /\ h.req = req /\ h.out = out
  BY <1>1 DEF Hs
<1>4. /\ Holds(AdvanceRead(buf, n), ReadBuf(AdvanceRead(buf, n)))
      /\ ReadBuf(AdvanceRead(buf, n)) \o u = From(x \o u, n + 1)
  BY TakenIs, Zenon
<1>5. "done" \notin Reading \cup {"request", "failed", "socks5", "socks4", "http"}
  BY DEF Reading
<1>6. HsOK(srv, "done", AdvanceRead(buf, n), req, u, t)
  BY <1>4, <1>5, Zenon DEF HsOK
<1> QED BY <1>1, <1>3, <1>6, Zenon DEF StepOK

\* handshake_socks5 up to its next read, with the bytes x of buf behind the greeting.
LEMMA AwaitOK ==
    ASSUME NEW srv, srv # "http", NEW old, NEW buf, NEW x, Holds(buf, x), NEW out \in Bytes,
           NEW u \in Bytes, NEW t \in Bytes, GreetedIn(t, x \o u), t # <<>>, t[1] = 5,
           out = IF old = "request" THEN <<>> ELSE GreetingAnswer(NoPassword)
    PROVE  StepOK(srv, old, AwaitRequest(buf, out), u, t)
<1>1. PICK g \in Bytes : \E v : /\ t = g \o (x \o u) /\ ParseGreeting(t) = Parsed(Len(g), v)
                                /\ \E i \in DOMAIN v : v[i] = NoPassword
  BY Zenon DEF GreetedIn
<1>2. PICK v : /\ t = g \o (x \o u) /\ ParseGreeting(t) = Parsed(Len(g), v)
               /\ \E i \in DOMAIN v : v[i] = NoPassword
  BY <1>1, Zenon
<1>3. x \in Bytes /\ ReadBuf(buf) = x /\ x \o u \in Bytes
  <2>1. x \in Bytes /\ ReadBuf(buf) = x
    BY Zenon DEF Holds
  <2> QED BY <2>1, CatBytes, Zenon
<1>4. From(t, Len(g) + 1) = x \o u
  BY <1>2, <1>3, CatRight, Zenon
<1>5. PICK r : r = ParseConnRequest(x)
  OBVIOUS
<1>6. Sound(r, Len(x)) /\ (r # Incomplete => ParseConnRequest(x \o u) = r)
  BY <1>3, <1>5, RequestSettles, Zenon DEF Settled
<1>7. PICK gr : gr = ParseGreeting(t)
  OBVIOUS
<1>8. gr.st = "ok" /\ gr.used = Len(g) /\ gr.value = v
  <2>1. gr = Parsed(Len(g), v)
    BY <1>2, <1>7, Zenon
  <2> QED BY <2>1 DEF Parsed
<1>9. ~(\A i \in DOMAIN gr.value : gr.value[i] # NoPassword)
  BY <1>2, <1>8, Zenon
<1>10. MeantBy(srv, t) = Socks5AtOnce(t)
  BY DEF MeantBy, AtOnce
<1>11. CASE r = Incomplete
  <2>1. PICK h : h = AwaitRequest(buf, out)
    OBVIOUS
  <2>2. r.st = "incomplete"
    BY <1>11, Results, Zenon
  <2>3. h = Hs("request", buf, NoRequest, out)
    BY <1>3, <1>5, <2>1, <2>2 DEF AwaitRequest
  <2>4. h.phase = "request" /\ h.buf = buf /\ h.req = NoRequest /\ h.out = out
    BY <2>3 DEF Hs
  <2>5. "request" \notin Reading \cup {"failed", "done", "socks5", "socks4", "http"}
    BY DEF Reading
  <2>6. HsOK(srv, "request", buf, NoRequest, u, t)
    BY <1>3, <2>5, Zenon DEF HsOK
  <2>7. OutOK(old, "request", out, t)
    BY <2>5, Zenon DEF OutOK
  <2> QED BY <2>1, <2>3, <2>4, <2>6, <2>7, Zenon DEF StepOK
<1>12. CASE r = Invalid
  <2>1. r.st = "error" /\ r.st # "ok" /\ r # Incomplete
    BY <1>12, Results
  <2>2. AwaitRequest(buf, out) = Fail(buf, out)
    BY <1>3, <1>5, <2>1 DEF AwaitRequest
  <2>3. Socks5AtOnce(t) = r
    BY <1>4, <1>6, <1>7, <1>8, <1>9, <2>1, Zenon DEF Socks5AtOnce
  <2>4. MeantBy(srv, t).st = "error"
    BY <1>10, <2>1, <2>3, Zenon
  <2> QED BY <2>2, <2>4, FailOK, Zenon
<1>13. CASE r.st = "ok" /\ r.value.cmd \in {ConnectTcp, BindUdp}
  <2>1. r # Incomplete /\ r.used \in 1..Len(x)
    BY <1>6, <1>13, SoundStates, Results, Zenon
  <2>2. PICK req : req = Request(IF r.value.cmd = ConnectTcp THEN "TCP" ELSE "UDP", "socks5", r.value.addr)
    OBVIOUS
  <2>3. AwaitRequest(buf, out) = Hs("done", AdvanceRead(buf, r.used), req, out)
    BY <1>3, <1>5, <1>13, <2>2 DEF AwaitRequest, ConnectTcp, BindUdp
  <2>4. Socks5AtOnce(t) = Parsed(gr.used + r.used, req)
    BY <1>4, <1>6, <1>7, <1>8, <1>9, <1>13, <2>1, <2>2, Zenon DEF Socks5AtOnce
  <2>5. /\ MeantBy(srv, t).st = "ok" /\ MeantBy(srv, t).value = req
        /\ MeantBy(srv, t).used = Len(g) + r.used
    <3>1. PICK m : m = MeantBy(srv, t)
      OBVIOUS
    <3>2. m = Parsed(Len(g) + r.used, req)
      BY <1>8, <1>10, <2>4, <3>1, Zenon
    <3>3. m.st = "ok" /\ m.value = req /\ m.used = Len(g) + r.used
      BY <3>2 DEF Parsed
    <3> QED BY <3>1, <3>3, Zenon
  <2>6. From(x \o u, r.used + 1) = From(t, Len(g) + r.used + 1)
    <3>1. PICK n \in Nat : n = r.used /\ 1 <= n /\ n <= Len(x)
      BY <2>1
    <3>2. PICK y \in Bytes : y = x \o u /\ Len(x) <= Len(y)
      <4>1. Len(x \o u) = Len(x) + Len(u) /\ Len(x) \in Nat /\ Len(u) \in Nat
        BY <1>3, FrontStays, Zenon
      <4>2. Len(x) <= Len(x \o u)
        BY <4>1
      <4> QED BY <1>3, <4>2, Zenon
    <3>3. Len(y) \in Nat /\ Len(g) \in Nat /\ n <= Len(y)
      <4>1. Len(y) \in Nat /\ Len(g) \in Nat /\ Len(x) \in Nat
        BY <1>3, BytesTyped, Zenon
      <4> QED BY <3>1, <3>2, <4>1
    <3>4. n \in 1..Len(y)
      BY <3>1, <3>3
    <3>5. PICK p \in Bytes, q \in Bytes : y = p \o q /\ Len(p) = n /\ q = From(y, n + 1)
      BY <3>4, Cut, Zenon
    <3>6. t = (g \o p) \o q
      <4>1. (g \o p) \o q = g \o (p \o q)
        <5>1. Assoc(g, p, q)
          BY <3>5, CatAssoc3, Zenon
        <5> QED BY <5>1, Zenon DEF Assoc
      <4> QED BY <1>2, <3>2, <3>5, <4>1, Zenon
    <3>7. g \o p \in Bytes /\ Len(g \o p) = Len(g) + n
      BY <3>5, CatBytes, Zenon
    <3>8. From(t, Len(g) + n + 1) = q
      <4>1. From((g \o p) \o q, Len(g \o p) + 1) = q
        BY <3>7, CatRight, Zenon
      <4> QED BY <3>6, <3>7, <4>1, Zenon
    <3> QED BY <3>1, <3>2, <3>5, <3>8, Zenon
  <2>7. OutOK(old, "done", out, t)
    <3>1. "done" \notin Reading
      BY DEF Reading
    <3> QED BY <3>1, Zenon DEF OutOK
  <2>8. Len(g) + r.used + 1 = MeantBy(srv, t).used + 1
    BY <2>5, Zenon
  <2>9. From(x \o u, r.used + 1) = From(t, MeantBy(srv, t).used + 1)
    BY <2>6, <2>8, Zenon
  <2> QED BY <2>1, <2>3, <2>5, <2>7, <2>9, DoneOK, ZenonT(60)
<1>14. CASE r.st = "ok" /\ r.value.cmd \notin {ConnectTcp, BindUdp}
  <2>1. r # Incomplete /\ r.used \in 1..Len(x)
    BY <1>6, <1>14, SoundStates, Results, Zenon
  <2>2. PICK o : o = out \o ConnAnswer(UnsupportedCommand, DefaultAddress)
    OBVIOUS
  <2>3. AwaitRequest(buf, out) = Fail(buf, o)
    BY <1>3, <1>5, <1>14, <2>2 DEF AwaitRequest, ConnectTcp, BindUdp
  <2>4. o \in Bytes
    <3>1. ConnAnswer(UnsupportedCommand, DefaultAddress) \in Bytes
      BY DEF ConnAnswer, UnsupportedCommand, DefaultAddress, V4, WriteTo, TypeByte, Bytes, Byte
    <3> QED BY <2>2, <3>1, CatBytes, Zenon
  <2>5. Socks5AtOnce(t) = Invalid
    BY <1>4, <1>6, <1>7, <1>8, <1>9, <1>14, <2>1, Zenon DEF Socks5AtOnce
  <2>6. MeantBy(srv, t).st = "error"
    BY <1>10, <2>5, Results, Zenon
  <2> QED BY <2>3, <2>4, <2>6, FailOK, Zenon
<1> QED BY <1>6, <1>11, <1>12, <1>13, <1>14, SoundStates, Zenon DEF Sound

\* What the first byte says.
LEMMA GreetingFirst ==
    ASSUME NEW b \in Bytes
    PROVE  /\ ParseGreeting(b).st = "ok" => b # <<>> /\ b[1] = 5
           /\ ParseGreeting(b).st = "error" => b # <<>> /\ b[1] # 5
           /\ ParseGreeting(b).st = "incomplete" /\ ~(Len(b) < 2) => b[1] = 5
<1>1. Len(b) \in Nat /\ (b = <<>> <=> Len(b) = 0)
  BY BytesTyped, Zenon
<1>2. CASE Len(b) < 2
  <2>1. ParseGreeting(b) = Incomplete
    BY <1>2, Zenon DEF ParseGreeting
  <2> QED BY <1>2, <2>1 DEF Incomplete
<1>3. CASE ~(Len(b) < 2)
  <2>1. b # <<>>
    BY <1>1, <1>3
  <2>2. CASE b[1] # 5
    <3>1. ParseGreeting(b) = Invalid
      BY <1>3, <2>2, Zenon DEF ParseGreeting
    <3> QED BY <2>1, <2>2, <3>1 DEF Invalid
  <2>3. CASE b[1] = 5
    <3>1. ParseGreeting(b) = Incomplete \/ \E n, v : ParseGreeting(b) = Parsed(n, v)
      BY <1>3, <2>3, Zenon DEF ParseGreeting
    <3>2. ParseGreeting(b).st # "error"
      <4>1. "incomplete" # "error" /\ "ok" # "error"
        OBVIOUS
      <4> QED BY <3>1, <4>1, Results, Zenon
    <3> QED BY <2>1, <2>3, <3>2, Zenon
  <2> QED BY <2>2, <2>3
<1> QED BY <1>2, <1>3

LEMMA Socks4First ==
    ASSUME NEW b \in Bytes
    PROVE  /\ ParseSocks4(b).st = "ok" => b # <<>> /\ b[1] = 4
           /\ ParseSocks4(b).st = "error" => ~(Len(b) < 2) /\ b[1] # 4
<1>1. Len(b) \in Nat /\ (b = <<>> <=> Len(b) = 0)
  BY BytesTyped, Zenon
<1>2. CASE Len(b) < 9
  <2>1. ParseSocks4(b) = Incomplete
    BY <1>2, Zenon DEF ParseSocks4
  <2> QED BY <1>2, <2>1 DEF Incomplete
<1>3. CASE ~(Len(b) < 9)
  <2>1. b # <<>> /\ ~(Len(b) < 2)
    BY <1>1, <1>3
  <2>2. CASE b[1] # 4
    <3>1. ParseSocks4(b) = Invalid
      BY <1>3, <2>2, Zenon DEF ParseSocks4
    <3> QED BY <2>1, <2>2, <3>1 DEF Invalid
  <2>3. CASE b[1] = 4
    <3>1. ParseSocks4(b) = Incomplete \/ \E n, v : ParseSocks4(b) = Parsed(n, v)
      BY <1>3, <2>3, Zenon DEF ParseSocks4
    <3>2. ParseSocks4(b).st # "error"
      <4>1. "incomplete" # "error" /\ "ok" # "error"
        OBVIOUS
      <4> QED BY <3>1, <4>1, Results, Zenon
    <3> QED BY <2>1, <2>3, <3>2, Zenon
  <2> QED BY <2>2, <2>3
<1> QED BY <1>2, <1>3

LEMMA HeadFirst ==
    ASSUME NEW b \in Bytes, b # <<>>
    PROVE  /\ b[1] < 32 <=> ParseHead(b) = Invalid
           /\ b[1] < 32 => HttpAtOnce(b) = Invalid
<1>1. CASE b[1] < 32
  <2>1. ParseHead(b) = Invalid
    BY <1>1, Zenon DEF ParseHead
  <2>2. Invalid.st # "ok"
    BY DEF Invalid
  <2> QED BY <1>1, <2>1, <2>2, Zenon DEF HttpAtOnce
<1>2. CASE ~(b[1] < 32)
  <2>1. ParseHead(b) = Incomplete \/ \E n, v : ParseHead(b) = Parsed(n, v)
    BY <1>2, Zenon DEF ParseHead
  <2> QED BY <1>2, <2>1, Results, Zenon
<1> QED BY <1>1, <1>2

\* The bytes t of a client, of which x are in the buffer and u on their way.
Window(buf, x, u, t) ==
    /\ Holds(buf, x) /\ x \in Bytes /\ ReadBuf(buf) = x
    /\ u \in Bytes /\ t \in Bytes /\ t = x \o u
    /\ x # <<>> /\ t # <<>> /\ t[1] = x[1]

LEMMA WindowIs ==
    ASSUME NEW buf, NEW x, Holds(buf, x), x # <<>>, NEW u \in Bytes, NEW t, t = x \o u
    PROVE  Window(buf, x, u, t)
<1>1. x \in Bytes /\ ReadBuf(buf) = x
  BY Zenon DEF Holds
<1>2. Len(t) = Len(x) + Len(u) /\ t \in Bytes /\ Len(u) \in Nat /\ Len(x) \in Nat
  BY <1>1, FrontStays, Zenon
<1>3. Len(x) # 0
  BY <1>1, BytesTyped, Zenon
<1>4. Len(t) # 0 /\ 1 \in 1..Len(x)
  BY <1>2, <1>3
<1>5. t # <<>>
  BY <1>2, <1>4, BytesTyped, Zenon
<1>6. t[1] = x[1]
  BY <1>1, <1>4, FrontStays, Zenon
<1> QED BY <1>1, <1>2, <1>5, <1>6, Zenon DEF Window

\* Reading on.
LEMMA OnOK ==
    ASSUME NEW srv, NEW old, old # "request", NEW buf, NEW x, NEW u, NEW t, Window(buf, x, u, t),
           NEW phase \in Reading, srv = "http" => phase = "init",
           phase = "socks5" => x[1] = 5, phase = "socks4" => x[1] # 5 /\ x[1] < 32,
           phase = "http" => ~(x[1] < 32)
    PROVE  StepOK(srv, old, Hs(phase, buf, NoRequest, <<>>), u, t)
<1>1. PICK h : h = Hs(phase, buf, NoRequest, <<>>)
  OBVIOUS
<1>2. h.phase = phase /\ h.buf = buf /\ h.req = NoRequest /\ h.out = <<>>
  BY <1>1 DEF Hs
<1>3. phase \notin {"request", "done", "failed"}
  BY Phases, Zenon
<1>4. HsOK(srv, phase, buf, NoRequest, u, t)
  BY <1>3, Zenon DEF HsOK, Window
<1>5. <<>> \in Bytes
  BY FewBytes, Zenon
<1>6. OutOK(old, phase, <<>>, t)
  BY <1>3, <1>5, Zenon DEF OutOK
<1> QED BY <1>1, <1>2, <1>4, <1>6, Zenon DEF StepOK

LEMMA AnswersAreBytes ==
    GreetingAnswer(NoPassword) \in Bytes /\ GreetingAnswer(NotAccepted) \in Bytes /\ <<>> \in Bytes
BY DEF GreetingAnswer, NoPassword, NotAccepted, Bytes, Byte

LEMMA Socks5ParsedOK ==
    ASSUME NEW srv, srv # "http", NEW old, old # "request", NEW buf, NEW x, NEW u, NEW t, Window(buf, x, u, t),
           NEW r, r = ParseGreeting(x), r.st = "ok"
    PROVE  StepOK(srv, old, Socks5Parsed(buf, r), u, t)
<1>1. /\ Holds(buf, x) /\ x \in Bytes /\ u \in Bytes /\ t \in Bytes /\ t = x \o u
      /\ t # <<>> /\ t[1] = x[1]
  BY Zenon DEF Window
<1>2. Sound(r, Len(x)) /\ (r # Incomplete => ParseGreeting(t) = r)
  BY <1>1, GreetingSettles, Zenon DEF Settled
<1>3. r # Incomplete /\ r.used \in 1..Len(x) /\ r = Parsed(r.used, r.value)
  BY <1>2, SoundStates, Results, Zenon
<1>4. x[1] = 5
  BY <1>1, GreetingFirst, Zenon
<1>5. PICK g \in Bytes, y \in Bytes : /\ x = g \o y /\ Len(g) = r.used /\ y = From(x, r.used + 1)
  <2>1. PICK n : n = r.used
    OBVIOUS
  <2>2. n \in 1..Len(x)
    BY <1>3, <2>1, Zenon
  <2>3. /\ SubSeq(x, 1, n) \in Bytes /\ Len(SubSeq(x, 1, n)) = n
        /\ From(x, n + 1) \in Bytes /\ x = SubSeq(x, 1, n) \o From(x, n + 1)
    BY <1>1, <2>2, Cut, Zenon
  <2> QED BY <2>1, <2>3, Zenon
<1>6. PICK b2 : b2 = AdvanceRead(buf, r.used)
  OBVIOUS
<1>7. Holds(b2, y)
  BY <1>1, <1>3, <1>5, <1>6, AdvancedHolds, Zenon
<1>8. t = g \o (y \o u)
  <2>1. Assoc(g, y, u)
    BY <1>1, <1>5, CatAssoc3, Zenon
  <2> QED BY <1>1, <1>5, <2>1, Zenon DEF Assoc
<1>9. ParseGreeting(t) = r
  BY <1>2, <1>3, Zenon
<1>10. CASE \E i \in DOMAIN r.value : r.value[i] = NoPassword
  <2>1. GreetedIn(t, y \o u)
    BY <1>3, <1>5, <1>8, <1>9, <1>10, Zenon DEF GreetedIn
  <2>2. Socks5Parsed(buf, r) = AwaitRequest(b2, GreetingAnswer(NoPassword))
    BY <1>6, <1>10, Zenon DEF Socks5Parsed, Greeted
  <2>3. StepOK(srv, old, AwaitRequest(b2, GreetingAnswer(NoPassword)), u, t)
    BY <1>1, <1>4, <1>7, <2>1, AnswersAreBytes, AwaitOK, Zenon
  <2> QED BY <2>2, <2>3, Zenon
<1>11. CASE ~(\E i \in DOMAIN r.value : r.value[i] = NoPassword)
  <2>1. Socks5Parsed(buf, r) = Fail(b2, GreetingAnswer(NotAccepted))
    BY <1>6, <1>11, Zenon DEF Socks5Parsed, Greeted
  <2>2. Socks5AtOnce(t) = Invalid
    BY <1>9, <1>11, Zenon DEF Socks5AtOnce
  <2>3. MeantBy(srv, t) = Socks5AtOnce(t)
    BY <1>1, <1>4 DEF MeantBy, AtOnce
  <2>4. MeantBy(srv, t).st = "error"
    BY <2>2, <2>3, Results, Zenon
  <2>5. StepOK(srv, old, Fail(b2, GreetingAnswer(NotAccepted)), u, t)
    BY <1>1, <1>4, <1>7, <2>4, AnswersAreBytes, FailOK, Zenon
  <2> QED BY <2>1, <2>5, Zenon
<1> QED BY <1>10, <1>11

\* Where nothing is answered.
LEMMA SilentOK ==
    ASSUME NEW old, NEW t, t = <<>> \/ t[1] # 5
    PROVE  OutOK(old, "done", <<>>, t)
<1>1. "done" \notin Reading
  BY DEF Reading
<1> QED BY <1>1, AnswersAreBytes, Zenon DEF OutOK

LEMMA Socks4ParsedOK ==
    ASSUME NEW srv, srv # "http", NEW old, NEW buf, NEW x, NEW u, NEW t, Window(buf, x, u, t),
           NEW r, r = ParseSocks4(x), r.st = "ok"
    PROVE  StepOK(srv, old, Socks4Parsed(buf, r), u, t)
<1>1. /\ Holds(buf, x) /\ x \in Bytes /\ u \in Bytes /\ t \in Bytes /\ t = x \o u
      /\ t # <<>> /\ t[1] = x[1]
  BY Zenon DEF Window
<1>2. Sound(r, Len(x)) /\ (r # Incomplete => ParseSocks4(t) = r)
  BY <1>1, Socks4Settles, Zenon DEF Settled
<1>3. r # Incomplete /\ r.used \in 1..Len(x)
  BY <1>2, SoundStates, Results, Zenon
<1>4. t[1] = 4 /\ t[1] # 5
  <2>1. t[1] = 4
    BY <1>1, Socks4First, Zenon
  <2> QED BY <2>1
<1>5. MeantBy(srv, t) = Socks4AtOnce(t)
  BY <1>1, <1>4 DEF MeantBy, AtOnce
<1>6. ParseSocks4(t) = r
  BY <1>2, <1>3, Zenon
<1>7. CASE r.value.cmd = ConnectTcp
  <2>1. PICK req : req = Request("TCP", "socks4", r.value.addr)
    OBVIOUS
  <2>2. Socks4Parsed(buf, r) = Hs("done", AdvanceRead(buf, r.used), req, <<>>)
    BY <1>7, <2>1, Zenon DEF Socks4Parsed
  <2>3. MeantBy(srv, t) = Parsed(r.used, req)
    BY <1>5, <1>6, <1>7, <2>1, Zenon DEF Socks4AtOnce
  <2>4. MeantBy(srv, t).st = "ok" /\ MeantBy(srv, t).value = req /\ MeantBy(srv, t).used = r.used
    <3>1. PICK m : m = Parsed(r.used, req)
      OBVIOUS
    <3>2. m.st = "ok" /\ m.value = req /\ m.used = r.used
      BY <3>1 DEF Parsed
    <3> QED BY <2>3, <3>1, <3>2, Zenon
  <2>5. From(x \o u, r.used + 1) = From(t, MeantBy(srv, t).used + 1)
    BY <1>1, <2>4, Zenon
  <2>6. OutOK(old, "done", <<>>, t)
    BY <1>4, SilentOK, Zenon
  <2>7. StepOK(srv, old, Hs("done", AdvanceRead(buf, r.used), req, <<>>), u, t)
    BY <1>1, <1>3, <2>4, <2>5, <2>6, AnswersAreBytes, DoneOK, Zenon
  <2> QED BY <2>2, <2>7, Zenon
<1>8. CASE r.value.cmd # ConnectTcp
  <2>1. Socks4Parsed(buf, r) = Fail(buf, <<>>)
    BY <1>8, Zenon DEF Socks4Parsed
  <2>2. MeantBy(srv, t) = Invalid
    BY <1>5, <1>6, <1>8, Zenon DEF Socks4AtOnce
  <2>3. MeantBy(srv, t).st = "error"
    BY <2>2, Results, Zenon
  <2>4. StepOK(srv, old, Fail(buf, <<>>), u, t)
    BY <1>1, <2>3, AnswersAreBytes, FailOK, Zenon
  <2> QED BY <2>1, <2>4, Zenon
<1> QED BY <1>7, <1>8

LEMMA HttpParsedOK ==
    ASSUME NEW srv, NEW old, NEW buf, NEW x, NEW u, NEW t, Window(buf, x, u, t),
           MeantBy(srv, t) = HttpAtOnce(t), t[1] # 5,
           NEW r, r = ParseHead(x), r.st = "ok"
    PROVE  StepOK(srv, old, HttpParsed(buf, r), u, t)
<1>1. /\ Holds(buf, x) /\ x \in Bytes /\ u \in Bytes /\ t \in Bytes /\ t = x \o u
  BY Zenon DEF Window
<1>2. Sound(r, Len(x)) /\ (r # Incomplete => ParseHead(t) = r)
  BY <1>1, HeadSettles, Zenon DEF Settled
<1>3. r # Incomplete /\ r.used \in 1..Len(x)
  BY <1>2, SoundStates, Results, Zenon
<1>4. ParseHead(t) = r
  BY <1>2, <1>3, Zenon
<1>5. PICK reqs : reqs = ReadHead(r.value)
  OBVIOUS
<1>6. CASE reqs = {}
  <2>1. HttpParsed(buf, r) = Fail(buf, <<>>)
    BY <1>5, <1>6, Zenon DEF HttpParsed
  <2>2. MeantBy(srv, t) = Invalid
    BY <1>4, <1>5, <1>6, Zenon DEF HttpAtOnce
  <2>3. MeantBy(srv, t).st = "error"
    BY <2>2, Results, Zenon
  <2>4. StepOK(srv, old, Fail(buf, <<>>), u, t)
    BY <1>1, <2>3, AnswersAreBytes, FailOK, Zenon
  <2> QED BY <2>1, <2>4, Zenon
<1>7. CASE reqs # {}
  <2>1. PICK req : req = AskedBy(r.value)
    OBVIOUS
  <2>2. HttpParsed(buf, r) = Hs("done", AdvanceRead(buf, r.used), req, <<>>)
    BY <1>5, <1>7, <2>1, Zenon DEF HttpParsed
  <2>3. MeantBy(srv, t) = Parsed(r.used, req)
    BY <1>4, <1>5, <1>7, <2>1, Zenon DEF HttpAtOnce
  <2>4. MeantBy(srv, t).st = "ok" /\ MeantBy(srv, t).value = req /\ MeantBy(srv, t).used = r.used
    <3>1. PICK m : m = Parsed(r.used, req)
      OBVIOUS
    <3>2. m.st = "ok" /\ m.value = req /\ m.used = r.used
      BY <3>1 DEF Parsed
    <3> QED BY <2>3, <3>1, <3>2, Zenon
  <2>5. From(x \o u, r.used + 1) = From(t, MeantBy(srv, t).used + 1)
    BY <1>1, <2>4, Zenon
  <2>6. OutOK(old, "done", <<>>, t)
    BY SilentOK, Zenon
  <2>7. StepOK(srv, old, Hs("done", AdvanceRead(buf, r.used), req, <<>>), u, t)
    BY <1>1, <1>3, <2>4, <2>5, <2>6, AnswersAreBytes, DoneOK, Zenon
  <2> QED BY <2>2, <2>7, Zenon
<1> QED BY <1>6, <1>7

\* The protocols that are left, and the one that Handshaker::start settles on.
Left(p5, p4, ph) == {p \in {<<"socks5", p5>>, <<"socks4", p4>>, <<"http", ph>>} : p[2].st = "incomplete"}

TheOne(left) == IF \E p \in left : left = {p} THEN (CHOOSE p \in left : TRUE)[1] ELSE "init"

OnlyLeft(q, p5, p4, ph) ==
    /\ q \in Reading
    /\ q = "socks5" => p5.st = "incomplete" /\ p4.st = "error" /\ ph.st = "error"
    /\ q = "socks4" => p5.st = "error" /\ ph.st = "error"
    /\ q = "http" => ph.st = "incomplete"

LEMMA SettleIs ==
    ASSUME NEW p5, NEW p4, NEW ph,
           p5.st \in {"incomplete", "error"}, p4.st \in {"incomplete", "error"}, ph.st \in {"incomplete", "error"}
    PROVE  OnlyLeft(TheOne(Left(p5, p4, ph)), p5, p4, ph)
<1>1. PICK a : a = <<"socks5", p5>>
  OBVIOUS
<1>2. PICK b : b = <<"socks4", p4>>
  OBVIOUS
<1>3. PICK c : c = <<"http", ph>>
  OBVIOUS
<1>4. a[1] = "socks5" /\ a[2] = p5 /\ b[1] = "socks4" /\ b[2] = p4 /\ c[1] = "http" /\ c[2] = ph
  BY <1>1, <1>2, <1>3
<1>5. a # b /\ a # c /\ b # c
  BY <1>4
<1>6. PICK left : left = Left(p5, p4, ph)
  OBVIOUS
<1>7. PICK q : q = TheOne(left)
  OBVIOUS
<1>8. \A p : p \in left <=> p \in {a, b, c} /\ p[2].st = "incomplete"
  BY <1>1, <1>2, <1>3, <1>6, Zenon DEF Left
<1>9. CASE \E p \in left : left = {p}
  <2>1. PICK p \in left : left = {p}
    BY <1>9
  <2>2. PICK e : e = CHOOSE o \in left : TRUE
    OBVIOUS
  <2>3. e \in left
    BY <2>1, <2>2, Zenon
  <2>4. e = p /\ q = p[1]
    <3>1. e = p
      BY <2>1, <2>3, Zenon
    <3>2. q = e[1]
      BY <1>7, <1>9, <2>2, Zenon DEF TheOne
    <3> QED BY <3>1, <3>2, Zenon
  <2>5. p \in {a, b, c} /\ p[2].st = "incomplete" /\ \A o \in {a, b, c} : o[2].st = "incomplete" => o = p
    <3>1. \A o : o \in left <=> o = p
      BY <2>1, Zenon
    <3> QED BY <1>8, <3>1, Zenon
  <2>6. CASE p = a
    <3>1. q = "socks5" /\ p5.st = "incomplete"
      BY <1>4, <2>4, <2>5, <2>6, Zenon
    <3>2. p4.st # "incomplete" /\ ph.st # "incomplete"
      BY <1>4, <1>5, <2>5, <2>6, Zenon
    <3>3. q \in Reading /\ q # "socks4" /\ q # "http"
      BY <3>1 DEF Reading
    <3> QED BY <1>6, <1>7, <3>1, <3>2, <3>3, Zenon DEF OnlyLeft
  <2>7. CASE p = b
    <3>1. q = "socks4"
      BY <1>4, <2>4, <2>5, <2>7, Zenon
    <3>2. p5.st # "incomplete" /\ ph.st # "incomplete"
      BY <1>4, <1>5, <2>5, <2>7, Zenon
    <3>3. q \in Reading /\ q # "socks5" /\ q # "http"
      BY <3>1 DEF Reading
    <3> QED BY <1>6, <1>7, <3>1, <3>2, <3>3, Zenon DEF OnlyLeft
  <2>8. CASE p = c
    <3>1. q = "http" /\ ph.st = "incomplete"
      BY <1>4, <2>4, <2>5, <2>8, Zenon
    <3>3. q \in Reading /\ q # "socks5" /\ q # "socks4"
      BY <3>1 DEF Reading
    <3> QED BY <1>6, <1>7, <3>1, <3>3, Zenon DEF OnlyLeft
  <2> QED BY <2>5, <2>6, <2>7, <2>8, Zenon
<1>10. CASE ~(\E p \in left : left = {p})
  <2>1. q = "init"
    BY <1>7, <1>10, Zenon DEF TheOne
  <2> QED BY <1>6, <1>7, <2>1, Phases, Zenon DEF OnlyLeft
<1> QED BY <1>9, <1>10

\* ParseState::Init.
LEMMA DetectOK ==
    ASSUME NEW srv, srv # "http", NEW old, old # "request", NEW buf, NEW x, NEW u, NEW t, Window(buf, x, u, t)
    PROVE  StepOK(srv, old, Detect(buf), u, t)
<1>1. /\ Holds(buf, x) /\ x \in Bytes /\ u \in Bytes /\ t \in Bytes /\ t = x \o u /\ ReadBuf(buf) = x
      /\ x # <<>> /\ t # <<>> /\ t[1] = x[1]
  BY Zenon DEF Window
<1>2. PICK p5 : p5 = ParseGreeting(x)
  OBVIOUS
<1>3. PICK p4 : p4 = ParseSocks4(x)
  OBVIOUS
<1>4. PICK ph : ph = ParseHead(x)
  OBVIOUS
<1>5. Sound(p5, Len(x)) /\ Sound(p4, Len(x)) /\ Sound(ph, Len(x))
  BY <1>1, <1>2, <1>3, <1>4, GreetingSettles, Socks4Settles, HeadSettles, Zenon DEF Settled
<1>6. /\ p5.st \in {"incomplete", "error", "ok"} /\ p4.st \in {"incomplete", "error", "ok"}
      /\ ph.st \in {"incomplete", "error", "ok"} /\ (ph.st = "error" <=> ph = Invalid)
  BY <1>5, SoundStates, Zenon
<1>7. ph.st = "error" <=> x[1] < 32
  BY <1>1, <1>4, <1>6, HeadFirst, Zenon
<1>8. CASE p5.st = "ok"
  <2>1. Detect(buf) = Socks5Parsed(buf, p5)
    BY <1>1, <1>2, <1>8 DEF Detect
  <2>2. StepOK(srv, old, Socks5Parsed(buf, p5), u, t)
    BY <1>2, <1>8, Socks5ParsedOK, Zenon
  <2> QED BY <2>1, <2>2, Zenon
<1>9. CASE p5.st # "ok" /\ p4.st = "ok"
  <2>1. Detect(buf) = Socks4Parsed(buf, p4)
    BY <1>1, <1>2, <1>3, <1>9 DEF Detect
  <2>2. StepOK(srv, old, Socks4Parsed(buf, p4), u, t)
    BY <1>3, <1>9, Socks4ParsedOK, Zenon
  <2> QED BY <2>1, <2>2, Zenon
<1>10. CASE p5.st # "ok" /\ p4.st # "ok" /\ ph.st = "ok"
  <2>1. Detect(buf) = HttpParsed(buf, ph)
    BY <1>1, <1>2, <1>3, <1>4, <1>10 DEF Detect
  <2>2. ~(x[1] < 32)
    <3>1. "ok" # "error"
      OBVIOUS
    <3> QED BY <1>7, <1>10, <3>1, Zenon
  <2>3. t[1] # 5 /\ t[1] # 4
    BY <1>1, <2>2
  <2>4. MeantBy(srv, t) = HttpAtOnce(t)
    BY <1>1, <2>3 DEF MeantBy, AtOnce
  <2>5. StepOK(srv, old, HttpParsed(buf, ph), u, t)
    BY <1>4, <1>10, <2>3, <2>4, HttpParsedOK, Zenon
  <2> QED BY <2>1, <2>5, Zenon
<1>11. CASE p5.st = "error" /\ p4.st = "error" /\ ph.st = "error"
  <2>1. Detect(buf) = Fail(buf, <<>>)
    BY <1>1, <1>2, <1>3, <1>4, <1>11 DEF Detect
  <2>2. t[1] # 5 /\ t[1] # 4 /\ t[1] < 32
    BY <1>1, <1>2, <1>3, <1>7, <1>11, GreetingFirst, Socks4First, Zenon
  <2>3. MeantBy(srv, t) = HttpAtOnce(t)
    BY <1>1, <2>2 DEF MeantBy, AtOnce
  <2>4. MeantBy(srv, t) = Invalid
    BY <1>1, <2>2, <2>3, HeadFirst, Zenon
  <2>5. MeantBy(srv, t).st = "error"
    BY <2>4, Results, Zenon
  <2>6. StepOK(srv, old, Fail(buf, <<>>), u, t)
    BY <1>1, <2>5, AnswersAreBytes, FailOK, Zenon
  <2> QED BY <2>1, <2>6, Zenon
<1>12. CASE /\ p5.st \in {"incomplete", "error"} /\ p4.st \in {"incomplete", "error"}
            /\ ph.st \in {"incomplete", "error"}
            /\ ~(p5.st = "error" /\ p4.st = "error" /\ ph.st = "error")
  <2>1. PICK q : q = TheOne(Left(p5, p4, ph))
    OBVIOUS
  <2>2. Detect(buf) = Hs(q, buf, NoRequest, <<>>)
    <3>1. /\ p5.st # "ok" /\ p4.st # "ok" /\ ph.st # "ok"
          /\ ~(\A p \in {p5, p4, ph} : p.st = "error")
      BY <1>12
    <3> QED BY <1>1, <1>2, <1>3, <1>4, <2>1, <3>1, Zenon DEF Detect, TheOne, Left
  <2>3. /\ q \in Reading
        /\ q = "socks5" => p5.st = "incomplete" /\ p4.st = "error" /\ ph.st = "error"
        /\ q = "socks4" => p5.st = "error" /\ ph.st = "error"
        /\ q = "http" => ph.st = "incomplete"
    <3>1. OnlyLeft(TheOne(Left(p5, p4, ph)), p5, p4, ph)
      <4>1. /\ p5.st \in {"incomplete", "error"} /\ p4.st \in {"incomplete", "error"}
            /\ ph.st \in {"incomplete", "error"}
        BY <1>12
      <4> HIDE <1>12
      <4> QED BY <4>1, SettleIs
    <3> QED BY <2>1, <3>1, Zenon DEF OnlyLeft
  <2>4. q = "socks5" => x[1] = 5
    BY <1>1, <1>2, <1>3, <2>3, GreetingFirst, Socks4First, Zenon
  <2>5. q = "socks4" => x[1] # 5 /\ x[1] < 32
    BY <1>1, <1>2, <1>7, <2>3, GreetingFirst, Zenon
  <2>6. q = "http" => ~(x[1] < 32)
    <3>1. "incomplete" # "error"
      OBVIOUS
    <3> QED BY <1>7, <2>3, <3>1, Zenon
  <2>7. StepOK(srv, old, Hs(q, buf, NoRequest, <<>>), u, t)
    BY <2>3, <2>4, <2>5, <2>6, OnOK, Zenon
  <2> QED BY <2>2, <2>7, Zenon
<1> QED BY <1>6, <1>8, <1>9, <1>10, <1>11, <1>12, Zenon

Updated(h, buf, e) == [h EXCEPT !.buf = buf, !.out = e]

LEMMA HsUpdated ==
    ASSUME NEW ph, NEW b, NEW r, NEW o, NEW buf, NEW e
    PROVE  Updated(Hs(ph, b, r, o), buf, e) = Hs(ph, buf, r, e)
<1>1. PICK h : h = Hs(ph, b, r, o)
  OBVIOUS
<1>2. PICK g : g = [h EXCEPT !.buf = buf, !.out = e]
  OBVIOUS
<1>3. h = [phase |-> ph, buf |-> b, req |-> r, out |-> o]
  BY <1>1, Zenon DEF Hs
<1>4. DOMAIN g = {"phase", "buf", "req", "out"} /\ g.phase = ph /\ g.buf = buf /\ g.req = r /\ g.out = e
  BY <1>2, <1>3
<1>5. g = [phase |-> ph, buf |-> buf, req |-> r, out |-> e]
  BY <1>2, <1>3, <1>4
<1> QED BY <1>1, <1>2, <1>5, Zenon DEF Hs, Updated

\* A settled protocol.
LEMMA ContinueOK ==
    ASSUME NEW srv, NEW hs, NEW d \in Bytes, d # <<>>, Len(d) <= Room(hs.buf), NEW u \in Bytes, NEW t,
           hs = Hs(hs.phase, hs.buf, hs.req, hs.out),
           HsOK(srv, hs.phase, hs.buf, hs.req, d \o u, t), hs.phase \in Reading
    PROVE  /\ Window(Filled(hs.buf, d), ReadBuf(hs.buf) \o d, u, t)
           /\ StepOK(srv, hs.phase, [hs EXCEPT !.buf = Filled(hs.buf, d), !.out = <<>>], u, t)
<1>1. PICK x : x = ReadBuf(hs.buf)
  OBVIOUS
<1>2. PICK ph : ph = hs.phase
  OBVIOUS
<1>3. PICK buf : buf = Filled(hs.buf, d)
  OBVIOUS
<1>4. /\ Holds(hs.buf, x) /\ t = x \o (d \o u) /\ hs.req = NoRequest /\ (srv = "http" => ph \in {"init", "done", "failed"})
      /\ (ph = "socks5" => x # <<>> /\ x[1] = 5)
      /\ (ph = "socks4" => x # <<>> /\ x[1] # 5 /\ x[1] < 32)
      /\ (ph = "http" => x # <<>> /\ ~(x[1] < 32))
  BY <1>1, <1>2, Zenon DEF HsOK
<1>5. x \in Bytes
  BY <1>4, Zenon DEF Holds
<1>6. PICK y : y = x \o d
  OBVIOUS
<1>7. Holds(buf, y)
  BY <1>3, <1>4, <1>6, FilledHolds, Zenon
<1>8. y # <<>> /\ (x # <<>> => y[1] = x[1])
  <2>1. Len(y) = Len(x) + Len(d) /\ y \in Bytes /\ Len(x) \in Nat /\ Len(d) \in Nat /\ Len(d) # 0
    BY <1>5, <1>6, FrontStays, BytesTyped, Zenon
  <2>2. Len(y) # 0
    BY <2>1
  <2>3. y # <<>>
    BY <2>1, <2>2, BytesTyped, Zenon
  <2>4. ASSUME x # <<>> PROVE y[1] = x[1]
    <3>1. Len(x) # 0
      BY <1>5, <2>4, BytesTyped, Zenon
    <3>2. 1 \in 1..Len(x)
      BY <2>1, <3>1
    <3> QED BY <1>5, <1>6, <3>2, FrontStays, Zenon
  <2> QED BY <2>3, <2>4
<1>9. t = y \o u
  <2>1. Assoc(x, d, u)
    BY <1>5, CatAssoc3, Zenon
  <2> QED BY <1>4, <1>6, <2>1, Zenon DEF Assoc
<1>10. Window(buf, y, u, t)
  BY <1>7, <1>8, <1>9, WindowIs, Zenon
<1>11. [hs EXCEPT !.buf = buf, !.out = <<>>] = Hs(ph, buf, NoRequest, <<>>)
  <2>1. PICK b, o : hs = [phase |-> ph, buf |-> b, req |-> NoRequest, out |-> o]
    BY <1>2, <1>4, Zenon DEF Hs
  <2>2. hs = Hs(ph, b, NoRequest, o)
    BY <2>1, Zenon DEF Hs
  <2>3. Updated(hs, buf, <<>>) = Hs(ph, buf, NoRequest, <<>>)
    <3>1. Updated(Hs(ph, b, NoRequest, o), buf, <<>>) = Hs(ph, buf, NoRequest, <<>>)
      BY HsUpdated
    <3> QED BY <2>2, <3>1
  <2> QED BY <2>3, Zenon DEF Updated
<1>12. srv = "http" => ph = "init"
  <2>1. ph \in Reading => ph # "done" /\ ph # "failed"
    BY Phases
  <2> QED BY <1>2, <1>4, <2>1
<1>13. StepOK(srv, ph, Hs(ph, buf, NoRequest, <<>>), u, t)
  <2>1. (ph = "socks5" => y[1] = 5) /\ (ph = "socks4" => y[1] # 5 /\ y[1] < 32) /\ (ph = "http" => ~(y[1] < 32))
    BY <1>4, <1>8, Zenon
  <2>2. ph \in Reading /\ ph # "request"
    BY <1>2, Phases
  <2> HIDE <1>4, <1>8
  <2> QED BY <1>10, <1>12, <2>1, <2>2, OnOK, Zenon
<1> QED BY <1>1, <1>2, <1>3, <1>6, <1>10, <1>11, <1>13, Zenon

\* The bytes of a greeting stand at the front.
LEMMA GreetedFirst ==
    ASSUME NEW t \in Bytes, NEW z, GreetedIn(t, z)
    PROVE  t # <<>> /\ t[1] = 5
<1>1. PICK g, v : ParseGreeting(t) = Parsed(Len(g), v)
  BY Zenon DEF GreetedIn
<1>2. ParseGreeting(t).st = "ok"
  BY <1>1 DEF Parsed
<1> QED BY <1>2, GreetingFirst, Zenon

StepOf(srv, hs, d) == IF srv = "handshaker" THEN HandshakeStep(hs, d) ELSE ParseRequestStep(hs, d)

\* The step of a handshake: however the bytes are cut into reads, it ends with what
\* they mean, and no byte gets lost.
LEMMA HandshakeStepOK ==
    ASSUME NEW srv, srv \in {"handshaker", "http"},
           NEW hs, NEW d \in Bytes, d # <<>>, Len(d) <= Room(hs.buf), NEW u \in Bytes, NEW t \in Bytes,
           hs = Hs(hs.phase, hs.buf, hs.req, hs.out),
           HsOK(srv, hs.phase, hs.buf, hs.req, d \o u, t), hs.phase \in Reading \cup {"request"}
    PROVE  StepOK(srv, hs.phase, StepOf(srv, hs, d), u, t)
<1>1. PICK buf : buf = Filled(hs.buf, d)
  OBVIOUS
<1>2. PICK x : x = ReadBuf(hs.buf) \o d
  OBVIOUS
<1>3. CASE hs.phase \in Reading
  <2>1. Window(buf, x, u, t) /\ StepOK(srv, hs.phase, [hs EXCEPT !.buf = buf, !.out = <<>>], u, t)
    BY <1>1, <1>2, <1>3, ContinueOK, Zenon
  <2>2. ReadBuf(buf) = x /\ x \in Bytes /\ x # <<>> /\ t # <<>> /\ t[1] = x[1] /\ Holds(buf, x)
    BY <2>1, Zenon DEF Window
  <2>3. hs.phase # "request"
    BY <1>3, Phases
  <2>4. PICK r5 : r5 = ParseGreeting(x)
    OBVIOUS
  <2>5. PICK r4 : r4 = ParseSocks4(x)
    OBVIOUS
  <2>6. PICK rh : rh = ParseHead(x)
    OBVIOUS
  <2>7. Sound(r5, Len(x)) /\ Sound(r4, Len(x)) /\ Sound(rh, Len(x))
    BY <2>2, <2>4, <2>5, <2>6, GreetingSettles, Socks4Settles, HeadSettles, AnswersAreBytes, Zenon DEF Settled
  <2>8. /\ r5.st \in {"incomplete", "error", "ok"} /\ r4.st \in {"incomplete", "error", "ok"}
        /\ rh.st \in {"incomplete", "error", "ok"} /\ (rh.st = "error" <=> rh = Invalid)
    BY <2>7, SoundStates, Zenon
  <2>9. PICK on : on = [hs EXCEPT !.buf = buf, !.out = <<>>]
    OBVIOUS
  <2>10. rh.st = "error" <=> x[1] < 32
    BY <2>2, <2>6, <2>8, HeadFirst, Zenon
  <2> HIDE <1>2, <2>1
  <2>20. Window(buf, x, u, t) /\ StepOK(srv, hs.phase, on, u, t)
    BY <2>1, <2>9, Zenon
  <2>21. /\ (hs.phase = "socks5" => x[1] = 5) /\ (hs.phase = "socks4" => x[1] # 5 /\ x[1] < 32)
         /\ (hs.phase = "http" => ~(x[1] < 32))
    <3>1. on.phase = hs.phase /\ on.buf = buf
      BY <2>9 DEF Hs
    <3>2. HsOK(srv, hs.phase, buf, on.req, u, t)
      BY <2>20, <3>1, Zenon DEF StepOK
    <3> QED BY <2>2, <3>2, Zenon DEF HsOK
  \* the head of an HTTP request
  <2>11. ASSUME MeantBy(srv, t) = HttpAtOnce(t), t[1] # 5 \/ srv = "http"
         PROVE  StepOK(srv, hs.phase, Continue(hs, buf, rh, HttpParsed), u, t)
    <3>1. CASE rh.st = "ok"
      <4>1. Continue(hs, buf, rh, HttpParsed) = HttpParsed(buf, rh)
        BY <3>1 DEF Continue
      <4>2. t[1] # 5
        <5>1. ~(x[1] < 32)
          BY <2>10, <3>1
        <5> QED BY <2>2, <5>1
      <4>3. StepOK(srv, hs.phase, HttpParsed(buf, rh), u, t)
        BY <2>20, <2>6, <2>11, <3>1, <4>2, HttpParsedOK, Zenon
      <4> QED BY <4>1, <4>3, Zenon
    <3>2. CASE rh.st = "error"
      <4>1. Continue(hs, buf, rh, HttpParsed) = Fail(buf, <<>>)
        BY <3>2 DEF Continue
      <4>2. MeantBy(srv, t).st = "error"
        BY <2>2, <2>10, <2>11, <3>2, HeadFirst, Results, Zenon
      <4>3. StepOK(srv, hs.phase, Fail(buf, <<>>), u, t)
        BY <2>2, <4>2, AnswersAreBytes, FailOK, Zenon
      <4> QED BY <4>1, <4>3, Zenon
    <3>3. CASE rh.st = "incomplete"
      <4>1. Continue(hs, buf, rh, HttpParsed) = on
        BY <2>9, <3>3 DEF Continue
      <4> QED BY <2>20, <4>1, Zenon
    <3> QED BY <2>8, <3>1, <3>2, <3>3
  <2>12. CASE srv = "http"
    <3>1. StepOf(srv, hs, d) = Continue(hs, buf, rh, HttpParsed)
      BY <1>1, <2>2, <2>6, <2>12 DEF StepOf, ParseRequestStep
    <3>2. MeantBy(srv, t) = HttpAtOnce(t)
      BY <2>12 DEF MeantBy
    <3> QED BY <2>11, <2>12, <3>1, <3>2, Zenon
  <2>13. CASE srv = "handshaker" /\ hs.phase = "init"
    <3>1. StepOf(srv, hs, d) = Detect(buf)
      BY <1>1, <2>13 DEF StepOf, HandshakeStep
    <3>2. srv # "http"
      BY <2>13
    <3>3. StepOK(srv, hs.phase, Detect(buf), u, t)
      BY <2>3, <2>20, <3>2, DetectOK, Zenon
    <3> QED BY <3>1, <3>3, Zenon
  <2>14. CASE srv = "handshaker" /\ hs.phase = "http"
    <3>1. StepOf(srv, hs, d) = Continue(hs, buf, rh, HttpParsed)
      BY <1>1, <2>2, <2>6, <2>14 DEF StepOf, HandshakeStep
    <3>2. ~(x[1] < 32)
      BY <2>14, <2>21, Zenon
    <3>3. MeantBy(srv, t) = HttpAtOnce(t) /\ t[1] # 5
      BY <2>2, <2>14, <3>2 DEF MeantBy, AtOnce
    <3> QED BY <2>11, <3>1, <3>3, Zenon
  <2>15. CASE srv = "handshaker" /\ hs.phase = "socks5"
    <3>1. StepOf(srv, hs, d) = Continue(hs, buf, r5, Socks5Parsed)
      BY <1>1, <2>2, <2>4, <2>15 DEF StepOf, HandshakeStep
    <3>2. x[1] = 5 /\ srv # "http"
      BY <2>15, <2>21
    <3>3. CASE r5.st = "ok"
      <4>1. Continue(hs, buf, r5, Socks5Parsed) = Socks5Parsed(buf, r5)
        BY <3>3 DEF Continue
      <4>2. StepOK(srv, hs.phase, Socks5Parsed(buf, r5), u, t)
        BY <2>3, <2>4, <2>20, <3>2, <3>3, Socks5ParsedOK, Zenon
      <4> QED BY <3>1, <4>1, <4>2, Zenon
    <3>4. CASE r5.st = "incomplete"
      <4>1. Continue(hs, buf, r5, Socks5Parsed) = on
        BY <2>9, <3>4 DEF Continue
      <4> QED BY <2>20, <3>1, <4>1, Zenon
    <3>5. r5.st # "error"
      BY <2>2, <2>4, <3>2, GreetingFirst, Zenon
    <3> QED BY <2>8, <3>3, <3>4, <3>5
  <2>16. CASE srv = "handshaker" /\ hs.phase = "socks4"
    <3>1. StepOf(srv, hs, d) = Continue(hs, buf, r4, Socks4Parsed)
      BY <1>1, <2>2, <2>5, <2>16 DEF StepOf, HandshakeStep
    <3>2. x[1] # 5 /\ x[1] < 32 /\ srv # "http"
      BY <2>16, <2>21
    <3>3. CASE r4.st = "ok"
      <4>1. Continue(hs, buf, r4, Socks4Parsed) = Socks4Parsed(buf, r4)
        BY <3>3 DEF Continue
      <4>2. StepOK(srv, hs.phase, Socks4Parsed(buf, r4), u, t)
        BY <2>5, <2>20, <3>2, <3>3, Socks4ParsedOK, Zenon
      <4> QED BY <3>1, <4>1, <4>2, Zenon
    <3>4. CASE r4.st = "incomplete"
      <4>1. Continue(hs, buf, r4, Socks4Parsed) = on
        BY <2>9, <3>4 DEF Continue
      <4> QED BY <2>20, <3>1, <4>1, Zenon
    <3>5. CASE r4.st = "error"
      <4>1. Continue(hs, buf, r4, Socks4Parsed) = Fail(buf, <<>>)
        BY <3>5 DEF Continue
      <4>2. t[1] # 4 /\ t[1] # 5 /\ t[1] < 32
        BY <2>2, <2>5, <3>2, <3>5, Socks4First, Zenon
      <4>3. MeantBy(srv, t) = HttpAtOnce(t)
        BY <2>2, <3>2, <4>2 DEF MeantBy, AtOnce
      <4>4. MeantBy(srv, t).st = "error"
        BY <2>2, <4>2, <4>3, HeadFirst, Results, Zenon
      <4>5. StepOK(srv, hs.phase, Fail(buf, <<>>), u, t)
        BY <2>2, <4>4, AnswersAreBytes, FailOK, Zenon
      <4> QED BY <3>1, <4>1, <4>5, Zenon
    <3> QED BY <2>8, <3>3, <3>4, <3>5
  <2>17. hs.phase \in {"init", "socks5", "socks4", "http"}
    BY <1>3 DEF Reading
  <2> QED BY <2>12, <2>13, <2>14, <2>15, <2>16, <2>17
<1>4. CASE hs.phase = "request"
  <2>1. PICK z : z = ReadBuf(hs.buf)
    OBVIOUS
  <2>2. Holds(hs.buf, z) /\ GreetedIn(t, z \o (d \o u)) /\ (srv = "http" => hs.phase \in {"init", "done", "failed"})
    BY <1>4, <2>1, Zenon DEF HsOK
  <2>3. srv = "handshaker" /\ srv # "http"
    <3>1. srv # "http"
      BY <1>4, <2>2
    <3> QED BY <3>1
  <2>4. Holds(buf, x) /\ z \in Bytes
    <3>1. z \in Bytes
      BY <2>2, Zenon DEF Holds
    <3> QED BY <1>1, <1>2, <2>1, <2>2, <3>1, FilledHolds, Zenon
  <2>5. GreetedIn(t, x \o u)
    <3>1. Assoc(z, d, u)
      BY <2>4, CatAssoc3, Zenon
    <3>2. x \o u = z \o (d \o u)
      BY <1>2, <2>1, <3>1, Zenon DEF Assoc
    <3> QED BY <2>2, <3>2, Zenon
  <2>6. t # <<>> /\ t[1] = 5
    BY <2>5, GreetedFirst, Zenon
  <2>7. StepOf(srv, hs, d) = AwaitRequest(buf, <<>>)
    BY <1>1, <1>4, <2>3 DEF StepOf, HandshakeStep
  <2>8. StepOK(srv, hs.phase, AwaitRequest(buf, <<>>), u, t)
    BY <1>4, <2>3, <2>4, <2>5, <2>6, AnswersAreBytes, AwaitOK, Zenon
  <2> QED BY <2>7, <2>8, Zenon
<1> QED BY <1>3, <1>4

-----------------------------------------------------------------------------
(* The state of a connection.                                               *)

\* The bytes that the client of session s has written when it is in phase p.
Hello == Greeting(<<NoPassword>>)

SentBy(s, p) ==
    CASE s.client = "other" -> s.script \o s.payload
      [] s.client = "http" -> s.head \o s.payload
      [] s.client = "socks5" ->
           IF p = "greeting" THEN Hello
           ELSE IF ~Writable(s.dst) THEN Hello \o <<5, s.cmd, 0>>
           ELSE IF p = "open" /\ s.cmd = ConnectTcp
           THEN Hello \o (ConnRequest(s.cmd, s.dst) \o s.payload)
           ELSE Hello \o ConnRequest(s.cmd, s.dst)

\* The bytes t behind the request are with the target (rel), in the server's
\* buffer or on their way (u).
CarryOK(srv, hs, rel, u, t) ==
    LET x == ReadBuf(hs.buf)
        m == MeantBy(srv, t)
    IN  /\ Holds(hs.buf, x) /\ rel \in Bytes /\ u \in Bytes /\ t \in Bytes
        /\ hs.phase = "done" /\ m.st = "ok" /\ hs.req = m.value
        /\ From(t, m.used + 1) = IF srv = "http" THEN rel \o (x \o u) ELSE x \o (rel \o u)

Before == {"handshake", "connecting", "association", "closed"}
Relaying == {"relay", "ended", "broken"}
Opened == {"relay", "association", "ended", "broken"}

\* The upload.
UpOK(s, p, sv, u) ==
    /\ sv = [phase |-> sv.phase, hs |-> sv.hs, relayed |-> sv.relayed]
    /\ sv.hs = Hs(sv.hs.phase, sv.hs.buf, sv.hs.req, <<>>)
    /\ sv.phase \in Before \cup Relaying
    /\ sv.phase \in Before => sv.relayed = <<>> /\ HsOK(s.server, sv.hs.phase, sv.hs.buf, sv.hs.req, u, SentBy(s, p))
    /\ sv.phase \in Relaying => CarryOK(s.server, sv.hs, sv.relayed, u, SentBy(s, p))
    /\ sv.phase = "handshake" => sv.hs.phase \in Reading \cup {"request"}
    /\ sv.phase \in Opened \cup {"connecting"} => sv.hs.phase = "done"
    /\ s.client = "socks5" /\ sv.hs.phase = "done" => ReadBuf(sv.hs.buf) = <<>>

\* What the server has answered and passed on.
AnswerOf(via, ok) == IF ok THEN RespondOk(via, DefaultAddress) ELSE RespondErr(via)

Answered(s, sv, k) ==
    CASE sv.phase \in Opened -> AnswerOf(sv.hs.req.via, TRUE) \o SubSeq(s.reply, 1, k)
      [] sv.phase = "closed" /\ sv.hs.phase = "done" -> AnswerOf(sv.hs.req.via, FALSE)
      [] OTHER -> <<>>

\* The download, of a session that is one of the upstream protocols'.
WaitOK(s, c, sv, dn, k) ==
    /\ c.phase \in {"greeting", "answer"} => s.client = "socks5" /\ ReadBuf(c.buf) = <<>>
    /\ c.phase = "response" => s.client = "http"
    /\ c.phase = "greeting" =>
         /\ sv.phase = "handshake" /\ c.got = <<>>
         /\ dn = IF sv.hs.phase = "request" THEN GreetingAnswer(NoPassword) ELSE <<>>
    /\ c.phase \in {"answer", "response"} => c.got = <<>> /\ ReadBuf(c.buf) \o dn = Answered(s, sv, k)
    /\ c.phase = "answer" => Writable(s.dst) /\ (sv.phase = "handshake" => sv.hs.phase = "request")
    /\ c.phase = "open" /\ s.client # "other" =>
         /\ sv.phase \in Opened
         /\ s.client = "socks5" => Writable(s.dst)
         /\ c.got \o (ReadBuf(c.buf) \o dn) = SubSeq(s.reply, 1, k)

DownOK(s, c, sv, dn, k) ==
    /\ c = [phase |-> c.phase, buf |-> c.buf, got |-> c.got]
    /\ c.phase \in {"greeting", "answer", "response", "open", "failed"}
    /\ s.client = "other" => c.phase = "open"
    /\ Holds(c.buf, ReadBuf(c.buf)) /\ c.got \in Bytes /\ dn \in Bytes
    /\ k \in 0..Len(s.reply) /\ (sv.phase \notin Relaying => k = 0)
    /\ WaitOK(s, c, sv, dn, k)

\* How the relay has ended.
EndOK(s, c, sv, u, k, f) ==
    /\ f \in BOOLEAN /\ (f => c.phase = "open")
    /\ sv.phase = "ended" =>
         \/ k = Len(s.reply)
         \/ f /\ u = <<>> /\ (s.server = "http" => ReadBuf(sv.hs.buf) = <<>>)

IInv ==
    /\ session \in Sessions
    /\ UpOK(session, client.phase, server, up)
    /\ DownOK(session, client, server, down, replied)
    /\ EndOK(session, client, server, up, replied, fin)

LEMMA HelloIs == Hello \in Bytes /\ Len(Hello) = 3 /\ Hello[1] = 5 /\ Hello[2] = 1 /\ Hello[3] = 0
<1>1. PICK a : a = <<5, 1>>
  OBVIOUS
<1>2. PICK b : b = <<0>>
  OBVIOUS
<1>3. a \in Bytes /\ Len(a) = 2 /\ a[1] = 5 /\ a[2] = 1
  BY <1>1 DEF Bytes, Byte
<1>4. b \in Bytes /\ Len(b) = 1 /\ b[1] = 0
  BY <1>2 DEF Bytes, Byte
<1>5. Hello = a \o b
  BY <1>1, <1>2, <1>4 DEF Hello, Greeting, NoPassword
<1>6. 1 \in 1..2 /\ 2 \in 1..2 /\ 1 \in 1..1 /\ 2 + 1 = 3
  OBVIOUS
<1>7. a \o b \in Bytes /\ Len(a \o b) = Len(a) + Len(b)
  BY <1>3, <1>4, CatBytes, Zenon
<1>8. (a \o b)[1] = a[1] /\ (a \o b)[2] = a[2]
  BY <1>3, <1>4, <1>6, CatLeft, Zenon
<1>9. (a \o b)[2 + 1] = b[1]
  <2>1. (a \o b)[Len(a) + 1] = b[1]
    BY <1>3, <1>4, <1>6, CatIndex, Zenon
  <2> QED BY <1>3, <2>1, Zenon
<1> QED BY <1>3, <1>4, <1>5, <1>6, <1>7, <1>8, <1>9, Zenon

\* A greeting without a password, and what follows it.
LEMMA HelloRead ==
    ASSUME NEW z \in Bytes
    PROVE  /\ Hello \o z \in Bytes /\ Hello \o z # <<>> /\ (Hello \o z)[1] = 5
           /\ From(Hello \o z, 4) = z
           /\ GreetedIn(Hello \o z, z)
           /\ \E v : ParseGreeting(Hello \o z) = Parsed(3, v) /\ \E i \in DOMAIN v : v[i] = NoPassword
<1>1. PICK t : t = Hello \o z
  OBVIOUS
<1>2. t \in Bytes /\ Len(t) = Len(Hello) + Len(z) /\ Len(z) \in Nat
  BY <1>1, HelloIs, FrontStays, Zenon
<1>3. Len(t) = 3 + Len(z)
  BY <1>2, HelloIs, Zenon
<1>4. 1 \in 1..3 /\ 2 \in 1..3 /\ 3 \in 1..3 /\ 3 + 1 = 4 /\ 1 + 2 = 3
  OBVIOUS
<1>5. t[1] = 5 /\ t[2] = 1 /\ t[3] = 0
  BY <1>1, <1>4, HelloIs, FrontStays, ZenonT(60)
<1>6. From(t, 4) = z
  BY <1>1, <1>4, HelloIs, CatRight, ZenonT(60)
<1>7. ~(Len(t) < 2) /\ ~(Len(t) < 1 + 2) /\ Len(t) # 0
  BY <1>2, <1>3
<1>8. PICK v : v = SubSeq(t, 3, 3)
  OBVIOUS
<1>9. ParseGreeting(t) = Parsed(3, v)
  BY <1>4, <1>5, <1>7, <1>8, Zenon DEF ParseGreeting
<1>10. v[1] = 0 /\ 1 \in DOMAIN v
  <2>1. 3 \in Nat \ {0} /\ 3 \in Nat /\ 3 <= Len(t)
    BY <1>2, <1>3
  <2>2. PartIs(v, t, 3, 3)
    BY <1>2, <1>8, <2>1, PartOf, Zenon
  <2>3. v \in Bytes /\ Len(v) = (IF 3 <= 3 THEN 3 - 3 + 1 ELSE 0) /\ \A k \in 1..Len(v) : v[k] = t[3 + k - 1]
    BY <2>2, Zenon DEF PartIs
  <2>4. Len(v) = 1 /\ v[1] = t[3]
    BY <2>3
  <2>5. DOMAIN v = 1..Len(v)
    BY <2>3 DEF Bytes
  <2> QED BY <1>5, <2>4, <2>5
<1>11. \E i \in DOMAIN v : v[i] = NoPassword
  BY <1>10, Zenon DEF NoPassword
<1>12. t # <<>>
  BY <1>2, <1>7, BytesTyped, Zenon
<1>13. GreetedIn(t, z)
  <2>1. t = Hello \o z /\ ParseGreeting(t) = Parsed(Len(Hello), v)
    BY <1>1, <1>9, HelloIs, Zenon
  <2> QED BY <1>11, <2>1, HelloIs, Zenon DEF GreetedIn
<1> QED BY <1>1, <1>2, <1>5, <1>6, <1>9, <1>11, <1>12, <1>13, Zenon

\* What a SOCKS 5 client means by the bytes z behind its greeting.
LEMMA HelloMeans ==
    ASSUME NEW z \in Bytes, NEW r, r = ParseConnRequest(z)
    PROVE  /\ r = Incomplete => MeantBy("handshaker", Hello \o z) = Incomplete
           /\ r.st = "ok" /\ r.value.cmd \in {ConnectTcp, BindUdp} =>
                MeantBy("handshaker", Hello \o z)
                  = Parsed(3 + r.used, Request(IF r.value.cmd = ConnectTcp THEN "TCP" ELSE "UDP", "socks5", r.value.addr))
<1>1. PICK t : t = Hello \o z
  OBVIOUS
<1>2. t # <<>> /\ t[1] = 5 /\ From(t, 4) = z
  BY <1>1, HelloRead, Zenon
<1>3. PICK v : ParseGreeting(t) = Parsed(3, v) /\ \E i \in DOMAIN v : v[i] = NoPassword
  BY <1>1, HelloRead, Zenon
<1>4. PICK g : g = ParseGreeting(t)
  OBVIOUS
<1>5. g.st = "ok" /\ g.used = 3 /\ g.value = v
  <2>1. g = Parsed(3, v)
    BY <1>3, <1>4, Zenon
  <2> QED BY <2>1 DEF Parsed
<1>6. g.used + 1 = 4
  BY <1>5
<1>7. ~(\A i \in DOMAIN g.value : g.value[i] # NoPassword)
  BY <1>3, <1>5, Zenon
<1>8. MeantBy("handshaker", t) = Socks5AtOnce(t)
  BY <1>2 DEF MeantBy, AtOnce
<1>9. ASSUME r = Incomplete PROVE MeantBy("handshaker", t) = Incomplete
  <2>1. r.st # "ok"
    BY <1>9 DEF Incomplete
  <2>2. Socks5AtOnce(t) = r
    BY <1>2, <1>4, <1>5, <1>6, <1>7, <2>1, Zenon DEF Socks5AtOnce
  <2> QED BY <1>8, <1>9, <2>2, Zenon
<1>10. ASSUME r.st = "ok", r.value.cmd \in {ConnectTcp, BindUdp}
       PROVE  MeantBy("handshaker", t)
                = Parsed(3 + r.used, Request(IF r.value.cmd = ConnectTcp THEN "TCP" ELSE "UDP", "socks5", r.value.addr))
  BY <1>2, <1>4, <1>5, <1>6, <1>7, <1>8, <1>10, Zenon DEF Socks5AtOnce
<1> QED BY <1>1, <1>9, <1>10, Zenon

WrittenBy(s, p) == IF s.client = "socks5" /\ (p # "open" \/ s.cmd # ConnectTcp) THEN <<>> ELSE s.payload

\* What the client of s has sent in phase p means what it should.
MeansOK(s, p, t) ==
    LET m == MeantBy(s.server, t)
    IN  /\ t \in Bytes /\ WrittenBy(s, p) \in Bytes
        /\ m.st = "ok" => m.value = s.meant /\ From(t, m.used + 1) = WrittenBy(s, p)
        /\ m.st = "error" => s.meant = NoRequest
        /\ s.client = "socks5" /\ m.st = "ok" => m.value.via = "socks5" /\ m.value.dst = Understood(s.dst)
        /\ s.client = "http" /\ m.st = "ok" => m.value.via = "connect" /\ (Plain(s.text) => m.value.dst = Heard(s))
        /\ s.client = "http" => t # <<>> /\ t[1] # 5
        /\ s.client = "socks5" /\ p = "greeting" => m.st = "incomplete"
        /\ s.client = "socks5" /\ p # "greeting" /\ Writable(s.dst) => m.st = "ok"

LEMMA SessionTyped ==
    ASSUME NEW s \in Sessions
    PROVE  /\ SessionOK(s)
           /\ s.client \in {"socks5", "http", "other"} /\ s.server \in {"handshaker", "http"}
           /\ s.text \in Bytes /\ s.head \in Bytes /\ s.script \in Bytes /\ s.payload \in Bytes /\ s.reply \in Bytes
           /\ s.cmd \in {ConnectTcp, BindUdp} /\ s.cmd \in Byte
           /\ IsTarget(s.dst)
           /\ s.client = "socks5" => s.server = "handshaker"
<1>1. SessionOK(s)
  BY HandshakeAssumption
<1>2. s.cmd \in Byte
  BY <1>1 DEF SessionOK, ConnectTcp, BindUdp, Byte
<1>3. /\ s.client \in {"socks5", "http", "other"} /\ s.server \in {"handshaker", "http"}
      /\ s.cmd \in {ConnectTcp, BindUdp} /\ IsTarget(s.dst) /\ (s.client = "socks5" => s.server = "handshaker")
  BY <1>1, Zenon DEF SessionOK
<1>4. {s.text, s.head, s.script, s.payload, s.reply} \subseteq Bytes
  BY <1>1, Zenon DEF SessionOK
<1> QED BY <1>1, <1>2, <1>3, <1>4

LEMMA OtherMeans ==
    ASSUME NEW s \in Sessions, s.client = "other", NEW p
    PROVE  MeansOK(s, p, SentBy(s, p))
<1>1. PICK t : t = s.script \o s.payload
  OBVIOUS
<1>2. SentBy(s, p) = t
  BY <1>1 DEF SentBy
<1>3. WrittenBy(s, p) = s.payload
  BY DEF WrittenBy
<1>4. t \in Bytes /\ From(t, Len(s.script) + 1) = s.payload
  BY <1>1, SessionTyped, CatBytes, CatRight, Zenon
<1>5. PICK m : m = MeantBy(s.server, t)
  OBVIOUS
<1>6. (m.st = "ok" => m.used = Len(s.script) /\ s.meant = m.value) /\ (m.st = "error" => s.meant = NoRequest)
  BY <1>1, <1>5, SessionTyped, Zenon DEF SessionOK
<1>7. s.client # "socks5" /\ s.client # "http"
  OBVIOUS
<1>8. m.st = "ok" => From(t, m.used + 1) = s.payload
  BY <1>4, <1>6, Zenon
<1> QED BY <1>2, <1>3, <1>4, <1>5, <1>6, <1>7, <1>8, SessionTyped, Zenon DEF MeansOK

-----------------------------------------------------------------------------
(* The text of a target, in the request of HttpProxy.                       *)

LEMMA AskedIs ==
    ASSUME NEW h, NEW q \in ReadHead(h)
    PROVE  /\ \E a : q = Request("TCP", "connect", a) \/ q = Request("HTTP", "http", a)
           /\ h[1] = ConnectMethod => \E p \in Paths(h) : \E a \in FromText(p) : q = Request("TCP", "connect", a)
BY Zenon DEF ReadHead

LEMMA AskedFor ==
    ASSUME NEW h, ReadHead(h) # {}
    PROVE  AskedBy(h) \in ReadHead(h)
BY Zenon DEF AskedBy

\* c is the head of a request with the path t.
HeadIs(c, t) ==
    /\ c \in Bytes /\ Len(t) \in Nat /\ Len(c) = Len(t) + 8
    /\ c[1] = 67 /\ c[2] = 32
    /\ \A i \in 1..Len(t) : c[i + 2] = t[i]
    /\ c[Len(t) + 3] = 32 /\ c[Len(t) + 4] = 72
    /\ c[Len(t) + 5] = 13 /\ c[Len(t) + 6] = 10 /\ c[Len(t) + 7] = 13 /\ c[Len(t) + 8] = 10

LEMMA RequestHeadIs ==
    ASSUME NEW t \in Bytes
    PROVE  HeadIs(RequestHead(ConnectMethod, t), t)
<1>1. PICK h : h = <<67, 32>>
  OBVIOUS
<1>2. h \in Bytes /\ Len(h) = 2 /\ h[1] = 67 /\ h[2] = 32
  BY <1>1 DEF Bytes, Byte
<1>3. PICK e : e = <<32, 72>> \o EmptyLine
  OBVIOUS
<1>4. /\ e \in Bytes /\ Len(e) = 6 /\ e[1] = 32 /\ e[2] = 72
      /\ e[3] = 13 /\ e[4] = 10 /\ e[5] = 13 /\ e[6] = 10
  BY <1>3 DEF Bytes, Byte, EmptyLine
<1>5. PICK g : g = h \o t
  OBVIOUS
<1>6. PICK c : c = g \o e
  OBVIOUS
<1>7. c = RequestHead(ConnectMethod, t)
  BY <1>1, <1>3, <1>5, <1>6, Zenon DEF RequestHead, ConnectMethod, Space
<1>8. g \in Bytes /\ Len(g) = Len(h) + Len(t) /\ Len(t) \in Nat
  BY <1>2, <1>5, CatBytes, BytesTyped, Zenon
<1>9. c \in Bytes /\ Len(c) = Len(g) + Len(e)
  BY <1>4, <1>6, <1>8, CatBytes, Zenon
<1>10. (\A i \in 1..Len(h) : g[i] = h[i]) /\ (\A i \in 1..Len(t) : g[Len(h) + i] = t[i])
  <2>1. CatIs(h, t, g)
    BY <1>2, <1>5, CatParts, Zenon
  <2> QED BY <2>1, Zenon DEF CatIs
<1>11. (\A i \in 1..Len(g) : c[i] = g[i]) /\ (\A i \in 1..Len(e) : c[Len(g) + i] = e[i])
  <2>1. CatIs(g, e, c)
    BY <1>4, <1>6, <1>8, CatParts, Zenon
  <2> QED BY <2>1, Zenon DEF CatIs
<1> HIDE <1>1, <1>3, <1>5, <1>6, <1>7
<1>12. Len(g) = Len(t) + 2 /\ Len(c) = Len(t) + 8
  BY <1>2, <1>4, <1>8, <1>9
<1>13. c[1] = 67 /\ c[2] = 32
  BY <1>2, <1>8, <1>10, <1>11, <1>12
<1>14. \A i \in 1..Len(t) : c[i + 2] = t[i]
  BY <1>2, <1>8, <1>10, <1>11, <1>12
<1>15. /\ c[Len(t) + 3] = 32 /\ c[Len(t) + 4] = 72
       /\ c[Len(t) + 5] = 13 /\ c[Len(t) + 6] = 10 /\ c[Len(t) + 7] = 13 /\ c[Len(t) + 8] = 10
  BY <1>4, <1>8, <1>11, <1>12
<1>16. HeadIs(c, t)
  BY <1>8, <1>9, <1>12, <1>13, <1>14, <1>15, Zenon DEF HeadIs
<1> QED BY <1>7, <1>16, Zenon

\* Four bytes in a row.
FourIs(c, i, a, b, d, e) ==
    SubSeq(c, i, i + 3) = <<a, b, d, e>> <=> c[i] = a /\ c[i + 1] = b /\ c[i + 2] = d /\ c[i + 3] = e

LEMMA FourBytes ==
    ASSUME NEW c \in Bytes, NEW i \in Nat \ {0}, i + 3 <= Len(c),
           NEW a \in Byte, NEW b \in Byte, NEW d \in Byte, NEW e \in Byte
    PROVE  FourIs(c, i, a, b, d, e)
<1>1. PICK p : p = SubSeq(c, i, i + 3)
  OBVIOUS
<1>2. PICK q : q = <<a, b, d, e>>
  OBVIOUS
<1>3. q \in Bytes /\ Len(q) = 4 /\ q[1] = a /\ q[2] = b /\ q[3] = d /\ q[4] = e
  BY <1>2 DEF Bytes
<1>4. i + 3 \in Nat
  OBVIOUS
<1>5. PartIs(p, c, i, i + 3)
  BY <1>1, <1>4, PartOf, Zenon
<1>6. p \in Bytes /\ Len(p) = (IF i <= i + 3 THEN (i + 3) - i + 1 ELSE 0) /\ \A k \in 1..Len(p) : p[k] = c[i + k - 1]
  BY <1>5, Zenon DEF PartIs
<1> HIDE <1>1, <1>2
<1>7. Len(p) = 4
  BY <1>6
<1>8. p[1] = c[i] /\ p[2] = c[i + 1] /\ p[3] = c[i + 2] /\ p[4] = c[i + 3]
  BY <1>6, <1>7
<1>9. p = q <=> p[1] = q[1] /\ p[2] = q[2] /\ p[3] = q[3] /\ p[4] = q[4]
  <2>1. ASSUME p[1] = q[1], p[2] = q[2], p[3] = q[3], p[4] = q[4] PROVE p = q
    <3>1. Len(p) = Len(q) /\ \A k \in 1..Len(p) : p[k] = q[k]
      BY <1>3, <1>7, <2>1
    <3> QED BY <1>3, <1>6, <3>1, SameBytes, Zenon
  <2> QED BY <2>1, Zenon
<1> QED BY <1>1, <1>2, <1>3, <1>8, <1>9, Zenon DEF FourIs

\* The head of a request with a plain path ends where it ends, and the path is found
\* in it again.
LEMMA PlainHead ==
    ASSUME NEW t \in Bytes, Plain(t), NEW c, c = RequestHead(ConnectMethod, t)
    PROVE  c \in Bytes /\ ParseHead(c) = Parsed(Len(c), c) /\ Paths(c) = {t}
<1>1. HeadIs(c, t)
  BY RequestHeadIs, Zenon
<1>2. PICK n : n = Len(t)
  OBVIOUS
<1>3. /\ c \in Bytes /\ n \in Nat /\ Len(c) = n + 8
      /\ c[1] = 67 /\ c[2] = 32
      /\ \A i \in 1..n : c[i + 2] = t[i]
      /\ c[n + 3] = 32 /\ c[n + 4] = 72
      /\ c[n + 5] = 13 /\ c[n + 6] = 10 /\ c[n + 7] = 13 /\ c[n + 8] = 10
  BY <1>1, <1>2, Zenon DEF HeadIs
<1>4. \A i \in 1..n : t[i] \in UriBytes /\ t[i] # 10 /\ t[i] # 13 /\ t[i] # 32
  <2>1. DOMAIN t = 1..n
    BY <1>2 DEF Bytes
  <2>2. \A x \in UriBytes : x # 10 /\ x # 13 /\ x # 32
    BY TextsAssumption DEF Space
  <2> QED BY <2>1, <2>2, Zenon DEF Plain
<1>5. \A i \in 3..n + 2 : c[i] \in UriBytes /\ c[i] # 10 /\ c[i] # 13 /\ c[i] # 32
  <2>1. SUFFICES ASSUME NEW i \in 3..n + 2 PROVE c[i] \in UriBytes /\ c[i] # 10 /\ c[i] # 13 /\ c[i] # 32
    OBVIOUS
  <2>2. PICK k \in 1..n : k = i - 2
    BY <1>3
  <2>3. c[k + 2] = t[k]
    BY <1>3, Zenon
  <2>4. k + 2 = i
    BY <1>3, <2>2
  <2> QED BY <1>4, <2>3, <2>4, Zenon
<1>6. 13 \in Byte /\ 10 \in Byte /\ 32 \in Byte /\ 72 \in Byte
  BY DEF Byte
<1> HIDE <1>1
<1>7. Heads(c) = {n + 5}
  <2>1. ASSUME NEW i \in 1..Len(c) - 3 PROVE SubSeq(c, i, i + 3) = EmptyLine <=> i = n + 5
    <3>1. i \in Nat \ {0} /\ i + 3 <= Len(c)
      BY <1>3
    <3>2. SubSeq(c, i, i + 3) = <<13, 10, 13, 10>>
            <=> c[i] = 13 /\ c[i + 1] = 10 /\ c[i + 2] = 13 /\ c[i + 3] = 10
      <4>1. FourIs(c, i, 13, 10, 13, 10)
        BY <1>3, <1>6, <3>1, FourBytes, ZenonT(60)
      <4> QED BY <4>1, Zenon DEF FourIs
    <3>3. i = n + 5 => c[i] = 13 /\ c[i + 1] = 10 /\ c[i + 2] = 13 /\ c[i + 3] = 10
      BY <1>3
    <3>4. c[i] = 13 => i = n + 5
      <4>1. i \in {1, 2, n + 3, n + 4, n + 5} \/ i \in 3..n + 2
        BY <1>3
      <4> QED BY <1>3, <1>5, <4>1
    <3> QED BY <3>2, <3>3, <3>4, Zenon DEF EmptyLine
  <2>2. n + 5 \in 1..Len(c) - 3
    BY <1>3
  <2> QED BY <2>1, <2>2, Zenon DEF Heads
<1>8. HeadEnd(c) = n + 5
  <2>1. {n + 5} \subseteq Nat /\ {n + 5} # {}
    BY <1>3
  <2>2. Min(Heads(c)) \in Heads(c) /\ Heads(c) # {}
    BY <1>7, <2>1, MinIsLeast, Zenon
  <2>3. HeadEnd(c) = Min(Heads(c))
    BY <1>3, <2>2, HeadEndIs, Zenon
  <2> QED BY <1>7, <2>2, <2>3, Zenon
<1>9. ParseHead(c) = Parsed(Len(c), c)
  <2>1. c # <<>> /\ ~(c[1] < 32) /\ n + 5 # 0 /\ (n + 5) + 3 = Len(c)
    BY <1>3
  <2>2. SubSeq(c, 1, Len(c)) = c
    BY <1>3 DEF Bytes
  <2> QED BY <1>8, <2>1, <2>2, Zenon DEF ParseHead
<1>10. SubSeq(c, 3, (n + 3) - 1) = t
  <2>1. PICK p : p = SubSeq(c, 3, n + 2)
    OBVIOUS
  <2>2. 3 \in Nat \ {0} /\ n + 2 \in Nat /\ n + 2 <= Len(c)
    BY <1>3
  <2>3. PartIs(p, c, 3, n + 2)
    BY <1>3, <2>1, <2>2, PartOf, Zenon
  <2>4. p \in Bytes /\ Len(p) = (IF 3 <= n + 2 THEN (n + 2) - 3 + 1 ELSE 0) /\ \A k \in 1..Len(p) : p[k] = c[3 + k - 1]
    BY <2>3, Zenon DEF PartIs
  <2> HIDE <2>1
  <2>5. Len(p) = n
    BY <1>3, <2>4
  <2>6. \A k \in 1..n : p[k] = t[k]
    <3>1. SUFFICES ASSUME NEW k \in 1..n PROVE p[k] = t[k]
      OBVIOUS
    <3>2. 3 + k - 1 = k + 2
      BY <1>3
    <3>3. p[k] = c[3 + k - 1] /\ c[k + 2] = t[k]
      BY <1>3, <2>4, <2>5, Zenon
    <3> QED BY <3>2, <3>3, Zenon
  <2>7. p = t
    BY <1>2, <2>4, <2>5, <2>6, SameBytes, Zenon
  <2>8. (n + 3) - 1 = n + 2
    BY <1>3
  <2> QED BY <2>1, <2>7, <2>8, Zenon
<1>11. ASSUME NEW i \in 3..Len(c) - 3
       PROVE  /\ c[2] = Space /\ SubSeq(c, i, i + 3) = <<Space, 72, 13, 10>> /\ \A j \in 3..i - 1 : c[j] \in UriBytes
              <=> i = n + 3
  <2>1. i \in Nat \ {0} /\ i + 3 <= Len(c)
    BY <1>3
  <2>2. SubSeq(c, i, i + 3) = <<32, 72, 13, 10>>
          <=> c[i] = 32 /\ c[i + 1] = 72 /\ c[i + 2] = 13 /\ c[i + 3] = 10
    <3>1. FourIs(c, i, 32, 72, 13, 10)
      BY <1>3, <1>6, <2>1, FourBytes, ZenonT(60)
    <3> QED BY <3>1, Zenon DEF FourIs
  <2>3. i = n + 3 => c[i] = 32 /\ c[i + 1] = 72 /\ c[i + 2] = 13 /\ c[i + 3] = 10
    BY <1>3
  <2>4. i = n + 3 => \A j \in 3..i - 1 : c[j] \in UriBytes
    BY <1>3, <1>5
  <2>5. c[i] = 32 => i = n + 3
    <3>1. i \in {n + 3, n + 4, n + 5} \/ i \in 3..n + 2
      BY <1>3
    <3> QED BY <1>3, <1>5, <3>1
  <2> QED BY <1>3, <2>2, <2>3, <2>4, <2>5, Zenon DEF Space
<1>12. Paths(c) = {t}
  <2>1. n + 3 \in 3..Len(c) - 3
    BY <1>3
  <2> QED BY <1>10, <1>11, <2>1, Zenon DEF Paths
<1> QED BY <1>3, <1>9, <1>12, Zenon

\* The text of an address is read back as it, or as the IP address it is the text of.
LEMMA TextRead ==
    ASSUME NEW a, IsTarget(a), NEW t, IsTextOf(t, a), NEW x \in FromText(t)
    PROVE  x = IF t \in DOMAIN SocketTexts THEN SocketTexts[t] ELSE a
<1>1. CASE t \in DOMAIN SocketTexts
  BY <1>1, Zenon DEF FromText
<1>2. CASE t \notin DOMAIN SocketTexts
  <2>1. a.kind = "name"
    BY <1>2, Zenon DEF IsTextOf
  <2>2. a \in [kind : {"name"}, host : Bytes, port : Bytes]
    BY <2>1 DEF IsTarget, IsSocketAddr
  <2>3. PICK h : h = a.host
    OBVIOUS
  <2>4. h \in Bytes /\ a = Name(h, a.port)
    BY <2>2, <2>3 DEF Name
  <2>5. PICK p \in DOMAIN PortTexts : PortTexts[p] = a.port /\ t = (h \o <<Colon>>) \o p
    BY <2>1, <2>3, Zenon DEF IsTextOf
  <2>6. p \in Bytes /\ \A i \in 1..Len(p) : p[i] # Colon
    <3>1. p \in Bytes /\ \A i \in DOMAIN p : p[i] # Colon
      BY TextsAssumption, Zenon
    <3>2. DOMAIN p = 1..Len(p)
      BY <3>1 DEF Bytes
    <3> QED BY <3>1, <3>2, Zenon
  <2>7. PICK g : g = h \o <<Colon>>
    OBVIOUS
  <2>8. PICK w : w = Len(g)
    OBVIOUS
  <2>9. g \in Bytes /\ w = Len(h) + 1 /\ Len(h) \in Nat /\ w \in Nat /\ g[w] = Colon
    <3>1. PICK c : c = <<Colon>>
      OBVIOUS
    <3>2. c \in Bytes /\ Len(c) = 1 /\ c[1] = Colon /\ 1 \in 1..Len(c)
      BY <3>1 DEF Colon, Bytes, Byte
    <3>3. g \in Bytes /\ Len(g) = Len(h) + Len(c) /\ Len(h) \in Nat /\ g[Len(h) + 1] = c[1]
      BY <2>4, <2>7, <3>1, <3>2, CatBytes, CatIndex, BytesTyped, Zenon
    <3>4. Len(h) + 1 \in Nat
      BY <3>3
    <3> QED BY <2>8, <3>2, <3>3, <3>4, Zenon
  <2>10. /\ t \in Bytes /\ Len(t) = w + Len(p) /\ Len(p) \in Nat
         /\ (\A i \in 1..w : t[i] = g[i]) /\ \A i \in 1..Len(p) : t[w + i] = p[i]
    <3>1. t = g \o p
      BY <2>5, <2>7, Zenon
    <3>2. CatIs(g, p, t)
      BY <2>6, <2>9, <3>1, CatParts, Zenon
    <3> QED BY <2>8, <3>2, Zenon DEF CatIs
  <2>11. From(t, w + 1) = p
    <3>1. t = g \o p
      BY <2>5, <2>7, Zenon
    <3> QED BY <2>6, <2>8, <2>9, <3>1, CatRight, Zenon
  <2>12. SubSeq(t, 1, w - 1) = h
    <3>1. PICK c : c = <<Colon>>
      OBVIOUS
    <3>2. c \in Bytes
      BY <3>1 DEF Colon, Bytes, Byte
    <3>3. SubSeq(g, 1, Len(h)) = h
      BY <2>4, <2>7, <3>1, <3>2, CatLeft, Zenon
    <3>4. 1 \in Nat \ {0} /\ Len(h) \in 0..Len(g) /\ w - 1 = Len(h)
      BY <2>8, <2>9
    <3>5. SubSeq(g \o p, 1, Len(h)) = SubSeq(g, 1, Len(h))
      BY <2>6, <2>9, <3>4, FrontStays, Zenon
    <3> QED BY <2>5, <2>7, <3>3, <3>4, <3>5, Zenon
  <2>13. PICK C : C = {i \in 1..Len(t) : t[i] = Colon}
    OBVIOUS
  <2> HIDE <2>5, <2>7, <2>8
  <2>14. w \in C /\ \A y \in C : w >= y
    <3>1. w \in 1..Len(t) /\ t[w] = Colon
      BY <2>9, <2>10
    <3>2. ASSUME NEW y \in C PROVE w >= y
      <4>1. y \in 1..Len(t) /\ t[y] = Colon
        BY <2>13
      <4>2. SUFFICES ASSUME ~(w >= y) PROVE FALSE
        OBVIOUS
      <4>3. PICK i \in 1..Len(p) : y = w + i
        <5>1. y - w \in 1..Len(p) /\ y = w + (y - w)
          BY <2>9, <2>10, <4>1, <4>2
        <5> QED BY <5>1, Zenon
      <4> QED BY <2>6, <2>10, <4>1, <4>3, Zenon
    <3> QED BY <2>13, <3>1, <3>2, Zenon
  <2>15. PICK v : v = Max(C)
    OBVIOUS
  <2>16. v \in C /\ \A y \in C : v >= y
    BY <2>14, <2>15, Zenon DEF Max
  <2>17. v = w
    <3>1. v \in Nat
      BY <2>10, <2>13, <2>16
    <3> QED BY <2>9, <2>14, <2>16, <3>1
  <2>18. SelectLastInSeq(t, LAMBDA c : c = Colon) = w
    BY <2>13, <2>14, <2>15, <2>17, Zenon DEF SelectLastInSeq
  <2>19. x \in {Name(SubSeq(t, 1, w - 1), PortTexts[port]) : port \in {q \in DOMAIN PortTexts : 1 < w /\ q = From(t, w + 1)}}
    BY <1>2, <2>18, Zenon DEF FromText
  <2>20. x = Name(h, PortTexts[p])
    BY <2>11, <2>12, <2>19, Zenon
  <2>21. x = a
    BY <2>4, <2>5, <2>20, Zenon
  <2> QED BY <1>2, <2>21
<1> QED BY <1>1, <1>2

\* What HttpProxy sends begins with its request, and with a plain text nothing else
\* is taken for the head.
LEMMA HeadFound ==
    ASSUME NEW s \in Sessions, s.client = "http", NEW t, t = s.head \o s.payload
    PROVE  /\ ParseHead(s.head) = Parsed(Len(s.head), s.head)
           /\ ParseHead(t) = Parsed(Len(s.head), s.head)
           /\ t \in Bytes /\ s.head # <<>> /\ s.head[1] = ConnectMethod /\ t # <<>> /\ t[1] = ConnectMethod
           /\ Plain(s.text) => s.head = RequestHead(ConnectMethod, s.text)
<1>1. PICK h : h = s.head
  OBVIOUS
<1>2. PICK c : c = RequestHead(ConnectMethod, s.text)
  OBVIOUS
<1>3. h \in Bytes /\ s.payload \in Bytes /\ s.text \in Bytes
  BY <1>1, SessionTyped, Zenon
<1>4. ParseHead(h) = Parsed(Len(h), h) /\ IsPrefix(c, t)
  BY <1>1, <1>2, SessionTyped, Zenon DEF SessionOK
<1>5. t = h \o s.payload
  BY <1>1, Zenon
<1>6. ParseHead(h) # Incomplete /\ Parsed(Len(h), h).value = h
  BY <1>4, Results, Zenon
<1>7. t \in Bytes /\ ParseHead(t) = Parsed(Len(h), h)
  BY <1>3, <1>4, <1>5, <1>6, CatBytes, HeadSettles, Zenon DEF Settled
<1>8. h # <<>>
  BY <1>4, <1>6, Zenon DEF ParseHead
<1>9. HeadIs(c, s.text)
  BY <1>2, <1>3, RequestHeadIs, Zenon
<1>10. c \in Bytes /\ Len(c) \in Nat /\ 1 <= Len(c) /\ c[1] = ConnectMethod
  <2>1. c \in Bytes /\ Len(s.text) \in Nat /\ Len(c) = Len(s.text) + 8 /\ c[1] = 67
    BY <1>9, Zenon DEF HeadIs
  <2> QED BY <2>1 DEF ConnectMethod
<1>11. PICK d \in Bytes : t = c \o d
  <2>1. Len(c) <= Len(t) /\ SubSeq(c, 1, Len(c)) = SubSeq(t, 1, Len(c))
    BY <1>4, Zenon DEF IsPrefix
  <2>2. SubSeq(c, 1, Len(c)) = c
    BY <1>10 DEF Bytes
  <2>3. Len(c) \in 1..Len(t)
    <3>1. Len(t) \in Nat
      BY <1>7, BytesTyped, Zenon
    <3>2. \A k, n \in Nat : 1 <= k /\ k <= n => k \in 1..n
      OBVIOUS
    <3> QED BY <1>10, <2>1, <3>1, <3>2, Zenon
  <2>4. From(t, Len(c) + 1) \in Bytes /\ t = SubSeq(t, 1, Len(c)) \o From(t, Len(c) + 1)
    BY <1>7, <2>3, Cut, Zenon
  <2> QED BY <2>1, <2>2, <2>4, Zenon
<1>12. t[1] = ConnectMethod /\ t # <<>>
  <2>1. 1 \in 1..Len(c)
    BY <1>10
  <2>2. t[1] = c[1] /\ Len(t) = Len(c) + Len(d) /\ Len(d) \in Nat
    <3>1. CatIs(c, d, t)
      BY <1>10, <1>11, CatParts, Zenon
    <3> QED BY <2>1, <3>1, Zenon DEF CatIs
  <2>3. Len(t) # 0
    BY <1>10, <2>2
  <2> QED BY <1>7, <1>10, <2>2, <2>3, BytesTyped, Zenon
<1>13. h[1] = ConnectMethod
  <2>1. Len(h) \in Nat /\ Len(h) # 0
    BY <1>3, <1>8, BytesTyped, Zenon
  <2>2. 1 \in 1..Len(h)
    BY <2>1
  <2>3. t[1] = h[1]
    <3>1. CatIs(h, s.payload, t)
      BY <1>3, <1>5, CatParts, Zenon
    <3> QED BY <2>2, <3>1, Zenon DEF CatIs
  <2> QED BY <1>12, <2>3, Zenon
<1>14. ASSUME Plain(s.text) PROVE h = c
  <2>1. ParseHead(c) = Parsed(Len(c), c)
    BY <1>2, <1>3, <1>14, PlainHead, Zenon
  <2>2. ParseHead(c) # Incomplete /\ Parsed(Len(c), c).value = c
    BY <2>1, Results, Zenon
  <2>3. ParseHead(t) = Parsed(Len(c), c)
    BY <1>10, <1>11, <2>1, <2>2, HeadSettles, Zenon DEF Settled
  <2> QED BY <1>6, <1>7, <2>2, <2>3, Zenon
<1> QED BY <1>1, <1>2, <1>4, <1>7, <1>8, <1>12, <1>13, <1>14, Zenon

LEMMA HttpMeans ==
    ASSUME NEW s \in Sessions, s.client = "http", NEW p
    PROVE  MeansOK(s, p, SentBy(s, p))
<1>1. PICK h : h = s.head
  OBVIOUS
<1>2. PICK t : t = h \o s.payload
  OBVIOUS
<1>3. SentBy(s, p) = t
  BY <1>1, <1>2 DEF SentBy
<1>4. WrittenBy(s, p) = s.payload
  BY DEF WrittenBy
<1>5. /\ ParseHead(t) = Parsed(Len(h), h) /\ t # <<>> /\ t[1] = ConnectMethod /\ h[1] = ConnectMethod
      /\ (Plain(s.text) => h = RequestHead(ConnectMethod, s.text))
  BY <1>1, <1>2, HeadFound, Zenon
<1>6. h \in Bytes /\ s.text \in Bytes /\ IsTarget(s.dst)
  BY <1>1, SessionTyped, Zenon
<1>7. s.payload \in Bytes /\ t \in Bytes /\ From(t, Len(h) + 1) = s.payload
  BY <1>2, <1>6, SessionTyped, CatBytes, CatRight, Zenon
<1>8. PICK reqs : reqs = ReadHead(h)
  OBVIOUS
<1>9. IsTextOf(s.text, s.dst) /\ s.meant = IF reqs = {} THEN NoRequest ELSE AskedBy(h)
  BY <1>1, <1>8, SessionTyped, Zenon DEF SessionOK
<1>10. PICK r : r = ParseHead(t)
  OBVIOUS
<1>11. r.st = "ok" /\ r.used = Len(h) /\ r.value = h
  <2>1. r = Parsed(Len(h), h)
    BY <1>5, <1>10, Zenon
  <2> HIDE <1>10
  <2> QED BY <2>1 DEF Parsed
<1>14. t[1] # 5 /\ t[1] # 4
  BY <1>5 DEF ConnectMethod
<1>15. MeantBy(s.server, t) = HttpAtOnce(t)
  BY <1>5, <1>14 DEF MeantBy, AtOnce
<1>16. PICK m : m = MeantBy(s.server, t)
  OBVIOUS
<1>17. s.client # "socks5"
  OBVIOUS
<1>18. CASE reqs = {}
  <2>1. m = Invalid
    BY <1>8, <1>10, <1>11, <1>15, <1>16, <1>18, Zenon DEF HttpAtOnce
  <2>2. m.st = "error" /\ m.st # "ok"
    BY <2>1 DEF Invalid
  <2>3. s.meant = NoRequest
    BY <1>9, <1>18, Zenon
  <2> QED BY <1>3, <1>4, <1>5, <1>7, <1>14, <1>16, <1>17, <2>2, <2>3, Zenon DEF MeansOK
<1>19. CASE reqs # {}
  <2>1. PICK q : q = AskedBy(h)
    OBVIOUS
  <2>2. m = Parsed(r.used, q) /\ q \in reqs
    BY <1>8, <1>10, <1>11, <1>15, <1>16, <1>19, <2>1, AskedFor, Zenon DEF HttpAtOnce
  <2>3. m.st = "ok" /\ m.used = r.used /\ m.value = q /\ m.st # "error"
    BY <2>2 DEF Parsed
  <2>4. PICK f \in Paths(h) : \E a \in FromText(f) : q = Request("TCP", "connect", a)
    BY <1>5, <1>8, <2>2, AskedIs, Zenon
  <2>5. PICK a \in FromText(f) : q = Request("TCP", "connect", a)
    BY <2>4, Zenon
  <2>6. q.via = "connect" /\ q.dst = a
    BY <2>5 DEF Request
  <2>7. ASSUME Plain(s.text) PROVE q.dst = Heard(s)
    <3>1. Paths(h) = {s.text}
      BY <1>5, <1>6, <2>7, PlainHead, Zenon
    <3>2. f = s.text
      BY <2>4, <3>1, Zenon
    <3>3. a = IF s.text \in DOMAIN SocketTexts THEN SocketTexts[s.text] ELSE s.dst
      BY <1>6, <1>9, <2>5, <3>2, TextRead, Zenon
    <3> QED BY <1>17, <2>6, <3>3, Zenon DEF Heard
  <2>8. q = s.meant
    BY <1>9, <1>19, <2>1, Zenon
  <2> QED BY <1>3, <1>4, <1>5, <1>7, <1>11, <1>14, <1>16, <1>17, <2>3, <2>6, <2>7, <2>8, Zenon DEF MeansOK
<1> QED BY <1>18, <1>19

LEMMA SocksMeans ==
    ASSUME NEW s \in Sessions, s.client = "socks5", NEW p
    PROVE  MeansOK(s, p, SentBy(s, p))
<1>1. /\ s.server = "handshaker" /\ s.payload \in Bytes /\ s.cmd \in Byte /\ s.cmd \in {ConnectTcp, BindUdp}
      /\ IsTarget(s.dst)
  BY SessionTyped, Zenon
<1>2. s.client # "http" /\ s.client # "other"
  OBVIOUS
<1>3. PICK t : t = SentBy(s, p)
  OBVIOUS
<1>4. PICK m : m = MeantBy("handshaker", t)
  OBVIOUS
<1>5. <<>> \in Bytes /\ WrittenBy(s, p) \in Bytes
  BY <1>1, AnswersAreBytes, Zenon DEF WrittenBy
<1>6. PICK meant : meant = s.meant
  OBVIOUS
<1>7. meant = IF Writable(s.dst)
              THEN Request(IF s.cmd = ConnectTcp THEN "TCP" ELSE "UDP", "socks5", Understood(s.dst))
              ELSE NoRequest
  <2>1. Sayable(s.dst) <=> Writable(s.dst)
    BY Zenon DEF Sayable, Writable
  <2>2. meant = IF Sayable(s.dst)
                THEN Request(IF s.cmd = ConnectTcp THEN "TCP" ELSE "UDP", "socks5", Understood(s.dst))
                ELSE NoRequest
    BY <1>6, SessionTyped, Zenon DEF SessionOK
  <2> QED BY <2>1, <2>2, Zenon
<1>8. CASE p = "greeting" \/ ~Writable(s.dst)
  <2>1. PICK z : z = IF p = "greeting" THEN <<>> ELSE <<5, s.cmd, 0>>
    OBVIOUS
  <2>2. z \in Bytes /\ ParseConnRequest(z) = Incomplete
    BY <1>1, <1>5, <2>1, BareRequest, Zenon
  <2>3. t = Hello \o z
    <3>1. Hello \o <<>> = Hello
      BY HelloIs, CatEmpty, Zenon
    <3> QED BY <1>2, <1>3, <1>8, <2>1, <3>1 DEF SentBy
  <2>4. t \in Bytes /\ m = Incomplete
    BY <1>4, <2>2, <2>3, HelloRead, HelloMeans, Zenon
  <2>5. m.st = "incomplete" /\ m.st # "ok" /\ m.st # "error"
    BY <2>4 DEF Incomplete
  <2> QED BY <1>1, <1>2, <1>3, <1>4, <1>5, <1>8, <2>4, <2>5, Zenon DEF MeansOK
<1>9. CASE p # "greeting" /\ Writable(s.dst)
  <2>1. PICK c : c = ConnRequest(s.cmd, s.dst)
    OBVIOUS
  <2>2. PICK w : w = WrittenBy(s, p)
    OBVIOUS
  <2>3. PICK z : z = c \o w
    OBVIOUS
  <2>4. PICK v : v = [cmd |-> s.cmd, addr |-> Understood(s.dst)]
    OBVIOUS
  <2>5. c \in Bytes /\ ParseConnRequest(z) = Parsed(Len(c), v) /\ z \in Bytes
    <3>1. c \in Bytes /\ w \in Bytes
      BY <1>1, <1>5, <1>9, <2>1, <2>2, RequestRead, Zenon
    <3>2. ParseConnRequest(c \o w) = Parsed(Len(c), v)
      BY <1>1, <1>9, <2>1, <2>4, <3>1, RequestRead, Zenon
    <3> QED BY <2>3, <3>1, <3>2, CatBytes, Zenon
  <2>6. t = Hello \o z
    <3>1. c \o <<>> = c
      BY <2>5, CatEmpty, Zenon
    <3>2. CASE p = "open" /\ s.cmd = ConnectTcp
      <4>1. w = s.payload
        BY <2>2, <3>2, Zenon DEF WrittenBy
      <4>2. t = Hello \o (c \o s.payload)
        BY <1>2, <1>3, <1>9, <2>1, <3>2 DEF SentBy
      <4> QED BY <2>3, <4>1, <4>2, Zenon
    <3>3. CASE ~(p = "open" /\ s.cmd = ConnectTcp)
      <4>1. w = <<>>
        BY <2>2, <3>3, Zenon DEF WrittenBy
      <4>2. t = Hello \o c
        BY <1>2, <1>3, <1>9, <2>1, <3>3 DEF SentBy
      <4> QED BY <2>3, <3>1, <4>1, <4>2, Zenon
    <3> QED BY <3>2, <3>3
  <2>7. PICK r : r = ParseConnRequest(z)
    OBVIOUS
  <2>8. r.st = "ok" /\ r.used = Len(c) /\ r.value = v
    <3>1. r = Parsed(Len(c), v)
      BY <2>5, <2>7, Zenon
    <3> QED BY <3>1 DEF Parsed
  <2>9. v.cmd = s.cmd /\ v.addr = Understood(s.dst)
    BY <2>4
  <2>10. r.value.cmd \in {ConnectTcp, BindUdp}
    BY <1>1, <2>8, <2>9, Zenon
  <2>11. m = Parsed(3 + Len(c), meant)
    <3>1. m = Parsed(3 + r.used, Request(IF r.value.cmd = ConnectTcp THEN "TCP" ELSE "UDP", "socks5", r.value.addr))
      BY <1>4, <2>5, <2>6, <2>7, <2>8, <2>10, HelloMeans, Zenon
    <3>2. meant = Request(IF r.value.cmd = ConnectTcp THEN "TCP" ELSE "UDP", "socks5", r.value.addr)
      BY <1>7, <1>9, <2>8, <2>9, Zenon
    <3> QED BY <2>8, <3>1, <3>2, Zenon
  <2>12. m.st = "ok" /\ m.used = 3 + Len(c) /\ m.value = meant /\ m.st # "error" /\ m.st # "incomplete"
    BY <2>11 DEF Parsed
  <2>13. meant.via = "socks5" /\ meant.dst = Understood(s.dst)
    BY <1>7, <1>9 DEF Request
  <2>14. t \in Bytes /\ From(t, m.used + 1) = w
    <3>1. t \in Bytes
      BY <2>5, <2>6, HelloRead, Zenon
    <3>2. w \in Bytes
      BY <1>5, <2>2, Zenon
    <3>3. t = (Hello \o c) \o w
      <4>1. Assoc(Hello, c, w)
        BY <2>5, <3>2, HelloIs, CatAssoc3, Zenon
      <4> QED BY <2>3, <2>6, <4>1, Zenon DEF Assoc
    <3>4. Hello \o c \in Bytes /\ Len(Hello \o c) = 3 + Len(c)
      BY <2>5, HelloIs, CatBytes, Zenon
    <3>5. From((Hello \o c) \o w, Len(Hello \o c) + 1) = w
      BY <3>2, <3>4, CatRight, Zenon
    <3> QED BY <2>12, <3>1, <3>3, <3>4, <3>5, Zenon
  <2> QED BY <1>1, <1>2, <1>3, <1>4, <1>5, <1>6, <1>9, <2>2, <2>12, <2>13, <2>14, Zenon DEF MeansOK
<1> QED BY <1>8, <1>9

LEMMA SentMeans ==
    ASSUME NEW s \in Sessions, NEW p
    PROVE  MeansOK(s, p, SentBy(s, p))
<1>1. s.client \in {"socks5", "http", "other"}
  BY SessionTyped, Zenon
<1> QED BY <1>1, OtherMeans, HttpMeans, SocksMeans

\* What is sent on does not change what a handshake has found.
LEMMA HsGrows ==
    ASSUME NEW srv, NEW phase, NEW buf, NEW req, NEW u, NEW t, NEW w \in Bytes,
           HsOK(srv, phase, buf, req, u, t)
    PROVE  HsOK(srv, phase, buf, req, u \o w, t \o w)
<1>1. PICK x : x = ReadBuf(buf)
  OBVIOUS
<1>2. PICK m : m = MeantBy(srv, t)
  OBVIOUS
<1>3. /\ Holds(buf, x) /\ u \in Bytes /\ t \in Bytes
      /\ phase \in Reading \cup {"request", "done", "failed"}
      /\ (srv = "http" => phase \in {"init", "done", "failed"})
      /\ (phase \in Reading => t = x \o u /\ req = NoRequest)
      /\ (phase = "socks5" => x # <<>> /\ x[1] = 5)
      /\ (phase = "socks4" => x # <<>> /\ x[1] # 5 /\ x[1] < 32)
      /\ (phase = "http" => x # <<>> /\ ~(x[1] < 32))
      /\ (phase = "request" => GreetedIn(t, x \o u) /\ req = NoRequest)
      /\ (phase = "done" => m.st = "ok" /\ req = m.value /\ x \o u = From(t, m.used + 1))
      /\ (phase = "failed" => m.st = "error" /\ req = NoRequest)
  BY <1>1, <1>2, Zenon DEF HsOK
<1>4. x \in Bytes /\ t \o w \in Bytes /\ u \o w \in Bytes /\ x \o u \in Bytes
  <2>1. x \in Bytes
    BY <1>3, Zenon DEF Holds
  <2> QED BY <1>3, <2>1, CatBytes, Zenon
<1>5. (x \o u) \o w = x \o (u \o w)
  <2>1. Assoc(x, u, w)
    BY <1>3, <1>4, CatAssoc3, Zenon
  <2> QED BY <2>1, Zenon DEF Assoc
<1>6. Sound(m, Len(t)) /\ (m # Incomplete => MeantBy(srv, t \o w) = m)
  BY <1>2, <1>3, AtOnceSettles, Zenon DEF Settled
<1>7. m.st \in {"ok", "error"} => MeantBy(srv, t \o w) = m
  <2>1. m.st \in {"ok", "error"} => m # Incomplete
    BY DEF Incomplete
  <2> QED BY <1>6, <2>1, Zenon
<1>8. m.st = "ok" => From(t \o w, m.used + 1) = From(t, m.used + 1) \o w
  <2>1. ASSUME m.st = "ok" PROVE m.used + 1 \in 1..Len(t) + 1
    <3>1. m.used \in 1..Len(t) /\ Len(t) \in Nat
      BY <1>3, <1>6, <2>1, SoundStates, BytesTyped, Zenon
    <3> QED BY <3>1
  <2> QED BY <1>3, <2>1, FrontStays, Zenon
<1>9. phase = "request" => GreetedIn(t \o w, x \o (u \o w))
  <2>1. SUFFICES ASSUME phase = "request" PROVE GreetedIn(t \o w, (x \o u) \o w)
    BY <1>5, Zenon
  <2>2. PICK g \in Bytes : \E v : /\ t = g \o (x \o u) /\ ParseGreeting(t) = Parsed(Len(g), v)
                                  /\ \E i \in DOMAIN v : v[i] = NoPassword
    BY <1>3, <2>1, Zenon DEF GreetedIn
  <2>3. PICK v : /\ t = g \o (x \o u) /\ ParseGreeting(t) = Parsed(Len(g), v)
                 /\ \E i \in DOMAIN v : v[i] = NoPassword
    BY <2>2, Zenon
  <2>4. ParseGreeting(t) # Incomplete
    BY <2>3, Results, Zenon
  <2>5. ParseGreeting(t \o w) = Parsed(Len(g), v)
    BY <1>3, <2>3, <2>4, GreetingSettles, Zenon DEF Settled
  <2>6. t \o w = g \o ((x \o u) \o w)
    <3>1. Assoc(g, x \o u, w)
      BY <1>4, CatAssoc3, Zenon
    <3> QED BY <2>3, <3>1, Zenon DEF Assoc
  <2> QED BY <2>3, <2>5, <2>6, Zenon DEF GreetedIn
<1>10. phase \in Reading => t \o w = x \o (u \o w)
  BY <1>3, <1>5, Zenon
<1>11. phase = "done" => /\ MeantBy(srv, t \o w) = m /\ x \o (u \o w) = From(t \o w, m.used + 1)
  <2>1. ASSUME phase = "done" PROVE MeantBy(srv, t \o w) = m /\ x \o (u \o w) = From(t \o w, m.used + 1)
    <3>1. m.st = "ok" /\ x \o u = From(t, m.used + 1)
      BY <1>3, <2>1, Zenon
    <3> HIDE <1>3
    <3> QED BY <1>5, <1>7, <1>8, <3>1, Zenon
  <2> QED BY <2>1
<1>12. phase = "failed" => MeantBy(srv, t \o w) = m
  BY <1>3, <1>7, Zenon
<1> QED BY <1>1, <1>3, <1>4, <1>9, <1>10, <1>11, <1>12, Zenon DEF HsOK

LEMMA CarryGrows ==
    ASSUME NEW srv, NEW hs, NEW rel, NEW u, NEW t, NEW w \in Bytes, CarryOK(srv, hs, rel, u, t)
    PROVE  CarryOK(srv, hs, rel, u \o w, t \o w)
<1>1. PICK x : x = ReadBuf(hs.buf)
  OBVIOUS
<1>2. PICK m : m = MeantBy(srv, t)
  OBVIOUS
<1>3. /\ Holds(hs.buf, x) /\ rel \in Bytes /\ u \in Bytes /\ t \in Bytes
      /\ hs.phase = "done" /\ m.st = "ok" /\ hs.req = m.value
      /\ From(t, m.used + 1) = IF srv = "http" THEN rel \o (x \o u) ELSE x \o (rel \o u)
  BY <1>1, <1>2, Zenon DEF CarryOK
<1>4. x \in Bytes
  BY <1>3, Zenon DEF Holds
<1>5. x \o u \in Bytes /\ rel \o u \in Bytes /\ u \o w \in Bytes /\ t \o w \in Bytes
  BY <1>3, <1>4, CatBytes, Zenon
<1>6. (rel \o (x \o u)) \o w = rel \o (x \o (u \o w))
  <2>1. Assoc(rel, x \o u, w) /\ Assoc(x, u, w)
    BY <1>3, <1>4, <1>5, CatAssoc3, Zenon
  <2> QED BY <2>1, Zenon DEF Assoc
<1>7. (x \o (rel \o u)) \o w = x \o (rel \o (u \o w))
  <2>1. Assoc(x, rel \o u, w) /\ Assoc(rel, u, w)
    BY <1>3, <1>4, <1>5, CatAssoc3, Zenon
  <2> QED BY <2>1, Zenon DEF Assoc
<1>8. Sound(m, Len(t)) /\ (m # Incomplete => MeantBy(srv, t \o w) = m)
  BY <1>2, <1>3, AtOnceSettles, Zenon DEF Settled
<1>9. m # Incomplete
  BY <1>3 DEF Incomplete
<1>10. From(t \o w, m.used + 1) = From(t, m.used + 1) \o w
  <2>1. m.used + 1 \in 1..Len(t) + 1
    <3>1. m.used \in 1..Len(t) /\ Len(t) \in Nat
      BY <1>3, <1>8, SoundStates, BytesTyped, Zenon
    <3> QED BY <3>1
  <2> QED BY <1>3, <2>1, FrontStays, Zenon
<1>11. From(t \o w, m.used + 1) = IF srv = "http" THEN rel \o (x \o (u \o w)) ELSE x \o (rel \o (u \o w))
  BY <1>3, <1>6, <1>7, <1>10, Zenon
<1>12. MeantBy(srv, t \o w) = m
  BY <1>8, <1>9, Zenon
<1> QED BY <1>1, <1>3, <1>5, <1>11, <1>12, Zenon DEF CarryOK

\* The answers, read.
SocksAnswerRead(a, r, code) ==
    a \in Bytes /\ Len(a) = 10 /\ r.st = "ok" /\ r.used = 10 /\ r.value.code = code

LEMMA SocksAnswer ==
    ASSUME NEW code \in Byte, NEW rest \in Bytes, NEW a, a = ConnAnswer(code, DefaultAddress)
    PROVE  SocksAnswerRead(a, ParseConnAnswer(a \o rest), code)
<1>1. PICK w : w = WriteTo(DefaultAddress)
  OBVIOUS
<1>2. w \in Bytes /\ Len(w) = 7 /\ w[1] = 1
  BY <1>1 DEF WriteTo, DefaultAddress, V4, TypeByte, Bytes, Byte
<1>3. PICK h : h = <<5, code, 0>>
  OBVIOUS
<1>4. h \in Bytes /\ Len(h) = 3 /\ h[1] = 5 /\ h[2] = code /\ h[3] = 0
  <2>1. 5 \in Byte /\ 0 \in Byte
    BY DEF Byte
  <2> QED BY <1>3, <2>1, FewBytes, Zenon
<1>5. a = h \o w
  BY <1>1, <1>3, Zenon DEF ConnAnswer
<1>7. a \in Bytes /\ Len(a) = Len(h) + Len(w)
  BY <1>2, <1>4, <1>5, CatBytes, Zenon
<1>8. Len(a) = 10
  BY <1>2, <1>4, <1>7
<1>9. PICK b : b = a \o rest
  OBVIOUS
<1>10. PICK y : y = w \o rest
  OBVIOUS
<1>11. y \in Bytes /\ Len(y) = Len(w) + Len(rest) /\ Len(rest) \in Nat /\ \A i \in 1..Len(w) : y[i] = w[i]
  BY <1>2, <1>10, FrontStays, Zenon
<1>12. y[1] = 1 /\ y # <<>> /\ ~(Len(y) < 7)
  <2>1. 1 \in 1..Len(w) /\ Len(y) = 7 + Len(rest)
    BY <1>2, <1>11
  <2>2. Len(y) # 0 /\ ~(Len(y) < 7)
    BY <1>11, <2>1
  <2> QED BY <1>2, <1>11, <2>1, <2>2, BytesTyped, Zenon
<1>13. b = h \o y
  <2>1. Assoc(h, w, rest)
    BY <1>2, <1>4, CatAssoc3, Zenon
  <2> QED BY <1>5, <1>9, <1>10, <2>1, Zenon DEF Assoc
<1>14. b \in Bytes /\ Len(b) = Len(h) + Len(y) /\ \A i \in 1..Len(h) : b[i] = h[i]
  BY <1>4, <1>11, <1>13, FrontStays, Zenon
<1>15. b[1] = 5 /\ b[2] = code /\ b[3] = 0 /\ ~(Len(b) < 3)
  <2>1. 1 \in 1..Len(h) /\ 2 \in 1..Len(h) /\ 3 \in 1..Len(h)
    BY <1>4
  <2>2. ~(Len(b) < 3)
    BY <1>4, <1>12, <1>14, <1>11, BytesTyped
  <2> QED BY <1>4, <1>14, <2>1, <2>2, Zenon
<1>16. From(b, 4) = y
  <2>1. From(h \o y, Len(h) + 1) = y
    BY <1>4, <1>11, CatRight, Zenon
  <2>2. Len(h) + 1 = 4
    BY <1>4
  <2> QED BY <1>13, <2>1, <2>2, Zenon
<1>17. PICK v : ParseAsync(y) = Parsed(7, v)
  <2>1. ParseAsync(y) = ParseIp(y, 4, V4)
    BY <1>12 DEF ParseAsync
  <2>2. 1 + 4 + 2 = 7 /\ 4 + 3 = 7
    OBVIOUS
  <2> QED BY <1>12, <2>1, <2>2, Zenon DEF ParseIp
<1>18. PICK r : r = ParseConnAnswer(b)
  OBVIOUS
<1>19. PICK q : q = ParseAsync(y)
  OBVIOUS
<1>20. q.st = "ok" /\ q.used = 7 /\ q.value = v
  <2>1. q = Parsed(7, v)
    BY <1>17, <1>19, Zenon
  <2> QED BY <2>1 DEF Parsed
<1>21. r = Parsed(7 + 3, [code |-> code, bound |-> v])
  BY <1>15, <1>16, <1>18, <1>19, <1>20, Zenon DEF ParseConnAnswer
<1>22. r.st = "ok" /\ r.used = 10 /\ r.value.code = code
  BY <1>21 DEF Parsed
<1> QED BY <1>7, <1>8, <1>9, <1>18, <1>22, Zenon DEF SocksAnswerRead

HttpAnswerRead(a, r, c) == a \in Bytes /\ Len(a) = 6 /\ a[2] = c /\ r = Parsed(6, a)

LEMMA HttpAnswer ==
    ASSUME NEW c \in {200, 50}, NEW rest \in Bytes, NEW a, a = <<72, c>> \o EmptyLine
    PROVE  HttpAnswerRead(a, ParseHead(a \o rest), c)
<1>1. PICK h : h = <<72, c>>
  OBVIOUS
<1>2. h \in Bytes /\ Len(h) = 2 /\ h[1] = 72 /\ h[2] = c
  <2>1. 72 \in Byte /\ c \in Byte
    BY DEF Byte
  <2> QED BY <1>1, <2>1, FewBytes, Zenon
<1>3. EmptyLine \in Bytes /\ Len(EmptyLine) = 4
  BY DEF EmptyLine, Bytes, Byte
<1>4. a = h \o EmptyLine
  BY <1>1, Zenon
<1>5. a \in Bytes /\ Len(a) = Len(h) + Len(EmptyLine) /\ \A i \in 1..Len(h) : a[i] = h[i]
  <2>1. PICK e : e = EmptyLine
    OBVIOUS
  <2>2. e \in Bytes
    BY <1>3, <2>1, Zenon
  <2>3. h \o e \in Bytes /\ Len(h \o e) = Len(h) + Len(e)
    BY <1>2, <2>2, CatBytes, Zenon
  <2>4. \A i \in 1..Len(h) : (h \o e)[i] = h[i]
    <3>1. h \in Bytes
      BY <1>2
    <3> QED BY <2>2, <3>1, CatLeft, ZenonT(60)
  <2>5. a = h \o e
    BY <1>4, <2>1, Zenon
  <2> HIDE <1>1, <1>4, <2>1
  <2>6. a \in Bytes /\ Len(a) = Len(h) + Len(e) /\ \A i \in 1..Len(h) : a[i] = h[i]
    BY <2>3, <2>4, <2>5, Zenon
  <2> QED BY <2>1, <2>6, Zenon
<1>6. Len(a) = 6 /\ a[1] = 72 /\ a[2] = c
  <2>1. 1 \in 1..Len(h) /\ 2 \in 1..Len(h) /\ 2 + 4 = 6
    BY <1>2
  <2> QED BY <1>2, <1>3, <1>5, <2>1, Zenon
<1>7. EmptyLine[1] = 13
  BY DEF EmptyLine
<1>8. 3 \in Heads(a)
  <2>1. SubSeq(h \o EmptyLine, Len(h) + 1, Len(h) + Len(EmptyLine)) = EmptyLine
    BY <1>2, <1>3, CatRight, Zenon
  <2>2. Len(h) + 1 = 3 /\ Len(h) + Len(EmptyLine) = 3 + 3 /\ 3 \in 1..Len(a) - 3
    BY <1>2, <1>3, <1>6
  <2> QED BY <1>4, <2>1, <2>2, Zenon DEF Heads
<1>9. ASSUME NEW i \in {1, 2} PROVE i \notin Heads(a)
  <2>1. PICK p : p = SubSeq(a, i, i + 3)
    OBVIOUS
  <2>2. i \in Nat \ {0} /\ i + 3 \in Nat /\ i + 3 <= Len(a)
    BY <1>6
  <2>3. PartIs(p, a, i, i + 3)
    BY <1>5, <2>1, <2>2, PartOf, Zenon
  <2>4. Len(p) = (IF i <= i + 3 THEN (i + 3) - i + 1 ELSE 0) /\ \A k \in 1..Len(p) : p[k] = a[i + k - 1]
    BY <2>3, Zenon DEF PartIs
  <2>5. p[1] = a[i]
    BY <2>2, <2>4
  <2>6. a[i] # 13
    BY <1>6
  <2>7. p # EmptyLine
    BY <1>7, <2>5, <2>6, Zenon
  <2> QED BY <2>1, <2>7, Zenon DEF Heads
<1>10. Heads(a) \subseteq Nat
  BY <1>6 DEF Heads
<1>11. Min(Heads(a)) = 3
  <2>1. PICK k : k = Min(Heads(a))
    OBVIOUS
  <2>2. k \in Heads(a) /\ \A y \in Heads(a) : k <= y
    BY <1>8, <1>10, <2>1, MinIsLeast, Zenon
  <2>3. k \in Nat /\ k <= 3 /\ k # 0
    BY <1>6, <1>8, <2>2 DEF Heads
  <2>4. k \notin {1, 2}
    BY <1>9, <2>2, Zenon
  <2> QED BY <2>1, <2>3, <2>4
<1>12. HeadEnd(a) = 3
  BY <1>5, <1>8, <1>11, HeadEndIs, Zenon
<1>13. SubSeq(a, 1, 3 + 3) = a
  <2>1. SubSeq(a, 1, Len(a)) = a
    BY <1>5 DEF Bytes
  <2>2. Len(a) = 3 + 3
    BY <1>6
  <2> QED BY <2>1, <2>2, Zenon
<1>14. ParseHead(a) = Parsed(6, a)
  <2>1. a # <<>> /\ ~(a[1] < 32) /\ 3 # 0 /\ 3 + 3 = 6
    BY <1>6
  <2> QED BY <1>12, <1>13, <2>1, Zenon DEF ParseHead
<1>15. ParseHead(a) # Incomplete
  BY <1>14 DEF Parsed, Incomplete
<1>16. ParseHead(a \o rest) = Parsed(6, a)
  BY <1>5, <1>14, <1>15, HeadSettles, Zenon DEF Settled
<1> QED BY <1>5, <1>6, <1>16, Zenon DEF HttpAnswerRead

-----------------------------------------------------------------------------
(* Steps that leave one side as it is.                                      *)

\* The client writes w.
LEMMA UpGrows ==
    ASSUME NEW s, NEW p, NEW q, NEW sv, NEW u, NEW w \in Bytes, UpOK(s, p, sv, u),
           SentBy(s, q) = SentBy(s, p) \o w
    PROVE  UpOK(s, q, sv, u \o w)
<1>1. /\ sv = [phase |-> sv.phase, hs |-> sv.hs, relayed |-> sv.relayed]
      /\ sv.hs = Hs(sv.hs.phase, sv.hs.buf, sv.hs.req, <<>>)
      /\ sv.phase \in Before \cup Relaying
      /\ (sv.phase = "handshake" => sv.hs.phase \in Reading \cup {"request"})
      /\ (sv.phase \in Opened \cup {"connecting"} => sv.hs.phase = "done")
      /\ (s.client = "socks5" /\ sv.hs.phase = "done" => ReadBuf(sv.hs.buf) = <<>>)
  BY Zenon DEF UpOK
<1>2. ASSUME sv.phase \in Before
      PROVE  sv.relayed = <<>> /\ HsOK(s.server, sv.hs.phase, sv.hs.buf, sv.hs.req, u \o w, SentBy(s, q))
  <2>1. sv.relayed = <<>> /\ HsOK(s.server, sv.hs.phase, sv.hs.buf, sv.hs.req, u, SentBy(s, p))
    BY <1>2, Zenon DEF UpOK
  <2>2. HsOK(s.server, sv.hs.phase, sv.hs.buf, sv.hs.req, u \o w, SentBy(s, p) \o w)
    BY <2>1, HsGrows, Zenon
  <2> QED BY <2>1, <2>2, Zenon
<1>3. ASSUME sv.phase \in Relaying
      PROVE  CarryOK(s.server, sv.hs, sv.relayed, u \o w, SentBy(s, q))
  <2>1. CarryOK(s.server, sv.hs, sv.relayed, u, SentBy(s, p))
    BY <1>3, Zenon DEF UpOK
  <2>2. CarryOK(s.server, sv.hs, sv.relayed, u \o w, SentBy(s, p) \o w)
    BY <2>1, CarryGrows, Zenon
  <2> QED BY <2>2, Zenon
<1> QED BY <1>1, <1>2, <1>3, Zenon DEF UpOK

LEMMA UpSame ==
    ASSUME NEW s, NEW p, NEW q, NEW sv, NEW u, UpOK(s, p, sv, u), SentBy(s, q) = SentBy(s, p)
    PROVE  UpOK(s, q, sv, u)
BY Zenon DEF UpOK

\* The phases of the server, told apart.
LEMMA ServerPhases ==
    /\ "handshake" \in Before /\ "connecting" \in Before /\ "association" \in Before /\ "closed" \in Before
    /\ "relay" \in Relaying /\ "ended" \in Relaying /\ "broken" \in Relaying
    /\ \A p \in Before : p \notin Relaying
    /\ \A p \in {"handshake", "connecting", "closed"} : p \notin Opened /\ p \notin Relaying
    /\ \A p \in Opened : p \notin {"handshake", "connecting", "closed"}
    /\ "association" \in Opened /\ "relay" \in Opened /\ "ended" \in Opened /\ "broken" \in Opened
    /\ \A p \in Before \cup Relaying : p \in {"handshake", "connecting", "closed"} \/ p \in Opened
BY DEF Before, Relaying, Opened

\* A done handshake has found a request of a known protocol.
LEMMA ViaKnown ==
    ASSUME NEW srv, NEW t \in Bytes, NEW m, m = MeantBy(srv, t), m.st = "ok"
    PROVE  m.value.via \in {"socks5", "socks4", "connect", "http"}
<1> DEFINE Known(q) == q.via \in {"socks5", "socks4", "connect", "http"}
<1>1. \A ty, d : /\ Known(Request(ty, "socks5", d)) /\ Known(Request(ty, "socks4", d))
                 /\ Known(Request(ty, "connect", d)) /\ Known(Request(ty, "http", d))
  BY DEF Request
<1> HIDE DEF Known
<1>2. \A n, v : Parsed(n, v).value = v
  BY DEF Parsed
<1>3. Invalid.st # "ok" /\ Incomplete.st # "ok"
  BY DEF Invalid, Incomplete
<1>4. ASSUME m = HttpAtOnce(t) PROVE Known(m.value)
  <2>1. PICK r : r = ParseHead(t)
    OBVIOUS
  <2>2. PICK reqs : reqs = ReadHead(r.value)
    OBVIOUS
  <2>3. PICK q : q = AskedBy(r.value)
    OBVIOUS
  <2>4. m = IF r.st # "ok" THEN r ELSE IF reqs = {} THEN Invalid ELSE Parsed(r.used, q)
    BY <1>4, <2>1, <2>2, <2>3, Zenon DEF HttpAtOnce
  <2>5. reqs # {} /\ m = Parsed(r.used, q)
    BY <1>3, <2>4, Zenon
  <2>6. m.value = q
    BY <2>5 DEF Parsed
  <2>7. q \in reqs
    BY <2>2, <2>3, <2>5, AskedFor, Zenon
  <2>8. \E a : q = Request("TCP", "connect", a) \/ q = Request("HTTP", "http", a)
    BY <2>2, <2>7, AskedIs, Zenon
  <2> QED BY <1>1, <2>6, <2>8, Zenon
<1>5. ASSUME m = Socks4AtOnce(t) PROVE Known(m.value)
  <2>1. PICK r : r = ParseSocks4(t)
    OBVIOUS
  <2>2. m = IF r.st # "ok" THEN r ELSE IF r.value.cmd # ConnectTcp THEN Invalid
            ELSE Parsed(r.used, Request("TCP", "socks4", r.value.addr))
    BY <1>5, <2>1, Zenon DEF Socks4AtOnce
  <2>3. m = Parsed(r.used, Request("TCP", "socks4", r.value.addr))
    BY <1>3, <2>2, Zenon
  <2>4. m.value = Request("TCP", "socks4", r.value.addr)
    BY <2>3 DEF Parsed
  <2> QED BY <1>1, <2>4, Zenon
<1>6. ASSUME m = Socks5AtOnce(t) PROVE Known(m.value)
  <2>1. PICK g : g = ParseGreeting(t)
    OBVIOUS
  <2>2. PICK r : r = ParseConnRequest(From(t, g.used + 1))
    OBVIOUS
  <2>3. PICK q : q = Request(IF r.value.cmd = ConnectTcp THEN "TCP" ELSE "UDP", "socks5", r.value.addr)
    OBVIOUS
  <2>4. m = IF g.st # "ok" THEN g
            ELSE IF \A i \in DOMAIN g.value : g.value[i] # NoPassword THEN Invalid
            ELSE IF r.st # "ok" THEN r
            ELSE IF r.value.cmd \notin {ConnectTcp, BindUdp} THEN Invalid
            ELSE Parsed(g.used + r.used, q)
    BY <1>6, <2>1, <2>2, <2>3, Zenon DEF Socks5AtOnce
  <2>5. m = Parsed(g.used + r.used, q)
    BY <1>3, <2>4, Zenon
  <2>6. m.value = q
    BY <2>5 DEF Parsed
  <2> QED BY <1>1, <2>3, <2>6, Zenon
<1>7. m # Incomplete
  BY <1>3, Zenon
<1>8. m \in {HttpAtOnce(t), Socks4AtOnce(t), Socks5AtOnce(t)}
  BY <1>7 DEF MeantBy, AtOnce
<1>9. Known(m.value)
  BY <1>4, <1>5, <1>6, <1>8
<1> QED BY <1>9 DEF Known

\* Every answer is bytes.
LEMMA AnswerTyped ==
    ASSUME NEW via \in {"socks5", "socks4", "connect", "http"}, NEW ok \in BOOLEAN
    PROVE  AnswerOf(via, ok) \in Bytes
<1>1. ConnAnswer(Granted, DefaultAddress) \in Bytes /\ ConnAnswer(Failed, DefaultAddress) \in Bytes
  <2>1. Granted \in Byte /\ Failed \in Byte
    BY DEF Granted, Failed, Byte
  <2> QED BY <2>1, SocksAnswer, AnswersAreBytes, Zenon DEF SocksAnswerRead
<1>2. Socks4Answer(TRUE) \in Bytes /\ Socks4Answer(FALSE) \in Bytes
  BY DEF Socks4Answer, Bytes, Byte
<1>3. <<72, 200>> \o EmptyLine \in Bytes /\ <<72, 50>> \o EmptyLine \in Bytes
  <2>1. 200 \in {200, 50} /\ 50 \in {200, 50}
    OBVIOUS
  <2>2. PICK a : a = <<72, 200>> \o EmptyLine
    OBVIOUS
  <2>3. PICK b : b = <<72, 50>> \o EmptyLine
    OBVIOUS
  <2>4. HttpAnswerRead(a, ParseHead(a \o <<>>), 200)
    BY <2>1, <2>2, AnswersAreBytes, HttpAnswer, Zenon
  <2>5. HttpAnswerRead(b, ParseHead(b \o <<>>), 50)
    BY <2>1, <2>3, AnswersAreBytes, HttpAnswer, Zenon
  <2> QED BY <2>2, <2>3, <2>4, <2>5, Zenon DEF HttpAnswerRead
<1> QED BY <1>1, <1>2, <1>3, AnswersAreBytes DEF AnswerOf, RespondOk, RespondErr

LEMMA AnsweredIs ==
    ASSUME NEW s, NEW sv, NEW k
    PROVE  /\ sv.phase \in Opened => Answered(s, sv, k) = AnswerOf(sv.hs.req.via, TRUE) \o SubSeq(s.reply, 1, k)
           /\ sv.phase = "closed" /\ sv.hs.phase = "done" => Answered(s, sv, k) = AnswerOf(sv.hs.req.via, FALSE)
           /\ sv.phase \notin Opened /\ ~(sv.phase = "closed" /\ sv.hs.phase = "done") => Answered(s, sv, k) = <<>>
<1>1. "closed" \notin Opened
  BY DEF Opened
<1> QED BY <1>1 DEF Answered

LEMMA AnswerIs ==
    /\ AnswerOf("socks5", TRUE) = ConnAnswer(Granted, DefaultAddress)
    /\ AnswerOf("socks5", FALSE) = ConnAnswer(Failed, DefaultAddress)
    /\ AnswerOf("connect", TRUE) = <<72, 200>> \o EmptyLine
    /\ AnswerOf("connect", FALSE) = <<72, 50>> \o EmptyLine
<1>1. RespondOk("socks5", DefaultAddress) = ConnAnswer(Granted, DefaultAddress)
  BY DEF RespondOk
<1>2. RespondErr("socks5") = ConnAnswer(Failed, DefaultAddress)
  BY DEF RespondErr
<1>3. RespondOk("connect", DefaultAddress) = <<72, 200>> \o EmptyLine
  BY DEF RespondOk
<1>4. RespondErr("connect") = <<72, 50>> \o EmptyLine
  BY DEF RespondErr
<1> QED BY <1>1, <1>2, <1>3, <1>4, Zenon DEF AnswerOf

\* The download does not depend on the server's buffer.
LEMMA DownSame ==
    ASSUME NEW s, NEW c, NEW sv, NEW sw, NEW dn, NEW k, DownOK(s, c, sv, dn, k),
           sw.phase = sv.phase, sw.hs.phase = sv.hs.phase, sw.hs.req = sv.hs.req
    PROVE  DownOK(s, c, sw, dn, k)
<1>1. Answered(s, sw, k) = Answered(s, sv, k)
  BY DEF Answered
<1>2. WaitOK(s, c, sw, dn, k)
  BY <1>1, Zenon DEF DownOK, WaitOK
<1> QED BY <1>2, Zenon DEF DownOK

-----------------------------------------------------------------------------
(* The steps.                                                               *)

LEMMA NoBytes == <<>> \in Bytes /\ <<>> \o <<>> = <<>>
BY DEF Bytes

\* Nothing is before or behind nothing.
LEMMA EmptyParts ==
    ASSUME NEW x \in Bytes, NEW y \in Bytes, x \o y = <<>>
    PROVE  x = <<>> /\ y = <<>>
<1>1. Len(x) + Len(y) = 0 /\ Len(x) \in Nat /\ Len(y) \in Nat
  <2>1. Len(x \o y) = Len(x) + Len(y) /\ Len(x) \in Nat /\ Len(y) \in Nat
    BY CatBytes, BytesTyped, Zenon
  <2>2. Len(<<>>) = 0
    OBVIOUS
  <2> QED BY <2>1, <2>2, Zenon
<1>2. Len(x) = 0 /\ Len(y) = 0
  BY <1>1
<1> QED BY <1>2, BytesTyped, Zenon

LEMMA InitOK == Init => IInv
<1> SUFFICES ASSUME Init PROVE IInv
  OBVIOUS
<1>1. /\ session \in Sessions /\ up = FirstBytes(session) /\ down = <<>> /\ replied = 0 /\ fin = FALSE
      /\ server = [phase |-> "handshake", hs |-> StartHandshake(HandshakeLen), relayed |-> <<>>]
      /\ client = Client(CASE session.client = "socks5" -> "greeting"
                           [] session.client = "http" -> "response"
                           [] session.client = "other" -> "open")
  BY Zenon DEF Init
<1>2. PICK s : s = session
  OBVIOUS
<1>3. s.client \in {"socks5", "http", "other"} /\ s.reply \in Bytes /\ s.server \in {"handshaker", "http"}
  BY <1>1, <1>2, SessionTyped, Zenon
<1>4. PICK p : p = client.phase
  OBVIOUS
<1>5. /\ client = [phase |-> p, buf |-> client.buf, got |-> client.got]
      /\ client.buf = NewBuffer(ResponseLen) /\ client.got = <<>>
      /\ (s.client = "socks5" => p = "greeting") /\ (s.client = "http" => p = "response")
      /\ (s.client = "other" => p = "open")
  BY <1>1, <1>2, <1>3, <1>4 DEF Client
<1>6. HandshakeLen \in Nat /\ ResponseLen \in Nat
  BY HandshakeAssumption
<1>7. Holds(client.buf, <<>>) /\ Holds(NewBuffer(HandshakeLen), <<>>)
  BY <1>5, <1>6, NewHolds, Zenon
<1>8. ReadBuf(client.buf) = <<>> /\ ReadBuf(NewBuffer(HandshakeLen)) = <<>>
  BY <1>7, Zenon DEF Holds
<1>9. PICK t : t = SentBy(s, p)
  OBVIOUS
<1>10. up = t /\ t \in Bytes
  <2>1. SentBy(s, p) = FirstBytes(s)
    BY <1>3, <1>5 DEF SentBy, FirstBytes, Hello
  <2>2. t \in Bytes
    BY <1>1, <1>2, <1>9, SentMeans, Zenon DEF MeansOK
  <2> QED BY <1>1, <1>2, <1>9, <2>1, <2>2, Zenon
<1>11. PICK hs : hs = server.hs
  OBVIOUS
<1>12. /\ server = [phase |-> server.phase, hs |-> server.hs, relayed |-> server.relayed]
       /\ server.phase = "handshake" /\ server.relayed = <<>>
       /\ hs = Hs("init", NewBuffer(HandshakeLen), NoRequest, <<>>)
  BY <1>1, <1>11 DEF StartHandshake
<1>13. hs.phase = "init" /\ hs.buf = NewBuffer(HandshakeLen) /\ hs.req = NoRequest
  BY <1>12 DEF Hs
<1>14. HsOK(s.server, "init", NewBuffer(HandshakeLen), NoRequest, t, t)
  <2>1. <<>> \o t = t
    BY <1>10, CatEmpty, Zenon
  <2>2. "init" \in Reading /\ "init" \notin {"socks5", "socks4", "http", "request", "done", "failed"}
    BY DEF Reading
  <2> QED BY <1>7, <1>8, <1>10, <2>1, <2>2, Zenon DEF HsOK
<1>15. UpOK(s, p, server, up)
  <2>1. "init" \in Reading /\ "init" # "done" /\ "handshake" \in Before
        /\ "handshake" \notin Relaying /\ "handshake" \notin Opened \cup {"connecting"}
    BY DEF Reading, Before, Relaying, Opened
  <2> QED BY <1>9, <1>10, <1>11, <1>12, <1>13, <1>14, <2>1, Zenon DEF UpOK
<1>16. Answered(s, server, 0) = <<>>
  BY <1>12 DEF Answered, Opened
<1>17. WaitOK(s, client, server, down, replied)
  <2>1. "init" # "request" /\ "socks5" # "http" /\ "socks5" # "other" /\ "http" # "other"
        /\ "greeting" \notin {"answer", "response", "open"}
        /\ "response" \notin {"greeting", "answer", "open"} /\ "open" \notin {"greeting", "answer", "response"}
    OBVIOUS
  <2>2. CASE s.client = "socks5"
    <3>1. client.phase = "greeting"
      BY <1>4, <1>5, <2>2, Zenon
    <3> QED BY <1>1, <1>5, <1>8, <1>11, <1>12, <1>13, <2>1, <2>2, <3>1, Zenon DEF WaitOK
  <2>3. CASE s.client = "http"
    <3>1. client.phase = "response"
      BY <1>4, <1>5, <2>3, Zenon
    <3> QED BY <1>1, <1>5, <1>8, <1>16, <2>1, <2>3, <3>1, NoBytes, Zenon DEF WaitOK
  <2>4. CASE s.client = "other"
    <3>1. client.phase = "open"
      BY <1>4, <1>5, <2>4, Zenon
    <3> QED BY <2>1, <2>4, <3>1, Zenon DEF WaitOK
  <2> QED BY <1>3, <2>2, <2>3, <2>4
<1>18. DownOK(s, client, server, down, replied)
  <2>1. p \in {"greeting", "answer", "response", "open", "failed"}
    BY <1>3, <1>5
  <2>2. 0 \in 0..Len(s.reply)
    <3>1. Len(s.reply) \in Nat
      BY <1>3, BytesTyped, Zenon
    <3> QED BY <3>1
  <2> QED BY <1>1, <1>4, <1>5, <1>7, <1>8, <1>17, <2>1, <2>2, NoBytes, Zenon DEF DownOK
<1>19. EndOK(s, client, server, up, replied, fin)
  BY <1>1, <1>12 DEF EndOK
<1> QED BY <1>1, <1>2, <1>4, <1>15, <1>18, <1>19, Zenon DEF IInv

\* GreetingAnswered: the answer is there, and accepts.
LEMMA GreetingAnsweredOK ==
    ASSUME IInv, GreetingAnswered
    PROVE  IInv'
<1>1. PICK s : s = session
  OBVIOUS
<1>2. /\ s \in Sessions /\ UpOK(s, client.phase, server, up) /\ DownOK(s, client, server, down, replied)
      /\ EndOK(s, client, server, up, replied, fin)
  BY <1>1, Zenon DEF IInv
<1>3. PICK r : r = ReadGreetingAnswer(down)
  OBVIOUS
<1>4. /\ client.phase = "greeting" /\ r.st # "incomplete" /\ down' = From(down, 3)
      /\ IF r.st = "ok" /\ r.value = NoPassword /\ Writable(s.dst)
         THEN /\ up' = up \o ConnRequest(s.cmd, s.dst)
              /\ client' = [client EXCEPT !.phase = "answer"]
         ELSE /\ up' = up \o (IF r.st = "ok" /\ r.value = NoPassword THEN <<5, s.cmd, 0>> ELSE <<>>)
              /\ client' = [client EXCEPT !.phase = "failed"]
      /\ session' = s /\ server' = server /\ replied' = replied /\ fin' = fin
  BY <1>1, <1>3 DEF GreetingAnswered
<1>5. /\ s.client = "socks5" /\ ReadBuf(client.buf) = <<>> /\ server.phase = "handshake" /\ client.got = <<>>
      /\ down = IF server.hs.phase = "request" THEN GreetingAnswer(NoPassword) ELSE <<>>
  BY <1>2, <1>4, Zenon DEF DownOK, WaitOK
<1>6. server.hs.phase = "request" /\ down = GreetingAnswer(NoPassword)
  <2>1. ASSUME down = <<>> PROVE FALSE
    <3>1. ReadGreetingAnswer(<<>>) = Incomplete
      BY DEF ReadGreetingAnswer
    <3>2. r.st = "incomplete"
      BY <1>3, <2>1, <3>1, Results, Zenon
    <3> QED BY <1>4, <3>2
  <2> QED BY <1>5, <2>1, Zenon
<1>7. r.st = "ok" /\ r.value = NoPassword
  <2>1. r = Parsed(2, NoPassword)
    BY <1>3, <1>6 DEF ReadGreetingAnswer, GreetingAnswer
  <2> QED BY <2>1 DEF Parsed
<1>8. down' = <<>>
  BY <1>4, <1>6 DEF GreetingAnswer, From
<1>9. PICK q : q = IF Writable(s.dst) THEN "answer" ELSE "failed"
  OBVIOUS
<1>10. PICK w : w = IF Writable(s.dst) THEN ConnRequest(s.cmd, s.dst) ELSE <<5, s.cmd, 0>>
  OBVIOUS
<1>11. up' = up \o w /\ client' = [client EXCEPT !.phase = q]
  BY <1>4, <1>7, <1>9, <1>10, Zenon
<1>12. w \in Bytes
  <2>1. s.cmd \in Byte /\ IsTarget(s.dst)
    BY <1>2, SessionTyped, Zenon
  <2>2. <<5, s.cmd, 0>> \in Bytes
    BY <2>1, BareRequest, Zenon
  <2>3. Writable(s.dst) => ConnRequest(s.cmd, s.dst) \in Bytes
    BY <2>1, NoBytes, RequestRead, Zenon
  <2> QED BY <1>10, <2>2, <2>3, Zenon
<1>13. SentBy(s, q) = SentBy(s, client.phase) \o w
  <2>1. SentBy(s, client.phase) = Hello
    BY <1>4, <1>5 DEF SentBy
  <2>2. SentBy(s, q) = Hello \o w
    BY <1>5, <1>9, <1>10 DEF SentBy
  <2> QED BY <2>1, <2>2, Zenon
<1>14. UpOK(s, q, server, up \o w)
  BY <1>2, <1>12, <1>13, UpGrows, Zenon
<1>15. /\ client = [phase |-> client.phase, buf |-> client.buf, got |-> client.got]
       /\ Holds(client.buf, ReadBuf(client.buf)) /\ client.got \in Bytes
       /\ replied \in 0..Len(s.reply) /\ (server.phase \notin Relaying => replied = 0)
  BY <1>2, Zenon DEF DownOK
<1>16. /\ client'.phase = q /\ client'.buf = client.buf /\ client'.got = client.got
       /\ client' = [phase |-> q, buf |-> client.buf, got |-> client.got]
  BY <1>11, <1>15
<1>17. Answered(s, server, replied) = <<>>
  BY <1>5, <1>6 DEF Answered, Opened
<1>18. q \in {"answer", "failed"} /\ q \notin {"greeting", "response", "open"} /\ (q = "answer" => Writable(s.dst))
       /\ "socks5" # "other"
  BY <1>9
<1>19. WaitOK(s, client', server, <<>>, replied)
  BY <1>5, <1>6, <1>16, <1>17, <1>18, NoBytes, Zenon DEF WaitOK
<1>20. DownOK(s, client', server, <<>>, replied)
  <2>1. q \in {"greeting", "answer", "response", "open", "failed"}
    BY <1>18
  <2> QED BY <1>5, <1>15, <1>16, <1>18, <1>19, <2>1, NoBytes, Zenon DEF DownOK
<1>21. EndOK(s, client', server, up', replied, fin)
  BY <1>2, <1>4, <1>5 DEF EndOK
<1>22. IInv' = (/\ session' \in Sessions /\ UpOK(session', client'.phase, server', up')
                /\ DownOK(session', client', server', down', replied')
                /\ EndOK(session', client', server', up', replied', fin'))
  BY Zenon DEF IInv, UpOK, DownOK, EndOK
<1> QED BY <1>2, <1>4, <1>8, <1>11, <1>14, <1>16, <1>20, <1>21, <1>22, Zenon

\* The state, with its parts named.
StateOK(s, c, sv, u, dn, k, f) ==
    /\ s \in Sessions /\ UpOK(s, c.phase, sv, u) /\ DownOK(s, c, sv, dn, k) /\ EndOK(s, c, sv, u, k, f)

LEMMA StateIs == IInv <=> StateOK(session, client, server, up, down, replied, fin)
BY Zenon DEF IInv, StateOK

LEMMA NextStateIs ==
    ASSUME StateOK(session', client', server', up', down', replied', fin')
    PROVE  IInv'
BY Zenon DEF IInv, StateOK

\* What a waiting client of the upstream protocols has been answered.
LEMMA ViaIs ==
    ASSUME NEW s \in Sessions, NEW p, NEW sv, NEW u, UpOK(s, p, sv, u), sv.hs.phase = "done"
    PROVE  /\ sv.hs.req = s.meant
           /\ sv.hs.req.via \in {"socks5", "socks4", "connect", "http"}
           /\ s.client = "socks5" => sv.hs.req.via = "socks5" /\ sv.hs.req.dst = Understood(s.dst)
           /\ s.client = "http" => sv.hs.req.via = "connect" /\ (Plain(s.text) => sv.hs.req.dst = Heard(s))
<1>1. PICK t : t = SentBy(s, p)
  OBVIOUS
<1>2. PICK m : m = MeantBy(s.server, t)
  OBVIOUS
<1>3. m.st = "ok" /\ sv.hs.req = m.value
  <2>1. sv.phase \in Before \/ sv.phase \in Relaying
    BY Zenon DEF UpOK
  <2>2. CASE sv.phase \in Before
    BY <1>1, <1>2, <2>2, Zenon DEF UpOK, HsOK
  <2>3. CASE sv.phase \in Relaying
    BY <1>1, <1>2, <2>3, Zenon DEF UpOK, CarryOK
  <2> QED BY <2>1, <2>2, <2>3
<1>4. MeansOK(s, p, t)
  BY <1>1, SentMeans, Zenon
<1>5. /\ t \in Bytes /\ m.value = s.meant
      /\ (s.client = "socks5" => m.value.via = "socks5" /\ m.value.dst = Understood(s.dst))
      /\ (s.client = "http" => m.value.via = "connect" /\ (Plain(s.text) => m.value.dst = Heard(s)))
  BY <1>2, <1>3, <1>4, Zenon DEF MeansOK
<1>6. m.value.via \in {"socks5", "socks4", "connect", "http"}
  BY <1>2, <1>3, <1>5, ViaKnown, Zenon
<1> QED BY <1>3, <1>5, <1>6, Zenon

\* RequestAnswered: only a server that has connected grants the request.
LEMMA RequestAnsweredOK ==
    ASSUME IInv, RequestAnswered
    PROVE  IInv'
<1>1. PICK s : s = session
  OBVIOUS
<1>2. /\ s \in Sessions /\ UpOK(s, client.phase, server, up) /\ DownOK(s, client, server, down, replied)
      /\ EndOK(s, client, server, up, replied, fin)
  BY <1>1, Zenon DEF IInv
<1>3. PICK r : r = ParseConnAnswer(down)
  OBVIOUS
<1>4. /\ client.phase = "answer" /\ r.st # "incomplete"
      /\ IF r.st = "ok" /\ r.value.code = Granted
         THEN /\ down' = From(down, r.used + 1)
              /\ up' = IF s.cmd = ConnectTcp THEN up \o s.payload ELSE up
              /\ client' = [client EXCEPT !.phase = "open"]
         ELSE /\ client' = [client EXCEPT !.phase = "failed"] /\ up' = up /\ down' = down
      /\ session' = s /\ server' = server /\ replied' = replied /\ fin' = fin
  BY <1>1, <1>3 DEF RequestAnswered
<1>5. /\ s.client = "socks5" /\ ReadBuf(client.buf) = <<>> /\ client.got = <<>> /\ Writable(s.dst)
      /\ ReadBuf(client.buf) \o down = Answered(s, server, replied)
  BY <1>2, <1>4, Zenon DEF DownOK, WaitOK
<1>6. /\ client = [phase |-> client.phase, buf |-> client.buf, got |-> client.got]
      /\ Holds(client.buf, ReadBuf(client.buf)) /\ client.got \in Bytes /\ down \in Bytes
      /\ replied \in 0..Len(s.reply) /\ (server.phase \notin Relaying => replied = 0)
  BY <1>2, Zenon DEF DownOK
<1>7. down = Answered(s, server, replied)
  BY <1>5, <1>6, CatEmpty, Zenon
<1>8. s.client # "other" /\ s.client # "http" /\ s.payload \in Bytes /\ s.reply \in Bytes
  <2>1. s.payload \in Bytes /\ s.reply \in Bytes
    BY <1>2, SessionTyped, Zenon
  <2> QED BY <1>5, <2>1
<1>9. ASSUME NEW q, client' = [client EXCEPT !.phase = q]
      PROVE  /\ client'.phase = q /\ client'.buf = client.buf /\ client'.got = client.got
             /\ client' = [phase |-> q, buf |-> client.buf, got |-> client.got]
  BY <1>6, <1>9
<1>10. PICK rep : rep = SubSeq(s.reply, 1, replied)
  OBVIOUS
<1>11. rep \in Bytes
  <2>1. 1 \in Nat \ {0}
    OBVIOUS
  <2> QED BY <1>6, <1>8, <1>10, <2>1, BytesTyped, Zenon
<1>12. fin = FALSE
  BY <1>2, <1>4 DEF EndOK
<1>13. CASE server.phase \in Opened
  <2>1. server.hs.phase = "done"
    BY <1>2, <1>13, Zenon DEF UpOK
  <2>2. server.hs.req.via = "socks5"
    BY <1>2, <1>5, <2>1, ViaIs, Zenon
  <2>3. PICK a : a = ConnAnswer(Granted, DefaultAddress)
    OBVIOUS
  <2>4. down = a \o rep
    <3>1. Answered(s, server, replied) = AnswerOf(server.hs.req.via, TRUE) \o SubSeq(s.reply, 1, replied)
      BY <1>13, AnsweredIs, Zenon
    <3>2. AnswerOf(server.hs.req.via, TRUE) = a
      BY <2>2, <2>3, AnswerIs, Zenon
    <3> QED BY <1>7, <1>10, <3>1, <3>2, Zenon
  <2>5. Granted \in Byte
    BY DEF Granted, Byte
  <2>6. a \in Bytes /\ Len(a) = 10 /\ r.st = "ok" /\ r.used = 10 /\ r.value.code = Granted
    <3>1. SocksAnswerRead(a, ParseConnAnswer(a \o rep), Granted)
      BY <1>11, <2>3, <2>5, SocksAnswer, Zenon
    <3>2. SocksAnswerRead(a, r, Granted)
      BY <1>3, <2>4, <3>1, Zenon
    <3> QED BY <3>2, Zenon DEF SocksAnswerRead
  <2>7. down' = rep
    <3>1. From(a \o rep, Len(a) + 1) = rep
      BY <1>11, <2>6, CatRight, Zenon
    <3>2. down' = From(down, r.used + 1)
      BY <1>4, <2>6, Zenon
    <3> QED BY <2>4, <2>6, <3>1, <3>2, Zenon
  <2>8. client' = [client EXCEPT !.phase = "open"] /\ up' = IF s.cmd = ConnectTcp THEN up \o s.payload ELSE up
    BY <1>4, <2>6, Zenon
  <2>9. /\ client'.phase = "open" /\ client'.buf = client.buf /\ client'.got = client.got
        /\ client' = [phase |-> "open", buf |-> client.buf, got |-> client.got]
    BY <1>9, <2>8, Zenon
  <2>10. UpOK(s, "open", server, up')
    <3>1. PICK c : c = ConnRequest(s.cmd, s.dst)
      OBVIOUS
    <3>2. SentBy(s, "answer") = Hello \o c
      BY <1>5, <3>1 DEF SentBy
    <3>3. CASE s.cmd = ConnectTcp
      <4>1. SentBy(s, "open") = Hello \o (c \o s.payload)
        BY <1>5, <3>1, <3>3 DEF SentBy
      <4>2. c \in Bytes
        <5>1. s.cmd \in Byte /\ IsTarget(s.dst)
          BY <1>2, SessionTyped, Zenon
        <5> QED BY <1>5, <3>1, <5>1, NoBytes, RequestRead, Zenon
      <4>3. SentBy(s, "open") = SentBy(s, "answer") \o s.payload
        <5>1. Assoc(Hello, c, s.payload)
          BY <1>8, <4>2, HelloIs, CatAssoc3, Zenon
        <5> QED BY <3>2, <4>1, <5>1, Zenon DEF Assoc
      <4>4. UpOK(s, "open", server, up \o s.payload)
        BY <1>2, <1>4, <1>8, <4>3, UpGrows, Zenon
      <4> QED BY <2>8, <3>3, <4>4, Zenon
    <3>4. CASE s.cmd # ConnectTcp
      <4>1. SentBy(s, "open") = Hello \o c
        BY <1>5, <3>1, <3>4 DEF SentBy
      <4>2. UpOK(s, "open", server, up)
        BY <1>2, <1>4, <3>2, <4>1, UpSame, Zenon
      <4> QED BY <2>8, <3>4, <4>2, Zenon
    <3> QED BY <3>3, <3>4
  <2>11. client'.got \o (ReadBuf(client'.buf) \o down') = rep
    BY <1>5, <1>11, <2>7, <2>9, CatEmpty, Zenon
  <2>12. "open" \notin {"greeting", "answer", "response"}
    OBVIOUS
  <2>13. WaitOK(s, client', server, down', replied)
    BY <1>5, <1>10, <1>13, <2>9, <2>11, <2>12, Zenon DEF WaitOK
  <2>14. DownOK(s, client', server, down', replied)
    <3>1. "open" \in {"greeting", "answer", "response", "open", "failed"}
      OBVIOUS
    <3> QED BY <1>6, <1>11, <2>7, <2>9, <2>13, <3>1, Zenon DEF DownOK
  <2>15. EndOK(s, client', server, up', replied, fin)
    BY <1>2, <1>12 DEF EndOK
  <2>16. StateOK(session', client', server', up', down', replied', fin')
    BY <1>2, <1>4, <2>9, <2>10, <2>14, <2>15, Zenon DEF StateOK
  <2> QED BY <2>16, NextStateIs, Zenon
<1>14. CASE server.phase \notin Opened
  <2>1. server.phase = "closed" /\ server.hs.phase = "done"
    <3>1. SUFFICES ASSUME ~(server.phase = "closed" /\ server.hs.phase = "done") PROVE FALSE
      OBVIOUS
    <3>2. down = <<>>
      BY <1>7, <1>14, <3>1, AnsweredIs, Zenon
    <3>3. ParseConnAnswer(<<>>) = Incomplete
      BY DEF ParseConnAnswer
    <3>4. r.st = "incomplete"
      BY <1>3, <3>2, <3>3, Results, Zenon
    <3> QED BY <1>4, <3>4
  <2>2. server.hs.req.via = "socks5"
    BY <1>2, <1>5, <2>1, ViaIs, Zenon
  <2>3. PICK a : a = ConnAnswer(Failed, DefaultAddress)
    OBVIOUS
  <2>4. down = a
    <3>1. Answered(s, server, replied) = AnswerOf(server.hs.req.via, FALSE)
      BY <2>1, AnsweredIs, Zenon
    <3>2. AnswerOf(server.hs.req.via, FALSE) = a
      BY <2>2, <2>3, AnswerIs, Zenon
    <3> QED BY <1>7, <3>1, <3>2, Zenon
  <2>5. Failed \in Byte /\ Failed # Granted
    BY DEF Failed, Granted, Byte
  <2>6. a \in Bytes /\ r.value.code = Failed
    <3>1. a \in Bytes /\ ParseConnAnswer(a \o <<>>).value.code = Failed
      BY <2>3, <2>5, NoBytes, SocksAnswer, Zenon DEF SocksAnswerRead
    <3>2. a \o <<>> = a
      BY <3>1, CatEmpty, Zenon
    <3> QED BY <1>3, <2>4, <3>1, <3>2, Zenon
  <2>7. client' = [client EXCEPT !.phase = "failed"] /\ up' = up /\ down' = down
    BY <1>4, <2>5, <2>6, Zenon
  <2>8. /\ client'.phase = "failed" /\ client'.buf = client.buf /\ client'.got = client.got
        /\ client' = [phase |-> "failed", buf |-> client.buf, got |-> client.got]
    BY <1>9, <2>7, Zenon
  <2>9. SentBy(s, "failed") = SentBy(s, "answer")
    BY <1>5 DEF SentBy
  <2>10. UpOK(s, "failed", server, up)
    BY <1>2, <1>4, <2>9, UpSame, Zenon
  <2>11. "failed" \notin {"greeting", "answer", "response", "open"}
         /\ "failed" \in {"greeting", "answer", "response", "open", "failed"}
    OBVIOUS
  <2>12. WaitOK(s, client', server, down', replied)
    BY <2>8, <2>11, Zenon DEF WaitOK
  <2>13. DownOK(s, client', server, down', replied)
    BY <1>6, <1>8, <2>7, <2>8, <2>11, <2>12, Zenon DEF DownOK
  <2>14. EndOK(s, client', server, up', replied, fin)
    BY <1>2, <1>12 DEF EndOK
  <2>15. StateOK(session', client', server', up', down', replied', fin')
    BY <1>2, <1>4, <2>7, <2>8, <2>10, <2>13, <2>14, Zenon DEF StateOK
  <2> QED BY <2>15, NextStateIs, Zenon
<1> QED BY <1>13, <1>14

\* ResponseRead: what is kept behind the head is the download, and only the answer
\* of a server that has connected opens the stream.
LEMMA ResponseReadOK ==
    ASSUME IInv, NEW n, ResponseRead(n)
    PROVE  IInv'
<1>1. PICK s : s = session
  OBVIOUS
<1>2. /\ s \in Sessions /\ UpOK(s, client.phase, server, up) /\ DownOK(s, client, server, down, replied)
      /\ EndOK(s, client, server, up, replied, fin)
  BY <1>1, Zenon DEF IInv
<1>3. PICK d : d = SubSeq(down, 1, n)
  OBVIOUS
<1>4. PICK rest : rest = From(down, n + 1)
  OBVIOUS
<1>5. PICK buf : buf = Filled(client.buf, d)
  OBVIOUS
<1>6. PICK r : r = ParseHead(ReadBuf(buf))
  OBVIOUS
<1>7. /\ client.phase = "response" /\ n \in 1..Room(client.buf) /\ n <= Len(down)
      /\ client' = CASE r.st = "ok" -> ResponseParsed(buf, r)
                     [] r.st = "incomplete" -> [client EXCEPT !.buf = buf]
                     [] r.st = "error" -> [client EXCEPT !.phase = "failed"]
      /\ down' = rest
      /\ session' = s /\ up' = up /\ server' = server /\ replied' = replied /\ fin' = fin
  BY <1>1, <1>3, <1>4, <1>5, <1>6, Zenon DEF ResponseRead
<1>8. PICK x : x = ReadBuf(client.buf)
  OBVIOUS
<1>9. /\ client = [phase |-> client.phase, buf |-> client.buf, got |-> client.got]
      /\ Holds(client.buf, x) /\ client.got \in Bytes /\ down \in Bytes
      /\ replied \in 0..Len(s.reply) /\ (server.phase \notin Relaying => replied = 0)
      /\ s.client = "http" /\ client.got = <<>> /\ x \o down = Answered(s, server, replied)
  BY <1>2, <1>7, <1>8, Zenon DEF DownOK, WaitOK
<1>10. n \in 1..Len(down) /\ n \in Nat /\ n # 0
  <2>1. Len(down) \in Nat
    BY <1>9, BytesTyped, Zenon
  <2> QED BY <1>7, <2>1
<1>11. /\ d \in Bytes /\ Len(d) = n /\ rest \in Bytes /\ down = d \o rest
  BY <1>3, <1>4, <1>9, <1>10, Cut, Zenon
<1>12. d # <<>> /\ Len(d) <= Room(client.buf)
  <2>1. Len(d) # 0
    BY <1>10, <1>11
  <2> QED BY <1>7, <1>11, <2>1, BytesTyped
<1>13. PICK y : y = x \o d
  OBVIOUS
<1>14. Holds(buf, y) /\ y \in Bytes /\ ReadBuf(buf) = y /\ x \in Bytes
  <2>1. Holds(buf, y)
    BY <1>5, <1>9, <1>11, <1>12, <1>13, FilledHolds, Zenon
  <2> QED BY <1>9, <2>1, Zenon DEF Holds
<1>15. y \o rest = Answered(s, server, replied)
  <2>1. Assoc(x, d, rest)
    BY <1>11, <1>14, CatAssoc3, Zenon
  <2> QED BY <1>9, <1>11, <1>13, <2>1, Zenon DEF Assoc
<1>16. Sound(r, Len(y)) /\ (r # Incomplete => ParseHead(y \o rest) = r)
  BY <1>6, <1>11, <1>14, HeadSettles, Zenon DEF Settled
<1>17. r.st \in {"incomplete", "error", "ok"}
  BY <1>16, SoundStates, Zenon
<1>18. s.client # "other" /\ s.client # "socks5"
  BY <1>9
<1>19. \A q : SentBy(s, q) = SentBy(s, "response")
  BY <1>9 DEF SentBy
<1>20. \A q : UpOK(s, q, server, up)
  BY <1>2, <1>7, <1>19, UpSame, Zenon
<1>21. fin = FALSE
  BY <1>2, <1>7 DEF EndOK
<1>22. \A c : EndOK(s, c, server, up, replied, fin)
  BY <1>2, <1>21 DEF EndOK
<1>23. "failed" \notin {"greeting", "answer", "response", "open"}
       /\ "failed" \in {"greeting", "answer", "response", "open", "failed"}
       /\ "response" \notin {"greeting", "answer", "open"}
       /\ "response" \in {"greeting", "answer", "response", "open", "failed"}
       /\ "open" \notin {"greeting", "answer", "response"}
       /\ "open" \in {"greeting", "answer", "response", "open", "failed"}
  OBVIOUS
<1>24. ASSUME DownOK(s, client', server, rest, replied) PROVE IInv'
  <2>1. StateOK(session', client', server', up', down', replied', fin')
    BY <1>2, <1>7, <1>20, <1>22, <1>24, Zenon DEF StateOK
  <2> QED BY <2>1, NextStateIs, Zenon
\* a client that fails
<1>25. ASSUME NEW b, Holds(b, ReadBuf(b)), client' = [phase |-> "failed", buf |-> b, got |-> client.got]
       PROVE  IInv'
  <2>1. client'.phase = "failed" /\ client'.buf = b /\ client'.got = client.got
    BY <1>25
  <2>2. WaitOK(s, client', server, rest, replied)
    BY <1>23, <2>1, Zenon DEF WaitOK
  <2>3. DownOK(s, client', server, rest, replied)
    BY <1>9, <1>11, <1>18, <1>23, <1>25, <2>1, <2>2, Zenon DEF DownOK
  <2> QED BY <1>24, <2>3
<1>26. CASE r.st = "incomplete"
  <2>1. client' = [client EXCEPT !.buf = buf]
    BY <1>7, <1>26
  <2>2. /\ client' = [phase |-> client.phase, buf |-> buf, got |-> client.got]
        /\ client'.phase = client.phase /\ client'.buf = buf /\ client'.got = client.got
    BY <1>9, <2>1
  <2>3. WaitOK(s, client', server, rest, replied)
    BY <1>7, <1>9, <1>14, <1>15, <1>23, <2>2, Zenon DEF WaitOK
  <2>4. DownOK(s, client', server, rest, replied)
    BY <1>7, <1>9, <1>11, <1>14, <1>18, <1>23, <2>2, <2>3, Zenon DEF DownOK
  <2> QED BY <1>24, <2>4
<1>27. CASE r.st = "error"
  <2>1. client' = [client EXCEPT !.phase = "failed"]
    BY <1>7, <1>27
  <2>2. client' = [phase |-> "failed", buf |-> client.buf, got |-> client.got]
    BY <1>9, <2>1
  <2> QED BY <1>8, <1>9, <1>25, <2>2, Zenon
<1>28. CASE r.st = "ok"
  <2>1. client' = ResponseParsed(buf, r)
    BY <1>7, <1>28
  <2>2. r.used \in 1..Len(y) /\ ParseHead(y \o rest) = r
    <3>1. r # Incomplete
      BY <1>28 DEF Incomplete
    <3> QED BY <1>16, <1>28, <3>1, SoundStates, Zenon
  <2>3. PICK b2 : b2 = AdvanceRead(buf, r.used)
    OBVIOUS
  <2>4. PICK q : q = IF r.value[2] = 200 THEN "open" ELSE "failed"
    OBVIOUS
  <2>5. client' = [client EXCEPT !.phase = q, !.buf = b2]
    BY <2>1, <2>3, <2>4, Zenon DEF ResponseParsed
  <2>6. client'.phase = q /\ client'.buf = b2 /\ client'.got = client.got
        /\ DOMAIN client' = {"phase", "buf", "got"}
    BY <1>9, <2>5
  <2>7. client' = [phase |-> q, buf |-> b2, got |-> client.got]
    BY <1>9, <2>5, <2>6
  <2>8. Holds(b2, From(y, r.used + 1)) /\ Holds(b2, ReadBuf(b2)) /\ ReadBuf(b2) = From(y, r.used + 1)
    <3>1. Holds(b2, From(y, r.used + 1))
      BY <1>14, <2>2, <2>3, AdvancedHolds, Zenon
    <3> QED BY <3>1, Zenon DEF Holds
  <2>9. CASE server.phase \in Opened
    <3>1. server.hs.phase = "done"
      BY <1>2, <2>9, Zenon DEF UpOK
    <3>2. server.hs.req.via = "connect"
      BY <1>2, <1>9, <3>1, ViaIs, Zenon
    <3>3. PICK a : a = <<72, 200>> \o EmptyLine
      OBVIOUS
    <3>4. PICK rep : rep = SubSeq(s.reply, 1, replied)
      OBVIOUS
    <3>5. rep \in Bytes
      <4>1. 1 \in Nat \ {0}
        OBVIOUS
      <4>2. s.reply \in Bytes
        BY <1>2, SessionTyped, Zenon
      <4> QED BY <1>9, <3>4, <4>1, <4>2, BytesTyped, Zenon
    <3>6. y \o rest = a \o rep
      <4>1. Answered(s, server, replied) = AnswerOf(server.hs.req.via, TRUE) \o SubSeq(s.reply, 1, replied)
        BY <2>9, AnsweredIs, Zenon
      <4>2. AnswerOf(server.hs.req.via, TRUE) = a
        BY <3>2, <3>3, AnswerIs, Zenon
      <4> QED BY <1>15, <3>4, <4>1, <4>2, Zenon
    <3>7. HttpAnswerRead(a, r, 200)
      <4>1. 200 \in {200, 50}
        OBVIOUS
      <4>2. HttpAnswerRead(a, ParseHead(a \o rep), 200)
        BY <3>3, <3>5, <4>1, HttpAnswer, Zenon
      <4> QED BY <2>2, <3>6, <4>2, Zenon
    <3>8. a \in Bytes /\ Len(a) = 6 /\ a[2] = 200 /\ r = Parsed(6, a)
      BY <3>7, Zenon DEF HttpAnswerRead
    <3>9. r.used = 6 /\ r.value = a
      BY <3>8 DEF Parsed
    <3>10. q = "open"
      BY <2>4, <3>8, <3>9, Zenon
    <3>11. From(y, r.used + 1) \o rest = rep
      <4>1. r.used + 1 \in 1..Len(y) + 1
        <5>1. Len(y) \in Nat
          BY <1>14, BytesTyped, Zenon
        <5> QED BY <2>2, <5>1
      <4>2. From(y \o rest, r.used + 1) = From(y, r.used + 1) \o rest
        BY <1>11, <1>14, <4>1, FrontStays, Zenon
      <4>3. From(a \o rep, Len(a) + 1) = rep
        BY <3>5, <3>8, CatRight, Zenon
      <4> QED BY <3>6, <3>8, <3>9, <4>2, <4>3, Zenon
    <3>12. client.got \o (ReadBuf(b2) \o rest) = rep
      BY <1>9, <2>8, <3>5, <3>11, CatEmpty, Zenon
    <3>13. WaitOK(s, client', server, rest, replied)
      BY <1>18, <1>23, <2>6, <2>9, <3>4, <3>10, <3>12, Zenon DEF WaitOK
    <3>14. DownOK(s, client', server, rest, replied)
      BY <1>9, <1>11, <1>23, <2>6, <2>7, <2>8, <3>10, <3>13, Zenon DEF DownOK
    <3> QED BY <1>24, <3>14
  <2>10. CASE server.phase = "closed" /\ server.hs.phase = "done"
    <3>2. server.hs.req.via = "connect"
      BY <1>2, <1>9, <2>10, ViaIs, Zenon
    <3>3. PICK a : a = <<72, 50>> \o EmptyLine
      OBVIOUS
    <3>6. y \o rest = a
      <4>1. Answered(s, server, replied) = AnswerOf(server.hs.req.via, FALSE)
        BY <2>10, AnsweredIs, Zenon
      <4>2. AnswerOf(server.hs.req.via, FALSE) = a
        BY <3>2, <3>3, AnswerIs, Zenon
      <4> QED BY <1>15, <4>1, <4>2, Zenon
    <3>7. HttpAnswerRead(a, r, 50)
      <4>1. 50 \in {200, 50}
        OBVIOUS
      <4>2. HttpAnswerRead(a, ParseHead(a \o <<>>), 50)
        BY <3>3, <4>1, NoBytes, HttpAnswer, Zenon
      <4>3. a \o <<>> = a
        BY <4>2, CatEmpty, Zenon DEF HttpAnswerRead
      <4> QED BY <2>2, <3>6, <4>2, <4>3, Zenon
    <3>8. a[2] = 50 /\ r = Parsed(6, a)
      BY <3>7, Zenon DEF HttpAnswerRead
    <3>9. r.value = a
      BY <3>8 DEF Parsed
    <3>10. q = "failed"
      BY <2>4, <3>8, <3>9
    <3> QED BY <1>25, <2>7, <2>8, <3>10, Zenon
  <2>11. CASE server.phase \notin Opened /\ ~(server.phase = "closed" /\ server.hs.phase = "done")
    <3>1. y \o rest = <<>>
      BY <1>15, <2>11, AnsweredIs, Zenon
    <3>2. y = <<>>
      BY <1>11, <1>14, <3>1, EmptyParts, Zenon
    <3>3. d = <<>>
      BY <1>11, <1>13, <1>14, <3>2, EmptyParts, Zenon
    <3> QED BY <1>12, <3>3
  <2> QED BY <2>9, <2>10, <2>11
<1> QED BY <1>17, <1>26, <1>27, <1>28

\* Moving the front of q to the end of p.
MovedOK(p, q, z, a, b) ==
    p \o a \in Bytes /\ b \in Bytes /\ (p \o a) \o (b \o z) = p \o (q \o z) /\ (p \o a) \o b = p \o q

LEMMA Moved ==
    ASSUME NEW p \in Bytes, NEW q \in Bytes, NEW z \in Bytes, NEW n \in 1..Len(q)
    PROVE  MovedOK(p, q, z, SubSeq(q, 1, n), From(q, n + 1))
<1>1. PICK a : a = SubSeq(q, 1, n)
  OBVIOUS
<1>2. PICK b : b = From(q, n + 1)
  OBVIOUS
<1>3. a \in Bytes /\ b \in Bytes /\ q = a \o b
  BY <1>1, <1>2, Cut, Zenon
<1>4. p \o a \in Bytes /\ b \o z \in Bytes
  BY <1>3, CatBytes, Zenon
<1>5. Assoc(p, a, b \o z) /\ Assoc(a, b, z) /\ Assoc(p, a, b)
  BY <1>3, <1>4, CatAssoc3, Zenon
<1>6. (p \o a) \o (b \o z) = p \o (q \o z)
  BY <1>3, <1>5, Zenon DEF Assoc
<1>7. (p \o a) \o b = p \o q
  BY <1>3, <1>5, Zenon DEF Assoc
<1> QED BY <1>1, <1>2, <1>3, <1>4, <1>6, <1>7, Zenon DEF MovedOK

LEMMA ClientReadsOK ==
    ASSUME IInv, NEW n, ClientReads(n)
    PROVE  IInv'
<1>1. PICK s : s = session
  OBVIOUS
<1>2. /\ s \in Sessions /\ UpOK(s, client.phase, server, up) /\ DownOK(s, client, server, down, replied)
      /\ EndOK(s, client, server, up, replied, fin)
  BY <1>1, Zenon DEF IInv
<1>3. PICK x : x = ReadBuf(client.buf)
  OBVIOUS
<1>4. /\ client.phase = "open" /\ s.client # "other"
      /\ IF x # <<>>
         THEN /\ n \in 1..Len(x)
              /\ client' = [client EXCEPT !.got = client.got \o SubSeq(x, 1, n), !.buf = AdvanceRead(client.buf, n)]
              /\ down' = down
         ELSE /\ n \in 1..Len(down)
              /\ client' = [client EXCEPT !.got = client.got \o SubSeq(down, 1, n)]
              /\ down' = From(down, n + 1)
      /\ session' = s /\ up' = up /\ server' = server /\ replied' = replied /\ fin' = fin
  BY <1>1, <1>3 DEF ClientReads
<1>5. /\ client = [phase |-> client.phase, buf |-> client.buf, got |-> client.got]
      /\ Holds(client.buf, x) /\ client.got \in Bytes /\ down \in Bytes
      /\ replied \in 0..Len(s.reply) /\ (server.phase \notin Relaying => replied = 0)
      /\ server.phase \in Opened /\ (s.client = "socks5" => Writable(s.dst))
      /\ client.got \o (x \o down) = SubSeq(s.reply, 1, replied)
  BY <1>2, <1>3, <1>4, Zenon DEF DownOK, WaitOK
<1>6. x \in Bytes
  BY <1>5, Zenon DEF Holds
<1>7. "open" \notin {"greeting", "answer", "response"} /\ "open" \in {"greeting", "answer", "response", "open", "failed"}
  OBVIOUS
<1>8. ASSUME NEW b, NEW g \in Bytes, NEW dn \in Bytes, Holds(b, ReadBuf(b)),
             g \o (ReadBuf(b) \o dn) = SubSeq(s.reply, 1, replied),
             client' = [phase |-> "open", buf |-> b, got |-> g], down' = dn
      PROVE  IInv'
  <2>1. client'.phase = "open" /\ client'.buf = b /\ client'.got = g
    BY <1>8
  <2>2. WaitOK(s, client', server, dn, replied)
    BY <1>5, <1>7, <1>8, <2>1, Zenon DEF WaitOK
  <2>3. DownOK(s, client', server, dn, replied)
    BY <1>5, <1>7, <1>8, <2>1, <2>2, Zenon DEF DownOK
  <2>4. EndOK(s, client', server, up, replied, fin)
    BY <1>2, <2>1, Zenon DEF EndOK
  <2>5. StateOK(session', client', server', up', down', replied', fin')
    BY <1>2, <1>4, <1>8, <2>1, <2>3, <2>4, Zenon DEF StateOK
  <2> QED BY <2>5, NextStateIs, Zenon
<1>9. CASE x # <<>>
  <2>1. PICK b : b = AdvanceRead(client.buf, n)
    OBVIOUS
  <2>2. PICK g : g = client.got \o SubSeq(x, 1, n)
    OBVIOUS
  <2>3. n \in 1..Len(x) /\ down' = down /\ client' = [client EXCEPT !.got = g, !.buf = b]
    BY <1>4, <1>9, <2>1, <2>2, Zenon
  <2>4. client'.phase = client.phase /\ client'.buf = b /\ client'.got = g /\ DOMAIN client' = {"phase", "buf", "got"}
    BY <1>5, <2>3
  <2>5. client' = [phase |-> "open", buf |-> b, got |-> g]
    BY <1>4, <1>5, <2>3, <2>4
  <2>6. Holds(b, ReadBuf(b)) /\ ReadBuf(b) = From(x, n + 1)
    <3>1. Holds(b, From(x, n + 1))
      BY <1>5, <2>1, <2>3, AdvancedHolds, Zenon
    <3> QED BY <3>1, Zenon DEF Holds
  <2>7. g \in Bytes /\ g \o (From(x, n + 1) \o down) = client.got \o (x \o down)
    <3>1. MovedOK(client.got, x, down, SubSeq(x, 1, n), From(x, n + 1))
      BY <1>5, <1>6, <2>3, Moved, Zenon
    <3> QED BY <2>2, <3>1, Zenon DEF MovedOK
  <2>8. g \o (ReadBuf(b) \o down) = SubSeq(s.reply, 1, replied)
    BY <1>5, <2>6, <2>7, Zenon
  <2> QED BY <1>5, <1>8, <2>3, <2>5, <2>6, <2>7, <2>8, Zenon
<1>10. CASE x = <<>>
  <2>1. PICK g : g = client.got \o SubSeq(down, 1, n)
    OBVIOUS
  <2>2. PICK dn : dn = From(down, n + 1)
    OBVIOUS
  <2>3. n \in 1..Len(down) /\ down' = dn /\ client' = [client EXCEPT !.got = g]
    BY <1>4, <1>10, <2>1, <2>2, Zenon
  <2>4. client' = [phase |-> "open", buf |-> client.buf, got |-> g]
    BY <1>4, <1>5, <2>3
  <2>5. g \in Bytes /\ dn \in Bytes /\ g \o dn = client.got \o down
    <3>1. MovedOK(client.got, down, down, SubSeq(down, 1, n), From(down, n + 1))
      BY <1>5, <2>3, Moved, Zenon
    <3> QED BY <2>1, <2>2, <3>1, Zenon DEF MovedOK
  <2>6. x \o dn = dn /\ x \o down = down
    BY <1>5, <1>10, <2>5, CatEmpty, Zenon
  <2>7. g \o (ReadBuf(client.buf) \o dn) = SubSeq(s.reply, 1, replied)
    BY <1>3, <1>5, <2>5, <2>6, Zenon
  <2>8. Holds(client.buf, ReadBuf(client.buf))
    BY <1>3, <1>5, Zenon
  <2> QED BY <1>8, <2>3, <2>4, <2>5, <2>7, <2>8, Zenon
<1> QED BY <1>9, <1>10

LEMMA ClientSeesEndOK ==
    ASSUME IInv, ClientSeesEnd
    PROVE  IInv'
<1>1. PICK s : s = session
  OBVIOUS
<1>2. /\ s \in Sessions /\ UpOK(s, client.phase, server, up) /\ DownOK(s, client, server, down, replied)
      /\ EndOK(s, client, server, up, replied, fin)
  BY <1>1, Zenon DEF IInv
<1>3. /\ Gone /\ client.phase \in {"greeting", "answer", "response"}
      /\ client' = [client EXCEPT !.phase = "failed"]
      /\ session' = s /\ up' = up /\ down' = down /\ server' = server /\ replied' = replied /\ fin' = fin
  BY <1>1 DEF ClientSeesEnd
<1>4. client.phase # "greeting"
  <2>1. server.phase # "handshake"
    BY <1>3 DEF Gone
  <2> QED BY <1>2, <2>1, Zenon DEF DownOK, WaitOK
<1>5. SentBy(s, "failed") = SentBy(s, client.phase)
  <2>1. CASE client.phase = "answer"
    <3>1. s.client = "socks5" /\ Writable(s.dst)
      BY <1>2, <2>1, Zenon DEF DownOK, WaitOK
    <3> QED BY <2>1, <3>1 DEF SentBy
  <2>2. CASE client.phase = "response"
    <3>1. s.client = "http"
      BY <1>2, <2>2, Zenon DEF DownOK, WaitOK
    <3> QED BY <3>1 DEF SentBy
  <2> QED BY <1>3, <1>4, <2>1, <2>2
<1>6. UpOK(s, "failed", server, up)
  BY <1>2, <1>5, UpSame, Zenon
<1>7. /\ client = [phase |-> client.phase, buf |-> client.buf, got |-> client.got]
      /\ Holds(client.buf, ReadBuf(client.buf)) /\ client.got \in Bytes /\ down \in Bytes
      /\ replied \in 0..Len(s.reply) /\ (server.phase \notin Relaying => replied = 0)
      /\ (s.client = "other" => client.phase = "open")
  BY <1>2, Zenon DEF DownOK
<1>8. /\ client'.phase = "failed" /\ client'.buf = client.buf /\ client'.got = client.got
      /\ client' = [phase |-> "failed", buf |-> client.buf, got |-> client.got]
  BY <1>3, <1>7
<1>9. s.client # "other" /\ fin = FALSE
  <2>1. client.phase # "open"
    BY <1>3
  <2> QED BY <1>2, <1>7, <2>1 DEF EndOK
<1>10. "failed" \notin {"greeting", "answer", "response", "open"}
       /\ "failed" \in {"greeting", "answer", "response", "open", "failed"}
  OBVIOUS
<1>11. WaitOK(s, client', server, down, replied)
  BY <1>8, <1>10, Zenon DEF WaitOK
<1>12. DownOK(s, client', server, down, replied)
  BY <1>7, <1>8, <1>9, <1>10, <1>11, Zenon DEF DownOK
<1>13. EndOK(s, client', server, up, replied, fin)
  BY <1>2, <1>9 DEF EndOK
<1>14. StateOK(session', client', server', up', down', replied', fin')
  BY <1>2, <1>3, <1>6, <1>8, <1>12, <1>13, Zenon DEF StateOK
<1> QED BY <1>14, NextStateIs, Zenon

LEMMA FinishesOK ==
    ASSUME IInv, Finishes
    PROVE  IInv'
<1>1. /\ client.phase = "open" /\ ~fin /\ fin' = TRUE
      /\ session' = session /\ up' = up /\ down' = down /\ client' = client /\ server' = server /\ replied' = replied
  BY DEF Finishes
<1>2. /\ session \in Sessions /\ UpOK(session, client.phase, server, up)
      /\ DownOK(session, client, server, down, replied) /\ EndOK(session, client, server, up, replied, fin)
  BY Zenon DEF IInv
<1>3. EndOK(session, client, server, up, replied, TRUE)
  BY <1>1, <1>2 DEF EndOK
<1>4. StateOK(session', client', server', up', down', replied', fin')
  BY <1>1, <1>2, <1>3, Zenon DEF StateOK
<1> QED BY <1>4, NextStateIs, Zenon

LEMMA HsQuiet ==
    ASSUME NEW ph, NEW b, NEW r, NEW o, NEW h, h = Hs(ph, b, r, o)
    PROVE  [h EXCEPT !.out = <<>>] = Hs(ph, b, r, <<>>)
<1>1. h = [phase |-> ph, buf |-> b, req |-> r, out |-> o]
  BY Zenon DEF Hs
<1>2. [h EXCEPT !.out = <<>>] = [phase |-> ph, buf |-> b, req |-> r, out |-> <<>>]
  BY <1>1
<1> QED BY <1>2, Zenon DEF Hs

\* HandshakeReads: the answer to the greeting is sent once, and nothing else before
\* the request is understood.
LEMMA HandshakeReadsOK ==
    ASSUME IInv, NEW n, HandshakeReads(n)
    PROVE  IInv'
<1>1. PICK s : s = session
  OBVIOUS
<1>2. /\ s \in Sessions /\ UpOK(s, client.phase, server, up) /\ DownOK(s, client, server, down, replied)
      /\ EndOK(s, client, server, up, replied, fin)
  BY <1>1, Zenon DEF IInv
<1>3. PICK d : d = SubSeq(up, 1, n)
  OBVIOUS
<1>4. PICK u : u = From(up, n + 1)
  OBVIOUS
<1>5. PICK hs : hs = server.hs
  OBVIOUS
<1>6. PICK h : h = StepOf(s.server, hs, d)
  OBVIOUS
<1>7. PICK q : q = CASE h.phase = "done" -> "connecting"
                     [] h.phase = "failed" -> "closed"
                     [] OTHER -> "handshake"
  OBVIOUS
<1>8. /\ server.phase = "handshake" /\ n \in 1..Room(hs.buf) /\ n <= Len(up)
      /\ server' = [server EXCEPT !.hs = [h EXCEPT !.out = <<>>], !.phase = q]
      /\ down' = down \o h.out /\ up' = u
      /\ session' = s /\ client' = client /\ replied' = replied /\ fin' = fin
  BY <1>1, <1>3, <1>4, <1>5, <1>6, <1>7, Zenon DEF HandshakeReads, StepOf
<1>9. PICK p : p = client.phase
  OBVIOUS
<1>10. PICK t : t = SentBy(s, p)
  OBVIOUS
<1>11. /\ server = [phase |-> server.phase, hs |-> hs, relayed |-> server.relayed]
       /\ hs = Hs(hs.phase, hs.buf, hs.req, <<>>) /\ server.relayed = <<>>
       /\ HsOK(s.server, hs.phase, hs.buf, hs.req, up, t) /\ hs.phase \in Reading \cup {"request"}
  <2>1. "handshake" \in Before
    BY ServerPhases
  <2> QED BY <1>2, <1>5, <1>8, <1>9, <1>10, <2>1, Zenon DEF UpOK
<1>12. up \in Bytes /\ t \in Bytes
  BY <1>11, Zenon DEF HsOK
<1>13. n \in 1..Len(up) /\ n \in Nat /\ n # 0
  <2>1. Len(up) \in Nat
    BY <1>12, BytesTyped, Zenon
  <2> QED BY <1>8, <2>1
<1>14. d \in Bytes /\ Len(d) = n /\ u \in Bytes /\ up = d \o u
  BY <1>3, <1>4, <1>12, <1>13, Cut, Zenon
<1>15. d # <<>> /\ Len(d) <= Room(hs.buf)
  <2>1. Len(d) # 0
    BY <1>13, <1>14
  <2> QED BY <1>8, <1>14, <2>1, BytesTyped
<1>16. s.server \in {"handshaker", "http"}
  BY <1>2, SessionTyped, Zenon
<1>17. hs = Hs(hs.phase, hs.buf, hs.req, hs.out)
  <2>1. hs.out = <<>>
    <3>1. PICK a, b, c : hs = [phase |-> a, buf |-> b, req |-> c, out |-> <<>>]
      BY <1>11, Zenon DEF Hs
    <3> QED BY <3>1
  <2> QED BY <1>11, <2>1, Zenon
<1>18. StepOK(s.server, hs.phase, h, u, t)
  <2>1. HsOK(s.server, hs.phase, hs.buf, hs.req, d \o u, t)
    BY <1>11, <1>14, Zenon
  <2>2. hs.phase \in Reading \cup {"request"}
    BY <1>11
  <2> HIDE <1>5, <1>11
  <2> QED BY <1>6, <1>12, <1>14, <1>15, <1>16, <1>17, <2>1, <2>2, HandshakeStepOK, Zenon
<1>19. /\ h = Hs(h.phase, h.buf, h.req, h.out)
       /\ HsOK(s.server, h.phase, h.buf, h.req, u, t) /\ OutOK(hs.phase, h.phase, h.out, t)
  BY <1>18, Zenon DEF StepOK
<1>20. PICK g : g = Hs(h.phase, h.buf, h.req, <<>>)
  OBVIOUS
<1>21. g.phase = h.phase /\ g.buf = h.buf /\ g.req = h.req
  BY <1>20 DEF Hs
<1>22. server' = [server EXCEPT !.hs = g, !.phase = q]
  <2>1. [h EXCEPT !.out = <<>>] = g
    BY <1>19, <1>20, HsQuiet, ZenonT(60)
  <2> QED BY <1>8, <2>1, Zenon
<1>23. server'.phase = q /\ server'.hs = g /\ server'.relayed = <<>> /\ DOMAIN server' = {"phase", "hs", "relayed"}
  BY <1>11, <1>22
<1>24. server' = [phase |-> server'.phase, hs |-> server'.hs, relayed |-> server'.relayed]
  BY <1>11, <1>22, <1>23
<1>25. h.phase \in Reading \cup {"request", "done", "failed"}
  BY <1>19, Zenon DEF HsOK
<1>26. /\ q \in {"connecting", "closed", "handshake"}
       /\ (q = "connecting" <=> h.phase = "done") /\ (q = "closed" <=> h.phase = "failed")
       /\ (q = "handshake" <=> h.phase \in Reading \cup {"request"})
  BY <1>7, <1>25 DEF Reading
<1>27. /\ q \in Before \cup Relaying /\ q \in Before /\ q \notin Relaying /\ q \notin Opened /\ q # "ended"
       /\ "handshake" \notin Opened /\ "handshake" # "closed"
  BY <1>26 DEF Before, Relaying, Opened
<1>28. MeansOK(s, p, t)
  BY <1>2, <1>10, SentMeans, Zenon
<1>29. ~(p = "open" /\ s.client # "other")
  BY <1>2, <1>8, <1>9, <1>27, Zenon DEF DownOK, WaitOK
<1>30. s.client = "socks5" /\ g.phase = "done" => ReadBuf(g.buf) = <<>>
  <2>1. SUFFICES ASSUME s.client = "socks5", g.phase = "done" PROVE ReadBuf(g.buf) = <<>>
    OBVIOUS
  <2>2. PICK m : m = MeantBy(s.server, t)
    OBVIOUS
  <2>3. m.st = "ok" /\ ReadBuf(h.buf) \o u = From(t, m.used + 1) /\ Holds(h.buf, ReadBuf(h.buf))
    BY <1>19, <1>21, <2>1, <2>2, Zenon DEF HsOK
  <2>4. p # "open"
    BY <1>29, <2>1
  <2>5. From(t, m.used + 1) = <<>>
    BY <1>28, <2>1, <2>2, <2>3, <2>4, Zenon DEF MeansOK, WrittenBy
  <2>6. ReadBuf(h.buf) \in Bytes
    BY <2>3, Zenon DEF Holds
  <2> QED BY <1>14, <1>21, <2>3, <2>5, <2>6, EmptyParts, Zenon
<1>31. UpOK(s, p, server', u)
  <2>1. server'.hs = Hs(server'.hs.phase, server'.hs.buf, server'.hs.req, <<>>)
    BY <1>20, <1>21, <1>23, Zenon
  <2>2. HsOK(s.server, server'.hs.phase, server'.hs.buf, server'.hs.req, u, SentBy(s, p))
    BY <1>10, <1>19, <1>21, <1>23, Zenon
  <2>3. server'.phase = "handshake" => server'.hs.phase \in Reading \cup {"request"}
    BY <1>21, <1>23, <1>26, Zenon
  <2>4. server'.phase \in Opened \cup {"connecting"} => server'.hs.phase = "done"
    BY <1>21, <1>23, <1>26, <1>27
  <2>5. server'.phase \in Before \cup Relaying /\ server'.phase \notin Relaying /\ server'.relayed = <<>>
    BY <1>23, <1>27, Zenon
  <2>6. s.client = "socks5" /\ server'.hs.phase = "done" => ReadBuf(server'.hs.buf) = <<>>
    BY <1>23, <1>30, Zenon
  <2> QED BY <1>24, <2>1, <2>2, <2>3, <2>4, <2>5, <2>6, Zenon DEF UpOK
<1>32. /\ client = [phase |-> p, buf |-> client.buf, got |-> client.got]
       /\ Holds(client.buf, ReadBuf(client.buf)) /\ client.got \in Bytes /\ down \in Bytes
       /\ p \in {"greeting", "answer", "response", "open", "failed"}
       /\ replied \in 0..Len(s.reply) /\ (server.phase \notin Relaying => replied = 0)
       /\ (s.client = "other" => p = "open") /\ WaitOK(s, client, server, down, replied)
  BY <1>2, <1>9, Zenon DEF DownOK
<1>33. h.out \in Bytes /\ down \o h.out \in Bytes
  <2>1. h.out \in Bytes
    BY <1>19, Zenon DEF OutOK
  <2> QED BY <1>32, <2>1, CatBytes, Zenon
<1>34. replied = 0
  BY <1>8, <1>32, ServerPhases
<1>35. PICK m : m = MeantBy(s.server, t)
  OBVIOUS
<1>36. (h.phase = "done" => m.st = "ok") /\ (h.phase = "failed" => m.st = "error")
  BY <1>19, <1>35, Zenon DEF HsOK
<1>37. Answered(s, server, replied) = <<>> /\ Answered(s, server', replied) = <<>>
  <2>1. ~(server'.phase = "closed" /\ server'.hs.phase = "done")
    BY <1>21, <1>23, <1>26
  <2> QED BY <1>8, <1>23, <1>27, <2>1, AnsweredIs, ZenonT(60)
<1>38. h.phase \in Reading => h.phase # "request" /\ h.phase # "done"
  BY Phases
<1>39. WaitOK(s, client, server', down \o h.out, replied)
  <2>1. CASE p = "greeting"
    <3>1. /\ s.client = "socks5" /\ ReadBuf(client.buf) = <<>> /\ client.got = <<>>
          /\ down = IF hs.phase = "request" THEN GreetingAnswer(NoPassword) ELSE <<>>
      BY <1>5, <1>9, <1>32, <2>1, Zenon DEF WaitOK
    <3>2. m.st = "incomplete"
      BY <1>28, <1>35, <2>1, <3>1, Zenon DEF MeansOK
    <3>3. h.phase \in Reading \cup {"request"}
      <4>1. h.phase # "done" /\ h.phase # "failed"
        BY <1>36, <3>2
      <4> QED BY <1>25, <4>1
    <3>4. t # <<>> /\ t[1] = 5
      <4>1. t = Hello
        BY <1>10, <2>1, <3>1 DEF SentBy
      <4>2. Hello \o <<>> = Hello
        BY HelloIs, CatEmpty, Zenon
      <4> QED BY <4>1, <4>2, NoBytes, HelloRead, Zenon
    <3>5. down \o h.out = IF h.phase = "request" THEN GreetingAnswer(NoPassword) ELSE <<>>
      <4>1. CASE h.phase \in Reading
        <5>1. h.out = <<>> /\ hs.phase # "request" /\ h.phase # "request"
          BY <1>19, <1>38, <4>1, Zenon DEF OutOK
        <5> QED BY <3>1, <5>1, NoBytes, Zenon
      <4>2. CASE h.phase = "request" /\ hs.phase = "request"
        <5>1. h.out = <<>>
          BY <1>19, <4>2 DEF OutOK
        <5> QED BY <3>1, <4>2, <5>1, AnswersAreBytes, CatEmpty, Zenon
      <4>3. CASE h.phase = "request" /\ hs.phase # "request"
        <5>1. h.out = GreetingAnswer(NoPassword)
          BY <1>19, <3>4, <4>3 DEF OutOK
        <5> QED BY <3>1, <4>3, <5>1, AnswersAreBytes, CatEmpty, Zenon
      <4> QED BY <3>3, <4>1, <4>2, <4>3
    <3>6. server'.phase = "handshake"
      BY <1>23, <1>26, <3>3, Zenon
    <3>7. "greeting" \notin {"answer", "response", "open"}
      OBVIOUS
    <3> QED BY <1>9, <1>21, <1>23, <2>1, <3>1, <3>5, <3>6, <3>7, Zenon DEF WaitOK
  <2>2. CASE p = "answer"
    <3>1. /\ s.client = "socks5" /\ ReadBuf(client.buf) = <<>> /\ client.got = <<>> /\ Writable(s.dst)
          /\ hs.phase = "request" /\ ReadBuf(client.buf) \o down = Answered(s, server, replied)
      BY <1>5, <1>8, <1>9, <1>32, <2>2, Zenon DEF WaitOK
    <3>2. m.st = "ok"
      <4>1. p # "greeting"
        BY <2>2
      <4> QED BY <1>28, <1>35, <3>1, <4>1, Zenon DEF MeansOK
    <3>3. h.phase \in {"request", "done"}
      <4>1. h.phase # "failed"
        BY <1>36, <3>2
      <4>2. h.phase \notin Reading
        BY <1>19, <3>1, Zenon DEF OutOK
      <4> QED BY <1>25, <4>1, <4>2
    <3>4. h.out = <<>>
      BY <1>19, <3>1, <3>3 DEF OutOK
    <3>5. down \o h.out = down
      BY <1>32, <3>4, CatEmpty, Zenon
    <3>6. server'.phase = "handshake" => server'.hs.phase = "request"
      BY <1>21, <1>23, <1>26, <3>3 DEF Reading
    <3>7. "answer" \notin {"greeting", "response", "open"}
      OBVIOUS
    <3> QED BY <1>9, <1>37, <2>2, <3>1, <3>5, <3>6, <3>7, Zenon DEF WaitOK
  <2>3. CASE p = "response"
    <3>1. s.client = "http" /\ client.got = <<>> /\ ReadBuf(client.buf) \o down = Answered(s, server, replied)
      BY <1>9, <1>32, <2>3, Zenon DEF WaitOK
    <3>2. t[1] # 5
      BY <1>28, <3>1, Zenon DEF MeansOK
    <3>3. h.out = <<>>
      BY <1>19, <3>2, Zenon DEF OutOK
    <3>4. down \o h.out = down
      BY <1>32, <3>3, CatEmpty, Zenon
    <3>5. "response" \notin {"greeting", "answer", "open"}
      OBVIOUS
    <3> QED BY <1>9, <1>37, <2>3, <3>1, <3>4, <3>5, Zenon DEF WaitOK
  <2>4. CASE p \in {"open", "failed"}
    <3>1. p \notin {"greeting", "answer", "response"}
      BY <2>4
    <3> QED BY <1>9, <1>29, <3>1, Zenon DEF WaitOK
  <2> QED BY <1>32, <2>1, <2>2, <2>3, <2>4
<1>40. DownOK(s, client, server', down \o h.out, replied)
  BY <1>9, <1>32, <1>33, <1>34, <1>39, Zenon DEF DownOK
<1>41. EndOK(s, client, server', u, replied, fin)
  BY <1>2, <1>23, <1>27, Zenon DEF EndOK
<1>42. StateOK(session', client', server', up', down', replied', fin')
  BY <1>2, <1>8, <1>9, <1>31, <1>40, <1>41, Zenon DEF StateOK
<1> QED BY <1>42, NextStateIs, Zenon

LEMMA HandshakeSeesEndOK ==
    ASSUME IInv, HandshakeSeesEnd
    PROVE  IInv'
<1>1. PICK s : s = session
  OBVIOUS
<1>2. /\ s \in Sessions /\ UpOK(s, client.phase, server, up) /\ DownOK(s, client, server, down, replied)
      /\ EndOK(s, client, server, up, replied, fin)
  BY <1>1, Zenon DEF IInv
<1>3. /\ server.phase = "handshake" /\ (client.phase = "failed" \/ fin)
      /\ server' = [server EXCEPT !.phase = "closed"]
      /\ session' = s /\ up' = up /\ down' = down /\ client' = client /\ replied' = replied /\ fin' = fin
  BY <1>1 DEF HandshakeSeesEnd
<1>4. server = [phase |-> server.phase, hs |-> server.hs, relayed |-> server.relayed]
  BY <1>2, Zenon DEF UpOK
<1>5. /\ server' = [phase |-> "closed", hs |-> server.hs, relayed |-> server.relayed]
      /\ server'.phase = "closed" /\ server'.hs = server.hs /\ server'.relayed = server.relayed
  BY <1>3, <1>4
<1>6. "closed" \notin Opened \cup {"connecting"} /\ "closed" # "handshake" /\ "closed" # "ended"
  BY DEF Opened
<1>7. UpOK(s, client.phase, server', up)
  BY <1>2, <1>3, <1>5, <1>6, ServerPhases, Zenon DEF UpOK
<1>8. client.phase \in {"open", "failed"}
  BY <1>2, <1>3 DEF EndOK
<1>9. client.phase \notin {"greeting", "answer", "response"}
  BY <1>8
<1>10. ~(client.phase = "open" /\ s.client # "other")
  BY <1>2, <1>3, ServerPhases, Zenon DEF DownOK, WaitOK
<1>11. WaitOK(s, client, server', down, replied)
  BY <1>9, <1>10, Zenon DEF WaitOK
<1>12. replied = 0
  BY <1>2, <1>3, ServerPhases, Zenon DEF DownOK
<1>13. DownOK(s, client, server', down, replied)
  BY <1>2, <1>11, <1>12, Zenon DEF DownOK
<1>14. EndOK(s, client, server', up, replied, fin)
  BY <1>2, <1>5, <1>6, Zenon DEF EndOK
<1>15. StateOK(session', client', server', up', down', replied', fin')
  BY <1>2, <1>3, <1>7, <1>13, <1>14, Zenon DEF StateOK
<1> QED BY <1>15, NextStateIs, Zenon

LEMMA RefusedIs ==
    ASSUME NEW s, NEW sv, NEW k, sv.phase = "closed", sv.hs.phase = "done"
    PROVE  Answered(s, sv, k) = AnswerOf(sv.hs.req.via, FALSE)
BY AnsweredIs, Zenon

\* The server answers a request, with what the client waits for: nothing has been
\* answered before.
LEMMA AnswersOK ==
    ASSUME NEW s \in Sessions, NEW p, NEW c, NEW sv, NEW sw, NEW u, NEW dn, NEW k, NEW f, NEW ok \in BOOLEAN,
           StateOK(s, c, sv, u, dn, k, f), sv.phase = "connecting",
           sw = [sv EXCEPT !.phase = p],
           p \in IF ok THEN {"relay", "association"} ELSE {"closed"}
    PROVE  StateOK(s, c, sw, u, dn \o AnswerOf(sv.hs.req.via, ok), k, f)
<1>1. UpOK(s, c.phase, sv, u) /\ DownOK(s, c, sv, dn, k) /\ EndOK(s, c, sv, u, k, f)
  BY Zenon DEF StateOK
<1>2. /\ sv = [phase |-> sv.phase, hs |-> sv.hs, relayed |-> sv.relayed]
      /\ sv.hs = Hs(sv.hs.phase, sv.hs.buf, sv.hs.req, <<>>) /\ sv.hs.phase = "done" /\ sv.relayed = <<>>
      /\ HsOK(s.server, sv.hs.phase, sv.hs.buf, sv.hs.req, u, SentBy(s, c.phase))
      /\ (s.client = "socks5" => ReadBuf(sv.hs.buf) = <<>>)
  <2>1. "connecting" \in Before /\ "connecting" \in Opened \cup {"connecting"}
    BY ServerPhases
  <2> QED BY <1>1, <2>1, Zenon DEF UpOK
<1>3. /\ sw = [phase |-> p, hs |-> sv.hs, relayed |-> sv.relayed]
      /\ sw.phase = p /\ sw.hs = sv.hs /\ sw.relayed = sv.relayed
  BY <1>2
<1>4. /\ p \in Before \cup Relaying /\ p # "handshake" /\ p # "ended" /\ p # "connecting"
      /\ (ok => p \in Opened) /\ (~ok => p = "closed" /\ p \notin Opened)
      /\ (p \in Before => p \notin Relaying)
  BY DEF Before, Relaying, Opened
<1>5. PICK t : t = SentBy(s, c.phase)
  OBVIOUS
<1>6. PICK x : x = ReadBuf(sv.hs.buf)
  OBVIOUS
<1>7. PICK m : m = MeantBy(s.server, t)
  OBVIOUS
<1>8. /\ Holds(sv.hs.buf, x) /\ u \in Bytes /\ t \in Bytes
      /\ m.st = "ok" /\ sv.hs.req = m.value /\ x \o u = From(t, m.used + 1)
  BY <1>2, <1>5, <1>6, <1>7, Zenon DEF HsOK
<1>9. CarryOK(s.server, sv.hs, <<>>, u, t)
  <2>1. x \in Bytes
    BY <1>8, Zenon DEF Holds
  <2>2. <<>> \o u = u /\ x \o u \in Bytes
    BY <1>8, <2>1, CatEmpty, CatBytes, Zenon
  <2>3. <<>> \o (x \o u) = x \o u
    BY <2>2, CatEmpty, Zenon
  <2> QED BY <1>2, <1>6, <1>7, <1>8, <2>2, <2>3, NoBytes, Zenon DEF CarryOK
<1>10. UpOK(s, c.phase, sw, u)
  BY <1>2, <1>3, <1>4, <1>5, <1>9, Zenon DEF UpOK
<1>11. PICK a : a = AnswerOf(sv.hs.req.via, ok)
  OBVIOUS
<1>12. a \in Bytes
  <2>1. sv.hs.req.via \in {"socks5", "socks4", "connect", "http"}
    BY <1>1, <1>2, ViaIs, Zenon
  <2> QED BY <1>11, <2>1, AnswerTyped, Zenon
<1>13. /\ c = [phase |-> c.phase, buf |-> c.buf, got |-> c.got]
       /\ Holds(c.buf, ReadBuf(c.buf)) /\ c.got \in Bytes /\ dn \in Bytes
       /\ c.phase \in {"greeting", "answer", "response", "open", "failed"}
       /\ k \in 0..Len(s.reply) /\ (sv.phase \notin Relaying => k = 0)
       /\ (s.client = "other" => c.phase = "open") /\ WaitOK(s, c, sv, dn, k)
  BY <1>1, Zenon DEF DownOK
<1>14. k = 0
  BY <1>13, ServerPhases, Zenon
<1>15. Answered(s, sv, k) = <<>>
  <2>1. ~(sv.phase = "closed" /\ sv.hs.phase = "done") /\ sv.phase \notin Opened
    BY ServerPhases
  <2> QED BY <2>1, AnsweredIs, Zenon
<1>16. Answered(s, sw, k) = a
  <2>1. CASE ok = TRUE
    <3>0. sw.phase \in Opened
      BY <1>3, <1>4, <2>1
    <3>4. Answered(s, sw, k) = AnswerOf(sw.hs.req.via, TRUE) \o SubSeq(s.reply, 1, k)
      BY <3>0, AnsweredIs, Zenon
    <3>1. Answered(s, sw, k) = AnswerOf(sv.hs.req.via, TRUE) \o SubSeq(s.reply, 1, k)
      BY <1>3, <3>4, Zenon
    <3>2. SubSeq(s.reply, 1, 0) = <<>>
      <4>1. s.reply \in Bytes
        BY SessionTyped, Zenon
      <4> QED BY <4>1 DEF Bytes
    <3>3. a \o <<>> = a
      BY <1>12, CatEmpty, Zenon
    <3> QED BY <1>11, <1>14, <2>1, <3>1, <3>2, <3>3, Zenon
  <2>2. CASE ok = FALSE
    <3>1. p = "closed"
      BY <1>4, <2>2, Zenon
    <3>3. sw.phase = "closed" /\ sw.hs.phase = "done"
      BY <1>2, <1>3, <3>1, Zenon
    <3>4. Answered(s, sw, k) = AnswerOf(sw.hs.req.via, FALSE)
      BY <3>3, RefusedIs, Zenon
    <3>2. Answered(s, sw, k) = AnswerOf(sv.hs.req.via, FALSE)
      BY <1>3, <3>4, Zenon
    <3> QED BY <1>11, <2>2, <3>2, Zenon
  <2> QED BY <2>1, <2>2
<1>17. WaitOK(s, c, sw, dn \o a, k)
  <2>1. c.phase # "greeting" /\ ~(c.phase = "open" /\ s.client # "other")
    <3>1. sv.phase # "handshake" /\ sv.phase \notin Opened
      BY ServerPhases
    <3> QED BY <1>13, <3>1, Zenon DEF WaitOK
  <2>2. ASSUME c.phase \in {"answer", "response"} PROVE c.got = <<>> /\ ReadBuf(c.buf) \o (dn \o a) = a
    <3>1. c.got = <<>> /\ ReadBuf(c.buf) \o dn = <<>>
      BY <1>13, <1>15, <2>2, Zenon DEF WaitOK
    <3>2. ReadBuf(c.buf) \in Bytes
      BY <1>13, Zenon DEF Holds
    <3>3. ReadBuf(c.buf) = <<>> /\ dn = <<>>
      BY <1>13, <3>1, <3>2, EmptyParts, Zenon
    <3>4. <<>> \o a = a
      BY <1>12, CatEmpty, Zenon
    <3> QED BY <3>1, <3>3, <3>4, Zenon
  <2>3. c.phase = "answer" => s.client = "socks5" /\ ReadBuf(c.buf) = <<>> /\ Writable(s.dst)
    BY <1>13, Zenon DEF WaitOK
  <2>4. c.phase = "response" => s.client = "http"
    BY <1>13, Zenon DEF WaitOK
  <2> QED BY <1>3, <1>4, <1>16, <2>1, <2>2, <2>3, <2>4, Zenon DEF WaitOK
<1>18. DownOK(s, c, sw, dn \o a, k)
  <2>1. dn \o a \in Bytes
    BY <1>12, <1>13, CatBytes, Zenon
  <2> QED BY <1>13, <1>14, <1>17, <2>1, Zenon DEF DownOK
<1>19. EndOK(s, c, sw, u, k, f)
  BY <1>1, <1>3, <1>4, Zenon DEF EndOK
<1> QED BY <1>10, <1>11, <1>18, <1>19, Zenon DEF StateOK

LEMMA ConnectedOK ==
    ASSUME IInv, Connected
    PROVE  IInv'
<1>1. PICK p : p = IF server.hs.req.type = "UDP" THEN "association" ELSE "relay"
  OBVIOUS
<1>2. /\ server.phase = "connecting" /\ server' = [server EXCEPT !.phase = p]
      /\ down' = down \o AnswerOf(server.hs.req.via, TRUE)
      /\ session' = session /\ up' = up /\ client' = client /\ replied' = replied /\ fin' = fin
  BY <1>1 DEF Connected, Answer, AnswerOf
<1>3. p \in IF TRUE THEN {"relay", "association"} ELSE {"closed"}
  BY <1>1
<1>4. StateOK(session, client, server, up, down, replied, fin) /\ session \in Sessions
  BY StateIs, Zenon DEF IInv
<1>5. StateOK(session, client, server', up, down \o AnswerOf(server.hs.req.via, TRUE), replied, fin)
  <2>1. TRUE \in BOOLEAN
    OBVIOUS
  <2> QED BY <1>2, <1>3, <1>4, <2>1, AnswersOK, Zenon
<1>6. StateOK(session', client', server', up', down', replied', fin')
  BY <1>2, <1>5, Zenon
<1> QED BY <1>6, NextStateIs, Zenon

LEMMA ConnectFailsOK ==
    ASSUME IInv, ConnectFails
    PROVE  IInv'
<1>2. /\ server.phase = "connecting" /\ server' = [server EXCEPT !.phase = "closed"]
      /\ down' = down \o AnswerOf(server.hs.req.via, FALSE)
      /\ session' = session /\ up' = up /\ client' = client /\ replied' = replied /\ fin' = fin
  BY DEF ConnectFails, Answer, AnswerOf
<1>3. "closed" \in IF FALSE THEN {"relay", "association"} ELSE {"closed"}
  OBVIOUS
<1>4. StateOK(session, client, server, up, down, replied, fin) /\ session \in Sessions
  BY StateIs, Zenon DEF IInv
<1>5. StateOK(session, client, server', up, down \o AnswerOf(server.hs.req.via, FALSE), replied, fin)
  <2>1. FALSE \in BOOLEAN
    OBVIOUS
  <2> QED BY <1>2, <1>3, <1>4, <2>1, AnswersOK, Zenon
<1>6. StateOK(session', client', server', up', down', replied', fin')
  BY <1>2, <1>5, Zenon
<1> QED BY <1>6, NextStateIs, Zenon

\* The server's buffer and what it has passed on may change along with the bytes on
\* their way, as long as the upload is whole.
LEMMA CarriesOn ==
    ASSUME NEW s \in Sessions, NEW c, NEW sv, NEW sw, NEW u, NEW u2, NEW dn, NEW k, NEW f, NEW h, NEW rel,
           StateOK(s, c, sv, u, dn, k, f), sv.phase = "relay",
           sw = [phase |-> "relay", hs |-> h, relayed |-> rel],
           h = Hs("done", h.buf, sv.hs.req, <<>>),
           CarryOK(s.server, h, rel, u2, SentBy(s, c.phase)),
           s.client = "socks5" => ReadBuf(h.buf) = <<>>
    PROVE  StateOK(s, c, sw, u2, dn, k, f)
<1>1. UpOK(s, c.phase, sv, u) /\ DownOK(s, c, sv, dn, k) /\ EndOK(s, c, sv, u, k, f)
  BY Zenon DEF StateOK
<1>2. sw.phase = "relay" /\ sw.hs = h /\ sw.relayed = rel
  OBVIOUS
<1>3. h.phase = "done" /\ h.req = sv.hs.req
  <2>1. PICK b, r : h = [phase |-> "done", buf |-> b, req |-> r, out |-> <<>>] /\ r = sv.hs.req
    BY Zenon DEF Hs
  <2> QED BY <2>1
<1>4. sv.hs.phase = "done"
  BY <1>1, ServerPhases, Zenon DEF UpOK
<1>5. UpOK(s, c.phase, sw, u2)
  <2>1. sw = [phase |-> sw.phase, hs |-> sw.hs, relayed |-> sw.relayed]
    BY <1>2, Zenon
  <2>2. sw.hs = Hs(sw.hs.phase, sw.hs.buf, sw.hs.req, <<>>)
    BY <1>2, <1>3, Zenon
  <2>3. "relay" \notin Before /\ "relay" # "handshake" /\ "relay" \in Relaying
    BY DEF Before, Relaying
  <2> QED BY <1>2, <1>3, <2>1, <2>2, <2>3, Zenon DEF UpOK
<1>6. DownOK(s, c, sw, dn, k)
  BY <1>1, <1>2, <1>3, <1>4, DownSame, Zenon
<1>7. EndOK(s, c, sw, u2, k, f)
  <2>1. "relay" # "ended"
    OBVIOUS
  <2> QED BY <1>1, <1>2, <2>1, Zenon DEF EndOK
<1> QED BY <1>5, <1>6, <1>7, Zenon DEF StateOK

LEMMA RelaysOK ==
    ASSUME IInv, NEW n, Relays(n)
    PROVE  IInv'
<1>1. PICK s : s = session
  OBVIOUS
<1>2. /\ s \in Sessions /\ UpOK(s, client.phase, server, up) /\ DownOK(s, client, server, down, replied)
      /\ EndOK(s, client, server, up, replied, fin)
  BY <1>1, Zenon DEF IInv
<1>3. PICK hs : hs = server.hs
  OBVIOUS
<1>4. PICK rel : rel = server.relayed
  OBVIOUS
<1>5. PICK x : x = ReadBuf(hs.buf)
  OBVIOUS
<1>6. PICK kept : kept = IF s.server = "http" THEN x ELSE <<>>
  OBVIOUS
<1>7. Kept = kept
  BY <1>1, <1>3, <1>5, <1>6, Zenon DEF Kept
<1>8. /\ server.phase = "relay"
      /\ IF kept # <<>>
         THEN /\ n \in 1..Len(kept)
              /\ server' = [server EXCEPT !.relayed = rel \o SubSeq(kept, 1, n),
                                          !.hs.buf = AdvanceRead(hs.buf, n)]
              /\ up' = up
         ELSE /\ n \in 1..Len(up)
              /\ server' = [server EXCEPT !.relayed = rel \o SubSeq(up, 1, n)]
              /\ up' = From(up, n + 1)
      /\ session' = s /\ down' = down /\ client' = client /\ replied' = replied /\ fin' = fin
  BY <1>1, <1>3, <1>4, <1>7 DEF Relays
<1>9. PICK t : t = SentBy(s, client.phase)
  OBVIOUS
<1>10. PICK m : m = MeantBy(s.server, t)
  OBVIOUS
<1>11. /\ server = [phase |-> server.phase, hs |-> hs, relayed |-> rel]
       /\ hs = Hs(hs.phase, hs.buf, hs.req, <<>>) /\ hs.phase = "done"
       /\ CarryOK(s.server, hs, rel, up, t)
       /\ (s.client = "socks5" => x = <<>>)
  BY <1>2, <1>3, <1>4, <1>5, <1>8, <1>9, ServerPhases, Zenon DEF UpOK
<1>12. /\ Holds(hs.buf, x) /\ rel \in Bytes /\ up \in Bytes /\ t \in Bytes /\ x \in Bytes
       /\ m.st = "ok" /\ hs.req = m.value
       /\ From(t, m.used + 1) = IF s.server = "http" THEN rel \o (x \o up) ELSE x \o (rel \o up)
  BY <1>5, <1>10, <1>11, Zenon DEF CarryOK, Holds
<1>13. s.client = "socks5" => s.server # "http"
  <2>1. s.client = "socks5" => s.server = "handshaker"
    BY <1>2, SessionTyped, Zenon
  <2> QED BY <2>1
<1>14. StateOK(s, client, server, up, down, replied, fin)
  BY <1>2, Zenon DEF StateOK
<1>15. ASSUME NEW h, NEW r2, NEW u2, server' = [phase |-> "relay", hs |-> h, relayed |-> r2], up' = u2,
              h = Hs("done", h.buf, hs.req, <<>>), CarryOK(s.server, h, r2, u2, t),
              s.client = "socks5" => ReadBuf(h.buf) = <<>>
       PROVE  IInv'
  <2>1. h = Hs("done", h.buf, server.hs.req, <<>>)
    BY <1>3, <1>15, Zenon
  <2>2. StateOK(s, client, server', u2, down, replied, fin)
    BY <1>2, <1>8, <1>9, <1>14, <1>15, <2>1, CarriesOn, Zenon
  <2>3. StateOK(session', client', server', up', down', replied', fin')
    BY <1>8, <1>15, <2>2, Zenon
  <2> QED BY <2>3, NextStateIs, Zenon
<1>16. CASE kept # <<>>
  <2>1. s.server = "http" /\ kept = x
    BY <1>6, <1>16, Zenon
  <2>2. PICK b : b = AdvanceRead(hs.buf, n)
    OBVIOUS
  <2>3. PICK r2 : r2 = rel \o SubSeq(x, 1, n)
    OBVIOUS
  <2>4. n \in 1..Len(x) /\ up' = up /\ server' = [server EXCEPT !.relayed = r2, !.hs.buf = b]
    BY <1>8, <1>16, <2>1, <2>2, <2>3, Zenon
  <2>5. PICK h : h = [hs EXCEPT !.buf = b]
    OBVIOUS
  <2>6. hs = [phase |-> "done", buf |-> hs.buf, req |-> hs.req, out |-> <<>>]
    BY <1>11, Zenon DEF Hs
  <2>7. h = [phase |-> "done", buf |-> b, req |-> hs.req, out |-> <<>>] /\ h.buf = b /\ h.phase = "done" /\ h.req = hs.req
    BY <2>5, <2>6
  <2>8. h = Hs("done", h.buf, hs.req, <<>>)
    BY <2>7, Zenon DEF Hs
  <2>9. server' = [server EXCEPT !.relayed = r2, !.hs = h]
    BY <1>3, <2>4, <2>5
  <2>10. server'.phase = "relay" /\ server'.hs = h /\ server'.relayed = r2 /\ DOMAIN server' = {"phase", "hs", "relayed"}
    BY <1>8, <1>11, <2>9
  <2>11. server' = [phase |-> "relay", hs |-> h, relayed |-> r2]
    BY <1>8, <1>11, <2>9, <2>10
  <2>12. Holds(b, ReadBuf(b)) /\ ReadBuf(b) = From(x, n + 1)
    <3>1. Holds(b, From(x, n + 1))
      BY <1>12, <2>2, <2>4, AdvancedHolds, Zenon
    <3> QED BY <3>1, Zenon DEF Holds
  <2>13. r2 \in Bytes /\ r2 \o (From(x, n + 1) \o up) = rel \o (x \o up)
    <3>1. MovedOK(rel, x, up, SubSeq(x, 1, n), From(x, n + 1))
      BY <1>12, <2>4, Moved, Zenon
    <3> QED BY <2>3, <3>1, Zenon DEF MovedOK
  <2>14. CarryOK(s.server, h, r2, up, t)
    BY <1>10, <1>12, <2>1, <2>7, <2>12, <2>13, Zenon DEF CarryOK
  <2>15. s.client # "socks5"
    BY <1>13, <2>1, Zenon
  <2> QED BY <1>15, <2>4, <2>8, <2>11, <2>14, <2>15, Zenon
<1>17. CASE kept = <<>>
  <2>1. PICK r2 : r2 = rel \o SubSeq(up, 1, n)
    OBVIOUS
  <2>2. PICK u2 : u2 = From(up, n + 1)
    OBVIOUS
  <2>3. n \in 1..Len(up) /\ up' = u2 /\ server' = [server EXCEPT !.relayed = r2]
    BY <1>8, <1>17, <2>1, <2>2, Zenon
  <2>4. server' = [phase |-> "relay", hs |-> hs, relayed |-> r2]
    BY <1>8, <1>11, <2>3
  <2>5. r2 \in Bytes /\ u2 \in Bytes /\ r2 \o u2 = rel \o up
    <3>1. MovedOK(rel, up, up, SubSeq(up, 1, n), From(up, n + 1))
      BY <1>12, <2>3, Moved, Zenon
    <3> QED BY <2>1, <2>2, <3>1, Zenon DEF MovedOK
  <2>6. CarryOK(s.server, hs, r2, u2, t)
    <3>1. CASE s.server = "http"
      <4>1. x = <<>>
        BY <1>6, <1>17, <3>1, Zenon
      <4>2. x \o up = up /\ x \o u2 = u2
        BY <1>12, <2>5, <4>1, CatEmpty, Zenon
      <4>3. From(t, m.used + 1) = r2 \o (x \o u2)
        BY <1>12, <2>5, <3>1, <4>2, Zenon
      <4> QED BY <1>5, <1>10, <1>11, <1>12, <2>5, <3>1, <4>3, Zenon DEF CarryOK
    <3>2. CASE s.server # "http"
      <4>1. From(t, m.used + 1) = x \o (r2 \o u2)
        BY <1>12, <2>5, <3>2, Zenon
      <4> QED BY <1>5, <1>10, <1>11, <1>12, <2>5, <3>2, <4>1, Zenon DEF CarryOK
    <3> QED BY <3>1, <3>2
  <2>7. hs = Hs("done", hs.buf, hs.req, <<>>)
    BY <1>11, Zenon
  <2> QED BY <1>5, <1>11, <1>15, <2>3, <2>4, <2>6, <2>7, Zenon
<1> QED BY <1>16, <1>17

\* A longer front of b is the shorter one and what is behind it.
LEMMA FrontGrows ==
    ASSUME NEW b \in Bytes, NEW i \in Nat, NEW n \in Nat, n # 0, i + n <= Len(b)
    PROVE  SubSeq(b, 1, i + n) = SubSeq(b, 1, i) \o SubSeq(b, i + 1, i + n)
BY DEF Bytes

LEMMA RelaysBackOK ==
    ASSUME IInv, NEW n, RelaysBack(n)
    PROVE  IInv'
<1>1. PICK s : s = session
  OBVIOUS
<1>2. /\ s \in Sessions /\ UpOK(s, client.phase, server, up) /\ DownOK(s, client, server, down, replied)
      /\ EndOK(s, client, server, up, replied, fin)
  BY <1>1, Zenon DEF IInv
<1>3. PICK k : k = replied
  OBVIOUS
<1>4. PICK k2 : k2 = k + n
  OBVIOUS
<1>5. PICK w : w = SubSeq(s.reply, k + 1, k2)
  OBVIOUS
<1>6. /\ server.phase = "relay" /\ n \in 1..(Len(s.reply) - k) /\ replied' = k2 /\ down' = down \o w
      /\ session' = s /\ up' = up /\ client' = client /\ server' = server /\ fin' = fin
  BY <1>1, <1>3, <1>4, <1>5, Zenon DEF RelaysBack
<1>7. /\ client = [phase |-> client.phase, buf |-> client.buf, got |-> client.got]
      /\ Holds(client.buf, ReadBuf(client.buf)) /\ client.got \in Bytes /\ down \in Bytes
      /\ client.phase \in {"greeting", "answer", "response", "open", "failed"}
      /\ k \in 0..Len(s.reply)
      /\ (s.client = "other" => client.phase = "open") /\ WaitOK(s, client, server, down, k)
  BY <1>2, <1>3, Zenon DEF DownOK
<1>8. s.reply \in Bytes /\ Len(s.reply) \in Nat
  BY <1>2, SessionTyped, BytesTyped, Zenon
<1>9. /\ k \in Nat /\ n \in Nat /\ n # 0 /\ k + n <= Len(s.reply)
      /\ k2 \in 0..Len(s.reply) /\ k + 1 \in Nat \ {0} /\ 1 \in Nat \ {0}
  BY <1>4, <1>6, <1>7, <1>8
<1>10. PICK rep : rep = SubSeq(s.reply, 1, k)
  OBVIOUS
<1>11. PICK rep2 : rep2 = SubSeq(s.reply, 1, k2)
  OBVIOUS
<1>12. rep \in Bytes /\ rep2 \in Bytes /\ w \in Bytes /\ rep2 = rep \o w
  <2>1. SubSeq(s.reply, 1, k) \in Bytes /\ SubSeq(s.reply, 1, k2) \in Bytes /\ SubSeq(s.reply, k + 1, k2) \in Bytes
    BY <1>7, <1>8, <1>9, BytesTyped, Zenon
  <2>2. SubSeq(s.reply, 1, k + n) = SubSeq(s.reply, 1, k) \o SubSeq(s.reply, k + 1, k + n)
    BY <1>8, <1>9, FrontGrows, Zenon
  <2> QED BY <1>4, <1>5, <1>10, <1>11, <2>1, <2>2, Zenon
<1>13. PICK x : x = ReadBuf(client.buf)
  OBVIOUS
<1>14. x \in Bytes /\ x \o down \in Bytes /\ down \o w \in Bytes
  <2>1. x \in Bytes
    BY <1>7, <1>13, Zenon DEF Holds
  <2> QED BY <1>7, <1>12, <2>1, CatBytes, Zenon
<1>15. Assoc(x, down, w)
  BY <1>7, <1>12, <1>14, CatAssoc3, Zenon
<1>16. server.phase \in Opened /\ server.phase \in Relaying /\ "relay" # "ended" /\ "relay" # "handshake"
  BY <1>6 DEF Opened, Relaying
<1>17. Answered(s, server, k2) = Answered(s, server, k) \o w
  <2>1. PICK a : a = AnswerOf(server.hs.req.via, TRUE)
    OBVIOUS
  <2>2. a \in Bytes
    <3>1. server.hs.phase = "done"
      BY <1>2, <1>16, Zenon DEF UpOK
    <3>2. server.hs.req.via \in {"socks5", "socks4", "connect", "http"}
      BY <1>2, <3>1, ViaIs, Zenon
    <3> QED BY <2>1, <3>2, AnswerTyped, Zenon
  <2>3. Answered(s, server, k2) = a \o rep2
    BY <1>11, <1>16, <2>1, AnsweredIs, Zenon
  <2>4. Answered(s, server, k) = a \o rep
    BY <1>10, <1>16, <2>1, AnsweredIs, Zenon
  <2>5. Assoc(a, rep, w)
    BY <1>12, <2>2, CatAssoc3, Zenon
  <2> QED BY <1>12, <2>3, <2>4, <2>5, Zenon DEF Assoc
<1>18. WaitOK(s, client, server, down \o w, k2)
  <2>1. client.phase # "greeting"
    BY <1>6, <1>7, <1>16, Zenon DEF WaitOK
  <2>2. ASSUME client.phase \in {"answer", "response"}
        PROVE  client.got = <<>> /\ ReadBuf(client.buf) \o (down \o w) = Answered(s, server, k2)
    <3>1. client.got = <<>> /\ x \o down = Answered(s, server, k)
      BY <1>7, <1>13, <2>2, Zenon DEF WaitOK
    <3> QED BY <1>13, <1>15, <1>17, <3>1, Zenon DEF Assoc
  <2>3. ASSUME client.phase = "open", s.client # "other"
        PROVE  /\ s.client = "socks5" => Writable(s.dst)
               /\ client.got \o (ReadBuf(client.buf) \o (down \o w)) = SubSeq(s.reply, 1, k2)
    <3>1. (s.client = "socks5" => Writable(s.dst)) /\ client.got \o (x \o down) = rep
      BY <1>7, <1>10, <1>13, <2>3, Zenon DEF WaitOK
    <3>2. Assoc(client.got, x \o down, w)
      BY <1>7, <1>12, <1>14, CatAssoc3, Zenon
    <3> QED BY <1>11, <1>12, <1>13, <1>15, <3>1, <3>2, Zenon DEF Assoc
  <2>4. (client.phase = "answer" => s.client = "socks5" /\ ReadBuf(client.buf) = <<>> /\ Writable(s.dst))
        /\ (client.phase = "response" => s.client = "http")
    BY <1>7, Zenon DEF WaitOK
  <2> QED BY <1>6, <1>16, <2>1, <2>2, <2>3, <2>4, Zenon DEF WaitOK
<1>19. DownOK(s, client, server, down \o w, k2)
  BY <1>7, <1>9, <1>14, <1>16, <1>18, Zenon DEF DownOK
<1>20. EndOK(s, client, server, up, k2, fin)
  BY <1>2, <1>6, <1>16, Zenon DEF EndOK
<1>21. StateOK(session', client', server', up', down', replied', fin')
  BY <1>2, <1>6, <1>19, <1>20, Zenon DEF StateOK
<1> QED BY <1>21, NextStateIs, Zenon

\* The relay ends with the upload at its end, or with the reply, or with an error.
LEMMA RelayOverOK ==
    ASSUME IInv, NEW q \in {"ended", "broken"}, server.phase = "relay",
           server' = [server EXCEPT !.phase = q],
           q = "ended" => UploadEnded \/ replied = Len(session.reply),
           UNCHANGED <<session, up, down, client, replied, fin>>
    PROVE  IInv'
<1>1. PICK s : s = session
  OBVIOUS
<1>2. /\ s \in Sessions /\ UpOK(s, client.phase, server, up) /\ DownOK(s, client, server, down, replied)
      /\ EndOK(s, client, server, up, replied, fin)
  BY <1>1, Zenon DEF IInv
<1>3. /\ server.phase = "relay" /\ server' = [server EXCEPT !.phase = q]
      /\ (q = "ended" => UploadEnded \/ replied = Len(s.reply))
      /\ session' = s /\ up' = up /\ down' = down /\ client' = client /\ replied' = replied /\ fin' = fin
  BY <1>1
<1>4. server = [phase |-> server.phase, hs |-> server.hs, relayed |-> server.relayed]
  BY <1>2, Zenon DEF UpOK
<1>5. /\ server' = [phase |-> q, hs |-> server.hs, relayed |-> server.relayed]
      /\ server'.phase = q /\ server'.hs = server.hs /\ server'.relayed = server.relayed
  BY <1>3, <1>4
<1>6. /\ q \in Opened /\ q \in Relaying /\ q \notin Before /\ q # "handshake"
      /\ "relay" \in Opened /\ "relay" \in Relaying /\ "relay" # "handshake"
  BY DEF Opened, Relaying, Before
<1>7. UpOK(s, client.phase, server', up)
  BY <1>2, <1>3, <1>5, <1>6, Zenon DEF UpOK
<1>8. Answered(s, server', replied) = Answered(s, server, replied)
  <2>1. Answered(s, server, replied) = AnswerOf(server.hs.req.via, TRUE) \o SubSeq(s.reply, 1, replied)
    <3>1. server.phase \in Opened
      BY <1>3, <1>6, Zenon
    <3> QED BY <3>1, AnsweredIs, Zenon
  <2>2. Answered(s, server', replied) = AnswerOf(server'.hs.req.via, TRUE) \o SubSeq(s.reply, 1, replied)
    <3>1. PICK sw : sw = server'
      OBVIOUS
    <3>2. sw.phase \in Opened
      BY <1>5, <1>6, <3>1, Zenon
    <3> QED BY <3>1, <3>2, AnsweredIs, Zenon
  <2> QED BY <1>5, <2>1, <2>2, Zenon
<1>9. WaitOK(s, client, server', down, replied)
  BY <1>2, <1>3, <1>5, <1>6, <1>8, Zenon DEF DownOK, WaitOK
<1>10. DownOK(s, client, server', down, replied)
  BY <1>2, <1>5, <1>6, <1>9, Zenon DEF DownOK
<1>11. EndOK(s, client, server', up, replied, fin)
  <2>1. UploadEnded => fin /\ up = <<>> /\ (s.server = "http" => ReadBuf(server.hs.buf) = <<>>)
    BY <1>1, Zenon DEF UploadEnded, Kept
  <2> QED BY <1>2, <1>3, <1>5, <2>1, Zenon DEF EndOK
<1>12. StateOK(session', client', server', up', down', replied', fin')
  BY <1>2, <1>3, <1>7, <1>10, <1>11, Zenon DEF StateOK
<1> QED BY <1>12, NextStateIs, Zenon

-----------------------------------------------------------------------------
(* The theorems.                                                            *)

LEMMA NextOK ==
    ASSUME IInv, [Next]_vars
    PROVE  IInv'
<1>1. CASE GreetingAnswered
  BY <1>1, GreetingAnsweredOK
<1>2. CASE RequestAnswered
  BY <1>2, RequestAnsweredOK
<1>3. CASE \E n \in 1..Len(down) : ResponseRead(n)
  BY <1>3, ResponseReadOK
<1>4. CASE \E n \in 1..(Len(down) + client.buf.write) : ClientReads(n)
  BY <1>4, ClientReadsOK
<1>5. CASE ClientSeesEnd
  BY <1>5, ClientSeesEndOK
<1>6. CASE \E n \in 1..Len(up) : HandshakeReads(n)
  BY <1>6, HandshakeReadsOK
<1>7. CASE HandshakeSeesEnd
  BY <1>7, HandshakeSeesEndOK
<1>8. CASE Connected
  BY <1>8, ConnectedOK
<1>9. CASE ConnectFails
  BY <1>9, ConnectFailsOK
<1>10. CASE \E n \in 1..(Len(up) + server.hs.buf.write) : Relays(n)
  BY <1>10, RelaysOK
<1>11. CASE \E n \in 1..Len(session.reply) : RelaysBack(n)
  BY <1>11, RelaysBackOK
<1>12. CASE RelayEnds(UploadEnded)
  BY <1>12, RelayOverOK DEF RelayEnds
<1>13. CASE Finishes
  BY <1>13, FinishesOK
<1>14. CASE TargetCloses
  BY <1>14, RelayOverOK DEF TargetCloses, RelayEnds
<1>16. CASE RelayFails
  BY <1>16, RelayOverOK DEF RelayFails
<1>15. CASE UNCHANGED vars
  <2>1. /\ session' = session /\ up' = up /\ down' = down /\ client' = client /\ server' = server
        /\ replied' = replied /\ fin' = fin
    BY <1>15 DEF vars
  <2>2. StateOK(session', client', server', up', down', replied', fin')
    BY <2>1, StateIs, Zenon
  <2> QED BY <2>2, NextStateIs, Zenon
<1> QED BY <1>1, <1>2, <1>3, <1>4, <1>5, <1>6, <1>7, <1>8, <1>9, <1>10, <1>11, <1>12, <1>13, <1>14, <1>15, <1>16, Zenon
        DEF Next, ClientStep, ServerStep, ConnectEnds

\* The invariant: in every state the upload, the download and the end of the relay
\* of a connection are as UpOK, DownOK and EndOK say.
THEOREM Invariant == Spec => []IInv
<1>1. Init => IInv
  BY InitOK
<1>2. IInv /\ [Next]_vars => IInv'
  BY NextOK
<1> QED BY <1>1, <1>2, PTL DEF Spec

\* The upstream protocols and the proxies agree: when request_socks5 or new_stream
\* of HttpProxy succeeds, the server has connected to the address that was asked
\* for, however the bytes of both sides were read.  For Socks5 this is any address
\* at all; for HttpProxy it is any whose text can be the path of a request, the text
\* of an IP address being that address.
THEOREM AgreeOnTargetTheorem == Spec => []AgreeOnTarget
<1>1. IInv => AgreeOnTarget
  <2> SUFFICES ASSUME IInv, client.phase = "open", session.client # "other"
               PROVE  /\ server.phase \in {"relay", "association", "ended", "broken"}
                      /\ (session.client = "http" => Plain(session.text))
                           => server.hs.req.dst = Heard(session)
    BY DEF AgreeOnTarget
  <2>1. /\ session \in Sessions /\ UpOK(session, client.phase, server, up)
        /\ DownOK(session, client, server, down, replied)
    BY Zenon DEF IInv
  <2>2. server.phase \in Opened
    BY <2>1, Zenon DEF DownOK, WaitOK
  <2>3. server.hs.phase = "done"
    BY <2>1, <2>2, Zenon DEF UpOK
  <2>4. /\ session.client = "socks5" => server.hs.req.dst = Understood(session.dst)
        /\ session.client = "http" => (Plain(session.text) => server.hs.req.dst = Heard(session))
    BY <2>1, <2>3, ViaIs, Zenon
  <2>5. session.client \in {"socks5", "http"}
    <3>1. session.client \in {"socks5", "http", "other"}
      BY <2>1, SessionTyped, Zenon
    <3> QED BY <3>1
  <2>6. session.client = "socks5" => server.hs.req.dst = Heard(session)
    BY <2>4, Zenon DEF Heard
  <2> QED BY <2>2, <2>4, <2>5, <2>6 DEF Opened
<1> QED BY <1>1, Invariant, PTL

\* However its bytes are cut into reads, Handshaker::start and parse_request
\* understand a request as what it is, and refuse what is none.
THEOREM UnderstoodAsMeantTheorem == Spec => []UnderstoodAsMeant
<1>1. IInv => UnderstoodAsMeant
  <2> SUFFICES ASSUME IInv, server.hs.phase \in {"done", "failed"}
               PROVE  server.hs.req = session.meant
    BY DEF UnderstoodAsMeant
  <2>1. session \in Sessions /\ UpOK(session, client.phase, server, up)
    BY Zenon DEF IInv
  <2>2. CASE server.hs.phase = "done"
    BY <2>1, <2>2, ViaIs, Zenon
  <2>3. CASE server.hs.phase = "failed"
    <3>1. server.phase \in Before
      <4>1. server.phase \notin Relaying
        <5>1. server.phase \in Relaying => server.hs.phase = "done"
          BY <2>1, Zenon DEF UpOK, CarryOK
        <5> QED BY <2>3, <5>1
      <4>2. server.phase \in Before \cup Relaying
        BY <2>1, Zenon DEF UpOK
      <4> QED BY <4>1, <4>2
    <3>2. HsOK(session.server, server.hs.phase, server.hs.buf, server.hs.req, up, SentBy(session, client.phase))
      BY <2>1, <3>1, Zenon DEF UpOK
    <3>3. PICK t : t = SentBy(session, client.phase)
      OBVIOUS
    <3>4. MeantBy(session.server, t).st = "error" /\ server.hs.req = NoRequest
      BY <2>3, <3>2, <3>3, Zenon DEF HsOK
    <3>5. MeansOK(session, client.phase, t)
      BY <2>1, <3>3, SentMeans, Zenon
    <3> QED BY <3>4, <3>5, Zenon DEF MeansOK
  <2> QED BY <2>2, <2>3
<1> QED BY <1>1, Invariant, PTL

\* What is behind some bytes is a suffix of the whole.
LEMMA Suffix ==
    ASSUME NEW x \in Bytes, NEW y \in Bytes
    PROVE  IsSuffix(y, x \o y)
<1>1. PICK t : t = x \o y
  OBVIOUS
<1>2. t \in Bytes /\ Len(t) = Len(x) + Len(y) /\ Len(x) \in Nat /\ Len(y) \in Nat
  BY <1>1, CatBytes, BytesTyped, Zenon
<1>3. \A i \in 1..Len(y) : t[Len(x) + i] = y[i]
  BY <1>1, CatIndex, Zenon
<1>4. PICK p : p = Reverse(y)
  OBVIOUS
<1>5. PICK q : q = Reverse(t)
  OBVIOUS
<1>6. p \in Bytes /\ Len(p) = Len(y) /\ \A i \in 1..Len(y) : p[i] = y[(Len(y) - i) + 1]
  BY <1>2, <1>4 DEF Reverse, Bytes
<1>7. q \in Bytes /\ Len(q) = Len(t) /\ \A i \in 1..Len(t) : q[i] = t[(Len(t) - i) + 1]
  BY <1>2, <1>5 DEF Reverse, Bytes
<1>8. \A i \in 1..Len(y) : p[i] = q[i]
  <2>1. SUFFICES ASSUME NEW i \in 1..Len(y) PROVE p[i] = q[i]
    OBVIOUS
  <2>2. /\ (Len(t) - i) + 1 = Len(x) + ((Len(y) - i) + 1) /\ (Len(y) - i) + 1 \in 1..Len(y)
        /\ i \in 1..Len(t)
    BY <1>2
  <2>3. t[Len(x) + ((Len(y) - i) + 1)] = y[(Len(y) - i) + 1]
    BY <1>3, <2>2, Zenon
  <2> QED BY <1>6, <1>7, <2>2, <2>3, Zenon
<1>9. Len(p) <= Len(q) /\ Len(p) \in 0..Len(q) /\ Len(p) \in 0..Len(p) /\ Len(p) \in Nat
  BY <1>2, <1>6, <1>7
<1>10. PICK a : a = SubSeq(p, 1, Len(p))
  OBVIOUS
<1>11. PICK b : b = SubSeq(q, 1, Len(p))
  OBVIOUS
<1>12. a \in Bytes /\ Len(a) = Len(p) /\ \A i \in 1..Len(p) : a[i] = p[i]
  BY <1>6, <1>9, <1>10 DEF Bytes
<1>13. b \in Bytes /\ Len(b) = Len(p) /\ \A i \in 1..Len(p) : b[i] = q[i]
  BY <1>7, <1>9, <1>11 DEF Bytes
<1>14. a = b
  <2>1. Len(a) = Len(b) /\ \A i \in 1..Len(a) : a[i] = b[i]
    BY <1>6, <1>8, <1>12, <1>13, Zenon
  <2> QED BY <1>12, <1>13, <2>1, SameBytes, Zenon
<1>15. IsPrefix(p, q)
  BY <1>9, <1>10, <1>11, <1>14, Zenon DEF IsPrefix
<1> QED BY <1>1, <1>4, <1>5, <1>15, Zenon DEF IsSuffix

\* The upload that a relay has taken over: rel with the target, kept in the buffer
\* of the HTTP server, u on its way.
CarriedOK(s, rel, kept, u, w) ==
    /\ rel \in Bytes /\ kept \in Bytes /\ u \in Bytes
    /\ IsSuffix((rel \o kept) \o u, w)
    /\ (s.server = "http" \/ s.client = "socks5" => (rel \o kept) \o u = w)

LEMMA Carried ==
    ASSUME NEW s \in Sessions, NEW p, NEW sv, NEW u, UpOK(s, p, sv, u), sv.phase \in Relaying
    PROVE  CarriedOK(s, sv.relayed, IF s.server = "http" THEN ReadBuf(sv.hs.buf) ELSE <<>>, u, WrittenBy(s, p))
<1>1. PICK t : t = SentBy(s, p)
  OBVIOUS
<1>2. PICK m : m = MeantBy(s.server, t)
  OBVIOUS
<1>3. PICK x : x = ReadBuf(sv.hs.buf)
  OBVIOUS
<1>4. PICK rel : rel = sv.relayed
  OBVIOUS
<1>5. PICK w : w = WrittenBy(s, p)
  OBVIOUS
<1>6. /\ x \in Bytes /\ rel \in Bytes /\ u \in Bytes /\ m.st = "ok" /\ sv.hs.phase = "done"
      /\ From(t, m.used + 1) = IF s.server = "http" THEN rel \o (x \o u) ELSE x \o (rel \o u)
  BY <1>1, <1>2, <1>3, <1>4, Zenon DEF UpOK, CarryOK, Holds
<1>7. w \in Bytes /\ From(t, m.used + 1) = w
  BY <1>1, <1>2, <1>5, <1>6, SentMeans, Zenon DEF MeansOK
<1>8. <<>> \o w = w /\ <<>> \in Bytes
  BY <1>7, CatEmpty, NoBytes, Zenon
<1>9. CASE s.server = "http"
  <2>1. Assoc(rel, x, u)
    BY <1>6, CatAssoc3, Zenon
  <2>2. (rel \o x) \o u = w
    BY <1>6, <1>7, <1>9, <2>1, Zenon DEF Assoc
  <2>3. IsSuffix(w, <<>> \o w)
    BY <1>7, <1>8, Suffix, Zenon
  <2>4. CarriedOK(s, rel, x, u, w)
    BY <1>6, <1>8, <2>2, <2>3, Zenon DEF CarriedOK
  <2> QED BY <1>3, <1>4, <1>5, <1>9, <2>4, Zenon
<1>10. CASE s.server # "http"
  <2>1. rel \o <<>> = rel /\ rel \o u \in Bytes
    BY <1>6, CatEmpty, CatBytes, Zenon
  <2>2. w = x \o (rel \o u)
    BY <1>6, <1>7, <1>10, Zenon
  <2>3. IsSuffix(rel \o u, x \o (rel \o u))
    BY <1>6, <2>1, Suffix, Zenon
  <2>4. s.client = "socks5" => rel \o u = w
    <3>1. SUFFICES ASSUME s.client = "socks5" PROVE rel \o u = w
      OBVIOUS
    <3>2. x = <<>>
      BY <1>3, <1>6, <3>1, Zenon DEF UpOK
    <3> QED BY <2>1, <2>2, <3>2, CatEmpty, Zenon
  <2>5. CarriedOK(s, rel, <<>>, u, w)
    BY <1>6, <1>8, <1>10, <2>1, <2>2, <2>3, <2>4, Zenon DEF CarriedOK
  <2> QED BY <1>4, <1>5, <1>10, <2>5, Zenon
<1> QED BY <1>9, <1>10

LEMMA WrittenIs == Written = WrittenBy(session, client.phase)
BY Zenon DEF Written, WrittenBy

\* A copy_duplex that returns without an error has not cut both directions: the
\* reply has been passed on to its last byte, or the upload has.
THEOREM RelayCutsOneSideTheorem == Spec => []RelayCutsOneSide
<1>1. IInv => RelayCutsOneSide
  <2> SUFFICES ASSUME IInv, server.phase = "ended", replied # Len(session.reply)
               PROVE  /\ fin /\ IsSuffix(server.relayed, Written)
                      /\ (session.server = "http" \/ session.client = "socks5" => server.relayed = Written)
    BY DEF RelayCutsOneSide
  <2>1. /\ session \in Sessions /\ UpOK(session, client.phase, server, up)
        /\ EndOK(session, client, server, up, replied, fin)
    BY Zenon DEF IInv
  <2>2. fin /\ up = <<>> /\ (session.server = "http" => ReadBuf(server.hs.buf) = <<>>)
    BY <2>1, Zenon DEF EndOK
  <2>3. CarriedOK(session, server.relayed, IF session.server = "http" THEN ReadBuf(server.hs.buf) ELSE <<>>,
                  up, Written)
    BY <2>1, ServerPhases, Carried, WrittenIs, Zenon
  <2>4. CarriedOK(session, server.relayed, <<>>, <<>>, Written)
    <3>1. (IF session.server = "http" THEN ReadBuf(server.hs.buf) ELSE <<>>) = <<>>
      BY <2>2, Zenon
    <3> QED BY <2>2, <2>3, <3>1, Zenon
  <2>5. (server.relayed \o <<>>) \o <<>> = server.relayed
    BY <2>4, CatEmpty, Zenon DEF CarriedOK
  <2> QED BY <2>2, <2>4, <2>5, Zenon DEF CarriedOK
<1> QED BY <1>1, Invariant, PTL

\* No byte of the upload is lost, added or doubled between the request and the relay
\* with the HTTP server, and with a client that waits for the answer; nothing of the
\* answer gets into the download, and nothing of the download into the answer; and
\* the RWBuffers of both sides keep their windows.
THEOREM BytesAreKeptTheorem == Spec => []BytesAreKept
<1>1. IInv => BytesAreKept
  <2> SUFFICES ASSUME IInv PROVE BytesAreKept
    OBVIOUS
  <2>1. /\ session \in Sessions /\ UpOK(session, client.phase, server, up)
        /\ DownOK(session, client, server, down, replied)
    BY Zenon DEF IInv
  <2>2. BufferOK(client.buf)
    BY <2>1, Zenon DEF DownOK, Holds
  <2>3. BufferOK(server.hs.buf)
    <3>1. server.phase \in Before \/ server.phase \in Relaying
      BY <2>1, Zenon DEF UpOK
    <3>2. CASE server.phase \in Before
      BY <2>1, <3>2, Zenon DEF UpOK, HsOK, Holds
    <3>3. CASE server.phase \in Relaying
      BY <2>1, <3>3, Zenon DEF UpOK, CarryOK, Holds
    <3> QED BY <3>1, <3>2, <3>3
  <2>4. UploadIsKept
    <3>1. SUFFICES ASSUME server.phase = "relay"
                   PROVE  /\ IsSuffix(server.relayed \o Kept \o up, Written)
                          /\ (session.server = "http" \/ session.client = "socks5"
                                => server.relayed \o Kept \o up = Written)
      BY DEF UploadIsKept
    <3>2. CarriedOK(session, server.relayed, Kept, up, Written)
      BY <2>1, <3>1, ServerPhases, Carried, WrittenIs, Zenon DEF Kept
    <3> QED BY <3>2, Zenon DEF CarriedOK
  <2>5. DownloadIsKept
    <3>1. SUFFICES ASSUME client.phase = "open", session.client # "other"
                   PROVE  client.got \o ReadBuf(client.buf) \o down = SubSeq(session.reply, 1, replied)
      BY DEF DownloadIsKept
    <3>2. client.got \o (ReadBuf(client.buf) \o down) = SubSeq(session.reply, 1, replied)
      BY <2>1, <3>1, Zenon DEF DownOK, WaitOK
    <3>3. client.got \in Bytes /\ ReadBuf(client.buf) \in Bytes /\ down \in Bytes
      BY <2>1, Zenon DEF DownOK, Holds
    <3>4. Assoc(client.got, ReadBuf(client.buf), down)
      BY <3>3, CatAssoc3, Zenon
    <3> QED BY <3>2, <3>4, Zenon DEF Assoc
  <2> QED BY <2>2, <2>3, <2>4, <2>5 DEF BytesAreKept
<1> QED BY <1>1, Invariant, PTL

=============================================================================
