---------------------------- MODULE UdpChainProofs ----------------------------
(***************************************************************************)
(* Datagrams over TCPMan, for any script of datagrams, any addresses and   *)
(* any payloads that fit their length fields.                              *)
(*                                                                         *)
(* The argument: a parser that is given what a writer wrote, with anything *)
(* behind it, reads it back and stops where it ends (AddressRead,          *)
(* RequestReceived, FrameRead).  So what is on the connection is always a  *)
(* row of whole frames, which decode to the datagrams that were written,   *)
(* as both ends keep the same last address (DecodedIs).  A sink is a chain *)
(* of slots, of which a poll keeps the content in order (PolledKeeps).     *)
(* Put one behind the other, the sink of the one end, the connection and   *)
(* the sink of the other hold a row of the datagrams that came in (UpKept, *)
(* DownKept); what each phase has and has not, Phases says.                *)
(***************************************************************************)
EXTENDS UdpChain, SequenceTheorems, WellFoundedInduction, TLAPS

-----------------------------------------------------------------------------
(* Sequences.                                                               *)

\* The parts of a sequence are found where they were put.
LEMMA Parts ==
    ASSUME NEW S, NEW x \in Seq(S), NEW y \in Seq(S), NEW z \in Seq(S)
    PROVE  /\ x \o y \in Seq(S) /\ Len(x \o y) = Len(x) + Len(y)
           /\ (x \o y) \o z = x \o (y \o z)
           /\ Len(x) \in Nat
           /\ SubSeq(x \o y, 1, Len(x)) = x
           /\ SubSeq(x \o y, Len(x) + 1, Len(x) + Len(y)) = y
           /\ SubSeq((x \o y) \o z, Len(x) + 1, Len(x) + Len(y)) = y
           /\ \A i \in 1..Len(x) : (x \o y)[i] = x[i]
           /\ \A i \in 1..Len(y) : (x \o y)[Len(x) + i] = y[i]
           /\ x \o <<>> = x /\ <<>> \o x = x
<1>1. x \o y \in Seq(S) /\ Len(x \o y) = Len(x) + Len(y)
  OBVIOUS
<1>2. (x \o y) \o z = x \o (y \o z)
  OBVIOUS
<1>3. SubSeq(x \o y, 1, Len(x)) = x
  OBVIOUS
<1>4. SubSeq(x \o y, Len(x) + 1, Len(x) + Len(y)) = y
  OBVIOUS
<1>5. SubSeq((x \o y) \o z, Len(x) + 1, Len(x) + Len(y)) = y
  OBVIOUS
<1>6. /\ \A i \in 1..Len(x) : (x \o y)[i] = x[i]
      /\ \A i \in 1..Len(y) : (x \o y)[Len(x) + i] = y[i]
  OBVIOUS
<1>7. x \o <<>> = x /\ <<>> \o x = x
  OBVIOUS
<1> QED BY <1>1, <1>2, <1>3, <1>4, <1>5, <1>6, <1>7

\* Bytes and their parts.
LEMMA BytesTyped ==
    ASSUME NEW b \in Bytes
    PROVE  /\ Len(b) \in Nat
           /\ \A i \in 1..Len(b) : b[i] \in Byte
           /\ b = <<>> <=> Len(b) = 0
           /\ \A i \in Nat \ {0}, j \in 0..Len(b) :
                SubSeq(b, i, j) \in Bytes /\ Len(SubSeq(b, i, j)) = IF i <= j THEN j - i + 1 ELSE 0
<1>0. b \in Seq(Byte)
  BY DEF Bytes
<1>1. Len(b) \in Nat /\ \A i \in 1..Len(b) : b[i] \in Byte
  BY <1>0, LenProperties, ElementOfSeq
<1>2. b = <<>> <=> Len(b) = 0
  BY <1>0, EmptySeq
<1>3. ASSUME NEW i \in Nat \ {0}, NEW j \in 0..Len(b)
      PROVE  SubSeq(b, i, j) \in Bytes /\ Len(SubSeq(b, i, j)) = IF i <= j THEN j - i + 1 ELSE 0
  <2>1. i \in Int /\ j \in Int /\ \A m \in i..j : b[m] \in Byte
    BY <1>1
  <2> QED BY <2>1, SubSeqProperties DEF Bytes
<1> QED BY <1>1, <1>2, <1>3

\* The same for bytes, one fact at a time.
LEMMA CatBytes ==
    ASSUME NEW x \in Bytes, NEW y \in Bytes
    PROVE  x \o y \in Bytes /\ Len(x \o y) = Len(x) + Len(y)
BY DEF Bytes

LEMMA CatAssoc ==
    ASSUME NEW x \in Bytes, NEW y \in Bytes, NEW z \in Bytes
    PROVE  (x \o y) \o z = x \o (y \o z)
BY DEF Bytes

LEMMA CatLeft ==
    ASSUME NEW x \in Bytes, NEW y \in Bytes
    PROVE  SubSeq(x \o y, 1, Len(x)) = x /\ \A i \in 1..Len(x) : (x \o y)[i] = x[i]
BY DEF Bytes

LEMMA CatRight ==
    ASSUME NEW x \in Bytes, NEW y \in Bytes
    PROVE  /\ SubSeq(x \o y, Len(x) + 1, Len(x) + Len(y)) = y
           /\ From(x \o y, Len(x) + 1) = y
<1>1. SubSeq(x \o y, Len(x) + 1, Len(x) + Len(y)) = y
  BY DEF Bytes
<1>2. Len(x \o y) = Len(x) + Len(y)
  BY DEF Bytes
<1> QED BY <1>1, <1>2, Zenon DEF From

LEMMA CatIndex ==
    ASSUME NEW x \in Bytes, NEW y \in Bytes
    PROVE  \A i \in 1..Len(y) : (x \o y)[Len(x) + i] = y[i]
BY DEF Bytes

LEMMA CatMiddle ==
    ASSUME NEW x \in Bytes, NEW y \in Bytes, NEW z \in Bytes
    PROVE  SubSeq((x \o y) \o z, Len(x) + 1, Len(x) + Len(y)) = y
BY DEF Bytes

LEMMA CatEmpty ==
    ASSUME NEW x \in Bytes
    PROVE  x \o <<>> = x /\ <<>> \o x = x
BY DEF Bytes

LEMMA TwoBytes ==
    ASSUME NEW t \in Byte, NEW u \in Byte
    PROVE  /\ <<t, u>> \in Bytes /\ Len(<<t, u>>) = 2 /\ <<t, u>>[1] = t /\ <<t, u>>[2] = u
           /\ <<t>> \o <<u>> = <<t, u>>
<1>1. /\ <<t, u>> \in Seq(Byte) /\ Len(<<t, u>>) = 2
      /\ <<t, u>>[1] = t /\ <<t, u>>[2] = u
  OBVIOUS
<1>2. /\ <<t>> \o <<u>> \in Seq(Byte) /\ Len(<<t>> \o <<u>>) = 2
      /\ (<<t>> \o <<u>>)[1] = t /\ (<<t>> \o <<u>>)[2] = u
  OBVIOUS
<1>3. PICK p \in Seq(Byte), q \in Seq(Byte) : p = <<t>> \o <<u>> /\ q = <<t, u>>
  BY <1>1, <1>2
<1>4. Len(p) = Len(q) /\ \A i \in 1..Len(p) : p[i] = q[i]
  <2>1. Len(p) = 2 /\ Len(q) = 2 /\ p[1] = t /\ q[1] = t /\ p[2] = u /\ q[2] = u
    BY <1>1, <1>2, <1>3
  <2>2. \A i \in 1..2 : i = 1 \/ i = 2
    OBVIOUS
  <2> HIDE <1>3
  <2> QED BY <2>1, <2>2
<1>5. p = q
  BY <1>4, SeqEqual
<1> QED BY <1>1, <1>3, <1>5 DEF Bytes

\* Rows of a few bytes.
LEMMA FewBytes ==
    /\ <<>> \in Bytes
    /\ \A t \in Byte : <<t>> \in Bytes /\ Len(<<t>>) = 1 /\ <<t>>[1] = t /\ <<t>> \o <<>> = <<t>>
    /\ \A t \in Byte, u \in Byte :
         /\ <<t, u>> \in Bytes /\ Len(<<t, u>>) = 2 /\ <<t, u>>[1] = t /\ <<t, u>>[2] = u
         /\ <<t>> \o <<u>> = <<t, u>>
    /\ \A t \in Byte, u \in Byte, v \in Byte :
         /\ <<t, u, v>> \in Bytes /\ Len(<<t, u, v>>) = 3
         /\ <<t, u, v>>[1] = t /\ <<t, u, v>>[2] = u /\ <<t, u, v>>[3] = v
<1>1. <<>> \in Bytes
  BY DEF Bytes
<1>2. ASSUME NEW t \in Byte
      PROVE  <<t>> \in Bytes /\ Len(<<t>>) = 1 /\ <<t>>[1] = t /\ <<t>> \o <<>> = <<t>>
  BY DEF Bytes
<1>3. ASSUME NEW t \in Byte, NEW u \in Byte
      PROVE  /\ <<t, u>> \in Bytes /\ Len(<<t, u>>) = 2 /\ <<t, u>>[1] = t /\ <<t, u>>[2] = u
             /\ <<t>> \o <<u>> = <<t, u>>
  BY TwoBytes, Zenon
<1>5. ASSUME NEW t \in Byte, NEW u \in Byte, NEW v \in Byte
      PROVE  /\ <<t, u, v>> \in Bytes /\ Len(<<t, u, v>>) = 3
             /\ <<t, u, v>>[1] = t /\ <<t, u, v>>[2] = u /\ <<t, u, v>>[3] = v
  BY DEF Bytes
<1> QED BY <1>1, <1>2, <1>3, <1>5, Zenon

LEMMA U16Read ==
    ASSUME NEW n \in Nat, n <= MaxDatagram
    PROVE  /\ U16(n) \in Bytes /\ Len(U16(n)) = 2
           /\ U16(n)[1] * 256 + U16(n)[2] = n
BY DEF U16, Bytes, Byte, MaxDatagram

-----------------------------------------------------------------------------
(* Addresses.                                                               *)

\* What parse makes of an address, and what a socket shows.
IsAddress(a) ==
    \/ IsSocketAddr(a)
    \/ /\ a \in [kind : {"name"}, host : Bytes, port : Bytes]
       /\ Len(a.host) <= MaxDatagram /\ Len(a.port) = 2
       /\ IsUtf8(a.host) /\ a.host \notin DOMAIN Literals

\* A head, two fields and the rest, as a parser looks at them.
InFields(b, w, h, x, y, z) ==
    /\ w \in Bytes /\ b \in Bytes
    /\ Len(w) = Len(h) + Len(x) + Len(y)
    /\ Len(b) = Len(h) + Len(x) + Len(y) + Len(z)
    /\ \A i \in 1..Len(h) : b[i] = h[i]
    /\ SubSeq(b, Len(h) + 1, Len(h) + Len(x)) = x
    /\ SubSeq(b, Len(h) + Len(x) + 1, Len(h) + Len(x) + Len(y)) = y

LEMMA InPlace ==
    ASSUME NEW h \in Bytes, NEW x \in Bytes, NEW y \in Bytes, NEW z \in Bytes
    PROVE  InFields((h \o x \o y) \o z, h \o x \o y, h, x, y, z)
<1>1. PICK p : p = h \o x
  OBVIOUS
<1>2. p \in Bytes /\ Len(p) = Len(h) + Len(x)
  BY <1>1, CatBytes, Zenon
<1>3. PICK w : w = p \o y
  OBVIOUS
<1>4. w \in Bytes /\ Len(w) = Len(p) + Len(y)
  BY <1>2, <1>3, CatBytes, Zenon
<1>5. PICK b : b = w \o z
  OBVIOUS
<1>6. b \in Bytes /\ Len(b) = Len(w) + Len(z)
  BY <1>4, <1>5, CatBytes, Zenon
<1>7. \A i \in 1..Len(h) : b[i] = h[i]
  BY <1>1, <1>3, <1>5 DEF Bytes
<1>8. SubSeq(b, Len(h) + 1, Len(h) + Len(x)) = x
  BY <1>1, <1>3, <1>5 DEF Bytes
<1>9. SubSeq(b, Len(p) + 1, Len(p) + Len(y)) = y
  BY <1>2, <1>3, <1>5, CatMiddle, Zenon
<1> QED BY <1>1, <1>2, <1>3, <1>4, <1>5, <1>6, <1>7, <1>8, <1>9, Zenon DEF InFields

\* parse undoes write_to, whatever follows.
LEMMA AddressRead ==
    ASSUME NEW a, IsAddress(a), Writable(a), NEW rest \in Bytes
    PROVE  /\ WriteTo(a) \in Bytes
           /\ Len(WriteTo(a)) \in Nat
           /\ ParseAddress(WriteTo(a) \o rest) = Parsed(Len(WriteTo(a)), a)
<1>1. CASE a.kind = "v4" \/ a.kind = "v6"
  <2>1. PICK t \in {1, 4} : t = TypeByte(a) /\ (t = 1 <=> a.kind = "v4") /\ (t = 4 <=> a.kind = "v6")
    BY <1>1 DEF TypeByte
  <2>2. IsSocketAddr(a) /\ a.host \in Bytes /\ a.port \in Bytes /\ Len(a.port) = 2
        /\ a = [kind |-> a.kind, host |-> a.host, port |-> a.port]
    BY <1>1 DEF IsAddress, IsSocketAddr
  <2>3. PICK n \in {4, 16} : n = Len(a.host) /\ (t = 1 <=> n = 4) /\ (t = 4 <=> n = 16)
    BY <2>1, <2>2 DEF IsSocketAddr
  <2>4. PICK h \in Bytes : h = <<t>> /\ h = <<t>> \o <<>> /\ Len(h) = 1 /\ h[1] = t
    <3>1. t \in Byte
      BY DEF Byte
    <3> QED BY <3>1, FewBytes, ZenonT(90)
  <2>5. WriteTo(a) = h \o a.host \o a.port
    BY <1>1, <2>1, <2>4 DEF WriteTo
  <2>6. PICK b : b = WriteTo(a) \o rest
    OBVIOUS
  <2>7. /\ WriteTo(a) \in Bytes /\ b \in Bytes /\ Len(WriteTo(a)) = n + 3 /\ Len(b) >= n + 3
        /\ b[1] = t /\ SubSeq(b, 2, n + 1) = a.host /\ SubSeq(b, n + 2, n + 3) = a.port
    <3>1. /\ WriteTo(a) \in Bytes /\ b \in Bytes
          /\ Len(WriteTo(a)) = 1 + n + 2 /\ Len(b) >= 1 + n + 2
          /\ \A i \in 1..1 : b[i] = h[i]
          /\ SubSeq(b, 1 + 1, 1 + n) = a.host /\ SubSeq(b, 1 + n + 1, 1 + n + 2) = a.port
      <4>1. /\ WriteTo(a) \in Bytes /\ b \in Bytes
            /\ Len(WriteTo(a)) = Len(h) + Len(a.host) + Len(a.port)
            /\ Len(b) = Len(h) + Len(a.host) + Len(a.port) + Len(rest)
            /\ \A i \in 1..Len(h) : b[i] = h[i]
            /\ SubSeq(b, Len(h) + 1, Len(h) + Len(a.host)) = a.host
            /\ SubSeq(b, Len(h) + Len(a.host) + 1, Len(h) + Len(a.host) + Len(a.port)) = a.port
        <5>1. InFields(b, WriteTo(a), h, a.host, a.port, rest)
          BY <2>2, <2>5, <2>6, InPlace, Zenon
        <5> QED BY <5>1, Zenon DEF InFields
      <4>2. Len(rest) \in Nat /\ n \in Nat
        BY BytesTyped
      <4>3. 1 + n + 2 + Len(rest) >= 1 + n + 2
        BY <4>2
      <4> QED BY <2>2, <2>3, <2>4, <4>1, <4>3, Zenon
    <3>2. 1 + n + 2 = n + 3 /\ 1 + 1 = 2 /\ 1 + n = n + 1 /\ 1 + n + 1 = n + 2 /\ 1 \in 1..1
      OBVIOUS
    <3> QED BY <2>4, <3>1, <3>2, Zenon
  <2>8. b # <<>> /\ Len(b) \in Nat
    <3>1. Len(b) \in Nat /\ (b = <<>> <=> Len(b) = 0)
      BY <2>7, BytesTyped, Zenon
    <3>2. n + 3 > 0 /\ Len(b) >= n + 3
      BY <2>7
    <3> QED BY <3>1, <3>2
  <2>9. CASE t = 1
    <3>1. ParseAddress(b) = ParseIp(b, 4, V4)
      BY <2>7, <2>8, <2>9 DEF ParseAddress
    <3>2. n = 4 /\ a.kind = "v4"
      BY <2>1, <2>3, <2>9
    <3>3. ~(Len(b) < 1 + 4 + 2)
      BY <2>7, <2>8, <3>2
    <3>4. ParseIp(b, 4, V4) = Parsed(Len(WriteTo(a)), V4(a.host, a.port))
      BY <2>7, <3>2, <3>3, Zenon DEF ParseIp
    <3>5. V4(a.host, a.port) = a
      BY <2>2, <3>2 DEF V4
    <3>6. Len(WriteTo(a)) \in Nat
      BY <2>7, BytesTyped, Zenon
    <3> QED BY <2>6, <2>7, <3>1, <3>4, <3>5, <3>6, Zenon
  <2>10. CASE t = 4
    <3>1. ParseAddress(b) = ParseIp(b, 16, V6)
      BY <2>7, <2>8, <2>10 DEF ParseAddress
    <3>2. n = 16 /\ a.kind = "v6"
      BY <2>1, <2>3, <2>10
    <3>3. ~(Len(b) < 1 + 16 + 2)
      BY <2>7, <2>8, <3>2
    <3>4. ParseIp(b, 16, V6) = Parsed(Len(WriteTo(a)), V6(a.host, a.port))
      BY <2>7, <3>2, <3>3, Zenon DEF ParseIp
    <3>5. V6(a.host, a.port) = a
      BY <2>2, <3>2 DEF V6
    <3>6. Len(WriteTo(a)) \in Nat
      BY <2>7, BytesTyped, Zenon
    <3> QED BY <2>6, <2>7, <3>1, <3>4, <3>5, <3>6, Zenon
  <2> QED BY <2>9, <2>10
<1>2. CASE a.kind = "name"
  <2>1. /\ a.host \in Bytes /\ a.port \in Bytes /\ Len(a.port) = 2
        /\ a = [kind |-> "name", host |-> a.host, port |-> a.port]
        /\ IsUtf8(a.host) /\ a.host \notin DOMAIN Literals
    BY <1>2 DEF IsAddress, IsSocketAddr
  <2>2. PICK n \in Nat : n = Len(a.host)
    BY <2>1, BytesTyped, Zenon
  <2>2a. n <= 255
    BY <1>2, <2>2, Zenon DEF Writable
  <2>3. PICK h \in Bytes : h = <<3>> \o <<n>> /\ Len(h) = 2 /\ h[1] = 3 /\ h[2] = n
    <3>1. 3 \in Byte /\ n \in Byte
      BY <2>2a DEF Byte
    <3>2. <<3, n>> \in Bytes /\ Len(<<3, n>>) = 2 /\ <<3, n>>[1] = 3 /\ <<3, n>>[2] = n
          /\ <<3>> \o <<n>> = <<3, n>>
      BY <3>1, TwoBytes, Zenon
    <3> QED BY <3>2, Zenon
  <2>4. WriteTo(a) = h \o a.host \o a.port
    <3>2. n % 256 = n
      BY <2>2a
    <3>3. TypeByte(a) = 3
      BY <1>2 DEF TypeByte
    <3> QED BY <1>2, <2>2, <2>3, <3>2, <3>3 DEF WriteTo
  <2>5. PICK b : b = WriteTo(a) \o rest
    OBVIOUS
  <2>6. /\ WriteTo(a) \in Bytes /\ b \in Bytes /\ Len(WriteTo(a)) = n + 4 /\ Len(b) >= n + 4
        /\ b[1] = 3 /\ b[2] = n
        /\ SubSeq(b, 3, n + 2) = a.host /\ SubSeq(b, n + 3, n + 4) = a.port
    <3>1. /\ WriteTo(a) \in Bytes /\ b \in Bytes
          /\ Len(WriteTo(a)) = 2 + n + 2 /\ Len(b) >= 2 + n + 2
          /\ \A i \in 1..2 : b[i] = h[i]
          /\ SubSeq(b, 2 + 1, 2 + n) = a.host /\ SubSeq(b, 2 + n + 1, 2 + n + 2) = a.port
      <4>1. /\ WriteTo(a) \in Bytes /\ b \in Bytes
            /\ Len(WriteTo(a)) = Len(h) + Len(a.host) + Len(a.port)
            /\ Len(b) = Len(h) + Len(a.host) + Len(a.port) + Len(rest)
            /\ \A i \in 1..Len(h) : b[i] = h[i]
            /\ SubSeq(b, Len(h) + 1, Len(h) + Len(a.host)) = a.host
            /\ SubSeq(b, Len(h) + Len(a.host) + 1, Len(h) + Len(a.host) + Len(a.port)) = a.port
        <5>1. InFields(b, WriteTo(a), h, a.host, a.port, rest)
          BY <2>1, <2>4, <2>5, InPlace, Zenon
        <5> QED BY <5>1, Zenon DEF InFields
      <4>2. Len(rest) \in Nat
        BY BytesTyped
      <4>3. 2 + n + 2 + Len(rest) >= 2 + n + 2
        BY <4>2
      <4> QED BY <2>1, <2>2, <2>3, <4>1, <4>3, Zenon
    <3>2. 2 + n + 2 = n + 4 /\ 2 + 1 = 3 /\ 2 + n = n + 2 /\ 2 + n + 1 = n + 3
          /\ 1 \in 1..2 /\ 2 \in 1..2
      OBVIOUS
    <3> QED BY <2>3, <3>1, <3>2, Zenon
  <2>7. b # <<>> /\ Len(b) \in Nat
    <3>1. Len(b) \in Nat /\ (b = <<>> <=> Len(b) = 0)
      BY <2>6, BytesTyped, Zenon
    <3>2. n + 4 > 0 /\ Len(b) >= n + 4
      BY <2>6
    <3> QED BY <3>1, <3>2
  <2>8. ParseAddress(b) = ParseName(b, LossyName)
    BY <2>6, <2>7 DEF ParseAddress
  <2>9. ParseName(b, LossyName) = Parsed(n + 4, LossyName(a.host, a.port))
    <3>1. ~(Len(b) < 2) /\ ~(Len(b) < n + 4)
      BY <2>6, <2>7
    <3> QED BY <2>6, <3>1, Zenon DEF ParseName
  <2>10. LossyName(a.host, a.port) = a
    BY <2>1 DEF LossyName, Lossy, IsUtf8, FromHost, Name
  <2>11. n + 4 \in Nat
    OBVIOUS
  <2> QED BY <2>5, <2>6, <2>8, <2>9, <2>10, <2>11, Zenon
<1> QED BY <1>1, <1>2 DEF IsAddress, IsSocketAddr

\* What parse takes for an address is one, and is within the bytes.
LEMMA AddressTyped ==
    ASSUME NEW b \in Bytes, ParseAddress(b).st = "ok"
    PROVE  /\ IsAddress(ParseAddress(b).value)
           /\ ParseAddress(b).used \in 0..Len(b)
<1> DEFINE r == ParseAddress(b)
<1>1. b # <<>> /\ Len(b) \in Nat
  BY BytesTyped DEF ParseAddress, Incomplete
<1>2. ASSUME NEW n \in {4, 16}, Len(b) >= n + 3
      PROVE  /\ SubSeq(b, 2, n + 1) \in Bytes /\ Len(SubSeq(b, 2, n + 1)) = n
             /\ SubSeq(b, n + 2, n + 3) \in Bytes /\ Len(SubSeq(b, n + 2, n + 3)) = 2
  <2>1. /\ 2 \in Nat \ {0} /\ n + 2 \in Nat \ {0} /\ n + 1 \in 0..Len(b) /\ n + 3 \in 0..Len(b)
        /\ 2 <= n + 1 /\ n + 2 <= n + 3 /\ (n + 1) - 2 + 1 = n /\ (n + 3) - (n + 2) + 1 = 2
    BY <1>1, <1>2
  <2> QED BY <2>1, BytesTyped
<1>3. CASE b[1] = 1
  <2>1. r = ParseIp(b, 4, V4)
    BY <1>1, <1>3 DEF ParseAddress
  <2>2. Len(b) >= 7 /\ r = Parsed(7, V4(SubSeq(b, 2, 5), SubSeq(b, 6, 7)))
    BY <1>1, <2>1 DEF ParseIp, Incomplete
  <2> QED BY <1>2, <2>2 DEF Parsed, V4, IsAddress, IsSocketAddr
<1>4. CASE b[1] = 4
  <2>1. r = ParseIp(b, 16, V6)
    BY <1>1, <1>4 DEF ParseAddress
  <2>2. Len(b) >= 19 /\ r = Parsed(19, V6(SubSeq(b, 2, 17), SubSeq(b, 18, 19)))
    BY <1>1, <2>1 DEF ParseIp, Incomplete
  <2>3. PICK ip \in Bytes, port \in Bytes : ip = SubSeq(b, 2, 17) /\ port = SubSeq(b, 18, 19)
          /\ Len(ip) = 16 /\ Len(port) = 2
    <3>1. 16 \in {4, 16} /\ Len(b) >= 16 + 3 /\ 16 + 1 = 17 /\ 16 + 2 = 18 /\ 16 + 3 = 19
      BY <2>2
    <3> QED BY <1>2, <3>1, Zenon
  <2>4. IsAddress(V6(ip, port))
    BY <2>3 DEF V6, IsAddress, IsSocketAddr
  <2> QED BY <1>1, <2>2, <2>3, <2>4 DEF Parsed
<1>5. CASE b[1] = 3
  <2>1. r = ParseName(b, LossyName)
    BY <1>1, <1>5 DEF ParseAddress
  <2>2. Len(b) >= 2
    BY <1>1, <2>1 DEF ParseName, Incomplete
  <2>3. PICK n \in Nat : n = b[2] /\ n <= 255
    <3>1. 2 \in 1..Len(b)
      BY <1>1, <2>2
    <3>2. b[2] \in Byte
      BY <3>1, BytesTyped, Zenon
    <3> QED BY <3>2 DEF Byte
  <2>4. Len(b) >= n + 4
        /\ r = Parsed(n + 4, LossyName(SubSeq(b, 3, n + 2), SubSeq(b, n + 3, n + 4)))
    BY <1>1, <2>1, <2>2, <2>3 DEF ParseName, Incomplete
  <2>5. PICK text \in Bytes, port \in Bytes :
          text = SubSeq(b, 3, n + 2) /\ port = SubSeq(b, n + 3, n + 4)
          /\ Len(text) = n /\ Len(port) = 2
    <3>1. /\ 3 \in Nat \ {0} /\ n + 3 \in Nat \ {0} /\ n + 2 \in 0..Len(b) /\ n + 4 \in 0..Len(b)
          /\ (IF 3 <= n + 2 THEN (n + 2) - 3 + 1 ELSE 0) = n
          /\ n + 3 <= n + 4 /\ (n + 4) - (n + 3) + 1 = 2
      BY <1>1, <2>4
    <3>2. /\ SubSeq(b, 3, n + 2) \in Bytes
          /\ Len(SubSeq(b, 3, n + 2)) = IF 3 <= n + 2 THEN (n + 2) - 3 + 1 ELSE 0
          /\ SubSeq(b, n + 3, n + 4) \in Bytes
          /\ Len(SubSeq(b, n + 3, n + 4)) = IF n + 3 <= n + 4 THEN (n + 4) - (n + 3) + 1 ELSE 0
      BY <3>1, BytesTyped, Zenon
    <3> QED BY <3>1, <3>2, Zenon
  <2>6. PICK host \in Bytes : host = Lossy(text) /\ IsUtf8(host) /\ Len(host) <= 765
    <3>1. CASE text \in DOMAIN Repaired
      <4>1. Repaired[text] \in Bytes /\ Repaired[text] \notin DOMAIN Repaired
            /\ Len(Repaired[text]) <= 3 * n
        BY <2>5, <3>1, AddressAssumption
      <4>2. Len(Repaired[text]) \in Nat
        BY <4>1, BytesTyped
      <4>3. Len(Repaired[text]) <= 765
        BY <2>3, <4>1, <4>2
      <4> QED BY <3>1, <4>1, <4>3, Zenon DEF Lossy, IsUtf8
    <3>2. CASE text \notin DOMAIN Repaired
      <4>1. Len(text) <= 765
        <5>1. n <= 765
          BY <2>3
        <5> QED BY <2>5, <5>1, Zenon
      <4> QED BY <2>5, <3>2, <4>1, Zenon DEF Lossy, IsUtf8
    <3> QED BY <3>1, <3>2
  <2>7. LossyName(text, port) = FromHost(host, port)
    BY <2>6 DEF LossyName
  <2>8. IsAddress(FromHost(host, port))
    <3>1. CASE host \in DOMAIN Literals
      <4>1. PICK l : l = Literals[host] /\ IsSocketAddr(l)
        BY <3>1, AddressAssumption
      <4>2. IsSocketAddr([l EXCEPT !.port = port])
        BY <2>5, <4>1 DEF IsSocketAddr
      <4> QED BY <3>1, <4>1, <4>2 DEF FromHost, IsAddress
    <3>2. CASE host \notin DOMAIN Literals
      BY <2>5, <2>6, <3>2 DEF FromHost, IsAddress, Name, MaxDatagram
    <3> QED BY <3>1, <3>2
  <2>9. n + 4 \in 0..Len(b)
    BY <1>1, <2>4
  <2>10. r.used = n + 4 /\ r.value = FromHost(host, port)
    BY <2>4, <2>5, <2>7 DEF Parsed
  <2> HIDE DEF r
  <2> QED BY <2>8, <2>9, <2>10 DEF r
<1>6. CASE b[1] \notin {1, 3, 4}
  BY <1>1, <1>6 DEF ParseAddress, Invalid
<1> QED BY <1>3, <1>4, <1>5, <1>6

-----------------------------------------------------------------------------
(* Datagrams in packets, requests and frames.                               *)

Addrs == {a \in [kind : {"v4", "v6", "name"}, host : Bytes, port : Bytes] : IsAddress(a)}

Dgrams == [addr : Addrs, payload : Datagrams]

LEMMA AddrsAre == \A a : a \in Addrs <=> IsAddress(a)
BY DEF Addrs, IsAddress, IsSocketAddr

LEMMA DgramIs ==
    ASSUME NEW a \in Addrs, NEW p \in Datagrams
    PROVE  /\ Dgram(a, p) \in Dgrams
           /\ Dgram(a, p).addr = a /\ Dgram(a, p).payload = p
BY DEF Dgram, Dgrams

LEMMA DgramParts ==
    ASSUME NEW d \in Dgrams
    PROVE  d.addr \in Addrs /\ d.payload \in Datagrams /\ d = Dgram(d.addr, d.payload)
BY DEF Dgrams, Dgram

LEMMA DatagramBytes ==
    ASSUME NEW p \in Datagrams
    PROVE  p \in Bytes /\ Len(p) \in Nat /\ Len(p) <= MaxDatagram
<1>1. p \in Bytes /\ Len(p) <= MaxDatagram
  BY DEF Datagrams
<1> QED BY <1>1, BytesTyped, Zenon

\* What is behind an address is a datagram's payload.
LEMMA RestIsPayload ==
    ASSUME NEW b \in Datagrams, NEW i \in Nat \ {0}
    PROVE  From(b, i) \in Datagrams
<1>1. b \in Bytes /\ Len(b) \in Nat /\ Len(b) <= MaxDatagram
  BY DatagramBytes, Zenon
<1>2. PICK l \in Nat : l = Len(b)
  BY <1>1, Zenon
<1>3. l \in 0..l /\ l <= MaxDatagram /\ (IF i <= l THEN l - i + 1 ELSE 0) <= MaxDatagram
  <2>1. l <= MaxDatagram
    BY <1>1, <1>2, Zenon
  <2>2. ASSUME NEW k \in Nat, k <= MaxDatagram
        PROVE  k \in 0..k /\ (IF i <= k THEN k - i + 1 ELSE 0) <= MaxDatagram
    BY <2>2 DEF MaxDatagram
  <2> QED BY <2>1, <2>2, Zenon
<1>4. SubSeq(b, i, l) \in Bytes /\ Len(SubSeq(b, i, l)) = IF i <= l THEN l - i + 1 ELSE 0
  <2>1. l \in 0..Len(b)
    BY <1>2, <1>3, Zenon
  <2> QED BY <1>1, <2>1, BytesTyped, Zenon
<1>5. Len(SubSeq(b, i, l)) <= MaxDatagram
  BY <1>3, <1>4, Zenon
<1> QED BY <1>2, <1>4, <1>5, Zenon DEF From, Datagrams

\* What new_checked accepts is a datagram.
LEMMA PacketTyped ==
    ASSUME NEW b \in Datagrams, CheckPacket(b).st = "ok"
    PROVE  /\ CheckPacket(b).value.addr \in Addrs
           /\ CheckPacket(b).value.payload \in Datagrams
<1>1. PICK c : c = From(b, 4)
  OBVIOUS
<1>2. c \in Bytes
  <2>1. 4 \in Nat \ {0}
    OBVIOUS
  <2> QED BY <1>1, <2>1, RestIsPayload, DatagramBytes, Zenon
<1>3. PICK r : r = ParseAddress(c)
  OBVIOUS
<1>4. r.st = "ok"
      /\ CheckPacket(b) = Parsed(Len(b), [addr |-> r.value, payload |-> From(b, 4 + r.used)])
  BY <1>1, <1>3 DEF CheckPacket, Invalid
<1>5. IsAddress(r.value) /\ r.used \in 0..Len(c)
  BY <1>2, <1>3, <1>4, AddressTyped, Zenon
<1>6. 4 + r.used \in Nat \ {0}
  <2>1. Len(c) \in Nat
    BY <1>2, BytesTyped, Zenon
  <2> QED BY <1>5, <2>1
<1>7. From(b, 4 + r.used) \in Datagrams
  BY <1>6, RestIsPayload, Zenon
<1>8. r.value \in Addrs
  BY <1>5, AddrsAre, Zenon
<1> QED BY <1>4, <1>7, <1>8 DEF Parsed

\* serve_client gets the address and the payload that the client asks for.
LEMMA RequestReceived ==
    ASSUME NEW a \in Addrs, Writable(a), NEW p \in Datagrams
    PROVE  /\ ParseRequest(ToVec(RequestUdp, a, p)).value.dst = a
           /\ ParseRequest(ToVec(RequestUdp, a, p)).value.data = p
<1>1. IsAddress(a) /\ p \in Bytes
  BY AddrsAre, DatagramBytes, Zenon
<1>2. PICK w : w = WriteTo(a)
  OBVIOUS
<1>3. w \in Bytes /\ Len(w) \in Nat /\ ParseAddress(w \o p) = Parsed(Len(w), a)
  BY <1>1, <1>2, AddressRead, Zenon
<1>4. PICK h \in Bytes : h = <<1>> /\ Len(h) = 1 /\ h[1] = 1
  <2>1. 1 \in Byte
    BY DEF Byte
  <2> QED BY <2>1, FewBytes, Zenon
<1>5. PICK b : b = ToVec(RequestUdp, a, p)
  OBVIOUS
<1>6. b = (h \o w) \o p
  BY <1>2, <1>4, <1>5, Zenon DEF ToVec, RequestUdp
<1>7. PICK c : c = w \o p /\ c \in Bytes /\ b = h \o c
  <2>1. w \o p \in Bytes
    BY <1>1, <1>3, CatBytes, Zenon
  <2>2. b = h \o (w \o p)
    BY <1>1, <1>3, <1>6, CatAssoc, Zenon
  <2> QED BY <2>1, <2>2, Zenon
<1>8. b \in Bytes /\ Len(b) = 1 + Len(c) /\ Len(c) \in Nat
  BY <1>4, <1>7, CatBytes, BytesTyped, Zenon
<1>9. b # <<>>
  <2>1. Len(b) # 0
    BY <1>8
  <2> QED BY <1>8, <2>1, BytesTyped, Zenon
<1>10. b[1] = 1
  <2>1. 1 \in 1..Len(h)
    BY <1>4
  <2> QED BY <1>4, <1>7, <2>1, CatLeft, Zenon
<1>11. From(b, 2) = c
  <2>1. Len(h) + 1 = 2
    BY <1>4
  <2> QED BY <1>7, <2>1, CatRight, ZenonT(90)
<1>12. From(b, Len(w) + 2) = p
  <2>1. h \o w \in Bytes /\ Len(h \o w) = Len(h) + Len(w)
    BY <1>3, CatBytes, Zenon
  <2>2. Len(h) + Len(w) + 1 = Len(w) + 2
    BY <1>3, <1>4
  <2>3. From((h \o w) \o p, Len(h \o w) + 1) = p
    BY <1>1, <2>1, CatRight, Zenon
  <2> QED BY <1>6, <2>1, <2>2, <2>3, Zenon
<1>13. ParseAddress(From(b, 2)) = Parsed(Len(w), a)
  BY <1>3, <1>7, <1>11, Zenon
<1>14. ParseRequest(b) = Parsed(Len(b), [type |-> b[1], dst |-> a, data |-> p])
  BY <1>9, <1>10, <1>12, <1>13 DEF ParseRequest, Parsed, RequestUdp
<1> QED BY <1>5, <1>14 DEF Parsed

\* The head of a frame, without and with the length of a name.
LEMMA HeadRead ==
    ASSUME NEW t \in Byte, NEW n \in Nat, n <= MaxDatagram
    PROVE  /\ <<t>> \o U16(n) \in Bytes /\ Len(<<t>> \o U16(n)) = 3
           /\ (<<t>> \o U16(n))[1] = t /\ FromU16(<<t>> \o U16(n), 2) = n
<1>1. PICK x \in Bytes : x = <<t>> /\ Len(x) = 1 /\ x[1] = t
  BY FewBytes, Zenon
<1>2. PICK y \in Bytes : y = U16(n) /\ Len(y) = 2 /\ y[1] * 256 + y[2] = n
  BY U16Read, Zenon
<1>3. x \o y \in Bytes /\ Len(x \o y) = Len(x) + Len(y)
  BY CatBytes, Zenon
<1>4. (x \o y)[1] = x[1] /\ (x \o y)[2] = y[1] /\ (x \o y)[3] = y[2]
  <2>1. 1 \in 1..1 /\ 1 \in 1..2 /\ 2 \in 1..2 /\ 1 + 1 = 2 /\ 1 + 2 = 3
    OBVIOUS
  <2>2. \A i \in 1..1 : (x \o y)[i] = x[i]
    BY <1>1, CatLeft, Zenon
  <2>3. \A i \in 1..2 : (x \o y)[1 + i] = y[i]
    BY <1>1, <1>2, CatIndex, ZenonT(90)
  <2> QED BY <2>1, <2>2, <2>3, Zenon
<1>5. Len(x) + Len(y) = 3
  BY <1>1, <1>2
<1>6. FromU16(x \o y, 2) = n
  <2>1. 2 + 1 = 3
    OBVIOUS
  <2> QED BY <1>2, <1>4, <2>1, Zenon DEF FromU16
<1> QED BY <1>1, <1>2, <1>3, <1>4, <1>5, <1>6, Zenon

LEMMA NameHeadRead ==
    ASSUME NEW x \in Bytes, Len(x) = 3, NEW m \in Nat, m <= MaxDatagram
    PROVE  /\ x \o U16(m) \in Bytes /\ Len(x \o U16(m)) = 5
           /\ (x \o U16(m))[1] = x[1] /\ FromU16(x \o U16(m), 2) = FromU16(x, 2)
           /\ FromU16(x \o U16(m), 4) = m
<1>2. PICK y \in Bytes : y = U16(m) /\ Len(y) = 2 /\ y[1] * 256 + y[2] = m
  BY U16Read, Zenon
<1>3. x \o y \in Bytes /\ Len(x \o y) = Len(x) + Len(y)
  BY CatBytes, Zenon
<1>4. \A i \in 1..3 : (x \o y)[i] = x[i]
  BY CatLeft, Zenon
<1>5. (x \o y)[4] = y[1] /\ (x \o y)[5] = y[2]
  <2>1. 1 \in 1..2 /\ 2 \in 1..2 /\ 3 + 1 = 4 /\ 3 + 2 = 5
    OBVIOUS
  <2>2. \A i \in 1..2 : (x \o y)[3 + i] = y[i]
    <3>1. \A i \in 1..Len(y) : (x \o y)[Len(x) + i] = y[i]
      BY CatIndex, Zenon
    <3> QED BY <1>2, <3>1, Zenon
  <2> QED BY <2>1, <2>2, Zenon
<1>6. Len(x) + Len(y) = 5
  BY <1>2
<1>7. FromU16(x \o y, 4) = m
  <2>1. 4 + 1 = 5
    OBVIOUS
  <2> QED BY <1>2, <1>5, <2>1, Zenon DEF FromU16
<1>8. (x \o y)[1] = x[1] /\ (x \o y)[2] = x[2] /\ (x \o y)[3] = x[3]
  <2>1. 1 \in 1..3 /\ 2 \in 1..3 /\ 3 \in 1..3
    OBVIOUS
  <2> QED BY <1>4, <2>1, Zenon
<1>9. FromU16(x \o y, 2) = FromU16(x, 2)
  <2>1. 2 + 1 = 3
    OBVIOUS
  <2> QED BY <1>8, <2>1, Zenon DEF FromU16
<1> QED BY <1>2, <1>3, <1>6, <1>7, <1>8, <1>9, Zenon

\* A head, two fields, a payload and the rest.
InFrame(b, f, h, x, y, p, z) ==
    /\ f \in Bytes /\ Len(f) = Len(h) + Len(x) + Len(y) + Len(p)
    /\ Len(b) = Len(h) + Len(x) + Len(y) + (Len(p) + Len(z))
    /\ \A i \in 1..Len(h) : b[i] = h[i]
    /\ SubSeq(b, Len(h) + 1, Len(h) + Len(x)) = x
    /\ SubSeq(b, Len(h) + Len(x) + 1, Len(h) + Len(x) + Len(y)) = y
    /\ SubSeq(b, Len(h) + Len(x) + Len(y) + 1, Len(h) + Len(x) + Len(y) + Len(p)) = p

LEMMA FrameInPlace ==
    ASSUME NEW h \in Bytes, NEW x \in Bytes, NEW y \in Bytes, NEW p \in Bytes, NEW z \in Bytes
    PROVE  InFrame(((h \o x \o y) \o p) \o z, (h \o x \o y) \o p, h, x, y, p, z)
<1>0. PICK w : w = h \o x \o y
  OBVIOUS
<1>1. p \o z \in Bytes /\ Len(p \o z) = Len(p) + Len(z)
  BY CatBytes, Zenon
<1>2. InFields(w \o (p \o z), w, h, x, y, p \o z)
  BY <1>0, <1>1, InPlace, Zenon
<1>3. w \in Bytes /\ Len(w) = Len(h) + Len(x) + Len(y)
  BY <1>2, Zenon DEF InFields
<1>4. PICK b : b = (w \o p) \o z /\ b = w \o (p \o z)
  BY <1>3, CatAssoc, ZenonT(90)
<1>5. w \o p \in Bytes /\ Len(w \o p) = Len(w) + Len(p)
  BY <1>3, CatBytes, Zenon
<1>6. SubSeq(b, Len(w) + 1, Len(w) + Len(p)) = p
  <2>1. SubSeq((w \o p) \o z, Len(w) + 1, Len(w) + Len(p)) = p
    BY <1>3, CatMiddle, Zenon
  <2> QED BY <1>4, <2>1, Zenon
<1>7. InFields(b, w, h, x, y, p \o z)
  BY <1>2, <1>4, Zenon
<1>8. /\ Len(b) = Len(h) + Len(x) + Len(y) + (Len(p) + Len(z))
      /\ \A i \in 1..Len(h) : b[i] = h[i]
      /\ SubSeq(b, Len(h) + 1, Len(h) + Len(x)) = x
      /\ SubSeq(b, Len(h) + Len(x) + 1, Len(h) + Len(x) + Len(y)) = y
  BY <1>1, <1>7, Zenon DEF InFields
<1>9. InFrame(b, w \o p, h, x, y, p, z)
  BY <1>3, <1>5, <1>6, <1>8, Zenon DEF InFrame
<1> QED BY <1>0, <1>4, <1>9, Zenon

\* A frame and its reader: what the writer leaves out, the reader has.
FrameFor(wl, last, d) == wl = <<d.addr>> => last = wl

FrameOf(wl, d) == WriteFrame(wl, d.addr, d.payload)

\* read undoes write, whatever follows.
LEMMA FrameRead ==
    ASSUME NEW d \in Dgrams, NEW wl, NEW last, FrameFor(wl, last, d), NEW rest \in Bytes
    PROVE  /\ FrameOf(wl, d) \in Bytes
           /\ Len(FrameOf(wl, d)) \in Nat /\ Len(FrameOf(wl, d)) >= 3
           /\ ReadFrame(last, FrameOf(wl, d) \o rest) = Parsed(Len(FrameOf(wl, d)), d)
<1>1. PICK a : a = d.addr
  OBVIOUS
<1>2. PICK p : p = d.payload
  OBVIOUS
<1>3. /\ IsAddress(a) /\ p \in Bytes /\ Len(p) \in Nat /\ Len(p) <= MaxDatagram
      /\ d = [addr |-> a, payload |-> p]
  BY <1>1, <1>2, DgramParts, DatagramBytes, AddrsAre, Zenon DEF Dgram
<1>4. PICK n \in Nat : n = Len(p)
  BY <1>3, Zenon
<1>5. n <= MaxDatagram
  BY <1>3, <1>4, Zenon
<1>6. PICK rl \in Nat : rl = Len(rest)
  BY BytesTyped, Zenon
<1>7. PICK f : f = FrameOf(wl, d)
  OBVIOUS
<1>8. PICK b : b = f \o rest
  OBVIOUS
<1> DEFINE Found(h, x, y, k, m, j) ==
           /\ f \in Bytes /\ Len(f) = k + m + j + n /\ Len(f) \in Nat /\ Len(f) >= 3
           /\ Len(b) = k + m + j + (n + rl)
           /\ \A i \in 1..k : b[i] = h[i]
           /\ SubSeq(b, k + 1, k + m) = x
           /\ SubSeq(b, k + m + 1, k + m + j) = y
           /\ SubSeq(b, k + m + j + 1, k + m + j + n) = p
<1>9. ASSUME NEW h \in Bytes, NEW x \in Bytes, NEW y \in Bytes, f = (h \o x \o y) \o p,
             NEW k \in Nat, NEW m \in Nat, NEW j \in Nat, k = Len(h), m = Len(x), j = Len(y), k >= 3
      PROVE  Found(h, x, y, k, m, j)
  <2>1. InFrame(b, f, h, x, y, p, rest)
    BY <1>3, <1>8, <1>9, FrameInPlace, Zenon
  <2>2. k + m + j + n \in Nat /\ k + m + j + n >= 3
    BY ONLY k \in Nat, m \in Nat, j \in Nat, n \in Nat, k >= 3
  <2>3. InFrame(b, f, h, x, y, p, rest)
          <=> /\ f \in Bytes /\ Len(f) = k + m + j + n
              /\ Len(b) = k + m + j + (n + rl)
              /\ \A i \in 1..k : b[i] = h[i]
              /\ SubSeq(b, k + 1, k + m) = x
              /\ SubSeq(b, k + m + 1, k + m + j) = y
              /\ SubSeq(b, k + m + j + 1, k + m + j + n) = p
    BY <1>4, <1>6, <1>9, Zenon DEF InFrame
  <2> QED BY <2>1, <2>2, <2>3, Zenon
<1> HIDE DEF Found
<1>10. CASE wl = <<a>>
  <2>1. PICK h \in Bytes : h = <<1>> \o U16(n) /\ Len(h) = 3 /\ h[1] = 1 /\ FromU16(h, 2) = n
    <3>1. 1 \in Byte
      BY DEF Byte
    <3> QED BY <1>5, <3>1, HeadRead, Zenon
  <2>2. f = h \o p
    BY <1>1, <1>2, <1>4, <1>7, <1>10, <2>1, Zenon DEF FrameOf, WriteFrame
  <2>3. PICK e \in Bytes : e = <<>> /\ Len(e) = 0
    BY FewBytes, BytesTyped, Zenon
  <2>4. f = (h \o e \o e) \o p
    BY <2>2, <2>3, CatEmpty, Zenon
  <2>5. /\ f \in Bytes /\ Len(f) = 3 + 0 + 0 + n /\ Len(f) \in Nat /\ Len(f) >= 3
        /\ Len(b) = 3 + 0 + 0 + (n + rl)
        /\ \A i \in 1..3 : b[i] = h[i]
        /\ SubSeq(b, 3 + 0 + 0 + 1, 3 + 0 + 0 + n) = p
    <3>1. 3 \in Nat /\ 0 \in Nat /\ 3 >= 3
      OBVIOUS
    <3>2. 3 = Len(h) /\ 0 = Len(e)
      BY <2>1, <2>3, Zenon
    <3>3. Found(h, e, e, 3, 0, 0)
      BY <1>9, <2>4, <3>1, <3>2, Zenon
    <3> QED BY <3>3, Zenon DEF Found
  <2>6. /\ 1 \in 1..3 /\ 2 \in 1..3 /\ 3 \in 1..3 /\ 2 + 1 = 3 /\ 3 + 0 + 0 + n = 3 + n
        /\ 3 + 0 + 0 + 1 = 4
        /\ ~(3 + 0 + 0 + (n + rl) < 3) /\ ~(3 + 0 + 0 + (n + rl) < 3 + n)
    OBVIOUS
  <2>7. b[1] = 1 /\ FromU16(b, 2) = n
    BY <2>1, <2>5, <2>6, ZenonT(90) DEF FromU16
  <2>8. ~(Len(b) < 3) /\ ~(Len(b) < 3 + FromU16(b, 2))
    BY <2>5, <2>6, <2>7, Zenon
  <2>9. last # <<>> /\ last[1] = a
    BY <1>1, <1>10, SMTT(60) DEF FrameFor
  <2>10. ReadFrame(last, b)
           = Parsed(3 + FromU16(b, 2), [addr |-> last[1], payload |-> SubSeq(b, 4, 3 + FromU16(b, 2))])
    BY <2>7, <2>8, <2>9 DEF ReadFrame
  <2>11. ReadFrame(last, b) = Parsed(Len(f), d)
    BY <1>3, <2>5, <2>6, <2>7, <2>9, <2>10, Zenon
  <2> QED BY <1>7, <1>8, <2>5, <2>11, Zenon
<1>11. CASE wl # <<a>> /\ (a.kind = "v4" \/ a.kind = "v6")
  <2>1. /\ a.host \in Bytes /\ a.port \in Bytes /\ Len(a.port) = 2
        /\ a = [kind |-> a.kind, host |-> a.host, port |-> a.port]
        /\ Len(a.host) = IF a.kind = "v4" THEN 4 ELSE 16
    BY <1>3, <1>11 DEF IsAddress, IsSocketAddr
  <2>2. PICK t \in {2, 3}, m \in {4, 16} :
          /\ t = PacketType(a) /\ m = Len(a.host)
          /\ (t = 2 /\ m = 4 /\ a.kind = "v4") \/ (t = 3 /\ m = 16 /\ a.kind = "v6")
    BY <1>11, <2>1 DEF PacketType
  <2>3. PICK h \in Bytes : h = <<t>> \o U16(n) /\ Len(h) = 3 /\ h[1] = t /\ FromU16(h, 2) = n
    <3>1. t \in Byte
      BY DEF Byte
    <3> QED BY <1>5, <3>1, HeadRead, Zenon
  <2>4. FrameAddr(a) = a.host \o a.port
    <3>1. <<>> \o a.host = a.host
      BY <2>1, CatEmpty, Zenon
    <3>2. a.kind # "name"
      BY <1>11
    <3> QED BY <3>1, <3>2, Zenon DEF FrameAddr
  <2>5. f = (h \o a.host \o a.port) \o p
    <3>1. f = (h \o FrameAddr(a)) \o p
      BY <1>1, <1>2, <1>4, <1>7, <1>11, <2>2, <2>3, Zenon DEF FrameOf, WriteFrame
    <3>2. h \o (a.host \o a.port) = h \o a.host \o a.port
      BY <2>1, CatAssoc, Zenon
    <3> QED BY <2>4, <3>1, <3>2, Zenon
  <2>6. /\ f \in Bytes /\ Len(f) = 3 + m + 2 + n /\ Len(f) \in Nat /\ Len(f) >= 3
        /\ Len(b) = 3 + m + 2 + (n + rl)
        /\ \A i \in 1..3 : b[i] = h[i]
        /\ SubSeq(b, 3 + 1, 3 + m) = a.host
        /\ SubSeq(b, 3 + m + 1, 3 + m + 2) = a.port
        /\ SubSeq(b, 3 + m + 2 + 1, 3 + m + 2 + n) = p
    <3>1. 3 \in Nat /\ m \in Nat /\ 2 \in Nat /\ 3 >= 3
      OBVIOUS
    <3>2. 3 = Len(h) /\ m = Len(a.host) /\ 2 = Len(a.port) /\ a.host \in Bytes /\ a.port \in Bytes
      BY <2>1, <2>2, <2>3, Zenon
    <3>3. Found(h, a.host, a.port, 3, m, 2)
      BY <1>9, <2>5, <3>1, <3>2, Zenon
    <3> QED BY <3>3, Zenon DEF Found
  <2>7. /\ 1 \in 1..3 /\ 2 \in 1..3 /\ 3 \in 1..3 /\ 2 + 1 = 3 /\ 3 + m + 2 + n = 4 + m + 1 + n
        /\ 3 + 1 = 4 /\ 3 + m = 4 + m - 1 /\ 3 + m + 1 = 4 + m /\ 3 + m + 2 = 4 + m + 1
        /\ 3 + m + 2 + 1 = 4 + m + 2
        /\ ~(3 + m + 2 + (n + rl) < 3) /\ ~(3 + m + 2 + (n + rl) < 4 + m + 1 + n)
    OBVIOUS
  <2>8. b[1] = t /\ FromU16(b, 2) = n
    BY <2>3, <2>6, <2>7, ZenonT(90) DEF FromU16
  <2>9. ~(Len(b) < 3) /\ ~(Len(b) < 4 + m + 1 + FromU16(b, 2))
    BY <2>6, <2>7, <2>8, Zenon
  <2>10. /\ SubSeq(b, 4, 4 + m - 1) = a.host /\ SubSeq(b, 4 + m, 4 + m + 1) = a.port
         /\ SubSeq(b, 4 + m + 2, 4 + m + 1 + FromU16(b, 2)) = p
         /\ Len(f) = 4 + m + 1 + FromU16(b, 2)
    BY <2>6, <2>7, <2>8, Zenon
  <2>11. ReadFrame(last, b) = Parsed(Len(f), d)
    <3>1. CASE t = 2 /\ m = 4 /\ a.kind = "v4"
      <4>1. ReadFrame(last, b)
              = Parsed(4 + 4 + 1 + FromU16(b, 2),
                       [addr |-> V4(SubSeq(b, 4, 4 + 4 - 1), SubSeq(b, 4 + 4, 4 + 4 + 1)),
                        payload |-> SubSeq(b, 4 + 4 + 2, 4 + 4 + 1 + FromU16(b, 2))])
        BY <2>8, <2>9, <3>1 DEF ReadFrame
      <4>2. V4(a.host, a.port) = a
        BY <2>1, <3>1 DEF V4
      <4> QED BY <1>3, <2>10, <3>1, <4>1, <4>2, Zenon
    <3>2. CASE t = 3 /\ m = 16 /\ a.kind = "v6"
      <4>1. ReadFrame(last, b)
              = Parsed(4 + 16 + 1 + FromU16(b, 2),
                       [addr |-> V6(SubSeq(b, 4, 4 + 16 - 1), SubSeq(b, 4 + 16, 4 + 16 + 1)),
                        payload |-> SubSeq(b, 4 + 16 + 2, 4 + 16 + 1 + FromU16(b, 2))])
        BY <2>8, <2>9, <3>2 DEF ReadFrame
      <4>2. V6(a.host, a.port) = a
        BY <2>1, <3>2 DEF V6
      <4> QED BY <1>3, <2>10, <3>2, <4>1, <4>2, Zenon
    <3> QED BY <2>2, <3>1, <3>2
  <2> QED BY <1>7, <1>8, <2>6, <2>11, Zenon
<1>12. CASE wl # <<a>> /\ a.kind = "name"
  <2>1. /\ a.host \in Bytes /\ a.port \in Bytes /\ Len(a.port) = 2
        /\ a = [kind |-> "name", host |-> a.host, port |-> a.port]
        /\ Len(a.host) <= MaxDatagram /\ IsUtf8(a.host)
    BY <1>3, <1>12 DEF IsAddress, IsSocketAddr
  <2>2. PICK m \in Nat : m = Len(a.host)
    BY <2>1, BytesTyped, Zenon
  <2>2a. m <= MaxDatagram
    BY <2>1, <2>2, Zenon
  <2>3. PICK g \in Bytes : g = <<4>> \o U16(n) /\ Len(g) = 3 /\ g[1] = 4 /\ FromU16(g, 2) = n
    <3>1. 4 \in Byte
      BY DEF Byte
    <3> QED BY <1>5, <3>1, HeadRead, Zenon
  <2>3a. U16(m) \in Bytes
    BY <2>2a, U16Read, Zenon
  <2>3b. PICK h \in Bytes : /\ h = g \o U16(m) /\ Len(h) = 5
                            /\ h[1] = 4 /\ FromU16(h, 2) = n /\ FromU16(h, 4) = m
    <3>1. /\ g \o U16(m) \in Bytes /\ Len(g \o U16(m)) = 5
          /\ (g \o U16(m))[1] = g[1] /\ FromU16(g \o U16(m), 2) = FromU16(g, 2)
          /\ FromU16(g \o U16(m), 4) = m
      BY <2>2a, <2>3, NameHeadRead, Zenon
    <3> QED BY <2>3, <3>1, Zenon
  <2>4. FrameAddr(a) = U16(m) \o a.host \o a.port
    BY <1>12, <2>2, Zenon DEF FrameAddr
  <2>5. f = (h \o a.host \o a.port) \o p
    <3>0. PacketType(a) = 4
      BY <1>12 DEF PacketType
    <3>1. f = (g \o FrameAddr(a)) \o p
      BY <1>1, <1>2, <1>4, <1>7, <1>12, <2>3, <3>0, Zenon DEF FrameOf, WriteFrame
    <3>2. U16(m) \o a.host \in Bytes
      BY <2>1, <2>3a, CatBytes, Zenon
    <3>3. g \o ((U16(m) \o a.host) \o a.port) = (g \o (U16(m) \o a.host)) \o a.port
      BY <2>1, <3>2, CatAssoc, ZenonT(90)
    <3>4. g \o (U16(m) \o a.host) = h \o a.host
      BY <2>1, <2>3a, <2>3b, CatAssoc, ZenonT(90)
    <3> QED BY <2>4, <3>1, <3>3, <3>4, Zenon
  <2>6. /\ f \in Bytes /\ Len(f) = 5 + m + 2 + n /\ Len(f) \in Nat /\ Len(f) >= 3
        /\ Len(b) = 5 + m + 2 + (n + rl)
        /\ \A i \in 1..5 : b[i] = h[i]
        /\ SubSeq(b, 5 + 1, 5 + m) = a.host
        /\ SubSeq(b, 5 + m + 1, 5 + m + 2) = a.port
        /\ SubSeq(b, 5 + m + 2 + 1, 5 + m + 2 + n) = p
    <3>1. 5 \in Nat /\ 2 \in Nat /\ 5 >= 3
      OBVIOUS
    <3>2. 5 = Len(h) /\ 2 = Len(a.port) /\ a.host \in Bytes /\ a.port \in Bytes
      BY <2>1, <2>3b, Zenon
    <3>3. Found(h, a.host, a.port, 5, m, 2)
      BY <1>9, <2>2, <2>5, <3>1, <3>2, Zenon
    <3> QED BY <3>3, Zenon DEF Found
  <2>7. /\ 1 \in 1..5 /\ 2 \in 1..5 /\ 3 \in 1..5 /\ 4 \in 1..5 /\ 5 \in 1..5
        /\ 2 + 1 = 3 /\ 4 + 1 = 5 /\ 5 + m + 2 + n = 6 + m + 1 + n
        /\ 5 + 1 = 6 /\ 5 + m = 6 + m - 1 /\ 5 + m + 1 = 6 + m /\ 5 + m + 2 = 6 + m + 1
        /\ 5 + m + 2 + 1 = 6 + m + 2
        /\ ~(5 + m + 2 + (n + rl) < 3) /\ ~(5 + m + 2 + (n + rl) < 5)
        /\ ~(5 + m + 2 + (n + rl) < 6 + m + 1 + n)
    OBVIOUS
  <2>8. b[1] = 4 /\ FromU16(b, 2) = n /\ FromU16(b, 4) = m
    <3>1. b[1] = h[1] /\ b[2] = h[2] /\ b[3] = h[3] /\ b[4] = h[4] /\ b[5] = h[5]
      BY <2>6, <2>7, Zenon
    <3>2. FromU16(b, 2) = FromU16(h, 2) /\ FromU16(b, 4) = FromU16(h, 4)
      BY <2>7, <3>1, ZenonT(90) DEF FromU16
    <3> QED BY <2>3b, <3>1, <3>2, Zenon
  <2>9. ~(Len(b) < 3) /\ ~(Len(b) < 5) /\ ~(Len(b) < 6 + m + 1 + n)
    BY <2>6, <2>7, Zenon
  <2>10. /\ SubSeq(b, 6, 6 + m - 1) = a.host /\ SubSeq(b, 6 + m, 6 + m + 1) = a.port
         /\ SubSeq(b, 6 + m + 2, 6 + m + 1 + n) = p
         /\ Len(f) = 6 + m + 1 + n
    BY <2>6, <2>7, Zenon
  <2>11. Name(a.host, a.port) = a
    BY <2>1 DEF Name
  <2>12. ReadFrame(last, b) = Parsed(Len(f), d)
    <3> DEFINE P == Parsed(6 + m + 1 + n, [addr |-> Name(a.host, a.port), payload |-> p])
    <3>1. ReadFrame(last, b)
            = IF P.st = "ok" THEN IF IsUtf8(P.value.addr.host) THEN P ELSE Invalid ELSE P
      <4>1. (IF Len(b) < 6 + FromU16(b, 4) + 1 + FromU16(b, 2) THEN Incomplete
             ELSE Parsed(6 + FromU16(b, 4) + 1 + FromU16(b, 2),
                         [addr |-> Name(SubSeq(b, 6, 6 + FromU16(b, 4) - 1),
                                        SubSeq(b, 6 + FromU16(b, 4), 6 + FromU16(b, 4) + 1)),
                          payload |-> SubSeq(b, 6 + FromU16(b, 4) + 2,
                                             6 + FromU16(b, 4) + 1 + FromU16(b, 2))])) = P
        BY <2>8, <2>9, <2>10, Zenon
      <4> HIDE DEF P
      <4>2. b[1] = 4 /\ b[1] # 1 /\ b[1] # 2 /\ b[1] # 3
        BY <2>8
      <4> QED BY <2>9, <4>1, <4>2 DEF ReadFrame
    <3>2. P.st = "ok" /\ P.value.addr.host = a.host
      BY DEF Parsed, Name
    <3>3. ReadFrame(last, b) = P
      BY <2>1, <3>1, <3>2, Zenon
    <3> QED BY <1>3, <2>10, <2>11, <3>3, Zenon
  <2> QED BY <1>7, <1>8, <2>6, <2>12, Zenon
<1> QED BY <1>3, <1>10, <1>11, <1>12 DEF IsAddress, IsSocketAddr

-----------------------------------------------------------------------------
(* The bytes on a connection.                                               *)

\* The reader's last address once it has read the first i of ds.
LastOf(rlast, ds, i) == IF i = 0 THEN rlast ELSE <<ds[i].addr>>

\* tails[i] is what is left of the frames of ds behind the first i.
Cut(rlast, ds, tails) ==
    /\ tails \in [0..Len(ds) -> Bytes] /\ tails[Len(ds)] = <<>>
    /\ \A i \in 1..Len(ds) : \E wl :
         /\ FrameFor(wl, LastOf(rlast, ds, i - 1), ds[i])
         /\ tails[i - 1] = FrameOf(wl, ds[i]) \o tails[i]

\* The bytes wire are frames, and a reader with the last address rlast gets ds.
InFrames(rlast, wire, ds) ==
    /\ ds \in Seq(Dgrams)
    /\ \E tails : Cut(rlast, ds, tails) /\ tails[0] = wire

\* The writer leaves out no address but the one the reader will have then.
WriterKnows(wlast, rlast, ds) == wlast = <<>> \/ wlast = LastOf(rlast, ds, Len(ds))

LEMMA FramesTyped ==
    ASSUME NEW rlast, NEW wire, NEW ds, InFrames(rlast, wire, ds)
    PROVE  wire \in Bytes /\ ds \in Seq(Dgrams) /\ Len(ds) \in Nat
<1>1. PICK tails : Cut(rlast, ds, tails) /\ tails[0] = wire
  BY Zenon DEF InFrames
<1>2. ds \in Seq(Dgrams)
  BY Zenon DEF InFrames
<1>3. Len(ds) \in Nat
  BY <1>2, LenProperties, Zenon
<1>4. 0 \in 0..Len(ds)
  BY <1>3
<1>5. tails \in [0..Len(ds) -> Bytes]
  BY <1>1, Zenon DEF Cut
<1> QED BY <1>1, <1>2, <1>3, <1>4, <1>5

LEMMA NoBytes ==
    ASSUME NEW last
    PROVE  ReadFrame(last, <<>>) = Incomplete
<1>1. Len(<<>>) < 3
  OBVIOUS
<1> QED BY <1>1, Zenon DEF ReadFrame

LEMMA EmptyWire ==
    ASSUME NEW rlast
    PROVE  InFrames(rlast, <<>>, <<>>)
<1> DEFINE tails == [i \in 0..0 |-> <<>>]
<1>1. <<>> \in Seq(Dgrams) /\ Len(<<>>) = 0
  BY EmptySeq, Zenon
<1>2. tails \in [0..0 -> Bytes] /\ tails[0] = <<>>
  BY FewBytes
<1>3. ~\E i : i \in 1..0
  OBVIOUS
<1> HIDE DEF tails
<1>4. Cut(rlast, <<>>, tails)
  BY <1>1, <1>2, <1>3, Zenon DEF Cut
<1> QED BY <1>1, <1>2, <1>4, Zenon DEF InFrames

LEMMA NoFrames ==
    ASSUME NEW rlast, NEW wire, InFrames(rlast, wire, <<>>)
    PROVE  wire = <<>>
<1>1. PICK tails : Cut(rlast, <<>>, tails) /\ tails[0] = wire
  BY Zenon DEF InFrames
<1>2. Len(<<>>) = 0
  BY EmptySeq, Zenon
<1> QED BY <1>1, <1>2, Zenon DEF Cut

\* A frame is written behind the others.
LEMMA FrameAppended ==
    ASSUME NEW rlast, NEW wire, NEW ds, InFrames(rlast, wire, ds),
           NEW wl, WriterKnows(wl, rlast, ds), NEW d \in Dgrams
    PROVE  /\ InFrames(rlast, wire \o FrameOf(wl, d), Append(ds, d))
           /\ WriterKnows(<<d.addr>>, rlast, Append(ds, d))
<1>1. PICK tails : Cut(rlast, ds, tails) /\ tails[0] = wire
  BY Zenon DEF InFrames
<1>2. wire \in Bytes /\ ds \in Seq(Dgrams)
  BY FramesTyped, Zenon
<1>3. PICK n \in Nat : n = Len(ds)
  BY FramesTyped, Zenon
<1>4. PICK es : es = Append(ds, d)
  OBVIOUS
<1>5. /\ es \in Seq(Dgrams) /\ Len(es) = n + 1 /\ es[n + 1] = d
      /\ \A i \in 1..n : es[i] = ds[i]
  BY <1>2, <1>3, <1>4, AppendProperties, ZenonT(90)
<1>6. PICK f : f = FrameOf(wl, d)
  OBVIOUS
<1>7. FrameFor(wl, LastOf(rlast, ds, n), d)
  <2>1. wl = <<>> => wl # <<d.addr>>
    OBVIOUS
  <2> QED BY <1>3, <2>1, Zenon DEF WriterKnows, FrameFor
<1>8. f \in Bytes
  BY <1>2, <1>6, <1>7, FrameRead, Zenon
<1> DEFINE ts == [i \in 0..(n + 1) |-> IF i = n + 1 THEN <<>> ELSE tails[i] \o f]
<1>9. \A i \in 0..n : tails[i] \in Bytes
  BY <1>1, <1>3 DEF Cut
<1>10. ts \in [0..(n + 1) -> Bytes] /\ ts[n + 1] = <<>> /\ \A i \in 0..n : ts[i] = tails[i] \o f
  <2>1. <<>> \in Bytes
    BY FewBytes, Zenon
  <2>2. \A i \in 0..n : tails[i] \o f \in Bytes
    BY <1>8, <1>9, CatBytes, Zenon
  <2>3. \A i \in 0..(n + 1) : i # n + 1 => i \in 0..n
    OBVIOUS
  <2>4. \A i \in 0..n : i \in 0..(n + 1) /\ i # n + 1
    OBVIOUS
  <2>5. n + 1 \in 0..(n + 1)
    OBVIOUS
  <2> QED BY <2>1, <2>2, <2>3, <2>4, <2>5
<1> HIDE DEF ts
<1>11. \A i \in 0..n : LastOf(rlast, es, i) = LastOf(rlast, ds, i)
  <2>1. \A i \in 0..n : i # 0 => i \in 1..n
    OBVIOUS
  <2> QED BY <1>5, <2>1, Zenon DEF LastOf
<1>12. ASSUME NEW i \in 1..(n + 1)
       PROVE  \E v : /\ FrameFor(v, LastOf(rlast, es, i - 1), es[i])
                     /\ ts[i - 1] = FrameOf(v, es[i]) \o ts[i]
  <2>1. i - 1 \in 0..n
    OBVIOUS
  <2>2. CASE i = n + 1
    <3>1. i - 1 = n /\ n \in 0..n
      BY <2>2
    <3>2. ts[i - 1] = <<>> \o f
      BY <1>1, <1>3, <1>10, <3>1, Zenon DEF Cut
    <3>3. <<>> \o f = f \o <<>>
      BY <1>8, CatEmpty, Zenon
    <3>4. ts[i - 1] = FrameOf(wl, es[i]) \o ts[i]
      BY <1>5, <1>6, <1>10, <2>2, <3>2, <3>3, Zenon
    <3> QED BY <1>5, <1>7, <1>11, <2>2, <3>1, <3>4, Zenon
  <2>3. CASE i # n + 1
    <3>1. i \in 1..n /\ i \in 0..n
      BY <2>3
    <3>2. PICK v : /\ FrameFor(v, LastOf(rlast, ds, i - 1), ds[i])
                   /\ tails[i - 1] = FrameOf(v, ds[i]) \o tails[i]
      BY <1>1, <1>3, <3>1, Zenon DEF Cut
    <3>3. ds[i] \in Dgrams
      BY <1>2, <1>3, <3>1, ElementOfSeq, Zenon
    <3>4. FrameOf(v, ds[i]) \in Bytes
      BY <1>2, <3>2, <3>3, FrameRead, Zenon
    <3>5. (FrameOf(v, ds[i]) \o tails[i]) \o f = FrameOf(v, ds[i]) \o (tails[i] \o f)
      BY <1>8, <1>9, <3>1, <3>4, CatAssoc, Zenon
    <3>6. ts[i - 1] = FrameOf(v, es[i]) \o ts[i]
      BY <1>5, <1>10, <2>1, <3>1, <3>2, <3>5, Zenon
    <3> QED BY <1>5, <1>11, <2>1, <3>1, <3>2, <3>6, Zenon
  <2> QED BY <2>2, <2>3
<1>13. Cut(rlast, es, ts)
  BY <1>5, <1>10, <1>12, Zenon DEF Cut
<1>14. ts[0] = wire \o f
  <2>1. 0 \in 0..n
    OBVIOUS
  <2> QED BY <1>1, <1>10, <2>1, Zenon
<1>15. InFrames(rlast, wire \o f, es)
  BY <1>5, <1>13, <1>14, Zenon DEF InFrames
<1>16. WriterKnows(<<d.addr>>, rlast, es)
  <2>1. n + 1 # 0
    OBVIOUS
  <2> QED BY <1>5, <2>1, Zenon DEF WriterKnows, LastOf
<1> QED BY <1>4, <1>6, <1>15, <1>16, Zenon

\* The first frame is read.
LEMMA FirstFrame ==
    ASSUME NEW rlast, NEW wire, NEW ds, InFrames(rlast, wire, ds), ds # <<>>,
           NEW wl, WriterKnows(wl, rlast, ds)
    PROVE  /\ ReadFrame(rlast, wire).st = "ok"
           /\ ReadFrame(rlast, wire).value = Head(ds)
           /\ InFrames(<<Head(ds).addr>>, From(wire, ReadFrame(rlast, wire).used + 1), Tail(ds))
           /\ WriterKnows(wl, <<Head(ds).addr>>, Tail(ds))
<1>1. PICK tails : Cut(rlast, ds, tails) /\ tails[0] = wire
  BY Zenon DEF InFrames
<1>2. wire \in Bytes /\ ds \in Seq(Dgrams)
  BY FramesTyped, Zenon
<1>3. PICK n \in Nat : n = Len(ds)
  BY FramesTyped, Zenon
<1>4. n # 0
  BY <1>2, <1>3, EmptySeq
<1>5. PICK d \in Dgrams : d = ds[1] /\ d = Head(ds)
  <2>1. 1 \in 1..n
    BY <1>4
  <2>2. ds[1] \in Dgrams
    BY <1>2, <1>3, <2>1, ElementOfSeq, Zenon
  <2>3. Head(ds) = ds[1]
    BY <1>2, <1>3, <1>4
  <2> QED BY <2>2, <2>3, Zenon
<1>6. PICK es : es = Tail(ds)
  OBVIOUS
<1>7. es \in Seq(Dgrams) /\ Len(es) = n - 1 /\ \A i \in 1..(n - 1) : es[i] = ds[i + 1]
  <2>1. /\ Tail(ds) \in Seq(Dgrams) /\ Len(Tail(ds)) = Len(ds) - 1
        /\ \A i \in 1..Len(Tail(ds)) : Tail(ds)[i] = ds[i + 1]
    BY <1>2, HeadTailProperties, Zenon
  <2> QED BY <1>3, <1>6, <2>1, Zenon
<1>8. n - 1 \in Nat
  BY <1>4
<1>9. \A i \in 0..n : tails[i] \in Bytes
  BY <1>1, <1>3 DEF Cut
<1>10. PICK v : FrameFor(v, rlast, d) /\ wire = FrameOf(v, d) \o tails[1]
  <2>1. 1 \in 1..n /\ 1 - 1 = 0
    BY <1>4
  <2>2. PICK v : /\ FrameFor(v, LastOf(rlast, ds, 0), ds[1])
                 /\ tails[0] = FrameOf(v, ds[1]) \o tails[1]
    BY <1>1, <1>3, <2>1, Zenon DEF Cut
  <2> QED BY <1>1, <1>5, <2>2, Zenon DEF LastOf
<1>11. tails[1] \in Bytes
  <2>1. 1 \in 0..n
    BY <1>4
  <2> QED BY <1>9, <2>1, Zenon
<1>12. FrameOf(v, d) \in Bytes /\ ReadFrame(rlast, wire) = Parsed(Len(FrameOf(v, d)), d)
  BY <1>10, <1>11, FrameRead, Zenon
<1>13. ReadFrame(rlast, wire).st = "ok" /\ ReadFrame(rlast, wire).value = d
       /\ ReadFrame(rlast, wire).used = Len(FrameOf(v, d))
  BY <1>12 DEF Parsed
<1>14. From(wire, ReadFrame(rlast, wire).used + 1) = tails[1]
  BY <1>10, <1>11, <1>12, <1>13, CatRight, Zenon
<1> DEFINE ts == [i \in 0..(n - 1) |-> tails[i + 1]]
<1>15. /\ ts \in [0..(n - 1) -> Bytes] /\ \A i \in 0..(n - 1) : ts[i] = tails[i + 1]
  <2>1. \A i \in 0..(n - 1) : i + 1 \in 0..n
    BY <1>8
  <2> QED BY <1>9, <2>1
<1>16. ts[n - 1] = <<>> /\ ts[0] = tails[1]
  <2>1. n - 1 \in 0..(n - 1) /\ 0 \in 0..(n - 1) /\ (n - 1) + 1 = n /\ 0 + 1 = 1
    BY <1>8
  <2>2. tails[n] = <<>>
    BY <1>1, <1>3, Zenon DEF Cut
  <2> QED BY <1>15, <2>1, <2>2, Zenon
<1> HIDE DEF ts
<1>17. \A i \in 0..(n - 1) : LastOf(<<d.addr>>, es, i) = LastOf(rlast, ds, i + 1)
  <2> SUFFICES ASSUME NEW i \in 0..(n - 1)
               PROVE  LastOf(<<d.addr>>, es, i) = LastOf(rlast, ds, i + 1)
    OBVIOUS
  <2>1. i + 1 # 0 /\ (i # 0 => i \in 1..(n - 1)) /\ (i = 0 => i + 1 = 1)
    OBVIOUS
  <2>2. CASE i = 0
    BY <1>5, <2>1, <2>2, Zenon DEF LastOf
  <2>3. CASE i # 0
    BY <1>7, <2>1, <2>3, Zenon DEF LastOf
  <2> QED BY <2>2, <2>3
<1>18. ASSUME NEW i \in 1..(n - 1)
       PROVE  \E u : /\ FrameFor(u, LastOf(<<d.addr>>, es, i - 1), es[i])
                     /\ ts[i - 1] = FrameOf(u, es[i]) \o ts[i]
  <2>1. /\ i + 1 \in 1..n /\ i - 1 \in 0..(n - 1) /\ i \in 0..(n - 1)
        /\ (i + 1) - 1 = i /\ (i - 1) + 1 = i
    BY <1>8
  <2>2. PICK u : /\ FrameFor(u, LastOf(rlast, ds, i), ds[i + 1])
                 /\ tails[i] = FrameOf(u, ds[i + 1]) \o tails[i + 1]
    <3>1. \E u : /\ FrameFor(u, LastOf(rlast, ds, (i + 1) - 1), ds[i + 1])
                 /\ tails[(i + 1) - 1] = FrameOf(u, ds[i + 1]) \o tails[i + 1]
      BY <1>1, <1>3, <2>1, Zenon DEF Cut
    <3> QED BY <2>1, <3>1, Zenon
  <2>3. LastOf(<<d.addr>>, es, i - 1) = LastOf(rlast, ds, i)
    <3>1. LastOf(<<d.addr>>, es, i - 1) = LastOf(rlast, ds, (i - 1) + 1)
      BY <1>17, <2>1, Zenon
    <3> QED BY <2>1, <3>1, Zenon
  <2>4. ts[i - 1] = tails[i] /\ ts[i] = tails[i + 1]
    <3>1. ts[i - 1] = tails[(i - 1) + 1] /\ ts[i] = tails[i + 1]
      BY <1>15, <2>1, Zenon
    <3> QED BY <2>1, <3>1, Zenon
  <2> QED BY <1>7, <2>2, <2>3, <2>4, Zenon
<1>19. Cut(<<d.addr>>, es, ts)
  BY <1>7, <1>15, <1>16, <1>18, Zenon DEF Cut
<1>20. InFrames(<<d.addr>>, tails[1], es)
  BY <1>7, <1>16, <1>19, Zenon DEF InFrames
<1>21. WriterKnows(wl, <<d.addr>>, es)
  <2>1. n - 1 \in 0..(n - 1) /\ (n - 1) + 1 = n
    BY <1>8
  <2>2. LastOf(<<d.addr>>, es, n - 1) = LastOf(rlast, ds, n)
    BY <1>17, <2>1, Zenon
  <2> QED BY <1>3, <1>7, <2>2, Zenon DEF WriterKnows
<1> QED BY <1>5, <1>6, <1>13, <1>14, <1>20, <1>21, Zenon

-----------------------------------------------------------------------------
(* Decoded is what InFrames says.                                           *)

\* A set of numbers that is not empty has a least element.
LEMMA LeastNumber ==
    ASSUME NEW T \in SUBSET Nat, T # {}
    PROVE  \E x \in T : \A y \in T : x <= y
<1> DEFINE R == OpToRel(<, Nat)
<1>1. \A x, y \in Nat : <<y, x>> \in R <=> y < x
  BY DEF OpToRel
<1>2. IsWellFoundedOn(R, Nat)
  BY NatLessThanWellFounded
<1> HIDE DEF R
<1>3. PICK x \in T : \A y \in T : ~(<<y, x>> \in R)
  BY <1>2, WFMin, Zenon
<1>4. ASSUME NEW y \in T PROVE x <= y
  <2>1. x \in Nat /\ y \in Nat
    OBVIOUS
  <2>2. ~(y < x)
    BY <1>1, <1>3, <2>1, Zenon
  <2> QED BY <2>1, <2>2
<1> QED BY <1>4

\* There are no more frames than bytes.
LEMMA FramesFit ==
    ASSUME NEW rlast, NEW ds \in Seq(Dgrams), NEW tails, Cut(rlast, ds, tails)
    PROVE  Len(ds) <= Len(tails[0])
<1>1. PICK n \in Nat : n = Len(ds)
  BY LenProperties, Zenon
<1>2. \A i \in 0..n : tails[i] \in Bytes
  BY <1>1 DEF Cut
<1>3. \A i \in 0..n : Len(tails[i]) \in Nat
  BY <1>2, BytesTyped, Zenon
<1> DEFINE T == {k \in 0..n : ~(k <= Len(tails[n - k]))}
<1>4. T = {}
  <2> SUFFICES ASSUME T # {} PROVE FALSE
    OBVIOUS
  <2>1. T \in SUBSET Nat
    OBVIOUS
  <2>2. PICK k \in T : \A y \in T : k <= y
    BY <2>1, LeastNumber, Zenon
  <2>3. k \in 0..n /\ ~(k <= Len(tails[n - k]))
    OBVIOUS
  <2>4. k # 0
    <3>1. CASE k = 0
      <4>1. n - k = n /\ n \in 0..n
        BY <3>1
      <4>2. Len(tails[n]) \in Nat
        BY <1>3, <4>1, Zenon
      <4>3. 0 <= Len(tails[n])
        BY <4>2
      <4> QED BY <2>3, <3>1, <4>1, <4>3, Zenon
    <3> QED BY <3>1
  <2>5. /\ k - 1 \in 0..n /\ ~(k <= k - 1) /\ n - (k - 1) = (n - k) + 1
        /\ (n - k) + 1 \in 1..n /\ (n - k) + 1 \in 0..n /\ ((n - k) + 1) - 1 = n - k /\ n - k \in 0..n
    BY <2>3, <2>4
  <2>6. k - 1 \notin T
    <3> HIDE DEF T
    <3> QED BY <2>2, <2>5, Zenon
  <2>7. k - 1 <= Len(tails[(n - k) + 1])
    <3>1. k - 1 <= Len(tails[n - (k - 1)])
      BY <2>5, <2>6, Zenon
    <3> QED BY <2>5, <3>1, Zenon
  <2>8. PICK i : i = (n - k) + 1
    OBVIOUS
  <2>9. PICK v : /\ FrameFor(v, LastOf(rlast, ds, i - 1), ds[i])
                 /\ tails[i - 1] = FrameOf(v, ds[i]) \o tails[i]
    BY <1>1, <2>5, <2>8, Zenon DEF Cut
  <2>10. ds[i] \in Dgrams
    BY <1>1, <2>5, <2>8, ElementOfSeq, Zenon
  <2>11. tails[i] \in Bytes /\ Len(tails[i]) \in Nat
    BY <1>2, <1>3, <2>5, <2>8, Zenon
  <2>12. FrameOf(v, ds[i]) \in Bytes /\ Len(FrameOf(v, ds[i])) \in Nat /\ Len(FrameOf(v, ds[i])) >= 3
    BY <2>9, <2>10, <2>11, FrameRead, Zenon
  <2>13. Len(tails[i - 1]) = Len(FrameOf(v, ds[i])) + Len(tails[i])
    BY <2>9, <2>11, <2>12, CatBytes, Zenon
  <2>14. i - 1 = n - k /\ k - 1 <= Len(tails[i])
    BY <2>5, <2>7, <2>8, Zenon
  <2>15. k <= Len(FrameOf(v, ds[i])) + Len(tails[i])
    <3>1. \A x, y \in Nat : x >= 3 /\ k - 1 <= y => k <= x + y
      BY <2>3
    <3> QED BY <2>11, <2>12, <2>14, <3>1, Zenon
  <2> QED BY <2>3, <2>13, <2>14, <2>15, Zenon
<1>5. n <= Len(tails[n - n])
  <2>1. n \in 0..n
    OBVIOUS
  <2> QED BY <1>4, <2>1
<1>6. n - n = 0
  OBVIOUS
<1> QED BY <1>1, <1>5, <1>6, Zenon

LEMMA DecodedIs ==
    ASSUME NEW last, NEW b, NEW ds, InFrames(last, b, ds)
    PROVE  Decoded(last, b) = ds
<1>1. PICK tails : Cut(last, ds, tails) /\ tails[0] = b
  BY Zenon DEF InFrames
<1>2. b \in Bytes /\ ds \in Seq(Dgrams)
  BY FramesTyped, Zenon
<1>3. PICK n \in Nat : n = Len(ds)
  BY FramesTyped, Zenon
<1>4. PICK l \in Nat : l = Len(b)
  BY <1>2, BytesTyped, Zenon
<1>5. n <= l
  BY <1>1, <1>2, <1>3, <1>4, FramesFit, Zenon
<1>6. \A i \in 0..n : tails[i] \in Bytes
  BY <1>1, <1>3 DEF Cut
<1> DEFINE At(m) == [out |-> SubSeq(ds, 1, m), last |-> LastOf(last, ds, m), rest |-> tails[m]]
           Start == [out |-> <<>>, last |-> last, rest |-> b]
           Sol(g) == g = [k \in 0..l |-> IF k = 0 THEN Start ELSE ReadOn(g[k - 1])]
           sol == [k \in 0..l |-> At(IF k <= n THEN k ELSE n)]
<1>7. At(0) = Start
  <2>1. SubSeq(ds, 1, 0) = <<>>
    BY SubSeqEmpty
  <2> QED BY <1>1, <2>1, Zenon DEF LastOf
\* One frame more, while there is one.
<1>8. ASSUME NEW m \in 0..(n - 1) PROVE ReadOn(At(m)) = At(m + 1)
  <2>1. m + 1 \in 1..n /\ (m + 1) - 1 = m /\ m \in 0..n /\ m + 1 \in 0..n /\ m + 1 # 0
    BY <1>5
  <2>2. PICK d \in Dgrams : d = ds[m + 1]
    BY <1>2, <1>3, <2>1, ElementOfSeq, Zenon
  <2>3. PICK v : FrameFor(v, LastOf(last, ds, m), d) /\ tails[m] = FrameOf(v, d) \o tails[m + 1]
    <3>1. \E v : /\ FrameFor(v, LastOf(last, ds, (m + 1) - 1), ds[m + 1])
                 /\ tails[(m + 1) - 1] = FrameOf(v, ds[m + 1]) \o tails[m + 1]
      BY <1>1, <1>3, <2>1, Zenon DEF Cut
    <3> QED BY <2>1, <2>2, <3>1, Zenon
  <2>4. tails[m + 1] \in Bytes
    BY <1>6, <2>1, Zenon
  <2>5. PICK r : r = ReadFrame(LastOf(last, ds, m), tails[m])
    OBVIOUS
  <2>6. FrameOf(v, d) \in Bytes /\ r = Parsed(Len(FrameOf(v, d)), d)
    BY <2>3, <2>4, <2>5, FrameRead, Zenon
  <2>7. r.st = "ok" /\ r.value = d /\ r.used = Len(FrameOf(v, d))
    BY <2>6 DEF Parsed
  <2>8. From(tails[m], r.used + 1) = tails[m + 1]
    BY <2>3, <2>4, <2>6, <2>7, CatRight, ZenonT(90)
  <2>9. Dgram(r.value.addr, r.value.payload) = d
    BY <2>7, DgramParts, Zenon
  <2>10. Append(SubSeq(ds, 1, m), d) = SubSeq(ds, 1, m + 1)
    BY <1>2, <1>3, <2>1, <2>2
  <2>11. <<r.value.addr>> = LastOf(last, ds, m + 1)
    BY <2>1, <2>2, <2>7, Zenon DEF LastOf
  <2>12. /\ At(m).out = SubSeq(ds, 1, m) /\ At(m).last = LastOf(last, ds, m)
         /\ At(m).rest = tails[m]
    OBVIOUS
  <2>13. ReadOn(At(m)) = [out |-> Append(SubSeq(ds, 1, m), Dgram(r.value.addr, r.value.payload)),
                          last |-> <<r.value.addr>>, rest |-> From(tails[m], r.used + 1)]
    <3> HIDE DEF At
    <3> QED BY <2>5, <2>7, <2>12, Zenon DEF ReadOn
  <2> QED BY <2>8, <2>9, <2>10, <2>11, <2>13, Zenon
<1>9. ReadOn(At(n)) = At(n)
  <2>1. tails[n] = <<>>
    BY <1>1, <1>3, Zenon DEF Cut
  <2>2. At(n).last = LastOf(last, ds, n) /\ At(n).rest = <<>>
    BY <2>1
  <2>3. ReadFrame(At(n).last, At(n).rest) = Incomplete
    <3> HIDE DEF At
    <3> QED BY <2>2, NoBytes, Zenon
  <2>4. Incomplete.st # "ok"
    BY DEF Incomplete
  <2> HIDE DEF At
  <2> QED BY <2>3, <2>4, Zenon DEF ReadOn
<1> HIDE DEF At, Start
<1>10. Sol(sol)
  <2>1. \A k \in 0..l : sol[k] = At(IF k <= n THEN k ELSE n)
    OBVIOUS
  <2>2. ASSUME NEW k \in 0..l, k # 0 PROVE sol[k] = ReadOn(sol[k - 1])
    <3>1. k - 1 \in 0..l
      BY <2>2
    <3>2. sol[k - 1] = At(IF k - 1 <= n THEN k - 1 ELSE n) /\ sol[k] = At(IF k <= n THEN k ELSE n)
      BY <2>1, <3>1, Zenon
    <3> HIDE DEF sol
    <3>3. CASE k <= n
      <4>1. k - 1 <= n /\ k - 1 \in 0..(n - 1) /\ (k - 1) + 1 = k
        BY <2>2, <3>3
      <4> QED BY <1>8, <3>2, <3>3, <4>1, Zenon
    <3>4. CASE ~(k <= n)
      <4>1. k - 1 <= n => k - 1 = n
        BY <3>4
      <4> QED BY <1>9, <3>2, <3>4, <4>1, Zenon
    <3> QED BY <3>3, <3>4
  <2>3. sol[0] = Start
    <3>1. 0 \in 0..l /\ 0 <= n
      OBVIOUS
    <3> QED BY <1>7, <2>1, <3>1, Zenon
  <2>4. sol = [k \in 0..l |-> sol[k]]
    OBVIOUS
  <2> HIDE DEF sol
  <2>5. \A k \in 0..l : sol[k] = IF k = 0 THEN Start ELSE ReadOn(sol[k - 1])
    BY <2>2, <2>3, Zenon
  <2> QED BY <2>4, <2>5
<1>11. PICK g : Sol(g) /\ Decoded(last, b) = g[l].out
  <2>1. Sol(CHOOSE g : Sol(g))
    <3> HIDE DEF Sol, sol
    <3> QED BY <1>10, Zenon
  <2>2. Decoded(last, b) = (CHOOSE g : Sol(g))[l].out
    BY <1>4 DEF Decoded, Start
  <2> HIDE DEF Sol
  <2> QED BY <2>1, <2>2, Zenon
<1>12. g[l] = sol[l]
  <2> DEFINE T == {k \in 0..l : g[k] # sol[k]}
  <2>1. T = {}
    <3> SUFFICES ASSUME T # {} PROVE FALSE
      OBVIOUS
    <3>1. T \in SUBSET Nat
      OBVIOUS
    <3>2. PICK k \in T : \A y \in T : k <= y
      BY <3>1, LeastNumber, Zenon
    <3>3. k \in 0..l /\ g[k] # sol[k]
      OBVIOUS
    <3>4. /\ g[k] = IF k = 0 THEN Start ELSE ReadOn(g[k - 1])
          /\ sol[k] = IF k = 0 THEN Start ELSE ReadOn(sol[k - 1])
      <4> HIDE DEF sol
      <4> QED BY <1>10, <1>11, <3>3
    <3>5. k # 0
      <4> HIDE DEF sol
      <4> QED BY <3>3, <3>4
    <3>6. k - 1 \in 0..l /\ ~(k <= k - 1)
      BY <3>3, <3>5
    <3>7. k - 1 \notin T
      <4> HIDE DEF T
      <4> QED BY <3>2, <3>6, Zenon
    <3>8. g[k - 1] = sol[k - 1]
      BY <3>6, <3>7
    <3> HIDE DEF sol
    <3> QED BY <3>3, <3>4, <3>5, <3>8, Zenon
  <2>2. l \in 0..l
    OBVIOUS
  <2> QED BY <2>1, <2>2
<1>13. sol[l] = At(n)
  <2>1. l \in 0..l /\ (l <= n => l = n)
    BY <1>5
  <2> QED BY <2>1
<1>14. At(n).out = ds
  <2>1. SubSeq(ds, 1, n) = ds
    BY <1>2, <1>3, SubSeqFull, Zenon
  <2> QED BY <2>1 DEF At
<1> QED BY <1>11, <1>12, <1>13, <1>14, Zenon

-----------------------------------------------------------------------------
(* Forward, With and SplitSink keep what they hold, in order.               *)

Forwards(X, Y) == [item : Seq(X), state : Seq(Y), slot : Seq(Y), buffers : Seq(Y)]

ForwardOK(f) ==
    /\ Len(f.item) <= 1 /\ Len(f.state) <= 1 /\ Len(f.slot) <= 1
    /\ f.state = <<>> \/ f.slot = <<>>
    /\ Len(f.buffers) <= MaxBuffer

\* What is behind Forward's own item.
Pending(f) == f.buffers \o (f.slot \o f.state)

LEMMA PendingTyped ==
    ASSUME NEW X, NEW Y, NEW f \in Forwards(X, Y)
    PROVE  Pending(f) \in Seq(Y) /\ f.item \in Seq(X)
<1>1. f.item \in Seq(X) /\ f.state \in Seq(Y) /\ f.slot \in Seq(Y) /\ f.buffers \in Seq(Y)
  BY DEF Forwards
<1>2. f.slot \o f.state \in Seq(Y)
  BY <1>1, ConcatProperties, Zenon
<1> QED BY <1>1, <1>2, ConcatProperties, Zenon DEF Pending

LEMMA NewForwardOK ==
    ASSUME NEW X, NEW Y
    PROVE  /\ NewForward \in Forwards(X, Y) /\ ForwardOK(NewForward)
           /\ Pending(NewForward) = <<>> /\ NewForward.item = <<>>
<1>1. <<>> \in Seq(X) /\ <<>> \in Seq(Y) /\ Len(<<>>) = 0
  BY EmptySeq, Zenon
<1>2. <<>> \o <<>> = <<>>
  BY <1>1, ConcatEmptySeq, Zenon
<1>3. NewForward \in Forwards(X, Y)
  BY <1>1 DEF NewForward, Forwards
<1>4. 0 <= 1 /\ 0 <= MaxBuffer
  BY ChainAssumption
<1>5. ForwardOK(NewForward)
  BY <1>1, <1>4 DEF ForwardOK, NewForward
<1>6. Pending(NewForward) = <<>>
  BY <1>2 DEF Pending, NewForward
<1> QED BY <1>3, <1>5, <1>6 DEF NewForward

\* A slot that has been filled from state.
LEMMA MoveStateKeeps ==
    ASSUME NEW X, NEW Y, NEW f \in Forwards(X, Y), ForwardOK(f)
    PROVE  /\ MoveState(f) \in Forwards(X, Y) /\ ForwardOK(MoveState(f))
           /\ Pending(MoveState(f)) = Pending(f) /\ MoveState(f).item = f.item
           /\ MoveState(f).state = <<>> /\ MoveState(f).buffers = f.buffers
           /\ (f.slot \o f.state # <<>> => MoveState(f).slot # <<>>)
<1>1. f.item \in Seq(X) /\ f.state \in Seq(Y) /\ f.slot \in Seq(Y) /\ f.buffers \in Seq(Y)
      /\ f = [item |-> f.item, state |-> f.state, slot |-> f.slot, buffers |-> f.buffers]
  BY DEF Forwards
<1>2. CASE f.state = <<>>
  <2>1. MoveState(f) = f
    BY <1>2, Zenon DEF MoveState
  <2>2. f.slot \o <<>> = f.slot
    BY <1>1, ConcatEmptySeq, Zenon
  <2> QED BY <1>2, <2>1, <2>2, Zenon
<1>3. CASE f.state # <<>>
  <2>1. f.slot = <<>>
    BY <1>3, Zenon DEF ForwardOK
  <2>2. PICK g : g = MoveState(f)
    OBVIOUS
  <2>3. /\ g = [item |-> f.item, state |-> <<>>, slot |-> f.state, buffers |-> f.buffers]
    BY <1>1, <1>3, <2>2 DEF MoveState
  <2>4. g.item = f.item /\ g.state = <<>> /\ g.slot = f.state /\ g.buffers = f.buffers
    BY <2>3
  <2>5. <<>> \in Seq(Y) /\ Len(<<>>) = 0
    BY EmptySeq, Zenon
  <2>6. g \in Forwards(X, Y)
    BY <1>1, <2>3, <2>5 DEF Forwards
  <2>7. ForwardOK(g)
    <3>1. 0 <= 1
      OBVIOUS
    <3> QED BY <2>1, <2>4, <2>5, <3>1, Zenon DEF ForwardOK
  <2>8. f.slot \o f.state = f.state /\ g.slot \o g.state = f.state
    BY <1>1, <2>1, <2>4, ConcatEmptySeq, Zenon
  <2>9. Pending(g) = Pending(f)
    BY <2>4, <2>8, Zenon DEF Pending
  <2> QED BY <1>3, <2>2, <2>4, <2>6, <2>7, <2>8, <2>9, Zenon
<1> QED BY <1>2, <1>3

LEMMA PolledKeeps ==
    ASSUME NEW X, NEW Y, NEW f \in Forwards(X, Y), ForwardOK(f)
    PROVE  /\ Polled(f) \in Forwards(X, Y) /\ ForwardOK(Polled(f))
           /\ Pending(Polled(f)) = Pending(f) /\ Polled(f).item = f.item
           /\ Polled(f).state = <<>>
<1>1. PICK g \in Forwards(X, Y) :
        /\ g = MoveState(f) /\ ForwardOK(g) /\ Pending(g) = Pending(f) /\ g.item = f.item
        /\ g.state = <<>>
  BY MoveStateKeeps, Zenon
<1>2. g.item \in Seq(X) /\ g.slot \in Seq(Y) /\ g.buffers \in Seq(Y)
      /\ g = [item |-> g.item, state |-> <<>>, slot |-> g.slot, buffers |-> g.buffers]
  BY <1>1 DEF Forwards
<1>3. CASE ~(g.slot # <<>> /\ SocketReady(g))
  BY <1>1, <1>3, Zenon DEF Polled, MoveSlot
<1>4. CASE g.slot # <<>> /\ SocketReady(g)
  <2>1. PICK h : h = Polled(f)
    OBVIOUS
  <2>2. h = [g EXCEPT !.buffers = @ \o g.slot, !.slot = <<>>]
    BY <1>1, <1>4, <2>1, Zenon DEF Polled, MoveSlot
  <2>3. h = [item |-> g.item, state |-> <<>>, slot |-> <<>>, buffers |-> g.buffers \o g.slot]
    <3>1. PICK sl, bu, it : sl = g.slot /\ bu = g.buffers /\ it = g.item
      OBVIOUS
    <3>2. g = [item |-> it, state |-> <<>>, slot |-> sl, buffers |-> bu]
      BY <1>2, <3>1, Zenon
    <3>3. h = [g EXCEPT !.buffers = bu \o sl, !.slot = <<>>]
      BY <2>2, <3>1
    <3>4. h = [item |-> it, state |-> <<>>, slot |-> <<>>, buffers |-> bu \o sl]
      BY <3>2, <3>3
    <3> QED BY <3>1, <3>4, Zenon
  <2>4. h.item = g.item /\ h.state = <<>> /\ h.slot = <<>> /\ h.buffers = g.buffers \o g.slot
    BY <2>3
  <2>5. <<>> \in Seq(Y) /\ Len(<<>>) = 0
    BY EmptySeq, Zenon
  <2>6. g.buffers \o g.slot \in Seq(Y) /\ Len(g.buffers \o g.slot) = Len(g.buffers) + Len(g.slot)
    BY <1>2, ConcatProperties, Zenon
  <2>7. h \in Forwards(X, Y)
    BY <1>2, <2>3, <2>5, <2>6 DEF Forwards
  <2>8. Len(g.buffers) + Len(g.slot) <= MaxBuffer
    <3>1. Len(g.buffers) < MaxBuffer /\ Len(g.slot) <= 1
      BY <1>1, <1>4, Zenon DEF SocketReady, ForwardOK
    <3>2. Len(g.buffers) \in Nat /\ Len(g.slot) \in Nat
      BY <1>2, LenProperties, Zenon
    <3>3. \A x, y \in Nat : x < MaxBuffer /\ y <= 1 => x + y <= MaxBuffer
      BY ChainAssumption
    <3> QED BY <3>1, <3>2, <3>3, Zenon
  <2>9. ForwardOK(h)
    <3>1. 0 <= 1
      OBVIOUS
    <3> QED BY <1>1, <2>4, <2>5, <2>6, <2>8, <3>1, Zenon DEF ForwardOK
  <2>10. Pending(h) = Pending(g)
    <3>1. <<>> \o <<>> = <<>> /\ (g.buffers \o g.slot) \o <<>> = g.buffers \o g.slot
          /\ g.slot \o <<>> = g.slot
      BY <1>2, <2>5, <2>6, ConcatEmptySeq, Zenon
    <3> QED BY <1>1, <2>4, <3>1, Zenon DEF Pending
  <2> QED BY <1>1, <2>1, <2>4, <2>7, <2>9, <2>10, Zenon
<1> QED BY <1>3, <1>4

\* Forward passes on its item, which With makes x.
LEMMA PushedKeeps ==
    ASSUME NEW X, NEW Y, NEW f \in Forwards(X, Y), ForwardOK(f), Ready(f), NEW x \in Y
    PROVE  /\ Pushed(f, x) \in Forwards(X, Y) /\ ForwardOK(Pushed(f, x))
           /\ Pending(Pushed(f, x)) = Pending(f) \o <<x>> /\ Pushed(f, x).item = <<>>
<1>1. PICK g \in Forwards(X, Y) :
        /\ g = Polled(f) /\ ForwardOK(g) /\ Pending(g) = Pending(f) /\ g.state = <<>>
  BY PolledKeeps, Zenon
<1>2. g.slot = <<>>
  BY <1>1, Zenon DEF Ready
<1>3. g.buffers \in Seq(Y)
      /\ g = [item |-> g.item, state |-> <<>>, slot |-> <<>>, buffers |-> g.buffers]
  BY <1>1, <1>2 DEF Forwards
<1>4. PICK h : h = Pushed(f, x)
  OBVIOUS
<1>5. h = [item |-> <<>>, state |-> <<x>>, slot |-> <<>>, buffers |-> g.buffers]
  <2>1. PICK it, bu : it = g.item /\ bu = g.buffers
    OBVIOUS
  <2>2. g = [item |-> it, state |-> <<>>, slot |-> <<>>, buffers |-> bu]
    BY <1>3, <2>1, Zenon
  <2>3. h = [g EXCEPT !.state = <<x>>, !.item = <<>>]
    BY <1>1, <1>4, Zenon DEF Pushed
  <2>4. h = [item |-> <<>>, state |-> <<x>>, slot |-> <<>>, buffers |-> bu]
    BY <2>2, <2>3
  <2> QED BY <2>1, <2>4, Zenon
<1>6. h.item = <<>> /\ h.state = <<x>> /\ h.slot = <<>> /\ h.buffers = g.buffers
  BY <1>5
<1>7. <<>> \in Seq(X) /\ <<>> \in Seq(Y) /\ Len(<<>>) = 0
  BY EmptySeq, Zenon
<1>8. <<x>> \in Seq(Y) /\ Len(<<x>>) = 1
  OBVIOUS
<1>9. h \in Forwards(X, Y)
  BY <1>3, <1>5, <1>7, <1>8 DEF Forwards
<1>10. ForwardOK(h)
  <2>1. 0 <= 1 /\ 1 <= 1
    OBVIOUS
  <2> QED BY <1>1, <1>6, <1>7, <1>8, <2>1, Zenon DEF ForwardOK
<1>11. Pending(h) = Pending(g) \o <<x>>
  <2>1. <<>> \o <<x>> = <<x>> /\ <<>> \o <<>> = <<>> /\ g.buffers \o <<>> = g.buffers
    BY <1>3, <1>7, <1>8, ConcatEmptySeq, Zenon
  <2> QED BY <1>1, <1>2, <1>6, <2>1, Zenon DEF Pending
<1> QED BY <1>1, <1>4, <1>6, <1>9, <1>10, <1>11, Zenon

\* poll_flush sends the first n.
LEMMA FlushedKeeps ==
    ASSUME NEW X, NEW Y, NEW f \in Forwards(X, Y), ForwardOK(f), FlushReady(f),
           NEW n \in 0..Len(Polled(f).buffers)
    PROVE  /\ Flushed(f, n) \in Forwards(X, Y) /\ ForwardOK(Flushed(f, n))
           /\ FlushSends(f, n) \in Seq(Y)
           /\ FlushSends(f, n) \o Pending(Flushed(f, n)) = Pending(f)
           /\ Flushed(f, n).item = f.item
<1>1. PICK g \in Forwards(X, Y) :
        /\ g = Polled(f) /\ ForwardOK(g) /\ Pending(g) = Pending(f) /\ g.state = <<>>
        /\ g.item = f.item
  BY PolledKeeps, Zenon
<1>2. g.slot = <<>>
  BY <1>1, Zenon DEF Ready, FlushReady
<1>3. g.buffers \in Seq(Y) /\ g.item \in Seq(X)
      /\ g = [item |-> g.item, state |-> <<>>, slot |-> <<>>, buffers |-> g.buffers]
  BY <1>1, <1>2 DEF Forwards
<1>4. PICK l \in Nat : l = Len(g.buffers)
  BY <1>3, LenProperties, Zenon
<1>5. n \in 0..l
  BY <1>1, <1>4, Zenon
<1>6. PICK s \in Seq(Y), t \in Seq(Y) :
        /\ s = SubSeq(g.buffers, 1, n) /\ t = SubSeq(g.buffers, n + 1, l)
        /\ Len(t) = IF n + 1 <= l THEN l - (n + 1) + 1 ELSE 0
  <2>1. \A i \in 1..l : g.buffers[i] \in Y
    BY <1>3, <1>4, ElementOfSeq, Zenon
  <2>2. /\ 1 \in Int /\ n \in Int /\ l \in Int /\ n + 1 \in Int
        /\ (\A i \in 1..n : i \in 1..l) /\ (\A i \in (n + 1)..l : i \in 1..l)
    BY <1>5
  <2>3. SubSeq(g.buffers, 1, n) \in Seq(Y)
    BY <2>1, <2>2, SubSeqProperties, Zenon
  <2>4. /\ SubSeq(g.buffers, n + 1, l) \in Seq(Y)
        /\ Len(SubSeq(g.buffers, n + 1, l)) = IF n + 1 <= l THEN l - (n + 1) + 1 ELSE 0
    <3>1. PICK k \in Int : k = n + 1
      BY <2>2, Zenon
    <3>2. \A i \in k..l : g.buffers[i] \in Y
      BY <2>1, <2>2, <3>1, Zenon
    <3>3. /\ SubSeq(g.buffers, k, l) \in Seq(Y)
          /\ Len(SubSeq(g.buffers, k, l)) = IF k <= l THEN l - k + 1 ELSE 0
      BY <2>2, <3>2, SubSeqProperties
    <3> QED BY <3>1, <3>3, Zenon
  <2> QED BY <2>3, <2>4, Zenon
<1>7. s \o t = g.buffers
  <2>1. 1 \in 1..(Len(g.buffers) + 1) /\ n \in (1 - 1)..Len(g.buffers) /\ Len(g.buffers) \in n..Len(g.buffers)
    BY <1>4, <1>5
  <2>2. SubSeq(g.buffers, 1, n) \o SubSeq(g.buffers, n + 1, Len(g.buffers))
          = SubSeq(g.buffers, 1, Len(g.buffers))
    BY <1>3, <2>1, ConcatAdjacentSubSeq, Zenon
  <2>3. SubSeq(g.buffers, 1, Len(g.buffers)) = g.buffers
    BY <1>3, SubSeqFull, Zenon
  <2> QED BY <1>4, <1>6, <2>2, <2>3, Zenon
<1>8. PICK h : h = Flushed(f, n)
  OBVIOUS
<1>9. h = [item |-> g.item, state |-> <<>>, slot |-> <<>>, buffers |-> t]
  <2>1. PICK it, bu : it = g.item /\ bu = g.buffers
    OBVIOUS
  <2>2. g = [item |-> it, state |-> <<>>, slot |-> <<>>, buffers |-> bu]
    BY <1>3, <2>1, Zenon
  <2>3. h = [g EXCEPT !.buffers = t]
    BY <1>1, <1>4, <1>6, <1>8 DEF Flushed
  <2>4. h = [item |-> it, state |-> <<>>, slot |-> <<>>, buffers |-> t]
    BY <2>2, <2>3
  <2> QED BY <2>1, <2>4, Zenon
<1>10. h.item = g.item /\ h.state = <<>> /\ h.slot = <<>> /\ h.buffers = t
  BY <1>9
<1>11. <<>> \in Seq(Y) /\ Len(<<>>) = 0
  BY EmptySeq, Zenon
<1>12. h \in Forwards(X, Y)
  BY <1>3, <1>6, <1>9, <1>11 DEF Forwards
<1>13. Len(t) <= MaxBuffer
  <2>1. l <= MaxBuffer
    BY <1>1, <1>4, Zenon DEF ForwardOK
  <2>2. (IF n + 1 <= l THEN l - (n + 1) + 1 ELSE 0) <= MaxBuffer
    BY <1>5, <2>1, ChainAssumption
  <2> QED BY <1>6, <2>2, Zenon
<1>14. ForwardOK(h)
  <2>1. 0 <= 1
    OBVIOUS
  <2> QED BY <1>1, <1>10, <1>11, <1>13, <2>1, Zenon DEF ForwardOK
<1>15. Pending(h) = t /\ Pending(g) = g.buffers
  <2>1. <<>> \o <<>> = <<>> /\ g.buffers \o <<>> = g.buffers /\ t \o <<>> = t
    BY <1>3, <1>6, <1>11, ConcatEmptySeq, Zenon
  <2> QED BY <1>1, <1>2, <1>10, <2>1, Zenon DEF Pending
<1>16. FlushSends(f, n) = s
  BY <1>1, <1>6, Zenon DEF FlushSends
<1> QED BY <1>1, <1>6, <1>7, <1>8, <1>10, <1>12, <1>14, <1>15, <1>16, Zenon

\* A jammed Forward is not ready, and stays jammed.
LEMMA JammedStays ==
    ASSUME NEW X, NEW Y, NEW f \in Forwards(X, Y), ForwardOK(f), Jammed(f)
    PROVE  ~Ready(f) /\ Jammed(Polled(f))
<1>1. PICK g \in Forwards(X, Y) :
        /\ g = MoveState(f) /\ ForwardOK(g) /\ g.state = <<>> /\ g.buffers = f.buffers
        /\ (f.slot \o f.state # <<>> => g.slot # <<>>)
  BY MoveStateKeeps, Zenon
<1>2. g.slot # <<>> /\ Len(g.buffers) >= MaxBuffer
  BY <1>1, Zenon DEF Jammed
<1>3. g.slot \in Seq(Y) /\ g.buffers \in Seq(Y)
  BY DEF Forwards
<1>4. ~SocketReady(g)
  <2>1. Len(g.buffers) \in Nat
    BY <1>3, LenProperties, Zenon
  <2>2. \A k \in Nat : k >= MaxBuffer => ~(k < MaxBuffer)
    BY ChainAssumption
  <2> QED BY <1>2, <2>1, <2>2, Zenon DEF SocketReady
<1>5. Polled(f) = g
  BY <1>1, <1>4, Zenon DEF Polled, MoveSlot
<1>6. g.slot \o g.state = g.slot
  BY <1>1, <1>3, ConcatEmptySeq, Zenon
<1> QED BY <1>2, <1>5, <1>6, Zenon DEF Ready, Jammed

-----------------------------------------------------------------------------
(* Pipes.                                                                   *)

Pipes(Y) ==
    [item : Seq(Dgrams), chan : Seq(Dgrams), open : BOOLEAN, wlast : Seq(Addrs),
     wire : Bytes, rlast : Seq(Addrs), fwd : Forwards(Dgrams, Y)]

PipeShape(p, Y) == p \in Pipes(Y) /\ PipeOK(p)

\* Between a Forward's item and the other end's Forward is tail.
PipeLive(p, tail) ==
    /\ p.open
    /\ \E ds : /\ InFrames(p.rlast, p.wire, ds) /\ WriterKnows(p.wlast, p.rlast, ds)
               /\ tail = ds \o (p.chan \o p.item)

LEMMA PipeFields ==
    ASSUME NEW Y, NEW p \in Pipes(Y)
    PROVE  /\ p.item \in Seq(Dgrams) /\ p.chan \in Seq(Dgrams) /\ p.open \in BOOLEAN
           /\ p.wlast \in Seq(Addrs) /\ p.wire \in Bytes /\ p.rlast \in Seq(Addrs)
           /\ p.fwd \in Forwards(Dgrams, Y)
BY DEF Pipes

LEMMA PipeOKIs ==
    ASSUME NEW p
    PROVE  PipeOK(p) <=> /\ Len(p.item) <= 1 /\ Len(p.wlast) <= 1 /\ Len(p.rlast) <= 1
                         /\ Len(p.chan) <= ChannelLen + 1
                         /\ ForwardOK(p.fwd)
BY DEF PipeOK, ForwardOK

LEMMA One ==
    ASSUME NEW S, NEW x \in S
    PROVE  <<x>> \in Seq(S) /\ Len(<<x>>) = 1 /\ Len(<<x>>) <= 1 /\ <<x>> # <<>> /\ <<x>>[1] = x
OBVIOUS

LEMMA None ==
    ASSUME NEW S
    PROVE  <<>> \in Seq(S) /\ Len(<<>>) = 0 /\ Len(<<>>) <= 1 /\ <<>> \o <<>> = <<>>
OBVIOUS

LEMMA DgramsAssoc ==
    ASSUME NEW x \in Seq(Dgrams), NEW y \in Seq(Dgrams), NEW z \in Seq(Dgrams)
    PROVE  (x \o y) \o z = x \o (y \o z)
BY ConcatAssociative

LEMMA NewPipeOK ==
    ASSUME NEW Y, NEW rl \in Seq(Addrs), Len(rl) <= 1
    PROVE  /\ PipeShape(NewPipe(rl), Y) /\ PipeLive(NewPipe(rl), <<>>)
           /\ NewPipe(rl).fwd = NewForward
<1>1. PICK p : p = NewPipe(rl)
  OBVIOUS
<1>2. /\ p.item = <<>> /\ p.chan = <<>> /\ p.open = TRUE /\ p.wlast = <<>> /\ p.wire = <<>>
      /\ p.rlast = rl /\ p.fwd = NewForward
  BY <1>1 DEF NewPipe
<1>3. <<>> \in Seq(Dgrams) /\ <<>> \in Seq(Addrs) /\ Len(<<>>) = 0 /\ Len(<<>>) <= 1
      /\ <<>> \o <<>> = <<>>
  BY None, Zenon
<1>4. <<>> \in Bytes
  BY FewBytes, Zenon
<1>5. NewForward \in Forwards(Dgrams, Y) /\ ForwardOK(NewForward)
  BY NewForwardOK, Zenon
<1>6. p \in Pipes(Y)
  BY <1>1, <1>3, <1>4, <1>5 DEF NewPipe, Pipes
<1>7. 0 <= ChannelLen + 1
  BY ChainAssumption
<1>8. PipeOK(p)
  BY <1>2, <1>3, <1>5, <1>7, PipeOKIs, Zenon
<1>9. InFrames(rl, <<>>, <<>>)
  BY EmptyWire, Zenon
<1>10. PipeLive(p, <<>>)
  BY <1>2, <1>3, <1>9, Zenon DEF PipeLive, WriterKnows
<1> QED BY <1>1, <1>2, <1>6, <1>8, <1>10, Zenon DEF PipeShape

\* Forward takes a datagram.
LEMMA PipeTake ==
    ASSUME NEW Y, NEW p, PipeShape(p, Y), p.item = <<>>, NEW d \in Dgrams,
           NEW q, q = [p EXCEPT !.item = <<d>>]
    PROVE  /\ PipeShape(q, Y) /\ q.wire = p.wire /\ q.fwd = p.fwd
           /\ \A tail : PipeLive(p, tail) => PipeLive(q, tail \o <<d>>)
<1>1. p \in Pipes(Y) /\ PipeOK(p)
  BY Zenon DEF PipeShape
<1>2. <<d>> \in Seq(Dgrams) /\ Len(<<d>>) <= 1
  BY One, Zenon
<1>3. /\ q \in Pipes(Y) /\ q.item = <<d>> /\ q.chan = p.chan /\ q.open = p.open
      /\ q.wlast = p.wlast /\ q.wire = p.wire /\ q.rlast = p.rlast /\ q.fwd = p.fwd
  BY <1>1, <1>2 DEF Pipes
<1>4. PipeOK(q)
  BY <1>1, <1>2, <1>3, PipeOKIs, Zenon
<1>5. ASSUME NEW tail, PipeLive(p, tail)
      PROVE  PipeLive(q, tail \o <<d>>)
  <2>1. PICK ds : /\ InFrames(p.rlast, p.wire, ds) /\ WriterKnows(p.wlast, p.rlast, ds)
                  /\ tail = ds \o (p.chan \o p.item)
    BY <1>5, Zenon DEF PipeLive
  <2>2. ds \in Seq(Dgrams) /\ p.chan \in Seq(Dgrams)
    BY <1>1, <2>1, FramesTyped, PipeFields, Zenon
  <2>3. tail = ds \o p.chan
    BY <2>1, <2>2, ConcatEmptySeq, Zenon
  <2>4. tail \o <<d>> = ds \o (p.chan \o <<d>>)
    BY <1>2, <2>2, <2>3, DgramsAssoc, Zenon
  <2> QED BY <1>3, <1>5, <2>1, <2>4, Zenon DEF PipeLive
<1> QED BY <1>1, <1>3, <1>4, <1>5, Zenon DEF PipeShape

\* Forward passes its item to the channel.
LEMMA PipePush ==
    ASSUME NEW Y, NEW p, PipeShape(p, Y), HasRoom(p), NEW q, q = ToChannel(p)
    PROVE  /\ PipeShape(q, Y) /\ q.wire = p.wire /\ q.fwd = p.fwd
           /\ \A tail : PipeLive(p, tail) => PipeLive(q, tail)
<1>1. p \in Pipes(Y) /\ PipeOK(p)
  BY Zenon DEF PipeShape
<1>2. p.item \in Seq(Dgrams) /\ p.chan \in Seq(Dgrams)
  BY <1>1, PipeFields, Zenon
<1>3. p.chan \o p.item \in Seq(Dgrams) /\ Len(p.chan \o p.item) = Len(p.chan) + Len(p.item)
  BY <1>2, ConcatProperties, Zenon
<1>4. <<>> \in Seq(Dgrams) /\ Len(<<>>) <= 1
  BY None, Zenon
<1>5. /\ q \in Pipes(Y) /\ q.item = <<>> /\ q.chan = p.chan \o p.item /\ q.open = p.open
      /\ q.wlast = p.wlast /\ q.wire = p.wire /\ q.rlast = p.rlast /\ q.fwd = p.fwd
  <2>1. PICK c \in Seq(Dgrams) : c = p.chan \o p.item
    BY <1>3, Zenon
  <2>2. q = [p EXCEPT !.chan = c, !.item = <<>>]
    BY <2>1 DEF ToChannel
  <2> QED BY <1>1, <1>4, <2>1, <2>2 DEF Pipes
<1>6. Len(p.chan) + Len(p.item) <= ChannelLen + 1
  <2>1. Len(p.chan) <= ChannelLen /\ Len(p.item) <= 1
    BY <1>1, PipeOKIs, Zenon DEF HasRoom
  <2>2. Len(p.chan) \in Nat /\ Len(p.item) \in Nat
    BY <1>2, LenProperties, Zenon
  <2>3. \A x, y \in Nat : x <= ChannelLen /\ y <= 1 => x + y <= ChannelLen + 1
    BY ChainAssumption
  <2> QED BY <2>1, <2>2, <2>3, Zenon
<1>7. PipeOK(q)
  BY <1>1, <1>3, <1>4, <1>5, <1>6, PipeOKIs, Zenon
<1>8. (p.chan \o p.item) \o <<>> = p.chan \o p.item
  BY <1>3, ConcatEmptySeq, Zenon
<1>9. ASSUME NEW tail, PipeLive(p, tail)
      PROVE  PipeLive(q, tail)
  BY <1>5, <1>8, <1>9, Zenon DEF PipeLive
<1> QED BY <1>5, <1>7, <1>9, Zenon DEF PipeShape

\* The writer's task writes a frame, which somebody reads or not.
LEMMA PipeWrite ==
    ASSUME NEW Y, NEW p, PipeShape(p, Y), p.chan # <<>>, NEW reader \in BOOLEAN,
           NEW q \in Written(p, reader)
    PROVE  /\ PipeShape(q, Y) /\ q.fwd = p.fwd
           /\ ~reader => q.wire = p.wire
           /\ reader => \A tail : PipeLive(p, tail) => PipeLive(q, tail)
<1>1. p \in Pipes(Y) /\ PipeOK(p)
  BY Zenon DEF PipeShape
<1>2. p.item \in Seq(Dgrams) /\ p.chan \in Seq(Dgrams) /\ p.wire \in Bytes
  BY <1>1, PipeFields, Zenon
<1>3. PICK d \in Dgrams, c \in Seq(Dgrams) :
        d = Head(p.chan) /\ c = Tail(p.chan) /\ Len(c) = Len(p.chan) - 1
  BY <1>2, HeadTailProperties, Zenon
<1>4. p.chan = <<d>> \o c
  BY <1>2, <1>3
<1>5. PICK a \in Addrs : a = d.addr
  BY DgramParts, Zenon
<1>6. PICK f : f = FrameOf(p.wlast, d)
  OBVIOUS
<1>7. f \in Bytes /\ p.wire \o f \in Bytes
  <2>1. FrameFor(p.wlast, p.wlast, d)
    BY Zenon DEF FrameFor
  <2>2. f \in Bytes
    BY <1>2, <1>6, <2>1, FrameRead, Zenon
  <2> QED BY <1>2, <2>2, CatBytes, Zenon
<1>8. PICK v : v = [p EXCEPT !.chan = c, !.wlast = <<a>>]
  OBVIOUS
<1>9. <<a>> \in Seq(Addrs) /\ Len(<<a>>) <= 1 /\ <<>> \in Seq(Dgrams) /\ Len(<<>>) = 0
  BY One, None, Zenon
<1>10. /\ v \in Pipes(Y) /\ v.item = p.item /\ v.chan = c /\ v.open = p.open
       /\ v.wlast = <<a>> /\ v.wire = p.wire /\ v.rlast = p.rlast /\ v.fwd = p.fwd
  BY <1>1, <1>8, <1>9 DEF Pipes
<1>11. Len(c) <= ChannelLen + 1 /\ 0 <= ChannelLen + 1
  <2>1. Len(p.chan) <= ChannelLen + 1
    BY <1>1, PipeOKIs, Zenon
  <2>2. Len(p.chan) \in Nat
    BY <1>2, LenProperties, Zenon
  <2>3. \A x \in Nat : x <= ChannelLen + 1 => x - 1 <= ChannelLen + 1
    BY ChainAssumption
  <2>4. 0 <= ChannelLen + 1
    BY ChainAssumption
  <2> QED BY <1>3, <2>1, <2>2, <2>3, <2>4, Zenon
<1>12. PipeOK(v)
  BY <1>1, <1>9, <1>10, <1>11, PipeOKIs, Zenon
<1>13. reader => q = [v EXCEPT !.wire = p.wire \o f]
  <2>1. f = WriteFrame(p.wlast, d.addr, d.payload)
    BY <1>6, Zenon DEF FrameOf
  <2>2. v = [p EXCEPT !.chan = Tail(@), !.wlast = <<Head(p.chan).addr>>]
    BY <1>3, <1>5, <1>8
  <2>3. [v EXCEPT !.wire = @ \o f] = [v EXCEPT !.wire = p.wire \o f]
    BY <1>10
  <2> QED BY <1>3, <2>1, <2>2, <2>3, Zenon DEF Written
<1>14. ~reader => q = v \/ q = [v EXCEPT !.open = FALSE, !.chan = <<>>]
  <2>1. v = [p EXCEPT !.chan = Tail(@), !.wlast = <<Head(p.chan).addr>>]
    BY <1>3, <1>5, <1>8
  <2> QED BY <2>1, Zenon DEF Written
<1>15. CASE reader
  <2>1. /\ q \in Pipes(Y) /\ q.item = p.item /\ q.chan = c /\ q.open = p.open
        /\ q.wlast = <<a>> /\ q.wire = p.wire \o f /\ q.rlast = p.rlast /\ q.fwd = p.fwd
    BY <1>7, <1>10, <1>13, <1>15 DEF Pipes
  <2>2. PipeOK(q)
    BY <1>10, <1>12, <2>1, PipeOKIs, Zenon
  <2>3. ASSUME NEW tail, PipeLive(p, tail)
        PROVE  PipeLive(q, tail)
    <3>1. PICK ds : /\ InFrames(p.rlast, p.wire, ds) /\ WriterKnows(p.wlast, p.rlast, ds)
                    /\ tail = ds \o (p.chan \o p.item)
      BY <2>3, Zenon DEF PipeLive
    <3>2. ds \in Seq(Dgrams)
      BY <3>1, FramesTyped, Zenon
    <3>3. PICK es : es = Append(ds, d)
      OBVIOUS
    <3>4. InFrames(p.rlast, p.wire \o f, es) /\ WriterKnows(<<a>>, p.rlast, es)
      BY <1>5, <1>6, <3>1, <3>3, FrameAppended, Zenon
    <3>5. es = ds \o <<d>>
      BY <3>2, <3>3, AppendIsConcat, Zenon
    <3>6. <<d>> \in Seq(Dgrams) /\ c \o p.item \in Seq(Dgrams)
      BY <1>2, One, ConcatProperties, Zenon
    <3>7. p.chan \o p.item = <<d>> \o (c \o p.item)
      <4>1. (<<d>> \o c) \o p.item = <<d>> \o (c \o p.item)
        BY <1>2, <3>6, DgramsAssoc, ZenonT(90)
      <4> QED BY <1>4, <4>1, Zenon
    <3>8. ds \o (<<d>> \o (c \o p.item)) = (ds \o <<d>>) \o (c \o p.item)
      BY <3>2, <3>6, DgramsAssoc, Zenon
    <3>9. tail = es \o (q.chan \o q.item)
      BY <2>1, <3>1, <3>5, <3>7, <3>8, Zenon
    <3>10. q.open
      BY <2>1, <2>3, Zenon DEF PipeLive
    <3>11. InFrames(q.rlast, q.wire, es) /\ WriterKnows(q.wlast, q.rlast, es)
      BY <2>1, <3>4, Zenon
    <3> QED BY <3>9, <3>10, <3>11, Zenon DEF PipeLive
  <2> QED BY <1>15, <2>1, <2>2, <2>3, Zenon DEF PipeShape
<1>16. CASE ~reader
  <2>1. CASE q = v
    BY <1>10, <1>12, <1>16, <2>1, Zenon DEF PipeShape
  <2>2. CASE q = [v EXCEPT !.open = FALSE, !.chan = <<>>]
    <3>1. /\ q \in Pipes(Y) /\ q.item = p.item /\ q.chan = <<>>
          /\ q.wlast = <<a>> /\ q.wire = p.wire /\ q.rlast = p.rlast /\ q.fwd = p.fwd
      BY <1>9, <1>10, <2>2 DEF Pipes
    <3>2. PipeOK(q)
      BY <1>9, <1>10, <1>11, <1>12, <3>1, PipeOKIs, Zenon
    <3> QED BY <1>16, <3>1, <3>2, Zenon DEF PipeShape
  <2> QED BY <1>14, <1>16, <2>1, <2>2
<1> QED BY <1>15, <1>16

\* The first of tail has been read into Forward's item at the other end.
ReadInto(p, q, Y, tail) ==
    \E d \in Dgrams, t \in Seq(Dgrams) :
      /\ tail = <<d>> \o t /\ d = Dgram(Frame(p).value.addr, Frame(p).value.payload)
      /\ PipeShape(q, Y) /\ PipeLive(q, t)
      /\ q.fwd.item = <<d>> /\ Pending(q.fwd) = Pending(p.fwd)

LEMMA PipeRead ==
    ASSUME NEW Y, NEW p, PipeShape(p, Y), NEW tail, PipeLive(p, tail), Frame(p).st = "ok",
           NEW q, q = FrameTaken(p)
    PROVE  ReadInto(p, q, Y, tail)
<1>1. p \in Pipes(Y) /\ PipeOK(p)
  BY Zenon DEF PipeShape
<1>2. /\ p.item \in Seq(Dgrams) /\ p.chan \in Seq(Dgrams) /\ p.wire \in Bytes
      /\ p.fwd \in Forwards(Dgrams, Y)
  BY <1>1, PipeFields, Zenon
<1>3. PICK ds : /\ InFrames(p.rlast, p.wire, ds) /\ WriterKnows(p.wlast, p.rlast, ds)
                /\ tail = ds \o (p.chan \o p.item)
  BY Zenon DEF PipeLive
<1>4. ds \in Seq(Dgrams)
  BY <1>3, FramesTyped, Zenon
<1>5. ds # <<>>
  <2>1. CASE ds = <<>>
    <3>1. p.wire = <<>>
      BY <1>3, <2>1, NoFrames, Zenon
    <3>2. Frame(p) = Incomplete
      BY <3>1, NoBytes, Zenon DEF Frame
    <3>3. Incomplete.st # "ok"
      BY DEF Incomplete
    <3> QED BY <3>2, <3>3, Zenon
  <2> QED BY <2>1
<1>6. PICK d \in Dgrams, es \in Seq(Dgrams) : d = Head(ds) /\ es = Tail(ds)
  BY <1>4, <1>5, HeadTailProperties, Zenon
<1>7. ds = <<d>> \o es
  BY <1>4, <1>5, <1>6
<1>8. PICK w : w = From(p.wire, Frame(p).used + 1)
  OBVIOUS
<1>9. /\ Frame(p).value = d
      /\ InFrames(<<d.addr>>, w, es) /\ WriterKnows(p.wlast, <<d.addr>>, es)
  BY <1>3, <1>5, <1>6, <1>8, FirstFrame, Zenon DEF Frame
<1>10. w \in Bytes
  BY <1>9, FramesTyped, Zenon
<1>11. PICK a \in Addrs : a = d.addr
  BY DgramParts, Zenon
<1>12. Dgram(Frame(p).value.addr, Frame(p).value.payload) = d
  BY <1>9, DgramParts, Zenon
<1>13. q = [p EXCEPT !.wire = w, !.rlast = <<a>>, !.fwd.item = <<d>>]
  BY <1>8, <1>9, <1>11, <1>12 DEF FrameTaken
<1>14. /\ <<a>> \in Seq(Addrs) /\ Len(<<a>>) <= 1 /\ <<d>> \in Seq(Dgrams) /\ Len(<<d>>) <= 1
  BY One, Zenon
<1>15. PICK g : g = [p.fwd EXCEPT !.item = <<d>>]
  OBVIOUS
<1>16. /\ g \in Forwards(Dgrams, Y) /\ g.item = <<d>> /\ g.state = p.fwd.state
       /\ g.slot = p.fwd.slot /\ g.buffers = p.fwd.buffers
  BY <1>2, <1>14, <1>15 DEF Forwards
<1>17. /\ q \in Pipes(Y) /\ q.item = p.item /\ q.chan = p.chan /\ q.open = p.open
       /\ q.wlast = p.wlast /\ q.wire = w /\ q.rlast = <<a>> /\ q.fwd = g
  <2>1. q = [p EXCEPT !.wire = w, !.rlast = <<a>>, !.fwd = g]
    BY <1>1, <1>13, <1>15 DEF Pipes
  <2> QED BY <1>1, <1>10, <1>14, <1>16, <2>1 DEF Pipes
<1>18. ForwardOK(p.fwd)
  BY <1>1, PipeOKIs, Zenon
<1>19. ForwardOK(g)
  BY <1>14, <1>16, <1>18, Zenon DEF ForwardOK
<1>20. PipeOK(q)
  BY <1>1, <1>14, <1>17, <1>19, PipeOKIs, Zenon
<1>21. Pending(g) = Pending(p.fwd)
  BY <1>16, Zenon DEF Pending
<1>22. PICK t \in Seq(Dgrams) : t = es \o (p.chan \o p.item)
  <2>1. p.chan \o p.item \in Seq(Dgrams)
    BY <1>2, ConcatProperties, Zenon
  <2>2. es \o (p.chan \o p.item) \in Seq(Dgrams)
    BY <2>1, ConcatProperties, Zenon
  <2> QED BY <2>2, Zenon
<1>23. tail = <<d>> \o t
  <2>1. p.chan \o p.item \in Seq(Dgrams)
    BY <1>2, ConcatProperties, Zenon
  <2>2. (<<d>> \o es) \o (p.chan \o p.item) = <<d>> \o (es \o (p.chan \o p.item))
    BY <1>14, <2>1, DgramsAssoc, Zenon
  <2> QED BY <1>3, <1>7, <1>22, <2>2, Zenon
<1>24. PipeLive(q, t)
  <2>1. q.open
    BY <1>17, Zenon DEF PipeLive
  <2> QED BY <1>9, <1>11, <1>17, <1>22, <2>1, Zenon DEF PipeLive
<1> QED BY <1>12, <1>16, <1>17, <1>20, <1>21, <1>23, <1>24, Zenon DEF PipeShape, ReadInto

\* The Forward at the other end goes on.
LEMMA PipeForward ==
    ASSUME NEW Y, NEW p, PipeShape(p, Y), NEW g \in Forwards(Dgrams, Y), ForwardOK(g),
           NEW q, q = [p EXCEPT !.fwd = g]
    PROVE  /\ PipeShape(q, Y) /\ q.wire = p.wire /\ q.fwd = g
           /\ \A tail : PipeLive(p, tail) => PipeLive(q, tail)
<1>1. p \in Pipes(Y) /\ PipeOK(p)
  BY Zenon DEF PipeShape
<1>2. /\ q \in Pipes(Y) /\ q.item = p.item /\ q.chan = p.chan /\ q.open = p.open
      /\ q.wlast = p.wlast /\ q.wire = p.wire /\ q.rlast = p.rlast /\ q.fwd = g
  BY <1>1 DEF Pipes
<1>3. PipeOK(q)
  BY <1>1, <1>2, PipeOKIs, Zenon
<1>4. ASSUME NEW tail, PipeLive(p, tail)
      PROVE  PipeLive(q, tail)
  BY <1>2, <1>4, Zenon DEF PipeLive
<1> QED BY <1>2, <1>3, <1>4, Zenon DEF PipeShape

\* The connection breaks.
LEMMA PipeBreaks ==
    ASSUME NEW Y, NEW p, PipeShape(p, Y), NEW q, q = [p EXCEPT !.wire = <<>>]
    PROVE  PipeShape(q, Y) /\ q.wire = <<>> /\ q.fwd = p.fwd
<1>1. p \in Pipes(Y) /\ PipeOK(p)
  BY Zenon DEF PipeShape
<1>2. <<>> \in Bytes
  BY FewBytes, Zenon
<1>3. /\ q \in Pipes(Y) /\ q.item = p.item /\ q.chan = p.chan
      /\ q.wlast = p.wlast /\ q.wire = <<>> /\ q.rlast = p.rlast /\ q.fwd = p.fwd
  BY <1>1, <1>2 DEF Pipes
<1>4. PipeOK(q)
  BY <1>1, <1>3, PipeOKIs, Zenon
<1> QED BY <1>3, <1>4, Zenon DEF PipeShape

-----------------------------------------------------------------------------
(* The inductive invariant.                                                 *)

Senders == {"nobody", "app", "stranger"}
Arrivals == [from : {"app", "stranger"}, bytes : Datagrams]
SocketDgrams == {d \in Dgrams : IsSocketAddr(d.addr)}
Replies == [to : Senders, packet : {ToPacket(d.addr, d.payload) : d \in Dgrams}]

Types ==
    /\ script \in [arrivals : Seq(Arrivals), replies : Seq(SocketDgrams), upstreams : Nat]
    /\ relay \in [queue : Seq(Arrivals), last : Senders]
    /\ assoc \in [phase : {"first", "trying", "relaying", "oneOff", "ended"}, first : Dgrams,
                  left : Nat]
    /\ server \in [phase : {"none", "running", "ended"}, family : {"v4", "v6"},
                   queue : Seq(Dgrams)]
    /\ broken \in BOOLEAN
    /\ target \in Seq(Dgrams) /\ taken \in Seq(Dgrams) /\ answered \in Seq(Dgrams)
    /\ got \in Seq(Replies)

PipesOK == PipeShape(up, Dgrams) /\ PipeShape(down, Replies)

\* What each phase of the association and of the server's session implies.
Phases ==
    /\ assoc.phase \in {"first", "trying"} => server.phase = "none"
    /\ assoc.phase \in {"relaying", "oneOff"} => server.phase # "none"
    /\ server.phase = "none" => /\ up = NewPipe(<<>>) /\ down = NewPipe(<<>>) /\ ~broken
                                /\ got = <<>> /\ answered = <<>>
    /\ assoc.phase = "first" => target = <<>> /\ taken = <<>>
    /\ assoc.phase = "trying" => taken = <<assoc.first>>
    /\ assoc.left <= script.upstreams
    /\ assoc.phase = "oneOff" => down.fwd = NewForward /\ got = <<>>
    /\ broken => up.wire = <<>> /\ down.wire = <<>>

\* tgt is what was sent to targets, tkn what was taken, n how many upstreams were tried.
UpOK(p, phase, brk, tgt, tkn, first, n) ==
    \E late, sent, tail \in Seq(Dgrams) :
      /\ tgt = late \o sent /\ Len(late) <= n /\ \A i \in 1..Len(late) : late[i] = first
      /\ phase = "none" => sent = <<>>
      /\ phase = "running" => tkn = sent \o (Pending(p.fwd) \o (p.fwd.item \o tail))
      /\ phase = "ended" => tkn = sent \o tail
      /\ phase = "running" /\ ~brk => PipeLive(p, tail)

UpKept ==
    UpOK(up, server.phase, broken, target, taken, assoc.first, script.upstreams - assoc.left)

\* The replies rs are the ones for ds.
Answers(rs, ds) ==
    /\ Len(rs) = Len(ds)
    /\ \A i \in 1..Len(ds) : rs[i].packet = ToPacket(ds[i].addr, ds[i].payload)

DownOK(p, phase, brk, sent, ans) ==
    \E done, tail \in Seq(Dgrams) :
      /\ phase # "ended" => /\ ans = done \o (p.fwd.item \o tail)
                            /\ Answers(sent \o Pending(p.fwd), done)
      /\ phase = "ended" => ans = done \o tail /\ Answers(sent, done)
      /\ phase # "ended" /\ ~brk => PipeLive(p, tail)

DownKept == DownOK(down, assoc.phase, broken, got, answered)

IInv == Types /\ PipesOK /\ Phases /\ UpKept /\ DownKept

-----------------------------------------------------------------------------
(* The upload.                                                              *)

LEMMA UpFresh ==
    ASSUME NEW p, NEW brk, NEW tkn, NEW first, NEW n \in Nat
    PROVE  UpOK(p, "none", brk, <<>>, tkn, first, n)
<1>1. <<>> \in Seq(Dgrams) /\ Len(<<>>) = 0 /\ <<>> \o <<>> = <<>>
  BY None, Zenon
<1>2. 0 <= n /\ ~\E i : i \in 1..0
  OBVIOUS
<1>3. "none" # "running" /\ "none" # "ended"
  OBVIOUS
<1> QED BY <1>1, <1>2, <1>3, Zenon DEF UpOK

\* Another upstream has been tried.
LEMMA UpTried ==
    ASSUME NEW p, NEW phase, NEW brk, NEW tgt, NEW tkn, NEW first, NEW n \in Int,
           UpOK(p, phase, brk, tgt, tkn, first, n)
    PROVE  UpOK(p, phase, brk, tgt, tkn, first, n + 1)
<1>1. \A x \in Seq(Dgrams) : Len(x) \in Nat
  BY LenProperties, Zenon
<1>2. \A k \in Nat : k <= n => k <= n + 1
  OBVIOUS
<1>3. \A x \in Seq(Dgrams) : Len(x) <= n => Len(x) <= n + 1
  BY <1>1, <1>2, Zenon
<1> QED BY <1>3, Zenon DEF UpOK

\* It has sent the first datagram, and failed then.
LEMMA UpTriedLate ==
    ASSUME NEW p, NEW brk, NEW tgt, NEW tkn, NEW first \in Dgrams, NEW n \in Int,
           UpOK(p, "none", brk, tgt, tkn, first, n)
    PROVE  UpOK(p, "none", brk, Append(tgt, first), tkn, first, n + 1)
<1>1. PICK late \in Seq(Dgrams), sent \in Seq(Dgrams) :
        /\ tgt = late \o sent /\ Len(late) <= n /\ \A i \in 1..Len(late) : late[i] = first
        /\ sent = <<>>
  BY Zenon DEF UpOK
<1>2. tgt = late
  BY <1>1, ConcatEmptySeq, Zenon
<1>3. PICK l \in Nat : l = Len(late)
  BY LenProperties, Zenon
<1>4. PICK new \in Seq(Dgrams) :
        /\ new = Append(late, first) /\ Len(new) = l + 1 /\ new[l + 1] = first
        /\ \A i \in 1..l : new[i] = late[i]
  <2>1. /\ Append(late, first) \in Seq(Dgrams)
        /\ Len(Append(late, first)) = Len(late) + 1
        /\ \A i \in 1..Len(late) : Append(late, first)[i] = late[i]
        /\ Append(late, first)[Len(late) + 1] = first
    OBVIOUS
  <2> QED BY <1>3, <2>1, Zenon
<1>5. l + 1 <= n + 1
  <2>1. l <= n
    BY <1>1, <1>3, Zenon
  <2> QED BY <2>1
<1>6. \A i \in 1..(l + 1) : new[i] = first
  <2>1. \A i \in 1..(l + 1) : i = l + 1 \/ i \in 1..l
    OBVIOUS
  <2> QED BY <1>1, <1>3, <1>4, <2>1, Zenon
<1>7. <<>> \in Seq(Dgrams) /\ new = new \o <<>>
  BY None, ConcatEmptySeq, Zenon
<1>8. "none" # "running" /\ "none" # "ended"
  OBVIOUS
<1>9. Append(tgt, first) = new \o <<>>
  BY <1>2, <1>4, <1>7, Zenon
<1>10. Len(new) <= n + 1 /\ \A i \in 1..Len(new) : new[i] = first
  BY <1>4, <1>5, <1>6, Zenon
<1> QED BY <1>7, <1>8, <1>9, <1>10, Zenon DEF UpOK

\* It has sent the first datagram, and the session runs.
LEMMA UpConnected ==
    ASSUME NEW p, NEW brk, NEW tgt, NEW tkn, NEW first \in Dgrams, NEW n \in Int,
           UpOK(p, "none", brk, tgt, tkn, first, n), tkn = <<first>>,
           NEW rl \in Seq(Addrs), Len(rl) <= 1
    PROVE  UpOK(NewPipe(rl), "running", brk, Append(tgt, first), tkn, first, n + 1)
<1>1. PICK late \in Seq(Dgrams), sent \in Seq(Dgrams) :
        /\ tgt = late \o sent /\ Len(late) <= n /\ \A i \in 1..Len(late) : late[i] = first
        /\ sent = <<>>
  BY Zenon DEF UpOK
<1>2. tgt = late
  BY <1>1, ConcatEmptySeq, Zenon
<1>3. Len(late) <= n + 1
  <2>1. Len(late) \in Nat
    BY LenProperties, Zenon
  <2>2. \A k \in Nat : k <= n => k <= n + 1
    OBVIOUS
  <2> QED BY <1>1, <2>1, <2>2, Zenon
<1>4. Append(tgt, first) = late \o <<first>>
  BY <1>2, AppendIsConcat, Zenon
<1>5. PICK q : q = NewPipe(rl)
  OBVIOUS
<1>6. PipeLive(q, <<>>) /\ q.fwd = NewForward
  BY <1>5, NewPipeOK, Zenon
<1>7. Pending(q.fwd) = <<>> /\ q.fwd.item = <<>>
  BY <1>6, NewForwardOK, Zenon
<1>8. <<>> \in Seq(Dgrams) /\ <<first>> \in Seq(Dgrams) /\ <<>> \o <<>> = <<>>
  BY None, One, Zenon
<1>9. tkn = <<first>> \o (Pending(q.fwd) \o (q.fwd.item \o <<>>))
  BY <1>7, <1>8, ConcatEmptySeq, Zenon
<1>10. "running" # "none" /\ "running" # "ended"
  OBVIOUS
<1>11. UpOK(q, "running", brk, Append(tgt, first), tkn, first, n + 1)
  BY <1>1, <1>3, <1>4, <1>6, <1>8, <1>9, <1>10, Zenon DEF UpOK
<1> QED BY <1>5, <1>11, Zenon

\* What was sent, what Forward holds and what follows it.
Row(s, x, y, t) == s \o (x \o (y \o t))

Assoc(x, y, z) == (x \o y) \o z = x \o (y \o z)
Longer(s, x, y, t, o) == Row(s, x, y, t) \o o = Row(s, x, y, t \o o)
Moved(s, x, y, t, o, u, v) == Row(s, x, y, t) = Row(s \o o, u, v, t)

LEMMA AssocHolds ==
    ASSUME NEW S, NEW x \in Seq(S), NEW y \in Seq(S), NEW z \in Seq(S)
    PROVE  Assoc(x, y, z)
BY ConcatAssociative DEF Assoc

\* One more at the end.
LEMMA LongerTail ==
    ASSUME NEW S, NEW s \in Seq(S), NEW x \in Seq(S), NEW y \in Seq(S), NEW t \in Seq(S),
           NEW o \in Seq(S)
    PROVE  Longer(s, x, y, t, o)
<1>1. PICK u \in Seq(S) : u = y \o t
  BY ConcatProperties, Zenon
<1>2. PICK v \in Seq(S) : v = x \o u
  BY ConcatProperties, Zenon
<1>3. Assoc(s, v, o)
  BY AssocHolds, Zenon
<1>4. Assoc(x, u, o)
  BY AssocHolds, Zenon
<1>5. Assoc(y, t, o)
  BY AssocHolds, Zenon
<1> QED BY <1>1, <1>2, <1>3, <1>4, <1>5, Zenon DEF Row, Longer, Assoc

\* What is behind s has been x and y, and is now o, u and v.
LEMMA Regrouped ==
    ASSUME NEW S, NEW s \in Seq(S), NEW x \in Seq(S), NEW y \in Seq(S), NEW t \in Seq(S),
           NEW o \in Seq(S), NEW u \in Seq(S), NEW v \in Seq(S),
           o \o (u \o v) = x \o y
    PROVE  Moved(s, x, y, t, o, u, v)
<1>1. PICK a \in Seq(S) : a = u \o v
  BY ConcatProperties, Zenon
<1>2. PICK b \in Seq(S) : b = v \o t
  BY ConcatProperties, Zenon
<1>3. PICK c \in Seq(S) : c = u \o b
  BY ConcatProperties, Zenon
<1>4. Assoc(x, y, t)
  BY AssocHolds, Zenon
<1>5. Assoc(o, a, t)
  BY AssocHolds, Zenon
<1>6. Assoc(u, v, t)
  BY AssocHolds, Zenon
<1>7. Assoc(s, o, c)
  BY AssocHolds, Zenon
<1> QED BY <1>1, <1>2, <1>3, <1>4, <1>5, <1>6, <1>7, Zenon DEF Row, Moved, Assoc

\* The client's Forward takes a datagram.
LEMMA UpTaken ==
    ASSUME NEW p, PipeShape(p, Dgrams), p.item = <<>>, NEW d \in Dgrams,
           NEW phase, phase # "none", NEW brk, NEW tgt, NEW tkn, NEW first, NEW n,
           UpOK(p, phase, brk, tgt, tkn, first, n), NEW q, q = [p EXCEPT !.item = <<d>>]
    PROVE  UpOK(q, phase, brk, tgt, tkn \o <<d>>, first, n)
<1>1. PICK late, sent, tail :
        /\ late \in Seq(Dgrams) /\ sent \in Seq(Dgrams) /\ tail \in Seq(Dgrams)
        /\ tgt = late \o sent /\ Len(late) <= n /\ \A i \in 1..Len(late) : late[i] = first
        /\ phase = "running" => tkn = sent \o (Pending(p.fwd) \o (p.fwd.item \o tail))
        /\ phase = "ended" => tkn = sent \o tail
        /\ phase = "running" /\ ~brk => PipeLive(p, tail)
  BY Zenon DEF UpOK
<1>2. /\ PipeShape(q, Dgrams) /\ q.wire = p.wire /\ q.fwd = p.fwd
      /\ \A t : PipeLive(p, t) => PipeLive(q, t \o <<d>>)
  BY PipeTake
<1>3. p.fwd \in Forwards(Dgrams, Dgrams)
  BY PipeFields, Zenon DEF PipeShape
<1>4. PICK x, y : x \in Seq(Dgrams) /\ y \in Seq(Dgrams) /\ x = Pending(p.fwd) /\ y = p.fwd.item
  BY <1>3, PendingTyped, Zenon
<1>5. PICK one : one = <<d>> /\ one \in Seq(Dgrams)
  BY One, Zenon
<1>6. sent \in Seq(Dgrams) /\ tail \in Seq(Dgrams) /\ one \in Seq(Dgrams)
  BY <1>1, <1>5, Zenon
<1>7. x \in Seq(Dgrams) /\ y \in Seq(Dgrams)
  BY <1>4, Zenon
<1>8. tail \o one \in Seq(Dgrams)
  BY <1>6, ConcatProperties, Zenon
<1>9a. Longer(sent, x, y, tail, one)
  BY <1>6, <1>7, LongerTail, Zenon
<1>9. (sent \o tail) \o one = sent \o (tail \o one)
  BY <1>6, DgramsAssoc
<1>10. phase = "running" => tkn \o <<d>> = sent \o (Pending(q.fwd) \o (q.fwd.item \o (tail \o one)))
  BY <1>1, <1>2, <1>4, <1>5, <1>9a, Zenon DEF Row, Longer
<1>11. phase = "ended" => tkn \o <<d>> = sent \o (tail \o one)
  BY <1>1, <1>5, <1>9, Zenon
<1>12. phase = "running" /\ ~brk => PipeLive(q, tail \o one)
  BY <1>1, <1>2, <1>5, Zenon
<1> QED BY <1>1, <1>8, <1>10, <1>11, <1>12, Zenon DEF UpOK

\* Between the item and the other end's Forward, datagrams move on.
LEMMA UpMoved ==
    ASSUME NEW p, NEW phase, NEW brk, NEW tgt, NEW tkn, NEW first, NEW n,
           UpOK(p, phase, brk, tgt, tkn, first, n), NEW q, q.fwd = p.fwd, NEW now,
           phase = "running" /\ ~now
             => ~brk /\ \A tail : PipeLive(p, tail) => PipeLive(q, tail)
    PROVE  UpOK(q, phase, now, tgt, tkn, first, n)
BY Zenon DEF UpOK

LEMMA UpRead ==
    ASSUME NEW p, PipeShape(p, Dgrams), p.fwd.item = <<>>, Frame(p).st = "ok",
           NEW brk, ~brk, NEW tgt, NEW tkn, NEW first, NEW n,
           UpOK(p, "running", brk, tgt, tkn, first, n), NEW q, q = FrameTaken(p)
    PROVE  UpOK(q, "running", brk, tgt, tkn, first, n) /\ PipeShape(q, Dgrams)
<1>1. PICK late, sent, tail :
        /\ late \in Seq(Dgrams) /\ sent \in Seq(Dgrams) /\ tail \in Seq(Dgrams)
        /\ tgt = late \o sent /\ Len(late) <= n /\ \A i \in 1..Len(late) : late[i] = first
        /\ tkn = sent \o (Pending(p.fwd) \o (p.fwd.item \o tail))
        /\ PipeLive(p, tail)
  BY Zenon DEF UpOK
<1>2a. PipeLive(p, tail)
  BY <1>1, Zenon
<1>2. PICK d \in Dgrams, t \in Seq(Dgrams) :
        /\ tail = <<d>> \o t /\ d = Dgram(Frame(p).value.addr, Frame(p).value.payload)
        /\ PipeShape(q, Dgrams) /\ PipeLive(q, t)
        /\ q.fwd.item = <<d>> /\ Pending(q.fwd) = Pending(p.fwd)
  <2>1. ReadInto(p, q, Dgrams, tail)
    BY <1>2a, PipeRead, Zenon
  <2> QED BY <2>1, Zenon DEF ReadInto
<1>3. <<>> \o tail = tail
  BY <1>1, ConcatEmptySeq, Zenon
<1>4. tkn = sent \o (Pending(q.fwd) \o (q.fwd.item \o t))
  BY <1>1, <1>2, <1>3, Zenon
<1>5. "running" # "none" /\ "running" # "ended"
  OBVIOUS
<1> QED BY <1>1, <1>2, <1>4, <1>5, Zenon DEF UpOK

\* The server's Forward goes on, and sends s.
LEMMA UpForwarded ==
    ASSUME NEW p, PipeShape(p, Dgrams), NEW g \in Forwards(Dgrams, Dgrams), ForwardOK(g),
           NEW s, s \in Seq(Dgrams),
           s \o (Pending(g) \o g.item) = Pending(p.fwd) \o p.fwd.item,
           NEW brk, NEW tgt, NEW tkn, NEW first, NEW n,
           UpOK(p, "running", brk, tgt, tkn, first, n), NEW q, q = [p EXCEPT !.fwd = g]
    PROVE  UpOK(q, "running", brk, tgt \o s, tkn, first, n)
<1>1. PICK late, sent, tail :
        /\ late \in Seq(Dgrams) /\ sent \in Seq(Dgrams) /\ tail \in Seq(Dgrams)
        /\ tgt = late \o sent /\ Len(late) <= n /\ \A i \in 1..Len(late) : late[i] = first
        /\ tkn = sent \o (Pending(p.fwd) \o (p.fwd.item \o tail))
        /\ ~brk => PipeLive(p, tail)
  BY Zenon DEF UpOK
<1>2. /\ PipeShape(q, Dgrams) /\ q.wire = p.wire /\ q.fwd = g
      /\ \A t : PipeLive(p, t) => PipeLive(q, t)
  BY PipeForward
<1>3. p.fwd \in Forwards(Dgrams, Dgrams)
  BY PipeFields, Zenon DEF PipeShape
<1>4. PICK x, y : x \in Seq(Dgrams) /\ y \in Seq(Dgrams) /\ x = Pending(p.fwd) /\ y = p.fwd.item
  BY <1>3, PendingTyped, Zenon
<1>5. PICK u, v : u \in Seq(Dgrams) /\ v \in Seq(Dgrams) /\ u = Pending(g) /\ v = g.item
  BY PendingTyped, Zenon
<1>6. sent \in Seq(Dgrams) /\ tail \in Seq(Dgrams) /\ s \in Seq(Dgrams)
  BY <1>1, Zenon
<1>7. x \in Seq(Dgrams) /\ y \in Seq(Dgrams)
  BY <1>4, Zenon
<1>8. u \in Seq(Dgrams) /\ v \in Seq(Dgrams)
  BY <1>5, Zenon
<1>9. s \o (u \o v) = x \o y
  BY <1>4, <1>5, Zenon
<1>10. Moved(sent, x, y, tail, s, u, v)
  BY <1>6, <1>7, <1>8, <1>9, Regrouped, Zenon
<1>11. tkn = (sent \o s) \o (Pending(q.fwd) \o (q.fwd.item \o tail))
  BY <1>1, <1>2, <1>4, <1>5, <1>10, Zenon DEF Row, Moved
<1>12. sent \o s \in Seq(Dgrams)
  BY <1>6, ConcatProperties, Zenon
<1>13. late \in Seq(Dgrams)
  BY <1>1, Zenon
<1>14. (late \o sent) \o s = late \o (sent \o s)
  BY <1>6, <1>13, DgramsAssoc
<1>15. "running" # "none" /\ "running" # "ended"
  OBVIOUS
<1>16. tgt \o s = late \o (sent \o s)
  BY <1>1, <1>14, Zenon
<1>17. ~brk => PipeLive(q, tail)
  BY <1>1, <1>2, Zenon
<1> QED BY <1>1, <1>11, <1>12, <1>15, <1>16, <1>17, Zenon DEF UpOK

\* The session ends: what it holds is lost.
LEMMA UpEnded ==
    ASSUME NEW p, PipeShape(p, Dgrams), NEW brk, NEW tgt, NEW tkn, NEW first, NEW n,
           UpOK(p, "running", brk, tgt, tkn, first, n)
    PROVE  UpOK(p, "ended", brk, tgt, tkn, first, n)
<1>1. PICK late \in Seq(Dgrams), sent \in Seq(Dgrams), tail \in Seq(Dgrams) :
        /\ tgt = late \o sent /\ Len(late) <= n /\ \A i \in 1..Len(late) : late[i] = first
        /\ tkn = sent \o (Pending(p.fwd) \o (p.fwd.item \o tail))
  BY Zenon DEF UpOK
<1>2. p.fwd \in Forwards(Dgrams, Dgrams)
  BY PipeFields, Zenon DEF PipeShape
<1>3. PICK x \in Seq(Dgrams), y \in Seq(Dgrams) : x = Pending(p.fwd) /\ y = p.fwd.item
  BY <1>2, PendingTyped, Zenon
<1>4. y \o tail \in Seq(Dgrams)
  BY ConcatProperties, Zenon
<1>5. x \o (y \o tail) \in Seq(Dgrams)
  BY <1>4, ConcatProperties, Zenon
<1>6. tkn = sent \o (x \o (y \o tail))
  BY <1>1, <1>3, Zenon
<1>7. "ended" # "none" /\ "running" # "ended"
  OBVIOUS
<1> QED BY <1>1, <1>5, <1>6, <1>7, Zenon DEF UpOK

-----------------------------------------------------------------------------
(* The download.                                                            *)

LEMMA NoAnswers == Answers(<<>>, <<>>)
<1>1. ~\E i : i \in 1..0
  OBVIOUS
<1>2. Len(<<>>) = 0
  OBVIOUS
<1> QED BY <1>1, <1>2, Zenon DEF Answers

IsReply(r, d) == r.packet = ToPacket(d.addr, d.payload)

\* One more reply.
LEMMA AnswersAppend ==
    ASSUME NEW rs \in Seq(Replies), NEW ds \in Seq(Dgrams), Answers(rs, ds),
           NEW r \in Replies, NEW d \in Dgrams, IsReply(r, d)
    PROVE  Answers(rs \o <<r>>, ds \o <<d>>)
<1>1. PICK n \in Nat : n = Len(rs) /\ n = Len(ds)
  BY LenProperties, Zenon DEF Answers
<1>2. PICK es : es = ds \o <<d>> /\ Len(es) = n + 1 /\ es[n + 1] = d /\ \A i \in 1..n : es[i] = ds[i]
  <2>1. /\ Len(ds \o <<d>>) = Len(ds) + 1 /\ (ds \o <<d>>)[Len(ds) + 1] = d
        /\ \A i \in 1..Len(ds) : (ds \o <<d>>)[i] = ds[i]
    OBVIOUS
  <2> QED BY <1>1, <2>1, Zenon
<1>3. PICK ss : ss = rs \o <<r>> /\ Len(ss) = n + 1 /\ ss[n + 1] = r /\ \A i \in 1..n : ss[i] = rs[i]
  <2>1. /\ Len(rs \o <<r>>) = Len(rs) + 1 /\ (rs \o <<r>>)[Len(rs) + 1] = r
        /\ \A i \in 1..Len(rs) : (rs \o <<r>>)[i] = rs[i]
    OBVIOUS
  <2> QED BY <1>1, <2>1, Zenon
<1>4. ASSUME NEW i \in 1..(n + 1)
      PROVE  ss[i].packet = ToPacket(es[i].addr, es[i].payload)
  <2>1. i = n + 1 \/ i \in 1..n
    OBVIOUS
  <2>2. CASE i = n + 1
    BY <1>2, <1>3, <2>2, Zenon DEF IsReply
  <2>3. CASE i \in 1..n
    BY <1>1, <1>2, <1>3, <2>3, Zenon DEF Answers
  <2> QED BY <2>1, <2>2, <2>3, Zenon
<1>5. Answers(ss, es)
  BY <1>2, <1>3, <1>4, Zenon DEF Answers
<1> QED BY <1>2, <1>3, <1>5, Zenon

\* The first replies are for the first datagrams.
LEMMA AnswersSplit ==
    ASSUME NEW x \in Seq(Replies), NEW y \in Seq(Replies), NEW ds \in Seq(Dgrams),
           Answers(x \o y, ds)
    PROVE  \E a \in Seq(Dgrams), b \in Seq(Dgrams) : ds = a \o b /\ Answers(x, a)
<1>1. PICK m \in Nat, n \in Nat : m = Len(x) /\ n = Len(y)
  BY LenProperties, Zenon
<1>2. Len(x \o y) = m + n /\ \A i \in 1..m : (x \o y)[i] = x[i]
  <2>1. Len(x \o y) = Len(x) + Len(y) /\ \A i \in 1..Len(x) : (x \o y)[i] = x[i]
    OBVIOUS
  <2> QED BY <1>1, <2>1, Zenon
<1>3. Len(ds) = m + n
  BY <1>2, Zenon DEF Answers
<1>4. PICK a \in Seq(Dgrams), b \in Seq(Dgrams) :
        ds = a \o b /\ Len(a) = m /\ \A i \in 1..m : a[i] = ds[i]
  <2>1. \A i \in 1..(m + n) : ds[i] \in Dgrams
    BY <1>3, ElementOfSeq, Zenon
  <2>2. /\ 1 \in Int /\ m \in Int /\ m + 1 \in Int /\ m + n \in Int
        /\ (\A i \in 1..m : i \in 1..(m + n)) /\ (\A i \in (m + 1)..(m + n) : i \in 1..(m + n))
    OBVIOUS
  <2>3. PICK k \in Int, l \in Int : k = m + 1 /\ l = m + n
    BY <2>2, Zenon
  <2>4. (\A i \in 1..m : ds[i] \in Dgrams) /\ (\A i \in k..l : ds[i] \in Dgrams)
    BY <2>1, <2>2, <2>3, Zenon
  <2>5. SubSeq(ds, k, l) \in Seq(Dgrams)
    BY <2>4, SubSeqProperties, Zenon
  <2>6. SubSeq(ds, 1, m) \in Seq(Dgrams)
    BY <2>2, <2>4, SubSeqProperties, Zenon
  <2>7. Len(SubSeq(ds, 1, m)) = m /\ \A i \in 1..m : SubSeq(ds, 1, m)[i] = ds[i]
    <3>1. /\ Len(SubSeq(ds, 1, m)) = IF 1 <= m THEN m - 1 + 1 ELSE 0
          /\ \A i \in 1..(m - 1 + 1) : SubSeq(ds, 1, m)[i] = ds[1 + i - 1]
      BY <2>2, <2>4, SubSeqProperties
    <3>2. (IF 1 <= m THEN m - 1 + 1 ELSE 0) = m /\ m - 1 + 1 = m /\ \A i \in 1..m : 1 + i - 1 = i
      OBVIOUS
    <3> QED BY <3>1, <3>2, Zenon
  <2>8. /\ 1 \in 1..(Len(ds) + 1) /\ m \in (1 - 1)..Len(ds) /\ Len(ds) \in m..Len(ds)
    BY <1>3
  <2>9. SubSeq(ds, 1, m) \o SubSeq(ds, m + 1, Len(ds)) = SubSeq(ds, 1, Len(ds))
    BY <2>8, ConcatAdjacentSubSeq, Zenon
  <2>10. SubSeq(ds, 1, Len(ds)) = ds
    BY SubSeqFull, Zenon
  <2> QED BY <1>3, <2>3, <2>5, <2>6, <2>7, <2>9, <2>10, Zenon
<1>7. ASSUME NEW i \in 1..m
      PROVE  x[i].packet = ToPacket(a[i].addr, a[i].payload)
  <2>1. i \in 1..(m + n)
    OBVIOUS
  <2> QED BY <1>2, <1>3, <1>4, <2>1, Zenon DEF Answers
<1>8. Answers(x, a)
  BY <1>1, <1>4, <1>7, Zenon DEF Answers
<1> QED BY <1>4, <1>8, Zenon

LEMMA DownFresh ==
    ASSUME NEW phase, NEW brk
    PROVE  DownOK(NewPipe(<<>>), phase, brk, <<>>, <<>>)
<1>1. <<>> \in Seq(Dgrams) /\ <<>> \in Seq(Addrs) /\ Len(<<>>) <= 1 /\ <<>> \o <<>> = <<>>
  BY None, Zenon
<1>2. PICK q : q = NewPipe(<<>>)
  OBVIOUS
<1>3. PipeLive(q, <<>>) /\ q.fwd = NewForward
  BY <1>1, <1>2, NewPipeOK, Zenon
<1>4. Pending(q.fwd) = <<>> /\ q.fwd.item = <<>>
  BY <1>3, NewForwardOK, Zenon
<1>5. DownOK(q, phase, brk, <<>>, <<>>)
  BY <1>1, <1>3, <1>4, NoAnswers, Zenon DEF DownOK
<1> QED BY <1>2, <1>5, Zenon

\* The association goes on to another phase.
LEMMA DownPhase ==
    ASSUME NEW p, NEW phase, NEW new, phase # "ended", new # "ended", NEW brk, NEW sent, NEW ans,
           DownOK(p, phase, brk, sent, ans)
    PROVE  DownOK(p, new, brk, sent, ans)
BY Zenon DEF DownOK

\* The server's Forward takes a datagram.
LEMMA DownTaken ==
    ASSUME NEW p, PipeShape(p, Replies), p.item = <<>>, NEW d \in Dgrams,
           NEW phase, NEW brk, NEW sent, NEW ans,
           DownOK(p, phase, brk, sent, ans), NEW q, q = [p EXCEPT !.item = <<d>>]
    PROVE  DownOK(q, phase, brk, sent, ans \o <<d>>)
<1>1. PICK done \in Seq(Dgrams), tail \in Seq(Dgrams) :
        /\ phase # "ended" => /\ ans = done \o (p.fwd.item \o tail)
                              /\ Answers(sent \o Pending(p.fwd), done)
        /\ phase = "ended" => ans = done \o tail /\ Answers(sent, done)
        /\ phase # "ended" /\ ~brk => PipeLive(p, tail)
  BY Zenon DEF DownOK
<1>2. /\ PipeShape(q, Replies) /\ q.wire = p.wire /\ q.fwd = p.fwd
      /\ \A t : PipeLive(p, t) => PipeLive(q, t \o <<d>>)
  BY PipeTake
<1>3. p.fwd \in Forwards(Dgrams, Replies)
  BY PipeFields, Zenon DEF PipeShape
<1>4. PICK y \in Seq(Dgrams) : y = p.fwd.item
  BY <1>3, PendingTyped, Zenon
<1>5. PICK one \in Seq(Dgrams) : one = <<d>>
  BY One, Zenon
<1>6. PICK w \in Seq(Dgrams), z \in Seq(Dgrams) : w = y \o tail /\ z = tail \o one
  BY ConcatProperties, Zenon
<1>7. Assoc(done, w, one)
  BY AssocHolds, Zenon
<1>8. Assoc(y, tail, one)
  BY AssocHolds, Zenon
<1>9. Assoc(done, tail, one)
  BY AssocHolds, Zenon
<1>10. phase # "ended" => ans \o <<d>> = done \o (q.fwd.item \o z)
  BY <1>1, <1>2, <1>4, <1>5, <1>6, <1>7, <1>8, Zenon DEF Assoc
<1>11. phase = "ended" => ans \o <<d>> = done \o z
  BY <1>1, <1>5, <1>6, <1>9, Zenon DEF Assoc
<1>12. phase # "ended" /\ ~brk => PipeLive(q, z)
  BY <1>1, <1>2, <1>5, <1>6, Zenon
<1> QED BY <1>1, <1>2, <1>10, <1>11, <1>12, Zenon DEF DownOK

LEMMA DownMoved ==
    ASSUME NEW p, NEW phase, NEW brk, NEW sent, NEW ans,
           DownOK(p, phase, brk, sent, ans), NEW q, q.fwd = p.fwd, NEW now,
           phase # "ended" /\ ~now
             => ~brk /\ \A tail : PipeLive(p, tail) => PipeLive(q, tail)
    PROVE  DownOK(q, phase, now, sent, ans)
BY Zenon DEF DownOK

LEMMA DownRead ==
    ASSUME NEW p, PipeShape(p, Replies), p.fwd.item = <<>>, Frame(p).st = "ok",
           NEW phase, phase # "ended", NEW brk, ~brk, NEW sent, NEW ans,
           DownOK(p, phase, brk, sent, ans), NEW q, q = FrameTaken(p)
    PROVE  DownOK(q, phase, brk, sent, ans) /\ PipeShape(q, Replies)
<1>1. PICK done \in Seq(Dgrams), tail \in Seq(Dgrams) :
        /\ ans = done \o (p.fwd.item \o tail)
        /\ Answers(sent \o Pending(p.fwd), done)
        /\ PipeLive(p, tail)
  BY Zenon DEF DownOK
<1>2. PipeLive(p, tail)
  BY <1>1, Zenon
<1>3. ReadInto(p, q, Replies, tail)
  BY <1>2, PipeRead, Zenon
<1>4. PICK d \in Dgrams, t \in Seq(Dgrams) :
        /\ tail = <<d>> \o t
        /\ PipeShape(q, Replies) /\ PipeLive(q, t)
        /\ q.fwd.item = <<d>> /\ Pending(q.fwd) = Pending(p.fwd)
  BY <1>3, Zenon DEF ReadInto
<1>5. <<>> \o tail = tail
  BY ConcatEmptySeq, Zenon
<1>6. ans = done \o (q.fwd.item \o t)
  BY <1>1, <1>4, <1>5, Zenon
<1> QED BY <1>1, <1>4, <1>6, Zenon DEF DownOK

\* The client's Forward goes on, and sends s.
LEMMA DownForwarded ==
    ASSUME NEW p, PipeShape(p, Replies), NEW g \in Forwards(Dgrams, Replies), ForwardOK(g),
           NEW s \in Seq(Replies), s \o Pending(g) = Pending(p.fwd), g.item = p.fwd.item,
           NEW phase, phase # "ended", NEW brk, NEW sent \in Seq(Replies), NEW ans,
           DownOK(p, phase, brk, sent, ans), NEW q, q = [p EXCEPT !.fwd = g]
    PROVE  DownOK(q, phase, brk, sent \o s, ans)
<1>1. /\ PipeShape(q, Replies) /\ q.wire = p.wire /\ q.fwd = g
      /\ \A t : PipeLive(p, t) => PipeLive(q, t)
  BY PipeForward
<1>2. PICK u \in Seq(Replies) : u = Pending(g)
  BY PendingTyped, Zenon
<1>3. Assoc(sent, s, u)
  BY AssocHolds, Zenon
<1>4. (sent \o s) \o Pending(q.fwd) = sent \o Pending(p.fwd)
  BY <1>1, <1>2, <1>3, Zenon DEF Assoc
<1> QED BY <1>1, <1>4, Zenon DEF DownOK

\* It passes on its item.
LEMMA DownPushed ==
    ASSUME NEW p, PipeShape(p, Replies), NEW g \in Forwards(Dgrams, Replies), ForwardOK(g),
           NEW d \in Dgrams, p.fwd.item = <<d>>, g.item = <<>>,
           NEW r \in Replies, IsReply(r, d), Pending(g) = Pending(p.fwd) \o <<r>>,
           NEW phase, phase # "ended", NEW brk, NEW sent \in Seq(Replies), NEW ans,
           DownOK(p, phase, brk, sent, ans), NEW q, q = [p EXCEPT !.fwd = g]
    PROVE  DownOK(q, phase, brk, sent, ans)
<1>1. /\ PipeShape(q, Replies) /\ q.wire = p.wire /\ q.fwd = g
      /\ \A t : PipeLive(p, t) => PipeLive(q, t)
  BY PipeForward
<1>2. PICK done \in Seq(Dgrams), tail \in Seq(Dgrams) :
        /\ ans = done \o (p.fwd.item \o tail)
        /\ Answers(sent \o Pending(p.fwd), done)
        /\ ~brk => PipeLive(p, tail)
  BY Zenon DEF DownOK
<1>3. p.fwd \in Forwards(Dgrams, Replies)
  BY PipeFields, Zenon DEF PipeShape
<1>4. PICK u \in Seq(Replies), one \in Seq(Replies) : u = Pending(p.fwd) /\ one = <<r>>
  BY <1>3, PendingTyped, One, Zenon
<1>5. PICK e \in Seq(Dgrams) : e = <<d>>
  BY One, Zenon
<1>6. Assoc(sent, u, one)
  BY AssocHolds, Zenon
<1>7. Assoc(done, e, tail)
  BY AssocHolds, Zenon
<1>8. PICK rs \in Seq(Replies) : rs = sent \o u
  BY ConcatProperties, Zenon
<1>9. PICK es \in Seq(Dgrams) : es = done \o e
  BY ConcatProperties, Zenon
<1>10. Answers(rs, done)
  BY <1>2, <1>4, <1>8, Zenon
<1>11. Answers(rs \o <<r>>, done \o <<d>>)
  BY <1>10, AnswersAppend, Zenon
<1>12. Answers(sent \o Pending(q.fwd), es)
  BY <1>1, <1>4, <1>5, <1>6, <1>8, <1>9, <1>11, Zenon DEF Assoc
<1>13. <<>> \o tail = tail
  BY ConcatEmptySeq, Zenon
<1>14. ans = es \o (q.fwd.item \o tail)
  BY <1>1, <1>2, <1>5, <1>7, <1>9, <1>13, Zenon DEF Assoc
<1> QED BY <1>1, <1>2, <1>12, <1>14, Zenon DEF DownOK

\* The association ends: what it holds is lost.
LEMMA DownEnded ==
    ASSUME NEW p, PipeShape(p, Replies), NEW phase, phase # "ended", NEW brk,
           NEW sent \in Seq(Replies), NEW ans, DownOK(p, phase, brk, sent, ans)
    PROVE  DownOK(p, "ended", brk, sent, ans)
<1>1. PICK done \in Seq(Dgrams), tail \in Seq(Dgrams) :
        /\ ans = done \o (p.fwd.item \o tail)
        /\ Answers(sent \o Pending(p.fwd), done)
  BY Zenon DEF DownOK
<1>2. p.fwd \in Forwards(Dgrams, Replies)
  BY PipeFields, Zenon DEF PipeShape
<1>3. PICK u \in Seq(Replies) : u = Pending(p.fwd)
  BY <1>2, PendingTyped, Zenon
<1>4. PICK y \in Seq(Dgrams) : y = p.fwd.item
  BY <1>2, PendingTyped, Zenon
<1>5. Answers(sent \o u, done)
  BY <1>1, <1>3, Zenon
<1>6. PICK a \in Seq(Dgrams), b \in Seq(Dgrams) : done = a \o b /\ Answers(sent, a)
  BY <1>5, AnswersSplit, Zenon
<1>7. PICK z \in Seq(Dgrams) : z = y \o tail
  BY ConcatProperties, Zenon
<1>8. PICK w \in Seq(Dgrams) : w = b \o z
  BY ConcatProperties, Zenon
<1>9. Assoc(a, b, z)
  BY AssocHolds, Zenon
<1>10. ans = a \o w
  BY <1>1, <1>4, <1>6, <1>7, <1>8, <1>9, Zenon DEF Assoc
<1> QED BY <1>6, <1>10, Zenon DEF DownOK

\* A one-off query gets its reply.
LEMMA DownOneOff ==
    ASSUME NEW p, PipeShape(p, Replies), p.fwd = NewForward, Frame(p).st = "ok",
           NEW phase, phase # "ended", NEW brk, ~brk, NEW ans,
           DownOK(p, phase, brk, <<>>, ans), NEW r,
           IsReply(r, Dgram(Frame(p).value.addr, Frame(p).value.payload))
    PROVE  DownOK(p, "ended", brk, <<r>>, ans)
<1>1. PICK done \in Seq(Dgrams), tail \in Seq(Dgrams) :
        /\ ans = done \o (p.fwd.item \o tail)
        /\ Answers(<<>> \o Pending(p.fwd), done)
        /\ PipeLive(p, tail)
  BY Zenon DEF DownOK
<1>2. Pending(p.fwd) = <<>> /\ p.fwd.item = <<>> /\ <<>> \o <<>> = <<>>
  BY NewForwardOK, None, Zenon
<1>3. Len(done) = 0
  <2>1. Len(<<>>) = 0
    OBVIOUS
  <2> QED BY <1>1, <1>2, <2>1, Zenon DEF Answers
<1>4. done = <<>>
  BY <1>3, EmptySeq
<1>5. <<>> \o tail = tail
  BY ConcatEmptySeq, Zenon
<1>6. ans = tail
  BY <1>1, <1>2, <1>4, <1>5, Zenon
<1>7. PICK q : q = FrameTaken(p)
  OBVIOUS
<1>8. PipeLive(p, tail)
  BY <1>1, Zenon
<1>9. ReadInto(p, q, Replies, tail)
  BY <1>7, <1>8, PipeRead, Zenon
<1>10. PICK d \in Dgrams, t \in Seq(Dgrams) :
         tail = <<d>> \o t /\ d = Dgram(Frame(p).value.addr, Frame(p).value.payload)
  BY <1>9, Zenon DEF ReadInto
<1>11. <<d>> \in Seq(Dgrams)
  BY One, Zenon
<1>12. Answers(<<r>>, <<d>>)
  <2>1. Len(<<r>>) = 1 /\ Len(<<d>>) = 1 /\ <<r>>[1] = r /\ <<d>>[1] = d
    OBVIOUS
  <2>2. \A i \in 1..1 : i = 1
    OBVIOUS
  <2> QED BY <1>10, <2>1, <2>2, Zenon DEF Answers, IsReply
<1> QED BY <1>6, <1>10, <1>11, <1>12, Zenon DEF DownOK

-----------------------------------------------------------------------------
(* What comes from outside.                                                 *)

LEMMA ScriptTyped ==
    ASSUME NEW s \in Scripts
    PROVE  s \in [arrivals : Seq(Arrivals), replies : Seq(SocketDgrams), upstreams : Nat]
<1>1. ScriptOK(s)
  BY ChainAssumption, Zenon
<1>2. PICK R : R = [addr : [kind : {"v4", "v6"}, host : Bytes, port : Bytes], payload : Datagrams]
  OBVIOUS
<1>3. s \in [arrivals : Seq(Arrivals), replies : Seq(R), upstreams : Nat]
  BY <1>1, <1>2, Zenon DEF ScriptOK, Arrivals
<1>4. PICK rs \in Seq(R) : rs = s.replies
  BY <1>3
<1>5. \A i \in DOMAIN rs : IsSocketAddr(rs[i].addr)
  BY <1>1, <1>4, Zenon DEF ScriptOK
<1>6. ASSUME NEW r \in R, IsSocketAddr(r.addr)
      PROVE  r \in SocketDgrams
  <2>1. r.addr \in Addrs
    BY <1>6, AddrsAre, Zenon DEF IsAddress
  <2>2. r = [addr |-> r.addr, payload |-> r.payload] /\ r.payload \in Datagrams
    BY <1>2
  <2>3. r \in Dgrams
    BY <2>1, <2>2 DEF Dgrams
  <2> QED BY <1>6, <2>3, Zenon DEF SocketDgrams
<1>7. DOMAIN rs = 1..Len(rs) /\ \A i \in 1..Len(rs) : rs[i] \in R
  BY ElementOfSeq, LenProperties, Zenon
<1>8. \A i \in 1..Len(rs) : rs[i] \in SocketDgrams
  BY <1>5, <1>6, <1>7, Zenon
<1>9. rs \in Seq(SocketDgrams)
  BY <1>8, SeqDef
<1> QED BY <1>3, <1>4, <1>9

LEMMA SocketAddrIs ==
    ASSUME NEW k \in {"v4", "v6"}, NEW h \in Bytes, NEW p \in Bytes,
           Len(h) = (IF k = "v4" THEN 4 ELSE 16), Len(p) = 2
    PROVE  [kind |-> k, host |-> h, port |-> p] \in Addrs
<1>1. PICK a : a = [kind |-> k, host |-> h, port |-> p]
  OBVIOUS
<1>2. a \in [kind : {"v4", "v6"}, host : Bytes, port : Bytes] /\ a.host = h /\ a.port = p /\ a.kind = k
  BY <1>1
<1>3. IsSocketAddr(a)
  BY <1>2, Zenon DEF IsSocketAddr
<1> QED BY <1>1, <1>3, AddrsAre, Zenon DEF IsAddress

LEMMA ShownTyped ==
    ASSUME NEW family, NEW a, IsSocketAddr(a)
    PROVE  Shown(family, a) \in Addrs
<1>1. a \in Addrs
  BY AddrsAre, Zenon DEF IsAddress
<1>2. CASE family = "v6" /\ a.kind = "v4"
  <2>1. a.host \in Bytes /\ a.port \in Bytes /\ Len(a.host) = 4 /\ Len(a.port) = 2
    BY <1>2 DEF IsSocketAddr
  <2>2. PICK m \in Bytes : m = <<0, 0, 0, 0, 0, 0, 0, 0, 0, 0, 255, 255>> /\ Len(m) = 12
    <3>1. PICK zero \in Byte, all \in Byte : zero = 0 /\ all = 255
      BY DEF Byte
    <3>2. PICK m : m = <<zero, zero, zero, zero, zero, zero, zero, zero, zero, zero, all, all>>
      OBVIOUS
    <3>3. m \in Bytes /\ Len(m) = 12
      BY <3>2 DEF Bytes
    <3> QED BY <3>1, <3>2, <3>3, Zenon
  <2>3. m \o a.host \in Bytes /\ Len(m \o a.host) = Len(m) + Len(a.host)
    BY <2>1, CatBytes, Zenon
  <2>4. 12 + 4 = 16
    OBVIOUS
  <2>5. PICK h \in Bytes : h = m \o a.host /\ Len(h) = 16
    BY <2>1, <2>2, <2>3, <2>4, Zenon
  <2>6. "v6" # "v4" /\ "v6" \in {"v4", "v6"}
    OBVIOUS
  <2>7. [kind |-> "v6", host |-> h, port |-> a.port] \in Addrs
    BY <2>1, <2>5, <2>6, SocketAddrIs, Zenon
  <2>8. Shown(family, a) = [kind |-> "v6", host |-> h, port |-> a.port]
    BY <1>2, <2>2, <2>5 DEF Shown, V6
  <2> QED BY <2>7, <2>8, Zenon
<1>3. CASE ~(family = "v6" /\ a.kind = "v4")
  BY <1>1, <1>3, Zenon DEF Shown
<1> QED BY <1>2, <1>3

LEMMA DefaultTyped == DefaultAddress \in Addrs /\ <<>> \in Datagrams
<1>1. PICK h \in Bytes, p \in Bytes :
        h = <<0, 0, 0, 0>> /\ Len(h) = 4 /\ p = <<0, 0>> /\ Len(p) = 2
  <2>1. PICK zero \in Byte : zero = 0
    BY DEF Byte
  <2>2. PICK h : h = <<zero, zero, zero, zero>>
    OBVIOUS
  <2>3. PICK p : p = <<zero, zero>>
    OBVIOUS
  <2>4. h \in Bytes /\ Len(h) = 4 /\ p \in Bytes /\ Len(p) = 2
    BY <2>2, <2>3 DEF Bytes
  <2> QED BY <2>1, <2>2, <2>3, <2>4, Zenon
<1>2. "v4" \in {"v4", "v6"}
  OBVIOUS
<1>3. [kind |-> "v4", host |-> h, port |-> p] \in Addrs
  BY <1>1, <1>2, SocketAddrIs, Zenon
<1>4. <<>> \in Bytes
  BY FewBytes, Zenon
<1>5. Len(<<>>) <= MaxDatagram
  BY DEF MaxDatagram
<1>6. <<>> \in Datagrams
  BY <1>4, <1>5, Zenon DEF Datagrams
<1> QED BY <1>1, <1>3, <1>6, Zenon DEF DefaultAddress, V4

\* The datagram that has arrived at the relay socket.
LEMMA ArrivedTyped ==
    ASSUME Types, RelayReads
    PROVE  /\ relay' \in [queue : Seq(Arrivals), last : Senders]
           /\ Arrived.st = "ok" => Dgram(Arrived.value.addr, Arrived.value.payload) \in Dgrams
<1>1. PICK q \in Seq(Arrivals) : q = relay.queue /\ q # <<>>
  BY DEF Types, RelayReads
<1>2. PICK h \in Arrivals, t \in Seq(Arrivals) : h = Head(q) /\ t = Tail(q)
  BY <1>1, HeadTailProperties, Zenon
<1>3. h.from \in Senders /\ h.bytes \in Datagrams
  BY DEF Arrivals, Senders
<1>4. relay' = [queue |-> t, last |-> h.from]
  BY <1>1, <1>2, Zenon DEF RelayReads
<1>5. relay' \in [queue : Seq(Arrivals), last : Senders]
  BY <1>3, <1>4
<1>6. ASSUME Arrived.st = "ok"
      PROVE  Dgram(Arrived.value.addr, Arrived.value.payload) \in Dgrams
  <2>1. Arrived = CheckPacket(h.bytes)
    BY <1>1, <1>2, Zenon DEF Arrived
  <2>2. Arrived.value.addr \in Addrs /\ Arrived.value.payload \in Datagrams
    BY <1>3, <1>6, <2>1, PacketTyped, Zenon
  <2> QED BY <2>2, DgramIs, Zenon
<1> QED BY <1>5, <1>6

LEMMA ReceivedIs ==
    ASSUME NEW d \in Dgrams, Writable(d.addr), assoc.first = d
    PROVE  Dgram(Received.dst, Received.data) = d /\ Received.dst = d.addr
<1>1. d.addr \in Addrs /\ d.payload \in Datagrams /\ d = Dgram(d.addr, d.payload)
  BY DgramParts, Zenon
<1>2. /\ ParseRequest(ToVec(RequestUdp, d.addr, d.payload)).value.dst = d.addr
      /\ ParseRequest(ToVec(RequestUdp, d.addr, d.payload)).value.data = d.payload
  BY <1>1, RequestReceived, Zenon
<1> QED BY <1>1, <1>2, Zenon DEF Received

LEMMA ReplyTyped ==
    ASSUME Types, NEW d \in Dgrams
    PROVE  Reply(d) \in Replies /\ IsReply(Reply(d), d)
<1>1. relay.last \in Senders
  BY DEF Types
<1>2. PICK k : k = ToPacket(d.addr, d.payload)
  OBVIOUS
<1>3. Reply(d) = [to |-> relay.last, packet |-> k]
  BY <1>2, Zenon DEF Reply
<1>4. k \in {ToPacket(e.addr, e.payload) : e \in Dgrams}
  BY <1>2
<1>5. PICK K : K = {ToPacket(e.addr, e.payload) : e \in Dgrams}
  OBVIOUS
<1>6. Replies = [to : Senders, packet : K]
  BY <1>5, Zenon DEF Replies
<1>7. Reply(d) \in [to : Senders, packet : K] /\ Reply(d).packet = k
  BY <1>1, <1>3, <1>4, <1>5
<1> QED BY <1>2, <1>6, <1>7, Zenon DEF IsReply

-----------------------------------------------------------------------------
(* The steps.                                                               *)

LEMMA InitInv == Init => IInv
<1> SUFFICES ASSUME Init PROVE IInv
  OBVIOUS
<1>1. script \in [arrivals : Seq(Arrivals), replies : Seq(SocketDgrams), upstreams : Nat]
  BY ScriptTyped, Zenon DEF Init
<1>2. PICK d \in Dgrams : d = Dgram(DefaultAddress, <<>>)
  BY DefaultTyped, DgramIs, Zenon
<1>3. assoc = [phase |-> "first", first |-> d, left |-> script.upstreams]
  BY <1>2, Zenon DEF Init
<1>4. PICK n \in Nat : n = script.upstreams
  BY <1>1
<1>5. <<>> \in Seq(Arrivals) /\ <<>> \in Seq(Dgrams) /\ <<>> \in Seq(Replies) /\ <<>> \in Seq(Addrs)
      /\ Len(<<>>) <= 1
  BY None, Zenon
<1>6. Types
  <2>1. relay \in [queue : Seq(Arrivals), last : Senders]
    BY <1>5 DEF Init, Senders
  <2>2. assoc \in [phase : {"first", "trying", "relaying", "oneOff", "ended"}, first : Dgrams,
                   left : Nat]
    BY <1>3, <1>4
  <2>3. server \in [phase : {"none", "running", "ended"}, family : {"v4", "v6"},
                    queue : Seq(Dgrams)]
    BY <1>5 DEF Init, NoServer
  <2>4. broken \in BOOLEAN
    BY DEF Init
  <2> QED BY <1>1, <1>5, <2>1, <2>2, <2>3, <2>4, Zenon DEF Types, Init
<1>7. PipesOK
  BY <1>5, NewPipeOK, Zenon DEF Init, PipesOK
<1>8. assoc.phase = "first" /\ server.phase = "none" /\ assoc.left = n /\ assoc.first = d
  BY <1>3, <1>4 DEF Init, NoServer
<1>9. Phases
  BY <1>4, <1>8 DEF Init, Phases
<1>10. n - n \in Nat /\ script.upstreams - assoc.left = n - n
  BY <1>4, <1>8
<1>11. UpOK(up, "none", broken, <<>>, taken, assoc.first, n - n)
  BY <1>10, UpFresh, Zenon
<1>12. UpKept
  BY <1>8, <1>10, <1>11, Zenon DEF UpKept, Init
<1>13. DownOK(NewPipe(<<>>), assoc.phase, broken, <<>>, <<>>)
  BY DownFresh, Zenon
<1>14. DownKept
  BY <1>13, Zenon DEF DownKept, Init
<1> QED BY <1>6, <1>7, <1>9, <1>12, <1>14, Zenon DEF IInv

\* The pipe to the target changes, with its two ends.
LEMMA UpStep ==
    ASSUME IInv, server.phase # "none",
           UNCHANGED <<script, assoc, down, server, broken, got, answered>>,
           relay' \in [queue : Seq(Arrivals), last : Senders],
           PipeShape(up', Dgrams), broken => up'.wire = <<>>,
           target' \in Seq(Dgrams), taken' \in Seq(Dgrams),
           UpOK(up', server.phase, broken, target', taken', assoc.first,
                script.upstreams - assoc.left)
    PROVE  IInv'
<1>1. Types /\ PipesOK /\ Phases /\ UpKept /\ DownKept
  BY Zenon DEF IInv
<1>2. Types'
  BY <1>1, Zenon DEF Types
<1>3. PipesOK'
  BY <1>1, Zenon DEF PipesOK
<1>4. Phases'
  BY <1>1 DEF Phases
<1>5. UpKept'
  BY Zenon DEF UpKept
<1>6. DownKept'
  BY <1>1, Zenon DEF DownKept
<1> QED BY <1>2, <1>3, <1>4, <1>5, <1>6, Zenon DEF IInv

\* The pipe back changes, with its two ends.
LEMMA DownStep ==
    ASSUME IInv, server.phase # "none",
           UNCHANGED <<script, relay, assoc, up, broken, target, taken>>,
           server' \in [phase : {"none", "running", "ended"}, family : {"v4", "v6"},
                        queue : Seq(Dgrams)],
           server'.phase = server.phase,
           PipeShape(down', Replies), broken => down'.wire = <<>>,
           got' \in Seq(Replies), answered' \in Seq(Dgrams),
           assoc.phase = "oneOff" => down'.fwd = down.fwd /\ got' = got,
           DownOK(down', assoc.phase, broken, got', answered')
    PROVE  IInv'
<1>1. Types /\ PipesOK /\ Phases /\ UpKept /\ DownKept
  BY Zenon DEF IInv
<1>2. Types'
  BY <1>1, Zenon DEF Types
<1>3. PipesOK'
  BY <1>1, Zenon DEF PipesOK
<1>4. Phases'
  BY <1>1 DEF Phases
<1>5. UpKept'
  BY <1>1, Zenon DEF UpKept
<1>6. DownKept'
  BY Zenon DEF DownKept
<1> QED BY <1>2, <1>3, <1>4, <1>5, <1>6, Zenon DEF IInv

\* The association ends, for whatever reason.
LEMMA AssocStep ==
    ASSUME IInv, assoc.phase # "ended", EndAssoc,
           UNCHANGED <<script, relay, up, down, server, broken, target, got, taken, answered>>
    PROVE  IInv'
<1>1. Types /\ PipesOK /\ Phases /\ UpKept /\ DownKept
  BY Zenon DEF IInv
<1>2. PICK d \in Dgrams, l \in Nat : d = assoc.first /\ l = assoc.left
  BY <1>1 DEF Types
<1>3. assoc' = [phase |-> "ended", first |-> d, left |-> l]
  BY <1>1, <1>2 DEF EndAssoc, Types
<1>4. assoc'.phase = "ended" /\ assoc'.first = assoc.first /\ assoc'.left = assoc.left
  BY <1>2, <1>3
<1>5. assoc' \in [phase : {"first", "trying", "relaying", "oneOff", "ended"}, first : Dgrams,
                  left : Nat]
  BY <1>3
<1>6. Types'
  BY <1>1, <1>5, Zenon DEF Types
<1>7. PipesOK'
  BY <1>1, Zenon DEF PipesOK
<1>8. Phases'
  BY <1>1, <1>4 DEF Phases
<1>9. UpKept'
  BY <1>1, <1>4, Zenon DEF UpKept
<1>10. PipeShape(down, Replies) /\ got \in Seq(Replies)
       /\ DownOK(down, assoc.phase, broken, got, answered)
  BY <1>1, Zenon DEF PipesOK, Types, DownKept
<1>11. DownOK(down, "ended", broken, got, answered)
  BY <1>10, DownEnded, Zenon
<1>12. DownKept'
  BY <1>4, <1>11, Zenon DEF DownKept
<1> QED BY <1>6, <1>7, <1>8, <1>9, <1>12, Zenon DEF IInv

\* The server's session ends.
LEMMA ServerStep ==
    ASSUME IInv, server.phase = "running", EndServer,
           UNCHANGED <<script, relay, assoc, up, down, broken, target, got, taken, answered>>
    PROVE  IInv'
<1>1. Types /\ PipesOK /\ Phases /\ UpKept /\ DownKept
  BY Zenon DEF IInv
<1>2. PICK f \in {"v4", "v6"}, q \in Seq(Dgrams) : f = server.family /\ q = server.queue
  BY <1>1 DEF Types
<1>3. server' = [phase |-> "ended", family |-> f, queue |-> q]
  BY <1>1, <1>2 DEF EndServer, Types
<1>4. server'.phase = "ended"
  BY <1>3
<1>5. server' \in [phase : {"none", "running", "ended"}, family : {"v4", "v6"}, queue : Seq(Dgrams)]
  BY <1>3
<1>6. Types'
  BY <1>1, <1>5, Zenon DEF Types
<1>7. PipesOK'
  BY <1>1, Zenon DEF PipesOK
<1>8. Phases'
  BY <1>1, <1>4 DEF Phases
<1>9. PipeShape(up, Dgrams)
      /\ UpOK(up, "running", broken, target, taken, assoc.first, script.upstreams - assoc.left)
  BY <1>1, Zenon DEF PipesOK, UpKept
<1>10. UpOK(up, "ended", broken, target, taken, assoc.first, script.upstreams - assoc.left)
  BY <1>9, UpEnded, Zenon
<1>11. UpKept'
  BY <1>4, <1>10, Zenon DEF UpKept
<1>12. DownKept'
  BY <1>1, Zenon DEF DownKept
<1> QED BY <1>6, <1>7, <1>8, <1>11, <1>12, Zenon DEF IInv

LEMMA ArrivesKeeps == ASSUME IInv, Arrives PROVE IInv'
<1>1. Types /\ PipesOK /\ Phases /\ UpKept /\ DownKept
  BY Zenon DEF IInv
<1>2. PICK as \in Seq(Arrivals), rs \in Seq(SocketDgrams), n \in Nat :
        script = [arrivals |-> as, replies |-> rs, upstreams |-> n]
  BY <1>1 DEF Types
<1>3. as # <<>>
  BY <1>2 DEF Arrives
<1>4. PICK h \in Arrivals, t \in Seq(Arrivals) : h = Head(as) /\ t = Tail(as)
  BY <1>3, HeadTailProperties, Zenon
<1>5. script' = [arrivals |-> t, replies |-> rs, upstreams |-> n]
  BY <1>2, <1>4 DEF Arrives
<1>6. script'.upstreams = script.upstreams
      /\ script' \in [arrivals : Seq(Arrivals), replies : Seq(SocketDgrams), upstreams : Nat]
  BY <1>2, <1>5
<1>7. PICK q \in Seq(Arrivals), l \in Senders : relay = [queue |-> q, last |-> l]
  BY <1>1 DEF Types
<1>8. PICK r \in Seq(Arrivals) : r = Append(q, h)
  BY AppendProperties, Zenon
<1>9. relay' = [queue |-> r, last |-> l]
  BY <1>2, <1>4, <1>7, <1>8 DEF Arrives
<1>10. relay' \in [queue : Seq(Arrivals), last : Senders]
  BY <1>9
<1>11. UNCHANGED <<assoc, up, down, server, broken, target, got, taken, answered>>
  BY Zenon DEF Arrives
<1>12. Types'
  BY <1>1, <1>6, <1>10, <1>11, Zenon DEF Types
<1>13. PipesOK' /\ DownKept'
  BY <1>1, <1>11, Zenon DEF PipesOK, DownKept
<1>14. Phases'
  BY <1>1, <1>6, <1>11, Zenon DEF Phases
<1>15. UpKept'
  BY <1>1, <1>6, <1>11, Zenon DEF UpKept
<1> QED BY <1>12, <1>13, <1>14, <1>15, Zenon DEF IInv

LEMMA AppClosesKeeps == ASSUME IInv, AppCloses PROVE IInv'
<1>1. Types /\ PipesOK /\ Phases /\ UpKept /\ DownKept
  BY Zenon DEF IInv
<1>2. UNCHANGED <<script, relay, assoc, up, down, server, broken, target, got, taken, answered>>
  BY Zenon DEF AppCloses
<1>3. Types'
  BY <1>1, <1>2, Zenon DEF Types
<1>4. PipesOK' /\ DownKept'
  BY <1>1, <1>2, Zenon DEF PipesOK, DownKept
<1>5. Phases'
  BY <1>1, <1>2, Zenon DEF Phases
<1>6. UpKept'
  BY <1>1, <1>2, Zenon DEF UpKept
<1> QED BY <1>3, <1>4, <1>5, <1>6, Zenon DEF IInv

LEMMA TargetRepliesKeeps == ASSUME IInv, TargetReplies PROVE IInv'
<1>1. Types /\ PipesOK /\ Phases /\ UpKept /\ DownKept
  BY Zenon DEF IInv
<1>2. PICK as \in Seq(Arrivals), rs \in Seq(SocketDgrams), n \in Nat :
        script = [arrivals |-> as, replies |-> rs, upstreams |-> n]
  BY <1>1 DEF Types
<1>3. rs # <<>>
  BY <1>2 DEF TargetReplies
<1>4. PICK h \in SocketDgrams, t \in Seq(SocketDgrams) : h = Head(rs) /\ t = Tail(rs)
  BY <1>3, HeadTailProperties, Zenon
<1>5. script' = [arrivals |-> as, replies |-> t, upstreams |-> n]
  BY <1>2, <1>4 DEF TargetReplies
<1>6. script'.upstreams = script.upstreams
      /\ script' \in [arrivals : Seq(Arrivals), replies : Seq(SocketDgrams), upstreams : Nat]
  BY <1>2, <1>5
<1>7. PICK f \in {"v4", "v6"}, q \in Seq(Dgrams) :
        server = [phase |-> "running", family |-> f, queue |-> q]
  BY <1>1 DEF Types, TargetReplies
<1>8. h \in Dgrams /\ IsSocketAddr(h.addr)
  BY Zenon DEF SocketDgrams
<1>9. PICK d \in Dgrams : d = Dgram(Shown(f, h.addr), h.payload)
  BY <1>8, ShownTyped, DgramParts, DgramIs, Zenon
<1>10. PICK r \in Seq(Dgrams) : r = Append(q, d)
  BY AppendProperties, Zenon
<1>11. server' = [phase |-> "running", family |-> f, queue |-> r]
  <2>1. server.family = f /\ Head(script.replies) = h
    BY <1>2, <1>4, <1>7
  <2>2. server' = [server EXCEPT !.queue = Append(@, d)]
    BY <1>9, <2>1, Zenon DEF TargetReplies
  <2> QED BY <1>7, <1>10, <2>2
<1>12. server'.phase = server.phase
       /\ server' \in [phase : {"none", "running", "ended"}, family : {"v4", "v6"},
                       queue : Seq(Dgrams)]
  BY <1>7, <1>11
<1>13. UNCHANGED <<relay, assoc, up, down, broken, target, got, taken, answered>>
  BY Zenon DEF TargetReplies
<1>14. Types'
  BY <1>1, <1>6, <1>12, <1>13, Zenon DEF Types
<1>15. PipesOK' /\ DownKept'
  BY <1>1, <1>13, Zenon DEF PipesOK, DownKept
<1>16. Phases'
  BY <1>1, <1>6, <1>12, <1>13, Zenon DEF Phases
<1>17. UpKept'
  BY <1>1, <1>6, <1>12, <1>13, Zenon DEF UpKept
<1> QED BY <1>14, <1>15, <1>16, <1>17, Zenon DEF IInv

LEMMA ConnectionBreaksKeeps == ASSUME IInv, ConnectionBreaks PROVE IInv'
<1>1. Types /\ PipesOK /\ Phases /\ UpKept /\ DownKept
  BY Zenon DEF IInv
<1>2. /\ server.phase = "running" /\ broken' = TRUE
      /\ up' = [up EXCEPT !.wire = <<>>] /\ down' = [down EXCEPT !.wire = <<>>]
      /\ UNCHANGED <<script, relay, assoc, server, target, got, taken, answered>>
  BY Zenon DEF ConnectionBreaks
<1>3. PipeShape(up, Dgrams) /\ PipeShape(down, Replies)
  BY <1>1, Zenon DEF PipesOK
<1>4. PipeShape(up', Dgrams) /\ up'.wire = <<>> /\ up'.fwd = up.fwd
  BY <1>2, <1>3, PipeBreaks
<1>5. PipeShape(down', Replies) /\ down'.wire = <<>> /\ down'.fwd = down.fwd
  BY <1>2, <1>3, PipeBreaks
<1>6. Types'
  <2>1. broken' \in BOOLEAN
    BY <1>2
  <2> QED BY <1>1, <1>2, <2>1, Zenon DEF Types
<1>7. PipesOK'
  BY <1>4, <1>5, Zenon DEF PipesOK
<1>8. Phases'
  BY <1>1, <1>2, <1>4, <1>5 DEF Phases
<1>9. UpOK(up', server.phase, broken', target, taken, assoc.first, script.upstreams - assoc.left)
  BY <1>1, <1>2, <1>4, UpMoved, Zenon DEF UpKept
<1>10. UpKept'
  BY <1>2, <1>9, Zenon DEF UpKept
<1>11. DownOK(down', assoc.phase, broken', got, answered)
  BY <1>1, <1>2, <1>5, DownMoved, Zenon DEF DownKept
<1>12. DownKept'
  BY <1>2, <1>11, Zenon DEF DownKept
<1> QED BY <1>6, <1>7, <1>8, <1>10, <1>12, Zenon DEF IInv

LEMMA FirstPacketKeeps == ASSUME IInv, FirstPacket PROVE IInv'
<1>1. Types /\ PipesOK /\ Phases /\ UpKept /\ DownKept
  BY Zenon DEF IInv
<1>2. /\ assoc.phase = "first" /\ RelayReads
      /\ UNCHANGED <<script, up, down, server, broken, target, got, answered>>
  BY Zenon DEF FirstPacket
<1>3. /\ relay' \in [queue : Seq(Arrivals), last : Senders]
      /\ Arrived.st = "ok" => Dgram(Arrived.value.addr, Arrived.value.payload) \in Dgrams
  BY <1>1, <1>2, ArrivedTyped, Zenon
<1>4. PipesOK'
  BY <1>1, <1>2, Zenon DEF PipesOK
<1>5. CASE Arrived.st = "ok"
  <2>1. PICK d \in Dgrams : d = Dgram(Arrived.value.addr, Arrived.value.payload)
    BY <1>3, <1>5, Zenon
  <2>2. PICK l \in Nat, e \in Dgrams : assoc = [phase |-> "first", first |-> e, left |-> l]
    BY <1>1, <1>2 DEF Types
  <2>3. assoc' = [phase |-> "trying", first |-> d, left |-> l] /\ taken' = <<assoc'.first>>
    <3>1. assoc' = [assoc EXCEPT !.phase = "trying", !.first = d] /\ taken' = <<assoc'.first>>
      BY <1>5, <2>1, Zenon DEF FirstPacket
    <3> QED BY <2>2, <3>1
  <2>4. assoc'.phase = "trying" /\ assoc'.first = d /\ assoc'.left = assoc.left /\ l = assoc.left
        /\ assoc' \in [phase : {"first", "trying", "relaying", "oneOff", "ended"}, first : Dgrams,
                       left : Nat]
    BY <2>2, <2>3
  <2>5. taken' \in Seq(Dgrams)
    BY <2>3, <2>4, One, Zenon
  <2>6. Types'
    BY <1>1, <1>2, <1>3, <2>4, <2>5, Zenon DEF Types
  <2>7. Phases'
    BY <1>1, <1>2, <2>3, <2>4 DEF Phases
  <2>8. PICK m \in Nat : m = script.upstreams - assoc.left
    BY <1>1 DEF Types, Phases
  <2>9. server.phase = "none" /\ target = <<>>
    BY <1>1, <1>2 DEF Phases
  <2>10. UpOK(up, "none", broken, <<>>, taken', assoc'.first, m)
    BY UpFresh, Zenon
  <2>11. UpKept'
    BY <1>2, <2>4, <2>8, <2>9, <2>10, Zenon DEF UpKept
  <2>12. "first" # "ended" /\ "trying" # "ended"
    OBVIOUS
  <2>13. DownOK(down, "first", broken, got, answered)
    BY <1>1, <1>2, Zenon DEF DownKept
  <2>14. DownOK(down, "trying", broken, got, answered)
    BY <2>12, <2>13, DownPhase, Zenon
  <2>15. DownKept'
    BY <1>2, <2>4, <2>14, Zenon DEF DownKept
  <2> QED BY <1>4, <2>6, <2>7, <2>11, <2>15, Zenon DEF IInv
<1>6. CASE Arrived.st # "ok"
  <2>1. UNCHANGED <<assoc, taken>>
    BY <1>6, Zenon DEF FirstPacket
  <2>2. Types'
    BY <1>1, <1>2, <1>3, <2>1, Zenon DEF Types
  <2>3. Phases'
    BY <1>1, <1>2, <2>1, Zenon DEF Phases
  <2>4. UpKept' /\ DownKept'
    BY <1>1, <1>2, <2>1, Zenon DEF UpKept, DownKept
  <2> QED BY <1>4, <2>2, <2>3, <2>4, Zenon DEF IInv
<1> QED BY <1>5, <1>6

\* An upstream has been tried, and t has been sent to targets now.
LEMMA TriedStep ==
    ASSUME IInv, assoc.phase = "trying", assoc.left > 0, NextUpstream,
           UNCHANGED <<script, relay, up, down, server, broken, got, taken, answered>>,
           target' \in Seq(Dgrams),
           NEW m \in Int, m = script.upstreams - assoc.left,
           UpOK(up, "none", broken, target', taken, assoc.first, m + 1)
    PROVE  IInv'
<1>1. Types /\ PipesOK /\ Phases /\ UpKept /\ DownKept
  BY Zenon DEF IInv
<1>2. PICK d \in Dgrams, l \in Nat : assoc = [phase |-> "trying", first |-> d, left |-> l]
  BY <1>1 DEF Types
<1>3. assoc' = [phase |-> "trying", first |-> d, left |-> l - 1]
  BY <1>2 DEF NextUpstream
<1>4. /\ assoc'.phase = assoc.phase /\ assoc'.first = assoc.first /\ assoc'.left = l - 1
      /\ assoc.left = l /\ l - 1 \in Nat
      /\ assoc' \in [phase : {"first", "trying", "relaying", "oneOff", "ended"}, first : Dgrams,
                     left : Nat]
  BY <1>2, <1>3
<1>5. Types'
  BY <1>1, <1>4, Zenon DEF Types
<1>6. PipesOK' /\ DownKept'
  BY <1>1, <1>4, Zenon DEF PipesOK, DownKept
<1>7. PICK n \in Nat : n = script.upstreams
  BY <1>1 DEF Types
<1>8. Phases'
  BY <1>1, <1>4, <1>7 DEF Phases
<1>9. server.phase = "none"
  BY <1>1 DEF Phases
<1>10. n - (l - 1) = m + 1
  <2>1. m = n - l
    BY <1>4, <1>7, Zenon
  <2> QED BY <2>1
<1>11. UpKept'
  BY <1>4, <1>7, <1>9, <1>10, Zenon DEF UpKept
<1> QED BY <1>5, <1>6, <1>8, <1>11, Zenon DEF IInv

LEMMA UpstreamFailsKeeps == ASSUME IInv, UpstreamFails PROVE IInv'
<1>1. Types /\ Phases /\ UpKept
  BY Zenon DEF IInv
<1>2. /\ assoc.phase = "trying" /\ assoc.left > 0 /\ NextUpstream
      /\ UNCHANGED <<script, relay, up, down, server, broken, target, got, taken, answered>>
  BY Zenon DEF UpstreamFails
<1>3. PICK m \in Int : m = script.upstreams - assoc.left
  BY <1>1 DEF Types
<1>4. server.phase = "none"
  BY <1>1, <1>2 DEF Phases
<1>5. UpOK(up, "none", broken, target, taken, assoc.first, m)
  BY <1>1, <1>3, <1>4, Zenon DEF UpKept
<1>6. UpOK(up, "none", broken, target, taken, assoc.first, m + 1)
  BY <1>5, UpTried, Zenon
<1>7. target' \in Seq(Dgrams) /\ UpOK(up, "none", broken, target', taken, assoc.first, m + 1)
  BY <1>1, <1>2, <1>6, Zenon DEF Types
<1> QED BY <1>2, <1>3, <1>7, TriedStep, Zenon

LEMMA UpstreamFailsLateKeeps == ASSUME IInv, UpstreamFailsLate PROVE IInv'
<1>1. Types /\ Phases /\ UpKept
  BY Zenon DEF IInv
<1>2. /\ assoc.phase = "trying" /\ assoc.left > 0 /\ NextUpstream /\ Writable(assoc.first.addr)
      /\ target' = Append(target, Dgram(Received.dst, Received.data))
      /\ UNCHANGED <<script, relay, up, down, server, broken, got, taken, answered>>
  BY Zenon DEF UpstreamFailsLate
<1>3. PICK m \in Int : m = script.upstreams - assoc.left
  BY <1>1 DEF Types
<1>4. PICK d \in Dgrams : d = assoc.first
  BY <1>1 DEF Types
<1>5. Dgram(Received.dst, Received.data) = d
  BY <1>2, <1>4, ReceivedIs, Zenon
<1>6. server.phase = "none"
  BY <1>1, <1>2 DEF Phases
<1>7. UpOK(up, "none", broken, target, taken, d, m)
  BY <1>1, <1>3, <1>4, <1>6, Zenon DEF UpKept
<1>8. UpOK(up, "none", broken, Append(target, d), taken, d, m + 1)
  BY <1>7, UpTriedLate, Zenon
<1>9. target \in Seq(Dgrams)
  BY <1>1, Zenon DEF Types
<1>10. Append(target, d) \in Seq(Dgrams)
  BY <1>9, AppendProperties, Zenon
<1>11. target' \in Seq(Dgrams) /\ UpOK(up, "none", broken, target', taken, assoc.first, m + 1)
  BY <1>2, <1>4, <1>5, <1>8, <1>10, Zenon
<1> QED BY <1>2, <1>3, <1>11, TriedStep, Zenon

LEMMA UpstreamConnectsKeeps == ASSUME IInv, UpstreamConnects PROVE IInv'
<1>1. Types /\ PipesOK /\ Phases /\ UpKept /\ DownKept
  BY Zenon DEF IInv
<1>2. /\ assoc.phase = "trying" /\ assoc.left > 0 /\ Writable(assoc.first.addr)
      /\ server' = [phase |-> "running", family |-> Family(Received.dst), queue |-> <<>>]
      /\ target' = Append(target, Dgram(Received.dst, Received.data))
      /\ up' = NewPipe(<<Received.dst>>)
      /\ UNCHANGED <<script, relay, down, broken, got, taken, answered>>
  BY Zenon DEF UpstreamConnects
<1>3. PICK d \in Dgrams, l \in Nat : assoc = [phase |-> "trying", first |-> d, left |-> l]
  BY <1>1, <1>2 DEF Types
<1>4. PICK ph \in {"oneOff", "relaying"} : assoc' = [phase |-> ph, first |-> d, left |-> l - 1]
  <2>1. PICK ph \in {"oneOff", "relaying"} : assoc' = [assoc EXCEPT !.left = @ - 1, !.phase = ph]
    BY DEF UpstreamConnects
  <2> QED BY <1>3, <2>1
<1>5. /\ assoc'.phase = ph /\ assoc'.first = assoc.first /\ assoc'.left = l - 1
      /\ assoc.first = d /\ assoc.left = l /\ l - 1 \in Nat
      /\ assoc' \in [phase : {"first", "trying", "relaying", "oneOff", "ended"}, first : Dgrams,
                     left : Nat]
  BY <1>2, <1>3, <1>4
<1>6. Dgram(Received.dst, Received.data) = d /\ Received.dst = d.addr
  BY <1>2, <1>5, ReceivedIs, Zenon
<1>7. PICK a \in Addrs : a = Received.dst
  BY <1>6, DgramParts, Zenon
<1>8. <<a>> \in Seq(Addrs) /\ Len(<<a>>) <= 1
  BY One, Zenon
<1>9. PipeShape(up', Dgrams)
  BY <1>2, <1>7, <1>8, NewPipeOK, Zenon
<1>10. Family(a) \in {"v4", "v6"} /\ <<>> \in Seq(Dgrams)
  BY None DEF Family
<1>11. server' \in [phase : {"none", "running", "ended"}, family : {"v4", "v6"}, queue : Seq(Dgrams)]
       /\ server'.phase = "running"
  <2>1. PICK f \in {"v4", "v6"} : f = Family(a)
    BY <1>10, Zenon
  <2>2. server' = [phase |-> "running", family |-> f, queue |-> <<>>]
    BY <1>2, <1>7, <2>1, Zenon
  <2> QED BY <1>10, <2>2
<1>12. target \in Seq(Dgrams)
  BY <1>1, Zenon DEF Types
<1>13. Append(target, d) \in Seq(Dgrams)
  BY <1>12, AppendProperties, Zenon
<1>14. Types'
  BY <1>1, <1>2, <1>5, <1>6, <1>11, <1>13, Zenon DEF Types
<1>15. PipesOK'
  BY <1>1, <1>2, <1>9, Zenon DEF PipesOK
<1>16. server.phase = "none" /\ down = NewPipe(<<>>) /\ ~broken /\ got = <<>> /\ answered = <<>>
       /\ taken = <<assoc.first>>
  BY <1>1, <1>2 DEF Phases
<1>17. PICK n \in Nat : n = script.upstreams /\ l <= n
  BY <1>1, <1>5 DEF Types, Phases
<1>18. down.fwd = NewForward
  <2>1. <<>> \in Seq(Addrs) /\ Len(<<>>) <= 1
    BY None, Zenon
  <2> QED BY <1>16, <2>1, NewPipeOK, Zenon
<1>19. Phases'
  BY <1>2, <1>5, <1>11, <1>16, <1>17, <1>18 DEF Phases
<1>20. PICK m \in Int : m = n - l
  OBVIOUS
<1>21. UpOK(up, "none", broken, target, taken, d, m)
  BY <1>1, <1>5, <1>16, <1>17, <1>20, Zenon DEF UpKept
<1>22. taken = <<d>>
  BY <1>5, <1>16, Zenon
<1>23. UpOK(NewPipe(<<a>>), "running", broken, Append(target, d), taken, d, m + 1)
  BY <1>8, <1>21, <1>22, UpConnected, Zenon
<1>24. n - (l - 1) = m + 1
  BY <1>20
<1>25. UpKept'
  BY <1>2, <1>5, <1>6, <1>7, <1>11, <1>17, <1>23, <1>24, Zenon DEF UpKept
<1>26. DownOK(NewPipe(<<>>), ph, broken, <<>>, <<>>)
  BY DownFresh, Zenon
<1>27. DownKept'
  BY <1>2, <1>5, <1>16, <1>26, Zenon DEF DownKept
<1> QED BY <1>14, <1>15, <1>19, <1>25, <1>27, Zenon DEF IInv

LEMMA FrameNeedsWire ==
    ASSUME NEW p, p.wire = <<>>
    PROVE  Frame(p).st # "ok"
<1>1. Frame(p) = Incomplete
  BY NoBytes, Zenon DEF Frame
<1>2. Incomplete.st # "ok"
  BY DEF Incomplete
<1> QED BY <1>1, <1>2, Zenon

LEMMA OneOffRepliedKeeps == ASSUME IInv, OneOffReplied PROVE IInv'
<1>1. Types /\ PipesOK /\ Phases /\ UpKept /\ DownKept
  BY Zenon DEF IInv
<1>2. /\ assoc.phase = "oneOff" /\ Frame(down).st = "ok" /\ EndAssoc
      /\ UNCHANGED <<script, relay, up, down, server, broken, target, taken, answered>>
  BY Zenon DEF OneOffReplied
<1>3. PICK d, r : /\ d = Dgram(Frame(down).value.addr, Frame(down).value.payload) /\ r = Reply(d)
                  /\ got' = Append(got, r)
  BY Zenon DEF OneOffReplied
<1>4. PICK e \in Dgrams, l \in Nat : assoc = [phase |-> "oneOff", first |-> e, left |-> l]
  BY <1>1, <1>2 DEF Types
<1>5. assoc' = [phase |-> "ended", first |-> e, left |-> l]
  BY <1>2, <1>4 DEF EndAssoc
<1>6. assoc'.phase = "ended" /\ assoc'.first = assoc.first /\ assoc'.left = assoc.left
      /\ assoc' \in [phase : {"first", "trying", "relaying", "oneOff", "ended"}, first : Dgrams,
                     left : Nat]
  BY <1>4, <1>5
<1>7. down.fwd = NewForward /\ got = <<>> /\ server.phase # "none"
  BY <1>1, <1>2 DEF Phases
<1>8. PICK brk : brk = broken /\ ~brk
  <2>1. broken \in BOOLEAN /\ (broken => down.wire = <<>>)
    BY <1>1, Zenon DEF Phases, Types
  <2> QED BY <1>2, <2>1, FrameNeedsWire, Zenon
<1>9. PipeShape(down, Replies) /\ DownOK(down, "oneOff", brk, <<>>, answered)
  BY <1>1, <1>2, <1>7, <1>8, Zenon DEF PipesOK, DownKept
<1>10. "oneOff" # "ended"
  OBVIOUS
<1>11. d \in Dgrams
  <2>1. PICK tail : PipeLive(down, tail)
    BY <1>8, <1>9, <1>10, Zenon DEF DownOK
  <2>2. PICK q : q = FrameTaken(down)
    OBVIOUS
  <2>3. ReadInto(down, q, Replies, tail)
    BY <1>2, <1>9, <2>1, <2>2, PipeRead, Zenon
  <2> QED BY <1>3, <2>3, Zenon DEF ReadInto
<1>12. r \in Replies /\ IsReply(r, d)
  BY <1>1, <1>3, <1>11, ReplyTyped, Zenon
<1>13. DownOK(down, "ended", brk, <<r>>, answered)
  BY <1>2, <1>3, <1>7, <1>8, <1>9, <1>10, <1>12, DownOneOff
<1>14. got' = <<r>>
  BY <1>3, <1>7
<1>15. got' \in Seq(Replies)
  BY <1>12, <1>14, One, Zenon
<1>16. Types'
  BY <1>1, <1>2, <1>6, <1>15, Zenon DEF Types
<1>17. PipesOK'
  BY <1>1, <1>2, Zenon DEF PipesOK
<1>18. Phases'
  BY <1>1, <1>2, <1>6, <1>7 DEF Phases
<1>19. UpKept'
  BY <1>1, <1>2, <1>6, Zenon DEF UpKept
<1>20. DownKept'
  BY <1>2, <1>6, <1>8, <1>13, <1>14, Zenon DEF DownKept
<1> QED BY <1>16, <1>17, <1>18, <1>19, <1>20, Zenon DEF IInv

\* What a step that leaves a variable of the relay, the script or the target alone keeps.
LEMMA UpFacts ==
    ASSUME IInv
    PROVE  /\ Types /\ Phases /\ PipeShape(up, Dgrams) /\ broken \in BOOLEAN
           /\ relay \in [queue : Seq(Arrivals), last : Senders]
           /\ target \in Seq(Dgrams) /\ taken \in Seq(Dgrams)
           /\ broken => up.wire = <<>>
           /\ assoc.phase = "relaying" => server.phase # "none"
           /\ UpOK(up, server.phase, broken, target, taken, assoc.first,
                   script.upstreams - assoc.left)
<1>1. Types /\ PipesOK /\ Phases /\ UpKept
  BY Zenon DEF IInv
<1>2. assoc.phase = "relaying" => server.phase # "none"
  BY <1>1 DEF Phases
<1>3. broken => up.wire = <<>>
  BY <1>1, Zenon DEF Phases
<1> QED BY <1>1, <1>2, <1>3, Zenon DEF Types, PipesOK, UpKept

\* Only the pipe changes.
LEMMA UpOnly ==
    ASSUME IInv, server.phase # "none",
           UNCHANGED <<script, relay, assoc, down, server, broken, target, got, taken, answered>>,
           PipeShape(up', Dgrams), broken => up'.wire = <<>>,
           UpOK(up', server.phase, broken, target, taken, assoc.first,
                script.upstreams - assoc.left)
    PROVE  IInv'
<1>1. /\ relay \in [queue : Seq(Arrivals), last : Senders]
      /\ target \in Seq(Dgrams) /\ taken \in Seq(Dgrams)
  BY UpFacts, Zenon
<1> QED BY <1>1, UpStep, Zenon

LEMMA UpTakeKeeps == ASSUME IInv, UpTake PROVE IInv'
<1>1. /\ assoc.phase = "relaying" /\ up.item = <<>> /\ RelayReads
      /\ UNCHANGED <<script, assoc, down, server, broken, target, got, answered>>
  BY Zenon DEF UpTake
<1>2. /\ Types /\ PipeShape(up, Dgrams) /\ target \in Seq(Dgrams) /\ taken \in Seq(Dgrams)
      /\ broken => up.wire = <<>>
      /\ server.phase # "none"
      /\ UpOK(up, server.phase, broken, target, taken, assoc.first,
              script.upstreams - assoc.left)
  BY <1>1, UpFacts, Zenon
<1>3. /\ relay' \in [queue : Seq(Arrivals), last : Senders]
      /\ Arrived.st = "ok" => Dgram(Arrived.value.addr, Arrived.value.payload) \in Dgrams
  BY <1>1, <1>2, ArrivedTyped, Zenon
<1>4. CASE Arrived.st = "ok"
  <2>1. PICK d \in Dgrams : d = Dgram(Arrived.value.addr, Arrived.value.payload)
    BY <1>3, <1>4, Zenon
  <2>2. up' = [up EXCEPT !.item = <<d>>] /\ taken' = taken \o up'.item
    BY <1>4, <2>1, Zenon DEF UpTake
  <2>3. PICK q : q = up'
    OBVIOUS
  <2>4. q = [up EXCEPT !.item = <<d>>]
    BY <2>2, <2>3, Zenon
  <2>5. /\ PipeShape(q, Dgrams) /\ q.wire = up.wire /\ q.fwd = up.fwd
        /\ \A t : PipeLive(up, t) => PipeLive(q, t \o <<d>>)
    BY <1>1, <1>2, <2>4, PipeTake
  <2>6. up'.item = <<d>>
    <3>1. up \in Pipes(Dgrams)
      BY <1>2, Zenon DEF PipeShape
    <3> QED BY <2>2, <3>1 DEF Pipes
  <2>7. UpOK(q, server.phase, broken, target, taken \o <<d>>, assoc.first,
             script.upstreams - assoc.left)
    BY <1>1, <1>2, <2>4, UpTaken, Zenon
  <2>8. <<d>> \in Seq(Dgrams)
    BY One, Zenon
  <2>9. taken \o <<d>> \in Seq(Dgrams)
    BY <1>2, <2>8, ConcatProperties, Zenon
  <2>10. /\ PipeShape(up', Dgrams) /\ (broken => up'.wire = <<>>)
         /\ target' \in Seq(Dgrams) /\ taken' \in Seq(Dgrams)
    BY <1>1, <1>2, <2>2, <2>3, <2>5, <2>6, <2>9, Zenon
  <2>11. UpOK(up', server.phase, broken, target', taken', assoc.first,
              script.upstreams - assoc.left)
    BY <1>1, <2>2, <2>3, <2>6, <2>7, Zenon
  <2> QED BY <1>1, <1>2, <1>3, <2>10, <2>11, UpStep, Zenon
<1>5. CASE Arrived.st # "ok"
  <2>1. UNCHANGED <<up, taken>>
    BY <1>5, Zenon DEF UpTake
  <2>2. /\ PipeShape(up', Dgrams) /\ (broken => up'.wire = <<>>)
        /\ target' \in Seq(Dgrams) /\ taken' \in Seq(Dgrams)
    BY <1>1, <1>2, <2>1, Zenon
  <2>3. UpOK(up', server.phase, broken, target', taken', assoc.first,
             script.upstreams - assoc.left)
    BY <1>1, <1>2, <2>1, Zenon
  <2> QED BY <1>1, <1>2, <1>3, <2>2, <2>3, UpStep, Zenon
<1> QED BY <1>4, <1>5

LEMMA UpPushKeeps == ASSUME IInv, UpPush PROVE IInv'
<1>1. /\ assoc.phase = "relaying" /\ HasRoom(up) /\ up' = ToChannel(up)
      /\ UNCHANGED <<script, relay, assoc, down, server, broken, target, got, taken, answered>>
  BY Zenon DEF UpPush
<1>2. /\ PipeShape(up, Dgrams) /\ (broken => up.wire = <<>>)
      /\ server.phase # "none"
      /\ UpOK(up, server.phase, broken, target, taken, assoc.first,
              script.upstreams - assoc.left)
  BY <1>1, UpFacts, Zenon
<1>3. PICK q : q = up'
  OBVIOUS
<1>4. q = ToChannel(up)
  BY <1>1, <1>3, Zenon
<1>5. /\ PipeShape(q, Dgrams) /\ q.wire = up.wire /\ q.fwd = up.fwd
      /\ \A tail : PipeLive(up, tail) => PipeLive(q, tail)
  BY <1>1, <1>2, <1>4, PipePush
<1>6. UpOK(q, server.phase, broken, target, taken, assoc.first, script.upstreams - assoc.left)
  <2>1. server.phase = "running" /\ ~broken
          => ~broken /\ \A tail : PipeLive(up, tail) => PipeLive(q, tail)
    BY <1>5, Zenon
  <2>2. /\ UpOK(up, server.phase, broken, target, taken, assoc.first,
                script.upstreams - assoc.left)
        /\ q.fwd = up.fwd
    BY <1>2, <1>5, Zenon
  <2> QED BY <2>1, <2>2, UpMoved
<1>7. PipeShape(up', Dgrams) /\ (broken => up'.wire = <<>>)
  BY <1>2, <1>3, <1>5, Zenon
<1>8. UpOK(up', server.phase, broken, target, taken, assoc.first, script.upstreams - assoc.left)
  BY <1>3, <1>6, Zenon
<1> QED BY <1>1, <1>2, <1>7, <1>8, UpOnly, Zenon

\* A pipe that holds something is not a new one, so that the session has begun.
LEMMA SessionBegun ==
    ASSUME IInv, up.chan # <<>> \/ down.chan # <<>>
    PROVE  server.phase # "none"
<1>1. NewPipe(<<>>).chan = <<>>
  BY DEF NewPipe
<1> QED BY <1>1, Zenon DEF IInv, Phases

LEMMA UpWriteKeeps == ASSUME IInv, UpWrite PROVE IInv'
<1>1. /\ up.chan # <<>> /\ up' \in Written(up, server.phase = "running" /\ ~broken)
      /\ UNCHANGED <<script, relay, assoc, down, server, broken, target, got, taken, answered>>
  BY Zenon DEF UpWrite
<1>2. /\ PipeShape(up, Dgrams) /\ (broken => up.wire = <<>>) /\ server.phase # "none"
      /\ UpOK(up, server.phase, broken, target, taken, assoc.first,
              script.upstreams - assoc.left)
  BY <1>1, UpFacts, SessionBegun, Zenon
<1>3. PICK reader \in BOOLEAN : reader <=> (server.phase = "running" /\ ~broken)
  OBVIOUS
<1>4. PICK q : q = up'
  OBVIOUS
<1>5. q \in Written(up, reader)
  BY <1>1, <1>3, <1>4 DEF Written
<1>6. /\ PipeShape(q, Dgrams) /\ q.fwd = up.fwd
      /\ (~reader => q.wire = up.wire)
      /\ (reader => \A tail : PipeLive(up, tail) => PipeLive(q, tail))
  BY <1>1, <1>2, <1>5, PipeWrite, Zenon
<1>7. UpOK(q, server.phase, broken, target, taken, assoc.first, script.upstreams - assoc.left)
  <2>1. server.phase = "running" /\ ~broken
          => ~broken /\ \A tail : PipeLive(up, tail) => PipeLive(q, tail)
    BY <1>3, <1>6, Zenon
  <2>2. /\ UpOK(up, server.phase, broken, target, taken, assoc.first,
                script.upstreams - assoc.left)
        /\ q.fwd = up.fwd
    BY <1>2, <1>6, Zenon
  <2> QED BY <2>1, <2>2, UpMoved
<1>8. PipeShape(up', Dgrams) /\ (broken => up'.wire = <<>>)
  BY <1>2, <1>3, <1>4, <1>6, Zenon
<1>9. UpOK(up', server.phase, broken, target, taken, assoc.first, script.upstreams - assoc.left)
  BY <1>4, <1>7, Zenon
<1> QED BY <1>1, <1>2, <1>8, <1>9, UpOnly, Zenon

LEMMA ServerReadsKeeps == ASSUME IInv, ServerReads PROVE IInv'
<1>1. /\ server.phase = "running" /\ up.fwd.item = <<>> /\ Frame(up).st = "ok"
      /\ up' = FrameTaken(up)
      /\ UNCHANGED <<script, relay, assoc, down, server, broken, target, got, taken, answered>>
  BY Zenon DEF ServerReads
<1>2. /\ PipeShape(up, Dgrams) /\ (broken => up.wire = <<>>) /\ broken \in BOOLEAN
      /\ UpOK(up, server.phase, broken, target, taken, assoc.first,
              script.upstreams - assoc.left)
  BY <1>1, UpFacts, Zenon
<1>3. PICK brk : brk = broken /\ ~brk
  BY <1>1, <1>2, FrameNeedsWire, Zenon
<1>4. PICK q : q = up' /\ q = FrameTaken(up)
  BY <1>1, Zenon
<1>5. UpOK(up, "running", brk, target, taken, assoc.first, script.upstreams - assoc.left)
  BY <1>1, <1>2, <1>3, Zenon
<1>6. UpOK(q, "running", brk, target, taken, assoc.first, script.upstreams - assoc.left)
      /\ PipeShape(q, Dgrams)
  BY <1>1, <1>2, <1>3, <1>4, <1>5, UpRead, Zenon
<1>7. PipeShape(up', Dgrams) /\ (broken => up'.wire = <<>>)
  BY <1>3, <1>4, <1>6, Zenon
<1>8. UpOK(up', server.phase, broken, target, taken, assoc.first, script.upstreams - assoc.left)
  BY <1>1, <1>3, <1>4, <1>6, Zenon
<1>9. server.phase # "none"
  BY <1>1
<1> QED BY <1>1, <1>7, <1>8, <1>9, UpOnly, Zenon

\* The server's Forward goes on, and sends s.
LEMMA ServerForwardStep ==
    ASSUME IInv, server.phase = "running", NEW g \in Forwards(Dgrams, Dgrams), ForwardOK(g),
           up' = [up EXCEPT !.fwd = g], NEW s \in Seq(Dgrams), target' = target \o s,
           s \o (Pending(g) \o g.item) = Pending(up.fwd) \o up.fwd.item,
           UNCHANGED <<script, relay, assoc, down, server, broken, got, taken, answered>>
    PROVE  IInv'
<1>1. /\ PipeShape(up, Dgrams) /\ (broken => up.wire = <<>>)
      /\ relay \in [queue : Seq(Arrivals), last : Senders]
      /\ target \in Seq(Dgrams) /\ taken \in Seq(Dgrams)
      /\ UpOK(up, server.phase, broken, target, taken, assoc.first,
              script.upstreams - assoc.left)
  BY UpFacts, Zenon
<1>2. PICK q : q = up' /\ q = [up EXCEPT !.fwd = g]
  BY Zenon
<1>3. /\ PipeShape(q, Dgrams) /\ q.wire = up.wire /\ q.fwd = g
      /\ \A t : PipeLive(up, t) => PipeLive(q, t)
  BY <1>1, <1>2, PipeForward
<1>4. UpOK(up, "running", broken, target, taken, assoc.first, script.upstreams - assoc.left)
  BY <1>1, Zenon
<1>5. q = [up EXCEPT !.fwd = g]
  BY <1>2, Zenon
<1>6. UpOK(q, "running", broken, target \o s, taken, assoc.first, script.upstreams - assoc.left)
  BY <1>1, <1>4, <1>5, UpForwarded, Zenon
<1>7. PipeShape(up', Dgrams) /\ (broken => up'.wire = <<>>)
  BY <1>1, <1>2, <1>3, Zenon
<1>8. target \o s \in Seq(Dgrams)
  BY <1>1, ConcatProperties, Zenon
<1>9. target' \in Seq(Dgrams) /\ taken' \in Seq(Dgrams)
      /\ relay' \in [queue : Seq(Arrivals), last : Senders]
  BY <1>1, <1>8, Zenon
<1>10. UpOK(up', server.phase, broken, target', taken', assoc.first,
            script.upstreams - assoc.left)
  BY <1>2, <1>6, Zenon
<1>11. server.phase # "none"
  OBVIOUS
<1> QED BY <1>7, <1>9, <1>10, <1>11, UpStep, Zenon

LEMMA OnlyOne ==
    ASSUME NEW S, NEW y \in Seq(S), Len(y) <= 1, y # <<>>
    PROVE  \E d \in S : y = <<d>> /\ y[1] = d
<1>1. Len(y) = 1
  <2>1. Len(y) \in Nat /\ Len(y) # 0
    BY EmptySeq, LenProperties, Zenon
  <2>2. \A k \in Nat : k <= 1 /\ k # 0 => k = 1
    OBVIOUS
  <2> QED BY <2>1, <2>2, Zenon
<1>2. PICK d \in S : d = y[1]
  BY <1>1
<1>3. <<d>> \in Seq(S) /\ Len(<<d>>) = 1 /\ <<d>>[1] = d
  BY One, Zenon
<1>4. \A i \in 1..1 : i = 1
  OBVIOUS
<1>5. \A i \in 1..Len(y) : y[i] = <<d>>[i]
  BY <1>1, <1>2, <1>3, <1>4, Zenon
<1>6. y = <<d>>
  BY <1>1, <1>3, <1>5, SeqEqual, Zenon
<1> QED BY <1>2, <1>6, Zenon

\* One that sends nothing and keeps what it holds.
LEMMA NothingSent ==
    ASSUME NEW X, NEW Y, NEW f \in Forwards(X, Y), NEW g \in Forwards(X, Y),
           Pending(g) = Pending(f), g.item = f.item
    PROVE  <<>> \o (Pending(g) \o g.item) = Pending(f) \o f.item
OBVIOUS

LEMMA ServerPushKeeps == ASSUME IInv, ServerPush PROVE IInv'
<1>1. /\ server.phase = "running" /\ up.fwd.item # <<>>
      /\ UNCHANGED <<script, relay, assoc, down, server, broken, target, got, taken, answered>>
  BY Zenon DEF ServerPush
<1>2. /\ PipeShape(up, Dgrams) /\ target \in Seq(Dgrams)
  BY UpFacts, Zenon
<1>3. PICK f \in Forwards(Dgrams, Dgrams) : f = up.fwd /\ ForwardOK(f)
  BY <1>2, PipeFields, PipeOKIs, Zenon DEF PipeShape
<1>4. PICK x \in Seq(Dgrams), y \in Seq(Dgrams) : x = Pending(f) /\ y = f.item
  BY PendingTyped, Zenon
<1>5. <<>> \in Seq(Dgrams)
  BY None, Zenon
<1>6. target' = target \o <<>>
  BY <1>1, <1>2, ConcatEmptySeq, Zenon
<1>7. CASE Ready(up.fwd)
  <2>1. PICK d \in Dgrams : y = <<d>> /\ f.item[1] = d
    <3>1. Len(y) <= 1 /\ y # <<>>
      BY <1>1, <1>3, <1>4, Zenon DEF ForwardOK
    <3>2. \E d \in Dgrams : y = <<d>> /\ y[1] = d
      BY <3>1, OnlyOne, Zenon
    <3> QED BY <1>4, <3>2, Zenon
  <2>2. PICK g : g = Pushed(f, d)
    OBVIOUS
  <2>3. g \in Forwards(Dgrams, Dgrams) /\ ForwardOK(g) /\ Pending(g) = Pending(f) \o <<d>>
        /\ g.item = <<>>
    <3>1. ForwardOK(f) /\ Ready(f)
      BY <1>3, <1>7, Zenon
    <3>2. /\ Pushed(f, d) \in Forwards(Dgrams, Dgrams) /\ ForwardOK(Pushed(f, d))
          /\ Pending(Pushed(f, d)) = Pending(f) \o <<d>> /\ Pushed(f, d).item = <<>>
      BY <3>1, PushedKeeps
    <3> QED BY <2>2, <3>2, Zenon
  <2>4. up' = [up EXCEPT !.fwd = g]
    BY <1>3, <1>7, <2>1, <2>2 DEF ServerPush
  <2>5. PICK u \in Seq(Dgrams) : u = Pending(g)
    BY <2>3, PendingTyped, Zenon
  <2>6. <<>> \o (u \o <<>>) = u
    OBVIOUS
  <2>7. <<>> \o (Pending(g) \o g.item) = Pending(up.fwd) \o up.fwd.item
    BY <1>3, <1>4, <2>1, <2>3, <2>5, <2>6, Zenon
  <2> QED BY <1>1, <1>5, <1>6, <2>3, <2>4, <2>7, ServerForwardStep, Zenon
<1>8. CASE ~Ready(up.fwd)
  <2>1. PICK g : g = Polled(f)
    OBVIOUS
  <2>2. /\ g \in Forwards(Dgrams, Dgrams) /\ ForwardOK(g)
        /\ Pending(g) = Pending(f) /\ g.item = f.item /\ g.state = <<>>
    BY <1>3, <2>1, PolledKeeps, Zenon
  <2>3. up' = [up EXCEPT !.fwd = g]
    BY <1>3, <1>8, <2>1 DEF ServerPush
  <2>4. <<>> \o (Pending(g) \o g.item) = Pending(up.fwd) \o up.fwd.item
    <3>1. g \in Forwards(Dgrams, Dgrams) /\ Pending(g) = Pending(f) /\ g.item = f.item
      BY <2>2, Zenon
    <3>2. <<>> \o (Pending(g) \o g.item) = Pending(f) \o f.item
      BY <3>1, NothingSent
    <3> QED BY <1>3, <3>2, Zenon
  <2> QED BY <1>1, <1>5, <1>6, <2>2, <2>3, <2>4, ServerForwardStep, Zenon
<1> QED BY <1>7, <1>8

LEMMA ServerFlushesKeeps == ASSUME IInv, NEW n, ServerFlushes(n) PROVE IInv'
<1>1. /\ server.phase = "running" /\ up.fwd.item = <<>>
      /\ UNCHANGED <<script, relay, assoc, down, server, broken, got, taken, answered>>
  BY Zenon DEF ServerFlushes
<1>2. /\ PipeShape(up, Dgrams) /\ target \in Seq(Dgrams)
  BY UpFacts, Zenon
<1>3. PICK f \in Forwards(Dgrams, Dgrams) : f = up.fwd /\ ForwardOK(f)
  BY <1>2, PipeFields, PipeOKIs, Zenon DEF PipeShape
<1>4. CASE FlushReady(up.fwd)
  <2>1. /\ n \in 0..Len(Polled(f).buffers) /\ target' = target \o FlushSends(f, n)
    BY <1>3, <1>4, Zenon DEF ServerFlushes
  <2>2. PICK g : g = Flushed(f, n)
    OBVIOUS
  <2>3. PICK s : s = FlushSends(f, n)
    OBVIOUS
  <2>4. /\ g \in Forwards(Dgrams, Dgrams) /\ ForwardOK(g)
        /\ s \in Seq(Dgrams)
        /\ s \o Pending(g) = Pending(f)
        /\ g.item = f.item
    <3>1. ForwardOK(f) /\ FlushReady(f) /\ n \in 0..Len(Polled(f).buffers)
      BY <1>3, <1>4, <2>1, Zenon
    <3>2. /\ Flushed(f, n) \in Forwards(Dgrams, Dgrams) /\ ForwardOK(Flushed(f, n))
          /\ FlushSends(f, n) \in Seq(Dgrams)
          /\ FlushSends(f, n) \o Pending(Flushed(f, n)) = Pending(f)
          /\ Flushed(f, n).item = f.item
      BY <3>1, FlushedKeeps
    <3> QED BY <2>2, <2>3, <3>2, Zenon
  <2>5. up' = [up EXCEPT !.fwd = g]
    BY <1>3, <1>4, <2>2 DEF ServerFlushes
  <2>6. PICK u \in Seq(Dgrams) : u = Pending(g)
    BY <2>4, PendingTyped, Zenon
  <2>7. s \o u \in Seq(Dgrams)
    BY <2>4, ConcatProperties, Zenon
  <2>8. u \o <<>> = u /\ (s \o u) \o <<>> = s \o u
    BY <2>7, ConcatEmptySeq, Zenon
  <2>9. s \o (Pending(g) \o g.item) = Pending(up.fwd) \o up.fwd.item
    BY <1>1, <1>3, <2>4, <2>6, <2>8, Zenon
  <2>10. target' = target \o s
    BY <2>1, <2>3, Zenon
  <2> QED BY <1>1, <2>4, <2>5, <2>9, <2>10, ServerForwardStep, Zenon
<1>5. CASE ~FlushReady(up.fwd)
  <2>1. PICK g : g = Polled(f)
    OBVIOUS
  <2>2. /\ g \in Forwards(Dgrams, Dgrams) /\ ForwardOK(g)
        /\ Pending(g) = Pending(f) /\ g.item = f.item /\ g.state = <<>>
    BY <1>3, <2>1, PolledKeeps, Zenon
  <2>3. up' = [up EXCEPT !.fwd = g] /\ target' = target
    BY <1>3, <1>5, <2>1 DEF ServerFlushes
  <2>4. <<>> \o (Pending(g) \o g.item) = Pending(up.fwd) \o up.fwd.item
    <3>1. g \in Forwards(Dgrams, Dgrams) /\ Pending(g) = Pending(f) /\ g.item = f.item
      BY <2>2, Zenon
    <3>2. <<>> \o (Pending(g) \o g.item) = Pending(f) \o f.item
      BY <3>1, NothingSent
    <3> QED BY <1>3, <3>2, Zenon
  <2>5. <<>> \in Seq(Dgrams) /\ target' = target \o <<>>
    BY <1>2, <2>3, None, ConcatEmptySeq, Zenon
  <2> QED BY <1>1, <2>2, <2>3, <2>4, <2>5, ServerForwardStep, Zenon
<1> QED BY <1>4, <1>5

LEMMA DownFacts ==
    ASSUME IInv
    PROVE  /\ Types /\ Phases /\ PipeShape(down, Replies) /\ broken \in BOOLEAN
           /\ server \in [phase : {"none", "running", "ended"}, family : {"v4", "v6"},
                          queue : Seq(Dgrams)]
           /\ got \in Seq(Replies) /\ answered \in Seq(Dgrams)
           /\ broken => down.wire = <<>>
           /\ assoc.phase = "relaying" => server.phase # "none"
           /\ DownOK(down, assoc.phase, broken, got, answered)
<1>1. Types /\ PipesOK /\ Phases /\ DownKept
  BY Zenon DEF IInv
<1>2. assoc.phase = "relaying" => server.phase # "none"
  BY <1>1 DEF Phases
<1>3. broken => down.wire = <<>>
  BY <1>1, Zenon DEF Phases
<1> QED BY <1>1, <1>2, <1>3, Zenon DEF Types, PipesOK, DownKept

\* Only the pipe and what has been sent change.
LEMMA DownOnly ==
    ASSUME IInv, server.phase # "none",
           UNCHANGED <<script, relay, assoc, up, server, broken, target, taken, answered>>,
           PipeShape(down', Replies), broken => down'.wire = <<>>, got' \in Seq(Replies),
           assoc.phase = "oneOff" => down'.fwd = down.fwd /\ got' = got,
           DownOK(down', assoc.phase, broken, got', answered)
    PROVE  IInv'
<1>1. /\ server' \in [phase : {"none", "running", "ended"}, family : {"v4", "v6"},
                      queue : Seq(Dgrams)]
      /\ server'.phase = server.phase
      /\ answered' \in Seq(Dgrams)
      /\ DownOK(down', assoc.phase, broken, got', answered')
  BY DownFacts, Zenon
<1> QED BY <1>1, DownStep, Zenon

LEMMA DownTakeKeeps == ASSUME IInv, DownTake PROVE IInv'
<1>1. /\ server.phase = "running" /\ down.item = <<>> /\ server.queue # <<>>
      /\ server' = [server EXCEPT !.queue = Tail(@)]
      /\ down' = [down EXCEPT !.item = <<Head(server.queue)>>]
      /\ answered' = Append(answered, Head(server.queue))
      /\ UNCHANGED <<script, relay, assoc, up, broken, target, got, taken>>
  BY Zenon DEF DownTake
<1>2. /\ PipeShape(down, Replies) /\ got \in Seq(Replies) /\ answered \in Seq(Dgrams)
      /\ (broken => down.wire = <<>>)
      /\ DownOK(down, assoc.phase, broken, got, answered)
  BY DownFacts, Zenon
<1>3. PICK f \in {"v4", "v6"}, q \in Seq(Dgrams) :
        server = [phase |-> "running", family |-> f, queue |-> q]
  BY <1>1, DownFacts
<1>4. q = server.queue /\ q # <<>>
  BY <1>1, <1>3
<1>5. PICK d \in Dgrams, t \in Seq(Dgrams) : d = Head(q) /\ t = Tail(q)
  BY <1>4, HeadTailProperties, Zenon
<1>6. server' = [phase |-> "running", family |-> f, queue |-> t]
  BY <1>1, <1>3, <1>5
<1>7. server'.phase = server.phase /\ server.phase # "none"
      /\ server' \in [phase : {"none", "running", "ended"}, family : {"v4", "v6"},
                      queue : Seq(Dgrams)]
  BY <1>3, <1>6
<1>8. PICK p : p = down' /\ p = [down EXCEPT !.item = <<d>>]
  BY <1>1, <1>4, <1>5, Zenon
<1>9. p = [down EXCEPT !.item = <<d>>]
  BY <1>8, Zenon
<1>10. /\ PipeShape(p, Replies) /\ p.wire = down.wire /\ p.fwd = down.fwd
       /\ \A u : PipeLive(down, u) => PipeLive(p, u \o <<d>>)
  <2>1. PipeShape(down, Replies) /\ down.item = <<>>
    BY <1>1, <1>2, Zenon
  <2> QED BY <1>9, <2>1, PipeTake, SMTT(60)
<1>11. DownOK(p, assoc.phase, broken, got, answered \o <<d>>)
  BY <1>1, <1>2, <1>9, DownTaken, Zenon
<1>12. answered' = answered \o <<d>> /\ answered' \in Seq(Dgrams)
  <2>1. Append(answered, d) = answered \o <<d>>
    BY <1>2, AppendIsConcat, Zenon
  <2>2. Append(answered, d) \in Seq(Dgrams)
    BY <1>2, AppendProperties, Zenon
  <2> QED BY <1>1, <1>4, <1>5, <2>1, <2>2, Zenon
<1>13. PipeShape(down', Replies) /\ (broken => down'.wire = <<>>) /\ got' \in Seq(Replies)
       /\ (assoc.phase = "oneOff" => down'.fwd = down.fwd /\ got' = got)
  BY <1>1, <1>2, <1>8, <1>10, Zenon
<1>14. DownOK(down', assoc.phase, broken, got', answered')
  BY <1>1, <1>8, <1>11, <1>12, Zenon
<1> QED BY <1>1, <1>7, <1>12, <1>13, <1>14, DownStep, Zenon

LEMMA DownPushKeeps == ASSUME IInv, DownPush PROVE IInv'
<1>1. /\ server.phase = "running" /\ HasRoom(down) /\ down' = ToChannel(down)
      /\ UNCHANGED <<script, relay, assoc, up, server, broken, target, got, taken, answered>>
  BY Zenon DEF DownPush
<1>2. /\ PipeShape(down, Replies) /\ got \in Seq(Replies) /\ (broken => down.wire = <<>>)
      /\ DownOK(down, assoc.phase, broken, got, answered)
  BY DownFacts, Zenon
<1>3. PICK q : q = down' /\ q = ToChannel(down)
  BY <1>1, Zenon
<1>4. q = ToChannel(down)
  BY <1>3, Zenon
<1>5. /\ PipeShape(q, Replies) /\ q.wire = down.wire /\ q.fwd = down.fwd
      /\ \A tail : PipeLive(down, tail) => PipeLive(q, tail)
  BY <1>1, <1>2, <1>4, PipePush
<1>6. DownOK(q, assoc.phase, broken, got, answered)
  <2>1. assoc.phase # "ended" /\ ~broken
          => ~broken /\ \A tail : PipeLive(down, tail) => PipeLive(q, tail)
    BY <1>5, Zenon
  <2>2. DownOK(down, assoc.phase, broken, got, answered) /\ q.fwd = down.fwd
    BY <1>2, <1>5, Zenon
  <2> QED BY <2>1, <2>2, DownMoved
<1>7. PipeShape(down', Replies) /\ (broken => down'.wire = <<>>) /\ got' \in Seq(Replies)
      /\ (assoc.phase = "oneOff" => down'.fwd = down.fwd /\ got' = got)
      /\ DownOK(down', assoc.phase, broken, got', answered)
  BY <1>1, <1>2, <1>3, <1>5, <1>6, Zenon
<1>8. server.phase # "none"
  BY <1>1
<1> QED BY <1>1, <1>7, <1>8, DownOnly, Zenon

LEMMA DownWriteKeeps == ASSUME IInv, DownWrite PROVE IInv'
<1>1. /\ down.chan # <<>> /\ down' \in Written(down, assoc.phase # "ended" /\ ~broken)
      /\ UNCHANGED <<script, relay, assoc, up, server, broken, target, got, taken, answered>>
  BY Zenon DEF DownWrite
<1>2. /\ PipeShape(down, Replies) /\ got \in Seq(Replies) /\ (broken => down.wire = <<>>)
      /\ DownOK(down, assoc.phase, broken, got, answered)
  BY DownFacts, Zenon
<1>3. PICK reader \in BOOLEAN : reader <=> (assoc.phase # "ended" /\ ~broken)
  OBVIOUS
<1>4. PICK q : q = down'
  OBVIOUS
<1>5. q \in Written(down, reader)
  BY <1>1, <1>3, <1>4 DEF Written
<1>6. /\ PipeShape(q, Replies) /\ q.fwd = down.fwd
      /\ (~reader => q.wire = down.wire)
      /\ (reader => \A tail : PipeLive(down, tail) => PipeLive(q, tail))
  BY <1>1, <1>2, <1>5, PipeWrite, Zenon
<1>7. DownOK(q, assoc.phase, broken, got, answered)
  <2>1. assoc.phase # "ended" /\ ~broken
          => ~broken /\ \A tail : PipeLive(down, tail) => PipeLive(q, tail)
    BY <1>3, <1>6, Zenon
  <2>2. DownOK(down, assoc.phase, broken, got, answered) /\ q.fwd = down.fwd
    BY <1>2, <1>6, Zenon
  <2> QED BY <2>1, <2>2, DownMoved
<1>8. PipeShape(down', Replies) /\ (broken => down'.wire = <<>>) /\ got' \in Seq(Replies)
      /\ (assoc.phase = "oneOff" => down'.fwd = down.fwd /\ got' = got)
      /\ DownOK(down', assoc.phase, broken, got', answered)
  BY <1>1, <1>2, <1>3, <1>4, <1>6, <1>7, Zenon
<1>9. server.phase # "none"
  BY <1>1, SessionBegun, Zenon
<1> QED BY <1>1, <1>8, <1>9, DownOnly, Zenon

LEMMA ClientReadsKeeps == ASSUME IInv, ClientReads PROVE IInv'
<1>1. /\ assoc.phase = "relaying" /\ down.fwd.item = <<>> /\ Frame(down).st = "ok"
      /\ down' = FrameTaken(down)
      /\ UNCHANGED <<script, relay, assoc, up, server, broken, target, got, taken, answered>>
  BY Zenon DEF ClientReads
<1>2. /\ PipeShape(down, Replies) /\ got \in Seq(Replies) /\ (broken => down.wire = <<>>)
      /\ broken \in BOOLEAN /\ server.phase # "none"
      /\ DownOK(down, assoc.phase, broken, got, answered)
  BY <1>1, DownFacts, Zenon
<1>3. PICK brk : brk = broken /\ ~brk
  BY <1>1, <1>2, FrameNeedsWire, Zenon
<1>4. PICK q : q = down' /\ q = FrameTaken(down)
  BY <1>1, Zenon
<1>5. assoc.phase # "ended" /\ assoc.phase # "oneOff"
  BY <1>1
<1>6. DownOK(down, assoc.phase, brk, got, answered)
  BY <1>2, <1>3, Zenon
<1>7. DownOK(q, assoc.phase, brk, got, answered) /\ PipeShape(q, Replies)
  BY <1>1, <1>2, <1>3, <1>4, <1>5, <1>6, DownRead, Zenon
<1>8. PipeShape(down', Replies) /\ (broken => down'.wire = <<>>) /\ got' \in Seq(Replies)
      /\ (assoc.phase = "oneOff" => down'.fwd = down.fwd /\ got' = got)
      /\ DownOK(down', assoc.phase, broken, got', answered)
  BY <1>1, <1>2, <1>3, <1>4, <1>5, <1>7, Zenon
<1> QED BY <1>1, <1>2, <1>8, DownOnly, Zenon

\* The client's Forward goes on.
LEMMA ClientForwardStep ==
    ASSUME IInv, assoc.phase = "relaying", NEW g \in Forwards(Dgrams, Replies), ForwardOK(g),
           down' = [down EXCEPT !.fwd = g], got' \in Seq(Replies),
           DownOK([down EXCEPT !.fwd = g], assoc.phase, broken, got', answered),
           UNCHANGED <<script, relay, assoc, up, server, broken, target, taken, answered>>
    PROVE  IInv'
<1>1. /\ PipeShape(down, Replies) /\ (broken => down.wire = <<>>) /\ server.phase # "none"
  BY DownFacts, Zenon
<1>2. PICK q : q = down' /\ q = [down EXCEPT !.fwd = g]
  BY Zenon
<1>3. q = [down EXCEPT !.fwd = g]
  BY <1>2, Zenon
<1>4. /\ PipeShape(q, Replies) /\ q.wire = down.wire /\ q.fwd = g
      /\ \A t : PipeLive(down, t) => PipeLive(q, t)
  BY <1>1, <1>3, PipeForward
<1>5. assoc.phase # "oneOff"
  OBVIOUS
<1>6. PipeShape(down', Replies) /\ (broken => down'.wire = <<>>) /\ got' \in Seq(Replies)
      /\ (assoc.phase = "oneOff" => down'.fwd = down.fwd /\ got' = got)
      /\ DownOK(down', assoc.phase, broken, got', answered)
  BY <1>1, <1>2, <1>4, <1>5, Zenon
<1> QED BY <1>1, <1>6, DownOnly, Zenon

LEMMA ClientPushKeeps == ASSUME IInv, ClientPush PROVE IInv'
<1>1. /\ assoc.phase = "relaying" /\ down.fwd.item # <<>>
      /\ UNCHANGED <<script, relay, assoc, up, server, broken, target, got, taken, answered>>
  BY Zenon DEF ClientPush
<1>2. /\ Types /\ PipeShape(down, Replies) /\ got \in Seq(Replies)
      /\ DownOK(down, assoc.phase, broken, got, answered)
  BY DownFacts, Zenon
<1>3. PICK f \in Forwards(Dgrams, Replies) : f = down.fwd /\ ForwardOK(f)
  BY <1>2, PipeFields, PipeOKIs, Zenon DEF PipeShape
<1>4. assoc.phase # "ended"
  BY <1>1
<1>5. got' \in Seq(Replies) /\ got' = got
  BY <1>1, <1>2, Zenon
<1>6. CASE Ready(down.fwd)
  <2>1. PICK d \in Dgrams : f.item = <<d>> /\ f.item[1] = d
    <3>1. f.item \in Seq(Dgrams) /\ Len(f.item) <= 1 /\ f.item # <<>>
      BY <1>1, <1>3, PendingTyped, Zenon DEF ForwardOK
    <3>2. \E d \in Dgrams : f.item = <<d>> /\ f.item[1] = d
      BY <3>1, OnlyOne, Zenon
    <3> QED BY <3>2, Zenon
  <2>2. PICK r \in Replies : r = Reply(d) /\ IsReply(r, d)
    BY <1>2, ReplyTyped, Zenon
  <2>3. PICK g : g = Pushed(f, r)
    OBVIOUS
  <2>4. g \in Forwards(Dgrams, Replies) /\ ForwardOK(g) /\ Pending(g) = Pending(f) \o <<r>>
        /\ g.item = <<>>
    <3>1. ForwardOK(f) /\ Ready(f)
      BY <1>3, <1>6, Zenon
    <3>2. /\ Pushed(f, r) \in Forwards(Dgrams, Replies) /\ ForwardOK(Pushed(f, r))
          /\ Pending(Pushed(f, r)) = Pending(f) \o <<r>> /\ Pushed(f, r).item = <<>>
      BY <3>1, PushedKeeps
    <3> QED BY <2>3, <3>2, Zenon
  <2>5. down' = [down EXCEPT !.fwd = g]
    BY <1>3, <1>6, <2>1, <2>2, <2>3 DEF ClientPush
  <2>6. PICK q : q = [down EXCEPT !.fwd = g]
    OBVIOUS
  <2>7. DownOK(q, assoc.phase, broken, got, answered)
    BY <1>2, <1>3, <1>4, <2>1, <2>2, <2>4, <2>6, DownPushed, Zenon
  <2>8. DownOK([down EXCEPT !.fwd = g], assoc.phase, broken, got', answered)
    BY <1>5, <2>6, <2>7, Zenon
  <2> QED BY <1>1, <1>5, <2>4, <2>5, <2>8, ClientForwardStep, Zenon
<1>7. CASE ~Ready(down.fwd)
  <2>1. PICK g : g = Polled(f)
    OBVIOUS
  <2>2. /\ g \in Forwards(Dgrams, Replies) /\ ForwardOK(g)
        /\ Pending(g) = Pending(f) /\ g.item = f.item /\ g.state = <<>>
    BY <1>3, <2>1, PolledKeeps, Zenon
  <2>3. down' = [down EXCEPT !.fwd = g]
    BY <1>3, <1>7, <2>1 DEF ClientPush
  <2>4. PICK q : q = [down EXCEPT !.fwd = g]
    OBVIOUS
  <2>5. Pending(g) \in Seq(Replies)
    BY <2>2, PendingTyped, Zenon
  <2>6. <<>> \in Seq(Replies) /\ <<>> \o Pending(g) = Pending(down.fwd) /\ g.item = down.fwd.item
    BY <1>3, <2>2, <2>5, None, ConcatEmptySeq, Zenon
  <2>7. DownOK(q, assoc.phase, broken, got \o <<>>, answered)
    BY <1>2, <1>4, <2>2, <2>4, <2>6, DownForwarded, Zenon
  <2>8. got \o <<>> = got
    BY <1>2, ConcatEmptySeq, Zenon
  <2>9. DownOK([down EXCEPT !.fwd = g], assoc.phase, broken, got', answered)
    BY <1>5, <2>4, <2>7, <2>8, Zenon
  <2> QED BY <1>1, <1>5, <2>2, <2>3, <2>9, ClientForwardStep, Zenon
<1> QED BY <1>6, <1>7

LEMMA ClientFlushesKeeps == ASSUME IInv, NEW n, ClientFlushes(n) PROVE IInv'
<1>1. /\ assoc.phase = "relaying" /\ down.fwd.item = <<>>
      /\ UNCHANGED <<script, relay, assoc, up, server, broken, target, taken, answered>>
  BY Zenon DEF ClientFlushes
<1>2. /\ PipeShape(down, Replies) /\ got \in Seq(Replies)
      /\ DownOK(down, assoc.phase, broken, got, answered)
  BY DownFacts, Zenon
<1>3. PICK f \in Forwards(Dgrams, Replies) : f = down.fwd /\ ForwardOK(f)
  BY <1>2, PipeFields, PipeOKIs, Zenon DEF PipeShape
<1>4. assoc.phase # "ended"
  BY <1>1
<1>5. \E s \in Seq(Replies), g \in Forwards(Dgrams, Replies) :
        /\ got' = got \o s /\ down' = [down EXCEPT !.fwd = g]
        /\ ForwardOK(g) /\ s \o Pending(g) = Pending(f) /\ g.item = f.item
  <2>1. CASE FlushReady(down.fwd)
    <3>1. /\ n \in 0..Len(Polled(f).buffers) /\ got' = got \o FlushSends(f, n)
      BY <1>3, <2>1, Zenon DEF ClientFlushes
    <3>2. PICK g : g = Flushed(f, n)
      OBVIOUS
    <3>3. PICK s : s = FlushSends(f, n)
      OBVIOUS
    <3>4. /\ g \in Forwards(Dgrams, Replies) /\ ForwardOK(g)
          /\ s \in Seq(Replies)
          /\ s \o Pending(g) = Pending(f)
          /\ g.item = f.item
      <4>1. ForwardOK(f) /\ FlushReady(f) /\ n \in 0..Len(Polled(f).buffers)
        BY <1>3, <2>1, <3>1, Zenon
      <4>2. /\ Flushed(f, n) \in Forwards(Dgrams, Replies) /\ ForwardOK(Flushed(f, n))
            /\ FlushSends(f, n) \in Seq(Replies)
            /\ FlushSends(f, n) \o Pending(Flushed(f, n)) = Pending(f)
            /\ Flushed(f, n).item = f.item
        BY <4>1, FlushedKeeps
      <4> QED BY <3>2, <3>3, <4>2, Zenon
    <3>5. down' = [down EXCEPT !.fwd = g]
      BY <1>3, <2>1, <3>2 DEF ClientFlushes
    <3> QED BY <3>1, <3>3, <3>4, <3>5, Zenon
  <2>2. CASE ~FlushReady(down.fwd)
    <3>1. PICK g : g = Polled(f)
      OBVIOUS
    <3>2. /\ g \in Forwards(Dgrams, Replies) /\ ForwardOK(g)
          /\ Pending(g) = Pending(f) /\ g.item = f.item /\ g.state = <<>>
      BY <1>3, <3>1, PolledKeeps, Zenon
    <3>3. down' = [down EXCEPT !.fwd = g] /\ got' = got
      BY <1>3, <2>2, <3>1 DEF ClientFlushes
    <3>4. Pending(g) \in Seq(Replies)
      BY <3>2, PendingTyped, Zenon
    <3>5. <<>> \in Seq(Replies) /\ <<>> \o Pending(g) = Pending(f) /\ got' = got \o <<>>
      BY <1>2, <3>2, <3>3, <3>4, None, ConcatEmptySeq, Zenon
    <3> QED BY <3>2, <3>3, <3>5, Zenon
  <2> QED BY <2>1, <2>2
<1>6. PICK s \in Seq(Replies), g \in Forwards(Dgrams, Replies) :
        /\ got' = got \o s /\ down' = [down EXCEPT !.fwd = g]
        /\ ForwardOK(g) /\ s \o Pending(g) = Pending(f) /\ g.item = f.item
  BY <1>5, Zenon
<1>7. PICK q : q = [down EXCEPT !.fwd = g]
  OBVIOUS
<1>8. ForwardOK(g) /\ s \o Pending(g) = Pending(down.fwd) /\ g.item = down.fwd.item
  BY <1>3, <1>6, Zenon
<1>9. DownOK(q, assoc.phase, broken, got \o s, answered)
  BY <1>2, <1>4, <1>7, <1>8, DownForwarded, Zenon
<1>10. got \o s \in Seq(Replies)
  BY <1>2, ConcatProperties, Zenon
<1>11. got' \in Seq(Replies) /\ DownOK([down EXCEPT !.fwd = g], assoc.phase, broken, got', answered)
  BY <1>6, <1>7, <1>9, <1>10, Zenon
<1> QED BY <1>1, <1>6, <1>11, ClientForwardStep, Zenon

LEMMA StutterKeeps == ASSUME IInv, UNCHANGED vars PROVE IInv'
<1>1. Types /\ PipesOK /\ Phases /\ UpKept /\ DownKept
  BY Zenon DEF IInv
<1>2. UNCHANGED <<script, relay, assoc, up, down, server, broken, target, got, taken, answered>>
  BY Zenon DEF vars
<1>3. Types'
  BY <1>1, <1>2, Zenon DEF Types
<1>4. PipesOK' /\ DownKept'
  BY <1>1, <1>2, Zenon DEF PipesOK, DownKept
<1>5. Phases'
  BY <1>1, <1>2, Zenon DEF Phases
<1>6. UpKept'
  BY <1>1, <1>2, Zenon DEF UpKept
<1> QED BY <1>3, <1>4, <1>5, <1>6, Zenon DEF IInv

LEMMA NextKeeps == IInv /\ [Next]_vars => IInv'
<1> SUFFICES ASSUME IInv, [Next]_vars PROVE IInv'
  OBVIOUS
<1>1. CASE Outside
  BY <1>1, ArrivesKeeps, AppClosesKeeps, TargetRepliesKeeps, ConnectionBreaksKeeps, Zenon DEF Outside
<1>2. ASSUME EndAssoc, assoc.phase # "ended",
             UNCHANGED <<script, relay, up, down, server, broken, target, got, taken, answered>>
      PROVE  IInv'
  BY <1>2, AssocStep, Zenon
<1>3. "trying" # "ended" /\ "oneOff" # "ended" /\ "relaying" # "ended"
  OBVIOUS
<1>4. CASE UpstreamsExhausted
  BY <1>2, <1>3, <1>4, Zenon DEF UpstreamsExhausted
<1>5. CASE RequestPanics
  BY <1>2, <1>3, <1>5, Zenon DEF RequestPanics
<1>6. CASE OneOffFails
  BY <1>2, <1>3, <1>6, Zenon DEF OneOffFails
<1>7. CASE AssocStops
  BY <1>2, <1>3, <1>7, Zenon DEF AssocStops
<1>8. CASE AssocIdles
  BY <1>2, <1>3, <1>8, Zenon DEF AssocIdles
<1>9. CASE Association \/ AttemptEnds
  BY <1>4, <1>5, <1>6, <1>9, FirstPacketKeeps, UpstreamFailsKeeps, UpstreamFailsLateKeeps,
     UpstreamConnectsKeeps, OneOffRepliedKeeps, Zenon DEF Association, AttemptEnds
<1>10. CASE ClientUpload \/ UpWrite
  BY <1>10, UpTakeKeeps, UpPushKeeps, UpWriteKeeps, Zenon DEF ClientUpload
<1>11. CASE ServerUpload
  BY <1>11, ServerReadsKeeps, ServerPushKeeps, ServerFlushesKeeps, Zenon DEF ServerUpload
<1>12. CASE ServerUploadEnds
  BY <1>12, ServerStep, Zenon DEF ServerUploadEnds
<1>13. CASE ServerDownload \/ DownWrite
  BY <1>13, DownTakeKeeps, DownPushKeeps, DownWriteKeeps, Zenon DEF ServerDownload
<1>14. CASE ServerDownloadEnds
  BY <1>14, ServerStep, Zenon DEF ServerDownloadEnds
<1>15. CASE ClientDownload
  BY <1>15, ClientReadsKeeps, ClientPushKeeps, ClientFlushesKeeps, Zenon DEF ClientDownload
<1>16. CASE UNCHANGED vars
  BY <1>16, StutterKeeps, Zenon
<1> QED BY <1>1, <1>7, <1>8, <1>9, <1>10, <1>11, <1>12, <1>13, <1>14, <1>15, <1>16, Zenon DEF Next

-----------------------------------------------------------------------------
(* What the invariant implies.                                              *)

\* What a pipe holds on the way is what Decoded finds there.
LEMMA OnTheWayIs ==
    ASSUME NEW Y, NEW p, PipeShape(p, Y), NEW tail, PipeLive(p, tail)
    PROVE  OnTheWay(p) = tail
<1>1. PICK ds : InFrames(p.rlast, p.wire, ds) /\ tail = ds \o (p.chan \o p.item)
  BY Zenon DEF PipeLive
<1>2. Decoded(p.rlast, p.wire) = ds
  BY <1>1, DecodedIs, Zenon
<1>3. ds \in Seq(Dgrams)
  BY <1>1, FramesTyped, Zenon
<1>4. PICK c \in Seq(Dgrams), i \in Seq(Dgrams) : c = p.chan /\ i = p.item
  BY PipeFields, Zenon DEF PipeShape
<1>5. Assoc(ds, c, i)
  BY <1>3, AssocHolds, Zenon
<1> QED BY <1>1, <1>2, <1>4, <1>5, Zenon DEF OnTheWay, Assoc

LEMMA HeldIs ==
    ASSUME NEW X, NEW f \in Forwards(X, X)
    PROVE  Held(f) = Pending(f) \o f.item
<1>1. PICK b \in Seq(X), l \in Seq(X), t \in Seq(X) : b = f.buffers /\ l = f.slot /\ t = f.state
  BY DEF Forwards
<1>2. Assoc(b, l, t)
  BY AssocHolds, Zenon
<1> QED BY <1>1, <1>2, Zenon DEF Held, Pending, Assoc

LEMMA PrefixOf ==
    ASSUME NEW S, NEW s \in Seq(S), NEW t \in Seq(S)
    PROVE  IsPrefix(s, s \o t)
<1>1. Len(s) <= Len(s \o t)
  OBVIOUS
<1>2. SubSeq(s, 1, Len(s)) = s
  BY SubSeqFull, Zenon
<1>3. SubSeq(s \o t, 1, Len(s)) = s
  OBVIOUS
<1> QED BY <1>1, <1>2, <1>3 DEF IsPrefix

\* The first k of tgt are late, and the others sent.
LateFirst(tgt, late, sent, k) ==
    /\ k \in 0..Len(tgt) /\ From(tgt, k + 1) = sent
    /\ \A i \in 1..k : i \in DOMAIN tgt /\ tgt[i] = late[i]

LEMMA LateThenSent ==
    ASSUME NEW tgt, NEW late \in Seq(Dgrams), NEW sent \in Seq(Dgrams), tgt = late \o sent,
           NEW k \in Nat, k = Len(late)
    PROVE  LateFirst(tgt, late, sent, k)
<1>1. PICK m \in Nat : m = Len(sent)
  BY LenProperties, Zenon
<1>2. /\ late \o sent \in Seq(Dgrams) /\ Len(late \o sent) = Len(late) + Len(sent)
      /\ SubSeq(late \o sent, Len(late) + 1, Len(late) + Len(sent)) = sent
      /\ \A i \in 1..Len(late) : (late \o sent)[i] = late[i]
  BY Parts
<1>3. /\ tgt \in Seq(Dgrams) /\ Len(tgt) = k + m /\ SubSeq(tgt, k + 1, k + m) = sent
      /\ \A i \in 1..k : tgt[i] = late[i]
  BY <1>1, <1>2, Zenon
<1>4. DOMAIN tgt = 1..(k + m)
  BY <1>3, LenProperties, Zenon
<1>5. k \in 0..(k + m) /\ \A i \in 1..k : i \in 1..(k + m)
  OBVIOUS
<1> QED BY <1>3, <1>4, <1>5, Zenon DEF From, LateFirst

LEMMA UploadHolds == ASSUME IInv PROVE UploadConserved
<1>1. Types /\ Phases /\ PipeShape(up, Dgrams) /\ taken \in Seq(Dgrams)
      /\ UpOK(up, server.phase, broken, target, taken, assoc.first,
              script.upstreams - assoc.left)
  BY UpFacts, Zenon
<1>2. PICK n \in Nat : n = script.upstreams - assoc.left
  BY <1>1 DEF Types, Phases
<1>3. PICK ph \in {"none", "running", "ended"} : ph = server.phase
  BY <1>1 DEF Types
<1>4. PICK late \in Seq(Dgrams), sent \in Seq(Dgrams), tail \in Seq(Dgrams) :
        /\ target = late \o sent /\ Len(late) <= n
        /\ \A i \in 1..Len(late) : late[i] = assoc.first
        /\ ph = "none" => sent = <<>>
        /\ ph = "running" => taken = sent \o (Pending(up.fwd) \o (up.fwd.item \o tail))
        /\ ph = "ended" => taken = sent \o tail
        /\ ph = "running" /\ ~broken => PipeLive(up, tail)
  BY <1>1, <1>2, <1>3, Zenon DEF UpOK
<1>5. PICK k \in Nat : k = Len(late)
  BY LenProperties, Zenon
<1>6. target = late \o sent
  BY <1>4, Zenon
<1>7. /\ k \in 0..Len(target) /\ From(target, k + 1) = sent
      /\ \A i \in 1..k : i \in DOMAIN target /\ target[i] = late[i]
  <2>1. LateFirst(target, late, sent, k)
    BY <1>5, <1>6, LateThenSent, Zenon
  <2> QED BY <2>1, Zenon DEF LateFirst
<1>8. k \in 0..n
  <2>1. k <= n
    BY <1>4, <1>5, Zenon
  <2> QED BY <2>1
<1>9. sent \in SentBySession(k)
  <2>1. \A i \in 1..k : i \in DOMAIN target /\ target[i] = assoc.first
    BY <1>4, <1>5, <1>7, Zenon
  <2>2. SentBySession(k) = {From(target, k + 1)}
    BY <1>2, <1>8, <2>1, Zenon DEF SentBySession
  <2> QED BY <1>7, <2>2
<1>10. PICK x \in Seq(Dgrams), y \in Seq(Dgrams) : x = Pending(up.fwd) /\ y = up.fwd.item
  <2>1. up.fwd \in Forwards(Dgrams, Dgrams)
    BY <1>1, PipeFields, Zenon DEF PipeShape
  <2> QED BY <2>1, PendingTyped, Zenon
<1>11. PICK v \in Seq(Dgrams) : v = y \o tail
  BY ConcatProperties, Zenon
<1>12. PICK w \in Seq(Dgrams) : w = x \o v
  BY ConcatProperties, Zenon
<1>13. \E z \in Seq(Dgrams) : taken = sent \o z
  <2>1. CASE ph = "none"
    <3>1. <<>> \o taken = taken
      BY <1>1, ConcatEmptySeq, Zenon
    <3> QED BY <1>1, <1>4, <2>1, <3>1, Zenon
  <2>2. CASE ph = "running"
    BY <1>4, <1>10, <1>11, <1>12, <2>2, Zenon
  <2>3. CASE ph = "ended"
    BY <1>4, <2>3, Zenon
  <2> QED BY <2>1, <2>2, <2>3
<1>14. IsPrefix(sent, taken)
  BY <1>13, PrefixOf, Zenon
<1>15. ASSUME server.phase = "running", ~broken
       PROVE  sent \o Held(up.fwd) \o OnTheWay(up) = taken
  <2>1. PipeLive(up, tail) /\ taken = sent \o (x \o (y \o tail))
    BY <1>3, <1>4, <1>10, <1>15, Zenon
  <2>2. OnTheWay(up) = tail
    BY <1>1, <2>1, OnTheWayIs, Zenon
  <2>3. Held(up.fwd) = x \o y
    <3>1. up.fwd \in Forwards(Dgrams, Dgrams)
      BY <1>1, PipeFields, Zenon DEF PipeShape
    <3> QED BY <1>10, <3>1, HeldIs, Zenon
  <2>4. PICK h \in Seq(Dgrams) : h = x \o y
    BY ConcatProperties, Zenon
  <2>5. Assoc(sent, h, tail)
    BY AssocHolds, Zenon
  <2>6. Assoc(x, y, tail)
    BY AssocHolds, Zenon
  <2> QED BY <2>1, <2>2, <2>3, <2>4, <2>5, <2>6, Zenon DEF Assoc
<1> QED BY <1>7, <1>9, <1>14, <1>15, Zenon DEF UploadConserved

PacketsOf == {ToPacket(d.addr, d.payload) : d \in Dgrams}

LEMMA PacketsTyped ==
    ASSUME NEW ds \in Seq(Dgrams)
    PROVE  /\ Packets(ds) \in Seq(PacketsOf) /\ Len(Packets(ds)) = Len(ds)
           /\ \A i \in 1..Len(ds) : Packets(ds)[i] = ToPacket(ds[i].addr, ds[i].payload)
<1>1. PICK n \in Nat : n = Len(ds) /\ DOMAIN ds = 1..n /\ \A i \in 1..n : ds[i] \in Dgrams
  BY LenProperties, ElementOfSeq, Zenon
<1>2. PICK f : f = Packets(ds)
  OBVIOUS
<1>3. f = [i \in 1..n |-> ToPacket(ds[i].addr, ds[i].payload)]
  BY <1>1, <1>2, Zenon DEF Packets
<1>4. \A i \in 1..n : f[i] = ToPacket(ds[i].addr, ds[i].payload)
  BY <1>3, Zenon
<1>5. \A d \in Dgrams : ToPacket(d.addr, d.payload) \in PacketsOf
  BY Zenon DEF PacketsOf
<1>6. f \in [1..n -> PacketsOf]
  <2>1. \A i \in 1..n : ToPacket(ds[i].addr, ds[i].payload) \in PacketsOf
    BY <1>1, <1>5, Zenon
  <2> QED BY <1>3, <2>1, Zenon
<1>7. f \in Seq(PacketsOf) /\ Len(f) = n
  BY <1>6, SeqDef
<1> QED BY <1>1, <1>2, <1>4, <1>7, Zenon

LEMMA PacketsCat ==
    ASSUME NEW x \in Seq(Dgrams), NEW y \in Seq(Dgrams)
    PROVE  Packets(x \o y) = Packets(x) \o Packets(y)
<1>1. PICK m \in Nat, n \in Nat : m = Len(x) /\ n = Len(y)
  BY LenProperties, Zenon
<1>2. PICK z \in Seq(Dgrams) :
        /\ z = x \o y /\ Len(z) = m + n
        /\ \A i \in 1..m : z[i] = x[i]
        /\ \A i \in 1..n : z[m + i] = y[i]
  <2>1. /\ x \o y \in Seq(Dgrams) /\ Len(x \o y) = Len(x) + Len(y)
        /\ \A i \in 1..Len(x) : (x \o y)[i] = x[i]
        /\ \A i \in 1..Len(y) : (x \o y)[Len(x) + i] = y[i]
    BY Parts
  <2> QED BY <1>1, <2>1, Zenon
<1>3. PICK p \in Seq(PacketsOf) :
        /\ p = Packets(x) /\ Len(p) = m
        /\ \A i \in 1..m : p[i] = ToPacket(x[i].addr, x[i].payload)
  BY <1>1, PacketsTyped, Zenon
<1>3a. PICK q \in Seq(PacketsOf) :
        /\ q = Packets(y) /\ Len(q) = n
        /\ \A i \in 1..n : q[i] = ToPacket(y[i].addr, y[i].payload)
  BY <1>1, PacketsTyped, Zenon
<1>3b. PICK r \in Seq(PacketsOf) :
        /\ r = Packets(z) /\ Len(r) = m + n
        /\ \A i \in 1..(m + n) : r[i] = ToPacket(z[i].addr, z[i].payload)
  BY <1>2, PacketsTyped, ZenonT(90)
<1>4. PICK s \in Seq(PacketsOf) :
        /\ s = p \o q /\ Len(s) = m + n
        /\ \A i \in 1..m : s[i] = p[i]
        /\ \A i \in 1..n : s[m + i] = q[i]
  <2>1. /\ p \o q \in Seq(PacketsOf) /\ Len(p \o q) = Len(p) + Len(q)
        /\ \A i \in 1..Len(p) : (p \o q)[i] = p[i]
        /\ \A i \in 1..Len(q) : (p \o q)[Len(p) + i] = q[i]
    BY Parts
  <2> QED BY <1>3, <1>3a, <2>1, Zenon
<1>5. ASSUME NEW i \in 1..(m + n)
      PROVE  r[i] = s[i]
  <2>0. r[i] = ToPacket(z[i].addr, z[i].payload)
    BY <1>3b, Zenon
  <2>1. CASE i \in 1..m
    <3>1. z[i] = x[i] /\ s[i] = p[i] /\ p[i] = ToPacket(x[i].addr, x[i].payload)
      BY <1>2, <1>3, <1>4, <2>1, Zenon
    <3> QED BY <2>0, <3>1, Zenon
  <2>2. CASE i \notin 1..m
    <3>1. PICK j \in 1..n : i = m + j
      <4>1. i - m \in 1..n /\ i = m + (i - m)
        BY <2>2
      <4> QED BY <4>1
    <3>2. z[m + j] = y[j] /\ s[m + j] = q[j] /\ q[j] = ToPacket(y[j].addr, y[j].payload)
      BY <1>2, <1>3a, <1>4, Zenon
    <3> QED BY <2>0, <3>1, <3>2, Zenon
  <2> QED BY <2>1, <2>2
<1>6. r = s
  BY <1>3b, <1>4, <1>5, SeqEqual, Zenon
<1> QED BY <1>2, <1>3, <1>3a, <1>3b, <1>4, <1>6, Zenon

LEMMA SentArePackets ==
    ASSUME NEW rs \in Seq(Replies), NEW ds \in Seq(Dgrams), Answers(rs, ds)
    PROVE  Sent(rs) = Packets(ds)
<1>1. PICK n \in Nat : n = Len(ds) /\ DOMAIN ds = 1..n /\ DOMAIN rs = 1..n
                       /\ \A i \in 1..n : rs[i].packet = ToPacket(ds[i].addr, ds[i].payload)
  BY LenProperties, Zenon DEF Answers
<1>2. Sent(rs) = [i \in 1..n |-> rs[i].packet]
  BY <1>1, Zenon DEF Sent
<1>3. Packets(ds) = [i \in 1..n |-> ToPacket(ds[i].addr, ds[i].payload)]
  BY <1>1, Zenon DEF Packets
<1> QED BY <1>1, <1>2, <1>3

LEMMA DownloadHolds == ASSUME IInv PROVE DownloadConserved
<1>1. /\ Types /\ PipeShape(down, Replies) /\ got \in Seq(Replies)
      /\ DownOK(down, assoc.phase, broken, got, answered)
  BY DownFacts, Zenon
<1>2. DownOK(down, "ended", broken, got, answered)
  BY <1>1, DownEnded, Zenon
<1>3. IsPrefix(Sent(got), Packets(answered))
  <2>1. PICK done \in Seq(Dgrams), tail \in Seq(Dgrams) :
          answered = done \o tail /\ Answers(got, done)
    BY <1>2, Zenon DEF DownOK
  <2>2. Sent(got) = Packets(done)
    BY <1>1, <2>1, SentArePackets, Zenon
  <2>3. Packets(done \o tail) = Packets(done) \o Packets(tail)
    BY PacketsCat, Zenon
  <2>4. Packets(done) \in Seq(PacketsOf) /\ Packets(tail) \in Seq(PacketsOf)
    BY PacketsTyped, Zenon
  <2>5. IsPrefix(Packets(done), Packets(done) \o Packets(tail))
    BY <2>4, PrefixOf, Zenon
  <2> QED BY <2>1, <2>2, <2>3, <2>5, Zenon
<1>4. ASSUME assoc.phase = "relaying", ~broken, NEW f, f = down.fwd
      PROVE  Sent(got \o f.buffers \o f.slot \o f.state) \o Packets(f.item \o OnTheWay(down))
               = Packets(answered)
  <2>1. assoc.phase # "ended"
    BY <1>4
  <2>2. PICK done \in Seq(Dgrams), tail \in Seq(Dgrams) :
          /\ answered = done \o (f.item \o tail) /\ Answers(got \o Pending(f), done)
          /\ PipeLive(down, tail)
    BY <1>1, <1>4, <2>1, Zenon DEF DownOK
  <2>3. OnTheWay(down) = tail
    BY <1>1, <2>2, OnTheWayIs, Zenon
  <2>4. f \in Forwards(Dgrams, Replies)
    BY <1>1, <1>4, PipeFields, Zenon DEF PipeShape
  <2>5. PICK b \in Seq(Replies), l \in Seq(Replies), t \in Seq(Replies) :
          b = f.buffers /\ l = f.slot /\ t = f.state
    BY <2>4 DEF Forwards
  <2>6. PICK y \in Seq(Dgrams) : y = f.item
    BY <2>4, PendingTyped, Zenon
  <2>7. PICK h \in Seq(Replies) : h = l \o t
    BY ConcatProperties, Zenon
  <2>8. PICK g \in Seq(Replies) : g = got \o b
    BY <1>1, ConcatProperties, Zenon
  <2>9. Assoc(g, l, t)
    BY AssocHolds, Zenon
  <2>10. Assoc(got, b, h)
    BY <1>1, AssocHolds, Zenon
  <2>11. got \o f.buffers \o f.slot \o f.state = got \o Pending(f)
    BY <2>5, <2>7, <2>8, <2>9, <2>10, Zenon DEF Assoc, Pending
  <2>12. PICK rs \in Seq(Replies) : rs = got \o Pending(f)
    <3>1. Pending(f) \in Seq(Replies)
      BY <2>4, PendingTyped, Zenon
    <3> QED BY <1>1, <3>1, ConcatProperties, Zenon
  <2>13. Answers(rs, done)
    BY <2>2, <2>12, Zenon
  <2>14. Sent(rs) = Packets(done)
    BY <2>13, SentArePackets, Zenon
  <2>15. PICK z \in Seq(Dgrams) : z = y \o tail
    BY ConcatProperties, Zenon
  <2>16. Packets(done \o z) = Packets(done) \o Packets(z)
    BY PacketsCat, Zenon
  <2> QED BY <2>2, <2>3, <2>6, <2>11, <2>12, <2>14, <2>15, <2>16, Zenon
<1> QED BY <1>3, <1>4, Zenon DEF DownloadConserved

\* The datagrams of a SOCKS association are conserved, for every script, channel and
\* buffer length: each reaches its target in order and once, with its own address,
\* and each answer the application (serve_udp_proxy_conn, PacketWriter::write and
\* PacketReader::read, UdpSocketSinkStream).
THEOREM DatagramsConservedTheorem == Spec => []DatagramsConserved
<1>1. Init => IInv
  BY InitInv
<1>2. IInv /\ [Next]_vars => IInv'
  BY NextKeeps
<1>3. IInv => DatagramsConserved
  <2> SUFFICES ASSUME IInv PROVE DatagramsConserved
    OBVIOUS
  <2>1. PipeOK(up) /\ PipeOK(down)
    BY Zenon DEF IInv, PipesOK, PipeShape
  <2> QED BY <2>1, UploadHolds, DownloadHolds, Zenon DEF DatagramsConserved
<1> QED BY <1>1, <1>2, <1>3, PTL DEF Spec

\* Once the server's buffers are full and another datagram is in front of them, no
\* step of the chain sends anything to a target or empties them while the session
\* runs (Forward of the futures library on UdpSocketSinkStream).
THEOREM JamIsForGoodTheorem == Spec => JamIsForGood
<1> DEFINE Stays == Jammed(up.fwd) /\ server'.phase = "running" => target' = target /\ Jammed(up'.fwd)
<1>1. ASSUME IInv, Next, Jammed(up.fwd), server'.phase = "running"
      PROVE  target' = target /\ Jammed(up'.fwd)
  <2>1. PipeShape(up, Dgrams) /\ Phases /\ Types
    BY <1>1, UpFacts, Zenon
  <2>2. PICK f \in Forwards(Dgrams, Dgrams) : f = up.fwd /\ ForwardOK(f)
    BY <2>1, PipeFields, PipeOKIs, Zenon DEF PipeShape
  <2>3. up \in Pipes(Dgrams)
    BY <2>1, Zenon DEF PipeShape
  <2>4. ~Ready(f) /\ Jammed(Polled(f))
    BY <1>1, <2>2, JammedStays, Zenon
  <2>5. CASE up'.fwd = up.fwd /\ target' = target
    BY <1>1, <2>5, Zenon
  <2>6. CASE server.phase = "none"
    <3>1. up = NewPipe(<<>>)
      BY <2>1, <2>6, Zenon DEF Phases
    <3>2. up.fwd = NewForward
      BY <3>1 DEF NewPipe
    <3>3. ~Jammed(NewForward)
      BY DEF Jammed, NewForward
    <3> QED BY <1>1, <3>2, <3>3, Zenon
  <2>7. CASE UpTake
    <3>1. up'.fwd = up.fwd
      BY <2>3, <2>7 DEF UpTake, Pipes
    <3> QED BY <2>5, <2>7, <3>1, Zenon DEF UpTake
  <2>8. CASE UpPush
    <3>1. up'.fwd = up.fwd
      BY <2>3, <2>8 DEF UpPush, ToChannel, Pipes
    <3> QED BY <2>5, <2>8, <3>1, Zenon DEF UpPush
  <2>9. CASE UpWrite
    <3>1. PICK q : q = up' /\ q \in Written(up, server.phase = "running" /\ ~broken)
      BY <2>9, Zenon DEF UpWrite
    <3>2. PICK reader \in BOOLEAN : reader <=> (server.phase = "running" /\ ~broken)
      OBVIOUS
    <3>3. q \in Written(up, reader) /\ up.chan # <<>>
      BY <2>9, <3>1, <3>2 DEF Written, UpWrite
    <3>4. /\ PipeShape(q, Dgrams) /\ q.fwd = up.fwd
          /\ (~reader => q.wire = up.wire)
          /\ (reader => \A tail : PipeLive(up, tail) => PipeLive(q, tail))
      BY <2>1, <3>3, PipeWrite, Zenon
    <3> QED BY <2>5, <2>9, <3>1, <3>4, Zenon DEF UpWrite
  <2>10. CASE ConnectionBreaks
    <3>1. up'.fwd = up.fwd
      BY <2>3, <2>10 DEF ConnectionBreaks, Pipes
    <3> QED BY <2>5, <2>10, <3>1, Zenon DEF ConnectionBreaks
  <2>11. CASE ServerReads
    <3>1. /\ up'.fwd.buffers = up.fwd.buffers /\ up'.fwd.slot = up.fwd.slot
          /\ up'.fwd.state = up.fwd.state
      <4>1. PICK w, r, i : up' = [up EXCEPT !.wire = w, !.rlast = r, !.fwd.item = i]
        BY <2>11, Zenon DEF ServerReads, FrameTaken
      <4> QED BY <2>3, <4>1 DEF Pipes, Forwards
    <3> QED BY <1>1, <2>11, <3>1, Zenon DEF ServerReads, Jammed
  <2>12. CASE ServerPush
    <3>1. up' = [up EXCEPT !.fwd = Polled(f)]
      BY <2>2, <2>4, <2>12 DEF ServerPush
    <3>2. up'.fwd = Polled(f)
      BY <2>3, <3>1 DEF Pipes
    <3> QED BY <2>4, <2>12, <3>2, Zenon DEF ServerPush
  <2>13. ASSUME NEW n, ServerFlushes(n)
         PROVE  target' = target /\ Jammed(up'.fwd)
    <3>1. ~FlushReady(up.fwd)
      BY <2>2, <2>4, Zenon DEF FlushReady
    <3>2. up' = [up EXCEPT !.fwd = Polled(f)] /\ target' = target
      BY <2>2, <2>13, <3>1, Zenon DEF ServerFlushes
    <3>3. up'.fwd = Polled(f)
      BY <2>3, <3>2 DEF Pipes
    <3> QED BY <2>4, <3>2, <3>3, Zenon
  <2>14. CASE Outside
    BY <2>5, <2>10, <2>14, Zenon DEF Outside, Arrives, AppCloses, TargetReplies
  <2>15. CASE Association \/ AttemptEnds
    <3>1. assoc.phase = "trying" => server.phase = "none"
      BY <2>1 DEF Phases
    <3> QED BY <2>5, <2>6, <2>15, <3>1, Zenon
         DEF Association, AttemptEnds, FirstPacket, UpstreamsExhausted, RequestPanics, UpstreamFails,
             UpstreamFailsLate, UpstreamConnects, OneOffReplied, OneOffFails
  <2>16. CASE ServerUploadEnds \/ ServerDownload \/ DownWrite \/ ServerDownloadEnds
              \/ ClientDownload \/ AssocStops \/ AssocIdles
    BY <2>5, <2>16, Zenon
    DEF ServerUploadEnds, ServerDownload, DownTake, DownPush, DownWrite, ServerDownloadEnds,
        ClientDownload, ClientReads, ClientPush, ClientFlushes, AssocStops, AssocIdles
  <2>17. CASE ServerUpload
    BY <2>11, <2>12, <2>13, <2>17, Zenon DEF ServerUpload
  <2> QED BY <1>1, <2>7, <2>8, <2>9, <2>14, <2>15, <2>16, <2>17, Zenon DEF Next, ClientUpload
<1>2. IInv /\ [Next]_vars => [Stays]_vars
  BY <1>1, Zenon
<1>3. IInv /\ [Next]_vars => IInv'
  BY NextKeeps
<1>4. Init => IInv
  BY InitInv
<1> QED BY <1>2, <1>3, <1>4, PTL DEF Spec, JamIsForGood

=============================================================================
