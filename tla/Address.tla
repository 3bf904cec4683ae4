------------------------------- MODULE Address -------------------------------
(***************************************************************************)
(* Addresses and their SOCKS encoding (src/src/socks5/addr.rs).            *)
(*                                                                         *)
(* A byte is a number, text a sequence of bytes; a port stays the two      *)
(* bytes it is sent as.  What a parser returns is a record: Incomplete for *)
(* Ok(None), Invalid for Err, Parsed(n, v) for a value v made of the first *)
(* n bytes.                                                                *)
(***************************************************************************)
EXTENDS Integers, Sequences, SequencesExt

CONSTANTS
    Literals,       \* the host texts that are IP addresses, and which ones
    Repaired        \* the texts that are not UTF-8, and what from_utf8_lossy makes of them

Byte == 0..255
Bytes == Seq(Byte)

Incomplete == [st |-> "incomplete"]
Invalid == [st |-> "error"]
Parsed(n, v) == [st |-> "ok", used |-> n, value |-> v]

From(b, i) == SubSeq(b, i, Len(b))

V4(ip, port) == [kind |-> "v4", host |-> ip, port |-> port]
V6(ip, port) == [kind |-> "v6", host |-> ip, port |-> port]
Name(host, port) == [kind |-> "name", host |-> host, port |-> port]

\* Address::default.
DefaultAddress == V4(<<0, 0, 0, 0>>, <<0, 0>>)

\* From<(Cow<str>, u16)>: the text of an IP address becomes that address.
FromHost(host, port) ==
    IF host \in DOMAIN Literals THEN [Literals[host] EXCEPT !.port = port]
    ELSE Name(host, port)

\* A SocketAddr.
IsSocketAddr(a) ==
    /\ a \in [kind : {"v4", "v6"}, host : Bytes, port : Bytes]
    /\ Len(a.host) = (IF a.kind = "v4" THEN 4 ELSE 16) /\ Len(a.port) = 2

\* Each stray byte of a text becomes the three bytes of U+FFFD.
ASSUME AddressAssumption ==
    /\ \A t \in DOMAIN Literals : IsSocketAddr(Literals[t])
    /\ \A t \in DOMAIN Repaired :
         /\ Repaired[t] \in Bytes /\ Repaired[t] \notin DOMAIN Repaired
         /\ Len(Repaired[t]) <= 3 * Len(t)

\* String::from_utf8_lossy.
Lossy(text) == IF text \in DOMAIN Repaired THEN Repaired[text] ELSE text

\* from_utf8 refuses any other text.
IsUtf8(text) == text \notin DOMAIN Repaired

TypeByte(a) == CASE a.kind = "v4" -> 1 [] a.kind = "name" -> 3 [] a.kind = "v6" -> 4

\* Mutant of Writable: the length is cut to a byte.
WritableAlways(a) == TRUE

\* write and write_to fail on a name whose length does not fit a byte.
Writable(a) == a.kind = "name" => Len(a.host) <= 255

\* What write and write_to put out.
WriteTo(a) ==
    <<TypeByte(a)>> \o (IF a.kind = "name" THEN <<Len(a.host) % 256>> ELSE <<>>)
    \o a.host \o a.port

\* An address of n bytes behind the type byte.
ParseIp(b, n, Make(_, _)) ==
    IF Len(b) < 1 + n + 2 THEN Incomplete
    ELSE Parsed(n + 3, Make(SubSeq(b, 2, n + 1), SubSeq(b, n + 2, n + 3)))

ParseName(b, Make(_, _)) ==
    IF Len(b) < 2 THEN Incomplete
    ELSE IF Len(b) < b[2] + 4 THEN Incomplete
    ELSE Parsed(b[2] + 4, Make(SubSeq(b, 3, b[2] + 2), SubSeq(b, b[2] + 3, b[2] + 4)))

LossyName(text, port) == FromHost(Lossy(text), port)

\* Address::parse.
ParseAddress(b) ==
    IF b = <<>> THEN Incomplete
    ELSE CASE b[1] = 1 -> ParseIp(b, 4, V4)
           [] b[1] = 3 -> ParseName(b, LossyName)
           [] b[1] = 4 -> ParseIp(b, 16, V6)
           [] OTHER -> Invalid

\* Address::parse_async: a name stays a name, and must be UTF-8; Incomplete
\* stands for bytes it still waits for.
ParseAsync(b) ==
    IF b = <<>> THEN Incomplete
    ELSE CASE b[1] = 1 -> ParseIp(b, 4, V4)
           [] b[1] = 4 -> ParseIp(b, 16, V6)
           [] b[1] = 3 -> LET r == ParseName(b, Name)
                          IN  IF r.st = "ok" THEN IF IsUtf8(r.value.host) THEN r ELSE Invalid
                              ELSE r
           [] OTHER -> Invalid

=============================================================================
