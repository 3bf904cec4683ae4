------------------------------ MODULE TcpManUdp ------------------------------
(***************************************************************************)
(* The request of TCPMan (src/src/protocol/tcpman/proto.rs) and its frames *)
(* for datagrams (udp_stream.rs), in which an address that is the last one *)
(* is left out.  last is the last address, a sequence of at most one.      *)
(***************************************************************************)
EXTENDS Address

RequestUdp == 1

\* Request::to_vec; it panics on an address that cannot be written.
ToVec(type, dst, data) == <<type>> \o WriteTo(dst) \o data

\* Request::parse; an address that is cut short is an error.
ParseRequest(b) ==
    IF b = <<>> THEN Invalid
    ELSE IF b[1] \notin {0, RequestUdp} THEN Invalid
    ELSE LET r == ParseAddress(From(b, 2))
         IN  IF r.st # "ok" THEN Invalid
             ELSE Parsed(Len(b), [type |-> b[1], dst |-> r.value,
                                  data |-> From(b, r.used + 2)])

-----------------------------------------------------------------------------
U16(n) == <<n \div 256, n % 256>>
FromU16(b, i) == b[i] * 256 + b[i + 1]

PacketType(a) == CASE a.kind = "v4" -> 2 [] a.kind = "v6" -> 3 [] a.kind = "name" -> 4

\* The address of a frame.
FrameAddr(a) == (IF a.kind = "name" THEN U16(Len(a.host)) ELSE <<>>) \o a.host \o a.port

\* Mutant of WriteFrame: the address is left out whenever there was one before.
WriteFrameFirstOnly(last, a, payload) ==
    IF last # <<>> THEN <<1>> \o U16(Len(payload)) \o payload
    ELSE <<PacketType(a)>> \o U16(Len(payload)) \o FrameAddr(a) \o payload

\* PacketWriter::write; last_sent is the address then.
WriteFrame(last, a, payload) ==
    IF last = <<a>> THEN <<1>> \o U16(Len(payload)) \o payload
    ELSE <<PacketType(a)>> \o U16(Len(payload)) \o FrameAddr(a) \o payload

\* PacketReader::read, once the frame has come whole; last_received is the address
\* then.  A frame without an address needs an earlier one.
ReadFrame(last, b) ==
    LET len == FromU16(b, 2)
        \* n bytes of host from byte i on, then the port and the payload
        Fields(i, n, Make(_, _)) ==
            IF Len(b) < i + n + 1 + len THEN Incomplete
            ELSE Parsed(i + n + 1 + len,
                        [addr |-> Make(SubSeq(b, i, i + n - 1), SubSeq(b, i + n, i + n + 1)),
                         payload |-> SubSeq(b, i + n + 2, i + n + 1 + len)])
    IN  IF Len(b) < 3 THEN Incomplete
        ELSE CASE b[1] = 1 ->
                    IF Len(b) < 3 + len THEN Incomplete
                    ELSE IF last = <<>> THEN Invalid
                    ELSE Parsed(3 + len, [addr |-> last[1], payload |-> SubSeq(b, 4, 3 + len)])
               [] b[1] = 2 -> Fields(4, 4, V4)
               [] b[1] = 3 -> Fields(4, 16, V6)
               [] b[1] = 4 ->
                    IF Len(b) < 5 THEN Incomplete
                    ELSE LET r == Fields(6, FromU16(b, 4), Name)
                         IN  IF r.st = "ok"
                             THEN IF IsUtf8(r.value.addr.host) THEN r ELSE Invalid
                             ELSE r
               [] OTHER -> Invalid

=============================================================================
