----------------------------- MODULE UdpManProto -----------------------------
(***************************************************************************)
(* The messages of UDPMan as bytes (src/src/protocol/udpman/proto.rs).     *)
(*                                                                         *)
(* An Option is the empty set or a set of one value; a u16 stays its two   *)
(* bytes; a socket address is [ip, port], of IPv6 when ip has 16 bytes.    *)
(* Refused stands for Err.                                                 *)
(***************************************************************************)
EXTENDS Integers, Sequences

Connect(uuid, dst, nonce, data) ==
    [type |-> "Connect", uuid |-> uuid, dst |-> dst, nonce |-> nonce, data |-> data]

\* reply is an Option of [data, addr].
Establish(uuid, id, reply) ==
    [type |-> "Establish", uuid |-> uuid, id |-> id, reply |-> reply]

Data(id, addr, nonce, data) ==
    [type |-> "Data", id |-> id, addr |-> addr, nonce |-> nonce, data |-> data]

Refused == [type |-> "Err"]

-----------------------------------------------------------------------------
(* Into<u8> and TryFrom<u8> of MessageFlags: the type in the upper three    *)
(* bits, below them a bit for each thing that is there.                     *)

FlagBit(bit, there) == IF there THEN bit ELSE 0
HasFlag(b, bit) == (b \div bit) % 2 = 1
TypeOf(b) == b \div 32

IsV6(addr) == Len(addr.ip) = 16
AnyV6(addrs) == \E a \in addrs : IsV6(a)

ConnectFlags(m) == FlagBit(1, IsV6(m.dst)) + FlagBit(2, m.nonce # {})

EstablishFlags(m) ==
    32 + FlagBit(1, m.reply # {}) + FlagBit(2, AnyV6({r.addr : r \in m.reply}))

\* Mutant of DataFlags: the bits of the nonce and of the IPv6 address are swapped.
DataFlagsSwapped(m) ==
    64 + FlagBit(1, m.id # {}) + FlagBit(2, m.addr # {}) + FlagBit(4, m.nonce # {})
       + FlagBit(8, AnyV6(m.addr))

DataFlags(m) ==
    64 + FlagBit(1, m.id # {}) + FlagBit(2, m.addr # {}) + FlagBit(4, AnyV6(m.addr))
       + FlagBit(8, m.nonce # {})

-----------------------------------------------------------------------------
(* to_writer.                                                               *)

\* The bytes of an optional field.
Opt(field) == IF field = {} THEN <<>> ELSE CHOOSE x \in field : TRUE

SocketAddr(a) == a.ip \o a.port

WriteUuid(uuid) == <<Len(uuid)>> \o uuid

ToWriter(m) ==
    CASE m.type = "Connect" ->
           <<ConnectFlags(m)>> \o WriteUuid(m.uuid) \o SocketAddr(m.dst) \o Opt(m.nonce)
           \o m.data
      [] m.type = "Establish" ->
           <<EstablishFlags(m)>> \o WriteUuid(m.uuid) \o m.id
           \o Opt({SocketAddr(r.addr) \o r.data : r \in m.reply})
      [] m.type = "Data" ->
           <<DataFlags(m)>> \o Opt(m.id) \o Opt({SocketAddr(a) : a \in m.addr})
           \o Opt(m.nonce) \o m.data

-----------------------------------------------------------------------------
(* parse.  check_remaining before each field refuses what is cut short.     *)

Slice(b, from, len) == SubSeq(b, from, from + len - 1)
Rest(b, from) == SubSeq(b, from, Len(b))

AddrLen(v6) == (IF v6 THEN 16 ELSE 4) + 2
SocketAddrAt(b, from, len) ==
    [ip |-> Slice(b, from, len - 2), port |-> Slice(b, from + len - 2, 2)]

\* A field that is not there takes no bytes.
Takes(len, there) == IF there THEN len ELSE 0
OptAt(b, from, len) == IF len = 0 THEN {} ELSE {Slice(b, from, len)}
OptAddrAt(b, from, len) == IF len = 0 THEN {} ELSE {SocketAddrAt(b, from, len)}
OptReplyAt(b, from, len) ==
    {[data |-> Rest(b, from + len), addr |-> a] : a \in OptAddrAt(b, from, len)}

ParseConnect(b) ==
    LET dst == 3 + b[2]
        dstLen == AddrLen(HasFlag(b[1], 1))
        nonce == dst + dstLen
        nonceLen == Takes(2, HasFlag(b[1], 2))
        data == nonce + nonceLen
    IN  IF Len(b) < 2 \/ Len(b) < data - 1 THEN Refused
        ELSE Connect(Slice(b, 3, b[2]), SocketAddrAt(b, dst, dstLen),
                     OptAt(b, nonce, nonceLen), Rest(b, data))

ParseEstablish(b) ==
    LET id == 3 + b[2]
        addrLen == Takes(AddrLen(HasFlag(b[1], 2)), HasFlag(b[1], 1))
    IN  IF Len(b) < 2 \/ Len(b) < id + 1 + addrLen THEN Refused
        ELSE Establish(Slice(b, 3, b[2]), Slice(b, id, 2), OptReplyAt(b, id + 2, addrLen))

ParseData(b) ==
    LET idLen == Takes(2, HasFlag(b[1], 1))
        addr == 2 + idLen
        addrLen == Takes(AddrLen(HasFlag(b[1], 4)), HasFlag(b[1], 2))
        nonce == addr + addrLen
        nonceLen == Takes(2, HasFlag(b[1], 8))
        data == nonce + nonceLen
    IN  IF Len(b) < data - 1 THEN Refused
        ELSE Data(OptAt(b, 2, idLen), OptAddrAt(b, addr, addrLen),
                  OptAt(b, nonce, nonceLen), Rest(b, data))

Parse(b) ==
    IF b = <<>> THEN Refused
    ELSE CASE TypeOf(b[1]) = 0 -> ParseConnect(b)
           [] TypeOf(b[1]) = 1 -> ParseEstablish(b)
           [] TypeOf(b[1]) = 2 -> ParseData(b)
           [] OTHER -> Refused

=============================================================================
