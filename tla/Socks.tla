-------------------------------- MODULE Socks --------------------------------
(***************************************************************************)
(* The messages of SOCKS 5 and SOCKS 4: greeting, request, answers and the *)
(* packets of a UDP association (src/src/socks5/greeting.rs, req.rs,       *)
(* udp.rs, src/src/socks4.rs).                                             *)
(***************************************************************************)
EXTENDS Address

NoPassword == 0
NotAccepted == 255
ConnectTcp == 1
BindUdp == 3
Granted == 0
Failed == 1
UnsupportedCommand == 7

-----------------------------------------------------------------------------
(* SOCKS 5.                                                                 *)

\* ClientGreeting::to_async_writer and parse.
Greeting(auths) == <<5, Len(auths)>> \o auths

ParseGreeting(b) ==
    IF Len(b) < 2 THEN Incomplete
    ELSE IF b[1] # 5 THEN Invalid
    ELSE IF Len(b) < b[2] + 2 THEN Incomplete
    ELSE Parsed(b[2] + 2, SubSeq(b, 3, b[2] + 2))

\* ClientConnRequest::to_async_writer and parse.
ConnRequest(cmd, a) == <<5, cmd, 0>> \o WriteTo(a)

ParseConnRequest(b) ==
    IF Len(b) < 3 THEN Incomplete
    ELSE IF b[1] # 5 \/ b[3] # 0 THEN Invalid
    ELSE LET r == ParseAddress(From(b, 4))
         IN  IF r.st = "ok" THEN Parsed(r.used + 3, [cmd |-> b[2], addr |-> r.value])
             ELSE r

\* ClientGreeting::respond and read_response.
GreetingAnswer(auth) == <<5, auth>>

ReadGreetingAnswer(b) ==
    IF Len(b) < 2 THEN Incomplete
    ELSE IF b[1] # 5 THEN Invalid
    ELSE Parsed(2, b[2])

\* ClientConnRequest::respond and parse_response.
ConnAnswer(code, bound) == <<5, code, 0>> \o WriteTo(bound)

ParseConnAnswer(b) ==
    IF Len(b) < 3 THEN Incomplete
    ELSE IF b[1] # 5 \/ b[3] # 0 THEN Invalid
    ELSE LET r == ParseAsync(From(b, 4))
         IN  IF r.st = "ok" THEN Parsed(r.used + 3, [code |-> b[2], bound |-> r.value])
             ELSE r

-----------------------------------------------------------------------------
(* SOCKS 4, with the host names of SOCKS 4a.                                *)

\* The index of the first 0 of b from index i on; 0 if there is none.
ZeroFrom(b, i) == SelectInSubSeq(b, i, Len(b), LAMBDA x : x = 0)

HasName(ip) == SubSeq(ip, 1, 3) = <<0, 0, 0>> /\ ip[4] # 0

\* parse_socks4_request: the user name ends at the first 0, the host name, when
\* the address is 0.0.0.x, at the next.
ParseSocks4(b) ==
    IF Len(b) < 9 THEN Incomplete
    ELSE IF b[1] # 4 THEN Invalid
    ELSE LET port == SubSeq(b, 3, 4)
             ip == SubSeq(b, 5, 8)
             user == ZeroFrom(b, 9)
             host == ZeroFrom(b, user + 1)
         IN  IF user = 0 THEN Incomplete
             ELSE IF ~HasName(ip) THEN Parsed(user, [cmd |-> b[2], addr |-> V4(ip, port)])
             ELSE IF host = 0 THEN Incomplete
             ELSE Parsed(host, [cmd |-> b[2],
                                addr |-> Name(Lossy(SubSeq(b, user + 1, host - 1)), port)])

\* respond_socks4.
Socks4Answer(granted) == <<0, IF granted THEN 90 ELSE 91, 0, 0, 0, 0, 0, 0>>

-----------------------------------------------------------------------------
(* The packets of a UDP association.                                        *)

\* UdpRepr::to_packet, with fragment number 0; it fails on an unwritable address.
ToPacket(a, payload) == <<0, 0, 0>> \o WriteTo(a) \o payload

\* UdpPacket::new_checked; an address that is cut short is an error, and the
\* fragment number is not looked at.
CheckPacket(b) ==
    IF Len(b) < 3 THEN Invalid
    ELSE IF SubSeq(b, 1, 2) # <<0, 0>> THEN Invalid
    ELSE LET r == ParseAddress(From(b, 4))
         IN  IF r.st # "ok" THEN Invalid
             ELSE Parsed(Len(b), [addr |-> r.value, payload |-> From(b, 4 + r.used)])

=============================================================================
