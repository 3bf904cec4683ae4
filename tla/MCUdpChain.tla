----------------------------- MODULE MCUdpChain -----------------------------
EXTENDS UdpChain

Port == <<1, 187>>
A == V4(<<1, 2, 3, 4>>, Port)
N == Name(<<104>>, Port)
Lost == Name(<<105>>, Port)
Six == V6([i \in 1..16 |-> 6], Port)
Dns == V4(<<1, 2, 3, 4>>, <<0, 53>>)
Stray86 == [i \in 1..86 |-> 200]
LossyLong == Name(Stray86, Port)        \* 258 bytes once it is UTF-8
LossyShort == Name(<<200>>, Port)

MCLiterals == [x \in {} |-> x]
Replacement == <<239, 191, 189>>        \* U+FFFD
MCRepaired ==
    Stray86 :> [i \in 1..258 |-> Replacement[1 + ((i - 1) % 3)]] @@ <<200>> :> Replacement
MCUnresolvable == {Lost}

App(a, n) == [from |-> "app", bytes |-> ToPacket(a, <<n>>)]
Stray == [from |-> "stranger", bytes |-> <<1>>]

Script(arrivals, replies, n) ==
    [arrivals |-> arrivals, replies |-> replies, upstreams |-> n]

MCScripts ==
    { Script(<<App(A, 1), App(A, 2), App(N, 3), App(A, 4), App(A, 5)>>, <<>>, 2),
      Script(<<App(LossyShort, 1), App(LossyShort, 2), Stray>>, <<Dgram(A, <<8>>)>>, 1),
      Script(<<App(A, 1)>>, <<Dgram(A, <<6>>), Dgram(Six, <<7>>), Dgram(Six, <<8>>), Dgram(A, <<9>>)>>, 1),
      Script(<<Stray, App(Dns, 1)>>, <<Dgram(Dns, <<7>>)>>, 2),
      Script(<<App(N, 1), App(Six, 2), App(N, 3)>>, <<>>, 1),
      Script(<<App(A, 1), App(Lost, 2), App(A, 3)>>, <<>>, 1),
      Script(<<App(LossyLong, 1)>>, <<>>, 2),
      Script(<<App(Six, 1)>>, <<>>, 2) }

=============================================================================
