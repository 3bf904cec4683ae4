-------------------------- MODULE MCProxyHandshake --------------------------
EXTENDS ProxyHandshake

Port == <<1, 187>>
Ip == <<1, 2, 3, 4>>
IpText == <<49, 46>>            \* stands for the text of Ip
Host == <<104, 111>>
LongHost == [i \in 1..256 |-> 104]

MCLiterals == IpText :> V4(Ip, Port)
MCRepaired == <<200>> :> <<239, 191, 189>>

PortText == <<52>>              \* stands for the text of Port
UrlText == <<47>>
MCUriBytes == 33..126
MCSocketTexts == IpText \o <<Colon>> \o PortText :> V4(Ip, Port)
MCPortTexts == PortText :> Port
MCUrls == UrlText :> Name(Host, Port)

TextOf(host) == host \o <<Colon>> \o PortText
GetHead == RequestHead(71, UrlText)
BadHead == RequestHead(ConnectMethod, Host)     \* a target without a port

Session(from, to, cmd, dst, text, script, meant) ==
    [client |-> from, server |-> to, cmd |-> cmd, dst |-> dst, text |-> text,
     head |-> RequestHead(ConnectMethod, text),
     script |-> script, meant |-> meant, payload |-> <<7, 8>>, reply |-> <<9, 10>>]

OwnSocks(cmd, dst, meant) == Session("socks5", "handshaker", cmd, dst, <<>>, <<>>, meant)

OwnHttp(to, dst, text, meant) == Session("http", to, ConnectTcp, dst, text, <<>>, meant)

Other(to, script, meant) ==
    Session("other", to, ConnectTcp, DefaultAddress, <<>>, script, meant)

Socks4Request(cmd, ip, rest) == <<4, cmd>> \o Port \o ip \o rest

MCSessions ==
    { OwnSocks(ConnectTcp, V4(Ip, Port), Request("TCP", "socks5", V4(Ip, Port))),
      OwnSocks(ConnectTcp, Name(Host, Port), Request("TCP", "socks5", Name(Host, Port))),
      OwnSocks(ConnectTcp, Name(IpText, Port), Request("TCP", "socks5", V4(Ip, Port))),
      OwnSocks(ConnectTcp, Name(LongHost, Port), NoRequest),
      OwnSocks(BindUdp, DefaultAddress, Request("UDP", "socks5", DefaultAddress)),
      OwnHttp("http", V4(Ip, Port), TextOf(IpText), Request("TCP", "connect", V4(Ip, Port))),
      OwnHttp("handshaker", V4(Ip, Port), TextOf(IpText),
              Request("TCP", "connect", V4(Ip, Port))),
      OwnHttp("http", Name(Host, Port), TextOf(Host), Request("TCP", "connect", Name(Host, Port))),
      \* names that are the text of an IP address, empty, of colons, not one word
      OwnHttp("http", Name(IpText, Port), TextOf(IpText),
              Request("TCP", "connect", V4(Ip, Port))),
      OwnHttp("http", Name(<<>>, Port), TextOf(<<>>), NoRequest),
      OwnHttp("http", Name(<<Colon, Colon>>, Port), TextOf(<<Colon, Colon>>),
              Request("TCP", "connect", Name(<<Colon, Colon>>, Port))),
      OwnHttp("http", Name(<<104, Space>>, Port), TextOf(<<104, Space>>), NoRequest),
      \* the greeting and the request at once; a host name that is not UTF-8
      Other("handshaker", Greeting(<<2, NoPassword>>) \o ConnRequest(ConnectTcp, V4(Ip, Port)),
            Request("TCP", "socks5", V4(Ip, Port))),
      Other("handshaker", Greeting(<<NoPassword>>) \o ConnRequest(ConnectTcp, Name(<<200>>, Port)),
            Request("TCP", "socks5", Name(<<239, 191, 189>>, Port))),
      \* no authentication in common; a command that is not served; a broken request
      Other("handshaker", Greeting(<<2>>), NoRequest),
      Other("handshaker", Greeting(<<NoPassword>>) \o ConnRequest(2, V4(Ip, Port)), NoRequest),
      Other("handshaker", Greeting(<<NoPassword>>) \o <<5, 1, 0, 9>>, NoRequest),
      Other("handshaker", Socks4Request(ConnectTcp, Ip, <<97, 0>>),
            Request("TCP", "socks4", V4(Ip, Port))),
      Other("handshaker", Socks4Request(ConnectTcp, <<0, 0, 0, 1>>, <<0>> \o Host \o <<0>>),
            Request("TCP", "socks4", Name(Host, Port))),
      Other("handshaker", Socks4Request(2, Ip, <<0>>), NoRequest),
      Other("handshaker", GetHead, Request("HTTP", "http", Name(Host, Port))),
      Other("http", GetHead, Request("HTTP", "http", Name(Host, Port))),
      \* an upload that fits the buffer behind the head
      [Other("http", GetHead, Request("HTTP", "http", Name(Host, Port))) EXCEPT !.payload = <<7>>],
      Other("handshaker", BadHead, NoRequest),
      Other("handshaker", <<22, 3, 0, 0, 0, 0, 0, 0, 0>>, NoRequest) }

=============================================================================
