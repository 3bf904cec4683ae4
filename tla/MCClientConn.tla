---- MODULE MCClientConn ----
(* The rule texts: three tables, one level for each, so that chains of jumps are as
   deep as the limit, and there are loops and jumps to a table without a rule.
   The connections: one redirected to a port that is read from first,
   one that may be any other kind. *)
EXTENDS ClientConn

MCRule(dest, proto, kind, arg) ==
    [dest |-> dest, proto |-> proto, action |-> Result(kind, arg)]

MCDomain == [kind |-> "domain", arg |-> {"site"}]
MCGeo    == [kind |-> "geoip", arg |-> "nz"]
MCPort   == [kind |-> "port", arg |-> 53]
MCDns    == [kind |-> "dnshost", arg |-> {"site"}]
MCNet    == [kind |-> "network", arg |-> "lan"]

MCToU1    == MCRule({MCDomain}, "any", "proxy", "u1")
MCToGroup == MCRule({MCGeo, MCNet}, "tcp", "group", "g1")
MCReject  == MCRule({}, "any", "reject", NoName)

MCRuleLines ==
    { MCToU1, MCToGroup, MCReject,
      MCRule({MCPort, MCDns}, "udp", "proxy", "u2"),
      MCRule({}, "tcp", "jump", "t1"),
      MCRule({}, "any", "jump", "t2"),
      MCRule({MCGeo}, "any", "jump", "main"),
      MCRule({MCDomain}, "any", "return", NoName) }

MCIp(resolved, port) ==
    [host |-> NoHost, country |-> "nz", networks |-> {"lan"}, port |-> port,
     resolved |-> resolved]

MCName(h) ==
    [host |-> h, country |-> "none", networks |-> {}, port |-> 443, resolved |-> {}]

MCData(http, sni, dns) == [given |-> TRUE, http |-> http, sni |-> sni, dns |-> dns]

MCRequest(target, proto, data) == [target |-> target, proto |-> proto, data |-> data]

MCRequests ==
    { MCRequest(MCIp({"site"}, 443), "tcp", NoData),
      MCRequest(MCIp({"site"}, 443), "tcp", MCData("other", NoHost, {})),
      MCRequest(MCIp({}, 443), "tcp", MCData(NoHost, "site", {})),
      MCRequest(MCIp({}, 53), "udp", MCData(NoHost, NoHost, {"site"})),
      MCRequest(MCName("site"), "tcp", NoData),
      MCRequest(MCName("other"), "udp", NoData) }

MCServed == { <<>>, "main" :> <<MCToU1, MCToGroup, MCReject>> }

MCClient(kind, request) == [kind |-> kind, request |-> request]

MCClients ==
    "c1" :> { MCClient("transparent", MCRequest(MCIp({}, 443), "tcp",
                                                MCData(NoHost, "site", {}))) }
    @@ "c2" :> { MCClient("tunnel", MCRequest(MCName("site"), "tcp", NoData)),
                 MCClient("http", MCRequest(MCName("other"), "tcp",
                                            MCData("other", NoHost, {}))),
                 MCClient("https", MCRequest(MCIp({}, 444), "tcp", NoData)),
                 MCClient("transparent", MCRequest(MCIp({}, 22), "tcp", NoData)) }

MCUpstreams ==
    "u1" :> [protocol |-> "tcpman", groups |-> {"g1"}, enabled |-> TRUE]
    @@ "u2" :> [protocol |-> "direct", groups |-> Ungrouped, enabled |-> TRUE]
    @@ "u3" :> [protocol |-> "udpman", groups |-> Ungrouped, enabled |-> TRUE]
    @@ "u4" :> [protocol |-> "http", groups |-> {"g2"}, enabled |-> FALSE]
====
