--------------------------- MODULE MCPacketFilter ---------------------------
(***************************************************************************)
(* A firewall between a LAN with a server, a guest network and the         *)
(* Internet, with IPv6 on the LAN and the Internet.                        *)
(***************************************************************************)
EXTENDS PacketFilter

MCIface == {"lan", "guest", "wan"}
MCHost == {"server", "phone", "peer", "forged", "peer6", "server6", "us", "us6"}
MCSixHost == {"peer6", "server6", "us6"}
MCSelf == {"us", "us6"}
MCPort == {0, 22, 53, 67, 68, 80, 443, 547, 853, 8000, 8080}
MCWan == {"wan"}
MCBlocked == [i \in MCIface |-> {"forged"}]
MCRoute == [h \in MCHost |->
  CASE h \in {"server", "server6"} -> "lan" [] h = "phone" -> "guest"
    [] h \in MCSelf -> "none" [] OTHER -> "wan"]

ARule == [pri |-> 10, act |-> "accept", dir |-> "forward", iface |-> AnyIface, fam |-> "both",
          src |-> Host, dst |-> Host, proto |-> "any", port |-> 0, limited |-> FALSE,
          enabled |-> TRUE, window |-> FALSE]
MCRules ==
  {ARule,
   [ARule EXCEPT !.pri = 5, !.act = "reject", !.iface = "lan", !.fam = "v4", !.proto = "tcp", !.port = 80],
   [ARule EXCEPT !.pri = 0, !.act = "drop", !.dir = "input"],
   [ARule EXCEPT !.src = {"server"}, !.dst = {"peer6"}],
   [ARule EXCEPT !.pri = 7, !.act = "drop", !.iface = "wan", !.window = TRUE],
   [ARule EXCEPT !.limited = TRUE, !.pri = 3, !.fam = "v6", !.dst = {"server6"}],
   [ARule EXCEPT !.port = 80]}

AForward == [kind |-> "dnat", pri |-> 10, iface |-> "wan", fam |-> "v4", src |-> Host \ SixHost,
             dst |-> {"us"}, proto |-> "tcp", port |-> 443, to |-> {"server"}, toPort |-> 8080,
             toEnd |-> 0, auto |-> TRUE, enabled |-> TRUE]
MCNatRules ==
  {AForward,
   [AForward EXCEPT !.pri = 5, !.iface = AnyIface, !.port = 80, !.toPort = 0, !.proto = "tcp_udp"],
   [AForward EXCEPT !.toEnd = 8080, !.toPort = 8000, !.auto = FALSE],
   [AForward EXCEPT !.kind = "masquerade", !.to = {}, !.toPort = 0, !.dst = Host \ SixHost]}

ASetting == [input |-> "drop", forward |-> "drop", invalid |-> TRUE, syn |-> TRUE, lockout |-> TRUE,
             iface |-> AnyIface, sources |-> {}, ports |-> {}]
MCSettings ==
  {ASetting,
   [ASetting EXCEPT !.forward = "accept", !.syn = FALSE, !.ports = {443}],
   [ASetting EXCEPT !.iface = "wan", !.sources = {"forged", "peer6"}]}

MCSystems ==
  {[six |-> k[1], ssh |-> k[2], web |-> k[3], sshPort |-> k[4]] :
     k \in {<<FALSE, FALSE, 443, 22>>, <<TRUE, TRUE, 443, 80>>, <<FALSE, TRUE, 80, 22>>}}

APortal == [on |-> TRUE, ifaces |-> {"guest"}, port |-> 8000, redirect |-> TRUE,
            walled |-> {"peer6"}, bypass |-> {}]
MCPortals == {[APortal EXCEPT !.on = FALSE], APortal, [APortal EXCEPT !.walled = {"peer"}]}
MCAliases ==
  {[kind |-> "address", hosts |-> {"peer", "peer6"}, range |-> FALSE, enabled |-> TRUE],
   [kind |-> "ports", hosts |-> {}, range |-> TRUE, enabled |-> TRUE]}

Fresh == [rules |-> <<>>, nat |-> [set |-> FALSE, mode |-> "automatic", wans |-> {}, rules |-> <<>>],
          settings |-> ASetting, aliases |-> {},
          portal |-> [APortal EXCEPT !.on = FALSE, !.walled = {}],
          six |-> FALSE, ssh |-> FALSE, web |-> 443, sshPort |-> 22, dns |-> TRUE, dot |-> "off", block |-> TRUE]
MCStarts ==
  {Fresh,
   [Fresh EXCEPT !.portal = APortal, !.six = TRUE, !.rules = <<ARule>>, !.dot = "public",
                 !.nat = [set |-> TRUE, mode |-> "hybrid", wans |-> {},
                          rules |-> <<AForward, [AForward EXCEPT !.iface = "guest"]>>]],
   [Fresh EXCEPT !.six = TRUE, !.rules = <<ARule>>, !.dot = "lan", !.ssh = TRUE,
                 !.nat = [set |-> TRUE, mode |-> "automatic", wans |-> {"wan"}, rules |-> <<AForward>>]]}

MCPackets ==
  LET all == {[iif |-> MCRoute[s], oif |-> NoIface, src |-> s, dst |-> d, proto |-> k[1], port |-> k[2],
               ct |-> k[3], over |-> k[4]] :
                s \in Host \ Self, d \in Host,
                k \in {<<"tcp", 443, "new", FALSE>>, <<"tcp", 80, "new", FALSE>>, <<"tcp", 80, "new", TRUE>>,
                       <<"udp", 8080, "new", FALSE>>, <<"tcp", 443, "established", FALSE>>,
                       <<"icmp", 0, "new", FALSE>>, <<"tcp", 22, "new", FALSE>>}}
  IN {p \in all : Family(p.src) = Family(p.dst) /\ Route[p.dst] # p.iif}
=============================================================================
