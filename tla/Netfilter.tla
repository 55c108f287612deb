------------------------------ MODULE Netfilter ------------------------------
(***************************************************************************)
(* What the kernel does with a ruleset: the part of nftables DayShield     *)
(* relies on.  A packet is the first of a connection, or belongs to one    *)
(* that is tracked.  A chain is a sequence of statements; a statement      *)
(* gives, for every field of a packet, the values it matches.              *)
(***************************************************************************)
EXTENDS Integers, Sequences, FiniteSets

CONSTANTS
  Iface,    \* network interfaces
  Host,     \* addresses packets come from and go to
  SixHost,  \* those that are IPv6 addresses
  Self,     \* the firewall's own addresses
  Port      \* destination ports, 0 for a protocol that has none

ASSUME NetfilterAssumption ==
  /\ SixHost \subseteq Host /\ Self \subseteq Host
  /\ Port \subseteq Nat /\ 0 \in Port
  /\ IsFiniteSet(Iface) /\ IsFiniteSet(Port)
  /\ \E h \in Host : h \notin SixHost

Protocol == {"tcp", "udp", "icmp", "icmp6"}
Tracking == {"new", "established", "invalid"}
NoIface == "none"     \* of a packet the firewall sends or receives itself

\* Whether the packet exceeds the limit of a rate-limited statement is its
\* field `over`.
Packet == [iif : Iface \union {NoIface}, oif : Iface \union {NoIface}, src : Host, dst : Host,
           proto : Protocol, port : Port, ct : Tracking, over : BOOLEAN]
Anything == [iif |-> Iface \union {NoIface}, oif |-> Iface \union {NoIface},
             src |-> Host, dst |-> Host, proto |-> Protocol, port |-> Port,
             ct |-> Tracking, over |-> BOOLEAN]

Four == Host \ SixHost
Family(h) == IF h \in SixHost THEN "v6" ELSE "v4"
OfFamily(f) == CASE f = "v4" -> Four [] f = "v6" -> SixHost [] OTHER -> Host

Statement(on, verdict) == [on |-> on, verdict |-> verdict]
Rewriting(on, hosts, ports) == [on |-> on, verdict |-> "dnat", hosts |-> hosts, ports |-> ports]

Matches(s, p) == \A f \in DOMAIN Anything : p[f] \in s.on[f]

\* nft refuses a statement that compares an IPv4 and an IPv6 address, or the
\* port of a protocol that has none.
Coherent(s) ==
  /\ ~(s.on.src \subseteq Four /\ s.on.dst \subseteq SixHost)
  /\ ~(s.on.src \subseteq SixHost /\ s.on.dst \subseteq Four)
  /\ s.on.port # Port => s.on.proto \subseteq {"tcp", "udp"}

\* The statements of a chain that end the packet's way through it.
Ending(chain, p) ==
  {i \in DOMAIN chain : chain[i].verdict # "continue" /\ Matches(chain[i], p)}
FirstOf(S) == CHOOSE i \in S : \A j \in S : i <= j

\* The verdict of a filter chain with a policy.
Verdict(chain, policy, p) ==
  IF Ending(chain, p) = {} THEN policy ELSE chain[FirstOf(Ending(chain, p))].verdict

\* A statement that translates, and the packets it makes of one.
Translates(chain, p) ==
  Ending(chain, p) # {} /\ chain[FirstOf(Ending(chain, p))].verdict = "dnat"
Toward(p, h, q) == [p EXCEPT !.dst = h, !.port = q]
Rewritten(s, p) ==
  {Toward(p, h, q) :
     h \in s.hosts \cap OfFamily(Family(p.src)), q \in IF s.ports = {} THEN {p.port} ELSE s.ports}
Through(chain, p) ==
  IF Translates(chain, p) THEN Rewritten(chain[FirstOf(Ending(chain, p))], p) ELSE {p}
=============================================================================
