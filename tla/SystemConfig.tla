------------------------------ MODULE SystemConfig ------------------------------
(***************************************************************************)
(* What the configuration holds (SystemConfig, config/models.rs) and what  *)
(* ConfigStore::validate asks of the whole of it before any save           *)
(* (config/storage.rs).                                                    *)
(*                                                                         *)
(* A section that has not been saved yet is the empty set, one that has a  *)
(* set of one record, a list a set of records.  An address or a network is *)
(* its family, "v4" or "v6", "bad" if it is neither; a host name is        *)
(* "name", nothing is "".  A field that is checked for its form alone is   *)
(* TRUE when the form is right.                                            *)
(***************************************************************************)
EXTENDS Integers, FiniteSets

Section == {"interfaces", "rules", "aliases", "filter", "nat", "dns", "overrides", "dot", "dhcp",
            "dhcp6", "wireguard", "gateways", "suricata", "crowdsec", "acme", "notify", "ntp",
            "ddns", "qos", "tunnel", "caddy", "portal", "ai", "honeypots", "settings"}

On(S) == \E s \in S : s.on
\* No two members of S agree in all the fields of K.
Unique(S, K) == \A a, b \in S : (\A k \in K : a[k] = b[k]) => a = b
Named(c) == {i.name : i \in c.interfaces}
SixEnabled(c) == \E s \in c.settings : s.six

\* An address, or a network, that may be named: one of IPv6 only with IPv6 enabled.
Addr(a, six) == a = "v4" \/ (a = "v6" /\ six)
Addrs(A, six) == \A a \in A : Addr(a, six)

-----------------------------------------------------------------------------
\* Interfaces.  An interface with a WAN mode or a gateway is a WAN.
IsWan(i) == i.wan # "none" \/ i.gateway # ""

ValidSix(i, known, six) ==
  /\ i.mode # "static" => six
  /\ i.mode = "slaac" => IsWan(i) /\ i.wan # "pppoe"
  /\ i.mode = "track" => /\ i.track \in known \ {i.name}
                         /\ \A n \in i.prefix : n <= 128
  /\ i.advertises => i.mode = "track"
  /\ \A n \in i.hint : n \in 1..128 /\ IsWan(i) /\ i.mode = "dhcp6"

ValidWan(i) ==
  /\ i.wan = "dhcp" => i.dhcp4 /\ i.gateway = ""
  /\ i.wan = "pppoe" => /\ i.gateway = "" /\ i.addresses = {} /\ i.login
                        /\ \A n \in i.mtu : n \in 576..1492
  /\ i.blocks => IsWan(i)

ValidLink(i, known) ==
  /\ \A n \in i.mtu : n >= 68
  /\ \A n \in i.mss : n >= 536
  /\ \A n \in i.vlan : n \in 1..4094
  /\ IF i.vlan = {} THEN i.parent = "" ELSE i.parent \in known \ {i.name}

ValidInterfaces(c) ==
  /\ Unique(c.interfaces, {"name"})
  /\ \A i \in c.interfaces :
       /\ i.name # ""
       /\ Addrs(i.addresses \union ({i.gateway} \ {""}), SixEnabled(c))
       /\ ValidSix(i, Named(c), SixEnabled(c)) /\ ValidWan(i) /\ ValidLink(i, Named(c))

-----------------------------------------------------------------------------
\* The packet filter: each rule, alias or setting is the subject of PacketFilter; of
\* these it matters here which families they name.
ValidFilter(c) ==
  /\ \A r \in c.rules \union c.nat : Addrs(r.names, SixEnabled(c))
  /\ \A s \in c.filter : /\ Addrs(s.names, SixEnabled(c))
                         /\ s.rate > 0 /\ s.burst > 0 /\ 0 \notin s.ports
  /\ Unique(c.aliases, {"name"})
  /\ \A a \in c.aliases : a.names # {} /\ Addrs(a.names, SixEnabled(c))

-----------------------------------------------------------------------------
\* The resolver.
Week == 604800

ValidCache(k) ==
  /\ k.least <= k.most /\ k.most <= Week /\ k.stale <= Week
  /\ k.serves => k.stale # 0

ValidRecord(r, six) ==
  \/ r.type = "A" /\ r.value = "v4"
  \/ r.type = "AAAA" /\ r.value = "v6" /\ six
  \/ r.type \in {"CNAME", "PTR"} /\ r.value = "name"
  \/ r.type = "MX" /\ r.value = "ranked name"
  \/ r.type = "TXT" /\ r.value # ""

Family(bind) == IF bind = "::" THEN "v6" ELSE "v4"

ValidDns(c) ==
  LET six == SixEnabled(c)
  IN  /\ \A d \in c.dns :
           /\ \A a \in d.listen \ {"name"} : Addr(Family(a), six)
           /\ d.port # 0
           /\ d.forwards => d.forwarders # {}
           /\ d.custom => d.clients # {}
           /\ Addrs(d.forwarders \union d.clients, six)
           /\ ValidCache(d.cache)
           /\ \A r \in d.records : ValidRecord(r, six)
      /\ \A o \in c.overrides : Addr(o.to, six)

\* DNS over TLS: the certificate of a domain, or one that was given.
ValidDot(c) ==
  \A d \in c.dot : /\ d.port # 0
                   /\ d.on => IF d.domain THEN d.path ELSE d.cert /\ d.key

-----------------------------------------------------------------------------
\* DHCP.  An address is a number, a subnet one of its addresses and its size; the
\* store writes the first address of the subnet before it checks.
Network(s) == [s EXCEPT !.subnet = @ - (@ % s.size)]
NormalizeServers(S) == {[d EXCEPT !.scopes = {Network(s) : s \in @}] : d \in S}
Normalized(c) == [c EXCEPT !.dhcp = NormalizeServers(@), !.dhcp6 = NormalizeServers(@)]

Within(s) == s.subnet..(s.subnet + s.size - 1)

ValidScope(s) ==
  /\ s = Network(s)
  /\ s.first <= s.last /\ {s.first, s.last} \subseteq Within(s)
  /\ s.lease > 0
  /\ s.reserved \subseteq Within(s)

\* What IPv6 enabled says does not matter to a DHCPv6 server.
ValidServers(S) ==
  \A d \in S : /\ d.on => d.serves # "" /\ d.scopes # {}
               /\ \A s \in d.scopes : ValidScope(s)

ValidDhcp(c) ==
  /\ ValidServers(c.dhcp)
  /\ \A d \in c.dhcp : \A s \in d.scopes : s.router \subseteq Within(s)
ValidDhcp6(c) == ValidServers(c.dhcp6)

-----------------------------------------------------------------------------
\* The sections that are checked whether they are enabled or not.
ValidWireGuard(c) ==
  /\ Unique(c.wireguard, {"name"})
  /\ \A w \in c.wireguard :
       /\ w.keys /\ Addrs(w.addresses, SixEnabled(c))
       /\ \A p \in w.peers : /\ p.keys /\ Addrs(p.allowed, SixEnabled(c))
                             /\ p.endpoint \in {"", "name"} \/ Addr(p.endpoint, SixEnabled(c))

ValidGateways(c) == \A g \in c.gateways : Addrs({g.ip, g.monitor} \ {""}, SixEnabled(c))

ValidSuricata(c) ==
  \A s \in c.suricata :
    /\ s.mode \in {"ids", "ips"}
    /\ Addrs(s.home \union s.external, SixEnabled(c))
    /\ (s.eve => s.evePath) /\ (s.stats => s.statsPath)
    /\ \A r \in s.sources : r.url # r.file

ValidQos(c) ==
  \A q \in c.qos : /\ Unique(q.shapes, {"name"})
                   /\ \A i \in q.shapes : \A n \in i.rate : n \in 1..100000000

ValidAi(c) ==
  \A a \in c.ai : /\ a.blocks => a.on
                  /\ a.threshold \in 0..100 /\ a.window > 0 /\ a.learning \in 1..100

ValidHoneypots(c) ==
  \A h \in c.honeypots :
    /\ Unique(h.listeners, {"id"})
    /\ Unique({l \in h.listeners : l.on}, {"bind", "port"})
    /\ \A l \in h.listeners : /\ l.port # 0 /\ l.score \in 0..100
                              /\ Addr(Family(l.bind), SixEnabled(c))
    /\ h.on => On(h.listeners)

\* The sections that may hold a draft while they are disabled.
ValidCrowdsec(c) == \A s \in c.crowdsec : s.on => s.url /\ s.key /\ s.interval > 0 /\ s.alias

ValidAcme(c) ==
  \A a \in c.acme : a.on =>
    /\ a.email /\ a.directory /\ a.hours > 0
    /\ a.domains # {} /\ a.domains \subseteq ({"plain"} \union IF a.dns01 THEN {"wildcard"} ELSE {})
    /\ a.dns01 /\ a.provider = "cloudflare" => a.token

ValidNotify(c) ==
  \A n \in c.notify : n.on => /\ n.server /\ n.port # 0 /\ n.limit > 0
                              /\ n.from /\ n.to # {} /\ FALSE \notin n.to

\* A reference is looked up when there is an interface at all.
Known(c, A) == c.interfaces # {} => A \subseteq Named(c)

ValidNtp(c) ==
  \A n \in c.ntp : n.on =>
    /\ n.upstream # {} /\ \A a \in n.upstream : a = "name" \/ Addr(a, SixEnabled(c))
    /\ n.serves => n.listen # {} /\ Known(c, n.listen)

ProviderAsks(e) ==
  CASE e.provider \in {"duckdns", "freedns"} -> e.password
    [] e.provider \in {"noip", "dynu", "cloudflare"} -> e.username /\ e.password
    [] e.provider = "custom" -> e.url = "with {ip}"

ValidDdns(c) ==
  \A d \in c.ddns : d.on =>
    /\ d.interval >= 30 /\ Unique(d.entries, {"id"})
    /\ \A e \in {x \in d.entries : x.on} :
         Addr(e.family, SixEnabled(c)) /\ e.host /\ ProviderAsks(e) /\ Known(c, {e.iface})

ValidTunnel(c) ==
  \A t \in c.tunnel : t.on => t.name /\ t.token /\ t.ingress # {} /\ FALSE \notin t.ingress

ValidCaddy(c) ==
  \A k \in c.caddy :
    LET served == {s \in k.sites : s.on}
    IN  /\ k.level
        /\ k.on => /\ served # {} /\ k.email
                   /\ Unique(served, {"domain"})
                   /\ \A s \in served : s.domain # "" /\ s.upstream

\* A mistake to be found: the portal's interfaces are not looked up.
ValidPortalAlone(c) ==
  \A p \in c.portal : p.port # 0 /\ Addrs(p.names, SixEnabled(c)) /\ (p.on => p.gates # {})

ValidPortal(c) ==
  \A p \in c.portal :
    /\ p.port # 0 /\ p.lasts >= 60 /\ p.idle \notin 1..59
    /\ Addrs(p.names, SixEnabled(c))
    /\ p.on => p.gates # {} /\ Known(c, p.gates)

-----------------------------------------------------------------------------
\* The sockets that the check of the ports knows of: SSH and the resolver on every
\* address whatever they listen on.
WebPort(c) == IF c.settings = {} THEN 8443 ELSE CHOOSE n \in {s.web : s \in c.settings} : TRUE
Sockets(c) ==
  {<<"api", "0.0.0.0", WebPort(c)>>}
  \union {<<"ssh", "0.0.0.0", s.sshPort>> : s \in {x \in c.settings : x.ssh}}
  \union {<<"dns", "0.0.0.0", d.port>> : d \in c.dns}
  \union {<<"dot", "0.0.0.0", d.port>> : d \in {x \in c.dot : x.on}}
  \union {<<"portal", p.bind, p.port>> : p \in {x \in c.portal : x.on}}
  \union (UNION {{<<l.id, l.bind, l.port>> : l \in {x \in h.listeners : x.on}}
                 : h \in {x \in c.honeypots : x.on}})
  \union {<<"crowdsec", s.bind, s.port>> : s \in {x \in c.crowdsec : x.on /\ x.port # 0}}

Overlap(a, b) == a = b \/ {a, b} \cap {"0.0.0.0", "::"} # {}

PortsFree(c) ==
  /\ \A s, t \in Sockets(c) : s # t /\ s[3] = t[3] => ~Overlap(s[2], t[2])
  /\ Unique({w \in c.wireguard : w.on}, {"port"})

Valid(c) ==
  /\ ValidInterfaces(c) /\ ValidFilter(c) /\ ValidDns(c) /\ ValidDhcp(c) /\ ValidDhcp6(c)
  /\ ValidSuricata(c) /\ ValidWireGuard(c) /\ ValidGateways(c) /\ ValidCrowdsec(c)
  /\ ValidAcme(c) /\ ValidNotify(c) /\ ValidNtp(c) /\ ValidDdns(c) /\ ValidQos(c)
  /\ ValidTunnel(c) /\ ValidCaddy(c) /\ ValidPortal(c) /\ ValidAi(c) /\ ValidHoneypots(c)
  /\ ValidDot(c) /\ PortsFree(c)
=============================================================================
