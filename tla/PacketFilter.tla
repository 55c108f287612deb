---------------------------- MODULE PacketFilter ----------------------------
(***************************************************************************)
(* The ruleset DayShield generates from its configuration, and what it     *)
(* does to packets.  Each handler validates a change, stores it, generates *)
(* the ruleset anew and hands it to nft; what runs alongside is left to    *)
(* RulesetPublish, so a request is one step here.                          *)
(*                                                                         *)
(* An address or CIDR is the set of hosts it covers and "any" is all of    *)
(* Host; port 0 stands for no port, AnyIface for no interface.  The        *)
(* source port of a rule, its log switch, the URL tables, the output       *)
(* policy and the reflection of port forwards are left out, and so is the  *)
(* port an environment variable gives the daemon.                          *)
(***************************************************************************)
EXTENDS Netfilter, SequencesExt

CONSTANTS
  Wan,           \* the interfaces with a WAN mode or a gateway, all enabled
  Blocked,       \* private and bogon hosts a WAN blocks, per interface
  Route,         \* the interface behind which a host lies
  AnyIface,      \* the interface of a rule that names none
  FirewallRules, \* firewall rules that may be asked for
  NatRules,      \* NAT rules that may be asked for
  Settings,      \* firewall settings that may be asked for
  Systems,       \* system settings that may be asked for
  Portals,       \* captive portal configurations that may be asked for
  Aliases,       \* firewall aliases that may be asked for
  Packets,       \* packets the properties are about
  Starts,        \* configurations the daemon starts from
  MaxEdits       \* bound: changes of the configuration

ASSUME PacketFilterAssumption ==
  /\ Wan \subseteq Iface /\ AnyIface \notin Iface
  /\ \A i \in Wan : Blocked[i] \subseteq Host
  /\ Route \in [Host -> Iface \union {NoIface}]
  /\ Packets \subseteq Packet

VARIABLES
  config,     \* the stored configuration
  clients,    \* hosts with an active portal session
  open,       \* the time windows of scheduled rules are open
  published,  \* what the ruleset in the kernel was generated from
  loaded,     \* that ruleset
  listening,  \* the ports the daemon and sshd listen on, 0 for no sshd
  edits       \* changes so far

filterVars == <<config, clients, open, published, loaded, listening, edits>>

-----------------------------------------------------------------------------
(* Firewall rules *)

Rule == [pri : Int, act : {"accept", "drop", "reject", "log", "jump"},
         dir : {"input", "forward", "output", "both"}, iface : Iface \union {AnyIface},
         fam : {"v4", "v6", "both"}, src : SUBSET Host, dst : SUBSET Host,
         proto : Protocol \union {"any"}, port : Port, limited : BOOLEAN,
         enabled : BOOLEAN, window : BOOLEAN]

IsSix(hosts) == hosts # {} /\ hosts \subseteq SixHost
IsFour(hosts) == hosts # {} /\ hosts \subseteq Four
UsesSix(r) == r.fam = "v6" \/ IsSix(r.src) \/ IsSix(r.dst) \/ r.proto = "icmp6"

\* What a rule must satisfy to be stored: a user's rule may not come before
\* those of the system, and its parts must agree about the family.
ValidRule(r, six) ==
  /\ r.pri >= 0 /\ r.act # "jump"
  /\ UsesSix(r) => six
  /\ r.fam = "v4" => r.proto # "icmp6" /\ ~IsSix(r.src) /\ ~IsSix(r.dst)
  /\ r.fam = "v6" => r.proto # "icmp" /\ ~IsFour(r.src) /\ ~IsFour(r.dst)
  /\ r.port # 0 => r.proto \in {"tcp", "udp"}

\* The rules of a set, in an order of no account.
Listed(S) == FoldSet(LAMBDA r, s : Append(s, r), <<>>, S)

\* The members of s at some places; a place is a priority and an index, and
\* comes before those with a greater priority, or the same and a greater index.
Before(a, b) == a[1] < b[1] \/ (a[1] = b[1] /\ a[2] < b[2])
Rank(a, places) == Cardinality({b \in places : Before(b, a)}) + 1
Arranged(s, places) ==
  LET ranked == {<<Rank(a, places), a[2]>> : a \in places} IN
  [k \in 1..Cardinality(places) |-> s[(CHOOSE r \in ranked : r[1] = k)[2]]]

\* The members of s with the indices I, in their order, or sorted by priority
\* with a sort that is stable.
InOrder(s, I) == Arranged(s, {<<0, i>> : i \in I})
ByPriority(s, I) == Arranged(s, {<<s[i].pri, i>> : i \in I})

SystemRule(pri, act, dir, iface) ==
  [pri |-> pri, act |-> act, dir |-> dir, iface |-> iface, fam |-> "both",
   src |-> Host, dst |-> Host, proto |-> "any", port |-> 0, limited |-> FALSE,
   enabled |-> TRUE, window |-> FALSE]
Service(iface, proto, port) ==
  [SystemRule(-175, "accept", "input", iface) EXCEPT !.proto = proto, !.port = port]

\* Private and bogon sources are blocked on a WAN, family by family.
BlockRules(c) ==
  Listed({[SystemRule(-200, "drop", d, i) EXCEPT !.fam = f, !.src = Blocked[i] \cap OfFamily(f)] :
            d \in {"input", "forward"}, i \in {w \in Wan : c.block},
            f \in {"v4"} \union (IF c.six THEN {"v6"} ELSE {})})

\* DHCP, and DNS and DNS over TLS where they are managed, on every LAN.
LanRules(c) ==
  Listed(
    {[Service(i, "udp", 67) EXCEPT !.fam = "v4"] : i \in Iface \ Wan}
    \union {Service(i, p, 53) : i \in {l \in Iface \ Wan : c.dns}, p \in {"udp", "tcp"}}
    \union {[Service(i, "udp", 547) EXCEPT !.fam = "v6"] : i \in {l \in Iface \ Wan : c.six}}
    \union {Service(i, "tcp", 853) : i \in {l \in Iface \ Wan : c.dot = "lan"}})
PublicDot(c) ==
  IF c.dot = "public"
  THEN <<[Service(AnyIface, "tcp", 853) EXCEPT !.pri = -174, !.fam = IF c.six THEN "both" ELSE "v4"]>>
  ELSE <<>>

SystemPorts(c) == {c.web} \union IF c.ssh THEN {c.sshPort} ELSE {}
ManagementPorts(c) == c.settings.ports \union SystemPorts(c)

\* The rule list shows the anti-lockout ports once more; this rule has no
\* source.
SourceFamily(c) ==
  LET sources == c.settings.sources
      six == c.six /\ sources \cap SixHost # {} IN
  IF sources = {} \/ (six /\ sources \cap Four # {}) THEN "both" ELSE IF six THEN "v6" ELSE "v4"
ManagementRules(c) ==
  IF c.settings.lockout
  THEN Listed({[SystemRule(-150, "accept", "input", c.settings.iface) EXCEPT
                    !.proto = "tcp", !.port = p, !.fam = SourceFamily(c)] : p \in ManagementPorts(c)})
  ELSE <<>>
DefaultBlocks(c) ==
  Listed({SystemRule(1000000, "drop", d, AnyIface) :
            d \in {h \in {"input", "forward"} : c.settings[h] = "drop"}})
SystemRules(c) ==
  BlockRules(c) \o DefaultBlocks(c) \o LanRules(c) \o PublicDot(c) \o ManagementRules(c)

AllRules(c) == SystemRules(c) \o c.rules
ActiveAt(rules, c, window) ==
  {i \in DOMAIN rules : LET r == rules[i] IN
                        r.enabled /\ (r.window => window) /\ (UsesSix(r) => c.six)}

\* Mutant of Active: rules come in the order in which they were created.
ActiveUnsorted(c, window) ==
  LET all == AllRules(c) IN InOrder(all, ActiveAt(all, c, window))

Active(c, window) ==
  LET all == AllRules(c) IN ByPriority(all, ActiveAt(all, c, window))

Of(iface) == IF iface = AnyIface THEN Iface \union {NoIface} ELSE {iface}
Emit(r) ==
  Statement(
    [Anything EXCEPT
       !.iif = Of(r.iface), !.src = r.src \cap OfFamily(r.fam), !.dst = r.dst,
       !.proto = IF r.proto = "any" THEN Protocol ELSE {r.proto},
       !.port = IF r.port # 0 /\ r.proto # "any" THEN {r.port} ELSE Port,
       !.ct = IF r.limited /\ r.act \in {"accept", "log"} THEN {"new"} ELSE Tracking,
       !.over = IF r.limited /\ r.act \in {"accept", "log"} THEN {FALSE} ELSE BOOLEAN],
    CASE r.act = "log" -> "continue" [] r.act = "jump" -> "drop" [] OTHER -> r.act)

\* The statements of the rules for one chain.
EmitFor(rules, chain) ==
  LET mine == InOrder(rules, {i \in DOMAIN rules : \/ rules[i].dir = chain
                                                   \/ rules[i].dir = "both" /\ chain = "input"})
  IN [k \in DOMAIN mine |-> Emit(mine[k])]

-----------------------------------------------------------------------------
(* Captive portal *)

Portal == [on : BOOLEAN, ifaces : SUBSET Iface, port : Port, redirect : BOOLEAN,
           walled : SUBSET Host, bypass : SUBSET Host]
ValidPortal(t, six) == (t.on => t.ifaces # {}) /\ (t.walled \cap SixHost # {} => six)
GatedIfaces(c) == IF c.portal.on THEN c.portal.ifaces ELSE {}
FromGated(c) == [Anything EXCEPT !.iif = GatedIfaces(c)]
Seen(c, hosts) == IF c.six THEN hosts ELSE hosts \cap Four

PortalServices(c) ==
  IF GatedIfaces(c) = {} THEN <<>>
  ELSE <<Statement([FromGated(c) EXCEPT !.proto = {"tcp"}, !.port = {c.portal.port}], "accept"),
         Statement([FromGated(c) EXCEPT !.proto = {"udp"}, !.port = {53, 67, 68}], "accept"),
         Statement([FromGated(c) EXCEPT !.proto = {"tcp"}, !.port = {53}], "accept")>>

\* Those the portal lets pass: by their MAC address, by their session, or
\* because of where they go.
Passes(c, cl, verdict) ==
  <<Statement([FromGated(c) EXCEPT !.src = c.portal.bypass], verdict),
    Statement([FromGated(c) EXCEPT !.src = Seen(c, cl)], verdict),
    Statement([FromGated(c) EXCEPT !.dst = Seen(c, c.portal.walled)], verdict)>>
Gate(c, cl) ==
  IF GatedIfaces(c) = {} THEN <<>>
  ELSE Passes(c, cl, "accept") \o <<Statement(FromGated(c), "drop")>>
Redirect(c, cl) ==
  IF GatedIfaces(c) = {} \/ ~c.portal.redirect THEN <<>>
  ELSE Passes(c, cl, "return")
       \o <<Rewriting([FromGated(c) EXCEPT !.src = Seen(c, Host), !.proto = {"tcp"}, !.port = {80}],
                      Self, {c.portal.port})>>

-----------------------------------------------------------------------------
(* NAT *)

NatRule == [kind : {"masquerade", "snat", "one_to_one", "dnat"}, pri : Int,
            iface : Iface \union {AnyIface}, fam : {"v4", "v6"}, src : SUBSET Host,
            dst : SUBSET Host, proto : {"tcp", "udp", "tcp_udp", "any"}, port : Port,
            to : SUBSET Host, toPort : Port, toEnd : Port, auto : BOOLEAN, enabled : BOOLEAN]
Mode == {"automatic", "hybrid", "manual"}
NatConfig == [set : BOOLEAN, mode : Mode, wans : SUBSET Iface, rules : Seq(NatRule)]

ValidNatRule(n, six) ==
  /\ n.fam = "v6" => six
  /\ \A hosts \in {n.src, n.dst, n.to} : hosts = Host \/ hosts \subseteq OfFamily(n.fam)
  /\ n.port # 0 \/ n.toPort # 0 => n.proto # "any"
  /\ (n.kind = "masquerade") = (n.to = {})
  /\ n.kind = "one_to_one" => n.src # Host /\ n.toPort = 0
  /\ n.toEnd # 0 => n.toPort # 0 /\ n.toEnd >= n.toPort

Transport(n) ==
  CASE n.proto = "tcp_udp" -> {"tcp", "udp"} [] n.proto = "any" -> Protocol [] OTHER -> {n.proto}
PortOf(port) == IF port = 0 THEN Port ELSE {port}
Selected(n) == [Anything EXCEPT !.src = n.src \cap OfFamily(n.fam), !.dst = n.dst,
                                !.proto = Transport(n), !.port = PortOf(n.port)]
Target(n) == IF n.toPort = 0 THEN {}
             ELSE {q \in Port : n.toPort <= q /\ q <= IF n.toEnd = 0 THEN n.toPort ELSE n.toEnd}

Enabled(c, kinds) ==
  ByPriority(c.nat.rules,
             {i \in DOMAIN c.nat.rules :
                LET n == c.nat.rules[i] IN
                n.enabled /\ n.kind \in kinds /\ (n.fam = "v6" => c.six)})
Dnat(c) ==
  LET rules == Enabled(c, {"dnat"})
  IN [k \in DOMAIN rules |-> Rewriting([Selected(rules[k]) EXCEPT !.iif = Of(rules[k].iface)],
                                       rules[k].to, Target(rules[k]))]

\* Automatic outbound NAT without a list, and no NAT configuration at all,
\* is for every WAN.
EffectiveWans(c) ==
  IF ~c.nat.set THEN Wan
  ELSE IF c.nat.mode = "manual" THEN {} ELSE IF c.nat.wans = {} THEN Wan ELSE c.nat.wans

Outbound(c) ==
  LET rules == IF c.nat.mode = "automatic" THEN <<>>
               ELSE Enabled(c, {"masquerade", "snat", "one_to_one"})
  IN <<Statement([Anything EXCEPT !.oif = EffectiveWans(c), !.src = Seen(c, Host)], "masquerade")>>
     \o [k \in DOMAIN rules |-> Statement([Selected(rules[k]) EXCEPT !.oif = Of(rules[k].iface)],
                                          rules[k].kind)]

\* Mutant of Companion: it accepts the port the packet came for.
CompanionOriginal(n) ==
  Statement([Anything EXCEPT !.iif = Of(n.iface), !.src = OfFamily(n.fam), !.dst = n.to,
                             !.proto = Transport(n), !.port = PortOf(n.port)], "accept")

\* A port forward brings its own accept rule, for the address and the first
\* port it translates to.
Companion(n) ==
  Statement([Anything EXCEPT !.iif = Of(n.iface), !.src = OfFamily(n.fam), !.dst = n.to,
                             !.proto = Transport(n),
                             !.port = PortOf(IF n.toPort = 0 THEN n.port ELSE n.toPort)], "accept")
Companions(c) ==
  LET rules == InOrder(c.nat.rules,
                       {i \in DOMAIN c.nat.rules :
                          LET n == c.nat.rules[i] IN
                          n.enabled /\ n.auto /\ n.kind = "dnat" /\ (n.fam = "v6" => c.six)})
  IN [k \in DOMAIN rules |-> Companion(rules[k])]

\* The forwarding the automatic outbound mode is meant to allow.
OutboundAccepts(c) ==
  IF EffectiveWans(c) = {} THEN <<>>
  ELSE <<Statement([Anything EXCEPT !.oif = EffectiveWans(c)], "accept")>>

-----------------------------------------------------------------------------
(* The ruleset *)

Setting == [input : {"drop", "accept"}, forward : {"drop", "accept"}, invalid : BOOLEAN,
            syn : BOOLEAN, lockout : BOOLEAN, iface : Iface \union {AnyIface},
            sources : SUBSET Host, ports : SUBSET Port]
ValidSetting(s, six) == (s.sources \cap SixHost # {} => six) /\ 0 \notin s.ports

Tracked(c) ==
  <<Statement([Anything EXCEPT !.ct = {"established"}], "accept")>>
  \o IF c.settings.invalid THEN <<Statement([Anything EXCEPT !.ct = {"invalid"}], "drop")>> ELSE <<>>
SynFlood(c) ==
  IF c.settings.syn
  THEN <<Statement([Anything EXCEPT !.proto = {"tcp"}, !.ct = {"new"}, !.over = {TRUE}], "drop")>>
  ELSE <<>>

\* The anti-lockout statement: one per family where sources are listed.
Lockout(c) ==
  LET on == [Anything EXCEPT !.iif = Of(c.settings.iface), !.proto = {"tcp"},
                             !.port = ManagementPorts(c)]
  IN IF ~c.settings.lockout THEN <<>>
     ELSE IF c.settings.sources = {} THEN <<Statement(on, "accept")>>
     ELSE <<Statement([on EXCEPT !.src = c.settings.sources \cap Four], "accept"),
            Statement([on EXCEPT !.src = Seen(c, c.settings.sources \cap SixHost)], "accept")>>
Icmp(c) ==
  <<Statement([Anything EXCEPT !.proto = {"icmp"}, !.over = {FALSE}], "accept")>>
  \o IF c.six THEN <<Statement([Anything EXCEPT !.proto = {"icmp6"}], "accept")>> ELSE <<>>

\* Mutant of InputChain: the anti-lockout statement comes after the rules.
InputChainLate(c, window) ==
  Tracked(c) \o SynFlood(c) \o Icmp(c) \o PortalServices(c)
  \o EmitFor(Active(c, window), "input") \o Lockout(c)

InputChain(c, window) ==
  Tracked(c) \o SynFlood(c) \o Lockout(c) \o Icmp(c) \o PortalServices(c)
  \o EmitFor(Active(c, window), "input")

\* Mutant of ForwardChain: the portal's gate comes after the port forwards
\* and the rules.
ForwardChainLateGate(c, cl, window) ==
  Tracked(c) \o Companions(c) \o EmitFor(Active(c, window), "forward") \o Gate(c, cl)

ForwardChain(c, cl, window) ==
  Tracked(c) \o Gate(c, cl) \o Companions(c) \o EmitFor(Active(c, window), "forward")
  \o OutboundAccepts(c)

Ruleset(c, cl, window) ==
  [input |-> InputChain(c, window), forward |-> ForwardChain(c, cl, window),
   policy |-> [input |-> c.settings.input, forward |-> c.settings.forward],
   redirect |-> Redirect(c, cl), dnat |-> Dnat(c), post |-> Outbound(c)]

\* An alias becomes a set of one type; a range of ports is written the way
\* the API takes it, which nft does not.
Alias == [kind : {"address", "ports"}, hosts : SUBSET Host, range : BOOLEAN, enabled : BOOLEAN]
ValidAlias(a, six) == a.kind = "address" => a.hosts # {} /\ (a.hosts \cap SixHost # {} => six)
Loadable(c) ==
  \A a \in c.aliases : a.enabled =>
    /\ Seen(c, a.hosts) \subseteq Four \/ a.hosts \subseteq SixHost
    /\ ~a.range
Loads(c, k) ==
  /\ Loadable(c)
  /\ \A chain \in {k.input, k.forward, k.redirect, k.dnat, k.post} :
       \A i \in DOMAIN chain : Coherent(chain[i])

-----------------------------------------------------------------------------
(* Requests *)

System == [six : BOOLEAN, ssh : BOOLEAN, web : Port \ {0}, sshPort : Port \ {0}]
Config == [rules : Seq(Rule), nat : NatConfig, settings : Setting, portal : Portal,
           aliases : SUBSET Alias, six : BOOLEAN, ssh : BOOLEAN, web : Port \ {0},
           sshPort : Port \ {0}, dns : BOOLEAN, dot : {"off", "lan", "public"},
           block : BOOLEAN]

\* What every save checks, whatever section it replaces.
Valid(c) ==
  /\ \A i \in DOMAIN c.rules : ValidRule(c.rules[i], c.six)
  /\ \A i \in DOMAIN c.nat.rules : ValidNatRule(c.nat.rules[i], c.six)
  /\ ValidSetting(c.settings, c.six) /\ ValidPortal(c.portal, c.six)
  /\ \A a \in c.aliases : ValidAlias(a, c.six)

ASSUME InputAssumption ==
  /\ FirewallRules \subseteq Rule /\ NatRules \subseteq NatRule /\ Settings \subseteq Setting
  /\ Systems \subseteq System
  /\ Portals \subseteq Portal /\ Aliases \subseteq Alias
  /\ \A c \in Starts : c \in Config /\ Valid(c) /\ (~c.nat.set => c.nat.wans = {})

\* The ruleset of a configuration and its sessions goes to the kernel, or nft
\* refuses it and the kernel keeps what it has.
Publish(c, cl) ==
  LET k == Ruleset(c, cl, open) IN
  IF Loads(c, k)
  THEN loaded' = k /\ published' = [config |-> c, clients |-> cl, open |-> open]
  ELSE UNCHANGED <<loaded, published>>

Save(c) ==
  /\ edits < MaxEdits /\ edits' = edits + 1
  /\ Valid(c)
  /\ UNCHANGED <<clients, open>>
Unmoved == UNCHANGED listening

\* A refused ruleset takes a rule or the settings back and publishes again.
SaveRules(c) ==
  /\ Save(c) /\ Unmoved
  /\ IF Loads(c, Ruleset(c, clients, open))
     THEN config' = c /\ Publish(c, clients)
     ELSE UNCHANGED config /\ Publish(config, clients)

\* It takes NAT back, and nothing was loaded.
SaveNat(c) ==
  /\ Save(c) /\ Unmoved
  /\ config' = IF Loads(c, Ruleset(c, clients, open)) THEN c ELSE config
  /\ Publish(c, clients)

\* It leaves aliases and the portal as they were saved.
SaveAndPublish(c) == Save(c) /\ Unmoved /\ config' = c /\ Publish(c, clients)

CreateRule == \E r \in FirewallRules : SaveRules([config EXCEPT !.rules = Append(@, r)])
CreateInterfaceRule == \E r \in FirewallRules, i \in Iface :
  SaveRules([config EXCEPT !.rules = Append(@, [r EXCEPT !.iface = i])])
CloneRule == \E i \in DOMAIN config.rules :
               SaveRules([config EXCEPT !.rules = Append(@, config.rules[i])])
UpdateRule == \E i \in DOMAIN config.rules, r \in FirewallRules :
                SaveRules([config EXCEPT !.rules[i] = r])
DeleteRule == \E i \in DOMAIN config.rules :
                SaveRules([config EXCEPT !.rules = RemoveAt(@, i)])
DeleteInterfaceRule == \E i \in DOMAIN config.rules :
  config.rules[i].iface \in Iface /\ SaveRules([config EXCEPT !.rules = RemoveAt(@, i)])
UpdateSettings == \E s \in Settings : SaveRules([config EXCEPT !.settings = s])

\* A NAT configuration that was never saved is the default one.
PutNat == \E c \in Starts : SaveNat([config EXCEPT !.nat = [c.nat EXCEPT !.set = TRUE]])
CreateNatRule == \E n \in NatRules :
  SaveNat([config EXCEPT !.nat.set = TRUE, !.nat.rules = Append(@, n)])
UpdateNatRule == \E i \in DOMAIN config.nat.rules, n \in NatRules :
  SaveNat([config EXCEPT !.nat.rules[i] = n])
DeleteNatRule == \E i \in DOMAIN config.nat.rules :
  SaveNat([config EXCEPT !.nat.rules = RemoveAt(@, i)])
SetOutbound == \E m \in Mode, w \in SUBSET Wan :
  SaveNat([config EXCEPT !.nat.set = TRUE, !.nat.mode = m, !.nat.wans = w])

CreateAlias == \E a \in Aliases \ config.aliases :
  SaveAndPublish([config EXCEPT !.aliases = @ \union {a}])
DeleteAlias == \E a \in config.aliases :
  SaveAndPublish([config EXCEPT !.aliases = @ \ {a}])
UpdateAlias == \E a \in config.aliases, b \in Aliases \ config.aliases :
  SaveAndPublish([config EXCEPT !.aliases = (@ \ {a}) \union {b}])

UpdatePortal == \E t \in Portals : SaveAndPublish([config EXCEPT !.portal = t])

\* The system settings stay stored whatever fails after, and publish only
\* where they change IPv6.  sshd follows them at once; the daemon goes on
\* listening where it did.
SshOf(c) == IF c.ssh THEN c.sshPort ELSE 0
UpdateSystem == \E s \in Systems :
  LET c == [config EXCEPT !.six = s.six, !.ssh = s.ssh, !.web = s.web, !.sshPort = s.sshPort] IN
  /\ s.web # s.sshPort
  /\ Save(c) /\ config' = c
  /\ \E ssh \in {listening.ssh, SshOf(c)} :
       /\ listening' = [listening EXCEPT !.ssh = ssh]
       /\ \/ UNCHANGED <<published, loaded>>
          \/ c.six # config.six /\ ssh = SshOf(c) /\ Publish(c, clients)

\* The daemon restarts: it publishes what is stored, and listens where that
\* says.  sshd and the kernel go on as they were.
RestartDaemon ==
  /\ listening' = [listening EXCEPT !.web = config.web]
  /\ Publish(config, clients)
  /\ UNCHANGED <<config, clients, open, edits>>

\* A client logs in at the portal, or its session ends.
AuthorizeClient == \E h \in Host :
  /\ Route[h] \in GatedIfaces(config) /\ h \notin clients
  /\ edits < MaxEdits /\ edits' = edits + 1
  /\ clients' = clients \union {h}
  /\ Publish(config, clients')
  /\ UNCHANGED <<config, open, listening>>
RevokeClient == \E h \in clients :
  /\ edits < MaxEdits /\ edits' = edits + 1
  /\ clients' = clients \ {h}
  /\ Publish(config, clients')
  /\ UNCHANGED <<config, open, listening>>

\* The clock enters or leaves the windows; nothing watches for it.
Clock == open' = ~open /\ UNCHANGED <<config, clients, published, loaded, listening, edits>>

FilterInit ==
  /\ config \in Starts /\ clients = {} /\ open \in BOOLEAN
  /\ published = [config |-> config, clients |-> clients, open |-> open]
  /\ loaded = Ruleset(config, clients, open)
  /\ listening = [web |-> config.web, ssh |-> SshOf(config)]
  /\ edits = 0

FilterNext ==
  \/ CreateRule \/ CreateInterfaceRule \/ CloneRule \/ UpdateRule \/ DeleteRule
  \/ DeleteInterfaceRule \/ UpdateSettings
  \/ PutNat \/ CreateNatRule \/ UpdateNatRule \/ DeleteNatRule \/ SetOutbound
  \/ CreateAlias \/ UpdateAlias \/ DeleteAlias \/ UpdatePortal \/ UpdateSystem
  \/ AuthorizeClient \/ RevokeClient \/ Clock \/ RestartDaemon

FilterSpec == FilterInit /\ [][FilterNext]_filterVars
-----------------------------------------------------------------------------
(* Properties.  What the kernel does with a packet that arrives: its           *)
(* destination is translated once, by the portal's redirect or by a port       *)
(* forward, and where it then goes decides which chain sees it.                *)

Arrivals(p) ==
  LET routed(q) == [q EXCEPT !.oif = IF q.dst \in Self THEN NoIface ELSE Route[q.dst]] IN
  {routed(q) : q \in IF p.ct # "new" THEN {p}
                     ELSE IF Translates(loaded.redirect, p) THEN Through(loaded.redirect, p)
                     ELSE Through(loaded.dnat, p)}
Decision(q) ==
  IF q.dst \in Self THEN Verdict(loaded.input, loaded.policy.input, q)
  ELSE Verdict(loaded.forward, loaded.policy.forward, q)
Accepted(q) == Decision(q) = "accept"
Kept(p) == \A q \in Arrivals(p) : q.dst = p.dst /\ q.port = p.port

\* The configuration and the sessions of the ruleset in the kernel.
Pub == published.config
Waiting(p) == /\ p.ct = "new" /\ p.iif \in GatedIfaces(Pub)
              /\ p.src \notin Seen(Pub, published.clients) \union Pub.portal.bypass
Unwanted(q) == Pub.block /\ q.iif \in Wan /\ q.src \in Seen(Pub, Blocked[q.iif])

\* The ports on which the daemon and sshd answer, but for one the published
\* system settings do not name: those are stored without a publication, and
\* the daemon moves to a new port only when it restarts (api/system.rs:774-828).
Answering == {listening.web, listening.ssh} \intersect SystemPorts(Pub)

\* No rule, portal gate or block locks the administrator out: with the
\* anti-lockout on, the management ports answer every source it allows
\* (mod.rs:696-746), whatever was asked for since and in whatever order.  It
\* says nothing of a packet that a port forward or the portal's redirect takes
\* to another host or port (~Kept): one for a management port does lock the
\* administrator out.
AdminReachable ==
  config.settings.lockout =>
    \A p \in Packets :
      /\ p.dst \in Self /\ p.proto = "tcp" /\ p.ct # "invalid" /\ ~p.over
      /\ p.port \in config.settings.ports \union Answering
      /\ p.iif \in Of(config.settings.iface)
      /\ config.settings.sources = {} \/ p.src \in Seen(Pub, config.settings.sources)
      /\ Kept(p)
      => \A q \in Arrivals(p) : Accepted(q)

\* Whether a rule of the stored list speaks about a forwarded packet.
Speaks(r, q) ==
  /\ r.enabled /\ r.dir = "forward" /\ r.act # "log" /\ (r.window => published.open)
  /\ UsesSix(r) => Pub.six
  /\ r.iface \in {AnyIface, q.iif} /\ q.src \in r.src \cap OfFamily(r.fam) /\ q.dst \in r.dst
  /\ r.proto \in {"any", q.proto} /\ (r.port # 0 => r.port = q.port)
  /\ r.pri < 1000000 \/ Pub.settings.forward = "accept"
Speaking(q) == {i \in DOMAIN Pub.rules : Speaks(Pub.rules[i], q)}
Foremost(S) ==
  CHOOSE i \in S : \A j \in S :
    Pub.rules[i].pri < Pub.rules[j].pri \/ (Pub.rules[i].pri = Pub.rules[j].pri /\ i <= j)
Forwarded(n, q) == n.enabled /\ n.auto /\ n.kind = "dnat" /\ q.dst \in n.to

\* The rule with the least priority, the older of two with the same, decides
\* about a new forwarded packet, and the policy where none speaks about it
\* (mod.rs:629-640, 812-835), but for what the portal, the port forwards and
\* the blocked networks decide first.
RulesDecide ==
  \A p \in Packets : \A q \in Arrivals(p) :
    /\ q.ct = "new" /\ ~q.over /\ q.dst \notin Self
    /\ q.iif \notin GatedIfaces(Pub) /\ ~Unwanted(q)
    /\ \A i \in DOMAIN Pub.nat.rules : ~Forwarded(Pub.nat.rules[i], q)
    => Decision(q) = IF Speaking(q) = {} THEN Pub.settings.forward
                     ELSE Pub.rules[Foremost(Speaking(q))].act

\* A device that has not logged in at the portal opens no connection through
\* the firewall, but to the walled garden, whatever rules and port forwards
\* say (mod.rs:788-795, 1316-1356).
PortalGate ==
  \A p \in Packets : Waiting(p) =>
    \A q \in Arrivals(p) : q.dst \in Self \union Seen(Pub, Pub.portal.walled) \/ ~Accepted(q)

\* The enabled port forwards a packet could take, and the one it takes.
Takes(p) ==
  {i \in DOMAIN Pub.nat.rules :
     LET n == Pub.nat.rules[i] IN
     /\ n.enabled /\ n.kind = "dnat" /\ (n.fam = "v6" => Pub.six)
     /\ n.iface \in {AnyIface, p.iif} /\ p.src \in n.src \cap OfFamily(n.fam) /\ p.dst \in n.dst
     /\ p.proto \in Transport(n) /\ p.port \in PortOf(n.port)}
Earliest(S) ==
  CHOOSE i \in S : \A j \in S :
    \/ Pub.nat.rules[i].pri < Pub.nat.rules[j].pri
    \/ Pub.nat.rules[i].pri = Pub.nat.rules[j].pri /\ i <= j

\* A port forward that brings its accept rule works: what it takes is bound for
\* the host and port it names, and reaches it, whatever the rules say, where
\* that is not the firewall itself (mod.rs:796-811, 1779-1812).
Reached ==
  \A p \in Packets :
    p.ct = "new" /\ p.iif \notin GatedIfaces(Pub) /\ Takes(p) # {} =>
      LET n == Pub.nat.rules[Earliest(Takes(p))] IN
      n.auto /\ n.toEnd = 0 =>
        \A q \in Arrivals(p) :
          /\ q.dst \in n.to /\ q.port \in (Target(n) \union IF n.toPort = 0 THEN {p.port} ELSE {})
          /\ q.dst \in Self \/ Accepted(q)

\* Outside manual mode nothing leaves a WAN of an unlisted configuration, or a
\* listed WAN, with the address of the host that sent it
\* (captive_portal.rs:695-721, mod.rs:2069-2080).
Hidden ==
  Pub.nat.mode # "manual" =>
    \A p \in Packets : \A q \in Arrivals(p) :
      /\ q.ct = "new" /\ q.dst \notin Self /\ Accepted(q)
      /\ q.oif \in (IF Pub.nat.wans = {} THEN Wan ELSE Pub.nat.wans)
      /\ q.src \in Seen(Pub, Host)
      => Ending(loaded.post, q) # {}

\* Both directions of NAT do what the stored rules and mode say.
NatDecides == Reached /\ Hidden

\* What a test says of automatic outbound NAT ("automatic outbound NAT must
\* allow forwarded LAN-to-WAN traffic", mod.rs:2762-2765): what a LAN sends out
\* of a WAN is forwarded unless a rule says otherwise.
OutboundAllowed ==
  Pub.nat.mode # "manual" =>
    \A p \in Packets : \A q \in Arrivals(p) :
      /\ q.ct = "new" /\ q.iif \in Iface \ (Wan \union GatedIfaces(Pub)) /\ q.oif \in EffectiveWans(Pub)
      /\ \A i \in Speaking(q) : Pub.rules[i].act = "accept"
      => Accepted(q)
=============================================================================
