-------------------------------- MODULE MCBackups --------------------------------
(***************************************************************************)
(* A small instance of Backups: a new appliance, one that uses most        *)
(* sections, and one with IPv6; of each section contents that other        *)
(* sections forbid, and some that are never right.                         *)
(***************************************************************************)
EXTENDS Backups

Wan == [name |-> "wan", addresses |-> {}, gateway |-> "", wan |-> "dhcp", dhcp4 |-> TRUE,
        mode |-> "static", track |-> "", prefix |-> {}, advertises |-> FALSE, hint |-> {},
        login |-> FALSE, blocks |-> TRUE, mtu |-> {}, mss |-> {}, vlan |-> {}, parent |-> ""]
Lan == [Wan EXCEPT !.name = "lan", !.addresses = {"v4"}, !.wan = "none", !.dhcp4 = FALSE,
                   !.blocks = FALSE]
Vlan == [Lan EXCEPT !.name = "guest", !.vlan = {7}, !.parent = "lan"]
SixWan == [Wan EXCEPT !.mode = "dhcp6", !.hint = {56}]
SixLan == [Lan EXCEPT !.addresses = {"v4", "v6"}, !.mode = "track", !.track = "wan",
                      !.prefix = {64}, !.advertises = TRUE]

Settings == [web |-> 8443, ssh |-> TRUE, sshPort |-> 22, six |-> FALSE]
Filter == [names |-> {"v4"}, rate |-> 25, burst |-> 50, ports |-> {443}]
Rule == [names |-> {"v4"}]
Alias == [name |-> "office", names |-> {"v4"}]
Dns == [listen |-> {}, port |-> 53, forwards |-> TRUE, forwarders |-> {"v4"}, custom |-> FALSE,
        clients |-> {}, cache |-> [least |-> 0, most |-> 86400, serves |-> FALSE, stale |-> 0],
        records |-> {[type |-> "A", value |-> "v4"]}]
Dot == [on |-> TRUE, port |-> 853, domain |-> TRUE, path |-> TRUE, cert |-> FALSE, key |-> FALSE]
Scope == [subnet |-> 20, size |-> 16, first |-> 20, last |-> 24, lease |-> 60, reserved |-> {30},
          router |-> {17}]
Dhcp == [on |-> TRUE, serves |-> "lan", scopes |-> {Scope}]
Tunnels == {[name |-> "wg0", keys |-> TRUE, addresses |-> {"v4"}, on |-> TRUE, port |-> 51820,
             peers |-> {[keys |-> TRUE, allowed |-> {"v4"}, endpoint |-> "name"]}]}
Suricata == [mode |-> "ids", home |-> {"v4"}, external |-> {}, eve |-> TRUE, evePath |-> TRUE,
             stats |-> FALSE, statsPath |-> FALSE, sources |-> {[url |-> TRUE, file |-> FALSE]}]
Crowdsec == [on |-> TRUE, url |-> TRUE, bind |-> "127.0.0.1", port |-> 8080, key |-> TRUE,
             interval |-> 60, alias |-> TRUE]
Acme == [on |-> TRUE, email |-> TRUE, directory |-> TRUE, hours |-> 24, domains |-> {"plain"},
         dns01 |-> FALSE, provider |-> "manual", token |-> FALSE]
Notify == [on |-> TRUE, server |-> TRUE, port |-> 587, limit |-> 5, from |-> TRUE, to |-> {TRUE}]
Ntp == [on |-> TRUE, upstream |-> {"name"}, serves |-> TRUE, listen |-> {"lan"}]
Entry == [id |-> 1, on |-> TRUE, provider |-> "duckdns", family |-> "v4", iface |-> "wan",
          host |-> TRUE, username |-> FALSE, password |-> TRUE, url |-> ""]
Ddns == [on |-> TRUE, interval |-> 300, entries |-> {Entry}]
Qos == [on |-> TRUE, shapes |-> {[name |-> "wan", rate |-> {1000}]}]
Tunnel == [on |-> TRUE, name |-> TRUE, token |-> TRUE, ingress |-> {TRUE}]
Site == [domain |-> "example", on |-> TRUE, upstream |-> TRUE]
Caddy == [on |-> TRUE, level |-> TRUE, email |-> TRUE, sites |-> {Site}]
Portal == [on |-> TRUE, bind |-> "0.0.0.0", port |-> 8000, lasts |-> 3600, idle |-> 0,
           names |-> {"v4"}, gates |-> {"lan"}]
Ai == [on |-> TRUE, blocks |-> TRUE, threshold |-> 90, window |-> 300, learning |-> 25]
Listener == [id |-> "ssh", bind |-> "0.0.0.0", port |-> 2222, score |-> 95, on |-> TRUE]
Honeypots == [on |-> TRUE, listeners |-> {Listener}]
Gateway == [ip |-> "v4", monitor |-> ""]

New == [s \in Section |->
          CASE s = "interfaces" -> {Wan, Lan} [] s = "settings" -> {Settings} [] OTHER -> {}]
Full == [New EXCEPT
  !.interfaces = {Wan, Lan, Vlan}, !.rules = {Rule}, !.aliases = {Alias}, !.filter = {Filter},
  !.dns = {Dns}, !.overrides = {[to |-> "v4"]}, !.dot = {Dot},
  !.dhcp = NormalizeServers({Dhcp}), !.dhcp6 = NormalizeServers({Dhcp}), !.wireguard = Tunnels,
  !.gateways = {Gateway}, !.suricata = {Suricata}, !.crowdsec = {Crowdsec}, !.acme = {Acme},
  !.notify = {Notify}, !.ntp = {Ntp}, !.ddns = {Ddns}, !.qos = {Qos}, !.tunnel = {Tunnel},
  !.caddy = {Caddy}, !.portal = {[Portal EXCEPT !.gates = {"guest"}]}, !.ai = {Ai},
  !.honeypots = {Honeypots}]
Six == [New EXCEPT
  !.interfaces = {SixWan, SixLan}, !.settings = {[Settings EXCEPT !.six = TRUE]},
  !.rules = {[names |-> {"v6"}]}, !.dns = {[Dns EXCEPT !.forwarders = {"v6"}]},
  !.portal = {Portal}, !.overrides = {[to |-> "v6"]}]
MCStarts == {New, Full, Six}

MCOffers == [s \in Section |->
  CASE s = "interfaces" ->
         {{Wan}, {Wan, Lan}, {SixWan, SixLan}, {Vlan, Wan}, {},
          {Lan, [Wan EXCEPT !.wan = "pppoe", !.login = TRUE, !.mtu = {1500}]},
          {Lan, [Wan EXCEPT !.wan = "pppoe", !.login = TRUE, !.mtu = {1492}, !.mss = {1400}]},
          {Lan, [SixWan EXCEPT !.mode = "slaac", !.hint = {}, !.wan = "none", !.blocks = FALSE]}}
    [] s = "settings" -> {{[Settings EXCEPT !.six = TRUE]}, {Settings}, {[Settings EXCEPT !.web = 53]},
                          {[Settings EXCEPT !.sshPort = 2222]}}
    [] s = "rules" -> {{Rule}, {[names |-> {"v6"}]}}
    [] s = "aliases" -> {{Alias}, {Alias, [Alias EXCEPT !.names = {"v6"}]}, {[Alias EXCEPT !.names = {"v6"}]}}
    [] s = "filter" -> {{[Filter EXCEPT !.names = {"v6"}]}, {[Filter EXCEPT !.rate = 0]}}
    [] s = "nat" -> {{[names |-> {"v4", "v6"}]}}
    [] s = "dns" -> {{Dns}, {[Dns EXCEPT !.port = 8443, !.listen = {"127.0.0.1"}]},
                     {[Dns EXCEPT !.listen = {"::"}, !.custom = TRUE, !.clients = {"v6"},
                                  !.records = {[type |-> "AAAA", value |-> "v6"]}]},
                     {[Dns EXCEPT !.cache.serves = TRUE]}}
    [] s = "overrides" -> {{[to |-> "v6"]}, {[to |-> "bad"]}}
    [] s = "dot" -> {{[Dot EXCEPT !.port = 8443]}, {[Dot EXCEPT !.domain = FALSE, !.cert = TRUE]}}
    [] s = "dhcp" -> {{Dhcp}, {[Dhcp EXCEPT !.scopes = {}]}, {[Dhcp EXCEPT !.scopes = {[Scope EXCEPT !.last = 40]}]}}
    [] s = "dhcp6" -> {{Dhcp}, {[Dhcp EXCEPT !.serves = ""]}}
    [] s = "wireguard" -> {{[w EXCEPT !.peers = {}, !.addresses = {"v6"}] : w \in Tunnels},
                           Tunnels \union {[w EXCEPT !.name = "wg1"] : w \in Tunnels}}
    [] s = "gateways" -> {{[Gateway EXCEPT !.monitor = "v6"]}}
    [] s = "suricata" -> {{[Suricata EXCEPT !.home = {"v6"}]}, {[Suricata EXCEPT !.mode = "off"]}}
    [] s = "crowdsec" -> {{[Crowdsec EXCEPT !.port = 8443]}, {[Crowdsec EXCEPT !.on = FALSE, !.key = FALSE]}}
    [] s = "acme" -> {{[Acme EXCEPT !.domains = {"wildcard"}]}, {[Acme EXCEPT !.dns01 = TRUE, !.domains = {"wildcard"}]}}
    [] s = "notify" -> {{[Notify EXCEPT !.to = {TRUE, FALSE}]}, {[Notify EXCEPT !.on = FALSE, !.to = {}]}}
    [] s = "ntp" -> {{[Ntp EXCEPT !.listen = {"guest"}]}, {[Ntp EXCEPT !.upstream = {"v6"}]}}
    [] s = "ddns" -> {{[Ddns EXCEPT !.entries = {Entry, [Entry EXCEPT !.id = 2, !.iface = "lan"]}]},
                      {[Ddns EXCEPT !.entries = {[Entry EXCEPT !.provider = "custom"]}]}}
    [] s = "qos" -> {{[Qos EXCEPT !.shapes = {[name |-> "wan", rate |-> {0}]}]}, {[Qos EXCEPT !.on = FALSE]}}
    [] s = "tunnel" -> {{[Tunnel EXCEPT !.ingress = {}]}, {[Tunnel EXCEPT !.on = FALSE]}}
    [] s = "caddy" -> {{Caddy}, {[Caddy EXCEPT !.sites = {Site, [Site EXCEPT !.upstream = FALSE]}]}}
    [] s = "portal" -> {{[Portal EXCEPT !.port = 2222]}, {[Portal EXCEPT !.bind = "10.0.0.1", !.port = 8080]}}
    [] s = "ai" -> {{[Ai EXCEPT !.on = FALSE]}, {[Ai EXCEPT !.learning = 0]}}
    [] s = "honeypots" -> {{[Honeypots EXCEPT !.listeners = {[Listener EXCEPT !.on = FALSE]}]},
                           {[Honeypots EXCEPT !.listeners = {[Listener EXCEPT !.bind = "127.0.0.1", !.port = 8000]}]},
                           {[Honeypots EXCEPT !.listeners = {Listener, [Listener EXCEPT !.id = "telnet", !.bind = "::"]}]}}]

MCSelections == {All, <<"firewall", "interfaces", "portal">>, <<"dns">>}
MCSchedules == {[on |-> TRUE, retain |-> 1, encrypted |-> 0], [on |-> TRUE, retain |-> 2, encrypted |-> 1],
                [on |-> FALSE, retain |-> 1, encrypted |-> 0]}
MCBudgets ==
  {[edits |-> 2, backups |-> 0, restores |-> 0, restarts |-> 0, time |-> 0],
   [edits |-> 1, backups |-> 1, restores |-> 1, restarts |-> 0, time |-> 0],
   [edits |-> 1, backups |-> 0, restores |-> 1, restarts |-> 1, time |-> 0],
   [edits |-> 0, backups |-> 3, restores |-> 0, restarts |-> 1, time |-> 2]}
=============================================================================
