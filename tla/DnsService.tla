------------------------------- MODULE DnsService -------------------------------
(***************************************************************************)
(* The resolver, SSH and the IPv6 switch: api/dns.rs, api/dns_overrides.rs,*)
(* api/dot.rs, the settings of api/system.rs, engine/dns and engine/ipv6.  *)
(***************************************************************************)
EXTENDS ServiceRequests

CONSTANT Anchor \* the DNSSEC root key was fetched; without it no file is checked

SixOn(k) == Entries("settings", k.settings) \cap {<<"settings", "v6", "on">>}

Resolver(k) ==
  If(Has(Dns(k.dns), "enabled"),
     Entries("dns", Dns(k.dns)) \union Entries("overrides", k.overrides)
       \union Entries("dot", k.dot) \union SixOn(k))

Sshd(k) == Entries("settings", k.settings) \ SixOn(k)

-----------------------------------------------------------------------------
UnboundSteps == <<Plain("install", "unbound"), Plain("check", "unbound"),
                  Plain("start", "unbound")>>

\* A resolver that is switched off is stopped, and keeps its file.
StopUnbound(p) ==
  /\ At(p, "install", "unbound") /\ Resolver(req[p].view) = {}
  /\ \/ /\ run' = [run EXCEPT !["unbound"] = {}]
        /\ Become(p, Skip(req[p], "unbound"))
        /\ UNCHANGED made
     \/ /\ made.faults < MaxFaults
        /\ made' = [made EXCEPT !.faults = @ + 1]
        /\ Become(p, Noted(Skip(req[p], "unbound"), "silent"))
        /\ UNCHANGED run
  /\ UNCHANGED <<stored, cache, file, cand>>

InstallUnbound(p) ==
  /\ Resolver(req[p].view) # {}
  /\ Install(p, "unbound", Resolver(req[p].view))

\* unbound-checkconf reads the file that is installed already.
CheckUnbound(p) ==
  /\ At(p, "check", "unbound")
  /\ IF Anchor => Accepted(file["unbound"]) THEN Advance(p) ELSE Failed(p)
  /\ UNCHANGED <<system, made>>

StartUnbound(p) == Start(p, "unbound")

\* The settings and overrides are handed to the engine if a DNS section was saved.
LoadIfSet(p) ==
  /\ At(p, "readset", "store")
  /\ LET v == [s \in Section |-> IF s \in Of(p) THEN stored[s] ELSE req[p].view[s]]
         r == [Past(req[p]) EXCEPT !.view = v]
     IN  Become(p, IF Has(stored.dns, "set") THEN r ELSE Noted(Skip(r, "unbound"), "skipped"))
  /\ UNCHANGED <<system, made>>

ApplyIpv6(p) == Set(p, "set", "ipv6", SixOn(req[p].view))
ApplySsh(p) == Set(p, "set", "sshd", Sshd(req[p].view))

-----------------------------------------------------------------------------
\* The form replaces the DNS section, blocklists excepted, and the DoT section.
UpdateDns(p) == \E on, dot \in BOOLEAN :
  LET entries == {e \in stored.dns : e[1] \in Item}
      k == [stored EXCEPT !.dns = Flagged(Put(entries, "set", "on"), "enabled", on),
                          !.dot = Flagged({}, "enabled", dot)]
  IN  Begin(p, Request(<<Save("dns"), Save("dot"), Read({"dot", "overrides"})>>
                         \o UnboundSteps \o <<Plain("refresh", "nft")>>,
                       k, {"unbound", "nft"}))

Blocklist(p, v) ==
  Begin(p, Request(<<Save("dns"), Read({"dot", "overrides", "settings"})>> \o UnboundSteps,
                   [stored EXCEPT !.dns = v], {"unbound"}))

CreateBlocklist(p) == \E i \in Item : Blocklist(p, Put(Dns(stored.dns), i, "on"))

DeleteBlocklist(p) == \E i \in Item :
  /\ Knows(stored.dns, i)
  /\ Blocklist(p, Without(stored.dns, i))

\* An override is looked up and saved in a section of its own.
Override(p, v, S) ==
  Begin(p, Request(<<Save("overrides"), Step("readset", "store", S)>> \o UnboundSteps,
                   [stored EXCEPT !.overrides = v], {"unbound"}))

CreateOverride(p) == \E i \in Item \ Refused :
  /\ ~Knows(stored.overrides, i)
  /\ Override(p, Put(stored.overrides, i, "on"), {"dns", "dot"})

DeleteOverride(p) == \E i \in Item :
  /\ Knows(stored.overrides, i)
  /\ Override(p, Without(stored.overrides, i), {"dns", "dot", "settings"})

UpdateDot(p) == \E on \in BOOLEAN :
  Begin(p, Request(<<Save("dot"), Read({"dns", "settings", "overrides"})>> \o UnboundSteps
                     \o <<Plain("publish", "nft")>>,
                   [stored EXCEPT !.dot = Flagged({}, "enabled", on)], {"unbound", "nft"}))

\* SSH is always applied, the IPv6 switch if it differs from the one on disk.
UpdateSettings(p) == \E ssh, v6 \in BOOLEAN :
  LET k == [stored EXCEPT !.settings = Flagged(Flagged({}, "ssh", ssh), "v6", v6)]
      six == Has(stored.settings, "v6") # v6
  IN  Begin(p, Request(<<Save("settings"), Plain("set", "sshd")>> \o
                         (IF ~six THEN <<>>
                          ELSE <<Plain("set", "ipv6"),
                                 Step("readset", "store", {"dns", "dot", "overrides"}),
                                 Plain("publish", "nft")>>
                               \o UnboundSteps),
                       k, {"sshd"} \union If(six, {"ipv6", "unbound", "nft"})))

DnsStartup == <<Plain("set", "ipv6"), Read({"dns", "dot", "overrides"})>> \o UnboundSteps
                \o <<Plain("refresh", "nft")>>

DnsNext(p) ==
  \/ StopUnbound(p) \/ InstallUnbound(p) \/ CheckUnbound(p) \/ StartUnbound(p)
  \/ LoadIfSet(p) \/ ApplyIpv6(p) \/ ApplySsh(p)
  \/ UpdateDns(p) \/ CreateBlocklist(p) \/ DeleteBlocklist(p)
  \/ CreateOverride(p) \/ DeleteOverride(p) \/ UpdateDot(p) \/ UpdateSettings(p)
=============================================================================
