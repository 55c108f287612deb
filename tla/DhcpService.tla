------------------------------ MODULE DhcpService ------------------------------
(***************************************************************************)
(* The DHCP servers: api/dhcp.rs, engine/dhcp, engine/dhcp6, engine/kea.rs.*)
(*                                                                         *)
(* There is one server per address family, on one interface; the routes    *)
(* below /interfaces/{name} speak of that server too.                      *)
(***************************************************************************)
EXTENDS ServiceRequests

Family == {"dhcp4", "dhcp6"}
Server(s) == IF s = "dhcp4" THEN "kea4" ELSE "kea6"

Leases(s, k) == If(Has(k[s], "enabled"), Entries(s, k[s]))
Wanted4(k) == Leases("dhcp4", k)
Wanted6(k) == Leases("dhcp6", k)

-----------------------------------------------------------------------------
KeaSteps(u) == <<Plain("propose", u), Plain("test", u), Plain("install", u),
                 Plain("start", u)>>

\* A server that is switched off is disabled, then its file is removed.
Disable(p, s) ==
  LET u == Server(s)
      r == [req[p] EXCEPT !.todo = <<Plain("remove", u)>> \o Elsewhere(@, u)]
  IN  /\ At(p, "propose", u) /\ Leases(s, req[p].view) = {}
      /\ \/ /\ run' = [run EXCEPT ![u] = {}]
            /\ Become(p, r)
            /\ UNCHANGED made
         \/ /\ made.faults < MaxFaults
            /\ made' = [made EXCEPT !.faults = @ + 1]
            /\ Become(p, Noted(r, "silent"))
            /\ UNCHANGED run
      /\ UNCHANGED <<stored, cache, file, cand>>

RemoveConfig(p, s) ==
  /\ At(p, "remove", Server(s))
  /\ file' = [file EXCEPT ![Server(s)] = {}]
  /\ Advance(p)
  /\ UNCHANGED <<stored, cache, cand, run, made>>

\* Two requests write, test and remove the same candidate file.
Propose(p, s) ==
  /\ At(p, "propose", Server(s)) /\ Leases(s, req[p].view) # {}
  /\ cand' = [cand EXCEPT ![Server(s)] = Leases(s, req[p].view)]
  /\ Advance(p)
  /\ UNCHANGED <<stored, cache, file, run, made>>

\* Mutant of TestConfig: what kea -t says is only logged.
TestConfigLogged(p, s) ==
  /\ At(p, "test", Server(s))
  /\ Advance(p)
  /\ UNCHANGED <<system, made>>

\* kea -t reads the candidate, and fails without one.
TestConfig(p, s) ==
  LET c == cand[Server(s)]
  IN  /\ At(p, "test", Server(s))
      /\ IF c # {} /\ Accepted(c)
         THEN Advance(p) /\ UNCHANGED cand
         ELSE Failed(p) /\ cand' = [cand EXCEPT ![Server(s)] = {}]
      /\ UNCHANGED <<stored, cache, file, run, made>>

InstallKea(p, s) ==
  LET u == Server(s)
  IN  /\ At(p, "install", u)
      /\ file' = [file EXCEPT ![u] = Leases(s, req[p].view)]
      /\ cand' = [cand EXCEPT ![u] = {}]
      /\ Advance(p)
      /\ UNCHANGED <<stored, cache, run, made>>

StartKea(p, s) == Start(p, Server(s))

-----------------------------------------------------------------------------
Ports(v) == {e[1] : e \in v} \cap Port
OnPort(v, f) == {e \in v : e[1] \notin Port} \union {<<f, "on">>}

\* A section v is saved and applied.
Apply(p, s, v) ==
  Begin(p, Request(<<Save(s)>> \o KeaSteps(Server(s)), [stored EXCEPT ![s] = v],
                   {Server(s)}))

\* A server is switched on once it has an interface and a scope.
Valid(v) == Has(v, "enabled") => Ports(v) # {} /\ Has(v, "set")

\* update_config and update_config_v6, with the interface that is given, if any, and
\* SCOPE if the section has a scope then.
Configure(p, s, on, ports, scope) ==
  LET v == Flagged(Flagged(stored[s], "set", scope), "enabled", on)
      w == IF ports = {} THEN v ELSE OnPort(v, CHOOSE f \in ports : TRUE)
  IN  /\ part = s /\ Valid(w)
      /\ Apply(p, s, w)

Given == {{}} \union {{f} : f \in Port}
\* Without one, an IPv6 scope is made from the values that the request has.
Scope6 == IF Has(stored.dhcp6, "set") THEN {TRUE} ELSE BOOLEAN

UpdateConfig4(p) == \E on \in BOOLEAN, F \in Given : Configure(p, "dhcp4", on, F, TRUE)

UpdateConfig6(p) == \E on \in BOOLEAN, F \in Given, scope \in Scope6 :
  Configure(p, "dhcp6", on, F, on \/ scope)

\* The one server moves to the interface that is configured.
UpdateInterface4(p) == \E on \in BOOLEAN, f \in Port : Configure(p, "dhcp4", on, {f}, TRUE)

UpdateInterface6(p) == \E on \in BOOLEAN, f \in Port, scope \in Scope6 :
  Configure(p, "dhcp6", on, {f}, on \/ scope)

\* A reservation is not checked against the scope: that is left to kea -t.
CreateLease4(p) == \E i \in Item :
  /\ part = "dhcp4"
  /\ Apply(p, "dhcp4", Put(Put(stored.dhcp4, "set", "on"), i, "on"))

\* add_dhcp6_reservation: there is a scope, and the reservation is new and within it.
AddReservation(v, i) == Has(v, "set") /\ ~Knows(v, i) /\ i \notin Refused

CreateLease6(p) == \E i \in Item :
  /\ part = "dhcp6" /\ AddReservation(stored.dhcp6, i)
  /\ Apply(p, "dhcp6", Put(stored.dhcp6, i, "on"))

\* Below an interface, if the server is on that interface or on none.
Mine(v, f) == Ports(v) \subseteq {f}

CreateInterfaceLease4(p) == \E i \in Item, f \in Port :
  /\ part = "dhcp4" /\ Mine(stored.dhcp4, f)
  /\ Apply(p, "dhcp4", OnPort(Put(Put(stored.dhcp4, "set", "on"), i, "on"), f))

CreateInterfaceLease6(p) == \E i \in Item, f \in Port :
  /\ part = "dhcp6" /\ Mine(stored.dhcp6, f) /\ AddReservation(stored.dhcp6, i)
  /\ Apply(p, "dhcp6", OnPort(Put(stored.dhcp6, i, "on"), f))

DropLease(p, s, i) ==
  /\ part = s /\ Knows(stored[s], i)
  /\ Apply(p, s, Without(stored[s], i))

DeleteLease4(p) == \E i \in Item : DropLease(p, "dhcp4", i)
DeleteLease6(p) == \E i \in Item : DropLease(p, "dhcp6", i)

DeleteInterfaceLease4(p) == \E i \in Item, f \in Ports(stored.dhcp4) :
  DropLease(p, "dhcp4", i)

DeleteInterfaceLease6(p) == \E i \in Item, f \in Ports(stored.dhcp6) :
  /\ Valid(stored.dhcp6)
  /\ DropLease(p, "dhcp6", i)

\* reconcile_dhcp_runtime: a server that was never configured is switched off.
DhcpStartup(s) == KeaSteps(Server(s))

DhcpNext(p) ==
  \/ \E s \in Family : \/ Disable(p, s) \/ RemoveConfig(p, s) \/ Propose(p, s)
                       \/ TestConfig(p, s) \/ InstallKea(p, s) \/ StartKea(p, s)
  \/ UpdateConfig4(p) \/ UpdateInterface4(p) \/ CreateLease4(p) \/ DeleteLease4(p)
  \/ CreateInterfaceLease4(p) \/ DeleteInterfaceLease4(p)
  \/ UpdateConfig6(p) \/ UpdateInterface6(p) \/ CreateLease6(p) \/ DeleteLease6(p)
  \/ CreateInterfaceLease6(p) \/ DeleteInterfaceLease6(p)
=============================================================================
