------------------------------- MODULE LinkService -------------------------------
(***************************************************************************)
(* Network interfaces and gateways: api/interfaces.rs, api/gateways.rs,    *)
(* engine/interfaces, engine/gateway.                                      *)
(*                                                                         *)
(* The interfaces are the one section with a copy in memory.  A request    *)
(* changes the copy and saves it; the networks that are translated and the *)
(* automatic gateways on disk follow.  A request that fails later writes   *)
(* back the whole configuration that it found.                             *)
(***************************************************************************)
EXTENDS ServiceRequests

CONSTANTS
  Wan,   \* the interfaces with a gateway
  Vlan   \* <<i, j>>: interface i is a VLAN on j

ASSUME LinkAssumption ==
  Wan \subseteq Item /\ Vlan \subseteq Item \X Item /\ \A e \in Vlan : e[1] # e[2]

Named(v) == {i \in Item : Knows(v, i)}
Household(i) == {i} \union {e[1] : e \in {d \in Vlan : d[2] = i}}

\* derive_nat_wan_interfaces, and the interfaces that get an automatic gateway.
WanOf(v) == {i \in Wan : Has(v, i)}
Translated(v) == {<<i, "on">> : i \in WanOf(v)}
Automatic(v) == {<<i, "auto">> : i \in WanOf(v)}

-----------------------------------------------------------------------------
\* The copy in memory is changed under its lock; the lock is taken again to read it.
Upsert(p) == \E m \in {"on", "off"} :
  /\ At(p, "upsert", "links") /\ <<req[p].item, m>> \in req[p].view.interfaces
  /\ cache' = Put(cache, req[p].item, m)
  /\ Become(p, [Past(req[p]) EXCEPT !.was = req[p].prev.interfaces])
  /\ UNCHANGED <<stored, file, cand, run, made>>

\* The VLANs on an interface go with it, also if that is not in memory itself.
Drop(p) ==
  LET gone == Household(req[p].item) \intersect Named(cache)
  IN  /\ At(p, "drop", "links")
      /\ cache' = {e \in cache : e[1] \notin gone}
      /\ IF gone = {} THEN Failed(p) ELSE Become(p, [Past(req[p]) EXCEPT !.was = cache])
      /\ UNCHANGED <<stored, file, cand, run, made>>

CloneList(p) ==
  /\ At(p, "clone", "links")
  /\ Become(p, [Past(req[p]) EXCEPT !.view.interfaces = cache])
  /\ UNCHANGED <<system, made>>

Recache(p) ==
  /\ At(p, "recache", "links")
  /\ cache' = req[p].view.interfaces
  /\ Advance(p)
  /\ UNCHANGED <<stored, file, cand, run, made>>

SyncNat(p) ==
  /\ At(p, "savenat", "store")
  /\ stored' = [stored EXCEPT !.nat = Translated(req[p].view.interfaces)]
  /\ Advance(p)
  /\ UNCHANGED <<cache, file, cand, run, made>>

\* Mutant of SyncGateways: the automatic gateway of an interface that lost its gateway stays.
SyncGatewaysAdds(p) ==
  /\ At(p, "saveauto", "store")
  /\ stored' = [stored EXCEPT !.gateways = @ \union Automatic(req[p].view.interfaces)]
  /\ Advance(p)
  /\ UNCHANGED <<cache, file, cand, run, made>>

SyncGateways(p) ==
  /\ At(p, "saveauto", "store")
  /\ stored' = [stored EXCEPT !.gateways =
                  {e \in @ : e[2] # "auto"} \union Automatic(req[p].view.interfaces)]
  /\ Advance(p)
  /\ UNCHANGED <<cache, file, cand, run, made>>

\* load_system_settings, at the end of a deletion.
Consult(p) == At(p, "consult", "store") /\ Advance(p) /\ UNCHANGED <<system, made>>

-----------------------------------------------------------------------------
Link(i) == <<"interfaces", i, "on">>
Default(i) == <<"gateways", i, "on">>

\* The kernel drops the routes of an interface that goes down.
LinkDown(S) == [run EXCEPT !["links"] = @ \ {Link(i) : i \in S},
                           !["route"] = @ \ {Default(i) : i \in S}]

\* An interface goes up first; its gateway, if it has one, becomes the default route last.
LinkUp(i) == [run EXCEPT !["links"] = @ \union {Link(i)}]
LinkSet(i) == [LinkUp(i) EXCEPT !["route"] = IF i \in Wan THEN {Default(i)} ELSE @]

\* apply_interface_with_ipv6: what remains to be done is r.
Configured(p, i, up, r) ==
  /\ CASE up /\ i \in Refused -> Failed(p) /\ run' = LinkUp(i)
       [] up /\ i \notin Refused -> Become(p, r) /\ run' = LinkSet(i)
       [] OTHER -> Become(p, r) /\ run' = LinkDown({i})
  /\ UNCHANGED <<stored, cache, file, cand>>

\* The step says whether the request has the interface enabled.
ApplyLink(p) == \E i \in Item :
  /\ At(p, "link", "links") /\ req[p].item = i
  /\ Configured(p, i, Of(p) # {}, Past(req[p]))
  /\ UNCHANGED made

\* sync_interfaces_with_ipv6: an interface that is as configured is passed over, and the
\* first failure ends it.
Synced(p, i) ==
  IF Of(p) = {i} THEN Past(req[p])
  ELSE [req[p] EXCEPT !.todo = <<Step("sync", "links", Of(p) \ {i})>> \o Tail(@)]

SyncLink(p) == \E i \in Item :
  /\ At(p, "sync", "links") /\ i \in Of(p)
  /\ LET up == Has(req[p].view.interfaces, i)
     IN  IF up = (Link(i) \in run["links"])
         THEN Become(p, Synced(p, i)) /\ UNCHANGED <<system, made>>
         ELSE Configured(p, i, up, Synced(p, i)) /\ UNCHANGED made

\* An interface whose configuration fails may be up; a VLAN, which is made anew, may be
\* gone.
LinkFails(p) == \E i \in Item :
  /\ At(p, "link", "links") /\ i \in Of(p)
  /\ made.faults < MaxFaults
  /\ made' = [made EXCEPT !.faults = @ + 1]
  /\ \/ run' = LinkUp(i)
     \/ (\E e \in Vlan : e[1] = i) /\ run' = LinkDown({i})
  /\ Failed(p)
  /\ UNCHANGED <<stored, cache, file, cand>>

Teardown(p) ==
  /\ At(p, "teardown", "links")
  /\ run' = LinkDown({req[p].item} \union (Household(req[p].item) \intersect Named(req[p].was)))
  /\ Advance(p)
  /\ UNCHANGED <<stored, cache, file, cand, made>>

\* `ip route replace default': the gateway that is applied last has the route.
ApplyGateway(p) ==
  /\ At(p, "set", "route")
  /\ IF Of(p) \intersect Refused # {} THEN Failed(p) /\ UNCHANGED run
     ELSE Advance(p) /\ run' = [run EXCEPT !["route"] = {Default(i) : i \in Of(p)}]
  /\ UNCHANGED <<stored, cache, file, cand, made>>

RemoveGateway(p) ==
  Set(p, "down", "route", run["route"] \ {Default(i) : i \in Of(p)})

-----------------------------------------------------------------------------
\* A request about interface i: change, save, follow up, act on the kernel, and end.
ForLink(p, i, change, act, end, k) ==
  LET save == <<Plain(change, "links"), Plain("clone", "links"), Save("interfaces"),
                Plain("savenat", "store"), Plain("saveauto", "store")>>
      r == Request(save \o <<act, Plain("publish", "nft")>> \o end, k, {"links", "nft"})
  IN  /\ part = "net"
      /\ Begin(p, [r EXCEPT !.item = i, !.undo = <<Step("restore", "store", Section),
                                                   Plain("recache", "links")>>])

\* A VLAN needs the interface it is on, in memory or on disk.
CreateInterface(p) == \E i \in Item, m \in {"on", "off"} :
  /\ \A e \in Vlan : e[1] = i => e[2] \in Named(cache) \union Named(stored.interfaces)
  /\ ForLink(p, i, "upsert", Step("link", "links", IF m = "on" THEN {i} ELSE {}), <<>>,
             [stored EXCEPT !.interfaces = Put(@, i, m)])

\* When all is deleted and published it reads the settings, for the advertisements of the
\* routers that are left: if it cannot, the answer is an error and nothing is undone.
DeleteInterface(p) == \E i \in Item :
  ForLink(p, i, "drop", Plain("teardown", "links"), <<Plain("consult", "store")>>, stored)

\* A GET that writes: the list from disk replaces the copy in memory.
ListInterfaces(p) ==
  /\ part = "net"
  /\ Begin(p, Request(<<Plain("recache", "links")>>, stored, {}))

\* A gateway of the user's has a name that differs from an automatic one's.
Manual(v, i) == v \intersect ({i} \X {"on", "off"})

UpsertGateway(p) == \E i \in Item, m \in {"on", "off"} :
  LET act == IF m = "on" THEN Step("set", "route", {i}) ELSE Step("down", "route", {i})
      k == [stored EXCEPT !.gateways = (@ \ Manual(@, i)) \union {<<i, m>>}]
      r == Request(<<Save("gateways"), act>>, k, {"route"})
  IN  part = "net" /\ Begin(p, [r EXCEPT !.item = i])

\* The route of a gateway stays when the gateway is deleted.
DeleteGateway(p) == \E e \in stored.gateways :
  /\ part = "net"
  /\ Begin(p, Request(<<Save("gateways")>>, [stored EXCEPT !.gateways = @ \ {e}], {}))

\* Mutant of LinkStartup: the interfaces are left as they are.
LinkStartupNft(k) == <<Plain("refresh", "nft")>>

LinkStartup(k) ==
  (IF k.interfaces = {} THEN <<>> ELSE <<Step("sync", "links", Named(k.interfaces))>>)
    \o <<Plain("refresh", "nft")>>

LinkNext(p) ==
  \/ Upsert(p) \/ Drop(p) \/ CloneList(p) \/ Recache(p) \/ SyncNat(p) \/ SyncGateways(p)
  \/ Consult(p) \/ ApplyLink(p) \/ SyncLink(p) \/ LinkFails(p) \/ Teardown(p)
  \/ ApplyGateway(p) \/ RemoveGateway(p)
  \/ CreateInterface(p) \/ DeleteInterface(p) \/ ListInterfaces(p)
  \/ UpsertGateway(p) \/ DeleteGateway(p)
=============================================================================
