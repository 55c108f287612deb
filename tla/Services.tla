-------------------------------- MODULE Services --------------------------------
(***************************************************************************)
(* The handlers of DnsService, DhcpService, ClockService, QosService,      *)
(* WireGuardService, LinkService and AppService, with the reconciliation   *)
(* at startup and what ends a daemon or an appliance.                      *)
(***************************************************************************)
EXTENDS DnsService, DhcpService, ClockService, QosService, WireGuardService, LinkService,
        AppService

\* What the generator of a unit makes of configuration k.
Wanted(u, k) ==
  CASE u = "unbound" -> Resolver(k)
    [] u = "sshd" -> Sshd(k)
    [] u = "ipv6" -> SixOn(k)
    [] u = "nft" -> Ruleset(k)
    [] u = "kea4" -> Wanted4(k)
    [] u = "kea6" -> Wanted6(k)
    [] u \in Clock -> Timed(u, k)
    [] u = "qos" -> Shaped(k)
    [] u = "wireguard" -> Entries("wireguard", k.wireguard)
    [] u = "links" -> Entries("interfaces", k.interfaces)
    [] u = "route" -> Entries("gateways", k.gateways)
    [] u \in App -> Running(u, k)

\* The units that the startup brings up to date.
Reconciled ==
  CASE part = "dns" -> {"ipv6", "unbound", "nft"}
    [] part \in Family -> {Server(part)}
    [] part = "ntp" -> Clock
    [] part = "qos" -> {"qos"}
    [] part = "net" -> {"links", "nft"}
    [] part \in App \union {"wireguard"} -> {}

StartupSteps(d, k) ==
  CASE d = "dns" -> DnsStartup
    [] d \in Family -> DhcpStartup(d)
    [] d = "ntp" -> ClockStartup(k)
    [] d = "qos" -> QosStartup(k)
    [] d = "net" -> LinkStartup(k)
    [] d \in App \union {"wireguard"} -> <<>>

\* The daemon starts: it reconciles the services with configuration k, then it serves.
Started(d, k) ==
  [p \in Proc |->
    IF p = Daemon /\ StartupSteps(d, k) # <<>>
    THEN [Idle EXCEPT !.ans = "busy", !.todo = StartupSteps(d, k), !.view = k, !.prev = k]
    ELSE Idle]

Nothing == [u \in Unit |-> {}]

Init ==
  /\ part \in Parts
  /\ stored = Blank /\ cache = {} /\ file = Nothing /\ cand = [u \in Kea |-> {}] /\ run = Nothing
  /\ req = Started(part, Blank)
  /\ made = [requests |-> 0, faults |-> 0, restarts |-> 0]
  /\ past = {}

TypeOK ==
  /\ part \in Parts
  /\ stored \in Config /\ cache \in Value
  /\ file \in [Unit -> Content] /\ cand \in [Kea -> Content] /\ run \in [Unit -> Content]
  /\ \A p \in Proc :
       LET r == req[p]
       IN  /\ r.ans \in {None, "busy", "ok", "error"}
           /\ \A s \in Range(r.todo) \union Range(r.undo) : s \in StepType
           /\ (r.todo # <<>>) <=> (r.ans = "busy")
           /\ r.view \in Config /\ r.prev \in Config /\ r.was \in Value
           /\ r.units \subseteq Unit /\ r.item \in Item \union {None, Revision}
           /\ r.notes \subseteq Note
           /\ "failed" \in r.notes /\ r.ans # "busy" => r.ans = "error"
  /\ made \in [requests : 0..MaxRequests, faults : 0..MaxFaults, restarts : 0..MaxRestarts]
  /\ past \subseteq {"met", "cut", "restored"}

-----------------------------------------------------------------------------
\* The requests of a daemon that ends are cut off where they are; the next one loads the
\* interfaces.
Ended ==
  /\ made.restarts < MaxRestarts
  /\ made' = [made EXCEPT !.restarts = @ + 1]
  /\ req' = Started(part, stored)
  /\ cache' = stored.interfaces
  /\ past' = past \union If(\E p \in Client : Busy(p), {"cut"})
  /\ UNCHANGED <<part, stored, file, cand>>

Restart == Ended /\ UNCHANGED run

\* The kernel starts from nothing, and systemd starts the services that are enabled
\* from the files they find.
Reboot ==
  /\ Ended
  /\ \E S \in SUBSET {u \in Service : file[u] # {}} :
       run' = [u \in Unit |->
                 CASE u \in S -> If(Accepted(file[u]), file[u])
                   [] u = "sshd" -> run[u]
                   [] OTHER -> {}]

Next ==
  \/ \E p \in Proc :
       \/ Persist(p) \/ Restore(p) \/ Load(p) \/ Fault(p) \/ PassedOver(p)
       \/ Publish(p) \/ RestoreRevision(p)
       \/ part = "dns" /\ DnsNext(p)
       \/ part \in Family /\ DhcpNext(p)
       \/ part = "ntp" /\ ClockNext(p)
       \/ part = "qos" /\ QosNext(p)
       \/ part = "wireguard" /\ WireGuardNext(p)
       \/ part = "net" /\ LinkNext(p)
       \/ part \in App /\ AppNext(p)
  \/ Restart
  \/ Reboot

Spec == Init /\ [][Next]_vars

-----------------------------------------------------------------------------
\* p is answered a in this step, and nothing of note happened but N.
Answered(p, a, N) == Busy(p) /\ req'[p].ans = a /\ req'[p].notes \subseteq N

\* The entries of u that r is about: a startup brings up to date what is listed, a request
\* its interface and the VLANs that leave the list with it, and a Suricata that runs stays
\* on its interfaces.
About(u, r) ==
  CASE u = "qos" -> Listed(r.prev.qos) \union Listed(r.view.qos)
    [] u = "links" /\ r.item = None -> Named(r.view.interfaces)
    [] u = "links" /\ r.item # None ->
         {r.item} \union If(~Knows(r.view.interfaces, r.item),
                            Household(r.item) \intersect Named(r.was))
    [] u \in {"wireguard", "route"} -> {r.item}
    [] u = "suricata" -> Field \ Port
    [] OTHER -> Field

\* Content c of u is what configuration k makes of the entries that r is about.  A tunnel
\* that is up, of either kind, keeps what it has.
Shows(u, c, k, r) ==
  LET of(d) == {e \in d : e[2] \in About(u, r) /\ e[3] # "auto"}
  IN  IF u \in {"wireguard", "tunnel"} THEN (of(c) = {}) <=> (of(Wanted(u, k)) = {})
      ELSE of(c) = of(Wanted(u, k))

\* A request that is served alone and answered without an error has been applied: the
\* units it is about run what is on disk.
Applied ==
  [][\A p \in Client : Answered(p, "ok", {}) =>
       \A u \in req[p].units : Shows(u, run'[u], stored', req[p])]_vars

\* A startup at which no step fails leaves the services as the configuration has them,
\* whatever was cut off before; a discipline stays on an interface that is not listed.
Reconciles ==
  [][Answered(Daemon, "ok", {}) =>
       \A u \in Reconciled : Shows(u, run'[u], stored', req[Daemon])]_vars

\* The networks that are translated, and the automatic gateways, follow from interfaces v.
FollowsFrom(k, v) ==
  /\ k.nat = Translated(v)
  /\ \A i \in Item : <<i, "auto">> \in k.gateways => i \in WanOf(v)

\* p is at the end of a deletion, and it stands: with all that follows from it.
Deleted(p) ==
  /\ At(p, "consult", "store") /\ ~Knows(stored.interfaces, req[p].item)
  /\ FollowsFrom(stored, stored.interfaces)

\* A request about the clock, the shaping or an interface that is served alone and
\* answered with an error has left the configuration as it was, or it is a deletion that
\* stands in full; the copy in memory is, unless requests met before, as the disk has it.
KeepsStore ==
  \A p \in Client :
    /\ part \in {"ntp", "qos"} \/ "links" \in req[p].units
    /\ Answered(p, "error", {"failed", "silent"})
    => /\ stored' = req[p].prev \/ (Deleted(p) /\ stored' = stored)
       /\ past \cap {"met", "restored"} # {} \/ cache' = stored'.interfaces

\* Unless a command fails or two requests meet, a server that is running goes on as long
\* as it is wanted: what its checker, if it is asked, refuses does not reach it.
KeepsRunning ==
  made'.faults = 0 /\ made' = made /\ "met" \notin past' =>
    \A u \in Kea \union If(Anchor, {"unbound"}) :
      run[u] # {} /\ Wanted(u, stored') # {} => run'[u] # {}

\* What fails or is refused changes nothing: neither the configuration nor a server.
ErrorsHarmless == [][KeepsStore /\ KeepsRunning]_vars

\* Unless two requests meet, the file of a DHCP server is one that kea -t accepts.
KeaAccepted == "met" \notin past => \A u \in Kea : Accepted(file[u])

\* With at most one failure, and as long as requests are neither cut off nor meet and no
\* revision is restored, an idle daemon has the interfaces in memory as on disk, and the
\* networks that are translated and the automatic gateways follow from them.
InterfacesAgree ==
  past = {} /\ made.faults <= 1 /\ (\A p \in Proc : ~Busy(p)) =>
    /\ cache = stored.interfaces
    /\ FollowsFrom(stored, cache)

-----------------------------------------------------------------------------
\* Five properties that do not hold; each says without its exceptions what one above
\* says, or what a comment says.

\* The file of a DHCP server is always one that kea -t accepts.
KeaAlwaysAccepted == \A u \in Kea : Accepted(file[u])

\* A request served alone and answered without an error has brought every entry of its
\* units up to date.
AppliedInFull ==
  [][\A p \in Client : Answered(p, "ok", {}) =>
       \A u \in req[p].units : run'[u] = Wanted(u, stored')]_vars

\* A revision that is restored is applied to the running services.
RevisionApplied ==
  [][\A p \in Client : req[p].item = Revision /\ Answered(p, "ok", {}) =>
       \A u \in Reconciled : run'[u] = Wanted(u, stored')]_vars

\* A request about an interface that is served alone and answered with an error has left
\* the configuration as it was.
ErrorsKeep ==
  [][\A p \in Client : "links" \in req[p].units /\ Answered(p, "error", {"failed", "silent"}) =>
       stored' = req[p].prev]_vars

\* The networks that are translated follow from the interfaces also after a request was
\* cut off and the daemon has started again.
NatSurvives ==
  past \subseteq {"cut"} /\ made.faults = 0 /\ (\A p \in Proc : ~Busy(p)) =>
    stored.nat = Translated(stored.interfaces)
=============================================================================
