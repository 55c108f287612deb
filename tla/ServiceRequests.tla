----------------------------- MODULE ServiceRequests -----------------------------
(***************************************************************************)
(* From a section of the configuration to the service that runs it: what   *)
(* the handlers under api/ and the reconciliation at startup (main.rs)     *)
(* have in common.                                                         *)
(*                                                                         *)
(* A handler loads a section, changes it, saves it, and has an engine      *)
(* write a file and act on a service, in an order of its own; nothing      *)
(* orders two handlers.  A request is a plan, the steps still to come, and *)
(* every await and every call of the store is a step of its own.  How a    *)
(* file is written is the subject of ConfigStore, how a ruleset is         *)
(* published that of RulesetPublish: each is one step here.                *)
(*                                                                         *)
(* DnsService, DhcpService, ClockService, QosService, WireGuardService,    *)
(* LinkService and AppService add the handlers and engines, Services       *)
(* composes them.                                                          *)
(***************************************************************************)
EXTENDS Naturals, Sequences, FiniteSetsExt

CONSTANTS
  Client,       \* requests that may be served at the same time
  Daemon,       \* the task that reconciles at startup
  Parts,        \* the parts of the configuration looked at
  Item,         \* entries of a list: reservations, blocklists, tunnels, interfaces
  Refused,      \* entries that a checker, or the kernel, does not accept
  Port,         \* interfaces a DHCP server can serve
  MaxRequests,  \* bound: requests
  MaxFaults,    \* bound: steps that fail
  MaxRestarts   \* bound: restarts of the daemon, reboots of the appliance

Part == {"dns", "dhcp4", "dhcp6", "ntp", "qos", "wireguard", "net", "suricata", "caddy",
         "tunnel"}

ASSUME ServiceAssumption ==
  /\ Daemon \notin Client /\ Parts \subseteq Part /\ Parts # {}
  /\ IsFiniteSet(Item) /\ Refused \subseteq Item
  /\ MaxRequests \in Nat /\ MaxFaults \in Nat /\ MaxRestarts \in Nat

VARIABLES
  part,    \* the part this behaviour takes place in: the parts share no section,
           \* file or service
  stored,  \* the configuration on disk
  file,    \* file[u]: what the file of unit u says
  cache,   \* AppState::interfaces, the copy in memory of that section
  cand,    \* cand[u]: the candidate file that is given to kea -t
  run,     \* run[u]: what unit u, a service or the kernel, does
  req,     \* req[p]: the request that p executes, or its answer
  made,    \* requests, faults and restarts so far
  past     \* history: two requests "met", one was "cut" off, a revision was "restored"

vars == <<part, stored, cache, file, cand, run, req, made, past>>
system == <<stored, cache, file, cand, run>>

Proc == Client \union {Daemon}

-----------------------------------------------------------------------------
\* A section is a set of fields and their marks; a tunnel is "moved" when it has
\* another address, a gateway is "auto" when it was made for an interface.
Flag == {"set", "enabled", "ssh", "v6", "serve"}
Field == Item \union Port \union Flag
Mark == {"on", "moved", "auto", "off"}
Section == {"dns", "overrides", "dot", "settings", "dhcp4", "dhcp6", "ntp", "qos",
            "wireguard", "interfaces", "nat", "gateways", "suricata", "caddy", "tunnel"}
Value == SUBSET (Field \X Mark)
Config == [Section -> Value]
Blank == [s \in Section |-> {}]

Has(v, f) == <<f, "on">> \in v
Without(v, f) == v \ ({f} \X Mark)
Put(v, f, m) == Without(v, f) \union {<<f, m>>}
Flagged(v, f, b) == IF b THEN Put(v, f, "on") ELSE Without(v, f)
Knows(v, f) == Without(v, f) # v

\* The content of a unit: fields of sections, {} when the unit is switched off.
Content == SUBSET (Section \X Field \X Mark)
Entries(s, v) == {<<s, e[1], e[2]>> : e \in {d \in v : d[1] # "set" /\ d[2] # "off"}}
If(b, S) == IF b THEN S ELSE {}
Accepted(c) == \A e \in c : e[2] \notin Refused

Kea == {"kea4", "kea6"}
Unit == Kea \union {"unbound", "sshd", "ipv6", "nft", "timesyncd", "chrony", "qos",
                    "wireguard", "links", "route", "suricata", "caddy", "tunnel"}
\* Units that are programs with a file, and start from it when the appliance boots.
Service == Kea \union {"unbound", "timesyncd", "chrony", "suricata", "caddy", "tunnel"}

\* One engine applies the units of the clock.
Clock == {"timesyncd", "chrony"}
Together(u) == IF u \in Clock THEN Clock ELSE {u}

-----------------------------------------------------------------------------
\* A step: what it does, on which unit, with which sections or entries.
Step(do, on, of) == [do |-> do, on |-> on, of |-> of]
Plain(do, on) == Step(do, on, {})
Save(s) == Step("save", "store", {s})
Read(S) == Step("read", "store", S)

\* A failure of these is ignored or only logged.
Tolerated == {"stop", "retire", "refresh", "clean", "down", "teardown", "signal"}
Harmless == {"read", "readset", "upsert", "drop", "clone", "recache"} \* they do not fail
Verb == Tolerated \union Harmless \union
        {"save", "restore", "savenat", "saveauto", "install", "check", "start", "set",
         "publish", "propose", "test", "remove", "shape", "up", "link", "sync", "reload",
         "enable", "consult"}

Note == {"met",      \* another request was served at the same time
         "silent",   \* a failure was passed over
         "failed",   \* a step failed: the answer is an error
         "again",    \* and so did the attempt to undo it
         "skipped"}  \* the engine was not called

StepType == [do : Verb, on : Unit \union {"store"}, of : SUBSET (Section \union Item)]

None == "none"
Revision == "revision"
\* undo: the steps that follow a failure.  view: the configuration as the request has
\* read it and changed it.  prev: the one on disk when it began.  was: the list of
\* interfaces that is put back in memory when the new one cannot be saved.  units: what
\* it is to bring up to date, in some cases for item only.
Idle == [ans |-> None, todo |-> <<>>, undo |-> <<>>, view |-> Blank, prev |-> Blank,
         was |-> {}, units |-> {}, item |-> None, notes |-> {}]

Request(steps, view, units) ==
  [Idle EXCEPT !.ans = "busy", !.todo = steps, !.view = view, !.prev = stored,
               !.units = units]

Busy(p) == req[p].ans = "busy"
At(p, do, on) == Busy(p) /\ Head(req[p].todo).do = do /\ Head(req[p].todo).on = on
Of(p) == Head(req[p].todo).of

\* A client asks for r.  The daemon serves requests when its startup is over.
Begin(p, r) ==
  LET busy == {q \in Client : Busy(q)}
  IN  /\ p \in Client \ busy /\ ~Busy(Daemon)
      /\ made.requests < MaxRequests
      /\ made' = [made EXCEPT !.requests = @ + 1]
      /\ past' = past \union If(busy # {}, {"met"}) \union If(r.item = Revision, {"restored"})
      /\ req' = [q \in Proc |->
           CASE q = p -> [r EXCEPT !.notes = If(busy # {}, {"met"})]
             [] q \in busy -> [req[q] EXCEPT !.notes = @ \union {"met"}]
             [] OTHER -> req[q]]
      /\ UNCHANGED <<part, system>>

\* p goes on as r, which is answered when no step is left.
Become(p, r) ==
  /\ req' = [req EXCEPT ![p] =
       IF r.todo # <<>> THEN r
       ELSE [Idle EXCEPT !.ans = IF "failed" \in r.notes THEN "error" ELSE "ok",
                         !.notes = r.notes]]
  /\ UNCHANGED <<part, past>>

Past(r) == [r EXCEPT !.todo = Tail(@)]

\* The steps of q that the engine of u does not take; those it takes follow one another.
Elsewhere(q, u) ==
  LET own == {n \in 1..Len(q) : q[n].on \in Together(u)}
  IN  IF own = {} THEN q
      ELSE SubSeq(q, 1, Min(own) - 1) \o SubSeq(q, Max(own) + 1, Len(q))

Skip(r, u) == [r EXCEPT !.todo = Elsewhere(@, u)]
Noted(r, n) == [r EXCEPT !.notes = @ \union {n}]

Advance(p) == Become(p, Past(req[p]))

\* A step of p fails: a request is answered, after it has been undone if it had saved and
\* was not past all it applies; the startup goes on with the next unit.
Failed(p) ==
  LET r == Noted(req[p], IF "failed" \in req[p].notes THEN "again" ELSE "failed")
      undo == IF Head(r.todo).do \in {"save", "drop", "consult"} THEN <<>> ELSE r.undo
  IN  Become(p, IF p = Daemon THEN Skip(r, Head(r.todo).on)
                ELSE [r EXCEPT !.todo = undo, !.undo = <<>>])

-----------------------------------------------------------------------------
Persist(p) ==
  /\ At(p, "save", "store")
  /\ stored' = [s \in Section |-> IF s \in Of(p) THEN req[p].view[s] ELSE stored[s]]
  /\ Advance(p)
  /\ UNCHANGED <<cache, file, cand, run, made>>

\* What a request has found is saved again.
Restore(p) ==
  /\ At(p, "restore", "store")
  /\ LET back(k) == [s \in Section |-> IF s \in Of(p) THEN req[p].prev[s] ELSE k[s]]
     IN  /\ stored' = back(stored)
         /\ Become(p, [Past(req[p]) EXCEPT !.view = back(@)])
  /\ UNCHANGED <<cache, file, cand, run, made>>

Load(p) ==
  /\ At(p, "read", "store")
  /\ Become(p, [Past(req[p]) EXCEPT !.view =
                  [s \in Section |-> IF s \in Of(p) THEN stored[s] ELSE @[s]]])
  /\ UNCHANGED <<system, made>>

\* An engine writes the file of u.
Install(p, u, c) ==
  /\ At(p, "install", u)
  /\ file' = [file EXCEPT ![u] = c]
  /\ Advance(p)
  /\ UNCHANGED <<stored, cache, cand, run, made>>

\* Service u is enabled and restarted from its file; with a file it does not accept it
\* stops.
Start(p, u) ==
  /\ At(p, "start", u)
  /\ run' = [run EXCEPT ![u] = If(Accepted(file[u]), file[u])]
  /\ IF Accepted(file[u]) THEN Advance(p) ELSE Failed(p)
  /\ UNCHANGED <<stored, cache, file, cand, made>>

\* What u does is set in one step, to c.
Set(p, do, u, c) ==
  /\ At(p, do, u)
  /\ run' = [run EXCEPT ![u] = c]
  /\ Advance(p)
  /\ UNCHANGED <<stored, cache, file, cand, made>>

\* A step of p fails.  A service whose restart fails may have stopped; interfaces that
\* cannot be saved are put back in memory.
Fault(p) ==
  /\ Busy(p) /\ Head(req[p].todo).do \notin Tolerated \union Harmless
  /\ made.faults < MaxFaults
  /\ made' = [made EXCEPT !.faults = @ + 1]
  /\ \/ UNCHANGED run
     \/ \E u \in Service : At(p, "start", u) /\ run' = [run EXCEPT ![u] = {}]
  /\ cache' = IF At(p, "save", "store") /\ Of(p) = {"interfaces"} THEN req[p].was ELSE cache
  /\ Failed(p)
  /\ UNCHANGED <<stored, file, cand>>

\* A step of p fails and nobody is told.
PassedOver(p) ==
  /\ Busy(p) /\ Head(req[p].todo).do \in Tolerated
  /\ made.faults < MaxFaults
  /\ made' = [made EXCEPT !.faults = @ + 1]
  /\ Become(p, Noted(Past(req[p]), "silent"))
  /\ UNCHANGED system

\* A DNS section that was never saved is the default one, which is switched on.
Dns(v) == IF Has(v, "set") THEN v ELSE {<<"set", "on">>, <<"enabled", "on">>}

\* Of the ruleset, what depends on the sections here.
Ruleset(k) ==
  (Entries("dns", Dns(k.dns)) \cap {<<"dns", "enabled", "on">>})
    \union (Entries("settings", k.settings) \cap {<<"settings", "v6", "on">>})
    \union Entries("dot", k.dot) \union Entries("nat", k.nat)
    \union Entries("interfaces", k.interfaces)

\* apply_current_ruleset_nft loads the configuration itself.
Publish(p) == \E do \in {"publish", "refresh"} : Set(p, do, "nft", Ruleset(stored))

\* A revision becomes the configuration on disk: the one that was archived when another
\* section was saved, before these ever were.
RestoreRevision(p) ==
  LET r == Request(<<Step("save", "store", Section)>>, Blank, {})
  IN  stored # Blank /\ Begin(p, [r EXCEPT !.item = Revision])
=============================================================================
