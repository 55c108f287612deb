------------------------------ MODULE PolicyEngine ------------------------------
(***************************************************************************)
(* The AI policy engine (ai_firewall/, api/ai.rs): events of the firewall  *)
(* log become suggestions, suggestions become rules, by a request or by    *)
(* the engine itself, and each is logged so that it can be undone.         *)
(*                                                                         *)
(* The rules, the log and the suggestions have a lock each, and no         *)
(* operation holds two: others are served in between.  A change of the     *)
(* rules, with its publication and what takes it back, is one step here;   *)
(* RulesetPublish has its parts.                                           *)
(***************************************************************************)
EXTENDS BackgroundBase

CONSTANTS
  Iface,       \* interfaces
  Asked,       \* the interfaces that requests name; "" stands for all
  Traffic,     \* events of the firewall log
  Saved,       \* modes, settings and intents to start from, for all interfaces
  IntentLists, \* lists of intents that are saved
  Limits,      \* automation settings that are saved
  Bootstraps,  \* what bootstraps ask for: to set the mode, and any of "strict", "services"
  Appliance,   \* the services that the zero-trust baseline lets in
  Window,      \* bound of recent_events (512 in the code)
  Attempts,    \* events of one kind that are an attack (3)
  ScanPorts    \* ports of one source that are a scan (5)

VARIABLES
  mem,     \* the engine's memory: suggestions, intents, mode, settings, log
  disk,    \* the files of these
  recent,  \* the last events
  rules,   \* the rules on disk
  strict,  \* the filter drops what no rule allows
  job      \* job[p]: what the request p, or the task that reads the log, does

policyVars == <<mem, disk, recent, rules, strict, job>>

Reader == "reader"
Worker == Client \union {Reader}
All == ""
Scope == Iface \union {All}
Mode == {"monitor", "suggest", "control"}
Resting == [pc |-> "idle"]

\* The value for an interface if there is one, else the one for all.
For(f, i) == CHOOSE v \in IF f[i] = {} THEN f[All] ELSE f[i] : TRUE

-----------------------------------------------------------------------------
\* From an event to a suggestion.
Scoped(e) == e.src = "lan" /\ e.proto # "any" /\ (e.proto # "icmp" => e.port # 0)

\* The events are those up to e itself: a service is never new.
Classes(e, events) ==
  LET same == {n \in DOMAIN events : events[n].src = e.src}
      alike == {n \in same : events[n].port = e.port}
      ports == {events[n].port : n \in same} \ {0}
  IN  If(e.src = "lan", {"lan"}) \union If(Cardinality(alike) >= Attempts, {"repeated"})
      \union If(Cardinality(ports) >= ScanPorts, {"scan"})
      \union If(e.port \notin {0} \union {events[n].port : n \in DOMAIN events}, {"new"})

Advice(a, c) == [action |-> a, confidence |-> c]
Advised(e, classes) ==
  CASE "scan" \in classes -> Advice("deny", 95)
    [] "scan" \notin classes /\ "repeated" \in classes -> Advice("deny", 85)
    [] "lan" \in classes /\ {"scan", "repeated"} \cap classes = {} ->
         IF Scoped(e) /\ e.blocked THEN Advice("allow", 65) ELSE Advice("edit", 58)
    [] OTHER -> IF e.blocked THEN Advice("deny", 50) ELSE Advice("edit", 48)

\* The first enabled intent whose conditions hold decides.
Matches(i, e) ==
  /\ i.on
  /\ i.proto \in {"any", e.proto} /\ i.port \in {0, e.port} /\ i.iface \in {All, e.iface}
  /\ i.sources # {} => e.src \in i.sources
Resolved(e, intents) ==
  LET q == SelectSeq(intents, LAMBDA i : Matches(i, e))
  IN  IF q = <<>> THEN {}
      ELSE {IF q[1].lan /\ e.src # "lan" THEN Advice("deny", 98) ELSE Advice(q[1].action, 92)}

\* A suggestion's name is a digest of the event, but for its interface, and of what was
\* advised before an intent decided; so is that of its rule.
Suggestion(e, classes, decided) ==
  LET own == Advised(e, classes)
      d == IF decided = {} THEN own ELSE CHOOSE x \in decided : TRUE
  IN  [id |-> <<"ai", [e EXCEPT !.iface = All], own.action>>, action |-> d.action,
       confidence |-> d.confidence, event |-> e, applied |-> FALSE, rejected |-> FALSE]

Worth(e, classes, decided) ==
  decided # {} \/ e.blocked \/ classes \cap {"scan", "repeated", "new"} # {}

\* A rule is made for an action of two; the others ask for a rule to change, and no
\* suggestion names one.
RuleOf(s) == If(s.action \in {"allow", "deny"},
                {[id |-> s.id, iface |-> s.event.iface, action |-> s.action,
                  port |-> s.event.port, from |-> s.event.src, six |-> FALSE]})

Of(entry, i) == i = All \/ entry.rule.iface = i

\* What the engine may do by itself.  The log is counted, without what was undone; every
\* entry of a behaviour is of the last hour.
CanAutoApply(s, matched, limits) ==
  LET e == s.event
      own == {n \in DOMAIN mem.log : mem.log[n].auto /\ Of(mem.log[n], e.iface)}
  IN  /\ s.confidence >= limits.threshold
      /\ limits.intent => matched
      /\ limits.proto => e.proto # "any"
      /\ limits.port /\ e.proto \in {"tcp", "udp"} => e.port # 0
      /\ s.action = "edit" => limits.edits
      /\ limits.management =>
           e.iface \notin Appliance.management /\ e.port \notin Appliance.ports
      /\ limits.hourly > 0 => Cardinality(own) < limits.hourly

-----------------------------------------------------------------------------
\* Writing a file: the field f of the memory, or a failure.
Written(f) == disk' = [disk EXCEPT ![f] = mem'[f]] /\ UNCHANGED left
Unwritten == UNCHANGED disk /\ Spend("faults")
Persist(f) == Written(f) \/ Unwritten

To(p, step) == job' = [job EXCEPT ![p] = step]
\* A request takes a place that is free.
Begin(p) ==
  /\ p \in Client /\ job[p].pc = "idle"
  /\ p = CHOOSE q \in Client : job[q].pc = "idle"
  /\ Spend("requests")

\* A field is changed in memory first, then in its file.
Set(f, v) ==
  /\ Spend("edits")
  /\ mem' = [mem EXCEPT ![f] = v]
  /\ \/ disk' = [disk EXCEPT ![f] = v]
     \/ disk' = disk /\ left.faults > 0
  /\ UNCHANGED <<recent, rules, strict, job, past>>

\* The task takes the next event: a suggestion is kept, and perhaps applied.
Observe == \E e \in Traffic :
  /\ left.time > 0 /\ job[Reader].pc = "idle"
  /\ recent' = LET q == Append(recent, e) IN IF Len(q) > Window THEN Tail(q) ELSE q
  /\ LET classes == Classes(e, recent')
         decided == Resolved(e, mem.intents)
         s == Suggestion(e, classes, decided)
     IN  IF ~Worth(e, classes, decided)
         THEN UNCHANGED <<mem, disk, job>> /\ Spend("time")
         ELSE /\ mem' = [mem EXCEPT !.suggestions = Append(@, s)]
              /\ \/ /\ disk' = [disk EXCEPT !.suggestions = mem'.suggestions] /\ Spend("time")
                    /\ IF /\ For(mem.mode, e.iface) = "control"
                          /\ CanAutoApply(s, decided # {}, For(mem.settings, e.iface))
                       THEN To(Reader, [pc |-> "apply", of |-> s.id, auto |-> TRUE])
                       ELSE UNCHANGED job
                 \/ UNCHANGED <<disk, job>> /\ Spend("faults")
  /\ UNCHANGED <<rules, strict, past>>

-----------------------------------------------------------------------------
\* A suggestion is applied, whatever was decided on it before, or rejected.
\* The first suggestion of that name, or 0.
Named(k) == SelectInSeq(mem.suggestions, LAMBDA s : s.id = k)
Marked(k, mark) == [mem.suggestions EXCEPT ![Named(k)][mark] = TRUE]

ApplySuggestion(p) == \E s \in Range(mem.suggestions) :
  /\ Begin(p)
  /\ To(p, [pc |-> "apply", of |-> s.id, auto |-> FALSE])
  /\ UNCHANGED <<mem, disk, recent, rules, strict, past>>

RejectSuggestion == \E s \in Range(mem.suggestions) :
  Set("suggestions", Marked(s.id, "rejected"))

\* Findings about the rules are listed with the suggestions, in two of the modes, and not
\* kept: one that is rejected leaves a suggestion that can never become a rule.
Audits(i) ==
  LET seen == {r \in rules : i \in {All, r.iface}}
      intents == {x \in Range(mem.intents) : x.lan /\ i \in {All, x.iface}}
      scoped(x) == \E r \in seen :
        r.action = "allow" /\ x.port \in {0, r.port} /\ r.from = "lan"
  IN  If(\E r \in seen : r.six, {"restrict"})
      \union If(\E r \in seen : r.action = "allow" /\ r.port = 0, {"tighten"})
      \union If(\E x \in intents : ~scoped(x), {"scope"})

RejectAudit == \E i \in Asked :
  /\ For(mem.mode, i) # "monitor"
  /\ \E a \in Audits(i) :
       /\ Named(<<"audit", a, All>>) = 0
       /\ Set("suggestions",
              Append(mem.suggestions, [id |-> <<"audit", a, All>>, action |-> "edit",
                                       applied |-> FALSE, rejected |-> TRUE]))

\* Under the lock of the rules: what cannot be saved, or nft refuses, changes nothing; but
\* nobody looks whether the old rules are saved again, and where they are not the refused
\* ones stay on disk.
ApplyRule(p) ==
  /\ job[p].pc = "apply"
  /\ LET made == RuleOf(mem.suggestions[Named(job[p].of)])
         next(r) == [pc |-> "log", entry |-> [rule |-> r, auto |-> job[p].auto]]
     IN  \/ /\ made # {} /\ UNCHANGED <<left, past>>
            /\ rules' = rules \union made
            /\ To(p, next(CHOOSE r \in made : TRUE))
         \/ made = {} /\ UNCHANGED <<left, rules, past>> /\ To(p, Resting)
         \/ /\ made # {} /\ Spend("faults") /\ To(p, Resting)
            /\ \/ UNCHANGED <<rules, past>>
               \/ rules' = rules \union made /\ past' = past \union {"stuck"}
  /\ UNCHANGED <<mem, disk, recent, strict>>

\* The entry is in memory before its line is added to the file.
ApplyLog(p) ==
  /\ job[p].pc = "log"
  /\ mem' = [mem EXCEPT !.log = Append(@, job[p].entry)]
  /\ \/ /\ disk' = [disk EXCEPT !.log = Append(@, job[p].entry)] /\ UNCHANGED left
        /\ To(p, [pc |-> "mark", of |-> job[p].entry.rule.id])
     \/ Unwritten /\ To(p, Resting)
  /\ UNCHANGED <<recent, rules, strict, past>>

ApplyMark(p) ==
  /\ job[p].pc = "mark"
  /\ mem' = [mem EXCEPT !.suggestions = Marked(job[p].of, "applied")]
  /\ Persist("suggestions") /\ To(p, Resting)
  /\ UNCHANGED <<recent, rules, strict, past>>

-----------------------------------------------------------------------------
\* The last action is undone: its rule first, then its entry.
Undoing(p) == job[p].pc \in {"undo", "unlog"}

UndoLastAction(p) == \E i \in Asked :
  /\ Begin(p)
  /\ LET n == SelectLastInSeq(mem.log, LAMBDA x : Of(x, i))
     IN  n # 0 /\ To(p, [pc |-> "undo", entry |-> mem.log[n]])
  /\ past' = past \union If(\E q \in Client : Undoing(q), {"met"})
  /\ UNCHANGED <<mem, disk, recent, rules, strict>>

\* A mistake to be found: the entry is removed also when nft refuses the rules.
UndoRuleAnyway(p) ==
  /\ job[p].pc = "undo"
  /\ \/ rules' = {r \in rules : r.id # job[p].entry.rule.id} /\ UNCHANGED left
     \/ UNCHANGED rules /\ Spend("faults")
  /\ To(p, [job[p] EXCEPT !.pc = "unlog"])
  /\ UNCHANGED <<mem, disk, recent, strict, past>>

UndoRule(p) ==
  /\ job[p].pc = "undo"
  /\ \/ /\ rules' = {r \in rules : r.id # job[p].entry.rule.id} /\ UNCHANGED left
        /\ To(p, [job[p] EXCEPT !.pc = "unlog"])
     \/ /\ rules' \in {rules, {r \in rules : r.id # job[p].entry.rule.id}}
        /\ Spend("faults") /\ To(p, Resting)
  /\ UNCHANGED <<mem, disk, recent, strict, past>>

UndoLog(p) ==
  /\ job[p].pc = "unlog"
  /\ LET n == SelectLastInSeq(mem.log, LAMBDA x : x.rule.id = job[p].entry.rule.id)
     IN  mem' = [mem EXCEPT !.log = IF n = 0 THEN @ ELSE RemoveAt(@, n)]
  /\ Persist("log") /\ To(p, Resting)
  /\ UNCHANGED <<recent, rules, strict, past>>

-----------------------------------------------------------------------------
SetMode == \E i \in Asked, m \in Mode : Set("mode", [mem.mode EXCEPT ![i] = {m}])
SetAutomationSettings == \E i \in Asked, l \in Limits :
  Set("settings", [mem.settings EXCEPT ![i] = {l}])

\* Intents for one interface replace those of it.
SetIntents == \E i \in Asked, q \in IntentLists :
  Set("intents",
      IF i = All THEN q
      ELSE SelectSeq(mem.intents, LAMBDA x : x.iface # i)
           \o [n \in DOMAIN q |-> [q[n] EXCEPT !.iface = i]])

-----------------------------------------------------------------------------
\* The zero-trust bootstrap, for an interface or for all.
Hardened(l) ==
  [l EXCEPT !.threshold = IF @ < 90 THEN 90 ELSE @, !.intent = TRUE, !.proto = TRUE,
            !.port = TRUE, !.hourly = IF @ \in 1..3 THEN @ ELSE 3, !.edits = FALSE,
            !.management = TRUE]

\* Where a service is let in: a public one everywhere, a private one on the interfaces it
\* is configured to listen on, or else on those of the LAN.
Lan(i) == IF i # All THEN {i} ELSE IF Appliance.lan = {} THEN {All} ELSE Appliance.lan

\* A mistake to be found: without interfaces of its own, a service is let in nowhere.
WhereListed(s, i) == IF i = All \/ s.listen = {} THEN s.listen ELSE s.listen \cap {i}

Where(s, i) ==
  CASE ~s.private /\ s.listen = {} -> {i}
    [] s.private /\ s.listen = {} -> Lan(i)
    [] OTHER -> IF i = All THEN s.listen ELSE s.listen \cap {i}

Families(s) == IF s.six THEN {TRUE} ELSE {FALSE} \union If(s.private /\ Appliance.six, {TRUE})
Baseline(i) ==
  UNION {{[id |-> <<"service", s.name, <<x, v>>>>, iface |-> x, action |-> "allow",
           port |-> s.port, from |-> IF s.private THEN "lan" ELSE "any", six |-> v] :
             x \in Where(s, i), v \in Families(s)} :
         s \in {t \in Appliance.services : t.six => Appliance.six}}

Bootstrapping(p) == job[p].pc \in {"harden", "load", "save", "publish"}

\* The mode is set if that is asked, the limits are always hardened, and the
\* configuration is changed if it is to be strict, or to let services in.
Bootstrap(p) == \E i \in Asked, b \in Bootstraps :
  /\ Begin(p)
  /\ past' = past \union If(\E q \in Client : Bootstrapping(q), {"met"})
  /\ LET begun == To(p, [pc |-> "harden", for |-> i, with |-> b.with])
     IN  \/ ~b.mode /\ UNCHANGED <<mem, disk>> /\ begun
         \/ /\ b.mode /\ mem' = [mem EXCEPT !.mode[i] = {"suggest"}]
            /\ \/ disk' = [disk EXCEPT !.mode = mem'.mode] /\ begun
               \/ UNCHANGED <<disk, job>> /\ left.faults > 0
  /\ UNCHANGED <<recent, rules, strict>>

BootstrapLimits(p) ==
  /\ job[p].pc = "harden"
  /\ LET i == job[p].for
     IN  /\ mem' = [mem EXCEPT !.settings[i] = {Hardened(For(mem.settings, i))}]
         /\ \/ /\ Written("settings")
               /\ To(p, IF job[p].with = {} THEN Resting ELSE [job[p] EXCEPT !.pc = "load"])
            \/ Unwritten /\ To(p, Resting)
  /\ UNCHANGED <<recent, rules, strict, past>>

\* The configuration is loaded, changed and saved as a whole, and put back as it was
\* loaded when nft refuses it, if that can be saved; the rules are not locked meanwhile.
BootstrapLoad(p) ==
  /\ job[p].pc = "load"
  /\ To(p, [pc |-> "save", for |-> job[p].for, with |-> job[p].with,
            rules |-> rules, strict |-> strict, new |-> {}])
  /\ UNCHANGED <<left, mem, disk, recent, rules, strict, past>>

BootstrapSave(p) ==
  /\ job[p].pc = "save"
  /\ LET new == If("services" \in job[p].with, Baseline(job[p].for))
     IN  \/ /\ rules' = {r \in job[p].rules : \A b \in new : b.id # r.id} \union new
            /\ strict' = (job[p].strict \/ "strict" \in job[p].with)
            /\ To(p, [job[p] EXCEPT !.pc = "publish", !.new = rules'])
            /\ past' = past \union If(rules # job[p].rules, {"clobbered"})
            /\ UNCHANGED left
         \/ UNCHANGED <<rules, strict, past>> /\ Spend("faults") /\ To(p, Resting)
  /\ UNCHANGED <<mem, disk, recent>>

BootstrapPublish(p) ==
  /\ job[p].pc = "publish"
  /\ \/ UNCHANGED <<rules, strict, left, past>>
     \/ UNCHANGED <<rules, strict, past>> /\ Spend("faults")
     \/ /\ rules' = job[p].rules /\ strict' = job[p].strict /\ Spend("faults")
        /\ past' = past \union If(rules # job[p].new, {"clobbered"})
  /\ To(p, Resting)
  /\ UNCHANGED <<mem, disk, recent>>

-----------------------------------------------------------------------------
\* The daemon stops wherever it is, and reads its files when it starts again.
PolicyRestart ==
  /\ Spend("restarts")
  /\ mem' = disk /\ recent' = <<>> /\ job' = [p \in Worker |-> Resting]
  /\ past' = past \union If(\/ \E p \in Worker : job[p].pc = "log"
                            \/ ~(Range(mem.log) \subseteq Range(disk.log)), {"cut"})
  /\ UNCHANGED <<disk, rules, strict>>

Alone(v) == [i \in Scope |-> IF i = All THEN {v} ELSE {}]
PolicyInit ==
  /\ \E f \in IF part = "policy" THEN Saved ELSE {CHOOSE x \in Saved : TRUE} :
       mem = [suggestions |-> <<>>, log |-> <<>>, intents |-> f.intents, mode |-> Alone(f.mode),
              settings |-> Alone(f.settings)]
  /\ disk = mem /\ recent = <<>> /\ rules = {} /\ strict = FALSE
  /\ job = [p \in Worker |-> Resting]

PolicyNext ==
  \/ Observe \/ PolicyRestart
  \/ RejectSuggestion \/ RejectAudit \/ SetMode \/ SetAutomationSettings \/ SetIntents
  \/ \E p \in Worker :
       \/ ApplySuggestion(p) \/ ApplyRule(p) \/ ApplyLog(p) \/ ApplyMark(p)
       \/ UndoLastAction(p) \/ UndoRule(p) \/ UndoLog(p)
       \/ Bootstrap(p) \/ BootstrapLimits(p) \/ BootstrapLoad(p) \/ BootstrapSave(p)
       \/ BootstrapPublish(p)

-----------------------------------------------------------------------------
\* Every rule that the engine has added, by itself or for a request, is in the log of
\* actions, and so can be undone, whatever failed: unless two requests to undo meet, or
\* the daemon stops before the entry is on disk, or a bootstrap puts back older rules, or
\* the old rules cannot be saved again after nft has refused the new
\* (ai_firewall/engine.rs:747).
Undoable ==
  past = {} => \A r \in rules :
    \/ r.id[1] = "service"
    \/ \E n \in DOMAIN mem.log : mem.log[n].rule.id = r.id
    \/ \E p \in Worker : job[p].pc = "log" /\ job[p].entry.rule.id = r.id

\* A bootstrap of all interfaces with their services that is answered without an error has
\* left every service that is on reachable from the interfaces it serves.
Serves(s) ==
  CASE s.listen # {} -> s.listen
    [] s.listen = {} -> IF s.private /\ Appliance.lan # {} THEN Appliance.lan ELSE Iface
ServicesAdmitted ==
  [][past' = {} =>
     \A p \in Client :
       job[p].pc = "publish" /\ job[p].for = All /\ job'[p] = Resting /\ left' = left
       /\ "services" \in job[p].with =>
         \A s \in Appliance.services, i \in Iface :
           i \in Serves(s) /\ (s.six => Appliance.six) =>
             \E r \in rules' : r.id[1] = "service" /\ r.id[2] = s.name /\ r.iface \in {i, All}]_policyVars
=============================================================================
