---------------------------- MODULE RulesetPublish ----------------------------
(***************************************************************************)
(* How DayShield gets a firewall ruleset into the kernel.  Handlers and    *)
(* background tasks save a section of the configuration, then read all of  *)
(* it back, wait for the URL-table aliases to be fetched and hand nft a    *)
(* complete ruleset that replaces whatever was loaded.  The AI engine adds *)
(* its temporary blocks through a second path of the same shape.           *)
(*                                                                         *)
(* A process is one task of the daemon.  The store takes no lock, so the   *)
(* load and the write of a save are two steps, and so are the reading of   *)
(* the inputs and the `nft -f` of a publication; only the changes of the   *)
(* rule list hold the firewall_rules lock.  The captive portal's sessions, *)
(* which the same ruleset carries, are left out.                           *)
(***************************************************************************)
EXTENDS Integers, FiniteSets

CONSTANTS
  Rule,      \* firewall rules
  Rejected,  \* rules nft refuses to load
  Setting,   \* values of the global firewall settings
  Default,   \* the setting a fresh configuration has
  Hardened,  \* the setting the zero-trust bootstrap writes
  Alias,     \* firewall aliases
  IP,        \* addresses the AI engine may block
  Proc,      \* tasks of the daemon
  Nobody,    \* holder of a free lock
  Ops,       \* the operations tasks run: see Operation
  Events     \* faults: nft or a config write fails, the daemon stops

Operation == {"save_rules", "ai_rules", "settings", "nat", "aliases", "bootstrap",
              "list", "block", "unblock", "expire"}
Fault == {"nft", "disk", "restart"}

ASSUME ConstantsAssumption ==
  /\ Rejected \subseteq Rule
  /\ Default \in Setting /\ Hardened \in Setting
  /\ Nobody \notin Proc
  /\ Ops \subseteq Operation /\ Events \subseteq Fault

VARIABLES
  cfg,      \* the persisted configuration
  cache,    \* AppState.firewall_rules
  lock,     \* who holds its write lock
  blocks,   \* active_blocks of the AI engine
  lapsed,   \* those of them whose expires_at has passed
  kernel,   \* the ruleset in force
  ps,       \* ps[p]: what task p is doing
  up,       \* startup is over: handlers and background tasks run
  acked,    \* history: the rules all acknowledged changes add up to
  source,   \* history: who published the ruleset in force
  unsure    \* history: what may differ since the daemon started because two
            \*   operations overlapped without the lock or one could not be
            \*   taken back

aiVars == <<blocks, lapsed>>
history == <<acked, source, unsure>>
vars == <<cfg, cache, lock, blocks, lapsed, kernel, ps, up, history>>

-----------------------------------------------------------------------------
NatMode == {"unset", "automatic", "manual"}
Config == [rules : SUBSET Rule, settings : Setting, nat : NatMode, aliases : SUBSET Alias]

\* No ruleset at all, as after a reboot of the machine, is one value more.
Ruleset == [rules : SUBSET Rule, settings : Setting \union {"none"},
            nat : {"none", "masquerade", "manual"}, aliases : SUBSET Alias,
            blocked : SUBSET IP]
Flushed == [rules |-> {}, settings |-> "none", nat |-> "none", aliases |-> {},
            blocked |-> {}]

\* Automatic outbound NAT without a list of WAN interfaces, and no NAT
\* configuration, masquerade on the WAN interfaces the code derives.
EffectiveNat(m) == IF m = "manual" THEN "manual" ELSE "masquerade"

\* The AI engine hands over the stored NAT configuration: automatic mode with
\* an empty list generates no NAT table.
StoredNat(m) == IF m = "manual" THEN "manual" ELSE "none"

Generate(c, nat, blocked) ==
  [rules |-> c.rules, settings |-> c.settings, nat |-> nat, aliases |-> c.aliases,
   blocked |-> blocked]
Current == Generate(cfg, EffectiveNat(cfg.nat), {})
Accepts(rs) == rs.rules \cap Rejected = {}

Fresh == [rules |-> {}, settings |-> Default, nat |-> "unset", aliases |-> {}]

SectionOf(op) == CASE op \in {"save_rules", "ai_rules"} -> "rules"
                   [] op \in {"settings", "bootstrap"} -> "settings"
                   [] op = "nat" -> "nat"
                   [] OTHER -> "aliases"

\* c with the section that op saves taken from d.
Replace(c, op, d) ==
  CASE SectionOf(op) = "rules" -> [c EXCEPT !.rules = d.rules]
    [] SectionOf(op) = "settings" -> [c EXCEPT !.settings = d.settings]
    [] SectionOf(op) = "nat" -> [c EXCEPT !.nat = d.nat]
    [] OTHER -> [c EXCEPT !.aliases = d.aliases]

\* The operations that hold the firewall_rules lock: an edit through the API,
\* and one that the AI policy engine applies or undoes.
RuleOps == {"save_rules", "ai_rules"}

\* The handlers that leave a section as saved when nft refuses the ruleset.
Unrestored == {"aliases"}

\* The handlers that publish again after they have restored a section.
Republish == {"save_rules", "settings"}

\* A request creates, deletes or edits one rule.
OneEdit(old, new) ==
  /\ new # old
  /\ Cardinality(new \ old) <= 1 /\ Cardinality(old \ new) <= 1

Label == {"idle", "lock", "capture", "load", "write", "cache", "read", "land",
          "undo", "rewrite", "recache", "reread", "reland", "sync",
          "gather", "blocks", "publish"}
Idle == [pc |-> "idle", op |-> "list", old |-> Fresh, new |-> Fresh, snap |-> Fresh,
         rs |-> Flushed]
Task == [pc : Label, op : Operation, old : Config, new : Config, snap : Config,
         rs : Ruleset]

TypeOK ==
  /\ cfg \in Config /\ cache \in SUBSET Rule
  /\ lock \in Proc \union {Nobody}
  /\ blocks \in SUBSET IP /\ lapsed \in SUBSET blocks
  /\ kernel \in Ruleset
  /\ ps \in [Proc -> Task]
  /\ up \in BOOLEAN
  /\ acked \in SUBSET Rule
  /\ source \in {"config", "ai"} /\ unsure \in SUBSET {"config", "cache", "blocks"}

Init ==
  /\ cfg = Fresh /\ cache = {} /\ lock = Nobody
  /\ blocks = {} /\ lapsed = {}
  /\ kernel = Flushed
  /\ ps = [p \in Proc |-> Idle]
  /\ up = FALSE
  /\ acked = {} /\ source = "config" /\ unsure = {}

-----------------------------------------------------------------------------
(* Steps.  A label names the step about to run. *)

At(p, l) == up /\ ps[p].pc = l
Op(p) == ps[p].op
Set(p, r) == ps' = [ps EXCEPT ![p] = r]
Goto(p, l) == Set(p, [ps[p] EXCEPT !.pc = l])

\* The operation returns: its guard releases the lock.
Finish(p) == Set(p, Idle) /\ lock' = IF lock = p THEN Nobody ELSE lock

\* Two changes of the rule list are kept apart by the lock, others are not.
Overlaps(p, op) ==
  \E q \in Proc \ {p} : ps[q].pc # "idle" /\ ~({op, ps[q].op} \subseteq RuleOps)
Start(p, op, l) ==
  /\ Set(p, [Idle EXCEPT !.pc = l, !.op = op])
  /\ unsure' = IF Overlaps(p, op) THEN {"config", "cache", "blocks"} ELSE unsure
  /\ UNCHANGED <<acked, source>>

Begin(p) ==
  /\ At(p, "idle")
  /\ \/ \E op \in Ops \cap RuleOps : Start(p, op, "lock")
     \/ \E op \in Ops \cap {"settings", "nat", "aliases", "bootstrap"} : Start(p, op, "capture")
  /\ UNCHANGED <<cfg, cache, lock, aiVars, kernel, up>>

\* Mutant of Acquire: the rule list is changed without the lock.
AcquireNoWait(p) ==
  /\ At(p, "lock") /\ lock' = p
  /\ Goto(p, "capture")
  /\ UNCHANGED <<cfg, cache, aiVars, kernel, up, history>>

Acquire(p) ==
  /\ At(p, "lock") /\ lock = Nobody /\ lock' = p
  /\ Goto(p, "capture")
  /\ UNCHANGED <<cfg, cache, aiVars, kernel, up, history>>

\* The value to fall back to is read, and the request decides the new one:
\* a change of the rule list, or settings, NAT or aliases to store.
Capture(p) ==
  /\ At(p, "capture")
  /\ \E new \in Config :
       /\ new = Replace(cfg, Op(p), new)
       /\ Op(p) \in RuleOps => OneEdit(cfg.rules, new.rules)
       /\ Op(p) = "bootstrap" => new.settings = Hardened
       /\ Op(p) = "nat" => new.nat # "unset"
       /\ Set(p, IF Op(p) = "bootstrap"
                 THEN [ps[p] EXCEPT !.pc = "write", !.old = cfg, !.new = new, !.snap = cfg]
                 ELSE [ps[p] EXCEPT !.pc = "load", !.old = Replace(Fresh, Op(p), cfg),
                                    !.new = Replace(Fresh, Op(p), new)])
  /\ UNCHANGED <<cfg, cache, lock, aiVars, kernel, up, history>>

SaveLoad(p) ==
  /\ At(p, "load")
  /\ Set(p, [ps[p] EXCEPT !.pc = "write", !.snap = cfg])
  /\ UNCHANGED <<cfg, cache, lock, aiVars, kernel, up, history>>

\* The whole configuration that was loaded is written with one section new.
SaveWrite(p) ==
  /\ At(p, "write")
  /\ cfg' = Replace(ps[p].snap, Op(p), ps[p].new)
  /\ cache' = IF Op(p) \in RuleOps THEN ps[p].new.rules ELSE cache
  /\ Goto(p, IF Op(p) = "bootstrap" THEN "cache" ELSE "read")
  /\ UNCHANGED <<lock, aiVars, kernel, up, history>>

SaveFails(p) ==
  /\ At(p, "write") /\ "disk" \in Events
  /\ Finish(p)
  /\ UNCHANGED <<cfg, cache, aiVars, kernel, up, history>>

\* The bootstrap takes the lock only to refresh the cache.
BootstrapCache(p) ==
  /\ lock = Nobody
  /\ \/ /\ At(p, "cache") /\ cache' = ps[p].new.rules /\ Goto(p, "read")
     \/ /\ At(p, "recache") /\ cache' = ps[p].old.rules /\ Set(p, Idle)
  /\ UNCHANGED <<cfg, lock, aiVars, kernel, up, history>>

\* apply_current_ruleset_nft up to the wait for the URL tables.
ApplyRead(p) ==
  /\ \/ At(p, "read") /\ Set(p, [ps[p] EXCEPT !.pc = "land", !.rs = Current])
     \/ At(p, "reread") /\ Set(p, [ps[p] EXCEPT !.pc = "reland", !.rs = Current])
  /\ UNCHANGED <<cfg, cache, lock, aiVars, kernel, up, history>>

\* nft -f replaces the ruleset and the request is acknowledged.
Land(p) ==
  /\ At(p, "land") /\ Accepts(ps[p].rs)
  /\ kernel' = ps[p].rs
  /\ acked' = IF Op(p) \in RuleOps
              THEN (acked \union ps[p].new.rules) \ (ps[p].old.rules \ ps[p].new.rules)
              ELSE acked
  /\ source' = "config"
  /\ Finish(p)
  /\ UNCHANGED <<cfg, cache, aiVars, up, unsure>>

NftFails(rs) == ~Accepts(rs) \/ "nft" \in Events

\* nft -f fails and changes nothing: the saved section is restored, except
\* that aliases stay as saved.
LandFails(p) ==
  /\ At(p, "land") /\ NftFails(ps[p].rs)
  /\ CASE Op(p) \in Unrestored -> Finish(p)
       [] Op(p) = "bootstrap" -> Goto(p, "rewrite") /\ UNCHANGED lock
       [] OTHER -> Goto(p, "undo") /\ UNCHANGED lock
  /\ UNCHANGED <<cfg, cache, aiVars, kernel, up, history>>

UndoLoad(p) ==
  /\ At(p, "undo")
  /\ Set(p, [ps[p] EXCEPT !.pc = "rewrite", !.snap = cfg])
  /\ UNCHANGED <<cfg, cache, lock, aiVars, kernel, up, history>>

AfterUndo(p) ==
  CASE Op(p) \in Republish -> Goto(p, "reread") /\ UNCHANGED lock
    [] Op(p) = "bootstrap" -> Goto(p, "recache") /\ UNCHANGED lock
    [] OTHER -> Finish(p)

\* Mutant of UndoWrite: the old value is put back by a function that takes the lock
\* itself, which a change of the rule list still holds.
UndoWriteLocks(p) ==
  /\ At(p, "rewrite") /\ lock = Nobody
  /\ cfg' = IF Op(p) = "bootstrap" THEN ps[p].old ELSE Replace(ps[p].snap, Op(p), ps[p].old)
  /\ cache' = IF Op(p) \in RuleOps THEN ps[p].old.rules ELSE cache
  /\ AfterUndo(p)
  /\ UNCHANGED <<aiVars, kernel, up, history>>

\* The bootstrap writes back the whole configuration it had loaded.
UndoWrite(p) ==
  /\ At(p, "rewrite")
  /\ cfg' = IF Op(p) = "bootstrap" THEN ps[p].old ELSE Replace(ps[p].snap, Op(p), ps[p].old)
  /\ cache' = IF Op(p) \in RuleOps THEN ps[p].old.rules ELSE cache
  /\ AfterUndo(p)
  /\ UNCHANGED <<aiVars, kernel, up, history>>

\* The AI policy engine and the bootstrap ignore a failed restore.
UndoFails(p) ==
  /\ At(p, "rewrite") /\ "disk" \in Events
  /\ cache' = IF Op(p) = "ai_rules" THEN ps[p].old.rules ELSE cache
  /\ IF Op(p) = "bootstrap" THEN Goto(p, "recache") /\ UNCHANGED lock ELSE Finish(p)
  /\ unsure' = unsure \union {"config", "cache"}
  /\ UNCHANGED <<cfg, aiVars, kernel, up, acked, source>>

\* The restored configuration is published; a second failure is logged.
Reland(p) ==
  /\ At(p, "reland")
  /\ \/ Accepts(ps[p].rs) /\ kernel' = ps[p].rs /\ source' = "config"
     \/ NftFails(ps[p].rs) /\ UNCHANGED <<kernel, source>>
  /\ Finish(p)
  /\ UNCHANGED <<cfg, cache, aiVars, up, acked, unsure>>

\* Listing the rules refreshes the cache from what was loaded before the lock.
ListLoad(p) ==
  /\ At(p, "idle") /\ "list" \in Ops
  /\ Set(p, [Idle EXCEPT !.pc = "sync", !.snap = Replace(Fresh, "save_rules", cfg)])
  /\ unsure' = IF Overlaps(p, "list") THEN unsure \union {"cache"} ELSE unsure
  /\ UNCHANGED <<cfg, cache, lock, aiVars, kernel, up, acked, source>>

ListSync(p) ==
  /\ At(p, "sync") /\ lock = Nobody
  /\ cache' = ps[p].snap.rules
  /\ Set(p, Idle)
  /\ UNCHANGED <<cfg, lock, aiVars, kernel, up, history>>

-----------------------------------------------------------------------------
(* The AI engine.  Its map of blocks has a lock of its own, held only for   *)
(* the change or the read of the map.                                      *)

Lapse(ip) ==
  /\ ip \in blocks \ lapsed
  /\ lapsed' = lapsed \union {ip}
  /\ UNCHANGED <<cfg, cache, lock, blocks, kernel, ps, up, history>>

Block(p, ip) ==
  /\ At(p, "idle") /\ "block" \in Ops
  /\ blocks' = blocks \union {ip} /\ lapsed' = lapsed \ {ip}
  /\ Start(p, "block", "gather")
  /\ UNCHANGED <<cfg, cache, lock, kernel, up>>

\* Mutant of Unblock: the ruleset is left as it is.
UnblockSilent(p, ip) ==
  /\ At(p, "idle") /\ "unblock" \in Ops /\ ip \in blocks
  /\ blocks' = blocks \ {ip} /\ lapsed' = lapsed \ {ip}
  /\ UNCHANGED <<cfg, cache, lock, kernel, ps, up, history>>

Unblock(p, ip) ==
  /\ At(p, "idle") /\ "unblock" \in Ops /\ ip \in blocks
  /\ blocks' = blocks \ {ip} /\ lapsed' = lapsed \ {ip}
  /\ Start(p, "unblock", "gather")
  /\ UNCHANGED <<cfg, cache, lock, kernel, up>>

\* Mutant of Expire: only the map is cleaned.
ExpireSilent(p) ==
  /\ At(p, "idle") /\ "expire" \in Ops /\ lapsed # {}
  /\ blocks' = blocks \ lapsed /\ lapsed' = {}
  /\ UNCHANGED <<cfg, cache, lock, kernel, ps, up, history>>

\* The maintenance ticker; a tick that removes nothing publishes nothing.
Expire(p) ==
  /\ At(p, "idle") /\ "expire" \in Ops /\ lapsed # {}
  /\ blocks' = blocks \ lapsed /\ lapsed' = {}
  /\ Start(p, "expire", "gather")
  /\ UNCHANGED <<cfg, cache, lock, kernel, up>>

\* reconcile_block_rules: the configuration, then the blocks that have not
\* expired, then the same wait and the same nft -f.
ReconcileLoad(p) ==
  /\ At(p, "gather")
  /\ Set(p, [ps[p] EXCEPT !.pc = "blocks", !.snap = cfg])
  /\ UNCHANGED <<cfg, cache, lock, aiVars, kernel, up, history>>

ReconcileList(p) ==
  /\ At(p, "blocks")
  /\ Set(p, [ps[p] EXCEPT !.pc = "publish",
                          !.rs = Generate(ps[p].snap, StoredNat(ps[p].snap.nat),
                                          blocks \ lapsed)])
  /\ UNCHANGED <<cfg, cache, lock, aiVars, kernel, up, history>>

ReconcileLand(p) ==
  /\ At(p, "publish")
  /\ \/ Accepts(ps[p].rs) /\ kernel' = ps[p].rs /\ source' = "ai" /\ UNCHANGED unsure
     \/ /\ NftFails(ps[p].rs) /\ unsure' = unsure \union {"blocks"}
        /\ UNCHANGED <<kernel, source>>
  /\ Set(p, Idle)
  /\ UNCHANGED <<cfg, cache, lock, aiVars, up, acked>>

-----------------------------------------------------------------------------
(* The daemon stops, alone or with the machine, and starts. *)

Stop ==
  /\ up /\ "restart" \in Events
  /\ up' = FALSE
  /\ kernel' \in {kernel, Flushed}
  /\ ps' = [p \in Proc |-> Idle] /\ lock' = Nobody
  /\ UNCHANGED <<cfg, cache, aiVars, history>>

\* Mutant of Startup: the stored configuration is not published.
StartupSilent ==
  /\ ~up /\ up' = TRUE
  /\ cache' = cfg.rules
  /\ blocks' = {} /\ lapsed' = {}
  /\ unsure' = {}
  /\ UNCHANGED <<cfg, kernel, lock, ps, acked, source>>

\* The cache is loaded, the map of blocks is empty, and the configuration is
\* published before any handler runs; a failure is logged.
Startup ==
  /\ ~up /\ up' = TRUE
  /\ cache' = cfg.rules
  /\ blocks' = {} /\ lapsed' = {}
  /\ \/ Accepts(Current) /\ kernel' = Current /\ source' = "config" /\ unsure' = {}
     \/ /\ NftFails(Current) /\ unsure' = {"config", "blocks"}
        /\ UNCHANGED <<kernel, source>>
  /\ UNCHANGED <<cfg, lock, ps, acked>>

-----------------------------------------------------------------------------
\* The steps of an operation under way, and the first steps of one.
Save(p) == \/ Acquire(p) \/ Capture(p) \/ SaveLoad(p) \/ SaveWrite(p) \/ SaveFails(p)
           \/ BootstrapCache(p) \/ ApplyRead(p) \/ Land(p) \/ LandFails(p)
           \/ UndoLoad(p) \/ UndoWrite(p) \/ UndoFails(p) \/ Reland(p)
Reconcile(p) == ReconcileLoad(p) \/ ReconcileList(p) \/ ReconcileLand(p)
Work(p) == Save(p) \/ ListSync(p) \/ Reconcile(p)
Open(p) == \/ Begin(p) \/ ListLoad(p) \/ Expire(p)
           \/ \E ip \in IP : Block(p, ip) \/ Unblock(p, ip)

Next == \/ \E p \in Proc : Open(p) \/ Work(p)
        \/ \E ip \in IP : Lapse(ip)
        \/ Stop \/ Startup

Spec == Init /\ [][Next]_vars

\* Every task is scheduled and every wait inside an operation ends (the URL
\* fetch has a timeout, nft exits); the lock is handed out in order of
\* request; the ticker is a task of its own; systemd starts the daemon.
Waits(p) == Acquire(p) \/ BootstrapCache(p) \/ ListSync(p)
Fairness == /\ \A p \in Proc : WF_vars(Work(p)) /\ SF_vars(Waits(p)) /\ SF_vars(Expire(p))
            /\ WF_vars(Startup)
LiveSpec == Spec /\ Fairness

-----------------------------------------------------------------------------
(* Properties. *)

Quiet == up /\ \A p \in Proc : ps[p].pc = "idle"

\* With nothing under way the stored rule list is what the acknowledged
\* requests add up to: none is lost, and no refused one stays behind, for
\* with one that nft refuses no later request could publish anything.
AckedKept == Quiet => cfg.rules = acked /\ Accepts(cfg)

\* With nothing under way the kernel enforces the stored rules and settings,
\* if nft accepts them and has loaded any, and NAT too unless the AI engine
\* published last; the rule list in memory is the stored one.  A failed
\* request changes none of them.
Loaded == kernel # Flushed /\ Accepts(cfg) /\ "config" \notin unsure
KernelMatches ==
  Quiet =>
    /\ Loaded => kernel.rules = cfg.rules /\ kernel.settings = cfg.settings
    /\ Loaded /\ source = "config" => kernel.nat = EffectiveNat(cfg.nat)
    /\ "cache" \notin unsure => cache = cfg.rules

\* What the AI engine reports as blocked is blocked while its publication is
\* the last one, and the kernel blocks nothing it has forgotten.
BlocksPublished ==
  Quiet /\ "blocks" \notin unsure =>
    /\ source = "ai" => blocks \ lapsed \subseteq kernel.blocked
    /\ kernel.blocked \subseteq blocks

\* An address the AI engine reports as blocked is blocked.
BlocksEnforced == Quiet => blocks \ lapsed \subseteq kernel.blocked

\* A block that is lifted or expires leaves the kernel.
BlocksEnd ==
  \A ip \in IP :
    ip \notin blocks \ lapsed
      ~> ip \notin kernel.blocked \/ ip \in blocks \ lapsed \/ "blocks" \in unsure

\* Every operation returns: no task waits for the lock for ever.
OperationsEnd == \A p \in Proc : ps[p].pc # "idle" ~> ps[p].pc = "idle"

\* Changes of the rule list are atomic: see RuleCommit.
Commit == INSTANCE RuleCommit WITH enforced <- kernel.rules, acked <- acked
RulesCommitAtomically == Commit!Spec
=============================================================================
