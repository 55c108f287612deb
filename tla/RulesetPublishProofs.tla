------------------------ MODULE RulesetPublishProofs ------------------------
(* Theorems about RulesetPublish, for any rules, settings, aliases, addresses and tasks: *)
(* the kernel, the cache and the blocks agree with what is stored, no acknowledged      *)
(* change of the rule list is lost, and such changes implement RuleCommit.              *)
EXTENDS RulesetPublish, TLAPS

-----------------------------------------------------------------------------
(* Configurations.                                                         *)

LEMMA ReplaceLaws ==
  ASSUME NEW c \in Config, NEW d \in Config, NEW e \in Config, NEW op
  PROVE  /\ Replace(c, op, d) \in Config
         /\ Replace(c, op, c) = c
         /\ Replace(Replace(c, op, d), op, e) = Replace(c, op, e)
         /\ Replace(c, op, Replace(e, op, d)) = Replace(c, op, d)
         /\ Replace(c, op, d).rules = IF op \in RuleOps THEN d.rules ELSE c.rules
BY DEF Replace, SectionOf, Config, RuleOps

LEMMA ReplaceRules ==
  ASSUME NEW c \in Config, NEW d \in Config, NEW op \in RuleOps
  PROVE  Replace(c, op, d).rules = d.rules
BY DEF Replace, SectionOf, Config, RuleOps

LEMMA FreshType == Fresh \in Config
BY ConstantsAssumption DEF Fresh, Config, NatMode

LEMMA GenerateType ==
  ASSUME NEW c \in Config, NEW b \in SUBSET IP
  PROVE  /\ Generate(c, EffectiveNat(c.nat), b) \in Ruleset
         /\ Generate(c, StoredNat(c.nat), b) \in Ruleset
BY DEF Generate, EffectiveNat, StoredNat, Ruleset, Config

LEMMA IdleType == Idle \in Task /\ Flushed \in Ruleset
BY FreshType DEF Idle, Task, Label, Operation, Flushed, Ruleset

LEMMA Turn ==
  ASSUME ps \in [Proc -> Task], NEW p \in Proc, NEW r, Set(p, r)
  PROVE  ps'[p] = r /\ \A q \in Proc : q # p => ps'[q] = ps[q]
BY DEF Set

LEMMA Jump ==
  ASSUME ps \in [Proc -> Task], NEW p \in Proc, NEW l, Goto(p, l)
  PROVE  /\ ps'[p] = [ps[p] EXCEPT !.pc = l] /\ ps'[p].pc = l
         /\ ps'[p].op = ps[p].op /\ ps'[p].old = ps[p].old /\ ps'[p].new = ps[p].new
         /\ ps'[p].snap = ps[p].snap /\ ps'[p].rs = ps[p].rs
         /\ \A q \in Proc : q # p => ps'[q] = ps[q]
<1>1. ps[p] \in Task
  OBVIOUS
<1>2. Set(p, [ps[p] EXCEPT !.pc = l])
  BY DEF Goto
<1>3. QED
  BY <1>1, <1>2, Turn DEF Task

-----------------------------------------------------------------------------
(* Types.                                                                  *)

LEMMA TypeKept ==
  ASSUME TypeOK, Next
  PROVE  TypeOK'
<1> USE DEF TypeOK
<1>1. ASSUME NEW p \in Proc, NEW r \in Task, Set(p, r)
      PROVE  ps' \in [Proc -> Task]
  BY <1>1 DEF Set
<1>2. ASSUME NEW p \in Proc, NEW l \in Label, Goto(p, l)
      PROVE  ps' \in [Proc -> Task]
  BY <1>1, <1>2 DEF Goto, Task
<1>3. ASSUME NEW p \in Proc, Finish(p)
      PROVE  ps' \in [Proc -> Task] /\ lock' \in Proc \union {Nobody}
  BY <1>1, <1>3, IdleType DEF Finish
<1>4. ASSUME NEW p \in Proc, NEW op \in Operation, NEW l \in Label, Start(p, op, l)
      PROVE  ps' \in [Proc -> Task] /\ UNCHANGED <<acked, source>>
             /\ unsure' \in SUBSET {"config", "cache", "blocks"}
  <2>1. [Idle EXCEPT !.pc = l, !.op = op] \in Task
    BY IdleType DEF Task
  <2>2. QED
    BY <1>1, <1>4, <2>1 DEF Start
<1>5. Current \in Ruleset
  BY GenerateType DEF Current
<1>6. ASSUME NEW p \in Proc, Begin(p)
      PROVE  TypeOK'
  <2>1. PICK op \in Operation, l \in {"lock", "capture"} : Start(p, op, l)
    BY <1>6 DEF Begin, RuleOps, Operation
  <2>2. l \in Label
    BY <2>1 DEF Label
  <2>3. UNCHANGED <<cfg, cache, lock, aiVars, kernel, up>>
    BY <1>6 DEF Begin
  <2>4. QED
    BY <1>4, <2>1, <2>2, <2>3 DEF aiVars
<1>7. ASSUME NEW p \in Proc, Acquire(p)
      PROVE  TypeOK'
  BY <1>2, <1>7 DEF Acquire, aiVars, history, Label
<1>8. ASSUME NEW p \in Proc, Capture(p)
      PROVE  TypeOK'
  <2>1. PICK new \in Config :
          Set(p, IF Op(p) = "bootstrap"
                 THEN [ps[p] EXCEPT !.pc = "write", !.old = cfg, !.new = new, !.snap = cfg]
                 ELSE [ps[p] EXCEPT !.pc = "load", !.old = Replace(Fresh, Op(p), cfg),
                                    !.new = Replace(Fresh, Op(p), new)])
    BY <1>8 DEF Capture
  <2>2. Replace(Fresh, Op(p), cfg) \in Config /\ Replace(Fresh, Op(p), new) \in Config
    BY FreshType, ReplaceLaws
  <2>3. ps[p] \in Task /\ cfg \in Config /\ {"write", "load"} \subseteq Label
    BY DEF Label
  <2>4. [ps[p] EXCEPT !.pc = "write", !.old = cfg, !.new = new, !.snap = cfg] \in Task
    BY <2>3 DEF Task
  <2>5. \A c, d \in Config : [ps[p] EXCEPT !.pc = "load", !.old = c, !.new = d] \in Task
    BY <2>3 DEF Task
  <2>6. QED
    BY <1>1, <1>8, <2>1, <2>2, <2>4, <2>5 DEF Capture, aiVars, history
<1>9. ASSUME NEW p \in Proc, SaveLoad(p) \/ UndoLoad(p) \/ ReconcileLoad(p)
      PROVE  TypeOK'
  <2>1. PICK l \in {"write", "rewrite", "blocks"} :
          Set(p, [ps[p] EXCEPT !.pc = l, !.snap = cfg])
    BY <1>9 DEF SaveLoad, UndoLoad, ReconcileLoad
  <2>2. [ps[p] EXCEPT !.pc = l, !.snap = cfg] \in Task
    <3>1. ps[p] \in Task /\ cfg \in Config /\ l \in Label
      BY DEF Label
    <3>2. QED
      BY <3>1 DEF Task
  <2>3. QED
    BY <1>1, <1>9, <2>1, <2>2 DEF SaveLoad, UndoLoad, ReconcileLoad, aiVars, history
<1>10. ASSUME NEW p \in Proc, SaveWrite(p)
       PROVE  TypeOK'
  <2>1. Replace(ps[p].snap, Op(p), ps[p].new) \in Config /\ ps[p].new.rules \in SUBSET Rule
    BY ReplaceLaws DEF Task, Config
  <2>2. QED
    BY <1>2, <1>10, <2>1 DEF SaveWrite, aiVars, history, Label
<1>11. ASSUME NEW p \in Proc, SaveFails(p)
       PROVE  TypeOK'
  BY <1>3, <1>11 DEF SaveFails, aiVars, history
<1>12. ASSUME NEW p \in Proc, BootstrapCache(p)
       PROVE  TypeOK'
  <2>1. ps[p].new.rules \in SUBSET Rule /\ ps[p].old.rules \in SUBSET Rule
    BY DEF Task, Config
  <2>2. ps' \in [Proc -> Task]
    BY <1>1, <1>2, <1>12, IdleType DEF BootstrapCache, Label
  <2>3. QED
    BY <1>12, <2>1, <2>2 DEF BootstrapCache, aiVars, history
<1>13. ASSUME NEW p \in Proc, ApplyRead(p)
       PROVE  TypeOK'
  <2>1. PICK l \in {"land", "reland"} : Set(p, [ps[p] EXCEPT !.pc = l, !.rs = Current])
    BY <1>13 DEF ApplyRead
  <2>2. [ps[p] EXCEPT !.pc = l, !.rs = Current] \in Task
    <3>1. ps[p] \in Task /\ l \in Label
      BY DEF Label
    <3>2. QED
      BY <1>5, <3>1 DEF Task
  <2>3. QED
    BY <1>1, <1>13, <2>1, <2>2 DEF ApplyRead, aiVars, history
<1>14. ASSUME NEW p \in Proc
       PROVE  ps[p].rs \in Ruleset /\ ps[p].new \in Config /\ ps[p].old \in Config
  BY DEF Task
<1>15. ASSUME NEW p \in Proc, Land(p)
       PROVE  TypeOK'
  <2>1. acked' \in SUBSET Rule
    BY <1>14, <1>15 DEF Land, Config
  <2>2. QED
    BY <1>3, <1>14, <1>15, <2>1 DEF Land, aiVars
<1>16. ASSUME NEW p \in Proc, LandFails(p)
       PROVE  TypeOK'
  BY <1>2, <1>3, <1>16 DEF LandFails, aiVars, history, Label
<1>17. ASSUME NEW p \in Proc, AfterUndo(p)
       PROVE  ps' \in [Proc -> Task] /\ lock' \in Proc \union {Nobody}
  BY <1>2, <1>3, <1>17 DEF AfterUndo, Label
<1>18. ASSUME NEW p \in Proc, UndoWrite(p)
       PROVE  TypeOK'
  <2>1. /\ Replace(ps[p].snap, Op(p), ps[p].old) \in Config
        /\ ps[p].old \in Config /\ ps[p].old.rules \in SUBSET Rule
    BY ReplaceLaws DEF Task, Config
  <2>2. QED
    BY <1>17, <1>18, <2>1 DEF UndoWrite, aiVars, history
<1>19. ASSUME NEW p \in Proc, UndoFails(p)
       PROVE  TypeOK'
  <2>1. ps[p].old.rules \in SUBSET Rule
    BY <1>14 DEF Config
  <2>2. ps' \in [Proc -> Task] /\ lock' \in Proc \union {Nobody}
    BY <1>2, <1>3, <1>19 DEF UndoFails, Label
  <2>3. QED
    BY <1>19, <2>1, <2>2 DEF UndoFails, aiVars
<1>20. ASSUME NEW p \in Proc, Reland(p)
       PROVE  TypeOK'
  BY <1>3, <1>14, <1>20 DEF Reland, aiVars
<1>21. ASSUME NEW p \in Proc, ListLoad(p)
       PROVE  TypeOK'
  <2>1. Replace(Fresh, "save_rules", cfg) \in Config
    BY FreshType, ReplaceLaws
  <2>2. [Idle EXCEPT !.pc = "sync", !.snap = Replace(Fresh, "save_rules", cfg)] \in Task
    BY <2>1, IdleType DEF Task, Label
  <2>3. QED
    BY <1>1, <1>21, <2>2 DEF ListLoad, aiVars
<1>22. ASSUME NEW p \in Proc, ListSync(p)
       PROVE  TypeOK'
  <2>1. ps[p].snap.rules \in SUBSET Rule
    BY DEF Task, Config
  <2>2. QED
    BY <1>1, <1>22, <2>1, IdleType DEF ListSync, aiVars, history
<1>23. ASSUME NEW ip \in IP, Lapse(ip)
       PROVE  TypeOK'
  BY <1>23 DEF Lapse, history
<1>24. ASSUME NEW p \in Proc, Expire(p) \/ \E ip \in IP : Block(p, ip) \/ Unblock(p, ip)
       PROVE  TypeOK'
  <2>1. PICK op \in {"block", "unblock", "expire"} : Start(p, op, "gather")
    BY <1>24 DEF Block, Unblock, Expire
  <2>2. op \in Operation /\ "gather" \in Label
    BY DEF Operation, Label
  <2>3. blocks' \in SUBSET IP /\ lapsed' \in SUBSET blocks'
    BY <1>24 DEF Block, Unblock, Expire
  <2>4. UNCHANGED <<cfg, cache, lock, kernel, up>>
    BY <1>24 DEF Block, Unblock, Expire
  <2>5. /\ ps' \in [Proc -> Task] /\ UNCHANGED <<acked, source>>
        /\ unsure' \in SUBSET {"config", "cache", "blocks"}
    BY <1>4, <2>1, <2>2
  <2>6. QED
    BY <2>3, <2>4, <2>5
<1>25. ASSUME NEW p \in Proc, ReconcileList(p)
       PROVE  TypeOK'
  <2>1. Generate(ps[p].snap, StoredNat(ps[p].snap.nat), blocks \ lapsed) \in Ruleset
    BY GenerateType DEF Task
  <2>2. [ps[p] EXCEPT !.pc = "publish",
                      !.rs = Generate(ps[p].snap, StoredNat(ps[p].snap.nat),
                                      blocks \ lapsed)] \in Task
    <3>1. ps[p] \in Task /\ "publish" \in Label
      BY DEF Label
    <3>2. QED
      BY <2>1, <3>1 DEF Task
  <2>3. QED
    BY <1>1, <1>25, <2>2 DEF ReconcileList, aiVars, history
<1>26. ASSUME NEW p \in Proc, ReconcileLand(p)
       PROVE  TypeOK'
  BY <1>1, <1>14, <1>26, IdleType DEF ReconcileLand, aiVars
<1>27. ASSUME Stop
       PROVE  TypeOK'
  BY <1>27, IdleType DEF Stop, aiVars, history
<1>28. ASSUME Startup
       PROVE  TypeOK'
  <2>1. cfg.rules \in SUBSET Rule
    BY DEF Config
  <2>2. QED
    BY <1>5, <1>28, <2>1 DEF Startup
<1>29. QED
  BY <1>6, <1>7, <1>8, <1>9, <1>10, <1>11, <1>12, <1>13, <1>15, <1>16, <1>18, <1>19, <1>20,
     <1>21, <1>22, <1>23, <1>24, <1>25, <1>26, <1>27, <1>28
     DEF Next, Open, Work, Save, Reconcile

-----------------------------------------------------------------------------
(* Who is at work.                                                         *)

Saves == RuleOps \union {"settings", "nat", "aliases", "bootstrap"}
Written == {"cache", "read", "land", "undo", "rewrite"}
Reconciling == {"gather", "blocks", "publish"}

\* The steps that each operation has.
Shape(p) ==
  /\ ps[p].pc = "lock" => Op(p) \in RuleOps
  /\ ps[p].pc \in {"capture", "write", "read", "land", "rewrite"} => Op(p) \in Saves
  /\ ps[p].pc \in {"load", "undo"} => Op(p) \in Saves \ {"bootstrap"}
  /\ ps[p].pc \in {"cache", "recache"} => Op(p) = "bootstrap"
  /\ ps[p].pc \in {"reread", "reland"} => Op(p) \in Republish
  /\ ps[p].pc \in Reconciling => Op(p) \in {"block", "unblock", "expire"}
  /\ ps[p].pc = "sync" => Op(p) = "list"

\* The lock is held by the operation on rules that has passed it.
Holding(p) == Op(p) \in RuleOps /\ ps[p].pc \notin {"idle", "lock"}

Roles ==
  /\ \A p \in Proc : Shape(p) /\ (lock = p <=> Holding(p))
  /\ ~up => \A p \in Proc : ps[p].pc = "idle"

LEMMA RolesBy ==
  ASSUME TypeOK, Roles, NEW p \in Proc, up' = up, up,
         \A q \in Proc : q # p => ps'[q] = ps[q],
         \/ UNCHANGED lock /\ (Holding(p)' <=> Holding(p))
         \/ lock = Nobody /\ lock' = p /\ Holding(p)'
         \/ lock' = (IF lock = p THEN Nobody ELSE lock) /\ ~Holding(p)',
         Shape(p)'
  PROVE  Roles'
<1>1. \A q \in Proc : q # p => Shape(q)' /\ (Holding(q)' <=> Holding(q))
  BY DEF Roles, Shape, Holding, Op
<1>2. \A q \in Proc : lock' = q <=> Holding(q)'
  BY <1>1, ConstantsAssumption DEF Roles
<1>3. QED
  BY <1>1, <1>2 DEF Roles

LEMMA RolesKept ==
  ASSUME TypeOK, Roles, Next
  PROVE  Roles'
<1> USE DEF At, Op
<1>0. ps \in [Proc -> Task] /\ \A p \in Proc : ps[p] \in Task
  BY DEF TypeOK
<1>1. ASSUME NEW p \in Proc, NEW r, NEW l, r.pc = l, r.op = ps[p].op, Set(p, r),
             up, UNCHANGED <<lock, up>>, ps[p].pc \notin {"idle", "lock"},
             l \notin {"idle", "lock"}, Shape(p)'
      PROVE  Roles'
  <2>1. /\ ps'[p].pc = l /\ ps'[p].op = ps[p].op
        /\ \A q \in Proc : q # p => ps'[q] = ps[q]
    BY <1>0, <1>1, Turn
  <2>2. (Holding(p)' <=> Holding(p))
    BY <1>1, <2>1 DEF Holding
  <2>3. QED
    BY <1>1, <2>1, <2>2, RolesBy
<1>2. ASSUME NEW p \in Proc, NEW l, Goto(p, l), up, UNCHANGED <<lock, up>>,
             ps[p].pc \notin {"idle", "lock"}, l \notin {"idle", "lock"}, Shape(p)'
      PROVE  Roles'
  <2>1. /\ ps'[p].pc = l /\ ps'[p].op = ps[p].op
        /\ \A q \in Proc : q # p => ps'[q] = ps[q]
    BY <1>0, <1>2, Jump
  <2>2. (Holding(p)' <=> Holding(p))
    BY <1>2, <2>1 DEF Holding
  <2>3. QED
    BY <1>2, <2>1, <2>2, RolesBy
<1>3. ASSUME NEW p \in Proc, ps'[p] = Idle
      PROVE  Shape(p)' /\ ~Holding(p)'
  BY <1>3 DEF Idle, Shape, Holding, Reconciling
<1>4. ASSUME NEW p \in Proc, Finish(p), up, UNCHANGED up
      PROVE  Roles'
  <2>1. ps'[p] = Idle /\ \A q \in Proc : q # p => ps'[q] = ps[q]
    BY <1>0, <1>4, Turn DEF Finish
  <2>2. QED
    BY <1>3, <1>4, <2>1, RolesBy DEF Finish
<1>5. ASSUME NEW p \in Proc, Set(p, Idle), up, UNCHANGED <<up, lock>>, Op(p) \notin RuleOps
      PROVE  Roles'
  <2>1. ps'[p] = Idle /\ \A q \in Proc : q # p => ps'[q] = ps[q]
    BY <1>0, <1>5, Turn
  <2>2. ~Holding(p)
    BY <1>5 DEF Holding
  <2>3. QED
    BY <1>3, <1>5, <2>1, <2>2, RolesBy
<1>6. ASSUME NEW p \in Proc, NEW op, NEW l, Start(p, op, l), up, UNCHANGED <<up, lock>>,
             ps[p].pc = "idle",
             \/ op \in RuleOps /\ l = "lock"
             \/ op \in Saves \ RuleOps /\ l = "capture"
             \/ op \in {"block", "unblock", "expire"} /\ l = "gather"
      PROVE  Roles'
  <2>1. [Idle EXCEPT !.pc = l, !.op = op].pc = l /\ [Idle EXCEPT !.pc = l, !.op = op].op = op
    BY DEF Idle
  <2>2. ps'[p].pc = l /\ ps'[p].op = op /\ \A q \in Proc : q # p => ps'[q] = ps[q]
    BY <1>0, <1>6, <2>1, Turn DEF Start
  <2>3. Shape(p)' /\ ~Holding(p)' /\ ~Holding(p)
    BY <1>6, <2>2 DEF Shape, Holding, Reconciling, Saves, RuleOps
  <2>4. QED
    BY <1>6, <2>2, <2>3, RolesBy
<1>7. ASSUME NEW p \in Proc, Begin(p)
      PROVE  Roles'
  <2>1. up /\ ps[p].pc = "idle" /\ UNCHANGED <<up, lock>>
    BY <1>7 DEF Begin
  <2>2. PICK op, l : /\ Start(p, op, l)
                     /\ \/ op \in RuleOps /\ l = "lock"
                        \/ op \in Saves \ RuleOps /\ l = "capture"
    BY <1>7 DEF Begin, Saves, RuleOps
  <2>3. QED
    BY <1>6, <2>1, <2>2
<1>8. ASSUME NEW p \in Proc, Acquire(p)
      PROVE  Roles'
  <2>1. /\ ps'[p].pc = "capture" /\ ps'[p].op = ps[p].op
        /\ \A q \in Proc : q # p => ps'[q] = ps[q]
    BY <1>0, <1>8, Jump DEF Acquire
  <2>2. Op(p) \in RuleOps
    BY <1>8 DEF Acquire, Roles, Shape
  <2>3. Shape(p)' /\ Holding(p)'
    BY <2>1, <2>2 DEF Shape, Holding, Saves, Reconciling
  <2>4. QED
    BY <1>8, <2>1, <2>3, RolesBy DEF Acquire
<1>9. ASSUME NEW p \in Proc, Capture(p)
      PROVE  Roles'
  <2>1. PICK new \in Config :
          Set(p, IF Op(p) = "bootstrap"
                 THEN [ps[p] EXCEPT !.pc = "write", !.old = cfg, !.new = new, !.snap = cfg]
                 ELSE [ps[p] EXCEPT !.pc = "load", !.old = Replace(Fresh, Op(p), cfg),
                                    !.new = Replace(Fresh, Op(p), new)])
    BY <1>9 DEF Capture
  <2>2. up /\ ps[p].pc = "capture" /\ UNCHANGED <<up, lock>> /\ Op(p) \in Saves
    BY <1>9 DEF Capture, Roles, Shape
  <2>3. PICK r : r = IF Op(p) = "bootstrap"
                 THEN [ps[p] EXCEPT !.pc = "write", !.old = cfg, !.new = new, !.snap = cfg]
                 ELSE [ps[p] EXCEPT !.pc = "load", !.old = Replace(Fresh, Op(p), cfg),
                                    !.new = Replace(Fresh, Op(p), new)]
    OBVIOUS
  <2>4. r.op = ps[p].op /\ r.pc = IF Op(p) = "bootstrap" THEN "write" ELSE "load"
    BY <1>0, <2>3 DEF Task
  <2>5. ps'[p] = r
    BY <1>0, <2>1, <2>3, Turn
  <2>6. Shape(p)'
    BY <2>2, <2>4, <2>5 DEF Shape, Reconciling
  <2>7. PICK l : l = r.pc /\ l \notin {"idle", "lock"} /\ Set(p, r)
    BY <2>1, <2>3, <2>4
  <2>8. QED
    BY <1>1, <2>2, <2>4, <2>6, <2>7
<1>10. ASSUME NEW p \in Proc, SaveLoad(p) \/ UndoLoad(p) \/ ReconcileLoad(p)
       PROVE  Roles'
  <2>1. PICK l : /\ Set(p, [ps[p] EXCEPT !.pc = l, !.snap = cfg])
                 /\ up /\ UNCHANGED <<lock, up>>
                 /\ \/ ps[p].pc = "load" /\ l = "write"
                    \/ ps[p].pc = "undo" /\ l = "rewrite"
                    \/ ps[p].pc = "gather" /\ l = "blocks"
    BY <1>10 DEF SaveLoad, UndoLoad, ReconcileLoad
  <2>2. PICK r : r = [ps[p] EXCEPT !.pc = l, !.snap = cfg]
    OBVIOUS
  <2>3. r.pc = l /\ r.op = ps[p].op
    BY <1>0, <2>2 DEF Task
  <2>4. ps'[p] = r
    BY <1>0, <2>1, <2>2, Turn
  <2>5. Shape(p)'
    BY <2>1, <2>3, <2>4 DEF Shape, Roles, Reconciling
  <2>6. QED
    BY <1>1, <2>1, <2>2, <2>3, <2>5
<1>11. ASSUME NEW p \in Proc, SaveWrite(p)
       PROVE  Roles'
  <2>1. PICK l : /\ Goto(p, l) /\ l = IF Op(p) = "bootstrap" THEN "cache" ELSE "read"
                 /\ up /\ ps[p].pc = "write" /\ UNCHANGED <<lock, up>>
    BY <1>11 DEF SaveWrite
  <2>2. Op(p) \in Saves /\ l \in {"cache", "read"} /\ (l = "cache" => Op(p) = "bootstrap")
    BY <2>1 DEF Roles, Shape
  <2>3. ps'[p].pc = l /\ ps'[p].op = ps[p].op
    BY <1>0, <2>1, Jump
  <2>4. Shape(p)'
    BY <2>2, <2>3 DEF Shape, Reconciling
  <2>5. QED
    BY <1>2, <2>1, <2>2, <2>4
<1>12. ASSUME NEW p \in Proc, SaveFails(p) \/ Land(p) \/ Reland(p)
       PROVE  Roles'
  BY <1>4, <1>12 DEF SaveFails, Land, Reland
<1>13. ASSUME NEW p \in Proc, BootstrapCache(p)
       PROVE  Roles'
  <2>1. CASE ps[p].pc = "cache" /\ Goto(p, "read") /\ up /\ UNCHANGED <<lock, up>>
    <3>1. Op(p) = "bootstrap"
      BY <2>1 DEF Roles, Shape
    <3>2. ps'[p].pc = "read" /\ ps'[p].op = ps[p].op
      BY <1>0, <2>1, Jump
    <3>3. Shape(p)'
      BY <3>1, <3>2 DEF Shape, Reconciling, Saves
    <3>4. QED
      BY <1>2, <2>1, <3>3
  <2>2. CASE ps[p].pc = "recache" /\ Set(p, Idle) /\ up /\ UNCHANGED <<lock, up>>
    <3>1. Op(p) \notin RuleOps
      BY <2>2 DEF Roles, Shape, RuleOps
    <3>2. QED
      BY <1>5, <2>2, <3>1
  <2>3. QED
    BY <1>13, <2>1, <2>2 DEF BootstrapCache
<1>14. ASSUME NEW p \in Proc, ApplyRead(p)
       PROVE  Roles'
  <2>1. PICK l : /\ Set(p, [ps[p] EXCEPT !.pc = l, !.rs = Current])
                 /\ up /\ UNCHANGED <<lock, up>>
                 /\ \/ ps[p].pc = "read" /\ l = "land"
                    \/ ps[p].pc = "reread" /\ l = "reland"
    BY <1>14 DEF ApplyRead
  <2>2. PICK r : r = [ps[p] EXCEPT !.pc = l, !.rs = Current]
    OBVIOUS
  <2>3. r.pc = l /\ r.op = ps[p].op
    BY <1>0, <2>2 DEF Task
  <2>4. ps'[p] = r
    BY <1>0, <2>1, <2>2, Turn
  <2>5. Shape(p)'
    BY <2>1, <2>3, <2>4 DEF Shape, Roles, Reconciling
  <2>6. QED
    BY <1>1, <2>1, <2>2, <2>3, <2>5
<1>15. ASSUME NEW p \in Proc, LandFails(p)
       PROVE  Roles'
  <2>1. up /\ ps[p].pc = "land" /\ UNCHANGED up
    BY <1>15 DEF LandFails
  <2>2. CASE Finish(p)
    BY <1>4, <2>1, <2>2
  <2>3. ASSUME NEW l, Goto(p, l), UNCHANGED lock, 
               l = "rewrite" \/ (l = "undo" /\ Op(p) # "bootstrap")
        PROVE  Roles'
    <3>1. Shape(p)'
      BY <1>0, <2>1, <2>3, Jump DEF Shape, Roles, Reconciling
    <3>2. QED
      BY <1>2, <2>1, <2>3, <3>1
  <2>4. QED
    BY <1>15, <2>2, <2>3 DEF LandFails
<1>16. ASSUME NEW p \in Proc, UndoWrite(p) \/ UndoFails(p)
       PROVE  Roles'
  <2>1. up /\ ps[p].pc = "rewrite" /\ UNCHANGED up
    BY <1>16 DEF UndoWrite, UndoFails
  <2>2. CASE Finish(p)
    BY <1>4, <2>1, <2>2
  <2>3. ASSUME NEW l, Goto(p, l), UNCHANGED lock,
               \/ l = "reread" /\ Op(p) \in Republish
               \/ l = "recache" /\ Op(p) = "bootstrap"
        PROVE  Roles'
    <3>1. Shape(p)'
      BY <1>0, <2>3, Jump DEF Shape, Reconciling
    <3>2. QED
      BY <1>2, <2>1, <2>3, <3>1
  <2>4. QED
    BY <1>16, <2>2, <2>3 DEF UndoWrite, UndoFails, AfterUndo
<1>17. ASSUME NEW p \in Proc, ListLoad(p)
       PROVE  Roles'
  <2>1. PICK r : r = [Idle EXCEPT !.pc = "sync", !.snap = Replace(Fresh, "save_rules", cfg)]
    OBVIOUS
  <2>2. r.pc = "sync" /\ r.op = "list"
    BY <2>1 DEF Idle
  <2>3. ps'[p] = r /\ \A q \in Proc : q # p => ps'[q] = ps[q]
    BY <1>0, <1>17, <2>1, Turn DEF ListLoad
  <2>4. Shape(p)' /\ ~Holding(p)' /\ ~Holding(p)
    BY <1>17, <2>2, <2>3 DEF ListLoad, Shape, Holding, Reconciling, RuleOps
  <2>5. QED
    BY <1>17, <2>3, <2>4, RolesBy DEF ListLoad
<1>18. ASSUME NEW p \in Proc, ListSync(p) \/ ReconcileLand(p)
       PROVE  Roles'
  <2>1. up /\ ps[p].pc \in {"sync", "publish"} /\ Set(p, Idle) /\ UNCHANGED <<up, lock>>
    BY <1>18 DEF ListSync, ReconcileLand
  <2>2. Op(p) \notin RuleOps
    BY <2>1 DEF Roles, Shape, RuleOps, Reconciling
  <2>3. QED
    BY <1>5, <2>1, <2>2
<1>19. ASSUME NEW p \in Proc, Expire(p) \/ \E ip \in IP : Block(p, ip) \/ Unblock(p, ip)
       PROVE  Roles'
  <2>1. PICK op \in {"block", "unblock", "expire"} : Start(p, op, "gather")
    BY <1>19 DEF Block, Unblock, Expire
  <2>2. up /\ ps[p].pc = "idle" /\ UNCHANGED <<up, lock>>
    BY <1>19 DEF Block, Unblock, Expire
  <2>3. QED
    BY <1>6, <2>1, <2>2
<1>20. ASSUME NEW p \in Proc, ReconcileList(p)
       PROVE  Roles'
  <2>1. PICK r : r = [ps[p] EXCEPT !.pc = "publish",
                          !.rs = Generate(ps[p].snap, StoredNat(ps[p].snap.nat),
                                          blocks \ lapsed)]
    OBVIOUS
  <2>2. /\ Set(p, r) /\ up /\ ps[p].pc = "blocks" /\ UNCHANGED <<up, lock>>
    BY <1>20, <2>1 DEF ReconcileList
  <2>3. r.pc = "publish" /\ r.op = ps[p].op
    BY <1>0, <2>1 DEF Task
  <2>4. ps'[p] = r
    BY <1>0, <2>2, Turn
  <2>5. Shape(p)'
    BY <2>2, <2>3, <2>4 DEF Shape, Roles, Reconciling
  <2>6. QED
    BY <1>1, <2>2, <2>3, <2>5
<1>21. ASSUME NEW ip \in IP, Lapse(ip)
       PROVE  Roles'
  BY <1>21 DEF Lapse, Roles, Shape, Holding
<1>22. CASE Stop
  <2>1. ps' = [p \in Proc |-> Idle] /\ lock' = Nobody
    BY <1>22 DEF Stop
  <2>2. \A p \in Proc : Shape(p)' /\ ~Holding(p)' /\ ps'[p].pc = "idle"
    BY <2>1, <1>3 DEF Idle
  <2>3. QED
    BY <2>1, <2>2, ConstantsAssumption DEF Roles
<1>23. CASE Startup
  BY <1>23 DEF Startup, Roles, Shape, Holding
<1>24. QED
  BY <1>7, <1>8, <1>9, <1>10, <1>11, <1>12, <1>13, <1>14, <1>15, <1>16, <1>17, <1>18, <1>19,
     <1>20, <1>21, <1>22, <1>23 DEF Next, Open, Work, Save, Reconcile

-----------------------------------------------------------------------------
(* Which operations run beside each other.                                 *)

Every == {"config", "cache", "blocks"}
Busy(p) == ps[p].pc \notin {"idle", "sync"}
Main(p) == ps[p].pc \notin {"idle", "lock", "sync"}

\* While something is certain, only changes of rules are beside each other; while the cache
\* is, nothing is beside a listing.
Apart ==
  /\ unsure # Every =>
       \A p, q \in Proc : p # q /\ Busy(p) /\ Busy(q) => {Op(p), Op(q)} \subseteq RuleOps
  /\ "cache" \notin unsure =>
       \A p, q \in Proc : p # q /\ ps[p].pc = "sync" => ps[q].pc = "idle"

LEMMA OneMain ==
  ASSUME Roles, Apart, unsure # Every, NEW p \in Proc, NEW q \in Proc, Main(p), Main(q)
  PROVE  p = q
BY DEF Roles, Apart, Main, Busy, Holding

\* What every step of an operation under way has in common.
LEMMA Worked ==
  ASSUME TypeOK, Roles, NEW p \in Proc, Work(p)
  PROVE  /\ up /\ UNCHANGED <<up, blocks, lapsed>>
         /\ ps[p].pc # "idle" /\ \A q \in Proc : q # p => ps'[q] = ps[q]
         /\ \/ ps'[p] = Idle
            \/ ps'[p].op = ps[p].op /\ ps'[p].pc \notin {"idle", "lock", "sync"}
               /\ ps[p].pc # "sync"
         /\ unsure \subseteq unsure'
<1> USE DEF At, Op
<1>0. ps \in [Proc -> Task] /\ \A q \in Proc : ps[q] \in Task
  BY DEF TypeOK
<1> DEFINE Moves == /\ \A q \in Proc : q # p => ps'[q] = ps[q]
                    /\ \/ ps'[p] = Idle
                       \/ ps'[p].op = ps[p].op /\ ps'[p].pc \notin {"idle", "lock", "sync"}
<1>1. ASSUME NEW r, Set(p, r), r = Idle \/ (r.op = ps[p].op /\ r.pc \notin {"idle", "lock", "sync"})
      PROVE  Moves
  BY <1>0, <1>1, Turn
<1>2. ASSUME NEW l, Goto(p, l), l \notin {"idle", "lock", "sync"}
      PROVE  Moves
  BY <1>0, <1>2, Jump
<1>3. ASSUME Finish(p)
      PROVE  Moves
  BY <1>1, <1>3 DEF Finish
<1> HIDE DEF Moves
<1>4. CASE Acquire(p) \/ SaveWrite(p)
  BY <1>2, <1>4 DEF Acquire, SaveWrite, Moves, aiVars, history
<1>5. CASE Capture(p)
  <2>1. PICK new :
          Set(p, IF Op(p) = "bootstrap"
                 THEN [ps[p] EXCEPT !.pc = "write", !.old = cfg, !.new = new, !.snap = cfg]
                 ELSE [ps[p] EXCEPT !.pc = "load", !.old = Replace(Fresh, Op(p), cfg),
                                    !.new = Replace(Fresh, Op(p), new)])
    BY <1>5 DEF Capture
  <2>2. PICK l, r : /\ Set(p, r) /\ r.op = ps[p].op /\ r.pc = l /\ l \in {"write", "load"}
    <3>1. CASE Op(p) = "bootstrap"
      <4>1. PICK r : r = [ps[p] EXCEPT !.pc = "write", !.old = cfg, !.new = new, !.snap = cfg]
        OBVIOUS
      <4>2. Set(p, r) /\ r.op = ps[p].op /\ r.pc = "write"
        BY <1>0, <2>1, <3>1, <4>1 DEF Task
      <4>3. QED
        BY <4>2
    <3>2. CASE Op(p) # "bootstrap"
      <4>1. PICK r : r = [ps[p] EXCEPT !.pc = "load", !.old = Replace(Fresh, Op(p), cfg),
                                       !.new = Replace(Fresh, Op(p), new)]
        OBVIOUS
      <4>2. Set(p, r) /\ r.op = ps[p].op /\ r.pc = "load"
        BY <1>0, <2>1, <3>2, <4>1 DEF Task
      <4>3. QED
        BY <4>2
    <3>3. QED
      BY <3>1, <3>2
  <2>3. Moves
    BY <1>1, <2>2
  <2>4. QED
    BY <1>5, <2>3 DEF Capture, Moves, aiVars, history
<1>6. CASE SaveLoad(p) \/ UndoLoad(p) \/ ReconcileLoad(p)
  <2>1. PICK l \in {"write", "rewrite", "blocks"} :
          Set(p, [ps[p] EXCEPT !.pc = l, !.snap = cfg])
    BY <1>6 DEF SaveLoad, UndoLoad, ReconcileLoad
  <2>2. PICK r : r = [ps[p] EXCEPT !.pc = l, !.snap = cfg]
    OBVIOUS
  <2>3. r.op = ps[p].op /\ r.pc = l
    BY <1>0, <2>2 DEF Task
  <2>4. Moves
    BY <1>1, <2>1, <2>2, <2>3
  <2>5. QED
    BY <1>6, <2>4 DEF SaveLoad, UndoLoad, ReconcileLoad, Moves, aiVars, history
<1>7. CASE SaveFails(p) \/ Land(p) \/ Reland(p)
  BY <1>3, <1>7 DEF SaveFails, Land, Reland, Moves, aiVars, history
<1>8. CASE BootstrapCache(p)
  <2>1. Moves
    BY <1>1, <1>2, <1>8 DEF BootstrapCache
  <2>2. QED
    BY <1>8, <2>1 DEF BootstrapCache, Moves, aiVars, history
<1>9. CASE ApplyRead(p) \/ ReconcileList(p)
  <2>1. PICK l, s : /\ Set(p, [ps[p] EXCEPT !.pc = l, !.rs = s])
                    /\ l \in {"land", "reland", "publish"}
    BY <1>9 DEF ApplyRead, ReconcileList
  <2>2. PICK r : r = [ps[p] EXCEPT !.pc = l, !.rs = s]
    OBVIOUS
  <2>3. r.op = ps[p].op /\ r.pc = l
    BY <1>0, <2>2 DEF Task
  <2>4. Moves
    BY <1>1, <2>1, <2>2, <2>3
  <2>5. QED
    BY <1>9, <2>4 DEF ApplyRead, ReconcileList, Moves, aiVars, history
<1>10. CASE LandFails(p)
  <2>1. Moves
    BY <1>2, <1>3, <1>10 DEF LandFails
  <2>2. QED
    BY <1>10, <2>1 DEF LandFails, Moves, aiVars, history
<1>11. CASE UndoWrite(p) \/ UndoFails(p)
  <2>1. Moves
    BY <1>2, <1>3, <1>11 DEF UndoWrite, UndoFails, AfterUndo
  <2>2. QED
    BY <1>11, <2>1 DEF UndoWrite, UndoFails, Moves, aiVars, history
<1>12. CASE ListSync(p) \/ ReconcileLand(p)
  <2>1. Moves /\ ps'[p] = Idle
    BY <1>0, <1>1, <1>12, Turn DEF ListSync, ReconcileLand
  <2>2. QED
    BY <1>12, <2>1 DEF ListSync, ReconcileLand, Moves, aiVars, history
<1>13. QED
  BY <1>4, <1>5, <1>6, <1>7, <1>8, <1>9, <1>10, <1>11, <1>12 DEF Work, Save, Reconcile

\* What the first step of every operation has in common.
LEMMA Opened ==
  ASSUME TypeOK, NEW p \in Proc, Open(p)
  PROVE  /\ up /\ UNCHANGED <<up, cfg, cache, lock, kernel, source, acked>>
         /\ ps[p].pc = "idle" /\ \A q \in Proc : q # p => ps'[q] = ps[q]
         /\ ps'[p].pc \in {"lock", "capture", "gather", "sync"} /\ unsure \subseteq unsure'
         /\ \/ /\ ps'[p].pc = "sync" /\ ps'[p].snap.rules = cfg.rules
               /\ UNCHANGED <<blocks, lapsed>>
               /\ unsure' = IF \E q \in Proc \ {p} : ps[q].pc # "idle"
                            THEN unsure \union {"cache"} ELSE unsure
            \/ /\ ps'[p].pc # "sync"
               /\ unsure' = Every
                  \/ /\ unsure' = unsure
                     /\ \A q \in Proc : q # p /\ ps[q].pc # "idle" =>
                          {Op(p)', Op(q)} \subseteq RuleOps
         /\ ps'[p].pc # "gather" => UNCHANGED <<blocks, lapsed>>
         /\ ps'[p].pc = "gather" => Op(p)' \notin RuleOps
<1> USE DEF At, Op
<1>0. ps \in [Proc -> Task] /\ unsure \subseteq Every
  BY DEF TypeOK, Every
<1>1. ASSUME NEW op, NEW l, Start(p, op, l)
      PROVE  /\ ps'[p].pc = l /\ ps'[p].op = op /\ \A q \in Proc : q # p => ps'[q] = ps[q]
             /\ UNCHANGED <<acked, source>> /\ unsure \subseteq unsure'
             /\ \/ unsure' = Every
                \/ /\ unsure' = unsure
                   /\ \A q \in Proc : q # p /\ ps[q].pc # "idle" =>
                        {op, ps[q].op} \subseteq RuleOps
  <2>1. [Idle EXCEPT !.pc = l, !.op = op].pc = l /\ [Idle EXCEPT !.pc = l, !.op = op].op = op
    BY DEF Idle
  <2>2. QED
    <3> DEFINE r == [Idle EXCEPT !.pc = l, !.op = op]
    <3>1. /\ Set(p, r) /\ UNCHANGED <<acked, source>>
          /\ unsure' = IF Overlaps(p, op) THEN Every ELSE unsure
      BY <1>1 DEF Start, Every
    <3>2. r.pc = l /\ r.op = op
      BY <2>1
    <3> HIDE DEF r
    <3>3. ps'[p] = r /\ \A q \in Proc : q # p => ps'[q] = ps[q]
      BY <1>0, <3>1, Turn
    <3>4. ~Overlaps(p, op) => \A q \in Proc : q # p /\ ps[q].pc # "idle" =>
                                {op, ps[q].op} \subseteq RuleOps
      BY DEF Overlaps
    <3>5. QED
      BY <1>0, <3>1, <3>2, <3>3, <3>4
<1>2. CASE Begin(p)
  <2>1. PICK op \in Operation, l \in {"lock", "capture"} : Start(p, op, l)
    BY <1>2 DEF Begin, RuleOps, Operation
  <2>2. QED
    BY <1>1, <1>2, <2>1 DEF Begin, aiVars
<1>3. CASE ListLoad(p)
  <2>1. PICK r : r = [Idle EXCEPT !.pc = "sync", !.snap = Replace(Fresh, "save_rules", cfg)]
    OBVIOUS
  <2>2. r.pc = "sync" /\ r.snap = Replace(Fresh, "save_rules", cfg)
    BY <2>1 DEF Idle
  <2>3. r.snap.rules = cfg.rules
    BY <2>2, FreshType, ReplaceLaws DEF TypeOK, RuleOps
  <2>4. ps'[p] = r /\ \A q \in Proc : q # p => ps'[q] = ps[q]
    BY <1>0, <1>3, <2>1, Turn DEF ListLoad
  <2>5. Overlaps(p, "list") <=> \E q \in Proc \ {p} : ps[q].pc # "idle"
    BY DEF Overlaps, RuleOps
  <2>6. /\ unsure' = (IF Overlaps(p, "list") THEN unsure \union {"cache"} ELSE unsure)
        /\ up /\ ps[p].pc = "idle" /\ UNCHANGED <<cfg, cache, lock, aiVars, kernel, up, acked, source>>
    BY <1>3 DEF ListLoad
  <2>7. QED
    BY <2>2, <2>3, <2>4, <2>5, <2>6 DEF aiVars
<1>4. CASE Expire(p) \/ \E ip \in IP : Block(p, ip) \/ Unblock(p, ip)
  <2>1. PICK op \in {"block", "unblock", "expire"} : Start(p, op, "gather")
    BY <1>4 DEF Block, Unblock, Expire
  <2>2. up /\ ps[p].pc = "idle" /\ UNCHANGED <<cfg, cache, lock, kernel, up>>
    BY <1>4 DEF Block, Unblock, Expire
  <2>3. QED
    BY <1>1, <2>1, <2>2 DEF RuleOps
<1>5. QED
  BY <1>2, <1>3, <1>4 DEF Open

LEMMA ApartKept ==
  ASSUME TypeOK, Roles, Apart, Next
  PROVE  Apart'
<1>0. unsure \subseteq Every
  BY DEF TypeOK, Every
<1>1. ASSUME NEW p \in Proc, Work(p)
      PROVE  Apart'
  <2>1. /\ \A q \in Proc : Busy(q)' => Busy(q) /\ Op(q)' = Op(q)
        /\ \A q \in Proc : ps'[q].pc = "sync" => ps[q].pc = "sync"
        /\ \A q \in Proc : ps[q].pc = "idle" => ps'[q].pc = "idle"
    BY <1>1, Worked DEF Busy, Op, Idle
  <2>2. unsure' # Every => unsure # Every
    <3>1. unsure \subseteq unsure' /\ unsure' \subseteq Every
      BY <1>1, Worked, TypeKept DEF Next, TypeOK, Every
    <3>2. QED
      BY <3>1
  <2>3. "cache" \notin unsure' => "cache" \notin unsure
    BY <1>1, Worked
  <2>4. QED
    BY <2>1, <2>2, <2>3 DEF Apart
<1>2. ASSUME NEW p \in Proc, Open(p)
      PROVE  Apart'
  <2>1. CASE ps'[p].pc = "sync"
    <3>1. /\ \A q \in Proc : Busy(q)' => Busy(q) /\ Op(q)' = Op(q)
          /\ \A q \in Proc : q # p => ps'[q] = ps[q]
          /\ unsure' = IF \E q \in Proc \ {p} : ps[q].pc # "idle"
                       THEN unsure \union {"cache"} ELSE unsure
      BY <1>2, <2>1, Opened DEF Busy, Op
    <3>2. unsure' # Every => unsure # Every
      BY <1>0, <3>1 DEF Every
    <3>3. "cache" \notin unsure' => \A q \in Proc : q # p => ps'[q].pc = "idle"
      BY <3>1
    <3>4. QED
      BY <2>1, <3>1, <3>2, <3>3 DEF Apart
  <2>2. CASE ps'[p].pc # "sync"
    <3>1. CASE unsure' = Every
      BY <3>1 DEF Apart, Every
    <3>2. CASE unsure' # Every
      <4>1. /\ unsure' = unsure /\ \A q \in Proc : q # p => ps'[q] = ps[q]
            /\ \A q \in Proc : q # p /\ ps[q].pc # "idle" =>
                          {Op(p)', Op(q)} \subseteq RuleOps
        BY <1>2, <2>2, <3>2, Opened
      <4>2. \A q \in Proc : q # p => ps[q].pc # "sync"
        BY <4>1 DEF Roles, Shape, RuleOps
      <4>3. \A q, s \in Proc : q # s /\ Busy(q)' /\ Busy(s)' =>
              {Op(q)', Op(s)'} \subseteq RuleOps
        BY <3>2, <4>1 DEF Apart, Busy, Op
      <4>4. \A q \in Proc : ps'[q].pc # "sync"
        BY <2>2, <4>1, <4>2
      <4>5. QED
        BY <4>3, <4>4 DEF Apart
    <3>3. QED
      BY <3>1, <3>2
  <2>3. QED
    BY <2>1, <2>2
<1>3. ASSUME NEW ip \in IP, Lapse(ip)
      PROVE  Apart'
  BY <1>3 DEF Lapse, history, Apart, Busy, Op
<1>4. CASE Stop
  BY <1>4 DEF Stop, Apart, Busy, Idle
<1>5. CASE Startup
  BY <1>5 DEF Startup, Roles, Apart, Busy
<1>6. QED
  BY <1>1, <1>2, <1>3, <1>4, <1>5 DEF Next

-----------------------------------------------------------------------------
(* What an operation knows of the configuration while nothing is beside it. *)

Linked(p) ==
  /\ ps[p].pc = "load" => Replace(cfg, Op(p), ps[p].old) = cfg
  /\ ps[p].pc = "write" =>
       /\ ps[p].snap = cfg /\ Replace(cfg, Op(p), ps[p].old) = cfg
       /\ Op(p) = "bootstrap" => ps[p].old = cfg /\ ps[p].new.rules = cfg.rules
  /\ ps[p].pc \in Written /\ Op(p) = "bootstrap" =>
       ps[p].old = Replace(cfg, Op(p), ps[p].old) /\ ps[p].new.rules = cfg.rules
  /\ ps[p].pc = "rewrite" /\ Op(p) # "bootstrap" => ps[p].snap = cfg
  /\ ps[p].pc \in {"land", "reland"} => ps[p].rs = Current
  /\ ps[p].pc = "recache" => ps[p].old.rules = cfg.rules
  /\ ps[p].pc = "blocks" => ps[p].snap = cfg
  /\ ps[p].pc = "publish" =>
       ps[p].rs.rules = cfg.rules /\ ps[p].rs.settings = cfg.settings

AllLinked == unsure # Every => \A p \in Proc : Linked(p)

\* The kernel enforces c, if it can.
InSync(c) ==
  kernel # Flushed /\ Accepts(c) =>
    /\ kernel.rules = c.rules /\ kernel.settings = c.settings
    /\ source = "config" => kernel.nat = EffectiveNat(c.nat)

\* It enforces what is stored, or what was before the change that is being published.
InStep ==
  up /\ "config" \notin unsure =>
    /\ \A p \in Proc : ps[p].pc \in Written => InSync(Replace(cfg, Op(p), ps[p].old))
    /\ (\A p \in Proc : ps[p].pc \notin Written) => InSync(cfg)

CacheTrue ==
  up /\ "cache" \notin unsure =>
    cache = cfg.rules /\ \A p \in Proc : ps[p].pc = "sync" => ps[p].snap.rules = cfg.rules

BlocksTrue ==
  up /\ "blocks" \notin unsure =>
    /\ (\A p \in Proc : ps[p].pc \notin Reconciling) =>
         /\ source = "ai" => blocks \ lapsed \subseteq kernel.blocked
         /\ kernel.blocked \subseteq blocks
    /\ \A p \in Proc : ps[p].pc = "publish" =>
         blocks \ lapsed \subseteq ps[p].rs.blocked /\ ps[p].rs.blocked \subseteq blocks

Beside == TypeOK /\ Roles /\ Apart
Agrees == AllLinked /\ InStep /\ CacheTrue /\ BlocksTrue

LEMMA OthersLinked ==
  ASSUME Beside, AllLinked, unsure # Every, NEW p \in Proc,
         \A q \in Proc : q # p => ps'[q] = ps[q], UNCHANGED cfg \/ Main(p), Linked(p)'
  PROVE  AllLinked'
<1>1. ASSUME NEW q \in Proc, q # p
      PROVE  Linked(q)'
  <2>1. CASE UNCHANGED cfg
    BY <1>1, <2>1 DEF AllLinked, Linked, Current, Op
  <2>2. CASE Main(p)
    <3>1. ~Main(q)
      BY <1>1, <2>2, OneMain DEF Beside
    <3>2. QED
      BY <1>1, <3>1 DEF Main, Linked, Written
  <2>3. QED
    BY <2>1, <2>2
<1>2. QED
  BY <1>1 DEF AllLinked

\* A step of p that publishes nothing and writes nothing.
LEMMA Steady ==
  ASSUME Beside, Agrees, NEW p \in Proc, ps[p].pc # "idle", ps[p].pc # "sync",
         \A q \in Proc : q # p => ps'[q] = ps[q],
         UNCHANGED <<cfg, kernel, source, blocks, lapsed, up, unsure>>,
         unsure # Every => cache' \in {cache, cfg.rules},
         ps'[p].pc \in Written <=> ps[p].pc \in Written,
         ps'[p].pc \in Written => ps'[p].op = ps[p].op /\ ps'[p].old = ps[p].old,
         ps'[p].pc \in Reconciling <=> ps[p].pc \in Reconciling,
         ps'[p].pc = "publish" => ps'[p].rs.blocked = blocks \ lapsed,
         unsure # Every => Linked(p)', ps'[p].pc # "sync"
  PROVE  Agrees'
<1>1. CASE unsure = Every
  BY <1>1 DEF Agrees, AllLinked, InStep, CacheTrue, BlocksTrue, Every
<1>2. CASE unsure # Every
  <2>1. AllLinked'
    BY <1>2, OthersLinked DEF Agrees
  <2>2. \A c : InSync(c) => InSync(c)'
    BY DEF InSync, Accepts
  <2>3. InStep'
    <3> SUFFICES ASSUME up, "config" \notin unsure
                 PROVE  InStep'
      BY DEF InStep
    <3>1. \A q \in Proc : ps'[q].pc \in Written =>
            ps[q].pc \in Written /\ Replace(cfg, Op(q), ps[q].old)' = Replace(cfg, Op(q), ps[q].old)
      BY DEF Op, Replace, SectionOf
    <3>2. (\A q \in Proc : ps'[q].pc \notin Written) => \A q \in Proc : ps[q].pc \notin Written
      OBVIOUS
    <3>3. ASSUME NEW q \in Proc, ps'[q].pc \in Written
          PROVE  InSync(Replace(cfg, Op(q), ps[q].old))'
      <4>1. PICK c : c = Replace(cfg, Op(q), ps[q].old)
        OBVIOUS
      <4>2. Replace(cfg, Op(q), ps[q].old)' = c
        BY <3>1, <3>3, <4>1
      <4>3. InSync(c)
        BY <3>1, <3>3, <4>1 DEF Agrees, InStep
      <4>4. QED
        BY <2>2, <4>2, <4>3 DEF InSync, Accepts
    <3>4. (\A q \in Proc : ps'[q].pc \notin Written) => InSync(cfg)'
      BY <3>2 DEF Agrees, InStep, InSync, Accepts
    <3>5. QED
      BY <3>3, <3>4 DEF InStep
  <2>4. CacheTrue'
    BY <1>2 DEF Agrees, CacheTrue
  <2>5. BlocksTrue'
    <3>1. (\A q \in Proc : ps'[q].pc \notin Reconciling) <=>
            \A q \in Proc : ps[q].pc \notin Reconciling
      OBVIOUS
    <3>2. lapsed \subseteq blocks
      BY DEF Beside, TypeOK
    <3>3. QED
      BY <3>1, <3>2 DEF Agrees, BlocksTrue
  <2>6. QED
    BY <2>1, <2>3, <2>4, <2>5 DEF Agrees
<1>3. QED
  BY <1>1, <1>2

\* The last step of an operation on which nothing else depends.
LEMMA IdleLinked ==
  ASSUME NEW p \in Proc, ps'[p] = Idle
  PROVE  Linked(p)' /\ ps'[p].pc \notin Written /\ ps'[p].pc \notin Reconciling
         /\ ps'[p].pc # "sync"
BY DEF Idle, Linked, Written, Reconciling

LEMMA SteadyMoves ==
  ASSUME Beside, Agrees, NEW p \in Proc,
         \/ Acquire(p) \/ Capture(p) \/ SaveLoad(p) \/ SaveFails(p) \/ BootstrapCache(p)
         \/ ApplyRead(p) \/ UndoLoad(p) \/ ReconcileLoad(p) \/ ReconcileList(p)
  PROVE  Agrees'
<1> USE DEF At, Op
<1>0. /\ ps \in [Proc -> Task] /\ ps[p] \in Task /\ ps[p].old \in Config /\ cfg \in Config
      /\ ps[p].new \in Config /\ Shape(p)
  BY DEF Beside, Roles, TypeOK, Task
<1>1. \A q \in Proc : q # p => ps'[q] = ps[q]
  BY Worked DEF Beside, Work, Save, Reconcile
<1>2. unsure # Every => Linked(p)
  BY DEF Agrees, AllLinked
<1>3. CASE Acquire(p)
  <2>1. ps'[p].pc = "capture"
    BY <1>0, <1>3, Jump DEF Acquire
  <2>2. Linked(p)'
    BY <2>1 DEF Linked, Written
  <2>3. QED
    BY <1>1, <1>3, <2>1, <2>2, Steady DEF Acquire, aiVars, history, Written, Reconciling
<1>4. CASE Capture(p)
  <2>1. PICK new \in Config :
          /\ new = Replace(cfg, Op(p), new)
          /\ Set(p, IF Op(p) = "bootstrap"
                 THEN [ps[p] EXCEPT !.pc = "write", !.old = cfg, !.new = new, !.snap = cfg]
                 ELSE [ps[p] EXCEPT !.pc = "load", !.old = Replace(Fresh, Op(p), cfg),
                                    !.new = Replace(Fresh, Op(p), new)])
    BY <1>4 DEF Capture
  <2>2. UNCHANGED <<cfg, cache, kernel, aiVars, up, history>> /\ ps[p].pc = "capture"
    BY <1>4 DEF Capture
  <2>3. CASE Op(p) = "bootstrap"
    <3>1. PICK r : r = [ps[p] EXCEPT !.pc = "write", !.old = cfg, !.new = new, !.snap = cfg]
      OBVIOUS
    <3>2. /\ r.pc = "write" /\ r.op = ps[p].op /\ r.old = cfg /\ r.new = new /\ r.snap = cfg
      BY <1>0, <3>1 DEF Task
    <3>3. ps'[p] = r
      BY <1>0, <2>1, <2>3, <3>1, Turn
    <3>4. Replace(cfg, "bootstrap", new).rules = cfg.rules /\ Replace(cfg, "bootstrap", cfg) = cfg
      BY <1>0, ReplaceLaws DEF RuleOps
    <3>5. Linked(p)'
      BY <2>1, <2>2, <2>3, <3>2, <3>3, <3>4 DEF Linked, Written
    <3>6. QED
      BY <1>1, <2>2, <3>2, <3>3, <3>5, Steady DEF aiVars, history, Written, Reconciling
  <2>4. CASE Op(p) # "bootstrap"
    <3>1. PICK r : r = [ps[p] EXCEPT !.pc = "load", !.old = Replace(Fresh, Op(p), cfg),
                                     !.new = Replace(Fresh, Op(p), new)]
      OBVIOUS
    <3>2. r.pc = "load" /\ r.op = ps[p].op /\ r.old = Replace(Fresh, Op(p), cfg)
      BY <1>0, <3>1 DEF Task
    <3>3. ps'[p] = r
      BY <1>0, <2>1, <2>4, <3>1, Turn
    <3>4. Replace(cfg, Op(p), Replace(Fresh, Op(p), cfg)) = cfg
      BY <1>0, ReplaceLaws, FreshType
    <3>5. Linked(p)'
      BY <2>2, <3>2, <3>3, <3>4 DEF Linked, Written
    <3>6. QED
      BY <1>1, <2>2, <3>2, <3>3, <3>5, Steady DEF aiVars, history, Written, Reconciling
  <2>5. QED
    BY <2>3, <2>4
<1>5. CASE SaveLoad(p) \/ UndoLoad(p) \/ ReconcileLoad(p)
  <2>1. PICK l : /\ Set(p, [ps[p] EXCEPT !.pc = l, !.snap = cfg])
                 /\ \/ ps[p].pc = "load" /\ l = "write"
                    \/ ps[p].pc = "undo" /\ l = "rewrite"
                    \/ ps[p].pc = "gather" /\ l = "blocks"
                 /\ UNCHANGED <<cfg, cache, kernel, aiVars, up, history>>
    BY <1>5 DEF SaveLoad, UndoLoad, ReconcileLoad
  <2>2. PICK r : r = [ps[p] EXCEPT !.pc = l, !.snap = cfg]
    OBVIOUS
  <2>3. r.pc = l /\ r.snap = cfg /\ r.op = ps[p].op /\ r.old = ps[p].old /\ r.new = ps[p].new
    BY <1>0, <2>2 DEF Task
  <2>4. ps'[p] = r
    BY <1>0, <2>1, <2>2, Turn
  <2>5. ps[p].pc = "load" \/ ps[p].pc = "undo" => Op(p) # "bootstrap"
    BY <1>0 DEF Shape
  <2>6. unsure # Every => Linked(p)'
    BY <1>2, <2>1, <2>3, <2>4, <2>5 DEF Linked, Written
  <2>7. QED
    BY <1>1, <2>1, <2>3, <2>4, <2>6, Steady DEF aiVars, history, Written, Reconciling
<1>6. CASE SaveFails(p)
  <2>1. ps'[p] = Idle
    BY <1>0, <1>6, Turn DEF SaveFails, Finish
  <2>2. QED
    BY <1>1, <1>6, <2>1, IdleLinked, Steady DEF SaveFails, aiVars, history, Written, Reconciling
<1>7. CASE BootstrapCache(p)
  <2>1. CASE ps[p].pc = "cache" /\ cache' = ps[p].new.rules /\ Goto(p, "read")
    <3>1. ps'[p].pc = "read" /\ ps'[p].op = ps[p].op /\ ps'[p].old = ps[p].old
          /\ ps'[p].new = ps[p].new
      BY <1>0, <2>1, Jump
    <3>2. Op(p) = "bootstrap"
      BY <1>0, <2>1 DEF Shape
    <3>3. unsure # Every => cache' = cfg.rules /\ Linked(p)'
      BY <1>2, <1>7, <2>1, <3>1, <3>2 DEF Linked, Written, BootstrapCache
    <3>4. QED
      BY <1>1, <1>7, <2>1, <3>1, <3>3, Steady
         DEF BootstrapCache, aiVars, history, Written, Reconciling
  <2>2. CASE ps[p].pc = "recache" /\ cache' = ps[p].old.rules /\ Set(p, Idle)
    <3>1. ps'[p] = Idle
      BY <1>0, <2>2, Turn
    <3>2. unsure # Every => cache' = cfg.rules
      BY <1>2, <2>2 DEF Linked
    <3>3. QED
      BY <1>1, <1>7, <2>2, <3>1, <3>2, IdleLinked, Steady
         DEF BootstrapCache, aiVars, history, Written, Reconciling
  <2>3. QED
    BY <1>7, <2>1, <2>2 DEF BootstrapCache
<1>8. CASE ApplyRead(p)
  <2>1. PICK l : /\ Set(p, [ps[p] EXCEPT !.pc = l, !.rs = Current])
                 /\ \/ ps[p].pc = "read" /\ l = "land"
                    \/ ps[p].pc = "reread" /\ l = "reland"
                 /\ UNCHANGED <<cfg, cache, kernel, aiVars, up, history>>
    BY <1>8 DEF ApplyRead
  <2>2. PICK r : r = [ps[p] EXCEPT !.pc = l, !.rs = Current]
    OBVIOUS
  <2>3. r.pc = l /\ r.rs = Current /\ r.op = ps[p].op /\ r.old = ps[p].old /\ r.new = ps[p].new
    BY <1>0, <2>2 DEF Task
  <2>4. ps'[p] = r /\ Current' = Current
    BY <1>0, <2>1, <2>2, Turn DEF Current
  <2>5. unsure # Every => Linked(p)'
    BY <1>2, <2>1, <2>3, <2>4 DEF Linked, Written
  <2>6. QED
    BY <1>1, <2>1, <2>3, <2>4, <2>5, Steady DEF aiVars, history, Written, Reconciling
<1>9. CASE ReconcileList(p)
  <2>1. PICK r : r = [ps[p] EXCEPT !.pc = "publish",
                          !.rs = Generate(ps[p].snap, StoredNat(ps[p].snap.nat),
                                          blocks \ lapsed)]
    OBVIOUS
  <2>2. /\ Set(p, r) /\ ps[p].pc = "blocks" /\ UNCHANGED <<cfg, cache, kernel, aiVars, up, history>>
    BY <1>9, <2>1 DEF ReconcileList
  <2>3. r.pc = "publish" /\ r.rs = Generate(ps[p].snap, StoredNat(ps[p].snap.nat), blocks \ lapsed)
    BY <1>0, <2>1 DEF Task
  <2>4. /\ r.rs.rules = ps[p].snap.rules /\ r.rs.settings = ps[p].snap.settings
        /\ r.rs.blocked = blocks \ lapsed
    BY <2>3 DEF Generate
  <2>5. ps'[p] = r
    BY <1>0, <2>2, Turn
  <2>6. unsure # Every => Linked(p)'
    BY <1>2, <2>2, <2>3, <2>4, <2>5 DEF Linked, Written
  <2>7. QED
    BY <1>1, <2>2, <2>3, <2>4, <2>5, <2>6, Steady DEF aiVars, history, Written, Reconciling
<1>10. QED
  BY <1>3, <1>4, <1>5, <1>6, <1>7, <1>8, <1>9

LEMMA Certain ==
  ASSUME unsure' = Every
  PROVE  Agrees'
BY DEF Agrees, AllLinked, InStep, CacheTrue, BlocksTrue, Every

\* With p at work beside nothing but what waits: what InStep says, by p alone.
LEMMA OneWritten ==
  ASSUME Beside, unsure # Every, NEW p \in Proc, Main(p), NEW q \in Proc, q # p
  PROVE  ps[q].pc \notin Written /\ ps[q].pc \notin Reconciling
<1>1. ~Main(q)
  BY OneMain DEF Beside
<1>2. QED
  BY <1>1 DEF Main, Written, Reconciling

\* A step of p, the only one at work, that leaves the kernel in step with what is stored.
LEMMA Settled ==
  ASSUME Beside, Agrees, unsure # Every, NEW p \in Proc, Main(p),
         \A q \in Proc : q # p => ps'[q] = ps[q], UNCHANGED <<up, blocks, lapsed>>,
         unsure' = unsure, ps'[p].pc \notin Written, ps'[p].pc # "sync",
         Linked(p)', "config" \notin unsure => InSync(cfg)',
         ps'[p].pc \notin Reconciling,
         "cache" \notin unsure /\ up => cache' = cfg'.rules,
         "blocks" \notin unsure /\ up =>
           (source' = "ai" => blocks \ lapsed \subseteq kernel'.blocked)
           /\ kernel'.blocked \subseteq blocks
  PROVE  Agrees'
<1>1. \A q \in Proc : q # p => ps'[q].pc \notin Written /\ ps'[q].pc \notin Reconciling
  BY OneWritten
<1>2. AllLinked'
  BY OthersLinked DEF Agrees
<1>3. InStep'
  BY <1>1 DEF InStep
<1>4. CacheTrue'
  <2>1. "cache" \notin unsure => \A q \in Proc : q # p => ps[q].pc # "sync"
    BY DEF Beside, Apart, Main
  <2>2. QED
    BY <2>1 DEF CacheTrue
<1>5. BlocksTrue'
  BY <1>1 DEF BlocksTrue, Reconciling
<1>6. QED
  BY <1>2, <1>3, <1>4, <1>5 DEF Agrees

LEMMA SaveWriteKeeps ==
  ASSUME Beside, Agrees, NEW p \in Proc, SaveWrite(p)
  PROVE  Agrees'
<1> USE DEF At, Op
<1>0. /\ ps \in [Proc -> Task] /\ ps[p] \in Task /\ ps[p].old \in Config /\ cfg \in Config
      /\ ps[p].new \in Config /\ Shape(p)
  BY DEF Beside, Roles, TypeOK, Task
<1>1. /\ ps[p].pc = "write" /\ cfg' = Replace(ps[p].snap, Op(p), ps[p].new)
      /\ cache' = (IF Op(p) \in RuleOps THEN ps[p].new.rules ELSE cache)
      /\ UNCHANGED <<lock, aiVars, kernel, up, history>>
  BY DEF SaveWrite
<1>2. /\ ps'[p].pc = IF Op(p) = "bootstrap" THEN "cache" ELSE "read"
      /\ ps'[p].op = ps[p].op /\ ps'[p].old = ps[p].old /\ ps'[p].new = ps[p].new
      /\ \A q \in Proc : q # p => ps'[q] = ps[q]
  BY <1>0, Jump DEF SaveWrite
<1>3. CASE unsure = Every
  BY <1>1, <1>3, Certain DEF history
<1>4. CASE unsure # Every
  <2>1. Linked(p) /\ Main(p)
    BY <1>1, <1>4 DEF Agrees, AllLinked, Main
  <2>2. /\ ps[p].snap = cfg /\ Replace(cfg, Op(p), ps[p].old) = cfg
        /\ Op(p) = "bootstrap" => ps[p].old = cfg /\ ps[p].new.rules = cfg.rules
    BY <1>1, <2>1 DEF Linked
  <2>3. /\ Replace(cfg', Op(p), ps[p].old) = cfg
        /\ cfg'.rules = IF Op(p) \in RuleOps THEN ps[p].new.rules ELSE cfg.rules
    BY <1>0, <1>1, <2>2, ReplaceLaws
  <2>4. Replace(cfg, Op(p), ps[p].old)' = cfg
    BY <1>2, <2>3 DEF Replace, SectionOf
  <2>5. Linked(p)'
    BY <1>2, <2>2, <2>3, <2>4 DEF Linked, Written, RuleOps
  <2>6. \A q \in Proc : q # p =>
          ps'[q].pc \notin Written /\ ps[q].pc \notin Written /\ ps'[q].pc \notin Reconciling
    BY <1>2, <1>4, <2>1, OneWritten
  <2>7. AllLinked'
    BY <1>2, <1>4, <2>1, <2>5, OthersLinked DEF Agrees
  <2>8. InStep'
    <3> SUFFICES ASSUME up, "config" \notin unsure
                 PROVE  InStep'
      BY <1>1 DEF InStep, history
    <3>1. InSync(cfg)
      BY <1>1, <2>6 DEF Agrees, InStep, Written
    <3>2. ps'[p].pc \in Written
      BY <1>2 DEF Written
    <3>3. PICK c : c = cfg
      OBVIOUS
    <3>4. InSync(Replace(cfg, Op(p), ps[p].old))'
      BY <1>1, <2>4, <3>1 DEF InSync, Accepts, history
    <3>5. QED
      BY <2>6, <3>2, <3>4 DEF InStep
  <2>9. CacheTrue'
    <3>1. "cache" \notin unsure => \A q \in Proc : q # p => ps[q].pc # "sync"
      BY <2>1 DEF Beside, Apart, Main
    <3>2. QED
      BY <1>1, <1>2, <2>3, <3>1 DEF Agrees, CacheTrue, history
  <2>10. BlocksTrue'
    <3>1. ps[p].pc \notin Reconciling /\ ps'[p].pc \notin Reconciling
      BY <1>1, <1>2 DEF Reconciling
    <3>2. QED
      BY <1>1, <1>2, <3>1 DEF Agrees, BlocksTrue, history, aiVars, Reconciling
  <2>11. QED
    BY <2>7, <2>8, <2>9, <2>10 DEF Agrees
<1>5. QED
  BY <1>3, <1>4

\* The whole ruleset of what is stored is in the kernel.
LEMMA Enforced ==
  ASSUME cfg \in Config, UNCHANGED cfg, kernel' = Current
  PROVE  /\ source' = "config" => InSync(cfg)'
         /\ kernel'.blocked = {}
BY DEF InSync, Current, Generate

LEMMA LandKeeps ==
  ASSUME Beside, Agrees, NEW p \in Proc, Land(p) \/ Reland(p)
  PROVE  Agrees'
<1> USE DEF At, Op
<1>0. ps \in [Proc -> Task] /\ cfg \in Config
  BY DEF Beside, TypeOK
<1>1. /\ ps[p].pc \in {"land", "reland"} /\ UNCHANGED <<cfg, cache, aiVars, up, unsure>>
      /\ \/ kernel' = ps[p].rs /\ source' = "config"
         \/ ps[p].pc = "reland" /\ UNCHANGED <<kernel, source>>
  BY DEF Land, Reland
<1>2. ps'[p] = Idle /\ \A q \in Proc : q # p => ps'[q] = ps[q]
  BY <1>0, Turn DEF Land, Reland, Finish
<1>3. CASE unsure = Every
  BY <1>1, <1>3, Certain
<1>4. CASE unsure # Every
  <2>1. Linked(p) /\ Main(p)
    BY <1>1, <1>4 DEF Agrees, AllLinked, Main
  <2>2. ps[p].rs = Current
    BY <1>1, <2>1 DEF Linked
  <2>3. \A q \in Proc : q # p => ps[q].pc \notin Written /\ ps[q].pc \notin Reconciling
    BY <1>4, <2>1, OneWritten
  <2>4. "config" \notin unsure /\ up => InSync(cfg)'
    <3>1. CASE kernel' = ps[p].rs /\ source' = "config"
      BY <1>0, <1>1, <2>2, <3>1, Enforced
    <3>2. CASE ps[p].pc = "reland" /\ UNCHANGED <<kernel, source>>
      <4>1. \A q \in Proc : ps[q].pc \notin Written
        BY <2>3, <3>2 DEF Written
      <4>2. QED
        BY <1>1, <3>2, <4>1 DEF Agrees, InStep, InSync, Accepts
    <3>3. QED
      BY <1>1, <3>1, <3>2
  <2>5. "blocks" \notin unsure /\ up =>
           (source' = "ai" => blocks \ lapsed \subseteq kernel'.blocked)
           /\ kernel'.blocked \subseteq blocks
    <3>1. CASE kernel' = ps[p].rs /\ source' = "config"
      BY <1>0, <1>1, <2>2, <3>1, Enforced
    <3>2. CASE ps[p].pc = "reland" /\ UNCHANGED <<kernel, source>>
      <4>1. \A q \in Proc : ps[q].pc \notin Reconciling
        BY <2>3, <3>2 DEF Reconciling
      <4>2. QED
        BY <1>1, <3>2, <4>1 DEF Agrees, BlocksTrue
    <3>3. QED
      BY <1>1, <3>1, <3>2
  <2>6. up
    BY DEF Land, Reland
  <2>7. "cache" \notin unsure => cache' = cfg'.rules
    BY <1>1, <2>6 DEF Agrees, CacheTrue
  <2>8. QED
    BY <1>1, <1>2, <1>4, <2>1, <2>4, <2>5, <2>6, <2>7, IdleLinked, Settled DEF aiVars
<1>5. QED
  BY <1>3, <1>4

\* What a failed publication leaves: aliases stay as saved, and InSync is not about them.
LEMMA LandFailsKeeps ==
  ASSUME Beside, Agrees, NEW p \in Proc, LandFails(p)
  PROVE  Agrees'
<1> USE DEF At, Op
<1>0. /\ ps \in [Proc -> Task] /\ ps[p] \in Task /\ ps[p].old \in Config /\ cfg \in Config
      /\ Shape(p)
  BY DEF Beside, Roles, TypeOK, Task
<1>1. ps[p].pc = "land" /\ UNCHANGED <<cfg, cache, aiVars, kernel, up, history>>
  BY DEF LandFails
<1>2. \A q \in Proc : q # p => ps'[q] = ps[q]
  BY Worked DEF Beside, Work, Save
<1>3. CASE Op(p) \notin Unrestored
  <2>1. PICK l : /\ Goto(p, l) /\ l \in {"undo", "rewrite"}
                 /\ l = "rewrite" => Op(p) = "bootstrap"
    BY <1>3 DEF LandFails
  <2>2. /\ ps'[p].pc = l /\ ps'[p].op = ps[p].op /\ ps'[p].old = ps[p].old
        /\ ps'[p].new = ps[p].new
    BY <1>0, <2>1, Jump
  <2>3. unsure # Every => Linked(p)'
    <3>1. unsure # Every => Linked(p)
      BY DEF Agrees, AllLinked
    <3>2. QED
      BY <1>1, <2>1, <2>2, <3>1 DEF Linked, Written
  <2>4. QED
    BY <1>1, <1>2, <2>1, <2>2, <2>3, Steady DEF aiVars, history, Written, Reconciling
<1>4. CASE Op(p) \in Unrestored
  <2>1. ps'[p] = Idle /\ Op(p) = "aliases"
    BY <1>0, <1>4, Turn DEF LandFails, Finish, Unrestored
  <2>2. CASE unsure = Every
    BY <1>1, <2>2, Certain DEF history
  <2>3. CASE unsure # Every
    <3>1. Main(p) /\ up
      BY <1>1 DEF Main, LandFails
    <3>2. \A c, d \in Config : InSync(Replace(c, "aliases", d)) => InSync(c)
      BY DEF Replace, SectionOf, InSync, Accepts, Config
    <3>3. "config" \notin unsure => InSync(cfg)
      BY <1>0, <1>1, <2>1, <3>1, <3>2 DEF Agrees, InStep, Written
    <3>4. InSync(cfg) => InSync(cfg)'
      BY <1>1 DEF InSync, Accepts, history
    <3>5. \A q \in Proc : ps[q].pc \notin Reconciling
      BY <1>1, <2>3, <3>1, OneWritten DEF Reconciling
    <3>6. "blocks" \notin unsure =>
           (source' = "ai" => blocks \ lapsed \subseteq kernel'.blocked)
           /\ kernel'.blocked \subseteq blocks
      BY <1>1, <3>1, <3>5 DEF Agrees, BlocksTrue, history
    <3>7. "cache" \notin unsure => cache' = cfg'.rules
      BY <1>1, <3>1 DEF Agrees, CacheTrue
    <3>8. QED
      BY <1>1, <1>2, <2>1, <2>3, <3>1, <3>3, <3>4, <3>6, <3>7, IdleLinked, Settled
         DEF aiVars, history
  <2>4. QED
    BY <2>2, <2>3
<1>5. QED
  BY <1>3, <1>4

LEMMA UndoWriteKeeps ==
  ASSUME Beside, Agrees, NEW p \in Proc, UndoWrite(p)
  PROVE  Agrees'
<1> USE DEF At, Op
<1>0. /\ ps \in [Proc -> Task] /\ ps[p] \in Task /\ ps[p].old \in Config /\ cfg \in Config
      /\ Shape(p)
  BY DEF Beside, Roles, TypeOK, Task
<1>1. /\ up /\ ps[p].pc = "rewrite" /\ UNCHANGED <<aiVars, kernel, up, history>>
      /\ cfg' = (IF Op(p) = "bootstrap" THEN ps[p].old
                 ELSE Replace(ps[p].snap, Op(p), ps[p].old))
      /\ cache' = (IF Op(p) \in RuleOps THEN ps[p].old.rules ELSE cache)
  BY DEF UndoWrite
<1>2. \A q \in Proc : q # p => ps'[q] = ps[q]
  BY Worked DEF Beside, Work, Save
<1>3. \/ ps'[p] = Idle
      \/ ps'[p].pc = "reread"
      \/ ps'[p].pc = "recache" /\ ps'[p].old = ps[p].old /\ Op(p) = "bootstrap"
  BY <1>0, Turn, Jump DEF UndoWrite, AfterUndo, Finish
<1>4. CASE unsure = Every
  BY <1>1, <1>4, Certain DEF history
<1>5. CASE unsure # Every
  <2>1. Linked(p) /\ Main(p)
    BY <1>1, <1>5 DEF Agrees, AllLinked, Main
  <2>2. cfg' = Replace(cfg, Op(p), ps[p].old)
    BY <1>1, <2>1 DEF Linked, Written
  <2>3. cfg'.rules = IF Op(p) \in RuleOps THEN ps[p].old.rules ELSE cfg.rules
    BY <1>0, <2>2, ReplaceLaws
  <2>4. "config" \notin unsure => InSync(cfg)'
    <3> SUFFICES ASSUME "config" \notin unsure
                 PROVE  InSync(cfg)'
      OBVIOUS
    <3>1. InSync(Replace(cfg, Op(p), ps[p].old))
      BY <1>1 DEF Agrees, InStep, Written
    <3>2. QED
      BY <1>1, <2>2, <3>1 DEF InSync, Accepts, history
  <2>5. \A q \in Proc : ps[q].pc \notin Reconciling
    BY <1>1, <1>5, <2>1, OneWritten DEF Reconciling
  <2>6. "blocks" \notin unsure =>
          (source' = "ai" => blocks \ lapsed \subseteq kernel'.blocked)
          /\ kernel'.blocked \subseteq blocks
    BY <1>1, <2>5 DEF Agrees, BlocksTrue, history
  <2>7. "cache" \notin unsure => cache' = cfg'.rules
    BY <1>1, <2>3 DEF Agrees, CacheTrue
  <2>8. Linked(p)' /\ ps'[p].pc \notin Written /\ ps'[p].pc # "sync" /\ ps'[p].pc \notin Reconciling
    BY <1>1, <1>3, <2>3, IdleLinked DEF Linked, Written, Reconciling
  <2>9. QED
    BY <1>1, <1>2, <1>5, <2>1, <2>4, <2>6, <2>7, <2>8, Settled DEF aiVars, history
<1>6. QED
  BY <1>4, <1>5

LEMMA UndoFailsKeeps ==
  ASSUME Beside, Agrees, NEW p \in Proc, UndoFails(p)
  PROVE  Agrees'
<1> USE DEF At, Op
<1>0. /\ ps \in [Proc -> Task] /\ ps[p] \in Task /\ ps[p].old \in Config /\ cfg \in Config
      /\ Shape(p) /\ unsure \subseteq Every
  BY DEF Beside, Roles, TypeOK, Task, Every
<1>1. /\ up /\ ps[p].pc = "rewrite" /\ UNCHANGED <<cfg, aiVars, kernel, up, acked, source>>
      /\ unsure' = unsure \union {"config", "cache"}
  BY DEF UndoFails
<1>2. \A q \in Proc : q # p => ps'[q] = ps[q]
  BY Worked DEF Beside, Work, Save
<1>3. \/ ps'[p] = Idle
      \/ ps'[p].pc = "recache" /\ ps'[p].old = ps[p].old /\ Op(p) = "bootstrap"
  <2>1. CASE Op(p) = "bootstrap" /\ Goto(p, "recache")
    BY <1>0, <2>1, Jump
  <2>2. CASE Set(p, Idle)
    BY <1>0, <2>2, Turn
  <2>3. QED
    BY <2>1, <2>2 DEF UndoFails, Finish
<1>4. CASE unsure' = Every
  BY <1>4, Certain
<1>5. CASE unsure' # Every
  <2>1. unsure # Every /\ "blocks" \notin unsure
    BY <1>0, <1>1, <1>5 DEF Every
  <2>2. Linked(p) /\ Main(p)
    BY <1>1, <2>1 DEF Agrees, AllLinked, Main
  <2>3. Op(p) = "bootstrap" => ps[p].old.rules = cfg.rules
    <3>1. Replace(cfg, "bootstrap", ps[p].old).rules = cfg.rules
      BY <1>0, ReplaceLaws DEF RuleOps
    <3>2. QED
      BY <1>1, <2>2, <3>1 DEF Linked, Written
  <2>4. Linked(p)' /\ ps'[p].pc \notin Reconciling
    BY <1>1, <1>3, <2>3, IdleLinked DEF Linked, Written, Reconciling
  <2>5. AllLinked'
    BY <1>1, <1>2, <2>1, <2>4, OthersLinked DEF Agrees
  <2>6. InStep' /\ CacheTrue'
    BY <1>1 DEF InStep, CacheTrue
  <2>7. \A q \in Proc : ps[q].pc \notin Reconciling /\ ps'[q].pc \notin Reconciling
    BY <1>1, <1>2, <2>1, <2>2, <2>4, OneWritten DEF Reconciling
  <2>8. BlocksTrue'
    BY <1>1, <2>7 DEF Agrees, BlocksTrue, aiVars, Reconciling
  <2>9. QED
    BY <2>5, <2>6, <2>8 DEF Agrees
<1>6. QED
  BY <1>4, <1>5

LEMMA ReconcileLandKeeps ==
  ASSUME Beside, Agrees, NEW p \in Proc, ReconcileLand(p)
  PROVE  Agrees'
<1> USE DEF At
<1>0. ps \in [Proc -> Task] /\ unsure \subseteq Every
  BY DEF Beside, TypeOK, Every
<1>1. up /\ ps[p].pc = "publish" /\ UNCHANGED <<cfg, cache, lock, aiVars, up, acked>>
  BY DEF ReconcileLand
<1>2. ps'[p] = Idle /\ \A q \in Proc : q # p => ps'[q] = ps[q]
  BY <1>0, Turn DEF ReconcileLand
<1>3. CASE unsure' = Every
  BY <1>3, Certain
<1>4. CASE unsure' # Every
  <2>1. unsure # Every
    BY <1>0, <1>4 DEF ReconcileLand, Every
  <2>2. Linked(p) /\ Main(p)
    BY <1>1, <2>1 DEF Agrees, AllLinked, Main
  <2>3. \A q \in Proc : ps[q].pc \notin Written /\ ps'[q].pc \notin Written
    BY <1>1, <1>2, <2>1, <2>2, OneWritten, IdleLinked DEF Written
  <2>4. "cache" \notin unsure => cache' = cfg'.rules
    BY <1>1 DEF Agrees, CacheTrue
  <2>5. CASE kernel' = ps[p].rs /\ source' = "ai" /\ UNCHANGED unsure
    <3>1. InSync(cfg)'
      BY <1>1, <2>2, <2>5 DEF Linked, InSync
    <3>2. "blocks" \notin unsure =>
            blocks \ lapsed \subseteq kernel'.blocked /\ kernel'.blocked \subseteq blocks
      BY <1>1, <2>5 DEF Agrees, BlocksTrue
    <3>3. QED
      BY <1>1, <1>2, <2>1, <2>2, <2>4, <2>5, <3>1, <3>2, IdleLinked, Settled DEF aiVars
  <2>6. CASE unsure' = unsure \union {"blocks"} /\ UNCHANGED <<kernel, source>>
    <3>1. AllLinked'
      BY <1>1, <1>2, <2>1, IdleLinked, OthersLinked DEF Agrees
    <3>2. "config" \notin unsure => InSync(cfg)'
      BY <1>1, <2>3, <2>6 DEF Agrees, InStep, InSync, Accepts
    <3>3. InStep'
      BY <2>3, <2>6, <3>2 DEF InStep
    <3>4. CacheTrue'
      BY <1>1, <1>2, <2>6, IdleLinked DEF Agrees, CacheTrue
    <3>5. BlocksTrue'
      BY <2>6 DEF BlocksTrue
    <3>6. QED
      BY <3>1, <3>3, <3>4, <3>5 DEF Agrees
  <2>7. QED
    BY <2>5, <2>6 DEF ReconcileLand
<1>5. QED
  BY <1>3, <1>4

LEMMA ListSyncKeeps ==
  ASSUME Beside, Agrees, NEW p \in Proc, ListSync(p)
  PROVE  Agrees'
<1> USE DEF At
<1>0. ps \in [Proc -> Task]
  BY DEF Beside, TypeOK
<1>1. up /\ ps[p].pc = "sync" /\ cache' = ps[p].snap.rules
      /\ UNCHANGED <<cfg, lock, aiVars, kernel, up, history>>
  BY DEF ListSync
<1>2. ps'[p] = Idle /\ \A q \in Proc : q # p => ps'[q] = ps[q]
  BY <1>0, Turn DEF ListSync
<1>3. CASE unsure = Every
  BY <1>1, <1>3, Certain DEF history
<1>4. CASE unsure # Every
  <2>1. AllLinked'
    BY <1>1, <1>2, <1>4, IdleLinked, OthersLinked DEF Agrees
  <2>2. \A q \in Proc : /\ ps'[q].pc \in Written <=> ps[q].pc \in Written
                        /\ ps'[q].pc \in Reconciling <=> ps[q].pc \in Reconciling
                        /\ ps[q].pc # "sync" => ps'[q] = ps[q]
    BY <1>1, <1>2, IdleLinked DEF Written, Reconciling
  <2>3. InStep'
    <3> SUFFICES ASSUME up, "config" \notin unsure
                 PROVE  InStep'
      BY <1>1 DEF InStep, history
    <3>1. ASSUME NEW q \in Proc, ps'[q].pc \in Written
          PROVE  InSync(Replace(cfg, Op(q), ps[q].old))'
      <4>1. ps'[q] = ps[q] /\ InSync(Replace(cfg, Op(q), ps[q].old))
        BY <2>2, <3>1 DEF Agrees, InStep, Written
      <4>2. Replace(cfg, Op(q), ps[q].old)' = Replace(cfg, Op(q), ps[q].old)
        BY <1>1, <4>1 DEF Replace, SectionOf, Op
      <4>3. QED
        BY <1>1, <4>1, <4>2 DEF InSync, Accepts, history
    <3>2. (\A q \in Proc : ps'[q].pc \notin Written) => InSync(cfg)'
      BY <1>1, <2>2 DEF Agrees, InStep, InSync, Accepts, history
    <3>3. QED
      BY <3>1, <3>2 DEF InStep
  <2>4. CacheTrue'
    BY <1>1, <1>2, IdleLinked DEF Agrees, CacheTrue, history
  <2>5. BlocksTrue'
    BY <1>1, <2>2 DEF Agrees, BlocksTrue, Reconciling, history, aiVars
  <2>6. QED
    BY <2>1, <2>3, <2>4, <2>5 DEF Agrees
<1>5. QED
  BY <1>3, <1>4

LEMMA OpenKeeps ==
  ASSUME Beside, Agrees, NEW p \in Proc, Open(p)
  PROVE  Agrees'
<1>0. /\ up /\ UNCHANGED <<up, cfg, cache, lock, kernel, source, acked>>
      /\ ps[p].pc = "idle" /\ \A q \in Proc : q # p => ps'[q] = ps[q]
      /\ ps'[p].pc \in {"lock", "capture", "gather", "sync"} /\ unsure \subseteq unsure'
      /\ ps'[p].pc = "sync" => ps'[p].snap.rules = cfg.rules
      /\ ps'[p].pc # "gather" => UNCHANGED <<blocks, lapsed>>
  BY Opened DEF Beside
<1>1. CASE unsure' = Every
  BY <1>1, Certain
<1>2. CASE unsure' # Every
  <2>1. unsure # Every
    <3>1. unsure' \subseteq Every
      BY TypeKept DEF Beside, Next, TypeOK, Every
    <3>2. QED
      BY <1>0, <1>2, <3>1
  <2>2. Linked(p)' /\ ps[p].pc \notin Written /\ ps'[p].pc \notin Written
    BY <1>0 DEF Linked, Written
  <2>3. AllLinked'
    BY <1>0, <2>1, <2>2, OthersLinked DEF Agrees
  <2>4. InStep'
    <3> SUFFICES ASSUME up, "config" \notin unsure
                 PROVE  InStep'
      BY <1>0 DEF InStep
    <3>1. ASSUME NEW q \in Proc, ps'[q].pc \in Written
          PROVE  InSync(Replace(cfg, Op(q), ps[q].old))'
      <4>1. ps'[q] = ps[q] /\ InSync(Replace(cfg, Op(q), ps[q].old))
        BY <1>0, <2>2, <3>1 DEF Agrees, InStep
      <4>2. Replace(cfg, Op(q), ps[q].old)' = Replace(cfg, Op(q), ps[q].old)
        BY <1>0, <4>1 DEF Replace, SectionOf, Op
      <4>3. QED
        BY <1>0, <4>1, <4>2 DEF InSync, Accepts
    <3>2. (\A q \in Proc : ps'[q].pc \notin Written) => InSync(cfg)'
      BY <1>0, <2>2 DEF Agrees, InStep, InSync, Accepts
    <3>3. QED
      BY <3>1, <3>2 DEF InStep
  <2>5. CacheTrue'
    BY <1>0 DEF Agrees, CacheTrue
  <2>6. BlocksTrue'
    <3>1. CASE ps'[p].pc = "gather"
      <4>1. \A q \in Proc : q # p => ps[q].pc \notin Reconciling
        <5>1. \A q \in Proc : q # p => ps[q].pc = "idle"
          BY <1>2, <2>1, <3>1, Opened DEF Beside
        <5>2. QED
          BY <5>1 DEF Reconciling
      <4>2. \A q \in Proc : ps'[q].pc # "publish"
        BY <1>0, <3>1, <4>1 DEF Reconciling
      <4>3. QED
        BY <3>1, <4>2 DEF BlocksTrue, Reconciling
    <3>2. CASE ps'[p].pc # "gather"
      <4>1. \A q \in Proc : ps'[q].pc \in Reconciling <=> ps[q].pc \in Reconciling
        BY <1>0, <3>2 DEF Reconciling
      <4>2. \A q \in Proc : ps'[q].pc = "publish" => ps'[q] = ps[q]
        BY <1>0
      <4>3. QED
        BY <1>0, <3>2, <4>1, <4>2 DEF Agrees, BlocksTrue
    <3>3. QED
      BY <3>1, <3>2
  <2>7. QED
    BY <2>3, <2>4, <2>5, <2>6 DEF Agrees
<1>3. QED
  BY <1>1, <1>2

LEMMA AgreesKept ==
  ASSUME Beside, Agrees, Next
  PROVE  Agrees'
<1>1. ASSUME NEW p \in Proc, Open(p) \/ Work(p)
      PROVE  Agrees'
  BY <1>1, OpenKeeps, ListSyncKeeps, ReconcileLandKeeps, UndoFailsKeeps, UndoWriteKeeps,
     LandFailsKeeps, LandKeeps, SaveWriteKeeps, SteadyMoves DEF Work, Save, Reconcile
<1>2. ASSUME NEW ip \in IP, Lapse(ip)
      PROVE  Agrees'
  <2>1. lapsed \subseteq lapsed' /\ UNCHANGED <<cfg, cache, lock, blocks, kernel, ps, up, history>>
    BY <1>2 DEF Lapse
  <2>2. AllLinked'
    BY <2>1 DEF Agrees, AllLinked, Linked, Current, Op, history
  <2>3. InStep'
    BY <2>1 DEF Agrees, InStep, InSync, Accepts, Replace, SectionOf, Op, history
  <2>4. CacheTrue' /\ BlocksTrue'
    BY <2>1 DEF Agrees, CacheTrue, BlocksTrue, history
  <2>5. QED
    BY <2>2, <2>3, <2>4 DEF Agrees
<1>3. CASE Stop
  <2>1. ~up' /\ \A p \in Proc : ps'[p] = Idle
    BY <1>3 DEF Stop
  <2>2. QED
    BY <2>1, IdleLinked DEF Agrees, AllLinked, InStep, CacheTrue, BlocksTrue
<1>4. CASE Startup
  <2>1. /\ \A p \in Proc : ps'[p].pc = "idle"
        /\ UNCHANGED cfg /\ cache' = cfg.rules /\ blocks' = {} /\ cfg \in Config
        /\ \/ kernel' = Current /\ source' = "config"
           \/ unsure' = {"config", "blocks"}
    BY <1>4 DEF Startup, Beside, Roles, TypeOK
  <2>2. AllLinked' /\ CacheTrue'
    BY <2>1 DEF AllLinked, Linked, Written, CacheTrue
  <2>3. InStep'
    <3>1. kernel' = Current /\ source' = "config" => InSync(cfg)'
      BY <2>1, Enforced
    <3>2. QED
      BY <2>1, <3>1 DEF InStep, Written
  <2>4. BlocksTrue'
    BY <2>1, Enforced DEF BlocksTrue
  <2>5. QED
    BY <2>2, <2>3, <2>4 DEF Agrees
<1>5. QED
  BY <1>1, <1>2, <1>3, <1>4 DEF Next

LEMMA Starts ==
  ASSUME Init
  PROVE  Beside /\ Agrees
<1>1. TypeOK
  BY FreshType, IdleType DEF Init, TypeOK, Flushed
<1>2. \A p \in Proc : ps[p] = Idle /\ ps[p].pc = "idle"
  BY DEF Init, Idle
<1>3. Roles /\ Apart
  BY <1>2, ConstantsAssumption DEF Init, Roles, Shape, Holding, Reconciling, Apart, Busy
<1>4. Agrees
  BY <1>2 DEF Init, Agrees, AllLinked, Linked, Written, InStep, CacheTrue, BlocksTrue
<1>5. QED
  BY <1>1, <1>3, <1>4 DEF Beside

LEMMA Stutters ==
  ASSUME Beside, Agrees, UNCHANGED vars
  PROVE  Beside' /\ Agrees'
<1>1. Beside'
  BY DEF vars, aiVars, history, Beside, TypeOK, Roles, Shape, Holding, Op, Apart, Busy
<1>2. AllLinked'
  BY DEF vars, history, Agrees, AllLinked, Linked, Current, Op
<1>3. InStep'
  BY DEF vars, history, Agrees, InStep, InSync, Accepts, Replace, SectionOf, Op
<1>4. CacheTrue' /\ BlocksTrue'
  BY DEF vars, history, aiVars, Agrees, CacheTrue, BlocksTrue
<1>5. QED
  BY <1>1, <1>2, <1>3, <1>4 DEF Agrees

LEMMA Always == Spec => [](Beside /\ Agrees)
<1>1. Beside /\ Agrees /\ [Next]_vars => (Beside /\ Agrees)'
  BY Stutters, AgreesKept, TypeKept, RolesKept, ApartKept DEF Beside
<1>2. QED
  BY <1>1, Starts, PTL DEF Spec

\* However saves and publications of one operation after the other, of rule changes side by
\* side and of the AI engine follow one another, and wherever nft or the disk fails or the
\* daemon stops: with nothing under way the kernel enforces what is stored.
THEOREM KernelAlwaysMatches == Spec => []KernelMatches
<1>1. Beside /\ Agrees => KernelMatches
  <2> SUFFICES ASSUME Beside, Agrees, Quiet
               PROVE  /\ Loaded => kernel.rules = cfg.rules /\ kernel.settings = cfg.settings
                      /\ Loaded /\ source = "config" => kernel.nat = EffectiveNat(cfg.nat)
                      /\ "cache" \notin unsure => cache = cfg.rules
    BY DEF KernelMatches
  <2>1. "config" \notin unsure => InSync(cfg)
    BY DEF Quiet, Agrees, InStep, Written
  <2>2. "cache" \notin unsure => cache = cfg.rules
    BY DEF Quiet, Agrees, CacheTrue
  <2>3. QED
    BY <2>1, <2>2 DEF Loaded, InSync
<1>2. QED
  BY <1>1, Always, PTL

\* What the AI engine reports as blocked is in the kernel while its publication is the last
\* one, and the kernel blocks nothing that the engine has forgotten.
THEOREM BlocksAlwaysPublished == Spec => []BlocksPublished
<1>1. Beside /\ Agrees => BlocksPublished
  BY DEF Quiet, Agrees, BlocksTrue, BlocksPublished, Reconciling
<1>2. QED
  BY <1>1, Always, PTL
-----------------------------------------------------------------------------
(* The ledger of the rule list.  Where no other section is saved, where no  *)
(* write of the configuration fails and the daemon is not stopped, the      *)
(* firewall_rules lock is all that the changes of the rule list need.       *)

Others == {"settings", "nat", "aliases", "bootstrap"}
Pending == {"read", "land", "undo", "rewrite"}
Edited(p) == OneEdit(ps[p].old.rules, ps[p].new.rules)

Ledger ==
  /\ acked \cap Rejected = {}
  /\ \A p \in Proc :
       /\ ps[p].pc # "idle" => Op(p) \notin Others
       /\ ps[p].pc \in {"load", "write"} => ps[p].old.rules = cfg.rules /\ Edited(p)
       /\ ps[p].pc \in Pending =>
            ps[p].old.rules = acked /\ ps[p].new.rules = cfg.rules /\ Edited(p)
       /\ ps[p].pc \in {"land", "reland"} => ps[p].rs.rules = cfg.rules
  /\ (\A p \in Proc : ps[p].pc \notin Pending) => cfg.rules = acked

\* The holder of the lock is the only one that has a change of the rules under way.
LEMMA OnePending ==
  ASSUME Roles, Ledger, NEW p \in Proc, Holding(p), NEW q \in Proc, q # p
  PROVE  ps[q].pc \notin Pending \union {"capture", "load", "write", "reread", "reland"}
<1>1. ~Holding(q) /\ Shape(q)
  BY DEF Roles
<1>2. SUFFICES ASSUME ps[q].pc \in Pending \union {"capture", "load", "write", "reread", "reland"}
               PROVE  FALSE
  OBVIOUS
<1>3. Op(q) \notin Others /\ Op(q) \notin RuleOps
  BY <1>1, <1>2 DEF Ledger, Pending, Holding
<1>4. Op(q) \in Saves \union Republish
  BY <1>1, <1>2 DEF Shape, Pending
<1>5. QED
  BY <1>3, <1>4 DEF Saves, Republish, RuleOps, Others

\* A step of p that leaves the rules and what is acknowledged alone.
LEMMA LedgerSame ==
  ASSUME TypeOK, Ledger, NEW p \in Proc, \A q \in Proc : q # p => ps'[q] = ps[q],
         cfg'.rules = cfg.rules, UNCHANGED acked,
         ps'[p].pc # "idle" => Op(p)' \notin Others,
         ps'[p].pc \notin {"load", "write", "land", "reland"},
         ps[p].pc \in Pending <=> ps'[p].pc \in Pending,
         ps'[p].pc \in Pending => ps'[p].old = ps[p].old /\ ps'[p].new = ps[p].new
  PROVE  Ledger'
<1>1. \A q \in Proc : ps'[q].pc \in Pending <=> ps[q].pc \in Pending
  OBVIOUS
<1>2. \A q \in Proc : q # p => Edited(q)' = Edited(q) /\ Op(q)' = Op(q)
  BY DEF Edited, Op
<1>3. Op(p)' = ps'[p].op /\ (ps'[p].pc \in Pending => Edited(p)' = Edited(p))
  BY DEF Edited, Op
<1>4. QED
  BY <1>1, <1>2, <1>3 DEF Ledger

LEMMA LedgerSaves ==
  ASSUME TypeOK, Roles, Ledger, Events \subseteq {"nft"}, NEW p \in Proc, Save(p)
  PROVE  Ledger'
<1> USE DEF At, Op
<1>0. /\ ps \in [Proc -> Task] /\ ps[p] \in Task /\ cfg \in Config
      /\ ps[p].old \in Config /\ ps[p].new \in Config /\ ps[p].snap \in Config
  BY DEF TypeOK, Task
<1>1. \A q \in Proc : q # p => ps'[q] = ps[q]
  BY Worked DEF Work
<1>2. ps[p].pc # "idle" /\ Op(p) \notin Others /\ Shape(p)
  BY Worked DEF Work, Ledger, Roles
<1>3. Op(p) # "bootstrap" /\ (Op(p) \in Saves => Op(p) \in RuleOps)
  BY <1>2 DEF Others, Saves, RuleOps
<1>4. Op(p) \in RuleOps /\ ps[p].pc # "lock" =>
        \A q \in Proc : q # p => ps[q].pc \notin Pending
  BY <1>2, OnePending DEF Holding
<1>5. CASE Acquire(p)
  <2>1. ps'[p].pc = "capture" /\ ps'[p].op = ps[p].op /\ ps[p].pc = "lock"
    BY <1>0, <1>5, Jump DEF Acquire
  <2>2. QED
    BY <1>1, <1>2, <1>5, <2>1, LedgerSame DEF Acquire, history, Pending
<1>6. CASE Capture(p)
  <2>1. PICK new \in Config :
          /\ Op(p) \in RuleOps => OneEdit(cfg.rules, new.rules)
          /\ Set(p, IF Op(p) = "bootstrap"
                    THEN [ps[p] EXCEPT !.pc = "write", !.old = cfg, !.new = new, !.snap = cfg]
                    ELSE [ps[p] EXCEPT !.pc = "load", !.old = Replace(Fresh, Op(p), cfg),
                                       !.new = Replace(Fresh, Op(p), new)])
    BY <1>6 DEF Capture
  <2>2. PICK r : r = [ps[p] EXCEPT !.pc = "load", !.old = Replace(Fresh, Op(p), cfg),
                                   !.new = Replace(Fresh, Op(p), new)]
    OBVIOUS
  <2>3. /\ r.pc = "load" /\ r.op = ps[p].op /\ r.old = Replace(Fresh, Op(p), cfg)
        /\ r.new = Replace(Fresh, Op(p), new)
    BY <1>0, <2>2 DEF Task
  <2>4. ps[p].pc = "capture" /\ Op(p) \in RuleOps /\ UNCHANGED <<cfg, acked>>
    BY <1>2, <1>3, <1>6 DEF Capture, Shape, history
  <2>5. ps'[p] = r
    BY <1>0, <1>3, <2>1, <2>2, Turn
  <2>6. r.old.rules = cfg.rules /\ r.new.rules = new.rules
    BY <1>0, <2>3, <2>4, FreshType, ReplaceRules
  <2>7. ps'[p].old.rules = cfg.rules /\ Edited(p)'
    BY <2>1, <2>4, <2>5, <2>6 DEF Edited
  <2>8. \A q \in Proc : q # p => (Edited(q)' <=> Edited(q))
    BY <1>1 DEF Edited
  <2>9. \A q \in Proc : ps[q].pc \notin Pending /\ ps'[q].pc \notin Pending
    BY <1>1, <1>4, <2>3, <2>4, <2>5 DEF Pending
  <2>10. QED
    BY <1>1, <1>2, <2>3, <2>4, <2>5, <2>7, <2>8, <2>9 DEF Ledger
<1>7. CASE SaveLoad(p)
  <2>1. PICK r : r = [ps[p] EXCEPT !.pc = "write", !.snap = cfg]
    OBVIOUS
  <2>2. r.pc = "write" /\ r.op = ps[p].op /\ r.old = ps[p].old /\ r.new = ps[p].new
    BY <1>0, <2>1 DEF Task
  <2>3. ps'[p] = r /\ ps[p].pc = "load" /\ UNCHANGED <<cfg, acked>>
    BY <1>0, <1>7, <2>1, Turn DEF SaveLoad, history
  <2>4. \A q \in Proc : Edited(q)' <=> Edited(q)
    BY <1>1, <2>2, <2>3 DEF Edited
  <2>5. \A q \in Proc : ps'[q].pc \in Pending <=> ps[q].pc \in Pending
    BY <1>1, <2>2, <2>3 DEF Pending
  <2>6. QED
    BY <1>1, <1>2, <2>2, <2>3, <2>4, <2>5 DEF Ledger
<1>8. CASE SaveWrite(p)
  <2>1. /\ ps[p].pc = "write" /\ UNCHANGED acked
        /\ cfg' = Replace(ps[p].snap, Op(p), ps[p].new)
        /\ Goto(p, IF Op(p) = "bootstrap" THEN "cache" ELSE "read")
    BY <1>8 DEF SaveWrite, history
  <2>2. /\ ps'[p].pc = "read" /\ ps'[p].op = ps[p].op
        /\ ps'[p].old = ps[p].old /\ ps'[p].new = ps[p].new
    BY <1>0, <1>3, <2>1, Jump
  <2>3. Op(p) \in RuleOps /\ cfg'.rules = ps[p].new.rules
    BY <1>0, <1>2, <1>3, <2>1, ReplaceLaws DEF Shape
  <2>4. \A q \in Proc : ps[q].pc \notin Pending
    BY <1>4, <2>1, <2>3 DEF Pending
  <2>5. ps[p].old.rules = acked /\ Edited(p)
    BY <2>1, <2>4 DEF Ledger
  <2>6. Edited(p)'
    BY <2>2, <2>5 DEF Edited
  <2>7. \A q \in Proc : q # p =>
          ps'[q].pc \notin Pending \union {"capture", "load", "write", "reread", "reland"}
    BY <1>1, <2>1, <2>3, OnePending DEF Holding
  <2>8. \A q \in Proc : q # p => ps'[q].pc # "land"
    BY <2>7 DEF Pending
  <2>9. QED
    BY <1>1, <1>2, <2>1, <2>2, <2>3, <2>5, <2>6, <2>7, <2>8 DEF Ledger, Pending
<1>9. CASE ApplyRead(p)
  <2>1. PICK l : /\ Set(p, [ps[p] EXCEPT !.pc = l, !.rs = Current])
                 /\ \/ ps[p].pc = "read" /\ l = "land"
                    \/ ps[p].pc = "reread" /\ l = "reland"
                 /\ UNCHANGED <<cfg, acked>>
    BY <1>9 DEF ApplyRead, history
  <2>2. PICK r : r = [ps[p] EXCEPT !.pc = l, !.rs = Current]
    OBVIOUS
  <2>3. /\ r.pc = l /\ r.rs.rules = cfg.rules /\ r.op = ps[p].op /\ r.old = ps[p].old
        /\ r.new = ps[p].new
    BY <1>0, <2>2 DEF Task, Current, Generate
  <2>4. ps'[p] = r
    BY <1>0, <2>1, <2>2, Turn
  <2>5. \A q \in Proc : Edited(q)' <=> Edited(q)
    BY <1>1, <2>3, <2>4 DEF Edited
  <2>6. \A q \in Proc : ps'[q].pc \in Pending <=> ps[q].pc \in Pending
    BY <1>1, <2>1, <2>3, <2>4 DEF Pending
  <2>7. QED
    BY <1>1, <1>2, <2>1, <2>3, <2>4, <2>5, <2>6 DEF Ledger, Pending
<1>10. CASE Land(p)
  <2>1. /\ ps[p].pc = "land" /\ ps[p].rs.rules \cap Rejected = {} /\ UNCHANGED cfg
        /\ acked' = IF Op(p) \in RuleOps
                    THEN (acked \union ps[p].new.rules) \ (ps[p].old.rules \ ps[p].new.rules)
                    ELSE acked
    BY <1>10 DEF Land, Accepts
  <2>2. ps'[p] = Idle /\ ps'[p].pc = "idle"
    BY <1>0, <1>10, Turn DEF Land, Finish, Idle
  <2>3. Op(p) \in RuleOps
    BY <1>2, <1>3, <2>1 DEF Shape
  <2>4. /\ ps[p].old.rules = acked /\ ps[p].new.rules = cfg.rules
        /\ ps[p].rs.rules = cfg.rules
    BY <2>1 DEF Ledger, Pending
  <2>5. acked' = cfg.rules
    BY <2>1, <2>3, <2>4
  <2>6. \A q \in Proc : q # p =>
          ps'[q].pc \notin Pending \union {"capture", "load", "write", "reread", "reland"}
    BY <1>1, <2>1, <2>3, OnePending DEF Holding
  <2>7. QED
    BY <1>1, <2>1, <2>2, <2>4, <2>5, <2>6 DEF Ledger, Pending
<1>11. CASE LandFails(p)
  <2>1. ps[p].pc = "land" /\ Op(p) \in RuleOps /\ UNCHANGED <<cfg, acked>>
    BY <1>2, <1>3, <1>11 DEF LandFails, Shape, history
  <2>2. Goto(p, "undo")
    BY <1>11, <2>1 DEF LandFails, Unrestored, RuleOps
  <2>3. /\ ps'[p].pc = "undo" /\ ps'[p].op = ps[p].op
        /\ ps'[p].old = ps[p].old /\ ps'[p].new = ps[p].new
    BY <1>0, <2>2, Jump
  <2>4. QED
    BY <1>1, <1>2, <2>1, <2>3, LedgerSame DEF Pending
<1>12. CASE UndoLoad(p)
  <2>1. PICK r : r = [ps[p] EXCEPT !.pc = "rewrite", !.snap = cfg]
    OBVIOUS
  <2>2. r.pc = "rewrite" /\ r.op = ps[p].op /\ r.old = ps[p].old /\ r.new = ps[p].new
    BY <1>0, <2>1 DEF Task
  <2>3. ps'[p] = r /\ ps[p].pc = "undo" /\ UNCHANGED <<cfg, acked>>
    BY <1>0, <1>12, <2>1, Turn DEF UndoLoad, history
  <2>4. QED
    BY <1>1, <1>2, <2>2, <2>3, LedgerSame DEF Pending
<1>13. CASE UndoWrite(p)
  <2>1. ps[p].pc = "rewrite" /\ UNCHANGED acked /\ Op(p) \in RuleOps
    BY <1>2, <1>3, <1>13 DEF UndoWrite, Shape, history
  <2>2. cfg'.rules = ps[p].old.rules
    BY <1>0, <1>3, <1>13, <2>1, ReplaceLaws DEF UndoWrite
  <2>3. ps'[p].pc = "idle" \/ (ps'[p].pc = "reread" /\ ps'[p].op = ps[p].op)
    <3>1. Goto(p, "reread") \/ Set(p, Idle)
      BY <1>3, <1>13 DEF UndoWrite, AfterUndo, Finish
    <3>2. Idle.pc = "idle"
      BY DEF Idle
    <3>3. CASE Goto(p, "reread")
      BY <1>0, <3>3, Jump
    <3>4. CASE Set(p, Idle)
      <4>1. ps'[p] = Idle
        BY <1>0, <3>4, Turn
      <4>2. QED
        BY <3>2, <4>1
    <3>5. QED
      BY <3>1, <3>3, <3>4
  <2>4. ps[p].old.rules = acked
    BY <2>1 DEF Ledger, Pending
  <2>5. \A q \in Proc : q # p =>
          ps'[q].pc \notin Pending \union {"capture", "load", "write", "reread", "reland"}
    BY <1>1, <2>1, OnePending DEF Holding
  <2>6. QED
    BY <1>1, <1>2, <2>1, <2>2, <2>3, <2>4, <2>5 DEF Ledger, Pending
<1>14. CASE Reland(p)
  <2>1. ps[p].pc = "reland" /\ UNCHANGED <<cfg, acked>>
    BY <1>14 DEF Reland
  <2>2. ps'[p].pc = "idle"
    BY <1>0, <1>14, Turn DEF Reland, Finish, Idle
  <2>3. QED
    BY <1>1, <2>1, <2>2, LedgerSame DEF Pending
<1>15. ~SaveFails(p) /\ ~UndoFails(p) /\ ~BootstrapCache(p)
  BY <1>2, <1>3 DEF SaveFails, UndoFails, BootstrapCache, Shape
<1>16. QED
  BY <1>5, <1>6, <1>7, <1>8, <1>9, <1>10, <1>11, <1>12, <1>13, <1>14, <1>15 DEF Save

LEMMA LedgerKept ==
  ASSUME Ops \cap Others = {}, Events \subseteq {"nft"}, TypeOK, Roles, Ledger, Next
  PROVE  Ledger'
<1> USE DEF At, Op
<1>0. ps \in [Proc -> Task]
  BY DEF TypeOK
<1>1. ASSUME NEW p \in Proc, Open(p)
      PROVE  Ledger'
  <2>1. ASSUME NEW op, NEW l, Start(p, op, l)
        PROVE  ps'[p].op = op
    <3>1. [Idle EXCEPT !.pc = l, !.op = op].op = op
      BY DEF Idle
    <3>2. QED
      BY <1>0, <2>1, <3>1, Turn DEF Start
  <2>2. ps'[p].op \notin Others
    <3>1. CASE Begin(p)
      BY <2>1, <3>1 DEF Begin, RuleOps, Others
    <3>2. CASE ListLoad(p)
      <4>1. [Idle EXCEPT !.pc = "sync", !.snap = Replace(Fresh, "save_rules", cfg)].op = "list"
        BY DEF Idle
      <4>2. QED
        BY <1>0, <3>2, <4>1, Turn DEF ListLoad, Others
    <3>3. CASE Expire(p) \/ \E ip \in IP : Block(p, ip) \/ Unblock(p, ip)
      <4>1. PICK op \in {"block", "unblock", "expire"} : Start(p, op, "gather")
        BY <3>3 DEF Block, Unblock, Expire
      <4>2. QED
        BY <2>1, <4>1 DEF Others
    <3>4. QED
      BY <1>1, <3>1, <3>2, <3>3 DEF Open
  <2>3. /\ UNCHANGED <<cfg, acked>> /\ ps[p].pc = "idle" /\ \A q \in Proc : q # p => ps'[q] = ps[q]
        /\ ps'[p].pc \in {"lock", "capture", "gather", "sync"}
    BY <1>1, Opened
  <2>4. QED
    BY <2>2, <2>3, LedgerSame DEF Pending
<1>2. ASSUME NEW p \in Proc, ListSync(p) \/ Reconcile(p)
      PROVE  Ledger'
  <2>1. /\ \A q \in Proc : q # p => ps'[q] = ps[q]
        /\ ps[p].pc # "idle" /\ (ps'[p] = Idle \/ ps'[p].op = ps[p].op)
    BY <1>2, Worked DEF Work
  <2>2. UNCHANGED <<cfg, acked>> /\ ps[p].pc \in Reconciling \union {"sync"}
    BY <1>2 DEF ListSync, Reconcile, ReconcileLoad, ReconcileList, ReconcileLand, history,
                Reconciling
  <2>3. ps'[p].pc \in {"idle", "blocks", "publish"}
    <3>1. CASE ListSync(p) \/ ReconcileLand(p)
      BY <1>0, <3>1, Turn DEF ListSync, ReconcileLand, Idle
    <3>2. CASE ReconcileLoad(p)
      <4>1. [ps[p] EXCEPT !.pc = "blocks", !.snap = cfg].pc = "blocks"
        BY <1>0 DEF Task
      <4>2. QED
        BY <1>0, <3>2, <4>1, Turn DEF ReconcileLoad
    <3>3. CASE ReconcileList(p)
      <4>1. PICK s : Set(p, [ps[p] EXCEPT !.pc = "publish", !.rs = s])
        BY <3>3 DEF ReconcileList
      <4>2. [ps[p] EXCEPT !.pc = "publish", !.rs = s].pc = "publish"
        BY <1>0 DEF Task
      <4>3. QED
        BY <1>0, <4>1, <4>2, Turn
    <3>4. QED
      BY <1>2, <3>1, <3>2, <3>3 DEF Reconcile
  <2>4. ps'[p].pc # "idle" => Op(p)' \notin Others
    BY <2>1 DEF Ledger, Idle
  <2>5. QED
    BY <2>1, <2>2, <2>3, <2>4, LedgerSame DEF Pending, Reconciling
<1>3. ASSUME UNCHANGED <<cfg, ps, acked>>
      PROVE  Ledger'
  BY <1>3 DEF Ledger, Edited
<1>4. QED
  BY <1>1, <1>2, <1>3, LedgerSaves DEF Next, Work, Lapse, Startup, Stop, history

\* Changes of the rule list, publications of the AI engine and listings, side by side, with
\* nft failing or refusing at any of them: none of the acknowledged changes is lost, and no
\* refused one stays behind.
THEOREM AckedAlwaysKept ==
  ASSUME Ops \cap {"settings", "nat", "aliases", "bootstrap"} = {}, Events \subseteq {"nft"}
  PROVE  Spec => []AckedKept
<1>1. Init => Ledger
  <2>1. Init => \A p \in Proc : ps[p].pc = "idle"
    BY DEF Init, Idle
  <2>2. Fresh.rules = {}
    BY DEF Fresh
  <2>3. QED
    BY <2>1, <2>2 DEF Init, Ledger, Pending
<1>2. TypeOK /\ Roles /\ Ledger /\ [Next]_vars => Ledger'
  BY LedgerKept DEF vars, history, Ledger, Edited, Op, Others
<1>3. Ledger => AckedKept
  BY DEF Ledger, AckedKept, Quiet, Pending, Accepts
<1>4. Beside => TypeOK /\ Roles
  BY DEF Beside
<1>5. QED
  BY <1>1, <1>2, <1>3, <1>4, Always, PTL DEF Spec

\* Where nothing but changes of the rule list is under way, the kernel enforces the list that
\* is acknowledged throughout, and the two change together by one accepted change at a time.
THEOREM RulesAlwaysCommitAtomically ==
  ASSUME Ops \subseteq RuleOps, Events \subseteq {"nft"}
  PROVE  Spec => RulesCommitAtomically
<1> DEFINE Enforces == /\ kernel.rules = acked
                       /\ \A p \in Proc : ps[p].pc # "idle" => Op(p) \in RuleOps
<1>1. Init => Ledger /\ Enforces
  <2>1. Init => \A p \in Proc : ps[p].pc = "idle"
    BY DEF Init, Idle
  <2>2. Fresh.rules = {} /\ Flushed.rules = {}
    BY DEF Fresh, Flushed
  <2>3. QED
    BY <2>1, <2>2 DEF Init, Ledger, Pending
<1>2. Ops \cap Others = {}
  BY DEF Others, RuleOps
<1>3. TypeOK /\ Roles /\ Ledger /\ [Next]_vars => Ledger'
  BY <1>2, LedgerKept DEF vars, history, Ledger, Edited, Op
<1>4. ASSUME TypeOK, Roles, Ledger, Enforces, [Next]_vars
      PROVE  Enforces' /\ [Commit!Next]_(Commit!vars)
  <2> USE DEF At, Op
  <2>0. ps \in [Proc -> Task] /\ \A p \in Proc : ps[p] \in Task
    BY <1>4 DEF TypeOK
  <2>1. ASSUME NEW p \in Proc, Open(p)
        PROVE  Enforces' /\ UNCHANGED <<kernel, acked>>
    <3>1. /\ UNCHANGED <<kernel, acked>> /\ \A q \in Proc : q # p => ps'[q] = ps[q]
      BY <1>4, <2>1, Opened
    <3>2. PICK op, l : op \in RuleOps /\ Start(p, op, l)
      BY <1>4, <2>1 DEF Open, Begin, ListLoad, Expire, Block, Unblock, RuleOps
    <3>3. [Idle EXCEPT !.pc = l, !.op = op].op = op
      BY DEF Idle
    <3>4. ps'[p].op \in RuleOps
      BY <2>0, <3>2, <3>3, Turn DEF Start
    <3>5. QED
      BY <1>4, <3>1, <3>4
  <2>2. ASSUME NEW p \in Proc, Work(p)
        PROVE  /\ \A q \in Proc : ps'[q].pc # "idle" => Op(q)' \in RuleOps
               /\ Op(p) \in RuleOps /\ ps[p].pc # "idle"
    <3>1. /\ \A q \in Proc : q # p => ps'[q] = ps[q]
          /\ ps[p].pc # "idle" /\ (ps'[p] = Idle \/ ps'[p].op = ps[p].op)
      BY <1>4, <2>2, Worked
    <3>2. QED
      BY <1>4, <3>1 DEF Idle
  <2>3. ASSUME NEW p \in Proc, Land(p)
        PROVE  Enforces' /\ Commit!Next
    <3>1. /\ ps[p].pc = "land" /\ ps[p].rs.rules \cap Rejected = {} /\ kernel' = ps[p].rs
          /\ acked' = IF Op(p) \in RuleOps
                      THEN (acked \union ps[p].new.rules) \ (ps[p].old.rules \ ps[p].new.rules)
                      ELSE acked
      BY <2>3 DEF Land, Accepts
    <3>2. Op(p) \in RuleOps /\ \A q \in Proc : ps'[q].pc # "idle" => Op(q)' \in RuleOps
      BY <2>2, <2>3 DEF Work, Save
    <3>3. /\ ps[p].old.rules = acked /\ ps[p].new.rules = cfg.rules /\ Edited(p)
          /\ ps[p].rs.rules = cfg.rules
      BY <1>4, <3>1 DEF Ledger, Pending
    <3>4. acked' = cfg.rules /\ kernel'.rules = cfg.rules /\ OneEdit(acked, cfg.rules)
      BY <3>1, <3>2, <3>3 DEF Edited
    <3>5. cfg.rules \in SUBSET (Rule \ Rejected)
      BY <1>4, <3>1, <3>3 DEF TypeOK, Config
    <3>6. Commit!OneEdit(acked, cfg.rules)
      BY <3>4 DEF Commit!OneEdit, OneEdit, Cardinality, Commit!Cardinality
    <3>7. Commit!Commit(cfg.rules)
      BY <3>4, <3>6 DEF Commit!Commit
    <3>8. QED
      BY <3>2, <3>4, <3>5, <3>7 DEF Commit!Next
  <2>4. ASSUME NEW p \in Proc, Reland(p)
        PROVE  Enforces' /\ kernel'.rules = kernel.rules /\ UNCHANGED acked
    <3>1. /\ ps[p].pc = "reland" /\ UNCHANGED acked
          /\ kernel' = ps[p].rs \/ UNCHANGED kernel
      BY <2>4 DEF Reland
    <3>2. Op(p) \in RuleOps /\ \A q \in Proc : ps'[q].pc # "idle" => Op(q)' \in RuleOps
      BY <2>2, <2>4 DEF Work, Save
    <3>3. \A q \in Proc : ps[q].pc \notin Pending
      <4>1. Holding(p)
        BY <3>1, <3>2 DEF Holding
      <4>2. QED
        BY <1>4, <3>1, <4>1, OnePending DEF Pending
    <3>4. ps[p].rs.rules = acked
      BY <1>4, <3>1, <3>3 DEF Ledger
    <3>5. QED
      BY <1>4, <3>1, <3>2, <3>4
  <2>5. ASSUME NEW p \in Proc, Work(p), ~Land(p), ~Reland(p)
        PROVE  Enforces' /\ UNCHANGED <<kernel, acked>>
    <3>1. Op(p) \in RuleOps /\ \A q \in Proc : ps'[q].pc # "idle" => Op(q)' \in RuleOps
      BY <2>2, <2>5
    <3>2. ~ReconcileLand(p)
      BY <1>4, <3>1 DEF Roles, Shape, ReconcileLand, RuleOps, Reconciling
    <3>3. UNCHANGED <<kernel, acked>>
      BY <2>5, <3>2 DEF Work, Save, Reconcile, Acquire, Capture, SaveLoad, SaveWrite, SaveFails,
           BootstrapCache, ApplyRead, LandFails, UndoLoad, UndoWrite, UndoFails, ListSync,
           ReconcileLoad, ReconcileList, history
    <3>4. QED
      BY <1>4, <3>1, <3>3
  <2>6. ASSUME Startup
        PROVE  Enforces' /\ kernel'.rules = kernel.rules /\ UNCHANGED acked
    <3>1. /\ UNCHANGED <<ps, acked>> /\ (kernel' = Current \/ UNCHANGED kernel)
          /\ \A p \in Proc : ps[p].pc = "idle"
      BY <1>4, <2>6 DEF Startup, Roles
    <3>2. Current.rules = acked
      BY <1>4, <3>1 DEF Current, Generate, Ledger, Pending
    <3>3. QED
      BY <1>4, <3>1, <3>2
  <2>7. ASSUME UNCHANGED <<ps, kernel, acked>>
        PROVE  Enforces'
    BY <1>4, <2>7
  <2>8. QED
    BY <1>4, <2>1, <2>3, <2>4, <2>5, <2>6, <2>7
       DEF Next, Lapse, Stop, history, vars, Commit!vars
<1>5. Init => Commit!Init
  BY DEF Init, Flushed, Commit!Init
<1>6. Beside => TypeOK /\ Roles
  BY DEF Beside
<1> HIDE DEF Enforces
<1>7. QED
  BY <1>1, <1>3, <1>4, <1>5, <1>6, Always, PTL DEF Spec, RulesCommitAtomically, Commit!Spec
=============================================================================
