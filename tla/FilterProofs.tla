----------------------------- MODULE FilterProofs -----------------------------
(* Theorems about CaptivePortal and about PacketFilter, for any clients,       *)
(* packets, rules and requests, any number of changes of the configuration,    *)
(* and any faults.  The portal's come first.                                   *)
EXTENDS CaptivePortal, PacketFilter, FiniteSetTheorems, SequenceTheorems, WellFoundedInduction,
        TLAPS

-----------------------------------------------------------------------------
(* What an operation holds at each of its steps.                           *)

Editing == {"authorize", "create", "logout", "revoke", "status", "update", "reap"}

Shape(r) ==
  /\ r \in OpRecord /\ OnePerClient(r.list)
  /\ r.pc = "idle" => r = Idle
  /\ r.pc = "savecfg" => r.op \in {"authorize", "update"} /\ ~r.dirty
  /\ r.pc \in {"load", "save"} => r.op \in Editing
  /\ r.pc = "load" => (r.dirty => r.op = "update")
  /\ r.pc = "load" /\ r.op = "status" => \E c \in Client : r.drop = {c}
  /\ r.pc = "save" /\ r.op = "status" => ~r.dirty
  /\ r.op \in {"authorize", "create"} => r.new \in Session
  /\ r.op \in {"authorize", "create"} /\ r.pc \in {"savecfg", "load"} => r.drop = {r.new.client}

WellFormed ==
  /\ cfg \in Section
  /\ file \in SUBSET Session /\ OnePerClient(file)
  /\ kernel \in [gate : BOOLEAN, pass : SUBSET Client]
  /\ granted \in Tally /\ raced \in BOOLEAN /\ troubled \in BOOLEAN
  /\ ps \in [Proc -> OpRecord] /\ \A p \in Proc : Shape(ps[p])

\* The sessions somebody holds; an id belongs to one client.
Held == Used \ {NoSession}
Owned == \A s, t \in Held : s.id = t.id => s.client = t.client

\* Who runs alone runs alone, and without trouble whoever runs does.
Lone == \A p, q \in Proc : ps[p].alone /\ q # p => Busy(p) /\ ~Busy(q)
Calm == ~troubled => \A p \in Proc : Busy(p) => ps[p].alone

\* Nothing was saved that is not published: the kernel lets through whom it should.
Follows ==
  /\ kernel.gate = cfg.on
  /\ Rules(cfg, Pruned(cfg, file)).pass \subseteq kernel.pass
  /\ kernel.pass \subseteq Rules(cfg, file).pass
InLine == ~troubled /\ (\A p \in Proc : ~ps[p].dirty) => Follows

\* The list of p has the sessions of the file, and no more of them are active.
Twin(l, s) == l.id = s.id /\ l.client = s.client
Mirrors(p) ==
  /\ \A l \in ps[p].list : \E s \in file :
       Twin(l, s) /\ (SessionActive(cfg, l) => SessionActive(cfg, s))
  /\ \A s \in file : \E l \in ps[p].list : Twin(l, s)

\* The list of p has sessions of the file only, and all that are active.
Covers(p) ==
  /\ \A l \in ps[p].list : \E s \in file : Twin(l, s)
  /\ \A s \in Pruned(cfg, file) : \E l \in ps[p].list : Twin(l, s)

\* What p, running alone, knows of the files it has read.
Knows(p) ==
  /\ At(p, "savecfg") /\ ps[p].op = "authorize" =>
       ps[p].cfg.on = cfg.on /\ ps[p].cfg.idle = cfg.idle
  /\ At(p, "load") /\ ps[p].op = "status" => ps[p].cfg = cfg
  /\ At(p, "save") /\ ps[p].op = "status" => Mirrors(p)
  /\ ps[p].pc \in {"sessions", "prune", "land"} => ps[p].cfg = cfg
  /\ ps[p].pc \in {"prune", "land"} => Covers(p)
Informed == \A p \in Proc : ps[p].alone => Knows(p)

Gated == WellFormed /\ Owned /\ Lone /\ Calm /\ InLine /\ Informed

LEMMA IdleShape == Shape(Idle)
<1> DEFINE none == Idle
<1>1. Fresh \in Section
  BY PortalAssumption DEF Fresh, Section
<1>2. Idle \in OpRecord
  BY <1>1 DEF Idle, OpRecord, Operation, Label
<1>3. OnePerClient(Idle.list)
  BY DEF Idle, OnePerClient
<1>4. QED
  BY <1>2, <1>3 DEF Shape, Idle

LEMMA PortalStarts == Init => Gated
<1> SUFFICES ASSUME Init PROVE Gated
  OBVIOUS
<1>1. PICK v \in BOOLEAN, i \in BOOLEAN : cfg = [Fresh EXCEPT !.voucher = v, !.idle = i]
  BY DEF Init
<1>2. cfg \in Section
  <2>1. cfg = [on |-> FALSE, voucher |-> v, idle |-> i, uses |-> 0]
    BY <1>1 DEF Fresh
  <2>3. 0 \in 0..MaxUses
    BY PortalAssumption
  <2>2. QED
    BY <2>1, <2>3 DEF Section
<1>3. /\ file = {} /\ kernel = Flushed /\ granted = 0 /\ raced = FALSE /\ troubled = FALSE
      /\ ps \in [Proc -> OpRecord] /\ \A p \in Proc : ps[p] = Idle
  BY IdleShape DEF Init, Shape
<1>4. WellFormed
  <2>1. OnePerClient({})
    BY DEF OnePerClient
  <2>2. kernel \in [gate : BOOLEAN, pass : SUBSET Client]
    BY <1>3 DEF Flushed
  <2>3. granted \in Tally
    BY <1>3, PortalAssumption DEF Tally
  <2>4. QED
    BY <1>2, <1>3, <2>1, <2>2, <2>3, IdleShape DEF WellFormed
<1>5. Owned
  BY <1>3 DEF Owned, Held, Used, Idle
<1>6. Lone /\ Calm /\ Informed
  BY <1>3 DEF Lone, Calm, Informed, Busy, At, Idle
<1>7. InLine
  BY <1>1, <1>3 DEF InLine, Follows, Flushed, Fresh, Rules
<1>8. QED
  BY <1>4, <1>5, <1>6, <1>7 DEF Gated

-----------------------------------------------------------------------------
(* One operation makes a step.                                             *)

\* The record of p becomes r, which goes on or has ended.
Steps(p, r) ==
  /\ Busy(p) /\ Set(p, r) /\ Shape(r)
  /\ r = Idle \/ (r.pc # "idle" /\ r.alone = ps[p].alone)
  /\ troubled => troubled' \/ (ps[p].alone /\ r = Idle)
  /\ troubled' \in BOOLEAN

LEMMA SetForm ==
  ASSUME WellFormed, NEW p \in Proc, NEW r, Steps(p, r)
  PROVE  /\ ps' \in [Proc -> OpRecord] /\ ps'[p] = r
         /\ \A q \in Proc : q # p => ps'[q] = ps[q]
         /\ \A q \in Proc : Shape(ps'[q])
BY DEF WellFormed, Steps, Set, Shape

LEMMA SetOrder ==
  ASSUME WellFormed, Lone, Calm, NEW p \in Proc, NEW r, Steps(p, r)
  PROVE  Lone' /\ Calm'
<1> USE SetForm
<1>1. ps[p].pc # "idle" /\ ~Idle.alone /\ Idle.pc = "idle"
  BY DEF Steps, Busy, At, Idle
<1>2. /\ ps'[p] = r /\ \A q \in Proc : q # p => ps'[q] = ps[q]
      /\ r = Idle \/ (r.pc # "idle" /\ r.alone = ps[p].alone)
      /\ troubled => troubled' \/ (ps[p].alone /\ r = Idle)
  BY DEF Steps
<1>3. Lone'
  <2> SUFFICES ASSUME NEW x \in Proc, NEW q \in Proc, ps'[x].alone, q # x
               PROVE  ps'[x].pc # "idle" /\ ps'[q].pc = "idle"
    BY DEF Lone, Busy, At
  <2>1. ps[x].alone
    BY <1>1, <1>2
  <2>2. ps[x].pc # "idle" /\ ps[q].pc = "idle"
    BY <2>1 DEF Lone, Busy, At
  <2>3. QED
    BY <1>1, <1>2, <2>2
<1>4. Calm'
  <2> SUFFICES ASSUME ~troubled', NEW q \in Proc, ps'[q].pc # "idle"
               PROVE  ps'[q].alone
    BY DEF Calm, Busy, At
  <2>1. CASE ~troubled
    BY <2>1, <1>1, <1>2 DEF Calm, Busy, At
  <2>2. CASE troubled
    BY <2>2, <1>1, <1>2 DEF Lone, Busy, At
  <2>3. QED
    BY <2>1, <2>2
<1>5. QED
  BY <1>3, <1>4

\* Nobody else runs alone, so only p has to know what it has read.
LEMMA SetKnowledge ==
  ASSUME WellFormed, Lone, NEW p \in Proc, NEW r, Steps(p, r),
         r.alone /\ ps[p].alone => Knows(p)'
  PROVE  Informed'
<1> SUFFICES ASSUME NEW q \in Proc, ps'[q].alone PROVE Knows(q)'
  BY DEF Informed
<1>1. ps'[p] = r /\ (q # p => ps'[q] = ps[q]) /\ (r = Idle \/ r.alone = ps[p].alone)
  BY SetForm DEF Steps
<1>2. q = p
  BY <1>1 DEF Lone, Steps
<1>3. r.alone /\ ps[p].alone
  BY <1>1, <1>2 DEF Idle
<1>4. QED
  BY <1>2, <1>3

\* Ids keep their owners when what is held was held before.
LEMMA SetOwners ==
  ASSUME WellFormed, Owned, NEW p \in Proc, NEW r, Steps(p, r),
         \A s \in file' \union r.list \union {r.new} :
           s = NoSession \/ \E t \in Held : s.id = t.id /\ s.client = t.client
  PROVE  Owned'
<1>1. ps'[p] = r /\ \A q \in Proc : q # p => ps'[q] = ps[q]
  BY SetForm
<1>2. ASSUME NEW s \in Held' PROVE \E t \in Held : s.id = t.id /\ s.client = t.client
  <2>1. s # NoSession
    BY <1>2 DEF Held
  <2>2. CASE s \in file' \union r.list \union {r.new}
    BY <2>1, <2>2
  <2>3. CASE \E q \in Proc : q # p /\ s \in ps[q].list \union {ps[q].new}
    <3>1. s \in Used
      BY <2>3 DEF Used
    <3>2. s \in Held
      BY <2>1, <3>1 DEF Held
    <3> QED BY <3>2
  <2>4. s \in file' \/ \E q \in Proc : s \in ps'[q].list \union {ps'[q].new}
    BY <1>2 DEF Held, Used
  <2>5. QED
    BY <1>1, <2>2, <2>3, <2>4
<1>3. QED
  BY <1>2 DEF Owned

LEMMA HeldMembers ==
  /\ \A s \in file : s \in Used
  /\ \A p \in Proc : \A s \in ps[p].list \union {ps[p].new} : s \in Used
BY DEF Used

\* What is not saved anew stays in line.
LEMMA SetLine ==
  ASSUME WellFormed, InLine, NEW p \in Proc, NEW r, Steps(p, r),
         UNCHANGED kernel, troubled' = (troubled \/ (r = Idle /\ ps[p].dirty)),
         r.dirty \/ r = Idle \/ r.dirty = ps[p].dirty,
         ~r.dirty /\ ~troubled' /\ Follows => Follows'
  PROVE  InLine'
<1> SUFFICES ASSUME ~troubled', \A q \in Proc : ~ps'[q].dirty PROVE Follows'
  BY DEF InLine
<1>1. ps'[p] = r /\ \A q \in Proc : q # p => ps'[q] = ps[q]
  BY SetForm
<1>2. ~troubled /\ ~r.dirty /\ ~(r = Idle /\ ps[p].dirty)
  BY <1>1
<1>3. ~ps[p].dirty
  BY <1>2
<1>4. Follows
  BY <1>1, <1>2, <1>3 DEF InLine
<1>5. QED
  BY <1>2, <1>4

-----------------------------------------------------------------------------
(* An operation starts.                                                    *)

LEMMA FreshId ==
  ASSUME Free # {}, NEW c \in Client
  PROVE  /\ NewSession(c) \in Session /\ NewSession(c).client = c
         /\ \A s \in Used : s.id # NewSession(c).id
<1>1. Free \subseteq Nat /\ Free \subseteq 1..MaxId
  BY PortalAssumption DEF Free
<1>2. PICK i \in Free : \A j \in Free : ~(<<j, i>> \in OpToRel(<, Nat))
  BY <1>1, WFMin, NatLessThanWellFounded
<1>3. \A j \in Free : i <= j
  <2> SUFFICES ASSUME NEW j \in Free, ~(i <= j) PROVE FALSE
    OBVIOUS
  <2>1. i \in Nat /\ j \in Nat /\ j < i
    BY <1>1
  <2>2. <<j, i>> \in {ss \in Nat \X Nat : ss[1] < ss[2]}
    BY <2>1
  <2>3. QED
    BY <1>2, <2>2 DEF OpToRel
<1> DEFINE least == CHOOSE k \in Free : \A j \in Free : k <= j
<1>4. least \in Free
  BY <1>2, <1>3
<1>5. least \in 1..MaxId /\ \A s \in Used : s.id # least
  BY <1>1, <1>4 DEF Free
<1>6. NewSession(c) = [id |-> least, client |-> c, age |-> "new"]
  BY DEF NewSession
<1> HIDE DEF least
<1>7. QED
  BY <1>5, <1>6 DEF Session

\* What every request may start with.
Opens(r) ==
  /\ Shape(r) /\ r.pc # "idle" /\ r.list = {} /\ ~r.dirty
  /\ r.new = NoSession \/ (r.new \in Session /\ \A s \in Used : s.id # r.new.id)
  /\ r.pc = "savecfg" /\ r.op = "authorize" => r.cfg.on = cfg.on /\ r.cfg.idle = cfg.idle
  /\ r.pc = "load" /\ r.op = "status" => r.cfg = cfg
  /\ r.pc \in {"savecfg", "load", "cfg"}

LEMMA StartForm ==
  ASSUME WellFormed, NEW p \in Proc, NEW r, Start(p, r), Opens(r)
  PROVE  /\ ps' \in [Proc -> OpRecord] /\ ~Busy(p)
         /\ UNCHANGED <<cfg, file, kernel, granted, raced>>
         /\ troubled' = (troubled \/ ~(\A q \in Proc : ~Busy(q)))
         /\ \A q \in Proc : Shape(ps'[q])
         /\ \E x \in OpRecord :
              /\ ps'[p] = x /\ x.alone = IF \A q \in Proc : ~Busy(q) THEN TRUE ELSE FALSE
              /\ x.pc = r.pc /\ x.op = r.op /\ x.cfg = r.cfg /\ x.list = r.list
              /\ x.new = r.new /\ x.drop = r.drop /\ x.dirty = r.dirty
         /\ \A q \in Proc : q # p =>
              \E x \in OpRecord :
                /\ ps'[q] = x /\ x.alone = FALSE
                /\ x.pc = ps[q].pc /\ x.op = ps[q].op /\ x.cfg = ps[q].cfg
                /\ x.list = ps[q].list /\ x.new = ps[q].new /\ x.drop = ps[q].drop
                /\ x.dirty = ps[q].dirty
<1> DEFINE lone == \A q \in Proc : ~Busy(q)
<1>0. lone \in BOOLEAN
  OBVIOUS
<1>1. /\ ~Busy(p) /\ UNCHANGED <<cfg, file, kernel, granted, raced>> /\ troubled' = (troubled \/ ~lone)
      /\ ps' = [q \in Proc |-> IF q = p THEN [r EXCEPT !.alone = lone]
                                        ELSE [ps[q] EXCEPT !.alone = FALSE]]
  BY DEF Start, Busy
<1>2. r \in OpRecord /\ r.pc # "idle" /\ r.list = {}
  BY DEF Opens, Shape
<1> HIDE DEF lone
<1>3. PICK x : x = [r EXCEPT !.alone = lone]
  OBVIOUS
<1>11. /\ x \in OpRecord /\ x.alone = lone
       /\ x.pc = r.pc /\ x.op = r.op /\ x.cfg = r.cfg /\ x.list = r.list
       /\ x.new = r.new /\ x.drop = r.drop /\ x.dirty = r.dirty
  BY <1>0, <1>2, <1>3 DEF OpRecord
<1>4. Shape(x)
  BY <1>2, <1>11 DEF Opens, Shape
<1>5. ASSUME NEW q \in Proc, q # p
      PROVE  \E y \in OpRecord :
                /\ ps'[q] = y /\ y.alone = FALSE
                /\ y.pc = ps[q].pc /\ y.op = ps[q].op /\ y.cfg = ps[q].cfg
                /\ y.list = ps[q].list /\ y.new = ps[q].new /\ y.drop = ps[q].drop
                /\ y.dirty = ps[q].dirty
  <2>1. ps[q] \in OpRecord /\ ps'[q] = [ps[q] EXCEPT !.alone = FALSE]
    BY <1>1, <1>5 DEF WellFormed
  <2>2. QED
    BY <2>1 DEF OpRecord
<1>6. ASSUME NEW q \in Proc, q # p PROVE Shape(ps'[q])
  <2>1. PICK y \in OpRecord :
                /\ ps'[q] = y /\ y.alone = FALSE
                /\ y.pc = ps[q].pc /\ y.op = ps[q].op /\ y.cfg = ps[q].cfg
                /\ y.list = ps[q].list /\ y.new = ps[q].new /\ y.drop = ps[q].drop
                /\ y.dirty = ps[q].dirty
    BY <1>5, <1>6
  <2>2. Shape(ps[q]) /\ ps'[q] = [ps[q] EXCEPT !.alone = FALSE]
    BY <1>1, <1>6 DEF WellFormed
  <2>3. y.pc = "idle" => y = Idle
    <3>1. SUFFICES ASSUME ps[q].pc = "idle" PROVE ps'[q] = Idle
      BY <2>1
    <3>2. ps[q] = Idle
      BY <2>2, <3>1 DEF Shape
    <3>3. QED
      <4>1. ps'[q] = [Idle EXCEPT !.alone = FALSE]
        BY <2>2, <3>2
      <4>2. QED
        BY <4>1 DEF Idle
  <2>4. QED
    BY <2>1, <2>2, <2>3 DEF Shape
<1>7. \A q \in Proc : Shape(ps'[q])
  BY <1>1, <1>3, <1>4, <1>6
<1>8. ps' \in [Proc -> OpRecord]
  BY <1>1, <1>7 DEF Shape
<1>9. ps'[p] = x
  BY <1>1, <1>3
<1>10. QED
  <2>1. lone => x.alone = TRUE
    BY <1>11
  <2>2. ~lone => x.alone = FALSE
    BY <1>0, <1>11
  <2>3. x.alone = IF \A q \in Proc : ~Busy(q) THEN TRUE ELSE FALSE
    BY <2>1, <2>2 DEF lone
  <2>4. troubled' = (troubled \/ ~(\A q \in Proc : ~Busy(q)))
    BY <1>1 DEF lone
  <2>5. QED
    BY <1>1, <1>11, <1>5, <1>7, <1>8, <1>9, <2>3, <2>4

LEMMA StartSound ==
  ASSUME Gated, NEW p \in Proc, NEW r, Start(p, r), Opens(r)
  PROVE  Gated'
<1> DEFINE lone == \A q \in Proc : ~Busy(q)
<1>1. WellFormed /\ Owned /\ Lone /\ Calm /\ InLine
  BY DEF Gated
<1>2. /\ ps' \in [Proc -> OpRecord] /\ ~Busy(p)
      /\ UNCHANGED <<cfg, file, kernel, granted, raced>> /\ troubled' = (troubled \/ ~lone)
      /\ \A q \in Proc : Shape(ps'[q])
  BY <1>1, StartForm
<1>12. /\ lone => ps'[p].alone = TRUE
       /\ ~lone => ps'[p].alone = FALSE
       /\ ps'[p].pc = r.pc /\ ps'[p].op = r.op /\ ps'[p].cfg = r.cfg
       /\ ps'[p].list = r.list /\ ps'[p].new = r.new /\ ps'[p].dirty = r.dirty
  <2>1. PICK x \in OpRecord :
              /\ ps'[p] = x /\ x.alone = IF lone THEN TRUE ELSE FALSE
              /\ x.pc = r.pc /\ x.op = r.op /\ x.cfg = r.cfg /\ x.list = r.list
              /\ x.new = r.new /\ x.drop = r.drop /\ x.dirty = r.dirty
    BY <1>1, StartForm
  <2>2. QED
    BY <2>1
<1>13. \A q \in Proc : q # p => /\ ps'[q].alone = FALSE /\ ps'[q].pc = ps[q].pc
                                /\ ps'[q].list = ps[q].list /\ ps'[q].new = ps[q].new
                                /\ ps'[q].dirty = ps[q].dirty
  <2>1. \A q \in Proc : q # p =>
          \E x \in OpRecord :
            /\ ps'[q] = x /\ x.alone = FALSE
            /\ x.pc = ps[q].pc /\ x.op = ps[q].op /\ x.cfg = ps[q].cfg
            /\ x.list = ps[q].list /\ x.new = ps[q].new /\ x.drop = ps[q].drop
            /\ x.dirty = ps[q].dirty
    BY <1>1, StartForm
  <2>2. QED
    BY <2>1
<1>3. /\ Shape(r) /\ r.pc # "idle" /\ r.list = {} /\ ~r.dirty
      /\ r.new = NoSession \/ (r.new \in Session /\ \A s \in Used : s.id # r.new.id)
      /\ r.pc = "savecfg" /\ r.op = "authorize" => r.cfg.on = cfg.on /\ r.cfg.idle = cfg.idle
      /\ r.pc = "load" /\ r.op = "status" => r.cfg = cfg
      /\ r.pc \in {"savecfg", "load", "cfg"}
  BY DEF Opens
<1>4. WellFormed'
  BY <1>1, <1>2 DEF WellFormed
<1>5. Owned'
  <2>1. ASSUME NEW s \in Held' PROVE s \in Held \/ s = r.new
    BY <1>2, <1>12, <1>13, <1>3 DEF Held, Used
  <2>2. \A s \in Held : s \in Used
    BY DEF Held
  <2>3. QED
    BY <1>1, <1>3, <2>1, <2>2 DEF Owned, Held
<1>6. ASSUME lone PROVE \A q \in Proc : ps[q] = Idle
  BY <1>1, <1>6 DEF WellFormed, Shape, Busy, At
<1> HIDE DEF lone
<1>7. Lone'
  <2> SUFFICES ASSUME NEW x \in Proc, NEW q \in Proc, ps'[x].alone, q # x
               PROVE  ps'[x].pc # "idle" /\ ps'[q].pc = "idle"
    BY DEF Lone, Busy, At
  <2>1. x = p /\ lone
    BY <1>2, <1>12, <1>13
  <2>2. QED
    BY <1>2, <1>12, <1>13, <1>3, <1>6, <2>1 DEF Idle
<1>8. Calm'
  <2> SUFFICES ASSUME ~troubled', NEW q \in Proc, ps'[q].pc # "idle"
               PROVE  ps'[q].alone
    BY DEF Calm, Busy, At
  <2>1. lone
    BY <1>2
  <2>2. QED
    BY <1>2, <1>12, <1>13, <1>6, <2>1 DEF Idle
<1>9. InLine'
  <2> SUFFICES ASSUME ~troubled', \A q \in Proc : ~ps'[q].dirty PROVE Follows'
    BY DEF InLine
  <2>1. lone /\ ~troubled
    BY <1>2
  <2>2. Follows
    BY <1>1, <1>6, <2>1 DEF InLine, Idle
  <2>3. QED
    BY <1>2, <2>2 DEF Follows
<1>10. Informed'
  <2> SUFFICES ASSUME NEW q \in Proc, ps'[q].alone PROVE Knows(q)'
    BY DEF Informed
  <2>1. q = p
    BY <1>2, <1>12, <1>13
  <2>2. QED
    BY <1>2, <1>12, <1>13, <1>3, <2>1 DEF Knows, At
<1>11. QED
  BY <1>4, <1>5, <1>7, <1>8, <1>9, <1>10 DEF Gated
\* A record that starts an operation, in full.
Opening(o, l, c, n, d) ==
  [pc |-> l, op |-> o, cfg |-> c, list |-> {}, new |-> n, drop |-> d,
   dirty |-> FALSE, alone |-> FALSE]

LEMMA AuthorizeSound ==
  ASSUME Gated, NEW p \in Proc, Authorize(p)
  PROVE  Gated'
<1>1. cfg \in Section
  BY DEF Gated, WellFormed
<1>2. PICK c \in Client :
        Start(p, [Idle EXCEPT !.op = "authorize",
                              !.pc = IF cfg.voucher THEN "savecfg" ELSE "load",
                              !.cfg = Redeem(cfg), !.new = NewSession(c), !.drop = {c}])
  BY DEF Authorize
<1>3. NewSession(c) \in Session /\ NewSession(c).client = c
      /\ \A s \in Used : s.id # NewSession(c).id
  BY FreshId DEF Authorize
<1>4. Redeem(cfg) \in Section /\ Redeem(cfg).on = cfg.on /\ Redeem(cfg).idle = cfg.idle
  <2>1. CASE ~cfg.voucher
    BY <1>1, <2>1 DEF Redeem
  <2>2. CASE cfg.voucher
    <3>1. cfg.uses < MaxUses
      BY <2>2 DEF Authorize
    <3>2. cfg.uses + 1 \in 0..MaxUses
      BY <1>1, <3>1, PortalAssumption DEF Section
    <3>3. Redeem(cfg) = [cfg EXCEPT !.uses = cfg.uses + 1]
      BY <2>2 DEF Redeem
    <3>4. QED
      BY <1>1, <3>2, <3>3 DEF Section
  <2>3. QED
    BY <2>1, <2>2
<1> DEFINE l == IF cfg.voucher THEN "savecfg" ELSE "load"
<1>10. PICK r : r = [Idle EXCEPT !.op = "authorize", !.pc = l, !.cfg = Redeem(cfg),
                                 !.new = NewSession(c), !.drop = {c}]
  OBVIOUS
<1>5. Start(p, r)
  BY <1>2, <1>10
<1>6. l \in {"savecfg", "load"} /\ l \in Label /\ "authorize" \in Operation
  BY DEF Label, Operation, Request
<1> HIDE DEF l
<1>7. /\ r \in OpRecord /\ OnePerClient(r.list)
      /\ r.op = "authorize" /\ r.pc = l /\ r.cfg = Redeem(cfg) /\ r.new = NewSession(c)
      /\ r.drop = {c} /\ r.list = {} /\ r.dirty = FALSE /\ r.alone = FALSE
  <2>1. r = Opening("authorize", l, Redeem(cfg), NewSession(c), {c})
    BY <1>10 DEF Opening, Idle
  <2>2. NewSession(c) \in Session \union {NoSession} /\ {c} \in SUBSET Client
    BY <1>3
  <2>3. QED
    BY <1>4, <1>6, <2>1, <2>2 DEF Opening, OpRecord, OnePerClient
<1>8. Opens(r)
  BY <1>3, <1>4, <1>6, <1>7 DEF Opens, Shape, Editing
<1>9. QED
  BY <1>5, <1>8, StartSound

LEMMA CreateSound ==
  ASSUME Gated, NEW p \in Proc, CreateSession(p)
  PROVE  Gated'
<1>1. PICK c \in Client :
        Start(p, [Idle EXCEPT !.op = "create", !.pc = "load", !.new = NewSession(c),
                              !.drop = {c}])
  BY DEF CreateSession
<1>2. NewSession(c) \in Session /\ NewSession(c).client = c
      /\ \A s \in Used : s.id # NewSession(c).id
  BY FreshId DEF CreateSession
<1>3. Fresh \in Section
  BY IdleShape DEF Shape, Idle, OpRecord
<1>9. PICK r : r = [Idle EXCEPT !.op = "create", !.pc = "load", !.new = NewSession(c),
                                !.drop = {c}]
  OBVIOUS
<1>4. Start(p, r)
  BY <1>1, <1>9
<1>5. "load" \in Label /\ "create" \in Operation
  BY DEF Label, Operation, Request
<1>6. /\ r \in OpRecord /\ OnePerClient(r.list)
      /\ r.op = "create" /\ r.pc = "load" /\ r.cfg = Fresh /\ r.new = NewSession(c)
      /\ r.drop = {c} /\ r.list = {} /\ r.dirty = FALSE /\ r.alone = FALSE
  <2>1. r = Opening("create", "load", Fresh, NewSession(c), {c})
    BY <1>9 DEF Opening, Idle
  <2>2. NewSession(c) \in Session \union {NoSession} /\ {c} \in SUBSET Client
    BY <1>2
  <2>3. QED
    BY <1>3, <1>5, <2>1, <2>2 DEF Opening, OpRecord, OnePerClient
<1>7. Opens(r)
  BY <1>2, <1>6 DEF Opens, Shape, Editing
<1>8. QED
  BY <1>4, <1>7, StartSound

\* The operations that start without a new session.
LEMMA PlainSound ==
  ASSUME Gated, NEW p \in Proc, NEW o \in Operation, NEW l \in {"savecfg", "load", "cfg"},
         NEW c \in Section, NEW d \in SUBSET Client,
         NEW r, Start(p, r), r = Opening(o, l, c, NoSession, d),
         o \notin {"authorize", "create"},
         l = "savecfg" => o = "update",
         l = "load" => o \in Editing /\ (o = "status" => c = cfg /\ \E x \in Client : d = {x})
  PROVE  Gated'
<1>1. l \in Label
  BY DEF Label
<1>2. /\ r \in OpRecord /\ OnePerClient(r.list)
      /\ r.op = o /\ r.pc = l /\ r.cfg = c /\ r.new = NoSession
      /\ r.drop = d /\ r.list = {} /\ r.dirty = FALSE /\ r.alone = FALSE
  <2>1. NoSession \in Session \union {NoSession}
    OBVIOUS
  <2>2. QED
    BY <1>1, <2>1 DEF Opening, OpRecord, OnePerClient
<1>3. Opens(r)
  BY <1>2 DEF Opens, Shape, Editing
<1>4. QED
  BY <1>3, StartSound

LEMMA BeginSound ==
  ASSUME Gated, NEW p \in Proc, Begin(p) \/ (p = Reaper /\ Reap)
  PROVE  Gated'
<1>1. cfg \in Section /\ Fresh \in Section
  BY IdleShape DEF Gated, WellFormed, Shape, Idle, OpRecord
<1>2. CASE EditSession(p)
  <2>1. PICK c \in Client, op \in Ops \cap {"logout", "revoke", "status"} :
          Start(p, [Idle EXCEPT !.op = op, !.pc = "load", !.cfg = cfg, !.drop = {c}])
    BY <1>2 DEF EditSession
  <2>2. PICK r : r = [Idle EXCEPT !.op = op, !.pc = "load", !.cfg = cfg, !.drop = {c}]
    OBVIOUS
  <2>5. Start(p, r) /\ r = Opening(op, "load", cfg, NoSession, {c})
    BY <2>1, <2>2 DEF Opening, Idle
  <2>3. op \in Operation /\ op \in Editing /\ op \notin {"authorize", "create"}
    BY DEF Operation, Request, Editing
  <2>4. QED
    BY <1>1, <2>3, <2>5, PlainSound
<1>3. CASE UpdateConfig(p)
  <2>1. PICK on \in BOOLEAN, n \in 0..MaxUses :
          Start(p, [Idle EXCEPT !.op = "update", !.pc = "savecfg",
                                !.cfg = [cfg EXCEPT !.on = on, !.uses = n]])
    BY <1>3 DEF UpdateConfig
  <2>2. PICK k : k = [cfg EXCEPT !.on = on, !.uses = n]
    OBVIOUS
  <2>3. k \in Section
    BY <1>1, <2>2 DEF Section
  <2>7. PICK r : r = [Idle EXCEPT !.op = "update", !.pc = "savecfg", !.cfg = k]
    OBVIOUS
  <2>4. Start(p, r) /\ r = Opening("update", "savecfg", k, NoSession, {})
    BY <2>1, <2>2, <2>7 DEF Opening, Idle
  <2>5. "update" \in Operation
    BY DEF Operation, Request
  <2>6. QED
    BY <2>3, <2>4, <2>5, PlainSound
<1>4. CASE PublishRules(p)
  <2>1. PICK op \in Ops \cap {"rules", "block"} : Start(p, [Idle EXCEPT !.op = op, !.pc = "cfg"])
    BY <1>4 DEF PublishRules
  <2>2. PICK r : r = [Idle EXCEPT !.op = op, !.pc = "cfg"]
    OBVIOUS
  <2>5. Start(p, r) /\ r = Opening(op, "cfg", Fresh, NoSession, {})
    BY <2>1, <2>2 DEF Opening, Idle
  <2>3. op \in Operation /\ op \notin {"authorize", "create"}
    BY DEF Operation, Request
  <2>4. QED
    BY <1>1, <2>3, <2>5, PlainSound
<1>5. CASE p = Reaper /\ Reap
  <2>4. PICK r : r = [Idle EXCEPT !.pc = "load", !.cfg = cfg]
    OBVIOUS
  <2>1. Start(p, r) /\ r = Opening("reap", "load", cfg, NoSession, {})
    BY <1>5, <2>4 DEF Reap, Opening, Idle
  <2>2. "reap" \in Operation /\ "reap" \in Editing
    BY DEF Operation, Editing
  <2>3. QED
    BY <1>1, <2>1, <2>2, PlainSound
<1>6. QED
  BY <1>2, <1>3, <1>4, <1>5, AuthorizeSound, CreateSound DEF Begin
-----------------------------------------------------------------------------
(* The steps of an operation.                                              *)

LEMMA SetSound ==
  ASSUME Gated, NEW p \in Proc, NEW r, Steps(p, r),
         cfg' \in Section, file' \in SUBSET Session, OnePerClient(file'),
         kernel' \in [gate : BOOLEAN, pass : SUBSET Client], granted' \in Tally, raced' \in BOOLEAN,
         \A s \in file' \union r.list \union {r.new} :
           s = NoSession \/ \E t \in Held : s.id = t.id /\ s.client = t.client,
         r.alone /\ ps[p].alone => Knows(p)',
         InLine'
  PROVE  Gated'
<1>1. WellFormed /\ Owned /\ Lone /\ Calm
  BY DEF Gated
<1>2. WellFormed'
  <2>1. ps' \in [Proc -> OpRecord] /\ \A q \in Proc : Shape(ps'[q])
    BY <1>1, SetForm
  <2>2. troubled' \in BOOLEAN
    BY DEF Steps
  <2>3. QED
    BY <2>1, <2>2 DEF WellFormed
<1>3. QED
  BY <1>1, <1>2, SetOwners, SetOrder, SetKnowledge DEF Gated

\* What is held is a session, and what a process or the file has is held.
LEMMA Holding ==
  ASSUME WellFormed
  PROVE  /\ \A s \in Session : s # NoSession
         /\ \A s \in file : s \in Held
         /\ \A p \in Proc : /\ \A s \in ps[p].list : s \in Held
                            /\ ps[p].new = NoSession \/ ps[p].new \in Held
<1>1. \A s \in Session : s # NoSession
  <2> SUFFICES ASSUME NEW s \in Session, s = NoSession PROVE FALSE
    OBVIOUS
  <2>1. s.id \in 1..MaxId /\ s.id = 0
    BY DEF Session, NoSession
  <2>2. QED
    BY <2>1, PortalAssumption
<1>2. \A p \in Proc : ps[p].list \subseteq Session
  BY DEF WellFormed, Shape, OpRecord
<1>3. file \subseteq Session
  BY DEF WellFormed
<1>4. QED
  BY <1>1, <1>2, <1>3, HeldMembers DEF Held

\* An operation ends, having done nothing since the last step.
LEMMA EndSound ==
  ASSUME Gated, NEW p \in Proc, Busy(p), Set(p, Idle),
         UNCHANGED <<cfg, file, kernel, granted, raced>>,
         troubled' = (troubled \/ ps[p].dirty)
  PROVE  Gated'
<1>1. WellFormed /\ InLine
  BY DEF Gated
<1>2. troubled' \in BOOLEAN /\ (troubled => troubled')
  OBVIOUS
<1>3. Steps(p, Idle)
  BY <1>2, IdleShape DEF Steps
<1>4. Follows => Follows'
  BY DEF Follows
<1>5. InLine'
  BY <1>1, <1>3, <1>4, SetLine
<1>6. Idle.list = {} /\ Idle.new = NoSession /\ Idle.alone = FALSE
  BY DEF Idle
<1>7. \A s \in file' : \E t \in Held : s.id = t.id /\ s.client = t.client
  BY <1>1, Holding
<1>8. QED
  BY <1>1, <1>3, <1>5, <1>6, <1>7, SetSound DEF WellFormed

LEMMA InFlightFinite == IsFiniteSet(InFlight) /\ Cardinality(InFlight) \in Nat
<1>1. InFlight \in SUBSET Task /\ IsFiniteSet(Task)
  BY PortalAssumption DEF InFlight
<1>2. IsFiniteSet(InFlight)
  BY <1>1, FS_Subset
<1>3. QED
  BY <1>2, FS_CardinalityType

LEMMA SaveConfigSound ==
  ASSUME Gated, NEW p \in Proc, SaveConfig(p)
  PROVE  Gated'
<1>1. WellFormed /\ InLine /\ Calm /\ Informed /\ Shape(ps[p]) /\ ps[p] \in OpRecord
  BY DEF Gated, WellFormed, Shape
<1>2. /\ ps[p].pc = "savecfg" /\ cfg' = ps[p].cfg
      /\ granted' = IF ps[p].op = "update" THEN ps[p].cfg.uses - Cardinality(InFlight) ELSE granted
      /\ raced' \in BOOLEAN /\ UNCHANGED <<file, kernel, troubled>>
  BY DEF SaveConfig, At
<1>3. PICK r : r = [ps[p] EXCEPT !.pc = "load", !.dirty = ps[p].op = "update"]
  OBVIOUS
<1>4. Set(p, r)
  BY <1>3 DEF SaveConfig
<1>5. /\ r \in OpRecord /\ r.pc = "load" /\ r.dirty = (ps[p].op = "update")
      /\ r.op = ps[p].op /\ r.cfg = ps[p].cfg /\ r.list = ps[p].list /\ r.new = ps[p].new
      /\ r.drop = ps[p].drop /\ r.alone = ps[p].alone
  BY <1>1, <1>3 DEF OpRecord, Label
<1>6. ps[p].op \in {"authorize", "update"} /\ ~ps[p].dirty
  BY <1>1, <1>2 DEF Shape
<1>7. Shape(r)
  BY <1>1, <1>2, <1>5, <1>6 DEF Shape, Editing
<1>8. Steps(p, r)
  BY <1>1, <1>2, <1>4, <1>5, <1>7 DEF Steps, Busy, At, WellFormed
<1>9. InLine'
  <2>1. ASSUME ~r.dirty, ~troubled', Follows PROVE Follows'
    <3>1. ps[p].alone /\ ps[p].op = "authorize"
      BY <1>1, <1>2, <1>5, <1>6, <2>1 DEF Calm, Busy, At
    <3>2. cfg'.on = cfg.on /\ cfg'.idle = cfg.idle
      BY <1>1, <1>2, <3>1 DEF Informed, Knows, At
    <3>3. \A l : Pruned(cfg', l) = Pruned(cfg, l)
      BY <3>2 DEF Pruned, SessionActive
    <3>4. /\ Rules(cfg', Pruned(cfg', file)).pass = Rules(cfg, Pruned(cfg, file)).pass
          /\ Rules(cfg', file).pass = Rules(cfg, file).pass
      BY <3>2, <3>3 DEF Rules
    <3>5. QED
      BY <1>2, <2>1, <3>2, <3>4 DEF Follows
  <2>2. r # Idle
    BY <1>5 DEF Idle
  <2>3. r.dirty \/ r.dirty = ps[p].dirty
    BY <1>1, <1>5, <1>6 DEF OpRecord
  <2>4. troubled' = (troubled \/ (r = Idle /\ ps[p].dirty))
    BY <1>1, <1>2, <2>2 DEF WellFormed
  <2>5. QED
    BY <1>1, <1>2, <1>8, <2>1, <2>3, <2>4, SetLine
<1>10. Knows(p)'
  <2>1. ps'[p] = r
    BY <1>1, <1>8, SetForm
  <2>2. QED
    BY <1>5, <1>6, <2>1 DEF Knows, At
<1>11. cfg' \in Section /\ granted' \in Tally
  <2>1. ps[p].cfg \in Section /\ ps[p].cfg.uses \in 0..MaxUses /\ granted \in Tally
    BY <1>1 DEF OpRecord, Section, WellFormed
  <2>2. Cardinality(InFlight) \in Nat
    BY InFlightFinite
  <2>3. QED
    BY <1>2, <2>1, <2>2, PortalAssumption DEF Tally
<1>12. \A s \in file' \union r.list \union {r.new} :
         s = NoSession \/ \E t \in Held : s.id = t.id /\ s.client = t.client
  BY <1>1, <1>2, <1>5, Holding
<1>13. QED
  BY <1>1, <1>2, <1>8, <1>9, <1>10, <1>11, <1>12, SetSound DEF WellFormed

\* What becomes of the file: sessions of the file and the new one.
LEMMA EditedForm ==
  ASSUME WellFormed, NEW p \in Proc, At(p, "load")
  PROVE  /\ Edited(ps[p], file) \in SUBSET Session /\ OnePerClient(Edited(ps[p], file))
         /\ \A s \in Edited(ps[p], file) : \E t \in Held : Twin(s, t)
<1> DEFINE r == ps[p]
           l == Edited(r, file)
<1>1. /\ r \in OpRecord /\ r.op \in Editing /\ r.pc = "load"
      /\ r.op \in {"authorize", "create"} => r.new \in Session /\ r.drop = {r.new.client}
      /\ file \subseteq Session /\ OnePerClient(file)
  BY DEF WellFormed, Shape, At
<1>2. /\ \A s \in file : s \in Held
      /\ r.new \in Session => r.new \in Held
  BY Holding
<1>3. CASE r.op \in {"authorize", "create"}
  <2>1. l = {s \in file : s.client \notin r.drop} \union {r.new}
    BY <1>3 DEF Edited
  <2> HIDE DEF l, r
  <2>2. QED
    BY <1>1, <1>2, <1>3, <2>1 DEF OnePerClient, Twin, l, r
<1>4. CASE r.op \in {"logout", "revoke"}
  <2>1. l = {s \in file : s.client \notin r.drop}
    BY <1>4 DEF Edited
  <2>2. QED
    BY <1>1, <1>2, <2>1 DEF OnePerClient, Twin
<1>5. CASE r.op = "status"
  <2>1. l = {IF s.client \in r.drop THEN [s EXCEPT !.age = "new"] ELSE s : s \in file}
    BY <1>5 DEF Edited, Touched
  <2>2. \A s \in file : /\ [s EXCEPT !.age = "new"] \in Session
                        /\ [s EXCEPT !.age = "new"].id = s.id
                        /\ [s EXCEPT !.age = "new"].client = s.client
    BY <1>1 DEF Session
  <2>3. ASSUME NEW x \in l
        PROVE  x \in Session /\ \E s \in file : /\ Twin(x, s)
                   /\ x = IF s.client \in r.drop THEN [s EXCEPT !.age = "new"] ELSE s
    <3>1. PICK s \in file : x = IF s.client \in r.drop THEN [s EXCEPT !.age = "new"] ELSE s
      BY <2>1, <2>3
    <3>2. s \in Session
      BY <1>1
    <3>3. x \in Session /\ Twin(x, s)
      BY <2>2, <3>1, <3>2 DEF Twin
    <3>4. QED
      BY <3>1, <3>3
  <2>4. OnePerClient(l)
    <3> SUFFICES ASSUME NEW x \in l, NEW y \in l, x.client = y.client PROVE x = y
      BY DEF OnePerClient
    <3>1. PICK s \in file : /\ Twin(x, s)
                   /\ x = IF s.client \in r.drop THEN [s EXCEPT !.age = "new"] ELSE s
      BY <2>3
    <3>2. PICK u \in file : /\ Twin(y, u)
                   /\ y = IF u.client \in r.drop THEN [u EXCEPT !.age = "new"] ELSE u
      BY <2>3
    <3>3. s = u
      BY <1>1, <3>1, <3>2 DEF OnePerClient, Twin
    <3>4. QED
      BY <3>1, <3>2, <3>3
  <2>5. QED
    BY <1>2, <2>3, <2>4
<1>6. CASE r.op \in {"update", "reap"}
  <2>1. l = {s \in file : SessionActive(r.cfg, s)}
    BY <1>6 DEF Edited, Pruned
  <2>2. QED
    BY <1>1, <1>2, <2>1 DEF OnePerClient, Twin
<1>7. QED
  BY <1>1, <1>3, <1>4, <1>5, <1>6 DEF Editing

\* The list that a status request makes mirrors the file.
LEMMA TouchedMirrors ==
  ASSUME WellFormed, NEW p \in Proc, At(p, "load"), ps[p].op = "status", ps[p].cfg = cfg,
         ~Unneeded(ps[p], file)
  PROVE  /\ \A l \in Edited(ps[p], file) : \E s \in file :
              Twin(l, s) /\ (SessionActive(cfg, l) => SessionActive(cfg, s))
         /\ \A s \in file : \E l \in Edited(ps[p], file) : Twin(l, s)
<1> DEFINE r == ps[p]
           Now(s) == [s EXCEPT !.age = "new"]
<1>1. PICK c \in Client : r.drop = {c}
  BY DEF WellFormed, Shape, At
<1>2. file \subseteq Session /\ OnePerClient(file)
  BY DEF WellFormed
<1>3. Edited(r, file) = {IF s.client \in r.drop THEN Now(s) ELSE s : s \in file}
  BY DEF Edited, Touched
<1>4. PICK a \in file : a.client = c /\ SessionActive(cfg, a)
  BY <1>1 DEF Unneeded, Clients, Pruned
<1>5. \A s \in file : Twin(Now(s), s)
  BY <1>2 DEF Session, Twin
<1>6. \A s \in file : s.client = c => s = a
  BY <1>2, <1>4 DEF OnePerClient
<1>7. \A s \in file : Twin(s, s)
  BY DEF Twin
<1> HIDE DEF Now, r
<1>8. ASSUME NEW l \in Edited(r, file)
      PROVE  \E s \in file : Twin(l, s) /\ (SessionActive(cfg, l) => SessionActive(cfg, s))
  <2>1. PICK s \in file : l = IF s.client \in r.drop THEN Now(s) ELSE s
    BY <1>3, <1>8
  <2>2. CASE s.client = c
    BY <1>1, <1>4, <1>5, <1>6, <2>1, <2>2
  <2>3. CASE s.client # c
    BY <1>1, <1>7, <2>1, <2>3
  <2>4. QED
    BY <2>2, <2>3
<1>9. \A s \in file : \E l \in Edited(r, file) : Twin(l, s)
  BY <1>3, <1>5, <1>7
<1>10. QED
  BY <1>8, <1>9 DEF r
LEMMA LoadSound ==
  ASSUME Gated, NEW p \in Proc, LoadSessions(p)
  PROVE  Gated'
<1>1. WellFormed /\ InLine /\ Informed /\ Shape(ps[p]) /\ ps[p] \in OpRecord
  BY DEF Gated, WellFormed, Shape
<1>2. At(p, "load") /\ UNCHANGED <<cfg, file, kernel, troubled, granted, raced>>
  BY DEF LoadSessions, hist
<1>3. CASE /\ ~Unneeded(ps[p], file)
           /\ Set(p, [ps[p] EXCEPT !.pc = "save", !.list = Edited(ps[p], file), !.drop = {},
                                   !.cfg = Fresh])
  <2> DEFINE l == Edited(ps[p], file)
  <2>1. /\ l \in SUBSET Session /\ OnePerClient(l)
        /\ \A s \in l : \E u \in Held : s.id = u.id /\ s.client = u.client
    BY <1>1, <1>2, EditedForm DEF Twin
  <2> HIDE DEF l
  <2>2. PICK r : r = [ps[p] EXCEPT !.pc = "save", !.list = l, !.drop = {}, !.cfg = Fresh]
    OBVIOUS
  <2>3. Fresh \in Section
    BY IdleShape DEF Shape, Idle, OpRecord
  <2>4. /\ r \in OpRecord /\ r.pc = "save" /\ r.list = l /\ r.op = ps[p].op /\ r.new = ps[p].new
        /\ r.dirty = ps[p].dirty /\ r.alone = ps[p].alone
    BY <1>1, <2>1, <2>2, <2>3 DEF OpRecord, Label
  <2>5. Shape(r)
    BY <1>1, <1>2, <2>1, <2>4 DEF Shape, At
  <2>6. Set(p, r)
    BY <1>3, <2>2 DEF l
  <2>7. Steps(p, r)
    BY <1>1, <1>2, <2>4, <2>5, <2>6 DEF Steps, Busy, At, WellFormed
  <2>8. ps'[p] = r
    BY <1>1, <2>7, SetForm
  <2>9. InLine'
    <3>1. Follows => Follows'
      BY <1>2 DEF Follows
    <3>2. r # Idle
      BY <2>4 DEF Idle
    <3>3. troubled' = (troubled \/ (r = Idle /\ ps[p].dirty))
      BY <1>1, <1>2, <3>2 DEF WellFormed
    <3>4. QED
      BY <1>1, <1>2, <2>4, <2>7, <3>1, <3>3, SetLine
  <2>10. ASSUME r.alone, ps[p].alone PROVE Knows(p)'
    <3>1. ASSUME r.op = "status" PROVE Mirrors(p)'
      <4>1. ps[p].cfg = cfg
        BY <1>1, <1>2, <2>4, <2>10, <3>1 DEF Informed, Knows
      <4>2. /\ \A x \in l : \E s \in file :
                 Twin(x, s) /\ (SessionActive(cfg, x) => SessionActive(cfg, s))
            /\ \A s \in file : \E x \in l : Twin(x, s)
        BY <1>1, <1>2, <1>3, <2>4, <3>1, <4>1, TouchedMirrors DEF l
      <4>3. QED
        BY <1>2, <2>4, <2>8, <4>2 DEF Mirrors
    <3>2. QED
      BY <2>4, <2>8, <3>1 DEF Knows, At
  <2>11. \A s \in file' \union r.list \union {r.new} :
           s = NoSession \/ \E u \in Held : s.id = u.id /\ s.client = u.client
    BY <1>1, <1>2, <2>1, <2>4, Holding
  <2>12. QED
    BY <1>1, <1>2, <2>7, <2>9, <2>10, <2>11, SetSound DEF WellFormed
<1>4. CASE /\ ps[p].op = "update"
           /\ Set(p, [ps[p] EXCEPT !.op = "publish", !.pc = "cfg", !.cfg = Fresh])
  <2>2. PICK r : r = [ps[p] EXCEPT !.op = "publish", !.pc = "cfg", !.cfg = Fresh]
    OBVIOUS
  <2>3. Fresh \in Section
    BY IdleShape DEF Shape, Idle, OpRecord
  <2>4. /\ r \in OpRecord /\ r.pc = "cfg" /\ r.list = ps[p].list /\ r.op = "publish"
        /\ r.new = ps[p].new /\ r.dirty = ps[p].dirty /\ r.alone = ps[p].alone
    BY <1>1, <2>2, <2>3 DEF OpRecord, Label, Operation
  <2>5. Shape(r)
    BY <1>1, <1>2, <2>4 DEF Shape, At
  <2>6. Set(p, r)
    BY <1>4, <2>2
  <2>7. Steps(p, r)
    BY <1>1, <1>2, <2>4, <2>5, <2>6 DEF Steps, Busy, At, WellFormed
  <2>8. ps'[p] = r
    BY <1>1, <2>7, SetForm
  <2>9. InLine'
    <3>1. Follows => Follows'
      BY <1>2 DEF Follows
    <3>2. r # Idle
      BY <2>4 DEF Idle
    <3>3. troubled' = (troubled \/ (r = Idle /\ ps[p].dirty))
      BY <1>1, <1>2, <3>2 DEF WellFormed
    <3>4. QED
      BY <1>1, <1>2, <2>4, <2>7, <3>1, <3>3, SetLine
  <2>10. Knows(p)'
    BY <2>4, <2>8 DEF Knows, At
  <2>11. \A s \in file' \union r.list \union {r.new} :
           s = NoSession \/ \E u \in Held : s.id = u.id /\ s.client = u.client
    BY <1>1, <1>2, <2>4, Holding
  <2>12. QED
    BY <1>1, <1>2, <2>7, <2>9, <2>10, <2>11, SetSound DEF WellFormed
<1>5. CASE ps[p].op # "update" /\ Set(p, Idle)
  <2>1. Busy(p) /\ ~ps[p].dirty
    BY <1>1, <1>2, <1>5 DEF Shape, Busy, At
  <2>2. troubled' = (troubled \/ ps[p].dirty)
    BY <1>1, <1>2, <2>1 DEF WellFormed
  <2>3. QED
    BY <1>2, <1>5, <2>1, <2>2, EndSound
<1>6. QED
  BY <1>3, <1>4, <1>5 DEF LoadSessions

\* The file that a status request saves lets the same clients through.
LEMMA MirrorsFollow ==
  ASSUME NEW p \in Proc, Mirrors(p), Follows, UNCHANGED <<cfg, kernel>>, file' = ps[p].list
  PROVE  Follows'
<1>1. Clients(file') = Clients(file)
  BY DEF Mirrors, Clients, Twin
<1>2. Clients(Pruned(cfg, file')) \subseteq Clients(Pruned(cfg, file))
  BY DEF Mirrors, Clients, Twin, Pruned
<1>3. /\ Rules(cfg, file').pass = Rules(cfg, file).pass
      /\ Rules(cfg, Pruned(cfg, file')).pass \subseteq Rules(cfg, Pruned(cfg, file)).pass
  BY <1>1, <1>2 DEF Rules
<1>4. QED
  BY <1>3 DEF Follows

LEMMA SaveSound ==
  ASSUME Gated, NEW p \in Proc, SaveSessions(p)
  PROVE  Gated'
<1>1. /\ WellFormed /\ InLine /\ Calm /\ Informed /\ Shape(ps[p]) /\ ps[p] \in OpRecord
      /\ Shape(Idle) /\ Idle \in OpRecord
  BY IdleShape DEF Gated, WellFormed, Shape
<1>2. /\ ps[p].pc = "save" /\ file' = ps[p].list /\ UNCHANGED <<cfg, kernel, troubled>>
      /\ Busy(p)
  BY DEF SaveSessions, At, Busy
<1>3. granted' \in Tally /\ raced' = raced
  BY <1>1, PortalAssumption DEF SaveSessions, Counted, WellFormed, Tally
<1>4. file' \in SUBSET Session /\ OnePerClient(file')
  BY <1>1, <1>2 DEF Shape, OpRecord
<1>5. CASE ps[p].op = "status"
  <2>1. Set(p, Idle) /\ ~ps[p].dirty
    BY <1>1, <1>2, <1>5 DEF SaveSessions, Shape
  <2>2. Steps(p, Idle)
    BY <1>1, <1>2, <2>1 DEF Steps, WellFormed
  <2>3. InLine'
    <3>1. ASSUME ~troubled', Follows PROVE Follows'
      <4>1. ps[p].alone
        BY <1>1, <1>2, <3>1 DEF Calm
      <4>2. Mirrors(p)
        BY <1>1, <1>2, <1>5, <4>1 DEF Informed, Knows, At
      <4>3. QED
        BY <1>2, <3>1, <4>2, MirrorsFollow
    <3>2. troubled' = (troubled \/ (Idle = Idle /\ ps[p].dirty))
      BY <1>1, <1>2, <2>1 DEF WellFormed
    <3>3. QED
      BY <1>1, <1>2, <2>2, <3>1, <3>2, SetLine
  <2>4. Idle.list = {} /\ Idle.new = NoSession /\ Idle.alone = FALSE
    BY DEF Idle
  <2>5. \A s \in file' \union Idle.list \union {Idle.new} :
          s = NoSession \/ \E u \in Held : s.id = u.id /\ s.client = u.client
    BY <1>1, <1>2, <2>4, Holding
  <2>6. QED
    BY <1>1, <1>2, <1>3, <1>4, <2>2, <2>3, <2>4, <2>5, SetSound DEF WellFormed
<1>6. CASE ps[p].op # "status"
  <2>1. PICK r : r = [Idle EXCEPT !.op = "publish", !.pc = "cfg", !.dirty = TRUE,
                                  !.alone = ps[p].alone]
    OBVIOUS
  <2>2. Set(p, r)
    BY <1>6, <2>1 DEF SaveSessions
  <2>3. /\ r \in OpRecord /\ r.pc = "cfg" /\ r.list = {} /\ r.op = "publish"
        /\ r.new = NoSession /\ r.dirty = TRUE /\ r.alone = ps[p].alone
    <3>1. /\ Idle.list = {} /\ Idle.new = NoSession
      BY DEF Idle
    <3>2. QED
      BY <1>1, <2>1, <3>1 DEF OpRecord, Label, Operation
  <2>4. Shape(r)
    BY <2>3 DEF Shape, OnePerClient
  <2>5. Steps(p, r)
    BY <1>1, <1>2, <2>2, <2>3, <2>4 DEF Steps, WellFormed
  <2>6. ps'[p] = r
    BY <1>1, <2>5, SetForm
  <2>7. InLine'
    BY <2>3, <2>6 DEF InLine
  <2>8. Knows(p)'
    BY <2>3, <2>6 DEF Knows, At
  <2>9. \A s \in file' \union r.list \union {r.new} :
          s = NoSession \/ \E u \in Held : s.id = u.id /\ s.client = u.client
    BY <1>1, <1>2, <2>3, Holding
  <2>10. QED
    BY <1>1, <1>2, <1>3, <1>4, <2>5, <2>7, <2>8, <2>9, SetSound DEF WellFormed
<1>7. QED
  BY <1>5, <1>6

LEMMA ApplyConfigSound ==
  ASSUME Gated, NEW p \in Proc, ApplyConfig(p)
  PROVE  Gated'
<1>1. WellFormed /\ InLine /\ Shape(ps[p]) /\ ps[p] \in OpRecord /\ cfg \in Section
  BY DEF Gated, WellFormed, Shape
<1>2. At(p, "cfg") /\ UNCHANGED <<cfg, file, kernel, troubled, granted, raced>>
  BY DEF ApplyConfig, hist
<1>3. PICK r : r = [ps[p] EXCEPT !.pc = "sessions", !.cfg = cfg]
  OBVIOUS
<1>4. Set(p, r)
  BY <1>3 DEF ApplyConfig
<1>5. /\ r \in OpRecord /\ r.pc = "sessions" /\ r.cfg = cfg /\ r.op = ps[p].op
      /\ r.list = ps[p].list /\ r.new = ps[p].new
      /\ r.dirty = ps[p].dirty /\ r.alone = ps[p].alone
  BY <1>1, <1>3 DEF OpRecord, Label
<1>6. Shape(r)
  BY <1>1, <1>2, <1>5 DEF Shape, At
<1>7. Steps(p, r)
  BY <1>1, <1>2, <1>4, <1>5, <1>6 DEF Steps, Busy, At, WellFormed
<1>8. ps'[p] = r
  BY <1>1, <1>7, SetForm
<1>9. InLine'
  <2>1. Follows => Follows'
    BY <1>2 DEF Follows
  <2>2. r # Idle
    BY <1>5 DEF Idle
  <2>3. troubled' = (troubled \/ (r = Idle /\ ps[p].dirty))
    BY <1>1, <1>2, <2>2 DEF WellFormed
  <2>4. QED
    BY <1>1, <1>2, <1>5, <1>7, <2>1, <2>3, SetLine
<1>10. Knows(p)'
  BY <1>2, <1>5, <1>8 DEF Knows, At
<1>11. \A s \in file' \union r.list \union {r.new} :
         s = NoSession \/ \E u \in Held : s.id = u.id /\ s.client = u.client
  BY <1>1, <1>2, <1>5, Holding
<1>12. QED
  BY <1>1, <1>2, <1>7, <1>9, <1>10, <1>11, SetSound DEF WellFormed
LEMMA ApplySessionsSound ==
  ASSUME Gated, NEW p \in Proc, ApplySessions(p)
  PROVE  Gated'
<1> DEFINE l == Pruned(ps[p].cfg, file)
           next == IF l = file \/ ps[p].op = "block" THEN "land" ELSE "prune"
<1>1. WellFormed /\ InLine /\ Informed /\ Shape(ps[p]) /\ ps[p] \in OpRecord
  BY DEF Gated, WellFormed, Shape
<1>2. At(p, "sessions") /\ UNCHANGED <<cfg, file, kernel, troubled, granted, raced>>
  BY DEF ApplySessions, hist
<1>3. PICK r : r = [ps[p] EXCEPT !.pc = next, !.list = l]
  OBVIOUS
<1>4. Set(p, r)
  BY <1>3 DEF ApplySessions
<1>5. l \subseteq file /\ l \in SUBSET Session /\ OnePerClient(l)
  BY <1>1 DEF Pruned, WellFormed, OnePerClient
<1>6. ps[p].cfg = cfg => \A s \in Pruned(cfg, file) : s \in l
  OBVIOUS
<1>7. next \in {"land", "prune"}
  OBVIOUS
<1> HIDE DEF l, next
<1>8. /\ r \in OpRecord /\ r.pc = next /\ r.list = l /\ r.op = ps[p].op
      /\ r.cfg = ps[p].cfg /\ r.new = ps[p].new
      /\ r.dirty = ps[p].dirty /\ r.alone = ps[p].alone
  BY <1>1, <1>3, <1>5, <1>7 DEF OpRecord, Label
<1>9. Shape(r)
  BY <1>1, <1>2, <1>5, <1>7, <1>8 DEF Shape, At
<1>10. Steps(p, r)
  BY <1>1, <1>2, <1>4, <1>7, <1>8, <1>9 DEF Steps, Busy, At, WellFormed
<1>11. ps'[p] = r
  BY <1>1, <1>10, SetForm
<1>12. InLine'
  <2>1. Follows => Follows'
    BY <1>2 DEF Follows
  <2>2. r # Idle
    BY <1>7, <1>8 DEF Idle
  <2>3. troubled' = (troubled \/ (r = Idle /\ ps[p].dirty))
    BY <1>1, <1>2, <2>2 DEF WellFormed
  <2>4. QED
    BY <1>1, <1>2, <1>8, <1>10, <2>1, <2>3, SetLine
<1>13. ASSUME r.alone, ps[p].alone PROVE Knows(p)'
  <2>1. ps[p].cfg = cfg
    BY <1>1, <1>2, <1>13 DEF Informed, Knows, At
  <2>2. Covers(p)'
    BY <1>2, <1>5, <1>6, <1>8, <1>11, <2>1 DEF Covers, Twin, Pruned
  <2>3. QED
    BY <1>2, <1>7, <1>8, <1>11, <2>1, <2>2 DEF Knows, At
<1>14. \A s \in file' \union r.list \union {r.new} :
         s = NoSession \/ \E u \in Held : s.id = u.id /\ s.client = u.client
  BY <1>1, <1>2, <1>5, <1>8, Holding
<1>15. QED
  BY <1>1, <1>2, <1>10, <1>12, <1>13, <1>14, SetSound DEF WellFormed

LEMMA ApplyPruneSound ==
  ASSUME Gated, NEW p \in Proc, ApplyPrune(p)
  PROVE  Gated'
<1>1. WellFormed /\ Informed /\ Shape(ps[p]) /\ ps[p] \in OpRecord
  BY DEF Gated, WellFormed, Shape
<1>2. At(p, "prune") /\ file' = ps[p].list /\ UNCHANGED <<cfg, kernel, troubled, granted, raced>>
  BY DEF ApplyPrune, hist
<1>3. PICK r : r = [ps[p] EXCEPT !.pc = "land", !.dirty = TRUE]
  OBVIOUS
<1>4. Set(p, r)
  BY <1>3 DEF ApplyPrune
<1>5. /\ r \in OpRecord /\ r.pc = "land" /\ r.list = ps[p].list /\ r.op = ps[p].op
      /\ r.cfg = ps[p].cfg /\ r.new = ps[p].new
      /\ r.dirty = TRUE /\ r.alone = ps[p].alone
  BY <1>1, <1>3 DEF OpRecord, Label
<1>6. Shape(r)
  BY <1>1, <1>2, <1>5 DEF Shape, At
<1>7. Steps(p, r)
  BY <1>1, <1>2, <1>4, <1>5, <1>6 DEF Steps, Busy, At, WellFormed
<1>8. ps'[p] = r
  BY <1>1, <1>7, SetForm
<1>9. InLine'
  BY <1>5, <1>8 DEF InLine
<1>10. ASSUME r.alone, ps[p].alone PROVE Knows(p)'
  <2>1. ps[p].cfg = cfg
    BY <1>1, <1>2, <1>10 DEF Informed, Knows, At
  <2>2. Covers(p)'
    BY <1>2, <1>5, <1>8 DEF Covers, Twin, Pruned
  <2>3. QED
    BY <1>2, <1>5, <1>8, <2>1, <2>2 DEF Knows, At
<1>11. \A s \in file' \union r.list \union {r.new} :
         s = NoSession \/ \E u \in Held : s.id = u.id /\ s.client = u.client
  BY <1>1, <1>2, <1>5, Holding
<1>12. file' \in SUBSET Session /\ OnePerClient(file')
  BY <1>1, <1>2 DEF Shape, OpRecord
<1>13. QED
  BY <1>1, <1>2, <1>7, <1>9, <1>10, <1>11, <1>12, SetSound DEF WellFormed

LEMMA LandSound ==
  ASSUME Gated, NEW p \in Proc, Land(p)
  PROVE  Gated'
<1>1. WellFormed /\ Informed /\ Calm /\ Shape(ps[p]) /\ ps[p] \in OpRecord
  BY DEF Gated, WellFormed, Shape
<1>2. /\ At(p, "land") /\ kernel' = Rules(ps[p].cfg, ps[p].list) /\ Set(p, Idle)
      /\ troubled' = (troubled /\ ~ps[p].alone) /\ UNCHANGED <<cfg, file, granted, raced>>
  BY DEF Land
<1>3. Busy(p)
  BY <1>2 DEF Busy, At
<1>4. Steps(p, Idle)
  BY <1>1, <1>2, <1>3, IdleShape DEF Steps, WellFormed
<1>5. InLine'
  <2> SUFFICES ASSUME ~troubled' PROVE Follows'
    BY DEF InLine
  <2>1. ps[p].alone
    BY <1>1, <1>2, <1>3 DEF Calm, WellFormed
  <2>2. ps[p].cfg = cfg /\ Covers(p)
    BY <1>1, <1>2, <2>1 DEF Informed, Knows, At
  <2>3. /\ Clients(ps[p].list) \subseteq Clients(file)
        /\ Clients(Pruned(cfg, file)) \subseteq Clients(ps[p].list)
    BY <2>2 DEF Covers, Clients, Twin
  <2>4. QED
    BY <1>2, <2>2, <2>3 DEF Follows, Rules
<1>6. Idle.list = {} /\ Idle.new = NoSession /\ Idle.alone = FALSE
  BY DEF Idle
<1>7. \A s \in file' \union Idle.list \union {Idle.new} :
        s = NoSession \/ \E u \in Held : s.id = u.id /\ s.client = u.client
  BY <1>1, <1>2, <1>6, Holding
<1>8. kernel' \in [gate : BOOLEAN, pass : SUBSET Client]
  BY <1>1, <1>2 DEF Rules, Clients, OpRecord, Section, Session
<1>9. QED
  BY <1>1, <1>2, <1>4, <1>5, <1>6, <1>7, <1>8, SetSound DEF WellFormed

LEMMA FailSound ==
  ASSUME Gated, NEW p \in Proc, LandFails(p) \/ DiskFails(p)
  PROVE  Gated'
<1>1. Busy(p) /\ Fails(p) /\ UNCHANGED <<cfg, file, kernel, granted, raced>>
  BY DEF LandFails, DiskFails, At, Busy
<1>2. QED
  BY <1>1, EndSound DEF Fails

-----------------------------------------------------------------------------
(* Time and restarts.                                                      *)

LEMMA RestartSound ==
  ASSUME Gated, Restart
  PROVE  Gated'
<1>1. WellFormed /\ Owned
  BY DEF Gated
<1>2. PICK x \in Task : ps' = [p \in Proc |-> IF p = x THEN [Idle EXCEPT !.op = "startup", !.pc = "cfg",
                                                              !.dirty = TRUE, !.alone = TRUE]
                                                    ELSE Idle]
  BY DEF Restart
<1>3. PICK r : r = [Idle EXCEPT !.op = "startup", !.pc = "cfg", !.dirty = TRUE, !.alone = TRUE]
  OBVIOUS
<1>4. /\ r \in OpRecord /\ r.pc = "cfg" /\ r.op = "startup" /\ r.list = {} /\ r.new = NoSession
      /\ r.dirty = TRUE /\ r.alone = TRUE
  <2>1. Idle \in OpRecord /\ Idle.list = {} /\ Idle.new = NoSession
    BY IdleShape DEF Shape, Idle
  <2>2. QED
    BY <1>3, <2>1 DEF OpRecord, Label, Operation
<1>5. Shape(r)
  BY <1>4 DEF Shape, OnePerClient
<1>6. /\ x \in Proc /\ ps'[x] = r /\ \A p \in Proc : p # x => ps'[p] = Idle
      /\ ps' = [p \in Proc |-> IF p = x THEN r ELSE Idle]
  BY <1>2, <1>3 DEF Proc
<1>7. \A p \in Proc : Shape(ps'[p])
  BY <1>5, <1>6, IdleShape
<1>8. ps' \in [Proc -> OpRecord]
  BY <1>6, <1>7 DEF Shape
<1>9. /\ troubled' = TRUE /\ UNCHANGED <<cfg, file, granted, raced>>
      /\ kernel' \in [gate : BOOLEAN, pass : SUBSET Client]
  <2>1. Flushed \in [gate : BOOLEAN, pass : SUBSET Client]
    BY DEF Flushed
  <2>2. QED
    BY <1>1, <2>1 DEF Restart, WellFormed
<1>10. WellFormed'
  BY <1>1, <1>7, <1>8, <1>9 DEF WellFormed
<1>11. /\ Idle.list = {} /\ Idle.new = NoSession /\ Idle.alone = FALSE /\ Idle.pc = "idle"
  BY DEF Idle
<1>12. Owned'
  <2>1. ASSUME NEW s \in Held' PROVE s \in Held
    BY <1>4, <1>6, <1>9, <1>11, <2>1 DEF Held, Used
  <2>2. QED
    BY <1>1, <2>1 DEF Owned
<1>13. Lone'
  BY <1>4, <1>6, <1>11 DEF Lone, Busy, At
<1>14. Calm' /\ InLine'
  BY <1>9 DEF Calm, InLine
<1>15. Informed'
  <2> SUFFICES ASSUME NEW p \in Proc, ps'[p].alone PROVE Knows(p)'
    BY DEF Informed
  <2>1. ps'[p] = r
    BY <1>6, <1>11
  <2>2. QED
    BY <1>4, <2>1 DEF Knows, At
<1>16. QED
  BY <1>10, <1>12, <1>13, <1>14, <1>15 DEF Gated

\* Session t when the session with id i has become as old as a.
Aged(t, i, a) == IF t.id = i THEN [t EXCEPT !.age = a] ELSE t

AgedAll(l, i, a) == {Aged(t, i, a) : t \in l}

LEMMA AgedForm ==
  ASSUME NEW t \in Session, NEW i, NEW a \in {"old", "dead"}
  PROVE  /\ Aged(t, i, a) \in Session
         /\ Aged(t, i, a).id = t.id /\ Aged(t, i, a).client = t.client
         /\ t.id = i => Aged(t, i, a).age = a
BY DEF Aged, Session

LEMMA AgedSets ==
  ASSUME NEW l \in SUBSET Session, NEW i, NEW a \in {"old", "dead"}, OnePerClient(l)
  PROVE  /\ AgedAll(l, i, a) \in SUBSET Session /\ OnePerClient(AgedAll(l, i, a))
         /\ \A x \in AgedAll(l, i, a) : \E t \in l : x = Aged(t, i, a) /\ Twin(x, t)
         /\ \A t \in l : Aged(t, i, a) \in AgedAll(l, i, a) /\ Twin(Aged(t, i, a), t)
<1>1. \A t \in l : Aged(t, i, a) \in Session /\ Twin(Aged(t, i, a), t)
  BY AgedForm DEF Twin
<1>2. OnePerClient(AgedAll(l, i, a))
  BY <1>1 DEF OnePerClient, Twin, AgedAll
<1>3. QED
  BY <1>1, <1>2 DEF AgedAll

LEMMA ExpireForm ==
  ASSUME WellFormed, Expire
  PROVE  \E s \in file, a \in {"old", "dead"} :
           /\ a = "old" => s.age = "new"
           /\ file' = AgedAll(file, s.id, a)
           /\ UNCHANGED <<cfg, kernel, granted, raced, troubled>>
           /\ ps' = [p \in Proc |-> [ps[p] EXCEPT !.list = AgedAll(ps[p].list, s.id, a),
                                                  !.new = Aged(ps[p].new, s.id, a)]]
BY DEF Expire, Everywhere, Aged, AgedAll, hist
\* What a process has after a session has aged.
LEMMA AgedRecord ==
  ASSUME WellFormed, NEW p \in Proc, NEW i \in 1..MaxId, NEW a \in {"old", "dead"},
         ps'[p] = [ps[p] EXCEPT !.list = AgedAll(ps[p].list, i, a),
                                !.new = Aged(ps[p].new, i, a)]
  PROVE  /\ Shape(ps'[p])
         /\ ps'[p].pc = ps[p].pc /\ ps'[p].op = ps[p].op /\ ps'[p].cfg = ps[p].cfg
         /\ ps'[p].dirty = ps[p].dirty /\ ps'[p].alone = ps[p].alone
         /\ \A x \in ps'[p].list : \E t \in ps[p].list : x = Aged(t, i, a) /\ Twin(x, t)
         /\ \A t \in ps[p].list : Aged(t, i, a) \in ps'[p].list /\ Twin(Aged(t, i, a), t)
         /\ ps'[p].new = NoSession \/ (ps[p].new \in Session /\ Twin(ps'[p].new, ps[p].new))
<1> DEFINE l == AgedAll(ps[p].list, i, a)
           n == Aged(ps[p].new, i, a)
<1>1. Shape(ps[p]) /\ ps[p] \in OpRecord
  BY DEF WellFormed, Shape
<1>2. /\ l \in SUBSET Session /\ OnePerClient(l)
      /\ \A x \in l : \E t \in ps[p].list : x = Aged(t, i, a) /\ Twin(x, t)
      /\ \A t \in ps[p].list : Aged(t, i, a) \in l /\ Twin(Aged(t, i, a), t)
  <2>1. ps[p].list \in SUBSET Session /\ OnePerClient(ps[p].list)
    BY <1>1 DEF Shape, OpRecord
  <2>2. PICK k : k = ps[p].list
    OBVIOUS
  <2>3. k \in SUBSET Session /\ OnePerClient(k)
    BY <2>1, <2>2
  <2>4. /\ AgedAll(k, i, a) \in SUBSET Session /\ OnePerClient(AgedAll(k, i, a))
        /\ \A x \in AgedAll(k, i, a) : \E t \in k : x = Aged(t, i, a) /\ Twin(x, t)
        /\ \A t \in k : Aged(t, i, a) \in AgedAll(k, i, a) /\ Twin(Aged(t, i, a), t)
    BY <2>3, AgedSets
  <2>5. QED
    BY <2>2, <2>4
<1>3. /\ ps[p].new \in Session => n \in Session /\ Twin(n, ps[p].new)
      /\ ps[p].new = NoSession => n = NoSession
  <2>1. i # 0
    BY PortalAssumption
  <2>2. ps[p].new = NoSession => n = NoSession
    BY <2>1 DEF Aged, NoSession
  <2>3. QED
    BY <2>2, AgedForm DEF Twin
<1>4. n \in Session \union {NoSession}
  BY <1>1, <1>3 DEF OpRecord
<1>13. PICK r : r = ps'[p]
  OBVIOUS
<1>5. r = [ps[p] EXCEPT !.list = l, !.new = n]
  BY <1>13
<1>6. ps[p].pc = "idle" => l = {} /\ n = NoSession
  <2>1. AgedAll({}, i, a) = {}
    BY DEF AgedAll
  <2>2. QED
    BY <1>1, <1>3, <2>1 DEF Shape, Idle
<1> HIDE DEF l, n
<1>7. /\ r \in OpRecord /\ r.list = l /\ r.new = n
      /\ r.pc = ps[p].pc /\ r.op = ps[p].op /\ r.cfg = ps[p].cfg /\ r.drop = ps[p].drop
      /\ r.dirty = ps[p].dirty /\ r.alone = ps[p].alone
  BY <1>1, <1>2, <1>4, <1>5 DEF OpRecord
<1>8. r.pc = "idle" => r = Idle
  <2> SUFFICES ASSUME r.pc = "idle" PROVE r = Idle
    OBVIOUS
  <2>1. ps[p] = Idle /\ l = {} /\ n = NoSession
    BY <1>1, <1>6, <1>7 DEF Shape
  <2>2. r = [Idle EXCEPT !.list = {}, !.new = NoSession]
    BY <1>5, <2>1
  <2>3. QED
    BY <2>2 DEF Idle
<1>9. r.op \in {"authorize", "create"} => n \in Session /\ n.client = ps[p].new.client
  BY <1>1, <1>3, <1>7 DEF Shape, Twin
<1>10. Shape(r)
  BY <1>1, <1>2, <1>7, <1>8, <1>9 DEF Shape
<1>11. r.new = NoSession \/ (ps[p].new \in Session /\ Twin(r.new, ps[p].new))
  BY <1>1, <1>3, <1>7 DEF OpRecord
<1>12. QED
  BY <1>2, <1>7, <1>10, <1>11, <1>13

\* Sessions with one id age together, so that a copy stays no more active than its twin,
\* and nobody becomes active.
LEMMA AgedActive ==
  ASSUME NEW x \in Session, NEW y \in Session, x.id = y.id, NEW i, NEW a \in {"old", "dead"},
         SessionActive(cfg, x) => SessionActive(cfg, y),
         SessionActive(cfg, Aged(x, i, a))
  PROVE  SessionActive(cfg, Aged(y, i, a))
<1>1. CASE x.id = i
  <2>1. /\ Aged(x, i, a).age = a /\ Aged(y, i, a).age = a
    BY <1>1, AgedForm
  <2>2. QED
    BY <2>1 DEF SessionActive
<1>2. CASE x.id # i
  BY <1>2 DEF Aged
<1>3. QED
  BY <1>1, <1>2

LEMMA ExpireSound ==
  ASSUME Gated, Expire
  PROVE  Gated'
<1>1. WellFormed /\ Owned /\ Lone /\ Calm /\ InLine /\ Informed
  BY DEF Gated
<1>2. PICK s \in file, a \in {"old", "dead"} :
         /\ a = "old" => s.age = "new"
         /\ file' = AgedAll(file, s.id, a)
         /\ UNCHANGED <<cfg, kernel, granted, raced, troubled>>
         /\ ps' = [p \in Proc |-> [ps[p] EXCEPT !.list = AgedAll(ps[p].list, s.id, a),
                                                !.new = Aged(ps[p].new, s.id, a)]]
  BY <1>1, ExpireForm
<1> DEFINE i == s.id
<1>3. file \in SUBSET Session /\ OnePerClient(file) /\ s \in Session /\ i \in 1..MaxId
  BY <1>1 DEF WellFormed, Session
<1>4. /\ file' \in SUBSET Session /\ OnePerClient(file')
      /\ \A x \in file' : \E t \in file : x = Aged(t, i, a) /\ Twin(x, t)
      /\ \A t \in file : Aged(t, i, a) \in file' /\ Twin(Aged(t, i, a), t)
  <2>1. PICK l : l = AgedAll(file, i, a)
    OBVIOUS
  <2>2. /\ l \in SUBSET Session /\ OnePerClient(l)
        /\ \A x \in l : \E t \in file : x = Aged(t, i, a) /\ Twin(x, t)
        /\ \A t \in file : Aged(t, i, a) \in l /\ Twin(Aged(t, i, a), t)
    BY <1>3, <2>1, AgedSets
  <2>3. file' = l
    BY <1>2, <2>1
  <2>4. QED
    BY <2>2, <2>3
<1>5. ASSUME NEW p \in Proc
      PROVE  /\ Shape(ps'[p])
             /\ ps'[p].pc = ps[p].pc /\ ps'[p].op = ps[p].op /\ ps'[p].cfg = ps[p].cfg
             /\ ps'[p].dirty = ps[p].dirty /\ ps'[p].alone = ps[p].alone
             /\ \A x \in ps'[p].list : \E t \in ps[p].list : x = Aged(t, i, a) /\ Twin(x, t)
             /\ \A t \in ps[p].list : Aged(t, i, a) \in ps'[p].list /\ Twin(Aged(t, i, a), t)
             /\ ps'[p].new = NoSession \/ (ps[p].new \in Session /\ Twin(ps'[p].new, ps[p].new))
  <2>1. ps'[p] = [ps[p] EXCEPT !.list = AgedAll(ps[p].list, i, a),
                               !.new = Aged(ps[p].new, i, a)]
    BY <1>2
  <2> HIDE DEF i
  <2>3. QED
    BY <1>1, <1>3, <2>1, AgedRecord
<1> HIDE DEF i
<1>6. WellFormed'
  <2>1. ps' \in [Proc -> OpRecord]
    BY <1>2, <1>5 DEF Shape
  <2>2. QED
    BY <1>1, <1>2, <1>4, <1>5, <2>1 DEF WellFormed
<1>7. Owned'
  <2>1. ASSUME NEW x \in Held' PROVE \E t \in Held : x.id = t.id /\ x.client = t.client
    <3>1. x # NoSession /\ (x \in file' \/ \E p \in Proc : x \in ps'[p].list \/ x = ps'[p].new)
      BY <2>1 DEF Held, Used
    <3>2. CASE x \in file'
      BY <1>1, <1>4, <3>2, Holding DEF Twin
    <3>3. ASSUME NEW p \in Proc, x \in ps'[p].list \/ x = ps'[p].new
          PROVE  \E t \in Held : x.id = t.id /\ x.client = t.client
      BY <1>1, <1>5, <3>1, <3>3, Holding DEF Twin
    <3>4. QED
      BY <3>1, <3>2, <3>3
  <2>2. QED
    BY <1>1, <2>1 DEF Owned
<1>8. Lone' /\ Calm'
  <2>1. \A p \in Proc : ps'[p].pc = ps[p].pc /\ ps'[p].alone = ps[p].alone
    BY <1>5
  <2>2. Lone'
    BY <1>1, <2>1 DEF Lone, Busy, At
  <2>3. Calm'
    BY <1>1, <1>2, <2>1 DEF Calm, Busy, At
  <2>4. QED
    BY <2>2, <2>3
<1>9. /\ \A x \in file' : \E t \in file : Twin(x, t)
      /\ \A x \in Pruned(cfg, file') : \E t \in Pruned(cfg, file) : x = Aged(t, i, a) /\ Twin(x, t)
  <2>1. ASSUME NEW t \in file, SessionActive(cfg, Aged(t, i, a)) PROVE SessionActive(cfg, t)
    <3>1. CASE t.id # i
      BY <2>1, <3>1 DEF Aged
    <3>2. CASE t.id = i
      <4>1. t = s
        BY <1>1, <1>3, <3>2, Holding DEF Owned, OnePerClient, i
      <4>2. Aged(t, i, a).age = a /\ t.age \in {"new", "old", "dead"}
        BY <1>3, <3>2, AgedForm DEF Session
      <4>3. QED
        BY <1>2, <2>1, <4>1, <4>2 DEF SessionActive
    <3>3. QED
      BY <3>1, <3>2
  <2>2. QED
    BY <1>4, <2>1 DEF Pruned
<1>10. InLine'
  <2> SUFFICES ASSUME ~troubled', \A p \in Proc : ~ps'[p].dirty PROVE Follows'
    BY DEF InLine
  <2>5. ASSUME NEW p \in Proc PROVE ~ps[p].dirty
    <3>1. ps'[p].dirty = ps[p].dirty
      BY <1>5
    <3>2. QED
      BY <3>1
  <2>4. ~troubled /\ \A p \in Proc : ~ps[p].dirty
    BY <1>2, <2>5
  <2>1. Follows
    BY <1>1, <2>4 DEF InLine
  <2>2. /\ Clients(file) = Clients(file')
        /\ Clients(Pruned(cfg, file')) \subseteq Clients(Pruned(cfg, file))
    BY <1>4, <1>9 DEF Clients, Twin
  <2>3. QED
    BY <1>2, <2>1, <2>2 DEF Follows, Rules
<1>11. Informed'
  <2> SUFFICES ASSUME NEW p \in Proc, ps'[p].alone PROVE Knows(p)'
    BY DEF Informed
  <2>1. Knows(p)
    BY <1>1, <1>5 DEF Informed
  <2>2. \A x \in ps[p].list : x \in Session
    BY <1>1 DEF WellFormed, Shape, OpRecord
  <2>3. ASSUME Mirrors(p) PROVE Mirrors(p)'
    <3>1. ASSUME NEW x \in ps'[p].list
          PROVE  \E y \in file' : Twin(x, y) /\ (SessionActive(cfg', x) => SessionActive(cfg', y))
      <4>1. PICK l \in ps[p].list : x = Aged(l, i, a) /\ Twin(x, l)
        BY <1>5, <3>1
      <4>2. PICK t \in file : Twin(l, t) /\ (SessionActive(cfg, l) => SessionActive(cfg, t))
        BY <2>3 DEF Mirrors
      <4>3. Aged(t, i, a) \in file' /\ Twin(Aged(t, i, a), t)
        BY <1>4
      <4>4. l.id = t.id /\ l \in Session /\ t \in Session
        BY <1>3, <2>2, <4>2 DEF Twin
      <4>5. SessionActive(cfg, x) => SessionActive(cfg, Aged(t, i, a))
        BY <4>1, <4>2, <4>4, AgedActive
      <4>6. QED
        BY <1>2, <4>1, <4>2, <4>3, <4>5 DEF Twin
    <3>2. ASSUME NEW y \in file' PROVE \E x \in ps'[p].list : Twin(x, y)
      <4>1. PICK t \in file : Twin(y, t)
        BY <1>4
      <4>2. PICK l \in ps[p].list : Twin(l, t)
        BY <2>3 DEF Mirrors
      <4>3. QED
        BY <1>5, <4>1, <4>2 DEF Twin
    <3>3. QED
      BY <3>1, <3>2 DEF Mirrors
  <2>4. ASSUME Covers(p) PROVE Covers(p)'
    <3>1. ASSUME NEW x \in ps'[p].list PROVE \E y \in file' : Twin(x, y)
      <4>1. PICK l \in ps[p].list : Twin(x, l)
        BY <1>5, <3>1
      <4>2. PICK t \in file : Twin(l, t)
        BY <2>4 DEF Covers
      <4>3. QED
        BY <1>4, <4>1, <4>2 DEF Twin
    <3>2. ASSUME NEW y \in Pruned(cfg, file') PROVE \E x \in ps'[p].list : Twin(x, y)
      <4>1. PICK t \in Pruned(cfg, file) : Twin(y, t)
        BY <1>9, <3>2
      <4>2. PICK l \in ps[p].list : Twin(l, t)
        BY <2>4 DEF Covers
      <4>3. QED
        BY <1>5, <4>1, <4>2 DEF Twin
    <3>3. QED
      BY <1>2, <3>1, <3>2 DEF Covers
  <2>5. QED
    BY <1>2, <1>5, <2>1, <2>3, <2>4 DEF Knows, At
<1>12. QED
  BY <1>6, <1>7, <1>8, <1>10, <1>11 DEF Gated

LEMMA PortalStep == Gated /\ [Next]_vars => Gated'
<1> SUFFICES ASSUME Gated, [Next]_vars PROVE Gated'
  OBVIOUS
<1>1. ASSUME NEW p \in Task, Begin(p) PROVE Gated'
  BY <1>1, BeginSound DEF Proc
<1>2. ASSUME NEW p \in Proc, Operate(p) PROVE Gated'
  BY <1>2, SaveConfigSound, LoadSound, SaveSound, ApplyConfigSound, ApplySessionsSound,
     ApplyPruneSound, LandSound DEF Operate
<1>3. ASSUME NEW p \in Proc, LandFails(p) \/ DiskFails(p) PROVE Gated'
  BY <1>3, FailSound
<1>4. CASE Reap
  BY <1>4, BeginSound DEF Proc
<1>5. CASE Expire
  BY <1>5, ExpireSound
<1>6. CASE Restart
  BY <1>6, RestartSound
<1>7. CASE UNCHANGED vars
  <2>1. UNCHANGED <<cfg, file, kernel, ps, granted, raced, troubled>>
    BY <1>7 DEF vars, hist
  <2>2. WellFormed'
    BY <2>1 DEF Gated, WellFormed
  <2>3. Owned' /\ Lone' /\ Calm'
    BY <2>1 DEF Gated, Owned, Held, Used, Lone, Calm, Busy, At
  <2>4. InLine'
    BY <2>1 DEF Gated, InLine, Follows
  <2>5. Informed'
    BY <2>1 DEF Gated, Informed, Knows, Mirrors, Covers, At
  <2>6. QED
    BY <2>2, <2>3, <2>4, <2>5 DEF Gated
<1>8. QED
  BY <1>1, <1>2, <1>3, <1>4, <1>5, <1>6, <1>7 DEF Next

-----------------------------------------------------------------------------
(* The type invariant holds: in particular no list ever holds two sessions of one *)
(* client, whatever requests add, refresh and prune side by side.           *)
THEOREM PortalTypeCorrect == Spec => []TypeOK
<1>1. Gated => TypeOK
  BY DEF Gated, WellFormed, Shape, TypeOK
<1>2. QED
  BY <1>1, PortalStarts, PortalStep, PTL DEF Spec

(* With nothing under way the kernel lets through every client with an active *)
(* session and none without a session, once an operation has run alone and  *)
(* succeeded after whatever overlapped or failed, for any number of requests. *)
THEOREM KernelAlwaysGates == Spec => []KernelGates
<1>1. Gated => KernelGates
  <2> SUFFICES ASSUME Gated, Quiet, ~troubled PROVE Follows
    BY DEF KernelGates, Follows
  <2>1. \A p \in Proc : ps[p] = Idle
    BY DEF Gated, WellFormed, Shape, Quiet, Busy, At
  <2>2. \A p \in Proc : ~ps[p].dirty
    BY <2>1 DEF Idle
  <2>3. QED
    BY <2>2 DEF Gated, InLine
<1>2. QED
  BY <1>1, PortalStarts, PortalStep, PTL DEF Spec
-----------------------------------------------------------------------------
(* Vouchers, for any number of requests at once.                           *)

\* The sections that are about to be saved are of the kind of authorization there is;
\* and unless one count may have been written over another, the uses counted in the
\* stored section are granted or in flight, and who is about to save it adds a use.
Counting ==
  /\ ps[Reaper].op # "authorize" /\ ps[Reaper].pc # "savecfg"
  /\ \A q \in Proc : At(q, "savecfg") =>
       ps[q].cfg.voucher = cfg.voucher /\ (ps[q].op = "authorize" => cfg.voucher)
  /\ ~raced =>
       /\ granted <= MaxUses
       /\ cfg.voucher =>
            /\ granted + Cardinality(InFlight) <= cfg.uses
            /\ \A q \in Proc : At(q, "savecfg") /\ ps[q].op = "authorize" =>
                 cfg.uses < ps[q].cfg.uses

\* A step that counts nothing and lets no authorization begin or come back.
Harmless(q) ==
  \/ /\ ps'[q].pc = ps[q].pc /\ ps'[q].op = ps[q].op /\ ps'[q].cfg = ps[q].cfg
  \/ /\ ps'[q].pc # "savecfg"
     /\ ps'[q].op = "authorize" =>
          ps[q].op = "authorize" /\ (ps'[q].pc \in {"load", "save"} => ps[q].pc \in {"load", "save"})

LEMMA FewerInFlight ==
  ASSUME InFlight' \subseteq InFlight
  PROVE  Cardinality(InFlight)' <= Cardinality(InFlight) /\ Cardinality(InFlight)' \in Nat
<1>1. IsFiniteSet(InFlight) /\ Cardinality(InFlight) \in Nat
  BY InFlightFinite
<1>2. InFlight' \in SUBSET InFlight
  OBVIOUS
<1>3. IsFiniteSet(InFlight') /\ Cardinality(InFlight') <= Cardinality(InFlight)
  BY <1>1, <1>2, FS_Subset
<1>4. QED
  BY <1>3, FS_CardinalityType

LEMMA HarmlessCounts ==
  ASSUME Gated, Counting, UNCHANGED <<cfg, granted, raced>>, \A q \in Proc : Harmless(q)
  PROVE  Counting'
<1>1. cfg.uses \in Nat /\ granted \in Int /\ Cardinality(InFlight) \in Nat
  BY PortalAssumption, InFlightFinite DEF Gated, WellFormed, Section, Tally
<1>2. InFlight' \subseteq InFlight
  BY DEF InFlight, Harmless, Proc
<1>3. Cardinality(InFlight)' <= Cardinality(InFlight) /\ Cardinality(InFlight)' \in Nat
  BY <1>2, FewerInFlight
<1>4. ~raced /\ cfg.voucher => granted + Cardinality(InFlight)' <= cfg.uses
  BY <1>1, <1>3 DEF Counting
<1>5. ps'[Reaper].op # "authorize" /\ ps'[Reaper].pc # "savecfg"
  BY DEF Counting, Harmless, Proc
<1>6. \A q \in Proc : At(q, "savecfg")' =>
        /\ ps'[q].pc = ps[q].pc /\ ps'[q].op = ps[q].op /\ ps'[q].cfg = ps[q].cfg
        /\ At(q, "savecfg")
  BY DEF At, Harmless
<1>7. QED
  BY <1>4, <1>5, <1>6 DEF Counting

\* Operations that start.
LEMMA StartCounts ==
  ASSUME Gated, Counting, NEW x \in Task, Begin(x) \/ Reap
  PROVE  Counting'
<1>1. /\ WellFormed /\ cfg \in Section /\ x \in Proc /\ Reaper \in Proc /\ x # Reaper
      /\ ps \in [Proc -> OpRecord]
  BY PortalAssumption DEF Gated, WellFormed, Proc
<1>2. ASSUME NEW p \in Proc, NEW r, Start(p, r)
      PROVE  /\ UNCHANGED <<cfg, granted, raced>> /\ ps[p].pc = "idle"
             /\ ps' = [q \in Proc |-> IF q = p THEN [r EXCEPT !.alone = \A z \in Proc : ~Busy(z)]
                                               ELSE [ps[q] EXCEPT !.alone = FALSE]]
  BY <1>2 DEF Start, At
<1>3. ASSUME NEW p \in Proc, NEW r, Start(p, r)
      PROVE  \A q \in Proc : q # p => Harmless(q)
  <2>1. ASSUME NEW q \in Proc, q # p PROVE Harmless(q)
    <3> DEFINE b == \A z \in Proc : ~Busy(z)
    <3>3. ps' = [z \in Proc |-> IF z = p THEN [r EXCEPT !.alone = b]
                                          ELSE [ps[z] EXCEPT !.alone = FALSE]]
      BY <1>2, <1>3
    <3> HIDE DEF b
    <3>1. ps'[q] = [ps[q] EXCEPT !.alone = FALSE] /\ ps[q] \in OpRecord
      BY <1>1, <2>1, <3>3
    <3>2. QED
      BY <3>1 DEF Harmless, OpRecord
  <2>2. QED
    BY <2>1
<1>4. ASSUME NEW p \in Proc, NEW o, NEW l, NEW c, NEW n, NEW d, NEW r, Start(p, r),
             r = Opening(o, l, c, n, d)
      PROVE  ps'[p].pc = l /\ ps'[p].op = o /\ ps'[p].cfg = c
  <2> DEFINE b == \A z \in Proc : ~Busy(z)
  <2>1. ps' = [q \in Proc |-> IF q = p THEN [r EXCEPT !.alone = b] ELSE [ps[q] EXCEPT !.alone = FALSE]]
    BY <1>2, <1>4
  <2> HIDE DEF b
  <2>2. ps'[p] = [r EXCEPT !.alone = b]
    BY <2>1
  <2>3. QED
    BY <1>4, <2>2 DEF Opening
\* An operation that starts with a section to save.
<1>13. ASSUME NEW o, NEW c, NEW n, NEW d, NEW r, Start(x, r), r = Opening(o, "savecfg", c, n, d),
              c.voucher = cfg.voucher, o = "authorize" => cfg.voucher /\ cfg.uses < c.uses
       PROVE  Counting'
  <2>1. ps'[x].pc = "savecfg" /\ ps'[x].op = o /\ ps'[x].cfg = c
    BY <1>1, <1>4, <1>13
  <2>2. UNCHANGED <<cfg, granted, raced>> /\ \A q \in Proc : q # x => Harmless(q)
    BY <1>1, <1>2, <1>3, <1>13
  <2>3. InFlight' \subseteq InFlight
    BY <2>1, <2>2 DEF InFlight, Harmless, Proc
  <2>4. cfg.uses \in Nat /\ granted \in Int /\ Cardinality(InFlight) \in Nat
    BY <1>1, PortalAssumption, InFlightFinite DEF WellFormed, Section, Tally
  <2>5. Cardinality(InFlight)' <= Cardinality(InFlight) /\ Cardinality(InFlight)' \in Nat
    BY <2>3, FewerInFlight
  <2>6. ~raced /\ cfg.voucher => granted + Cardinality(InFlight)' <= cfg.uses
    BY <2>4, <2>5 DEF Counting
  <2>7. ps'[Reaper].op # "authorize" /\ ps'[Reaper].pc # "savecfg"
    BY <1>1, <2>2 DEF Harmless, Counting
  <2>8. \A q \in Proc : q # x /\ At(q, "savecfg")' =>
          At(q, "savecfg") /\ ps'[q].op = ps[q].op /\ ps'[q].cfg = ps[q].cfg
    BY <2>2 DEF At, Harmless
  <2>9. \A q \in Proc : At(q, "savecfg")' =>
          ps'[q].cfg.voucher = cfg.voucher /\ (ps'[q].op = "authorize" => cfg.voucher)
    BY <1>13, <2>1, <2>8 DEF Counting
  <2>10. ~raced /\ cfg.voucher =>
           \A q \in Proc : At(q, "savecfg")' /\ ps'[q].op = "authorize" => cfg.uses < ps'[q].cfg.uses
    BY <1>13, <2>1, <2>8 DEF Counting
  <2>11. QED
    BY <2>2, <2>6, <2>7, <2>9, <2>10 DEF Counting
<1>5. CASE Authorize(x)
  <2>1. PICK c \in Client :
          Start(x, [Idle EXCEPT !.op = "authorize",
                                !.pc = IF cfg.voucher THEN "savecfg" ELSE "load",
                                !.cfg = Redeem(cfg), !.new = NewSession(c), !.drop = {c}])
    BY <1>5 DEF Authorize
  <2>2. PICK r : r = [Idle EXCEPT !.op = "authorize",
                                !.pc = IF cfg.voucher THEN "savecfg" ELSE "load",
                                !.cfg = Redeem(cfg), !.new = NewSession(c), !.drop = {c}]
    OBVIOUS
  <2>3. r = Opening("authorize", IF cfg.voucher THEN "savecfg" ELSE "load", Redeem(cfg),
                    NewSession(c), {c})
    BY <2>2 DEF Opening, Idle
  <2>4. Start(x, r)
    BY <2>1, <2>2
  <2>5. /\ ps'[x].pc = IF cfg.voucher THEN "savecfg" ELSE "load"
        /\ ps'[x].op = "authorize" /\ ps'[x].cfg = Redeem(cfg)
    BY <1>1, <1>4, <2>3, <2>4
  <2>7. cfg.voucher => Redeem(cfg).voucher = cfg.voucher /\ cfg.uses < Redeem(cfg).uses
    <3>1. cfg.uses \in Nat
      BY <1>1, PortalAssumption DEF Section
    <3>2. cfg.voucher => Redeem(cfg) = [cfg EXCEPT !.uses = cfg.uses + 1]
      BY DEF Redeem
    <3>3. PICK n \in Nat : n = cfg.uses + 1
      BY <3>1
    <3>4. cfg.uses < n
      BY <3>1, <3>3
    <3>5. cfg.voucher => Redeem(cfg).voucher = cfg.voucher /\ Redeem(cfg).uses = n
      BY <1>1, <3>2, <3>3 DEF Section
    <3>6. QED
      BY <3>4, <3>5
  <2>8. CASE cfg.voucher
    BY <1>13, <2>3, <2>4, <2>7, <2>8
  <2>9. CASE ~cfg.voucher
    <3>1. UNCHANGED <<cfg, granted, raced>> /\ \A q \in Proc : q # x => Harmless(q)
      BY <1>1, <1>2, <1>3, <2>4
    <3>2. ps'[x].pc # "savecfg"
      BY <2>5, <2>9
    <3>3. ps'[Reaper].op # "authorize" /\ ps'[Reaper].pc # "savecfg"
      BY <1>1, <3>1 DEF Harmless, Counting
    <3>4. \A q \in Proc : At(q, "savecfg")' =>
            q # x /\ At(q, "savecfg") /\ ps'[q].op = ps[q].op /\ ps'[q].cfg = ps[q].cfg
      BY <3>1, <3>2 DEF At, Harmless
    <3>5. QED
      BY <2>9, <3>1, <3>3, <3>4 DEF Counting
  <2>10. QED
    BY <2>8, <2>9
<1>6. ASSUME NEW p \in {x, Reaper}, NEW o, NEW l, NEW c, NEW n, NEW d, NEW r, Start(p, r),
             r = Opening(o, l, c, n, d), o # "authorize", l # "savecfg"
      PROVE  Counting'
  <2>1. p \in Proc
    BY <1>1
  <2>2. ps'[p].pc = l /\ ps'[p].op = o
    BY <1>4, <1>6, <2>1
  <2>3. (\A q \in Proc : Harmless(q)) /\ UNCHANGED <<cfg, granted, raced>>
    BY <1>1, <1>2, <1>3, <1>6, <2>1, <2>2 DEF Harmless
  <2>4. QED
    BY <1>1, <2>3, HarmlessCounts
<1>7. CASE CreateSession(x)
  <2>1. PICK c \in Client :
          Start(x, [Idle EXCEPT !.op = "create", !.pc = "load", !.new = NewSession(c),
                                !.drop = {c}])
    BY <1>7 DEF CreateSession
  <2>2. PICK r : r = [Idle EXCEPT !.op = "create", !.pc = "load", !.new = NewSession(c),
                                  !.drop = {c}]
    OBVIOUS
  <2>3. Start(x, r) /\ r = Opening("create", "load", Fresh, NewSession(c), {c})
    BY <2>1, <2>2 DEF Opening, Idle
  <2>4. QED
    BY <1>6, <2>3
<1>8. CASE EditSession(x)
  <2>1. PICK c \in Client, op \in Ops \cap {"logout", "revoke", "status"} :
          Start(x, [Idle EXCEPT !.op = op, !.pc = "load", !.cfg = cfg, !.drop = {c}])
    BY <1>8 DEF EditSession
  <2>2. PICK r : r = [Idle EXCEPT !.op = op, !.pc = "load", !.cfg = cfg, !.drop = {c}]
    OBVIOUS
  <2>3. Start(x, r) /\ r = Opening(op, "load", cfg, NoSession, {c})
    BY <2>1, <2>2 DEF Opening, Idle
  <2>4. QED
    BY <1>6, <2>3
<1>9. CASE PublishRules(x)
  <2>1. PICK op \in Ops \cap {"rules", "block"} : Start(x, [Idle EXCEPT !.op = op, !.pc = "cfg"])
    BY <1>9 DEF PublishRules
  <2>2. PICK r : r = [Idle EXCEPT !.op = op, !.pc = "cfg"]
    OBVIOUS
  <2>3. Start(x, r) /\ r = Opening(op, "cfg", Fresh, NoSession, {})
    BY <2>1, <2>2 DEF Opening, Idle
  <2>4. QED
    BY <1>6, <2>3
<1>10. CASE Reap
  <2>1. PICK r : r = [Idle EXCEPT !.pc = "load", !.cfg = cfg]
    OBVIOUS
  <2>2. Start(Reaper, r) /\ r = Opening("reap", "load", cfg, NoSession, {})
    BY <1>10, <2>1 DEF Reap, Opening, Idle
  <2>3. QED
    BY <1>6, <2>2
<1>11. CASE UpdateConfig(x)
  <2>1. PICK on \in BOOLEAN, m \in 0..MaxUses :
          Start(x, [Idle EXCEPT !.op = "update", !.pc = "savecfg",
                                !.cfg = [cfg EXCEPT !.on = on, !.uses = m]])
    BY <1>11 DEF UpdateConfig
  <2>2. PICK k : k = [cfg EXCEPT !.on = on, !.uses = m]
    OBVIOUS
  <2>3. k.voucher = cfg.voucher
    BY <1>1, <2>2 DEF Section
  <2>4. PICK r : r = [Idle EXCEPT !.op = "update", !.pc = "savecfg", !.cfg = k]
    OBVIOUS
  <2>5. Start(x, r) /\ r = Opening("update", "savecfg", k, NoSession, {})
    BY <2>1, <2>2, <2>4 DEF Opening, Idle
  <2>6. QED
    BY <1>13, <2>3, <2>5
<1>12. QED
  BY <1>5, <1>7, <1>8, <1>9, <1>10, <1>11 DEF Begin
\* Operations that go on.
LEMMA OperateCounts ==
  ASSUME Gated, Counting, NEW p \in Proc, Operate(p)
  PROVE  Counting'
<1>1. /\ WellFormed /\ cfg \in Section /\ Reaper \in Proc /\ Reaper \notin Task
      /\ ps \in [Proc -> OpRecord] /\ Shape(ps[p]) /\ ps[p] \in OpRecord
  BY PortalAssumption DEF Gated, WellFormed, Proc
<1>2. Idle.pc = "idle" /\ Idle.op = "reap"
  BY DEF Idle
\* Steps that leave section and count alone.
<1>3. ASSUME NEW r, Set(p, r), UNCHANGED <<cfg, granted, raced>>, r.pc # "savecfg",
             r.op = "authorize" => /\ ps[p].op = "authorize"
                                   /\ r.pc \in {"load", "save"} => ps[p].pc \in {"load", "save"}
      PROVE  Counting'
  <2>1. ps'[p] = r /\ \A q \in Proc : q # p => ps'[q] = ps[q]
    BY <1>1, <1>3 DEF Set
  <2>2. \A q \in Proc : Harmless(q)
    BY <1>3, <2>1 DEF Harmless
  <2>3. QED
    BY <1>1, <1>3, <2>2, HarmlessCounts
<1>4. CASE SaveConfig(p)
  <2>1. /\ ps[p].pc = "savecfg" /\ cfg' = ps[p].cfg
        /\ granted' = IF ps[p].op = "update" THEN ps[p].cfg.uses - Cardinality(InFlight) ELSE granted
        /\ raced' = ((raced /\ ps[p].op # "update") \/ \E q \in Proc \ {p} : At(q, "savecfg"))
        /\ ps' = [ps EXCEPT ![p] = [ps[p] EXCEPT !.pc = "load", !.dirty = ps[p].op = "update"]]
    BY <1>4 DEF SaveConfig, At, Set
  <2>2. p \in Task /\ p # Reaper
    BY <1>1, <2>1 DEF Counting, Proc
  <2>3. /\ ps'[p].pc = "load" /\ ps'[p].op = ps[p].op /\ \A q \in Proc : q # p => ps'[q] = ps[q]
    BY <1>1, <2>1 DEF OpRecord
  <2>4. /\ ps[p].cfg.voucher = cfg.voucher /\ ps[p].op \in {"authorize", "update"}
        /\ ps[p].op = "authorize" => cfg.voucher
        /\ ~raced /\ ps[p].op = "authorize" => cfg.uses < ps[p].cfg.uses
    BY <1>1, <2>1 DEF Counting, At, Shape
  <2>5. /\ cfg.uses \in Nat /\ granted \in Int /\ ps[p].cfg.uses \in 0..MaxUses /\ MaxUses \in Nat
        /\ Cardinality(InFlight) \in Nat
    BY <1>1, PortalAssumption, InFlightFinite DEF WellFormed, Section, OpRecord, Tally
  <2>6. ps'[Reaper].op # "authorize" /\ ps'[Reaper].pc # "savecfg"
    BY <1>1, <2>2, <2>3 DEF Counting
  <2>7. \A q \in Proc : At(q, "savecfg")' => q # p /\ ps'[q] = ps[q] /\ At(q, "savecfg")
    BY <2>3 DEF At
  <2>8. ~raced' => \A q \in Proc : ~At(q, "savecfg")'
    BY <2>1, <2>7
  <2>9. \A q \in Proc : At(q, "savecfg")' =>
          ps'[q].cfg.voucher = cfg'.voucher /\ (ps'[q].op = "authorize" => cfg'.voucher)
    BY <2>1, <2>4, <2>7 DEF Counting
  <2>10. ASSUME ~raced'
         PROVE  /\ granted' <= MaxUses
                /\ cfg'.voucher => granted' + Cardinality(InFlight)' <= cfg'.uses
    <3>1. CASE ps[p].op = "update"
      <4>1. InFlight' = InFlight
        BY <2>1, <2>3, <3>1 DEF InFlight, Proc
      <4>2. granted' = ps[p].cfg.uses - Cardinality(InFlight) /\ cfg'.uses = ps[p].cfg.uses
        BY <2>1, <3>1
      <4>3. QED
        BY <2>5, <4>1, <4>2
    <3>2. CASE ps[p].op = "authorize"
      <4>1. InFlight' = InFlight \union {p}
        BY <2>2, <2>3, <3>2 DEF InFlight, Proc
      <4>2. Cardinality(InFlight)' <= Cardinality(InFlight) + 1 /\ Cardinality(InFlight)' \in Nat
        <5>1. IsFiniteSet(InFlight)
          BY InFlightFinite
        <5>2. /\ IsFiniteSet(InFlight \union {p})
              /\ Cardinality(InFlight \union {p}) =
                   IF p \in InFlight THEN Cardinality(InFlight) ELSE Cardinality(InFlight) + 1
          BY <5>1, FS_AddElement
        <5>3. Cardinality(InFlight \union {p}) \in Nat
          BY <5>2, FS_CardinalityType
        <5>4. QED
          BY <2>5, <4>1, <5>2, <5>3
      <4>3. ~raced /\ granted' = granted /\ cfg'.uses = ps[p].cfg.uses
        BY <2>1, <2>10, <3>2
      <4>4. granted <= MaxUses /\ granted + Cardinality(InFlight) <= cfg.uses
        BY <2>4, <3>2, <4>3 DEF Counting
      <4>5. cfg.uses < ps[p].cfg.uses
        BY <2>4, <3>2, <4>3
      <4>6. QED
        BY <2>5, <4>2, <4>3, <4>4, <4>5
    <3>3. QED
      BY <2>4, <3>1, <3>2
  <2>11. QED
    BY <2>6, <2>8, <2>9, <2>10 DEF Counting
<1>5. CASE LoadSessions(p)
  <2>1. UNCHANGED <<cfg, granted, raced>> /\ ps[p].pc = "load"
    BY <1>5 DEF LoadSessions, hist, At
  <2>2. CASE Set(p, [ps[p] EXCEPT !.pc = "save", !.list = Edited(ps[p], file), !.drop = {},
                                  !.cfg = Fresh])
    <3>1. PICK r : r = [ps[p] EXCEPT !.pc = "save", !.list = Edited(ps[p], file), !.drop = {},
                                     !.cfg = Fresh]
      OBVIOUS
    <3>2. r.pc = "save" /\ r.op = ps[p].op
      BY <1>1, <3>1 DEF OpRecord
    <3>3. QED
      BY <1>3, <2>1, <2>2, <3>1, <3>2
  <2>3. CASE Set(p, [ps[p] EXCEPT !.op = "publish", !.pc = "cfg", !.cfg = Fresh])
    <3>1. PICK r : r = [ps[p] EXCEPT !.op = "publish", !.pc = "cfg", !.cfg = Fresh]
      OBVIOUS
    <3>2. r.pc = "cfg" /\ r.op = "publish"
      BY <1>1, <3>1 DEF OpRecord
    <3>3. QED
      BY <1>3, <2>1, <2>3, <3>1, <3>2
  <2>4. CASE Set(p, Idle)
    BY <1>2, <1>3, <2>1, <2>4
  <2>5. QED
    BY <1>5, <2>2, <2>3, <2>4 DEF LoadSessions
<1>6. CASE SaveSessions(p)
  <2>1. PICK r : Set(p, r) /\ r.pc \in {"idle", "cfg"} /\ r.op \in {"reap", "publish"}
    <3>1. PICK r : r = [Idle EXCEPT !.op = "publish", !.pc = "cfg", !.dirty = TRUE, !.alone = ps[p].alone]
      OBVIOUS
    <3>2. r.pc = "cfg" /\ r.op = "publish"
      BY <3>1 DEF Idle
    <3>3. CASE ps[p].op = "status"
      BY <1>2, <1>6, <3>3 DEF SaveSessions
    <3>4. CASE ps[p].op # "status"
      BY <1>6, <3>1, <3>2, <3>4 DEF SaveSessions
    <3>5. QED
      BY <3>3, <3>4
  <2>2. /\ ps[p].pc = "save" /\ cfg' = cfg
        /\ granted' = IF ps[p].op = "authorize" /\ cfg.voucher /\ granted <= MaxUses
                      THEN granted + 1 ELSE granted
        /\ raced' = raced
    BY <1>6 DEF SaveSessions, At, Counted
  <2>3. CASE ~(ps[p].op = "authorize" /\ cfg.voucher)
    BY <1>3, <2>1, <2>2, <2>3
  <2>4. CASE ps[p].op = "authorize" /\ cfg.voucher
    <3>1. p \in InFlight /\ p # Reaper
      BY <1>1, <2>2, <2>4 DEF Counting, InFlight, Proc
    <3>2. ps'[p] = r /\ \A q \in Proc : q # p => ps'[q] = ps[q]
      BY <1>1, <2>1 DEF Set
    <3>3. InFlight' = InFlight \ {p}
      BY <2>1, <3>1, <3>2 DEF InFlight, Proc
    <3>4. Cardinality(InFlight)' = Cardinality(InFlight) - 1 /\ Cardinality(InFlight)' \in Nat
      <4>1. IsFiniteSet(InFlight)
        BY InFlightFinite
      <4>2. IsFiniteSet(InFlight \ {p}) /\ Cardinality(InFlight \ {p}) = Cardinality(InFlight) - 1
        BY <3>1, <4>1, FS_RemoveElement
      <4>3. Cardinality(InFlight \ {p}) \in Nat
        BY <4>2, FS_CardinalityType
      <4>4. QED
        BY <3>3, <4>2, <4>3
    <3>5. /\ cfg.uses \in 0..MaxUses /\ granted \in Int /\ MaxUses \in Nat
          /\ Cardinality(InFlight) \in Nat
      BY <1>1, PortalAssumption, InFlightFinite DEF WellFormed, Section, Tally
    <3>6. ASSUME ~raced
          PROVE  granted' <= MaxUses /\ granted' + Cardinality(InFlight)' <= cfg.uses
      <4>1. granted <= MaxUses /\ granted + Cardinality(InFlight) <= cfg.uses
        BY <2>4, <3>6 DEF Counting
      <4>2. granted' = granted + 1
        BY <2>2, <2>4, <4>1
      <4>3. QED
        BY <3>4, <3>5, <4>1, <4>2
    <3>7. \A q \in Proc : At(q, "savecfg")' => ps'[q] = ps[q] /\ At(q, "savecfg")
      BY <2>1, <3>2 DEF At
    <3>8. ps'[Reaper].op # "authorize" /\ ps'[Reaper].pc # "savecfg"
      BY <1>1, <3>1, <3>2 DEF Counting
    <3>9. QED
      BY <2>2, <3>6, <3>7, <3>8 DEF Counting
  <2>5. QED
    BY <2>3, <2>4
<1>7. CASE ApplyConfig(p)
  <2>1. PICK r : r = [ps[p] EXCEPT !.pc = "sessions", !.cfg = cfg]
    OBVIOUS
  <2>2. r.pc = "sessions" /\ r.op = ps[p].op
    BY <1>1, <2>1 DEF OpRecord
  <2>3. QED
    BY <1>3, <1>7, <2>1, <2>2 DEF ApplyConfig, hist
<1>8. CASE ApplySessions(p)
  <2> DEFINE l == Pruned(ps[p].cfg, file)
             next == IF l = file \/ ps[p].op = "block" THEN "land" ELSE "prune"
  <2>1. Set(p, [ps[p] EXCEPT !.pc = next, !.list = l]) /\ UNCHANGED <<cfg, granted, raced>>
    BY <1>8 DEF ApplySessions, hist
  <2>2. next \in {"land", "prune"}
    OBVIOUS
  <2> HIDE DEF l, next
  <2>3. PICK r : r = [ps[p] EXCEPT !.pc = next, !.list = l]
    OBVIOUS
  <2>4. r.pc = next /\ r.op = ps[p].op
    BY <1>1, <2>3 DEF OpRecord
  <2>5. QED
    BY <1>3, <2>1, <2>2, <2>3, <2>4
<1>9. CASE ApplyPrune(p)
  <2>1. PICK r : r = [ps[p] EXCEPT !.pc = "land", !.dirty = TRUE]
    OBVIOUS
  <2>2. r.pc = "land" /\ r.op = ps[p].op
    BY <1>1, <2>1 DEF OpRecord
  <2>3. QED
    BY <1>3, <1>9, <2>1, <2>2 DEF ApplyPrune, hist
<1>10. CASE Land(p)
  BY <1>2, <1>3, <1>10 DEF Land
<1>11. QED
  BY <1>4, <1>5, <1>6, <1>7, <1>8, <1>9, <1>10 DEF Operate

LEMMA OtherwiseCounts ==
  ASSUME Gated, Counting,
         (\E p \in Proc : LandFails(p) \/ DiskFails(p)) \/ Expire \/ Restart \/ UNCHANGED vars
  PROVE  Counting'
<1>1. WellFormed /\ ps \in [Proc -> OpRecord]
  BY DEF Gated, WellFormed
<1>2. Idle.pc = "idle" /\ Idle.op = "reap"
  BY DEF Idle
<1>3. SUFFICES UNCHANGED <<cfg, granted, raced>> /\ \A q \in Proc : Harmless(q)
  BY <1>1, HarmlessCounts
<1>4. ASSUME NEW p \in Proc, LandFails(p) \/ DiskFails(p)
      PROVE  UNCHANGED <<cfg, granted, raced>> /\ \A q \in Proc : Harmless(q)
  <2>1. UNCHANGED <<cfg, granted, raced>> /\ Set(p, Idle)
    BY <1>4 DEF LandFails, DiskFails, Fails
  <2>2. ps'[p] = Idle /\ \A q \in Proc : q # p => ps'[q] = ps[q]
    BY <1>1, <2>1 DEF Set
  <2>3. QED
    BY <1>2, <2>1, <2>2 DEF Harmless
<1>5. CASE Expire
  <2>1. PICK s \in file, a \in {"old", "dead"} :
          /\ UNCHANGED <<cfg, granted, raced>>
          /\ ps' = [p \in Proc |-> [ps[p] EXCEPT !.list = AgedAll(ps[p].list, s.id, a),
                                                 !.new = Aged(ps[p].new, s.id, a)]]
    BY <1>1, <1>5, ExpireForm
  <2>2. ASSUME NEW q \in Proc PROVE Harmless(q)
    <3>1. ps'[q] = [ps[q] EXCEPT !.list = AgedAll(ps[q].list, s.id, a),
                                 !.new = Aged(ps[q].new, s.id, a)]
      BY <2>1
    <3>2. QED
      BY <1>1, <3>1 DEF Harmless, OpRecord
  <2>3. QED
    BY <2>1, <2>2
<1>6. CASE Restart
  <2>1. UNCHANGED <<cfg, granted, raced>>
    BY <1>6 DEF Restart
  <2>2. PICK y \in Task : ps' = [p \in Proc |-> IF p = y THEN [Idle EXCEPT !.op = "startup", !.pc = "cfg",
                                                              !.dirty = TRUE, !.alone = TRUE]
                                                    ELSE Idle]
    BY <1>6 DEF Restart
  <2>3. PICK r : r = [Idle EXCEPT !.op = "startup", !.pc = "cfg", !.dirty = TRUE, !.alone = TRUE]
    OBVIOUS
  <2>4. r.pc = "cfg" /\ r.op = "startup"
    BY <2>3 DEF Idle
  <2>5. \A q \in Proc : ps'[q] = r \/ ps'[q] = Idle
    BY <2>2, <2>3
  <2>6. QED
    BY <1>2, <2>1, <2>4, <2>5 DEF Harmless
<1>7. CASE UNCHANGED vars
  BY <1>7 DEF vars, hist, Harmless
<1>8. QED
  BY <1>4, <1>5, <1>6, <1>7

(* For any number of requests at once, a voucher is redeemed no more often than it *)
(* allows, whatever fails or stops between counting a use in the section and *)
(* storing the session, unless one count may have been written over another: a use *)
(* is counted before it is granted, and who saves a count while nobody else is *)
(* about to has counted from the stored one.                                *)
THEOREM VouchersLimited == Spec => []VoucherLimit
<1>1. Init => Counting
  <2> SUFFICES ASSUME Init PROVE Counting
    OBVIOUS
  <2>1. Reaper \in Proc /\ \A q \in Proc : ps[q] = Idle
    BY DEF Init, Proc
  <2>2. granted = 0 /\ cfg \in Section /\ MaxUses \in Nat
    BY PortalStarts, PortalAssumption DEF Init, Gated, WellFormed
  <2>3. cfg.uses \in Nat /\ Idle.op # "authorize" /\ Idle.pc # "savecfg"
    BY <2>2 DEF Section, Idle
  <2>4. InFlight = {}
    BY <2>1, <2>3 DEF InFlight, Proc
  <2>5. Cardinality(InFlight) = 0
    BY <2>4, FS_EmptySet
  <2>6. QED
    BY <2>1, <2>2, <2>3, <2>5 DEF Counting, At
<1>2. Gated /\ Counting /\ [Next]_vars => Counting'
  <2> SUFFICES ASSUME Gated, Counting, [Next]_vars PROVE Counting'
    OBVIOUS
  <2>1. CASE \E p \in Task : Begin(p)
    BY <2>1, StartCounts
  <2>2. CASE Reap
    BY <2>2, StartCounts, PortalAssumption
  <2>3. CASE \E p \in Proc : Operate(p)
    BY <2>3, OperateCounts
  <2>4. CASE (\E p \in Proc : LandFails(p) \/ DiskFails(p)) \/ Expire \/ Restart \/ UNCHANGED vars
    BY <2>4, OtherwiseCounts
  <2>5. QED
    BY <2>1, <2>2, <2>3, <2>4 DEF Next
<1>3. Counting => VoucherLimit
  BY DEF Counting, VoucherLimit
<1>4. QED
  BY <1>1, <1>2, <1>3, PortalStarts, PortalStep, PTL DEF Spec

-----------------------------------------------------------------------------
(* Lists.                                                                  *)

\* What Listed puts last of a set, and the recursion it follows.
LastOf(T) == CHOOSE x \in T : TRUE
ListStep(g, T) == IF T = {} THEN <<>> ELSE Append(g[T \ {LastOf(T)}], LastOf(T))
ListsUpTo(g, S, n) ==
  DOMAIN g = SUBSET S /\ \A T \in SUBSET S : Cardinality(T) <= n => g[T] = ListStep(g, T)

LEMMA LeastNatural ==
  ASSUME NEW T, T \subseteq Nat, T # {}
  PROVE  \E n \in T : \A k \in T : n <= k
<1> DEFINE R == OpToRel(<, Nat)
<1>1. \A x, y \in Nat : y < x => <<y, x>> \in R
  BY DEF OpToRel
<1>2. IsWellFoundedOn(R, Nat)
  BY NatLessThanWellFounded
<1> HIDE DEF R
<1>3. PICK n \in T : \A k \in T : ~(<<k, n>> \in R)
  BY <1>2, WFMin
<1>4. \A k \in T : ~(k < n)
  BY <1>1, <1>3
<1> QED BY <1>3, <1>4

LEMMA Smaller ==
  ASSUME NEW S, IsFiniteSet(S), NEW T \in SUBSET S
  PROVE  /\ IsFiniteSet(T) /\ Cardinality(T) \in Nat /\ Cardinality(T) <= Cardinality(S)
         /\ Cardinality(T) = 0 <=> T = {}
         /\ T # {} => /\ LastOf(T) \in T /\ T \ {LastOf(T)} \in SUBSET S
                      /\ Cardinality(T \ {LastOf(T)}) = Cardinality(T) - 1
<1>1. IsFiniteSet(T) /\ Cardinality(T) <= Cardinality(S)
  BY FS_Subset
<1>2. Cardinality(T) \in Nat /\ (Cardinality(T) = 0 <=> T = {})
  BY <1>1, FS_CardinalityType, FS_EmptySet
<1>3. ASSUME T # {}
      PROVE  LastOf(T) \in T /\ Cardinality(T \ {LastOf(T)}) = Cardinality(T) - 1
  <2>1. LastOf(T) \in T
    BY <1>3 DEF LastOf
  <2> QED BY <1>1, <2>1, FS_RemoveElement
<1> QED BY <1>1, <1>2, <1>3

LEMMA ListsExist ==
  ASSUME NEW S, IsFiniteSet(S), NEW n \in Nat
  PROVE  \E g : ListsUpTo(g, S, n)
<1> DEFINE bad == {m \in Nat : ~\E g : ListsUpTo(g, S, m)}
<1> SUFFICES ASSUME bad # {} PROVE FALSE
  OBVIOUS
<1>1. bad \subseteq Nat
  OBVIOUS
<1>2. PICK m \in bad : \A k \in bad : m <= k
  <2> HIDE DEF bad
  <2> QED BY <1>1, LeastNatural
<1>3. m \in Nat /\ ~\E g : ListsUpTo(g, S, m)
  OBVIOUS
<1>4. m # 0
  <2> SUFFICES ASSUME m = 0 PROVE FALSE
    OBVIOUS
  <2> DEFINE h == [T \in SUBSET S |-> <<>>]
  <2>1. DOMAIN h = SUBSET S /\ h[{}] = <<>>
    OBVIOUS
  <2> HIDE DEF h
  <2>2. \A T \in SUBSET S : Cardinality(T) <= 0 => T = {}
    <3> SUFFICES ASSUME NEW T \in SUBSET S, Cardinality(T) <= 0 PROVE T = {}
      OBVIOUS
    <3>1. Cardinality(T) \in Nat /\ (Cardinality(T) = 0 <=> T = {})
      BY Smaller
    <3> QED BY <3>1
  <2>3. ListsUpTo(h, S, 0)
    BY <2>1, <2>2 DEF ListsUpTo, ListStep
  <2> QED BY <1>3, <2>3
<1>5. m - 1 \in Nat /\ m - 1 \notin bad
  <2> HIDE DEF bad
  <2> QED BY <1>2, <1>3, <1>4
<1>6. PICK g : ListsUpTo(g, S, m - 1)
  BY <1>5
<1> DEFINE h == [T \in SUBSET S |-> IF Cardinality(T) = m THEN ListStep(g, T) ELSE g[T]]
<1>7. DOMAIN h = SUBSET S /\ \A T \in SUBSET S : h[T] = IF Cardinality(T) = m THEN ListStep(g, T) ELSE g[T]
  OBVIOUS
<1> HIDE DEF h
<1>8. ASSUME NEW T \in SUBSET S, Cardinality(T) <= m
      PROVE  h[T] = ListStep(h, T)
  <2>1. /\ Cardinality(T) \in Nat
        /\ T # {} => /\ T \ {LastOf(T)} \in SUBSET S
                     /\ Cardinality(T \ {LastOf(T)}) = Cardinality(T) - 1
    BY Smaller
  <2>2. ListStep(h, T) = ListStep(g, T)
    <3>1. CASE T = {}
      BY <3>1 DEF ListStep
    <3>2. CASE T # {}
      <4>1. h[T \ {LastOf(T)}] = g[T \ {LastOf(T)}]
        BY <1>3, <1>7, <1>8, <2>1, <3>2
      <4> QED BY <3>2, <4>1 DEF ListStep
    <3> QED BY <3>1, <3>2
  <2>3. Cardinality(T) # m => g[T] = ListStep(g, T)
    BY <1>3, <1>6, <1>8, <2>1 DEF ListsUpTo
  <2> QED BY <1>7, <2>2, <2>3
<1>9. ListsUpTo(h, S, m)
  BY <1>7, <1>8 DEF ListsUpTo
<1> QED BY <1>3, <1>9

LEMMA ListsOf ==
  ASSUME NEW S, IsFiniteSet(S)
  PROVE  \E g : /\ DOMAIN g = SUBSET S /\ \A T \in SUBSET S : g[T] = ListStep(g, T)
                /\ Listed(S) = g[S]
<1>1. Cardinality(S) \in Nat
  BY FS_CardinalityType
<1>2. PICK g : ListsUpTo(g, S, Cardinality(S))
  BY <1>1, ListsExist
<1>3. DOMAIN g = SUBSET S /\ \A T \in SUBSET S : g[T] = ListStep(g, T)
  BY <1>2, Smaller DEF ListsUpTo
<1> DEFINE iter == CHOOSE f : f = [T \in SUBSET S |-> ListStep(f, T)]
           G == [T \in SUBSET S |-> g[T]]
<1>4. \A T \in SUBSET S : G[T] = g[T]
  OBVIOUS
<1>5. DOMAIN G = SUBSET S /\ \A T \in SUBSET S : ListStep(G, T) = ListStep(g, T)
  <2>1. DOMAIN G = SUBSET S /\ \A T \in SUBSET S : T \ {LastOf(T)} \in SUBSET S
    OBVIOUS
  <2> HIDE DEF G
  <2> QED BY <1>4, <2>1 DEF ListStep
<1>6. G = [T \in SUBSET S |-> ListStep(G, T)]
  <2>1. G = [T \in SUBSET S |-> G[T]]
    OBVIOUS
  <2>2. \A T \in SUBSET S : G[T] = ListStep(G, T)
    BY <1>3, <1>4, <1>5
  <2> HIDE DEF G
  <2> QED BY <2>1, <2>2
<1>7. iter = [T \in SUBSET S |-> ListStep(iter, T)]
  <2> HIDE DEF G
  <2> QED BY <1>6
<1>8. Listed(S) = iter[S]
  BY DEF Listed, FoldSet, MapThenFoldSet, ListStep, LastOf
<1> HIDE DEF iter
<1>9. DOMAIN iter = SUBSET S /\ \A T \in SUBSET S : iter[T] = ListStep(iter, T)
  BY <1>7
<1> QED BY <1>8, <1>9

LEMMA ListedMembers ==
  ASSUME NEW S, IsFiniteSet(S)
  PROVE  /\ Listed(S) \in Seq(S)
         /\ \A x \in S : \E i \in 1..Len(Listed(S)) : Listed(S)[i] = x
<1>1. PICK g : /\ DOMAIN g = SUBSET S /\ \A T \in SUBSET S : g[T] = ListStep(g, T)
               /\ Listed(S) = g[S]
  BY ListsOf
<1> DEFINE Lists(T) == g[T] \in Seq(S) /\ \A x \in T : \E i \in 1..Len(g[T]) : g[T][i] = x
           bad == {n \in Nat : \E T \in SUBSET S : Cardinality(T) = n /\ ~Lists(T)}
<1>2. bad = {}
  <2> SUFFICES ASSUME bad # {} PROVE FALSE
    OBVIOUS
  <2>1. bad \subseteq Nat
    OBVIOUS
  <2>2. PICK m \in bad : \A k \in bad : m <= k
    <3> HIDE DEF bad
    <3> QED BY <2>1, LeastNatural
  <2>3. PICK T \in SUBSET S : m \in Nat /\ Cardinality(T) = m /\ ~Lists(T)
    OBVIOUS
  <2> DEFINE x == LastOf(T)
             U == T \ {x}
  <2>4. T # {}
    <3> SUFFICES ASSUME T = {} PROVE FALSE
      OBVIOUS
    <3>1. g[T] = <<>>
      BY <1>1 DEF ListStep
    <3>2. g[T] \in Seq(S)
      BY <3>1
    <3> QED BY <2>3, <3>2
  <2>5. x \in T /\ U \in SUBSET S /\ Cardinality(U) = m - 1
    BY <2>3, <2>4, Smaller
  <2>6. Cardinality(U) \in Nat
    BY <2>5, Smaller
  <2>7. Lists(U)
    <3>1. Cardinality(U) \notin bad
      <4> HIDE DEF bad, U
      <4> QED BY <2>2, <2>3, <2>5, <2>6
    <3> QED BY <2>5, <2>6, <3>1
  <2>8. g[T] = Append(g[U], x) /\ x \in S /\ T = U \union {x}
    BY <1>1, <2>4, <2>5 DEF ListStep
  <2>9. T = U \union {x}
    BY <2>5
  <2> HIDE DEF x, U
  <2>10. /\ Append(g[U], x) \in Seq(S)
         /\ Len(Append(g[U], x)) = Len(g[U]) + 1
         /\ \A i \in 1..Len(g[U]) : Append(g[U], x)[i] = g[U][i]
         /\ Append(g[U], x)[Len(g[U]) + 1] = x
    BY <2>7, <2>8, AppendProperties
  <2>11. Len(g[U]) \in Nat
    BY <2>7
  <2>12. \A y \in T : \E i \in 1..Len(g[T]) : g[T][i] = y
    <3> TAKE y \in T
    <3>1. CASE y = x
      BY <2>8, <2>10, <2>11, <3>1
    <3>2. CASE y \in U
      <4>1. PICK i \in 1..Len(g[U]) : g[U][i] = y
        BY <2>7, <3>2
      <4>2. i \in 1..Len(g[T]) /\ g[T][i] = y
        BY <2>8, <2>10, <2>11, <4>1
      <4> QED BY <4>2
    <3> QED BY <2>9, <3>1, <3>2
  <2> QED BY <2>3, <2>8, <2>10, <2>12
<1>3. Cardinality(S) \in Nat
  BY FS_CardinalityType
<1> QED BY <1>1, <1>2, <1>3

Place(a) == a[1] \in Int /\ a[2] \in Int /\ a = <<a[1], a[2]>>

LEMMA Ranks ==
  ASSUME NEW P, IsFiniteSet(P), \A a \in P : Place(a)
  PROVE  /\ \A a \in P : Rank(a, P) \in 1..Cardinality(P)
         /\ \A a, b \in P : Before(a, b) => Rank(a, P) < Rank(b, P)
<1> DEFINE under(a) == {b \in P : Before(b, a)}
<1>1. Cardinality(P) \in Nat
  BY FS_CardinalityType
<1>2. ASSUME NEW a \in P
      PROVE  /\ IsFiniteSet(under(a)) /\ Cardinality(under(a)) \in Nat
             /\ Rank(a, P) = Cardinality(under(a)) + 1 /\ a \notin under(a)
  <2>1. IsFiniteSet(under(a))
    BY FS_Subset
  <2>2. Cardinality(under(a)) \in Nat
    BY <2>1, FS_CardinalityType
  <2>3. Rank(a, P) = Cardinality(under(a)) + 1
    BY DEF Rank
  <2>4. a \notin under(a)
    BY <1>2 DEF Before, Place
  <2> QED BY <2>1, <2>2, <2>3, <2>4
<1>3. ASSUME NEW a \in P, NEW T, IsFiniteSet(T), under(a) \in SUBSET (T \ {a}), a \in T
      PROVE  Cardinality(under(a)) + 1 <= Cardinality(T)
  <2>1. IsFiniteSet(T \ {a}) /\ Cardinality(T \ {a}) = Cardinality(T) - 1
    BY <1>3, FS_RemoveElement
  <2>2. Cardinality(under(a)) <= Cardinality(T \ {a})
    <3> HIDE DEF under
    <3> QED BY <1>3, <2>1, FS_Subset
  <2>3. Cardinality(T) \in Nat
    BY <1>3, FS_CardinalityType
  <2> HIDE DEF under
  <2> QED BY <1>2, <2>1, <2>2, <2>3
<1>4. ASSUME NEW a \in P PROVE Rank(a, P) \in 1..Cardinality(P)
  <2>1. under(a) \in SUBSET (P \ {a})
    BY <1>2
  <2>2. Cardinality(under(a)) + 1 <= Cardinality(P)
    <3> HIDE DEF under
    <3> QED BY <1>3, <2>1
  <2> HIDE DEF under
  <2> QED BY <1>1, <1>2, <2>2
<1>5. ASSUME NEW a \in P, NEW b \in P, Before(a, b) PROVE Rank(a, P) < Rank(b, P)
  <2>1. under(a) \in SUBSET (under(b) \ {a}) /\ a \in under(b)
    <3>1. \A c \in under(a) : c \in under(b)
      <4> SUFFICES ASSUME NEW c \in P, Before(c, a) PROVE Before(c, b)
        OBVIOUS
      <4> QED BY <1>5 DEF Before, Place
    <3> QED BY <1>2, <1>5, <3>1
  <2>2. Cardinality(under(a)) + 1 <= Cardinality(under(b))
    <3> HIDE DEF under
    <3> QED BY <1>2, <1>3, <2>1
  <2> HIDE DEF under
  <2> QED BY <1>2, <2>2
<1> QED BY <1>4, <1>5

\* A list that holds what s has at the places P, in their order.
Arranges(t, s, P, n, f) ==
  /\ n \in Nat /\ f \in [1..n -> P]
  /\ \A a \in P : \E k \in 1..n : f[k] = a
  /\ \A j, k \in 1..n : j < k => Before(f[j], f[k])
  /\ DOMAIN t = 1..n /\ \A k \in 1..n : t[k] = s[f[k][2]]

LEMMA Arrangement ==
  ASSUME NEW s, NEW P, IsFiniteSet(P), \A a \in P : Place(a)
  PROVE  \E n, f : Arranges(Arranged(s, P), s, P, n, f)
<1> DEFINE n == Cardinality(P)
           r == [a \in P |-> Rank(a, P)]
           f == [k \in 1..n |-> CHOOSE a \in P : Rank(a, P) = k]
<1>1. n \in Nat
  BY FS_CardinalityType
<1>2. /\ \A a \in P : Rank(a, P) \in 1..n
      /\ \A a, b \in P : Before(a, b) => Rank(a, P) < Rank(b, P)
  BY Ranks
<1>3. IsFiniteSet(1..n) /\ Cardinality(1..n) = n
  <2> HIDE DEF n
  <2>1. 1 \in Int /\ n \in Int
    BY <1>1
  <2>2. IsFiniteSet(1..n) /\ Cardinality(1..n) = IF 1 > n THEN 0 ELSE n - 1 + 1
    BY <2>1, FS_Interval
  <2> QED BY <1>1, <2>2
<1>4. \A a, b \in P : a = b \/ Before(a, b) \/ Before(b, a)
  BY DEF Before, Place
<1>5. r \in Injection(P, 1..n)
  <2>1. r \in [P -> 1..n]
    BY <1>2
  <2>2. \A a, b \in P : r[a] = r[b] => a = b
    BY <1>2, <1>4
  <2> HIDE DEF r, n
  <2> QED BY <2>1, <2>2 DEF Injection, IsInjective
<1>6. r \in Surjection(P, 1..n)
  <2>1. Cardinality(P) = Cardinality(1..n)
    BY <1>3
  <2> HIDE DEF r, n
  <2> QED BY <1>3, <1>5, <2>1, FS_Injection
<1>7. \A k \in 1..n : \E a \in P : Rank(a, P) = k
  <2>1. \A k \in 1..n : \E a \in P : r[a] = k
    <3> HIDE DEF r, n
    <3> QED BY <1>6 DEF Surjection
  <2> QED BY <2>1
<1>8. \A k \in 1..n : f[k] \in P /\ Rank(f[k], P) = k
  BY <1>7
<1>9. f \in [1..n -> P]
  BY <1>8
<1> HIDE DEF f, r, n
<1>11. \A a \in P : f[Rank(a, P)] = a
  <2> TAKE a \in P
  <2>1. f[Rank(a, P)] \in P /\ Rank(f[Rank(a, P)], P) = Rank(a, P)
    BY <1>2, <1>8
  <2>2. \A b \in P : Rank(b, P) = Rank(a, P) => b = a
    BY <1>1, <1>2, <1>4
  <2> QED BY <2>1, <2>2
<1>10. DOMAIN Arranged(s, P) = 1..n /\ \A k \in 1..n : Arranged(s, P)[k] = s[f[k][2]]
  <2> DEFINE ranked == {<<Rank(a, P), a[2]>> : a \in P}
             g(k) == CHOOSE x \in ranked : x[1] = k
  <2>1. Arranged(s, P) = [k \in 1..n |-> s[g(k)[2]]]
    BY DEF Arranged, n
  <2>2. ASSUME NEW k \in 1..n PROVE g(k)[2] = f[k][2]
    <3>1. <<k, f[k][2]>> \in ranked
      BY <1>8
    <3>2. \A x \in ranked : x[1] = k => x[2] = f[k][2]
      BY <1>11
    <3> HIDE DEF ranked
    <3>3. g(k) \in ranked /\ g(k)[1] = k
      BY <3>1
    <3> QED BY <3>2, <3>3
  <2> HIDE DEF g
  <2> QED BY <2>1, <2>2
<1>12. \A a \in P : \E k \in 1..n : f[k] = a
  BY <1>2, <1>11
<1>13. \A j, k \in 1..n : j < k => Before(f[j], f[k])
  <2> SUFFICES ASSUME NEW j \in 1..n, NEW k \in 1..n, j < k PROVE Before(f[j], f[k])
    OBVIOUS
  <2>1. f[j] # f[k] /\ ~(Rank(f[k], P) < Rank(f[j], P))
    BY <1>1, <1>8
  <2> QED BY <1>2, <1>4, <1>8, <2>1
<1>14. Arranges(Arranged(s, P), s, P, n, f)
  BY <1>1, <1>9, <1>10, <1>12, <1>13 DEF Arranges
<1> QED BY <1>14

\* The indices of a list in a new order, all of them.
Reorders(t, s, I, n, f) ==
  /\ n \in Nat /\ f \in [1..n -> I]
  /\ \A i \in I : \E k \in 1..n : f[k] = i
  /\ DOMAIN t = 1..n /\ \A k \in 1..n : t[k] = s[f[k]]

LEMMA ByPriorityOrder ==
  ASSUME NEW s, NEW m \in Nat, NEW I, I \subseteq 1..m, \A i \in I : s[i].pri \in Int
  PROVE  \E n, f : /\ Reorders(ByPriority(s, I), s, I, n, f)
                   /\ \A j, k \in 1..n : j < k =>
                        \/ s[f[j]].pri < s[f[k]].pri
                        \/ s[f[j]].pri = s[f[k]].pri /\ f[j] < f[k]
<1> DEFINE P == {<<s[i].pri, i>> : i \in I}
           p == [i \in I |-> <<s[i].pri, i>>]
<1>1. IsFiniteSet(I)
  <2>1. IsFiniteSet(1..m)
    BY FS_Interval
  <2> QED BY <2>1, FS_Subset
<1>2. p \in Surjection(I, P)
  BY DEF Surjection
<1>3. IsFiniteSet(P)
  <2> HIDE DEF p, P
  <2> QED BY <1>1, <1>2, FS_Surjection
<1>4. \A a \in P : a[2] \in I /\ a = <<s[a[2]].pri, a[2]>> /\ a[1] = s[a[2]].pri
  OBVIOUS
<1>5. \A a \in P : Place(a)
  <2> HIDE DEF P, p
  <2>1. \A i \in I : i \in Int
    <3>1. \A i \in 1..m : i \in Int
      OBVIOUS
    <3> QED BY <3>1, Zenon
  <2> QED BY <1>4, <2>1 DEF Place
<1>6. \A i \in I : <<s[i].pri, i>> \in P
  OBVIOUS
<1>7. ByPriority(s, I) = Arranged(s, P)
  BY DEF ByPriority
<1> HIDE DEF P, p
<1>8. PICK n, f : Arranges(Arranged(s, P), s, P, n, f)
  BY <1>3, <1>5, Arrangement, Zenon
<1>9. /\ n \in Nat /\ f \in [1..n -> P]
      /\ \A a \in P : \E k \in 1..n : f[k] = a
      /\ \A j, k \in 1..n : j < k => Before(f[j], f[k])
      /\ DOMAIN Arranged(s, P) = 1..n /\ \A k \in 1..n : Arranged(s, P)[k] = s[f[k][2]]
  BY <1>8 DEF Arranges
<1> DEFINE g == [k \in 1..n |-> f[k][2]]
<1>10. g \in [1..n -> I] /\ \A k \in 1..n : g[k] = f[k][2]
  BY <1>4, <1>9
<1>11. \A i \in I : \E k \in 1..n : g[k] = i
  <2> TAKE i \in I
  <2>1. PICK k \in 1..n : f[k] = <<s[i].pri, i>>
    BY <1>6, <1>9
  <2> QED BY <1>10, <2>1
<1>12. DOMAIN Arranged(s, P) = 1..n /\ \A k \in 1..n : Arranged(s, P)[k] = s[g[k]]
  BY <1>9, <1>10
<1> HIDE DEF g
<1>13. \A j, k \in 1..n : j < k =>
         \/ s[g[j]].pri < s[g[k]].pri
         \/ s[g[j]].pri = s[g[k]].pri /\ g[j] < g[k]
  <2> SUFFICES ASSUME NEW j \in 1..n, NEW k \in 1..n, j < k
               PROVE  \/ s[g[j]].pri < s[g[k]].pri
                      \/ s[g[j]].pri = s[g[k]].pri /\ g[j] < g[k]
    OBVIOUS
  <2>1. Before(f[j], f[k]) /\ f[j] \in P /\ f[k] \in P
    BY <1>9
  <2>2. f[j][1] = s[g[j]].pri /\ f[k][1] = s[g[k]].pri
    BY <1>4, <1>10, <2>1
  <2> QED BY <1>10, <2>1, <2>2 DEF Before
<1>14. Reorders(ByPriority(s, I), s, I, n, g)
  BY <1>7, <1>9, <1>10, <1>11, <1>12 DEF Reorders
<1> QED BY <1>13, <1>14

LEMMA InOrderOrder ==
  ASSUME NEW s, NEW m \in Nat, NEW I, I \subseteq 1..m
  PROVE  \E n, f : /\ Reorders(InOrder(s, I), s, I, n, f)
                   /\ \A j, k \in 1..n : j < k => f[j] < f[k]
<1> DEFINE P == {<<0, i>> : i \in I}
           p == [i \in I |-> <<0, i>>]
<1>1. IsFiniteSet(I)
  <2>1. IsFiniteSet(1..m)
    BY FS_Interval
  <2> QED BY <2>1, FS_Subset
<1>2. p \in Surjection(I, P)
  BY DEF Surjection
<1>3. IsFiniteSet(P)
  <2> HIDE DEF p, P
  <2> QED BY <1>1, <1>2, FS_Surjection
<1>4. \A a \in P : a[2] \in I /\ a = <<0, a[2]>> /\ a[1] = 0
  OBVIOUS
<1>5. \A a \in P : Place(a)
  <2> HIDE DEF P, p
  <2>1. \A i \in I : i \in Int
    <3>1. \A i \in 1..m : i \in Int
      OBVIOUS
    <3> QED BY <3>1, Zenon
  <2> QED BY <1>4, <2>1 DEF Place
<1>6. \A i \in I : <<0, i>> \in P
  OBVIOUS
<1>7. InOrder(s, I) = Arranged(s, P)
  BY DEF InOrder
<1> HIDE DEF P, p
<1>8. PICK n, f : Arranges(Arranged(s, P), s, P, n, f)
  BY <1>3, <1>5, Arrangement, Zenon
<1>9. /\ n \in Nat /\ f \in [1..n -> P]
      /\ \A a \in P : \E k \in 1..n : f[k] = a
      /\ \A j, k \in 1..n : j < k => Before(f[j], f[k])
      /\ DOMAIN Arranged(s, P) = 1..n /\ \A k \in 1..n : Arranged(s, P)[k] = s[f[k][2]]
  BY <1>8 DEF Arranges
<1> DEFINE g == [k \in 1..n |-> f[k][2]]
<1>10. g \in [1..n -> I] /\ \A k \in 1..n : g[k] = f[k][2]
  BY <1>4, <1>9
<1>11. \A i \in I : \E k \in 1..n : g[k] = i
  <2> TAKE i \in I
  <2>1. PICK k \in 1..n : f[k] = <<0, i>>
    BY <1>6, <1>9
  <2> QED BY <1>10, <2>1
<1>12. DOMAIN Arranged(s, P) = 1..n /\ \A k \in 1..n : Arranged(s, P)[k] = s[g[k]]
  BY <1>9, <1>10
<1> HIDE DEF g
<1>13. \A j, k \in 1..n : j < k => g[j] < g[k]
  <2> SUFFICES ASSUME NEW j \in 1..n, NEW k \in 1..n, j < k PROVE g[j] < g[k]
    OBVIOUS
  <2>1. Before(f[j], f[k]) /\ f[j] \in P /\ f[k] \in P
    BY <1>9
  <2>2. f[j][1] = 0 /\ f[k][1] = 0
    BY <1>4, <2>1
  <2> QED BY <1>10, <2>1, <2>2 DEF Before
<1>14. Reorders(InOrder(s, I), s, I, n, g)
  BY <1>7, <1>9, <1>10, <1>11, <1>12 DEF Reorders
<1> QED BY <1>13, <1>14

-----------------------------------------------------------------------------
(* Chains.                                                                 *)

IsChain(s) == s \in Seq({s[i] : i \in DOMAIN s})

LEMMA ChainIndices ==
  ASSUME NEW s, IsChain(s)
  PROVE  Len(s) \in Nat /\ DOMAIN s = 1..Len(s)
BY LenProperties DEF IsChain

LEMMA ListIsChain ==
  ASSUME NEW n \in Nat, NEW s, s = [i \in 1..n |-> s[i]]
  PROVE  IsChain(s) /\ Len(s) = n
<1> DEFINE R == {s[i] : i \in DOMAIN s}
<1>1. DOMAIN s = 1..n /\ \A i \in 1..n : s[i] \in R
  OBVIOUS
<1> HIDE DEF R
<1>2. s \in [1..n -> R]
  BY <1>1
<1>3. s \in Seq(R)
  BY <1>2
<1>4. Len(s) \in Nat /\ DOMAIN s = 1..Len(s)
  BY <1>3, LenProperties
<1>5. Len(s) = n
  BY <1>1, <1>4
<1> QED BY <1>3, <1>5 DEF IsChain, R

LEMMA SeqIsChain ==
  ASSUME NEW S, NEW s \in Seq(S)
  PROVE  IsChain(s)
<1>1. Len(s) \in Nat /\ s \in [1..Len(s) -> S]
  BY LenProperties
<1>2. s = [i \in 1..Len(s) |-> s[i]]
  BY <1>1
<1> QED BY <1>1, <1>2, ListIsChain

LEMMA ChainJoin ==
  ASSUME NEW s, NEW t, IsChain(s), IsChain(t)
  PROVE  /\ IsChain(s \o t) /\ Len(s \o t) = Len(s) + Len(t)
         /\ \A i \in 1..Len(s) : (s \o t)[i] = s[i]
         /\ \A i \in 1..Len(t) : (s \o t)[Len(s) + i] = t[i]
<1> DEFINE S == {s[i] : i \in DOMAIN s} \union {t[i] : i \in DOMAIN t}
<1>1. s \in Seq(S) /\ t \in Seq(S)
  <2>1. s \in Seq({s[i] : i \in DOMAIN s}) /\ t \in Seq({t[i] : i \in DOMAIN t})
    BY DEF IsChain
  <2>2. {s[i] : i \in DOMAIN s} \subseteq S /\ {t[i] : i \in DOMAIN t} \subseteq S
    OBVIOUS
  <2> HIDE DEF S
  <2> QED BY <2>1, <2>2, SeqMonotonic
<1> HIDE DEF S
<1>2. Len(s) \in Nat /\ Len(t) \in Nat
  BY ChainIndices
<1>3. /\ s \o t \in Seq(S) /\ Len(s \o t) = Len(s) + Len(t)
      /\ \A i \in 1..Len(s) + Len(t) : (s \o t)[i] = IF i <= Len(s) THEN s[i] ELSE t[i - Len(s)]
  BY <1>1, ConcatProperties
<1>4. IsChain(s \o t)
  BY <1>3, SeqIsChain
<1>5. \A i \in 1..Len(s) : (s \o t)[i] = s[i]
  BY <1>2, <1>3
<1>6. ASSUME NEW i \in 1..Len(t) PROVE (s \o t)[Len(s) + i] = t[i]
  <2>1. Len(s) + i \in 1..Len(s) + Len(t) /\ ~(Len(s) + i <= Len(s)) /\ Len(s) + i - Len(s) = i
    BY <1>2
  <2> QED BY <1>3, <2>1
<1> QED BY <1>3, <1>4, <1>5, <1>6

LEMMA ShortChains ==
  ASSUME NEW x, NEW y, NEW z
  PROVE  /\ IsChain(<<>>) /\ Len(<<>>) = 0
         /\ IsChain(<<x>>) /\ Len(<<x>>) = 1
         /\ IsChain(<<x, y>>) /\ Len(<<x, y>>) = 2
         /\ IsChain(<<x, y, z>>) /\ Len(<<x, y, z>>) = 3
<1>1. <<>> \in Seq({x}) /\ <<x>> \in Seq({x}) /\ <<x, y>> \in Seq({x, y}) /\ <<x, y, z>> \in Seq({x, y, z})
  OBVIOUS
<1>2. IsChain(<<>>) /\ IsChain(<<x>>) /\ IsChain(<<x, y>>) /\ IsChain(<<x, y, z>>)
  BY <1>1, SeqIsChain
<1> QED BY <1>2

LEMMA FirstLeast ==
  ASSUME NEW S, S \subseteq Nat, S # {}
  PROVE  FirstOf(S) \in S /\ \A j \in S : FirstOf(S) <= j
BY LeastNatural DEF FirstOf

LEMMA EndingIndices ==
  ASSUME NEW s, IsChain(s), NEW p
  PROVE  Ending(s, p) \subseteq 1..Len(s) /\ Ending(s, p) \subseteq Nat
BY ChainIndices DEF Ending

\* What a chain does is what its first part does, or the other where no
\* statement of the first applies.
LEMMA VerdictJoin ==
  ASSUME NEW s, NEW t, IsChain(s), IsChain(t), NEW policy, NEW p
  PROVE  /\ Ending(s \o t, p) = {} <=> Ending(s, p) = {} /\ Ending(t, p) = {}
         /\ Ending(s, p) # {} => Verdict(s \o t, policy, p) = Verdict(s, policy, p)
         /\ Ending(s, p) = {} => Verdict(s \o t, policy, p) = Verdict(t, policy, p)
<1> DEFINE c == s \o t
           n == Len(s)
           A == Ending(s, p)
           B == Ending(t, p)
           C == Ending(c, p)
<1>1. /\ IsChain(c) /\ Len(c) = n + Len(t)
      /\ \A i \in 1..n : c[i] = s[i]
      /\ \A i \in 1..Len(t) : c[n + i] = t[i]
  BY ChainJoin
<1>2. /\ n \in Nat /\ DOMAIN s = 1..n /\ Len(t) \in Nat /\ DOMAIN t = 1..Len(t)
      /\ DOMAIN c = 1..Len(c)
  BY <1>1, ChainIndices
<1> HIDE DEF c, n
<1>3. A \subseteq 1..n /\ B \subseteq 1..Len(t) /\ C \subseteq 1..Len(c)
  BY <1>2 DEF Ending
<1>10. A \subseteq Nat /\ B \subseteq Nat /\ C \subseteq Nat
  <2>1. 1..n \subseteq Nat /\ 1..Len(t) \subseteq Nat /\ 1..Len(c) \subseteq Nat
    OBVIOUS
  <2> HIDE DEF A, B, C
  <2> QED BY <1>3, <2>1
<1>4. \A i \in 1..n : i \in C <=> i \in A
  <2> TAKE i \in 1..n
  <2>1. i \in 1..Len(c)
    BY <1>1, <1>2
  <2> QED BY <1>1, <1>2, <2>1 DEF Ending
<1>5. \A i \in 1..Len(t) : n + i \in C <=> i \in B
  <2> TAKE i \in 1..Len(t)
  <2>1. n + i \in 1..Len(c)
    BY <1>1, <1>2
  <2> QED BY <1>1, <1>2, <2>1 DEF Ending
<1>6. \A i \in 1..Len(c) : i \in 1..n \/ (i - n \in 1..Len(t) /\ i = n + (i - n))
  BY <1>1, <1>2
<1> HIDE DEF A, B, C
<1>7. C = {} <=> A = {} /\ B = {}
  <2>1. ASSUME A = {}, B = {} PROVE C = {}
    BY <1>3, <1>4, <1>5, <1>6, <2>1
  <2>2. ASSUME A # {} PROVE C # {}
    BY <1>3, <1>4, <2>2
  <2>3. ASSUME B # {} PROVE C # {}
    BY <1>3, <1>5, <2>3
  <2> QED BY <2>1, <2>2, <2>3
<1>8. ASSUME A # {} PROVE Verdict(c, policy, p) = Verdict(s, policy, p)
  <2>1. FirstOf(A) \in A /\ \A j \in A : FirstOf(A) <= j
    BY <1>10, <1>8, FirstLeast
  <2>2. FirstOf(C) \in C /\ \A j \in C : FirstOf(C) <= j
    BY <1>10, <1>7, <1>8, FirstLeast
  <2>3. FirstOf(A) \in C /\ FirstOf(A) \in 1..n
    BY <1>3, <1>4, <2>1
  <2>4. FirstOf(C) \in 1..n
    <3>1. FirstOf(C) \in 1..Len(c) /\ FirstOf(C) <= FirstOf(A)
      BY <1>3, <2>2, <2>3
    <3> QED BY <1>1, <1>2, <2>3, <3>1
  <2>5. FirstOf(C) \in A
    BY <1>4, <2>2, <2>4
  <2>6. FirstOf(C) = FirstOf(A)
    BY <1>2, <2>1, <2>2, <2>3, <2>4, <2>5
  <2>7. Verdict(c, policy, p) = c[FirstOf(C)].verdict /\ Verdict(s, policy, p) = s[FirstOf(A)].verdict
    BY <1>7, <1>8 DEF Verdict, A, C
  <2> QED BY <1>1, <2>4, <2>6, <2>7
<1>9. ASSUME A = {} PROVE Verdict(c, policy, p) = Verdict(t, policy, p)
  <2>1. CASE B = {}
    BY <1>7, <1>9, <2>1 DEF Verdict, B, C
  <2>2. CASE B # {}
    <3>1. FirstOf(B) \in B /\ \A j \in B : FirstOf(B) <= j
      BY <1>10, <2>2, FirstLeast
    <3>2. FirstOf(C) \in C /\ \A j \in C : FirstOf(C) <= j
      BY <1>10, <1>7, <2>2, FirstLeast
    <3>3. FirstOf(B) \in 1..Len(t) /\ n + FirstOf(B) \in C
      BY <1>3, <1>5, <3>1
    <3>4. FirstOf(C) - n \in 1..Len(t) /\ FirstOf(C) = n + (FirstOf(C) - n)
      <4>1. FirstOf(C) \in 1..Len(c) /\ FirstOf(C) \notin 1..n
        BY <1>3, <1>4, <1>9, <3>2
      <4> QED BY <1>6, <4>1
    <3>5. FirstOf(C) - n \in B
      <4> DEFINE i == FirstOf(C) - n
      <4>1. i \in 1..Len(t) /\ n + i \in C
        BY <3>2, <3>4
      <4> HIDE DEF i
      <4>2. i \in B
        BY <1>5, <4>1
      <4> QED BY <4>2 DEF i
    <3>6. FirstOf(C) = n + FirstOf(B)
      BY <1>2, <3>1, <3>2, <3>3, <3>4, <3>5
    <3>7. Verdict(c, policy, p) = c[FirstOf(C)].verdict /\ Verdict(t, policy, p) = t[FirstOf(B)].verdict
      BY <1>7, <2>2 DEF Verdict, B, C
    <3> QED BY <1>1, <3>3, <3>6, <3>7
  <2> QED BY <2>1, <2>2
<1> QED BY <1>7, <1>8, <1>9 DEF A, B, C, c

-----------------------------------------------------------------------------
(* Statements.                                                             *)

LEMMA MatchesFields ==
  ASSUME NEW s, NEW p
  PROVE  Matches(s, p) <=> /\ p.iif \in s.on.iif /\ p.oif \in s.on.oif
                           /\ p.src \in s.on.src /\ p.dst \in s.on.dst
                           /\ p.proto \in s.on.proto /\ p.port \in s.on.port
                           /\ p.ct \in s.on.ct /\ p.over \in s.on.over
<1>1. DOMAIN Anything = {"iif", "oif", "src", "dst", "proto", "port", "ct", "over"}
  BY DEF Anything
<1> QED BY <1>1 DEF Matches

\* A chain all of whose statements have one verdict.
LEMMA OneVerdict ==
  ASSUME NEW s, IsChain(s), NEW v, v # "continue", NEW policy, NEW p,
         \A i \in 1..Len(s) : s[i].verdict = v
  PROVE  /\ Ending(s, p) = {} <=> \A i \in 1..Len(s) : ~Matches(s[i], p)
         /\ Ending(s, p) # {} => Verdict(s, policy, p) = v
<1>1. Len(s) \in Nat /\ DOMAIN s = 1..Len(s)
  BY ChainIndices
<1>2. Ending(s, p) = {i \in 1..Len(s) : Matches(s[i], p)}
  BY <1>1 DEF Ending
<1>3. Ending(s, p) # {} => Verdict(s, policy, p) = v
  <2> SUFFICES ASSUME Ending(s, p) # {} PROVE Verdict(s, policy, p) = v
    OBVIOUS
  <2>1. Ending(s, p) \subseteq Nat
    BY <1>1, <1>2
  <2>2. FirstOf(Ending(s, p)) \in Ending(s, p)
    BY <2>1, FirstLeast
  <2> QED BY <1>2, <2>2 DEF Verdict
<1> QED BY <1>2, <1>3

\* One statement.
LEMMA OneStatement ==
  ASSUME NEW x, x.verdict # "continue", NEW policy, NEW p
  PROVE  /\ IsChain(<<x>>)
         /\ Ending(<<x>>, p) = {} <=> ~Matches(x, p)
         /\ Ending(<<x>>, p) # {} => Verdict(<<x>>, policy, p) = x.verdict
<1>1. IsChain(<<x>>) /\ Len(<<x>>) = 1 /\ <<x>>[1] = x
  BY ShortChains
<1>2. \A i \in 1..Len(<<x>>) : <<x>>[i] = x
  BY <1>1
<1> DEFINE s == <<x>>
<1>3. IsChain(s) /\ Len(s) = 1 /\ \A i \in 1..Len(s) : s[i] = x /\ s[i].verdict = x.verdict
  BY <1>1, <1>2
<1> HIDE DEF s
<1>4. /\ Ending(s, p) = {} <=> \A i \in 1..Len(s) : ~Matches(s[i], p)
      /\ Ending(s, p) # {} => Verdict(s, policy, p) = x.verdict
  BY <1>3, OneVerdict
<1>5. Ending(s, p) = {} <=> ~Matches(x, p)
  BY <1>3, <1>4
<1> QED BY <1>3, <1>4, <1>5 DEF s

LEMMA NoStatement ==
  ASSUME NEW p
  PROVE  IsChain(<<>>) /\ Ending(<<>>, p) = {}
<1>1. IsChain(<<>>)
  BY ShortChains
<1> QED BY <1>1 DEF Ending

\* Established connections pass, new ones get to the next statement.
LEMMA TrackedVerdict ==
  ASSUME NEW c, NEW p \in Packet, NEW policy
  PROVE  /\ IsChain(Tracked(c))
         /\ p.ct = "new" => Ending(Tracked(c), p) = {}
         /\ p.ct = "established" => Ending(Tracked(c), p) # {} /\ Verdict(Tracked(c), policy, p) = "accept"
<1> DEFINE x == Statement([Anything EXCEPT !.ct = {"established"}], "accept")
           y == Statement([Anything EXCEPT !.ct = {"invalid"}], "drop")
           t == IF c.settings.invalid THEN <<y>> ELSE <<>>
<1>1. Tracked(c) = <<x>> \o t
  BY DEF Tracked
<1>2. x.verdict = "accept" /\ y.verdict = "drop"
  BY DEF Statement
<1>3. Matches(x, p) <=> p.ct = "established"
  BY MatchesFields DEF Statement, Anything, Packet
<1>4. p.ct = "new" => ~Matches(y, p)
  BY MatchesFields DEF Statement, Anything
<1> HIDE DEF x, y
<1>5. /\ IsChain(<<x>>)
      /\ Ending(<<x>>, p) = {} <=> ~Matches(x, p)
      /\ Ending(<<x>>, p) # {} => Verdict(<<x>>, policy, p) = x.verdict
  BY <1>2, OneStatement
<1>6. /\ IsChain(<<y>>)
      /\ Ending(<<y>>, p) = {} <=> ~Matches(y, p)
      /\ Ending(<<y>>, p) # {} => Verdict(<<y>>, policy, p) = y.verdict
  BY <1>2, OneStatement
<1>7. IsChain(t) /\ (p.ct = "new" => Ending(t, p) = {})
  BY <1>4, <1>6, NoStatement
<1> DEFINE u == <<x>>
<1> HIDE DEF t, u
<1>8. /\ Ending(u \o t, p) = {} <=> Ending(u, p) = {} /\ Ending(t, p) = {}
      /\ Ending(u, p) # {} => Verdict(u \o t, policy, p) = Verdict(u, policy, p)
      /\ Ending(u, p) = {} => Verdict(u \o t, policy, p) = Verdict(t, policy, p)
  BY <1>5, <1>7, VerdictJoin DEF u
<1>9. IsChain(u \o t)
  BY <1>5, <1>7, ChainJoin DEF u
<1> QED BY <1>1, <1>2, <1>3, <1>5, <1>7, <1>8, <1>9 DEF u

-----------------------------------------------------------------------------
(* Rules.                                                                  *)

LEMMA FinImage ==
  ASSUME NEW D, IsFiniteSet(D), NEW f, DOMAIN f = D
  PROVE  IsFiniteSet({f[x] : x \in D})
<1> DEFINE R == {f[x] : x \in D}
           g == [x \in D |-> f[x]]
<1>1. g \in [D -> R] /\ \A y \in R : \E x \in D : g[x] = y
  OBVIOUS
<1>2. g \in Surjection(D, R)
  BY <1>1 DEF Surjection
<1> HIDE DEF R, g
<1>3. IsFiniteSet(R)
  BY <1>2, FS_Surjection
<1> QED BY <1>3 DEF R

LEMMA SmallSets ==
  /\ \A x, y : IsFiniteSet({}) /\ IsFiniteSet({x}) /\ IsFiniteSet({x, y})
<1> SUFFICES ASSUME NEW x, NEW y PROVE IsFiniteSet({}) /\ IsFiniteSet({x}) /\ IsFiniteSet({x, y})
  OBVIOUS
<1>1. IsFiniteSet({}) /\ IsFiniteSet({x})
  BY FS_EmptySet, FS_Singleton
<1>2. IsFiniteSet({x} \cup {y})
  BY <1>1, FS_AddElement
<1>3. {x} \cup {y} = {x, y}
  OBVIOUS
<1> QED BY <1>1, <1>2, <1>3

\* The system's rules, and the sets they are listed from.
BlockRule(d, i, f) ==
  [SystemRule(-200, "drop", d, i) EXCEPT !.fam = f, !.src = Blocked[i] \cap OfFamily(f)]
BlockSet(c) ==
  {BlockRule(d, i, f) : d \in {"input", "forward"}, i \in {w \in Wan : c.block},
                        f \in {"v4"} \union (IF c.six THEN {"v6"} ELSE {})}
DefaultRule(d) == SystemRule(1000000, "drop", d, AnyIface)
DefaultSet(c) == {DefaultRule(d) : d \in {h \in {"input", "forward"} : c.settings[h] = "drop"}}
DhcpRule(i) == [Service(i, "udp", 67) EXCEPT !.fam = "v4"]
SixRule(i) == [Service(i, "udp", 547) EXCEPT !.fam = "v6"]
LanSet(c) ==
  {DhcpRule(i) : i \in Iface \ Wan}
  \union {Service(i, p, 53) : i \in {l \in Iface \ Wan : c.dns}, p \in {"udp", "tcp"}}
  \union {SixRule(i) : i \in {l \in Iface \ Wan : c.six}}
  \union {Service(i, "tcp", 853) : i \in {l \in Iface \ Wan : c.dot = "lan"}}
ManagementRule(c, p) ==
  [SystemRule(-150, "accept", "input", c.settings.iface) EXCEPT
     !.proto = "tcp", !.port = p, !.fam = SourceFamily(c)]
ManagementSet(c) == {ManagementRule(c, p) : p \in ManagementPorts(c)}

LEMMA FiniteIfaces ==
  ASSUME NEW c
  PROVE  /\ IsFiniteSet(Iface) /\ IsFiniteSet(Wan) /\ IsFiniteSet(Iface \ Wan)
         /\ \A S \in SUBSET Iface : IsFiniteSet(S)
<1>1. IsFiniteSet(Iface) /\ Wan \subseteq Iface
  BY NetfilterAssumption, PacketFilterAssumption
<1>2. \A S \in SUBSET Iface : IsFiniteSet(S)
  BY <1>1, FS_Subset
<1>3. Wan \in SUBSET Iface /\ Iface \ Wan \in SUBSET Iface
  BY <1>1
<1> QED BY <1>1, <1>2, <1>3

LEMMA FiniteBlocks ==
  ASSUME NEW c
  PROVE  IsFiniteSet(BlockSet(c))
<1> DEFINE W == {w \in Wan : c.block}
           F == {"v4"} \union (IF c.six THEN {"v6"} ELSE {})
           D == {"input", "forward"}
           T == (D \X W) \X F
           g == [t \in T |-> BlockRule(t[1][1], t[1][2], t[2])]
<1>1. IsFiniteSet(W)
  <2>1. W \in SUBSET Iface
    BY PacketFilterAssumption
  <2> HIDE DEF W
  <2> QED BY <2>1, FiniteIfaces
<1>2. IsFiniteSet(F)
  <2>1. F = {"v4"} \/ F = {"v4", "v6"}
    OBVIOUS
  <2> HIDE DEF F
  <2> QED BY <2>1, SmallSets
<1>3. IsFiniteSet(D)
  BY SmallSets
<1>4. IsFiniteSet(T)
  <2> HIDE DEF D, W, F
  <2>1. IsFiniteSet(D \X W)
    BY <1>1, <1>3, FS_Product
  <2> QED BY <1>2, <2>1, FS_Product
<1>5. DOMAIN g = T
  OBVIOUS
<1>6. BlockSet(c) = {g[t] : t \in T}
  <2>1. BlockSet(c) = {BlockRule(d, i, f) : d \in D, i \in W, f \in F}
    BY DEF BlockSet
  <2> HIDE DEF D, W, F
  <2>2. \A d \in D, i \in W, f \in F : <<<<d, i>>, f>> \in T /\ g[<<<<d, i>>, f>>] = BlockRule(d, i, f)
    OBVIOUS
  <2>3. \A t \in T : t[1][1] \in D /\ t[1][2] \in W /\ t[2] \in F /\ g[t] = BlockRule(t[1][1], t[1][2], t[2])
    OBVIOUS
  <2> HIDE DEF T, g
  <2>4. ASSUME NEW y \in BlockSet(c) PROVE y \in {g[t] : t \in T}
    <3>1. PICK d \in D, i \in W, f \in F : y = BlockRule(d, i, f)
      BY <2>1, <2>4
    <3> QED BY <2>2, <3>1
  <2>5. ASSUME NEW t \in T PROVE g[t] \in BlockSet(c)
    BY <2>1, <2>3
  <2> QED BY <2>4, <2>5
<1> HIDE DEF T, g
<1> QED BY <1>4, <1>5, <1>6, FinImage

LEMMA FiniteDefaults ==
  ASSUME NEW c
  PROVE  IsFiniteSet(DefaultSet(c))
<1> DEFINE D == {h \in {"input", "forward"} : c.settings[h] = "drop"}
           g == [d \in D |-> DefaultRule(d)]
<1>1. IsFiniteSet(D)
  <2>1. D \in SUBSET {"input", "forward"} /\ IsFiniteSet({"input", "forward"})
    BY SmallSets
  <2> HIDE DEF D
  <2> QED BY <2>1, FS_Subset
<1>2. DOMAIN g = D /\ DefaultSet(c) = {g[d] : d \in D}
  BY DEF DefaultSet
<1> HIDE DEF D, g
<1> QED BY <1>1, <1>2, FinImage

LEMMA FiniteLans ==
  ASSUME NEW c
  PROVE  IsFiniteSet(LanSet(c))
<1> DEFINE A == Iface \ Wan
           B == {l \in Iface \ Wan : c.dns}
           Q == {"udp", "tcp"}
           C == {l \in Iface \ Wan : c.six}
           E == {l \in Iface \ Wan : c.dot = "lan"}
           a == [i \in A |-> DhcpRule(i)]
           b == [t \in B \X Q |-> Service(t[1], t[2], 53)]
           d == [i \in C |-> SixRule(i)]
           e == [i \in E |-> Service(i, "tcp", 853)]
<1>1. IsFiniteSet(A) /\ IsFiniteSet(B) /\ IsFiniteSet(C) /\ IsFiniteSet(E)
  <2>1. A \in SUBSET Iface /\ B \in SUBSET Iface /\ C \in SUBSET Iface /\ E \in SUBSET Iface
    OBVIOUS
  <2> HIDE DEF A, B, C, E
  <2> QED BY <2>1, FiniteIfaces
<1>2. IsFiniteSet(B \X Q)
  <2>1. IsFiniteSet(Q)
    BY SmallSets
  <2> HIDE DEF B, Q
  <2> QED BY <1>1, <2>1, FS_Product
<1> DEFINE LB == {Service(i, p, 53) : i \in B, p \in Q}
<1>3. LB = {b[t] : t \in B \X Q}
  <2>1. \A i \in B, p \in Q : <<i, p>> \in B \X Q /\ b[<<i, p>>] = Service(i, p, 53)
    OBVIOUS
  <2>2. \A t \in B \X Q : t[1] \in B /\ t[2] \in Q /\ b[t] = Service(t[1], t[2], 53)
    OBVIOUS
  <2> HIDE DEF B, Q, b
  <2>3. ASSUME NEW y \in LB PROVE y \in {b[t] : t \in B \X Q}
    <3>1. PICK i \in B, p \in Q : y = Service(i, p, 53)
      BY <2>3
    <3> DEFINE t == <<i, p>>
               D == B \X Q
    <3>2. t \in D /\ b[t] = y
      BY <2>1, <3>1
    <3> HIDE DEF t, D
    <3>3. y \in {b[u] : u \in D}
      BY <3>2
    <3> QED BY <3>3 DEF D
  <2>4. ASSUME NEW t \in B \X Q PROVE b[t] \in LB
    BY <2>2
  <2> HIDE DEF LB
  <2> QED BY <2>3, <2>4
<1> DEFINE LA == {DhcpRule(i) : i \in A}
           LC == {SixRule(i) : i \in C}
           LE == {Service(i, "tcp", 853) : i \in E}
<1>4. LA = {a[i] : i \in A} /\ LC = {d[i] : i \in C} /\ LE = {e[i] : i \in E}
  <2> HIDE DEF A, C, E, B, Q, b, LB
  <2>1. LA = {a[i] : i \in A}
    OBVIOUS
  <2>2. LC = {d[i] : i \in C}
    OBVIOUS
  <2>3. LE = {e[i] : i \in E}
    OBVIOUS
  <2> QED BY <2>1, <2>2, <2>3
<1>5. LanSet(c) = ((LA \union LB) \union LC) \union LE
  BY DEF LanSet
<1>6. DOMAIN a = A /\ DOMAIN b = B \X Q /\ DOMAIN d = C /\ DOMAIN e = E
  OBVIOUS
<1> HIDE DEF A, B, Q, C, E, a, b, d, e, LA, LB, LC, LE
<1>7. IsFiniteSet(LA) /\ IsFiniteSet(LC) /\ IsFiniteSet(LE)
  <2>1. IsFiniteSet({a[i] : i \in A}) /\ IsFiniteSet({d[i] : i \in C}) /\ IsFiniteSet({e[i] : i \in E})
    BY <1>1, <1>6, FinImage
  <2> QED BY <1>4, <2>1
<1>8. IsFiniteSet(LB)
  <2>1. IsFiniteSet({b[t] : t \in B \X Q})
    BY <1>2, <1>6, FinImage
  <2> QED BY <1>3, <2>1
<1>9. IsFiniteSet(LA \union LB)
  BY <1>7, <1>8, FS_Union
<1>10. IsFiniteSet((LA \union LB) \union LC)
  BY <1>7, <1>9, FS_Union
<1>11. IsFiniteSet(((LA \union LB) \union LC) \union LE)
  BY <1>7, <1>10, FS_Union
<1> QED BY <1>5, <1>11

LEMMA FiniteManagement ==
  ASSUME NEW c \in Config
  PROVE  IsFiniteSet(ManagementSet(c))
<1> DEFINE D == ManagementPorts(c)
           g == [p \in D |-> ManagementRule(c, p)]
<1>1. IsFiniteSet(D)
  <2>1. D \in SUBSET Port /\ IsFiniteSet(Port)
    BY NetfilterAssumption DEF ManagementPorts, SystemPorts, Config, Setting
  <2> HIDE DEF D
  <2> QED BY <2>1, FS_Subset
<1>2. DOMAIN g = D /\ ManagementSet(c) = {g[p] : p \in D}
  BY DEF ManagementSet
<1> HIDE DEF D, g
<1> QED BY <1>1, <1>2, FinImage

Members(s) == {s[i] : i \in 1..Len(s)}

LEMMA JoinMembers ==
  ASSUME NEW s, NEW t, IsChain(s), IsChain(t)
  PROVE  IsChain(s \o t) /\ Members(s \o t) = Members(s) \union Members(t)
<1> DEFINE c == s \o t
<1>1. /\ IsChain(c) /\ Len(c) = Len(s) + Len(t)
      /\ \A i \in 1..Len(s) : c[i] = s[i]
      /\ \A i \in 1..Len(t) : c[Len(s) + i] = t[i]
  BY ChainJoin
<1>2. Len(s) \in Nat /\ Len(t) \in Nat
  BY ChainIndices
<1> HIDE DEF c
<1>3. ASSUME NEW i \in 1..Len(c) PROVE c[i] \in Members(s) \union Members(t)
  <2>1. CASE i \in 1..Len(s)
    BY <1>1, <2>1 DEF Members
  <2>2. CASE i \notin 1..Len(s)
    <3> DEFINE j == i - Len(s)
    <3>1. j \in 1..Len(t) /\ i = Len(s) + j
      BY <1>1, <1>2, <2>2
    <3> HIDE DEF j
    <3>2. c[i] = t[j]
      BY <1>1, <3>1
    <3> QED BY <3>1, <3>2 DEF Members
  <2> QED BY <2>1, <2>2
<1>4. ASSUME NEW i \in 1..Len(s) PROVE s[i] \in Members(c)
  <2>1. i \in 1..Len(c) /\ c[i] = s[i]
    BY <1>1, <1>2
  <2> QED BY <2>1 DEF Members
<1>5. ASSUME NEW i \in 1..Len(t) PROVE t[i] \in Members(c)
  <2>1. Len(s) + i \in 1..Len(c) /\ c[Len(s) + i] = t[i]
    BY <1>1, <1>2
  <2> QED BY <2>1 DEF Members
<1>6. Members(c) \subseteq Members(s) \union Members(t)
  BY <1>3 DEF Members
<1>7. Members(s) \subseteq Members(c) /\ Members(t) \subseteq Members(c)
  BY <1>4, <1>5 DEF Members
<1>8. Members(c) = Members(s) \union Members(t)
  BY <1>6, <1>7
<1> QED BY <1>1, <1>8 DEF c

LEMMA ListedChain ==
  ASSUME NEW S, IsFiniteSet(S)
  PROVE  IsChain(Listed(S)) /\ Members(Listed(S)) = S
<1>1. /\ Listed(S) \in Seq(S)
      /\ \A x \in S : \E i \in 1..Len(Listed(S)) : Listed(S)[i] = x
  BY ListedMembers
<1> DEFINE s == Listed(S)
<1> HIDE DEF s
<1>2. s \in Seq(S) /\ \A x \in S : \E i \in 1..Len(s) : s[i] = x
  BY <1>1 DEF s
<1>3. \A i \in 1..Len(s) : s[i] \in S
  BY <1>2, ElementOfSeq
<1>4. Members(s) = S
  BY <1>2, <1>3 DEF Members
<1> QED BY <1>2, <1>4, SeqIsChain DEF s

DotSet(c) == Members(PublicDot(c))
ShownSet(c) == IF c.settings.lockout THEN ManagementSet(c) ELSE {}
SystemSet(c) == (((BlockSet(c) \union DefaultSet(c)) \union LanSet(c)) \union DotSet(c)) \union ShownSet(c)

LEMMA SystemRulesListed ==
  ASSUME NEW c \in Config
  PROVE  IsChain(SystemRules(c)) /\ Members(SystemRules(c)) = SystemSet(c)
<1>1. IsChain(BlockRules(c)) /\ Members(BlockRules(c)) = BlockSet(c)
  <2>1. BlockRules(c) = Listed(BlockSet(c))
    BY DEF BlockRules, BlockSet, BlockRule
  <2> QED BY <2>1, FiniteBlocks, ListedChain
<1>2. IsChain(DefaultBlocks(c)) /\ Members(DefaultBlocks(c)) = DefaultSet(c)
  <2>1. DefaultBlocks(c) = Listed(DefaultSet(c))
    BY DEF DefaultBlocks, DefaultSet, DefaultRule
  <2> QED BY <2>1, FiniteDefaults, ListedChain
<1>3. IsChain(LanRules(c)) /\ Members(LanRules(c)) = LanSet(c)
  <2>1. LanRules(c) = Listed(LanSet(c))
    BY DEF LanRules, LanSet, DhcpRule, SixRule
  <2> QED BY <2>1, FiniteLans, ListedChain
<1>4. IsChain(PublicDot(c)) /\ Members(PublicDot(c)) = DotSet(c)
  <2> DEFINE x == [Service(AnyIface, "tcp", 853) EXCEPT !.pri = -174, !.fam = IF c.six THEN "both" ELSE "v4"]
  <2>1. PublicDot(c) = IF c.dot = "public" THEN <<x>> ELSE <<>>
    BY DEF PublicDot
  <2> HIDE DEF x
  <2>2. IsChain(<<x>>) /\ IsChain(<<>>)
    BY ShortChains
  <2> QED BY <2>1, <2>2 DEF DotSet
<1>5. IsChain(ManagementRules(c)) /\ Members(ManagementRules(c)) = ShownSet(c)
  <2>1. ManagementRules(c) = IF c.settings.lockout THEN Listed(ManagementSet(c)) ELSE <<>>
    BY DEF ManagementRules, ManagementSet, ManagementRule
  <2>2. IsChain(Listed(ManagementSet(c))) /\ Members(Listed(ManagementSet(c))) = ManagementSet(c)
    BY FiniteManagement, ListedChain
  <2>3. IsChain(<<>>) /\ Len(<<>>) = 0
    BY ShortChains
  <2>4. Members(<<>>) = {}
    BY <2>3 DEF Members
  <2> QED BY <2>1, <2>2, <2>3, <2>4 DEF ShownSet
<1> DEFINE a == BlockRules(c) \o DefaultBlocks(c)
           b == a \o LanRules(c)
           d == b \o PublicDot(c)
           e == d \o ManagementRules(c)
<1>6. SystemRules(c) = e
  BY DEF SystemRules
<1>7. IsChain(a) /\ Members(a) = BlockSet(c) \union DefaultSet(c)
  BY <1>1, <1>2, JoinMembers
<1> HIDE DEF a
<1>8. IsChain(b) /\ Members(b) = (BlockSet(c) \union DefaultSet(c)) \union LanSet(c)
  BY <1>3, <1>7, JoinMembers
<1> HIDE DEF b
<1>9. IsChain(d) /\ Members(d) = ((BlockSet(c) \union DefaultSet(c)) \union LanSet(c)) \union DotSet(c)
  BY <1>4, <1>8, JoinMembers
<1> HIDE DEF d
<1>10. IsChain(e) /\ Members(e) = SystemSet(c)
  BY <1>5, <1>9, JoinMembers DEF SystemSet
<1> QED BY <1>6, <1>10

\* The system's rules that are not for incoming packets: the blocks of a WAN,
\* and the default one.
LEMMA SystemRulesAre ==
  ASSUME NEW c \in Config, NEW r \in SystemSet(c)
  PROVE  /\ r.pri \in Int /\ r.act # "jump" /\ r.enabled /\ ~r.window
         /\ r.dir = "input" \/ r \in BlockSet(c) \/ r \in DefaultSet(c)
<1>1. ASSUME NEW d, NEW i, NEW f
      PROVE  LET x == BlockRule(d, i, f) IN
             x.pri \in Int /\ x.act = "drop" /\ x.enabled /\ ~x.window
  BY DEF BlockRule, SystemRule
<1>2. ASSUME NEW d
      PROVE  LET x == DefaultRule(d) IN
             x.pri \in Int /\ x.act = "drop" /\ x.enabled /\ ~x.window
  BY DEF DefaultRule, SystemRule
<1> DEFINE Incoming(x) == x.pri \in Int /\ x.act = "accept" /\ x.enabled /\ ~x.window /\ x.dir = "input"
<1>3. ASSUME NEW i, NEW p, NEW k
      PROVE  Incoming(Service(i, p, k)) /\ Incoming(DhcpRule(i)) /\ Incoming(SixRule(i))
  BY DEF Service, DhcpRule, SixRule, SystemRule
<1>4. ASSUME NEW p
      PROVE  Incoming(ManagementRule(c, p))
  BY DEF ManagementRule, SystemRule
<1>5. ASSUME NEW x \in DotSet(c)
      PROVE  Incoming(x)
  <2> DEFINE x0 == [Service(AnyIface, "tcp", 853) EXCEPT !.pri = -174, !.fam = IF c.six THEN "both" ELSE "v4"]
  <2>1. Incoming(x0)
    BY DEF Service, SystemRule
  <2> HIDE DEF x0
  <2>2. PublicDot(c) = IF c.dot = "public" THEN <<x0>> ELSE <<>>
    BY DEF PublicDot, x0
  <2>3. Len(<<x0>>) = 1 /\ Len(<<>>) = 0 /\ <<x0>>[1] = x0
    OBVIOUS
  <2>4. x = x0
    BY <1>5, <2>2, <2>3 DEF DotSet, Members
  <2> QED BY <2>1, <2>4
<1>6. CASE r \in BlockSet(c)
  BY <1>1, <1>6 DEF BlockSet
<1>7. CASE r \in DefaultSet(c)
  BY <1>2, <1>7 DEF DefaultSet
<1>8. CASE r \in LanSet(c)
  <2>1. Incoming(r)
    <3> HIDE DEF Incoming
    <3> QED BY <1>3, <1>8 DEF LanSet
  <2> QED BY <2>1
<1>9. CASE r \in DotSet(c)
  BY <1>5, <1>9
<1>10. CASE r \in ShownSet(c)
  <2>1. Incoming(r)
    <3> HIDE DEF Incoming
    <3> QED BY <1>4, <1>10 DEF ShownSet, ManagementSet
  <2> QED BY <2>1
<1> QED BY <1>6, <1>7, <1>8, <1>9, <1>10 DEF SystemSet

LEMMA AllRulesAre ==
  ASSUME NEW c \in Config
  PROVE  /\ IsChain(AllRules(c)) /\ Len(AllRules(c)) = Len(SystemRules(c)) + Len(c.rules)
         /\ IsChain(SystemRules(c)) /\ IsChain(c.rules) /\ c.rules \in Seq(Rule)
         /\ \A i \in 1..Len(SystemRules(c)) :
              AllRules(c)[i] = SystemRules(c)[i] /\ AllRules(c)[i] \in SystemSet(c)
         /\ \A i \in 1..Len(c.rules) : AllRules(c)[Len(SystemRules(c)) + i] = c.rules[i] /\ c.rules[i] \in Rule
         /\ \A i \in 1..Len(AllRules(c)) : AllRules(c)[i].pri \in Int
<1> DEFINE s == SystemRules(c)
           u == c.rules
           t == AllRules(c)
<1>1. IsChain(s) /\ Members(s) = SystemSet(c)
  BY SystemRulesListed
<1>2. u \in Seq(Rule)
  BY DEF Config
<1>3. IsChain(u) /\ \A i \in 1..Len(u) : u[i] \in Rule
  BY <1>2, SeqIsChain, ElementOfSeq
<1>4. /\ IsChain(t) /\ Len(t) = Len(s) + Len(u)
      /\ \A i \in 1..Len(s) : t[i] = s[i]
      /\ \A i \in 1..Len(u) : t[Len(s) + i] = u[i]
  <2>1. t = s \o u
    BY DEF AllRules
  <2> HIDE DEF s, t, u
  <2>2. /\ IsChain(s \o u) /\ Len(s \o u) = Len(s) + Len(u)
        /\ \A i \in 1..Len(s) : (s \o u)[i] = s[i]
        /\ \A i \in 1..Len(u) : (s \o u)[Len(s) + i] = u[i]
    BY <1>1, <1>3, ChainJoin
  <2> QED BY <2>1, <2>2
<1>5. \A i \in 1..Len(s) : s[i] \in SystemSet(c) /\ s[i].pri \in Int
  <2>1. \A i \in 1..Len(s) : s[i] \in SystemSet(c)
    BY <1>1 DEF Members
  <2> QED BY <2>1, SystemRulesAre
<1>6. \A i \in 1..Len(u) : u[i].pri \in Int
  BY <1>3 DEF Rule
<1>7. Len(s) \in Nat /\ Len(u) \in Nat
  BY <1>1, <1>3, ChainIndices
<1>8. ASSUME NEW i \in 1..Len(t) PROVE t[i].pri \in Int
  <2> HIDE DEF s, t, u
  <2>1. CASE i \in 1..Len(s)
    BY <1>4, <1>5, <2>1
  <2>2. CASE i \notin 1..Len(s)
    <3> DEFINE j == i - Len(s)
    <3>1. j \in 1..Len(u) /\ i = Len(s) + j
      BY <1>4, <1>7, <2>2
    <3> HIDE DEF j
    <3>2. t[i] = u[j]
      BY <1>4, <3>1
    <3> QED BY <1>6, <3>1, <3>2
  <2> QED BY <2>1, <2>2
<1> QED BY <1>1, <1>2, <1>3, <1>4, <1>5, <1>8

\* The indices of the active rules of a chain, and the statements they become
\* in the order of their priorities.
InChain(c, window, chain) ==
  {i \in ActiveAt(AllRules(c), c, window) :
     \/ AllRules(c)[i].dir = chain
     \/ AllRules(c)[i].dir = "both" /\ chain = "input"}
Precedes(r, i, j) == r[i].pri < r[j].pri \/ (r[i].pri = r[j].pri /\ i < j)
Emits(t, c, I, n, f) ==
  /\ n \in Nat /\ f \in [1..n -> I]
  /\ \A i \in I : \E k \in 1..n : f[k] = i
  /\ DOMAIN t = 1..n /\ \A k \in 1..n : t[k] = Emit(AllRules(c)[f[k]])
  /\ \A j, k \in 1..n : j < k => Precedes(AllRules(c), f[j], f[k])

LEMMA EmitOrder ==
  ASSUME NEW c \in Config, NEW window, NEW chain
  PROVE  /\ IsChain(EmitFor(Active(c, window), chain))
         /\ InChain(c, window, chain) \subseteq 1..Len(AllRules(c))
         /\ \E n, f : Emits(EmitFor(Active(c, window), chain), c, InChain(c, window, chain), n, f)
<1> DEFINE r == AllRules(c)
           A == ActiveAt(r, c, window)
           t == Active(c, window)
           J == {k \in DOMAIN t : t[k].dir = chain \/ (t[k].dir = "both" /\ chain = "input")}
           mine == InOrder(t, J)
           e == EmitFor(t, chain)
<1>1. Len(r) \in Nat /\ DOMAIN r = 1..Len(r) /\ \A i \in 1..Len(r) : r[i].pri \in Int
  BY AllRulesAre, ChainIndices
<1>2. A \subseteq 1..Len(r)
  BY <1>1 DEF ActiveAt
<1>3. t = ByPriority(r, A)
  BY DEF Active
<1> HIDE DEF A
<1>4. \A i \in A : r[i].pri \in Int
  BY <1>1, <1>2
<1> HIDE DEF r, t
<1>5. PICK n, f : /\ Reorders(ByPriority(r, A), r, A, n, f)
                  /\ \A j, k \in 1..n : j < k =>
                       \/ r[f[j]].pri < r[f[k]].pri
                       \/ r[f[j]].pri = r[f[k]].pri /\ f[j] < f[k]
  BY <1>1, <1>2, <1>4, ByPriorityOrder, Zenon
<1>6. /\ n \in Nat /\ f \in [1..n -> A]
      /\ \A i \in A : \E k \in 1..n : f[k] = i
      /\ DOMAIN t = 1..n /\ \A k \in 1..n : t[k] = r[f[k]]
      /\ \A j, k \in 1..n : j < k => Precedes(r, f[j], f[k])
  BY <1>3, <1>5 DEF Reorders, Precedes
<1>7. J \subseteq 1..n
  BY <1>6
<1> HIDE DEF J
<1>8. PICK m, g : Reorders(InOrder(t, J), t, J, m, g) /\ \A j, k \in 1..m : j < k => g[j] < g[k]
  <2>1. n \in Nat
    BY <1>6
  <2> QED BY <2>1, <1>7, InOrderOrder, Zenon
<1>9. /\ m \in Nat /\ g \in [1..m -> J]
      /\ \A i \in J : \E k \in 1..m : g[k] = i
      /\ DOMAIN mine = 1..m /\ \A k \in 1..m : mine[k] = t[g[k]]
  BY <1>8 DEF Reorders
<1> HIDE DEF mine
<1>10. e = [k \in DOMAIN mine |-> Emit(mine[k])]
  BY DEF EmitFor, mine, J, e
<1> HIDE DEF e
<1>11. /\ DOMAIN e = 1..m /\ e = [k \in 1..m |-> e[k]]
       /\ \A k \in 1..m : e[k] = Emit(mine[k])
  BY <1>9, <1>10
<1> DEFINE I == InChain(c, window, chain)
           h == [k \in 1..m |-> f[g[k]]]
<1>12. \A i \in A : i \in I <=> (r[i].dir = chain \/ (r[i].dir = "both" /\ chain = "input"))
  <2>1. A = ActiveAt(AllRules(c), c, window) /\ r = AllRules(c)
    BY DEF A, r
  <2> HIDE DEF I
  <2> QED BY <2>1 DEF InChain, I
<1>13. I \subseteq A
  BY DEF InChain, A, r
<1>14. \A k \in 1..n : k \in J <=> f[k] \in I
  <2> TAKE k \in 1..n
  <2>1. f[k] \in A /\ t[k] = r[f[k]]
    BY <1>6
  <2> HIDE DEF I
  <2> QED BY <1>6, <1>12, <2>1 DEF J
<1> HIDE DEF I
<1>15. h \in [1..m -> I] /\ \A k \in 1..m : h[k] = f[g[k]] /\ g[k] \in 1..n
  <2>1. \A k \in 1..m : g[k] \in J /\ g[k] \in 1..n
    BY <1>7, <1>9
  <2> QED BY <1>14, <2>1
<1> HIDE DEF h
<1>16. \A i \in I : \E k \in 1..m : h[k] = i
  <2> TAKE i \in I
  <2>1. PICK j \in 1..n : f[j] = i
    BY <1>6, <1>13
  <2>2. j \in J
    BY <1>14, <2>1
  <2>3. PICK k \in 1..m : g[k] = j
    BY <1>9, <2>2
  <2> QED BY <1>15, <2>1, <2>3
<1>17. \A k \in 1..m : e[k] = Emit(r[h[k]])
  <2> TAKE k \in 1..m
  <2>1. e[k] = Emit(mine[k]) /\ mine[k] = t[g[k]]
    BY <1>9, <1>11
  <2>2. t[g[k]] = r[f[g[k]]] /\ h[k] = f[g[k]]
    BY <1>6, <1>15
  <2> QED BY <2>1, <2>2
<1>18. \A j, k \in 1..m : j < k => Precedes(r, h[j], h[k])
  <2> SUFFICES ASSUME NEW j \in 1..m, NEW k \in 1..m, j < k PROVE Precedes(r, h[j], h[k])
    OBVIOUS
  <2>1. g[j] < g[k] /\ g[j] \in 1..n /\ g[k] \in 1..n
    BY <1>8, <1>15
  <2> QED BY <1>6, <1>15, <2>1
<1>19. Emits(e, c, I, m, h)
  BY <1>9, <1>11, <1>15, <1>16, <1>17, <1>18 DEF Emits, r
<1>20. IsChain(e)
  BY <1>9, <1>11, ListIsChain
<1>21. I \subseteq 1..Len(r)
  BY <1>2, <1>13
<1> QED BY <1>19, <1>20, <1>21 DEF e, I, t, r

\* Whether the statement of a rule decides about a packet.
Applies(r, p) == Emit(r).verdict # "continue" /\ Matches(Emit(r), p)

\* The first of the rules r at the places I that applies decides.
DecidedBy(e, policy, p, r, I) ==
  /\ Ending(e, p) = {} <=> \A i \in I : ~Applies(r[i], p)
  /\ Ending(e, p) # {} =>
       \E i \in I : /\ Applies(r[i], p) /\ Verdict(e, policy, p) = Emit(r[i]).verdict
                    /\ \A j \in I : Applies(r[j], p) => i = j \/ Precedes(r, i, j)

LEMMA EmitVerdict ==
  ASSUME NEW c \in Config, NEW window, NEW chain, NEW policy, NEW p
  PROVE  DecidedBy(EmitFor(Active(c, window), chain), policy, p, AllRules(c), InChain(c, window, chain))
<1> DEFINE e == EmitFor(Active(c, window), chain)
           I == InChain(c, window, chain)
           r == AllRules(c)
<1>1. IsChain(e) /\ \E n, f : Emits(e, c, I, n, f)
  BY EmitOrder
<1>2. PICK n, f : Emits(e, c, I, n, f)
  BY <1>1
<1> HIDE DEF e, I
<1>3. /\ n \in Nat /\ f \in [1..n -> I]
      /\ \A i \in I : \E k \in 1..n : f[k] = i
      /\ DOMAIN e = 1..n /\ \A k \in 1..n : e[k] = Emit(r[f[k]])
      /\ \A j, k \in 1..n : j < k => Precedes(r, f[j], f[k])
  BY <1>2 DEF Emits
<1> HIDE DEF r
<1>4. Ending(e, p) = {k \in 1..n : Applies(r[f[k]], p)}
  BY <1>3 DEF Ending, Applies
<1>5. Ending(e, p) = {} <=> \A i \in I : ~Applies(r[i], p)
  BY <1>3, <1>4
<1>6. ASSUME Ending(e, p) # {}
      PROVE  \E i \in I : /\ Applies(r[i], p) /\ Verdict(e, policy, p) = Emit(r[i]).verdict
                          /\ \A j \in I : Applies(r[j], p) => i = j \/ Precedes(r, i, j)
  <2> DEFINE k == FirstOf(Ending(e, p))
  <2>1. Ending(e, p) \subseteq Nat
    BY <1>4
  <2>2. k \in Ending(e, p) /\ \A j \in Ending(e, p) : k <= j
    BY <1>6, <2>1, FirstLeast
  <2>3. Verdict(e, policy, p) = e[k].verdict
    BY <1>6 DEF Verdict
  <2> HIDE DEF k
  <2>4. k \in 1..n /\ f[k] \in I /\ Applies(r[f[k]], p) /\ e[k] = Emit(r[f[k]])
    BY <1>3, <1>4, <2>2
  <2>5. ASSUME NEW j \in I, Applies(r[j], p) PROVE f[k] = j \/ Precedes(r, f[k], j)
    <3>1. PICK l \in 1..n : f[l] = j
      BY <1>3
    <3>2. l \in Ending(e, p)
      BY <1>4, <2>5, <3>1
    <3>3. k = l \/ k < l
      BY <2>2, <2>4, <3>2
    <3> QED BY <1>3, <2>4, <3>1, <3>3
  <2> QED BY <2>3, <2>4, <2>5
<1>7. DecidedBy(e, policy, p, r, I)
  BY <1>5, <1>6, Zenon DEF DecidedBy
<1> QED BY <1>7 DEF e, I, r

LEMMA EmitMatches ==
  ASSUME NEW r, NEW p \in Packet, p.ct = "new", ~p.over
  PROVE  /\ Matches(Emit(r), p) <=>
              /\ r.iface \in {AnyIface, p.iif}
              /\ p.src \in r.src \cap OfFamily(r.fam) /\ p.dst \in r.dst
              /\ r.proto \in {"any", p.proto}
              /\ (r.port # 0 /\ r.proto # "any") => r.port = p.port
         /\ Emit(r).verdict = CASE r.act = "log" -> "continue" [] r.act = "jump" -> "drop" [] OTHER -> r.act
<1> DEFINE on == [Anything EXCEPT
                   !.iif = Of(r.iface), !.src = r.src \cap OfFamily(r.fam), !.dst = r.dst,
                   !.proto = IF r.proto = "any" THEN Protocol ELSE {r.proto},
                   !.port = IF r.port # 0 /\ r.proto # "any" THEN {r.port} ELSE Port,
                   !.ct = IF r.limited /\ r.act \in {"accept", "log"} THEN {"new"} ELSE Tracking,
                   !.over = IF r.limited /\ r.act \in {"accept", "log"} THEN {FALSE} ELSE BOOLEAN]
           v == CASE r.act = "log" -> "continue" [] r.act = "jump" -> "drop" [] OTHER -> r.act
<1>1. Emit(r) = [on |-> on, verdict |-> v]
  BY DEF Emit, Statement
<1>2. /\ on.iif = Of(r.iface) /\ on.oif = Iface \union {NoIface}
      /\ on.src = r.src \cap OfFamily(r.fam) /\ on.dst = r.dst
      /\ on.proto = IF r.proto = "any" THEN Protocol ELSE {r.proto}
      /\ on.port = IF r.port # 0 /\ r.proto # "any" THEN {r.port} ELSE Port
      /\ on.ct = IF r.limited /\ r.act \in {"accept", "log"} THEN {"new"} ELSE Tracking
      /\ on.over = IF r.limited /\ r.act \in {"accept", "log"} THEN {FALSE} ELSE BOOLEAN
  BY DEF Anything
<1> HIDE DEF on
<1>3. /\ p.iif \in Iface \union {NoIface} /\ p.oif \in Iface \union {NoIface}
      /\ p.proto \in Protocol /\ p.port \in Port /\ p.ct \in Tracking /\ p.over \in BOOLEAN
  BY DEF Packet
<1>4. p.oif \in on.oif /\ p.ct \in on.ct /\ p.over \in on.over
  BY <1>2, <1>3
<1>5. p.iif \in on.iif <=> r.iface \in {AnyIface, p.iif}
  BY <1>2, <1>3 DEF Of
<1>6. p.proto \in on.proto <=> r.proto \in {"any", p.proto}
  <2>1. "any" \notin Protocol
    BY DEF Protocol
  <2> QED BY <1>2, <1>3, <2>1
<1>7. p.port \in on.port <=> ((r.port # 0 /\ r.proto # "any") => r.port = p.port)
  BY <1>2, <1>3
<1>8. Emit(r).on = on /\ Emit(r).verdict = v
  BY <1>1
<1>9. Matches(Emit(r), p) <=> /\ p.iif \in on.iif /\ p.oif \in on.oif
                              /\ p.src \in on.src /\ p.dst \in on.dst
                              /\ p.proto \in on.proto /\ p.port \in on.port
                              /\ p.ct \in on.ct /\ p.over \in on.over
  BY <1>8, MatchesFields
<1> HIDE DEF v
<1>10. Matches(Emit(r), p) <=>
              /\ r.iface \in {AnyIface, p.iif}
              /\ p.src \in r.src \cap OfFamily(r.fam) /\ p.dst \in r.dst
              /\ r.proto \in {"any", p.proto}
              /\ (r.port # 0 /\ r.proto # "any") => r.port = p.port
  BY <1>2, <1>4, <1>5, <1>6, <1>7, <1>9
<1> QED BY <1>8, <1>10 DEF v

-----------------------------------------------------------------------------
(* The portal, the port forwards and outbound NAT.                         *)

LEMMA FromGatedFields ==
  ASSUME NEW c, NEW p \in Packet
  PROVE  LET on == FromGated(c) IN
         /\ on.iif = GatedIfaces(c) /\ p.oif \in on.oif /\ on.src = Host /\ on.dst = Host
         /\ p.src \in on.src /\ p.dst \in on.dst /\ p.proto \in on.proto
         /\ p.port \in on.port /\ p.ct \in on.ct /\ p.over \in on.over
BY DEF FromGated, Anything, Packet

LEMMA PassesMatch ==
  ASSUME NEW c, NEW cl, NEW v, NEW p \in Packet
  PROVE  LET s == Passes(c, cl, v) IN
         /\ IsChain(s) /\ Len(s) = 3 /\ \A i \in 1..Len(s) : s[i].verdict = v
         /\ (\E i \in 1..Len(s) : Matches(s[i], p)) <=>
              /\ p.iif \in GatedIfaces(c)
              /\ \/ p.src \in c.portal.bypass \/ p.src \in Seen(c, cl)
                 \/ p.dst \in Seen(c, c.portal.walled)
<1> DEFINE g == FromGated(c)
           x == Statement([g EXCEPT !.src = c.portal.bypass], v)
           y == Statement([g EXCEPT !.src = Seen(c, cl)], v)
           z == Statement([g EXCEPT !.dst = Seen(c, c.portal.walled)], v)
           s == Passes(c, cl, v)
<1>1. s = <<x, y, z>>
  BY DEF Passes
<1>2. IsChain(<<x, y, z>>) /\ Len(<<x, y, z>>) = 3
  BY ShortChains
<1>3. Matches(x, p) <=> p.iif \in GatedIfaces(c) /\ p.src \in c.portal.bypass
  BY MatchesFields DEF Statement, FromGated, Anything, Packet
<1>4. Matches(y, p) <=> p.iif \in GatedIfaces(c) /\ p.src \in Seen(c, cl)
  BY MatchesFields DEF Statement, FromGated, Anything, Packet
<1>5. Matches(z, p) <=> p.iif \in GatedIfaces(c) /\ p.dst \in Seen(c, c.portal.walled)
  BY MatchesFields DEF Statement, FromGated, Anything, Packet
<1>6. x.verdict = v /\ y.verdict = v /\ z.verdict = v
  BY DEF Statement
<1> HIDE DEF x, y, z
<1>7. <<x, y, z>>[1] = x /\ <<x, y, z>>[2] = y /\ <<x, y, z>>[3] = z
  OBVIOUS
<1> HIDE DEF s
<1>8. Len(s) = 3 /\ s[1] = x /\ s[2] = y /\ s[3] = z /\ IsChain(s)
  BY <1>1, <1>2, <1>7
<1>9. \A i \in 1..Len(s) : i = 1 \/ i = 2 \/ i = 3
  BY <1>8
<1>10. (\E i \in 1..Len(s) : Matches(s[i], p)) <=> Matches(x, p) \/ Matches(y, p) \/ Matches(z, p)
  BY <1>8, <1>9
<1>11. \A i \in 1..Len(s) : s[i].verdict = v
  BY <1>6, <1>8, <1>9
<1> QED BY <1>3, <1>4, <1>5, <1>8, <1>10, <1>11 DEF s

\* The gate lets those pass whom the portal knows, and drops what else comes
\* from its interfaces.
LEMMA GateVerdict ==
  ASSUME NEW c, NEW cl, NEW policy, NEW p \in Packet
  PROVE  LET s == Gate(c, cl) IN
         /\ IsChain(s)
         /\ p.iif \notin GatedIfaces(c) => Ending(s, p) = {}
         /\ /\ p.iif \in GatedIfaces(c)
            /\ p.src \notin c.portal.bypass /\ p.src \notin Seen(c, cl)
            /\ p.dst \notin Seen(c, c.portal.walled)
            => Ending(s, p) # {} /\ Verdict(s, policy, p) = "drop"
<1> DEFINE s == Gate(c, cl)
<1>1. CASE GatedIfaces(c) = {}
  <2>1. s = <<>>
    BY <1>1 DEF Gate
  <2>2. IsChain(<<>>) /\ Ending(<<>>, p) = {}
    BY NoStatement
  <2> QED BY <1>1, <2>1, <2>2
<1>2. CASE GatedIfaces(c) # {}
  <2> DEFINE a == Passes(c, cl, "accept")
             x == Statement(FromGated(c), "drop")
             b == <<x>>
  <2>1. s = a \o b
    BY <1>2 DEF Gate
  <2>2. /\ IsChain(a) /\ Len(a) = 3 /\ \A i \in 1..Len(a) : a[i].verdict = "accept"
        /\ (\E i \in 1..Len(a) : Matches(a[i], p)) <=>
              /\ p.iif \in GatedIfaces(c)
              /\ \/ p.src \in c.portal.bypass \/ p.src \in Seen(c, cl)
                 \/ p.dst \in Seen(c, c.portal.walled)
    BY PassesMatch
  <2>3. x.verdict = "drop" /\ (Matches(x, p) <=> p.iif \in GatedIfaces(c))
    BY MatchesFields, FromGatedFields DEF Statement
  <2> HIDE DEF a, x
  <2>4. /\ Ending(a, p) = {} <=> \A i \in 1..Len(a) : ~Matches(a[i], p)
        /\ Ending(a, p) # {} => Verdict(a, policy, p) = "accept"
    BY <2>2, OneVerdict
  <2>5. /\ IsChain(<<x>>)
        /\ Ending(<<x>>, p) = {} <=> ~Matches(x, p)
        /\ Ending(<<x>>, p) # {} => Verdict(<<x>>, policy, p) = x.verdict
    BY <2>3, OneStatement
  <2> HIDE DEF b
  <2>6. IsChain(a) /\ IsChain(b)
    BY <2>2, <2>5 DEF b
  <2>7. /\ Ending(a \o b, p) = {} <=> Ending(a, p) = {} /\ Ending(b, p) = {}
        /\ Ending(a, p) # {} => Verdict(a \o b, policy, p) = Verdict(a, policy, p)
        /\ Ending(a, p) = {} => Verdict(a \o b, policy, p) = Verdict(b, policy, p)
    BY <2>6, VerdictJoin
  <2>8. IsChain(a \o b)
    BY <2>6, ChainJoin
  <2> QED BY <2>1, <2>2, <2>3, <2>4, <2>5, <2>7, <2>8 DEF b
<1> QED BY <1>1, <1>2

LEMMA OutboundVerdict ==
  ASSUME NEW c, NEW policy, NEW p
  PROVE  LET s == OutboundAccepts(c) IN
         IsChain(s) /\ (Ending(s, p) # {} => Verdict(s, policy, p) = "accept")
<1> DEFINE x == Statement([Anything EXCEPT !.oif = EffectiveWans(c)], "accept")
           s == OutboundAccepts(c)
<1>1. s = IF EffectiveWans(c) = {} THEN <<>> ELSE <<x>>
  BY DEF OutboundAccepts
<1>2. x.verdict = "accept"
  BY DEF Statement
<1> HIDE DEF x
<1>3. /\ IsChain(<<x>>)
      /\ Ending(<<x>>, p) # {} => Verdict(<<x>>, policy, p) = x.verdict
  BY <1>2, OneStatement
<1>4. IsChain(<<>>) /\ Ending(<<>>, p) = {}
  BY NoStatement
<1> QED BY <1>1, <1>2, <1>3, <1>4

\* The indices of the port forwards that bring an accept rule.
Companioned(c) ==
  {i \in DOMAIN c.nat.rules :
     LET n == c.nat.rules[i] IN n.enabled /\ n.auto /\ n.kind = "dnat" /\ (n.fam = "v6" => c.six)}

LEMMA CompanionMatches ==
  ASSUME NEW n, NEW p \in Packet
  PROVE  /\ Companion(n).verdict = "accept"
         /\ Matches(Companion(n), p) <=>
              /\ n.iface \in {AnyIface, p.iif}
              /\ p.src \in OfFamily(n.fam) /\ p.dst \in n.to /\ p.proto \in Transport(n)
              /\ p.port \in PortOf(IF n.toPort = 0 THEN n.port ELSE n.toPort)
BY MatchesFields DEF Companion, Statement, Anything, Packet, Of

LEMMA CompanionsVerdict ==
  ASSUME NEW c \in Config, NEW policy, NEW p \in Packet
  PROVE  LET s == Companions(c) IN
         /\ IsChain(s)
         /\ Ending(s, p) = {} <=> \A i \in Companioned(c) : ~Matches(Companion(c.nat.rules[i]), p)
         /\ Ending(s, p) # {} => Verdict(s, policy, p) = "accept"
<1> DEFINE u == c.nat.rules
           I == Companioned(c)
           t == InOrder(u, I)
           s == Companions(c)
<1>1. u \in Seq(NatRule)
  BY DEF Config, NatConfig
<1>2. Len(u) \in Nat /\ DOMAIN u = 1..Len(u)
  BY <1>1, LenProperties
<1>3. I \subseteq 1..Len(u)
  BY <1>2 DEF Companioned
<1>4. s = [k \in DOMAIN t |-> Companion(t[k])]
  BY DEF Companions, Companioned
<1> HIDE DEF u, I, s
<1>5. PICK n, f : Reorders(InOrder(u, I), u, I, n, f) /\ \A j, k \in 1..n : j < k => f[j] < f[k]
  BY <1>2, <1>3, InOrderOrder, Zenon
<1>6. /\ n \in Nat /\ f \in [1..n -> I]
      /\ \A i \in I : \E k \in 1..n : f[k] = i
      /\ DOMAIN t = 1..n /\ \A k \in 1..n : t[k] = u[f[k]]
  BY <1>5 DEF Reorders
<1> HIDE DEF t
<1>7. /\ DOMAIN s = 1..n /\ s = [k \in 1..n |-> s[k]]
      /\ \A k \in 1..n : s[k] = Companion(u[f[k]])
  BY <1>4, <1>6
<1>8. IsChain(s) /\ Len(s) = n
  BY <1>6, <1>7, ListIsChain
<1>9. \A k \in 1..Len(s) : s[k].verdict = "accept"
  <2>1. \A i \in I : Companion(u[i]).verdict = "accept"
    BY DEF Companion, Statement
  <2> QED BY <1>6, <1>7, <1>8, <2>1
<1>10. /\ Ending(s, p) = {} <=> \A k \in 1..Len(s) : ~Matches(s[k], p)
       /\ Ending(s, p) # {} => Verdict(s, policy, p) = "accept"
  BY <1>8, <1>9, OneVerdict
<1>11. (\A k \in 1..Len(s) : ~Matches(s[k], p)) <=> \A i \in I : ~Matches(Companion(u[i]), p)
  BY <1>6, <1>7, <1>8
<1> QED BY <1>8, <1>10, <1>11 DEF s, I, u

\* The statement of a port forward.
Forward(n) == Rewriting([Selected(n) EXCEPT !.iif = Of(n.iface)], n.to, Target(n))
DnatAt(c) ==
  {i \in DOMAIN c.nat.rules :
     LET n == c.nat.rules[i] IN n.enabled /\ n.kind \in {"dnat"} /\ (n.fam = "v6" => c.six)}
Forwards(t, c, n, f) ==
  /\ n \in Nat /\ f \in [1..n -> DnatAt(c)]
  /\ \A i \in DnatAt(c) : \E k \in 1..n : f[k] = i
  /\ DOMAIN t = 1..n /\ \A k \in 1..n : t[k] = Forward(c.nat.rules[f[k]])
  /\ \A j, k \in 1..n : j < k => Precedes(c.nat.rules, f[j], f[k])

LEMMA DnatOrder ==
  ASSUME NEW c \in Config
  PROVE  \E n, f : Forwards(Dnat(c), c, n, f)
<1> DEFINE u == c.nat.rules
           I == DnatAt(c)
           t == ByPriority(u, I)
           s == Dnat(c)
<1>1. u \in Seq(NatRule)
  BY DEF Config, NatConfig
<1>2. Len(u) \in Nat /\ DOMAIN u = 1..Len(u) /\ \A i \in 1..Len(u) : u[i].pri \in Int
  <2>1. Len(u) \in Nat /\ DOMAIN u = 1..Len(u) /\ \A i \in 1..Len(u) : u[i] \in NatRule
    BY <1>1, LenProperties, ElementOfSeq
  <2> QED BY <2>1 DEF NatRule
<1>3. I \subseteq 1..Len(u)
  BY <1>2 DEF DnatAt
<1>4. s = [k \in DOMAIN t |-> Rewriting([Selected(t[k]) EXCEPT !.iif = Of(t[k].iface)], t[k].to, Target(t[k]))]
  BY DEF Dnat, Enabled, DnatAt
<1> HIDE DEF u, I, s
<1>5. \A i \in I : u[i].pri \in Int
  BY <1>2, <1>3
<1>6. PICK n, f : /\ Reorders(ByPriority(u, I), u, I, n, f)
                  /\ \A j, k \in 1..n : j < k =>
                       \/ u[f[j]].pri < u[f[k]].pri
                       \/ u[f[j]].pri = u[f[k]].pri /\ f[j] < f[k]
  BY <1>2, <1>3, <1>5, ByPriorityOrder, Zenon
<1>7. /\ n \in Nat /\ f \in [1..n -> I]
      /\ \A i \in I : \E k \in 1..n : f[k] = i
      /\ DOMAIN t = 1..n /\ \A k \in 1..n : t[k] = u[f[k]]
      /\ \A j, k \in 1..n : j < k => Precedes(u, f[j], f[k])
  BY <1>6 DEF Reorders, Precedes
<1> HIDE DEF t
<1>8. s = [k \in DOMAIN t |-> Forward(t[k])]
  BY <1>4 DEF Forward
<1>9. DOMAIN s = 1..n /\ \A k \in 1..n : s[k] = Forward(u[f[k]])
  BY <1>7, <1>8
<1>10. Forwards(s, c, n, f)
  BY <1>7, <1>9 DEF Forwards, I, u
<1> QED BY <1>10 DEF s

LEMMA ForwardMatches ==
  ASSUME NEW n, NEW p \in Packet
  PROVE  /\ Forward(n).verdict = "dnat" /\ Forward(n).hosts = n.to /\ Forward(n).ports = Target(n)
         /\ Matches(Forward(n), p) <=>
              /\ n.iface \in {AnyIface, p.iif} /\ p.src \in n.src \cap OfFamily(n.fam)
              /\ p.dst \in n.dst /\ p.proto \in Transport(n) /\ p.port \in PortOf(n.port)
<1> DEFINE on == [Selected(n) EXCEPT !.iif = Of(n.iface)]
<1>1. Forward(n) = [on |-> on, verdict |-> "dnat", hosts |-> n.to, ports |-> Target(n)]
  BY DEF Forward, Rewriting
<1>2. /\ on.iif = Of(n.iface) /\ on.oif = Iface \union {NoIface}
      /\ on.src = n.src \cap OfFamily(n.fam) /\ on.dst = n.dst
      /\ on.proto = Transport(n) /\ on.port = PortOf(n.port)
      /\ on.ct = Tracking /\ on.over = BOOLEAN
  BY DEF Selected, Anything
<1> HIDE DEF on
<1>3. Matches(Forward(n), p) <=> /\ p.iif \in on.iif /\ p.oif \in on.oif
                                 /\ p.src \in on.src /\ p.dst \in on.dst
                                 /\ p.proto \in on.proto /\ p.port \in on.port
                                 /\ p.ct \in on.ct /\ p.over \in on.over
  BY <1>1, MatchesFields
<1>4. p.iif \in on.iif <=> n.iface \in {AnyIface, p.iif}
  BY <1>2 DEF Of, Packet
<1>5. p.oif \in on.oif /\ p.ct \in on.ct /\ p.over \in on.over
  BY <1>2 DEF Packet
<1> QED BY <1>1, <1>2, <1>3, <1>4, <1>5

\* The portal's redirect is for its own interfaces.
LEMMA RedirectIs ==
  ASSUME NEW c \in Config, NEW cl
  PROVE  LET s == Redirect(c, cl) IN
         /\ IsChain(s)
         /\ \A i \in 1..Len(s) : s[i].verdict = "dnat" => s[i].hosts \subseteq Host /\ s[i].ports \subseteq Port
         /\ \A p \in Packet : p.iif \notin GatedIfaces(c) => Ending(s, p) = {}
<1> DEFINE s == Redirect(c, cl)
<1>1. CASE GatedIfaces(c) = {} \/ ~c.portal.redirect
  <2>1. s = <<>>
    BY <1>1 DEF Redirect
  <2>2. IsChain(<<>>) /\ Len(<<>>) = 0
    BY ShortChains
  <2>3. \A p \in Packet : Ending(<<>>, p) = {}
    BY NoStatement
  <2> QED BY <2>1, <2>2, <2>3
<1>2. CASE ~(GatedIfaces(c) = {} \/ ~c.portal.redirect)
  <2> DEFINE a == Passes(c, cl, "return")
             on == [FromGated(c) EXCEPT !.src = Seen(c, Host), !.proto = {"tcp"}, !.port = {80}]
             x == Rewriting(on, Self, {c.portal.port})
             b == <<x>>
  <2>1. s = a \o b
    BY <1>2 DEF Redirect
  <2>2. IsChain(a) /\ \A i \in 1..Len(a) : a[i].verdict = "return"
    <3> DEFINE g == FromGated(c)
               y1 == Statement([g EXCEPT !.src = c.portal.bypass], "return")
               y2 == Statement([g EXCEPT !.src = Seen(c, cl)], "return")
               y3 == Statement([g EXCEPT !.dst = Seen(c, c.portal.walled)], "return")
    <3>1. a = <<y1, y2, y3>> /\ y1.verdict = "return" /\ y2.verdict = "return" /\ y3.verdict = "return"
      BY DEF Passes, Statement
    <3> HIDE DEF y1, y2, y3
    <3>2. IsChain(<<y1, y2, y3>>) /\ Len(<<y1, y2, y3>>) = 3
      BY ShortChains
    <3>3. <<y1, y2, y3>>[1] = y1 /\ <<y1, y2, y3>>[2] = y2 /\ <<y1, y2, y3>>[3] = y3
      OBVIOUS
    <3> HIDE DEF a
    <3>4. \A i \in 1..Len(a) : i = 1 \/ i = 2 \/ i = 3
      BY <3>1, <3>2
    <3> QED BY <3>1, <3>2, <3>3, <3>4
  <2>3. x.verdict = "dnat" /\ x.hosts \subseteq Host /\ x.ports \subseteq Port /\ x.on = on
    BY NetfilterAssumption DEF Rewriting, Config, Portal
  <2>4. on.iif = GatedIfaces(c)
    BY DEF FromGated, Anything
  <2>5. ASSUME NEW p \in Packet, p.iif \notin GatedIfaces(c)
        PROVE  Ending(a, p) = {} /\ ~Matches(x, p)
    <3>1. /\ IsChain(a) /\ Len(a) = 3 /\ \A i \in 1..Len(a) : a[i].verdict = "return"
          /\ (\E i \in 1..Len(a) : Matches(a[i], p)) <=>
                /\ p.iif \in GatedIfaces(c)
                /\ \/ p.src \in c.portal.bypass \/ p.src \in Seen(c, cl)
                   \/ p.dst \in Seen(c, c.portal.walled)
      BY PassesMatch
    <3> HIDE DEF a, x, on
    <3>2. ~Matches(x, p)
      BY <2>3, <2>4, <2>5, MatchesFields
    <3>3. Ending(a, p) = {} <=> \A i \in 1..Len(a) : ~Matches(a[i], p)
      BY <3>1, OneVerdict
    <3> QED BY <2>5, <3>1, <3>2, <3>3
  <2> HIDE DEF a, x, on
  <2>6. IsChain(b) /\ Len(b) = 1 /\ b[1] = x
    BY ShortChains
  <2> HIDE DEF b
  <2>7. /\ IsChain(a \o b) /\ Len(a \o b) = Len(a) + Len(b)
        /\ \A i \in 1..Len(a) : (a \o b)[i] = a[i]
        /\ \A i \in 1..Len(b) : (a \o b)[Len(a) + i] = b[i]
    <3>1. IsChain(a) /\ IsChain(b)
      BY <2>2, <2>6
    <3> QED BY <3>1, ChainJoin
  <2>8. Len(a) \in Nat
    BY <2>2, ChainIndices
  <2>9. ASSUME NEW i \in 1..Len(a \o b), (a \o b)[i].verdict = "dnat"
        PROVE  (a \o b)[i] = x
    <3>1. CASE i \in 1..Len(a)
      BY <2>2, <2>7, <2>9, <3>1
    <3>2. CASE i \notin 1..Len(a)
      <4>1. i = Len(a) + 1
        BY <2>6, <2>7, <2>8, <3>2
      <4> QED BY <2>6, <2>7, <4>1
    <3> QED BY <3>1, <3>2
  <2>10. ASSUME NEW p \in Packet, p.iif \notin GatedIfaces(c)
         PROVE  Ending(a \o b, p) = {}
    <3>1. Ending(a, p) = {} /\ ~Matches(x, p)
      BY <2>5, <2>10
    <3>2. Ending(b, p) = {}
      <4>1. Ending(<<x>>, p) = {} <=> ~Matches(x, p)
        BY <2>3, OneStatement
      <4> QED BY <3>1, <4>1 DEF b
    <3>3. Ending(a \o b, p) = {} <=> Ending(a, p) = {} /\ Ending(b, p) = {}
      BY <2>2, <2>6, VerdictJoin
    <3> QED BY <3>1, <3>2, <3>3
  <2> QED BY <2>1, <2>3, <2>7, <2>9, <2>10
<1> QED BY <1>1, <1>2

-----------------------------------------------------------------------------
(* The invariant.                                                          *)

\* The configuration is one that passed the checks, and the kernel has the
\* ruleset of a configuration that did, with the same settings.
FilterSound ==
  /\ config \in Config /\ Valid(config) /\ (~config.nat.set => config.nat.wans = {})
  /\ clients \in SUBSET Host /\ open \in BOOLEAN
  /\ published \in [config : Config, clients : SUBSET Host, open : BOOLEAN]
  /\ Valid(Pub) /\ (~Pub.nat.set => Pub.nat.wans = {})
  /\ loaded = Ruleset(Pub, published.clients, published.open)
  /\ config.settings = Pub.settings

LEMMA FilterInitSound == FilterInit => FilterSound
<1> SUFFICES ASSUME FilterInit PROVE FilterSound
  OBVIOUS
<1>1. config \in Config /\ Valid(config) /\ (~config.nat.set => config.nat.wans = {})
  BY InputAssumption DEF FilterInit
<1>2. published = [config |-> config, clients |-> clients, open |-> open]
  BY DEF FilterInit
<1>3. Pub = config /\ published.clients = clients /\ published.open = open
  BY <1>2 DEF Pub
<1>4. clients \in SUBSET Host /\ open \in BOOLEAN /\ loaded = Ruleset(config, clients, open)
  BY DEF FilterInit
<1>5. published \in [config : Config, clients : SUBSET Host, open : BOOLEAN]
  BY <1>1, <1>2, <1>4
<1> QED BY <1>1, <1>3, <1>4, <1>5 DEF FilterSound

\* The configurations a request may make of the stored one.
Successor(c) ==
  /\ c \in Config /\ Valid(c) /\ (~c.nat.set => c.nat.wans = {})

\* What a publication leaves behind.
LEMMA Published ==
  ASSUME FilterSound, NEW c, Successor(c), NEW cl \in SUBSET Host, Publish(c, cl)
  PROVE  /\ published' \in [config : Config, clients : SUBSET Host, open : BOOLEAN]
         /\ Valid(Pub') /\ (~Pub'.nat.set => Pub'.nat.wans = {})
         /\ loaded' = Ruleset(Pub', published'.clients, published'.open)
         /\ Pub' = c \/ Pub' = Pub
         /\ Loads(c, Ruleset(c, cl, open)) => Pub' = c
<1> DEFINE k == Ruleset(c, cl, open)
<1>1. Publish(c, cl) =>
        IF Loads(c, k)
        THEN loaded' = k /\ published' = [config |-> c, clients |-> cl, open |-> open]
        ELSE loaded' = loaded /\ published' = published
  BY DEF Publish
<1>2. CASE Loads(c, k)
  <2>1. loaded' = k /\ published' = [config |-> c, clients |-> cl, open |-> open]
    BY <1>1, <1>2
  <2>2. Pub' = c /\ published'.clients = cl /\ published'.open = open
    BY <2>1 DEF Pub
  <2> QED BY <2>1, <2>2 DEF FilterSound, Successor
<1>3. CASE ~Loads(c, k)
  <2>1. loaded' = loaded /\ published' = published
    BY <1>1, <1>3
  <2>2. Pub' = Pub
    BY <2>1 DEF Pub
  <2> QED BY <1>3, <2>1, <2>2 DEF FilterSound
<1> QED BY <1>2, <1>3

\* The rest of the invariant, once the configuration and what is published
\* are known to be good.
LEMMA SoundAfter ==
  ASSUME FilterSound, NEW c, Successor(c), config' = c,
         clients' \in SUBSET Host, open' \in BOOLEAN,
         NEW d, Successor(d), NEW cl \in SUBSET Host, Publish(d, cl),
         Pub' = d => c.settings = d.settings, Pub' = Pub => c.settings = Pub.settings
  PROVE  FilterSound'
<1>1. /\ published' \in [config : Config, clients : SUBSET Host, open : BOOLEAN]
      /\ Valid(Pub') /\ (~Pub'.nat.set => Pub'.nat.wans = {})
      /\ loaded' = Ruleset(Pub', published'.clients, published'.open)
      /\ Pub' = d \/ Pub' = Pub
      /\ Loads(d, Ruleset(d, cl, open)) => Pub' = d
  BY Published
<1>2. config'.settings = Pub'.settings
  BY <1>1
<1>3. config' \in Config /\ Valid(config') /\ (~config'.nat.set => config'.nat.wans = {})
  BY DEF Successor
<1>4. /\ (Config)' = Config
  OBVIOUS
<1> QED BY <1>1, <1>2, <1>3 DEF FilterSound, Valid, Ruleset

LEMMA StoredIsGood ==
  ASSUME FilterSound
  PROVE  Successor(config) /\ Successor(Pub) /\ config.settings = Pub.settings
<1>1. Pub \in Config
  BY DEF FilterSound, Pub
<1> QED BY <1>1 DEF FilterSound, Successor

LEMMA SaveRulesSound ==
  ASSUME FilterSound, NEW c \in Config, c.nat = config.nat, SaveRules(c)
  PROVE  FilterSound'
<1>1. Successor(config) /\ config.settings = Pub.settings /\ clients \in SUBSET Host /\ open \in BOOLEAN
  BY StoredIsGood DEF FilterSound
<1>2. Successor(c) /\ clients' = clients /\ open' = open
  BY <1>1 DEF SaveRules, Save, Successor
<1>3. CASE Loads(c, Ruleset(c, clients, open))
  <2>1. config' = c /\ Publish(c, clients)
    BY <1>3 DEF SaveRules
  <2>2. Pub' = c
    BY <1>1, <1>2, <1>3, <2>1, Published
  <2> QED BY <1>1, <1>2, <2>1, <2>2, SoundAfter
<1>4. CASE ~Loads(c, Ruleset(c, clients, open))
  <2>1. config' = config /\ Publish(config, clients)
    BY <1>4 DEF SaveRules
  <2> QED BY <1>1, <1>2, <2>1, SoundAfter
<1> QED BY <1>3, <1>4

LEMMA SaveNatSound ==
  ASSUME FilterSound, NEW c \in Config, ~c.nat.set => c.nat.wans = {}, c.settings = config.settings,
         SaveNat(c)
  PROVE  FilterSound'
<1>1. Successor(config) /\ config.settings = Pub.settings /\ clients \in SUBSET Host /\ open \in BOOLEAN
  BY StoredIsGood DEF FilterSound
<1>2. Successor(c) /\ clients' = clients /\ open' = open /\ Publish(c, clients)
  BY <1>1 DEF SaveNat, Save, Successor
<1>3. config' = c \/ config' = config
  BY DEF SaveNat
<1>4. Successor(config') /\ config'.settings = config.settings
  BY <1>1, <1>2, <1>3
<1> QED BY <1>1, <1>2, <1>4, SoundAfter

LEMMA StoredAndPublished ==
  ASSUME FilterSound, NEW c \in Config, ~c.nat.set => c.nat.wans = {}, c.settings = config.settings,
         Save(c), config' = c, Publish(c, clients)
  PROVE  FilterSound'
<1>1. Successor(config) /\ config.settings = Pub.settings /\ clients \in SUBSET Host /\ open \in BOOLEAN
  BY StoredIsGood DEF FilterSound
<1>2. Successor(c) /\ clients' = clients /\ open' = open
  BY <1>1 DEF Save, Successor
<1> QED BY <1>1, <1>2, SoundAfter

LEMMA SaveAndPublishSound ==
  ASSUME FilterSound, NEW c \in Config, ~c.nat.set => c.nat.wans = {}, c.settings = config.settings,
         SaveAndPublish(c)
  PROVE  FilterSound'
<1>1. Save(c) /\ config' = c /\ Publish(c, clients)
  BY DEF SaveAndPublish
<1> QED BY <1>1, StoredAndPublished

LEMMA RuleLists ==
  ASSUME NEW s \in Seq(Rule)
  PROVE  /\ \A r \in Rule : Append(s, r) \in Seq(Rule)
         /\ \A i \in DOMAIN s : s[i] \in Rule /\ RemoveAt(s, i) \in Seq(Rule)
         /\ \A i \in DOMAIN s, r \in Rule : [s EXCEPT ![i] = r] \in Seq(Rule)
<1>1. Len(s) \in Nat /\ DOMAIN s = 1..Len(s) /\ \A i \in 1..Len(s) : s[i] \in Rule
  BY LenProperties, ElementOfSeq
<1>2. \A r \in Rule : Append(s, r) \in Seq(Rule)
  BY AppendProperties
<1>3. \A i \in DOMAIN s, r \in Rule : [s EXCEPT ![i] = r] \in Seq(Rule)
  BY <1>1, ExceptSeq
<1>4. ASSUME NEW i \in 1..Len(s) PROVE RemoveAt(s, i) \in Seq(Rule)
  <2>1. SubSeq(s, 1, i - 1) \in Seq(Rule)
    BY <1>1, SubSeqProperties
  <2>2. SubSeq(s, i + 1, Len(s)) \in Seq(Rule)
    BY <1>1, SubSeqProperties
  <2> QED BY <2>1, <2>2, ConcatProperties DEF RemoveAt
<1> QED BY <1>1, <1>2, <1>3, <1>4

LEMMA NatLists ==
  ASSUME NEW s \in Seq(NatRule)
  PROVE  /\ \A n \in NatRule : Append(s, n) \in Seq(NatRule)
         /\ \A i \in DOMAIN s : RemoveAt(s, i) \in Seq(NatRule)
         /\ \A i \in DOMAIN s, n \in NatRule : [s EXCEPT ![i] = n] \in Seq(NatRule)
<1>1. Len(s) \in Nat /\ DOMAIN s = 1..Len(s) /\ \A i \in 1..Len(s) : s[i] \in NatRule
  BY LenProperties, ElementOfSeq
<1>2. \A n \in NatRule : Append(s, n) \in Seq(NatRule)
  BY AppendProperties
<1>3. \A i \in DOMAIN s, n \in NatRule : [s EXCEPT ![i] = n] \in Seq(NatRule)
  BY <1>1, ExceptSeq
<1>4. ASSUME NEW i \in 1..Len(s) PROVE RemoveAt(s, i) \in Seq(NatRule)
  <2>1. SubSeq(s, 1, i - 1) \in Seq(NatRule)
    BY <1>1, SubSeqProperties
  <2>2. SubSeq(s, i + 1, Len(s)) \in Seq(NatRule)
    BY <1>1, SubSeqProperties
  <2> QED BY <2>1, <2>2, ConcatProperties DEF RemoveAt
<1> QED BY <1>1, <1>2, <1>3, <1>4

\* Every list of rules makes a configuration, and so does every list of NAT
\* rules.
LEMMA RulesReplaced ==
  ASSUME NEW c \in Config, NEW s \in Seq(Rule)
  PROVE  LET d == [c EXCEPT !.rules = s] IN d \in Config /\ d.nat = c.nat
BY DEF Config

LEMMA NatReplaced ==
  ASSUME NEW c \in Config, NEW n \in NatConfig
  PROVE  LET d == [c EXCEPT !.nat = n] IN
         d \in Config /\ d.nat = n /\ d.settings = c.settings
BY DEF Config

LEMMA RuleActionsSound ==
  ASSUME FilterSound,
         CreateRule \/ CreateInterfaceRule \/ CloneRule \/ UpdateRule \/ DeleteRule
           \/ DeleteInterfaceRule \/ UpdateSettings
  PROVE  FilterSound'
<1>1. config \in Config /\ config.rules \in Seq(Rule)
  BY DEF FilterSound, Config
<1>2. FirewallRules \subseteq Rule /\ Settings \subseteq Setting
  BY InputAssumption
<1>3. ASSUME NEW s \in Seq(Rule), SaveRules([config EXCEPT !.rules = s]) PROVE FilterSound'
  BY <1>1, <1>3, RulesReplaced, SaveRulesSound
<1>4. /\ \A r \in Rule : Append(config.rules, r) \in Seq(Rule)
      /\ \A i \in DOMAIN config.rules : config.rules[i] \in Rule /\ RemoveAt(config.rules, i) \in Seq(Rule)
      /\ \A i \in DOMAIN config.rules, r \in Rule : [config.rules EXCEPT ![i] = r] \in Seq(Rule)
  BY <1>1, RuleLists
<1>5. CASE CreateRule
  <2>1. PICK r \in FirewallRules : SaveRules([config EXCEPT !.rules = Append(config.rules, r)])
    BY <1>5 DEF CreateRule
  <2> QED BY <1>2, <1>3, <1>4, <2>1
<1>6. CASE CreateInterfaceRule
  <2>1. PICK r \in FirewallRules, i \in Iface :
          SaveRules([config EXCEPT !.rules = Append(config.rules, [r EXCEPT !.iface = i])])
    BY <1>6 DEF CreateInterfaceRule
  <2>2. [r EXCEPT !.iface = i] \in Rule
    BY <1>2 DEF Rule
  <2> QED BY <1>3, <1>4, <2>1, <2>2
<1>7. CASE CloneRule
  <2>1. PICK i \in DOMAIN config.rules : SaveRules([config EXCEPT !.rules = Append(config.rules, config.rules[i])])
    BY <1>7 DEF CloneRule
  <2> QED BY <1>3, <1>4, <2>1
<1>8. CASE UpdateRule
  <2>1. PICK i \in DOMAIN config.rules, r \in FirewallRules : SaveRules([config EXCEPT !.rules[i] = r])
    BY <1>8 DEF UpdateRule
  <2>2. [config EXCEPT !.rules[i] = r] = [config EXCEPT !.rules = [config.rules EXCEPT ![i] = r]]
    OBVIOUS
  <2> QED BY <1>2, <1>3, <1>4, <2>1, <2>2
<1>9. CASE DeleteRule
  <2>1. PICK i \in DOMAIN config.rules : SaveRules([config EXCEPT !.rules = RemoveAt(config.rules, i)])
    BY <1>9 DEF DeleteRule
  <2> QED BY <1>3, <1>4, <2>1
<1>10. CASE DeleteInterfaceRule
  <2>1. PICK i \in DOMAIN config.rules : SaveRules([config EXCEPT !.rules = RemoveAt(config.rules, i)])
    BY <1>10 DEF DeleteInterfaceRule
  <2> QED BY <1>3, <1>4, <2>1
<1>11. CASE UpdateSettings
  <2>1. PICK s \in Settings : SaveRules([config EXCEPT !.settings = s])
    BY <1>11 DEF UpdateSettings
  <2>2. [config EXCEPT !.settings = s] \in Config /\ [config EXCEPT !.settings = s].nat = config.nat
    BY <1>1, <1>2 DEF Config
  <2> QED BY <2>1, <2>2, SaveRulesSound
<1> QED BY <1>5, <1>6, <1>7, <1>8, <1>9, <1>10, <1>11

LEMMA NatActionsSound ==
  ASSUME FilterSound,
         PutNat \/ CreateNatRule \/ UpdateNatRule \/ DeleteNatRule \/ SetOutbound
  PROVE  FilterSound'
<1>1. /\ config \in Config /\ config.nat \in NatConfig /\ config.nat.rules \in Seq(NatRule)
      /\ ~config.nat.set => config.nat.wans = {}
  BY DEF FilterSound, Config, NatConfig
<1>2. NatRules \subseteq NatRule /\ Wan \subseteq Iface /\ \A c \in Starts : c.nat \in NatConfig
  BY InputAssumption, PacketFilterAssumption DEF Config
<1>3. ASSUME NEW n \in NatConfig, ~n.set => n.wans = {}, SaveNat([config EXCEPT !.nat = n])
      PROVE  FilterSound'
  BY <1>1, <1>3, NatReplaced, SaveNatSound
<1>4. /\ \A n \in NatRule : Append(config.nat.rules, n) \in Seq(NatRule)
      /\ \A i \in DOMAIN config.nat.rules : RemoveAt(config.nat.rules, i) \in Seq(NatRule)
      /\ \A i \in DOMAIN config.nat.rules, n \in NatRule : [config.nat.rules EXCEPT ![i] = n] \in Seq(NatRule)
  BY <1>1, NatLists
<1>5. CASE PutNat
  <2>1. PICK c \in Starts : SaveNat([config EXCEPT !.nat = [c.nat EXCEPT !.set = TRUE]])
    BY <1>5 DEF PutNat
  <2>2. [c.nat EXCEPT !.set = TRUE] \in NatConfig /\ [c.nat EXCEPT !.set = TRUE].set
    BY <1>2 DEF NatConfig
  <2> QED BY <1>3, <2>1, <2>2
<1>6. CASE CreateNatRule
  <2>1. PICK n \in NatRules :
          SaveNat([config EXCEPT !.nat.set = TRUE, !.nat.rules = Append(config.nat.rules, n)])
    BY <1>6 DEF CreateNatRule
  <2> DEFINE d == [config.nat EXCEPT !.set = TRUE, !.rules = Append(config.nat.rules, n)]
  <2>2. d \in NatConfig /\ d.set
    BY <1>1, <1>2, <1>4 DEF NatConfig
  <2>3. [config EXCEPT !.nat.set = TRUE, !.nat.rules = Append(config.nat.rules, n)] = [config EXCEPT !.nat = d]
    BY <1>1 DEF Config
  <2> HIDE DEF d
  <2> QED BY <1>3, <2>1, <2>2, <2>3
<1>7. CASE UpdateNatRule
  <2>1. PICK i \in DOMAIN config.nat.rules, n \in NatRules : SaveNat([config EXCEPT !.nat.rules[i] = n])
    BY <1>7 DEF UpdateNatRule
  <2> DEFINE d == [config.nat EXCEPT !.rules = [config.nat.rules EXCEPT ![i] = n]]
  <2>2. d \in NatConfig /\ d.set = config.nat.set /\ d.wans = config.nat.wans
    BY <1>1, <1>2, <1>4 DEF NatConfig
  <2>3. [config EXCEPT !.nat.rules[i] = n] = [config EXCEPT !.nat = d]
    BY <1>1 DEF Config
  <2> HIDE DEF d
  <2> QED BY <1>1, <1>3, <2>1, <2>2, <2>3
<1>8. CASE DeleteNatRule
  <2>1. PICK i \in DOMAIN config.nat.rules :
          SaveNat([config EXCEPT !.nat.rules = RemoveAt(config.nat.rules, i)])
    BY <1>8 DEF DeleteNatRule
  <2> DEFINE d == [config.nat EXCEPT !.rules = RemoveAt(config.nat.rules, i)]
  <2>2. d \in NatConfig /\ d.set = config.nat.set /\ d.wans = config.nat.wans
    BY <1>1, <1>4 DEF NatConfig
  <2>3. [config EXCEPT !.nat.rules = RemoveAt(config.nat.rules, i)] = [config EXCEPT !.nat = d]
    BY <1>1 DEF Config
  <2> HIDE DEF d
  <2> QED BY <1>1, <1>3, <2>1, <2>2, <2>3
<1>9. CASE SetOutbound
  <2>1. PICK m \in Mode, w \in SUBSET Wan :
          SaveNat([config EXCEPT !.nat.set = TRUE, !.nat.mode = m, !.nat.wans = w])
    BY <1>9 DEF SetOutbound
  <2> DEFINE d == [config.nat EXCEPT !.set = TRUE, !.mode = m, !.wans = w]
  <2>2. d \in NatConfig /\ d.set
    BY <1>1, <1>2 DEF NatConfig
  <2>3. [config EXCEPT !.nat.set = TRUE, !.nat.mode = m, !.nat.wans = w] = [config EXCEPT !.nat = d]
    BY <1>1 DEF Config
  <2> HIDE DEF d
  <2> QED BY <1>3, <2>1, <2>2, <2>3
<1> QED BY <1>5, <1>6, <1>7, <1>8, <1>9

LEMMA OtherActionsSound ==
  ASSUME FilterSound,
         CreateAlias \/ UpdateAlias \/ DeleteAlias \/ UpdatePortal \/ UpdateSystem
  PROVE  FilterSound'
<1>1. /\ config \in Config /\ config.aliases \subseteq Alias
      /\ ~config.nat.set => config.nat.wans = {}
  BY DEF FilterSound, Config
<1>2. Aliases \subseteq Alias /\ Portals \subseteq Portal
  BY InputAssumption
<1>3. ASSUME NEW s \in SUBSET Alias, SaveAndPublish([config EXCEPT !.aliases = s]) PROVE FilterSound'
  <2>1. LET c == [config EXCEPT !.aliases = s] IN
        c \in Config /\ c.nat = config.nat /\ c.settings = config.settings
    BY <1>1 DEF Config
  <2> QED BY <1>1, <1>3, <2>1, SaveAndPublishSound
<1>4. CASE CreateAlias
  <2>1. PICK a \in Aliases \ config.aliases :
          SaveAndPublish([config EXCEPT !.aliases = config.aliases \union {a}])
    BY <1>4 DEF CreateAlias
  <2> QED BY <1>1, <1>2, <1>3, <2>1
<1>5. CASE UpdateAlias
  <2>1. PICK a \in config.aliases, b \in Aliases \ config.aliases :
          SaveAndPublish([config EXCEPT !.aliases = (config.aliases \ {a}) \union {b}])
    BY <1>5 DEF UpdateAlias
  <2> QED BY <1>1, <1>2, <1>3, <2>1
<1>6. CASE DeleteAlias
  <2>1. PICK a \in config.aliases : SaveAndPublish([config EXCEPT !.aliases = config.aliases \ {a}])
    BY <1>6 DEF DeleteAlias
  <2> QED BY <1>1, <1>3, <2>1
<1>7. CASE UpdatePortal
  <2>1. PICK t \in Portals : SaveAndPublish([config EXCEPT !.portal = t])
    BY <1>7 DEF UpdatePortal
  <2>2. LET c == [config EXCEPT !.portal = t] IN
        c \in Config /\ c.nat = config.nat /\ c.settings = config.settings
    BY <1>1, <1>2 DEF Config
  <2> QED BY <1>1, <2>1, <2>2, SaveAndPublishSound
<1>8. CASE UpdateSystem
  <2>1. PICK t \in Systems :
          LET c == [config EXCEPT !.six = t.six, !.ssh = t.ssh, !.web = t.web,
                                  !.sshPort = t.sshPort] IN
          /\ Save(c) /\ config' = c
          /\ UNCHANGED <<published, loaded>> \/ Publish(c, clients)
    BY <1>8 DEF UpdateSystem
  <2> DEFINE c == [config EXCEPT !.six = t.six, !.ssh = t.ssh, !.web = t.web,
                                 !.sshPort = t.sshPort]
  <2>2. t \in System
    BY <2>1, InputAssumption
  <2>3. c \in Config /\ c.nat = config.nat /\ c.settings = config.settings
    BY <1>1, <2>2 DEF Config, System
  <2>4. /\ Save(c) /\ config' = c
        /\ UNCHANGED <<published, loaded>> \/ Publish(c, clients)
    BY <2>1
  <2> HIDE DEF c
  <2>5. CASE Publish(c, clients)
    BY <1>1, <2>3, <2>4, <2>5, StoredAndPublished
  <2>6. CASE UNCHANGED <<published, loaded>>
    <3>1. Valid(c) /\ clients' = clients /\ open' = open /\ config' = c /\ published' = published
          /\ loaded' = loaded
      BY <2>4, <2>6 DEF Save
    <3>2. Pub' = Pub /\ Valid(config)' /\ Valid(Pub)'
      BY <3>1 DEF Pub, FilterSound, Valid
    <3> QED BY <1>1, <2>3, <3>1, <3>2 DEF FilterSound
  <2> QED BY <2>4, <2>5, <2>6
<1> QED BY <1>4, <1>5, <1>6, <1>7, <1>8

LEMMA ClientActionsSound ==
  ASSUME FilterSound, AuthorizeClient \/ RevokeClient \/ RestartDaemon
  PROVE  FilterSound'
<1>1. Successor(config) /\ Successor(Pub) /\ config.settings = Pub.settings
  BY StoredIsGood
<1>2. clients \in SUBSET Host /\ open \in BOOLEAN
  BY DEF FilterSound
<1>3. ASSUME clients' \in SUBSET Host, Publish(config, clients'), UNCHANGED <<config, open>>
      PROVE  FilterSound'
  BY <1>1, <1>2, <1>3, SoundAfter
<1>4. CASE AuthorizeClient
  BY <1>2, <1>3, <1>4 DEF AuthorizeClient
<1>5. CASE RevokeClient
  BY <1>2, <1>3, <1>5 DEF RevokeClient
<1>6. CASE RestartDaemon
  <2>1. /\ clients' = clients /\ Publish(config, clients) /\ config' = config /\ open' = open
    BY <1>6 DEF RestartDaemon
  <2> QED BY <1>1, <1>2, <2>1, SoundAfter
<1> QED BY <1>4, <1>5, <1>6

\* The stored configuration has always passed the checks, and the kernel runs
\* the ruleset of a configuration that has, with the firewall settings that are
\* stored now: a ruleset nft refuses never leaves other settings in the store
\* (api/firewall.rs:122-207).
THEOREM FilterInvariant == FilterSpec => []FilterSound
<1>1. FilterInit => FilterSound
  BY FilterInitSound
<1>2. FilterSound /\ [FilterNext]_filterVars => FilterSound'
  <2> SUFFICES ASSUME FilterSound, [FilterNext]_filterVars PROVE FilterSound'
    OBVIOUS
  <2>1. CASE Clock
    <3>1. open' \in BOOLEAN /\ UNCHANGED <<config, clients, published, loaded>>
      BY <2>1 DEF Clock
    <3> QED BY <3>1 DEF FilterSound, Pub, Valid
  <2>2. CASE UNCHANGED filterVars
    BY <2>2 DEF FilterSound, Pub, Valid, filterVars
  <2> QED BY <2>1, <2>2, RuleActionsSound, NatActionsSound, OtherActionsSound, ClientActionsSound
          DEF FilterNext
<1> QED BY <1>1, <1>2, PTL DEF FilterSpec

-----------------------------------------------------------------------------
(* What arrives.                                                           *)

LEMMA DnatIs ==
  ASSUME NEW c \in Config
  PROVE  LET s == Dnat(c) IN
         /\ DOMAIN s \subseteq Nat
         /\ \A i \in DOMAIN s : s[i].verdict = "dnat" /\ s[i].hosts \subseteq Host /\ s[i].ports \subseteq Port
<1> DEFINE s == Dnat(c)
           u == c.nat.rules
<1>1. PICK n, f : Forwards(s, c, n, f)
  BY DnatOrder, Zenon
<1>2. /\ n \in Nat /\ f \in [1..n -> DnatAt(c)]
      /\ DOMAIN s = 1..n /\ \A k \in 1..n : s[k] = Forward(u[f[k]])
  BY <1>1 DEF Forwards
<1>3. \A i \in DnatAt(c) : u[i] \in NatRule
  <2>1. u \in Seq(NatRule)
    BY DEF Config, NatConfig
  <2>2. DOMAIN u = 1..Len(u) /\ \A i \in 1..Len(u) : u[i] \in NatRule
    BY <2>1, LenProperties, ElementOfSeq
  <2> QED BY <2>2 DEF DnatAt
<1>4. \A m \in NatRule : /\ Forward(m).verdict = "dnat" /\ Forward(m).hosts \subseteq Host
                         /\ Forward(m).ports \subseteq Port
  BY DEF Forward, Rewriting, NatRule, Target
<1> HIDE DEF s, u
<1>5. DOMAIN s \subseteq Nat
  BY <1>2
<1>6. \A k \in 1..n : f[k] \in DnatAt(c)
  BY <1>2
<1>7. \A k \in 1..n : /\ s[k].verdict = "dnat" /\ s[k].hosts \subseteq Host
                      /\ s[k].ports \subseteq Port
  BY <1>2, <1>3, <1>4, <1>6
<1> QED BY <1>2, <1>5, <1>7 DEF s

\* Translation changes where a packet goes, and nothing else of it.
Rebound(q, p) ==
  /\ q \in Packet
  /\ q.iif = p.iif /\ q.src = p.src /\ q.proto = p.proto /\ q.ct = p.ct /\ q.over = p.over

LEMMA ThroughIs ==
  ASSUME NEW s, DOMAIN s \subseteq Nat,
         \A i \in DOMAIN s : s[i].verdict = "dnat" => s[i].hosts \subseteq Host /\ s[i].ports \subseteq Port,
         NEW p \in Packet, NEW q \in Through(s, p)
  PROVE  Rebound(q, p)
<1>1. CASE ~Translates(s, p)
  <2>1. q = p
    BY <1>1 DEF Through
  <2> QED BY <2>1 DEF Rebound
<1>2. CASE Translates(s, p)
  <2> DEFINE E == Ending(s, p)
             x == s[FirstOf(E)]
  <2>1. E # {} /\ x.verdict = "dnat" /\ q \in Rewritten(x, p)
    BY <1>2 DEF Through, Translates
  <2>2. E \subseteq Nat /\ E \subseteq DOMAIN s
    BY DEF Ending
  <2> HIDE DEF E
  <2>3. FirstOf(E) \in E
    BY <2>1, <2>2, FirstLeast
  <2>4. x.hosts \subseteq Host /\ x.ports \subseteq Port
    BY <2>1, <2>2, <2>3
  <2> HIDE DEF x
  <2> DEFINE H == x.hosts \cap OfFamily(Family(p.src))
             K == IF x.ports = {} THEN {p.port} ELSE x.ports
  <2>5. PICK h \in H, k \in K : q = Toward(p, h, k)
    BY <2>1 DEF Rewritten
  <2>6. h \in Host /\ k \in Port
    BY <2>4, <2>5 DEF Packet
  <2> QED BY <2>5, <2>6 DEF Rebound, Packet, Toward
<1> QED BY <1>1, <1>2

\* An arriving packet, before and after it is routed.
Bound(p) ==
  IF p.ct # "new" THEN {p}
  ELSE IF Translates(loaded.redirect, p) THEN Through(loaded.redirect, p)
  ELSE Through(loaded.dnat, p)
Routed(q) == [q EXCEPT !.oif = IF q.dst \in Self THEN NoIface ELSE Route[q.dst]]

LEMMA LoadedIs ==
  ASSUME FilterSound
  PROVE  /\ Pub \in Config /\ published.clients \in SUBSET Host /\ published.open \in BOOLEAN
         /\ loaded.input = InputChain(Pub, published.open)
         /\ loaded.forward = ForwardChain(Pub, published.clients, published.open)
         /\ loaded.policy.input = Pub.settings.input /\ loaded.policy.forward = Pub.settings.forward
         /\ loaded.redirect = Redirect(Pub, published.clients)
         /\ loaded.dnat = Dnat(Pub) /\ loaded.post = Outbound(Pub)
<1>1. /\ published \in [config : Config, clients : SUBSET Host, open : BOOLEAN]
      /\ loaded = Ruleset(Pub, published.clients, published.open)
  BY DEF FilterSound
<1>2. /\ Pub \in Config /\ published.clients \in SUBSET Host /\ published.open \in BOOLEAN
  BY <1>1 DEF Pub
<1> QED BY <1>1, <1>2 DEF Ruleset

LEMMA BoundIs ==
  ASSUME FilterSound, NEW p \in Packet, NEW q \in Bound(p)
  PROVE  Rebound(q, p)
<1> DEFINE a == Redirect(Pub, published.clients)
           b == Dnat(Pub)
<1>1. Pub \in Config /\ loaded.redirect = a /\ loaded.dnat = b
  BY LoadedIs
<1>2. /\ DOMAIN a \subseteq Nat
      /\ \A i \in DOMAIN a : a[i].verdict = "dnat" => a[i].hosts \subseteq Host /\ a[i].ports \subseteq Port
  <2>1. /\ IsChain(a)
        /\ \A i \in 1..Len(a) : a[i].verdict = "dnat" => a[i].hosts \subseteq Host /\ a[i].ports \subseteq Port
    BY <1>1, RedirectIs
  <2>2. Len(a) \in Nat /\ DOMAIN a = 1..Len(a)
    BY <2>1, ChainIndices
  <2> QED BY <2>1, <2>2
<1>3. /\ DOMAIN b \subseteq Nat
      /\ \A i \in DOMAIN b : b[i].verdict = "dnat" /\ b[i].hosts \subseteq Host /\ b[i].ports \subseteq Port
  BY <1>1, DnatIs
<1> HIDE DEF a, b
<1>4. CASE q \in Through(a, p)
  BY <1>2, <1>4, ThroughIs
<1>5. CASE q \in Through(b, p)
  BY <1>3, <1>5, ThroughIs
<1>6. CASE q = p
  BY <1>6 DEF Rebound
<1> QED BY <1>1, <1>4, <1>5, <1>6 DEF Bound

LEMMA ArrivalIs ==
  ASSUME FilterSound, NEW p \in Packet, NEW q \in Arrivals(p)
  PROVE  /\ Rebound(q, p)
         /\ \E b \in Bound(p) : q = Routed(b) /\ q.dst = b.dst /\ q.port = b.port
<1>1. Arrivals(p) = {Routed(b) : b \in Bound(p)}
  BY DEF Arrivals, Routed, Bound
<1>2. PICK b \in Bound(p) : q = Routed(b)
  BY <1>1
<1>3. Rebound(b, p)
  BY BoundIs
<1>4. Route \in [Host -> Iface \union {NoIface}]
  BY PacketFilterAssumption
<1>5. (IF b.dst \in Self THEN NoIface ELSE Route[b.dst]) \in Iface \union {NoIface}
  BY <1>3, <1>4 DEF Rebound, Packet
<1>6. q.dst = b.dst /\ q.port = b.port
  BY <1>2, <1>3 DEF Routed, Rebound, Packet
<1>7. Rebound(q, p)
  BY <1>2, <1>3, <1>5 DEF Routed, Rebound, Packet
<1> QED BY <1>2, <1>6, <1>7

-----------------------------------------------------------------------------
(* Forwarded packets.                                                      *)

\* The first part of a chain that ends a packet's way gives the verdict.
LEMMA FiveChains ==
  ASSUME NEW a, NEW b, NEW c, NEW d, NEW e, NEW policy, NEW p,
         IsChain(a), IsChain(b), IsChain(c), IsChain(d), IsChain(e)
  PROVE  LET s == (((a \o b) \o c) \o d) \o e
             V(x) == Verdict(x, policy, p)
             Passed(x) == Ending(x, p) = {}
         IN /\ ~Passed(a) => V(s) = V(a)
            /\ Passed(a) /\ ~Passed(b) => V(s) = V(b)
            /\ Passed(a) /\ Passed(b) /\ ~Passed(c) => V(s) = V(c)
            /\ Passed(a) /\ Passed(b) /\ Passed(c) /\ ~Passed(d) => V(s) = V(d)
            /\ Passed(a) /\ Passed(b) /\ Passed(c) /\ Passed(d) => V(s) = V(e)
<1> DEFINE ab == a \o b
           abc == ab \o c
           abcd == abc \o d
           s == abcd \o e
           V(x) == Verdict(x, policy, p)
           Passed(x) == Ending(x, p) = {}
<1>1. IsChain(ab)
  BY ChainJoin
<1>2. IsChain(abc)
  <2> HIDE DEF ab
  <2> QED BY <1>1, ChainJoin
<1>3. IsChain(abcd)
  <2> HIDE DEF abc
  <2> QED BY <1>2, ChainJoin
<1>4. /\ Passed(ab) <=> Passed(a) /\ Passed(b)
      /\ ~Passed(a) => V(ab) = V(a)
      /\ Passed(a) => V(ab) = V(b)
  BY VerdictJoin
<1>5. /\ Passed(abc) <=> Passed(ab) /\ Passed(c)
      /\ ~Passed(ab) => V(abc) = V(ab)
      /\ Passed(ab) => V(abc) = V(c)
  <2> HIDE DEF ab
  <2> QED BY <1>1, VerdictJoin
<1>6. /\ Passed(abcd) <=> Passed(abc) /\ Passed(d)
      /\ ~Passed(abc) => V(abcd) = V(abc)
      /\ Passed(abc) => V(abcd) = V(d)
  <2> HIDE DEF abc
  <2> QED BY <1>2, VerdictJoin
<1>7. /\ Passed(s) <=> Passed(abcd) /\ Passed(e)
      /\ ~Passed(abcd) => V(s) = V(abcd)
      /\ Passed(abcd) => V(s) = V(e)
  <2> HIDE DEF abcd
  <2> QED BY <1>3, VerdictJoin
<1> HIDE DEF ab, abc, abcd, V, Passed
<1>8. /\ ~Passed(a) => V(s) = V(a)
      /\ Passed(a) /\ ~Passed(b) => V(s) = V(b)
      /\ Passed(a) /\ Passed(b) /\ ~Passed(c) => V(s) = V(c)
      /\ Passed(a) /\ Passed(b) /\ Passed(c) /\ ~Passed(d) => V(s) = V(d)
      /\ Passed(a) /\ Passed(b) /\ Passed(c) /\ Passed(d) => V(s) = V(e)
  BY <1>4, <1>5, <1>6, <1>7
<1> QED BY <1>8 DEF ab, abc, abcd, V, Passed

\* What becomes of a new packet that is not for the firewall.
LEMMA ForwardDecision ==
  ASSUME FilterSound, NEW q \in Packet, q.ct = "new", q.dst \notin Self
  PROVE  LET g == Gate(Pub, published.clients)
             m == Companions(Pub)
             e == EmitFor(Active(Pub, published.open), "forward")
             o == OutboundAccepts(Pub)
             policy == Pub.settings.forward
         IN /\ Ending(g, q) # {} => Decision(q) = Verdict(g, policy, q)
            /\ Ending(g, q) = {} /\ Ending(m, q) # {} => Decision(q) = "accept"
            /\ Ending(g, q) = {} /\ Ending(m, q) = {} /\ Ending(e, q) # {} =>
                 Decision(q) = Verdict(e, policy, q)
            /\ Ending(g, q) = {} /\ Ending(m, q) = {} /\ Ending(e, q) = {} =>
                 Decision(q) \in {"accept", policy}
<1> DEFINE t == Tracked(Pub)
           g == Gate(Pub, published.clients)
           m == Companions(Pub)
           e == EmitFor(Active(Pub, published.open), "forward")
           o == OutboundAccepts(Pub)
           policy == Pub.settings.forward
           s == (((t \o g) \o m) \o e) \o o
<1>1. /\ Pub \in Config
      /\ loaded.forward = ForwardChain(Pub, published.clients, published.open)
      /\ loaded.policy.forward = policy
  BY LoadedIs
<1>2. Decision(q) = Verdict(s, policy, q)
  BY <1>1 DEF Decision, ForwardChain
<1>3. /\ IsChain(t)
      /\ q.ct = "new" => Ending(t, q) = {}
      /\ q.ct = "established" => Ending(t, q) # {} /\ Verdict(t, policy, q) = "accept"
  BY TrackedVerdict
<1>4. IsChain(g)
  BY GateVerdict
<1>5. IsChain(m) /\ (Ending(m, q) # {} => Verdict(m, policy, q) = "accept")
  BY <1>1, CompanionsVerdict
<1>6. IsChain(e)
  BY <1>1, EmitOrder
<1>7. IsChain(o) /\ (Ending(o, q) # {} => Verdict(o, policy, q) = "accept")
  BY OutboundVerdict
<1>8. Ending(o, q) = {} => Verdict(o, policy, q) = policy
  BY DEF Verdict
<1> HIDE DEF t, g, m, e, o, policy
<1>9. /\ Ending(t, q) # {} => Verdict(s, policy, q) = Verdict(t, policy, q)
      /\ Ending(t, q) = {} /\ Ending(g, q) # {} => Verdict(s, policy, q) = Verdict(g, policy, q)
      /\ Ending(t, q) = {} /\ Ending(g, q) = {} /\ Ending(m, q) # {} =>
           Verdict(s, policy, q) = Verdict(m, policy, q)
      /\ Ending(t, q) = {} /\ Ending(g, q) = {} /\ Ending(m, q) = {} /\ Ending(e, q) # {} =>
           Verdict(s, policy, q) = Verdict(e, policy, q)
      /\ Ending(t, q) = {} /\ Ending(g, q) = {} /\ Ending(m, q) = {} /\ Ending(e, q) = {} =>
           Verdict(s, policy, q) = Verdict(o, policy, q)
  BY <1>3, <1>4, <1>5, <1>6, <1>7, FiveChains
<1>10. Ending(t, q) = {}
  BY <1>3
<1> HIDE DEF s
<1> QED BY <1>2, <1>5, <1>7, <1>8, <1>9, <1>10 DEF g, m, e, o, policy

LEMMA PortalGateHolds == FilterSound => PortalGate
<1> SUFFICES ASSUME FilterSound, NEW p \in Packets, Waiting(p), NEW q \in Arrivals(p),
                    q.dst \notin Self \union Seen(Pub, Pub.portal.walled)
             PROVE  ~Accepted(q)
  BY DEF PortalGate
<1> DEFINE g == Gate(Pub, published.clients)
           policy == Pub.settings.forward
<1>1. p \in Packet
  BY PacketFilterAssumption
<1>2. Rebound(q, p)
  BY <1>1, ArrivalIs
<1>3. /\ q \in Packet /\ q.ct = "new" /\ q.iif \in GatedIfaces(Pub)
      /\ q.src \notin Pub.portal.bypass /\ q.src \notin Seen(Pub, published.clients)
  BY <1>2 DEF Rebound, Waiting
<1>4. q.dst \notin Self /\ q.dst \notin Seen(Pub, Pub.portal.walled)
  OBVIOUS
<1>5. Ending(g, q) # {} /\ Verdict(g, policy, q) = "drop"
  BY <1>3, <1>4, GateVerdict
<1>6. Ending(g, q) # {} => Decision(q) = Verdict(g, policy, q)
  BY <1>3, <1>4, ForwardDecision
<1> QED BY <1>5, <1>6 DEF Accepted

-----------------------------------------------------------------------------
(* The rules decide.                                                       *)

\* What a rule says of a packet, whatever its priority.
Concerns(r, q) ==
  /\ r.enabled /\ r.dir = "forward" /\ r.act # "log" /\ (r.window => published.open)
  /\ UsesSix(r) => Pub.six
  /\ r.iface \in {AnyIface, q.iif} /\ q.src \in r.src \cap OfFamily(r.fam) /\ q.dst \in r.dst
  /\ r.proto \in {"any", q.proto} /\ (r.port # 0 => r.port = q.port)

\* The rules of the forward chain that decide about a packet, by their index
\* in the whole list.
Deciding(q) ==
  {i \in InChain(Pub, published.open, "forward") : Applies(AllRules(Pub)[i], q)}

LEMMA StoredRuleDecides ==
  ASSUME FilterSound, NEW q \in Packet, q.ct = "new", ~q.over, NEW k \in 1..Len(Pub.rules)
  PROVE  /\ Len(SystemRules(Pub)) + k \in Deciding(q) <=> Concerns(Pub.rules[k], q)
         /\ Concerns(Pub.rules[k], q) => Emit(Pub.rules[k]).verdict = Pub.rules[k].act
<1> DEFINE r == Pub.rules[k]
           m == Len(SystemRules(Pub))
           a == AllRules(Pub)
<1>1. Pub \in Config /\ published.open \in BOOLEAN
  BY LoadedIs
<1>2. /\ IsChain(a) /\ Len(a) = m + Len(Pub.rules)
      /\ IsChain(SystemRules(Pub)) /\ IsChain(Pub.rules) /\ Pub.rules \in Seq(Rule)
      /\ \A i \in 1..Len(SystemRules(Pub)) :
           a[i] = SystemRules(Pub)[i] /\ a[i] \in SystemSet(Pub)
      /\ \A i \in 1..Len(Pub.rules) : a[m + i] = Pub.rules[i] /\ Pub.rules[i] \in Rule
      /\ \A i \in 1..Len(a) : a[i].pri \in Int
  BY <1>1, AllRulesAre
<1>3. m \in Nat /\ Len(Pub.rules) \in Nat /\ DOMAIN a = 1..Len(a) /\ DOMAIN Pub.rules = 1..Len(Pub.rules)
  BY <1>2, ChainIndices
<1>4. a[m + k] = r /\ r \in Rule /\ m + k \in DOMAIN a
  BY <1>2, <1>3
<1>5. ValidRule(r, Pub.six)
  BY <1>3 DEF FilterSound, Valid
<1>6. r.act # "jump" /\ (r.port # 0 => r.proto # "any")
  BY <1>5 DEF ValidRule
<1>7. /\ Matches(Emit(r), q) <=>
           /\ r.iface \in {AnyIface, q.iif}
           /\ q.src \in r.src \cap OfFamily(r.fam) /\ q.dst \in r.dst
           /\ r.proto \in {"any", q.proto}
           /\ (r.port # 0 /\ r.proto # "any") => r.port = q.port
      /\ Emit(r).verdict = CASE r.act = "log" -> "continue" [] r.act = "jump" -> "drop" [] OTHER -> r.act
  BY EmitMatches
<1>8. r.act \in {"accept", "drop", "reject", "log", "jump"}
  BY <1>4 DEF Rule
<1>9. Emit(r).verdict # "continue" <=> r.act # "log"
  BY <1>6, <1>7, <1>8
<1>10. m + k \in InChain(Pub, published.open, "forward") <=>
         /\ r.enabled /\ (r.window => published.open) /\ (UsesSix(r) => Pub.six)
         /\ r.dir = "forward"
  BY <1>4 DEF InChain, ActiveAt
<1> HIDE DEF r, m, a
<1>11. Applies(r, q) <=> /\ r.act # "log" /\ r.iface \in {AnyIface, q.iif}
                         /\ q.src \in r.src \cap OfFamily(r.fam) /\ q.dst \in r.dst
                         /\ r.proto \in {"any", q.proto} /\ (r.port # 0 => r.port = q.port)
  BY <1>6, <1>7, <1>9 DEF Applies
<1>12. m + k \in Deciding(q) <=> m + k \in InChain(Pub, published.open, "forward") /\ Applies(r, q)
  BY <1>4 DEF Deciding, a
<1>13. m + k \in Deciding(q) <=> Concerns(r, q)
  BY <1>10, <1>11, <1>12 DEF Concerns
<1>14. Concerns(r, q) => Emit(r).verdict = r.act
  BY <1>6, <1>7, <1>8 DEF Concerns
<1> QED BY <1>13, <1>14 DEF r, m

\* The default rule of the forward chain is there where the setting asks for
\* it, and then decides about whatever no other rule does.
LEMMA DefaultFields ==
  ASSUME NEW d
  PROVE  LET r == DefaultRule(d) IN
         /\ r.pri = 1000000 /\ r.act = "drop" /\ r.dir = d /\ r.iface = AnyIface /\ r.fam = "both"
         /\ r.src = Host /\ r.dst = Host /\ r.proto = "any" /\ r.port = 0 /\ r.enabled /\ ~r.window
BY DEF DefaultRule, SystemRule

LEMMA BlockFields ==
  ASSUME NEW d, NEW i, NEW f
  PROVE  LET r == BlockRule(d, i, f) IN
         r.fam = f /\ r.src = Blocked[i] \cap OfFamily(f) /\ r.iface = i
BY DEF BlockRule, SystemRule

LEMMA DefaultApplies ==
  ASSUME FilterSound, NEW q \in Packet, q.ct = "new", ~q.over, Pub.settings.forward = "drop"
  PROVE  \E i \in Deciding(q) : i \in 1..Len(SystemRules(Pub)) /\ AllRules(Pub)[i].pri = 1000000
<1> DEFINE r == DefaultRule("forward")
           a == AllRules(Pub)
<1>1. Pub \in Config
  BY LoadedIs
<1>2. /\ IsChain(a) /\ Len(a) = Len(SystemRules(Pub)) + Len(Pub.rules)
      /\ IsChain(SystemRules(Pub)) /\ IsChain(Pub.rules) /\ Pub.rules \in Seq(Rule)
      /\ \A i \in 1..Len(SystemRules(Pub)) :
           a[i] = SystemRules(Pub)[i] /\ a[i] \in SystemSet(Pub)
      /\ \A i \in 1..Len(Pub.rules) : a[Len(SystemRules(Pub)) + i] = Pub.rules[i] /\ Pub.rules[i] \in Rule
      /\ \A i \in 1..Len(a) : a[i].pri \in Int
  BY <1>1, AllRulesAre
<1>3. /\ Len(SystemRules(Pub)) \in Nat /\ Len(Pub.rules) \in Nat /\ DOMAIN a = 1..Len(a)
  BY <1>2, ChainIndices
<1>4. IsChain(SystemRules(Pub)) /\ Members(SystemRules(Pub)) = SystemSet(Pub)
  BY <1>1, SystemRulesListed
<1>5. r \in SystemSet(Pub)
  <2>1. r \in DefaultSet(Pub)
    BY DEF DefaultSet
  <2> QED BY <2>1 DEF SystemSet
<1>6. PICK i \in 1..Len(SystemRules(Pub)) : SystemRules(Pub)[i] = r
  BY <1>4, <1>5 DEF Members
<1>7. a[i] = r /\ i \in DOMAIN a
  BY <1>2, <1>3, <1>6
<1>8. /\ r.pri = 1000000 /\ r.act = "drop" /\ r.dir = "forward" /\ r.iface = AnyIface /\ r.fam = "both"
      /\ r.src = Host /\ r.dst = Host /\ r.proto = "any" /\ r.port = 0 /\ r.enabled /\ ~r.window
  BY DefaultFields
<1> HIDE DEF r, a
<1>9. ~UsesSix(r)
  BY <1>8, NetfilterAssumption DEF UsesSix, IsSix
<1>10. i \in InChain(Pub, published.open, "forward")
  BY <1>7, <1>8, <1>9 DEF InChain, ActiveAt, a
<1>11. /\ Matches(Emit(r), q) <=>
            /\ r.iface \in {AnyIface, q.iif}
            /\ q.src \in r.src \cap OfFamily(r.fam) /\ q.dst \in r.dst
            /\ r.proto \in {"any", q.proto}
            /\ (r.port # 0 /\ r.proto # "any") => r.port = q.port
       /\ Emit(r).verdict = CASE r.act = "log" -> "continue" [] r.act = "jump" -> "drop" [] OTHER -> r.act
  BY EmitMatches
<1>12. OfFamily("both") = Host
  BY DEF OfFamily
<1>13. Applies(r, q)
  BY <1>8, <1>11, <1>12 DEF Applies, Packet
<1>14. i \in Deciding(q)
  BY <1>7, <1>10, <1>13 DEF Deciding, a
<1> QED BY <1>6, <1>7, <1>8, <1>14 DEF a

\* Of the system's rules, only the default one decides about a forwarded
\* packet that comes from no blocked network.
LEMMA SystemRuleDecides ==
  ASSUME FilterSound, NEW q \in Packet, q.ct = "new", ~q.over, ~Unwanted(q),
         NEW i \in Deciding(q), i \in 1..Len(SystemRules(Pub))
  PROVE  /\ AllRules(Pub)[i].pri = 1000000 /\ Emit(AllRules(Pub)[i]).verdict = "drop"
         /\ Pub.settings.forward = "drop"
<1> DEFINE r == AllRules(Pub)[i]
<1>1. Pub \in Config
  BY LoadedIs
<1>2. r \in SystemSet(Pub)
  BY <1>1, AllRulesAre
<1>3. i \in InChain(Pub, published.open, "forward") /\ Applies(r, q)
  BY DEF Deciding
<1>4. r.dir = "forward"
  BY <1>3 DEF InChain
<1>5. /\ r.pri \in Int /\ r.act # "jump" /\ r.enabled /\ ~r.window
      /\ r.dir = "input" \/ r \in BlockSet(Pub) \/ r \in DefaultSet(Pub)
  BY <1>1, <1>2, SystemRulesAre
<1> HIDE DEF r
<1>6. /\ Matches(Emit(r), q) <=>
           /\ r.iface \in {AnyIface, q.iif}
           /\ q.src \in r.src \cap OfFamily(r.fam) /\ q.dst \in r.dst
           /\ r.proto \in {"any", q.proto}
           /\ (r.port # 0 /\ r.proto # "any") => r.port = q.port
      /\ Emit(r).verdict = CASE r.act = "log" -> "continue" [] r.act = "jump" -> "drop" [] OTHER -> r.act
  BY EmitMatches
<1>7. /\ r.iface \in {AnyIface, q.iif} /\ q.src \in r.src
  BY <1>3, <1>6 DEF Applies
<1>8. r \notin BlockSet(Pub)
  <2> SUFFICES ASSUME r \in BlockSet(Pub) PROVE FALSE
    OBVIOUS
  <2>1. PICK d \in {"input", "forward"}, w \in {x \in Wan : Pub.block},
             f \in {"v4"} \union (IF Pub.six THEN {"v6"} ELSE {}) : r = BlockRule(d, w, f)
    BY DEF BlockSet
  <2>2. r.iface = w /\ r.src = Blocked[w] \cap OfFamily(f)
    BY <2>1, BlockFields
  <2>3. q.iif = w
    BY <1>7, <2>1, <2>2, PacketFilterAssumption
  <2>4. Pub.six \/ OfFamily(f) = Four
    BY <2>1 DEF OfFamily
  <2> QED BY <1>7, <2>1, <2>2, <2>3, <2>4 DEF Unwanted, Seen
<1>9. PICK d \in {h \in {"input", "forward"} : Pub.settings[h] = "drop"} : r = DefaultRule(d)
  BY <1>4, <1>5, <1>8 DEF DefaultSet
<1>10. /\ r.pri = 1000000 /\ r.act = "drop" /\ r.dir = d /\ r.iface = AnyIface /\ r.fam = "both"
       /\ r.src = Host /\ r.dst = Host /\ r.proto = "any" /\ r.port = 0 /\ r.enabled /\ ~r.window
  BY <1>9, DefaultFields
<1>11. Pub.settings.forward = "drop"
  BY <1>4, <1>9, <1>10
<1>12. Emit(r).verdict = "drop"
  BY <1>6, <1>10
<1> QED BY <1>10, <1>11, <1>12 DEF r

\* The rule that decides is the first of those that speak about the packet.
LEMMA FirstSpeaker ==
  ASSUME FilterSound, NEW q \in Packet, q.ct = "new", ~q.over, ~Unwanted(q),
         NEW i \in Deciding(q),
         \A j \in Deciding(q) : i = j \/ Precedes(AllRules(Pub), i, j)
  PROVE  Emit(AllRules(Pub)[i]).verdict =
           IF Speaking(q) = {} THEN Pub.settings.forward
           ELSE Pub.rules[Foremost(Speaking(q))].act
<1> DEFINE a == AllRules(Pub)
           m == Len(SystemRules(Pub))
           l == Len(Pub.rules)
           D == Deciding(q)
           S == Speaking(q)
<1>1. Pub \in Config /\ Pub.settings.forward \in {"drop", "accept"}
  BY LoadedIs DEF Config, Setting
<1>2. /\ IsChain(a) /\ Len(a) = m + Len(Pub.rules)
      /\ IsChain(SystemRules(Pub)) /\ IsChain(Pub.rules) /\ Pub.rules \in Seq(Rule)
      /\ \A k \in 1..Len(SystemRules(Pub)) :
           a[k] = SystemRules(Pub)[k] /\ a[k] \in SystemSet(Pub)
      /\ \A k \in 1..Len(Pub.rules) : a[m + k] = Pub.rules[k] /\ Pub.rules[k] \in Rule
      /\ \A k \in 1..Len(a) : a[k].pri \in Int
  BY <1>1, AllRulesAre
<1>3. m \in Nat /\ l \in Nat /\ DOMAIN a = 1..Len(a) /\ DOMAIN Pub.rules = 1..l
  BY <1>2, ChainIndices
<1>4. D \subseteq 1..(m + l)
  BY <1>2, <1>3 DEF Deciding, InChain, ActiveAt
<1>5. \A k \in 1..l : /\ m + k \in D <=> Concerns(Pub.rules[k], q)
                      /\ Concerns(Pub.rules[k], q) => Emit(Pub.rules[k]).verdict = Pub.rules[k].act
  BY StoredRuleDecides
<1>6. \A k \in 1..l : k \in S <=> /\ Concerns(Pub.rules[k], q)
                                  /\ Pub.rules[k].pri < 1000000 \/ Pub.settings.forward = "accept"
  BY <1>3 DEF Speaking, Speaks, Concerns
<1>7. S \subseteq 1..l
  BY <1>3 DEF Speaking
<1>8. \A k \in 1..l : a[m + k] = Pub.rules[k] /\ Pub.rules[k].pri \in Int
  BY <1>2 DEF Rule
<1>9. \A k \in S : m + k \in D
  BY <1>5, <1>6, <1>7
<1> HIDE DEF a, m, l, D, S
<1>10. CASE i \in 1..m
  <2>1. a[i].pri = 1000000 /\ Emit(a[i]).verdict = "drop" /\ Pub.settings.forward = "drop"
    BY <1>10, SystemRuleDecides DEF a, m
  <2>2. S = {}
    <3> SUFFICES ASSUME NEW k \in S PROVE FALSE
      OBVIOUS
    <3>1. k \in 1..l /\ m + k \in D /\ Pub.rules[k].pri < 1000000
      BY <1>6, <1>7, <1>9, <2>1
    <3>2. i # m + k
      BY <1>3, <1>10, <3>1
    <3>3. Precedes(a, i, m + k)
      BY <3>1, <3>2 DEF D, a
    <3> QED BY <1>8, <2>1, <3>1, <3>3 DEF Precedes
  <2> QED BY <2>1, <2>2 DEF a, S
<1>11. CASE i \notin 1..m
  <2> DEFINE k == i - m
  <2>1. i \in D
    BY DEF D
  <2>2. k \in 1..l /\ i = m + k
    BY <1>3, <1>4, <1>11, <2>1
  <2> HIDE DEF k
  <2>3. Concerns(Pub.rules[k], q) /\ a[i] = Pub.rules[k] /\ Emit(a[i]).verdict = Pub.rules[k].act
    BY <1>5, <1>8, <2>1, <2>2
  <2>4. Pub.rules[k].pri < 1000000 \/ Pub.settings.forward = "accept"
    <3>1. CASE Pub.settings.forward = "drop"
      <4>1. PICK j \in Deciding(q) : j \in 1..Len(SystemRules(Pub)) /\ AllRules(Pub)[j].pri = 1000000
        BY <3>1, DefaultApplies
      <4>2. j \in D /\ j \in 1..m /\ a[j].pri = 1000000
        BY <4>1 DEF D, m, a
      <4>3. j < i
        BY <1>3, <1>11, <2>2, <4>2
      <4>4. Precedes(a, i, j)
        BY <1>3, <2>2, <4>2, <4>3 DEF D, a
      <4>5. a[i].pri < 1000000
        BY <1>3, <1>8, <2>2, <2>3, <4>2, <4>3, <4>4 DEF Precedes
      <4> QED BY <2>3, <4>5
    <3> QED BY <1>1, <3>1
  <2>5. k \in S
    BY <1>6, <2>2, <2>3, <2>4
  <2>6. ASSUME NEW j \in S
        PROVE  Pub.rules[k].pri < Pub.rules[j].pri \/ (Pub.rules[k].pri = Pub.rules[j].pri /\ k <= j)
    <3>1. j \in 1..l /\ m + j \in D
      BY <1>7, <1>9, <2>6
    <3>2. i = m + j \/ Precedes(a, i, m + j)
      BY <3>1 DEF D, a
    <3>3. CASE i = m + j
      <4>1. k = j
        BY <1>3, <2>2, <3>1, <3>3
      <4> QED BY <1>3, <3>1, <4>1
    <3>4. CASE Precedes(a, i, m + j)
      <4>1. \/ a[i].pri < a[m + j].pri
            \/ a[i].pri = a[m + j].pri /\ i < m + j
        BY <3>4 DEF Precedes
      <4> QED BY <1>3, <1>8, <2>2, <2>3, <3>1, <4>1
    <3> QED BY <3>2, <3>3, <3>4
  <2>7. Foremost(S) = k
    <3> DEFINE Least(x) == \A j \in S :
                 Pub.rules[x].pri < Pub.rules[j].pri \/ (Pub.rules[x].pri = Pub.rules[j].pri /\ x <= j)
    <3>1. k \in S /\ Least(k)
      BY <2>5, <2>6
    <3>2. ASSUME NEW x \in S, Least(x) PROVE x = k
      <4>1. x \in 1..l /\ k \in 1..l /\ Pub.rules[x].pri \in Int /\ Pub.rules[k].pri \in Int
        BY <1>7, <1>8, <2>2, <3>2
      <4>2. Pub.rules[x].pri < Pub.rules[k].pri \/ (Pub.rules[x].pri = Pub.rules[k].pri /\ x <= k)
        BY <2>5, <3>2
      <4>3. Pub.rules[k].pri < Pub.rules[x].pri \/ (Pub.rules[k].pri = Pub.rules[x].pri /\ k <= x)
        BY <2>6, <3>2
      <4> QED BY <1>3, <4>1, <4>2, <4>3
    <3>3. Foremost(S) = CHOOSE x \in S : Least(x)
      BY DEF Foremost
    <3> HIDE DEF Least
    <3> QED BY <3>1, <3>2, <3>3
  <2> QED BY <2>3, <2>5, <2>7 DEF a, S
<1> QED BY <1>10, <1>11

LEMMA RulesDecideHolds == FilterSound => RulesDecide
<1> SUFFICES ASSUME FilterSound, NEW p \in Packets, NEW q \in Arrivals(p),
                    q.ct = "new", ~q.over, q.dst \notin Self,
                    q.iif \notin GatedIfaces(Pub), ~Unwanted(q),
                    \A i \in DOMAIN Pub.nat.rules : ~Forwarded(Pub.nat.rules[i], q)
             PROVE  Decision(q) = IF Speaking(q) = {} THEN Pub.settings.forward
                                  ELSE Pub.rules[Foremost(Speaking(q))].act
  BY DEF RulesDecide
<1> DEFINE g == Gate(Pub, published.clients)
           m == Companions(Pub)
           e == EmitFor(Active(Pub, published.open), "forward")
           policy == Pub.settings.forward
           I == InChain(Pub, published.open, "forward")
           r == AllRules(Pub)
<1>1. q \in Packet
  BY ArrivalIs, PacketFilterAssumption DEF Rebound
<1>2. Pub \in Config /\ Pub.settings.forward \in {"drop", "accept"}
  BY LoadedIs DEF Config, Setting
<1>3. Ending(g, q) = {}
  BY <1>1, GateVerdict
<1>4. Ending(m, q) = {}
  <2>1. Ending(m, q) = {} <=> \A i \in Companioned(Pub) : ~Matches(Companion(Pub.nat.rules[i]), q)
    BY <1>1, <1>2, CompanionsVerdict
  <2>2. ASSUME NEW i \in Companioned(Pub) PROVE ~Matches(Companion(Pub.nat.rules[i]), q)
    <3> DEFINE n == Pub.nat.rules[i]
    <3>1. i \in DOMAIN Pub.nat.rules /\ n.enabled /\ n.auto /\ n.kind = "dnat"
      BY <2>2 DEF Companioned
    <3>2. q.dst \notin n.to
      BY <3>1 DEF Forwarded
    <3> HIDE DEF n
    <3>3. Matches(Companion(n), q) => q.dst \in n.to
      BY <1>1, CompanionMatches
    <3> QED BY <3>2, <3>3 DEF n
  <2> QED BY <2>1, <2>2
<1>5. /\ Ending(g, q) = {} /\ Ending(m, q) = {} /\ Ending(e, q) # {} =>
           Decision(q) = Verdict(e, policy, q)
      /\ Ending(g, q) = {} /\ Ending(m, q) = {} /\ Ending(e, q) = {} =>
           Decision(q) \in {"accept", policy}
  BY <1>1, ForwardDecision
<1>6. DecidedBy(e, policy, q, r, I)
  BY <1>2, EmitVerdict
<1>7. \A i \in I : Applies(r[i], q) <=> i \in Deciding(q)
  BY DEF Deciding
<1>8. Deciding(q) \subseteq I
  BY DEF Deciding
<1> HIDE DEF g, m, e, I
<1>9. CASE Ending(e, q) # {}
  <2>1. PICK i \in I : /\ Applies(r[i], q) /\ Verdict(e, policy, q) = Emit(r[i]).verdict
                       /\ \A j \in I : Applies(r[j], q) => i = j \/ Precedes(r, i, j)
    BY <1>6, <1>9 DEF DecidedBy
  <2>2. i \in Deciding(q) /\ \A j \in Deciding(q) : i = j \/ Precedes(AllRules(Pub), i, j)
    BY <1>7, <1>8, <2>1
  <2>3. Emit(AllRules(Pub)[i]).verdict =
           IF Speaking(q) = {} THEN Pub.settings.forward
           ELSE Pub.rules[Foremost(Speaking(q))].act
    BY <1>1, <2>2, FirstSpeaker
  <2> QED BY <1>3, <1>4, <1>5, <1>9, <2>1, <2>3
<1>10. CASE Ending(e, q) = {}
  <2>1. Deciding(q) = {}
    BY <1>6, <1>7, <1>8, <1>10 DEF DecidedBy
  <2>2. Pub.settings.forward = "accept"
    <3>1. Pub.settings.forward # "drop"
      BY <1>1, <2>1, DefaultApplies
    <3> QED BY <1>2, <3>1
  <2>3. Speaking(q) = {}
    <3> SUFFICES ASSUME NEW k \in Speaking(q) PROVE FALSE
      OBVIOUS
    <3>1. k \in DOMAIN Pub.rules /\ Concerns(Pub.rules[k], q)
      BY DEF Speaking, Speaks, Concerns
    <3>2. DOMAIN Pub.rules = 1..Len(Pub.rules)
      BY <1>2, AllRulesAre, ChainIndices
    <3>3. k \in 1..Len(Pub.rules)
      BY <3>1, <3>2
    <3>4. Len(SystemRules(Pub)) + k \in Deciding(q)
      BY <1>1, <3>1, <3>3, StoredRuleDecides
    <3> QED BY <2>1, <3>4
  <2> QED BY <1>3, <1>4, <1>5, <1>10, <2>2, <2>3
<1> QED BY <1>9, <1>10

-----------------------------------------------------------------------------
(* The administrator.                                                      *)

LEMMA SynFloodVerdict ==
  ASSUME NEW c, NEW q, q.over = FALSE
  PROVE  IsChain(SynFlood(c)) /\ Ending(SynFlood(c), q) = {}
<1> DEFINE on == [Anything EXCEPT !.proto = {"tcp"}, !.ct = {"new"}, !.over = {TRUE}]
           x == Statement(on, "drop")
<1>1. SynFlood(c) = IF c.settings.syn THEN <<x>> ELSE <<>>
  BY DEF SynFlood
<1>2. x.verdict = "drop" /\ x.on = on /\ on.over = {TRUE}
  BY DEF Statement, Anything
<1> HIDE DEF on, x
<1>3. ~Matches(x, q)
  BY <1>2, MatchesFields
<1>4. IsChain(<<x>>) /\ (Ending(<<x>>, q) = {} <=> ~Matches(x, q))
  BY <1>2, OneStatement
<1>5. IsChain(<<>>) /\ Ending(<<>>, q) = {}
  BY NoStatement
<1> QED BY <1>1, <1>3, <1>4, <1>5

\* The anti-lockout statements accept what the settings promise.
LEMMA LockoutVerdict ==
  ASSUME NEW c \in Config, NEW policy, NEW q \in Packet
  PROVE  /\ IsChain(Lockout(c))
         /\ /\ c.settings.lockout /\ q.iif \in Of(c.settings.iface)
            /\ q.proto = "tcp" /\ q.port \in ManagementPorts(c)
            /\ c.settings.sources = {} \/ q.src \in Seen(c, c.settings.sources)
            => Ending(Lockout(c), q) # {} /\ Verdict(Lockout(c), policy, q) = "accept"
<1> DEFINE sources == c.settings.sources
           on == [Anything EXCEPT !.iif = Of(c.settings.iface), !.proto = {"tcp"},
                                  !.port = ManagementPorts(c)]
           x == Statement(on, "accept")
           y == Statement([on EXCEPT !.src = sources \cap Four], "accept")
           z == Statement([on EXCEPT !.src = Seen(c, sources \cap SixHost)], "accept")
           s == Lockout(c)
           Asked == /\ q.iif \in Of(c.settings.iface)
                    /\ q.proto = "tcp" /\ q.port \in ManagementPorts(c)
<1>1. s = IF ~c.settings.lockout THEN <<>> ELSE IF sources = {} THEN <<x>> ELSE <<y, z>>
  BY DEF Lockout
<1>2. /\ x.verdict = "accept" /\ x.on = on
      /\ y.verdict = "accept" /\ y.on = [on EXCEPT !.src = sources \cap Four]
      /\ z.verdict = "accept" /\ z.on = [on EXCEPT !.src = Seen(c, sources \cap SixHost)]
  BY DEF Statement
<1>3. /\ on.iif = Of(c.settings.iface) /\ on.proto = {"tcp"} /\ on.port = ManagementPorts(c)
      /\ q.oif \in on.oif /\ q.src \in on.src /\ q.dst \in on.dst /\ q.ct \in on.ct /\ q.over \in on.over
  BY DEF Anything, Packet
<1>4. /\ y.on.iif = on.iif /\ y.on.oif = on.oif /\ y.on.src = sources \cap Four /\ y.on.dst = on.dst
      /\ y.on.proto = on.proto /\ y.on.port = on.port /\ y.on.ct = on.ct /\ y.on.over = on.over
  <2> HIDE DEF x, y, z
  <2> QED BY <1>2 DEF Anything
<1>5. /\ z.on.iif = on.iif /\ z.on.oif = on.oif /\ z.on.src = Seen(c, sources \cap SixHost)
      /\ z.on.dst = on.dst
      /\ z.on.proto = on.proto /\ z.on.port = on.port /\ z.on.ct = on.ct /\ z.on.over = on.over
  <2> HIDE DEF x, y, z
  <2> QED BY <1>2 DEF Anything
<1> HIDE DEF x, y, z, on
<1>6. Matches(x, q) <=> Asked
  BY <1>2, <1>3, MatchesFields
<1>7. Matches(y, q) <=> Asked /\ q.src \in sources \cap Four
  BY <1>3, <1>4, MatchesFields
<1>8. Matches(z, q) <=> Asked /\ q.src \in Seen(c, sources \cap SixHost)
  BY <1>3, <1>5, MatchesFields
<1>9. q.src \in Seen(c, sources) =>
        q.src \in sources \cap Four \/ q.src \in Seen(c, sources \cap SixHost)
  BY DEF Seen, Four, Packet
<1>10. /\ IsChain(<<>>) /\ Len(<<>>) = 0
       /\ IsChain(<<x>>) /\ Len(<<x>>) = 1
       /\ IsChain(<<y, z>>) /\ Len(<<y, z>>) = 2
  BY ShortChains
<1> HIDE DEF Asked
<1>11. IsChain(s)
  BY <1>1, <1>10
<1>12. \A i \in 1..Len(s) : s[i].verdict = "accept"
  BY <1>1, <1>2, <1>10
<1>13. /\ Ending(s, q) = {} <=> \A i \in 1..Len(s) : ~Matches(s[i], q)
       /\ Ending(s, q) # {} => Verdict(s, policy, q) = "accept"
  BY <1>11, <1>12, OneVerdict
<1>14. c.settings.lockout /\ Asked /\ (sources = {} \/ q.src \in Seen(c, sources))
         => \E i \in 1..Len(s) : Matches(s[i], q)
  BY <1>1, <1>6, <1>7, <1>8, <1>9, <1>10
<1> HIDE DEF s
<1> QED BY <1>11, <1>13, <1>14 DEF s, Asked

LEMMA IcmpIsChain == ASSUME NEW c PROVE IsChain(Icmp(c))
<1> DEFINE x == Statement([Anything EXCEPT !.proto = {"icmp"}, !.over = {FALSE}], "accept")
           y == Statement([Anything EXCEPT !.proto = {"icmp6"}], "accept")
           b == IF c.six THEN <<y>> ELSE <<>>
<1>1. Icmp(c) = <<x>> \o b
  BY DEF Icmp
<1> HIDE DEF x, y
<1>2. IsChain(<<>>) /\ IsChain(<<x>>) /\ IsChain(<<y>>)
  BY ShortChains
<1>3. IsChain(<<x>>) /\ IsChain(b)
  BY <1>2
<1> HIDE DEF b
<1> QED BY <1>1, <1>3, ChainJoin

LEMMA PortalServicesIsChain == ASSUME NEW c PROVE IsChain(PortalServices(c))
<1> DEFINE x == Statement([FromGated(c) EXCEPT !.proto = {"tcp"}, !.port = {c.portal.port}], "accept")
           y == Statement([FromGated(c) EXCEPT !.proto = {"udp"}, !.port = {53, 67, 68}], "accept")
           z == Statement([FromGated(c) EXCEPT !.proto = {"tcp"}, !.port = {53}], "accept")
<1>1. PortalServices(c) = IF GatedIfaces(c) = {} THEN <<>> ELSE <<x, y, z>>
  BY DEF PortalServices
<1> HIDE DEF x, y, z
<1> QED BY <1>1, ShortChains

LEMMA AdminReachableHolds == FilterSound => AdminReachable
<1> SUFFICES ASSUME FilterSound, config.settings.lockout, NEW p \in Packets,
                    p.dst \in Self, p.proto = "tcp", p.ct # "invalid", ~p.over,
                    p.port \in config.settings.ports \union Answering,
                    p.iif \in Of(config.settings.iface),
                    config.settings.sources = {} \/ p.src \in Seen(Pub, config.settings.sources),
                    Kept(p), NEW q \in Arrivals(p)
             PROVE  Accepted(q)
  BY DEF AdminReachable
<1> DEFINE t == Tracked(Pub)
           f == SynFlood(Pub)
           l == Lockout(Pub)
           i == Icmp(Pub)
           s == PortalServices(Pub)
           e == EmitFor(Active(Pub, published.open), "input")
           tf == t \o f
           whole == (((tf \o l) \o i) \o s) \o e
           policy == Pub.settings.input
<1>1. /\ Pub \in Config /\ loaded.input = InputChain(Pub, published.open)
      /\ loaded.policy.input = policy
  BY LoadedIs
<1>2. p \in Packet
  BY PacketFilterAssumption
<1>3. Rebound(q, p) /\ q.dst = p.dst /\ q.port = p.port
  BY <1>2, ArrivalIs DEF Kept
<1>4. /\ q \in Packet /\ q.dst \in Self /\ q.iif = p.iif /\ q.src = p.src /\ q.proto = "tcp"
      /\ q.ct \in {"new", "established"} /\ q.over = FALSE
  BY <1>2, <1>3 DEF Rebound, Packet, Tracking
<1>5. Decision(q) = Verdict(whole, policy, q)
  BY <1>1, <1>4 DEF Decision, InputChain
<1>6. /\ IsChain(t)
      /\ q.ct = "new" => Ending(t, q) = {}
      /\ q.ct = "established" => Ending(t, q) # {} /\ Verdict(t, policy, q) = "accept"
  BY <1>4, TrackedVerdict
<1>7. IsChain(f) /\ Ending(f, q) = {}
  BY <1>4, SynFloodVerdict
<1>8. config.settings = Pub.settings
  BY DEF FilterSound
<1>9. q.port \in ManagementPorts(Pub)
  BY <1>3, <1>8 DEF ManagementPorts, Answering
<1>10. IsChain(l) /\ Ending(l, q) # {} /\ Verdict(l, policy, q) = "accept"
  <2>1. /\ Pub.settings.lockout /\ q.iif \in Of(Pub.settings.iface)
        /\ q.proto = "tcp" /\ q.port \in ManagementPorts(Pub)
        /\ Pub.settings.sources = {} \/ q.src \in Seen(Pub, Pub.settings.sources)
    BY <1>4, <1>8, <1>9
  <2> QED BY <1>1, <1>4, <2>1, LockoutVerdict
<1>11. IsChain(i) /\ IsChain(s) /\ IsChain(e)
  BY <1>1, IcmpIsChain, PortalServicesIsChain, EmitOrder
<1> HIDE DEF t, f, l, i, s, e, policy
<1>12. IsChain(tf)
  BY <1>6, <1>7, ChainJoin
<1>13. /\ Ending(tf, q) = {} <=> Ending(t, q) = {} /\ Ending(f, q) = {}
       /\ Ending(t, q) # {} => Verdict(tf, policy, q) = Verdict(t, policy, q)
       /\ Ending(t, q) = {} => Verdict(tf, policy, q) = Verdict(f, policy, q)
  BY <1>6, <1>7, VerdictJoin
<1> HIDE DEF tf
<1>14. /\ Ending(tf, q) # {} => Verdict(whole, policy, q) = Verdict(tf, policy, q)
       /\ Ending(tf, q) = {} /\ Ending(l, q) # {} =>
            Verdict(whole, policy, q) = Verdict(l, policy, q)
       /\ Ending(tf, q) = {} /\ Ending(l, q) = {} /\ Ending(i, q) # {} =>
            Verdict(whole, policy, q) = Verdict(i, policy, q)
       /\ Ending(tf, q) = {} /\ Ending(l, q) = {} /\ Ending(i, q) = {} /\ Ending(s, q) # {} =>
            Verdict(whole, policy, q) = Verdict(s, policy, q)
       /\ Ending(tf, q) = {} /\ Ending(l, q) = {} /\ Ending(i, q) = {} /\ Ending(s, q) = {} =>
            Verdict(whole, policy, q) = Verdict(e, policy, q)
  BY <1>10, <1>11, <1>12, FiveChains
<1> HIDE DEF whole
<1> QED BY <1>4, <1>5, <1>6, <1>7, <1>10, <1>13, <1>14 DEF Accepted

-----------------------------------------------------------------------------
(* NAT.                                                                    *)

LEMMA EnabledDomain ==
  ASSUME NEW c \in Config, NEW kinds
  PROVE  \E n \in Nat : DOMAIN Enabled(c, kinds) = 1..n
<1> DEFINE u == c.nat.rules
           I == {i \in DOMAIN u : u[i].enabled /\ u[i].kind \in kinds /\ (u[i].fam = "v6" => c.six)}
<1>1. u \in Seq(NatRule)
  BY DEF Config, NatConfig
<1>2. Len(u) \in Nat /\ DOMAIN u = 1..Len(u) /\ \A i \in 1..Len(u) : u[i].pri \in Int
  <2>1. Len(u) \in Nat /\ DOMAIN u = 1..Len(u) /\ \A i \in 1..Len(u) : u[i] \in NatRule
    BY <1>1, LenProperties, ElementOfSeq
  <2> QED BY <2>1 DEF NatRule
<1>3. I \subseteq 1..Len(u)
  BY <1>2
<1>4. Enabled(c, kinds) = ByPriority(u, I)
  BY DEF Enabled
<1> HIDE DEF u, I
<1>5. \A i \in I : u[i].pri \in Int
  BY <1>2, <1>3
<1>6. PICK n, f : /\ Reorders(ByPriority(u, I), u, I, n, f)
                  /\ \A j, k \in 1..n : j < k =>
                       \/ u[f[j]].pri < u[f[k]].pri
                       \/ u[f[j]].pri = u[f[k]].pri /\ f[j] < f[k]
  BY <1>2, <1>3, <1>5, ByPriorityOrder, Zenon
<1>7. n \in Nat /\ DOMAIN Enabled(c, kinds) = 1..n
  BY <1>4, <1>6 DEF Reorders
<1> QED BY <1>7

\* What leaves the interfaces of outbound NAT leaves with their address.
LEMMA OutboundHides ==
  ASSUME NEW c \in Config, NEW q \in Packet, q.oif \in EffectiveWans(c), q.src \in Seen(c, Host)
  PROVE  Ending(Outbound(c), q) # {}
<1> DEFINE on == [Anything EXCEPT !.oif = EffectiveWans(c), !.src = Seen(c, Host)]
           x == Statement(on, "masquerade")
           rules == IF c.nat.mode = "automatic" THEN <<>>
                    ELSE Enabled(c, {"masquerade", "snat", "one_to_one"})
           b == [k \in DOMAIN rules |-> Statement([Selected(rules[k]) EXCEPT !.oif = Of(rules[k].iface)],
                                                  rules[k].kind)]
<1>1. Outbound(c) = <<x>> \o b
  BY DEF Outbound
<1>2. PICK n \in Nat : DOMAIN rules = 1..n
  <2>1. DOMAIN <<>> = 1..0
    OBVIOUS
  <2>2. \E n \in Nat : DOMAIN Enabled(c, {"masquerade", "snat", "one_to_one"}) = 1..n
    BY EnabledDomain
  <2> QED BY <2>1, <2>2
<1> HIDE DEF rules
<1>3. IsChain(b)
  <2>1. b = [k \in 1..n |-> b[k]]
    BY <1>2
  <2> HIDE DEF b
  <2> QED BY <2>1, ListIsChain
<1> HIDE DEF b
<1>4. x.on = on /\ x.verdict = "masquerade"
  BY DEF Statement
<1>5. /\ q.iif \in on.iif /\ on.oif = EffectiveWans(c) /\ on.src = Seen(c, Host) /\ q.dst \in on.dst
      /\ q.proto \in on.proto /\ q.port \in on.port /\ q.ct \in on.ct /\ q.over \in on.over
  BY DEF Anything, Packet
<1> HIDE DEF on, x
<1>6. Matches(x, q)
  BY <1>4, <1>5, MatchesFields
<1>7. IsChain(<<x>>) /\ (Ending(<<x>>, q) = {} <=> ~Matches(x, q))
  BY <1>4, OneStatement
<1>8. IsChain(<<x>>) /\ IsChain(b)
  BY <1>3, <1>7
<1>9. Ending(<<x>> \o b, q) = {} <=> Ending(<<x>>, q) = {} /\ Ending(b, q) = {}
  BY <1>8, VerdictJoin
<1> QED BY <1>1, <1>6, <1>7, <1>9

LEMMA HiddenHolds == FilterSound => Hidden
<1> SUFFICES ASSUME FilterSound, Pub.nat.mode # "manual", NEW p \in Packets, NEW q \in Arrivals(p),
                    q.oif \in (IF Pub.nat.wans = {} THEN Wan ELSE Pub.nat.wans),
                    q.src \in Seen(Pub, Host)
             PROVE  Ending(loaded.post, q) # {}
  BY DEF Hidden
<1>1. q \in Packet
  BY ArrivalIs, PacketFilterAssumption DEF Rebound
<1>2. Pub \in Config /\ loaded.post = Outbound(Pub)
  BY LoadedIs
<1>3. q.oif \in EffectiveWans(Pub)
  BY DEF FilterSound, EffectiveWans
<1> QED BY <1>1, <1>2, <1>3, OutboundHides

\* The port forward that takes a packet is the first of those that could.
LEMMA FirstForward ==
  ASSUME FilterSound, NEW p \in Packet, Takes(p) # {}
  PROVE  LET i == Earliest(Takes(p))
             n == Pub.nat.rules[i]
         IN /\ i \in DnatAt(Pub) /\ n \in NatRule /\ Matches(Forward(n), p)
            /\ Through(Dnat(Pub), p) = Rewritten(Forward(n), p)
<1> DEFINE u == Pub.nat.rules
           s == Dnat(Pub)
           I == DnatAt(Pub)
           T == Takes(p)
           E == Ending(s, p)
<1>1. Pub \in Config
  BY LoadedIs
<1>2. /\ Len(u) \in Nat /\ DOMAIN u = 1..Len(u) /\ \A i \in 1..Len(u) : u[i] \in NatRule
  <2>1. u \in Seq(NatRule)
    BY <1>1 DEF Config, NatConfig
  <2> QED BY <2>1, LenProperties, ElementOfSeq
<1>3. \A i \in I : i \in Nat /\ u[i] \in NatRule /\ u[i].pri \in Int
  BY <1>2 DEF DnatAt, NatRule
<1>4. PICK n, f : Forwards(s, Pub, n, f)
  BY <1>1, DnatOrder, Zenon
<1>5. /\ n \in Nat /\ f \in [1..n -> I]
      /\ \A i \in I : \E k \in 1..n : f[k] = i
      /\ DOMAIN s = 1..n /\ \A k \in 1..n : s[k] = Forward(u[f[k]])
      /\ \A j, k \in 1..n : j < k => Precedes(u, f[j], f[k])
  BY <1>4 DEF Forwards
<1>6. \A i : /\ Forward(u[i]).verdict = "dnat" /\ Forward(u[i]).hosts = u[i].to /\ Forward(u[i]).ports = Target(u[i])
             /\ Matches(Forward(u[i]), p) <=>
                  /\ u[i].iface \in {AnyIface, p.iif} /\ p.src \in u[i].src \cap OfFamily(u[i].fam)
                  /\ p.dst \in u[i].dst /\ p.proto \in Transport(u[i]) /\ p.port \in PortOf(u[i].port)
  BY ForwardMatches
<1>7. T = {i \in I : Matches(Forward(u[i]), p)}
  BY <1>6 DEF Takes, DnatAt
<1> HIDE DEF u, s, I, T
<1>8. E = {k \in 1..n : f[k] \in T}
  <2>1. \A k \in 1..n : f[k] \in I /\ s[k] = Forward(u[f[k]]) /\ s[k].verdict = "dnat"
    BY <1>5, <1>6
  <2>2. E = {k \in 1..n : s[k].verdict # "continue" /\ Matches(s[k], p)}
    BY <1>5 DEF Ending
  <2> HIDE DEF E
  <2>3. \A k \in 1..n : (s[k].verdict # "continue" /\ Matches(s[k], p)) <=> f[k] \in T
    BY <1>7, <2>1
  <2> QED BY <2>2, <2>3
<1>9. E # {} /\ E \subseteq Nat
  <2> HIDE DEF E
  <2>1. PICK i \in T : TRUE
    BY DEF T
  <2>2. PICK k \in 1..n : f[k] = i
    BY <1>5, <1>7, <2>1
  <2> QED BY <1>8, <2>1, <2>2
<1> DEFINE k0 == FirstOf(E)
           i0 == f[k0]
<1>10. k0 \in E /\ \A j \in E : k0 <= j
  <2> HIDE DEF E
  <2> QED BY <1>9, FirstLeast
<1>11. Translates(s, p) => Through(s, p) = Rewritten(s[k0], p)
  BY DEF Through
<1>12. Translates(s, p) <=> E # {} /\ s[k0].verdict = "dnat"
  BY DEF Translates
<1> HIDE DEF E, k0
<1>13. k0 \in 1..n /\ i0 \in T /\ i0 \in I /\ s[k0] = Forward(u[i0]) /\ Matches(Forward(u[i0]), p)
  BY <1>5, <1>7, <1>8, <1>10
<1>14. Through(s, p) = Rewritten(Forward(u[i0]), p)
  BY <1>6, <1>9, <1>11, <1>12, <1>13
<1>15. ASSUME NEW j \in T
       PROVE  u[i0].pri < u[j].pri \/ (u[i0].pri = u[j].pri /\ i0 <= j)
  <2>1. PICK k \in 1..n : f[k] = j
    BY <1>5, <1>7, <1>15
  <2>2. k0 = k \/ k0 < k
    BY <1>8, <1>10, <1>13, <1>15, <2>1
  <2>3. i0 = j \/ Precedes(u, i0, j)
    BY <1>5, <1>13, <2>1, <2>2
  <2> HIDE DEF i0
  <2> QED BY <1>3, <1>7, <1>13, <1>15, <2>3 DEF Precedes
<1> HIDE DEF i0
<1>16. Earliest(T) = i0
  <2> DEFINE Least(x) == \A j \in T : u[x].pri < u[j].pri \/ (u[x].pri = u[j].pri /\ x <= j)
  <2>1. i0 \in T /\ Least(i0)
    BY <1>13, <1>15
  <2>2. ASSUME NEW x \in T, Least(x) PROVE x = i0
    <3>1. x \in Nat /\ i0 \in Nat /\ u[x].pri \in Int /\ u[i0].pri \in Int
      BY <1>3, <1>7, <1>13, <2>2
    <3>2. u[x].pri < u[i0].pri \/ (u[x].pri = u[i0].pri /\ x <= i0)
      BY <1>13, <2>2
    <3>3. u[i0].pri < u[x].pri \/ (u[i0].pri = u[x].pri /\ i0 <= x)
      BY <1>15, <2>2
    <3> QED BY <3>1, <3>2, <3>3
  <2>3. Earliest(T) = CHOOSE x \in T : Least(x)
    BY DEF Earliest, u
  <2> HIDE DEF Least
  <2> QED BY <2>1, <2>2, <2>3
<1> QED BY <1>3, <1>13, <1>14, <1>16 DEF u, s, I, T

LEMMA ReachedHolds == FilterSound => Reached
<1> SUFFICES ASSUME FilterSound, NEW p \in Packets, p.ct = "new", p.iif \notin GatedIfaces(Pub),
                    Takes(p) # {},
                    Pub.nat.rules[Earliest(Takes(p))].auto,
                    Pub.nat.rules[Earliest(Takes(p))].toEnd = 0,
                    NEW q \in Arrivals(p)
             PROVE  LET n == Pub.nat.rules[Earliest(Takes(p))] IN
                    /\ q.dst \in n.to
                    /\ q.port \in (Target(n) \union IF n.toPort = 0 THEN {p.port} ELSE {})
                    /\ q.dst \in Self \/ Accepted(q)
  BY DEF Reached
<1> DEFINE i == Earliest(Takes(p))
           n == Pub.nat.rules[i]
           r == Redirect(Pub, published.clients)
           d == Dnat(Pub)
           m == Companions(Pub)
<1>1. p \in Packet
  BY PacketFilterAssumption
<1>2. Pub \in Config /\ loaded.redirect = r /\ loaded.dnat = d
  BY LoadedIs
<1>3. /\ i \in DnatAt(Pub) /\ n \in NatRule /\ Matches(Forward(n), p)
      /\ Through(d, p) = Rewritten(Forward(n), p)
  BY <1>1, FirstForward
<1>4. ~Translates(r, p)
  <2>1. Ending(r, p) = {}
    BY <1>1, <1>2, RedirectIs
  <2> QED BY <2>1 DEF Translates
<1>5. Rebound(q, p) /\ \E b \in Bound(p) : q = Routed(b) /\ q.dst = b.dst /\ q.port = b.port
  BY <1>1, ArrivalIs
<1>6. PICK b \in Rewritten(Forward(n), p) : q.dst = b.dst /\ q.port = b.port
  <2> HIDE DEF n, r, d, i
  <2>1. Bound(p) = Rewritten(Forward(n), p)
    BY <1>2, <1>3, <1>4 DEF Bound
  <2> QED BY <1>5, <2>1
<1>7. /\ Forward(n).verdict = "dnat" /\ Forward(n).hosts = n.to /\ Forward(n).ports = Target(n)
      /\ Matches(Forward(n), p) <=>
           /\ n.iface \in {AnyIface, p.iif} /\ p.src \in n.src \cap OfFamily(n.fam)
           /\ p.dst \in n.dst /\ p.proto \in Transport(n) /\ p.port \in PortOf(n.port)
  BY <1>1, ForwardMatches
<1>8. n.toEnd = 0 /\ n.auto
  OBVIOUS
<1>9. i \in Companioned(Pub)
  BY <1>3 DEF DnatAt, Companioned
<1> HIDE DEF n
<1>10. q.dst \in n.to /\ q.port \in IF Target(n) = {} THEN {p.port} ELSE Target(n)
  <2> DEFINE H == Forward(n).hosts \cap OfFamily(Family(p.src))
             K == IF Forward(n).ports = {} THEN {p.port} ELSE Forward(n).ports
  <2>1. PICK h \in H, k \in K : b = Toward(p, h, k)
    BY DEF Rewritten
  <2>2. b.dst = h /\ b.port = k
    BY <1>1, <2>1 DEF Toward, Packet
  <2> QED BY <1>6, <1>7, <2>1, <2>2
<1>11. Target(n) = IF n.toPort = 0 THEN {} ELSE {n.toPort}
  <2>1. Target(n) = IF n.toPort = 0 THEN {} ELSE {k \in Port : n.toPort <= k /\ k <= n.toPort}
    BY <1>8 DEF Target
  <2>2. n.toPort \in Port /\ Port \subseteq Nat
    BY <1>3, NetfilterAssumption DEF NatRule
  <2>3. {k \in Port : n.toPort <= k /\ k <= n.toPort} = {n.toPort}
    <3>1. ASSUME NEW k \in Port PROVE (n.toPort <= k /\ k <= n.toPort) <=> (k = n.toPort)
      <4>1. k \in Nat /\ n.toPort \in Nat
        BY <2>2
      <4> QED BY <4>1
    <3> QED BY <2>2, <3>1
  <2> QED BY <2>1, <2>3
<1>12. q.port = IF n.toPort = 0 THEN p.port ELSE n.toPort
  BY <1>10, <1>11
<1>13. q.dst \notin Self => Accepted(q)
  <2> SUFFICES ASSUME q.dst \notin Self PROVE Accepted(q)
    OBVIOUS
  <2>1. q \in Packet /\ q.ct = "new" /\ q.iif = p.iif /\ q.src = p.src /\ q.proto = p.proto
    BY <1>5 DEF Rebound
  <2>2. Ending(Gate(Pub, published.clients), q) = {}
    BY <2>1, GateVerdict
  <2>3. q.port \in PortOf(IF n.toPort = 0 THEN n.port ELSE n.toPort)
    BY <1>3, <1>7, <1>12 DEF PortOf
  <2>4. /\ Companion(n).verdict = "accept"
        /\ Matches(Companion(n), q) <=>
             /\ n.iface \in {AnyIface, q.iif}
             /\ q.src \in OfFamily(n.fam) /\ q.dst \in n.to /\ q.proto \in Transport(n)
             /\ q.port \in PortOf(IF n.toPort = 0 THEN n.port ELSE n.toPort)
    BY <2>1, CompanionMatches
  <2>5. Matches(Companion(n), q)
    BY <1>3, <1>7, <1>10, <2>1, <2>3, <2>4
  <2>6. Ending(m, q) = {} <=> \A j \in Companioned(Pub) : ~Matches(Companion(Pub.nat.rules[j]), q)
    BY <1>2, <2>1, CompanionsVerdict
  <2>7. Ending(m, q) # {}
    BY <1>9, <2>5, <2>6 DEF n
  <2>8. Ending(Gate(Pub, published.clients), q) = {} /\ Ending(m, q) # {} => Decision(q) = "accept"
    BY <2>1, ForwardDecision
  <2> QED BY <2>2, <2>7, <2>8 DEF Accepted
<1>14. q.port \in (Target(n) \union IF n.toPort = 0 THEN {p.port} ELSE {})
  BY <1>11, <1>12
<1> QED BY <1>10, <1>13, <1>14 DEF n

-----------------------------------------------------------------------------

\* Whatever has been asked for, and in whatever order, the management ports
\* answer the sources the stored settings allow, as long as the anti-lockout
\* is on: no rule, gate or block comes before it (mod.rs:696-746).  A packet
\* that a port forward or the portal's redirect takes away is not for it, and a
\* port of the system settings is one once it is published and listened on.
THEOREM AdministratorGetsIn == FilterSpec => []AdminReachable
<1>1. FilterSound => AdminReachable
  BY AdminReachableHolds
<1> QED BY <1>1, FilterInvariant, PTL

\* About a new forwarded packet the kernel does what the stored list says: the
\* enabled rule with the least priority that speaks about it, the older of
\* two, and the policy where none does (mod.rs:629-640, 812-835).
THEOREM StoredRulesDecide == FilterSpec => []RulesDecide
<1>1. FilterSound => RulesDecide
  BY RulesDecideHolds
<1> QED BY <1>1, FilterInvariant, PTL

\* Nobody behind the portal opens a connection through the firewall before
\* logging in, but to the walled garden (mod.rs:788-795, 1316-1356).
THEOREM PortalKeepsOut == FilterSpec => []PortalGate
<1>1. FilterSound => PortalGate
  BY PortalGateHolds
<1> QED BY <1>1, FilterInvariant, PTL

\* A port forward that brings its accept rule delivers what it takes, and
\* outbound NAT hides what leaves its interfaces (mod.rs:796-811, 1779-1812,
\* 2069-2080).
THEOREM NatDoesWhatIsStored == FilterSpec => []NatDecides
<1>1. FilterSound => NatDecides
  BY ReachedHolds, HiddenHolds DEF NatDecides
<1> QED BY <1>1, FilterInvariant, PTL
=============================================================================
