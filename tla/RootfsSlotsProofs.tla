-------------------------- MODULE RootfsSlotsProofs --------------------------
(* Theorems about RootfsSlots, for every choice of images, processes, *)
(* attempt limit and enabled events.                                  *)
EXTENDS RootfsSlots, TLAPS

USE DEF Slot, Other

LEMMA OtherSlot == \A s \in Slot : Other(s) \in Slot /\ Other(s) # s
OBVIOUS

\* slots.json, present or defaulted, is a well-formed state.
LEMMA LoadedType ==
  ASSUME TypeOK
  PROVE  Loaded \in SlotsState
<1>1. BuildVersion(running) \in Version
  BY ImagesAssumption DEF BuildVersion, Version
<1>2. QED
  BY <1>1 DEF Loaded, DefaultSlots, SlotsState, TypeOK

LEMMA IdleType == Idle \in ProcState /\ NoSlots \in SlotsState /\ Done \in SigState
BY ImagesAssumption DEF Idle, Done, NoSlots, ProcState, SigState, SlotsState, Version,
   Label, WriteLabel, ArmLabel, SigLabel

LEMMA GotoType ==
  ASSUME TypeOK, NEW p \in Proc, NEW l \in Label, Goto(p, l)
  PROVE  ps' \in [Proc -> ProcState]
<1>1. ps[p] \in ProcState
  BY DEF TypeOK
<1>2. [ps[p] EXCEPT !.pc = l] \in ProcState
  BY <1>1 DEF ProcState
<1>3. QED
  BY <1>2, IdleType DEF Goto, TypeOK

LEMMA DamageType ==
  ASSUME TypeOK, NEW D, Damage(D)
  PROVE  /\ content' \in [Slot -> SUBSET (Images \union {Junk})]
         /\ kernel' \in [Slot -> Images \union {Junk}]
         /\ initrd' \in [Slot -> Images \union {Junk}]
         /\ id' = id
BY DEF Damage, TypeOK

LEMMA TearType ==
  ASSUME TypeOK, NEW t, TearSlots(t)
  PROVE  slots' \in SlotsState
BY DEF TearSlots, TypeOK, SlotsState

LEMMA CountType ==
  ASSUME TypeOK, CountAttempt
  PROVE  grub' \in GrubEnv
BY LimitAssumption DEF CountAttempt, TypeOK, GrubEnv, Unset

LEMMA TypeInit == Init => TypeOK
<1> SUFFICES ASSUME Init PROVE TypeOK
  OBVIOUS
<1>1. grub \in GrubEnv
  BY DEF Init, GrubEnv, Unset
<1>2. Factory \in Images
  BY ImagesAssumption
<1>3. QED
  BY <1>1, <1>2, IdleType DEF Init, TypeOK

LEMMA TypeStep == TypeOK /\ [Next]_vars => TypeOK'
<1> SUFFICES ASSUME TypeOK, [Next]_vars PROVE TypeOK'
  OBVIOUS
<1> USE DEF diskVars, fileVars, machVars
<1>1. CASE UNCHANGED vars
  BY <1>1 DEF TypeOK, vars
<1>2. ASSUME NEW v \in Images, Stage(v) PROVE TypeOK'
  BY <1>2 DEF TypeOK, Stage
<1>3. CASE ChangeIdentity
  BY <1>3 DEF TypeOK, ChangeIdentity
<1>4. ASSUME NEW p \in Proc, Apply(p) PROVE TypeOK'
  <2> USE DEF At, Tgt
  <2>1. CASE ApplyBegin(p)
    <3>1. PICK v \in staged, d \in Detected : Begin(p, "apply", d, v, "format")
      BY <2>1 DEF ApplyBegin
    <3>2. d \in Slot /\ v \in Images
      BY LoadedType DEF Detected, TypeOK, SlotsState
    <3>3. [pc |-> "format", op |-> "apply", img |-> v, tgt |-> Other(d),
           snap |-> Loaded] \in ProcState
      BY <3>2, LoadedType DEF ProcState, Label
    <3>4. QED
      BY <2>1, <3>1, <3>3, LoadedType DEF TypeOK, Begin, ApplyBegin
  <2>2. CASE ApplyFormat(p)
    BY <2>2, GotoType DEF TypeOK, ApplyFormat, Label, WriteLabel, ProcState
  <2>3. CASE ApplyMount(p)
    BY <2>3, GotoType DEF TypeOK, ApplyMount, Label, WriteLabel, ProcState
  <2>4. CASE ApplyExtract(p)
    BY <2>4, GotoType DEF TypeOK, ApplyExtract, Label, WriteLabel, ProcState
  <2>5. CASE ApplyKernel(p)
    BY <2>5, GotoType DEF TypeOK, ApplyKernel, Label, WriteLabel, ProcState
  <2>6. CASE ApplyInitrd(p)
    BY <2>6, GotoType DEF TypeOK, ApplyInitrd, Label, WriteLabel, ProcState
  <2>7. CASE ApplyRecord(p)
    <3>1. slots' \in SlotsState
      BY <2>7 DEF ApplyRecord, TypeOK, ProcState, SlotsState, NamedVersion, Version
    <3>2. QED
      BY <2>7, <3>1, GotoType DEF TypeOK, ApplyRecord, Label, ArmLabel
  <2>8. CASE ApplyClean(p)
    BY <2>8, GotoType DEF TypeOK, ApplyClean, Label
  <2>9. QED
    BY <1>4, <2>1, <2>2, <2>3, <2>4, <2>5, <2>6, <2>7, <2>8 DEF Apply
<1>5. ASSUME NEW p \in Proc, Shared(p) PROVE TypeOK'
  <2> USE DEF At, Tgt
  <2>1. CASE Refuse(p)
    BY <2>1, GotoType DEF TypeOK, Refuse, Label
  <2>2. CASE CopyIdentity(p)
    BY <2>2, GotoType DEF TypeOK, CopyIdentity, Label, WriteLabel, ProcState
  <2>3. CASE Umount(p)
    BY <2>3, GotoType DEF TypeOK, Umount, Unmount, Label, WriteLabel, ProcState
  <2>4. CASE ArmSaved(p)
    BY <2>4, GotoType DEF TypeOK, ArmSaved, Arm, Label, ArmLabel, ProcState, GrubEnv, Overlaps, Clearing, Arming
  <2>5. CASE ArmFallback(p)
    BY <2>5, GotoType DEF TypeOK, ArmFallback, Arm, Label, ArmLabel, ProcState, GrubEnv, Overlaps, Clearing, Arming
  <2>6. CASE ArmTrying(p)
    BY <2>6, GotoType DEF TypeOK, ArmTrying, Arm, Label, ArmLabel, ProcState, GrubEnv, Overlaps, Clearing, Arming
  <2>7. CASE ArmAttempts(p)
    BY <2>7, GotoType, LimitAssumption DEF TypeOK, ArmAttempts, Arm, Label, ArmLabel, ProcState, GrubEnv, Overlaps, Clearing, Arming
  <2>8. QED
    BY <1>5, <2>1, <2>2, <2>3, <2>4, <2>5, <2>6, <2>7 DEF Shared
<1>6. ASSUME NEW p \in Proc, Others(p) PROVE TypeOK'
  <2> USE DEF At, Tgt
  <2>1. ASSUME NEW d \in Detected PROVE d \in Slot
    BY <2>1, LoadedType DEF Detected, TypeOK, SlotsState
  <2>2. CASE RollbackBegin(p)
    <3>1. PICK d \in Detected : Begin(p, "rollback", d, Factory, "saved") /\ upset' \in BOOLEAN
      BY <2>2 DEF RollbackBegin, TypeOK
    <3>2. [pc |-> "saved", op |-> "rollback", img |-> Factory, tgt |-> Other(d),
           snap |-> Loaded] \in ProcState
      BY <2>1, LoadedType, ImagesAssumption DEF ProcState, Label, ArmLabel
    <3>3. QED
      BY <3>1, <3>2, <2>2, LoadedType DEF TypeOK, Begin, RollbackBegin
  <2>3. CASE SyncBegin(p)
    <3>1. PICK d \in Detected :
            ps' = [ps EXCEPT ![p] = [Idle EXCEPT !.pc = "sync", !.op = "sync", !.tgt = Other(d)]]
      BY <2>3 DEF SyncBegin
    <3>2. [Idle EXCEPT !.pc = "sync", !.op = "sync", !.tgt = Other(d)] \in ProcState
      BY <2>1, IdleType DEF ProcState, Label
    <3>3. QED
      BY <3>1, <3>2, <2>3, LoadedType DEF TypeOK, SyncBegin
  <2>4. CASE RollbackStamp(p)
    BY <2>4, GotoType DEF TypeOK, RollbackStamp, Label, ProcState
  <2>5. CASE SyncMount(p)
    BY <2>5, GotoType DEF TypeOK, SyncMount, Label, WriteLabel, ProcState
  <2>6. QED
    BY <1>6, <2>2, <2>3, <2>4, <2>5 DEF Others
<1>7. ASSUME NEW p \in Proc, Fail(p) PROVE TypeOK'
  BY <1>7, GotoType, DamageType, TearType
     DEF TypeOK, Fail, Unmount, Label, Tgt, Exposed, Arming, OnlyWayBack
<1>8. ASSUME NEW p \in Proc, Kill(p) PROVE TypeOK'
  BY <1>8, GotoType, DamageType, TearType DEF TypeOK, Kill, Label, Exposed, Arming, OnlyWayBack
<1>9. CASE PowerLoss
  BY <1>9, DamageType, TearType, IdleType DEF TypeOK, PowerLoss, Clearing, Exposed
<1>10. CASE BootUp
  <2>1. running' \in Slot
    BY <1>10 DEF BootUp, GrubChoices, FallbackEntry, TypeOK, GrubEnv
  <2>2. [Done EXCEPT !.pc = "due"] \in SigState
    BY IdleType DEF SigState, SigLabel
  <2>3. QED
    BY <1>10, <2>1, <2>2, CountType DEF TypeOK, BootUp
<1>11. CASE BootFails
  BY <1>11, CountType DEF TypeOK, BootFails
<1>12. ASSUME NEW l \in SigLabel, SigGoto(l) PROVE sig' \in SigState
  BY <1>12, IdleType DEF SigGoto, TypeOK, SigState
<1>13. CASE SignalAgain
  BY <1>12, <1>13 DEF TypeOK, SignalAgain, SigLabel
<1>14. CASE SignalRead
  <2>1. PICK d \in Detected :
          /\ sig' = [pc |-> "saved", slot |-> d, rev |-> recovered', snap |-> Loaded]
          /\ recovered' \in BOOLEAN /\ upset' \in BOOLEAN
    BY <1>14 DEF SignalRead, TypeOK
  <2>2. d \in Slot
    BY LoadedType DEF Detected, TypeOK, SlotsState
  <2>3. sig' \in SigState
    BY <2>1, <2>2, LoadedType DEF SigState, SigLabel
  <2>4. QED
    BY <1>14, <2>1, <2>3, LoadedType DEF TypeOK, SignalRead
<1>15. ASSUME NEW l \in SigLabel, NEW n \in SigLabel, NEW g \in GrubEnv, Clear(l, g, n)
       PROVE  TypeOK'
  BY <1>12, <1>15 DEF TypeOK, Clear
<1>16. CASE SignalSaved \/ SignalConfirmed \/ SignalAttempts \/ SignalFallback
  <2>1. grub \in GrubEnv /\ sig.slot \in Slot
    BY DEF TypeOK, SigState
  <2>2. {"saved", "confirmed", "attempts", "fallback", "write"} \subseteq SigLabel
    BY DEF SigLabel
  <2>3. /\ [grub EXCEPT !.saved = sig.slot] \in GrubEnv
        /\ [grub EXCEPT !.state = "confirmed"] \in GrubEnv
        /\ [grub EXCEPT !.attempts = Unset] \in GrubEnv
        /\ [grub EXCEPT !.fallback = "unset"] \in GrubEnv
    BY <2>1 DEF GrubEnv
  <2>4. CASE SignalSaved
    BY <1>15, <2>2, <2>3, <2>4 DEF SignalSaved
  <2>5. CASE SignalConfirmed
    BY <1>15, <2>2, <2>3, <2>5 DEF SignalConfirmed
  <2>6. CASE SignalAttempts
    BY <1>15, <2>2, <2>3, <2>6 DEF SignalAttempts
  <2>7. CASE SignalFallback
    BY <1>15, <2>2, <2>3, <2>7 DEF SignalFallback
  <2>8. QED
    BY <1>16, <2>4, <2>5, <2>6, <2>7
<1>17. CASE SignalWrite
  <2>1. BuildVersion(running) \in Version
    BY ImagesAssumption DEF BuildVersion, Version
  <2>2. slots' \in SlotsState
    BY <1>17, <2>1 DEF SignalWrite, SlotsState, TypeOK, SigState
  <2>3. QED
    BY <1>12, <1>17, <2>2 DEF TypeOK, SignalWrite, SigLabel
<1>18. CASE SignalSync
  BY <1>12, <1>18 DEF TypeOK, SignalSync, SigLabel, SigState
<1>19. CASE SignalCopy
  BY <1>12, <1>19 DEF TypeOK, SignalCopy, Unmount, SigLabel, SigState
<1>20. QED
  BY <1>1, <1>2, <1>3, <1>4, <1>5, <1>6, <1>7, <1>8, <1>9, <1>10, <1>11, <1>13, <1>14,
     <1>16, <1>17, <1>18, <1>19 DEF Next, Signal

\* The variables keep their types.
THEOREM TypeCorrect == Spec => []TypeOK
BY TypeInit, TypeStep, PTL DEF Spec

-----------------------------------------------------------------------------
(* The running slot is never damaged. *)

\* An operation op at label l is to write to its target; all that a sync writes is what the
\* running slot has.
Writes(l, op) ==
  l \in WriteLabel \union {"sync"} /\ ~(op = "sync" /\ l \in {"sync", "identity", "umount"})
\* A process past the target checks works on the slot that is not running.
WritesStandby == \A p \in Proc : Writes(ps[p].pc, ps[p].op) => Tgt(p) # running

\* Nothing is under way on a machine that is off.
OffIdle == ~up => \A p \in Proc : ps[p].pc = "idle"

Intact == TypeOK /\ RunningIntact /\ SomeSlotBoots /\ WritesStandby /\ OffIdle

\* The step leaves alone what the running slot boots from.
RunningKept ==
  /\ running' = running
  /\ content'[running] = content[running]
  /\ kernel'[running] = kernel[running]
  /\ initrd'[running] = initrd[running]

LEMMA DamageSpares ==
  ASSUME Intact, NEW D \in SUBSET Proc, Damage(D), running' = running
  PROVE  RunningKept
<1> USE DEF Intact, TypeOK
<1>1. \A p \in D : ~HitsContent(p, running)
  BY DEF HitsContent, WritesStandby, Writes, WriteLabel, TargetFree
<1>2. \A p \in D : ~HitsBoot(p, "kernel", running) /\ ~HitsBoot(p, "initrd", running)
  BY DEF HitsBoot, WritesStandby, Writes, WriteLabel
<1>3. QED
  BY <1>1, <1>2 DEF Damage, RunningKept

\* While the machine runs, no step writes to the slot it runs from.
LEMMA StepsSpareRunning ==
  ASSUME Intact, [Next]_vars, up
  PROVE  RunningKept
<1> USE DEF Intact, TypeOK, diskVars, fileVars, machVars, RunningKept, At, Tgt
<1>1. CASE UNCHANGED vars
  BY <1>1 DEF vars
<1>2. ASSUME NEW v \in Images, Stage(v) PROVE RunningKept
  BY <1>2 DEF Stage
<1>3. CASE ChangeIdentity
  BY <1>3 DEF ChangeIdentity
<1>4. ASSUME NEW p \in Proc, Apply(p) PROVE RunningKept
  <2>1. CASE ApplyBegin(p)
    BY <2>1 DEF ApplyBegin, Begin
  <2>2. CASE ApplyFormat(p)
    BY <2>2 DEF ApplyFormat, TargetFree
  <2>3. CASE ApplyMount(p) \/ ApplyRecord(p) \/ ApplyClean(p)
    BY <2>3 DEF ApplyMount, ApplyRecord, ApplyClean
  <2>4. CASE ApplyExtract(p)
    BY <2>4 DEF ApplyExtract, WritesStandby, Writes, WriteLabel
  <2>5. CASE ApplyKernel(p)
    BY <2>5 DEF ApplyKernel, WritesStandby, Writes, WriteLabel
  <2>6. CASE ApplyInitrd(p)
    BY <2>6 DEF ApplyInitrd, WritesStandby, Writes, WriteLabel
  <2>7. QED
    BY <1>4, <2>1, <2>2, <2>3, <2>4, <2>5, <2>6 DEF Apply
<1>5. ASSUME NEW p \in Proc, Shared(p) PROVE RunningKept
  BY <1>5 DEF Shared, Refuse, CopyIdentity, Umount, ArmSaved, ArmFallback, ArmTrying,
     ArmAttempts, Arm
<1>6. ASSUME NEW p \in Proc, Others(p) PROVE RunningKept
  BY <1>6 DEF Others, RollbackBegin, RollbackStamp, SyncBegin, SyncMount, Begin
<1>7. ASSUME NEW p \in Proc, Fail(p) PROVE RunningKept
  BY <1>7, DamageSpares DEF Fail
<1>8. ASSUME NEW p \in Proc, Kill(p) PROVE RunningKept
  BY <1>8, DamageSpares DEF Kill
<1>9. CASE PowerLoss
  BY <1>9, DamageSpares DEF PowerLoss, Busy
<1>10. CASE BootUp \/ BootFails
  BY <1>10 DEF BootUp, BootFails
<1>11. CASE SignalAgain
  BY <1>11 DEF SignalAgain
<1>12. CASE Signal
  BY <1>12 DEF Signal, SignalRead, SignalSaved, SignalConfirmed, SignalAttempts,
     SignalFallback, Clear, SignalWrite, SignalSync, SignalCopy
<1>13. QED
  BY <1>1, <1>2, <1>3, <1>4, <1>5, <1>6, <1>7, <1>8, <1>9, <1>10, <1>11, <1>12 DEF Next

\* What a process does next is an operation of its own, and it stays within
\* the target the operation began with.
LEMMA StepsKeepTarget ==
  ASSUME Intact, [Next]_vars, up
  PROVE  WritesStandby'
<1>0. running' = running
  BY StepsSpareRunning DEF RunningKept
<1>1. ASSUME NEW q \in Proc, NEW p \in Proc, NEW l \in Label, Goto(q, l),
             Writes(l, ps[q].op) => Tgt(q) # running,
             Writes(ps[p].pc, ps[p].op) => Tgt(p) # running,
             Writes(ps'[p].pc, ps'[p].op)
      PROVE  Tgt(p)' # running
  <2>1. CASE p # q
    BY <1>1, <2>1 DEF Goto, Tgt, Intact, TypeOK
  <2>2. CASE p = q /\ l = "idle"
    BY <1>1, <2>2 DEF Goto, Idle, Writes, WriteLabel, Intact, TypeOK
  <2>3. CASE p = q /\ l # "idle"
    <3>1. ps'[p] = [ps[p] EXCEPT !.pc = l] /\ ps[p] \in ProcState
      BY <1>1, <2>3 DEF Goto, Intact, TypeOK
    <3>2. ps'[p].pc = l /\ ps'[p].op = ps[p].op /\ ps'[p].tgt = ps[p].tgt
      BY <3>1 DEF ProcState
    <3>3. QED
      BY <1>1, <2>3, <3>2 DEF Tgt
  <2>4. QED
    BY <2>1, <2>2, <2>3
<1>2. SUFFICES ASSUME NEW p \in Proc, Writes(ps'[p].pc, ps'[p].op)
               PROVE  Tgt(p)' # running
  BY <1>0 DEF WritesStandby
<1>3. Writes(ps[p].pc, ps[p].op) => Tgt(p) # running
  BY DEF Intact, WritesStandby
<1> USE DEF At, Intact, TypeOK, diskVars, fileVars, machVars
<1>4. CASE ps' = ps
  BY <1>2, <1>3, <1>4 DEF Tgt
<1>5. ASSUME NEW q \in Proc, NEW op, NEW d, NEW v, NEW l \in {"format", "saved"},
             Begin(q, op, d, v, l)
      PROVE  Tgt(p)' # running
  BY <1>2, <1>3, <1>5 DEF Begin, Tgt, Writes, WriteLabel
<1>6. ASSUME NEW q \in Proc, Apply(q) PROVE Tgt(p)' # running
  <2>1. CASE ApplyBegin(q)
    BY <2>1, <1>5 DEF ApplyBegin
  <2>2. CASE ApplyFormat(q)
    BY <2>2, <1>1, <1>2, <1>3 DEF ApplyFormat, TargetFree, Label, Writes, WriteLabel
  <2>3. CASE ApplyMount(q) \/ ApplyExtract(q) \/ ApplyKernel(q) \/ ApplyInitrd(q)
    BY <2>3, <1>1, <1>2, <1>3 DEF ApplyMount, ApplyExtract, ApplyKernel, ApplyInitrd,
       Label, WritesStandby, Writes, WriteLabel
  <2>4. CASE ApplyRecord(q) \/ ApplyClean(q)
    BY <2>4, <1>1, <1>2, <1>3 DEF ApplyRecord, ApplyClean, Label, Writes, WriteLabel, ArmLabel
  <2>5. QED
    BY <1>6, <2>1, <2>2, <2>3, <2>4 DEF Apply
<1>7. ASSUME NEW q \in Proc, Shared(q) PROVE Tgt(p)' # running
  <2>1. CASE Refuse(q)
    BY <2>1, <1>1, <1>2, <1>3 DEF Refuse, Label, Writes, WriteLabel
  <2>2. CASE CopyIdentity(q) \/ Umount(q)
    BY <2>2, <1>1, <1>2, <1>3 DEF CopyIdentity, Umount, Label, WritesStandby, Writes, WriteLabel
  <2>3. CASE ArmSaved(q) \/ ArmFallback(q) \/ ArmTrying(q) \/ ArmAttempts(q)
    BY <2>3, <1>1, <1>2, <1>3 DEF ArmSaved, ArmFallback, ArmTrying, ArmAttempts, Arm,
       Label, Writes, WriteLabel, ArmLabel
  <2>4. QED
    BY <1>7, <2>1, <2>2, <2>3 DEF Shared
<1>8. ASSUME NEW q \in Proc, Others(q) PROVE Tgt(p)' # running
  <2>1. CASE RollbackBegin(q)
    BY <2>1, <1>5 DEF RollbackBegin
  <2>5. CASE SyncBegin(q)
    <3>1. PICK d \in Detected :
            ps' = [ps EXCEPT ![q] = [Idle EXCEPT !.pc = "sync", !.op = "sync", !.tgt = Other(d)]]
      BY <2>5 DEF SyncBegin
    <3>2. CASE p = q
      BY <3>1, <3>2, <1>2 DEF Idle, Writes, WriteLabel
    <3>3. QED
      BY <3>1, <3>2, <1>2, <1>3 DEF Tgt
  <2>2. CASE RollbackStamp(q)
    BY <2>2, <1>1, <1>2, <1>3 DEF RollbackStamp, Label, Writes, WriteLabel
  <2>3. CASE SyncMount(q)
    <3>1. Goto(q, "identity") /\ "identity" \in Label /\ ps[q].pc = "sync"
      BY <2>3 DEF SyncMount, Label, WriteLabel
    <3>2. Writes("identity", ps[q].op) => Writes(ps[q].pc, ps[q].op)
      BY <3>1 DEF Writes, WriteLabel
    <3>3. QED
      BY <3>1, <3>2, <1>1, <1>2, <1>3 DEF WritesStandby
  <2>4. QED
    BY <1>8, <2>1, <2>2, <2>3, <2>5 DEF Others
<1>9. ASSUME NEW q \in Proc, Fail(q) \/ Kill(q) PROVE Tgt(p)' # running
  BY <1>9, <1>1, <1>2, <1>3 DEF Fail, Kill, Label, Writes, WriteLabel
<1>10. CASE PowerLoss
  BY <1>10, <1>2 DEF PowerLoss, Idle, Writes, WriteLabel
<1>11. QED
  BY <1>4, <1>6, <1>7, <1>8, <1>9, <1>10 DEF Next, vars, Stage, ChangeIdentity, BootUp,
     BootFails, SignalAgain, Signal, SignalRead, SignalSaved, SignalConfirmed,
     SignalAttempts, SignalFallback, Clear, SignalWrite, SignalSync, SignalCopy

\* Only PowerLoss and BootUp change whether the machine runs; an operation
\* needs a machine that does.
LEMMA StepsUp ==
  ASSUME [Next]_vars
  PROVE  PowerLoss \/ BootUp \/ (up' = up /\ (up \/ ps' = ps))
<1> USE DEF machVars, At, SigAt
<1>1. ASSUME NEW p \in Proc, Apply(p) PROVE up /\ up' = up
  BY <1>1 DEF Apply, ApplyBegin, Begin, ApplyFormat, ApplyMount, ApplyExtract, ApplyKernel,
     ApplyInitrd, ApplyRecord, ApplyClean
<1>2. ASSUME NEW p \in Proc, Shared(p) PROVE up /\ up' = up
  BY <1>2 DEF Shared, Refuse, CopyIdentity, Umount, ArmSaved, ArmFallback, ArmTrying,
     ArmAttempts, Arm
<1>3. ASSUME NEW p \in Proc, Others(p) PROVE up /\ up' = up
  BY <1>3 DEF Others, RollbackBegin, RollbackStamp, SyncBegin, SyncMount, Begin
<1>4. ASSUME NEW p \in Proc, Fail(p) \/ Kill(p) PROVE up /\ up' = up
  BY <1>4 DEF Fail, Kill
<1>5. CASE Signal
  BY <1>5 DEF Signal, SignalRead, SignalSaved, SignalConfirmed, SignalAttempts,
     SignalFallback, Clear, SignalWrite, SignalSync, SignalCopy
<1>6. CASE UNCHANGED vars \/ (\E v \in Images : Stage(v)) \/ ChangeIdentity \/ BootFails \/ SignalAgain
  BY <1>6 DEF vars, Stage, ChangeIdentity, BootFails, SignalAgain
<1>7. QED
  BY <1>1, <1>2, <1>3, <1>4, <1>5, <1>6 DEF Next

\* Nothing is under way on a machine that is off, whatever the step.
LEMMA StepsOff ==
  ASSUME Intact, [Next]_vars
  PROVE  OffIdle'
<1>1. CASE PowerLoss
  BY <1>1 DEF PowerLoss, OffIdle, Idle
<1>2. CASE BootUp
  BY <1>2 DEF BootUp, OffIdle
<1>3. CASE up' = up /\ (up \/ ps' = ps)
  BY <1>3 DEF OffIdle, Intact
<1>4. QED
  BY <1>1, <1>2, <1>3, StepsUp

\* A machine that is off is at most powered on, or does not boot.
LEMMA OffSteps ==
  ASSUME [Next]_vars, ~up
  PROVE  BootUp \/ BootFails \/ UNCHANGED vars
<1> USE DEF At, SigAt
<1>1. ASSUME NEW p \in Proc, Apply(p) PROVE up
  BY <1>1 DEF Apply, ApplyBegin, Begin, ApplyFormat, ApplyMount, ApplyExtract, ApplyKernel,
     ApplyInitrd, ApplyRecord, ApplyClean
<1>2. ASSUME NEW p \in Proc, Shared(p) PROVE up
  BY <1>2 DEF Shared, Refuse, CopyIdentity, Umount, ArmSaved, ArmFallback, ArmTrying,
     ArmAttempts, Arm
<1>3. ASSUME NEW p \in Proc, Others(p) PROVE up
  BY <1>3 DEF Others, RollbackBegin, RollbackStamp, SyncBegin, SyncMount, Begin
<1>4. ASSUME NEW p \in Proc, Fail(p) \/ Kill(p) PROVE up
  BY <1>4 DEF Fail, Kill
<1>5. Signal \/ SignalAgain => up
  BY DEF Signal, SignalAgain, SignalRead, SignalSaved, SignalConfirmed, SignalAttempts,
     SignalFallback, Clear, SignalWrite, SignalSync, SignalCopy
<1>6. (\E v \in Images : Stage(v)) \/ ChangeIdentity \/ PowerLoss => up
  BY DEF Stage, ChangeIdentity, PowerLoss
<1>7. QED
  BY <1>1, <1>2, <1>3, <1>4, <1>5, <1>6 DEF Next

\* A step of a machine that is off leaves the slots alone.
LEMMA OffKeepsDisk ==
  ASSUME [Next]_vars, ~up
  PROVE  content' = content /\ kernel' = kernel /\ initrd' = initrd /\ ps' = ps
BY OffSteps DEF BootUp, BootFails, vars, diskVars

\* The strengthened invariant is inductive.
LEMMA IntactStep == Intact /\ [Next]_vars => Intact'
<1> SUFFICES ASSUME Intact, [Next]_vars PROVE Intact'
  OBVIOUS
<1>1. TypeOK'
  BY TypeStep DEF Intact
<1>2. OffIdle'
  BY StepsOff
<1>3. CASE up
  <2>1. RunningKept /\ WritesStandby'
    BY <1>3, StepsSpareRunning, StepsKeepTarget
  <2>2. PICK r \in Slot : r = running /\ Boots(r)
    BY <1>3 DEF Intact, TypeOK, RunningIntact
  <2>3. Boots(r)' /\ running' = r
    BY <2>1, <2>2 DEF RunningKept, Boots
  <2>4. QED
    BY <1>1, <1>2, <2>1, <2>3 DEF Intact, RunningIntact, SomeSlotBoots, Boots
<1>4. CASE ~up
  <2>1. content' = content /\ kernel' = kernel /\ initrd' = initrd /\ ps' = ps
    BY <1>4, OffKeepsDisk
  <2>2. SomeSlotBoots'
    BY <2>1 DEF Intact, SomeSlotBoots, Boots
  <2>3. WritesStandby'
    BY <1>4, <2>1 DEF Intact, OffIdle, WritesStandby, Writes, WriteLabel
  <2>4. RunningIntact'
    <3>1. CASE BootUp
      BY <3>1, <2>1 DEF BootUp, RunningIntact, Boots
    <3>2. CASE ~BootUp
      BY <3>2, <1>4, StepsUp DEF PowerLoss, RunningIntact
    <3>3. QED
      BY <3>1, <3>2
  <2>5. QED
    BY <1>1, <1>2, <2>2, <2>3, <2>4 DEF Intact
<1>5. QED
  BY <1>3, <1>4

LEMMA IntactInit == Init => Intact
<1> SUFFICES ASSUME Init PROVE Intact
  OBVIOUS
<1>1. TypeOK
  BY TypeInit
<1>2. Factory \in Good /\ <<Factory, Factory>> \in Compat
  BY ImagesAssumption
<1>3. \A s \in Slot : Boots(s)
  BY <1>2 DEF Init, Boots
<1>4. QED
  BY <1>1, <1>3 DEF Init, Intact, RunningIntact, SomeSlotBoots, WritesStandby, Writes, OffIdle, Idle,
     WriteLabel

\* No operation, failure, kill or power loss touches what the running slot
\* boots from, with any number of processes applying at once.
THEOREM RunningSlotIntact == Spec => []RunningIntact
<1>1. Intact => RunningIntact
  BY DEF Intact
<1>2. QED
  BY <1>1, IntactInit, IntactStep, PTL DEF Spec

\* At every moment, interrupted or not, one slot can be booted.
THEOREM OneSlotAlwaysBoots == Spec => []SomeSlotBoots
<1>1. Intact => SomeSlotBoots
  BY DEF Intact
<1>2. QED
  BY <1>1, IntactInit, IntactStep, PTL DEF Spec

-----------------------------------------------------------------------------
(* The way back: GRUB left alone reaches a slot that boots.                 *)

\* An operation that may still write what a slot boots from.
Writer(p) == ps[p].pc \in WriteLabel /\ ps[p].op # "sync"

\* The labels an operation passes, and the slot it is about to arm.
InOrder == \A p \in Proc :
  /\ ps[p].pc \in {"format", "mount", "extract", "kernel", "initrd"} => ps[p].op # "sync"
  /\ ps[p].pc = "sync" => ps[p].op = "sync"
  /\ ps[p].pc = "record" => Tgt(p) # running

SignalOff == ~up => sig.pc = "done"

\* grubenv half-way through an arming, and through a confirmation.
HalfArmed == \A p \in Proc :
  /\ ps[p].pc \in ArmLabel => Tgt(p) # running
  /\ ps[p].pc \in {"trying", "attempts"} => grub.fallback = running
  /\ ps[p].pc = "attempts" => grub.state = "trying"
HalfCleared ==
  /\ sig.pc \in {"saved", "confirmed", "attempts", "fallback"} => sig.slot = running
  /\ Clearing => grub.saved = running
  /\ sig.pc \in {"attempts", "fallback"} => grub.state # "trying"

\* One at a time rewrites grubenv.
Alone ==
  /\ \A p, q \in Proc : Arming(p) /\ Arming(q) => p = q
  /\ \A p \in Proc : Arming(p) => ~Clearing

\* The fallback of a trial boots, and no operation is about to write to it.
WayBack ==
  /\ grub.attempts # Unset /\ grub.fallback \in Slot /\ Boots(grub.fallback)
  /\ \A p \in Proc : Writer(p) => Tgt(p) # grub.fallback

\* grubenv as a whole: on trial there is a way back; otherwise GRUB boots the
\* slot that runs, or one that boots.
Settled ==
  /\ grub.state = "trying" => WayBack
  /\ grub.state # "trying" => IF up THEN grub.saved = running ELSE Boots(grub.saved)

Rewritten == Clearing \/ \E p \in Proc : Arming(p)

Steady == ~upset => HalfArmed /\ HalfCleared /\ Alone /\ (~Rewritten => Settled)

Guarded == Intact /\ InOrder /\ SignalOff /\ Steady

\* What Goto does to the operations.
LEMMA GotoRest ==
  ASSUME TypeOK, NEW p \in Proc, NEW l \in Label, Goto(p, l)
  PROVE  /\ \A q \in Proc \ {p} : ps'[q] = ps[q]
         /\ ps'[p].pc = l
         /\ l # "idle" => ps'[p].op = ps[p].op /\ ps'[p].tgt = ps[p].tgt
<1>1. ps[p] \in ProcState
  BY DEF TypeOK
<1>2. CASE l = "idle"
  BY <1>2 DEF Goto, Idle, TypeOK
<1>3. CASE l # "idle"
  <2>1. ps'[p] = [ps[p] EXCEPT !.pc = l]
    BY <1>3 DEF Goto, TypeOK
  <2>2. QED
    BY <1>1, <1>3, <2>1 DEF Goto, TypeOK, ProcState
<1>4. QED
  BY <1>2, <1>3

\* What a begun operation looks like.
LEMMA BeginRest ==
  ASSUME TypeOK, NEW p \in Proc, NEW op, NEW d, NEW v, NEW l, Begin(p, op, d, v, l)
  PROVE  /\ \A q \in Proc \ {p} : ps'[q] = ps[q]
         /\ ps'[p].pc = l /\ ps'[p].op = op /\ ps'[p].tgt = Other(d)
         /\ UNCHANGED <<diskVars, grub, machVars, mounts, sig>>
<1>1. ps'[p] = [pc |-> l, op |-> op, img |-> v, tgt |-> Other(d), snap |-> Loaded]
  BY DEF Begin, TypeOK
<1>2. QED
  BY <1>1 DEF Begin, TypeOK

LEMMA SyncRest ==
  ASSUME TypeOK, NEW p \in Proc, SyncBegin(p)
  PROVE  /\ \A q \in Proc \ {p} : ps'[q] = ps[q]
         /\ ps'[p].pc = "sync" /\ ps'[p].op = "sync"
         /\ UNCHANGED <<diskVars, grub, machVars, mounts, sig, upset>>
<1>1. PICK d \in Detected :
        ps' = [ps EXCEPT ![p] = [Idle EXCEPT !.pc = "sync", !.op = "sync", !.tgt = Other(d)]]
  BY DEF SyncBegin
<1>2. ps'[p] = [Idle EXCEPT !.pc = "sync", !.op = "sync", !.tgt = Other(d)]
  BY <1>1 DEF TypeOK
<1>3. ps'[p].pc = "sync" /\ ps'[p].op = "sync"
  BY <1>2 DEF Idle
<1>4. QED
  BY <1>1, <1>3 DEF SyncBegin, TypeOK

LEMMA InOrderStep ==
  ASSUME Intact, InOrder, [Next]_vars
  PROVE  InOrder'
<1> DEFINE Fine(p) ==
      /\ ps'[p].pc \in {"format", "mount", "extract", "kernel", "initrd"} => ps'[p].op # "sync"
      /\ ps'[p].pc = "sync" => ps'[p].op = "sync"
      /\ ps'[p].pc = "record" => ps'[p].tgt # running'
<1>0. TypeOK
  BY DEF Intact
<1>1. ASSUME UNCHANGED <<running, ps>> PROVE InOrder'
  BY <1>1 DEF InOrder, Tgt
<1>2. ASSUME NEW p \in Proc, running' = running, Fine(p),
             \A q \in Proc \ {p} : ps'[q] = ps[q]
      PROVE  InOrder'
  BY <1>2 DEF InOrder, Tgt
<1>3. ASSUME NEW p \in Proc, Apply(p) PROVE InOrder'
  <2> USE <1>0, <1>2, GotoRest, BeginRest DEF InOrder, At, Tgt, Label, WriteLabel, ArmLabel,
          machVars
  <2>1. CASE ApplyBegin(p)
    BY <2>1 DEF ApplyBegin
  <2>2. CASE ApplyFormat(p)
    BY <2>2 DEF ApplyFormat
  <2>3. CASE ApplyMount(p) \/ ApplyExtract(p)
    BY <2>3 DEF ApplyMount, ApplyExtract
  <2>4. CASE ApplyKernel(p) \/ ApplyInitrd(p)
    BY <2>4 DEF ApplyKernel, ApplyInitrd
  <2>5. CASE ApplyRecord(p) \/ ApplyClean(p)
    BY <2>5 DEF ApplyRecord, ApplyClean
  <2>6. QED
    BY <1>3, <2>1, <2>2, <2>3, <2>4, <2>5 DEF Apply
<1>4. ASSUME NEW p \in Proc, Shared(p) PROVE InOrder'
  <2> USE <1>0, <1>2, GotoRest DEF InOrder, At, Tgt, Label, WriteLabel, ArmLabel, machVars
  <2>1. CASE Refuse(p)
    BY <2>1 DEF Refuse
  <2>2. CASE CopyIdentity(p)
    BY <2>2 DEF CopyIdentity
  <2>3. CASE Umount(p)
    BY <2>3 DEF Umount, Intact, WritesStandby, Writes
  <2>4. CASE ArmSaved(p) \/ ArmFallback(p) \/ ArmTrying(p)
    BY <2>4 DEF ArmSaved, ArmFallback, ArmTrying, Arm
  <2>5. CASE ArmAttempts(p)
    BY <2>5 DEF ArmAttempts, Arm
  <2>6. QED
    BY <1>4, <2>1, <2>2, <2>3, <2>4, <2>5 DEF Shared
<1>5. ASSUME NEW p \in Proc, Others(p) PROVE InOrder'
  <2> USE <1>0, <1>2, GotoRest, BeginRest DEF InOrder, At, Tgt, Label, WriteLabel, ArmLabel,
          machVars
  <2>1. CASE RollbackBegin(p)
    BY <2>1 DEF RollbackBegin
  <2>2. CASE RollbackStamp(p) \/ SyncMount(p)
    BY <2>2 DEF RollbackStamp, SyncMount
  <2>3. CASE SyncBegin(p)
    BY <2>3, SyncRest
  <2>4. QED
    BY <1>5, <2>1, <2>2, <2>3 DEF Others
<1>6. ASSUME NEW p \in Proc, Fail(p) \/ Kill(p) PROVE InOrder'
  BY <1>6, <1>0, <1>2, GotoRest DEF Fail, Kill, Label, machVars
<1>7. CASE PowerLoss
  BY <1>7 DEF PowerLoss, InOrder, Idle
<1>8. CASE BootUp
  <2>1. \A p \in Proc : ps'[p].pc = "idle"
    BY <1>8 DEF BootUp, Intact, OffIdle
  <2>2. QED
    BY <2>1 DEF InOrder
<1>9. QED
  BY <1>1, <1>3, <1>4, <1>5, <1>6, <1>7, <1>8 DEF Next, vars, machVars, Stage, ChangeIdentity,
     BootFails, SignalAgain, Signal, SignalRead, SignalSaved, SignalConfirmed,
     SignalAttempts, SignalFallback, Clear, SignalWrite, SignalSync, SignalCopy

LEMMA SignalOffStep ==
  ASSUME SignalOff, [Next]_vars
  PROVE  SignalOff'
<1>1. CASE PowerLoss
  BY <1>1 DEF PowerLoss, SignalOff, Done
<1>2. CASE BootUp
  BY <1>2 DEF BootUp, SignalOff
<1>3. CASE up' = up /\ up
  BY <1>3 DEF SignalOff
<1>4. CASE ~up /\ ~BootUp
  <2>1. sig' = sig
    BY <1>4, OffSteps DEF BootFails, vars
  <2>2. QED
    BY <1>4, <2>1, StepsUp DEF PowerLoss, SignalOff
<1>5. QED
  BY <1>1, <1>2, <1>3, <1>4, StepsUp

-----------------------------------------------------------------------------
\* Nothing that the slot under trial falls back to has been written to.
KeepsWayBack == WayBack /\ ~upset' => Boots(grub.fallback)'

\* Damage to a slot that no operation writes to: only a format that was about
\* to begin could have hit it.
LEMMA DamageKeepsWayBack ==
  ASSUME Intact, NEW D \in SUBSET Proc, Damage(D), grub' = grub, grub.state = "trying",
         InOrder, ~upset' => \A p \in D : ~Exposed(p)
  PROVE  KeepsWayBack
<1> SUFFICES ASSUME WayBack, ~upset' PROVE Boots(grub.fallback)'
  BY DEF KeepsWayBack
<1>1. \A p \in D : ~Exposed(p)
  OBVIOUS
<1>2. \A p \in D : ~HitsContent(p, grub.fallback)
  BY <1>1 DEF HitsContent, Exposed, OnlyWayBack, WayBack, Writer, WriteLabel, InOrder
<1>3. \A p \in D : ~HitsBoot(p, "kernel", grub.fallback) /\ ~HitsBoot(p, "initrd", grub.fallback)
  BY DEF HitsBoot, WayBack, Writer, WriteLabel, InOrder
<1>4. grub.fallback \in Slot
  BY DEF WayBack
<1>5. content'[grub.fallback] = content[grub.fallback]
      /\ kernel'[grub.fallback] = kernel[grub.fallback]
      /\ initrd'[grub.fallback] = initrd[grub.fallback]
  BY <1>2, <1>3, <1>4 DEF Damage
<1>6. QED
  BY <1>5 DEF WayBack, Boots

\* A step of process p that leaves grubenv alone.
LEMMA SteadyByProcess ==
  ASSUME Guarded, NEW p \in Proc, up, up', running' = running, grub' = grub, sig' = sig,
         upset => upset',
         \A q \in Proc \ {p} : ps'[q] = ps[q],
         ~upset' => ps[p].pc \notin ArmLabel \ {"saved"}, ps'[p].pc \notin ArmLabel \ {"saved"},
         ~upset' => (ps'[p].pc = "saved" => ps'[p].tgt # running),
         ~upset' /\ grub.state = "trying" /\ ps'[p].pc \in WriteLabel /\ ps'[p].op # "sync" =>
            \/ ps[p].pc \in WriteLabel /\ ps[p].op # "sync" /\ ps'[p].tgt = ps[p].tgt
            \/ ps'[p].tgt # grub.fallback,
         grub.state = "trying" => KeepsWayBack
  PROVE  Steady'
<1> SUFFICES ASSUME ~upset' PROVE HalfArmed' /\ HalfCleared' /\ Alone' /\ (~Rewritten' => Settled')
  BY DEF Steady
<1>0. HalfArmed /\ HalfCleared /\ Alone /\ (~Rewritten => Settled)
  BY DEF Guarded, Steady
<1>1. HalfArmed'
  BY <1>0 DEF HalfArmed, Tgt, ArmLabel
<1>2. HalfCleared'
  BY <1>0 DEF HalfCleared, Clearing
<1>3. Alone'
  BY <1>0 DEF Alone, Arming, Clearing
<1>4. ASSUME ~Rewritten' PROVE Settled'
  <2>1. ~Rewritten
    BY <1>4 DEF Rewritten, Clearing, Arming
  <2>2. Settled
    BY <1>0, <2>1
  <2>3. CASE grub.state = "trying"
    <3>1. WayBack
      BY <2>2, <2>3 DEF Settled
    <3>2. Boots(grub.fallback)'
      BY <2>3, <3>1 DEF KeepsWayBack
    <3>3. ASSUME NEW q \in Proc, Writer(q)' PROVE Tgt(q)' # grub.fallback
      <4>1. CASE q = p
        BY <2>3, <3>1, <3>3, <4>1 DEF WayBack, Writer, Tgt
      <4>2. CASE q # p
        BY <3>1, <3>3, <4>2 DEF WayBack, Writer, Tgt
      <4>3. QED
        BY <4>1, <4>2
    <3>4. QED
      BY <2>3, <3>1, <3>2, <3>3 DEF Settled, WayBack
  <2>4. CASE grub.state # "trying"
    BY <2>2, <2>4 DEF Settled
  <2>5. QED
    BY <2>3, <2>4
<1>5. QED
  BY <1>1, <1>2, <1>3, <1>4

\* The same for steps that write no slot.
LEMMA QuietKeepsWayBack ==
  ASSUME UNCHANGED <<content, kernel, initrd, grub>>
  PROVE  KeepsWayBack
BY DEF KeepsWayBack, WayBack, Boots

\* A process steps on to label l without writing to a slot or to grubenv.
LEMMA SteadyQuiet ==
  ASSUME Guarded, NEW p \in Proc, up, ps[p].pc \notin ArmLabel \ {"saved"},
         UNCHANGED <<content, kernel, initrd, grub, sig, up, running>>, upset => upset',
         \A q \in Proc \ {p} : ps'[q] = ps[q],
         ps'[p].pc \notin ArmLabel \ {"saved"},
         ~upset' => (ps'[p].pc = "saved" => ps'[p].tgt # running),
         ps'[p].pc \in WriteLabel /\ ps'[p].op # "sync" =>
            ps[p].pc \in WriteLabel /\ ps[p].op # "sync" /\ ps'[p].tgt = ps[p].tgt
  PROVE  Steady'
<1>1. KeepsWayBack
  BY QuietKeepsWayBack
<1>2. up' /\ running' = running /\ grub' = grub /\ sig' = sig
  OBVIOUS
<1>3. QED
  BY <1>1, <1>2, SteadyByProcess

LEMMA SteadyApply ==
  ASSUME Guarded, NEW p \in Proc, Apply(p), running' = running
  PROVE  Steady'
<1> USE GotoRest, BeginRest, SteadyByProcess DEF At, diskVars, fileVars, machVars, Tgt
<1>0. TypeOK /\ InOrder
  BY DEF Guarded, Intact
<1> USE <1>0
<1>1. CASE ApplyBegin(p)
  <2>1. PICK v \in staged, d \in Detected :
          Begin(p, "apply", d, v, "format") /\ UNCHANGED upset
    BY <1>1 DEF ApplyBegin
  <2>2. up /\ ps[p].pc = "idle"
    BY <2>1 DEF Begin
  <2>3. /\ ps'[p].pc = "format" /\ \A q \in Proc \ {p} : ps'[q] = ps[q]
        /\ UNCHANGED <<content, kernel, initrd, grub, sig, up>>
    BY <2>1
  <2>4. QED
    BY <2>1, <2>2, <2>3, SteadyQuiet DEF ArmLabel, WriteLabel
<1>2. CASE ApplyFormat(p)
  <2>1. Goto(p, "mount") /\ up /\ ps[p].pc = "format" /\ "mount" \in Label
    BY <1>2 DEF ApplyFormat, Label, WriteLabel
  <2>2. ps'[p].pc = "mount" /\ ps'[p].tgt = ps[p].tgt /\ \A q \in Proc \ {p} : ps'[q] = ps[q]
    BY <2>1
  <2>3. grub' = grub /\ sig' = sig /\ up' = up /\ upset' = (upset \/ OnlyWayBack(Tgt(p)))
    BY <1>2 DEF ApplyFormat
  <2>4. grub.state = "trying" => (~upset' => Tgt(p) # grub.fallback)
    BY <2>3 DEF OnlyWayBack
  <2>5. grub.state = "trying" => KeepsWayBack
    BY <1>2, <2>3, <2>4 DEF ApplyFormat, KeepsWayBack, WayBack, Boots, TypeOK
  <2>6. QED
    BY <2>1, <2>2, <2>3, <2>4, <2>5 DEF ArmLabel
<1>3. ASSUME NEW l \in {"extract", "identity", "initrd", "umount"}, Goto(p, l),
             ps[p].pc \in {"mount", "extract", "kernel", "initrd"}, up,
             UNCHANGED <<grub, sig, up, upset>>,
             \A s \in Slot \ {Tgt(p)} : /\ content'[s] = content[s]
                                        /\ kernel'[s] = kernel[s]
                                        /\ initrd'[s] = initrd[s]
      PROVE  Steady'
  <2>1. l \in Label
    BY <1>3 DEF Label, WriteLabel
  <2>2. ps'[p].pc = l /\ ps'[p].tgt = ps[p].tgt /\ \A q \in Proc \ {p} : ps'[q] = ps[q]
    BY <1>3, <2>1
  <2>3. Writer(p)
    BY <1>3 DEF Writer, WriteLabel, InOrder
  <2>4. KeepsWayBack
    BY <1>3, <2>3 DEF KeepsWayBack, WayBack, Boots
  <2>5. QED
    BY <1>3, <2>2, <2>3, <2>4 DEF Writer, ArmLabel
<1>4. CASE ApplyMount(p)
  BY <1>3, <1>4 DEF ApplyMount
<1>5. CASE ApplyExtract(p)
  BY <1>3, <1>5 DEF ApplyExtract, TypeOK
<1>6. CASE ApplyKernel(p)
  BY <1>3, <1>6 DEF ApplyKernel, TypeOK
<1>7. CASE ApplyInitrd(p)
  BY <1>3, <1>7 DEF ApplyInitrd, TypeOK
<1>8. CASE ApplyRecord(p)
  <2>1. Goto(p, "saved") /\ up /\ ps[p].pc = "record" /\ "saved" \in Label
    BY <1>8 DEF ApplyRecord, Label, ArmLabel
  <2>2. ps'[p].pc = "saved" /\ ps'[p].tgt = ps[p].tgt /\ \A q \in Proc \ {p} : ps'[q] = ps[q]
    BY <2>1
  <2>3. UNCHANGED <<content, kernel, initrd, grub, sig, up, upset>>
    BY <1>8 DEF ApplyRecord
  <2>4. QED
    BY <2>1, <2>2, <2>3, SteadyQuiet DEF ArmLabel, WriteLabel, InOrder
<1>9. CASE ApplyClean(p)
  <2>1. Goto(p, "idle") /\ up /\ ps[p].pc = "clean" /\ "idle" \in Label
    BY <1>9 DEF ApplyClean, Label
  <2>2. ps'[p].pc = "idle" /\ \A q \in Proc \ {p} : ps'[q] = ps[q]
    BY <2>1
  <2>3. UNCHANGED <<content, kernel, initrd, grub, sig, up, upset>>
    BY <1>9 DEF ApplyClean
  <2>4. QED
    BY <2>1, <2>2, <2>3, SteadyQuiet DEF ArmLabel, WriteLabel
<1>10. QED
  BY <1>1, <1>2, <1>4, <1>5, <1>6, <1>7, <1>8, <1>9 DEF Apply

LEMMA SteadyShared ==
  ASSUME Guarded, NEW p \in Proc, running' = running,
         Refuse(p) \/ CopyIdentity(p) \/ Umount(p) \/ RollbackStamp(p) \/ SyncBegin(p) \/ SyncMount(p)
  PROVE  Steady'
<1> USE DEF At, diskVars, fileVars, machVars, Tgt
<1>0. TypeOK /\ InOrder
  BY DEF Guarded, Intact
<1> USE <1>0
<1>1. ASSUME NEW l \in {"idle", "umount", "kernel", "record", "identity"}, Goto(p, l), up,
             ps[p].pc \notin ArmLabel \ {"saved"},
             UNCHANGED <<content, kernel, initrd, grub, sig, up, upset>>,
             l \in {"umount", "kernel", "identity"} =>
               ps[p].op = "sync" \/ ps[p].pc \in WriteLabel
      PROVE  Steady'
  <2>1. l \in Label
    BY <1>1 DEF Label, WriteLabel
  <2>2. /\ \A q \in Proc \ {p} : ps'[q] = ps[q]
        /\ ps'[p].pc = l
        /\ l # "idle" => ps'[p].op = ps[p].op /\ ps'[p].tgt = ps[p].tgt
    BY <1>1, <2>1, GotoRest
  <2>3. ps'[p].pc \in WriteLabel /\ ps'[p].op # "sync" =>
          ps[p].pc \in WriteLabel /\ ps[p].op # "sync" /\ ps'[p].tgt = ps[p].tgt
    BY <1>1, <2>2 DEF WriteLabel
  <2>4. QED
    BY <1>1, <2>2, <2>3, SteadyQuiet DEF ArmLabel
<1>2. CASE Refuse(p)
  BY <1>1, <1>2 DEF Refuse, ArmLabel
<1>3. CASE CopyIdentity(p)
  BY <1>1, <1>3 DEF CopyIdentity, ArmLabel, WriteLabel
<1>4. CASE Umount(p)
  BY <1>1, <1>4 DEF Umount, ArmLabel, WriteLabel
<1>5. CASE RollbackStamp(p)
  BY <1>1, <1>5 DEF RollbackStamp, ArmLabel
<1>6. CASE SyncMount(p)
  BY <1>1, <1>6 DEF SyncMount, ArmLabel, InOrder
<1>7. CASE SyncBegin(p)
  <2>1. up /\ ps[p].pc = "idle"
    BY <1>7 DEF SyncBegin
  <2>2. /\ ps'[p].pc = "sync" /\ \A q \in Proc \ {p} : ps'[q] = ps[q]
        /\ UNCHANGED <<content, kernel, initrd, grub, sig, up, upset>>
    BY <1>0, <1>7, SyncRest
  <2>3. QED
    BY <2>1, <2>2, SteadyQuiet DEF ArmLabel, WriteLabel
<1>8. QED
  BY <1>2, <1>3, <1>4, <1>5, <1>6, <1>7

\* A rollback arms the slot that does not run, or counts as misdirected.
LEMMA SteadyRollback ==
  ASSUME Guarded, NEW p \in Proc, RollbackBegin(p), running' = running
  PROVE  Steady'
<1>0. TypeOK
  BY DEF Guarded, Intact
<1>1. PICK d \in Detected :
        Begin(p, "rollback", d, Factory, "saved") /\ upset' = (upset \/ d # running)
  BY DEF RollbackBegin
<1>2. up /\ ps[p].pc = "idle"
  BY <1>1 DEF Begin, At
<1>3. /\ ps'[p].pc = "saved" /\ ps'[p].tgt = Other(d)
      /\ \A q \in Proc \ {p} : ps'[q] = ps[q]
      /\ UNCHANGED <<content, kernel, initrd, grub, sig, up>>
  BY <1>0, <1>1, BeginRest DEF diskVars, machVars
<1>4. ~upset' => Other(d) # running
  BY <1>0, <1>1 DEF TypeOK
<1>5. ps[p].pc \notin ArmLabel \ {"saved"} /\ ps'[p].pc \notin ArmLabel \ {"saved"}
      /\ ps'[p].pc \notin WriteLabel
  BY <1>2, <1>3 DEF ArmLabel, WriteLabel
<1>6. (upset => upset') /\ (~upset' => (ps'[p].pc = "saved" => ps'[p].tgt # running))
  BY <1>1, <1>3, <1>4
<1>7. UNCHANGED <<content, kernel, initrd, grub, sig, up, running>>
  BY <1>3
<1>8. QED
  BY <1>2, <1>3, <1>5, <1>6, <1>7, SteadyQuiet

\* The four calls that arm a slot.
LEMMA SteadyArm ==
  ASSUME Guarded, NEW p \in Proc, running' = running,
         ArmSaved(p) \/ ArmFallback(p) \/ ArmTrying(p) \/ ArmAttempts(p)
  PROVE  Steady'
<1> USE DEF At, diskVars, fileVars, machVars
<1>0. TypeOK /\ Intact
  BY DEF Guarded, Intact
<1> SUFFICES ASSUME ~upset' PROVE HalfArmed' /\ HalfCleared' /\ Alone' /\ (~Rewritten' => Settled')
  BY DEF Steady
<1>1. PICK l \in {"fallback", "trying", "attempts", "clean", "stamp"} :
        /\ Goto(p, l) /\ ps[p].pc \in ArmLabel /\ up /\ up' = up
        /\ UNCHANGED <<content, kernel, initrd, sig>>
        /\ upset' = (upset \/ Overlaps(p))
        /\ \/ ps[p].pc = "saved" /\ l = "fallback" /\ grub' = [grub EXCEPT !.saved = Tgt(p)]
           \/ ps[p].pc = "fallback" /\ l = "trying"
              /\ grub' = [grub EXCEPT !.fallback = Other(Tgt(p))]
           \/ ps[p].pc = "trying" /\ l = "attempts" /\ grub' = [grub EXCEPT !.state = "trying"]
           \/ ps[p].pc = "attempts" /\ l \in {"clean", "stamp"}
              /\ grub' = [grub EXCEPT !.attempts = AttemptLimit]
  BY DEF ArmSaved, ArmFallback, ArmTrying, ArmAttempts, Arm, ArmLabel
<1>2. l \in Label
  BY DEF Label, ArmLabel
<1>3. /\ \A q \in Proc \ {p} : ps'[q] = ps[q]
      /\ ps'[p].pc = l /\ ps'[p].op = ps[p].op /\ ps'[p].tgt = ps[p].tgt
  BY <1>0, <1>1, <1>2, GotoRest
<1>4. HalfArmed /\ HalfCleared /\ Alone /\ ~Clearing /\ \A q \in Proc \ {p} : ~Arming(q)
  BY <1>1 DEF Guarded, Steady, Overlaps
<1>5. Tgt(p) # running /\ Tgt(p) \in Slot /\ running \in Slot
  BY <1>0, <1>1, <1>4 DEF HalfArmed, TypeOK, ProcState, Tgt
<1>6. grub \in GrubEnv
  BY <1>0 DEF TypeOK
<1>7. /\ ps[p].pc = "trying" => grub'.fallback = running
      /\ ps[p].pc = "fallback" => grub'.fallback = running
      /\ ps[p].pc = "attempts" => /\ grub'.fallback = running /\ grub'.state = "trying"
                                  /\ grub'.attempts = AttemptLimit
      /\ ps[p].pc = "trying" => grub'.state = "trying"
  BY <1>1, <1>4, <1>5, <1>6 DEF GrubEnv, HalfArmed
<1>8. \A q \in Proc \ {p} : ps'[q].pc \notin ArmLabel \ {"saved"}
  BY <1>3, <1>4 DEF Arming
<1>9. HalfArmed'
  <2>1. SUFFICES ASSUME NEW q \in Proc
                 PROVE  /\ ps'[q].pc \in ArmLabel => ps'[q].tgt # running
                        /\ ps'[q].pc \in {"trying", "attempts"} => grub'.fallback = running
                        /\ ps'[q].pc = "attempts" => grub'.state = "trying"
    BY DEF HalfArmed, Tgt
  <2>2. CASE q = p
    BY <1>1, <1>3, <1>5, <1>7, <2>2 DEF Tgt, ArmLabel
  <2>3. CASE q # p
    BY <1>3, <1>4, <1>8, <2>3 DEF HalfArmed, Tgt, ArmLabel
  <2>4. QED
    BY <2>2, <2>3
<1>10. ~Clearing'
  BY <1>1, <1>4 DEF Clearing
<1>11. HalfCleared'
  BY <1>1, <1>4, <1>10 DEF HalfCleared, Clearing
<1>12. Alone'
  BY <1>8, <1>10 DEF Alone, Arming
<1>13. ASSUME ~Rewritten' PROVE Settled'
  <2>1. ps'[p].pc \notin ArmLabel \ {"saved"}
    BY <1>13 DEF Rewritten, Arming
  <2>2. ps[p].pc = "attempts"
    BY <1>1, <1>3, <2>1 DEF ArmLabel
  <2>3. grub'.attempts # Unset
    BY <1>7, <2>2, LimitAssumption DEF Unset
  <2>4. Boots(running)'
    BY <1>0, <1>1 DEF Intact, RunningIntact, Boots
  <2>5. ASSUME NEW q \in Proc, Writer(q)' PROVE Tgt(q)' # running
    <3>1. q # p
      BY <1>1, <1>3, <2>2, <2>5 DEF Writer, WriteLabel
    <3>2. QED
      BY <1>0, <1>3, <2>5, <3>1 DEF Intact, WritesStandby, Writes, Writer, Tgt
  <2>6. QED
    BY <1>5, <1>7, <2>2, <2>3, <2>4, <2>5 DEF Settled, WayBack
<1>14. QED
  BY <1>9, <1>11, <1>12, <1>13

\* A failed or killed operation.
LEMMA SteadyBroken ==
  ASSUME Guarded, NEW p \in Proc, Fail(p) \/ Kill(p), running' = running
  PROVE  Steady'
<1>0. TypeOK /\ Intact /\ InOrder
  BY DEF Guarded, Intact
<1>1. PICK D \in SUBSET {p} : Damage(D)
  BY DEF Fail, Kill
<1>2. Goto(p, "idle") /\ up /\ "idle" \in Label /\ upset' = (upset \/ Exposed(p))
      /\ UNCHANGED <<grub, sig, up>>
  BY DEF Fail, Kill, machVars, Label
<1>3. ps'[p].pc = "idle" /\ \A q \in Proc \ {p} : ps'[q] = ps[q]
  BY <1>0, <1>2, GotoRest
<1>4. grub.state = "trying" => KeepsWayBack
  <2>1. D \in SUBSET Proc /\ (~upset' => \A q \in D : ~Exposed(q))
    BY <1>1, <1>2
  <2>2. QED
    BY <1>0, <1>1, <1>2, <2>1, DamageKeepsWayBack
<1>5. (upset => upset') /\ (~upset' => ps[p].pc \notin ArmLabel \ {"saved"})
  BY <1>2 DEF Exposed, Arming
<1>6. ps'[p].pc \notin ArmLabel /\ ps'[p].pc \notin WriteLabel
  BY <1>3 DEF ArmLabel, WriteLabel
<1>7. QED
  BY <1>2, <1>3, <1>4, <1>5, <1>6, SteadyByProcess

\* Off, with nothing under way, only what GRUB reads counts.
LEMMA SteadyIdle ==
  ASSUME \A p \in Proc : ps'[p].pc = "idle", sig'.pc \in {"done", "due"},
         ~upset' => Settled'
  PROVE  Steady'
BY DEF Steady, HalfArmed, HalfCleared, Alone, Arming, Clearing, ArmLabel

LEMMA SteadyPowerLoss ==
  ASSUME Guarded, PowerLoss, RunningKept
  PROVE  Steady'
<1>0. TypeOK /\ Intact /\ InOrder
  BY DEF Guarded, Intact
<1>1. PICK D \in SUBSET Busy : Damage(D)
  BY DEF PowerLoss
<1>2. /\ up /\ ~up' /\ grub' = grub /\ running' = running
      /\ \A p \in Proc : ps'[p].pc = "idle"
      /\ sig'.pc = "done"
  BY DEF PowerLoss, Idle, Done
<1>3. upset' = (upset \/ Clearing \/ \E p \in Proc : Exposed(p))
  BY DEF PowerLoss
<1>4. ASSUME ~upset' PROVE Settled'
  <2>1. Settled
    BY <1>3, <1>4 DEF Guarded, Steady, Rewritten, Exposed
  <2>2. CASE grub.state = "trying"
    <3>1. WayBack
      BY <2>1, <2>2 DEF Settled
    <3>2. D \in SUBSET Proc /\ (~upset' => \A p \in D : ~Exposed(p))
      BY <1>1, <1>3 DEF Busy
    <3>3. Boots(grub.fallback)'
      BY <1>0, <1>1, <1>2, <1>4, <2>2, <3>1, <3>2, DamageKeepsWayBack DEF KeepsWayBack
    <3>4. \A p \in Proc : ~Writer(p)'
      BY <1>2 DEF Writer, WriteLabel
    <3>5. QED
      BY <1>2, <2>2, <3>1, <3>3, <3>4 DEF Settled, WayBack
  <2>3. CASE grub.state # "trying"
    <3>1. grub.saved = running /\ Boots(running)
      BY <1>0, <1>2, <2>1, <2>3 DEF Settled, Intact, RunningIntact
    <3>2. Boots(grub.saved)'
      BY <1>2, <3>1 DEF RunningKept, Boots
    <3>3. QED
      BY <1>2, <2>3, <3>2 DEF Settled
  <2>4. QED
    BY <2>2, <2>3
<1>5. QED
  BY <1>2, <1>4, SteadyIdle

LEMMA SteadyBoot ==
  ASSUME Guarded, BootUp \/ BootFails
  PROVE  Steady'
<1>0. TypeOK /\ Intact
  BY DEF Guarded, Intact
<1>1. ~up /\ CountAttempt /\ UNCHANGED <<content, kernel, initrd, ps, upset>>
  BY DEF BootUp, BootFails, diskVars
<1>2. \A p \in Proc : ps[p].pc = "idle"
  BY <1>0, <1>1 DEF Intact, OffIdle
<1>3. sig.pc = "done" /\ sig'.pc \in {"done", "due"}
  BY <1>1 DEF Guarded, SignalOff, BootUp, BootFails, Done
<1>4. ~Rewritten
  BY <1>2, <1>3 DEF Rewritten, Arming, ArmLabel, Clearing
<1>5. grub \in GrubEnv /\ grub' \in GrubEnv
  BY <1>0, <1>1, CountType DEF TypeOK
<1>6. /\ grub'.saved = grub.saved /\ grub'.fallback = grub.fallback /\ grub'.state = grub.state
      /\ grub.attempts # Unset => grub'.attempts # Unset
  BY <1>1, <1>5, LimitAssumption DEF CountAttempt, GrubEnv, Unset
<1>7. ASSUME ~upset' PROVE Settled'
  <2>1. Settled
    BY <1>1, <1>4, <1>7 DEF Guarded, Steady
  <2>2. CASE grub.state = "trying"
    <3>1. WayBack
      BY <2>1, <2>2 DEF Settled
    <3>2. Boots(grub.fallback)'
      BY <1>1, <1>6, <3>1 DEF WayBack, Boots
    <3>3. \A p \in Proc : ~Writer(p)'
      BY <1>1, <1>2 DEF Writer, WriteLabel
    <3>4. QED
      BY <1>6, <2>2, <3>1, <3>2, <3>3 DEF Settled, WayBack
  <2>3. CASE grub.state # "trying"
    <3>1. Boots(grub.saved)
      BY <1>1, <2>1, <2>3 DEF Settled
    <3>2. BootUp
      BY <2>3 DEF BootFails
    <3>3. up' /\ running' = grub.saved
      BY <2>3, <3>2 DEF BootUp, GrubChoices
    <3>4. QED
      BY <1>6, <2>3, <3>3 DEF Settled
  <2>4. QED
    BY <2>2, <2>3
<1>8. QED
  BY <1>1, <1>2, <1>3, <1>7, SteadyIdle

\* Steps of the boot signal that leave grubenv alone.
LEMMA SteadyBySignal ==
  ASSUME Guarded, UNCHANGED <<content, kernel, initrd, grub, machVars, ps>>, upset => upset',
         ~upset' => (sig'.pc = "saved" => sig'.slot = running),
         sig'.pc \notin {"confirmed", "attempts", "fallback"}, ~Clearing
  PROVE  Steady'
<1> SUFFICES ASSUME ~upset' PROVE HalfArmed' /\ HalfCleared' /\ Alone' /\ (~Rewritten' => Settled')
  BY DEF Steady
<1>1. HalfArmed /\ HalfCleared /\ Alone /\ (~Rewritten => Settled)
  BY DEF Guarded, Steady
<1>2. ~Clearing'
  BY DEF Clearing
<1>3. HalfArmed' /\ Alone' /\ HalfCleared'
  BY <1>1, <1>2 DEF HalfArmed, Alone, HalfCleared, Arming, Tgt, machVars, Clearing
<1>4. ASSUME ~Rewritten' PROVE Settled'
  BY <1>1, <1>4 DEF Rewritten, Arming, Settled, WayBack, Writer, Tgt, Boots, machVars
<1>5. QED
  BY <1>3, <1>4

\* The four calls of the boot signal.
LEMMA SteadyClear ==
  ASSUME Guarded, SignalSaved \/ SignalConfirmed \/ SignalAttempts \/ SignalFallback
  PROVE  Steady'
<1> USE DEF machVars, diskVars
<1>0. TypeOK /\ Intact
  BY DEF Guarded, Intact
<1> SUFFICES ASSUME ~upset' PROVE HalfArmed' /\ HalfCleared' /\ Alone' /\ (~Rewritten' => Settled')
  BY DEF Steady
<1>1. PICK n \in {"confirmed", "attempts", "fallback", "write"} :
        /\ SigGoto(n) /\ UNCHANGED <<content, kernel, initrd, up, running, ps>>
        /\ up /\ ~upset /\ \A p \in Proc : ~Arming(p)
        /\ \/ sig.pc = "saved" /\ n = "confirmed" /\ grub' = [grub EXCEPT !.saved = sig.slot]
           \/ sig.pc = "confirmed" /\ n = "attempts" /\ grub' = [grub EXCEPT !.state = "confirmed"]
           \/ sig.pc = "attempts" /\ n = "fallback" /\ grub' = [grub EXCEPT !.attempts = Unset]
           \/ sig.pc = "fallback" /\ n = "write" /\ grub' = [grub EXCEPT !.fallback = "unset"]
  BY DEF SignalSaved, SignalConfirmed, SignalAttempts, SignalFallback, Clear, SigAt
<1>2. sig'.pc = n /\ sig'.slot = sig.slot
  BY <1>0, <1>1 DEF SigGoto, TypeOK, SigState
<1>3. HalfArmed /\ HalfCleared
  BY <1>1 DEF Guarded, Steady
<1>4. grub \in GrubEnv
  BY <1>0 DEF TypeOK
<1>5. sig.slot = running
  BY <1>1, <1>3 DEF HalfCleared
<1>6. grub'.saved = running
  BY <1>1, <1>3, <1>4, <1>5 DEF GrubEnv, HalfCleared, Clearing
<1>7. n \in {"attempts", "fallback", "write"} => grub'.state # "trying"
  BY <1>1, <1>3, <1>4 DEF GrubEnv, HalfCleared
<1>8. \A p \in Proc : ~Arming(p)'
  BY <1>1 DEF Arming
<1>9. HalfCleared'
  BY <1>1, <1>2, <1>5, <1>6, <1>7 DEF HalfCleared
<1>10. HalfArmed'
  BY <1>1, <1>3, <1>8 DEF HalfArmed, Arming, Tgt, ArmLabel
<1>11. Alone'
  BY <1>8 DEF Alone
<1>12. ASSUME ~Rewritten' PROVE Settled'
  <2>1. n = "write"
    BY <1>1, <1>2, <1>12 DEF Rewritten, Clearing
  <2>2. QED
    BY <1>1, <1>6, <1>7, <2>1 DEF Settled
<1>13. QED
  BY <1>9, <1>10, <1>11, <1>12

LEMMA SteadySignal ==
  ASSUME Guarded, SignalAgain \/ Signal
  PROVE  Steady'
<1> USE DEF SigAt, SigGoto, fileVars, diskVars
<1>1. CASE SignalSaved \/ SignalConfirmed \/ SignalAttempts \/ SignalFallback
  BY <1>1, SteadyClear
<1>2. CASE SignalRead
  <2>1. PICK d \in Detected :
          /\ sig' = [pc |-> "saved", slot |-> d, rev |-> recovered', snap |-> Loaded]
          /\ upset' = (upset \/ d # running)
    BY <1>2 DEF SignalRead
  <2>2. sig'.pc = "saved" /\ sig'.slot = d /\ sig.pc = "due"
    BY <1>2, <2>1 DEF SignalRead
  <2>3. UNCHANGED <<content, kernel, initrd, grub, machVars, ps>>
    BY <1>2 DEF SignalRead
  <2>4. QED
    BY <2>1, <2>2, <2>3, SteadyBySignal DEF Clearing
<1>3. ASSUME NEW l \in {"due", "sync", "copy", "done"}, SigGoto(l), ~Clearing,
             UNCHANGED <<content, kernel, initrd, grub, machVars, ps, upset>>
      PROVE  Steady'
  <2>1. sig'.pc = l
    BY <1>3 DEF Guarded, Intact, TypeOK, SigState, Done
  <2>2. QED
    BY <1>3, <2>1, SteadyBySignal
<1>4. CASE SignalAgain
  BY <1>3, <1>4 DEF SignalAgain, Clearing
<1>5. CASE SignalWrite
  BY <1>3, <1>5 DEF SignalWrite, Clearing
<1>6. CASE SignalSync
  BY <1>3, <1>6 DEF SignalSync, Clearing
<1>7. CASE SignalCopy
  BY <1>3, <1>7 DEF SignalCopy, Clearing
<1>8. QED
  BY <1>1, <1>2, <1>4, <1>5, <1>6, <1>7 DEF Signal

LEMMA SteadyStep ==
  ASSUME Guarded, [Next]_vars
  PROVE  Steady'
<1>1. CASE PowerLoss
  <2>1. up
    BY <1>1 DEF PowerLoss
  <2>2. QED
    BY <1>1, <2>1, StepsSpareRunning, SteadyPowerLoss DEF Guarded
<1>2. CASE BootUp \/ BootFails
  BY <1>2, SteadyBoot
<1>3. CASE SignalAgain \/ Signal
  BY <1>3, SteadySignal
<1>4. ASSUME NEW p \in Proc, Apply(p) \/ Shared(p) \/ Others(p) \/ Fail(p) \/ Kill(p)
      PROVE  Steady'
  <2>1. up
    BY <1>4 DEF Apply, ApplyBegin, Begin, ApplyFormat, ApplyMount, ApplyExtract, ApplyKernel,
       ApplyInitrd, ApplyRecord, ApplyClean, Shared, Refuse, CopyIdentity, Umount, ArmSaved,
       ArmFallback, ArmTrying, ArmAttempts, Arm, Others, RollbackBegin, RollbackStamp,
       SyncBegin, SyncMount, Fail, Kill, At
  <2>2. running' = running
    BY <2>1, StepsSpareRunning DEF Guarded, RunningKept
  <2>3. QED
    BY <1>4, <2>2, SteadyApply, SteadyShared, SteadyRollback, SteadyArm, SteadyBroken
       DEF Shared, Others
<1>5. CASE UNCHANGED <<content, kernel, initrd, grub, machVars, ps, sig, upset>>
  BY <1>5 DEF Guarded, Steady, HalfArmed, HalfCleared, Alone, Rewritten, Settled, WayBack,
     Writer, Boots, Arming, Clearing, Tgt, machVars
<1>6. QED
  BY <1>1, <1>2, <1>3, <1>4, <1>5 DEF Next, vars, diskVars, fileVars, Stage, ChangeIdentity

LEMMA GuardedStep == Guarded /\ [Next]_vars => Guarded'
BY IntactStep, InOrderStep, SignalOffStep, SteadyStep DEF Guarded

LEMMA GuardedInit == Init => Guarded
<1> SUFFICES ASSUME Init PROVE Guarded
  OBVIOUS
<1>1. Factory \in Good /\ <<Factory, Factory>> \in Compat
  BY ImagesAssumption
<1>2. \A s \in Slot : Boots(s)
  BY <1>1 DEF Init, Boots
<1>3. (\A p \in Proc : ps[p].pc = "idle") /\ sig.pc = "done"
  BY DEF Init, Idle, Done
<1>4. InOrder /\ SignalOff
  BY <1>3 DEF InOrder, SignalOff
<1>5. Settled
  BY <1>2 DEF Init, Settled
<1>6. Steady
  BY <1>3, <1>5 DEF Steady, HalfArmed, HalfCleared, Alone, Arming, Clearing, ArmLabel
<1>7. QED
  BY <1>4, <1>6, IntactInit DEF Guarded

\* Where grubenv was not torn, raced or misdirected, and the fallback of a
\* trial not overwritten, GRUB left alone reaches a slot that boots: with any
\* number of processes, whatever fails and whenever power is lost.
THEOREM AlwaysRecoverable == Spec => []Recoverable
<1>1. Guarded => Recoverable
  <2> SUFFICES ASSUME Guarded, ~upset, ~Clearing, \A p \in Proc : ~Arming(p)
               PROVE  ReachesGoodSlot
    BY DEF Recoverable
  <2>1. Settled
    BY DEF Guarded, Steady, Rewritten
  <2>2. CASE grub.state = "trying"
    <3>1. WayBack /\ grub.fallback # "unset"
      BY <2>1, <2>2 DEF Settled, WayBack
    <3>2. QED
      BY <2>2, <3>1 DEF WayBack, ReachesGoodSlot, FallbackEntry
  <2>3. CASE grub.state # "trying"
    BY <2>1, <2>3 DEF Settled, Guarded, Intact, RunningIntact, ReachesGoodSlot
  <2>4. QED
    BY <2>2, <2>3
<1>2. QED
  BY <1>1, GuardedInit, GuardedStep, PTL DEF Spec

-----------------------------------------------------------------------------
(* The identity files, where no operation is interrupted. *)

\* Slot s is being filled, and its identity files are still to be copied.
Filling(s) == \E p \in Proc : /\ ps[p].pc \in {"mount", "extract", "identity"}
                              /\ ps[p].op # "sync" /\ Tgt(p) = s

\* Only such a slot has the identity files of the image.
Stamping == \A s \in Slot : id[s] = "default" => Filling(s)

LEMMA StampingRunning ==
  ASSUME Intact, Stamping
  PROVE  IF up THEN id[running] # "default" ELSE \A s \in Slot : id[s] # "default"
<1>1. \A s \in Slot : Filling(s) => up /\ s # running
  BY DEF Filling, Intact, WritesStandby, Writes, OffIdle, WriteLabel
<1>2. QED
  BY <1>1 DEF Stamping, Intact, TypeOK

\* Other processes fill what they filled.
LEMMA StampingBy ==
  ASSUME Stamping, NEW p \in Proc, \A q \in Proc \ {p} : ps'[q] = ps[q],
         \A s \in Slot : id'[s] = "default" =>
           \/ id[s] = "default" /\ ~(Tgt(p) = s /\ ps[p].pc \in {"mount", "extract", "identity"})
           \/ /\ ps'[p].pc \in {"mount", "extract", "identity"} /\ ps'[p].op # "sync"
              /\ ps'[p].tgt = s
  PROVE  Stamping'
<1> SUFFICES ASSUME NEW s \in Slot, id'[s] = "default" PROVE Filling(s)'
  BY DEF Stamping
<1>1. CASE /\ ps'[p].pc \in {"mount", "extract", "identity"} /\ ps'[p].op # "sync"
           /\ ps'[p].tgt = s
  BY <1>1 DEF Filling, Tgt
<1>2. CASE id[s] = "default" /\ ~(Tgt(p) = s /\ ps[p].pc \in {"mount", "extract", "identity"})
  <2>1. PICK q \in Proc : /\ ps[q].pc \in {"mount", "extract", "identity"}
                          /\ ps[q].op # "sync" /\ Tgt(q) = s
    BY <1>2 DEF Stamping, Filling
  <2>2. q # p
    BY <1>2, <2>1
  <2>3. QED
    BY <2>1, <2>2 DEF Filling, Tgt
<1>3. QED
  BY <1>1, <1>2

LEMMA StampingStep ==
  ASSUME Intact, InOrder, Stamping, [Next]_vars, Events \cap {"power", "fail", "kill"} = {}
  PROVE  Stamping'
<1> DEFINE Fill == {"mount", "extract", "identity"}
<1>0. TypeOK
  BY DEF Intact
<1>1. CASE UNCHANGED <<id, ps>>
  BY <1>1 DEF Stamping, Filling, Tgt
<1>2. CASE ChangeIdentity
  BY <1>2 DEF ChangeIdentity, Stamping, Filling, Tgt
<1>3. CASE SignalCopy
  <2>1. up /\ ps' = ps /\ id' = [id EXCEPT ![Other(sig.slot)] = id[running]]
    BY <1>3 DEF SignalCopy, SigAt
  <2>2. id[running] # "default"
    BY <2>1, StampingRunning
  <2>3. \A s \in Slot : id'[s] = "default" => id[s] = "default"
    BY <1>0, <2>1, <2>2 DEF TypeOK
  <2>4. QED
    BY <2>1, <2>3 DEF Stamping, Filling, Tgt
<1>4. CASE PowerLoss
  <2>1. Busy = {} /\ up
    BY <1>4 DEF PowerLoss
  <2>2. id' = id
    BY <1>4 DEF PowerLoss, Damage
  <2>3. \A s \in Slot : ~Filling(s)
    BY <2>1 DEF Busy, Filling
  <2>4. QED
    BY <2>2, <2>3 DEF Stamping
<1>5. ASSUME NEW p \in Proc, Fail(p) \/ Kill(p) PROVE Stamping'
  BY <1>5 DEF Fail, Kill
<1> USE DEF At, Tgt, diskVars, fileVars, machVars
<1>6. ASSUME NEW p \in Proc, NEW l \in Label, Goto(p, l), id' = id,
             ps[p].pc \in Fill /\ ps[p].op # "sync" => l \in Fill
      PROVE  Stamping'
  <2>1. /\ \A q \in Proc \ {p} : ps'[q] = ps[q]
        /\ ps'[p].pc = l
        /\ l # "idle" => ps'[p].op = ps[p].op /\ ps'[p].tgt = ps[p].tgt
    BY <1>0, <1>6, GotoRest
  <2>2. SUFFICES ASSUME NEW s \in Slot, id'[s] = "default" PROVE Filling(s)'
    BY DEF Stamping
  <2>3. PICK q \in Proc : ps[q].pc \in Fill /\ ps[q].op # "sync" /\ ps[q].tgt = s
    BY <1>6, <2>2 DEF Stamping, Filling
  <2>4. ps'[q].pc \in Fill /\ ps'[q].op # "sync" /\ ps'[q].tgt = s
    BY <1>6, <2>1, <2>3
  <2>5. QED
    BY <2>4 DEF Filling
<1>7. ASSUME NEW p \in Proc, Apply(p) PROVE Stamping'
  <2>1. CASE ApplyBegin(p)
    <3>1. ps[p].pc = "idle" /\ id' = id /\ \A q \in Proc \ {p} : ps'[q] = ps[q]
      BY <1>0, <2>1, BeginRest DEF ApplyBegin, Begin
    <3>2. QED
      BY <3>1, StampingBy
  <2>2. CASE ApplyFormat(p)
    <3>1. Goto(p, "mount") /\ "mount" \in Label /\ ps[p].pc = "format"
          /\ id' = [id EXCEPT ![Tgt(p)] = "default"]
      BY <2>2 DEF ApplyFormat, Label, WriteLabel
    <3>2. /\ ps'[p].pc = "mount" /\ ps'[p].op # "sync" /\ ps'[p].tgt = ps[p].tgt
          /\ \A q \in Proc \ {p} : ps'[q] = ps[q]
      BY <1>0, <3>1, GotoRest DEF InOrder
    <3>3. QED
      BY <1>0, <3>1, <3>2, StampingBy DEF TypeOK
  <2>3. CASE ApplyMount(p)
    BY <1>6, <2>3 DEF ApplyMount, Label, WriteLabel
  <2>4. CASE ApplyExtract(p)
    <3>1. Goto(p, "identity") /\ "identity" \in Label /\ ps[p].pc = "extract"
          /\ id' = [id EXCEPT ![Tgt(p)] = "default"]
      BY <2>4 DEF ApplyExtract, Label, WriteLabel
    <3>2. /\ ps'[p].pc = "identity" /\ ps'[p].op # "sync" /\ ps'[p].tgt = ps[p].tgt
          /\ \A q \in Proc \ {p} : ps'[q] = ps[q]
      BY <1>0, <3>1, GotoRest DEF InOrder
    <3>3. QED
      BY <1>0, <3>1, <3>2, StampingBy DEF TypeOK
  <2>5. CASE ApplyKernel(p) \/ ApplyInitrd(p)
    BY <1>6, <2>5 DEF ApplyKernel, ApplyInitrd, Label, WriteLabel
  <2>6. CASE ApplyRecord(p) \/ ApplyClean(p)
    BY <1>6, <2>6 DEF ApplyRecord, ApplyClean, Label, ArmLabel
  <2>7. QED
    BY <1>7, <2>1, <2>2, <2>3, <2>4, <2>5, <2>6 DEF Apply
<1>8. ASSUME NEW p \in Proc, Shared(p) PROVE Stamping'
  <2>1. CASE Refuse(p)
    BY <1>6, <2>1 DEF Refuse, Label
  <2>2. CASE CopyIdentity(p)
    <3>1. up /\ ps[p].pc = "identity" /\ id' = [id EXCEPT ![Tgt(p)] = id[running]]
      BY <2>2 DEF CopyIdentity
    <3>2. PICK l \in Label : Goto(p, l)
      BY <2>2 DEF CopyIdentity, Label, WriteLabel
    <3>3. \A q \in Proc \ {p} : ps'[q] = ps[q]
      BY <1>0, <3>2, GotoRest
    <3>4. id[running] # "default"
      BY <3>1, StampingRunning
    <3>5. \A s \in Slot : id'[s] = "default" => id[s] = "default" /\ Tgt(p) # s
      BY <1>0, <3>1, <3>4 DEF TypeOK
    <3>6. QED
      BY <3>3, <3>5, StampingBy
  <2>3. CASE Umount(p)
    BY <1>6, <2>3 DEF Umount, Label
  <2>4. CASE ArmSaved(p) \/ ArmFallback(p) \/ ArmTrying(p) \/ ArmAttempts(p)
    BY <1>6, <2>4 DEF ArmSaved, ArmFallback, ArmTrying, ArmAttempts, Arm, Label, ArmLabel
  <2>5. QED
    BY <1>8, <2>1, <2>2, <2>3, <2>4 DEF Shared
<1>9. ASSUME NEW p \in Proc, Others(p) PROVE Stamping'
  <2>1. CASE RollbackBegin(p)
    <3>1. ps[p].pc = "idle" /\ id' = id /\ \A q \in Proc \ {p} : ps'[q] = ps[q]
      BY <1>0, <2>1, BeginRest DEF RollbackBegin, Begin
    <3>2. QED
      BY <3>1, StampingBy
  <2>2. CASE RollbackStamp(p) \/ SyncMount(p)
    BY <1>6, <2>2 DEF RollbackStamp, SyncMount, Label, WriteLabel
  <2>3. CASE SyncBegin(p)
    <3>1. ps[p].pc = "idle" /\ id' = id /\ \A q \in Proc \ {p} : ps'[q] = ps[q]
      BY <1>0, <2>3, SyncRest DEF SyncBegin
    <3>2. QED
      BY <3>1, StampingBy
  <2>4. QED
    BY <1>9, <2>1, <2>2, <2>3 DEF Others
<1>10. QED
  BY <1>1, <1>2, <1>3, <1>4, <1>5, <1>7, <1>8, <1>9 DEF Next, vars, Stage, BootUp, BootFails,
     SignalAgain, Signal, SignalRead, SignalSaved, SignalConfirmed, SignalAttempts,
     SignalFallback, Clear, SignalWrite, SignalSync

\* The machine never runs with the identity files of an image, with any number
\* of processes that apply and synchronise at once, as long as none of them is
\* interrupted (the code does not repair a slot an interruption leaves).
THEOREM IdentityKept ==
  ASSUME Events \cap {"power", "fail", "kill"} = {}
  PROVE  Spec => []BootedIdentity
<1> DEFINE IInv == Intact /\ InOrder /\ Stamping
<1>1. Init => IInv
  <2>1. Init => InOrder /\ Stamping
    BY DEF Init, InOrder, Stamping, Idle
  <2>2. QED
    BY <2>1, IntactInit
<1>2. IInv /\ [Next]_vars => IInv'
  BY IntactStep, InOrderStep, StampingStep
<1>3. IInv => BootedIdentity
  BY StampingRunning DEF BootedIdentity
<1>4. QED
  BY <1>1, <1>2, <1>3, PTL DEF Spec

=============================================================================
