------------------------ MODULE UpdateTransactionProofs ------------------------
(* Theorems about UpdateTransaction, for any number of requests, any versions, *)
(* selections, settings, failures, crashes and reboots.                        *)
EXTENDS UpdateTransaction, TLAPS

-----------------------------------------------------------------------------
(* What an operation holds at each of its steps.                           *)

Shape(r) ==
  /\ r \in OpRecord
  /\ r.pc = "lock" /\ r.op = "rollback" => r.sel \cap Runtime # {}
  /\ r.pc \in {"archive", "snapshot", "stage"} => r.got # {}
  /\ r.pc \in {"archive", "snapshot", "stage", "deploy", "record"} =>
       \A c \in r.got : r.man[c] # None
  /\ r.pc \in {"snapshot", "restore", "unrecord"} =>
       r.todo # {} /\ r.todo \subseteq r.sel \cap Runtime
  /\ r.pc \in {"deploy", "record"} => r.todo # {} /\ r.todo \subseteq r.got

Sound == TypeOK /\ \A p \in Proc : Shape(ps[p])

LEMMA FirstIn ==
  ASSUME NEW S \in SUBSET Component, S # {}
  PROVE  First(S) \in S
BY DEF First, Component, Runtime

\* The baseline of a runtime component.
Base(s, c) == IF s.cur[c] # None THEN s.cur[c] ELSE Built

LEMMA BaseForm ==
  ASSUME NEW s, NEW c \in Runtime
  PROVE  Baseline(s, c) = Base(s, c)
BY DEF Baseline, Base, Runtime

LEMMA Versions ==
  /\ None \in Version /\ Built \in Version /\ None # Built
  /\ NoVersion \in [Component -> Version] /\ Blank \in StateFile
  /\ Nobody \notin Proc
<1>1. None \in Version /\ Built \in Version /\ None # Built
  BY UpdateAssumption DEF None, Built, Version
<1>2. NoVersion \in [Component -> Version]
  BY <1>1 DEF NoVersion
<1>3. Blank \in StateFile
  BY <1>1, <1>2 DEF Blank, StateFile
<1>4. QED
  BY <1>1, <1>2, <1>3, UpdateAssumption DEF Nobody, Proc

LEMMA BaselineType ==
  ASSUME TypeOK, NEW s \in StateFile, NEW c \in Component
  PROVE  Baseline(s, c) \in Version
<1>1. s.cur[c] \in Version /\ image.slot \in Version
  BY DEF StateFile, TypeOK
<1>2. QED
  BY <1>1, Versions DEF Baseline

LEMMA IdleShape == Shape(Idle) /\ Idle.pc = "idle" /\ "idle" \notin Working
<1>1. Idle \in OpRecord
  BY Versions DEF Idle, OpRecord, Label, Request
<1>2. QED
  BY <1>1 DEF Shape, Idle, Working, Label

\* What an operation ends as.
Ended(r) == Shape(r) /\ r.pc \notin Working

LEMMA EndedForms ==
  /\ Ended(Idle) /\ Ended([Idle EXCEPT !.pc = "activate"])
  /\ \A S \in SUBSET Component : Ended([Idle EXCEPT !.pc = "schedule", !.got = S])
<1>1. Idle \in OpRecord /\ Ended(Idle)
  BY IdleShape DEF Shape, Ended
<1>2. PICK r : r = [Idle EXCEPT !.pc = "activate"]
  OBVIOUS
<1>3. r \in OpRecord /\ r.pc = "activate"
  BY <1>1, <1>2 DEF OpRecord, Label
<1>4. Ended(r)
  BY <1>3 DEF Ended, Shape, Working, Label
<1>5. ASSUME NEW S \in SUBSET Component
      PROVE  Ended([Idle EXCEPT !.pc = "schedule", !.got = S])
  <2>1. PICK x : x = [Idle EXCEPT !.pc = "schedule", !.got = S]
    OBVIOUS
  <2>2. x \in OpRecord /\ x.pc = "schedule"
    BY <1>1, <2>1 DEF OpRecord, Label
  <2>3. Ended(x)
    BY <2>2 DEF Ended, Shape, Working, Label
  <2>4. QED
    BY <2>1, <2>3
<1>6. QED
  BY <1>1, <1>2, <1>4, <1>5

\* The variables that belong to no process.
Typed ==
  /\ published \in [Component -> Version]
  /\ deployed \in [Runtime -> Version] /\ snap \in [Runtime -> Version]
  /\ image \in [slot : Version, armed : Version, staged : Version]
  /\ file \in StateFile
  /\ left \in [asks : 0..MaxAsks, faults : 0..MaxFaults]
  /\ drift \subseteq Runtime /\ odd \subseteq Runtime

-----------------------------------------------------------------------------
(* What is recorded, installed and kept for a rollback.                    *)

\* What is true of the file f, the installed versions d and the rollback directories s when
\* r is the only operation at work: the record is true but for the component that has
\* just been replaced, the copy r.st agrees with the file, and so do the snapshots with what
\* each of them says, but for those r has taken and not yet recorded.
Holds(r, f, d, s, D, O) ==
  /\ \A c \in Runtime \ D :
       Base(f, c) = d[c] \/ (r.pc \in {"record", "unrecord"} /\ c = First(r.todo))
  /\ r.pc \in Working => \A c \in Runtime : r.st.cur[c] = f.cur[c]
  /\ r.pc = "record" /\ First(r.todo) \in Runtime => d[First(r.todo)] = r.man[First(r.todo)]
  /\ r.pc = "unrecord" =>
       /\ r.st.roll[First(r.todo)] # None
       /\ First(r.todo) \notin O => d[First(r.todo)] = r.st.roll[First(r.todo)]
  /\ \A c \in Runtime \ O : f.roll[c] # None =>
       s[c] \in {None, f.roll[c]} \/ (r.pc \in {"snapshot", "stage"} /\ c \in r.sel)
  /\ r.pc \in Working =>
       \A c \in Runtime \ O : r.st.roll[c] # None => s[c] \in {None, r.st.roll[c]}

\* Without a process of its own for a request, one operation is at work at a time.
Single(p) == \A q \in Proc : q # p => ps[q].pc \notin Working
Recording ==
  Cli = {} => \A p \in Proc : Single(p) => Holds(ps[p], file, deployed, snap, drift, odd)

Safe == Sound /\ Recording

LEMMA UpdateStarts == Init => Safe
<1> SUFFICES ASSUME Init PROVE Safe
  OBVIOUS
<1>1. /\ published = NoVersion /\ file = Blank /\ lock = Nobody /\ ps = [p \in Proc |-> Idle]
      /\ deployed = [c \in Runtime |-> Built] /\ snap = [c \in Runtime |-> None]
      /\ image = [slot |-> Built, armed |-> None, staged |-> None]
      /\ left = [asks |-> MaxAsks, faults |-> MaxFaults] /\ drift = {} /\ odd = {}
  BY DEF Init
<1>2. left \in [asks : 0..MaxAsks, faults : 0..MaxFaults]
  <2>1. MaxAsks \in 0..MaxAsks /\ MaxFaults \in 0..MaxFaults
    BY UpdateAssumption
  <2>2. QED
    BY <1>1, <2>1
<1>3. ps \in [Proc -> OpRecord] /\ \A p \in Proc : Shape(ps[p]) /\ ps[p].pc = "idle"
  BY <1>1, IdleShape DEF Shape
<1>4. \A p \in Daemon : p \in Proc /\ p # Nobody
  BY Versions DEF Daemon
<1>5. TypeOK
  BY <1>1, <1>2, <1>3, <1>4, IdleShape, Versions DEF TypeOK
<1>6. \A c \in Runtime : /\ Base(file, c) = deployed[c] /\ snap[c] = None
  BY <1>1 DEF Base, Blank, NoVersion, Component
<1>7. \A p \in Proc : Holds(ps[p], file, deployed, snap, drift, odd)
  BY <1>3, <1>6, IdleShape DEF Holds
<1>8. QED
  BY <1>3, <1>5, <1>7 DEF Safe, Sound, Recording

-----------------------------------------------------------------------------
(* What a step of an operation has to show.                                *)

\* The lock goes with what p does.
Locks(p, r) ==
  \/ lock' = lock /\ (r.pc \in Working <=> ps[p].pc \in Working)
  \/ p \in Daemon /\ lock = Nobody /\ lock' = p /\ r.pc \in Working
  \/ lock' = (IF lock = p THEN Nobody ELSE lock) /\ r.pc \notin Working
  \/ p \in Cli /\ lock' = lock

LEMMA TypedBy == TypeOK => Typed
BY DEF TypeOK, Typed

LEMMA StepSound ==
  ASSUME Sound, NEW p \in Proc, NEW r, Set(p, r), Shape(r), Locks(p, r), Typed'
  PROVE  Sound'
<1>1. /\ ps \in [Proc -> OpRecord] /\ lock \in Daemon \union {Nobody}
      /\ \A q \in Daemon : ps[q].pc \in Working <=> lock = q
      /\ \A q \in Proc : Shape(ps[q]) /\ Daemon \subseteq Proc
  BY DEF Sound, TypeOK, Daemon
<1>2. /\ ps' \in [Proc -> OpRecord] /\ ps'[p] = r /\ \A q \in Proc : q # p => ps'[q] = ps[q]
  BY <1>1 DEF Set, Shape
<1>3. \A q \in Proc : Shape(ps'[q])
  BY <1>1, <1>2
<1>4. Nobody \notin Daemon /\ (p \in Cli => p \notin Daemon)
  BY Versions DEF Daemon
<1>5. lock' \in Daemon \union {Nobody}
  BY <1>1 DEF Locks
<1>6. ASSUME NEW q \in Daemon PROVE ps'[q].pc \in Working <=> lock' = q
  <2>1. CASE q = p
    BY <1>1, <1>2, <1>4, <2>1 DEF Locks
  <2>2. CASE q # p
    BY <1>1, <1>2, <1>4, <2>2 DEF Locks
  <2>3. QED
    BY <2>1, <2>2
<1>7. TypeOK'
  BY <1>2, <1>5, <1>6 DEF TypeOK, Typed
<1>8. QED
  BY <1>3, <1>7 DEF Sound

\* The operation at work goes on, or begins, or ends.
LEMMA StepSafe ==
  ASSUME Safe, NEW p \in Proc, NEW r, Set(p, r), Shape(r), Locks(p, r), Typed',
         ps[p].pc \in Working \/ (p \in Daemon => lock = Nobody),
         Holds(ps[p], file, deployed, snap, drift, odd)
           => Holds(r, file', deployed', snap', drift', odd')
  PROVE  Safe'
<1>1. Sound'
  BY StepSound DEF Safe
<1>2. ASSUME Cli = {}, NEW q \in Proc, Single(q)'
      PROVE  Holds(ps'[q], file', deployed', snap', drift', odd')
  <2>1. Proc = Daemon /\ Nobody \notin Proc
    BY <1>2, Versions DEF Daemon
  <2>2. \A x \in Proc : x # p => ps[x].pc \notin Working
    BY <2>1 DEF Safe, Sound, TypeOK
  <2>3. Holds(r, file', deployed', snap', drift', odd')
    BY <1>2, <2>2 DEF Safe, Recording, Single
  <2>4. ps'[p] = r /\ \A x \in Proc : x # p => ps'[x] = ps[x]
    BY DEF Set, Safe, Sound, TypeOK
  <2>5. CASE q = p
    BY <2>3, <2>4, <2>5
  <2>6. CASE q # p
    <3>1. r.pc \notin Working /\ ps'[q].pc \notin Working
      BY <1>2, <2>2, <2>4, <2>6 DEF Single
    <3>2. QED
      BY <2>3, <3>1 DEF Holds, Working, Label
  <2>7. QED
    BY <2>5, <2>6
<1>3. QED
  BY <1>1, <1>2 DEF Safe, Recording

\* A task that is not at work does not come to work, and leaves the record alone.
LEMMA RestSafe ==
  ASSUME Safe, NEW p \in Proc, NEW r, Set(p, r), Shape(r), Typed',
         ps[p].pc \notin Working, r.pc \notin Working, lock' = lock,
         UNCHANGED <<file, deployed, snap, drift, odd>>
  PROVE  Safe'
<1>1. Sound'
  BY StepSound DEF Safe, Locks
<1>2. ps'[p] = r /\ \A x \in Proc : x # p => ps'[x] = ps[x]
  BY DEF Set, Safe, Sound, TypeOK
<1>3. \A x \in Proc : ps'[x].pc \in Working <=> ps[x].pc \in Working
  BY <1>2
<1>4. ASSUME Cli = {}, NEW q \in Proc, Single(q)'
      PROVE  Holds(ps'[q], file', deployed', snap', drift', odd')
  <2>1. Holds(ps[q], file, deployed, snap, drift, odd)
    BY <1>3, <1>4 DEF Single, Safe, Recording
  <2>2. CASE q = p
    BY <1>2, <2>1, <2>2 DEF Holds, Working, Label
  <2>3. CASE q # p
    BY <1>2, <2>1, <2>3
  <2>4. QED
    BY <2>2, <2>3
<1>5. QED
  BY <1>1, <1>4 DEF Safe, Recording

LEMMA FaultForm ==
  ASSUME TypeOK, NEW cause \in BOOLEAN, Fault(cause)
  PROVE  left' \in [asks : 0..MaxAsks, faults : 0..MaxFaults]
<1>1. left \in [asks : 0..MaxAsks, faults : 0..MaxFaults]
  BY DEF TypeOK
<1>2. CASE cause
  BY <1>1, <1>2 DEF Fault
<1>3. CASE ~cause
  <2>1. left.faults > 0 /\ left' = [left EXCEPT !.faults = left.faults - 1]
    BY <1>3 DEF Fault
  <2>2. left.faults - 1 \in 0..MaxFaults
    BY <1>1, <2>1, UpdateAssumption
  <2>3. QED
    BY <1>1, <2>1, <2>2
<1>4. QED
  BY <1>2, <1>3

LEMMA Fields ==
  ASSUME Safe, NEW p \in Proc
  PROVE  /\ ps[p] \in OpRecord /\ Shape(ps[p]) /\ Typed /\ TypeOK
         /\ ps[p].st \in StateFile /\ ps[p].got \in SUBSET Component
         /\ ps[p].sel \in SUBSET Component /\ ps[p].todo \in SUBSET Component
         /\ ps[p].man \in [Component -> Version] /\ ps[p].pc \in Label
         /\ ps[p].op \in Request /\ ps[p].force \in BOOLEAN
         /\ ps \in [Proc -> OpRecord]
BY TypedBy DEF Safe, Sound, TypeOK, OpRecord

\* The operation at work returns, and saves its copy of the file.
LEMMA EndSafe ==
  ASSUME Safe, NEW p \in Proc, ps[p].pc \in Working \ {"record", "unrecord"},
         NEW r, Set(p, r), Ended(r), Unlock(p), Typed',
         \A c \in Runtime : /\ Base(file', c) = Base(ps[p].st, c)
                            /\ file'.roll[c] = ps[p].st.roll[c]
                            /\ snap'[c] \in {None, snap[c]},
         UNCHANGED <<deployed, drift, odd>>
  PROVE  Safe'
<1>1. Shape(r) /\ r.pc \notin Working /\ Locks(p, r)
  BY DEF Ended, Locks, Unlock
<1>2. r.pc \notin {"snapshot", "stage", "record", "unrecord"}
  BY <1>1 DEF Working, Label
<1>3. ASSUME Holds(ps[p], file, deployed, snap, drift, odd)
      PROVE  Holds(r, file', deployed', snap', drift', odd')
  <2>1. \A c \in Runtime \ drift : Base(file, c) = deployed[c]
    BY <1>3 DEF Holds
  <2>2. \A c \in Runtime : Base(ps[p].st, c) = Base(file, c)
    BY <1>3 DEF Holds, Base
  <2>3. \A c \in Runtime \ odd : ps[p].st.roll[c] # None => snap[c] \in {None, ps[p].st.roll[c]}
    BY <1>3 DEF Holds
  <2>4. \A c \in Runtime \ drift' : Base(file', c) = deployed'[c]
    BY <2>1, <2>2
  <2>5. \A c \in Runtime \ odd' : file'.roll[c] # None => snap'[c] \in {None, file'.roll[c]}
    BY <2>3
  <2>6. QED
    BY <1>1, <1>2, <2>4, <2>5 DEF Holds
<1>4. QED
  BY <1>1, <1>3, StepSafe

LEMMA FailsSafe ==
  ASSUME Safe, NEW p \in Proc, ps[p].pc \in Working \ {"record", "unrecord"},
         NEW ok \in BOOLEAN, file' = ps[p].st, Return(p, ok), Typed',
         \A c \in Runtime : snap'[c] \in {None, snap[c]},
         UNCHANGED <<deployed, drift, odd>>
  PROVE  Safe'
<1>1. PICK r : Set(p, r) /\ Ended(r) /\ Unlock(p)
  BY EndedForms DEF Return
<1>2. QED
  BY <1>1, EndSafe

-----------------------------------------------------------------------------
(* Requests and checks.                                                    *)

LEMMA AskSafe ==
  ASSUME Safe, NEW p \in Task, Ask(p)
  PROVE  Safe'
<1>1. p \in Proc
  BY DEF Proc
<1>2. PICK op \in Ops, sel \in Choices \union {{}}, f \in BOOLEAN :
        /\ op = "rollback" => sel \cap Runtime # {}
        /\ left.asks > 0 /\ left' = [left EXCEPT !.asks = left.asks - 1] /\ At(p, "idle")
        /\ Set(p, [Idle EXCEPT !.pc = "lock", !.op = op, !.sel = sel, !.force = f])
        /\ UNCHANGED <<published, disk, file, lock, drift, odd>>
  BY DEF Ask
<1>3. PICK r : r = [Idle EXCEPT !.pc = "lock", !.op = op, !.sel = sel, !.force = f]
  OBVIOUS
<1>4. sel \in SUBSET Component /\ op \in Request
  BY UpdateAssumption DEF Component, Runtime
<1>5. Idle \in OpRecord
  BY IdleShape DEF Shape
<1>6. r \in OpRecord /\ r.pc = "lock" /\ r.op = op /\ r.sel = sel
  BY <1>3, <1>4, <1>5 DEF OpRecord, Label
<1>7. Shape(r) /\ r.pc \notin Working /\ ps[p].pc \notin Working
  BY <1>2, <1>6 DEF Shape, Working, Label, At
<1>8. left' \in [asks : 0..MaxAsks, faults : 0..MaxFaults]
  <2>1. left \in [asks : 0..MaxAsks, faults : 0..MaxFaults]
    BY <1>1, Fields DEF Typed
  <2>2. left.asks - 1 \in 0..MaxAsks
    BY <1>2, <2>1, UpdateAssumption
  <2>3. QED
    BY <1>2, <2>1, <2>2
<1>9. Typed'
  BY <1>1, <1>2, <1>8, Fields DEF Typed, disk
<1>10. QED
  BY <1>1, <1>2, <1>3, <1>7, <1>9, RestSafe DEF disk

\* An operation takes the lock, and loads the file.
LEMMA EnterSafe ==
  ASSUME Safe, NEW p \in Proc, NEW r, Enter(p, r), Shape(r), ps[p].pc = "lock",
         r.pc \in Working \ {"snapshot", "stage", "record", "unrecord"},
         \A c \in Runtime : r.st.cur[c] = file.cur[c] /\ r.st.roll[c] = file.roll[c],
         UNCHANGED <<published, disk, hist>>
  PROVE  Safe'
<1>1. Locks(p, r)
  BY DEF Enter, Locks, Daemon
<1>2. Typed'
  BY Fields DEF Typed, disk, hist, Enter
<1>3. ASSUME Holds(ps[p], file, deployed, snap, drift, odd)
      PROVE  Holds(r, file', deployed', snap', drift', odd')
  BY <1>3 DEF Holds, disk, hist, Enter
<1>4. QED
  BY <1>1, <1>2, <1>3, StepSafe DEF Enter, Daemon

LEMMA CheckBeginSafe ==
  ASSUME Safe, NEW p \in Proc, CheckBegin(p)
  PROVE  Safe'
<1>1. PICK s : s = [file EXCEPT !.pending = file.pending /\ image.armed # None]
  OBVIOUS
<1>2. s \in StateFile /\ s.cur = file.cur /\ s.roll = file.roll
  BY <1>1, Fields DEF Typed, StateFile
<1>3. PICK r : r = [ps[p] EXCEPT !.pc = "query", !.st = s]
  OBVIOUS
<1>4. r \in OpRecord /\ r.pc = "query" /\ r.st = s
  <2>1. ps[p] \in OpRecord
    BY Fields
  <2>2. QED
    BY <1>2, <1>3, <2>1 DEF OpRecord, Label
<1>5. Shape(r)
  BY <1>4 DEF Shape
<1>6. Enter(p, r) /\ ps[p].pc = "lock" /\ UNCHANGED <<published, disk, hist>>
  BY <1>1, <1>3 DEF CheckBegin, At
<1>7. QED
  BY <1>2, <1>4, <1>5, <1>6, EnterSafe DEF Working, Label

LEMMA ApplyBeginSafe ==
  ASSUME Safe, NEW p \in Proc, ApplyBegin(p)
  PROVE  Safe'
<1>1. PICK r : r = [ps[p] EXCEPT !.pc = "query", !.st = file]
  OBVIOUS
<1>2. r \in OpRecord /\ r.pc = "query" /\ r.st = file
  <2>1. ps[p] \in OpRecord /\ file \in StateFile
    BY Fields DEF Typed
  <2>2. QED
    BY <1>1, <2>1 DEF OpRecord, Label
<1>3. Shape(r)
  BY <1>2 DEF Shape
<1>4. Enter(p, r) /\ ps[p].pc = "lock" /\ UNCHANGED <<published, disk, hist>>
  BY <1>1 DEF ApplyBegin, At
<1>5. QED
  BY <1>2, <1>3, <1>4, EnterSafe DEF Working, Label

LEMMA RollbackBeginSafe ==
  ASSUME Safe, NEW p \in Proc, RollbackBegin(p)
  PROVE  Safe'
<1>1. PICK r : r = [ps[p] EXCEPT !.pc = "restore", !.st = file, !.todo = ps[p].sel \cap Runtime]
  OBVIOUS
<1>2. /\ r \in OpRecord /\ r.pc = "restore" /\ r.st = file /\ r.sel = ps[p].sel
      /\ r.todo = ps[p].sel \cap Runtime
  <2>1. ps[p] \in OpRecord /\ file \in StateFile /\ ps[p].sel \cap Runtime \in SUBSET Component
    BY Fields DEF Typed
  <2>2. QED
    BY <1>1, <2>1 DEF OpRecord, Label
<1>3. Shape(r)
  BY <1>2, Fields DEF Shape, RollbackBegin, At
<1>4. Enter(p, r) /\ ps[p].pc = "lock" /\ UNCHANGED <<published, disk, hist>>
  BY <1>1 DEF RollbackBegin, At
<1>5. QED
  BY <1>2, <1>3, <1>4, EnterSafe DEF Working, Label

LEMMA RefuseSafe ==
  ASSUME Safe, NEW p \in Proc, Refuse(p)
  PROVE  Safe'
<1>1. /\ ps[p].pc = "lock" /\ Set(p, Idle) /\ (p \in Daemon => lock = Nobody)
      /\ UNCHANGED <<published, disk, file, hist>> /\ Unlock(p)
  BY DEF Refuse, Errs, At, Daemon
<1>2. Shape(Idle) /\ Idle.pc \notin Working
  BY IdleShape
<1>3. Locks(p, Idle)
  BY <1>1, <1>2 DEF Locks, Unlock
<1>4. Typed'
  BY <1>1, Fields DEF Typed, disk, hist
<1>5. ASSUME Holds(ps[p], file, deployed, snap, drift, odd)
      PROVE  Holds(Idle, file', deployed', snap', drift', odd')
  BY <1>1, <1>2, <1>5, IdleShape DEF Holds, disk, hist
<1>6. QED
  BY <1>1, <1>2, <1>3, <1>4, <1>5, StepSafe

LEMMA CheckEndSafe ==
  ASSUME Safe, NEW p \in Proc, CheckEnd(p)
  PROVE  Safe'
<1>1. /\ ps[p].pc = "query" /\ file' = Checked(ps[p].st) /\ Unlock(p)
      /\ Set(p, IF p = Checker THEN [Idle EXCEPT !.pc = "schedule", !.got = file'.avail] ELSE Idle)
      /\ UNCHANGED <<published, disk, hist>>
  BY DEF CheckEnd, At
<1>2. PICK s : s = ps[p].st
  OBVIOUS
<1>3. s \in StateFile /\ TypeOK /\ Typed
  BY <1>2, Fields
<1>4. PICK known : known = {c \in Component : published[c] # None}
  OBVIOUS
<1>5. PICK cur : cur = [c \in Component |-> IF c \in known THEN Baseline(s, c) ELSE s.cur[c]]
  OBVIOUS
<1>6. cur \in [Component -> Version]
  BY <1>3, <1>5, BaselineType DEF StateFile
<1>7. PICK avail \in SUBSET Component :
        avail = {c \in known : Updatable(s, c)} \union (s.avail \ (known \union {"rootfs"}))
  BY <1>3, <1>4 DEF StateFile
<1>15. PICK seen \in SUBSET Component : seen = s.seen \union known \union {"rootfs"}
  BY <1>3, <1>4 DEF StateFile, Component
<1>8. file' = [s EXCEPT !.seen = seen, !.cur = cur, !.avail = avail]
  BY <1>1, <1>2, <1>4, <1>5, <1>7, <1>15 DEF Checked
<1>9. file' \in StateFile /\ file'.cur = cur /\ file'.roll = s.roll /\ file'.avail = avail
  BY <1>3, <1>6, <1>8 DEF StateFile
<1>10. \A c \in Runtime : Base(file', c) = Base(s, c)
  <2>1. \A c \in Runtime : Baseline(s, c) = Base(s, c) /\ c \in Component
    BY BaseForm DEF Component
  <2>2. \A c \in Runtime : cur[c] \in {s.cur[c], Base(s, c)}
    BY <1>5, <2>1
  <2>3. QED
    BY <1>9, <2>2 DEF Base
<1>11. PICK r : Set(p, r) /\ Ended(r)
  BY <1>1, <1>9, EndedForms
<1>12. Typed'
  BY <1>1, <1>3, <1>9 DEF Typed, disk, hist
<1>13. ps[p].pc \in Working \ {"record", "unrecord"}
  BY <1>1 DEF Working, Label
<1>14. QED
  BY <1>1, <1>2, <1>9, <1>10, <1>11, <1>12, <1>13, EndSafe DEF disk, hist

-----------------------------------------------------------------------------
(* Updates.                                                                *)

\* The operation at work goes on.
LEMMA GoSafe ==
  ASSUME Safe, NEW p \in Proc, ps[p].pc \in Working, NEW r, Set(p, r), Shape(r),
         r.pc \in Working, lock' = lock, Typed',
         Holds(ps[p], file, deployed, snap, drift, odd)
           => Holds(r, file', deployed', snap', drift', odd')
  PROVE  Safe'
BY StepSafe DEF Locks

LEMMA DownloadSafe ==
  ASSUME Safe, NEW p \in Proc, Download(p)
  PROVE  Safe'
<1>1. ps[p].pc = "query" /\ UNCHANGED <<published, disk, hist>>
  BY DEF Download, At
<1>2. PICK got : got = {c \in ps[p].sel : Downloaded(ps[p].st, c)}
  OBVIOUS
<1>3. PICK man : man = [c \in Component |-> IF c \in got THEN published[c] ELSE None]
  OBVIOUS
<1>4. /\ got \in SUBSET Component /\ man \in [Component -> Version]
      /\ \A c \in got : man[c] # None
  <2>1. got \in SUBSET Component
    BY <1>2, Fields
  <2>2. published \in [Component -> Version]
    BY Fields DEF Typed
  <2>3. \A c \in got : published[c] # None
    BY <1>2 DEF Downloaded
  <2>4. QED
    BY <1>3, <2>1, <2>2, <2>3, Versions
<1>5. ps[p].pc \in Working \ {"record", "unrecord"}
  BY <1>1 DEF Working, Label
<1>6. CASE got = {}
  <2>1. file' = ps[p].st /\ Return(p, TRUE)
    BY <1>2, <1>3, <1>6 DEF Download
  <2>2. Typed'
    BY <1>1, <2>1, Fields DEF Typed, disk, hist
  <2>3. QED
    BY <1>1, <1>5, <2>1, <2>2, FailsSafe DEF disk, hist
<1>7. CASE got # {}
  <2>1. /\ Set(p, [ps[p] EXCEPT !.pc = "archive", !.got = got, !.man = man])
        /\ UNCHANGED <<file, lock>>
    BY <1>2, <1>3, <1>7 DEF Download
  <2>2. PICK r : r = [ps[p] EXCEPT !.pc = "archive", !.got = got, !.man = man]
    OBVIOUS
  <2>3. /\ r \in OpRecord /\ r.pc = "archive" /\ r.got = got /\ r.man = man /\ r.st = ps[p].st
    BY <1>4, <2>2, Fields DEF OpRecord, Label
  <2>4. Shape(r) /\ r.pc \in Working
    BY <1>4, <1>7, <2>3 DEF Shape, Working, Label
  <2>5. Typed'
    BY <1>1, <2>1, Fields DEF Typed, disk, hist
  <2>6. ASSUME Holds(ps[p], file, deployed, snap, drift, odd)
        PROVE  Holds(r, file', deployed', snap', drift', odd')
    BY <1>1, <1>5, <2>1, <2>3, <2>6 DEF Holds, disk, hist
  <2>7. QED
    BY <1>5, <2>1, <2>2, <2>4, <2>5, <2>6, GoSafe
<1>8. QED
  BY <1>6, <1>7

\* The copy is saved, with another archive or another wait for a reboot.
LEMMA Proceeds ==
  ASSUME Safe, NEW p \in Proc, NEW s \in StateFile, NEW S \in SUBSET Component,
         NEW l \in Label, NEW e \in Label, Proceed(p, s, S, l, e)
  PROVE  \E r \in OpRecord :
           /\ Set(p, r) /\ r.pc = (IF S = {} THEN e ELSE l) /\ r.st = s /\ r.todo = S
           /\ r.op = ps[p].op /\ r.sel = ps[p].sel /\ r.got = ps[p].got /\ r.man = ps[p].man
<1>1. PICK r : r = [ps[p] EXCEPT !.st = s, !.todo = S, !.pc = IF S = {} THEN e ELSE l]
  OBVIOUS
<1>2. /\ r \in OpRecord /\ r.pc = (IF S = {} THEN e ELSE l) /\ r.st = s /\ r.todo = S
      /\ r.op = ps[p].op /\ r.sel = ps[p].sel /\ r.got = ps[p].got /\ r.man = ps[p].man
  BY <1>1, Fields DEF OpRecord
<1>3. Set(p, r)
  BY <1>1 DEF Proceed
<1>4. QED
  BY <1>2, <1>3

LEMMA ArchiveSafe ==
  ASSUME Safe, NEW p \in Proc, Archive(p)
  PROVE  Safe'
<1>1. /\ ps[p].pc = "archive" /\ file' = [ps[p].st EXCEPT !.archive = TRUE]
      /\ Proceed(p, file', ps[p].sel \cap Runtime, "snapshot", "stage")
      /\ UNCHANGED <<published, disk, lock, hist>>
  BY DEF Archive, At
<1>2. PICK s : s = [ps[p].st EXCEPT !.archive = TRUE]
  OBVIOUS
<1>3. s \in StateFile /\ s.cur = ps[p].st.cur /\ s.roll = ps[p].st.roll
  BY <1>2, Fields DEF StateFile
<1>4. PICK S \in SUBSET Component : S = ps[p].sel \cap Runtime
  BY Fields
<1>5. PICK r \in OpRecord :
        /\ Set(p, r) /\ r.pc = (IF S = {} THEN "stage" ELSE "snapshot") /\ r.st = s /\ r.todo = S
        /\ r.op = ps[p].op /\ r.sel = ps[p].sel /\ r.got = ps[p].got /\ r.man = ps[p].man
  <2>1. Proceed(p, s, S, "snapshot", "stage") /\ {"snapshot", "stage"} \subseteq Label
    BY <1>1, <1>2, <1>4 DEF Label
  <2>2. QED
    BY <1>3, <2>1, Proceeds
<1>6. Shape(r) /\ r.pc \in Working /\ ps[p].pc \in Working
  BY <1>1, <1>4, <1>5, Fields DEF Shape, Working, Label
<1>7. Typed'
  BY <1>1, <1>2, <1>3, Fields DEF Typed, disk, hist
<1>8. ASSUME Holds(ps[p], file, deployed, snap, drift, odd)
      PROVE  Holds(r, file', deployed', snap', drift', odd')
  <2>1. \A c \in Runtime : Base(s, c) = Base(file, c)
    BY <1>3, <1>6, <1>8 DEF Holds, Base
  <2>2. /\ \A c \in Runtime \ drift : Base(file, c) = deployed[c]
        /\ \A c \in Runtime \ odd : s.roll[c] # None => snap[c] \in {None, s.roll[c]}
    BY <1>1, <1>3, <1>6, <1>8 DEF Holds
  <2>3. r.pc \notin {"record", "unrecord"}
    BY <1>5
  <2>4. QED
    BY <1>1, <1>2, <1>5, <2>1, <2>2, <2>3 DEF Holds, disk, hist
<1>9. QED
  BY <1>1, <1>5, <1>6, <1>7, <1>8, GoSafe

LEMMA SnapshotSafe ==
  ASSUME Safe, NEW p \in Proc, Snapshot(p)
  PROVE  Safe'
<1>1. PICK c : c = First(ps[p].todo)
  OBVIOUS
<1>2. PICK s : s = [ps[p].st EXCEPT !.seen = ps[p].st.seen \union {c},
                                      !.roll[c] = ps[p].st.cur[c]]
  OBVIOUS
<1>3. /\ ps[p].pc = "snapshot" /\ deployed[c] # None /\ snap' = [snap EXCEPT ![c] = deployed[c]]
      /\ Proceed(p, s, ps[p].todo \ {c}, "snapshot", "stage")
      /\ odd' = IF c \in drift THEN odd \union {c} ELSE odd \ {c}
      /\ UNCHANGED <<published, deployed, image, file, lock, left, drift>>
  BY <1>1, <1>2 DEF Snapshot, At
<1>4. c \in Runtime /\ c \in Component /\ c \in ps[p].sel /\ c \in ps[p].todo
  BY <1>1, <1>3, Fields, FirstIn DEF Shape, Component
<1>5. /\ s \in StateFile /\ s.cur = ps[p].st.cur
      /\ s.roll = [ps[p].st.roll EXCEPT ![c] = ps[p].st.cur[c]]
  BY <1>2, <1>4, Fields DEF StateFile
<1>6. PICK S \in SUBSET Component : S = ps[p].todo \ {c}
  BY Fields
<1>7. PICK r \in OpRecord :
        /\ Set(p, r) /\ r.pc = (IF S = {} THEN "stage" ELSE "snapshot") /\ r.st = s /\ r.todo = S
        /\ r.op = ps[p].op /\ r.sel = ps[p].sel /\ r.got = ps[p].got /\ r.man = ps[p].man
  <2>1. Proceed(p, s, S, "snapshot", "stage") /\ {"snapshot", "stage"} \subseteq Label
    BY <1>3, <1>6 DEF Label
  <2>2. QED
    BY <1>5, <2>1, Proceeds
<1>8. Shape(r) /\ r.pc \in Working /\ ps[p].pc \in Working
  <2>1. Shape(ps[p])
    BY Fields
  <2>2. QED
    BY <1>3, <1>6, <1>7, <2>1 DEF Shape, Working, Label
<1>9. Typed'
  <2>1. Typed
    BY Fields
  <2>2. QED
    BY <1>3, <1>4, <2>1 DEF Typed
<1>10. ASSUME Holds(ps[p], file, deployed, snap, drift, odd)
       PROVE  Holds(r, file', deployed', snap', drift', odd')
  <2>1. /\ \A x \in Runtime \ drift : Base(file, x) = deployed[x]
        /\ \A x \in Runtime : ps[p].st.cur[x] = file.cur[x]
        /\ \A x \in Runtime \ odd :
             ps[p].st.roll[x] # None => snap[x] \in {None, ps[p].st.roll[x]}
        /\ \A x \in Runtime \ odd :
             file.roll[x] # None => snap[x] \in {None, file.roll[x]} \/ x \in ps[p].sel
    BY <1>3, <1>8, <1>10 DEF Holds
  <2>2. snap \in [Runtime -> Version] /\ ps[p].st.roll \in [Runtime -> Version]
    BY Fields DEF Typed, StateFile
  <2>3. r.pc \in {"snapshot", "stage"}
    BY <1>7
  <2>4. ASSUME NEW x \in Runtime \ odd'
        PROVE  /\ s.roll[x] # None => snap'[x] \in {None, s.roll[x]}
               /\ file'.roll[x] # None => snap'[x] \in {None, file'.roll[x]} \/ x \in r.sel
    <3>1. CASE x = c
      <4>1. c \notin drift
        BY <1>3, <2>4, <3>1
      <4>2. s.roll[x] = file.cur[c] /\ snap'[x] = deployed[c] /\ Base(file, c) = deployed[c]
        BY <1>3, <1>4, <1>5, <2>1, <2>2, <3>1, <4>1
      <4>3. QED
        BY <1>4, <1>7, <3>1, <4>2 DEF Base
    <3>2. CASE x # c
      <4>1. x \in Runtime \ odd
        BY <1>3, <2>4, <3>2
      <4>2. s.roll[x] = ps[p].st.roll[x] /\ snap'[x] = snap[x] /\ file' = file
        BY <1>3, <1>5, <2>2, <3>2, <4>1
      <4>3. QED
        BY <1>7, <2>1, <4>1, <4>2
    <3>3. QED
      BY <3>1, <3>2
  <2>5. QED
    BY <1>3, <1>5, <1>7, <2>1, <2>3, <2>4 DEF Holds
<1>11. QED
  BY <1>3, <1>7, <1>8, <1>9, <1>10, GoSafe

LEMMA SnapshotFailsSafe ==
  ASSUME Safe, NEW p \in Proc, SnapshotFails(p)
  PROVE  Safe'
<1>1. PICK c : c = First(ps[p].todo)
  OBVIOUS
<1>2. /\ ps[p].pc = "snapshot" /\ Fault(deployed[c] = None) /\ snap' = [snap EXCEPT ![c] = None]
      /\ file' = ps[p].st /\ Return(p, FALSE)
      /\ UNCHANGED <<published, deployed, image, drift, odd>>
  BY <1>1 DEF SnapshotFails, At, Fails
<1>3. snap \in [Runtime -> Version] /\ Typed /\ TypeOK /\ ps[p].st \in StateFile
  BY Fields DEF Typed
<1>4. left' \in [asks : 0..MaxAsks, faults : 0..MaxFaults]
  BY <1>2, <1>3, FaultForm
<1>5. snap' \in [Runtime -> Version] /\ \A x \in Runtime : snap'[x] \in {None, snap[x]}
  BY <1>2, <1>3, Versions
<1>6. Typed'
  BY <1>2, <1>3, <1>4, <1>5 DEF Typed
<1>7. QED
  BY <1>2, <1>5, <1>6, FailsSafe DEF Working, Label

LEMMA StageSafe ==
  ASSUME Safe, NEW p \in Proc, Stage(p)
  PROVE  Safe'
<1>1. /\ ps[p].pc = "stage" /\ file' = ps[p].st
      /\ Proceed(p, ps[p].st, ps[p].got, "deploy", "deploy")
      /\ UNCHANGED <<published, disk, lock, hist>>
  BY DEF Stage, At
<1>2. PICK r \in OpRecord :
        /\ Set(p, r) /\ r.pc = "deploy" /\ r.st = ps[p].st /\ r.todo = ps[p].got
        /\ r.op = ps[p].op /\ r.sel = ps[p].sel /\ r.got = ps[p].got /\ r.man = ps[p].man
  <2>1. Proceed(p, ps[p].st, ps[p].got, "deploy", "deploy") /\ "deploy" \in Label
    BY <1>1 DEF Label
  <2>2. ps[p].st \in StateFile /\ ps[p].got \in SUBSET Component
    BY Fields
  <2>3. QED
    BY <2>1, <2>2, Proceeds
<1>3. Shape(r) /\ r.pc \in Working /\ ps[p].pc \in Working
  BY <1>1, <1>2, Fields DEF Shape, Working, Label
<1>4. Typed'
  BY <1>1, Fields DEF Typed, disk, hist
<1>5. ASSUME Holds(ps[p], file, deployed, snap, drift, odd)
      PROVE  Holds(r, file', deployed', snap', drift', odd')
  <2>1. \A c \in Runtime : Base(ps[p].st, c) = Base(file, c)
    BY <1>3, <1>5 DEF Holds, Base
  <2>2. /\ \A c \in Runtime \ drift : Base(file, c) = deployed[c]
        /\ \A c \in Runtime \ odd :
             ps[p].st.roll[c] # None => snap[c] \in {None, ps[p].st.roll[c]}
    BY <1>1, <1>3, <1>5 DEF Holds
  <2>3. QED
    BY <1>1, <1>2, <2>1, <2>2 DEF Holds, disk, hist
<1>6. QED
  BY <1>1, <1>2, <1>3, <1>4, <1>5, GoSafe

LEMMA DeploySafe ==
  ASSUME Safe, NEW p \in Proc, Deploy(p)
  PROVE  Safe'
<1>1. PICK c : c = First(ps[p].todo)
  OBVIOUS
<1>2. /\ ps[p].pc = "deploy" /\ Set(p, [ps[p] EXCEPT !.pc = "record"])
      /\ UNCHANGED <<published, snap, file, lock, hist>>
      /\ IF c = "rootfs"
         THEN /\ image' = [image EXCEPT !.armed = ps[p].man[c], !.staged = None]
              /\ UNCHANGED deployed
         ELSE deployed' = [deployed EXCEPT ![c] = ps[p].man[c]] /\ UNCHANGED image
  BY <1>1 DEF Deploy, At
<1>3. c \in Component /\ c \in ps[p].todo
  BY <1>1, <1>2, Fields, FirstIn DEF Shape
<1>4. PICK r : r = [ps[p] EXCEPT !.pc = "record"]
  OBVIOUS
<1>5. /\ r \in OpRecord /\ r.pc = "record" /\ r.st = ps[p].st /\ r.todo = ps[p].todo
      /\ r.got = ps[p].got /\ r.man = ps[p].man
  BY <1>4, Fields DEF OpRecord, Label
<1>6. Shape(r) /\ r.pc \in Working /\ ps[p].pc \in Working
  BY <1>2, <1>5, Fields DEF Shape, Working, Label
<1>7. ps[p].man[c] \in Version /\ None \in Version /\ Typed
  BY <1>3, Fields, Versions
<1>8. deployed' \in [Runtime -> Version]
  BY <1>2, <1>7 DEF Typed
<1>9. image' \in [slot : Version, armed : Version, staged : Version]
  <2>1. CASE c = "rootfs"
    <3>1. PICK v : v = ps[p].man[c]
      OBVIOUS
    <3>2. image' = [image EXCEPT !.armed = v, !.staged = None]
      BY <1>2, <2>1, <3>1
    <3>3. QED
      BY <1>7, <3>1, <3>2 DEF Typed
  <2>2. CASE c # "rootfs"
    BY <1>2, <1>7, <2>2 DEF Typed
  <2>3. QED
    BY <2>1, <2>2
<1>10. Typed'
  BY <1>2, <1>7, <1>8, <1>9 DEF Typed, hist
<1>11. ASSUME Holds(ps[p], file, deployed, snap, drift, odd)
       PROVE  Holds(r, file', deployed', snap', drift', odd')
  <2>1. /\ \A x \in Runtime \ drift : Base(file, x) = deployed[x]
        /\ \A x \in Runtime : ps[p].st.cur[x] = file.cur[x]
        /\ \A x \in Runtime \ odd :
             ps[p].st.roll[x] # None => snap[x] \in {None, ps[p].st.roll[x]}
        /\ \A x \in Runtime \ odd : file.roll[x] # None => snap[x] \in {None, file.roll[x]}
    BY <1>2, <1>6, <1>11 DEF Holds
  <2>2. First(r.todo) = c
    BY <1>1, <1>5
  <2>3. c \in Runtime => deployed'[c] = r.man[c]
    BY <1>2, <1>5, <1>7 DEF Typed, Runtime
  <2>4. \A x \in Runtime : x # c => deployed'[x] = deployed[x]
    BY <1>2, <1>7 DEF Typed
  <2>5. QED
    BY <1>2, <1>5, <2>1, <2>2, <2>3, <2>4 DEF Holds, hist
<1>12. QED
  BY <1>2, <1>4, <1>6, <1>10, <1>11, GoSafe

LEMMA DeployFailsSafe ==
  ASSUME Safe, NEW p \in Proc, DeployFails(p)
  PROVE  Safe'
<1>1. /\ ps[p].pc = "deploy" /\ Fault(FALSE) /\ file' = ps[p].st /\ Return(p, FALSE)
      /\ image' = IF First(ps[p].todo) = "rootfs"
                  THEN [image EXCEPT !.staged = ps[p].man["rootfs"]] ELSE image
      /\ UNCHANGED <<published, deployed, snap, drift, odd>>
  BY DEF DeployFails, At, Fails
<1>2. Typed /\ TypeOK /\ ps[p].st \in StateFile /\ ps[p].man["rootfs"] \in Version
  BY Fields DEF Component
<1>3. left' \in [asks : 0..MaxAsks, faults : 0..MaxFaults]
  BY <1>1, <1>2, FaultForm
<1>4. image' \in [slot : Version, armed : Version, staged : Version]
  <2>1. PICK v : v = ps[p].man["rootfs"]
    OBVIOUS
  <2>2. image' \in {image, [image EXCEPT !.staged = v]}
    BY <1>1, <2>1
  <2>3. QED
    BY <1>2, <2>1, <2>2 DEF Typed
<1>5. Typed'
  BY <1>1, <1>2, <1>3, <1>4 DEF Typed
<1>6. QED
  BY <1>1, <1>5, FailsSafe DEF Working, Label

LEMMA RecordedForm ==
  ASSUME TypeOK, NEW s \in StateFile, NEW c \in Component, NEW v \in Version
  PROVE  /\ Recorded(s, c, v) \in StateFile /\ Recorded(s, c, v).roll = s.roll
         /\ c # "rootfs" => Recorded(s, c, v).cur[c] = v
         /\ \A x \in Component : x # c => Recorded(s, c, v).cur[x] = s.cur[x]
<1>1. CASE c = "rootfs"
  <2>1. PICK b \in Version : b = Baseline(s, c)
    BY BaselineType
  <2>2. PICK f : f = [s EXCEPT !.seen = s.seen \union {c}, !.cur[c] = b, !.applied = v,
                               !.avail = s.avail \ {c}, !.pending = TRUE]
    OBVIOUS
  <2>3. f = Recorded(s, c, v)
    BY <1>1, <2>1, <2>2 DEF Recorded
  <2>4. f \in StateFile /\ f.roll = s.roll /\ f.cur = [s.cur EXCEPT ![c] = b]
    BY <2>2 DEF StateFile
  <2>5. QED
    BY <1>1, <2>3, <2>4 DEF StateFile
<1>2. CASE c # "rootfs"
  <2>1. PICK f : f = [s EXCEPT !.seen = s.seen \union {c}, !.cur[c] = v,
                               !.avail = s.avail \ {c}]
    OBVIOUS
  <2>2. f = Recorded(s, c, v)
    BY <1>2, <2>1 DEF Recorded
  <2>3. f \in StateFile /\ f.roll = s.roll /\ f.cur = [s.cur EXCEPT ![c] = v]
    BY <2>1 DEF StateFile
  <2>4. QED
    BY <2>2, <2>3 DEF StateFile
<1>3. QED
  BY <1>1, <1>2

LEMMA RecordSafe ==
  ASSUME Safe, NEW p \in Proc, Record(p)
  PROVE  Safe'
<1>1. PICK c : c = First(ps[p].todo)
  OBVIOUS
<1>2. PICK s : s = Recorded(ps[p].st, c, ps[p].man[c])
  OBVIOUS
<1>3. /\ ps[p].pc = "record" /\ file' = s
      /\ Proceed(p, s, ps[p].todo \ {c}, "deploy", "finish") /\ drift' = drift \ {c}
      /\ UNCHANGED <<published, disk, lock, left, odd>>
  BY <1>1, <1>2 DEF Record, At
<1>4. c \in Component /\ c \in ps[p].todo /\ ps[p].man[c] # None /\ ps[p].man[c] \in Version
  BY <1>1, <1>3, Fields, FirstIn DEF Shape
<1>5. /\ s \in StateFile /\ s.roll = ps[p].st.roll /\ (c # "rootfs" => s.cur[c] = ps[p].man[c])
      /\ \A x \in Component : x # c => s.cur[x] = ps[p].st.cur[x]
  BY <1>2, <1>4, Fields, RecordedForm
<1>6. PICK S \in SUBSET Component : S = ps[p].todo \ {c}
  BY Fields
<1>7. PICK r \in OpRecord :
        /\ Set(p, r) /\ r.pc = (IF S = {} THEN "finish" ELSE "deploy") /\ r.st = s /\ r.todo = S
        /\ r.op = ps[p].op /\ r.sel = ps[p].sel /\ r.got = ps[p].got /\ r.man = ps[p].man
  <2>1. Proceed(p, s, S, "deploy", "finish") /\ {"deploy", "finish"} \subseteq Label
    BY <1>3, <1>6 DEF Label
  <2>2. QED
    BY <1>5, <2>1, Proceeds
<1>8. Shape(r) /\ r.pc \in Working /\ ps[p].pc \in Working
  <2>1. Shape(ps[p])
    BY Fields
  <2>2. QED
    BY <1>3, <1>6, <1>7, <2>1 DEF Shape, Working, Label
<1>9. Typed'
  BY <1>3, <1>5, Fields DEF Typed, disk
<1>10. ASSUME Holds(ps[p], file, deployed, snap, drift, odd)
       PROVE  Holds(r, file', deployed', snap', drift', odd')
  <2>1. /\ \A x \in Runtime \ drift : x # c => Base(file, x) = deployed[x]
        /\ c \in Runtime => deployed[c] = ps[p].man[c]
        /\ \A x \in Runtime : ps[p].st.cur[x] = file.cur[x]
        /\ \A x \in Runtime \ odd :
             ps[p].st.roll[x] # None => snap[x] \in {None, ps[p].st.roll[x]}
    BY <1>1, <1>3, <1>8, <1>10 DEF Holds
  <2>2. \A x \in Runtime : x # c => Base(s, x) = Base(file, x)
    BY <1>5, <2>1 DEF Base, Component
  <2>3. c \in Runtime => Base(s, c) = deployed[c]
    BY <1>4, <1>5, <2>1 DEF Base, Runtime
  <2>4. \A x \in Runtime \ drift' : Base(s, x) = deployed'[x]
    BY <1>3, <2>1, <2>2, <2>3 DEF disk
  <2>5. \A x \in Runtime \ odd' : s.roll[x] # None => snap'[x] \in {None, s.roll[x]}
    BY <1>3, <1>5, <2>1 DEF disk
  <2>6. r.pc \notin {"record", "unrecord"}
    BY <1>7
  <2>7. QED
    BY <1>3, <1>7, <2>4, <2>5, <2>6 DEF Holds
<1>11. QED
  BY <1>3, <1>7, <1>8, <1>9, <1>10, GoSafe

LEMMA FinishSafe ==
  ASSUME Safe, NEW p \in Proc, Finish(p)
  PROVE  Safe'
<1>1. /\ ps[p].pc = "finish" /\ file' = ps[p].st /\ Return(p, TRUE)
      /\ UNCHANGED <<published, disk, hist>>
  BY DEF Finish, At
<1>2. Typed'
  BY <1>1, Fields DEF Typed, disk, hist
<1>3. QED
  BY <1>1, <1>2, FailsSafe DEF Working, Label, disk, hist

-----------------------------------------------------------------------------
(* Rollbacks.                                                              *)

LEMMA RestoreNoneSafe ==
  ASSUME Safe, NEW p \in Proc, RestoreNone(p)
  PROVE  Safe'
<1>1. PICK S \in SUBSET Component : S = ps[p].todo \ {First(ps[p].todo)}
  BY Fields
<1>8. PICK s : s = [ps[p].st EXCEPT !.seen = ps[p].st.seen \union {First(ps[p].todo)}]
  OBVIOUS
<1>2. /\ ps[p].pc = "restore" /\ file' = s /\ Proceed(p, s, S, "restore", "config")
      /\ UNCHANGED <<published, disk, lock, hist>>
  BY <1>1, <1>8 DEF RestoreNone, At
<1>9. s \in StateFile /\ s.cur = ps[p].st.cur /\ s.roll = ps[p].st.roll
  <2>1. First(ps[p].todo) \in Component
    BY <1>2, Fields, FirstIn DEF Shape
  <2>2. QED
    BY <1>8, <2>1, Fields DEF StateFile
<1>3. PICK r \in OpRecord :
        /\ Set(p, r) /\ r.pc = (IF S = {} THEN "config" ELSE "restore") /\ r.st = s
        /\ r.todo = S
        /\ r.op = ps[p].op /\ r.sel = ps[p].sel /\ r.got = ps[p].got /\ r.man = ps[p].man
  <2>1. {"restore", "config"} \subseteq Label
    BY DEF Label
  <2>2. QED
    BY <1>2, <1>9, <2>1, Proceeds
<1>4. Shape(r) /\ r.pc \in Working /\ ps[p].pc \in Working
  <2>1. Shape(ps[p])
    BY Fields
  <2>2. QED
    BY <1>1, <1>2, <1>3, <2>1 DEF Shape, Working, Label
<1>5. Typed'
  BY <1>2, <1>9, Fields DEF Typed, disk, hist
<1>6. ASSUME Holds(ps[p], file, deployed, snap, drift, odd)
      PROVE  Holds(r, file', deployed', snap', drift', odd')
  <2>1. \A c \in Runtime : Base(s, c) = Base(file, c)
    BY <1>4, <1>6, <1>9 DEF Holds, Base
  <2>2. /\ \A c \in Runtime \ drift : Base(file, c) = deployed[c]
        /\ \A c \in Runtime \ odd : s.roll[c] # None => snap[c] \in {None, s.roll[c]}
    BY <1>2, <1>4, <1>6, <1>9 DEF Holds
  <2>3. r.pc \notin {"record", "unrecord"}
    BY <1>3
  <2>4. QED
    BY <1>2, <1>3, <1>9, <2>1, <2>2, <2>3 DEF Holds, disk, hist
<1>7. QED
  BY <1>2, <1>3, <1>4, <1>5, <1>6, GoSafe

LEMMA RestoreSafe ==
  ASSUME Safe, NEW p \in Proc, Restore(p)
  PROVE  Safe'
<1>1. PICK c : c = First(ps[p].todo)
  OBVIOUS
<1>2. /\ ps[p].pc = "restore" /\ ps[p].st.roll[c] # None /\ snap[c] # None
      /\ deployed' = [deployed EXCEPT ![c] = snap[c]]
      /\ Set(p, [ps[p] EXCEPT !.pc = "unrecord"])
      /\ UNCHANGED <<published, snap, image, file, lock, hist>>
  BY <1>1 DEF Restore, At
<1>3. c \in Runtime
  <2>1. ps[p].todo # {} /\ ps[p].todo \subseteq Runtime
    BY <1>2, Fields DEF Shape
  <2>2. QED
    BY <1>1, <2>1, Fields, FirstIn
<1>4. PICK r : r = [ps[p] EXCEPT !.pc = "unrecord"]
  OBVIOUS
<1>5. /\ r \in OpRecord /\ r.pc = "unrecord" /\ r.st = ps[p].st /\ r.todo = ps[p].todo
      /\ r.got = ps[p].got /\ r.man = ps[p].man /\ r.sel = ps[p].sel
  BY <1>4, Fields DEF OpRecord, Label
<1>6. Shape(r) /\ r.pc \in Working /\ ps[p].pc \in Working
  BY <1>2, <1>5, Fields DEF Shape, Working, Label
<1>7. Typed'
  BY <1>2, <1>3, Fields DEF Typed, hist
<1>8. ASSUME Holds(ps[p], file, deployed, snap, drift, odd)
      PROVE  Holds(r, file', deployed', snap', drift', odd')
  <2>1. /\ \A x \in Runtime \ drift : Base(file, x) = deployed[x]
        /\ \A x \in Runtime : ps[p].st.cur[x] = file.cur[x]
        /\ \A x \in Runtime \ odd :
             ps[p].st.roll[x] # None => snap[x] \in {None, ps[p].st.roll[x]}
        /\ \A x \in Runtime \ odd : file.roll[x] # None => snap[x] \in {None, file.roll[x]}
    BY <1>2, <1>6, <1>8 DEF Holds
  <2>2. First(r.todo) = c /\ deployed \in [Runtime -> Version]
    BY <1>1, <1>5, Fields DEF Typed
  <2>3. c \notin odd => deployed'[c] = r.st.roll[c]
    BY <1>2, <1>3, <1>5, <2>1, <2>2
  <2>4. \A x \in Runtime : x # c => deployed'[x] = deployed[x]
    BY <1>2, <2>2
  <2>5. QED
    BY <1>2, <1>5, <2>1, <2>2, <2>3, <2>4 DEF Holds, hist
<1>9. QED
  BY <1>2, <1>4, <1>6, <1>7, <1>8, GoSafe

LEMMA FaultTyped ==
  ASSUME Safe, NEW p \in Proc, NEW cause \in BOOLEAN, Fault(cause),
         file' \in {file, ps[p].st}, UNCHANGED <<published, disk, drift, odd>>
  PROVE  Typed'
<1>1. left' \in [asks : 0..MaxAsks, faults : 0..MaxFaults]
  BY FaultForm, Fields
<1>2. QED
  BY <1>1, Fields DEF Typed, disk

LEMMA RestoreFailsSafe ==
  ASSUME Safe, NEW p \in Proc, RestoreFails(p)
  PROVE  Safe'
<1>1. /\ ps[p].pc = "restore" /\ file' = ps[p].st /\ Return(p, FALSE)
      /\ UNCHANGED <<published, disk, drift, odd>>
      /\ \E cause \in BOOLEAN : Fault(cause)
  BY DEF RestoreFails, At, Fails
<1>2. Typed'
  BY <1>1, FaultTyped
<1>3. QED
  BY <1>1, <1>2, FailsSafe DEF Working, Label, disk

LEMMA UnrecordSafe ==
  ASSUME Safe, NEW p \in Proc, Unrecord(p)
  PROVE  Safe'
<1>1. PICK c : c = First(ps[p].todo)
  OBVIOUS
<1>2. PICK s : s = RolledBack(ps[p].st, c)
  OBVIOUS
<1>3. PICK l : l = IF ps[p].todo = {c} THEN "config" ELSE "restore"
  OBVIOUS
<1>4. /\ ps[p].pc = "unrecord" /\ file' = s
      /\ Set(p, [ps[p] EXCEPT !.st = s, !.todo = ps[p].todo \ {c}, !.got = ps[p].got \union {c},
                              !.pc = l])
      /\ drift' = IF c \in odd THEN drift \union {c} ELSE drift \ {c}
      /\ odd' = odd \union {c}
      /\ UNCHANGED <<published, disk, lock, left>>
  BY <1>1, <1>2, <1>3 DEF Unrecord, At
<1>5. c \in Runtime /\ c \in Component /\ c \in ps[p].todo
  <2>1. ps[p].todo # {} /\ ps[p].todo \subseteq Runtime
    BY <1>4, Fields DEF Shape
  <2>2. QED
    BY <1>1, <2>1, Fields, FirstIn DEF Component
<1>6. s \in StateFile /\ s.cur = [ps[p].st.cur EXCEPT ![c] = ps[p].st.roll[c]]
  <2>1. ps[p].st \in StateFile /\ s = [ps[p].st EXCEPT !.cur[c] = ps[p].st.roll[c],
                                                      !.roll[c] = ps[p].st.cur[c]]
    BY <1>2, Fields DEF RolledBack
  <2>2. QED
    BY <1>5, <2>1 DEF StateFile
<1>7. \A x \in Runtime : x # c => s.roll[x] = ps[p].st.roll[x]
  <2>1. ps[p].st \in StateFile /\ s = [ps[p].st EXCEPT !.cur[c] = ps[p].st.roll[c],
                                                      !.roll[c] = ps[p].st.cur[c]]
    BY <1>2, Fields DEF RolledBack
  <2>2. QED
    BY <1>5, <2>1 DEF StateFile
<1>8. PICK r : r = [ps[p] EXCEPT !.st = s, !.todo = ps[p].todo \ {c}, !.got = ps[p].got \union {c},
                                 !.pc = l]
  OBVIOUS
<1>9. /\ r \in OpRecord /\ r.pc = l /\ r.st = s /\ r.todo = ps[p].todo \ {c} /\ r.sel = ps[p].sel
      /\ r.pc \in {"config", "restore"}
  <2>1. /\ ps[p] \in OpRecord /\ ps[p].todo \ {c} \in SUBSET Component
        /\ ps[p].got \union {c} \in SUBSET Component /\ l \in Label
    BY <1>3, <1>5, Fields DEF Label
  <2>2. PICK S, T : S = ps[p].todo \ {c} /\ T = ps[p].got \union {c}
    OBVIOUS
  <2>3. r = [ps[p] EXCEPT !.st = s, !.todo = S, !.got = T, !.pc = l]
    BY <1>8, <2>2
  <2>4. r \in OpRecord /\ r.pc = l /\ r.st = s /\ r.todo = S /\ r.sel = ps[p].sel
    BY <1>6, <2>1, <2>2, <2>3 DEF OpRecord
  <2>5. QED
    BY <1>3, <2>2, <2>4
<1>10. Shape(r) /\ r.pc \in Working /\ ps[p].pc \in Working
  <2>1. Shape(ps[p])
    BY Fields
  <2>2. QED
    BY <1>3, <1>4, <1>5, <1>9, <2>1 DEF Shape, Working, Label
<1>11. Typed'
  BY <1>4, <1>5, <1>6, Fields DEF Typed, disk
<1>12. ASSUME Holds(ps[p], file, deployed, snap, drift, odd)
       PROVE  Holds(r, file', deployed', snap', drift', odd')
  <2>1. /\ \A x \in Runtime \ drift : x # c => Base(file, x) = deployed[x]
        /\ ps[p].st.roll[c] # None /\ (c \notin odd => deployed[c] = ps[p].st.roll[c])
        /\ \A x \in Runtime : ps[p].st.cur[x] = file.cur[x]
        /\ \A x \in Runtime \ odd :
             ps[p].st.roll[x] # None => snap[x] \in {None, ps[p].st.roll[x]}
    BY <1>1, <1>4, <1>10, <1>12 DEF Holds
  <2>2. ps[p].st.cur \in [Component -> Version]
    BY Fields DEF StateFile
  <2>3. \A x \in Runtime : x # c => Base(s, x) = Base(file, x)
    BY <1>6, <2>1, <2>2 DEF Base, Component
  <2>4. Base(s, c) = ps[p].st.roll[c]
    BY <1>5, <1>6, <2>1, <2>2 DEF Base
  <2>5. \A x \in Runtime \ drift' : Base(s, x) = deployed'[x]
    BY <1>4, <2>1, <2>3, <2>4 DEF disk
  <2>6. \A x \in Runtime \ odd' : s.roll[x] # None => snap'[x] \in {None, s.roll[x]}
    BY <1>4, <1>7, <2>1 DEF disk
  <2>7. r.pc \notin {"record", "unrecord"}
    BY <1>9
  <2>8. QED
    BY <1>4, <1>9, <2>5, <2>6, <2>7 DEF Holds
<1>13. QED
  BY <1>4, <1>8, <1>10, <1>11, <1>12, GoSafe

LEMMA RestoreConfigSafe ==
  ASSUME Safe, NEW p \in Proc, RestoreConfig(p)
  PROVE  Safe'
<1>1. /\ ps[p].pc = "config" /\ file' = [ps[p].st EXCEPT !.archive = FALSE, !.pending = FALSE]
      /\ Return(p, TRUE) /\ UNCHANGED <<published, deployed, snap, image, hist>>
  BY DEF RestoreConfig, At
<1>2. file' \in StateFile /\ file'.cur = ps[p].st.cur /\ file'.roll = ps[p].st.roll
  <2>1. ps[p].st \in StateFile
    BY Fields
  <2>2. QED
    BY <1>1, <2>1 DEF StateFile
<1>3. Typed'
  BY <1>1, <1>2, Fields DEF Typed, hist
<1>4. PICK r : Set(p, r) /\ Ended(r) /\ Unlock(p)
  BY <1>1, EndedForms DEF Return
<1>5. QED
  BY <1>1, <1>2, <1>3, <1>4, EndSafe DEF Working, Label, hist, Base

LEMMA RollbackFailsSafe ==
  ASSUME Safe, NEW p \in Proc, RollbackFails(p)
  PROVE  Safe'
<1>1. /\ ps[p].pc = "config" /\ file' = ps[p].st /\ Return(p, FALSE)
      /\ UNCHANGED <<published, disk, drift, odd>>
      /\ \E cause \in BOOLEAN : Fault(cause)
  <2>1. (ps[p].got = {} \/ ~ps[p].st.archive) \in BOOLEAN
    OBVIOUS
  <2>2. QED
    BY <2>1 DEF RollbackFails, At, Fails
<1>2. Typed'
  BY <1>1, FaultTyped
<1>3. QED
  BY <1>1, <1>2, FailsSafe DEF Working, Label, disk

LEMMA PhaseFailsSafe ==
  ASSUME Safe, NEW p \in Proc, PhaseFails(p)
  PROVE  Safe'
<1>1. /\ ps[p].pc \in {"archive", "finish"} /\ file' = ps[p].st /\ Return(p, FALSE)
      /\ UNCHANGED <<published, disk, drift, odd>> /\ Fault(FALSE)
  BY DEF PhaseFails, At, Fails
<1>2. Typed'
  BY <1>1, FaultTyped
<1>3. QED
  BY <1>1, <1>2, FailsSafe DEF Working, Label, disk

LEMMA QueryFailsSafe ==
  ASSUME Safe, NEW p \in Proc, QueryFails(p)
  PROVE  Safe'
<1>1. /\ ps[p].pc = "query" /\ Fault(FALSE) /\ Unlock(p) /\ Set(p, Idle)
      /\ UNCHANGED <<published, disk, file, drift, odd>>
  BY DEF QueryFails, At, Errs
<1>2. Typed'
  BY <1>1, FaultTyped
<1>3. Shape(Idle) /\ Idle.pc \notin Working /\ Idle.pc = "idle" /\ ps[p].pc \in Working
  BY <1>1, IdleShape DEF Working, Label
<1>4. Locks(p, Idle)
  BY <1>1, <1>3 DEF Locks, Unlock
<1>5. ASSUME Holds(ps[p], file, deployed, snap, drift, odd)
      PROVE  Holds(Idle, file', deployed', snap', drift', odd')
  BY <1>1, <1>3, <1>5 DEF Holds, disk
<1>6. QED
  BY <1>1, <1>2, <1>3, <1>4, <1>5, StepSafe

-----------------------------------------------------------------------------
(* The checker, and what happens to the machine.                           *)

\* The checker goes on with r.
LEMMA CheckerSafe ==
  ASSUME Safe, NEW r, Set(Checker, r), Ended(r), ps[Checker].pc \notin Working,
         image' \in [slot : Version, armed : Version, staged : Version],
         UNCHANGED <<published, deployed, snap, file, lock, hist>>
  PROVE  Safe'
<1>1. Checker \in Proc
  BY DEF Proc
<1>2. Typed'
  BY <1>1, Fields DEF Typed, hist
<1>3. QED
  BY <1>1, <1>2, RestSafe DEF Ended, hist

LEMMA TickSafe == ASSUME Safe, Tick PROVE Safe'
<1>1. PICK r : r = [Idle EXCEPT !.pc = "lock"]
  OBVIOUS
<1>2. r \in OpRecord /\ r.pc = "lock" /\ r.op = "check"
  <2>1. Idle \in OpRecord /\ Idle.op = "check"
    BY IdleShape DEF Shape, Idle
  <2>2. QED
    BY <1>1, <2>1 DEF OpRecord, Label
<1>3. Ended(r)
  BY <1>2 DEF Ended, Shape, Working, Label
<1>4. ps[Checker].pc \notin Working
  BY DEF Tick, At, Working, Label
<1>5. Checker \in Proc
  BY DEF Proc
<1>6. QED
  BY <1>1, <1>3, <1>4, <1>5, Fields, CheckerSafe DEF Tick, disk, Typed

\* What the checker may go on with.
LEMMA PlannedForms ==
  /\ \A l \in {"idle", "reboot"} : Ended([Idle EXCEPT !.pc = l])
  /\ \A S \in SUBSET Component : Ended([Idle EXCEPT !.pc = "lock", !.op = "apply", !.sel = S])
<1>1. Idle \in OpRecord
  BY IdleShape DEF Shape
<1>2. ASSUME NEW l \in {"idle", "reboot"}
      PROVE  Ended([Idle EXCEPT !.pc = l])
  <2>1. PICK r : r = [Idle EXCEPT !.pc = l]
    OBVIOUS
  <2>2. r \in OpRecord /\ r.pc = l
    BY <1>1, <1>2, <2>1 DEF OpRecord, Label
  <2>3. Ended(r)
    BY <2>2 DEF Ended, Shape, Working, Label
  <2>4. QED
    BY <2>1, <2>3
<1>3. ASSUME NEW S \in SUBSET Component
      PROVE  Ended([Idle EXCEPT !.pc = "lock", !.op = "apply", !.sel = S])
  <2>1. PICK r : r = [Idle EXCEPT !.pc = "lock", !.op = "apply", !.sel = S]
    OBVIOUS
  <2>2. r \in OpRecord /\ r.pc = "lock" /\ r.op = "apply"
    BY <1>1, <2>1 DEF OpRecord, Label, Request
  <2>3. Ended(r)
    BY <2>2 DEF Ended, Shape, Working, Label
  <2>4. QED
    BY <2>1, <2>3
<1>4. QED
  BY <1>2, <1>3

LEMMA ScheduleSafe == ASSUME Safe, Schedule PROVE Safe'
<1>1. Checker \in Proc
  BY DEF Proc
<1>2. PICK found \in SUBSET Component : found = ps[Checker].got
  BY <1>1, Fields
<1>3. PICK sel \in SUBSET Component :
        sel = IF "rootfs" \in found THEN {"rootfs"}
              ELSE IF "runtime" \in Settings THEN found \cap Runtime ELSE {}
  BY DEF Component
<1>4. PICK r : r = Planned(found)
  OBVIOUS
<1>5. \/ r = Idle \/ r = [Idle EXCEPT !.pc = "reboot"] \/ r = [Idle EXCEPT !.pc = "idle"]
      \/ r = [Idle EXCEPT !.pc = "lock", !.op = "apply", !.sel = sel]
  BY <1>3, <1>4 DEF Planned
<1>6. Ended(r)
  BY <1>5, PlannedForms, EndedForms
<1>7. ps[Checker].pc \notin Working /\ Set(Checker, r)
  BY <1>2, <1>4 DEF Schedule, At, Working, Label
<1>8. QED
  BY <1>1, <1>6, <1>7, Fields, CheckerSafe DEF Schedule, disk, Typed

LEMMA ActivateSafe == ASSUME Safe, Activate PROVE Safe'
<1>1. Checker \in Proc
  BY DEF Proc
<1>2. PICK l \in {"idle", "reboot"} :
        l = IF image.staged # None /\ "reboot" \in Settings THEN "reboot" ELSE "idle"
  OBVIOUS
<1>3. PICK r : r = [Idle EXCEPT !.pc = l]
  OBVIOUS
<1>4. Ended(r) /\ Set(Checker, r) /\ ps[Checker].pc \notin Working
  BY <1>2, <1>3, PlannedForms DEF Activate, At, Working, Label
<1>5. image' \in [slot : Version, armed : Version, staged : Version]
  <2>1. image \in [slot : Version, armed : Version, staged : Version] /\ None \in Version
    BY <1>1, Fields, Versions DEF Typed
  <2>2. image' \in {image, [image EXCEPT !.armed = image.staged, !.staged = None]}
    BY DEF Activate
  <2>3. QED
    BY <2>1, <2>2
<1>6. QED
  BY <1>4, <1>5, CheckerSafe DEF Activate

\* The processes of P end, among them all of the daemon: what was being recorded or
\* snapshot is noted.
LEMMA StopSafe ==
  ASSUME Safe, NEW P \in {Daemon, Proc}, NEW live \in [Runtime -> Version], Stop(P, live),
         left' \in [asks : 0..MaxAsks, faults : 0..MaxFaults],
         image' \in [slot : Version, armed : Version, staged : Version],
         UNCHANGED <<published, snap, file>>
  PROVE  Safe'
<1>1. PICK cut : cut = UNION {{First(ps[p].todo)} : p \in {q \in P : At(q, "record")}
                                                       \union {q \in P : At(q, "unrecord")}}
  OBVIOUS
<1>2. PICK half : half = UNION {ps[p].sel : p \in {q \in P : At(q, "snapshot")}
                                                  \union {q \in P : At(q, "stage")}}
  OBVIOUS
<1>3. PICK lost \in SUBSET Runtime :
        /\ deployed' = [c \in Runtime |-> IF c \in lost THEN None ELSE live[c]]
        /\ drift' = drift \union (cut \cap Runtime) \union lost
                      \union {c \in Runtime : live[c] # deployed[c]}
  BY <1>1 DEF Stop
<1>4. /\ ps' = [p \in Proc |-> IF p \in P THEN Idle ELSE ps[p]]
      /\ lock' = IF lock \in P THEN Nobody ELSE lock
      /\ odd' = odd \union (half \cap Runtime)
  BY <1>2 DEF Stop
<1>5. Daemon \subseteq P /\ P \subseteq Proc /\ Checker \in Proc
  BY DEF Daemon, Proc
<1>6. /\ Typed /\ TypeOK /\ ps \in [Proc -> OpRecord] /\ lock \in Daemon \union {Nobody}
      /\ \A q \in Proc : Shape(ps[q])
  BY <1>5, Fields DEF Safe, Sound, TypeOK
<1>7. Idle \in OpRecord /\ Shape(Idle) /\ Idle.pc = "idle" /\ "idle" \notin Working
  BY IdleShape DEF Shape
<1>8. lock' = Nobody /\ Nobody \notin Daemon
  BY <1>4, <1>5, <1>6, Versions DEF Daemon
<1>9. ps' \in [Proc -> OpRecord] /\ \A q \in Proc : Shape(ps'[q])
  BY <1>4, <1>6, <1>7
<1>10. \A q \in Daemon : ps'[q] = Idle
  BY <1>4, <1>5
<1>11. deployed' \in [Runtime -> Version]
  BY <1>3, Versions
<1>12. Typed'
  BY <1>3, <1>4, <1>6, <1>11 DEF Typed
<1>13. TypeOK'
  BY <1>7, <1>8, <1>9, <1>10, <1>12 DEF TypeOK, Typed
<1>14. ASSUME Cli = {}, NEW q \in Proc
       PROVE  Holds(ps'[q], file', deployed', snap', drift', odd')
  <2>1. Proc = Daemon /\ P = Proc
    BY <1>5, <1>14 DEF Daemon
  <2>2. PICK p \in Proc : Single(p)
    <3>1. CASE lock = Nobody
      BY <1>5, <1>6, <1>8, <2>1, <3>1 DEF TypeOK, Single
    <3>2. CASE lock # Nobody
      BY <1>6, <2>1, <3>2 DEF TypeOK, Single
    <3>3. QED
      BY <3>1, <3>2
  <2>3. Holds(ps[p], file, deployed, snap, drift, odd)
    BY <1>14, <2>2 DEF Safe, Recording
  <2>4. ps[p].pc \in {"record", "unrecord"} => First(ps[p].todo) \in cut
    BY <1>1, <2>1 DEF At
  <2>5. ps[p].pc \in {"snapshot", "stage"} => ps[p].sel \subseteq half
    BY <1>2, <2>1 DEF At
  <2>6. \A c \in Runtime \ drift' : Base(file', c) = deployed'[c]
    <3>1. ASSUME NEW c \in Runtime \ drift' PROVE Base(file', c) = deployed'[c]
      <4>1. c \notin drift /\ c \notin cut /\ c \notin lost /\ live[c] = deployed[c]
        BY <1>3, <3>1
      <4>2. Base(file, c) = deployed[c]
        BY <2>3, <2>4, <4>1 DEF Holds
      <4>3. QED
        BY <1>3, <4>1, <4>2
    <3>2. QED
      BY <3>1
  <2>7. \A c \in Runtime \ odd' : file'.roll[c] # None => snap'[c] \in {None, file'.roll[c]}
    BY <1>4, <2>3, <2>5 DEF Holds
  <2>8. ps'[q].pc = "idle"
    BY <1>4, <1>7, <2>1
  <2>9. QED
    BY <1>7, <2>6, <2>7, <2>8 DEF Holds
<1>15. QED
  BY <1>9, <1>13, <1>14 DEF Safe, Sound, Recording

LEMMA CrashSafe == ASSUME Safe, Crash PROVE Safe'
<1>1. Checker \in Proc
  BY DEF Proc
<1>2. Typed /\ TypeOK
  BY <1>1, Fields
<1>3. left' \in [asks : 0..MaxAsks, faults : 0..MaxFaults]
  BY <1>2, FaultForm DEF Crash
<1>4. QED
  BY <1>2, <1>3, StopSafe DEF Crash, Typed

LEMMA RebootSafe == ASSUME Safe, Reboot PROVE Safe'
<1>1. Checker \in Proc
  BY DEF Proc
<1>2. Typed /\ TypeOK
  BY <1>1, Fields
<1>3. left' \in [asks : 0..MaxAsks, faults : 0..MaxFaults]
  BY <1>2, FaultForm DEF Reboot, At
<1>4. PICK v \in {image.armed, image.slot} :
        /\ image' = [image EXCEPT !.slot = v, !.armed = None]
        /\ Stop(Proc, IF v = image.slot THEN deployed ELSE [c \in Runtime |-> v])
  BY DEF Reboot
<1>5. v \in Version /\ None \in Version
  BY <1>2, Versions DEF Typed
<1>6. image' \in [slot : Version, armed : Version, staged : Version]
  BY <1>2, <1>4, <1>5 DEF Typed
<1>7. PICK live \in [Runtime -> Version] :
        live = IF v = image.slot THEN deployed ELSE [c \in Runtime |-> v]
  BY <1>2, <1>5 DEF Typed
<1>8. Stop(Proc, live)
  BY <1>4, <1>7
<1>9. QED
  BY <1>3, <1>6, <1>8, StopSafe DEF Reboot

LEMMA PublishSafe == ASSUME Safe, Publish PROVE Safe'
<1>1. Checker \in Proc
  BY DEF Proc
<1>2. UNCHANGED <<deployed, snap, image, file, lock, ps, left, drift, odd>>
  BY DEF Publish, disk, hist
<1>3. Typed /\ TypeOK
  BY <1>1, Fields
<1>4. published' \in [Component -> Version]
  <2>1. \E c : \E v \in Version : published' = [published EXCEPT ![c] = v]
    BY Zenon DEF Publish
  <2>2. QED
    BY <1>3, <2>1 DEF Typed
<1>5. Sound'
  BY <1>2, <1>3, <1>4 DEF TypeOK, Safe, Sound
<1>6. Recording'
  BY <1>2 DEF Safe, Recording, Single
<1>7. QED
  BY <1>5, <1>6 DEF Safe

-----------------------------------------------------------------------------
(* Theorems.                                                               *)

LEMMA SafeStep == ASSUME Safe, [Next]_vars PROVE Safe'
<1>1. CASE UNCHANGED vars
  <2>1. UNCHANGED <<published, deployed, snap, image, file, lock, ps, left, drift, odd>>
    BY <1>1 DEF vars, disk, hist
  <2>2. Sound' /\ Recording'
    BY <2>1 DEF Safe, Sound, TypeOK, Recording, Single
  <2>3. QED
    BY <2>2 DEF Safe
<1>2. ASSUME NEW p \in Task, Ask(p) PROVE Safe'
  BY <1>2, AskSafe
<1>3. ASSUME NEW p \in Proc, Enters(p) PROVE Safe'
  BY <1>3, CheckBeginSafe, ApplyBeginSafe, RefuseSafe, RollbackBeginSafe DEF Enters
<1>4. ASSUME NEW p \in Proc, Goods(p) PROVE Safe'
  BY <1>4, CheckEndSafe, DownloadSafe, ArchiveSafe, SnapshotSafe, StageSafe, DeploySafe,
     RecordSafe, FinishSafe, RestoreNoneSafe, RestoreSafe, UnrecordSafe, RestoreConfigSafe
     DEF Goods
<1>5. ASSUME NEW p \in Proc, Bads(p) PROVE Safe'
  BY <1>5, QueryFailsSafe, PhaseFailsSafe, SnapshotFailsSafe, DeployFailsSafe,
     RestoreFailsSafe, RollbackFailsSafe DEF Bads
<1>6. CASE Tick \/ Schedule \/ Activate
  BY <1>6, TickSafe, ScheduleSafe, ActivateSafe
<1>7. CASE Crash \/ Reboot \/ Publish
  BY <1>7, CrashSafe, RebootSafe, PublishSafe
<1>8. QED
  BY <1>1, <1>2, <1>3, <1>4, <1>5, <1>6, <1>7 DEF Next

LEMMA AlwaysSafe == Spec => []Safe
BY UpdateStarts, SafeStep, PTL DEF Spec

\* Every variable keeps its type: in particular a task of the daemon works on an update if
\* and only if it holds the lock, over every failure, crash and reboot.
THEOREM UpdateTypeCorrect == Spec => []TypeOK
<1>1. Safe => TypeOK
  BY DEF Safe, Sound
<1>2. QED
  BY <1>1, AlwaysSafe, PTL

\* Where no operation is under way, the last one left what Holds says.
LEMMA AtRest ==
  ASSUME Cli = {}, Safe, Quiet
  PROVE  /\ VersionsTrue /\ SnapshotTrue
<1>1. PICK p \in Proc : ps[p].pc \notin Working
  BY DEF Quiet, Proc
<1>2. Holds(ps[p], file, deployed, snap, drift, odd)
  BY DEF Safe, Recording, Quiet, Single
<1>3. ps[p].pc \notin {"record", "unrecord", "snapshot", "stage"}
  BY <1>1 DEF Working, Label
<1>4. \A c \in Runtime \ drift : Baseline(file, c) = deployed[c]
  BY <1>2, <1>3, BaseForm DEF Holds
<1>5. \A c \in Runtime \ odd : file.roll[c] # None => snap[c] \in {None, file.roll[c]}
  BY <1>2, <1>3 DEF Holds
<1>6. QED
  BY <1>4, <1>5 DEF VersionsTrue, SnapshotTrue

\* With the requests served by the daemon (update.rs takes the operation lock of the
\* process), the version on record is the installed one whenever no operation is at work,
\* whatever failed, crashed or rebooted at any step: but for what drift names.
THEOREM VersionsAlwaysTrue ==
  ASSUME Cli = {}
  PROVE  Spec => []VersionsTrue
<1>1. Safe => VersionsTrue
  BY AtRest DEF VersionsTrue
<1>2. QED
  BY <1>1, AlwaysSafe, PTL

\* Likewise, a rollback directory holds the version the record promises, or nothing: but
\* for what odd names.
THEOREM SnapshotsAlwaysTrue ==
  ASSUME Cli = {}
  PROVE  Spec => []SnapshotTrue
<1>1. Safe => SnapshotTrue
  BY AtRest DEF SnapshotTrue
<1>2. QED
  BY <1>1, AlwaysSafe, PTL

=============================================================================
