----------------------------- MODULE RootfsSlots -----------------------------
(***************************************************************************)
(* The A/B root file system slots of DayShield: what rootfs_update.rs does *)
(* to the two slot partitions, the shared BOOT partition, slots.json and   *)
(* grubenv when it applies an image, rolls back, confirms a boot or        *)
(* mirrors the identity files, and what GRUB (external) then boots.        *)
(*                                                                         *)
(* Every command the code spawns is a step of its own: the machine may     *)
(* lose power, the process may be killed and the command may fail between  *)
(* and inside any two of them.  The operation lock of the code lives in    *)
(* one process, so each member of Proc is one process (the daemon, a CLI   *)
(* invocation) with at most one operation under way, and signal-boot-      *)
(* success, which takes no lock, is an actor of its own.                   *)
(***************************************************************************)
EXTENDS Integers, FiniteSets

CONSTANTS
  Images,       \* root file system images (an image stands for its version)
  Factory,      \* the image the installer writes to both slots
  Good,         \* images that come up when booted
  Healthy,      \* images whose boot gets as far as signal-boot-success
  Stamped,      \* images whose /etc/dayshield/version names a version
  Named,        \* images whose artifact name gives a version
  Compat,       \* <<k, r>>: the kernel or initrd of image k runs rootfs r
  Junk,         \* partly written data
  Unknown,      \* the version string "unknown"
  Proc,         \* processes that run apply / rollback / sync-identity
  AttemptLimit, \* BOOT_ATTEMPT_LIMIT
  MaxStaged,    \* bound: images in the staging directory at a time
  Events      \* what may be asked of the machine: see Event

ASSUME ImagesAssumption ==
  /\ Healthy \subseteq Good /\ Good \subseteq Images /\ Stamped \subseteq Images
  /\ Named \subseteq Images
  /\ Factory \in Healthy
  /\ \A v \in Good : <<v, v>> \in Compat
  /\ Junk \notin Images /\ Unknown \notin Images
  /\ \A v \in Images : <<Junk, v>> \notin Compat
ASSUME LimitAssumption == AttemptLimit \in Nat \ {0} /\ MaxStaged \in Nat

\* Operations, a change of the identity files, a second run of the boot
\* signal, and faults: power lost while an operation runs, a failing command,
\* a killed process, an unreadable label of the root file system, a busy mount.
Event == {"apply", "rollback", "sync", "identity", "confirm",
            "power", "fail", "kill", "mislabel", "busy"}
ASSUME EventAssumption == Events \subseteq Event

VARIABLES
  content,    \* content[s]: the images whose files partition s holds
  kernel,     \* kernel[s], initrd[s]: the image the files under
  initrd,     \*   /boot/dayshield/slot-s were copied from
  id,         \* id[s]: how recent the identity files of slot s are
  slots,      \* slots.json
  grub,       \* grubenv
  recovered,  \* the "recovered" marker file exists
  staged,     \* images in the staging directory
  up,         \* the machine runs
  running,    \* the slot its root file system is on
  mounts,     \* mounts[s]: who has slot s mounted besides /
  ps,         \* ps[p]: the operation process p is executing
  sig,        \* the signal-boot-success process of this boot
  upset       \* history: a grubenv update was torn, raced or misdirected, or
              \*   the fallback slot of a trial was overwritten

diskVars == <<content, kernel, initrd, id>>
fileVars == <<slots, grub, recovered, staged>>
machVars == <<up, running>>
vars == <<diskVars, fileVars, machVars, mounts, ps, sig, upset>>

-----------------------------------------------------------------------------
(* Slots, and the state the program keeps about them. *)

Slot == {"A", "B"}
Other(s) == IF s = "A" THEN "B" ELSE "A"

Unset == 0 - 1
Version == Images \union {Unknown}

SlotsState == [current_slot : Slot, current_version : Version,
               standby_slot : Slot, standby_version : Version, valid : BOOLEAN]

GrubEnv == [saved : Slot, fallback : Slot \union {"unset"},
            state : {"trying", "confirmed"}, attempts : {Unset} \union 0..AttemptLimit]

\* The version stamped in a slot's root file system, if it is usable.
BuildVersion(s) ==
  IF \E v \in Stamped : content[s] = {v}
  THEN CHOOSE v \in Stamped : content[s] = {v}
  ELSE Unknown

\* The version apply records for an image.
NamedVersion(v) == IF v \in Named THEN v ELSE Unknown

\* slots.json as the code loads it: an absent or unreadable file reads as
\* the default, which names slot A whatever slot is running.
DefaultSlots ==
  [current_slot |-> "A", current_version |-> BuildVersion(running),
   standby_slot |-> "B", standby_version |-> BuildVersion(running), valid |-> TRUE]
Loaded == IF slots.valid THEN slots ELSE DefaultSlots

\* The label of / names the running slot; when it cannot be read the code
\* trusts slots.json.
Detected == {running} \union
            IF "mislabel" \in Events THEN {Loaded.current_slot} ELSE {}

\* What GRUB needs to bring slot s up.
Boots(s) ==
  \E v \in Good : /\ content[s] = {v}
                  /\ <<kernel[s], v>> \in Compat
                  /\ <<initrd[s], v>> \in Compat

-----------------------------------------------------------------------------
(* Steps of apply_staged_image, rollback and sync_identity_to_standby.  A   *)
(* label names the command about to run.                                   *)

WriteLabel == {"mount", "extract", "identity", "kernel", "initrd", "umount"}
ArmLabel   == {"saved", "fallback", "trying", "attempts"}
Label      == {"idle", "format", "record", "clean", "stamp", "sync"}
              \union WriteLabel \union ArmLabel
SigLabel   == {"due", "saved", "confirmed", "attempts", "fallback", "write",
               "sync", "copy", "done"}

ProcState == [pc : Label, op : {"none", "apply", "rollback", "sync"},
              img : Images, tgt : Slot, snap : SlotsState]
SigState  == [pc : SigLabel, slot : Slot, rev : BOOLEAN, snap : SlotsState]

\* What a process, and the boot signal, are when nothing is under way.
NoSlots == [current_slot |-> "A", current_version |-> Unknown,
            standby_slot |-> "B", standby_version |-> Unknown, valid |-> FALSE]
Idle == [pc |-> "idle", op |-> "none", img |-> Factory, tgt |-> "B", snap |-> NoSlots]
Done == [pc |-> "done", slot |-> "A", rev |-> FALSE, snap |-> NoSlots]

\* grubenv is being rewritten by an operation, or by the boot signal.
Arming(p) == ps[p].pc \in ArmLabel \ {"saved"}
Clearing  == sig.pc \in {"confirmed", "attempts", "fallback"}

TypeOK ==
  /\ content \in [Slot -> SUBSET (Images \union {Junk})]
  /\ kernel \in [Slot -> Images \union {Junk}]
  /\ initrd \in [Slot -> Images \union {Junk}]
  /\ id \in [Slot -> {"current", "stale", "default"}]
  /\ slots \in SlotsState
  /\ grub \in GrubEnv
  /\ recovered \in BOOLEAN /\ up \in BOOLEAN /\ upset \in BOOLEAN
  /\ staged \in SUBSET Images
  /\ running \in Slot
  /\ mounts \in [Slot -> SUBSET (Proc \union {"signal"})]
  /\ ps \in [Proc -> ProcState]
  /\ sig \in SigState

Init ==
  /\ content = [s \in Slot |-> {Factory}]
  /\ kernel = [s \in Slot |-> Factory] /\ initrd = [s \in Slot |-> Factory]
  /\ id = [s \in Slot |-> "current"]
  /\ slots = NoSlots
  /\ grub = [saved |-> "A", fallback |-> "unset", state |-> "confirmed",
             attempts |-> Unset]
  /\ recovered = FALSE /\ staged = {} /\ upset = FALSE
  /\ up = FALSE /\ running = "A"
  /\ mounts = [s \in Slot |-> {}]
  /\ ps = [p \in Proc |-> Idle] /\ sig = Done

Goto(p, l) == ps' = [ps EXCEPT ![p] = IF l = "idle" THEN Idle ELSE [@ EXCEPT !.pc = l]]
At(p, l) == up /\ ps[p].pc = l
Tgt(p) == ps[p].tgt

\* update.rs puts a verified image into the staging directory.
Stage(v) ==
  /\ up /\ v \notin staged /\ Cardinality(staged) < MaxStaged
  /\ staged' = staged \union {v}
  /\ UNCHANGED <<diskVars, slots, grub, recovered, machVars, mounts, ps, sig, upset>>

\* The operator changes a password, host name or network file under /etc.
ChangeIdentity ==
  /\ up /\ "identity" \in Events
  /\ id' = [s \in Slot |-> IF s = running THEN "current"
                           ELSE IF id[s] = "current" THEN "stale" ELSE id[s]]
  /\ UNCHANGED <<content, kernel, initrd, fileVars, machVars, mounts, ps, sig, upset>>

\* An operation starts by detecting the running slot.  Apply and rollback load
\* slots.json first, which replaces an unreadable file by the default; apply
\* also writes it back with a new timestamp.
Begin(p, op, d, v, first) ==
  /\ At(p, "idle") /\ op \in Events
  /\ ps' = [ps EXCEPT ![p] = [pc |-> first, op |-> op, img |-> v,
                              tgt |-> Other(d), snap |-> Loaded]]
  /\ slots' = Loaded
  /\ UNCHANGED <<diskVars, grub, recovered, staged, machVars, mounts, sig>>

ApplyBegin(p) ==
  \E v \in staged, d \in Detected :
    Begin(p, "apply", d, v, "format") /\ UNCHANGED upset

RollbackBegin(p) ==
  \E d \in Detected :
    Begin(p, "rollback", d, Factory, "saved") /\ upset' = (upset \/ d # running)

\* The sync reads slots.json only where the label cannot be read.
SyncBegin(p) ==
  \E d \in Detected :
    /\ At(p, "idle") /\ "sync" \in Events
    /\ ps' = [ps EXCEPT ![p] = [Idle EXCEPT !.pc = "sync", !.op = "sync", !.tgt = Other(d)]]
    /\ \/ d = running /\ UNCHANGED slots
       \/ "mislabel" \in Events /\ d = Loaded.current_slot /\ slots' = Loaded
    /\ UNCHANGED <<diskVars, grub, recovered, staged, machVars, mounts, sig, upset>>

\* Mutant of TargetFree: the running root device is not compared.
TargetFreeNoRootCheck(s) == mounts[s] = {}

\* What both safety checks before the format establish.  Where findmnt cannot be run they
\* pass, but mkfs refuses a device that is mounted, which is an error of the operation too.
TargetFree(s) == s # running /\ mounts[s] = {}
\* The same two checks before the sync: nothing else keeps it from mounting a slot twice.
SyncPasses(s) == TargetFree(s) \/ "fail" \in Events

\* Slot s is the fallback of a trial that has not been confirmed.
OnlyWayBack(s) == grub.state = "trying" /\ grub.fallback = s

Refuse(p) ==
  /\ At(p, "format") \/ At(p, "sync")
  /\ ~TargetFree(Tgt(p))
  /\ Goto(p, "idle")
  /\ UNCHANGED <<diskVars, fileVars, machVars, mounts, sig, upset>>

ApplyFormat(p) ==
  /\ At(p, "format") /\ TargetFree(Tgt(p))
  /\ content' = [content EXCEPT ![Tgt(p)] = {}]
  /\ id' = [id EXCEPT ![Tgt(p)] = "default"]
  /\ Goto(p, "mount")
  /\ upset' = (upset \/ OnlyWayBack(Tgt(p)))
  /\ UNCHANGED <<kernel, initrd, fileVars, machVars, mounts, sig>>

ApplyMount(p) ==
  /\ At(p, "mount")
  /\ mounts' = [mounts EXCEPT ![Tgt(p)] = @ \union {p}]
  /\ Goto(p, "extract")
  /\ UNCHANGED <<diskVars, fileVars, machVars, sig, upset>>

SyncMount(p) ==
  /\ At(p, "sync") /\ SyncPasses(Tgt(p))
  /\ mounts' = [mounts EXCEPT ![Tgt(p)] = @ \union {p}]
  /\ Goto(p, "identity")
  /\ UNCHANGED <<diskVars, fileVars, machVars, sig, upset>>

\* unsquashfs -f: the image's files, with its build-time /etc, over whatever
\* another process has extracted to the same partition.
ApplyExtract(p) ==
  /\ At(p, "extract") /\ ps[p].img \in staged
  /\ content' = [content EXCEPT ![Tgt(p)] = @ \union {ps[p].img}]
  /\ id' = [id EXCEPT ![Tgt(p)] = "default"]
  /\ Goto(p, "identity")
  /\ UNCHANGED <<kernel, initrd, fileVars, machVars, mounts, sig, upset>>

\* Mutant of CopyIdentity: the image's own files are kept.
CopyIdentitySkipped(p) ==
  /\ At(p, "identity")
  /\ Goto(p, IF ps[p].op = "sync" THEN "umount" ELSE "kernel")
  /\ UNCHANGED <<diskVars, fileVars, machVars, mounts, sig, upset>>

\* A path that cannot be copied is a line in the details, not an error.
CopyIdentity(p) ==
  /\ At(p, "identity")
  /\ \/ id' = [id EXCEPT ![Tgt(p)] = id[running]]
     \/ "fail" \in Events /\ UNCHANGED id
  /\ Goto(p, IF ps[p].op = "sync" THEN "umount" ELSE "kernel")
  /\ UNCHANGED <<content, kernel, initrd, fileVars, machVars, mounts, sig, upset>>

\* Mutant of ApplyKernel: the kernel goes to the running slot's directory.
ApplyKernelWrongSlot(p) ==
  /\ At(p, "kernel")
  /\ \E v \in content[Tgt(p)] : kernel' = [kernel EXCEPT ![Other(Tgt(p))] = v]
  /\ Goto(p, "initrd")
  /\ UNCHANGED <<content, initrd, id, fileVars, machVars, mounts, sig, upset>>

\* The highest-versioned vmlinuz-* and initrd.img-* of the mounted slot.
ApplyKernel(p) ==
  /\ At(p, "kernel")
  /\ \E v \in content[Tgt(p)] : kernel' = [kernel EXCEPT ![Tgt(p)] = v]
  /\ Goto(p, "initrd")
  /\ UNCHANGED <<content, initrd, id, fileVars, machVars, mounts, sig, upset>>

ApplyInitrd(p) ==
  /\ At(p, "initrd")
  /\ \E v \in content[Tgt(p)] : initrd' = [initrd EXCEPT ![Tgt(p)] = v]
  /\ Goto(p, "umount")
  /\ UNCHANGED <<content, kernel, id, fileVars, machVars, mounts, sig, upset>>

\* Process or signal p unmounts slot s; a umount that fails is not an error
\* of the operation, and leaves the slot mounted.
Unmount(p, s) == \/ mounts' = [mounts EXCEPT ![s] = @ \ {p}]
                 \/ "busy" \in Events /\ UNCHANGED mounts

Umount(p) ==
  /\ At(p, "umount")
  /\ Unmount(p, Tgt(p))
  /\ Goto(p, IF ps[p].op = "sync" THEN "idle" ELSE "record")
  /\ UNCHANGED <<diskVars, fileVars, machVars, sig, upset>>

\* The state loaded when the operation began is written back with the new
\* standby; current_version is left as it was.
ApplyRecord(p) ==
  /\ At(p, "record")
  /\ slots' = [ps[p].snap EXCEPT !.standby_slot = Tgt(p), !.standby_version = NamedVersion(ps[p].img),
                                 !.current_slot = Other(Tgt(p))]
  /\ Goto(p, "saved")
  /\ UNCHANGED <<diskVars, grub, recovered, staged, machVars, mounts, sig, upset>>

(* The four grub-editenv calls shared by apply and rollback. *)
Overlaps(p) == Clearing \/ \E q \in Proc \ {p} : Arming(q)

Arm(p, l, g, next) ==
  /\ At(p, l) /\ grub' = g /\ Goto(p, next)
  /\ upset' = (upset \/ Overlaps(p))
  /\ UNCHANGED <<diskVars, slots, recovered, staged, machVars, mounts, sig>>

\* Mutants: the fallback entry names the new slot, the trial is not marked.
ArmFallbackSame(p) == Arm(p, "fallback", [grub EXCEPT !.fallback = Tgt(p)], "trying")
ArmTryingDropped(p) == Arm(p, "trying", grub, "attempts")

ArmSaved(p) == Arm(p, "saved", [grub EXCEPT !.saved = Tgt(p)], "fallback")
ArmFallback(p) == Arm(p, "fallback", [grub EXCEPT !.fallback = Other(Tgt(p))], "trying")
ArmTrying(p) == Arm(p, "trying", [grub EXCEPT !.state = "trying"], "attempts")
ArmAttempts(p) == Arm(p, "attempts", [grub EXCEPT !.attempts = AttemptLimit],
                      IF ps[p].op = "apply" THEN "clean" ELSE "stamp")

\* Apply ends by removing the recovered marker and every staged image.
ApplyClean(p) ==
  /\ At(p, "clean")
  /\ recovered' = FALSE /\ staged' = {}
  /\ Goto(p, "idle")
  /\ UNCHANGED <<diskVars, slots, grub, machVars, mounts, sig, upset>>

\* Rollback ends by writing its snapshot back with new timestamps.
RollbackStamp(p) ==
  /\ At(p, "stamp")
  /\ slots' = ps[p].snap
  /\ Goto(p, "idle")
  /\ UNCHANGED <<diskVars, grub, recovered, staged, machVars, mounts, sig, upset>>

-----------------------------------------------------------------------------
(* Interruptions.  D holds the processes whose command had begun to write. *)

Busy == {p \in Proc : ps[p].pc # "idle"}

\* A slot left with a partial file system, kernel or initrd.
HitsContent(p, s) ==
  /\ Tgt(p) = s
  /\ \/ ps[p].pc = "extract"
     \/ ps[p].pc = "format" /\ TargetFree(s)
HitsBoot(p, l, s) == ps[p].pc = l /\ Tgt(p) = s

\* An interruption here counts against the history variable.
Exposed(p) == Arming(p) \/ (ps[p].pc = "format" /\ OnlyWayBack(Tgt(p)))

Damage(D) ==
  /\ content' = [s \in Slot |-> IF \E p \in D : HitsContent(p, s)
                                THEN content[s] \union {Junk} ELSE content[s]]
  /\ kernel' = [s \in Slot |-> IF \E p \in D : HitsBoot(p, "kernel", s)
                               THEN Junk ELSE kernel[s]]
  /\ initrd' = [s \in Slot |-> IF \E p \in D : HitsBoot(p, "initrd", s)
                               THEN Junk ELSE initrd[s]]
  /\ UNCHANGED id

\* slots.json is written in place: a write that does not complete, or that a
\* power loss catches before it is on disk, leaves text that does not parse.
TearSlots(torn) ==
  \/ UNCHANGED slots
  \/ torn /\ slots' = [slots EXCEPT !.valid = FALSE]

\* The command fails and the operation returns the error; its mount guard
\* unmounts the target.
Fail(p) ==
  /\ up /\ "fail" \in Events
  /\ ps[p].pc \in Label \ {"idle", "identity", "umount", "clean"}
  /\ \E D \in SUBSET {p} : Damage(D)
  /\ TearSlots(ps[p].pc \in {"record", "stamp"})
  /\ Unmount(p, Tgt(p))
  /\ Goto(p, "idle")
  /\ upset' = (upset \/ Exposed(p))
  /\ UNCHANGED <<grub, recovered, staged, machVars, sig>>

\* The process is killed (the daemon restarts): a mounted target stays so.
Kill(p) ==
  /\ up /\ "kill" \in Events /\ p \in Busy
  /\ \E D \in SUBSET {p} : Damage(D)
  /\ TearSlots(ps[p].pc \in {"record", "stamp"})
  /\ Goto(p, "idle")
  /\ upset' = (upset \/ Exposed(p))
  /\ UNCHANGED <<grub, recovered, staged, machVars, mounts, sig>>

\* Power loss; without it, a reboot that finds no operation under way.
PowerLoss ==
  /\ up /\ ("power" \in Events \/ Busy = {})
  /\ \E D \in SUBSET Busy : Damage(D)
  /\ TearSlots(\/ sig.pc \in {"write", "sync"}
               \/ \E p \in Busy : ps[p].pc \in {"format", "record", "saved", "stamp"})
  /\ up' = FALSE
  /\ mounts' = [s \in Slot |-> {}]
  /\ ps' = [p \in Proc |-> Idle] /\ sig' = Done
  /\ upset' = (upset \/ Clearing \/ \E p \in Proc : Exposed(p))
  /\ UNCHANGED <<grub, recovered, staged, running>>

-----------------------------------------------------------------------------
(* GRUB: a slot on trial is booted while attempts are left, then the       *)
(* fallback slot; what its script does with an unset count is not known.   *)

FallbackEntry == IF grub.fallback = "unset" THEN grub.saved ELSE grub.fallback

GrubChoices ==
  IF grub.state # "trying" THEN {grub.saved}
  ELSE IF grub.attempts = Unset THEN {grub.saved, FallbackEntry}
  ELSE IF grub.attempts > 0 THEN {grub.saved}
  ELSE {FallbackEntry}

CountAttempt ==
  grub' = IF grub.state = "trying" /\ grub.attempts > 0
          THEN [grub EXCEPT !.attempts = @ - 1] ELSE grub

BootUp ==
  /\ ~up
  /\ \E s \in GrubChoices : Boots(s) /\ running' = s
  /\ up' = TRUE
  /\ CountAttempt
  /\ sig' = [Done EXCEPT !.pc = "due"]
  /\ UNCHANGED <<diskVars, slots, recovered, staged, mounts, ps, upset>>

BootFails ==
  /\ ~up
  /\ \E s \in GrubChoices : ~Boots(s)
  /\ grub.state = "trying" /\ grub.attempts > 0
  /\ CountAttempt
  /\ UNCHANGED <<diskVars, slots, recovered, staged, machVars, mounts, ps, sig, upset>>

-----------------------------------------------------------------------------
(* signal_boot_success: run by systemd once a boot is healthy, and again    *)
(* whenever the operator runs the command.                                 *)

SigGoto(l) == sig' = IF l = "done" THEN Done ELSE [sig EXCEPT !.pc = l]
SigAt(l) == up /\ sig.pc = l

SignalAgain ==
  /\ "confirm" \in Events
  /\ SigAt("done") /\ SigGoto("due")
  /\ UNCHANGED <<diskVars, fileVars, machVars, mounts, ps, upset>>

\* Detect the slot, load slots.json, and decide from grubenv whether GRUB
\* fell back; the marker records the verdict.
SignalRead ==
  /\ SigAt("due")
  /\ \E v \in Healthy : content[running] = {v}
  /\ \E d \in Detected :
       LET reverted == grub.state = "trying" /\ grub.saved = Other(d) IN
       /\ sig' = [pc |-> "saved", slot |-> d, rev |-> reverted, snap |-> Loaded]
       /\ recovered' = reverted
       /\ upset' = (upset \/ d # running)
  /\ slots' = Loaded
  /\ UNCHANGED <<diskVars, grub, staged, machVars, mounts, ps>>

\* Each grub-editenv call; its exit status is ignored.
Clear(l, g, next) ==
  /\ SigAt(l) /\ SigGoto(next)
  /\ \/ grub' = g /\ upset' = (upset \/ \E p \in Proc : Arming(p))
     \/ "fail" \in Events /\ UNCHANGED grub /\ upset' = TRUE
  /\ UNCHANGED <<diskVars, slots, recovered, staged, machVars, mounts, ps>>

SignalSaved == Clear("saved", [grub EXCEPT !.saved = sig.slot], "confirmed")
SignalConfirmed == Clear("confirmed", [grub EXCEPT !.state = "confirmed"], "attempts")
SignalAttempts == Clear("attempts", [grub EXCEPT !.attempts = Unset], "fallback")
SignalFallback == Clear("fallback", [grub EXCEPT !.fallback = "unset"], "write")

\* The running slot becomes current; the other keeps the version recorded
\* for it.
SignalWrite ==
  LET onCurrent == sig.slot = sig.snap.current_slot
      recorded == IF onCurrent THEN sig.snap.current_version
                  ELSE sig.snap.standby_version
      stamp == BuildVersion(running)
  IN
  /\ SigAt("write")
  /\ slots' = [current_slot |-> sig.slot,
               current_version |-> IF stamp # Unknown THEN stamp ELSE recorded,
               standby_slot |-> Other(sig.slot),
               standby_version |-> IF onCurrent THEN sig.snap.standby_version
                                   ELSE sig.snap.current_version,
               valid |-> TRUE]
  /\ SigGoto(IF sig.rev THEN "done" ELSE "sync")
  /\ UNCHANGED <<diskVars, grub, recovered, staged, machVars, mounts, ps, upset>>

\* sync_identity_to_standby, unless GRUB fell back; its errors are logged.
SignalSync ==
  /\ SigAt("sync")
  /\ \/ /\ SyncPasses(Other(sig.slot))
        /\ mounts' = [mounts EXCEPT ![Other(sig.slot)] = @ \union {"signal"}]
        /\ SigGoto("copy")
     \/ SigGoto("done") /\ UNCHANGED mounts
  /\ UNCHANGED <<diskVars, fileVars, machVars, ps, upset>>

SignalCopy ==
  /\ SigAt("copy")
  /\ id' = [id EXCEPT ![Other(sig.slot)] = id[running]]
  /\ Unmount("signal", Other(sig.slot))
  /\ SigGoto("done")
  /\ UNCHANGED <<content, kernel, initrd, fileVars, machVars, ps, upset>>

Signal == \/ SignalRead \/ SignalSaved \/ SignalConfirmed \/ SignalAttempts
          \/ SignalFallback \/ SignalWrite \/ SignalSync \/ SignalCopy

-----------------------------------------------------------------------------
Apply(p) == \/ ApplyBegin(p) \/ ApplyFormat(p) \/ ApplyMount(p) \/ ApplyExtract(p)
            \/ ApplyKernel(p) \/ ApplyInitrd(p) \/ ApplyRecord(p) \/ ApplyClean(p)
Shared(p) == \/ Refuse(p) \/ CopyIdentity(p) \/ Umount(p)
             \/ ArmSaved(p) \/ ArmFallback(p) \/ ArmTrying(p) \/ ArmAttempts(p)
Others(p) == \/ RollbackBegin(p) \/ RollbackStamp(p) \/ SyncBegin(p) \/ SyncMount(p)

Next ==
  \/ \E v \in Images : Stage(v)
  \/ ChangeIdentity
  \/ \E p \in Proc : Apply(p) \/ Shared(p) \/ Others(p) \/ Fail(p) \/ Kill(p)
  \/ PowerLoss \/ BootUp \/ BootFails
  \/ SignalAgain \/ Signal

Spec == Init /\ [][Next]_vars

\* GRUB boots whenever the machine is off and powered.
Fairness == WF_vars(BootUp) /\ WF_vars(BootFails)
LiveSpec == Spec /\ Fairness

-----------------------------------------------------------------------------
(* Properties. *)

\* No operation ever touches the slot the machine runs from: whatever fails
\* and however processes interleave, the running slot stays bootable.
RunningIntact == up => Boots(running)

\* One of the two slots can always be booted, by hand if GRUB picks wrong.
SomeSlotBoots == \E s \in Slot : Boots(s)

\* GRUB left alone reaches a slot that comes up: the trial slot within its
\* attempts, or else the fallback slot.
ReachesGoodSlot ==
  IF grub.state # "trying" THEN Boots(grub.saved)
  ELSE IF grub.attempts = Unset THEN Boots(grub.saved) /\ Boots(FallbackEntry)
  ELSE Boots(FallbackEntry) \/ (grub.attempts > 0 /\ Boots(grub.saved))

\* A power loss at any moment leaves the machine able to recover unattended,
\* unless a grubenv update was torn, raced or misdirected or the fallback of
\* a trial was overwritten.
Recoverable ==
  ~upset /\ ~Clearing /\ (\A p \in Proc : ~Arming(p)) => ReachesGoodSlot

\* The module documentation's promise, without the exceptions: a machine that
\* is off comes back by itself.
OffReachesGoodSlot == ~up => ReachesGoodSlot

\* The slot GRUB falls back to keeps its files for as long as the trial of
\* the other slot lasts.
FallbackKept ==
  [][grub.state = "trying" /\ grub.fallback \in Slot
       => content'[grub.fallback] = content[grub.fallback]]_vars

\* A rollback is armed only towards a populated, bootable slot.
RollbackTargetPopulated ==
  \A p \in Proc : ps[p].op = "rollback" => Boots(Tgt(p))

\* The machine never runs with the identity files an image was built with.
BootedIdentity == up => id[running] # "default"

\* Mirroring the identity files after a boot never replaces the operator's
\* latest change by an older copy.
MirrorKeepsNewest ==
  [][SignalCopy => \A s \in Slot : id[s] = "current" => id'[s] = "current"]_vars

\* The recovered marker appears only after GRUB has used up the attempts.
RecoveredIsReal ==
  [][~recovered /\ recovered' => grub.attempts = 0]_vars

\* Once the boot signal has run and nothing is under way, slots.json, if it
\* can be read, names the running slot.
CurrentSlotReal ==
  up /\ sig.pc = "done" /\ Busy = {} /\ slots.valid => slots.current_slot = running

\* Off, the machine comes up again in a bounded number of boots.
ComesBack == (~up /\ ~upset) ~> up

=============================================================================
