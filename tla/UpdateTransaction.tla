--------------------------- MODULE UpdateTransaction ---------------------------
(***************************************************************************)
(* Registry updates of the daemon, its UI and the system image: update.rs. *)
(*                                                                         *)
(* An operation loads updates_state.json, keeps it in memory while it      *)
(* downloads, installs and restores, and saves it after every step.  The   *)
(* operation lock orders the operations of one process; the scheduled      *)
(* checker and two small handlers write the file without it.  The slots    *)
(* that an image is written to are the subject of RootfsSlots: here an     *)
(* image is armed in one step.                                             *)
(***************************************************************************)
EXTENDS Integers, FiniteSets

CONSTANTS
  MaxVersion, \* bound: the newest version that is ever published
  Task,       \* requests to the daemon, and runs of its command line
  Cli,        \* those of Task that run on the command line, in a process of their own
  Checker,    \* the task that checks at the scheduled time
  Settings,   \* auto_apply_updates, auto_reboot_after_apply, deploy_runtime_after_apply
  Ops,        \* requests: see Request
  Choices,    \* the selections of components that requests make
  MaxAsks,    \* bound: requests that are made
  MaxFaults,  \* bound: failures, crashes and reboots that nobody asked for
  Events      \* what else happens: see Event

Request == {"check", "apply", "rollback"}
\* A version of a runtime component or of the image is published; the daemon stops, or
\* stops between two renames; the machine is rebooted; a new image does not boot.
Event == {"publish", "image", "crash", "torn", "reboot", "fallback"}

ASSUME UpdateAssumption ==
  /\ MaxVersion \in Nat \ {0} /\ Cli \subseteq Task /\ Checker \notin Task
  /\ "nobody" \notin Task \union {Checker}
  /\ Settings \subseteq {"apply", "reboot", "runtime"}
  /\ Ops \subseteq Request /\ Events \subseteq Event
  /\ Choices \subseteq SUBSET {"core", "ui", "rootfs"} /\ {} \notin Choices
  /\ MaxAsks \in Nat /\ MaxFaults \in Nat

VARIABLES
  published, \* published[c]: the version of component c in the registry, or None
  deployed,  \* deployed[c]: the installed version of runtime component c
  snap,      \* snap[c]: the version in the rollback directory of c
  image,     \* slot: version of the running image; armed: of the one that boots
             \* next; staged: of the one left in the staging directory
  file,      \* updates_state.json
  lock,      \* the operation lock of the daemon
  ps,        \* ps[p]: the operation that p executes
  left,      \* requests and faults that are still to come
  drift,     \* history: runtime components installed or replaced unrecorded
  odd        \* history: runtime components whose snapshot was left unrecorded

hist == <<left, drift, odd>>
disk == <<deployed, snap, image>>
vars == <<published, disk, file, lock, ps, hist>>

Proc == Task \union {Checker}
Daemon == Proc \ Cli
Runtime == {"core", "ui"}
Component == Runtime \union {"rootfs"}

None == 0
Built == 1       \* the version the appliance is installed with
Version == None..MaxVersion
Nobody == "nobody"

-----------------------------------------------------------------------------
StateFile ==
  [seen : SUBSET Component,           \* components that have an entry
   cur : [Component -> Version],      \* current_version
   applied : Version,                 \* last_applied_version of the image
   roll : [Runtime -> Version],       \* rollback_version
   avail : SUBSET Component,          \* update_available
   pending : BOOLEAN,                 \* pending_reboot
   archive : BOOLEAN]                 \* config_rollback_path is set

NoVersion == [c \in Component |-> None]
Blank == [seen |-> {}, cur |-> NoVersion, applied |-> None, roll |-> [c \in Runtime |-> None],
          avail |-> {}, pending |-> FALSE, archive |-> FALSE]

\* current_version_baseline of c according to s.  The last applied version of a
\* runtime component changes with its current version only.
Baseline(s, c) ==
  CASE s.cur[c] # None -> s.cur[c]
    [] c = "rootfs" -> image.slot
    [] OTHER -> Built

\* rootfs_version_is_pending_reboot, for any component.
WaitsForReboot(s, c, v) == c = "rootfs" /\ s.pending /\ s.applied = v

\* is_remote_version_newer, and not staged already.
Updatable(s, c) ==
  /\ published[c] > Baseline(s, c)
  /\ ~WaitsForReboot(s, c, published[c])

\* check_atomicity_constraint: all runtime components with an update are
\* selected, or the image is, or the request forces its selection.
Whole(sel, force) ==
  \/ force \/ "rootfs" \in sel
  \/ LET n == Cardinality(file.avail \cap Runtime)
     IN  n > 1 => Cardinality(sel \cap Runtime) >= n

\* Components are handled in this order.
First(S) == CASE "core" \in S -> "core" [] "ui" \in S -> "ui" [] OTHER -> "rootfs"

-----------------------------------------------------------------------------
Label == {"idle", "lock", "query", "archive", "snapshot", "stage", "deploy", "record",
          "finish", "restore", "unrecord", "config", "schedule",
          "activate", "reboot"}
Idle == [pc |-> "idle", op |-> "check", st |-> Blank, sel |-> {}, todo |-> {}, got |-> {},
         man |-> NoVersion, force |-> FALSE]
OpRecord == [pc : Label, op : Request, st : StateFile, sel : SUBSET Component,
             todo : SUBSET Component, got : SUBSET Component,
             man : [Component -> Version], force : BOOLEAN]

Working == Label \ {"idle", "lock", "schedule", "activate", "reboot"}

TypeOK ==
  /\ published \in [Component -> Version]
  /\ deployed \in [Runtime -> Version] /\ snap \in [Runtime -> Version]
  /\ image \in [slot : Version, armed : Version, staged : Version]
  /\ file \in StateFile
  /\ lock \in Daemon \union {Nobody} /\ ps \in [Proc -> OpRecord]
  /\ \A p \in Daemon : ps[p].pc \in Working <=> lock = p
  /\ left \in [asks : 0..MaxAsks, faults : 0..MaxFaults]
  /\ drift \subseteq Runtime /\ odd \subseteq Runtime

Init ==
  /\ published = NoVersion
  /\ deployed = [c \in Runtime |-> Built] /\ snap = [c \in Runtime |-> None]
  /\ image = [slot |-> Built, armed |-> None, staged |-> None]
  /\ file = Blank
  /\ lock = Nobody /\ ps = [p \in Proc |-> Idle]
  /\ left = [asks |-> MaxAsks, faults |-> MaxFaults]
  /\ drift = {} /\ odd = {}

-----------------------------------------------------------------------------
At(p, l) == ps[p].pc = l
Set(p, r) == ps' = [ps EXCEPT ![p] = r]
Busy(p) == ~At(p, "idle")

\* A process takes the lock and goes on with r.
Enter(p, r) ==
  /\ p \notin Cli => lock = Nobody
  /\ lock' = IF p \in Cli THEN lock ELSE p
  /\ Set(p, r)
  /\ UNCHANGED file

Unlock(p) == lock' = IF lock = p THEN Nobody ELSE lock

\* The operation returns: the checker goes on with what it has scheduled.
Return(p, ok) ==
  /\ Unlock(p)
  /\ Set(p, IF p = Checker /\ ok /\ ps[p].sel = {"rootfs"}
            THEN [Idle EXCEPT !.pc = "activate"] ELSE Idle)

\* A fault happens, unless there is a cause that needs none.
Fault(cause) ==
  IF cause THEN UNCHANGED left
  ELSE left.faults > 0 /\ left' = [left EXCEPT !.faults = @ - 1]

\* It returns a result that says "failed", after it has saved the file.
Fails(p, s) == file' = s /\ Return(p, FALSE)

\* It returns an error.
Errs(p) == Unlock(p) /\ Set(p, Idle)

\* A check is asked for, or an update or a rollback of a selection.
Ask(p) ==
  \E op \in Ops, sel \in Choices \union {{}}, f \in BOOLEAN :
    /\ op = "check" <=> sel = {}
    /\ op = "rollback" => sel \cap Runtime # {}
    /\ f => Cardinality(sel) = 1
    /\ left.asks > 0 /\ left' = [left EXCEPT !.asks = @ - 1]
    /\ At(p, "idle")
    /\ Set(p, [Idle EXCEPT !.pc = "lock", !.op = op, !.sel = sel, !.force = f])
    /\ UNCHANGED <<published, disk, file, lock, drift, odd>>

-----------------------------------------------------------------------------
(* check_for_updates_with_trigger *)

CheckBegin(p) ==
  /\ At(p, "lock") /\ ps[p].op = "check"
  /\ Enter(p, [ps[p] EXCEPT !.pc = "query",
                 !.st = [file EXCEPT !.pending = @ /\ image.armed # None]])
  /\ UNCHANGED <<published, disk, hist>>

\* Mutant of Checked: without the baseline, a component of which no version has been
\* recorded has no update.
CheckedApplied(s) ==
  [s EXCEPT !.avail = {c \in Component : published[c] > s.cur[c] /\ s.cur[c] # None}]

\* The components of the registry are compared with the recorded versions.
Checked(s) ==
  LET known == {c \in Component : published[c] # None}
  IN  [s EXCEPT !.seen = @ \union known \union {"rootfs"},
                !.cur = [c \in Component |-> IF c \in known THEN Baseline(s, c) ELSE @[c]],
                !.avail = {c \in known : Updatable(s, c)} \union (@ \ (known \union {"rootfs"}))]

CheckEnd(p) ==
  /\ At(p, "query") /\ ps[p].op = "check"
  /\ file' = Checked(ps[p].st)
  /\ Unlock(p)
  /\ Set(p, IF p = Checker THEN [Idle EXCEPT !.pc = "schedule", !.got = file'.avail]
            ELSE Idle)
  /\ UNCHANGED <<published, disk, hist>>

-----------------------------------------------------------------------------
(* apply_repo_component_selection and apply_updates_registry *)

ApplyBegin(p) ==
  /\ At(p, "lock") /\ ps[p].op = "apply" /\ Whole(ps[p].sel, ps[p].force)
  /\ Enter(p, [ps[p] EXCEPT !.pc = "query", !.st = file])
  /\ UNCHANGED <<published, disk, hist>>

\* The lock is taken and given back: a request in part is refused.
Refuse(p) ==
  /\ At(p, "lock") /\ ps[p].op # "check" /\ ~Whole(ps[p].sel, ps[p].force)
  /\ p \notin Cli => lock = Nobody
  /\ Errs(p)
  /\ UNCHANGED <<published, disk, file, hist>>

\* What is published of c is downloaded unless the entry of c says that it is no update:
\* without an entry, before the first check, it need not be newer.
Downloaded(s, c) == published[c] # None /\ (c \in s.seen => Updatable(s, c))

\* The registry is asked and every update of the selection is downloaded and
\* verified; there may be none.
Download(p) ==
  /\ At(p, "query") /\ ps[p].op = "apply"
  /\ LET got == {c \in ps[p].sel : Downloaded(ps[p].st, c)}
         man == [c \in Component |-> IF c \in got THEN published[c] ELSE None]
     IN  IF got = {}
         THEN file' = ps[p].st /\ Return(p, TRUE)
         ELSE /\ Set(p, [ps[p] EXCEPT !.pc = "archive", !.got = got, !.man = man])
              /\ UNCHANGED <<file, lock>>
  /\ UNCHANGED <<published, disk, hist>>

\* Goes on with the components of S at label l, or at label e when S is empty.
Proceed(p, s, S, l, e) ==
  Set(p, [ps[p] EXCEPT !.st = s, !.todo = S, !.pc = IF S = {} THEN e ELSE l])

\* snapshot_config_for_rollback
Archive(p) ==
  /\ At(p, "archive")
  /\ file' = [ps[p].st EXCEPT !.archive = TRUE]
  /\ Proceed(p, file', ps[p].sel \cap Runtime, "snapshot", "stage")
  /\ UNCHANGED <<published, disk, lock, hist>>

\* Mutant of Snapshot: a snapshot that is there is kept.
SnapshotOnce(p) ==
  /\ At(p, "snapshot")
  /\ LET c == First(ps[p].todo)
     IN  /\ deployed[c] # None
         /\ snap' = IF snap[c] = None THEN [snap EXCEPT ![c] = deployed[c]] ELSE snap
         /\ Proceed(p, [ps[p].st EXCEPT !.seen = @ \union {c}, !.roll[c] = ps[p].st.cur[c]],
                    ps[p].todo \ {c}, "snapshot", "stage")
  /\ UNCHANGED <<published, deployed, image, file, lock, hist>>

\* snapshot_runtime_for_rollback, and the version that goes with the snapshot.
Snapshot(p) ==
  /\ At(p, "snapshot")
  /\ LET c == First(ps[p].todo)
         s == ps[p].st
     IN  /\ deployed[c] # None
         /\ snap' = [snap EXCEPT ![c] = deployed[c]]
         /\ Proceed(p, [s EXCEPT !.seen = @ \union {c}, !.roll[c] = s.cur[c]],
                    ps[p].todo \ {c}, "snapshot", "stage")
         /\ odd' = IF c \in drift THEN odd \union {c} ELSE odd \ {c}
  /\ UNCHANGED <<published, deployed, image, file, lock, left, drift>>

\* The old snapshot is gone, or there is nothing installed to take one of.
SnapshotFails(p) ==
  /\ At(p, "snapshot")
  /\ LET c == First(ps[p].todo)
     IN  /\ Fault(deployed[c] = None)
         /\ snap' = [snap EXCEPT ![c] = None]
  /\ Fails(p, ps[p].st)
  /\ UNCHANGED <<published, deployed, image, drift, odd>>

\* The snapshots are recorded, before the first component is deployed.
Stage(p) ==
  /\ At(p, "stage")
  /\ file' = ps[p].st
  /\ Proceed(p, ps[p].st, ps[p].got, "deploy", "deploy")
  /\ UNCHANGED <<published, disk, lock, hist>>

\* extract_and_deploy_artifact: the new version is in place, or the image armed.
Deploy(p) ==
  /\ At(p, "deploy")
  /\ LET c == First(ps[p].todo)
     IN  IF c = "rootfs"
         THEN /\ image' = [image EXCEPT !.armed = ps[p].man[c], !.staged = None]
              /\ UNCHANGED deployed
         ELSE deployed' = [deployed EXCEPT ![c] = ps[p].man[c]] /\ UNCHANGED image
  /\ Set(p, [ps[p] EXCEPT !.pc = "record"])
  /\ UNCHANGED <<published, snap, file, lock, hist>>

\* What was deployed before stays.
DeployFails(p) ==
  /\ At(p, "deploy") /\ Fault(FALSE)
  /\ image' = IF First(ps[p].todo) = "rootfs"
              THEN [image EXCEPT !.staged = ps[p].man["rootfs"]] ELSE image
  /\ Fails(p, ps[p].st)
  /\ UNCHANGED <<published, deployed, snap, drift, odd>>

\* Mutant of Recorded: the version is recorded as the next one to run.
RecordedLate(s, c, v) ==
  [s EXCEPT !.seen = @ \union {c}, !.avail = @ \ {c}, !.applied = v, !.pending = TRUE]

\* The versions after v of c has been deployed.
Recorded(s, c, v) ==
  IF c = "rootfs"
  THEN [s EXCEPT !.seen = @ \union {c}, !.cur[c] = Baseline(s, c), !.applied = v,
                 !.avail = @ \ {c}, !.pending = TRUE]
  ELSE [s EXCEPT !.seen = @ \union {c}, !.cur[c] = v, !.avail = @ \ {c}]

Record(p) ==
  /\ At(p, "record")
  /\ LET c == First(ps[p].todo)
     IN  /\ file' = Recorded(ps[p].st, c, ps[p].man[c])
         /\ Proceed(p, file', ps[p].todo \ {c}, "deploy", "finish")
         /\ drift' = drift \ {c}
  /\ UNCHANGED <<published, disk, lock, left, odd>>

Finish(p) ==
  /\ At(p, "finish")
  /\ file' = ps[p].st
  /\ Return(p, TRUE)
  /\ UNCHANGED <<published, disk, hist>>

-----------------------------------------------------------------------------
(* rollback_updates *)

RollbackBegin(p) ==
  /\ At(p, "lock") /\ ps[p].op = "rollback" /\ Whole(ps[p].sel \cap Runtime, ps[p].force)
  /\ Enter(p, [ps[p] EXCEPT !.pc = "restore", !.st = file, !.todo = ps[p].sel \cap Runtime])
  /\ UNCHANGED <<published, disk, hist>>

\* A component without a version to return to is passed over; it has an entry now.
RestoreNone(p) ==
  /\ At(p, "restore")
  /\ LET c == First(ps[p].todo)
     IN  /\ ps[p].st.roll[c] = None
         /\ file' = [ps[p].st EXCEPT !.seen = @ \union {c}]
         /\ Proceed(p, file', ps[p].todo \ {c}, "restore", "config")
  /\ UNCHANGED <<published, disk, lock, hist>>

\* restore_runtime_from_snapshot
Restore(p) ==
  /\ At(p, "restore")
  /\ LET c == First(ps[p].todo)
     IN  /\ ps[p].st.roll[c] # None /\ snap[c] # None
         /\ deployed' = [deployed EXCEPT ![c] = snap[c]]
  /\ Set(p, [ps[p] EXCEPT !.pc = "unrecord"])
  /\ UNCHANGED <<published, snap, image, file, lock, hist>>

RestoreFails(p) ==
  /\ At(p, "restore")
  /\ LET c == First(ps[p].todo)
     IN  ps[p].st.roll[c] # None /\ Fault(snap[c] = None)
  /\ Fails(p, ps[p].st)
  /\ UNCHANGED <<published, disk, drift, odd>>

\* The versions after c has been rolled back.  The snapshot stays as it is.
RolledBack(s, c) ==
  [s EXCEPT !.cur[c] = s.roll[c], !.roll[c] = s.cur[c]]

Unrecord(p) ==
  /\ At(p, "unrecord")
  /\ LET c == First(ps[p].todo)
     IN  /\ file' = RolledBack(ps[p].st, c)
         /\ Set(p, [ps[p] EXCEPT !.st = file', !.todo = @ \ {c}, !.got = @ \union {c},
                                 !.pc = IF ps[p].todo = {c} THEN "config" ELSE "restore"])
         /\ drift' = IF c \in odd THEN drift \union {c} ELSE drift \ {c}
         /\ odd' = odd \union {c}
  /\ UNCHANGED <<published, disk, lock, left>>

\* restore_config_from_snapshot
RestoreConfig(p) ==
  /\ At(p, "config") /\ ps[p].got # {} /\ ps[p].st.archive
  /\ file' = [ps[p].st EXCEPT !.archive = FALSE, !.pending = FALSE]
  /\ Return(p, TRUE)
  /\ UNCHANGED <<published, deployed, snap, image, hist>>

\* Nothing could be rolled back, there is no archive, or it cannot be restored.
RollbackFails(p) ==
  /\ At(p, "config")
  /\ Fault(ps[p].got = {} \/ ~ps[p].st.archive)
  /\ Fails(p, ps[p].st)
  /\ UNCHANGED <<published, disk, drift, odd>>

-----------------------------------------------------------------------------
(* Failures that end an operation with an error, or with a failed result. *)

\* The registry does not answer, or a download does not verify.
QueryFails(p) ==
  /\ At(p, "query") /\ Fault(FALSE)
  /\ Errs(p)
  /\ UNCHANGED <<published, disk, file, drift, odd>>

\* No archive is made, or (ensure_critical_services_healthy) a service is down after
\* the update of a runtime component: nothing is undone.
PhaseFails(p) ==
  /\ Fault(FALSE)
  /\ At(p, "archive") \/ (At(p, "finish") /\ ps[p].got \cap Runtime # {})
  /\ Fails(p, ps[p].st)
  /\ UNCHANGED <<published, disk, drift, odd>>

-----------------------------------------------------------------------------
(* start_update_checker and run_scheduled_update_actions *)

\* The scheduled time has come.
Tick ==
  /\ At(Checker, "idle")
  /\ Set(Checker, [Idle EXCEPT !.pc = "lock"])
  /\ UNCHANGED <<published, disk, file, lock, hist>>

\* What the checker does after a check that found the updates in found: it reboots into
\* the image that waits, or applies the new image, or else the runtime components.
Planned(found) ==
  LET sel == IF "rootfs" \in found THEN {"rootfs"}
             ELSE IF "runtime" \in Settings THEN found \cap Runtime ELSE {}
  IN  CASE "apply" \notin Settings \/ (image.armed = None /\ sel = {}) -> Idle
        [] "apply" \in Settings /\ image.armed # None ->
             [Idle EXCEPT !.pc = IF "reboot" \in Settings THEN "reboot" ELSE "idle"]
        [] OTHER -> [Idle EXCEPT !.pc = "lock", !.op = "apply", !.sel = sel]

Schedule ==
  /\ At(Checker, "schedule")
  /\ Set(Checker, Planned(ps[Checker].got))
  /\ UNCHANGED <<published, disk, file, lock, hist>>

\* activate_scheduled_rootfs_update: the image that Deploy left in the staging
\* directory is applied.  A Deploy that succeeded left none, and this fails.
Activate ==
  /\ At(Checker, "activate")
  /\ image' = IF image.staged = None THEN image
              ELSE [image EXCEPT !.armed = image.staged, !.staged = None]
  /\ Set(Checker, [Idle EXCEPT !.pc = IF image.staged # None /\ "reboot" \in Settings
                                      THEN "reboot" ELSE "idle"])
  /\ UNCHANGED <<published, deployed, snap, file, lock, hist>>

-----------------------------------------------------------------------------
(* Stops, and what others do. *)

\* The process of the operations in P ends.  Interrupted between two renames, an
\* installation leaves nothing in place.
Stop(P, live) ==
  LET On(l) == {p \in P : At(p, l)}
      cut == UNION {{First(ps[p].todo)} : p \in On("record") \union On("unrecord")}
      half == UNION {ps[p].sel : p \in On("snapshot") \union On("stage")}
      open == IF "torn" \notin Events THEN {}
              ELSE {First(ps[p].todo) : p \in On("deploy") \union On("restore")}
  IN  /\ ps' = [p \in Proc |-> IF p \in P THEN Idle ELSE ps[p]]
      /\ lock' = IF lock \in P THEN Nobody ELSE lock
      /\ \E lost \in SUBSET (open \cap Runtime) :
           /\ deployed' = [c \in Runtime |-> IF c \in lost THEN None ELSE live[c]]
           /\ drift' = drift \union (cut \cap Runtime) \union lost
                         \union {c \in Runtime : live[c] # deployed[c]}
      /\ odd' = odd \union (half \cap Runtime)

Crash ==
  /\ "crash" \in Events /\ Fault(FALSE)
  /\ Stop(Daemon, deployed)
  /\ UNCHANGED <<published, snap, image, file>>

\* The machine boots the armed image, with the daemon and the UI of its build, or
\* falls back to the one it ran.
Reboot ==
  /\ At(Checker, "reboot") \/ "reboot" \in Events
  /\ Fault(At(Checker, "reboot"))
  /\ \E v \in IF image.armed = None THEN {image.slot}
             ELSE {image.armed} \union {image.slot : e \in Events \cap {"fallback"}} :
       /\ image' = [image EXCEPT !.slot = v, !.armed = None]
       /\ Stop(Proc, IF v = image.slot THEN deployed ELSE [c \in Runtime |-> v])
  /\ UNCHANGED <<published, snap, file>>

Publish ==
  /\ \E c \in (IF "publish" \in Events THEN Runtime ELSE {})
               \union (IF "image" \in Events THEN {"rootfs"} ELSE {}) :
       \E v \in Version : v > published[c] /\ published' = [published EXCEPT ![c] = v]
  /\ UNCHANGED <<disk, file, lock, ps, hist>>

-----------------------------------------------------------------------------
Goods(p) == \/ CheckEnd(p) \/ Download(p) \/ Archive(p) \/ Snapshot(p) \/ Stage(p) \/ Deploy(p)
            \/ Record(p) \/ Finish(p) \/ RestoreNone(p) \/ Restore(p)
            \/ Unrecord(p) \/ RestoreConfig(p)
Enters(p) == CheckBegin(p) \/ ApplyBegin(p) \/ Refuse(p) \/ RollbackBegin(p)
Bads(p) == \/ QueryFails(p) \/ PhaseFails(p) \/ SnapshotFails(p) \/ DeployFails(p)
           \/ RestoreFails(p) \/ RollbackFails(p)

Next ==
  \/ \E p \in Task : Ask(p)
  \/ \E p \in Proc : Enters(p) \/ Goods(p) \/ Bads(p)
  \/ Tick \/ Schedule \/ Activate
  \/ Crash \/ Reboot \/ Publish

\* tokio polls every task, commands and downloads end, a reboot that was asked for
\* comes, the checker's ticker goes on, and the mutex is fair.  MaxFaults says that
\* what is tried again and again succeeds in the end.
Checks == \/ Tick \/ Schedule \/ Activate \/ (At(Checker, "reboot") /\ Reboot)
          \/ Enters(Checker) \/ Goods(Checker) \/ Bads(Checker)
Fairness ==
  /\ WF_vars(Checks)
  /\ \A p \in Task : WF_vars(Goods(p) \/ Bads(p)) /\ SF_vars(Enters(p))
Spec == Init /\ [][Next]_vars
LiveSpec == Spec /\ Fairness

-----------------------------------------------------------------------------
(* Properties. *)

\* No operation is at work on the files.
Quiet == \A p \in Proc : ps[p].pc \notin Working

\* The version on record is the installed one, whatever failed or stopped half
\* way, but for components that were replaced by the boot of an image, cut off
\* between installation and record, or rolled back to a snapshot that did not
\* belong to the recorded version.
VersionsTrue == Quiet => \A c \in Runtime \ drift : Baseline(file, c) = deployed[c]

\* The rollback directory holds the version the record promises, or nothing, but
\* for components rolled back before, or cut off before the snapshot was recorded.
SnapshotTrue ==
  Quiet => \A c \in Runtime \ odd : file.roll[c] # None => snap[c] \in {None, file.roll[c]}

\* What is published for the daemon and the UI is installed in the end, on a
\* system that applies updates and for which no image has been published: what a
\* failed or interrupted operation has left does not keep the checker from it.
Behind(c) == deployed[c] < published[c] /\ c \notin drift
Applies == {"apply", "runtime"} \subseteq Settings
Lagging == Applies /\ published["rootfs"] = None /\ \E c \in Runtime : Behind(c)
UpdatesArrive == Lagging ~> ~Lagging

\* The same with images.
AllUpdatesArrive == \A c \in Runtime : Applies /\ Behind(c) ~> ~Behind(c)

\* No image is armed that is not newer than the one that runs.
OnlyNewerImages == [][image'.armed \in {None, image.armed} \/ image'.armed > image.slot]_vars

\* The image becomes the current version with the boot: once the reboot is no longer
\* pending, the version on record is the running one.
ImageCurrent == file.pending \/ Baseline(file, "rootfs") = image.slot

\* An update installs everything it has downloaded, or nothing.
Transaction ==
  [][\A p \in Proc : At(p, "deploy") /\ ps'[p].pc = "idle" =>
       ps[p].todo = ps[p].got \/ ps' # [ps EXCEPT ![p] = Idle]]_vars

\* A rollback installs the version it records.
RollbackExact == Quiet => \A c \in Runtime : Baseline(file, c) = deployed[c]
=============================================================================
