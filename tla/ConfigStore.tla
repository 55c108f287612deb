----------------------------- MODULE ConfigStore -----------------------------
(***************************************************************************)
(* The file protocol of the configuration store: how config.json, its      *)
(* backup and its temporary file change while savers write the             *)
(* configuration, and how each committed configuration is archived as a    *)
(* revision.  config/storage.rs and config/history.rs.                     *)
(*                                                                         *)
(* A saver is one handler, background task or command.  The store takes no *)
(* lock, and all savers use the same two auxiliary names, so a file is an  *)
(* inode that a name and open descriptors may share.  A crash stops every  *)
(* saver; what was written before it stays, in the order it was written.   *)
(***************************************************************************)
EXTENDS Integers, Sequences, FiniteSets

CONSTANTS
  Value,     \* contents of the sections other than config_history
  Invalid,   \* those of them that validation refuses
  Keeps,     \* values of max_revisions; 0 stands for history disabled
  Saver,     \* savers that may run at the same time
  Inode,     \* files
  None,      \* no file
  Empty,     \* contents of a file just opened for writing
  Garbled,   \* contents of a file two savers have written to
  Ops,       \* operations of the savers: see Operation
  Events     \* faults: see Fault

Operation == {"save", "settings", "restore", "snapshot", "delete"}
Fault == {"crash", "disk"}

ASSUME StoreAssumption ==
  /\ Invalid \subseteq Value /\ Keeps \subseteq Nat /\ (\E k \in Keeps : k > 0)
  /\ Value \ Invalid # {}
  /\ None \notin Inode /\ Empty # Garbled
  /\ {Empty, Garbled} \cap [value : Value, keep : Keeps] = {}
  /\ Ops \subseteq Operation /\ Events \subseteq Fault

VARIABLES
  file,     \* file[n]: the inode that name n of the directory refers to
  data,     \* data[i]: what inode i holds
  revs,     \* the archive, oldest revision first
  ps,       \* ps[p]: what saver p is doing
  before,   \* history: what config.json held when the last operation began
  wanted,   \*   what it was to hold after it
  clean,    \*   since then no other saver ran, and no restore of the backup
            \*   failed or was cut short
  reply     \*   what the last operation returned

hist == <<before, wanted, clean, reply>>
vars == <<file, data, revs, ps, hist>>

-----------------------------------------------------------------------------
Config == [value : Value, keep : Keeps]

Text == Config \union {Empty, Garbled}
Readable(t) == t \notin {Empty, Garbled}

\* ConfigStore::validate.
Valid(c) == c.value \notin Invalid

\* The configuration of a box that has never saved one.
Default == [value |-> CHOOSE v \in Value \ Invalid : TRUE, keep |-> CHOOSE k \in Keeps : k > 0]

Name == {"config", "bak", "tmp"}
Content == IF file.config = None THEN Default ELSE data[file.config]

Label == {"idle", "backup", "copy", "open", "write", "rename", "reload",
          "revert", "recopy", "archive", "record"}
Task == [pc : Label, cfg : Config, from : Inode \union {None}, to : Inode \union {None},
         keep : Nat, text : Text]
Idle == [pc |-> "idle", cfg |-> Default, from |-> None, to |-> None, keep |-> 0,
         text |-> Empty]

\* The archive never outgrows the largest number of revisions to keep.
TypeOK ==
  /\ file \in [Name -> Inode \union {None}]
  /\ data \in [Inode -> Text]
  /\ revs \in Seq(Config) /\ \E k \in Keeps : Len(revs) <= k
  /\ ps \in [Saver -> Task]
  /\ before \in Text /\ wanted \in Text /\ clean \in BOOLEAN
  /\ reply \in {"none", "ok", "warned", "error"}

Init ==
  /\ file = [n \in Name |-> None]
  /\ data = [i \in Inode |-> Empty]
  /\ revs = <<>>
  /\ ps = [p \in Saver |-> Idle]
  /\ before = Default /\ wanted = Default /\ clean = TRUE /\ reply = "none"

-----------------------------------------------------------------------------
At(p, l) == ps[p].pc = l
Set(p, t) == ps' = [ps EXCEPT ![p] = t]
Goto(p, l) == Set(p, [ps[p] EXCEPT !.pc = l])

\* The operation ends; an archive that cannot be written is only a warning.
Return(p, r) == Set(p, Idle) /\ reply' = r

\* An inode that no name and no descriptor refers to.
Unused(i) == /\ \A n \in Name : file[n] # i
             /\ \A p \in Saver : i \notin {ps[p].from, ps[p].to}

\* Name n is opened for writing: its inode, or a new one, is truncated.
OpenTrunc(n, i) ==
  /\ IF file[n] = None THEN i \in Inode /\ Unused(i) ELSE i = file[n]
  /\ file' = [file EXCEPT ![n] = i]
  /\ data' = [data EXCEPT ![i] = Empty]

\* A saver starts; the history variables start afresh when it is the only one.
Start(p, t, new) ==
  /\ At(p, "idle") /\ Set(p, t)
  /\ before' = Content /\ wanted' = new
  /\ clean' = (\A q \in Saver : ps[q].pc = "idle")
  /\ reply' = "none"
  /\ UNCHANGED <<file, data, revs>>
StartSave(p, c) == Start(p, [Idle EXCEPT !.pc = "backup", !.cfg = c], c)

\* save_X: the whole configuration is loaded and one section replaced.
SaveSection(p) ==
  /\ Readable(Content)
  /\ \/ "save" \in Ops /\ \E v \in Value : StartSave(p, [Content EXCEPT !.value = v])
     \/ "settings" \in Ops /\ \E k \in Keeps : StartSave(p, [Content EXCEPT !.keep = k])

\* restore_revision: the stored revision is saved like any configuration.
RestoreRevision(p) == "restore" \in Ops /\ \E r \in 1..Len(revs) : StartSave(p, revs[r])

\* Step 1: config.json is copied over the backup.
BackupOpen(p) ==
  /\ At(p, "backup")
  /\ \/ /\ file.config = None /\ Goto(p, "open") /\ UNCHANGED <<file, data>>
     \/ /\ file.config # None
        /\ \E i \in Inode :
             /\ OpenTrunc("bak", i)
             /\ Set(p, [ps[p] EXCEPT !.pc = "copy", !.from = file.config, !.to = i])
  /\ UNCHANGED <<revs, hist>>

BackupCopy(p) ==
  /\ At(p, "copy")
  /\ data' = [data EXCEPT ![ps[p].to] = data[ps[p].from]]
  /\ Set(p, [ps[p] EXCEPT !.pc = "open", !.from = None, !.to = None])
  /\ UNCHANGED <<file, revs, hist>>

\* Mutant of Open: the configuration is not validated.
OpenUnchecked(p) ==
  /\ At(p, "open")
  /\ \E i \in Inode :
       /\ OpenTrunc("tmp", i)
       /\ Set(p, [ps[p] EXCEPT !.pc = "write", !.to = i])
  /\ UNCHANGED <<revs, hist>>

\* Step 2, save: validation, then the temporary file is opened and truncated.
Open(p) ==
  /\ At(p, "open")
  /\ \/ ~Valid(ps[p].cfg) /\ Goto(p, "revert") /\ UNCHANGED <<file, data>>
     \/ /\ Valid(ps[p].cfg)
        /\ \E i \in Inode :
             /\ OpenTrunc("tmp", i)
             /\ Set(p, [ps[p] EXCEPT !.pc = "write", !.to = i])
  /\ UNCHANGED <<revs, hist>>

\* A write into a file that holds another saver's text leaves its own text or,
\* where that is the shorter one, neither.
Write(p) ==
  /\ At(p, "write")
  /\ \E t \in {ps[p].cfg, Garbled} :
       /\ t = Garbled => data[ps[p].to] \notin {Empty, ps[p].cfg}
       /\ data' = [data EXCEPT ![ps[p].to] = t]
  /\ Set(p, [ps[p] EXCEPT !.pc = "rename", !.to = None])
  /\ UNCHANGED <<file, revs, hist>>

\* The temporary file, whoever wrote it, becomes config.json; another saver
\* may have renamed it already.
Rename(p) ==
  /\ At(p, "rename")
  /\ \/ /\ file.tmp # None
        /\ file' = [file EXCEPT !.config = file.tmp, !.tmp = None]
        /\ Goto(p, "reload")
     \/ file.tmp = None /\ Goto(p, "revert") /\ UNCHANGED file
  /\ UNCHANGED <<data, revs, hist>>

\* Step 3: config.json is read and validated; then the backup is removed.
Reload(p) ==
  /\ At(p, "reload")
  /\ \/ /\ Readable(Content) /\ Valid(Content)
        /\ file' = [file EXCEPT !.bak = None]
        /\ Goto(p, "archive")
     \/ ~(Readable(Content) /\ Valid(Content)) /\ Goto(p, "revert") /\ UNCHANGED file
  /\ UNCHANGED <<data, revs, hist>>

\* Mutant of RevertOpen: the error is returned without restoring anything.
RevertSkipped(p) ==
  /\ At(p, "revert") /\ Return(p, "error")
  /\ UNCHANGED <<file, data, revs, before, wanted, clean>>

\* try_restore_backup copies the backup over config.json, in place.
RevertOpen(p) ==
  /\ At(p, "revert")
  /\ \/ /\ file.bak = None /\ Return(p, "error")
        /\ clean' = (clean /\ file.config = None)
        /\ UNCHANGED <<file, data>>
     \/ /\ file.bak # None
        /\ \E i \in Inode :
             /\ OpenTrunc("config", i)
             /\ Set(p, [ps[p] EXCEPT !.pc = "recopy", !.from = file.bak, !.to = i])
        /\ UNCHANGED <<clean, reply>>
  /\ UNCHANGED <<revs, before, wanted>>

RevertCopy(p) ==
  /\ At(p, "recopy")
  /\ data' = [data EXCEPT ![ps[p].to] = data[ps[p].from]]
  /\ Return(p, "error")
  /\ UNCHANGED <<file, revs, before, wanted, clean>>

-----------------------------------------------------------------------------
(* The archive of revisions. *)

\* The newest revision already holds the live configuration.
Recorded == revs # <<>> /\ revs[Len(revs)] = Content

\* Step 5: the committed file is read back, and nothing is archived when it
\* is what the newest revision holds.
Archive(p) ==
  /\ At(p, "archive")
  /\ \/ /\ ps[p].cfg.keep > 0 /\ Readable(Content)
        /\ ~Recorded
        /\ Set(p, [ps[p] EXCEPT !.pc = "record", !.text = Content,
                                !.keep = ps[p].cfg.keep])
        /\ UNCHANGED reply
     \/ /\ ps[p].cfg.keep = 0 \/ ~Readable(Content) \/ Recorded
        /\ Return(p, "ok")
  /\ UNCHANGED <<file, data, revs, before, wanted, clean>>

\* The newest n members of s.
Newest(s, n) == SubSeq(s, IF Len(s) > n THEN Len(s) - n + 1 ELSE 1, Len(s))

\* Mutant of Pruned: the newest revisions are removed.
PrunedNewest(s, n) == SubSeq(s, 1, IF Len(s) > n THEN n ELSE Len(s))

\* prune: at most n revisions are left.
Pruned(s, n) == Newest(s, n)

Record(p) ==
  /\ At(p, "record")
  /\ revs' = Pruned(Append(revs, ps[p].text), ps[p].keep)
  /\ Return(p, "ok")
  /\ UNCHANGED <<file, data, before, wanted, clean>>

\* snapshot, called before an update: an unreadable configuration counts as
\* one with the default settings, but cannot be archived.
Snapshot(p) ==
  /\ "snapshot" \in Ops /\ Readable(Content) /\ Content.keep > 0
  /\ file.config # None
  /\ ~Recorded
  /\ Start(p, [Idle EXCEPT !.pc = "record", !.text = Content, !.keep = Content.keep], Content)

DeleteRevision(p) ==
  /\ "delete" \in Ops /\ At(p, "idle")
  /\ \E r \in 1..Len(revs) : revs' = SubSeq(revs, 1, r - 1) \o SubSeq(revs, r + 1, Len(revs))
  /\ reply' = "none"
  /\ UNCHANGED <<file, data, ps, before, wanted, clean>>

-----------------------------------------------------------------------------
(* Faults. *)

\* A file operation fails: before step 2 the save returns, in it the backup
\* is restored, a copy that fails leaves its target empty, and a revision
\* that cannot be written is a warning.
DiskFails(p) ==
  /\ "disk" \in Events
  /\ \/ /\ ps[p].pc \in {"backup", "copy"} /\ Return(p, "error")
        /\ UNCHANGED clean
     \/ /\ ps[p].pc \in {"open", "write", "rename", "reload"}
        /\ Set(p, [ps[p] EXCEPT !.pc = "revert", !.to = None])
        /\ UNCHANGED <<clean, reply>>
     \/ ps[p].pc \in {"revert", "recopy"} /\ Return(p, "error") /\ clean' = FALSE
     \/ ps[p].pc \in {"archive", "record"} /\ Return(p, "warned") /\ UNCHANGED clean
  /\ UNCHANGED <<file, data, revs, before, wanted>>

\* The daemon stops.
Crash ==
  /\ "crash" \in Events
  /\ \E p \in Saver : ps[p].pc # "idle"
  /\ ps' = [p \in Saver |-> Idle]
  /\ clean' = (clean /\ \A p \in Saver : ps[p].pc # "recopy")
  /\ reply' = "none"
  /\ UNCHANGED <<file, data, revs, before, wanted>>

-----------------------------------------------------------------------------
Save(p) == \/ BackupOpen(p) \/ BackupCopy(p) \/ Open(p) \/ Write(p) \/ Rename(p)
           \/ Reload(p) \/ RevertOpen(p) \/ RevertCopy(p) \/ Archive(p) \/ Record(p)
Begin(p) == SaveSection(p) \/ RestoreRevision(p) \/ Snapshot(p) \/ DeleteRevision(p)
Next == (\E p \in Saver : Begin(p) \/ Save(p) \/ DiskFails(p)) \/ Crash
Spec == Init /\ [][Next]_vars

-----------------------------------------------------------------------------
(* Properties. *)

Quiet == \A p \in Saver : At(p, "idle")
Restoring == \E p \in Saver : At(p, "recopy")

\* A configuration that validation refuses is never the live one, whatever
\* savers, failures and crashes interleave, and never becomes a revision.
NeverInvalid ==
  /\ Readable(Content) => Valid(Content)
  /\ \A r \in 1..Len(revs) : Valid(revs[r])

\* A save that runs alone is atomic, whatever earlier saves and crashes left
\* behind: every reader sees the old configuration or the new one, a reported
\* success means the new one and a reported error the old one.
SaveAtomic ==
  clean /\ ~Restoring =>
    /\ Content \in {before, wanted}
    /\ reply \in {"ok", "warned"} => Content = wanted
    /\ reply = "error" => Content = before

\* Once such a save has returned, the newest revision is the live configuration.
HistoryTrue == clean /\ reply = "ok" /\ Content.keep > 0 => Recorded

\* With no saver under way the configuration can be read.
QuietReadable == Quiet => Readable(Content)

=============================================================================
