-------------------------- MODULE ConfigStoreProofs --------------------------
(* Theorems about ConfigStore, for every number of savers and every set of *)
(* operations and faults: no configuration that validation refuses is ever *)
(* live or archived.                                                       *)
EXTENDS ConfigStore, SequenceTheorems, TLAPS

\* What a save may write, and what a file may hold.
GoodConfig == {c \in Config : Valid(c)}
GoodText == GoodConfig \union {Empty, Garbled}

\* What a task carries along at each label.
Proper(t) ==
  /\ t.pc \in {"copy", "recopy"} => t.from \in Inode /\ t.to \in Inode
  /\ t.pc = "write" => t.to \in Inode /\ t.cfg \in GoodConfig
  /\ t.pc = "record" => t.text \in GoodConfig /\ t.keep \in Keeps /\ t.keep > 0

Sound ==
  /\ TypeOK
  /\ data \in [Inode -> GoodText]
  /\ revs \in Seq(GoodConfig)
  /\ \A p \in Saver : Proper(ps[p])

-----------------------------------------------------------------------------
LEMMA DefaultGood == Default \in GoodConfig
BY StoreAssumption DEF Default, GoodConfig, Config, Valid

LEMMA GoodIsText == GoodConfig \subseteq Config /\ GoodText \subseteq Text
BY DEF GoodConfig, GoodText, Text

LEMMA IdleProper == Idle \in Task /\ Proper(Idle)
<1>1. Default \in Config
  BY DefaultGood, GoodIsText
<1>2. QED
  BY <1>1 DEF Idle, Task, Proper, Label, Text

\* The live configuration, where it can be read, is a good one.
LEMMA ContentGood ==
  ASSUME Sound
  PROVE  Content \in GoodText /\ (Readable(Content) => Content \in GoodConfig)
<1>1. CASE file.config = None
  BY <1>1, DefaultGood DEF Content, GoodText
<1>2. CASE file.config # None
  <2>1. file.config \in Inode
    BY <1>2 DEF Sound, TypeOK, Name
  <2>2. Content = data[file.config]
    BY <1>2 DEF Content
  <2>3. QED
    BY <2>1, <2>2 DEF Sound, GoodText, Readable
<1>3. QED
  BY <1>1, <1>2

LEMMA OpenGood ==
  ASSUME Sound, NEW n \in Name, NEW i \in Inode, OpenTrunc(n, i)
  PROVE  /\ file' \in [Name -> Inode \union {None}]
         /\ data' \in [Inode -> GoodText]
BY DEF OpenTrunc, Sound, TypeOK, GoodText

\* Pruning keeps members of the archive, at most as many as it is told.
LEMMA PrunedProperties ==
  ASSUME NEW s \in Seq(GoodConfig), NEW n \in Nat
  PROVE  Pruned(s, n) \in Seq(GoodConfig) /\ Len(Pruned(s, n)) <= n
<1> DEFINE m == IF Len(s) > n THEN Len(s) - n + 1 ELSE 1
<1>1. m \in Int /\ m >= 1 /\ Len(s) \in Nat
  BY LenProperties
<1>2. \A i \in m .. Len(s) : s[i] \in GoodConfig
  BY <1>1, ElementOfSeq
<1>3. /\ SubSeq(s, m, Len(s)) \in Seq(GoodConfig)
      /\ Len(SubSeq(s, m, Len(s))) = IF m <= Len(s) THEN Len(s) - m + 1 ELSE 0
  BY <1>1, <1>2, SubSeqProperties
<1>4. QED
  BY <1>1, <1>3 DEF Pruned, Newest

\* Removing one revision keeps the others.
LEMMA DeleteProperties ==
  ASSUME NEW s \in Seq(GoodConfig), NEW r \in 1 .. Len(s)
  PROVE  /\ SubSeq(s, 1, r - 1) \o SubSeq(s, r + 1, Len(s)) \in Seq(GoodConfig)
         /\ Len(SubSeq(s, 1, r - 1) \o SubSeq(s, r + 1, Len(s))) <= Len(s)
<1> DEFINE a == SubSeq(s, 1, r - 1)
           b == SubSeq(s, r + 1, Len(s))
<1>1. Len(s) \in Nat /\ r \in Int
  BY LenProperties
<1>2. a \in Seq(GoodConfig) /\ Len(a) = r - 1
  <2>1. \A i \in 1 .. r - 1 : s[i] \in GoodConfig
    BY <1>1, ElementOfSeq
  <2>2. QED
    BY <1>1, <2>1, SubSeqProperties
<1>3. b \in Seq(GoodConfig) /\ Len(b) = Len(s) - r
  <2>1. \A i \in r + 1 .. Len(s) : s[i] \in GoodConfig
    BY <1>1, ElementOfSeq
  <2>2. QED
    BY <1>1, <2>1, SubSeqProperties
<1>4. a \o b \in Seq(GoodConfig) /\ Len(a \o b) = Len(a) + Len(b)
  BY <1>2, <1>3, ConcatProperties
<1>5. Len(a \o b) <= Len(s)
  <2> HIDE DEF a, b
  <2>1. QED
    BY <1>1, <1>2, <1>3, <1>4
<1>6. QED
  BY <1>4, <1>5

-----------------------------------------------------------------------------
\* A task changes to a proper one, the files and the archive to good ones.
LEMMA SoundBy ==
  ASSUME Sound, NEW p \in Saver, NEW t \in Task, Proper(t), Set(p, t),
         file' \in [Name -> Inode \union {None}], data' \in [Inode -> GoodText],
         revs' \in Seq(GoodConfig), \E k \in Keeps : Len(revs') <= k,
         before' \in Text, wanted' \in Text, clean' \in BOOLEAN,
         reply' \in {"none", "ok", "warned", "error"}
  PROVE  Sound'
<1>1. ps' \in [Saver -> Task]
  BY DEF Sound, TypeOK, Set
<1>2. \A q \in Saver : Proper(ps'[q])
  BY DEF Sound, TypeOK, Set
<1>3. data' \in [Inode -> Text] /\ revs' \in Seq(Config)
  BY GoodIsText
<1>4. TypeOK'
  BY <1>1, <1>3 DEF TypeOK
<1>5. QED
  BY <1>2, <1>4 DEF Sound, Proper

\* The same where only the task, or only the files, change.
LEMMA SoundHist ==
  ASSUME Sound, UNCHANGED hist
  PROVE  /\ before' \in Text /\ wanted' \in Text /\ clean' \in BOOLEAN
         /\ reply' \in {"none", "ok", "warned", "error"}
BY DEF Sound, TypeOK, hist

LEMMA TaskType ==
  ASSUME Sound, NEW p \in Saver
  PROVE  /\ ps[p] \in Task /\ Proper(ps[p])
         /\ \A l \in Label : [ps[p] EXCEPT !.pc = l] \in Task
         /\ \A l \in Label : [ps[p] EXCEPT !.pc = l, !.to = None] \in Task
         /\ \A l \in Label, i, j \in Inode \union {None} :
              /\ [ps[p] EXCEPT !.pc = l, !.to = j] \in Task
              /\ [ps[p] EXCEPT !.pc = l, !.from = i, !.to = j] \in Task
BY DEF Sound, TypeOK, Task

\* A task about to archive c.
LEMMA RecordTask ==
  ASSUME NEW tk \in Task, NEW c \in GoodConfig, NEW k \in Keeps, k > 0
  PROVE  LET t == [tk EXCEPT !.pc = "record", !.text = c, !.keep = k]
         IN  t \in Task /\ Proper(t)
<1> DEFINE t == [tk EXCEPT !.pc = "record", !.text = c, !.keep = k]
<1>1. c \in Text /\ k \in Nat
  BY GoodIsText, StoreAssumption DEF Text
<1>2. t \in Task /\ t.pc = "record" /\ t.text = c /\ t.keep = k
  BY <1>1 DEF Task, Label
<1>3. Proper(t)
  BY <1>2 DEF Proper
<1>4. QED
  BY <1>2, <1>3

\* A label that asks for nothing can be next whatever the task carries.
LEMMA PlainProper ==
  ASSUME Sound, NEW p \in Saver, NEW l \in Label \ {"copy", "recopy", "write", "record"}
  PROVE  Proper([ps[p] EXCEPT !.pc = l]) /\ Proper([ps[p] EXCEPT !.pc = l, !.to = None])
<1>1. ps[p] \in Task
  BY TaskType
<1>2. [ps[p] EXCEPT !.pc = l].pc = l /\ [ps[p] EXCEPT !.pc = l, !.to = None].pc = l
  BY <1>1 DEF Task
<1>3. QED
  BY <1>2 DEF Proper

LEMMA StartSound ==
  ASSUME Sound, NEW p \in Saver, NEW t \in Task, Proper(t), NEW c \in Text, Start(p, t, c)
  PROVE  Sound'
<1>1. before' \in Text /\ wanted' \in Text
  BY ContentGood, GoodIsText DEF Start
<1>2. /\ file' \in [Name -> Inode \union {None}] /\ data' \in [Inode -> GoodText]
      /\ revs' \in Seq(GoodConfig) /\ \E k \in Keeps : Len(revs') <= k
  BY DEF Start, Sound, TypeOK
<1>3. clean' \in BOOLEAN /\ reply' \in {"none", "ok", "warned", "error"}
  BY DEF Start
<1>4. Set(p, t)
  BY DEF Start
<1>5. QED
  BY <1>1, <1>2, <1>3, <1>4, SoundBy

\* An operation that saves configuration c starts soundly.
LEMMA StartSaveSound ==
  ASSUME Sound, NEW p \in Saver, NEW c \in Config, StartSave(p, c)
  PROVE  Sound'
<1>1. [Idle EXCEPT !.pc = "backup", !.cfg = c] \in Task
  BY IdleProper DEF Task, Label
<1>2. Proper([Idle EXCEPT !.pc = "backup", !.cfg = c])
  BY IdleProper DEF Proper, Task
<1>3. c \in Text
  BY DEF Text
<1>4. QED
  BY <1>1, <1>2, <1>3, StartSound DEF StartSave

LEMMA BeginSound ==
  ASSUME Sound, NEW p \in Saver, Begin(p)
  PROVE  Sound'
<1>1. CASE SaveSection(p)
  <2>1. Content \in Config
    BY <1>1, ContentGood, GoodIsText DEF SaveSection
  <2>2. \A v \in Value : [Content EXCEPT !.value = v] \in Config
    BY <2>1 DEF Config
  <2>3. \A k \in Keeps : [Content EXCEPT !.keep = k] \in Config
    BY <2>1 DEF Config
  <2>4. QED
    BY <1>1, <2>2, <2>3, StartSaveSound DEF SaveSection
<1>2. CASE RestoreRevision(p)
  <2>1. PICK r \in 1 .. Len(revs) : StartSave(p, revs[r])
    BY <1>2 DEF RestoreRevision
  <2>2. revs[r] \in Config
    BY ElementOfSeq DEF Sound, TypeOK
  <2>3. QED
    BY <2>1, <2>2, StartSaveSound
<1>3. CASE Snapshot(p)
  <2> DEFINE t == [Idle EXCEPT !.pc = "record", !.text = Content, !.keep = Content.keep]
  <2>1. Content \in GoodConfig /\ Content \in Text /\ Content.keep \in Keeps /\ Content.keep > 0
    BY <1>3, ContentGood, GoodIsText DEF Snapshot, GoodConfig, Config
  <2>2. Content.keep \in Nat
    BY <2>1, StoreAssumption
  <2>3. t \in Task /\ t.pc = "record" /\ t.text = Content /\ t.keep = Content.keep
    BY <2>1, <2>2, IdleProper DEF Task, Label
  <2>4. Proper(t)
    BY <2>1, <2>3 DEF Proper
  <2>5. Start(p, t, Content)
    BY <1>3 DEF Snapshot
  <2>6. QED
    <3> HIDE DEF t
    <3>1. QED
      BY <2>1, <2>3, <2>4, <2>5, StartSound
<1>4. CASE DeleteRevision(p)
  <2>1. PICK r \in 1 .. Len(revs) :
          revs' = SubSeq(revs, 1, r - 1) \o SubSeq(revs, r + 1, Len(revs))
    BY <1>4 DEF DeleteRevision
  <2>2. revs' \in Seq(GoodConfig) /\ Len(revs') <= Len(revs)
    BY <2>1, DeleteProperties DEF Sound
  <2>3. \E k \in Keeps : Len(revs') <= k
    <3>1. PICK k \in Keeps : Len(revs) <= k
      BY DEF Sound, TypeOK
    <3>2. Len(revs') \in Nat /\ Len(revs) \in Nat /\ k \in Nat
      BY <2>2, LenProperties, StoreAssumption DEF Sound
    <3>3. QED
      BY <2>2, <3>1, <3>2
  <2>4. revs' \in Seq(Config)
    BY <2>2, GoodIsText
  <2>5. QED
    BY <1>4, <2>2, <2>3, <2>4 DEF DeleteRevision, Sound, TypeOK, Proper
<1>5. QED
  BY <1>1, <1>2, <1>3, <1>4 DEF Begin

\* Steps 1 to 3 of a save and the restore of the backup.
LEMMA WriteSound ==
  ASSUME Sound, NEW p \in Saver,
         BackupOpen(p) \/ BackupCopy(p) \/ Open(p) \/ Write(p) \/ Rename(p)
  PROVE  Sound'
<1> USE TaskType
<1>0. /\ data \in [Inode -> GoodText] /\ file \in [Name -> Inode \union {None}]
      /\ revs \in Seq(GoodConfig) /\ \E k \in Keeps : Len(revs) <= k
  BY DEF Sound, TypeOK
<1>1. CASE BackupOpen(p)
  <2>1. CASE file.config = None /\ Goto(p, "open") /\ UNCHANGED <<file, data>>
    <3>1. Proper([ps[p] EXCEPT !.pc = "open"])
      BY DEF Proper, Task
    <3>2. QED
      BY <1>0, <1>1, <2>1, <3>1, SoundHist, SoundBy DEF BackupOpen, Goto, Label
  <2>2. CASE file.config # None
    <3>1. PICK i \in Inode :
            OpenTrunc("bak", i)
            /\ Set(p, [ps[p] EXCEPT !.pc = "copy", !.from = file.config, !.to = i])
      BY <1>1, <2>2 DEF BackupOpen
    <3>2. file.config \in Inode
      BY <1>0, <2>2 DEF Name
    <3>3. Proper([ps[p] EXCEPT !.pc = "copy", !.from = file.config, !.to = i])
      BY <3>2 DEF Proper, Task
    <3>4. "bak" \in Name /\ "copy" \in Label
      BY DEF Name, Label
    <3>5. QED
      BY <1>0, <1>1, <3>1, <3>2, <3>3, <3>4, OpenGood, SoundHist, SoundBy DEF BackupOpen
  <2>3. QED
    BY <1>1, <2>1, <2>2 DEF BackupOpen
<1>2. CASE BackupCopy(p)
  <2>1. ps[p].from \in Inode /\ ps[p].to \in Inode
    BY <1>2 DEF BackupCopy, At, Proper
  <2>2. data' \in [Inode -> GoodText]
    BY <1>0, <1>2, <2>1 DEF BackupCopy
  <2>3. Proper([ps[p] EXCEPT !.pc = "open", !.from = None, !.to = None])
    BY DEF Proper, Task
  <2>4. "open" \in Label
    BY DEF Label
  <2>5. QED
    BY <1>0, <1>2, <2>2, <2>3, <2>4, SoundHist, SoundBy DEF BackupCopy
<1>3. CASE Open(p)
  <2>1. CASE ~Valid(ps[p].cfg) /\ Goto(p, "revert") /\ UNCHANGED <<file, data>>
    <3>1. Proper([ps[p] EXCEPT !.pc = "revert"])
      BY DEF Proper, Task
    <3>2. QED
      BY <1>0, <1>3, <2>1, <3>1, SoundHist, SoundBy DEF Open, Goto, Label
  <2>2. CASE Valid(ps[p].cfg)
    <3>1. PICK i \in Inode :
            OpenTrunc("tmp", i) /\ Set(p, [ps[p] EXCEPT !.pc = "write", !.to = i])
      BY <1>3, <2>2 DEF Open
    <3>2. ps[p].cfg \in GoodConfig
      BY <2>2 DEF GoodConfig, Task
    <3>3. Proper([ps[p] EXCEPT !.pc = "write", !.to = i])
      BY <3>2 DEF Proper, Task
    <3>4. "tmp" \in Name /\ "write" \in Label
      BY DEF Name, Label
    <3>5. QED
      BY <1>0, <1>3, <3>1, <3>3, <3>4, OpenGood, SoundHist, SoundBy DEF Open
  <2>3. QED
    BY <1>3, <2>1, <2>2 DEF Open
<1>4. CASE Write(p)
  <2>1. ps[p].to \in Inode /\ ps[p].cfg \in GoodText
    BY <1>4 DEF Write, At, Proper, GoodText
  <2>2. data' \in [Inode -> GoodText]
    BY <1>0, <1>4, <2>1 DEF Write, GoodText
  <2>3. Proper([ps[p] EXCEPT !.pc = "rename", !.to = None])
    BY DEF Proper, Task
  <2>4. "rename" \in Label
    BY DEF Label
  <2>5. QED
    BY <1>0, <1>4, <2>2, <2>3, <2>4, SoundHist, SoundBy DEF Write
<1>5. CASE Rename(p)
  <2>1. file' \in [Name -> Inode \union {None}]
    BY <1>0, <1>5 DEF Rename, Name
  <2>2. /\ Proper([ps[p] EXCEPT !.pc = "reload"]) /\ "reload" \in Label
        /\ Proper([ps[p] EXCEPT !.pc = "revert"]) /\ "revert" \in Label
    BY PlainProper DEF Label
  <2>3. QED
    BY <1>0, <1>5, <2>1, <2>2, SoundHist, SoundBy DEF Rename, Goto
<1>6. QED
  BY <1>1, <1>2, <1>3, <1>4, <1>5

\* An operation that returns without touching anything but the files.
LEMMA ReturnSound ==
  ASSUME Sound, NEW p \in Saver, NEW r \in {"ok", "warned", "error"}, Return(p, r),
         data' \in [Inode -> GoodText], UNCHANGED <<file, revs, before, wanted>>,
         clean' \in BOOLEAN
  PROVE  Sound'
<1>1. Set(p, Idle) /\ reply' = r
  BY DEF Return
<1>2. QED
  BY <1>1, IdleProper, SoundBy DEF Sound, TypeOK

LEMMA FinishSound ==
  ASSUME Sound, NEW p \in Saver,
         Reload(p) \/ RevertOpen(p) \/ RevertCopy(p) \/ Archive(p) \/ Record(p)
  PROVE  Sound'
<1> USE TaskType
<1>0. /\ data \in [Inode -> GoodText] /\ file \in [Name -> Inode \union {None}]
      /\ revs \in Seq(GoodConfig) /\ (\E k \in Keeps : Len(revs) <= k)
      /\ before \in Text /\ wanted \in Text /\ clean \in BOOLEAN
      /\ reply \in {"none", "ok", "warned", "error"}
  BY DEF Sound, TypeOK
<1>1. CASE Reload(p)
  <2>1. file' \in [Name -> Inode \union {None}]
    BY <1>0, <1>1 DEF Reload, Name
  <2>2. /\ Proper([ps[p] EXCEPT !.pc = "archive"]) /\ "archive" \in Label
        /\ Proper([ps[p] EXCEPT !.pc = "revert"]) /\ "revert" \in Label
    BY PlainProper DEF Label
  <2>3. QED
    BY <1>0, <1>1, <2>1, <2>2, SoundHist, SoundBy DEF Reload, Goto
<1>2. CASE RevertOpen(p)
  <2>1. CASE file.bak = None
    BY <1>0, <1>2, <2>1, ReturnSound DEF RevertOpen
  <2>2. CASE file.bak # None
    <3>1. PICK i \in Inode :
            OpenTrunc("config", i)
            /\ Set(p, [ps[p] EXCEPT !.pc = "recopy", !.from = file.bak, !.to = i])
      BY <1>2, <2>2 DEF RevertOpen
    <3>2. file.bak \in Inode
      BY <1>0, <2>2 DEF Name
    <3>3. Proper([ps[p] EXCEPT !.pc = "recopy", !.from = file.bak, !.to = i])
      BY <3>2 DEF Proper, Task
    <3>4. "config" \in Name /\ "recopy" \in Label
      BY DEF Name, Label
    <3>5. UNCHANGED <<clean, reply, revs, before, wanted>>
      BY <1>2, <2>2 DEF RevertOpen
    <3>6. QED
      BY <1>0, <3>1, <3>2, <3>3, <3>4, <3>5, OpenGood, SoundBy
  <2>3. QED
    BY <2>1, <2>2
<1>3. CASE RevertCopy(p)
  <2>1. ps[p].from \in Inode /\ ps[p].to \in Inode
    BY <1>3 DEF RevertCopy, At, Proper
  <2>2. data' \in [Inode -> GoodText]
    BY <1>0, <1>3, <2>1 DEF RevertCopy
  <2>3. QED
    BY <1>0, <1>3, <2>2, ReturnSound DEF RevertCopy
<1>4. CASE Archive(p)
  <2>1. CASE Return(p, "ok")
    BY <1>0, <1>4, <2>1, ReturnSound DEF Archive
  <2> DEFINE t == [ps[p] EXCEPT !.pc = "record", !.text = Content, !.keep = ps[p].cfg.keep]
  <2>2. CASE /\ ps[p].cfg.keep > 0 /\ Readable(Content) /\ Set(p, t) /\ UNCHANGED reply
    <3>1. Content \in GoodConfig
      BY <2>2, ContentGood
    <3>2. ps[p].cfg.keep \in Keeps
      BY DEF Task, Config
    <3>3. t \in Task /\ Proper(t)
      BY <2>2, <3>1, <3>2, RecordTask
    <3>4. UNCHANGED <<file, data, revs, before, wanted, clean, reply>>
      BY <1>4, <2>2 DEF Archive
    <3>5. QED
      <4> HIDE DEF t
      <4>1. QED
        BY <1>0, <2>2, <3>3, <3>4, SoundBy
  <2>3. QED
    BY <1>4, <2>1, <2>2 DEF Archive
<1>5. CASE Record(p)
  <2>1. ps[p].text \in GoodConfig /\ ps[p].keep \in Keeps /\ ps[p].keep \in Nat
    BY <1>5, StoreAssumption DEF Record, At, Proper
  <2>2. Append(revs, ps[p].text) \in Seq(GoodConfig)
    BY <1>0, <2>1, AppendProperties
  <2>3. revs' \in Seq(GoodConfig) /\ Len(revs') <= ps[p].keep
    BY <1>5, <2>1, <2>2, PrunedProperties DEF Record
  <2>4. Set(p, Idle) /\ reply' = "ok" /\ UNCHANGED <<file, data, before, wanted, clean>>
    BY <1>5 DEF Record, Return
  <2>5. QED
    BY <1>0, <2>1, <2>3, <2>4, IdleProper, SoundBy
<1>6. QED
  BY <1>1, <1>2, <1>3, <1>4, <1>5

LEMMA FaultSound ==
  ASSUME Sound, Crash \/ \E p \in Saver : DiskFails(p)
  PROVE  Sound'
<1>1. CASE Crash
  <2>1. ps' \in [Saver -> Task] /\ \A p \in Saver : Proper(ps'[p])
    BY <1>1, IdleProper DEF Crash
  <2>2. QED
    BY <1>1, <2>1 DEF Crash, Sound, TypeOK
<1>2. ASSUME NEW p \in Saver, DiskFails(p)
      PROVE  Sound'
  <2>0. clean \in BOOLEAN /\ clean' \in BOOLEAN /\ data \in [Inode -> GoodText]
        /\ UNCHANGED <<file, data, revs, before, wanted>>
    BY <1>2 DEF DiskFails, Sound, TypeOK
  <2>1. CASE Return(p, "error") \/ Return(p, "warned")
    BY <2>0, <2>1, ReturnSound
  <2>2. CASE Set(p, [ps[p] EXCEPT !.pc = "revert", !.to = None]) /\ UNCHANGED <<clean, reply>>
    <3>1. Proper([ps[p] EXCEPT !.pc = "revert", !.to = None]) /\ "revert" \in Label
      BY PlainProper DEF Label
    <3>2. QED
      BY <2>0, <2>2, <3>1, TaskType, SoundBy DEF Sound, TypeOK
  <2>3. QED
    BY <1>2, <2>1, <2>2 DEF DiskFails
<1>3. QED
  BY <1>1, <1>2

LEMMA SoundStep == Sound /\ [Next]_vars => Sound'
<1> SUFFICES ASSUME Sound, [Next]_vars PROVE Sound'
  OBVIOUS
<1>1. CASE UNCHANGED vars
  BY <1>1 DEF vars, hist, Sound, TypeOK, Proper
<1>2. CASE Crash
  BY <1>2, FaultSound
<1>3. ASSUME NEW p \in Saver, Begin(p) \/ Save(p) \/ DiskFails(p)
      PROVE  Sound'
  BY <1>3, BeginSound, WriteSound, FinishSound, FaultSound DEF Save
<1>4. QED
  BY <1>1, <1>2, <1>3 DEF Next

LEMMA SoundInit == Init => Sound
<1> SUFFICES ASSUME Init PROVE Sound
  OBVIOUS
<1>1. Default \in Text /\ Empty \in GoodText /\ GoodText \subseteq Text
  BY DefaultGood, GoodIsText DEF GoodText
<1>2. <<>> \in Seq(GoodConfig) /\ <<>> \in Seq(Config) /\ Len(<<>>) = 0
  BY EmptySeq
<1>3. \E k \in Keeps : Len(<<>>) <= k
  BY <1>2, StoreAssumption
<1>4. QED
  BY <1>1, <1>2, <1>3, IdleProper DEF Init, Sound, TypeOK, Name

-----------------------------------------------------------------------------
\* Every variable keeps its type, and the archive its bound.
THEOREM StoreTypeCorrect == Spec => []TypeOK
<1>1. Sound => TypeOK
  BY DEF Sound
<1>2. QED
  BY SoundInit, SoundStep, <1>1, PTL DEF Spec

\* What validation refuses is never live and never archived, however many
\* savers overlap and whatever fails.
THEOREM RefusedNeverStored == Spec => []NeverInvalid
<1>1. Sound => NeverInvalid
  <2> SUFFICES ASSUME Sound PROVE NeverInvalid
    OBVIOUS
  <2>1. \A r \in 1 .. Len(revs) : revs[r] \in GoodConfig
    BY ElementOfSeq DEF Sound
  <2>2. QED
    BY <2>1, ContentGood DEF NeverInvalid, GoodConfig
<1>2. QED
  BY SoundInit, SoundStep, <1>1, PTL DEF Spec

-----------------------------------------------------------------------------
(* A save that runs alone is atomic.                                        *)

\* Names do not share files, and there is no backup before there is a
\* configuration.
Linked ==
  /\ \A n, m \in Name : file[n] # None /\ file[n] = file[m] => n = m
  /\ file.config = None => file.bak = None

Active(p) == ps[p].pc # "idle"
Alone == \A p, q \in Saver : Active(p) /\ Active(q) => p = q

\* The backup, where there is one, is what the operation found.
BackupTrue == file.bak # None => data[file.bak] = before

\* What the files hold at each label of an operation that runs alone.
Tracked(p) ==
  /\ Active(p) => reply = "none"
  /\ ps[p].pc \in {"backup", "copy", "open", "write", "rename"} =>
       Content = before /\ ps[p].cfg = wanted
  /\ ps[p].pc \in {"reload", "archive"} => Content = wanted /\ ps[p].cfg = wanted
  /\ ps[p].pc = "record" => Content = wanted /\ ps[p].text = wanted
  /\ ps[p].pc = "copy" => file.config # None /\ ps[p].from = file.config /\ ps[p].to = file.bak
  /\ ps[p].pc \in {"open", "write", "rename", "reload", "revert", "recopy"} => BackupTrue
  /\ ps[p].pc = "write" => ps[p].to = file.tmp /\ data[file.tmp] = Empty
  /\ ps[p].pc = "rename" => (file.tmp # None => data[file.tmp] = wanted)
  /\ ps[p].pc = "reload" => file.config # None
  /\ ps[p].pc = "revert" =>
       Content \in {before, wanted} /\ (file.config = None => Content = before)
  /\ ps[p].pc = "recopy" =>
       ps[p].to = file.config /\ ps[p].from = file.bak /\ file.bak # None

\* What is true once it has returned.
Returned ==
  /\ Content \in {before, wanted}
  /\ reply \in {"ok", "warned"} => Content = wanted
  /\ reply = "error" => Content = before
  /\ reply = "ok" /\ Content.keep > 0 => Recorded

Followed ==
  clean => /\ Alone
           /\ \A p \in Saver : Tracked(p)
           /\ Quiet => Returned

Exact == Sound /\ Linked /\ Followed

\* A task is replaced, and the others stay.
LEMMA SetRest ==
  ASSUME Sound, NEW p \in Saver, NEW t, Set(p, t)
  PROVE  ps'[p] = t /\ \A q \in Saver \ {p} : ps'[q] = ps[q]
BY DEF Set, Sound, TypeOK

LEMMA ReturnRest ==
  ASSUME Sound, NEW p \in Saver, NEW r, Return(p, r)
  PROVE  /\ ps'[p].pc = "idle" /\ reply' = r
         /\ \A q \in Saver \ {p} : ps'[q] = ps[q]
BY SetRest DEF Return, Idle

\* Opening a file for writing keeps the names apart, and empties one file.
LEMMA OpenLinked ==
  ASSUME Sound, Linked, NEW n \in Name, NEW i \in Inode, OpenTrunc(n, i),
         n = "bak" => file.config # None
  PROVE  /\ Linked' /\ file'[n] = i /\ data'[i] = Empty
         /\ \A m \in Name \ {n} : file'[m] = file[m] /\ file[m] # i
         /\ \A j \in Inode \ {i} : data'[j] = data[j]
<1>1. /\ file \in [Name -> Inode \union {None}] /\ data \in [Inode -> GoodText]
      /\ i # None
  BY StoreAssumption DEF Sound, TypeOK
<1>2. file' = [file EXCEPT ![n] = i] /\ data' = [data EXCEPT ![i] = Empty]
  BY DEF OpenTrunc
<1>3. \A m \in Name \ {n} : file[m] # i
  <2>1. CASE file[n] = None
    BY <2>1 DEF OpenTrunc, Unused
  <2>2. CASE file[n] # None
    BY <2>2 DEF OpenTrunc, Linked
  <2>3. QED
    BY <2>1, <2>2
<1>4. file'[n] = i /\ \A m \in Name \ {n} : file'[m] = file[m]
  BY <1>1, <1>2
<1>5. Linked'
  BY <1>1, <1>3, <1>4 DEF Linked, Name
<1>6. QED
  BY <1>1, <1>2, <1>3, <1>4, <1>5

\* Names stay apart, whatever the savers do.
LEMMA LinkedStep ==
  ASSUME Sound, Linked, [Next]_vars
  PROVE  Linked'
<1>1. CASE UNCHANGED file
  BY <1>1 DEF Linked
<1>2. ASSUME NEW p \in Saver, BackupOpen(p) PROVE Linked'
  <2>1. CASE file.config # None
    BY <1>2, <2>1, OpenLinked DEF BackupOpen, Name
  <2>2. QED
    BY <1>1, <1>2, <2>1 DEF BackupOpen
<1>3. ASSUME NEW p \in Saver, Open(p) PROVE Linked'
  BY <1>1, <1>3, OpenLinked DEF Open, Name
<1>4. ASSUME NEW p \in Saver, RevertOpen(p) PROVE Linked'
  BY <1>1, <1>4, OpenLinked DEF RevertOpen, Name
<1>5. ASSUME NEW p \in Saver, Rename(p) PROVE Linked'
  <2>1. CASE file' = [file EXCEPT !.config = file.tmp, !.tmp = None] /\ file.tmp # None
    <3>1. /\ file'.config = file.tmp /\ file'.tmp = None /\ file'.bak = file.bak
      BY <2>1 DEF Sound, TypeOK, Name
    <3>2. QED
      BY <2>1, <3>1 DEF Linked, Name
  <2>2. QED
    BY <1>1, <1>5, <2>1 DEF Rename
<1>6. ASSUME NEW p \in Saver, Reload(p) PROVE Linked'
  <2>1. CASE file' = [file EXCEPT !.bak = None]
    <3>1. file'.config = file.config /\ file'.tmp = file.tmp /\ file'.bak = None
      BY <2>1 DEF Sound, TypeOK, Name
    <3>2. QED
      BY <3>1 DEF Linked, Name
  <2>2. QED
    BY <1>1, <1>6, <2>1 DEF Reload
<1>7. QED
  BY <1>1, <1>2, <1>3, <1>4, <1>5, <1>6 DEF Next, vars, Begin, SaveSection, RestoreRevision,
     StartSave, Start, Snapshot, DeleteRevision, Save, BackupCopy, Write, RevertCopy, Archive,
     Record, DiskFails, Crash

\* A step of the one operation under way.
LEMMA FollowedBy ==
  ASSUME Exact, NEW p \in Saver, Active(p), clean' => clean,
         \A q \in Saver \ {p} : ps'[q] = ps[q],
         clean' => IF ps'[p].pc = "idle" THEN Returned' ELSE Tracked(p)'
  PROVE  Followed'
<1> SUFFICES ASSUME clean' PROVE Alone' /\ (\A q \in Saver : Tracked(q)') /\ (Quiet' => Returned')
  BY DEF Followed
<1>1. Alone
  BY DEF Exact, Followed
<1>2. \A q \in Saver \ {p} : ps'[q].pc = "idle"
  BY <1>1 DEF Alone, Active
<1>3. Alone'
  BY <1>2 DEF Alone, Active
<1>4. ASSUME NEW q \in Saver, ps'[q].pc = "idle" PROVE Tracked(q)'
  BY <1>4 DEF Tracked, Active
<1>5. \A q \in Saver : Tracked(q)'
  BY <1>2, <1>4
<1>6. Quiet' => Returned'
  BY DEF Quiet, At
<1>7. QED
  BY <1>3, <1>5, <1>6

\* The newest revision outlives the pruning.
LEMMA PrunedLast ==
  ASSUME NEW s \in Seq(GoodConfig), NEW x \in GoodConfig, NEW n \in Nat, n > 0
  PROVE  LET t == Pruned(Append(s, x), n) IN t # <<>> /\ t[Len(t)] = x
<1> DEFINE a == Append(s, x)
           m == IF Len(a) > n THEN Len(a) - n + 1 ELSE 1
           t == SubSeq(a, m, Len(a))
<1>1. a \in Seq(GoodConfig) /\ Len(a) = Len(s) + 1 /\ a[Len(a)] = x /\ Len(s) \in Nat
  BY AppendProperties, LenProperties
<1>2. m \in 1 .. Len(a)
  BY <1>1
<1>3. \A i \in m .. Len(a) : a[i] \in GoodConfig
  BY <1>1, <1>2, ElementOfSeq
<1>4. /\ t \in Seq(GoodConfig) /\ Len(t) = Len(a) - m + 1
      /\ \A i \in 1 .. Len(a) - m + 1 : t[i] = a[m + i - 1]
  <2> HIDE DEF a, m
  <2>1. m \in Int /\ Len(a) \in Int /\ 1 <= m /\ m <= Len(a)
    BY <1>1, <1>2
  <2>2. QED
    BY <1>3, <2>1, SubSeqProperties
<1>5. t # <<>> /\ t[Len(t)] = a[Len(a)]
  <2> HIDE DEF a, m, t
  <2>1. Len(a) \in Nat /\ m \in Nat /\ 1 <= m /\ m <= Len(a)
    BY <1>1, <1>2
  <2>2. Len(t) \in 1 .. Len(a) - m + 1 /\ m + Len(t) - 1 = Len(a)
    BY <1>4, <2>1
  <2>3. t[Len(t)] = a[m + Len(t) - 1]
    BY <1>4, <2>2
  <2>4. t # <<>>
    BY <2>2, EmptySeq
  <2>5. QED
    BY <2>2, <2>3, <2>4
<1>6. Pruned(a, n) = t
  BY DEF Pruned, Newest
<1>7. QED
  BY <1>1, <1>5, <1>6

-----------------------------------------------------------------------------
\* A saver starts: it runs alone, or nothing is claimed.
LEMMA StartFollowed ==
  ASSUME Exact, NEW p \in Saver, NEW t, NEW c, Start(p, t, c),
         \/ t.pc = "backup" /\ t.cfg = c
         \/ t.pc = "record" /\ t.text = c /\ c = Content
  PROVE  Followed'
<1>1. /\ ps'[p] = t /\ (\A q \in Saver \ {p} : ps'[q] = ps[q]) /\ reply' = "none"
      /\ before' = Content /\ wanted' = c /\ UNCHANGED <<file, data, revs>>
      /\ clean' = \A q \in Saver : ps[q].pc = "idle"
  BY SetRest DEF Exact, Start
<1>2. Content' = Content
  BY <1>1 DEF Content
<1>3. SUFFICES ASSUME clean' PROVE Alone' /\ (\A q \in Saver : Tracked(q)') /\ (Quiet' => Returned')
  BY DEF Followed
<1>4. \A q \in Saver \ {p} : ps'[q].pc = "idle"
  BY <1>1, <1>3
<1>5. Alone' /\ ~Quiet'
  BY <1>1, <1>4 DEF Alone, Active, Quiet, At
<1>6. Tracked(p)'
  BY <1>1, <1>2 DEF Tracked
<1>7. \A q \in Saver \ {p} : Tracked(q)'
  BY <1>4 DEF Tracked, Active
<1>8. QED
  BY <1>5, <1>6, <1>7

LEMMA BeginFollowed ==
  ASSUME Exact, NEW p \in Saver, Begin(p)
  PROVE  Followed'
<1>1. ASSUME NEW c, StartSave(p, c) PROVE Followed'
  <2>1. [Idle EXCEPT !.pc = "backup", !.cfg = c].pc = "backup"
        /\ [Idle EXCEPT !.pc = "backup", !.cfg = c].cfg = c
    BY DEF Idle
  <2>2. QED
    BY <1>1, <2>1, StartFollowed DEF StartSave
<1>2. CASE SaveSection(p)
  BY <1>1, <1>2 DEF SaveSection
<1>3. CASE RestoreRevision(p)
  BY <1>1, <1>3 DEF RestoreRevision
<1>4. CASE Snapshot(p)
  <2> DEFINE t == [Idle EXCEPT !.pc = "record", !.text = Content, !.keep = Content.keep]
  <2>1. t.pc = "record" /\ t.text = Content
    BY DEF Idle
  <2>2. Start(p, t, Content)
    BY <1>4 DEF Snapshot
  <2>3. QED
    <3> HIDE DEF t
    <3>1. QED
      BY <2>1, <2>2, StartFollowed
<1>5. CASE DeleteRevision(p)
  <2>1. reply' = "none" /\ UNCHANGED <<file, data, ps, before, wanted, clean>>
    BY <1>5 DEF DeleteRevision
  <2>2. Content' = Content
    BY <2>1 DEF Content
  <2>3. SUFFICES ASSUME clean PROVE Alone' /\ (\A q \in Saver : Tracked(q)') /\ (Quiet' => Returned')
    BY <2>1 DEF Followed
  <2>4. Alone /\ (\A q \in Saver : Tracked(q)) /\ (Quiet => Returned)
    BY <2>3 DEF Exact, Followed
  <2>5. \A q \in Saver : Tracked(q)'
    BY <2>1, <2>2, <2>4 DEF Tracked, Active, BackupTrue
  <2>6. QED
    BY <2>1, <2>2, <2>4, <2>5 DEF Alone, Active, Quiet, At, Returned
<1>6. QED
  BY <1>2, <1>3, <1>4, <1>5 DEF Begin

\* Steps 1 to 3 of a save.
LEMMA WriteFollowed ==
  ASSUME Exact, NEW p \in Saver,
         BackupOpen(p) \/ BackupCopy(p) \/ Open(p) \/ Write(p) \/ Rename(p)
  PROVE  Followed'
<1> USE DEF At, hist, Name
<1>0. /\ Sound /\ Linked /\ Followed /\ ps[p] \in Task /\ Proper(ps[p])
      /\ data \in [Inode -> GoodText] /\ file \in [Name -> Inode \union {None}]
      /\ None \notin Inode
  BY TaskType, StoreAssumption DEF Exact, Sound, TypeOK
<1>1. Active(p) /\ UNCHANGED hist
  BY DEF BackupOpen, BackupCopy, Open, Write, Rename, Active
<1>2. clean => Tracked(p)
  BY <1>0 DEF Followed
<1>3. ASSUME NEW t, Set(p, t), t.pc # "idle",
             clean => Tracked(p)'
      PROVE  Followed'
  <2>1. ps'[p] = t /\ \A q \in Saver \ {p} : ps'[q] = ps[q]
    BY <1>0, <1>3, SetRest
  <2>2. QED
    BY <1>1, <1>3, <2>1, FollowedBy
<1>4. ASSUME NEW l \in Label \ {"idle"}, Goto(p, l)
      PROVE  /\ Set(p, [ps[p] EXCEPT !.pc = l]) /\ [ps[p] EXCEPT !.pc = l].pc = l
             /\ ps'[p].pc = l /\ ps'[p].cfg = ps[p].cfg
  BY <1>0, <1>4, SetRest DEF Goto, Task
<1>10. ASSUME NEW l \in Label \ {"idle"}, Goto(p, l), clean => Tracked(p)'
       PROVE  Followed'
  <2>1. PICK t : t = [ps[p] EXCEPT !.pc = l]
    OBVIOUS
  <2>2. t.pc = l /\ Set(p, t)
    BY <1>4, <1>10, <2>1
  <2>3. QED
    BY <1>3, <1>10, <2>2
<1>5. CASE BackupOpen(p)
  <2>1. CASE file.config = None /\ Goto(p, "open") /\ UNCHANGED <<file, data>>
    <3>1. ps'[p].pc = "open" /\ ps'[p].cfg = ps[p].cfg /\ Content' = Content
      BY <1>4, <2>1 DEF Label, Content
    <3>2. file.bak = None
      BY <1>0, <2>1 DEF Linked
    <3>3. clean => Tracked(p)'
      BY <1>1, <1>2, <1>5, <2>1, <3>1, <3>2 DEF Tracked, Active, BackupTrue, BackupOpen
    <3>4. QED
      BY <1>10, <2>1, <3>3 DEF Label
  <2>2. CASE file.config # None
    <3>1. PICK i \in Inode :
            OpenTrunc("bak", i)
            /\ Set(p, [ps[p] EXCEPT !.pc = "copy", !.from = file.config, !.to = i])
      BY <1>5, <2>2 DEF BackupOpen
    <3>2. PICK t : t = [ps[p] EXCEPT !.pc = "copy", !.from = file.config, !.to = i]
      OBVIOUS
    <3>3. t.pc = "copy" /\ t.from = file.config /\ t.to = i /\ t.cfg = ps[p].cfg /\ ps'[p] = t
      BY <1>0, <3>1, <3>2, SetRest DEF Task
    <3>4. /\ file'.bak = i /\ file'.config = file.config /\ file.config # i
          /\ \A j \in Inode \ {i} : data'[j] = data[j]
      BY <1>0, <2>2, <3>1, OpenLinked
    <3>5. Content' = Content
      BY <1>0, <2>2, <3>4 DEF Content
    <3>6. clean => Tracked(p)'
      BY <1>1, <1>2, <1>5, <2>2, <3>3, <3>4, <3>5 DEF Tracked, Active, BackupOpen
    <3>7. QED
      BY <1>3, <3>1, <3>2, <3>3, <3>6
  <2>3. QED
    BY <1>5, <2>1, <2>2 DEF BackupOpen
<1>6. CASE BackupCopy(p)
  <2>1. PICK t : t = [ps[p] EXCEPT !.pc = "open", !.from = None, !.to = None]
    OBVIOUS
  <2>2. t.pc = "open" /\ t.cfg = ps[p].cfg /\ ps'[p] = t /\ Set(p, t) /\ ps[p].pc = "copy"
    BY <1>0, <1>6, <2>1, SetRest DEF Task, BackupCopy
  <2>3. file' = file /\ data' = [data EXCEPT ![ps[p].to] = data[ps[p].from]]
    BY <1>6 DEF BackupCopy
  <2>4. clean => Tracked(p)'
    <3>1. SUFFICES ASSUME clean PROVE Tracked(p)'
      OBVIOUS
    <3>2. /\ Content = before /\ ps[p].cfg = wanted /\ file.config # None
          /\ ps[p].from = file.config /\ ps[p].to = file.bak /\ reply = "none"
      BY <1>2, <2>2, <3>1 DEF Tracked, Active
    <3>3. file.bak \in Inode /\ file.bak # file.config /\ file.config \in Inode
      BY <1>0, <2>2, <3>2 DEF Linked, Proper
    <3>4. data'[file.bak] = data[file.config] /\ data'[file.config] = data[file.config]
      BY <1>0, <2>3, <3>2, <3>3
    <3>5. Content' = before /\ BackupTrue'
      BY <1>1, <2>3, <3>2, <3>4 DEF Content, BackupTrue
    <3>6. QED
      BY <1>1, <2>2, <3>2, <3>5 DEF Tracked
  <2>5. QED
    BY <1>3, <2>2, <2>4
<1>7. CASE Open(p)
  <2>1. CASE ~Valid(ps[p].cfg) /\ Goto(p, "revert") /\ UNCHANGED <<file, data>>
    <3>1. ps'[p].pc = "revert" /\ Content' = Content
      BY <1>4, <2>1 DEF Label, Content
    <3>2. clean => Tracked(p)'
      BY <1>1, <1>2, <1>7, <2>1, <3>1 DEF Tracked, Active, BackupTrue, Open
    <3>3. QED
      BY <1>10, <2>1, <3>2 DEF Label
  <2>2. CASE Valid(ps[p].cfg)
    <3>1. PICK i \in Inode :
            OpenTrunc("tmp", i) /\ Set(p, [ps[p] EXCEPT !.pc = "write", !.to = i])
      BY <1>7, <2>2 DEF Open
    <3>2. PICK t : t = [ps[p] EXCEPT !.pc = "write", !.to = i]
      OBVIOUS
    <3>3. t.pc = "write" /\ t.to = i /\ t.cfg = ps[p].cfg /\ ps'[p] = t
      BY <1>0, <3>1, <3>2, SetRest DEF Task
    <3>4. /\ file'.tmp = i /\ data'[i] = Empty
          /\ file'.config = file.config /\ file.config # i
          /\ file'.bak = file.bak /\ file.bak # i
          /\ \A j \in Inode \ {i} : data'[j] = data[j]
      BY <1>0, <3>1, OpenLinked
    <3>5. Content' = Content
      BY <1>0, <3>4 DEF Content
    <3>6. clean /\ BackupTrue => BackupTrue'
      BY <1>0, <1>1, <3>4 DEF BackupTrue
    <3>7. clean => Tracked(p)'
      BY <1>1, <1>2, <1>7, <3>3, <3>4, <3>5, <3>6 DEF Tracked, Active, Open
    <3>8. QED
      BY <1>3, <3>1, <3>2, <3>3, <3>7
  <2>3. QED
    BY <1>7, <2>1, <2>2 DEF Open
<1>8. CASE Write(p)
  <2>1. PICK t : t = [ps[p] EXCEPT !.pc = "rename", !.to = None]
    OBVIOUS
  <2>2. t.pc = "rename" /\ t.cfg = ps[p].cfg /\ ps'[p] = t /\ Set(p, t) /\ ps[p].pc = "write"
    BY <1>0, <1>8, <2>1, SetRest DEF Task, Write
  <2>3. PICK x \in {ps[p].cfg, Garbled} :
          /\ x = Garbled => data[ps[p].to] \notin {Empty, ps[p].cfg}
          /\ data' = [data EXCEPT ![ps[p].to] = x]
    BY <1>8 DEF Write
  <2>4. file' = file /\ ps[p].to \in Inode
    BY <1>0, <1>8, <2>2 DEF Write, Proper
  <2>5. clean => Tracked(p)'
    <3>1. SUFFICES ASSUME clean PROVE Tracked(p)'
      OBVIOUS
    <3>2. /\ Content = before /\ ps[p].cfg = wanted /\ BackupTrue
          /\ ps[p].to = file.tmp /\ data[file.tmp] = Empty /\ reply = "none"
      BY <1>2, <2>2, <3>1 DEF Tracked, Active
    <3>3. file.tmp # file.config /\ file.tmp # file.bak
      BY <1>0, <2>4, <3>2 DEF Linked
    <3>4. /\ data'[file.tmp] = wanted /\ data'[file.config] = data[file.config]
          /\ data'[file.bak] = data[file.bak]
      BY <1>0, <2>3, <2>4, <3>2, <3>3
    <3>5. Content' = before /\ BackupTrue'
      BY <1>1, <2>4, <3>2, <3>4 DEF Content, BackupTrue
    <3>6. QED
      BY <1>1, <2>2, <2>4, <3>2, <3>4, <3>5 DEF Tracked
  <2>6. QED
    BY <1>3, <2>2, <2>5
<1>9. CASE Rename(p)
  <2>1. CASE /\ file.tmp # None /\ Goto(p, "reload")
             /\ file' = [file EXCEPT !.config = file.tmp, !.tmp = None]
    <3>1. ps'[p].pc = "reload" /\ ps'[p].cfg = ps[p].cfg
      BY <1>4, <2>1 DEF Label
    <3>2. file'.config = file.tmp /\ file'.bak = file.bak /\ data' = data
      BY <1>0, <1>9, <2>1 DEF Rename
    <3>3. clean => Tracked(p)'
      BY <1>1, <1>2, <1>9, <2>1, <3>1, <3>2 DEF Tracked, Active, BackupTrue, Rename, Content
    <3>4. QED
      BY <1>10, <2>1, <3>3 DEF Label
  <2>2. CASE file.tmp = None /\ Goto(p, "revert") /\ UNCHANGED file
    <3>1. ps'[p].pc = "revert" /\ Content' = Content /\ data' = data
      BY <1>4, <1>9, <2>2 DEF Label, Content, Rename
    <3>2. clean => Tracked(p)'
      BY <1>1, <1>2, <1>9, <2>2, <3>1 DEF Tracked, Active, BackupTrue, Rename
    <3>3. QED
      BY <1>10, <2>2, <3>2 DEF Label
  <2>3. QED
    BY <1>9, <2>1, <2>2 DEF Rename
<1>11. QED
  BY <1>5, <1>6, <1>7, <1>8, <1>9

\* Its end: the new configuration is confirmed and archived, or the old one
\* put back.
LEMMA FinishFollowed ==
  ASSUME Exact, NEW p \in Saver,
         Reload(p) \/ RevertOpen(p) \/ RevertCopy(p) \/ Archive(p) \/ Record(p)
  PROVE  Followed'
<1> USE DEF At, hist, Name
<1>0. /\ Sound /\ Linked /\ Followed /\ ps[p] \in Task /\ Proper(ps[p])
      /\ data \in [Inode -> GoodText] /\ file \in [Name -> Inode \union {None}]
      /\ None \notin Inode
  BY TaskType, StoreAssumption DEF Exact, Sound, TypeOK
<1>1. Active(p) /\ (clean' => clean) /\ before' = before /\ wanted' = wanted
  <2>0. clean \in BOOLEAN
    BY <1>0 DEF Sound, TypeOK
  <2>1. CASE Reload(p)
    BY <2>1 DEF Reload, Active
  <2>2. CASE RevertOpen(p)
    <3>1. ps[p].pc = "revert" /\ UNCHANGED <<before, wanted>>
          /\ (clean' = (clean /\ file.config = None) \/ clean' = clean)
      BY <2>2 DEF RevertOpen
    <3>2. clean' => clean
      BY <2>0, <3>1
    <3>3. QED
      BY <3>1, <3>2 DEF Active
  <2>3. CASE RevertCopy(p) \/ Archive(p) \/ Record(p)
    BY <2>3 DEF RevertCopy, Archive, Record, Active
  <2>4. QED
    BY <2>1, <2>2, <2>3
<1>2. clean => Tracked(p) /\ reply = "none"
  BY <1>0, <1>1 DEF Followed, Tracked
<1>3. ASSUME NEW t, Set(p, t), t.pc # "idle", clean' => Tracked(p)'
      PROVE  Followed'
  <2>1. ps'[p] = t /\ \A q \in Saver \ {p} : ps'[q] = ps[q]
    BY <1>0, <1>3, SetRest
  <2>2. QED
    BY <1>1, <1>3, <2>1, FollowedBy
<1>4. ASSUME NEW r, Return(p, r), clean' => Returned'
      PROVE  Followed'
  <2>1. ps'[p].pc = "idle" /\ \A q \in Saver \ {p} : ps'[q] = ps[q]
    BY <1>0, <1>4, ReturnRest
  <2>2. QED
    BY <1>1, <1>4, <2>1, FollowedBy
<1>5. CASE Reload(p)
  <2>1. PICK l \in {"archive", "revert"} :
          Goto(p, l) /\ (l = "archive" => file' = [file EXCEPT !.bak = None])
                     /\ (l = "revert" => file' = file)
    BY <1>5 DEF Reload
  <2>2. PICK t : t = [ps[p] EXCEPT !.pc = l]
    OBVIOUS
  <2>3. t.pc = l /\ t.cfg = ps[p].cfg /\ ps'[p] = t /\ Set(p, t)
    BY <1>0, <2>1, <2>2, SetRest DEF Goto, Task
  <2>4. file'.config = file.config /\ data' = data /\ Content' = Content /\ UNCHANGED hist
    BY <1>0, <1>5, <2>1 DEF Reload, Content
  <2>5. clean => Tracked(p)'
    BY <1>2, <1>5, <2>1, <2>3, <2>4 DEF Tracked, Active, BackupTrue, Reload
  <2>6. QED
    BY <1>1, <1>3, <2>1, <2>3, <2>5
<1>6. CASE RevertOpen(p)
  <2>1. CASE file.bak = None
    <3>1. Return(p, "error") /\ clean' = (clean /\ file.config = None) /\ UNCHANGED <<file, data>>
      BY <1>6, <2>1 DEF RevertOpen
    <3>2. Content' = Content /\ reply' = "error"
      BY <3>1 DEF Content, Return
    <3>3. clean' => Returned'
      BY <1>1, <1>2, <1>6, <3>1, <3>2 DEF Tracked, RevertOpen, Returned
    <3>4. QED
      BY <1>4, <3>1, <3>3
  <2>2. CASE file.bak # None
    <3>1. PICK i \in Inode :
            OpenTrunc("config", i)
            /\ Set(p, [ps[p] EXCEPT !.pc = "recopy", !.from = file.bak, !.to = i])
      BY <1>6, <2>2 DEF RevertOpen
    <3>2. PICK t : t = [ps[p] EXCEPT !.pc = "recopy", !.from = file.bak, !.to = i]
      OBVIOUS
    <3>3. t.pc = "recopy" /\ t.from = file.bak /\ t.to = i /\ ps'[p] = t /\ Set(p, t)
      BY <1>0, <3>1, <3>2, SetRest DEF Task
    <3>4. /\ file'.config = i /\ file'.bak = file.bak /\ file.bak # i
          /\ \A j \in Inode \ {i} : data'[j] = data[j]
      BY <1>0, <3>1, OpenLinked
    <3>5. clean' = clean /\ reply' = reply
      BY <1>6, <2>2 DEF RevertOpen
    <3>6. BackupTrue => BackupTrue'
      BY <1>0, <1>1, <3>4 DEF BackupTrue
    <3>7. clean => Tracked(p)'
      BY <1>1, <1>2, <1>6, <2>2, <3>3, <3>4, <3>5, <3>6 DEF Tracked, Active, RevertOpen
    <3>8. QED
      BY <1>3, <3>3, <3>5, <3>7
  <2>3. QED
    BY <2>1, <2>2
<1>7. CASE RevertCopy(p)
  <2>1. /\ Return(p, "error") /\ reply' = "error" /\ file' = file /\ clean' = clean
        /\ data' = [data EXCEPT ![ps[p].to] = data[ps[p].from]] /\ ps[p].pc = "recopy"
    BY <1>7 DEF RevertCopy, Return
  <2>2. ASSUME clean PROVE Content' = before
    <3>1. ps[p].to = file.config /\ ps[p].from = file.bak /\ file.bak # None /\ BackupTrue
      BY <1>2, <2>1, <2>2 DEF Tracked
    <3>2. ps[p].to \in Inode
      BY <1>0, <2>1 DEF Proper
    <3>3. data'[file.config] = before
      BY <1>0, <2>1, <3>1, <3>2 DEF BackupTrue
    <3>4. QED
      BY <1>0, <2>1, <3>1, <3>2, <3>3 DEF Content
  <2>3. QED
    BY <1>1, <1>4, <2>1, <2>2 DEF Returned
<1>8. CASE Archive(p)
  <2>1. Content' = Content /\ ps[p].pc = "archive" /\ clean' = clean /\ revs' = revs
        /\ UNCHANGED <<file, data>>
    BY <1>8 DEF Archive, Content
  <2>2. clean => Content = wanted /\ ps[p].cfg = wanted
    BY <1>2, <2>1 DEF Tracked
  <2>3. CASE Return(p, "ok") /\ (ps[p].cfg.keep = 0 \/ ~Readable(Content) \/ Recorded)
    <3>1. ps[p].cfg \in Config
      BY <1>0 DEF Task
    <3>2. Readable(ps[p].cfg)
      BY <3>1, StoreAssumption DEF Readable, Config
    <3>3. clean => (Content.keep > 0 => Recorded)
      BY <2>2, <2>3, <3>2
    <3>4. Recorded' <=> Recorded
      BY <2>1 DEF Recorded
    <3>5. reply' = "ok"
      BY <2>3 DEF Return
    <3>6. clean' => Returned'
      BY <1>1, <2>1, <2>2, <3>3, <3>4, <3>5 DEF Returned
    <3>7. QED
      BY <1>4, <2>3, <3>6
  <2>4. CASE /\ Set(p, [ps[p] EXCEPT !.pc = "record", !.text = Content, !.keep = ps[p].cfg.keep])
             /\ UNCHANGED reply
    <3>1. PICK t : t = [ps[p] EXCEPT !.pc = "record", !.text = Content, !.keep = ps[p].cfg.keep]
      OBVIOUS
    <3>2. t.pc = "record" /\ t.text = Content /\ ps'[p] = t /\ Set(p, t)
      BY <1>0, <2>4, <3>1, SetRest DEF Task
    <3>3. clean => Tracked(p)'
      BY <1>1, <1>2, <2>1, <2>2, <2>4, <3>2 DEF Tracked
    <3>4. QED
      BY <1>3, <2>1, <3>2, <3>3
  <2>5. QED
    BY <1>8, <2>3, <2>4 DEF Archive
<1>9. CASE Record(p)
  <2>1. /\ Content' = Content /\ ps[p].pc = "record" /\ clean' = clean
        /\ revs' = Pruned(Append(revs, ps[p].text), ps[p].keep)
        /\ Return(p, "ok") /\ reply' = "ok"
    BY <1>9 DEF Record, Content, Return
  <2>2. clean => Content = wanted /\ ps[p].text = wanted
    BY <1>2, <2>1 DEF Tracked
  <2>3. ps[p].text \in GoodConfig /\ ps[p].keep \in Nat /\ ps[p].keep > 0
    BY <1>0, <2>1, StoreAssumption DEF Proper
  <2>4. revs' # <<>> /\ revs'[Len(revs')] = ps[p].text
    BY <1>0, <2>1, <2>3, PrunedLast DEF Sound
  <2>5. clean => Recorded'
    BY <2>1, <2>2, <2>4 DEF Recorded
  <2>6. QED
    BY <1>1, <1>4, <2>1, <2>2, <2>5 DEF Returned
<1>10. QED
  BY <1>5, <1>6, <1>7, <1>8, <1>9

LEMMA FaultFollowed ==
  ASSUME Exact, Crash \/ \E p \in Saver : DiskFails(p)
  PROVE  Followed'
<1>1. CASE Crash
  <2>1. /\ \A p \in Saver : ps'[p].pc = "idle"
        /\ clean' = (clean /\ \A p \in Saver : ps[p].pc # "recopy")
        /\ reply' = "none" /\ Content' = Content /\ UNCHANGED <<before, wanted>>
    BY <1>1 DEF Crash, Idle, Content
  <2>2. PICK p \in Saver : ps[p].pc # "idle" /\ ps[p] \in Task
    BY <1>1, TaskType DEF Crash, Exact
  <2>3. clean' => Content \in {before, wanted}
    <3>1. SUFFICES ASSUME clean' PROVE Content \in {before, wanted}
      OBVIOUS
    <3>2. Tracked(p) /\ ps[p].pc # "recopy" /\ ps[p].pc \in Label
      BY <2>1, <2>2, <3>1 DEF Exact, Followed, Task
    <3>3. QED
      BY <2>2, <3>2 DEF Tracked, Label
  <2>4. QED
    BY <2>1, <2>3 DEF Followed, Alone, Active, Tracked, Returned
<1>2. ASSUME NEW p \in Saver, DiskFails(p) PROVE Followed'
  <2>0. /\ Sound /\ Followed /\ ps[p] \in Task
    BY TaskType DEF Exact
  <2>1. /\ UNCHANGED <<file, data, revs, before, wanted>> /\ Content' = Content /\ Active(p)
        /\ (clean' => clean)
    <3>1. clean \in BOOLEAN /\ ps[p].pc # "idle"
      BY <1>2, <2>0 DEF DiskFails, Sound, TypeOK
    <3>2. UNCHANGED <<file, data, revs, before, wanted>> /\ (clean' = clean \/ clean' = FALSE)
      BY <1>2 DEF DiskFails
    <3>3. QED
      BY <3>1, <3>2 DEF Content, Active
  <2>2. clean => Tracked(p) /\ reply = "none"
    BY <2>0, <2>1 DEF Followed, Tracked
  <2>3. ASSUME NEW r, Return(p, r), clean' => Returned'
        PROVE  Followed'
    <3>1. ps'[p].pc = "idle" /\ \A q \in Saver \ {p} : ps'[q] = ps[q]
      BY <2>0, <2>3, ReturnRest
    <3>2. QED
      BY <2>1, <2>3, <3>1, FollowedBy
  <2>4. CASE ps[p].pc \in {"backup", "copy"} /\ Return(p, "error")
    BY <2>1, <2>2, <2>3, <2>4 DEF Tracked, Returned, Return
  <2>5. CASE /\ ps[p].pc \in {"open", "write", "rename", "reload"}
             /\ Set(p, [ps[p] EXCEPT !.pc = "revert", !.to = None])
             /\ UNCHANGED <<clean, reply>>
    <3>1. [ps[p] EXCEPT !.pc = "revert", !.to = None].pc = "revert"
      BY <2>0 DEF Task
    <3>2. ps'[p].pc = "revert" /\ \A q \in Saver \ {p} : ps'[q] = ps[q]
      BY <2>0, <2>5, <3>1, SetRest
    <3>3. clean => Tracked(p)'
      BY <2>1, <2>2, <2>5, <3>2 DEF Tracked, BackupTrue
    <3>4. QED
      BY <2>1, <2>5, <3>2, <3>3, FollowedBy
  <2>6. CASE Return(p, "error") /\ clean' = FALSE
    BY <2>3, <2>6
  <2>7. CASE ps[p].pc \in {"archive", "record"} /\ Return(p, "warned")
    BY <2>1, <2>2, <2>3, <2>7 DEF Tracked, Returned, Return
  <2>8. QED
    BY <1>2, <2>4, <2>5, <2>6, <2>7 DEF DiskFails
<1>3. QED
  BY <1>1, <1>2

LEMMA ExactStep == Exact /\ [Next]_vars => Exact'
<1> SUFFICES ASSUME Exact, [Next]_vars PROVE Exact'
  OBVIOUS
<1>1. Sound' /\ Linked'
  BY SoundStep, LinkedStep DEF Exact
<1>2. CASE UNCHANGED vars
  <2>1. Followed'
    BY <1>2 DEF vars, hist, Exact, Followed, Alone, Active, Tracked, BackupTrue, Content, Quiet,
       At, Returned, Recorded
  <2>2. QED
    BY <1>1, <2>1 DEF Exact
<1>3. CASE Crash
  BY <1>1, <1>3, FaultFollowed DEF Exact
<1>4. ASSUME NEW p \in Saver, Begin(p) \/ Save(p) \/ DiskFails(p)
      PROVE  Exact'
  BY <1>1, <1>4, BeginFollowed, WriteFollowed, FinishFollowed, FaultFollowed DEF Exact, Save
<1>5. QED
  BY <1>2, <1>3, <1>4 DEF Next

LEMMA ExactInit == Init => Exact
<1> SUFFICES ASSUME Init PROVE Exact
  OBVIOUS
<1>1. (\A p \in Saver : ps[p].pc = "idle") /\ Content = Default
  BY DEF Init, Idle, Content, Name
<1>2. Followed
  BY <1>1 DEF Init, Followed, Alone, Active, Tracked, Returned
<1>3. Linked
  BY DEF Init, Linked, Name
<1>4. QED
  BY <1>2, <1>3, SoundInit DEF Exact

\* A save that no other overlaps is atomic, whatever earlier saves, failures
\* and crashes left behind.
THEOREM SavesAtomic == Spec => []SaveAtomic
<1>1. Exact => SaveAtomic
  <2> SUFFICES ASSUME Exact, clean, ~Restoring
               PROVE  /\ Content \in {before, wanted}
                      /\ reply \in {"ok", "warned"} => Content = wanted
                      /\ reply = "error" => Content = before
    BY DEF SaveAtomic
  <2>1. CASE Quiet
    BY <2>1 DEF Exact, Followed, Returned
  <2>2. CASE ~Quiet
    <3>1. PICK p \in Saver : ps[p].pc # "idle"
      BY <2>2 DEF Quiet, At
    <3>2. Tracked(p) /\ ps[p].pc \in Label /\ ps[p].pc # "recopy"
      BY <3>1, TaskType DEF Exact, Followed, Restoring, At, Task
    <3>3. QED
      BY <3>1, <3>2 DEF Tracked, Active, Label
  <2>3. QED
    BY <2>1, <2>2
<1>2. QED
  BY <1>1, ExactInit, ExactStep, PTL DEF Spec

\* Once such a save has been acknowledged, the newest revision is the live
\* configuration.
THEOREM HistoryAlwaysTrue == Spec => []HistoryTrue
<1>1. Exact => HistoryTrue
  <2> SUFFICES ASSUME Exact, clean, reply = "ok", Content.keep > 0
               PROVE  Recorded
    BY DEF HistoryTrue
  <2>1. Quiet
    BY DEF Exact, Followed, Tracked, Active, Quiet, At
  <2>2. QED
    BY <2>1 DEF Exact, Followed, Returned
<1>2. QED
  BY <1>1, ExactInit, ExactStep, PTL DEF Spec

=============================================================================
