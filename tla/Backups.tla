--------------------------------- MODULE Backups ---------------------------------
(***************************************************************************)
(* Backup archives (backup/, api/backup.rs) over the validated             *)
(* configuration of SystemConfig: manual, scheduled and update backups,    *)
(* the retention of the scheduler, and restores, from an upload or from    *)
(* what the last update recorded.                                          *)
(*                                                                         *)
(* A restore saves section by section, and every save checks the whole     *)
(* configuration; other requests are served in between, and the daemon may *)
(* stop there.  What a save does to the file is the subject of             *)
(* ConfigStore: it is one step here.                                       *)
(***************************************************************************)
EXTENDS SystemConfig, Functions

CONSTANTS
  Starts,      \* configurations to start from
  Offers,      \* Offers[s]: contents of section s that a request saves
  Selections,  \* sequences of subsystems that a backup is asked for
  Schedules,   \* schedules that are saved
  Interval,    \* interval_hours, in steps of the clock
  Versions,    \* versions of the daemon, each the place of its name among their names:
               \* an update, or one that is undone, may go to a lower one (1.9.0 to 1.10.0)
  Budgets      \* bound: sections saved, requests about archives, restores, restarts
               \* and steps of the clock, in one of these combinations

\* Subsystem::all, in its order, with the sections an archive has of each.
All == <<"interfaces", "firewall", "dns", "dhcp", "wireguard", "suricata", "crowdsec",
         "honeypots", "qos", "acme", "portal">>
SectionsOf(sub) ==
  CASE sub = "firewall" -> <<"rules", "aliases", "filter">>
    [] sub = "dns" -> <<"dns", "overrides">>
    [] OTHER -> <<sub>>

ASSUME BackupAssumption ==
  /\ \A c \in Starts : Valid(c) /\ DOMAIN c = Section /\ c = Normalized(c)
  /\ DOMAIN Offers \subseteq Section
  /\ \A q \in Selections : Range(q) \subseteq Range(All)
  /\ \A s \in Schedules : s.retain \in Nat \ {0} /\ s.encrypted \in {0, 1}
  /\ Interval \in Nat \ {0} /\ Versions \subseteq Nat
  /\ Budgets \subseteq [edits : Nat, backups : Nat, restores : Nat, restarts : Nat, time : Nat]

VARIABLES
  config,   \* config.json
  files,    \* the archives in the backup directory
  copies,   \* every archive made, here or on another appliance: what a client may upload
  schedule, \* backup_schedule.json
  prune,    \* prune[p]: the names that p has listed and not deleted yet
  last,     \* last_backup_at, in the memory of the scheduler's task
  rollback, \* config_rollback_path: the archive that the last update recorded
  version,  \* the version of the daemon that runs
  restore,  \* the restore being served, or its answer
  now,
  left,     \* what is left of the budget
  deleted,  \* history: the names of archives that a client deleted
  touched,  \* history: the sections saved by others since the restore began
  before    \* history: the configuration as it would be without the restore

vars == <<config, files, copies, schedule, prune, last, rollback, version, restore, now, left,
          deleted, touched, before>>

Pruner == {"scheduler", "request"}
Resting == [p \in Pruner |-> {}]
Idle == [answer |-> "none", asked |-> {}, todo |-> {}, subs |-> <<>>, body |-> <<>>]
Spend(k) == left[k] > 0 /\ left' = [left EXCEPT ![k] = @ - 1]

-----------------------------------------------------------------------------
\* Archives.  The name has the type, the version, the second and the suffix, in this
\* order, and names are compared as strings ("manual" < "scheduled" < "update").
Rank(type) == CASE type = "manual" -> 1 [] type = "scheduled" -> 2 [] type = "update" -> 3
NameOf(f) == <<Rank(f.type), f.version, f.at, f.encrypted>>
\* A mistake to be found: archives in the order of their age.
EarlierInTime(f, g) == f.at < g.at \/ (f.at = g.at /\ Rank(f.type) < Rank(g.type))

Before(m, n) == \E i \in 1..4 : m[i] < n[i] /\ \A j \in 1..(i - 1) : m[j] = n[j]
Earlier(f, g) == Before(NameOf(f), NameOf(g))

Archived(c, subs) ==
  [s \in UNION {Range(SectionsOf(sub)) : sub \in Range(subs)} |-> c[s]]

Archive(type, subs, encrypted) ==
  [type |-> type, version |-> version, at |-> now, encrypted |-> encrypted,
   subs |-> subs, body |-> Archived(config, subs)]

\* The archive is renamed over one of the same name.
Write(f) ==
  /\ files' = {g \in files : NameOf(g) # NameOf(f)} \union {f}
  /\ copies' = copies \union {f}

-----------------------------------------------------------------------------
\* Saving a section: load, replace, check the whole, write.
Saved(s, v) == Normalized([config EXCEPT ![s] = v])

SaveSection(s) == \E v \in Offers[s] :
  /\ Spend("edits")
  /\ Valid(Saved(s, v)) /\ config' = Saved(s, v)
  /\ touched' = touched \union {s} /\ before' = [before EXCEPT ![s] = config'[s]]
  /\ UNCHANGED <<files, copies, schedule, prune, last, rollback, version, restore, now, deleted>>

-----------------------------------------------------------------------------
\* Making archives.
CreateBackup == \E subs \in Selections, encrypted \in {0, 1} :
  /\ Spend("backups")
  /\ Write(Archive("manual", subs, encrypted))
  /\ UNCHANGED <<config, schedule, prune, last, rollback, version, restore, now, deleted, touched,
                 before>>

\* An update makes an archive of its own and records its name, in updates_state.json.
SnapshotForUpdate ==
  /\ Spend("backups")
  /\ Write(Archive("update", All, 0))
  /\ rollback' = {NameOf(Archive("update", All, 0))}
  /\ deleted' = deleted \ rollback'
  /\ UNCHANGED <<config, schedule, prune, last, version, restore, now, touched, before>>

DeleteBackup == \E f \in files :
  /\ Spend("backups")
  /\ files' = files \ {f} /\ deleted' = deleted \union {NameOf(f)}
  /\ UNCHANGED <<config, copies, schedule, prune, last, rollback, version, restore, now, touched,
                 before>>

\* Pruning: the names are listed and sorted, then all but the last ones are deleted in
\* turn; the first that is gone already ends it.
Doomed(F, retain) == {f \in F : Cardinality({g \in F : Earlier(f, g)}) >= retain}
Listed(F, retain) == {NameOf(f) : f \in Doomed(F, retain)}

DeleteNext(p) == \E n \in prune[p] :
  /\ \A m \in prune[p] : ~Before(m, n)
  /\ files' = {f \in files : NameOf(f) # n}
  /\ prune' = [prune EXCEPT ![p] = IF files' = files THEN {} ELSE @ \ {n}]
  /\ UNCHANGED <<config, copies, schedule, last, rollback, version, restore, now, left, deleted,
                 touched, before>>

\* The scheduler wakes up: at once after a restart, as it remembers no backup.
ScheduledBackup == \E s \in schedule :
  /\ prune["scheduler"] = {}
  /\ s.on /\ (last = {} \/ \E t \in last : now - t >= Interval)
  /\ LET f == Archive("scheduled", All, s.encrypted)
     IN  /\ Write(f)
         /\ prune' = [prune EXCEPT !["scheduler"] = Listed(files', s.retain)]
  /\ last' = {now}
  /\ UNCHANGED <<config, schedule, rollback, version, restore, now, left, deleted, touched, before>>

UpdateScheduler == \E s \in Schedules :
  /\ prune["request"] = {} /\ Spend("backups")
  /\ schedule' = {s}
  /\ prune' = IF s.on THEN [prune EXCEPT !["request"] = Listed(files, s.retain)] ELSE prune
  /\ UNCHANGED <<config, files, copies, last, rollback, version, restore, now, deleted, touched,
                 before>>

-----------------------------------------------------------------------------
\* Restoring.  An archive is decrypted, unpacked and checked before anything is saved; a
\* section that was not configured when the archive was made is left as it is.
IsList(s) == s \in {"interfaces", "rules", "aliases", "overrides", "wireguard"}
Asked(f, filter) ==
  {s \in UNION {Range(SectionsOf(sub)) : sub \in Range(f.subs) \cap filter} :
     IsList(s) \/ f.body[s] # {}}

\* The saves an archive asks for, each by its subsystem's place in the archive and its
\* section's place in the subsystem, and made in this order.
SavedBy(subs, x) == SectionsOf(subs[x[1]])[x[2]]
Places(f, filter) ==
  {x \in (DOMAIN f.subs) \X (1..3) :
     f.subs[x[1]] \in filter /\ x[2] \in DOMAIN SectionsOf(f.subs[x[1]])}
First(x, y) == x[1] < y[1] \/ (x[1] = y[1] /\ x[2] <= y[2])

\* A mistake to be found: an empty list is left as it is, too.
SavesFull(f, filter) == {x \in Places(f, filter) : f.body[SavedBy(f.subs, x)] # {}}
Saves(f, filter) ==
  {x \in Places(f, filter) :
     LET s == SavedBy(f.subs, x) IN IsList(s) \/ f.body[s] # {}}

BeginRestore(f, filter) ==
  /\ restore.answer # "busy"
  /\ Spend("restores")
  /\ restore' = [answer |-> "busy", asked |-> Asked(f, filter),
                 todo |-> Saves(f, filter), subs |-> f.subs, body |-> f.body]
  /\ touched' = {} /\ before' = config

RestoreUpload == \E f \in copies, filter \in {Range(q) : q \in Selections} :
  /\ BeginRestore(f, filter)
  /\ UNCHANGED <<config, files, copies, schedule, prune, last, rollback, version, now, deleted>>

\* rollback_updates: the recorded archive is forgotten when it has been restored.
RestoreForRollback == \E f \in files :
  /\ NameOf(f) \in rollback
  /\ BeginRestore(f, Range(All))
  /\ rollback' = {}
  /\ UNCHANGED <<config, files, copies, schedule, prune, last, version, now, deleted>>

RestoreSection == \E x \in restore.todo :
  /\ \A y \in restore.todo : First(x, y)
  /\ LET s == SavedBy(restore.subs, x)
         c == Saved(s, restore.body[s])
     IN  IF Valid(c)
         THEN config' = c /\ restore' = [restore EXCEPT !.todo = @ \ {x}]
         ELSE restore' = [restore EXCEPT !.answer = "error", !.todo = {}] /\ UNCHANGED config
  /\ UNCHANGED <<files, copies, schedule, prune, last, rollback, version, now, left, deleted,
                 touched, before>>

RestoreEnds ==
  /\ restore.answer = "busy" /\ restore.todo = {}
  /\ restore' = [restore EXCEPT !.answer = "ok"]
  /\ UNCHANGED <<config, files, copies, schedule, prune, last, rollback, version, now, left,
                 deleted, touched, before>>

-----------------------------------------------------------------------------
\* The daemon stops wherever it is, and starts again, perhaps in another version.
Restart ==
  /\ Spend("restarts")
  /\ restore' = [Idle EXCEPT !.answer = IF restore.answer = "busy" THEN "cut" ELSE "none"]
  /\ prune' = Resting /\ last' = {}
  /\ version' \in Versions
  /\ UNCHANGED <<config, files, copies, schedule, rollback, now, deleted, touched, before>>

Clock ==
  /\ Spend("time") /\ now' = now + 1
  /\ UNCHANGED <<config, files, copies, schedule, prune, last, rollback, version, restore,
                 deleted, touched, before>>

Init ==
  /\ config \in Starts
  /\ copies = {[type |-> "manual", version |-> 1, at |-> 0, encrypted |-> 0, subs |-> All,
                 body |-> Archived(c, All)] : c \in Starts}
  /\ files = {} /\ schedule = {} /\ prune = Resting /\ last = {}
  /\ rollback = {} /\ version \in Versions /\ restore = Idle /\ now = 1
  /\ left \in Budgets
  /\ deleted = {} /\ touched = {} /\ before = config

Next ==
  \/ \E s \in DOMAIN Offers : SaveSection(s)
  \/ CreateBackup \/ SnapshotForUpdate \/ DeleteBackup
  \/ ScheduledBackup \/ UpdateScheduler \/ \E p \in Pruner : DeleteNext(p)
  \/ RestoreUpload \/ RestoreForRollback \/ RestoreSection \/ RestoreEnds
  \/ Restart \/ Clock

Spec == Init /\ [][Next]_vars

-----------------------------------------------------------------------------
\* The sockets the units open: the resolver and SSH on what they listen on.
Opened(c) ==
  LET listens(d) == IF d.listen = {} \/ "name" \in d.listen THEN {"0.0.0.0"} ELSE d.listen
  IN  {t \in Sockets(c) : t[1] # "dns"}
      \union UNION {{<<"dns", a, d.port>> : a \in listens(d)} : d \in c.dns}

\* Whatever is saved, restored or cut off, and in whichever order the sections come, the
\* services that are enabled can all open their sockets, ...
SocketsApart(c) ==
  \A s, t \in Opened(c) : s[1] # t[1] /\ s[3] = t[3] => ~Overlap(s[2], t[2])

\* ... what they refer to exists while there are interfaces, ...
References(c) ==
  {i.track : i \in {x \in c.interfaces : x.mode = "track"}}
  \union ({i.parent : i \in c.interfaces} \ {""})
  \union (UNION {n.listen : n \in {x \in c.ntp : x.on /\ x.serves}})
  \union (UNION {p.gates : p \in {x \in c.portal : x.on}})
  \union UNION {{e.iface : e \in {x \in d.entries : x.on}} : d \in {x \in c.ddns : x.on}}
Resolved(c) == c.interfaces # {} => References(c) \subseteq Named(c)

\* ... and nothing is left of IPv6 when it is off, in an interface, the filter, the
\* resolver, a tunnel or a gateway.
Families(c) ==
  (UNION {i.addresses \union {i.gateway} : i \in c.interfaces})
  \union (UNION {x.names : x \in c.rules \union c.nat \union c.filter \union c.aliases})
  \union (UNION {d.forwarders \union d.clients : d \in c.dns}) \union {o.to : o \in c.overrides}
  \union (UNION {w.addresses \union UNION {p.allowed : p \in w.peers} : w \in c.wireguard})
  \union (UNION {{g.ip, g.monitor} : g \in c.gateways})
  \union UNION {s.home : s \in c.suricata}
StoredCoherent ==
  /\ SocketsApart(config) /\ Resolved(config)
  /\ "v6" \in Families(config) => SixEnabled(config)

\* A restore that is answered without an error has brought back each section it was asked
\* for, but one that another request saved meanwhile, and has changed no other.
RestoreExact ==
  [][restore.answer = "busy" /\ restore'.answer = "ok" =>
       \A s \in Section :
         \/ config'[s] = before[s] /\ s \in touched \union (Section \ restore.asked)
         \/ config'[s] = restore.body[s] /\ s \in restore.asked]_vars

\* What the retention deletes is never the archive that the last update recorded to go
\* back to: it is lost when a client deletes it, or when an earlier update made one of a
\* version whose name comes after its own.
Overtaken(n) == \E f \in copies : f.type = "update" /\ f.at <= n[3] /\ Before(n, NameOf(f))
RollbackKept ==
  \A n \in rollback \ deleted : n \in {NameOf(f) : f \in files} \/ Overtaken(n)

\* "Atomically replaces the appropriate config sections" (backup/restore.rs:4): a restore
\* that is answered with an error has left what nobody else saved as it was.
RestoreAtomic ==
  [][restore.answer = "busy" /\ restore'.answer = "error" =>
       config' = before]_vars
=============================================================================
