# DayShield core, in TLA+

DayShield is a firewall appliance.  `dayshield-core` is its daemon: one Rust
process (tokio tasks, an HTTP API) that keeps the configuration, generates and
loads the nftables ruleset, configures the services of the box and updates its
software, and that is also run as a command by systemd and by the operator.
This directory holds TLA+ models of the parts of it whose correctness depends
on the order of steps, the TLC configurations that check them, and proofs that
TLAPS checks.  Paths below are relative to `src/dayshield-core/src/`.

## The system

### Components, state and operations

| Component | Code | State it keeps | Operations |
|---|---|---|---|
| A/B root file system slots | `rootfs_update.rs` | two slot partitions, `/boot/dayshield/slot-*`, `slots.json`, `grubenv`, the `recovered` marker, the staging directory | apply, rollback, `signal-boot-success`, identity sync |
| Ruleset publication | `api/firewall.rs`, `api/nat.rs`, `api/aliases.rs`, `captive_portal.rs` (`apply_current_ruleset_nft`) | sections of the configuration, the `firewall_rules` cache and its lock, the ruleset in the kernel | rule, settings, NAT and alias changes, list, publication at startup |
| Ruleset generator | `engine/nftables/mod.rs`, the validation in `api/firewall.rs` and `config/storage.rs` | none: text made from the configuration | generate filter, NAT, sets; validate a rule, an alias, NAT |
| AI threat engine | `ai_engine.rs`, `ai_model.rs` | `active_blocks`, the event store, the model | score, block, unblock, expire, reconcile, feedback |
| AI policy engine | `ai_firewall/`, `api/ai.rs` | modes, settings, intents, suggestions, the log of applied changes, the last events | observe, classify, decide, suggest, apply, undo, audit, zero-trust bootstrap |
| Configuration store | `config/storage.rs`, `config/history.rs`, `config/models.rs` | `config.json`, `.bak`, `.tmp`, the revision directory | validate, load, save with rollback, restore a revision, snapshot |
| Backups | `backup/`, `api/backup.rs` | the backup directory, the schedule, the time of the last backup | create, delete, prune, restore, schedule |
| Captive portal | `captive_portal.rs`, `api.rs` | the sessions file, vouchers in the configuration, the listener task | authorize, log out, revoke, reap, reconfigure |
| Software updates | `update.rs` | `updates_state.json`, the snapshot directory, staged artifacts, progress | check, apply, roll back, scheduled actions |
| Service engines | `engine/`, `api/dns.rs`, `api/dhcp.rs`, `api/interfaces.rs`, ... | one section of the configuration and the files of one service each | save a section, write the files, reload the service |
| Rule sets | `rules/`, `api/rulesets.rs` | the list of installed sets, those enabled on an interface, two rule files and the disabled rules of each set, `suricata.yaml` | install, check, update, enable, disable, uninstall, disable a rule, reload |
| Schedules | `schedules.rs`, `api/schedules.rs` | the schedule, the status file of the jobs | scheduler loop, run now, save |
| ACME certificates | `engine/acme/`, `api/acme.rs` | the account, a certificate and a key for each first domain, the listener on port 80 | order, renew, delete, load |
| Authentication | `api/auth.rs`, `auth/`, `api/admin.rs` | failed attempts per user, the signing key, the admin file | log in, change the password, check a token |
| Dynamic DNS | `api/dynamic_dns.rs` | the configuration, the status file, records at the providers | run, scheduled or not, save |
| Notifications | `notify/`, `api/notify.rs` | a bounded queue, a token bucket, the digest buffer | enqueue, deliver, digest |
| Views | `metrics/`, `live_logs/`, `api/dashboard.rs`, `api/logs.rs` | ring buffers | sample, stream |

### How they interact

* Handlers are tokio tasks and run concurrently.  They share `AppState`
  (`state.rs`) and, through it, one `ConfigStore`, which takes no lock: a save
  loads the whole configuration, replaces one section and writes it back.
* The kernel's ruleset is replaced as a whole by every publication.  Two pieces
  of code publish: `apply_current_ruleset_nft`, used by the API, the captive
  portal, the policy engine and startup, and `reconcile_block_rules` of the
  threat engine.  Only changes of the rule list share a lock.
* The daemon, the command line (`rootfs-apply`, `rootfs-sync-identity`) and
  systemd's `signal-boot-success` are separate processes over the same files
  and partitions; the operation lock is a mutex inside one of them.
* Background tasks (the scheduler of jobs, the certificate timer, the backup
  scheduler, the policy engine's reader of the firewall log, the mail worker) do
  what requests do, on the same files, and nothing orders the two.
* Mail servers, ACME directories, dynamic DNS providers and rule set sites answer,
  answer with an error, or do what was asked and the answer is lost.
* GRUB reads `grubenv` and chooses the slot; what it does is outside the
  repository and is modelled from the variables the code gives it.

### What is hard

Steps of concurrent handlers between a read and the write that depends on it;
commands that fail half way through a sequence; power loss between two writes
that belong together; state remembered in memory over a restart; retries that
never come.  `PROJECT.json` lists the places under `hazards`, those first that a
property reaches; smaller ones are named at the end of this file.

### What makes each component correct

* Slots: the running slot is never written; some slot always boots; GRUB left
  alone reaches a slot that boots; `slots.json` and the identity files tell the
  truth.
* Ruleset: the kernel enforces the stored configuration, a refused change
  leaves no trace, an acknowledged one is never lost, every operation returns.
* Generator: whatever is configured, the administrator gets in; the rules, the
  port forwards, the portal and the address translation each decide what they are meant to.
* Threat engine: what is reported blocked is blocked, and ends when it should.
* Configuration store: a save happens or it does not, what validation refuses
  is never stored, the newest revision is the live configuration.
* Captive portal: only live sessions pass, a voucher is used no more often than
  it allows, a revoked session does not come back.
* Service engines: a request answered without an error has been applied, one
  answered with an error has changed nothing, what a checker refuses does not
  stop a server that runs, and a startup brings the services to what is stored.
* Updates: installed versions, recorded versions and the snapshot agree; a
  failure leaves the old version or the new one, whole.
* Backups: what a restore leaves is coherent and what was asked for, and the
  archive a rollback needs is kept.
* Policy engine: every rule it made can be undone, and a zero-trust bootstrap
  locks no service out.
* Rule sets and schedules: an update that is due happens, and reaches Suricata.
* Certificates: a certificate and the key beside it belong together.
* Authentication: guesses are limited whatever overlaps, and a session that was
  granted lasts.
* Dynamic DNS: the status says what the provider has.
* Notifications: mails stay within the limit, and no event is mailed twice or lost
  within the stated bounds.

## Modules

| Module | Models |
|---|---|
| `RootfsSlots` | `rootfs_update.rs`, every command a step, with faults and GRUB |
| `MCRootfsSlots` | constants of its runs |
| `RootfsSlotsProofs` | theorems about it, checked by TLAPS like those of the other `*Proofs` modules |
| `RuleCommit` | abstract: what a change of the rule list promises |
| `RulesetPublish` | saving and publishing the ruleset, AI blocks, restarts |
| `RulesetPublishProofs` | theorems about it, and its refinement of `RuleCommit` |
| `Netfilter` | external: what the kernel does with a packet and a ruleset, and what nft refuses |
| `PacketFilter` | the ruleset generator, the validation of rules, aliases and NAT, and the requests that change them |
| `MCPacketFilter` | the network, rules and packets of its runs |
| `ConfigStore` | the files of a save, the backup and the archive of revisions |
| `MCConfigStore` | the view its run identifies states by |
| `ConfigStoreProofs` | theorems about it |
| `SystemConfig` | what the configuration holds, and `ConfigStore::validate` |
| `Backups` | archives, retention and restores over it |
| `MCBackups` | the configurations of its runs |
| `CaptivePortal` | sessions, vouchers, the reaper, and what the kernel lets through |
| `MCCaptivePortal` | which requests its runs let meet, and a view |
| `FilterProofs` | theorems about `CaptivePortal` and about `PacketFilter` |
| `ServiceRequests` | what all handlers of service settings share: the stored sections, the files, the units that run, and a request as a list of steps |
| `DnsService` | resolver, overrides, DNS over TLS, SSH and IPv6 settings |
| `DhcpService` | the two Kea servers and their leases |
| `ClockService` | NTP: chrony and systemd-timesyncd |
| `QosService` | traffic shaping with tc |
| `WireGuardService` | WireGuard tunnels |
| `LinkService` | interfaces, translated networks, gateways and routes |
| `AppService` | Suricata, Caddy and the Cloudflare tunnel |
| `Services` | these together, with the startup, restarts and reboots, and their properties |
| `ServicesProofs` | theorems about it |
| `MCServices` | the VLAN of its runs |
| `UpdateTransaction` | checks, updates, rollbacks and the scheduled updater, with the record they keep |
| `UpdateTransactionProofs` | theorems about it |
| `BackgroundBase` | what the following have in common: the part looked at and its budget |
| `PolicyEngine` | the AI policy engine |
| `RuleSets` | the managed rule sets of Suricata |
| `Schedules` | the scheduler and its jobs, on top of `RuleSets` |
| `Certificates` | ACME orders and the files they leave |
| `Login` | logins, lockout, the signing key and tokens |
| `BackgroundProofs` | theorems about `PolicyEngine`, `Certificates`, `Login`, `Notifications` and `DynamicDns` |
| `DynamicDns` | runs of dynamic DNS, and the records at the providers |
| `Notifications` | queue, digest, limit and delivery of mails |
| `BackupProofs` | theorems about `Backups` |
| `Background` | these parts together |
| `MCBackground` | constants of its runs |

### RootfsSlots

`content[s]` is the set of images whose files slot `s` holds (empty after a
format, several after two extractions at once, `Junk` when interrupted);
`kernel[s]` and `initrd[s]` the image they were copied from; `id[s]` how recent
its identity files are; `slots` is `slots.json`, with `valid` FALSE when it
does not parse; `grub` is `grubenv`.  `ps[p]` is the operation process `p`
executes, `sig` the boot signal.  A label (`pc`) names the command about to
run, so every command is one action and every interruption is between two of
them or inside one (`Damage` writes the partial results).  Operations: `Apply`,
`RollbackBegin` .. `RollbackStamp`, `SyncBegin` .. `Umount`, `SignalRead` ..
`SignalCopy`.  An operation takes its snapshot of `slots.json` in its first
step and writes it back in a later one, as the code does.

The constant `Events` says what may be asked of the machine in a run:
operations (`apply`, `rollback`, `sync`), a change of the identity files,
repeated boot signals, and the faults (`power`, `fail`, `kill`, `mislabel`, `busy`).
Without `power` the machine still reboots, but only when nothing is under way.

`upset` is a history variable: it records that grubenv was interrupted or
written by two at once, that an operation was misdirected by an unreadable
label, or that the fallback of a trial was formatted.  These are the cases the
counterexamples show to be harmful; `Recoverable` and `ComesBack` say that
there are no others.  `RootfsFaults` does not continue from a state in which one
of them has happened (`Unupset`): `Recoverable` says nothing there, and what the
other two invariants say is proved without that bound.

Abstractions: an image is one value, its own version; images that differ in
what matters (boots or not, stamped or not) are the model values `g` (good) and
`b` (does not come up); `AttemptLimit` is 1 where the count does not matter and
3, the code's value, where it does; `MaxStaged` bounds the staging directory to
one image.  What GRUB does with a trial and no count is not known, so both
entries are possible.  `TargetFree` is what the two checks before a format and the
refusal of mkfs to format a mounted device establish together; where findmnt fails,
nothing keeps a sync from mounting a slot a second time (`SyncPasses`).

### RulesetPublish

`cfg` is the persisted configuration (the four sections the ruleset depends
on), `cache` and `lock` are `AppState.firewall_rules`, `blocks` and `lapsed`
the threat engine's map and its expired members, `kernel` the ruleset in force
and `ps[p]` the operation task `p` executes.  A save is `SaveLoad` then
`SaveWrite`, a publication `ApplyRead` then `Land` (the URL tables are fetched
between the two), the rollback after a refused ruleset `UndoLoad`, `UndoWrite`,
`Reland`; the block path is `ReconcileLoad`, `ReconcileList`, `ReconcileLand`.
`Ops` and `Events` choose the operations and the faults of a run.

Two history variables say where a property is meant to hold: `source` is who
published the ruleset in force (the two publishers generate it from different
inputs), and `unsure` what two overlapping operations, or a publication of the
blocks that failed, may have left different.  `KernelMatches` (the kernel's rules,
settings and NAT, and the rule list in memory, against what is stored) and
`BlocksPublished` except exactly that; the counterexamples listed below show
each exception to be real.  `AckedKept` says that the stored rules are what the
acknowledged requests add up to and that nft accepts what is stored.

`RulesCommitAtomically` shows that with rule changes alone the module
implements `RuleCommit`: the kernel's rules and the acknowledged rules change
in the same step, one accepted edit at a time.

Left out: the captive portal's sessions (`CaptivePortal`), what the ruleset says
(`PacketFilter`), interfaces.
`EffectiveNat` stands for a box with at least one WAN interface.

### Netfilter and PacketFilter

`Netfilter` is the part of nftables the code relies on.  A packet is a record of
what a statement can look at; a statement gives for every field the values it
matches, and a verdict; a chain is a sequence of statements with a policy.
`Rewriting` statements change the destination before routing.  nft refuses a
ruleset that mixes address families in a statement or has a malformed port range,
and then the kernel keeps the old one.

`PacketFilter` translates the generator function by function: the system's own rules (service
ports, private and bogon blocks), the user's rules sorted by priority and limited to
the chains they belong to, schedules, aliases, the portal's gate and redirects, port
forwards with the accept rules that come with them, source NAT in its four modes, the
anti-lockout statement and the settings.  A request validates
as its handler does, stores, generates and publishes; where nft refuses, rules and
settings are taken back and published again, NAT is only taken back, and aliases, the portal
and the IPv6 switch stay as they were saved.  The stable sort by priority, and what the generator
passes over in order, are one operator (`Arranged`): what a list holds at some places, by their rank.  A request is one step: `RulesetPublish` is about what
overlaps.  `published` keeps what the ruleset in the kernel was generated from,
because the properties compare what a packet meets with what the administrator
stored.  `UpdateSystem` stores the system settings, the ports of the web interface and
of sshd among them; it publishes only when it changes IPv6 and nothing failed before.
`listening` says where the daemon and sshd listen: sshd follows the request, the
daemon moves when it starts again (`RestartDaemon`).

`AdminReachable`, `RulesDecide`, `PortalGate` and `NatDecides` quantify over the
packets of the instance.  Each is stated from the configuration alone, without
the generator's order of blocks: `RulesDecide` for example finds the foremost rule that speaks
about a packet and requires its verdict, unless the portal, a port forward or a blocked
network decides first.  `AdminReachable` is about the management ports of the firewall
settings and, of the two in the system settings, those that the published ruleset names and where
somebody listens (`Answering`); packets that a port forward or the portal's redirect takes
elsewhere are not its subject (`Kept`).  Both conditions are needed (see Runs).  What modelling
showed beside them:

* Automatic outbound NAT is said to allow LAN-to-WAN traffic; the statement that
  accepts it stands behind the default drop, so under the forward policy `drop`
  (a new appliance has it) it never takes effect (`OutboundAllowed`).
* The anti-lockout rule shown in the rule list (priority -150) names no source, so the
  addresses in `management_allowed_sources` do not narrow who reaches the ports.
* Where the policy is `drop`, a rule with a priority of 1 000 000 or more comes after the closing
  drop and never takes effect; nothing refuses it.  Where it is `accept`, the rule decides like any other.
* The accept rules of port forwards come before the rules that block private and
  bogon sources on a WAN.
* An alias with a range of ports, and a rule with an IPv4 source and an IPv6
  destination, pass the validation; nft refuses them, and every later publication fails
  until the alias is removed.
* A change of the SSH port or switch, or of the web port, is published with the next change of
  something else.  After one of the web port that publication opens the new port and closes the
  old one, on which the daemon still listens: only a restart lets the administrator in again.
* A port forward or a portal redirect for a management port is accepted, and takes it from the administrator.
* A rule with a schedule likewise begins and ends with the next publication after its window opens or closes.

Left out: source ports, the log switch, URL tables, the output policy, and the
reflection of port forwards.

### ConfigStore

`file` maps the three names of the store (`config`, `bak`, `tmp`) to inodes and
`data` inodes to what they hold, because two savers that open the same name
share a file and a rename takes it along with both their descriptors.  `revs` is
the directory of revisions in the order they were written.  A saver's `pc` is
the file operation it is about to do: `BackupOpen`, `BackupCopy`, `Open`
(validation and the truncating open), `Write`, `Rename`, `Reload`, `Archive`,
`Record`, and on a failure `RevertOpen`, `RevertCopy`.  A configuration is a
`value`, which stands for every section but one, and `keep`, the settings of the
archive, which the protocol itself reads.

`before`, `wanted`, `clean` and `reply` are history variables for `SaveAtomic`
and `HistoryTrue`: what the last operation found, was to leave and answered, and
whether it was alone.  `MCView` leaves out of a state which inode is which and
what the history variables say after an overlap, when no property reads them.

A crash is a stop of the process: what was written stays, in the order it was
written.  The code calls no `fsync`, so after a power loss the file system may
do worse; that is not modelled.

### SystemConfig and Backups

`SystemConfig` is `ConfigStore::validate`: for every section the form of each
entry, uniqueness, the references between sections (an interface a DHCP server
serves, a parent, what a prefix is tracked from) and the ports that services open.
A configuration is a record of sections; a section is a set of records with the fields a check
looks at.  An address is its family, and what is checked for its form alone is a
Boolean.  `Valid` is the whole of it, `Normalized` what a save changes on its own.

`Backups` keeps archives of such configurations.  `SaveSection` is any other
request; `CreateBackup`, `SnapshotForUpdate`, `ScheduledBackup`, `DeleteBackup`
and `UpdateScheduler` make and delete archives, deletions one at a time
(`DeleteNext`) in the order of names; `RestoreUpload` and `RestoreForRollback` begin
a restore, `RestoreSection` saves its next section, in the order of the subsystems in
the archive, and stops at the first that validation refuses.  An archive is named by
its type, version and second; `Versions` are the places of the versions' names among
each other: a restart may be in a later version whose name comes before (1.10.0 before
1.9.0), or in an earlier one after a rollback.  `before` is what the configuration would be without the restore,
`touched` what others saved meanwhile, `deleted` what a client deleted.

`StoredCoherent` is stated without `Valid`: from the sockets the units open, the
interfaces that are named and the address families in use.  What the model showed:

* A restore is not atomic (`RestoreAtomic`), does not touch sections its archive does not have, and
  reaches no running service.
* Archives of an update sort after all others, so pruning never deletes the one that
  is recorded as long as one archive is kept (`RollbackKept`); with as many of them as
  are to be kept, a new scheduled backup is deleted at once.  The exception is
  `Overtaken`: an earlier update made an archive of a version whose name comes after.
  `backup/scheduler.rs:188` says that the names sort by age: they sort by type, then version.
* The time of the last backup is in memory: each restart makes one.
* The switch for IPv6 does not look at DHCPv6 nor at where the portal listens;
  Caddy, the tunnel and the certificate listener are not part of the port check; references to
  interfaces are checked only while there is an interface; parents and tracked
  interfaces may form a cycle.

### CaptivePortal

`cfg` is the portal's section (`voucher` and `idle` say how it authorizes and
expires), `file` the sessions file, `kernel` the gate and the addresses let
through, `ps[p]` the operation a request or the reaper executes.  Each handler
is `SaveConfig` (when it changes the section), `LoadSessions`, `SaveSessions` and
the publication `ApplyConfig`, `ApplySessions`, `ApplyPrune`, `Land`, which
loads configuration and sessions once more and prunes the file again.  `Expire`
is the clock: a session is `new`, `old` (idle for too long) or `dead`.

`granted` counts the sessions a voucher was redeemed for, `troubled` says that
operations overlapped, or that one failed after it had saved something, and that
none has since run alone and succeeded.  `raced` says that a section was saved while another request
held one it had loaded before, so that one count may overwrite another.  The uses that the administrator sets stand for
what was redeemed before, requests in flight included; from there `granted` counts on.  `VoucherLimit` excepts what is raced and nothing else:
any number of requests may overlap at their other steps, fail or be cut off.  `KernelGates` and `ExpiredLeave` except
what is troubled; without the exceptions they do not hold (see Runs).

### UpdateTransaction

`published` is what the registry offers, `deployed` what is installed of the
daemon (`core`) and the UI, `snap` the rollback directories, `image` the version
that runs, the one armed for the next boot and the one left in the staging
directory, `file` is `updates_state.json` and `ps[p]` the operation of a request
or of the checker.  An operation keeps its own copy of the file (`st`) from its
first step on and saves it where the code does.  A version is a number: the code
only compares them.  An update of a component without an entry in the file (`seen`) is not
compared at all: before the first check, an update downloads what is published (`Downloaded`).
`Archive`, `Snapshot`, `Stage`, `Deploy`, `Record`, `Finish` are the
phases of `apply_updates_registry`, `Restore`, `Unrecord`, `RestoreConfig` those of
`rollback_updates`, one action for each component where the code loops; each has
its failure.  The checker goes `Tick`, check, `Schedule`, and then to an update
(`Activate` after one of the image) or a reboot.  `Settings` are the three
switches of the scheduled updater; the runs turn all of them on.

An image is armed in one step here: how it gets into a slot, and what happens
when that is interrupted, is the subject of `RootfsSlots`, whose `Apply` is the
step `Deploy` of the image.  `drift` and `odd` are history variables: runtime
components that were replaced without a record (the boot of an image brings its
own; a crash falls between installation and record; a second rollback), and ones
whose snapshot has none.  `VersionsTrue` and `SnapshotTrue` except exactly these.

Left out: progress and log entries, the key of the last scheduled occurrence,
`mark_appliance_rebuild_complete` (the operator's way to bring the image's version
on record up to date), the contents of the configuration archive.

### The service modules

Every handler of a service has the same shape: load the configuration, replace a
section, save, write the files of the service, run its commands, and on a failure
undo some of that.  `ServiceRequests` models the shape once.  `stored` is the
configuration on disk (one set of entries for each section), `cache`
`AppState.interfaces`, `file[u]` what a unit would start from, `cand[u]` the
candidate file of a Kea server, `run[u]` what the unit runs, and `req[p]` the
request of client `p` or the startup of the daemon: `todo` the steps still to
do, `undo` those of its error path, `view` the configuration it loaded, `prev`
the one it found, `was` the interfaces in memory at that time.

A step is a record: what it does (`do`: `save`, `install`, `test`, `start`, ...), on
which unit (`on`), with which sections or entries (`of`).  A handler is the operator that builds its list of steps
from what the request holds (`UpdateDns`, `CreateLease4`, `CreateInterface`, ...), in
the order of the code, with the steps of its error path.  One action carries out
one step, so any step of another request may come between two of them.  Each
step that runs a command has a `Fault`, and a step whose failure the code only logs may be
`PassedOver`.  What fails for a reason in the data (a checker refuses, the kernel
does not take an address) fails whenever it is asked and costs no fault: `Refused`
is the set of such entries.

A section is a set of pairs of a field (a flag, an item, a port) and a mark: `on`,
`off`, or what else the code tells apart (a gateway `auto`, a tunnel `moved`).  The
content of a unit is a set of triples: section, field and mark.
`Wanted(u, k)` is what the generator of unit `u` makes of configuration `k`.

The services share the configuration file but not its sections, and no handler
of one reads another's (with the exceptions that are modelled: the interfaces,
and a revision that is restored).  `part` is therefore one of the clusters that do
share sections, chosen at the start: DNS with SSH and IPv6, each DHCP family, NTP,
QoS, WireGuard, the interfaces with NAT and gateways, and each application.  A run checks
all of them.

History variables are `req[p].notes`, what happened to a request (a command
`failed`, one failed `silent`ly, it met another), and `past`, what happened since
the beginning: requests that `met`, a request `cut` off by a restart, a revision
`restored`.  The exceptions of the properties are stated with them, and the
configurations below show each to be real.

Abstractions: loading the configuration does not fail, and a save fails as a whole
(`ConfigStore` has the detail); addresses are part of an entry's name; DHCP and PPPoE clients
of an interface, router advertisements, certificates and rule sources are left
out; Suricata's reload of a unit that is stopped fails, as the code expects of
`systemctl`.

What reading and checking these handlers showed, beyond the listed findings:

* The two requests of a DHCP family use one candidate file: a request can
  install a file that was never tested (`KeaAlwaysAccepted`).
* `api/config_history.rs:100` says that a restored revision is applied to
  running services; the handler only stores it.  The services keep what they run
  until the next startup, and some of them longer (`RevisionApplied`).
* The networks that are translated are saved after the interfaces and by a
  different save; the startup does not repair them (`NatSurvives`).
* Units that are left with what they had (`AppliedInFull`): the route of a
  deleted gateway, the interfaces of a Suricata that runs, the ingress of a
  tunnel that runs, the address of a WireGuard tunnel that is up, the shaping of
  an interface that is no longer listed.  Tunnels and gateways are not looked at on startup at all.
* A deletion of an interface whose last step, reading the system settings, fails is answered
  with an error although it is saved and published, and nothing is undone (`ErrorsKeep`);
  `ErrorsHarmless` asks that it then stands in full.
* An error path of the interfaces writes the whole configuration back, and with
  it undoes what others saved in the meantime.
* The DNS file is put in place before it is checked.  The resolver goes on with
  the old one, but the next boot finds the file that was refused.
* An override is not applied if the DNS section was never saved.

### Background

Seven jobs of the daemon that keep state of their own and share none with each
other (but for the schedules, which run the rule sets) are one module, so that one run checks all of them: `part` is the one that a behaviour
is about, `left` what it may still spend on requests, edits, faults, restarts and
steps of the clock, `past` what an exception of a property needs.  In all of them
nothing orders two operations, and what an operation does between two
waits (a lock, an answer, a command) is one action.

**PolicyEngine.**  `Observe` takes an event of the firewall log, classifies and
decides on it (`Classes`, `Resolved`) and records a suggestion; in control mode the reader goes on to apply it,
within the hourly budget.  An application saves and publishes its rule
(`ApplyRule`) and then logs it (`ApplyLog`); `UndoLastAction` .. `UndoLog` take the rule
of an entry back; `Bootstrap` .. `BootstrapPublish` harden the filter, save baseline rules for the services of
`Appliance`, publish, and put everything back when nft refuses.  `SetMode`, `SetAutomationSettings`, `SetIntents`,
the audit and `PolicyRestart` are the rest.  Scores are levels.  `Undoable` says that a rule of the engine is
in its log or about to be logged; it excepts a stop between the two (`cut`), a bootstrap that puts back
what it had loaded before another change (`clobbered`), two undos that meet (`met`), and a rule that nft
refused and that stays stored because the save of the old rules failed as well, which
`apply_to_firewall_rules` ignores (`stuck`).  What else the code does: the class of new services is never
detected; a rejected or applied suggestion can be applied again; undoing
frees hourly budget; two undos with a re-application in between can leave a rule
without entry; a bootstrap for one interface hardens the filter for all; the baseline rule of a service that is
switched off later stays.

**RuleSets and Schedules.**  An operation on rule sets is a list of steps (`task`):
read the list, download, record, make the effective file again, write `suricata.yaml`,
reload.  What an interface begins with is saved only with a change to it (`SetScope`).  `Schedules` adds the scheduler: a minute passes, the jobs that are
on and due run one after another, and the status is saved at the end.
`JobBreaks` ends the scheduler's task, as the dynamic DNS job can (below).
`UpdatesLoaded` is liveness: a new version of an enabled set reaches Suricata.
It excepts operations that meet, for the list is loaded before a download and
saved after it, and one saved late brings back an uninstalled set or loses a switch;
an enabled set installed anew, which does not reload Suricata although
`rules/manager.rs:79` calls it a forced update; a reload that fails after the list was saved; a restart in the middle;
and the end of the scheduler's task.  Also: a source without `ETag` and `Last-Modified` never updates; disabling
a set on one interface disables it for all monitored ones without lists of
their own; the status loaded by a run on request overwrites the scheduler's.

**Certificates.**  An order registers the account, asks for a certificate, answers its
challenge (port 80 or DNS), and writes certificate and key as two files in place.
`PairsMatch` says that they belong together; it excepts a stop or a failure between the two writes,
which nothing repairs for 60 days, and orders that met.  Also: an error after port 80 is bound leaves its
listener for good, and later orders fail; a torn account file fails every order; a
renewal ignores further domains that changed; the management listener
falls back to HTTP when the pair does not load.

**Login.**  A login looks at the lock, verifies the password outside of it
and then counts.  `GuessLimit` bounds the passwords verified since the last
success by what the settings allow and those in flight, the latter once more for
each lock that ended (the count is kept, and the next failure locks again); it excepts
settings that change, a lock that lasts no time (nothing refuses `lockout_duration_minutes` 0) and a
verification of more than a minute.
`TokensHonoured`: a token lives until it expires, over restarts and failed
writes of the key, unless two requests make the key at once.  A change of the
password verifies without counting.  `LoginBearer` shows that the middleware does
not look at the `Authorization` header its comment names.  The leeway of 60 s
in checking a token is left out.

**DynamicDns.**  A run takes the entries and addresses, and for each entry asks
the provider: one step for the simple ones, a lookup and a change for
Cloudflare, whose answers may be lost.  `StatusTrue`: when no run has begun since the
last one was written down, a host noted as updated has exactly the address noted; it excepts runs that
met, which can make duplicates that no later run removes, and hosts whose provider last refused them in an answer
that the code takes for consent (`Misread`): any status of success without one of seven words in its text,
an unreadable text included.  An error text cut at
byte 240 in the middle of a character ends the task, for the scheduler until
the next restart.  Only addresses of the configuration are used, so a DHCP
uplink has none.

**Notifications.**  `Escalate` fills a bounded queue; the worker takes an
event, mails it or keeps it for a digest, within a limit for each window of a
minute, and tries again after a failure.  `MailsLimited`: never more than twice the limit in a minute
(`notify/rate_limit.rs` says once: the window is fixed, and a change of the limit refills the bucket),
and while digests are on no event is lost or mailed twice, unless an attempt failed, mail
was switched, or the daemon restarted, which loses queue and digest.
Events beyond the queue or the limit are dropped silently.

## Runs

All bounds are in the `.cfg` files and the MC modules.  `Rootfs*` use
`MCRootfsSlots`, `Store*` `MCConfigStore`,
`ServicesDaemon` `MCServices`, `PacketFilter` `MCPacketFilter`, `Backups*`
`MCBackups`, `Background` and `LoginBearer` `MCBackground`, `Portal*` `MCCaptivePortal`, `Ruleset*` and
`Updates*` `RulesetPublish` and `UpdateTransaction` themselves.

| Run | Question | Result |
|---|---|---|
| `RootfsFaults` | `RunningIntact`, `SomeSlotBoots`, `Recoverable` under power loss, failing and killed commands, unreadable labels, repeated signals | holds |
| `RootfsOrderly` | without faults: `BootedIdentity`, and `ComesBack` under fairness of GRUB | holds |
| `RulesetRules` | three tasks that change rules and wait for each other's lock, with failing publications: `AckedKept`, `RulesCommitAtomically`, the refinement of `RuleCommit`, and `OperationsEnd` | holds |
| `RulesetDaemon` | every operation, one at a time, with failures and restarts: `KernelMatches`, `BlocksPublished`, `BlocksEnd` | holds |
| `StoreSaves` | two savers, failures and crashes: `NeverInvalid`, `SaveAtomic`, `HistoryTrue` | holds |
| `PortalDaemon` | the portal, requests of every kind beside the reaper, and two at once where they authorize or change the section, with failures, expiry and restarts: `KernelGates`, `VoucherLimit`, `ExpiredLeave` | holds |
| `UpdatesDaemon` | a request and the scheduled updater, with a failure, a crash, a reboot and images that may not boot: `VersionsTrue`, `SnapshotTrue`, `UpdatesArrive` | holds |
| `ServicesDaemon` | each part of the service settings, with two overlapping requests, a failing step and a restart or reboot: `KeaAccepted`, `InterfacesAgree`, `Applied`, `Reconciles`, `ErrorsHarmless` | holds |
| `PacketFilter` | any two changes of the configuration, the ports of the system settings included, portal logins, restarts of the daemon and the clock, from three configurations: `AdminReachable`, `RulesDecide`, `PortalGate`, `NatDecides` | holds |
| `Backups` | saves, backups, pruning, restores of any archive in any interleaving, with restarts: `StoredCoherent`, `RollbackKept`, `RestoreExact` | holds |
| `Background` | each part with two overlapping requests, edits, faults, lost answers, restarts and the clock: `Undoable`, `ServicesAdmitted`, `PairsMatch`, `GuessLimit`, `TokensHonoured`, `StatusTrue`, `MailsLimited`, and `UpdatesLoaded` under fairness | holds |
| `LoginBearer` | `BearerAccepted`: a token in the `Authorization` header is accepted | violated: the middleware reads the cookie only |

Two wider configurations hold as well.  `RulesetWaits` lets two tasks change rules, bootstrap and list them
at once, with a failing disk and restarts: `OperationsEnd`.  `PortalVoucher` has a voucher of
two uses and lets two requests and the reaper meet without `InTurn`: `VoucherLimit`.

Further configurations reproduce other disagreements between the code and what
its texts say, or show why a property has an exception.  Each checks one
property, which TLC finds violated.

| Configuration | Property | What happens |
|---|---|---|
| `RootfsTorn` | `OffReachesGoodSlot` | power lost between the `grub-editenv` calls |

More such definitions have no configuration of their own; they are violated when they take the place of
the property in the configuration named, with the constants named.

| Definition | In place of the property of | What happens |
|---|---|---|
| `FallbackKept` | `RootfsTorn`, with `Events` `apply`, `rollback` | a second apply before the confirmation formats the fallback of the trial |
| `RollbackTargetPopulated` | the same, with `fail` | after a failed apply a rollback chooses a formatted slot |
| `BootedIdentity` | the same, with `power` | power loss after an apply boots the default identity |
| `MirrorKeepsNewest` | the same, with `identity`, `sync` | a mirror older than the change overwrites it |
| `RecoveredIsReal` | the same, with `busy` | `recovered` set although no attempt ran out |
| `CurrentSlotReal` | the same, with `confirm` | a rollback writes an old `slots.json` back |
| `AckedKept` | `RulesetRules`, with `settings` | a settings change alongside loses a rule |
| `BlocksEnforced` | `RulesetRules`, with `block` | a rule change publishes without the blocks |
| `KernelMatches` without `unsure` | `RulesetRules`, with `block` or `list` | a block alongside a rule change publishes older rules; a listing alongside caches an older list |
| `BlocksEnd` | `RulesetDaemon`, without its exception | an expiry that nft refused is never tried again |
| `QuietReadable` | `StoreSaves`, with `Ops` `save` and no `Events` | two savers share the temporary file |
| `NatSurvives` | `ServicesDaemon` | a restart between two saves leaves NAT behind the interfaces |
| `OutboundAllowed` | `PacketFilter` | the default drop stands before the statement that lets a LAN out |
| `AdminReachable` without `Answering` | `PacketFilter` | a new web port is stored and not yet published |
| `AdminReachable` without `Kept` | `PacketFilter` | a port forward takes a management port |
| `RestoreAtomic` | `Backups` | a section that is refused leaves those restored before it |
| `RollbackKept` without `Overtaken` | `Backups` | a snapshot in version 2, a restart in version 1 and a snapshot there: with one archive kept, pruning deletes the newer one, which is recorded |
| `VoucherStrict` | `PortalDaemon` | two requests redeem the last use of a voucher at once |
| `NoRevival` | `PortalDaemon`, without `InTurn` | a status poll writes a revoked session back |
| `StrayLeaves` | `PortalDaemon` | a publication that failed after pruning is never tried again |
| `ImageCurrent` | `UpdatesDaemon` | nothing records the version an image brings |
| `OnlyNewerImages` | `UpdatesDaemon` | the image that runs is armed again at the next scheduled time |
| `AllUpdatesArrive` | `UpdatesDaemon` | and updates of the daemon and the UI, which come after images, never get their turn |
| `Transaction` | `UpdatesDaemon` | the UI fails to deploy after the daemon was deployed; nothing is undone |
| `RollbackExact` | `UpdatesDaemon`, with a second request | a second rollback records the newer version and installs the older |
| `KeaAlwaysAccepted` | `ServicesDaemon` | two DHCP requests share a candidate file |
| `RevisionApplied` | `ServicesDaemon` | a restored revision does not reach the services |
| `ErrorsKeep` | `ServicesDaemon` | a deletion of an interface stands although it is answered with an error |
| `Undoable` with `stuck` | `Background` | nft refuses a rule and the old rules cannot be saved again |
| `StatusTrue` with `misread` | `Background` | a provider refuses in words that are not looked for |
| `AppliedInFull` | `ServicesDaemon` | a change that is answered without an error does not reach what runs |

The bounds suffice because the interesting cases need few actors: two slots
are all there are; one good and one bad image distinguish every decision the
code takes; a rule that nft accepts, a second one to edit and one that it refuses
give all outcomes of an edit, and three tasks a queue for the lock; two savers
are the smallest number that can share a file, five inodes more than they can
hold at once, and a configuration that is refused beside two that are not
(`keep` 0 and 2) covers every branch of a save and an archive that overflows.
For the portal, two requests let one redeem the last use of a voucher while another has counted it and not
stored it, which is what can go wrong with a count; `InTurn` lets a second request begin only where both
load or save the section, and then without the idle timeout and the reaper, for what overlaps otherwise is excepted by
the other two properties anyway.  What the constraint cuts off is the beginning of an operation beside a second request, and a save that would
turn the idle timeout on beside one; any other step of an operation under way remains, so `ExpiredLeave` is
checked over all behaviours within it.  In `PortalVoucher` two uses let one be in flight while another is counted, and its
view leaves out the kernel, which no step reads, and the history that only `KernelGates` needs.
One client and two session identifiers are enough for the portal because what a
handler does depends on one client's sessions only; a second client
(safety only) shows nothing else.  For the updates, versions are bounded by what a system has
(`Built`) and one newer; one request beside the checker is enough because the
lock orders operations, and a fault is one because a second finds the same states
(two requests, safety only, show nothing else).
For the services, two requests are the smallest number that can meet, and the run has one
failure beside them.  A third request does show something new once a failure may come between: a request
that fails after two others have met, or after a revision was restored, puts back a copy in memory that
was already wrong.  `KeepsStore` therefore excepts what met or was restored before, not only during, the request;
`InterfacesAgree` excepts any past.  Three requests without a failure were
tried in every part, and with two failures in `wireguard`, `dhcp6`, `ntp`, `caddy` and `tunnel`, with
one in `net`; the properties hold there.  Item
`a` is an entry that is accepted and an interface with a gateway, `b` one that is
refused and a VLAN on `a`, which covers every branch on data that a handler has;
one fault beside two requests includes a failure of the error path of a refusal.
For the packet filter, two edits suffice because each property
relates at most two stored things (a rule and another rule, a portal, a port
forward, a setting), and the configurations to start from have one of each already; the
rules, forwards and packets of `MCPacketFilter` differ in every field the generator
looks at.  `MCSystems` has another web port, another SSH port, and each switch, and the two edits with a
restart anywhere let one be stored, published by the other and listened on in any order.
For backups, `MCBudgets` allows two saves; or a save, an archive and a restore; or a
save, a restore and a restart; or three archives with a restart and two steps of the clock; there are two `Versions`, and any of
them runs first; contents of a section are chosen so that two sections
forbid each other and a third needs one of them.
For `Background`, each part has two requests that may overlap (the rule sets one, beside the
scheduler) and the combinations of `MCBudgets`, each large enough for the faults and restarts of its properties to
happen within an operation and after it; `Window`, `Attempts`, `ScanPorts`, `Room` and `Period` are
2 or 3 where the code has 512, 3, 5, 512 and 10, for the code only compares
a count with them; `MCSecurities` are two settings that differ in the attempts and in the length of a session; `Latest` is one version more than the first, `Late` one
interval.
Deadlock is not checked for `Services`, `Backups` and `Background`, which are at rest when their
budgets are used up, for `RootfsSlots`, where a machine whose armed slot does
not boot really stops, nor for `ConfigStore`, where nothing can be saved once
the configuration cannot be read.

### Fairness

* `RootfsSlots`: weak fairness of `BootUp` and `BootFails` only.  A powered
  machine that is off runs GRUB.  Nothing is assumed of operations, faults or
  the operator.
* `RulesetPublish`: weak fairness of the steps of an operation under way (tokio
  polls every task; the URL fetch has a timeout of 30 s and nft exits) and
  strong fairness of taking the lock (tokio's `RwLock` is fair: first come,
  first served) and of the ticker, which is a task of its own although the model
  lets it share a task with requests.  Nothing is assumed of requests.

* `CaptivePortal`: weak fairness of the steps of an operation under way, as above;
  strong fairness of the reaper's tick (a task of its own, every minute), of its
  load and of its save, which must not fail every time.  Nothing is assumed of
  nft: `ExpiredLeave` excepts publications that failed.
* `Background`: weak fairness of the minute, of the scheduler's tick and of the
  steps of an operation on rule sets (`Polled`): the scheduler is a task of its own,
  downloads and reloads have timeouts.  Requests, edits and faults need not happen.  The other parts have
  safety properties only.
* `PacketFilter`, `Backups`: none; their properties are safety.
* `Services`: none.  Its properties say what has happened when a request is
  answered, not that it is.
* `UpdateTransaction`: weak fairness of the steps of operations and of the checker
  (commands and downloads end, the ticker is a task of its own, a reboot that was
  asked for comes), strong fairness of taking the lock (tokio's mutex is fair).
  Failures and crashes are bounded by `MaxFaults`: what is tried again succeeds in
  the end.

## Proofs

TLAPS checks what follows for every value of the constants that the named
assumptions allow (any number of processes, images, rules, clients, ...); the
runs show the same properties on small instances.  A safety proof has the form
`Init => IInv`, `IInv /\ [Next]_vars => IInv'`, `IInv => Inv`; the second is split by the
actions of the specification, with a lemma for each that is more than a few lines.

**`RootfsSlotsProofs`** (`ImagesAssumption`: an image that comes up can be booted with
its own kernel, junk is no image and runs none; `LimitAssumption`)

* `TypeCorrect`: `Spec => []TypeOK`.
* `RunningSlotIntact`: `Spec => []RunningIntact`, and `OneSlotAlwaysBoots`:
  `Spec => []SomeSlotBoots`.  The invariant is `Intact`.  `RunningIntact` alone is not inductive:
  an operation writes to the slot it chose when it began, so one needs that this
  slot is not the running one for as long as it is being written
  (`WritesStandby`), which follows from the check before the format and from the
  fact that the running slot changes only through a reboot, which ends every
  operation (`OffIdle`).  `SomeSlotBoots` then holds because the running slot
  does, and because no step writes while the machine is off.
* `AlwaysRecoverable`: `Spec => []Recoverable`.  The invariant is `Guarded`: `grubenv` as a
  whole leads to a slot that boots (`Settled`) only while nobody rewrites it, so `HalfArmed` and
  `HalfCleared` say what has been written at each command in between, and `Alone` that one
  rewrites at a time; all three hold unless `upset`.
* `IdentityKept`: `Spec => []BootedIdentity`, when `Events` has none of `power`, `fail` and `kill`.
  A slot without its own identity files is being filled (`Stamping`).  The hypothesis is needed: nothing
  repairs a slot that an interrupted operation leaves (`BootedIdentity` in `RootfsTorn`).

**`RulesetPublishProofs`** (`ConstantsAssumption`)

* `KernelAlwaysMatches`: `Spec => []KernelMatches`, and `BlocksAlwaysPublished`:
  `Spec => []BlocksPublished`, for all operations and faults.  The invariant is `Beside /\ Agrees`.
  What `unsure` does not name is certain because of who may be under way: `Roles` (what a task
  holds at each label, one holder of the lock) and `Apart` (while something is certain only rule
  changes are beside each other).  Then what is stored, in the kernel and in memory
  agrees at each label of the one operation past the lock (`InStep`, `CacheTrue`, `BlocksTrue`),
  which needs that what it publishes was read from what is stored (`AllLinked`).
* `AckedAlwaysKept`: `Spec => []AckedKept`, when `Ops` has no save of another section and
  `Events` at most `nft`.  `Ledger` says that the holder of the lock is the only one with a change
  of the rules under way, and that this is one edit of what was acknowledged.  Without
  either hypothesis TLC finds `AckedKept` violated: a save of another section writes the rules it loaded
  back (`RulesetRules` with `settings`), and a stop leaves a saved rule that nobody acknowledged.
* `RulesAlwaysCommitAtomically`: `Spec => RulesCommitAtomically`, the refinement of `RuleCommit`, step
  by step, for rule changes alone with nft failing at any of them (`Ledger` and `Enforces`).

**`ConfigStoreProofs`** (`StoreAssumption`)

* `StoreTypeCorrect`: `Spec => []TypeOK`, which bounds the archive.
* `RefusedNeverStored`: `Spec => []NeverInvalid`.  The invariant is `Sound`:
  `NeverInvalid` speaks of `config.json` and the archive only, but a refused
  configuration could reach them through any inode (the backup is copied back, the
  temporary file renamed by another saver), so every inode holds text of accepted
  configurations (`data \in [Inode -> GoodText]`), and what a saver is about to
  write or to record is one (`Proper`).
* `SavesAtomic`: `Spec => []SaveAtomic`, and `HistoryAlwaysTrue`: `Spec => []HistoryTrue`.  `Followed` tracks a
  save that runs alone through its labels: what `config.json`, the backup and the temporary file hold
  at each (`Tracked`), and what is true when it has returned.  Savers that overlapped may have left anything,
  but no two names share a file once they are done with it (`Linked`), which is
  what a later save needs.

**`FilterProofs`** (`PortalAssumption` for the portal's sessions)

* `PortalTypeCorrect`: `Spec => []TypeOK`.
* `KernelAlwaysGates`: `Spec => []KernelGates`, for any number of requests at once.  The invariant is `Gated`: what
  an operation holds at each label (`Shape`), an identifier belongs to one client (`Owned`), and for
  one that runs alone, how its list relates to the file (`Mirrors`, `Covers`: it may be pruned at another moment);
  without trouble, what is saved and not published belongs to it (`Lone`, `Calm`, `InLine`).
* `VouchersLimited`: `Spec => []VoucherLimit`, for any number of requests at once.  `Counting` bounds the sessions
  granted and those in flight (`InFlight`: counted in the section and not stored yet) by the uses in the stored section, and says
  that who is about to save a section adds a use to the stored one.  The second is lost exactly when `raced` becomes true, so it is not an
  assumption about the requests but the exception of the property, and it ends when the administrator next sets the uses.

For the packet filter (`NetfilterAssumption`: interfaces and ports are finitely many, and one host at least is
not IPv6; `PacketFilterAssumption`; `InputAssumption`: what is asked for has its type, the configurations to start from pass
the checks of a save, and NAT that was never saved has no interfaces) the properties are about one
state, so the invariant `FilterSound` is short (`FilterInvariant`): the stored configuration and the
published one have passed the checks, the kernel has the ruleset generated from the published one, and both have
the same firewall settings, because these are the section that a refused ruleset takes back.  The rest
is about the generator, for lists of rules of any length and any packet:

* Lists: what `Listed` makes of a finite set has all its members (`ListedMembers`, by the recursion that the fold
  follows), ranks are distinct and without gaps (`Ranks`, `Arrangement`), so `ByPriority` and `InOrder` reorder and lose
  nothing (`ByPriorityOrder`, `InOrderOrder`).
* Chains: the first part of a chain that ends a packet's way gives its verdict (`VerdictJoin`, `FiveChains`), with a lemma for
  what each part does (`TrackedVerdict`, `GateVerdict`, `CompanionsVerdict`, `EmitVerdict`, `LockoutVerdict`, ...), and one
  for what arrives of a packet after translation (`ArrivalIs`).
* `AdministratorGetsIn`: `FilterSpec => []AdminReachable`.  Nothing before the anti-lockout statements ends the
  packet's way but to accept it; that they are generated from the firewall settings stored now is where `FilterSound` is needed.
  What the system settings add is only claimed of the published ones.
* `StoredRulesDecide`: `FilterSpec => []RulesDecide`.  Of the system's rules only the default one decides about a forwarded packet
  that comes from no blocked network (`SystemRuleDecides`); the first statement that applies is that of the
  foremost rule (`FirstSpeaker`), for which a stored rule must be one that passed validation: one that matches a
  port has a protocol with ports.
* `PortalKeepsOut`: `FilterSpec => []PortalGate`.
* `NatDoesWhatIsStored`: `FilterSpec => []NatDecides`.  The port forward that takes a packet is the earliest of those that could
  (`FirstForward`), and its own accept rule matches what it makes of the packet.

Writing these proofs corrected the model: the configuration of a fresh appliance among those to start from did not
pass the checks (a walled garden with IPv6 while IPv6 is off), so saves that left both alone were refused; `Speaks` left out that
a rule after the closing drop still decides where there is no such drop; and `NatDecides` claimed of a forward to the firewall's own
address what only the input chain can give.

**`UpdateTransactionProofs`** (`UpdateAssumption`)

* `UpdateTypeCorrect`: `Spec => []TypeOK`, which says among other things that a task of the daemon is at work if and
  only if it holds the lock.
* `VersionsAlwaysTrue`: `Spec => []VersionsTrue`, and `SnapshotsAlwaysTrue`: `Spec => []SnapshotTrue`, with the requests
  served by the daemon (`Cli = {}`): the lock is one of its process, and with an operation of
  the command line beside it TLC finds both violated.  The two properties say nothing while an operation is at work; the
  invariant is `Holds`, which follows its copy of the state file: the recorded versions are true but for the component
  that was just replaced (`record`, `unrecord`), the copy agrees with the file on them, and what
  the copy says of each snapshot is what the directory has, while the file still names the version before
  (`snapshot`, `stage`).

**`BackgroundProofs`** (the assumptions of `BackgroundBase` and `PolicyEngine`, `LoginAssumption`,
`AcmeAssumption`, `NotifyAssumption`, `DdnsAssumption`)

* `RulesAlwaysUndoable`: `Spec => []Undoable`.  `Accounted`: each rule has an entry or is about to get
  one; while one is undone, its entry is there, and after its rule has been removed no
  other rule depends on it alone.
* `ServicesAlwaysAdmitted`: `Spec => ServicesAdmitted`, an action property, by `Admitted`: while a bootstrap publishes, its
  baseline rules are stored.
* `TokensAlwaysHonoured`: `Spec => []TokensHonoured`.  `KeyMade`: a single request makes the key, before any
  token is issued, and tokens carry the key on disk.
* `GuessesLimited`: `Spec => []GuessLimit`.  `GuessesCounted` is an equation, passwords verified = failures counted +
  verifications in flight; the bound follows because an unlocked name has room for one of each client.
* `PairsAlwaysMatch`: `Spec => []PairsMatch`.  `Paired` says what the certificate is for at each step of the one
  operation that writes a domain's pair.
* `MailsAlwaysLimited`: `Spec => []MailsLimited`.  `Metered` relates the mails of the last two half minutes to
  the tokens of the bucket, by its age; `NothingLost` is the balance of events.
* `StatusAlwaysTrue`: `Spec => []StatusTrue`.  `RecordsTrue`: one run at a time, a host has one record at most, and what
  the run has noted of each host is true when it is written down, but for the hosts in `misread`.

These speak of the `Spec` of `Background`, in which one part is at work: each
invariant says what it must of its part, and that the other parts leave that alone.

**`ServicesProofs`** (`ServiceAssumption`, `LinkAssumption`)

* `ServicesTypeCorrect`: `Spec => []TypeOK`.  The invariant is `Base`: the types, with the steps of every plan among
  `Steps`; a part fills its own sections and files only; and of two requests at work both are marked
  `"met"` and so is the past.  The last is what lets the proofs below look at one request at a time.
* `KeaFilesAccepted`: `Spec => []KeaAccepted`.  `KeaOrder` says where a request that nothing meets is in its
  plan: the candidate file has passed `kea -t` when the plan starts with the installation, and nobody else is at work who
  could have replaced it.  A candidate that is refused ends the plan, because no step of the engine is left (`NothingElsewhere`).
* `InterfacesInStep`: `Spec => []InterfacesAgree`.  `NetOrder` says of each step of a request about an interface
  what has changed by then: nothing on disk (`Changing`), the lists and what is derived from them one by one (`Following`), or
  all of it is being put back (`Undone`); `was` is the list to put back in memory when the save fails, `prev` what to restore later.
  Between requests `Agree` holds, and it is what the next request starts from; a restart keeps it because nothing was under way
  unless the past says `"cut"`.  One failure is the bound: a restore that fails too leaves the lists apart.
* `ErrorsChangeNothing`: `Spec => ErrorsHarmless`, an action property.  For what is on disk, `StoreOrder` says of a request about the clock or
  shaping where it is: it has saved nothing yet, or only its own section, and then what is to follow a failure restores it (`PutsBack`);
  for the interfaces it is `NetOrder` again, and of a deletion at its last reading that it stands in full.  For what runs, `KeaOrder` and `DnsOrder`: while nothing
  meets, the section a request hands to its engine is the one on disk, so a server is stopped only when the configuration
  has it off; and a server is started only from a file that was written (`Serving`), and, where a file is checked first,
  accepted.  That a plan of the resolver has its steps in the order written, check and start, whatever comes before and after them,
  is `Linked`, proved of each handler (`DnsRequests`) and of the startup (`DnsStartups`).

Writing these proofs changed the model: the steps of the startup that its engine passes over after a failure are
now one slice of the plan (`Elsewhere`), and the two clocks, which one engine applies, are passed over
together (`Together`).

**`BackupProofs`** (`BackupAssumption`: a configuration to start from is one a save could have stored, a
schedule keeps an archive at least)

* `StoredAlwaysCoherent`: `Spec => []StoredCoherent`.  The invariant is `Valid(config)`; that it implies
  coherence is lemma `ValidCoherent`, section by section: a socket is checked under its own address or under
  one that overlaps all.
* `RestoresAlwaysExact`: `Spec => RestoreExact`, an action property, by `Restoring`: while a restore is under way each section it was asked
  for is restored, somebody else's, or still to come, and the others are as without it.  It needs that a
  save leaves the sections it is not about alone although it normalises the whole: what is stored and what is in an archive
  is `Settled`, because normalising twice is normalising once (`NormalizedOnce`).
* `RollbackAlwaysKept`: `Spec => []RollbackKept`.  `Listings`: a name that pruning has listed comes before that of
  another archive, and is overtaken if it is recorded; `LastUpdate`: no archive of an update is younger than the recorded one.

Only model-checked: `Applied` and `Reconciles` of `Services`,
and all liveness (`ComesBack`, `OperationsEnd`, `BlocksEnd`, `ExpiredLeave`, `UpdatesArrive`, `UpdatesLoaded`),
which is out of the prover's reach.  Every invariant that a run checks has a theorem.
The first two are within reach and open (below).  The type invariants of the modules with proofs are
proved and not model-checked again.

## Plan

Done: `RootfsSlots`, `ConfigStore`, `RulesetPublish` with `RuleCommit`, `CaptivePortal` and
`UpdateTransaction`, with their proofs; `PacketFilter` over `Netfilter` with its proofs, `SystemConfig` and
`Backups` with its proofs, `Services` with its engines, and
`Background` with its seven jobs and the proofs of five of them; the proofs of the two invariants of `Services` and of one of its action properties.

Open, in this order:

1. Proofs: `Applied` and `Reconciles`.
2. The image phase of `UpdateTransaction` shown to be an `Apply` of
   `RootfsSlots`, and the acknowledgement of a rebuilt appliance.
3. The portal's listener task; prefix delegation and the DHCP and PPPoE clients of
   interfaces; the CrowdSec bouncer.

## Not modelled

The views (metrics, logs, dashboard), the text of generated files, the
scoring model, honeypots, CrowdSec, prefix delegation, and the protocols of
external services; `PROJECT.json` gives the reason for each component.

Hazards beside those `PROJECT.json` lists.  Some have no property that they
could break: the boot count at its numeric limits, schedules of rules that span
midnight, a wall clock that goes back between two revisions, a sessions file
that does not parse, an update before the first check, which compares no version, the portal's listener during a reconfiguration, priorities
of zero-trust rules below zero.  Others are reached by actions of the
modules, and a property excepts them or a configuration above shows them: a saver that
fails restores the backup another saver made (`config/storage.rs:1749`) or copies it over
`config.json` in place (`config/storage.rs:1883`); a stop between saving a rule nft refuses
and taking it back (`api/firewall.rs:411`); the fallback of a trial that a second apply formats
(`rootfs_update.rs:499`); several requests to the same interface, gateway or resolver at once.
