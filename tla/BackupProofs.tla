--------------------------- MODULE BackupProofs ----------------------------
(* Theorems about Backups, for any configurations, requests, schedules and versions of  *)
(* the daemon: what is stored is coherent, a restore brings back what it was asked for, *)
(* and the retention keeps the archive to go back to.                                   *)
EXTENDS Backups, FiniteSetTheorems, TLAPS

-----------------------------------------------------------------------------
(* What validation is for.                                                 *)

\* An address that may be named with IPv6 off is none of IPv6.
LEMMA NamedSix ==
  ASSUME NEW c, NEW A, Addrs(A, SixEnabled(c)), "v6" \in A
  PROVE  SixEnabled(c)
BY DEF Addrs, Addr

\* The sockets that are opened are among those checked, or closer to one's own address.
LEMMA OpenedChecked ==
  ASSUME NEW c, NEW s \in Opened(c)
  PROVE  \E t \in Sockets(c) : t[1] = s[1] /\ t[3] = s[3] /\ t[2] \in {s[2], "0.0.0.0"}
<1>1. CASE s \in Sockets(c)
  BY <1>1
<1>2. CASE s \notin Sockets(c)
  <2>1. PICK d \in c.dns : \E a : s = <<"dns", a, d.port>>
    BY <1>2 DEF Opened
  <2>2. <<"dns", "0.0.0.0", d.port>> \in Sockets(c)
    BY <2>1 DEF Sockets
  <2> QED
    BY <2>1, <2>2
<1> QED
  BY <1>1, <1>2

LEMMA ValidApart ==
  ASSUME NEW c, PortsFree(c)
  PROVE  SocketsApart(c)
<1> SUFFICES ASSUME NEW s \in Opened(c), NEW t \in Opened(c), s[1] # t[1], s[3] = t[3],
                    Overlap(s[2], t[2])
             PROVE  FALSE
  BY DEF SocketsApart
<1>1. PICK u \in Sockets(c) : u[1] = s[1] /\ u[3] = s[3] /\ u[2] \in {s[2], "0.0.0.0"}
  BY OpenedChecked
<1>2. PICK v \in Sockets(c) : v[1] = t[1] /\ v[3] = t[3] /\ v[2] \in {t[2], "0.0.0.0"}
  BY OpenedChecked
<1>3. u # v /\ u[3] = v[3]
  BY <1>1, <1>2
<1>4. Overlap(u[2], v[2])
  BY <1>1, <1>2 DEF Overlap
<1> QED
  BY <1>3, <1>4 DEF PortsFree

LEMMA ValidResolved ==
  ASSUME NEW c, ValidInterfaces(c), ValidNtp(c), ValidDdns(c), ValidPortal(c)
  PROVE  Resolved(c)
<1> SUFFICES ASSUME c.interfaces # {}, NEW r \in References(c)
             PROVE  r \in Named(c)
  BY DEF Resolved
<1>1. CASE \E i \in c.interfaces : i.mode = "track" /\ r = i.track
  BY <1>1 DEF ValidInterfaces, ValidSix
<1>2. CASE \E i \in c.interfaces : i.parent # "" /\ r = i.parent
  <2>1. PICK i \in c.interfaces : i.parent # "" /\ r = i.parent
    BY <1>2
  <2>2. IF i.vlan = {} THEN i.parent = "" ELSE i.parent \in Named(c) \ {i.name}
    <3>1. ValidLink(i, Named(c))
      BY DEF ValidInterfaces
    <3> QED
      BY <3>1, Zenon DEF ValidLink
  <2> QED
    BY <2>1, <2>2, Zenon
<1>3. CASE \E m \in c.ntp : m.on /\ m.serves /\ r \in m.listen
  BY <1>3 DEF ValidNtp, Known
<1>4. CASE \E p \in c.portal : p.on /\ r \in p.gates
  BY <1>4 DEF ValidPortal, Known
<1>5. CASE \E d \in c.ddns : d.on /\ \E e \in d.entries : e.on /\ r = e.iface
  <2>1. PICK d \in c.ddns : d.on /\ \E e \in d.entries : e.on /\ r = e.iface
    BY <1>5
  <2>2. PICK e \in d.entries : e.on /\ r = e.iface
    BY <2>1
  <2>3. Known(c, {e.iface})
    BY <2>1, <2>2 DEF ValidDdns
  <2> QED
    BY <2>2, <2>3 DEF Known
<1> QED
  <2> DEFINE R1 == {i.track : i \in {x \in c.interfaces : x.mode = "track"}}
  <2> DEFINE R2 == {i.parent : i \in c.interfaces} \ {""}
  <2> DEFINE R3 == UNION {n.listen : n \in {x \in c.ntp : x.on /\ x.serves}}
  <2> DEFINE R4 == UNION {p.gates : p \in {x \in c.portal : x.on}}
  <2> DEFINE R5 == UNION {{e.iface : e \in {x \in d.entries : x.on}} : d \in {x \in c.ddns : x.on}}
  <2>1. CASE r \in R1
    BY <2>1, <1>1
  <2>2. CASE r \in R2
    BY <2>2, <1>2
  <2>3. CASE r \in R3
    BY <2>3, <1>3
  <2>4. CASE r \in R4
    BY <2>4, <1>4
  <2>5. CASE r \in R5
    BY <2>5, <1>5
  <2>6. References(c) = R1 \union R2 \union R3 \union R4 \union R5
    BY Zenon DEF References
  <2> HIDE DEF R1, R2, R3, R4, R5
  <2> QED
    BY <2>1, <2>2, <2>3, <2>4, <2>5, <2>6

LEMMA ValidFamilies ==
  ASSUME NEW c, ValidInterfaces(c), ValidFilter(c), ValidDns(c), ValidWireGuard(c),
         ValidGateways(c), ValidSuricata(c), "v6" \in Families(c)
  PROVE  SixEnabled(c)
<1>1. CASE \E i \in c.interfaces : "v6" \in i.addresses \union {i.gateway}
  <2>1. PICK i \in c.interfaces : "v6" \in i.addresses \union ({i.gateway} \ {""})
    BY <1>1
  <2> QED
    BY <2>1, NamedSix DEF ValidInterfaces
<1>2. CASE \E x \in c.rules \union c.nat \union c.filter \union c.aliases : "v6" \in x.names
  BY <1>2, NamedSix DEF ValidFilter
<1>3. CASE \E d \in c.dns : "v6" \in d.forwarders \union d.clients
  BY <1>3, NamedSix DEF ValidDns
<1>4. CASE \E o \in c.overrides : "v6" = o.to
  BY <1>4 DEF ValidDns, Addr
<1>5. CASE \E w \in c.wireguard : "v6" \in w.addresses \/ \E p \in w.peers : "v6" \in p.allowed
  BY <1>5, NamedSix DEF ValidWireGuard
<1>6. CASE \E g \in c.gateways : "v6" \in {g.ip, g.monitor}
  <2>1. PICK g \in c.gateways : "v6" \in {g.ip, g.monitor} \ {""}
    BY <1>6
  <2> QED
    BY <2>1, NamedSix DEF ValidGateways
<1>7. CASE \E s \in c.suricata : "v6" \in s.home
  <2>1. PICK s \in c.suricata : "v6" \in s.home \union s.external
    BY <1>7
  <2> QED
    BY <2>1, NamedSix DEF ValidSuricata
<1> QED
  <2> DEFINE F1 == UNION {i.addresses \union {i.gateway} : i \in c.interfaces}
  <2> DEFINE F2 == UNION {x.names : x \in c.rules \union c.nat \union c.filter \union c.aliases}
  <2> DEFINE F3 == UNION {d.forwarders \union d.clients : d \in c.dns}
  <2> DEFINE F4 == {o.to : o \in c.overrides}
  <2> DEFINE F5 == UNION {w.addresses \union UNION {p.allowed : p \in w.peers} : w \in c.wireguard}
  <2> DEFINE F6 == UNION {{g.ip, g.monitor} : g \in c.gateways}
  <2> DEFINE F7 == UNION {s.home : s \in c.suricata}
  <2>1. CASE "v6" \in F1
    BY <2>1, <1>1
  <2>2. CASE "v6" \in F2
    BY <2>2, <1>2
  <2>3. CASE "v6" \in F3
    BY <2>3, <1>3
  <2>4. CASE "v6" \in F4
    BY <2>4, <1>4
  <2>5. CASE "v6" \in F5
    <3>1. PICK w \in c.wireguard : "v6" \in w.addresses \union UNION {p.allowed : p \in w.peers}
      BY <2>5
    <3> QED
      BY <3>1, <1>5
  <2>6. CASE "v6" \in F6
    BY <2>6, <1>6
  <2>7. CASE "v6" \in F7
    BY <2>7, <1>7
  <2>8. Families(c) = F1 \union F2 \union F3 \union F4 \union F5 \union F6 \union F7
    BY Zenon DEF Families
  <2> HIDE DEF F1, F2, F3, F4, F5, F6, F7
  <2> QED
    BY <2>1, <2>2, <2>3, <2>4, <2>5, <2>6, <2>7, <2>8

LEMMA ValidCoherent ==
  ASSUME NEW c, Valid(c)
  PROVE  SocketsApart(c) /\ Resolved(c) /\ ("v6" \in Families(c) => SixEnabled(c))
BY ValidApart, ValidResolved, ValidFamilies DEF Valid

\* Every configuration that is stored has been checked: what is saved, and what a restore
\* saves of its archive.
LEMMA StoredValid == Spec => []Valid(config)
<1>1. Init => Valid(config)
  BY BackupAssumption DEF Init
<1>2. Valid(config) /\ [Next]_vars => Valid(config)'
  <2> SUFFICES ASSUME Valid(config), [Next]_vars, config' # config
               PROVE  Valid(config')
    OBVIOUS
  <2>1. CASE \E s \in DOMAIN Offers : SaveSection(s)
    BY <2>1 DEF SaveSection
  <2>2. CASE RestoreSection
    BY <2>2 DEF RestoreSection
  <2>3. (\E s \in DOMAIN Offers : SaveSection(s)) \/ RestoreSection
    BY DEF Next, vars, CreateBackup, SnapshotForUpdate, DeleteBackup, ScheduledBackup,
           UpdateScheduler, DeleteNext, RestoreUpload, RestoreForRollback, RestoreEnds, Restart,
           Clock
  <2> QED
    BY <2>1, <2>2, <2>3
<1> QED
  BY <1>1, <1>2, PTL DEF Spec

\* Whatever is saved, restored or cut off, the services that are enabled can open their
\* sockets, what they refer to exists, and nothing of IPv6 is left when it is off: every
\* save asks for more than that, in every section (ConfigStore::validate).
THEOREM StoredAlwaysCoherent == Spec => []StoredCoherent
<1>1. Valid(config) => StoredCoherent
  BY ValidCoherent DEF StoredCoherent
<1> QED
  BY <1>1, StoredValid, PTL

-----------------------------------------------------------------------------
(* Retention.                                                              *)

Type == {"manual", "scheduled", "update"}
ArchiveName == (1..3) \X Nat \X Nat \X {0, 1}
Dated(f, t) == f.type \in Type /\ f.version \in Nat /\ f.at \in 0..t /\ f.encrypted \in {0, 1}

\* Archives are made by the clock, and what pruning lists comes before an archive that was
\* made; of updates, the last is the one that is recorded.
RetentionType ==
  /\ version \in Nat /\ now \in Nat
  /\ files \subseteq copies /\ \A f \in copies : Dated(f, now)
  /\ \A s \in schedule : s.retain \in Nat \ {0} /\ s.encrypted \in {0, 1}
  /\ prune \in [Pruner -> SUBSET ArchiveName]
  /\ \A n \in rollback : n \in ArchiveName /\ n[1] = 3

Listings ==
  \A p \in Pruner : \A n \in prune[p] :
    /\ \E g \in copies : Before(n, NameOf(g))
    /\ n \in rollback => Overtaken(n)

LastUpdate == \A n \in rollback : \A f \in copies : f.type = "update" => f.at <= n[3]

Kept == RetentionType /\ Listings /\ LastUpdate /\ RollbackKept

LEMMA NameDated ==
  ASSUME NEW f, NEW t \in Nat, Dated(f, t)
  PROVE  /\ NameOf(f) \in ArchiveName
         /\ NameOf(f)[1] = Rank(f.type) /\ NameOf(f)[2] = f.version
         /\ NameOf(f)[3] = f.at /\ NameOf(f)[4] = f.encrypted
         /\ NameOf(f)[1] = 3 => f.type = "update"
BY DEF Dated, NameOf, ArchiveName, Rank, Type

\* What a name comes before is of its type, or of a later one.
LEMMA BeforeRank ==
  ASSUME NEW m \in ArchiveName, NEW n \in ArchiveName, Before(m, n)
  PROVE  m[1] <= n[1]
<1>1. PICK i \in 1..4 : m[i] < n[i] /\ \A j \in 1..(i - 1) : m[j] = n[j]
  BY DEF Before
<1>2. CASE i = 1
  BY <1>1, <1>2 DEF ArchiveName
<1>3. CASE i # 1
  BY <1>1, <1>3 DEF ArchiveName
<1> QED
  BY <1>2, <1>3

\* An archive of an update that comes before another one is overtaken, once its second is not
\* before that of the other.
LEMMA BeforeOvertaken ==
  ASSUME NEW t \in Nat, \A f \in copies : Dated(f, t),
         NEW n \in ArchiveName, n[1] = 3,
         NEW g \in copies, Before(n, NameOf(g)), g.type = "update" => g.at <= n[3]
  PROVE  Overtaken(n)
<1>1. Dated(g, t) /\ NameOf(g) \in ArchiveName /\ (NameOf(g)[1] = 3 => g.type = "update")
  BY NameDated
<1>2. 3 <= NameOf(g)[1]
  BY <1>1, BeforeRank
<1>3. NameOf(g)[1] = 3
  BY <1>1, <1>2 DEF ArchiveName
<1> QED
  BY <1>1, <1>3 DEF Overtaken

\* With one archive kept at least, what is listed comes before another one.
LEMMA DoomedBefore ==
  ASSUME NEW F, NEW retain \in Nat \ {0}, NEW n \in Listed(F, retain)
  PROVE  \E f \in F : n = NameOf(f) /\ \E g \in F : Before(n, NameOf(g))
<1>1. PICK f \in Doomed(F, retain) : n = NameOf(f)
  BY DEF Listed
<1>2. f \in F /\ Cardinality({g \in F : Earlier(f, g)}) >= retain
  BY <1>1 DEF Doomed
<1>3. {g \in F : Earlier(f, g)} # {}
  BY <1>2, FS_EmptySet
<1> QED
  BY <1>1, <1>2, <1>3 DEF Earlier

\* Listing the archives, with those that were just written.
LEMMA ListingListed ==
  ASSUME RetentionType, LastUpdate, NEW F, NEW C, F \subseteq C, copies \subseteq C,
         \A f \in C : Dated(f, now), \A f \in C : f.type = "update" => f \in copies,
         NEW retain \in Nat \ {0}, NEW n \in Listed(F, retain)
  PROVE  /\ n \in ArchiveName
         /\ \E g \in C : Before(n, NameOf(g))
         /\ n \in rollback => Overtaken(n)
<1>1. PICK f \in F : n = NameOf(f) /\ \E g \in F : Before(n, NameOf(g))
  BY DoomedBefore
<1>2. PICK g \in F : Before(n, NameOf(g))
  BY <1>1
<1>3. n \in ArchiveName
  BY <1>1, NameDated DEF RetentionType
<1>4. ASSUME n \in rollback PROVE Overtaken(n)
  <2>1. n[1] = 3
    BY <1>4 DEF RetentionType
  <2>2. Dated(g, now) /\ NameOf(g) \in ArchiveName /\ (NameOf(g)[1] = 3 => g.type = "update")
    BY NameDated DEF RetentionType
  <2>3. 3 <= NameOf(g)[1]
    BY <1>2, <1>3, <2>1, <2>2, BeforeRank
  <2>4. g.type = "update"
    BY <2>2, <2>3 DEF ArchiveName
  <2>5. g \in copies
    BY <2>4
  <2>6. g.at <= n[3]
    BY <1>4, <2>4, <2>5 DEF LastUpdate
  <2> QED
    BY <1>2, <1>3, <2>1, <2>5, <2>6, BeforeOvertaken DEF RetentionType
<1> QED
  BY <1>1, <1>2, <1>3, <1>4

LEMMA ArchiveDated ==
  ASSUME RetentionType, NEW type \in Type, NEW subs, NEW e \in {0, 1}
  PROVE  /\ Dated(Archive(type, subs, e), now) /\ Archive(type, subs, e).type = type
         /\ Archive(type, subs, e).at = now
         /\ NameOf(Archive(type, subs, e)) = <<Rank(type), version, now, e>>
BY DEF RetentionType, Archive, Dated, NameOf

\* What writing an archive changes.
LEMMA WriteKeeps ==
  ASSUME Kept, NEW f, Dated(f, now), Write(f)
  PROVE  /\ files' \subseteq copies' /\ copies \subseteq copies'
         /\ \A g \in copies' : Dated(g, now) /\ (g \in copies \/ g = f)
         /\ {NameOf(g) : g \in files'} = {NameOf(g) : g \in files} \union {NameOf(f)}
BY DEF Write, Kept, RetentionType

\* An archive that is written and is not one of an update changes nothing of what is kept.
LEMMA KeptByWrite ==
  ASSUME Kept, NEW f, Dated(f, now), f.type # "update", Write(f),
         UNCHANGED <<version, now, rollback, deleted>>,
         schedule' = schedule,
         prune' \in [Pruner -> SUBSET ArchiveName],
         \A p \in Pruner : \A n \in prune'[p] :
           n \in prune[p] \/ \E s \in schedule : n \in Listed(files', s.retain)
  PROVE  Kept'
<1>1. /\ files' \subseteq copies' /\ copies \subseteq copies'
      /\ \A g \in copies' : Dated(g, now) /\ (g \in copies \/ g = f)
      /\ {NameOf(g) : g \in files'} = {NameOf(g) : g \in files} \union {NameOf(f)}
  BY WriteKeeps
<1>2. RetentionType'
  BY <1>1 DEF Kept, RetentionType
<1>3. \A n : Overtaken(n) => Overtaken(n)'
  BY <1>1 DEF Overtaken
<1>4. Listings'
  <2> SUFFICES ASSUME NEW p \in Pruner, NEW n \in prune'[p]
               PROVE  /\ \E g \in copies' : Before(n, NameOf(g))
                      /\ n \in rollback' => Overtaken(n)'
    BY DEF Listings
  <2>1. CASE n \in prune[p]
    BY <1>1, <1>3, <2>1 DEF Kept, Listings
  <2>2. CASE \E s \in schedule : n \in Listed(files', s.retain)
    <3>1. PICK s \in schedule : n \in Listed(files', s.retain)
      BY <2>2
    <3>2. s.retain \in Nat \ {0}
      BY DEF Kept, RetentionType
    <3>3. (\E g \in copies' : Before(n, NameOf(g))) /\ (n \in rollback => Overtaken(n))
      BY <1>1, <3>1, <3>2, ListingListed DEF Kept
    <3> QED
      BY <1>3, <3>3
  <2> QED
    BY <2>1, <2>2
<1>5. LastUpdate'
  BY <1>1 DEF Kept, LastUpdate
<1>6. RollbackKept'
  BY <1>1, <1>3 DEF Kept, RollbackKept
<1> QED
  BY <1>2, <1>4, <1>5, <1>6 DEF Kept

LEMMA KeptByCreate ==
  ASSUME Kept, CreateBackup
  PROVE  Kept'
<1>1. PICK subs \in Selections, e \in {0, 1} :
        Write(Archive("manual", subs, e)) /\ UNCHANGED <<schedule, prune, rollback, version, now, deleted>>
  BY DEF CreateBackup
<1>2. Dated(Archive("manual", subs, e), now) /\ Archive("manual", subs, e).type = "manual"
  BY ArchiveDated DEF Kept, Type
<1> QED
  BY <1>1, <1>2, KeptByWrite DEF Kept, RetentionType

LEMMA KeptBySchedule ==
  ASSUME Kept, ScheduledBackup
  PROVE  Kept'
<1>1. PICK s \in schedule :
        /\ Write(Archive("scheduled", All, s.encrypted))
        /\ prune' = [prune EXCEPT !["scheduler"] = Listed(files', s.retain)]
        /\ UNCHANGED <<schedule, rollback, version, now, deleted>>
  BY DEF ScheduledBackup
<1>2. s.encrypted \in {0, 1} /\ s.retain \in Nat \ {0}
  BY DEF Kept, RetentionType
<1>3. /\ Dated(Archive("scheduled", All, s.encrypted), now)
      /\ Archive("scheduled", All, s.encrypted).type = "scheduled"
  BY <1>2, ArchiveDated DEF Kept, Type
<1>4. files' \subseteq copies' /\ \A g \in copies' : Dated(g, now)
  BY <1>1, <1>3, WriteKeeps
<1>5. Listed(files', s.retain) \subseteq ArchiveName
  BY <1>2, <1>4, DoomedBefore, NameDated DEF Kept, RetentionType
<1>6. prune' \in [Pruner -> SUBSET ArchiveName]
  BY <1>1, <1>5 DEF Kept, RetentionType
<1>7. \A p \in Pruner : \A n \in prune'[p] : n \in prune[p] \/ n \in Listed(files', s.retain)
  BY <1>1 DEF Kept, RetentionType
<1> QED
  BY <1>1, <1>3, <1>6, <1>7, KeptByWrite

LEMMA KeptBySnapshot ==
  ASSUME Kept, SnapshotForUpdate
  PROVE  Kept'
<1> DEFINE f == Archive("update", All, 0)
<1> DEFINE r == <<3, version, now, 0>>
<1>1. /\ Write(f) /\ rollback' = {NameOf(f)} /\ deleted' = deleted \ rollback'
      /\ UNCHANGED <<schedule, prune, version, now>>
  BY DEF SnapshotForUpdate
<1>2. Dated(f, now) /\ f.type = "update" /\ f.at = now /\ NameOf(f) = r
  BY ArchiveDated DEF Kept, Type, Rank
<1>3. /\ files' \subseteq copies' /\ copies \subseteq copies'
      /\ \A g \in copies' : Dated(g, now) /\ (g \in copies \/ g = f)
      /\ {NameOf(g) : g \in files'} = {NameOf(g) : g \in files} \union {NameOf(f)}
  BY <1>1, <1>2, WriteKeeps
<1> HIDE DEF f
<1>4. rollback' = {r} /\ r \in ArchiveName /\ r[1] = 3 /\ r[3] = now
  BY <1>1, <1>2 DEF Kept, RetentionType, ArchiveName
<1>5. RetentionType'
  BY <1>1, <1>3, <1>4 DEF Kept, RetentionType
<1>6. LastUpdate'
  BY <1>3, <1>4, <1>1 DEF LastUpdate, Dated, Kept, RetentionType
<1>7. Listings'
  <2> SUFFICES ASSUME NEW p \in Pruner, NEW n \in prune[p]
               PROVE  /\ \E g \in copies' : Before(n, NameOf(g))
                      /\ n = r => Overtaken(n)'
    BY <1>1, <1>4 DEF Listings
  <2>1. PICK g \in copies : Before(n, NameOf(g))
    BY DEF Kept, Listings
  <2>2. g.at <= now
    BY DEF Kept, RetentionType, Dated
  <2>3. n = r => Overtaken(n)
    BY <1>4, <2>1, <2>2, BeforeOvertaken DEF Kept, RetentionType
  <2>4. Overtaken(n) => Overtaken(n)'
    BY <1>3 DEF Overtaken
  <2> QED
    BY <1>3, <2>1, <2>3, <2>4
<1>8. RollbackKept'
  BY <1>1, <1>3 DEF RollbackKept
<1> QED
  BY <1>5, <1>6, <1>7, <1>8 DEF Kept

LEMMA KeptByDelete ==
  ASSUME Kept, DeleteBackup
  PROVE  Kept'
<1>1. PICK f \in files :
        /\ files' = files \ {f} /\ deleted' = deleted \union {NameOf(f)}
        /\ UNCHANGED <<copies, schedule, prune, rollback, version, now>>
  BY DEF DeleteBackup
<1>2. RetentionType' /\ Listings' /\ LastUpdate'
  BY <1>1 DEF Kept, RetentionType, Listings, LastUpdate, Overtaken
<1>3. RollbackKept'
  BY <1>1 DEF Kept, RollbackKept, Overtaken
<1> QED
  BY <1>2, <1>3 DEF Kept

LEMMA KeptByPruning ==
  ASSUME Kept, NEW p \in Pruner, DeleteNext(p)
  PROVE  Kept'
<1>1. PICK n \in prune[p] :
        /\ files' = {f \in files : NameOf(f) # n}
        /\ prune' = [prune EXCEPT ![p] = IF files' = files THEN {} ELSE prune[p] \ {n}]
        /\ UNCHANGED <<copies, schedule, rollback, version, now, deleted>>
  BY DEF DeleteNext
<1>2. RetentionType'
  BY <1>1 DEF Kept, RetentionType
<1>3. \A q \in Pruner : prune'[q] \subseteq prune[q]
  BY <1>1 DEF Kept, RetentionType
<1>4. Listings' /\ LastUpdate'
  BY <1>1, <1>3 DEF Kept, Listings, LastUpdate, Overtaken
<1>5. n \in rollback => Overtaken(n)
  BY DEF Kept, Listings
<1>6. RollbackKept'
  BY <1>1, <1>5 DEF Kept, RollbackKept, Overtaken
<1> QED
  BY <1>2, <1>4, <1>6 DEF Kept

LEMMA KeptByScheduler ==
  ASSUME Kept, UpdateScheduler
  PROVE  Kept'
<1>1. PICK s \in Schedules :
        /\ schedule' = {s}
        /\ prune' = IF s.on THEN [prune EXCEPT !["request"] = Listed(files, s.retain)] ELSE prune
        /\ UNCHANGED <<files, copies, rollback, version, now, deleted>>
  BY DEF UpdateScheduler
<1>2. s.retain \in Nat \ {0} /\ s.encrypted \in {0, 1}
  BY BackupAssumption
<1>3. \A n \in Listed(files, s.retain) :
        n \in ArchiveName /\ (\E g \in copies : Before(n, NameOf(g))) /\ (n \in rollback => Overtaken(n))
  BY <1>2, ListingListed DEF Kept, RetentionType
<1>4. prune' \in [Pruner -> SUBSET ArchiveName]
  BY <1>1, <1>3 DEF Kept, RetentionType
<1>5. \A p \in Pruner : \A n \in prune'[p] : n \in prune[p] \/ n \in Listed(files, s.retain)
  BY <1>1 DEF Kept, RetentionType
<1>6. RetentionType'
  BY <1>1, <1>2, <1>4 DEF Kept, RetentionType
<1>7. Listings'
  BY <1>1, <1>3, <1>5 DEF Kept, Listings, Overtaken
<1>8. LastUpdate' /\ RollbackKept'
  BY <1>1 DEF Kept, LastUpdate, RollbackKept, Overtaken
<1> QED
  BY <1>6, <1>7, <1>8 DEF Kept

LEMMA KeptByRollback ==
  ASSUME Kept, RestoreForRollback
  PROVE  Kept'
<1>1. rollback' = {} /\ UNCHANGED <<files, copies, schedule, prune, version, now, deleted>>
  BY DEF RestoreForRollback
<1> QED
  BY <1>1 DEF Kept, RetentionType, Listings, LastUpdate, RollbackKept

LEMMA KeptByRestart ==
  ASSUME Kept, Restart
  PROVE  Kept'
<1>1. /\ prune' = [p \in Pruner |-> {}] /\ version' \in Nat
      /\ UNCHANGED <<files, copies, schedule, rollback, now, deleted>>
  BY BackupAssumption DEF Restart, Resting
<1>2. RetentionType'
  BY <1>1 DEF Kept, RetentionType
<1> QED
  BY <1>1, <1>2 DEF Kept, Listings, LastUpdate, RollbackKept, Overtaken

LEMMA KeptByClock ==
  ASSUME Kept, Clock
  PROVE  Kept'
<1>1. now' = now + 1 /\ UNCHANGED <<files, copies, schedule, prune, rollback, version, deleted>>
  BY DEF Clock
<1>2. \A f \in copies : Dated(f, now + 1)
  BY DEF Kept, RetentionType, Dated
<1>3. RetentionType'
  BY <1>1, <1>2 DEF Kept, RetentionType
<1> QED
  BY <1>1, <1>3 DEF Kept, Listings, LastUpdate, RollbackKept, Overtaken

\* What the retention deletes is never the archive that the last update recorded, unless an
\* earlier update made one of a version whose name comes after its own (prune_backups sorts
\* by name): with any schedules, requests, restarts and versions.
THEOREM RollbackAlwaysKept == Spec => []RollbackKept
<1>1. Init => Kept
  <2> SUFFICES ASSUME Init
               PROVE  Kept
    OBVIOUS
  <2>1. \A f \in copies : Dated(f, now) /\ f.type = "manual"
    BY DEF Init, Dated, Type
  <2>2. RetentionType
    BY <2>1, BackupAssumption DEF Init, RetentionType, Resting
  <2> QED
    BY <2>2 DEF Init, Kept, Listings, LastUpdate, RollbackKept, Resting
<1>2. Kept /\ [Next]_vars => Kept'
  <2> SUFFICES ASSUME Kept, [Next]_vars
               PROVE  Kept'
    OBVIOUS
  <2>1. CASE UNCHANGED <<files, copies, schedule, prune, rollback, version, now, deleted>>
    BY <2>1 DEF Kept, RetentionType, Listings, LastUpdate, RollbackKept, Overtaken
  <2>2. CASE UNCHANGED vars
    BY <2>1, <2>2 DEF vars
  <2>3. CASE (\E s \in DOMAIN Offers : SaveSection(s)) \/ RestoreUpload \/ RestoreSection \/ RestoreEnds
    BY <2>1, <2>3 DEF SaveSection, RestoreUpload, RestoreSection, RestoreEnds
  <2>4. CASE CreateBackup \/ ScheduledBackup \/ SnapshotForUpdate \/ DeleteBackup
    BY <2>4, KeptByCreate, KeptBySchedule, KeptBySnapshot, KeptByDelete
  <2>5. CASE UpdateScheduler \/ \E p \in Pruner : DeleteNext(p)
    BY <2>5, KeptByScheduler, KeptByPruning
  <2>6. CASE RestoreForRollback \/ Restart \/ Clock
    BY <2>6, KeptByRollback, KeptByRestart, KeptByClock
  <2> QED
    BY <2>2, <2>3, <2>4, <2>5, <2>6 DEF Next
<1>3. Kept => RollbackKept
  BY DEF Kept
<1> QED
  BY <1>1, <1>2, <1>3, PTL DEF Spec

-----------------------------------------------------------------------------
(* Restores.                                                               *)

Dhcps == {"dhcp", "dhcp6"}
\* What a save would not change of its own.
Settled(c) == DOMAIN c = Section /\ \A s \in Dhcps : NormalizeServers(c[s]) = c[s]

Contents(f) ==
  /\ DOMAIN f.body = UNION {Range(SectionsOf(sub)) : sub \in Range(f.subs)}
  /\ \A s \in Dhcps \cap DOMAIN f.body : NormalizeServers(f.body[s]) = f.body[s]

\* A restore under way: what it was asked for is there, or somebody else's, or still to come;
\* the rest is as it would be without it.
UnderWay ==
  /\ \A x \in restore.todo : SavedBy(restore.subs, x) \in restore.asked
  /\ \A s \in Dhcps \cap restore.asked : NormalizeServers(restore.body[s]) = restore.body[s]
  /\ \A s \in Section :
       \/ s \in restore.asked /\ config[s] = restore.body[s]
       \/ /\ config[s] = before[s]
          /\ s \in restore.asked =>
               s \in touched \/ \E x \in restore.todo : SavedBy(restore.subs, x) = s

Restoring ==
  /\ Settled(config) /\ DOMAIN before = Section
  /\ files \subseteq copies /\ \A f \in copies : Contents(f)
  /\ DOMAIN restore = {"answer", "asked", "todo", "subs", "body"}
  /\ restore.answer # "busy" => restore.todo = {}
  /\ restore.answer = "busy" => UnderWay

\* What was normalised is not changed by doing it again, once it has been checked.
LEMMA NormalizedOnce ==
  ASSUME NEW S, ValidServers(NormalizeServers(S))
  PROVE  NormalizeServers(NormalizeServers(S)) = NormalizeServers(S)
<1> DEFINE T == NormalizeServers(S)
<1> DEFINE N(d) == [d EXCEPT !.scopes = {Network(s) : s \in d.scopes}]
<1>1. \A R : NormalizeServers(R) = {N(d) : d \in R}
  BY DEF NormalizeServers
<1>2. ASSUME NEW d \in T PROVE N(d) = d
  <2>1. \A s \in d.scopes : Network(s) = s
    BY DEF ValidServers, ValidScope
  <2>2. {Network(s) : s \in d.scopes} = d.scopes
    BY <2>1
  <2>3. PICK e \in S : d = [e EXCEPT !.scopes = {Network(s) : s \in e.scopes}]
    BY <1>1
  <2>4. d = [x \in DOMAIN d |-> d[x]]
    BY <2>3
  <2> HIDE <2>3
  <2> QED
    BY <2>2, <2>4
<1>3. {N(d) : d \in T} = T
  BY <1>2
<1> QED
  BY <1>1, <1>3

\* A save changes its section, and no other.
LEMMA SavedAlone ==
  ASSUME Settled(config), NEW s, NEW v, Valid(Saved(s, v))
  PROVE  /\ Settled(Saved(s, v))
         /\ \A t \in Section : t # s => Saved(s, v)[t] = config[t]
         /\ s \in Section => Saved(s, v)[s] = IF s \in Dhcps THEN NormalizeServers(v) ELSE v
<1> DEFINE e == [config EXCEPT ![s] = v]
<1>1. DOMAIN e = Section /\ \A t \in Section : e[t] = IF t = s THEN v ELSE config[t]
  BY DEF Settled
<1>2. Dhcps \subseteq Section
  BY DEF Dhcps, Section
<1>3. Saved(s, v) = Normalized(e)
  BY DEF Saved
<1> HIDE DEF e
<1>4. /\ DOMAIN Normalized(e) = Section
      /\ \A t \in Section : Normalized(e)[t] = IF t \in Dhcps THEN NormalizeServers(e[t]) ELSE e[t]
  BY <1>1, <1>2 DEF Normalized, Dhcps
<1>5. \A t \in Dhcps : ValidServers(Normalized(e)[t])
  BY <1>3 DEF Valid, ValidDhcp, ValidDhcp6, Dhcps
<1>6. \A t \in Dhcps : NormalizeServers(Normalized(e)[t]) = Normalized(e)[t]
  BY <1>2, <1>4, <1>5, NormalizedOnce
<1>7. Settled(Saved(s, v))
  BY <1>3, <1>4, <1>6 DEF Settled
<1>8. \A t \in Section : t # s => Saved(s, v)[t] = config[t]
  BY <1>1, <1>3, <1>4 DEF Settled
<1>9. s \in Section => Saved(s, v)[s] = IF s \in Dhcps THEN NormalizeServers(v) ELSE v
  BY <1>1, <1>3, <1>4
<1> QED
  BY <1>7, <1>8, <1>9

LEMMA ArchiveContents ==
  ASSUME Settled(config), NEW type, NEW subs, NEW e
  PROVE  Contents(Archive(type, subs, e))
BY DEF Settled, Contents, Archive, Archived

\* Another request saves a section.
LEMMA RestoringBySave ==
  ASSUME Restoring, NEW s \in DOMAIN Offers, SaveSection(s)
  PROVE  Restoring'
<1>1. PICK v \in Offers[s] :
        /\ Valid(Saved(s, v)) /\ config' = Saved(s, v)
        /\ touched' = touched \union {s} /\ before' = [before EXCEPT ![s] = config'[s]]
        /\ UNCHANGED <<files, copies, restore>>
  BY DEF SaveSection
<1>2. s \in Section
  BY BackupAssumption
<1>3. Settled(config') /\ \A t \in Section : t # s => config'[t] = config[t]
  BY <1>1, SavedAlone DEF Restoring
<1>4. DOMAIN before' = Section /\ \A t \in Section : before'[t] = IF t = s THEN config'[s] ELSE before[t]
  BY <1>1, <1>2 DEF Restoring
<1>5. ASSUME UnderWay PROVE UnderWay'
  BY <1>1, <1>3, <1>4, <1>5 DEF UnderWay
<1> QED
  BY <1>1, <1>3, <1>4, <1>5 DEF Restoring

\* A restore begins with an archive.
LEMMA RestoringBegins ==
  ASSUME Restoring, NEW f \in copies, NEW filter, BeginRestore(f, filter),
         UNCHANGED <<config, files, copies>>
  PROVE  Restoring'
<1>1. /\ restore' = [answer |-> "busy", asked |-> Asked(f, filter),
                      todo |-> Saves(f, filter), subs |-> f.subs, body |-> f.body]
      /\ touched' = {} /\ before' = config
  BY DEF BeginRestore
<1>2. Contents(f)
  BY DEF Restoring
<1>3. ASSUME NEW x \in Saves(f, filter) PROVE SavedBy(f.subs, x) \in Asked(f, filter)
  <2>1. /\ x[1] \in DOMAIN f.subs /\ f.subs[x[1]] \in filter
        /\ x[2] \in DOMAIN SectionsOf(f.subs[x[1]])
    BY DEF Saves, Places
  <2>2. f.subs[x[1]] \in Range(f.subs) \cap filter
    BY <2>1 DEF Range
  <2>3. SavedBy(f.subs, x) \in Range(SectionsOf(f.subs[x[1]]))
    BY <2>1 DEF Range, SavedBy
  <2>4. IsList(SavedBy(f.subs, x)) \/ f.body[SavedBy(f.subs, x)] # {}
    BY DEF Saves
  <2> QED
    BY <2>2, <2>3, <2>4 DEF Asked
<1>4. ASSUME NEW s \in Asked(f, filter) PROVE \E x \in Saves(f, filter) : SavedBy(f.subs, x) = s
  <2>1. PICK sub \in Range(f.subs) \cap filter : s \in Range(SectionsOf(sub))
    BY DEF Asked
  <2>2. PICK i \in DOMAIN f.subs : f.subs[i] = sub
    BY DEF Range
  <2>3. PICK j \in DOMAIN SectionsOf(sub) : SectionsOf(sub)[j] = s
    BY <2>1 DEF Range
  <2>4. j \in 1..3
    BY <2>3 DEF SectionsOf
  <2>5. <<i, j>> \in Places(f, filter) /\ SavedBy(f.subs, <<i, j>>) = s
    BY <2>1, <2>2, <2>3, <2>4 DEF Places, SavedBy
  <2>6. IsList(s) \/ f.body[s] # {}
    BY DEF Asked
  <2> QED
    BY <2>5, <2>6 DEF Saves
<1>5. Asked(f, filter) \subseteq DOMAIN f.body
  BY <1>2 DEF Asked, Contents
<1>6. UnderWay'
  BY <1>1, <1>2, <1>3, <1>4, <1>5 DEF UnderWay, Contents
<1> QED
  BY <1>1, <1>6 DEF Restoring, Settled

\* A restore saves its next section, or fails.
LEMMA RestoringSection ==
  ASSUME Restoring, RestoreSection
  PROVE  Restoring'
<1>1. PICK x \in restore.todo :
        /\ LET s == SavedBy(restore.subs, x)
               c == Saved(s, restore.body[s])
           IN  IF Valid(c)
               THEN config' = c /\ restore' = [restore EXCEPT !.todo = restore.todo \ {x}]
               ELSE restore' = [restore EXCEPT !.answer = "error", !.todo = {}] /\ UNCHANGED config
        /\ UNCHANGED <<files, copies, touched, before>>
  BY DEF RestoreSection
<1> DEFINE s == SavedBy(restore.subs, x)
<1> DEFINE v == restore.body[s]
<1>2. restore.answer = "busy" /\ UnderWay
  BY DEF Restoring
<1>3. s \in restore.asked /\ (s \in Dhcps => NormalizeServers(v) = v)
  BY <1>2 DEF UnderWay
<1>4. CASE Valid(Saved(s, v))
  <2>1. config' = Saved(s, v) /\ restore' = [restore EXCEPT !.todo = restore.todo \ {x}]
    BY <1>1, <1>4
  <2> HIDE DEF s, v
  <2>2. Settled(config') /\ \A t \in Section : t # s => config'[t] = config[t]
    BY <1>4, <2>1, SavedAlone DEF Restoring
  <2>3. s \in Section => config'[s] = v
    BY <1>3, <1>4, <2>1, SavedAlone DEF Restoring
  <2>4. /\ DOMAIN restore' = DOMAIN restore /\ restore'.todo = restore.todo \ {x}
        /\ restore'.answer = restore.answer /\ restore'.asked = restore.asked
        /\ restore'.subs = restore.subs /\ restore'.body = restore.body
    BY <2>1 DEF Restoring
  <2>5. UnderWay'
    <3>1. /\ \A y \in restore'.todo : SavedBy(restore'.subs, y) \in restore'.asked
          /\ \A t \in Dhcps \cap restore'.asked : NormalizeServers(restore'.body[t]) = restore'.body[t]
      BY <1>2, <2>4 DEF UnderWay
    <3>2. ASSUME NEW t \in Section
          PROVE  \/ t \in restore'.asked /\ config'[t] = restore'.body[t]
                 \/ /\ config'[t] = before'[t]
                    /\ t \in restore'.asked =>
                         t \in touched' \/ \E y \in restore'.todo : SavedBy(restore'.subs, y) = t
      <4>1. CASE t = s
        BY <1>3, <2>3, <2>4, <4>1 DEF v
      <4>2. CASE t # s
        BY <1>1, <1>2, <2>2, <2>4, <4>2 DEF UnderWay, s
      <4> QED
        BY <4>1, <4>2
    <3> QED
      BY <3>1, <3>2 DEF UnderWay
  <2> QED
    BY <1>1, <2>2, <2>4, <2>5 DEF Restoring
<1>5. CASE ~Valid(Saved(s, v))
  <2>1. restore' = [restore EXCEPT !.answer = "error", !.todo = {}] /\ config' = config
    BY <1>1, <1>5
  <2> QED
    BY <1>1, <2>1 DEF Restoring, Settled
<1> QED
  BY <1>4, <1>5

LEMMA RestoringStart == Init => Restoring
<1> SUFFICES ASSUME Init
             PROVE  Restoring
  OBVIOUS
<1>1. ASSUME NEW c \in Starts PROVE Settled(c)
  <2>1. DOMAIN c = Section /\ c = [c EXCEPT !.dhcp = NormalizeServers(c.dhcp),
                                           !.dhcp6 = NormalizeServers(c.dhcp6)]
    BY BackupAssumption DEF Normalized
  <2>2. c.dhcp = NormalizeServers(c.dhcp) /\ c.dhcp6 = NormalizeServers(c.dhcp6)
    BY <2>1 DEF Section
  <2> QED
    BY <2>1, <2>2 DEF Settled, Dhcps
<1>2. \A f \in copies : Contents(f)
  <2> SUFFICES ASSUME NEW f \in copies
               PROVE  Contents(f)
    OBVIOUS
  <2>1. PICK c \in Starts : f.subs = All /\ f.body = Archived(c, All)
    BY DEF Init
  <2>2. Settled(c)
    BY <1>1
  <2> QED
    BY <2>1, <2>2 DEF Contents, Archived, Settled
<1> QED
  BY <1>1, <1>2 DEF Init, Restoring, Settled, Idle

LEMMA RestoringStep ==
  ASSUME Restoring, [Next]_vars
  PROVE  Restoring'
<1>1. CASE UNCHANGED <<config, files, copies, restore, touched, before>>
  BY <1>1 DEF Restoring, UnderWay, Settled
<1>2. CASE UNCHANGED vars
  BY <1>1, <1>2 DEF vars
<1>3. CASE \E s \in DOMAIN Offers : SaveSection(s)
  BY <1>3, RestoringBySave
<1>4. CASE UpdateScheduler \/ Clock
  BY <1>1, <1>4 DEF UpdateScheduler, Clock
<1>5. CASE CreateBackup \/ SnapshotForUpdate \/ ScheduledBackup
  <2>1. PICK type, subs, e : Write(Archive(type, subs, e))
    BY <1>5 DEF CreateBackup, SnapshotForUpdate, ScheduledBackup
  <2>2. UNCHANGED <<config, restore, touched, before>>
    BY <1>5 DEF CreateBackup, SnapshotForUpdate, ScheduledBackup
  <2>3. files' \subseteq copies' /\ \A f \in copies' : Contents(f)
    BY <2>1, ArchiveContents DEF Write, Restoring
  <2> QED
    BY <2>2, <2>3 DEF Restoring, UnderWay, Settled
<1>6. CASE DeleteBackup \/ \E p \in Pruner : DeleteNext(p)
  <2>1. files' \subseteq files /\ UNCHANGED <<config, copies, restore, touched, before>>
    BY <1>6 DEF DeleteBackup, DeleteNext
  <2> QED
    BY <2>1 DEF Restoring, UnderWay, Settled
<1>7. CASE RestoreUpload \/ RestoreForRollback
  <2>1. PICK f \in copies : \E filter : BeginRestore(f, filter) /\ UNCHANGED <<config, files, copies>>
    BY <1>7 DEF RestoreUpload, RestoreForRollback, Restoring
  <2> QED
    BY <2>1, RestoringBegins
<1>8. CASE RestoreSection
  BY <1>8, RestoringSection
<1>9. CASE RestoreEnds
  BY <1>9 DEF RestoreEnds, Restoring, Settled
<1>10. CASE Restart
  <2>1. restore'.answer # "busy" /\ restore'.todo = {} /\ DOMAIN restore' = DOMAIN Idle
    BY <1>10 DEF Restart, Idle
  <2>2. UNCHANGED <<config, files, copies, before>>
    BY <1>10 DEF Restart
  <2> QED
    BY <2>1, <2>2 DEF Restoring, Settled, Idle
<1> QED
  BY <1>2, <1>3, <1>4, <1>5, <1>6, <1>7, <1>8, <1>9, <1>10 DEF Next

\* A restore that is answered without an error has brought back each section it was asked
\* for, but one that another request saved meanwhile, and has changed no other: for any
\* archive, any selection of subsystems in any order, and any requests in between
\* (restore_backup).
THEOREM RestoresAlwaysExact == Spec => RestoreExact
<1>1. ASSUME Restoring, [Next]_vars, restore.answer = "busy", restore'.answer = "ok", NEW s \in Section
      PROVE  \/ config'[s] = before[s] /\ s \in touched \union (Section \ restore.asked)
             \/ config'[s] = restore.body[s] /\ s \in restore.asked
  <2>1. CASE RestoreEnds
    BY <1>1, <2>1 DEF RestoreEnds, Restoring, UnderWay
  <2>2. CASE ~RestoreEnds
    <3>1. CASE restore' = restore
      BY <1>1, <3>1
    <3>2. CASE RestoreUpload \/ RestoreForRollback
      BY <1>1, <3>2 DEF RestoreUpload, RestoreForRollback, BeginRestore
    <3>3. CASE RestoreSection
      BY <1>1, <3>3 DEF RestoreSection, Restoring
    <3>4. CASE Restart
      BY <1>1, <3>4 DEF Restart, Idle
    <3> QED
      BY <1>1, <2>2, <3>1, <3>2, <3>3, <3>4 DEF Next, vars, SaveSection, CreateBackup,
         SnapshotForUpdate, DeleteBackup, ScheduledBackup, UpdateScheduler, DeleteNext, Clock
  <2> QED
    BY <2>1, <2>2
<1>2. Restoring /\ [Next]_vars =>
        (restore.answer = "busy" /\ restore'.answer = "ok" =>
           \A s \in Section :
             \/ config'[s] = before[s] /\ s \in touched \union (Section \ restore.asked)
             \/ config'[s] = restore.body[s] /\ s \in restore.asked)
  BY <1>1
<1> QED
  BY <1>2, RestoringStart, RestoringStep, PTL DEF Spec, RestoreExact
=============================================================================
