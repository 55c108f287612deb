--------------------------- MODULE ServicesProofs ---------------------------
(* Theorems about Services, for any number of requests, entries, failures and restarts. *)
EXTENDS Services, FiniteSetTheorems, SequenceTheorems, WellFoundedInduction, TLAPS

-----------------------------------------------------------------------------
(* Types.  Only its own part of the configuration is ever filled: outside of part "net" *)
(* there are no interfaces, and a server that belongs to another part has no file.      *)

Bare(k) == k["interfaces"] = {} /\ k["nat"] = {} /\ k["gateways"] = {}
Configs(P) == {k \in Config : /\ P # "net" => Bare(k)
                              /\ P # "dhcp4" => k["dhcp4"] = {}
                              /\ P # "dhcp6" => k["dhcp6"] = {}}
Lists(P) == {v \in Value : P # "net" => v = {}}
Contents(P) == {f \in [Unit -> Content] : /\ P # "dhcp4" => f["kea4"] = {}
                                          /\ P # "dhcp6" => f["kea6"] = {}
                                          /\ P # "dns" => f["unbound"] = {}}

\* Only requests about an interface are to bring the interfaces up to date.
Units(P) == {u \in Unit : u = "links" => P = "net"}

\* A step on a unit is about entries.
Steps == {s \in StepType : s.on # "store" => s.of \subseteq Item}
Plans == Seq(Steps)
Requests(P) ==
  [ans : {None, "busy", "ok", "error"}, todo : Plans, undo : Plans, view : Configs(P),
   prev : Configs(P), was : Lists(P), units : SUBSET Units(P),
   item : Item \union {None, Revision}, notes : SUBSET Note]

\* Two requests that are served at the same time have met.
Served(P, f) ==
  /\ f \in [Proc -> Requests(P)]
  /\ \A p \in Proc :
       /\ (f[p].todo # <<>>) <=> (f[p].ans = "busy")
       /\ "failed" \in f[p].notes /\ f[p].ans # "busy" => f[p].ans = "error"
  /\ \A p, q \in Proc :
       f[p].ans = "busy" /\ f[q].ans = "busy" /\ p # q => "met" \in f[p].notes

Budget == [requests : 0..MaxRequests, faults : 0..MaxFaults, restarts : 0..MaxRestarts]

World ==
  /\ stored \in Configs(part) /\ cache \in Lists(part)
  /\ file \in Contents(part) /\ cand \in [Kea -> Content] /\ run \in Contents(part)
  /\ made \in Budget

Base ==
  /\ part \in Parts /\ World /\ Served(part, req)
  /\ past \subseteq {"met", "cut", "restored"}
  /\ \A p \in Proc : "met" \in req[p].notes => "met" \in past

-----------------------------------------------------------------------------
\* Values, configurations and contents.

LEMMA UnitsHere ==
  /\ \A P : Units(P) \subseteq Unit /\ \A u \in Unit : u # "links" => u \in Units(P)
  /\ Units("net") = Unit
BY DEF Units

LEMMA Values ==
  ASSUME NEW v \in Value, NEW f \in Field, NEW m \in Mark, NEW b \in BOOLEAN
  PROVE  /\ Put(v, f, m) \in Value /\ Without(v, f) \in Value /\ Flagged(v, f, b) \in Value
         /\ {} \in Value /\ {<<f, m>>} \in Value
BY DEF Put, Without, Flagged, Value, Mark

LEMMA Fields == Item \subseteq Field /\ Port \subseteq Field /\ Flag \subseteq Field
BY DEF Field

LEMMA BlankConfig ==
  ASSUME NEW P PROVE Blank \in Configs(P) /\ {} \in Lists(P)
BY DEF Blank, Configs, Config, Value, Bare, Section, Lists

LEMMA ConfigSection ==
  ASSUME NEW P, NEW k \in Configs(P), NEW s \in Section
  PROVE  k[s] \in Value
BY DEF Configs, Config

LEMMA ConfigPut ==
  ASSUME NEW P, NEW k \in Configs(P), NEW s \in Section, NEW v \in Value,
         s \in {"interfaces", "nat", "gateways"} => P = "net",
         s \in {"dhcp4", "dhcp6"} => P = s
  PROVE  [k EXCEPT ![s] = v] \in Configs(P)
BY DEF Configs, Config, Bare, Section

LEMMA ConfigMix ==
  ASSUME NEW P, NEW k \in Configs(P), NEW l \in Configs(P), NEW S
  PROVE  [s \in Section |-> IF s \in S THEN k[s] ELSE l[s]] \in Configs(P)
<1> DEFINE x == [s \in Section |-> IF s \in S THEN k[s] ELSE l[s]]
<1>1. x \in Config /\ \A s \in Section : k[s] = {} /\ l[s] = {} => x[s] = {}
  BY DEF Configs, Config
<1>2. {"interfaces", "nat", "gateways", "dhcp4", "dhcp6"} \subseteq Section
  BY DEF Section
<1> HIDE DEF x
<1>3. P # "net" => Bare(x)
  BY <1>1, <1>2 DEF Configs, Bare
<1>4. P # "dhcp4" => x["dhcp4"] = {}
  BY <1>1, <1>2 DEF Configs
<1>5. P # "dhcp6" => x["dhcp6"] = {}
  BY <1>1, <1>2 DEF Configs
<1>6. x \in Configs(P)
  BY <1>1, <1>3, <1>4, <1>5 DEF Configs
<1> QED BY <1>6 DEF x

LEMMA ContentPut ==
  ASSUME NEW P, NEW f \in Contents(P), NEW u \in Unit, NEW c \in Content,
         \/ c = {}
         \/ /\ u = "kea4" => P = "dhcp4"
            /\ u = "kea6" => P = "dhcp6"
            /\ u = "unbound" => P = "dns"
  PROVE  [f EXCEPT ![u] = c] \in Contents(P)
BY DEF Contents, Unit, Kea

LEMMA ContentPlain ==
  ASSUME NEW P, NEW f \in Contents(P), NEW u \in Unit, NEW c \in Content,
         u \notin {"kea4", "kea6", "unbound"}
  PROVE  [f EXCEPT ![u] = c] \in Contents(P)
BY ContentPut

LEMMA ContentOf ==
  ASSUME NEW P, NEW f \in Contents(P), NEW u \in Unit
  PROVE  f[u] \in Content /\ {} \in Content
BY DEF Contents, Content

LEMMA EntriesContent ==
  ASSUME NEW s \in Section, NEW v \in Value
  PROVE  Entries(s, v) \in Content
BY DEF Entries, Content, Value

LEMMA IfContent ==
  ASSUME NEW c \in Content, NEW b
  PROVE  If(b, c) \in Content
BY DEF If, Content

LEMMA DnsValue == ASSUME NEW v \in Value PROVE Dns(v) \in Value
BY DEF Dns, Value, Field, Flag, Mark

-----------------------------------------------------------------------------
\* Steps and plans.

LEMMA StepTyped ==
  ASSUME NEW do \in Verb, NEW on \in Unit \union {"store"}, NEW of \in SUBSET (Section \union Item),
         on # "store" => of \subseteq Item
  PROVE  Step(do, on, of) \in Steps
BY DEF Step, Steps, StepType

LEMMA Verbs ==
  /\ {"stop", "retire", "refresh", "clean", "down", "teardown", "signal", "read", "readset",
      "upsert", "drop", "clone", "recache", "save", "restore", "savenat", "saveauto", "install",
      "check", "start", "set", "publish", "propose", "test", "remove", "shape", "up", "link",
      "sync", "reload", "enable", "consult"} \subseteq Verb
  /\ {"kea4", "kea6", "unbound", "sshd", "ipv6", "nft", "timesyncd", "chrony", "qos",
      "wireguard", "links", "route", "suricata", "caddy", "tunnel"} \subseteq Unit
BY DEF Verb, Tolerated, Harmless, Unit, Kea

LEMMA PlainTyped ==
  ASSUME NEW do \in Verb, NEW on \in Unit \union {"store"}
  PROVE  Plain(do, on) \in Steps
BY StepTyped DEF Plain

LEMMA StoreTyped ==
  /\ \A s \in Section : Save(s) \in Steps
  /\ \A S \in SUBSET Section : Read(S) \in Steps
BY StepTyped, Verbs DEF Save, Read

LEMMA TailTyped ==
  ASSUME NEW q \in Plans, q # <<>>
  PROVE  Head(q) \in Steps /\ Tail(q) \in Plans
BY HeadTailProperties DEF Plans

\* A bounded set of naturals that is not empty has a least and a greatest element.
LEMMA LeastGreatest ==
  ASSUME NEW m \in Nat, NEW I \in SUBSET (1..m), I # {}
  PROVE  /\ Min(I) \in I /\ \A n \in I : Min(I) <= n
         /\ Max(I) \in I /\ \A n \in I : n <= Max(I)
<1> DEFINE T == {m - n : n \in I}
           R == OpToRel(<, Nat)
<1>1. I \subseteq Nat /\ T \subseteq Nat /\ T # {}
  <2>1. \A n \in I : n \in Nat /\ m - n \in Nat
    OBVIOUS
  <2>2. PICK n \in I : TRUE
    OBVIOUS
  <2> QED BY <2>1, <2>2
<1>2. \A x, y \in Nat : y < x => <<y, x>> \in R
  BY DEF OpToRel
<1>3. IsWellFoundedOn(R, Nat)
  BY NatLessThanWellFounded
<1> HIDE DEF R
<1>4. PICK a \in I : \A y \in I : ~(<<y, a>> \in R)
  BY <1>1, <1>3, WFMin
<1>5. PICK x \in T : \A y \in T : ~(<<y, x>> \in R)
  <2> HIDE DEF T
  <2> QED BY <1>1, <1>3, WFMin
<1>6. PICK b \in I : x = m - b
  BY <1>5
<1> HIDE DEF T
<1>7. ASSUME NEW n \in I PROVE a <= n
  <2>1. ~(n < a)
    BY <1>1, <1>2, <1>4
  <2> QED BY <2>1, <1>1
<1>8. ASSUME NEW n \in I PROVE b >= n
  <2>1. m - n \in T
    BY DEF T
  <2>2. ~(m - n < x)
    BY <2>1, <1>1, <1>2, <1>5
  <2> QED BY <2>2, <1>1, <1>6
<1> QED
  BY <1>7, <1>8, <1>1 DEF Min, Max

\* What is left of a plan when an engine is passed over.
LEMMA ElsewhereSteps ==
  ASSUME NEW q \in Plans, NEW u
  PROVE  /\ Elsewhere(q, u) \in Plans
         /\ \A n \in 1..Len(Elsewhere(q, u)) : \E m \in 1..Len(q) :
              Elsewhere(q, u)[n] = q[m] /\ q[m].on \notin Together(u)
<1> DEFINE own == {n \in 1..Len(q) : q[n].on \in Together(u)}
           a == Min(own) - 1
           b == Max(own) + 1
<1>0. Len(q) \in Nat /\ \A n \in 1..Len(q) : q[n] \in Steps
  BY ElementOfSeq, LenProperties DEF Plans
<1>1. CASE own = {}
  <2>1. Elsewhere(q, u) = q
    BY <1>1 DEF Elsewhere
  <2> QED BY <2>1, <1>1
<1>2. CASE own # {}
  <2>1. /\ Min(own) \in 1..Len(q) /\ \A n \in own : Min(own) <= n
        /\ Max(own) \in 1..Len(q) /\ \A n \in own : n <= Max(own)
    <3>1. own \in SUBSET (1..Len(q))
      OBVIOUS
    <3> HIDE DEF own
    <3> QED BY <3>1, <1>0, <1>2, LeastGreatest
  <2>2. Elsewhere(q, u) = SubSeq(q, 1, a) \o SubSeq(q, b, Len(q))
    BY <1>2 DEF Elsewhere
  <2>3. a \in Int /\ b \in Int /\ a \in 0..Len(q) /\ b \in 1..(Len(q) + 1)
    BY <2>1, <1>0
  <2>4. \A n \in 1..Len(q) : n <= a \/ n >= b => q[n].on \notin Together(u)
    BY <2>1, <1>0
  <2> HIDE DEF own, a, b
  <2>5. /\ SubSeq(q, 1, a) \in Plans /\ Len(SubSeq(q, 1, a)) = a
        /\ \A n \in 1..a : SubSeq(q, 1, a)[n] = q[n]
    BY <2>3, <1>0, SubSeqProperties DEF Plans
  <2>6. /\ SubSeq(q, b, Len(q)) \in Plans /\ Len(SubSeq(q, b, Len(q))) = Len(q) - b + 1
        /\ \A n \in 1..(Len(q) - b + 1) : SubSeq(q, b, Len(q))[n] = q[b + n - 1]
    BY <2>3, <1>0, SubSeqProperties DEF Plans
  <2> DEFINE l == SubSeq(q, 1, a)
             r == SubSeq(q, b, Len(q))
  <2>7. /\ l \o r \in Plans /\ Len(l \o r) = a + (Len(q) - b + 1)
        /\ \A n \in 1..Len(l \o r) : (l \o r)[n] = IF n <= a THEN l[n] ELSE r[n - a]
    <3> HIDE DEF l, r
    <3>1. l \in Seq(Steps) /\ r \in Seq(Steps) /\ Len(l) = a /\ Len(r) = Len(q) - b + 1
      BY <2>5, <2>6 DEF l, r, Plans
    <3>2. l \o r \in Seq(Steps) /\ Len(l \o r) = Len(l) + Len(r)
      BY <3>1, ConcatProperties
    <3>3. \A n \in 1..(Len(l) + Len(r)) :
            (l \o r)[n] = IF n <= Len(l) THEN l[n] ELSE r[n - Len(l)]
      BY <3>1, ConcatProperties
    <3> QED BY <3>1, <3>2, <3>3 DEF Plans
  <2>8. ASSUME NEW n \in 1..Len(l \o r)
        PROVE  \E m \in 1..Len(q) : (l \o r)[n] = q[m] /\ q[m].on \notin Together(u)
    <3>0. n \in 1..(a + (Len(q) - b + 1))
      BY <2>7
    <3>1. CASE n <= a
      BY <3>1, <2>3, <2>4, <2>5, <2>7, <1>0
    <3>2. CASE n > a
      <4>1. n - a \in 1..(Len(q) - b + 1) /\ b + (n - a) - 1 \in 1..Len(q) /\ b + (n - a) - 1 >= b
        BY <3>0, <3>2, <2>3, <2>7, <1>0
      <4>2. (l \o r)[n] = r[n - a]
        <5> HIDE DEF l, r
        <5>1. n \in 1..Len(l \o r) /\ ~(n <= a)
          BY <3>0, <3>2, <2>3, <1>0
        <5> QED BY <5>1, <2>7
      <4> QED BY <4>1, <4>2, <2>4, <2>6, <1>0
    <3> QED BY <3>0, <3>1, <3>2, <2>3, <1>0
  <2> QED
    BY <2>2, <2>7, <2>8
<1> QED BY <1>1, <1>2

-----------------------------------------------------------------------------
\* Requests that go on.

Alike(x, r) == "met" \in x.notes <=> "met" \in r.notes
Same(x, r) == /\ x.view = r.view /\ x.prev = r.prev /\ x.was = r.was
              /\ x.units = r.units /\ x.item = r.item

LEMMA Going ==
  ASSUME NEW P, NEW r \in Requests(P), r.todo # <<>>
  PROVE  /\ Past(r) \in Requests(P) /\ Past(r).todo = Tail(r.todo) /\ Past(r).ans = r.ans
         /\ Past(r).notes = r.notes /\ Past(r).undo = r.undo /\ Same(Past(r), r)
BY TailTyped DEF Past, Requests, Same

LEMMA Passing ==
  ASSUME NEW P, NEW r \in Requests(P), NEW u
  PROVE  /\ Skip(r, u) \in Requests(P) /\ Skip(r, u).todo = Elsewhere(r.todo, u)
         /\ Skip(r, u).ans = r.ans /\ Skip(r, u).notes = r.notes /\ Skip(r, u).undo = r.undo
         /\ Same(Skip(r, u), r)
<1>1. Elsewhere(r.todo, u) \in Plans
  BY ElsewhereSteps DEF Requests
<1> QED BY <1>1 DEF Skip, Requests, Same

LEMMA Noting ==
  ASSUME NEW P, NEW r \in Requests(P), NEW n \in Note
  PROVE  /\ Noted(r, n) \in Requests(P) /\ Noted(r, n).todo = r.todo
         /\ Noted(r, n).ans = r.ans /\ Noted(r, n).notes = r.notes \union {n}
         /\ Noted(r, n).undo = r.undo /\ Same(Noted(r, n), r)
BY DEF Noted, Requests, Same

LEMMA IdleTyped ==
  ASSUME NEW P, NEW a \in {None, "ok", "error"}, NEW N \in SUBSET Note
  PROVE  [Idle EXCEPT !.ans = a, !.notes = N] \in Requests(P) /\ Idle \in Requests(P)
<1>1. <<>> \in Plans
  BY DEF Plans
<1>2. Idle \in Requests(P)
  BY <1>1, BlankConfig DEF Idle, Requests
<1> QED BY <1>2 DEF Requests

LEMMA Becoming ==
  ASSUME NEW P, Served(P, req), NEW p \in Proc, Busy(p), NEW r \in Requests(P), r.ans = "busy",
         Alike(r, req[p]), Become(p, r)
  PROVE  /\ Served(P, req') /\ UNCHANGED <<part, past>> /\ Alike(req'[p], req[p])
         /\ \A q \in Proc \ {p} : req'[q] = req[q]
         /\ r.todo # <<>> => req'[p] = r
         /\ r.todo = <<>> => /\ req'[p].ans = IF "failed" \in r.notes THEN "error" ELSE "ok"
                             /\ req'[p].notes = r.notes /\ req'[p].item = None
<1> DEFINE i == [Idle EXCEPT !.ans = IF "failed" \in r.notes THEN "error" ELSE "ok",
                             !.notes = r.notes]
           x == IF r.todo # <<>> THEN r ELSE i
<1>1. req' = [req EXCEPT ![p] = x] /\ UNCHANGED <<part, past>>
  BY DEF Become
<1>2. r.notes \in SUBSET Note
  BY DEF Requests
<1>3. /\ i \in Requests(P) /\ i.todo = <<>> /\ i.notes = r.notes /\ i.item = None
      /\ i.ans = IF "failed" \in r.notes THEN "error" ELSE "ok"
  BY <1>2, IdleTyped DEF Idle
<1>4. x \in Requests(P) /\ (r.todo # <<>> => x = r) /\ (r.todo = <<>> => x = i)
  BY <1>3
<1> HIDE DEF i
<1>5. /\ (x.todo # <<>>) <=> (x.ans = "busy")
      /\ "failed" \in x.notes /\ x.ans # "busy" => x.ans = "error"
  BY <1>3, <1>4
<1>6. x.notes = r.notes
  BY <1>3, <1>4
<1> HIDE DEF x
<1>7. req'[p] = x /\ \A q \in Proc \ {p} : req'[q] = req[q]
  BY <1>1 DEF Served
<1>8. Alike(req'[p], req[p]) /\ Alike(x, req[p])
  BY <1>6, <1>7 DEF Alike
<1>9. ASSUME NEW q \in Proc, NEW v \in Proc, req'[q].ans = "busy", req'[v].ans = "busy", q # v
      PROVE  "met" \in req'[q].notes
  BY <1>7, <1>8, <1>9 DEF Served, Busy, Alike
<1>10. req' \in [Proc -> Requests(P)]
  BY <1>1, <1>4 DEF Served
<1>11. \A q \in Proc :
        /\ (req'[q].todo # <<>>) <=> (req'[q].ans = "busy")
        /\ "failed" \in req'[q].notes /\ req'[q].ans # "busy" => req'[q].ans = "error"
  BY <1>5, <1>7 DEF Served
<1>12. Served(P, req')
  BY <1>9, <1>10, <1>11 DEF Served
<1> QED
  BY <1>1, <1>3, <1>4, <1>7, <1>8, <1>12 DEF i

\* p goes on as x, with its configurations and what it is about as before.
LEMMA Failing ==
  ASSUME NEW P, Served(P, req), NEW p \in Proc, Busy(p), Failed(p),
         NEW n, n = IF "failed" \in req[p].notes THEN "again" ELSE "failed"
  PROVE  \E x \in Requests(P) :
           /\ Become(p, x) /\ x.ans = "busy" /\ Same(x, req[p])
           /\ x.notes = req[p].notes \union {n}
           /\ p # Daemon => /\ x.undo = <<>>
                            /\ x.todo = IF Head(req[p].todo).do \in {"save", "drop", "consult"} THEN <<>>
                                        ELSE req[p].undo
           /\ p = Daemon => /\ x.undo = req[p].undo
                            /\ x.todo = Elsewhere(req[p].todo, Head(req[p].todo).on)
<1> DEFINE r == Noted(req[p], n)
<1>1. req[p] \in Requests(P) /\ req[p].ans = "busy" /\ n \in Note
  BY DEF Served, Busy, Note
<1>2. /\ r \in Requests(P) /\ r.todo = req[p].todo /\ r.ans = "busy"
      /\ r.notes = req[p].notes \union {n} /\ r.undo = req[p].undo /\ Same(r, req[p])
  BY <1>1, Noting
<1>3. CASE p = Daemon
  <2>1. Become(p, Skip(r, Head(r.todo).on))
    BY <1>3 DEF Failed
  <2> HIDE DEF r
  <2> QED
    BY <2>1, <1>2, <1>3, Passing DEF Same
<1>4. CASE p # Daemon
  <2> DEFINE t == IF Head(r.todo).do \in {"save", "drop", "consult"} THEN <<>> ELSE r.undo
             x == [r EXCEPT !.todo = t, !.undo = <<>>]
  <2>1. Become(p, x)
    BY <1>4 DEF Failed
  <2>2. t \in Plans /\ <<>> \in Plans
    BY <1>2 DEF Requests, Plans
  <2>3. t = IF Head(req[p].todo).do \in {"save", "drop", "consult"} THEN <<>> ELSE req[p].undo
    BY <1>2
  <2> HIDE DEF r, t
  <2>4. /\ x \in Requests(P) /\ x.todo = t /\ x.undo = <<>> /\ x.ans = r.ans
        /\ x.notes = r.notes /\ Same(x, r)
    BY <1>2, <2>2 DEF Requests, Same
  <2> HIDE DEF x
  <2> QED BY <2>1, <2>3, <2>4, <1>2, <1>4 DEF Same
<1> QED BY <1>3, <1>4

Others(p) == {q \in Client : Busy(q)} \ {p}

LEMMA Beginning ==
  ASSUME Base, NEW p \in Proc, NEW r \in Requests(part), r.ans = "busy", r.todo # <<>>,
         Begin(p, r)
  PROVE  /\ Base'
         /\ UNCHANGED <<part, system>> /\ p \in Client /\ ~Busy(p) /\ ~Busy(Daemon)
         /\ made' = [made EXCEPT !.requests = @ + 1]
         /\ past' = past \union If(Others(p) # {}, {"met"}) \union If(r.item = Revision, {"restored"})
         /\ req'[p] = [r EXCEPT !.notes = If(Others(p) # {}, {"met"})]
         /\ \A q \in Others(p) : req'[q] = [req[q] EXCEPT !.notes = @ \union {"met"}]
         /\ \A q \in Proc \ (Others(p) \union {p}) : req'[q] = req[q]
<1> DEFINE busy == {q \in Client : Busy(q)}
<1>0. p \in Client \ busy /\ ~Busy(p) /\ ~Busy(Daemon) /\ busy = Others(p)
  BY DEF Begin, Others
<1>1. /\ made.requests < MaxRequests
      /\ made' = [made EXCEPT !.requests = @ + 1]
      /\ past' = past \union If(busy # {}, {"met"}) \union If(r.item = Revision, {"restored"})
      /\ req' = [q \in Proc |->
           CASE q = p -> [r EXCEPT !.notes = If(busy # {}, {"met"})]
             [] q \in busy -> [req[q] EXCEPT !.notes = @ \union {"met"}]
             [] OTHER -> req[q]]
      /\ UNCHANGED <<part, system>>
  BY DEF Begin
<1> HIDE DEF busy
<1>2. /\ req'[p] = [r EXCEPT !.notes = If(busy # {}, {"met"})]
      /\ \A q \in busy : req'[q] = [req[q] EXCEPT !.notes = @ \union {"met"}]
      /\ \A q \in Proc \ (busy \union {p}) : req'[q] = req[q]
  BY <1>0, <1>1 DEF Proc, Others
<1>5. \A q \in busy : "met" \in req'[q].notes
  <2> SUFFICES ASSUME NEW q \in busy PROVE "met" \in req'[q].notes
    OBVIOUS
  <2> DEFINE x == req[q]
  <2>1. x \in Requests(part)
    BY <1>0 DEF Base, Served, Others, Proc
  <2>2. req'[q] = [x EXCEPT !.notes = @ \union {"met"}]
    BY <1>2
  <2> HIDE DEF x
  <2> QED BY <2>1, <2>2 DEF Requests
<1>3. Served(part, req')
  <2>1. If(busy # {}, {"met"}) \in SUBSET Note
    BY DEF If, Note
  <2>2. /\ req'[p] \in Requests(part) /\ req'[p].todo = r.todo /\ req'[p].ans = "busy"
    BY <1>2, <2>1 DEF Requests
  <2>3. ASSUME NEW q \in busy
        PROVE  req'[q] \in Requests(part) /\ req'[q].todo = req[q].todo /\ req'[q].ans = "busy"
    <3> DEFINE x == req[q]
    <3>1. x \in Requests(part) /\ x.ans = "busy"
      BY <1>0 DEF Base, Served, Others, Busy, Proc
    <3>2. req'[q] = [x EXCEPT !.notes = @ \union {"met"}]
      BY <1>2
    <3> HIDE DEF x
    <3>3. x.notes \union {"met"} \in SUBSET Note
      BY <3>1 DEF Requests, Note
    <3>4. req'[q] \in Requests(part) /\ req'[q].todo = x.todo /\ req'[q].ans = "busy"
      BY <3>1, <3>2, <3>3 DEF Requests
    <3> QED BY <3>4 DEF x
  <2>4. \A q \in busy : req[q].ans = "busy"
    BY <1>0 DEF Others, Busy
  <2>5. ASSUME NEW q \in Proc
        PROVE  /\ req'[q] \in Requests(part)
               /\ (req'[q].todo # <<>>) <=> (req'[q].ans = "busy")
               /\ "failed" \in req'[q].notes /\ req'[q].ans # "busy" => req'[q].ans = "error"
    <3>1. CASE q = p
      BY <3>1, <2>2
    <3>2. CASE q \in busy
      BY <3>2, <2>3, <2>4 DEF Base, Served
    <3>3. CASE q \in Proc \ (busy \union {p})
      BY <3>3, <1>2 DEF Base, Served
    <3> QED BY <3>1, <3>2, <3>3
  <2>6. ASSUME NEW q \in Proc, NEW v \in Proc, req'[q].ans = "busy", req'[v].ans = "busy", q # v
        PROVE  "met" \in req'[q].notes
    <3>1. \A w \in Proc : req'[w].ans = "busy" => w = p \/ w \in busy
      BY <1>0, <1>2 DEF Busy, Proc, Others
    <3>2. q = p \/ q \in busy
      BY <3>1, <2>6
    <3>3. busy # {}
      BY <3>1, <2>6
    <3>4. CASE q = p
      BY <3>3, <3>4, <1>2 DEF If, Requests
    <3>5. CASE q \in busy
      BY <3>5, <1>5
    <3> QED BY <3>2, <3>4, <3>5
  <2>7. req' \in [Proc -> Requests(part)]
    BY <2>5, <1>1
  <2> QED BY <2>5, <2>6, <2>7 DEF Served
<1>4. /\ made' \in Budget /\ past' \subseteq {"met", "cut", "restored"}
      /\ \A q \in Proc : "met" \in req'[q].notes => "met" \in past'
  <2>1. made' \in Budget /\ past' \subseteq {"met", "cut", "restored"}
    BY <1>1, ServiceAssumption DEF Base, World, Budget, If
  <2>2. req'[p].notes = If(busy # {}, {"met"})
    BY <1>2 DEF Requests
  <2>3. ASSUME NEW q \in Proc, "met" \in req'[q].notes PROVE "met" \in past'
    <3>1. CASE busy # {}
      BY <3>1, <1>1 DEF If
    <3>2. CASE busy = {}
      <4>1. q # p
        BY <2>2, <2>3, <3>2 DEF If
      <4>2. req'[q] = req[q]
        BY <4>1, <3>2, <1>2
      <4> QED BY <4>2, <2>3, <1>1 DEF Base
    <3> QED BY <3>1, <3>2
  <2> QED BY <2>1, <2>3
<1>6. Base'
  BY <1>1, <1>3, <1>4 DEF Base, World, system
<1> QED BY <1>0, <1>1, <1>2, <1>6

-----------------------------------------------------------------------------
\* The steps that all parts have.

LEMMA AtWork ==
  ASSUME Base, NEW p \in Proc, Busy(p)
  PROVE  /\ req[p] \in Requests(part) /\ req[p].ans = "busy" /\ req[p].todo # <<>>
         /\ req[p].todo \in Plans /\ Head(req[p].todo) \in Steps
         /\ Of(p) \in SUBSET (Section \union Item)
         /\ Head(req[p].todo).on # "store" => Of(p) \subseteq Item
         /\ req[p].view \in Configs(part) /\ req[p].prev \in Configs(part)
         /\ req[p].was \in Lists(part)
<1>1. req[p] \in Requests(part) /\ req[p].ans = "busy" /\ req[p].todo # <<>>
  BY DEF Base, Served, Busy
<1>2. req[p].todo \in Plans
  BY <1>1 DEF Requests
<1>3. Head(req[p].todo) \in Steps
  BY <1>1, <1>2, TailTyped
<1> QED BY <1>1, <1>2, <1>3 DEF Requests, Of, Steps, StepType

LEMMA Stepping ==
  ASSUME Base, NEW p \in Proc, Busy(p), NEW r \in Requests(part), r.ans = "busy",
         Alike(r, req[p]), Become(p, r), part' = part => World'
  PROVE  Base' /\ part' = part
<1>1. /\ Served(part, req') /\ UNCHANGED <<part, past>> /\ Alike(req'[p], req[p])
      /\ \A q \in Proc \ {p} : req'[q] = req[q]
  <2>1. Served(part, req)
    BY DEF Base
  <2> QED BY <2>1, Becoming
<1> QED BY <1>1 DEF Base, Alike

LEMMA Advancing ==
  ASSUME Base, NEW p \in Proc, Busy(p), Advance(p), part' = part => World'
  PROVE  Base' /\ part' = part
<1>1. req[p] \in Requests(part) /\ req[p].todo # <<>> /\ req[p].ans = "busy"
  BY AtWork
<1>2. /\ Past(req[p]) \in Requests(part) /\ Past(req[p]).ans = "busy"
      /\ Alike(Past(req[p]), req[p])
  BY <1>1, Going DEF Alike
<1> QED BY <1>2, Stepping DEF Advance

LEMMA Breaking ==
  ASSUME Base, NEW p \in Proc, Busy(p), Failed(p), part' = part => World'
  PROVE  Base' /\ part' = part
<1>1. Served(part, req)
  BY DEF Base
<1>2. PICK x \in Requests(part) :
        /\ Become(p, x) /\ x.ans = "busy"
        /\ x.notes = req[p].notes \union {IF "failed" \in req[p].notes THEN "again" ELSE "failed"}
  BY <1>1, Failing
<1>3. Alike(x, req[p])
  BY <1>2 DEF Alike
<1> QED BY <1>2, <1>3, Stepping

LEMMA Spent ==
  ASSUME Base, made.faults < MaxFaults
  PROVE  [made EXCEPT !.faults = @ + 1] \in Budget
BY ServiceAssumption DEF Base, World, Budget

LEMMA UnitNames ==
  Unit = {"kea4", "kea6", "unbound", "sshd", "ipv6", "nft", "timesyncd", "chrony", "qos",
          "wireguard", "links", "route", "suricata", "caddy", "tunnel"}
BY DEF Unit, Kea

LEMMA RulesetContent ==
  ASSUME NEW P, NEW k \in Configs(P)
  PROVE  Ruleset(k) \in Content
<1>1. /\ k["dns"] \in Value /\ k["settings"] \in Value /\ k["dot"] \in Value
      /\ k["nat"] \in Value /\ k["interfaces"] \in Value
  BY ConfigSection DEF Section
<1>2. Dns(k["dns"]) \in Value
  BY <1>1, DnsValue
<1>3. /\ Entries("dns", Dns(k["dns"])) \in Content /\ Entries("settings", k["settings"]) \in Content
      /\ Entries("dot", k["dot"]) \in Content /\ Entries("nat", k["nat"]) \in Content
      /\ Entries("interfaces", k["interfaces"]) \in Content
  BY <1>1, <1>2, EntriesContent DEF Section
<1> QED BY <1>3 DEF Ruleset, Content

LEMMA GenericBase ==
  ASSUME Base, NEW p \in Proc,
         \/ Persist(p) \/ Restore(p) \/ Load(p) \/ Fault(p) \/ PassedOver(p) \/ Publish(p)
         \/ RestoreRevision(p)
  PROVE  Base' /\ part' = part
<1>0. /\ World /\ Served(part, req) /\ \A P : Blank \in Configs(P)
  BY BlankConfig DEF Base
<1>1. CASE Persist(p)
  <2>1. Busy(p) /\ Advance(p) /\ UNCHANGED <<cache, file, cand, run, made>>
    BY <1>1 DEF Persist, At
  <2>2. stored' = [s \in Section |-> IF s \in Of(p) THEN req[p].view[s] ELSE stored[s]]
    BY <1>1 DEF Persist
  <2>0. req[p].view \in Configs(part) /\ stored \in Configs(part)
    BY <2>1, <1>0, AtWork DEF World
  <2>3. stored' \in Configs(part)
    BY <2>0, <2>2, ConfigMix
  <2>4. part' = part => World'
    BY <2>1, <2>3, <1>0 DEF World
  <2> QED BY <2>1, <2>4, Advancing
<1>2. CASE Restore(p)
  <2> DEFINE back(k) == [s \in Section |-> IF s \in Of(p) THEN req[p].prev[s] ELSE k[s]]
             r == [Past(req[p]) EXCEPT !.view = back(@)]
  <2>1. Busy(p) /\ Become(p, r) /\ stored' = back(stored) /\ UNCHANGED <<cache, file, cand, run, made>>
    BY <1>2 DEF Restore, At
  <2>2. \A k \in Configs(part) : back(k) \in Configs(part)
    <3>1. req[p].prev \in Configs(part)
      BY <2>1, AtWork
    <3> QED BY <3>1, ConfigMix
  <2>3. /\ Past(req[p]) \in Requests(part) /\ Past(req[p]).ans = "busy"
        /\ Past(req[p]).notes = req[p].notes
    BY <2>1, AtWork, Going
  <2>4. part' = part => World'
    BY <2>1, <2>2, <1>0 DEF World
  <2> HIDE DEF back
  <2>5. r \in Requests(part) /\ r.ans = "busy" /\ Alike(r, req[p])
    BY <2>2, <2>3 DEF Requests, Alike
  <2> HIDE DEF r
  <2> QED BY <2>1, <2>4, <2>5, Stepping
<1>3. CASE Load(p)
  <2> DEFINE v == [s \in Section |-> IF s \in Of(p) THEN stored[s] ELSE Past(req[p]).view[s]]
             r == [Past(req[p]) EXCEPT !.view = v]
  <2>1. Busy(p) /\ Become(p, r) /\ UNCHANGED <<system, made>>
    BY <1>3 DEF Load, At
  <2>2. /\ Past(req[p]) \in Requests(part) /\ Past(req[p]).ans = "busy"
        /\ Past(req[p]).notes = req[p].notes
    BY <2>1, AtWork, Going
  <2>3. v \in Configs(part)
    <3>1. Past(req[p]).view \in Configs(part)
      BY <2>2 DEF Requests
    <3>2. stored \in Configs(part)
      BY <1>0 DEF World
    <3> QED BY <3>1, <3>2, ConfigMix
  <2>4. part' = part => World'
    BY <2>1, <1>0 DEF World, system
  <2> HIDE DEF v
  <2>5. r \in Requests(part) /\ r.ans = "busy" /\ Alike(r, req[p])
    BY <2>2, <2>3 DEF Requests, Alike
  <2> HIDE DEF r
  <2> QED BY <2>1, <2>4, <2>5, Stepping
<1>4. CASE Fault(p)
  <2>1. /\ Busy(p) /\ Failed(p) /\ UNCHANGED <<stored, file, cand>> /\ made' \in Budget
        /\ cache' = req[p].was \/ cache' = cache
        /\ run' = run \/ \E u \in Service : run' = [run EXCEPT ![u] = {}]
    BY <1>4, Spent DEF Fault
  <2>2. cache' \in Lists(part)
    BY <2>1, <1>0, AtWork DEF World
  <2>3. run' \in Contents(part)
    <3>1. Service \subseteq Unit /\ run \in Contents(part) /\ {} \in Content
      BY <1>0 DEF Service, Unit, Kea, Content, World
    <3>2. \A u \in Service : [run EXCEPT ![u] = {}] \in Contents(part)
      BY <3>1, ContentPut
    <3> QED BY <3>1, <3>2, <2>1
  <2>4. part' = part => World'
    BY <2>1, <2>2, <2>3, <1>0 DEF World
  <2> QED BY <2>1, <2>4, Breaking
<1>5. CASE PassedOver(p)
  <2>1. /\ Busy(p) /\ made' \in Budget /\ UNCHANGED system
        /\ Become(p, Noted(Past(req[p]), "silent"))
    BY <1>5, Spent DEF PassedOver
  <2>2. /\ Past(req[p]) \in Requests(part) /\ Past(req[p]).ans = "busy" /\ "silent" \in Note
        /\ Past(req[p]).notes = req[p].notes
    BY <2>1, AtWork, Going DEF Note
  <2>3. /\ Noted(Past(req[p]), "silent") \in Requests(part) /\ Noted(Past(req[p]), "silent").ans = "busy"
        /\ Alike(Noted(Past(req[p]), "silent"), req[p])
    BY <2>2, Noting DEF Alike
  <2>4. part' = part => World'
    BY <2>1, <1>0 DEF World, system
  <2> QED BY <2>1, <2>3, <2>4, Stepping
<1>6. CASE Publish(p)
  <2>1. /\ Busy(p) /\ Advance(p) /\ UNCHANGED <<stored, cache, file, cand, made>>
        /\ run' = [run EXCEPT !["nft"] = Ruleset(stored)]
    BY <1>6 DEF Publish, Set, At
  <2>2. run' \in Contents(part)
    <3>1. Ruleset(stored) \in Content
      BY <1>0, RulesetContent DEF World
    <3> QED BY <3>1, <2>1, <1>0, UnitNames, ContentPut DEF World
  <2>3. part' = part => World'
    BY <2>1, <2>2, <1>0 DEF World
  <2> QED BY <2>1, <2>3, Advancing
<1>7. CASE RestoreRevision(p)
  <2> DEFINE r == Request(<<Step("save", "store", Section)>>, Blank, {})
             x == [r EXCEPT !.item = Revision]
  <2>1. Begin(p, x)
    BY <1>7 DEF RestoreRevision
  <2>2. <<Step("save", "store", Section)>> \in Plans
    <3>1. Step("save", "store", Section) \in Steps
      BY StepTyped, Verbs
    <3> QED BY <3>1 DEF Plans
  <2>3. x \in Requests(part) /\ x.ans = "busy" /\ x.todo # <<>>
    BY <2>2, <1>0, IdleTyped DEF Request, Requests, World
  <2> HIDE DEF x
  <2> QED BY <2>1, <2>3, Beginning
<1> QED BY <1>1, <1>2, <1>3, <1>4, <1>5, <1>6, <1>7

-----------------------------------------------------------------------------
\* Requests that begin, and steps that write a file or change what a unit does.

LEMMA PlanJoin ==
  ASSUME NEW q \in Plans, NEW t \in Plans
  PROVE  q \o t \in Plans /\ (q # <<>> \/ t # <<>> => q \o t # <<>>)
<1>1. /\ q \o t \in Seq(Steps) /\ Len(q \o t) = Len(q) + Len(t)
      /\ Len(q) \in Nat /\ Len(t) \in Nat /\ (q # <<>> => Len(q) # 0) /\ (t # <<>> => Len(t) # 0)
  BY ConcatProperties, LenProperties, EmptySeq DEF Plans
<1> QED BY <1>1 DEF Plans

\* r asks for the steps q, to be undone by t.
Asks(r, q, k, U, i, t) ==
  \/ r = Request(q, k, U) /\ i = None /\ t = <<>>
  \/ r = [Request(q, k, U) EXCEPT !.item = i] /\ t = <<>>
  \/ r = [Request(q, k, U) EXCEPT !.undo = t] /\ i = None
  \/ r = [Request(q, k, U) EXCEPT !.item = i, !.undo = t]

Posed(r, q, k, U, i, t) ==
  /\ r \in Requests(part) /\ r.ans = "busy" /\ r.todo = q /\ r.undo = t /\ r.view = k
  /\ r.prev = stored /\ r.was = {} /\ r.units = U /\ r.item = i /\ r.notes = {}

LEMMA Asking ==
  ASSUME Base, NEW q \in Plans, q # <<>>, NEW k \in Configs(part), NEW U \in SUBSET Units(part),
         NEW i \in Item \union {None}, NEW t \in Plans, NEW r, Asks(r, q, k, U, i, t)
  PROVE  Posed(r, q, k, U, i, t)
<1> SUFFICES /\ r \in Requests(part) /\ r.ans = "busy" /\ r.todo = q /\ r.undo = t /\ r.view = k
             /\ r.prev = stored /\ r.was = {} /\ r.units = U /\ r.item = i /\ r.notes = {}
  BY DEF Posed
<1> DEFINE x == Request(q, k, U)
<1>1. Idle \in Requests(part) /\ Idle.was = {} /\ Idle.notes = {} /\ Idle.undo = <<>> /\ Idle.item = None
  BY IdleTyped DEF Idle
<1>2. stored \in Configs(part)
  BY DEF Base, World
<1>3. /\ x \in Requests(part) /\ x.ans = "busy" /\ x.todo = q /\ x.undo = <<>> /\ x.view = k
      /\ x.prev = stored /\ x.was = {} /\ x.units = U /\ x.item = None /\ x.notes = {}
  BY <1>1, <1>2 DEF Request, Requests
<1>4. \/ r = x /\ i = None /\ t = <<>>
      \/ r = [x EXCEPT !.item = i] /\ t = <<>>
      \/ r = [x EXCEPT !.undo = t] /\ i = None
      \/ r = [x EXCEPT !.item = i, !.undo = t]
  BY DEF Asks
<1> HIDE DEF x
<1>5. CASE r = x /\ i = None /\ t = <<>>
  BY <1>3, <1>5
<1>6. CASE r = [x EXCEPT !.item = i] /\ t = <<>>
  BY <1>3, <1>6 DEF Requests
<1>7. CASE r = [x EXCEPT !.undo = t] /\ i = None
  BY <1>3, <1>7 DEF Requests
<1>8. CASE r = [x EXCEPT !.item = i, !.undo = t]
  BY <1>3, <1>8 DEF Requests
<1> QED BY <1>4, <1>5, <1>6, <1>7, <1>8

LEMMA Asked ==
  ASSUME Base, NEW p \in Proc, NEW q \in Plans, q # <<>>, NEW k \in Configs(part),
         NEW U \in SUBSET Units(part), NEW i \in Item \union {None}, NEW t \in Plans,
         NEW r, Asks(r, q, k, U, i, t), Begin(p, r)
  PROVE  Base' /\ part' = part
<1>1. /\ r \in Requests(part) /\ r.ans = "busy" /\ r.todo = q /\ r.undo = t /\ r.view = k
      /\ r.prev = stored /\ r.was = {} /\ r.units = U /\ r.item = i /\ r.notes = {}
  <2>1. Posed(r, q, k, U, i, t)
    BY Asking
  <2> QED BY <2>1 DEF Posed
<1> QED BY <1>1, Beginning

\* A request without an item, and without steps to undo it.
LEMMA AskedPlain ==
  ASSUME Base, NEW p \in Proc, NEW q \in Plans, q # <<>>, NEW k \in Configs(part),
         NEW U \in SUBSET Units(part), Begin(p, Request(q, k, U))
  PROVE  Base' /\ part' = part
<1> DEFINE r == Request(q, k, U)
<1>1. <<>> \in Plans /\ Asks(r, q, k, U, None, <<>>)
  BY DEF Plans, Asks
<1> HIDE DEF r
<1>2. Begin(p, r)
  BY DEF r
<1> QED BY <1>1, <1>2, Asked

LEMMA Running1 ==
  ASSUME Base, part' = part, NEW u \in Unit, NEW c \in Content, run' = [run EXCEPT ![u] = c],
         \/ c = {}
         \/ /\ u = "kea4" => part = "dhcp4"
            /\ u = "kea6" => part = "dhcp6"
            /\ u = "unbound" => part = "dns",
         UNCHANGED <<stored, cache, file, cand>>, made' \in Budget
  PROVE  World'
BY ContentPut DEF Base, World

LEMMA Writing ==
  ASSUME Base, part' = part, NEW u \in Unit, NEW c \in Content, file' = [file EXCEPT ![u] = c],
         \/ c = {}
         \/ /\ u = "kea4" => part = "dhcp4"
            /\ u = "kea6" => part = "dhcp6"
            /\ u = "unbound" => part = "dns",
         UNCHANGED <<stored, cache, run>>, cand' \in [Kea -> Content], made' \in Budget
  PROVE  World'
BY ContentPut DEF Base, World

LEMMA Still ==
  ASSUME Base, part' = part, UNCHANGED system, made' \in Budget PROVE World'
BY DEF Base, World, system

\* Start, Set and Install of a unit.
LEMMA StartBase ==
  ASSUME Base, NEW p \in Proc, NEW u \in Unit, Start(p, u)
  PROVE  Base' /\ part' = part
<1>1. /\ Busy(p) /\ run' = [run EXCEPT ![u] = If(Accepted(file[u]), file[u])]
      /\ UNCHANGED <<stored, cache, file, cand, made>> /\ (Advance(p) \/ Failed(p))
  BY DEF Start, At
<1>2. run' \in Contents(part)
  <2>1. /\ run \in Contents(part) /\ file[u] \in Content /\ {} \in Content
        /\ u = "kea4" /\ part # "dhcp4" => file[u] = {}
        /\ u = "kea6" /\ part # "dhcp6" => file[u] = {}
        /\ u = "unbound" /\ part # "dns" => file[u] = {}
    BY ContentOf DEF Base, World, Contents
  <2> QED BY <2>1, <1>1, ContentPut DEF If
<1>3. part' = part => World'
  BY <1>1, <1>2 DEF Base, World
<1> QED BY <1>1, <1>3, Advancing, Breaking

LEMMA SetBase ==
  ASSUME Base, NEW p \in Proc, NEW do, NEW u \in Unit, NEW c \in Content,
         u \in {"kea4", "kea6", "unbound"} => c = {}, Set(p, do, u, c)
  PROVE  Base' /\ part' = part
<1>1. /\ Busy(p) /\ run' = [run EXCEPT ![u] = c] /\ Advance(p)
      /\ UNCHANGED <<stored, cache, file, cand, made>>
  BY DEF Set, At
<1>2. part' = part => World'
  BY <1>1, Running1 DEF Base, World
<1> QED BY <1>1, <1>2, Advancing

LEMMA InstallBase ==
  ASSUME Base, NEW p \in Proc, NEW u \in Unit, NEW c \in Content, Install(p, u, c),
         u \notin Kea, u = "unbound" => part = "dns"
  PROVE  Base' /\ part' = part
<1>1. /\ Busy(p) /\ file' = [file EXCEPT ![u] = c] /\ Advance(p)
      /\ UNCHANGED <<stored, cache, run, cand, made>>
  BY DEF Install, At
<1>2. part' = part => World'
  BY <1>1, Writing DEF Base, World, Kea
<1> QED BY <1>1, <1>2, Advancing

-----------------------------------------------------------------------------
\* The steps of part "dns".

LEMMA DnsContents ==
  ASSUME NEW P, NEW k \in Configs(P)
  PROVE  Resolver(k) \in Content /\ SixOn(k) \in Content /\ Sshd(k) \in Content
<1>1. /\ k["dns"] \in Value /\ k["settings"] \in Value /\ k["dot"] \in Value
      /\ k["overrides"] \in Value
  BY ConfigSection DEF Section
<1>2. Dns(k["dns"]) \in Value
  BY <1>1, DnsValue
<1>3. /\ Entries("dns", Dns(k["dns"])) \in Content /\ Entries("settings", k["settings"]) \in Content
      /\ Entries("dot", k["dot"]) \in Content /\ Entries("overrides", k["overrides"]) \in Content
  BY <1>1, <1>2, EntriesContent DEF Section
<1>4. SixOn(k) \in Content /\ Sshd(k) \in Content
  BY <1>3 DEF SixOn, Sshd, Content
<1>5. (Entries("dns", Dns(k["dns"])) \union Entries("overrides", k["overrides"])
         \union Entries("dot", k["dot"]) \union SixOn(k)) \in Content
  BY <1>3, <1>4 DEF Content
<1> QED BY <1>4, <1>5, IfContent DEF Resolver

LEMMA UnboundPlan ==
  UnboundSteps \in Plans /\ UnboundSteps # <<>>
<1>1. /\ Plain("install", "unbound") \in Steps /\ Plain("check", "unbound") \in Steps
      /\ Plain("start", "unbound") \in Steps
  BY PlainTyped, Verbs
<1> QED BY <1>1 DEF UnboundSteps, Plans

LEMMA DnsStepsBase ==
  ASSUME Base, NEW p \in Proc, part = "dns",
         \/ StopUnbound(p) \/ InstallUnbound(p) \/ CheckUnbound(p) \/ StartUnbound(p)
         \/ LoadIfSet(p) \/ ApplyIpv6(p) \/ ApplySsh(p)
  PROVE  Base' /\ part' = part
<1>0. World /\ \A k \in Configs(part) : Resolver(k) \in Content /\ SixOn(k) \in Content /\ Sshd(k) \in Content
  BY DnsContents DEF Base
<1>1. CASE StopUnbound(p)
  <2>1. /\ Busy(p) /\ UNCHANGED <<stored, cache, file, cand>> /\ made' \in Budget
        /\ run' = run \/ run' = [run EXCEPT !["unbound"] = {}]
        /\ \/ Become(p, Skip(req[p], "unbound"))
           \/ Become(p, Noted(Skip(req[p], "unbound"), "silent"))
    <3>1. made \in Budget
      BY <1>0 DEF World
    <3> QED BY <1>1, <3>1, Spent DEF StopUnbound, At
  <2>2. /\ Skip(req[p], "unbound") \in Requests(part) /\ Skip(req[p], "unbound").ans = "busy"
        /\ Skip(req[p], "unbound").notes = req[p].notes /\ Alike(Skip(req[p], "unbound"), req[p])
    BY <2>1, AtWork, Passing DEF Alike
  <2>3. /\ Noted(Skip(req[p], "unbound"), "silent") \in Requests(part)
        /\ Noted(Skip(req[p], "unbound"), "silent").ans = "busy"
        /\ Alike(Noted(Skip(req[p], "unbound"), "silent"), req[p])
    BY <2>2, Noting DEF Note, Alike
  <2>4. {} \in Content
    BY DEF Content
  <2>5. part' = part => World'
    BY <2>1, <2>4, <1>0, Running1, UnitNames DEF World
  <2> QED BY <2>1, <2>2, <2>3, <2>5, Stepping
<1>2. CASE InstallUnbound(p)
  <2>1. Install(p, "unbound", Resolver(req[p].view)) /\ Busy(p)
    BY <1>2 DEF InstallUnbound, Install, At
  <2>2. Resolver(req[p].view) \in Content
    BY <2>1, <1>0, AtWork
  <2> QED BY <2>1, <2>2, InstallBase, UnitNames DEF Kea
<1>3. CASE CheckUnbound(p)
  <2>1. Busy(p) /\ (Advance(p) \/ Failed(p)) /\ UNCHANGED <<system, made>>
    BY <1>3 DEF CheckUnbound, At
  <2> QED BY <2>1, <1>0, Still, Advancing, Breaking DEF World
<1>4. CASE StartUnbound(p)
  BY <1>4, StartBase, UnitNames DEF StartUnbound
<1>5. CASE LoadIfSet(p)
  <2> DEFINE v == [s \in Section |-> IF s \in Of(p) THEN stored[s] ELSE req[p].view[s]]
             r == [Past(req[p]) EXCEPT !.view = v]
  <2>1. /\ Busy(p) /\ UNCHANGED <<system, made>>
        /\ Become(p, r) \/ Become(p, Noted(Skip(r, "unbound"), "skipped"))
    BY <1>5 DEF LoadIfSet, At
  <2>2. /\ Past(req[p]) \in Requests(part) /\ Past(req[p]).ans = "busy"
        /\ Past(req[p]).notes = req[p].notes
    BY <2>1, AtWork, Going
  <2>3. v \in Configs(part)
    BY <2>1, <1>0, AtWork, ConfigMix DEF World
  <2> HIDE DEF v
  <2>4. r \in Requests(part) /\ r.ans = "busy" /\ r.notes = req[p].notes /\ Alike(r, req[p])
    BY <2>2, <2>3 DEF Requests, Alike
  <2> HIDE DEF r
  <2>5. /\ Skip(r, "unbound") \in Requests(part) /\ Skip(r, "unbound").ans = "busy" /\ "skipped" \in Note
        /\ Skip(r, "unbound").notes = req[p].notes
    BY <2>4, Passing DEF Note
  <2>6. /\ Noted(Skip(r, "unbound"), "skipped") \in Requests(part)
        /\ Noted(Skip(r, "unbound"), "skipped").ans = "busy"
        /\ Alike(Noted(Skip(r, "unbound"), "skipped"), req[p])
    BY <2>5, Noting DEF Alike
  <2>7. part' = part => World'
    BY <2>1, <1>0, Still DEF World
  <2> QED BY <2>1, <2>4, <2>6, <2>7, Stepping
<1>6. CASE ApplyIpv6(p)
  <2>1. Set(p, "set", "ipv6", SixOn(req[p].view)) /\ Busy(p)
    BY <1>6 DEF ApplyIpv6, Set, At
  <2> QED BY <2>1, <1>0, AtWork, SetBase, UnitNames
<1>7. CASE ApplySsh(p)
  <2>1. Set(p, "set", "sshd", Sshd(req[p].view)) /\ Busy(p)
    BY <1>7 DEF ApplySsh, Set, At
  <2> QED BY <2>1, <1>0, AtWork, SetBase, UnitNames
<1> QED BY <1>1, <1>2, <1>3, <1>4, <1>5, <1>6, <1>7

\* The file of the resolver is checked when it has just been installed, and the resolver
\* is started when that has been done.
Linked(q) == \A n \in 1..Len(q) :
  /\ q[n].do \in {"install", "check", "start"} => q[n].on = "unbound"
  /\ q[n].do = "check" => n = 1 \/ q[n - 1].do = "install"
  /\ q[n].do = "start" => n = 1 \/ q[n - 1].do = "check"

Orderly(q, h) == q \in Plans /\ q # <<>> /\ Linked(q) /\ Head(q) = h

Unrelated(q) == \A n \in 1..Len(q) : q[n].do \notin {"install", "check", "start"}
Prelude(q, h) == q \in Plans /\ q # <<>> /\ Unrelated(q) /\ Head(q) = h
Epilogue(q) == q \in Plans /\ Unrelated(q)

\* p asks for a plan that goes through the steps of the resolver in their order, and begins
\* by saving the DNS section unless that stays as it is.
DnsAsked(p) ==
  \E q \in Plans, k \in Configs(part), U \in SUBSET Units(part), h \in Steps :
    /\ Begin(p, Request(q, k, U)) /\ Orderly(q, h) /\ h.do = "save"
    /\ "dns" \in h.of \/ k["dns"] = stored["dns"]

LEMMA Preludes ==
  ASSUME NEW x \in Steps, x.do \notin {"install", "check", "start"},
         NEW y \in Steps, y.do \notin {"install", "check", "start"},
         NEW z \in Steps, z.do \notin {"install", "check", "start"}
  PROVE  Epilogue(<<x>>) /\ Prelude(<<x, y>>, x) /\ Prelude(<<x, y, z>>, x)
<1>1. <<x>> \in Plans /\ <<x, y>> \in Plans /\ <<x, y, z>> \in Plans
  BY DEF Plans
<1>2. Unrelated(<<x>>) /\ Unrelated(<<x, y>>) /\ Unrelated(<<x, y, z>>)
  BY DEF Unrelated
<1>3. Head(<<x, y>>) = x /\ Head(<<x, y, z>>) = x
  OBVIOUS
<1> QED BY <1>1, <1>2, <1>3 DEF Epilogue, Prelude

LEMMA Prefixed ==
  ASSUME NEW q, NEW h, Prelude(q, h), NEW t \in Plans, Linked(t),
         t # <<>> => Head(t).do \notin {"check", "start"}
  PROVE  Orderly(q \o t, h)
<1>1. /\ q \in Seq(Steps) /\ t \in Seq(Steps) /\ q \o t \in Seq(Steps)
      /\ Len(q \o t) = Len(q) + Len(t) /\ Len(q) \in Nat \ {0} /\ Len(t) \in Nat
      /\ \A n \in 1..(Len(q) + Len(t)) : (q \o t)[n] = IF n <= Len(q) THEN q[n] ELSE t[n - Len(q)]
  BY ConcatProperties, LenProperties, EmptySeq DEF Prelude, Plans
<1>2. q \o t # <<>> /\ Head(q \o t) = h
  <2>1. q \o t # <<>> /\ Head(q \o t) = (q \o t)[1] /\ Head(q) = q[1]
    BY <1>1
  <2>2. (q \o t)[1] = q[1]
    BY <1>1
  <2> QED BY <2>1, <2>2 DEF Prelude
<1> DEFINE x == q \o t
<1>3. ASSUME NEW n \in 1..Len(x)
      PROVE  /\ x[n].do \in {"install", "check", "start"} => x[n].on = "unbound"
             /\ x[n].do = "check" => n = 1 \/ x[n - 1].do = "install"
             /\ x[n].do = "start" => n = 1 \/ x[n - 1].do = "check"
  <2> DEFINE m == n - Len(q)
  <2>1. CASE n <= Len(q)
    <3>1. x[n] = q[n] /\ n \in 1..Len(q)
      BY <1>1, <2>1
    <3>2. q[n].do \notin {"install", "check", "start"}
      BY <3>1 DEF Prelude, Unrelated
    <3> QED BY <3>1, <3>2
  <2>2. CASE n > Len(q)
    <3>1. x[n] = t[m] /\ m \in 1..Len(t)
      BY <1>1, <2>2
    <3>2. CASE m = 1
      <4>1. t # <<>> /\ Head(t) = t[1]
        BY <3>1, <1>1
      <4>2. t[1].do \notin {"check", "start"}
        BY <4>1
      <4> QED BY <3>1, <3>2, <4>2, <1>1 DEF Linked
    <3>3. CASE m # 1
      <4>1. x[n - 1] = t[m - 1] /\ m - 1 \in 1..Len(t)
        <5>1. n - 1 \in 1..(Len(q) + Len(t)) /\ ~(n - 1 <= Len(q)) /\ (n - 1) - Len(q) = m - 1
              /\ m - 1 \in 1..Len(t)
          BY <1>1, <2>2, <3>1, <3>3
        <5> QED BY <5>1, <1>1
      <4> HIDE DEF x, m
      <4> QED BY <3>1, <3>3, <4>1, <1>1 DEF Linked
    <3> QED BY <3>2, <3>3
  <2> QED BY <2>1, <2>2, <1>1
<1> QED BY <1>1, <1>2, <1>3 DEF Orderly, Linked, Plans

LEMMA Concluding ==
  ASSUME NEW q, NEW h, Orderly(q, h), NEW t, Epilogue(t)
  PROVE  Orderly(q \o t, h)
<1>1. /\ q \in Seq(Steps) /\ t \in Seq(Steps) /\ q \o t \in Seq(Steps)
      /\ Len(q \o t) = Len(q) + Len(t) /\ Len(q) \in Nat \ {0} /\ Len(t) \in Nat
      /\ \A n \in 1..(Len(q) + Len(t)) : (q \o t)[n] = IF n <= Len(q) THEN q[n] ELSE t[n - Len(q)]
  BY ConcatProperties, LenProperties, EmptySeq DEF Orderly, Epilogue, Plans
<1>2. q \o t # <<>> /\ Head(q \o t) = h
  <2>1. q \o t # <<>> /\ Head(q \o t) = (q \o t)[1] /\ Head(q) = q[1]
    BY <1>1
  <2>2. (q \o t)[1] = q[1]
    BY <1>1
  <2> QED BY <2>1, <2>2 DEF Orderly
<1> DEFINE x == q \o t
<1>3. ASSUME NEW n \in 1..Len(x)
      PROVE  /\ x[n].do \in {"install", "check", "start"} => x[n].on = "unbound"
             /\ x[n].do = "check" => n = 1 \/ x[n - 1].do = "install"
             /\ x[n].do = "start" => n = 1 \/ x[n - 1].do = "check"
  <2>1. CASE n <= Len(q)
    <3>1. x[n] = q[n] /\ n \in 1..Len(q) /\ (n # 1 => x[n - 1] = q[n - 1])
      BY <1>1, <2>1
    <3> HIDE DEF x
    <3> QED BY <3>1 DEF Orderly, Linked
  <2>2. CASE n > Len(q)
    <3>1. x[n] = t[n - Len(q)] /\ n - Len(q) \in 1..Len(t)
      BY <1>1, <2>2
    <3> HIDE DEF x
    <3> QED BY <3>1 DEF Epilogue, Unrelated
  <2> QED BY <2>1, <2>2, <1>1
<1> QED BY <1>1, <1>2, <1>3 DEF Orderly, Linked, Plans

LEMMA AroundUnbound ==
  ASSUME NEW a, NEW h, Prelude(a, h)
  PROVE  /\ Orderly(a \o UnboundSteps, h)
         /\ \A b : Epilogue(b) => Orderly(a \o UnboundSteps \o b, h)
<1>1. /\ Plain("install", "unbound") \in Steps /\ Plain("check", "unbound") \in Steps
      /\ Plain("start", "unbound") \in Steps
  BY PlainTyped, Verbs
<1>2. UnboundSteps \in Plans /\ Linked(UnboundSteps) /\ Head(UnboundSteps).do = "install"
  <2>1. \A do, u : Plain(do, u).do = do /\ Plain(do, u).on = u
    BY DEF Plain, Step
  <2> DEFINE x == Plain("install", "unbound")
             y == Plain("check", "unbound")
             z == Plain("start", "unbound")
  <2>2. /\ x \in Steps /\ y \in Steps /\ z \in Steps
        /\ x.do = "install" /\ y.do = "check" /\ z.do = "start"
        /\ x.on = "unbound" /\ y.on = "unbound" /\ z.on = "unbound"
    BY <1>1, <2>1
  <2> HIDE DEF x, y, z
  <2>3. <<x, y, z>> \in Plans /\ Head(<<x, y, z>>) = x
    BY <2>2 DEF Plans
  <2>4. Linked(<<x, y, z>>)
    BY <2>2 DEF Linked
  <2> QED BY <2>2, <2>3, <2>4 DEF UnboundSteps, x, y, z
<1>3. Orderly(a \o UnboundSteps, h)
  BY <1>2, Prefixed
<1> QED BY <1>3, Concluding

LEMMA DnsRequests ==
  ASSUME Base, NEW p \in Proc, part = "dns",
         \/ UpdateDns(p) \/ CreateBlocklist(p) \/ DeleteBlocklist(p)
         \/ CreateOverride(p) \/ DeleteOverride(p) \/ UpdateDot(p) \/ UpdateSettings(p)
  PROVE  DnsAsked(p)
<1>0. /\ stored \in Configs(part)
      /\ \A s \in Section : stored[s] \in Value
      /\ \A s \in Section : s \notin {"interfaces", "nat", "gateways", "dhcp4", "dhcp6"} =>
           \A k \in Configs(part), v \in Value : [k EXCEPT ![s] = v] \in Configs(part)
      /\ {} \in Value /\ Item \subseteq Field /\ Flag \subseteq Field /\ "on" \in Mark
  BY ConfigSection, ConfigPut, Fields DEF Base, World, Value, Mark
<1> DEFINE Here == Units(part)
<1>u. {"unbound"} \in SUBSET Here /\ {"unbound", "nft"} \in SUBSET Here
  BY UnitNames, UnitsHere
<1> HIDE DEF Here
<1>a. ASSUME NEW q, NEW k \in Configs(part), NEW U \in SUBSET Here, NEW h \in Steps,
             Begin(p, Request(q, k, U)), Orderly(q, h), h.do = "save",
             "dns" \in h.of \/ k["dns"] = stored["dns"]
      PROVE  DnsAsked(p)
  BY <1>a DEF DnsAsked, Orderly, Here
<1>1. /\ {Save("dns"), Save("dot"), Save("overrides"), Save("settings")} \subseteq Steps
      /\ \A S \in SUBSET {"dns", "dot", "overrides", "settings"} :
           /\ Read(S) \in Steps /\ Step("readset", "store", S) \in Steps
           /\ Read(S).do = "read" /\ Step("readset", "store", S).do = "readset"
      /\ \A d : Save(d).do = "save" /\ Save(d).of = {d}
      /\ \A do, u : Plain(do, u).do = do
      /\ {Plain("refresh", "nft"), Plain("publish", "nft"), Plain("set", "sshd"), Plain("set", "ipv6")}
           \subseteq Steps
  BY StoreTyped, StepTyped, PlainTyped, Verbs DEF Section, Save, Read, Step, Plain
<1>2. CASE UpdateDns(p)
  <2>1. PICK on \in BOOLEAN, dot \in BOOLEAN :
          LET entries == {e \in stored.dns : e[1] \in Item}
              k == [stored EXCEPT !.dns = Flagged(Put(entries, "set", "on"), "enabled", on),
                                  !.dot = Flagged({}, "enabled", dot)]
          IN  Begin(p, Request(<<Save("dns"), Save("dot"), Read({"dot", "overrides"})>>
                                 \o UnboundSteps \o <<Plain("refresh", "nft")>>,
                               k, {"unbound", "nft"}))
    BY <1>2 DEF UpdateDns
  <2> DEFINE entries == {e \in stored.dns : e[1] \in Item}
             v == Flagged(Put(entries, "set", "on"), "enabled", on)
             w == Flagged({}, "enabled", dot)
             k == [stored EXCEPT !.dns = v, !.dot = w]
             a == <<Save("dns"), Save("dot"), Read({"dot", "overrides"})>>
             q == a \o UnboundSteps \o <<Plain("refresh", "nft")>>
  <2>2. Begin(p, Request(q, k, {"unbound", "nft"}))
    BY <2>1
  <2>3. entries \in Value
    BY <1>0 DEF Value, Section
  <2> HIDE DEF entries
  <2>4. v \in Value /\ w \in Value
    BY <2>3, <1>0, Values DEF Flag
  <2> HIDE DEF v, w
  <2>5. k \in Configs(part)
    <3>1. k = [[stored EXCEPT !["dns"] = v] EXCEPT !["dot"] = w]
      OBVIOUS
    <3> QED BY <3>1, <2>4, <1>0 DEF Section
  <2>6. Prelude(a, Save("dns")) /\ Epilogue(<<Plain("refresh", "nft")>>)
    BY <1>1, Preludes
  <2> HIDE DEF a
  <2>7. Orderly(q, Save("dns"))
    BY <2>6, AroundUnbound
  <2> HIDE DEF q, k
  <2> QED BY <2>2, <2>5, <2>7, <1>1, <1>u, <1>a
<1>3. ASSUME NEW v \in Value, Blocklist(p, v) PROVE DnsAsked(p)
  <2> DEFINE k == [stored EXCEPT !["dns"] = v]
             a == <<Save("dns"), Read({"dot", "overrides", "settings"})>>
             q == a \o UnboundSteps
  <2>1. Begin(p, Request(q, k, {"unbound"}))
    BY <1>3 DEF Blocklist
  <2>2. k \in Configs(part)
    BY <1>0 DEF Section
  <2>3. Prelude(a, Save("dns"))
    BY <1>1, Preludes
  <2> HIDE DEF a, k
  <2>4. Orderly(q, Save("dns"))
    BY <2>3, AroundUnbound
  <2> HIDE DEF q
  <2> QED BY <2>1, <2>2, <2>4, <1>1, <1>u, <1>a
<1>4. ASSUME NEW v \in Value, NEW S \in SUBSET {"dns", "dot", "settings"}, Override(p, v, S)
      PROVE  DnsAsked(p)
  <2> DEFINE k == [stored EXCEPT !["overrides"] = v]
             a == <<Save("overrides"), Step("readset", "store", S)>>
             q == a \o UnboundSteps
  <2>1. Begin(p, Request(q, k, {"unbound"}))
    BY <1>4 DEF Override
  <2>2. k \in Configs(part)
    BY <1>0 DEF Section
  <2>3. Prelude(a, Save("overrides"))
    BY <1>1, Preludes
  <2>4. k["dns"] = stored["dns"]
    BY <1>0 DEF Configs, Config
  <2> HIDE DEF a, k
  <2>5. Orderly(q, Save("overrides"))
    BY <2>3, AroundUnbound
  <2> HIDE DEF q
  <2> QED BY <2>1, <2>2, <2>4, <2>5, <1>1, <1>u, <1>a
<1>5. CASE CreateBlocklist(p)
  <2>1. PICK i \in Item : Blocklist(p, Put(Dns(stored.dns), i, "on"))
    BY <1>5 DEF CreateBlocklist
  <2>2. Put(Dns(stored["dns"]), i, "on") \in Value
    BY <1>0, DnsValue, Values DEF Section
  <2> QED BY <2>1, <2>2, <1>3
<1>6. CASE DeleteBlocklist(p)
  <2>1. PICK i \in Item : Blocklist(p, Without(stored.dns, i))
    BY <1>6 DEF DeleteBlocklist
  <2>2. Without(stored["dns"], i) \in Value
    BY <1>0, Values DEF Section
  <2> QED BY <2>1, <2>2, <1>3
<1>7. CASE CreateOverride(p)
  <2>1. PICK i \in Item : Override(p, Put(stored.overrides, i, "on"), {"dns", "dot"})
    BY <1>7 DEF CreateOverride
  <2>2. Put(stored["overrides"], i, "on") \in Value
    BY <1>0, Values DEF Section
  <2> QED BY <2>1, <2>2, <1>4
<1>8. CASE DeleteOverride(p)
  <2>1. PICK i \in Item : Override(p, Without(stored.overrides, i), {"dns", "dot", "settings"})
    BY <1>8 DEF DeleteOverride
  <2>2. Without(stored["overrides"], i) \in Value
    BY <1>0, Values DEF Section
  <2> QED BY <2>1, <2>2, <1>4
<1>9. CASE UpdateDot(p)
  <2>1. PICK on \in BOOLEAN :
          Begin(p, Request(<<Save("dot"), Read({"dns", "settings", "overrides"})>> \o UnboundSteps
                             \o <<Plain("publish", "nft")>>,
                           [stored EXCEPT !.dot = Flagged({}, "enabled", on)], {"unbound", "nft"}))
    BY <1>9 DEF UpdateDot
  <2> DEFINE v == Flagged({}, "enabled", on)
             k == [stored EXCEPT !["dot"] = v]
             a == <<Save("dot"), Read({"dns", "settings", "overrides"})>>
             q == a \o UnboundSteps \o <<Plain("publish", "nft")>>
  <2>2. Begin(p, Request(q, k, {"unbound", "nft"}))
    BY <2>1
  <2>3. v \in Value
    BY <1>0, Values DEF Flag
  <2> HIDE DEF v
  <2>4. k \in Configs(part)
    BY <2>3, <1>0 DEF Section
  <2>5. Prelude(a, Save("dot")) /\ Epilogue(<<Plain("publish", "nft")>>)
    BY <1>1, Preludes
  <2>6. k["dns"] = stored["dns"]
    BY <1>0 DEF Configs, Config
  <2> HIDE DEF a, k
  <2>7. Orderly(q, Save("dot"))
    BY <2>5, AroundUnbound
  <2> HIDE DEF q
  <2> QED BY <2>2, <2>4, <2>6, <2>7, <1>1, <1>u, <1>a
<1>10. CASE UpdateSettings(p)
  <2>1. PICK ssh \in BOOLEAN, v6 \in BOOLEAN :
          LET k == [stored EXCEPT !.settings = Flagged(Flagged({}, "ssh", ssh), "v6", v6)]
              six == Has(stored.settings, "v6") # v6
          IN  Begin(p, Request(<<Save("settings"), Plain("set", "sshd")>> \o
                                 (IF ~six THEN <<>>
                                  ELSE <<Plain("set", "ipv6"),
                                         Step("readset", "store", {"dns", "dot", "overrides"}),
                                         Plain("publish", "nft")>>
                                       \o UnboundSteps),
                               k, {"sshd"} \union If(six, {"ipv6", "unbound", "nft"})))
    BY <1>10 DEF UpdateSettings
  <2> DEFINE v == Flagged(Flagged({}, "ssh", ssh), "v6", v6)
             six == Has(stored.settings, "v6") # v6
             k == [stored EXCEPT !["settings"] = v]
             a == <<Save("settings"), Plain("set", "sshd")>>
             b == <<Plain("set", "ipv6"), Step("readset", "store", {"dns", "dot", "overrides"}),
                    Plain("publish", "nft")>>
             c == IF ~six THEN <<>> ELSE b \o UnboundSteps
             U == {"sshd"} \union If(six, {"ipv6", "unbound", "nft"})
             q == a \o c
  <2>2. Begin(p, Request(q, k, U))
    BY <2>1
  <2>3. v \in Value
    BY <1>0, Values DEF Flag
  <2> HIDE DEF v, six
  <2>4. k \in Configs(part) /\ U \in SUBSET Here
    BY <2>3, <1>0, UnitNames, UnitsHere DEF Section, If, Here
  <2>5. k["dns"] = stored["dns"]
    BY <1>0 DEF Configs, Config
  <2>6. Prelude(a, Save("settings")) /\ Prelude(b, Plain("set", "ipv6"))
    <3> DEFINE c1 == Save("settings")
               c2 == Plain("set", "sshd")
               c3 == Plain("set", "ipv6")
               c4 == Step("readset", "store", {"dns", "dot", "overrides"})
               c5 == Plain("publish", "nft")
    <3>1. /\ c1 \in Steps /\ c2 \in Steps /\ c3 \in Steps /\ c4 \in Steps /\ c5 \in Steps
          /\ c1.do = "save" /\ c2.do = "set" /\ c3.do = "set" /\ c4.do = "readset" /\ c5.do = "publish"
      BY <1>1
    <3>2. a = <<c1, c2>> /\ b = <<c3, c4, c5>>
      OBVIOUS
    <3> HIDE DEF c1, c2, c3, c4, c5, a, b
    <3>3. Prelude(<<c1, c2>>, c1)
      BY <3>1, Preludes
    <3>4. Prelude(<<c3, c4, c5>>, c3)
      BY <3>1, Preludes
    <3> QED BY <3>2, <3>3, <3>4 DEF c1, c3
  <2> HIDE DEF a, b, k, U
  <2>7. Orderly(q, Save("settings"))
    <3>1. CASE six
      <4>1. Orderly(b \o UnboundSteps, Plain("set", "ipv6")) /\ q = a \o (b \o UnboundSteps)
        BY <2>6, <3>1, AroundUnbound
      <4>2. Plain("set", "ipv6").do \notin {"check", "start"}
        BY <1>1
      <4> QED BY <4>1, <4>2, <2>6, Prefixed DEF Orderly
    <3>2. CASE ~six
      <4>1. q = a \o <<>>
        BY <3>2
      <4>2. <<>> \in Plans /\ Linked(<<>>)
        BY DEF Plans, Linked
      <4> QED BY <4>1, <4>2, <2>6, Prefixed
    <3> QED BY <3>1, <3>2
  <2> HIDE DEF q
  <2> QED BY <2>2, <2>4, <2>5, <2>7, <1>1, <1>a
<1> QED BY <1>2, <1>5, <1>6, <1>7, <1>8, <1>9, <1>10

LEMMA DnsRequestsBase ==
  ASSUME Base, NEW p \in Proc, part = "dns",
         \/ UpdateDns(p) \/ CreateBlocklist(p) \/ DeleteBlocklist(p)
         \/ CreateOverride(p) \/ DeleteOverride(p) \/ UpdateDot(p) \/ UpdateSettings(p)
  PROVE  Base' /\ part' = part
<1>1. DnsAsked(p)
  BY DnsRequests
<1> QED BY <1>1, AskedPlain DEF DnsAsked, Orderly

-----------------------------------------------------------------------------
\* The steps of the DHCP servers.

LEMMA Families ==
  /\ \A s \in Family : Server(s) \in Kea /\ Server(s) \in Unit /\ s \in Section
  /\ Server("dhcp4") = "kea4" /\ Server("dhcp6") = "kea6" /\ Family = {"dhcp4", "dhcp6"}
BY DEF Family, Server, Kea, Unit, Section

LEMMA LeasesContent ==
  ASSUME NEW P, NEW k \in Configs(P), NEW s \in Family
  PROVE  Leases(s, k) \in Content /\ (P # s => Leases(s, k) = {})
<1>0. k[s] \in Value
  BY ConfigSection, Families
<1>1. P # s => k[s] = {}
  <2>1. CASE s = "dhcp4"
    BY <2>1 DEF Configs
  <2>2. CASE s = "dhcp6"
    BY <2>2 DEF Configs
  <2> QED BY <2>1, <2>2 DEF Family
<1>2. Entries(s, k[s]) \in Content
  BY <1>0, EntriesContent, Families
<1>3. k[s] = {} => ~Has(k[s], "enabled")
  BY DEF Has
<1> QED BY <1>1, <1>2, <1>3, IfContent DEF Leases, If

LEMMA KeaPlan ==
  ASSUME NEW s \in Family
  PROVE  KeaSteps(Server(s)) \in Plans /\ KeaSteps(Server(s)) # <<>>
<1>1. \A do \in {"propose", "test", "install", "start"} : Plain(do, Server(s)) \in Steps
  BY PlainTyped, Verbs, Families
<1> QED BY <1>1 DEF KeaSteps, Plans

LEMMA DhcpStepsBase ==
  ASSUME Base, NEW p \in Proc, NEW s \in Family, part \in Family,
         \/ Disable(p, s) \/ RemoveConfig(p, s) \/ Propose(p, s)
         \/ TestConfig(p, s) \/ InstallKea(p, s) \/ StartKea(p, s)
  PROVE  Base' /\ part' = part
<1> DEFINE u == Server(s)
<1>0. /\ World /\ u \in Kea /\ u \in Unit /\ {} \in Content
      /\ \A k \in Configs(part) : Leases(s, k) \in Content
      /\ cand \in [Kea -> Content] /\ made \in Budget
      /\ u = "kea4" => s = "dhcp4"
      /\ u = "kea6" => s = "dhcp6"
      /\ \A k \in Configs(part) : part # s => Leases(s, k) = {}
      /\ u # "unbound"
  BY LeasesContent, Families DEF Base, World, Content, Server, Family
<1>1. CASE Disable(p, s)
  <2> DEFINE q == <<Plain("remove", u)>> \o Elsewhere(req[p].todo, u)
             r == [req[p] EXCEPT !.todo = q]
  <2>1. /\ Busy(p) /\ UNCHANGED <<stored, cache, file, cand>> /\ made' \in Budget
        /\ run' = run \/ run' = [run EXCEPT ![u] = {}]
        /\ Become(p, r) \/ Become(p, Noted(r, "silent"))
    BY <1>1, <1>0, Spent DEF Disable, At
  <2>2. q \in Plans
    <3>1. Plain("remove", u) \in Steps
      BY <1>0, PlainTyped, Verbs
    <3>2. <<Plain("remove", u)>> \in Plans /\ Elsewhere(req[p].todo, u) \in Plans
      BY <3>1, <2>1, AtWork, ElsewhereSteps DEF Plans
    <3> QED BY <3>2, PlanJoin
  <2>3. req[p] \in Requests(part) /\ req[p].ans = "busy"
    BY <2>1, AtWork
  <2> HIDE DEF q
  <2>4. /\ r \in Requests(part) /\ r.ans = "busy" /\ "silent" \in Note
        /\ r.notes = req[p].notes /\ Alike(r, req[p])
    BY <2>2, <2>3 DEF Requests, Note, Alike
  <2> HIDE DEF r
  <2>5. /\ Noted(r, "silent") \in Requests(part) /\ Noted(r, "silent").ans = "busy"
        /\ Alike(Noted(r, "silent"), req[p])
    BY <2>4, Noting DEF Alike
  <2> HIDE DEF u
  <2>6. part' = part => World'
    BY <2>1, <1>0, Running1 DEF World
  <2> QED BY <2>1, <2>4, <2>5, <2>6, Stepping
<1>2. CASE RemoveConfig(p, s)
  <2>1. /\ Busy(p) /\ Advance(p) /\ UNCHANGED <<stored, cache, cand, run, made>>
        /\ file' = [file EXCEPT ![u] = {}]
    BY <1>2 DEF RemoveConfig, At
  <2> HIDE DEF u
  <2>2. part' = part => World'
    BY <2>1, <1>0, Writing
  <2> QED BY <2>1, <2>2, Advancing
<1>3. CASE Propose(p, s)
  <2>1. /\ Busy(p) /\ Advance(p) /\ UNCHANGED <<stored, cache, file, run, made>>
        /\ cand' = [cand EXCEPT ![u] = Leases(s, req[p].view)]
    BY <1>3 DEF Propose, At
  <2>2. cand' \in [Kea -> Content]
    BY <2>1, <1>0, AtWork
  <2>3. part' = part => World'
    BY <2>1, <2>2, <1>0 DEF World
  <2> QED BY <2>1, <2>3, Advancing
<1>4. CASE TestConfig(p, s)
  <2>1. /\ Busy(p) /\ (Advance(p) \/ Failed(p)) /\ UNCHANGED <<stored, cache, file, run, made>>
        /\ cand' = cand \/ cand' = [cand EXCEPT ![u] = {}]
    BY <1>4 DEF TestConfig, At
  <2>2. cand' \in [Kea -> Content]
    BY <2>1, <1>0
  <2>3. part' = part => World'
    BY <2>1, <2>2, <1>0 DEF World
  <2> QED BY <2>1, <2>3, Advancing, Breaking
<1>5. CASE InstallKea(p, s)
  <2>1. /\ Busy(p) /\ Advance(p) /\ UNCHANGED <<stored, cache, run, made>>
        /\ file' = [file EXCEPT ![u] = Leases(s, req[p].view)]
        /\ cand' = [cand EXCEPT ![u] = {}]
    BY <1>5 DEF InstallKea, At
  <2>2. cand' \in [Kea -> Content] /\ Leases(s, req[p].view) \in Content
    BY <2>1, <1>0, AtWork
  <2>3. part # s => Leases(s, req[p].view) = {}
    BY <2>1, <1>0, AtWork
  <2> HIDE DEF u
  <2>4. part' = part => World'
    BY <2>1, <2>2, <2>3, <1>0, Writing
  <2> QED BY <2>1, <2>4, Advancing
<1>6. CASE StartKea(p, s)
  BY <1>6, <1>0, StartBase DEF StartKea
<1> QED BY <1>1, <1>2, <1>3, <1>4, <1>5, <1>6

LEMMA DhcpApplies ==
  ASSUME Base, NEW p \in Proc, NEW s \in Family, part = s, NEW v \in Value, Apply(p, s, v)
  PROVE  Base' /\ part' = part
<1> DEFINE k == [stored EXCEPT ![s] = v]
           q == <<Save(s)>> \o KeaSteps(Server(s))
<1>1. Begin(p, Request(q, k, {Server(s)}))
  BY DEF Apply
<1>2. k \in Configs(part)
  BY Families, ConfigPut DEF Base, World
<1>3. <<Save(s)>> \in Plans
  <2>1. Save(s) \in Steps
    BY StoreTyped, Families
  <2> QED BY <2>1 DEF Plans
<1>4. q \in Plans /\ q # <<>>
  BY <1>3, KeaPlan, PlanJoin
<1>5. {Server(s)} \in SUBSET Units(part)
  BY Families, UnitsHere DEF Kea
<1> HIDE DEF q, k
<1> QED BY <1>1, <1>2, <1>4, <1>5, AskedPlain

\* Every request about a server gives its section a value, and applies it.
LEMMA DhcpRequests ==
  ASSUME Base, NEW p \in Proc, part \in Family,
         \/ UpdateConfig4(p) \/ UpdateInterface4(p) \/ CreateLease4(p) \/ DeleteLease4(p)
         \/ CreateInterfaceLease4(p) \/ DeleteInterfaceLease4(p)
         \/ UpdateConfig6(p) \/ UpdateInterface6(p) \/ CreateLease6(p) \/ DeleteLease6(p)
         \/ CreateInterfaceLease6(p) \/ DeleteInterfaceLease6(p)
  PROVE  \E v \in Value : Apply(p, part, v)
<1>0. /\ stored["dhcp4"] \in Value /\ stored["dhcp6"] \in Value
      /\ \A s \in Family : stored[s] \in Value
      /\ Item \subseteq Field /\ Port \subseteq Field /\ Flag \subseteq Field /\ "on" \in Mark
      /\ {"set", "enabled"} \subseteq Field
      /\ \A v \in Value, f \in Field, b \in BOOLEAN :
           Put(v, f, "on") \in Value /\ Without(v, f) \in Value /\ Flagged(v, f, b) \in Value
  BY ConfigSection, Fields, Families, Values DEF Base, World, Mark, Flag
<1>1. \A v \in Value, f \in Port : OnPort(v, f) \in Value
  BY <1>0 DEF OnPort, Value
<1>2. ASSUME NEW s \in Family, NEW on \in BOOLEAN, NEW F \in SUBSET Port, NEW scope \in BOOLEAN,
             Configure(p, s, on, F, scope)
      PROVE  \E v \in Value : Apply(p, part, v)
  <2> DEFINE v == Flagged(Flagged(stored[s], "set", scope), "enabled", on)
             w == IF F = {} THEN v ELSE OnPort(v, CHOOSE f \in F : TRUE)
  <2>1. part = s /\ Apply(p, s, w)
    BY <1>2 DEF Configure
  <2>2. v \in Value
    BY <1>0
  <2> HIDE DEF v
  <2>3. w \in Value
    BY <2>2, <1>1
  <2> HIDE DEF w
  <2> QED BY <2>1, <2>3
<1>3. ASSUME NEW s \in Family, NEW i \in Item, DropLease(p, s, i)
      PROVE  \E v \in Value : Apply(p, part, v)
  <2>1. part = s /\ Apply(p, s, Without(stored[s], i))
    BY <1>3 DEF DropLease
  <2> QED BY <2>1, <1>0
<1>4. ASSUME UpdateConfig4(p) \/ UpdateInterface4(p) PROVE \E v \in Value : Apply(p, part, v)
  <2>1. \E on \in BOOLEAN, F \in SUBSET Port : Configure(p, "dhcp4", on, F, TRUE)
    <3>1. CASE UpdateConfig4(p)
      <4>1. PICK on \in BOOLEAN, F \in Given : Configure(p, "dhcp4", on, F, TRUE)
        BY <3>1 DEF UpdateConfig4
      <4>2. F \in SUBSET Port
        BY DEF Given
      <4> QED BY <4>1, <4>2
    <3>2. CASE UpdateInterface4(p)
      <4>1. PICK on \in BOOLEAN, f \in Port : Configure(p, "dhcp4", on, {f}, TRUE)
        BY <3>2 DEF UpdateInterface4
      <4>2. {f} \in SUBSET Port
        OBVIOUS
      <4> QED BY <4>1, <4>2
    <3> QED BY <3>1, <3>2, <1>4
  <2> QED BY <2>1, <1>2, Families
<1>5. ASSUME UpdateConfig6(p) \/ UpdateInterface6(p) PROVE \E v \in Value : Apply(p, part, v)
  <2>1. \E on, scope \in BOOLEAN, F \in SUBSET Port : Configure(p, "dhcp6", on, F, on \/ scope)
    <3>1. CASE UpdateConfig6(p)
      <4>1. PICK on \in BOOLEAN, F \in Given, scope \in Scope6 : Configure(p, "dhcp6", on, F, on \/ scope)
        BY <3>1 DEF UpdateConfig6
      <4>2. F \in SUBSET Port /\ scope \in BOOLEAN
        BY DEF Given, Scope6
      <4> QED BY <4>1, <4>2
    <3>2. CASE UpdateInterface6(p)
      <4>1. PICK on \in BOOLEAN, f \in Port, scope \in Scope6 : Configure(p, "dhcp6", on, {f}, on \/ scope)
        BY <3>2 DEF UpdateInterface6
      <4>2. {f} \in SUBSET Port /\ scope \in BOOLEAN
        BY DEF Scope6
      <4> QED BY <4>1, <4>2
    <3> QED BY <3>1, <3>2, <1>5
  <2>2. PICK on \in BOOLEAN, scope \in BOOLEAN, F \in SUBSET Port :
          Configure(p, "dhcp6", on, F, on \/ scope)
    BY <2>1
  <2>3. (on \/ scope) \in BOOLEAN
    OBVIOUS
  <2> QED BY <2>2, <2>3, <1>2, Families
<1>6. ASSUME CreateLease4(p) \/ CreateInterfaceLease4(p) PROVE \E v \in Value : Apply(p, part, v)
  <2>1. \A i \in Item : Put(Put(stored.dhcp4, "set", "on"), i, "on") \in Value
    BY <1>0
  <2>2. CASE CreateLease4(p)
    BY <2>1, <2>2 DEF CreateLease4
  <2>3. CASE CreateInterfaceLease4(p)
    <3>1. PICK i \in Item, f \in Port :
            /\ part = "dhcp4"
            /\ Apply(p, "dhcp4", OnPort(Put(Put(stored.dhcp4, "set", "on"), i, "on"), f))
      BY <2>3 DEF CreateInterfaceLease4
    <3>2. OnPort(Put(Put(stored.dhcp4, "set", "on"), i, "on"), f) \in Value
      BY <2>1, <1>1
    <3> QED BY <3>1, <3>2
  <2> QED BY <2>2, <2>3, <1>6
<1>7. ASSUME CreateLease6(p) \/ CreateInterfaceLease6(p) PROVE \E v \in Value : Apply(p, part, v)
  <2>1. \A i \in Item : Put(stored.dhcp6, i, "on") \in Value
    BY <1>0
  <2>2. CASE CreateLease6(p)
    BY <2>1, <2>2 DEF CreateLease6
  <2>3. CASE CreateInterfaceLease6(p)
    <3>1. PICK i \in Item, f \in Port :
            /\ part = "dhcp6"
            /\ Apply(p, "dhcp6", OnPort(Put(stored.dhcp6, i, "on"), f))
      BY <2>3 DEF CreateInterfaceLease6
    <3>2. OnPort(Put(stored.dhcp6, i, "on"), f) \in Value
      BY <2>1, <1>1
    <3> QED BY <3>1, <3>2
  <2> QED BY <2>2, <2>3, <1>7
<1>8. CASE DeleteLease4(p)
  BY <1>8, <1>3, Families DEF DeleteLease4
<1>9. CASE DeleteLease6(p)
  BY <1>9, <1>3, Families DEF DeleteLease6
<1>10. CASE DeleteInterfaceLease4(p)
  BY <1>10, <1>3, Families DEF DeleteInterfaceLease4
<1>11. CASE DeleteInterfaceLease6(p)
  BY <1>11, <1>3, Families DEF DeleteInterfaceLease6
<1> QED BY <1>4, <1>5, <1>6, <1>7, <1>8, <1>9, <1>10, <1>11
-----------------------------------------------------------------------------
\* The steps of the clock.

LEMMA ClockPlan ==
  ASSUME NEW v
  PROVE  /\ ClockSteps(v) \in Plans /\ ClockSteps(v) # <<>>
         /\ \A n \in 1..Len(ClockSteps(v)) :
              /\ ClockSteps(v)[n].on \in Clock
              /\ ClockSteps(v)[n].do \in {"install", "retire", "start", "stop"}
<1>1. Chosen(v) \in Clock /\ Other(Chosen(v)) \in Clock /\ Clock \subseteq Unit
  BY DEF Chosen, Other, Clock, Unit, Kea
<1>2. \A u \in Clock, do \in {"install", "retire", "start", "stop"} : Plain(do, u) \in Steps
  BY <1>1, PlainTyped, Verbs
<1>3. \A do, u : Plain(do, u).on = u /\ Plain(do, u).do = do
  BY DEF Plain, Step
<1>4. CASE Has(v, "enabled")
  <2> DEFINE a == Plain("install", Chosen(v))
             b == Plain("retire", Other(Chosen(v)))
             c == Plain("start", Chosen(v))
  <2>1. ClockSteps(v) = <<a, b, c>>
    BY <1>4 DEF ClockSteps
  <2>2. /\ a \in Steps /\ b \in Steps /\ c \in Steps
        /\ a.on \in Clock /\ b.on \in Clock /\ c.on \in Clock
        /\ a.do = "install" /\ b.do = "retire" /\ c.do = "start"
    BY <1>1, <1>2, <1>3
  <2> HIDE DEF a, b, c
  <2> QED BY <2>1, <2>2 DEF Plans
<1>5. CASE ~Has(v, "enabled")
  <2> DEFINE a == Plain("stop", "timesyncd")
             b == Plain("stop", "chrony")
  <2>1. ClockSteps(v) = <<a, b>>
    BY <1>5 DEF ClockSteps
  <2>2. /\ a \in Steps /\ b \in Steps /\ a.on \in Clock /\ b.on \in Clock
        /\ a.do = "stop" /\ b.do = "stop"
    BY <1>1, <1>2, <1>3 DEF Clock
  <2> HIDE DEF a, b
  <2> QED BY <2>1, <2>2 DEF Plans
<1> QED BY <1>4, <1>5

LEMMA ClockBase ==
  ASSUME Base, NEW p \in Proc, part = "ntp", ClockNext(p)
  PROVE  Base' /\ part' = part
<1>0. /\ stored \in Configs(part) /\ \A s \in Section : stored[s] \in Value
      /\ {} \in Value /\ Item \subseteq Field /\ Flag \subseteq Field /\ "on" \in Mark
      /\ Clock = {"timesyncd", "chrony"} /\ Clock \subseteq Unit /\ "ntp" \in Section
  BY ConfigSection, Fields DEF Base, World, Value, Mark, Section, Clock, Unit, Kea
<1>1. CASE InstallClock(p)
  <2>1. PICK u \in Clock : Install(p, u, Timed(u, req[p].view))
    BY <1>1 DEF InstallClock
  <2>2. Busy(p)
    BY <2>1 DEF Install, At
  <2>3. req[p].view["ntp"] \in Value
    BY <2>2, <1>0, AtWork, ConfigSection
  <2>4. Entries("ntp", req[p].view["ntp"]) \in Content
    BY <2>3, <1>0, EntriesContent
  <2>5. Timed(u, req[p].view) \in Content
    BY <2>4, IfContent DEF Timed
  <2>6. u \in Unit /\ u \notin Kea /\ u # "unbound"
    BY <1>0 DEF Kea
  <2> QED BY <2>1, <2>5, <2>6, InstallBase
<1>2. CASE StopClock(p)
  <2>1. PICK u \in Clock, do \in {"stop", "retire"} : Set(p, do, u, {})
    BY <1>2 DEF StopClock
  <2> QED BY <2>1, <1>0, SetBase DEF Content
<1>3. CASE RestartClock(p)
  BY <1>3, <1>0, StartBase DEF RestartClock
<1>4. CASE UpdateNtp(p)
  <2>1. PICK on \in BOOLEAN, serve \in BOOLEAN, S \in SUBSET (Item \ Refused) :
          LET v == Flagged(Flagged({<<i, "on">> : i \in S}, "enabled", on), "serve", serve)
          IN  Begin(p, Request(ClockSteps(v) \o <<Save("ntp")>>, [stored EXCEPT !.ntp = v], Clock))
    BY <1>4 DEF UpdateNtp
  <2> DEFINE l == {<<i, "on">> : i \in S}
             v == Flagged(Flagged(l, "enabled", on), "serve", serve)
             k == [stored EXCEPT !["ntp"] = v]
             q == ClockSteps(v) \o <<Save("ntp")>>
  <2>2. Begin(p, Request(q, k, Clock))
    BY <2>1
  <2>3. l \in Value
    BY <1>0 DEF Value
  <2> HIDE DEF l
  <2>4. v \in Value
    BY <2>3, <1>0, Values DEF Flag
  <2> HIDE DEF v
  <2>5. k \in Configs(part)
    BY <2>4, <1>0, ConfigPut
  <2>6. <<Save("ntp")>> \in Plans
    <3>1. Save("ntp") \in Steps
      BY <1>0, StoreTyped
    <3> QED BY <3>1 DEF Plans
  <2>7. q \in Plans /\ q # <<>>
    BY <2>6, ClockPlan, PlanJoin
  <2> HIDE DEF q, k
  <2> QED BY <2>2, <2>5, <2>7, <1>0, UnitsHere, AskedPlain
<1> QED BY <1>1, <1>2, <1>3, <1>4 DEF ClockNext

-----------------------------------------------------------------------------
\* The steps of the shaping.

\* What a finite set is in a sequence of.
LEMMA Listing ==
  ASSUME NEW S, IsFiniteSet(S)
  PROVE  SetToSeq(S) \in [1..Cardinality(S) -> S] /\ Cardinality(S) \in Nat
<1>1. PICK n \in Nat : ExistsBijection(1..n, S)
  BY FS_NatBijection
<1>2. Cardinality(S) = n
  BY <1>1, FS_CountingElements
<1>3. \E f \in [1..Cardinality(S) -> S] : IsInjective(f)
  BY <1>1, <1>2 DEF ExistsBijection, Bijection, Injection
<1> QED BY <1>2, <1>3 DEF SetToSeq

LEMMA QosPlan ==
  ASSUME NEW v, NEW w
  PROVE  /\ QosSteps(v, w) \in Plans /\ QosSteps(v, w) # <<>>
         /\ \A n \in 1..Len(QosSteps(v, w)) :
              QosSteps(v, w)[n].on = "qos" /\ QosSteps(v, w)[n].do \in {"clean", "shape"}
<1> DEFINE S == Active(w)
           a == Step("clean", "qos", (Listed(w) \union Listed(v)) \ S)
           b == [n \in 1..Cardinality(S) |-> Step("shape", "qos", {SetToSeq(S)[n]})]
<1>1. S \in SUBSET Item /\ IsFiniteSet(S)
  <2>1. S \in SUBSET Item
    BY DEF Active
  <2> HIDE DEF S
  <2> QED BY <2>1, ServiceAssumption, FS_Subset
<1>2. a \in Steps /\ a.on = "qos" /\ a.do = "clean"
  <2>1. /\ ((Listed(w) \union Listed(v)) \ S) \in SUBSET (Section \union Item)
        /\ ((Listed(w) \union Listed(v)) \ S) \subseteq Item
    BY DEF Listed
  <2>2. "clean" \in Verb /\ "qos" \in Unit
    BY Verbs
  <2>3. a \in Steps
    BY <2>1, <2>2, StepTyped
  <2> QED BY <2>3 DEF Step
<1>3. QosSteps(v, w) = <<a>> \o b
  BY DEF QosSteps
<1> HIDE DEF S
<1>4. SetToSeq(S) \in [1..Cardinality(S) -> S] /\ Cardinality(S) \in Nat
  BY <1>1, Listing
<1>5. ASSUME NEW n \in 1..Cardinality(S)
      PROVE  /\ Step("shape", "qos", {SetToSeq(S)[n]}) \in Steps
             /\ Step("shape", "qos", {SetToSeq(S)[n]}).on = "qos"
             /\ Step("shape", "qos", {SetToSeq(S)[n]}).do = "shape"
  <2>1. {SetToSeq(S)[n]} \in SUBSET (Section \union Item) /\ {SetToSeq(S)[n]} \subseteq Item
    BY <1>1, <1>4
  <2>2. "shape" \in Verb /\ "qos" \in Unit
    BY Verbs
  <2>3. Step("shape", "qos", {SetToSeq(S)[n]}) \in Steps
    BY <2>1, <2>2, StepTyped
  <2> QED BY <2>3 DEF Step
<1>6. b \in [1..Cardinality(S) -> Steps]
  BY <1>5
<1>7. /\ b \in Seq(Steps) /\ Len(b) = Cardinality(S)
      /\ \A n \in 1..Len(b) : b[n].on = "qos" /\ b[n].do = "shape"
  <2>0. b \in Seq(Steps)
    <3>1. Seq(Steps) = UNION {[1..n -> Steps] : n \in Nat}
      BY SeqDef
    <3> HIDE DEF b
    <3> QED BY <3>1, <1>4, <1>6
  <2>1. b \in Seq(Steps) /\ Len(b) = Cardinality(S)
    <3>1. DOMAIN b = 1..Len(b) /\ Len(b) \in Nat
      BY <2>0, LenProperties
    <3> QED BY <2>0, <3>1, <1>4
  <2> QED BY <2>1, <1>5
<1> HIDE DEF a, b
<1>8. <<a>> \in Seq(Steps) /\ Len(<<a>>) = 1 /\ <<a>>[1] = a
  BY <1>2
<1>9. /\ <<a>> \o b \in Seq(Steps) /\ Len(<<a>> \o b) = 1 + Len(b) /\ Len(b) \in Nat
      /\ \A n \in 1..(1 + Len(b)) : (<<a>> \o b)[n] = IF n <= 1 THEN <<a>>[n] ELSE b[n - 1]
  BY <1>7, <1>8, ConcatProperties, LenProperties
<1>10. ASSUME NEW n \in 1..Len(<<a>> \o b)
       PROVE  (<<a>> \o b)[n].on = "qos" /\ (<<a>> \o b)[n].do \in {"clean", "shape"}
  <2>1. CASE n = 1
    BY <2>1, <1>9, <1>8, <1>2
  <2>2. CASE n # 1
    <3>1. n - 1 \in 1..Len(b) /\ ~(n <= 1) /\ n \in 1..(1 + Len(b))
      BY <2>2, <1>9
    <3>2. (<<a>> \o b)[n] = b[n - 1]
      BY <3>1, <1>9
    <3> QED BY <3>1, <3>2, <1>7
  <2> QED BY <2>1, <2>2
<1>11. <<a>> \o b # <<>>
  BY <1>9, EmptySeq
<1> QED BY <1>3, <1>9, <1>10, <1>11 DEF Plans

LEMMA QosBase ==
  ASSUME Base, NEW p \in Proc, part = "qos", QosNext(p)
  PROVE  Base' /\ part' = part
<1>0. /\ World /\ stored \in Configs(part) /\ run \in Contents(part) /\ made \in Budget
      /\ \A s \in Section : stored[s] \in Value
      /\ "qos" \in Unit /\ "qos" \in Section /\ run["qos"] \in Content
      /\ \A S : Unshaped(S) \in Content
  BY ConfigSection, ContentOf, UnitNames DEF Base, World, Section, Unshaped, Content
<1>1. CASE Clean(p)
  <2>1. Set(p, "clean", "qos", Unshaped(Of(p)))
    BY <1>1 DEF Clean
  <2> QED BY <2>1, <1>0, SetBase
<1>2. CASE Shape(p)
  <2> DEFINE c == run["qos"] \union {<<"qos", i, "on">> : i \in Of(p)}
  <2>1. /\ Busy(p) /\ UNCHANGED <<stored, cache, file, cand, made>>
        /\ Head(req[p].todo).on = "qos"
        /\ \/ Failed(p) /\ run' = [run EXCEPT !["qos"] = Unshaped(Of(p))]
           \/ Advance(p) /\ run' = [run EXCEPT !["qos"] = c]
    BY <1>2 DEF Shape, At
  <2>2. Of(p) \subseteq Item
    BY <2>1, AtWork DEF At
  <2>3. c \in Content
    BY <2>2, <1>0, Fields DEF Content, Section, Mark
  <2> HIDE DEF c
  <2>4. part' = part => World'
    BY <2>1, <2>3, <1>0, Running1
  <2> QED BY <2>1, <2>4, Advancing, Breaking
<1>3. CASE ShapeFails(p)
  <2>1. /\ Busy(p) /\ UNCHANGED <<stored, cache, file, cand>> /\ Failed(p) /\ made' \in Budget
        /\ run' = [run EXCEPT !["qos"] = Unshaped(Of(p))]
    BY <1>3, Spent DEF ShapeFails, At
  <2>2. part' = part => World'
    BY <2>1, <1>0, Running1
  <2> QED BY <2>1, <2>2, Breaking
<1>4. CASE ApplyQos(p)
  <2>1. Begin(p, Request(QosSteps({}, stored.qos), stored, {"qos"}))
    BY <1>4 DEF ApplyQos
  <2>2. QosSteps({}, stored.qos) \in Plans /\ QosSteps({}, stored.qos) # <<>>
    BY QosPlan
  <2> QED BY <2>1, <2>2, <1>0, UnitsHere, AskedPlain
<1>5. CASE PutConfig(p)
  <2>1. PICK v \in QosValue :
          LET r == Request(<<Save("qos")>> \o QosSteps(stored.qos, v), [stored EXCEPT !.qos = v],
                           {"qos"})
          IN  Begin(p, [r EXCEPT !.undo = <<Step("restore", "store", {"qos"})>>
                                            \o QosSteps(v, stored.qos)])
    BY <1>5 DEF PutConfig
  <2> DEFINE k == [stored EXCEPT !["qos"] = v]
             q == <<Save("qos")>> \o QosSteps(stored.qos, v)
             t == <<Step("restore", "store", {"qos"})>> \o QosSteps(v, stored.qos)
             r == [Request(q, k, {"qos"}) EXCEPT !.undo = t]
  <2>2. Begin(p, r)
    BY <2>1
  <2>3. v \in Value
    BY DEF QosValue, Value, Field, Flag, Mark
  <2>4. k \in Configs(part)
    BY <2>3, <1>0, ConfigPut
  <2>5. <<Save("qos")>> \in Plans /\ <<Step("restore", "store", {"qos"})>> \in Plans
    <3>1. Save("qos") \in Steps /\ Step("restore", "store", {"qos"}) \in Steps
      BY <1>0, StoreTyped, StepTyped, Verbs
    <3> QED BY <3>1 DEF Plans
  <2>6. q \in Plans /\ q # <<>> /\ t \in Plans
    BY <2>5, QosPlan, PlanJoin
  <2> HIDE DEF q, k, t
  <2>7. Asks(r, q, k, {"qos"}, None, t)
    BY DEF Asks
  <2> HIDE DEF r
  <2> QED BY <2>2, <2>4, <2>6, <2>7, <1>0, UnitsHere, Asked
<1> QED BY <1>1, <1>2, <1>3, <1>4, <1>5 DEF QosNext
-----------------------------------------------------------------------------
\* The steps of the tunnels.

LEMMA TunnelContent ==
  ASSUME NEW c \in Content, NEW d \in Content, NEW i
  PROVE  Rewritten(c, i, d) \in Content /\ {e \in c : e[2] = i} \in Content
BY DEF Rewritten, Content

LEMMA WireGuardBase ==
  ASSUME Base, NEW p \in Proc, part = "wireguard", WireGuardNext(p)
  PROVE  Base' /\ part' = part
<1> DEFINE w == "wireguard"
<1>0. /\ World /\ stored \in Configs(part) /\ file \in Contents(part) /\ run \in Contents(part)
      /\ \A s \in Section : stored[s] \in Value
      /\ Item \subseteq Field /\ {"on", "moved", "off"} \subseteq Mark
      /\ w \in Section /\ w \in Unit /\ w \notin Kea /\ w # "unbound"
      /\ file[w] \in Content /\ run[w] \in Content /\ {} \in Content
      /\ cand \in [Kea -> Content] /\ made \in Budget
  BY ConfigSection, Fields, UnitNames, ContentOf DEF Base, World, Mark, Section, Kea
<1>1. \A do \in {"install", "up", "down", "remove"}, i \in Item : Step(do, w, {i}) \in Steps
  BY <1>0, StepTyped, Verbs
<1>2. CASE WriteTunnel(p)
  <2>1. PICK i \in Item :
          Install(p, w, Rewritten(file[w], i, Tunnel(i, req[p].view.wireguard)))
    BY <1>2 DEF WriteTunnel
  <2>2. req[p].view["wireguard"] \in Value
    <3>1. Busy(p)
      BY <2>1 DEF Install, At
    <3> QED BY <3>1, <1>0, AtWork, ConfigSection
  <2>3. Tunnel(i, req[p].view.wireguard) \in Content
    BY <2>2, <1>0 DEF Tunnel, Value, Content
  <2>4. Rewritten(file[w], i, Tunnel(i, req[p].view.wireguard)) \in Content
    BY <2>3, <1>0, TunnelContent
  <2> QED BY <2>1, <2>4, <1>0, InstallBase
<1>3. CASE BringUp(p)
  <2>1. PICK i \in Item :
          LET says == {e \in file[w] : e[2] = i}
              up == Up(i) # {}
          IN  /\ Busy(p)
              /\ IF up \/ (says # {} /\ Accepted(says))
                 THEN /\ Advance(p)
                      /\ run' = [run EXCEPT ![w] = IF up THEN @ ELSE @ \union says]
                 ELSE Failed(p) /\ UNCHANGED run
              /\ UNCHANGED <<stored, cache, file, cand, made>>
    BY <1>3 DEF BringUp, At
  <2> DEFINE says == {e \in file[w] : e[2] = i}
             c == IF Up(i) # {} THEN run[w] ELSE run[w] \union says
  <2>2. c \in Content
    BY <1>0 DEF Content
  <2>3. /\ Busy(p) /\ (Advance(p) \/ Failed(p)) /\ UNCHANGED <<stored, cache, file, cand, made>>
        /\ run' = run \/ run' = [run EXCEPT ![w] = c]
    BY <2>1
  <2> HIDE DEF c
  <2>4. run' = run /\ part' = part => World'
    BY <2>3, <1>0 DEF World
  <2>5. run' = [run EXCEPT ![w] = c] /\ part' = part => World'
    BY <2>2, <2>3, <1>0, Running1
  <2> QED BY <2>3, <2>4, <2>5, Advancing, Breaking
<1>4. CASE BringDown(p)
  <2>1. PICK i \in Item :
          /\ Busy(p)
          /\ IF \E e \in file[w] : e[2] = i
             THEN Advance(p) /\ run' = [run EXCEPT ![w] = Rewritten(@, i, {})]
             ELSE Become(p, Noted(Past(req[p]), "silent")) /\ UNCHANGED run
          /\ UNCHANGED <<stored, cache, file, cand, made>>
    BY <1>4 DEF BringDown, At
  <2> DEFINE c == Rewritten(run[w], i, {})
             r == Noted(Past(req[p]), "silent")
  <2>2. c \in Content
    BY <1>0, TunnelContent
  <2>3. /\ Busy(p) /\ UNCHANGED <<stored, cache, file, cand, made>>
        /\ \/ Advance(p) /\ run' = [run EXCEPT ![w] = c]
           \/ Become(p, r) /\ run' = run
    BY <2>1
  <2> HIDE DEF c
  <2>4. r \in Requests(part) /\ r.ans = "busy" /\ Alike(r, req[p])
    <3>1. /\ Past(req[p]) \in Requests(part) /\ Past(req[p]).ans = "busy" /\ "silent" \in Note
          /\ Past(req[p]).notes = req[p].notes
      BY <2>3, AtWork, Going DEF Note
    <3> QED BY <3>1, Noting DEF Alike
  <2> HIDE DEF r
  <2>5. run' = run /\ part' = part => World'
    BY <2>3, <1>0 DEF World
  <2>6. run' = [run EXCEPT ![w] = c] /\ part' = part => World'
    BY <2>2, <2>3, <1>0, Running1
  <2> QED BY <2>3, <2>4, <2>5, <2>6, Advancing, Stepping
<1>5. CASE RemoveTunnel(p)
  <2>1. PICK i \in Item :
          /\ Busy(p) /\ Advance(p)
          /\ file' = [file EXCEPT ![w] = Rewritten(@, i, {})]
          /\ UNCHANGED <<stored, cache, cand, run, made>>
    BY <1>5 DEF RemoveTunnel, At
  <2> DEFINE c == Rewritten(file[w], i, {})
  <2>2. c \in Content
    BY <1>0, TunnelContent
  <2>3. file' = [file EXCEPT ![w] = c]
    BY <2>1
  <2> HIDE DEF c
  <2>4. part' = part => World'
    BY <2>1, <2>2, <2>3, <1>0, Writing
  <2> QED BY <2>1, <2>4, Advancing
<1>6. CASE CreateTunnel(p)
  <2>1. PICK i \in Item, m \in {"on", "moved", "off"} :
          LET r == Request(<<Save("wireguard")>> \o
                             (IF m = "off" THEN <<Step("down", "wireguard", {i})>>
                              ELSE TunnelSteps(i)),
                           [stored EXCEPT !.wireguard = Put(@, i, m)], {"wireguard"})
          IN  Begin(p, [r EXCEPT !.item = i])
    BY <1>6 DEF CreateTunnel
  <2> DEFINE v == Put(stored["wireguard"], i, m)
             k == [stored EXCEPT !["wireguard"] = v]
             b == IF m = "off" THEN <<Step("down", w, {i})>> ELSE TunnelSteps(i)
             q == <<Save("wireguard")>> \o b
             r == [Request(q, k, {w}) EXCEPT !.item = i]
  <2>2. Begin(p, r)
    BY <2>1
  <2>3. v \in Value
    BY <1>0, Values
  <2> HIDE DEF v
  <2>4. k \in Configs(part)
    BY <2>3, <1>0, ConfigPut
  <2>5. b \in Plans
    BY <1>1 DEF TunnelSteps, Plans
  <2>6. <<Save("wireguard")>> \in Plans
    <3>1. Save("wireguard") \in Steps
      BY <1>0, StoreTyped
    <3> QED BY <3>1 DEF Plans
  <2> HIDE DEF b, k
  <2>7. q \in Plans /\ q # <<>>
    BY <2>5, <2>6, PlanJoin
  <2> HIDE DEF q
  <2>8. Asks(r, q, k, {w}, i, <<>>) /\ <<>> \in Plans
    BY DEF Asks, Plans
  <2> HIDE DEF r
  <2> QED BY <2>2, <2>4, <2>7, <2>8, <1>0, UnitsHere, Asked
<1>7. CASE DeleteTunnel(p)
  <2>1. PICK i \in Item :
          LET r == Request(<<Step("down", "wireguard", {i}), Step("remove", "wireguard", {i}),
                             Save("wireguard")>>,
                           [stored EXCEPT !.wireguard = Without(@, i)], {"wireguard"})
          IN  Begin(p, [r EXCEPT !.item = i])
    BY <1>7 DEF DeleteTunnel
  <2> DEFINE v == Without(stored["wireguard"], i)
             k == [stored EXCEPT !["wireguard"] = v]
             q == <<Step("down", w, {i}), Step("remove", w, {i}), Save("wireguard")>>
             r == [Request(q, k, {w}) EXCEPT !.item = i]
  <2>2. Begin(p, r)
    BY <2>1
  <2>3. v \in Value
    BY <1>0, Values
  <2> HIDE DEF v
  <2>4. k \in Configs(part)
    BY <2>3, <1>0, ConfigPut
  <2>5. Save("wireguard") \in Steps
    BY <1>0, StoreTyped
  <2>6. q \in Plans /\ q # <<>>
    BY <1>1, <2>5 DEF Plans
  <2> HIDE DEF q, k
  <2>7. Asks(r, q, k, {w}, i, <<>>) /\ <<>> \in Plans
    BY DEF Asks, Plans
  <2> HIDE DEF r
  <2> QED BY <2>2, <2>4, <2>6, <2>7, <1>0, UnitsHere, Asked
<1> QED BY <1>2, <1>3, <1>4, <1>5, <1>6, <1>7 DEF WireGuardNext

-----------------------------------------------------------------------------
\* The steps of Suricata, Caddy and the Cloudflare tunnel.

LEMMA Apps ==
  /\ App = {"suricata", "caddy", "tunnel"} /\ App \subseteq Unit /\ App \subseteq Section
  /\ \A u \in App : u \notin Kea /\ u # "unbound"
BY DEF App, Unit, Section, Kea

LEMMA AppPlans ==
  ASSUME NEW v
  PROVE  SuricataSteps(v) \in Plans /\ CaddySteps(v) \in Plans /\ TunnelAppSteps(v) \in Plans
<1>1. \A u \in App, do \in {"install", "signal", "enable", "stop", "reload"} : Plain(do, u) \in Steps
  BY PlainTyped, Verbs, Apps
<1>2. SuricataSteps(v) \in Plans
  BY <1>1, Apps DEF SuricataSteps, Plans
<1>3. CaddySteps(v) \in Plans
  BY <1>1, Apps DEF CaddySteps, AppOff, Plans
<1>4. TunnelAppSteps(v) \in Plans
  BY <1>1, Apps DEF TunnelAppSteps, AppOff, Plans
<1> QED BY <1>2, <1>3, <1>4

LEMMA AppStepsBase ==
  ASSUME Base, NEW p \in Proc,
         \/ InstallApp(p) \/ StopApp(p) \/ RestartApp(p) \/ Enable(p)
         \/ SignalSuricata(p) \/ ReloadCaddy(p)
  PROVE  Base' /\ part' = part
<1>0. /\ World /\ file \in Contents(part) /\ run \in Contents(part) /\ {} \in Content
      /\ \A u \in App : file[u] \in Content /\ run[u] \in Content /\ u \in Section
      /\ cand \in [Kea -> Content] /\ made \in Budget
  BY ContentOf, Apps DEF Base, World, Content
<1>1. CASE InstallApp(p)
  <2>1. PICK u \in App : Install(p, u, Entries(u, req[p].view[u]))
    BY <1>1 DEF InstallApp
  <2>2. Busy(p)
    BY <2>1 DEF Install, At
  <2>3. req[p].view[u] \in Value
    BY <2>2, <1>0, AtWork, ConfigSection
  <2>4. Entries(u, req[p].view[u]) \in Content
    BY <2>3, <1>0, EntriesContent
  <2> QED BY <2>1, <2>4, Apps, InstallBase
<1>2. CASE StopApp(p)
  BY <1>2, <1>0, Apps, SetBase DEF StopApp
<1>3. CASE RestartApp(p)
  BY <1>3, Apps, StartBase DEF RestartApp
<1>4. CASE Enable(p)
  <2>1. PICK u \in App :
          /\ Busy(p) /\ UNCHANGED <<stored, cache, file, cand, made>>
          /\ IF run[u] # {} \/ Accepted(file[u])
             THEN Advance(p) /\ run' = [run EXCEPT ![u] = IF @ = {} THEN file[u] ELSE @]
             ELSE Failed(p) /\ UNCHANGED run
    BY <1>4 DEF Enable, At
  <2> DEFINE c == IF run[u] = {} THEN file[u] ELSE run[u]
  <2>2. c \in Content
    BY <1>0
  <2>3. (Advance(p) \/ Failed(p)) /\ (run' = run \/ run' = [run EXCEPT ![u] = c])
    BY <2>1
  <2> HIDE DEF c
  <2>4. run' = run /\ part' = part => World'
    BY <2>1, <1>0 DEF World
  <2>5. run' = [run EXCEPT ![u] = c] /\ part' = part => World'
    BY <2>1, <2>2, <1>0, Apps, Running1
  <2> QED BY <2>1, <2>3, <2>4, <2>5, Advancing, Breaking
<1>5. CASE SignalSuricata(p)
  <2> DEFINE old == run["suricata"]
             new == file["suricata"]
             c == (new \ Monitored(new)) \union Monitored(old)
             r == Skip(req[p], "suricata")
  <2>1. /\ Busy(p) /\ UNCHANGED <<stored, cache, file, cand, made>>
        /\ \/ Advance(p) /\ run' = run
           \/ Become(p, r) /\ run' = [run EXCEPT !["suricata"] = c]
    BY <1>5 DEF SignalSuricata, At
  <2>2. c \in Content
    BY <1>0, Apps DEF Monitored, Content
  <2> HIDE DEF c
  <2>3. r \in Requests(part) /\ r.ans = "busy" /\ Alike(r, req[p])
    BY <2>1, AtWork, Passing DEF Alike
  <2> HIDE DEF r
  <2>4. run' = run /\ part' = part => World'
    BY <2>1, <1>0 DEF World
  <2>5. run' = [run EXCEPT !["suricata"] = c] /\ part' = part => World'
    BY <2>1, <2>2, <1>0, Apps, Running1
  <2> QED BY <2>1, <2>3, <2>4, <2>5, Advancing, Stepping
<1>6. CASE ReloadCaddy(p)
  <2>1. /\ Busy(p) /\ (Advance(p) \/ Failed(p)) /\ UNCHANGED <<stored, cache, file, cand, made>>
        /\ run' = run \/ run' = [run EXCEPT !["caddy"] = file["caddy"]]
    BY <1>6 DEF ReloadCaddy, At
  <2>2. run' = run /\ part' = part => World'
    BY <2>1, <1>0 DEF World
  <2>3. run' = [run EXCEPT !["caddy"] = file["caddy"]] /\ part' = part => World'
    BY <2>1, <1>0, Apps, Running1
  <2> QED BY <2>1, <2>2, <2>3, Advancing, Breaking
<1> QED BY <1>1, <1>2, <1>3, <1>4, <1>5, <1>6

LEMMA AppRequestsBase ==
  ASSUME Base, NEW p \in Proc,
         \/ UpdateSuricata(p) \/ UpdateInterfaceSuricata(p) \/ UpdateCaddy(p) \/ UpdateTunnel(p)
         \/ RestartCaddy(p) \/ RestartTunnel(p)
  PROVE  Base' /\ part' = part
<1>0. /\ stored \in Configs(part) /\ \A u \in App : stored[u] \in Value /\ u \in Section /\ u \in Unit
      /\ Item \subseteq Field /\ Port \subseteq Field /\ Flag \subseteq Field
      /\ "suricata" \in App /\ "caddy" \in App /\ "tunnel" \in App
  BY ConfigSection, Fields, Apps DEF Base, World
<1>1. ASSUME NEW S \in SUBSET (Item \union Port), NEW on \in BOOLEAN
      PROVE  OnOff(Some(S), on) \in Value
  <2>1. Some(S) \in Value
    BY <1>0 DEF Some, Value, Mark
  <2>2. "enabled" \in Field
    BY <1>0 DEF Flag
  <2> HIDE DEF Field
  <2>3. Flagged(Some(S), "enabled", on) \in Value
    BY <2>1, <2>2, Values DEF Mark
  <2> QED BY <2>3 DEF OnOff
<1>2. ASSUME NEW u \in App, NEW v \in Value, NEW q \in Plans, ApplyApp(p, u, v, q)
      PROVE  Base' /\ part' = part
  <2> DEFINE k == [stored EXCEPT ![u] = v]
             a == <<Save(u)>> \o q
  <2>1. Begin(p, Request(a, k, {u}))
    BY <1>2 DEF ApplyApp
  <2>2. k \in Configs(part)
    <3>1. u \notin {"interfaces", "nat", "gateways", "dhcp4", "dhcp6"}
      BY Apps
    <3> QED BY <3>1, <1>0, ConfigPut
  <2>3. <<Save(u)>> \in Plans
    <3>1. Save(u) \in Steps
      BY <1>0, StoreTyped
    <3> QED BY <3>1 DEF Plans
  <2>4. a \in Plans /\ a # <<>>
    BY <2>3, PlanJoin
  <2>5. {u} \in SUBSET Units(part)
    BY <1>0, UnitsHere DEF App
  <2> HIDE DEF a, k
  <2> QED BY <2>1, <2>2, <2>4, <2>5, AskedPlain
<1>3. CASE UpdateSuricata(p)
  <2>1. PICK on \in BOOLEAN, S \in SUBSET (Item \ Refused), F \in SUBSET Port :
          LET v == OnOff(Some(S \union F), on) IN ApplyApp(p, "suricata", v, SuricataSteps(v))
    BY <1>3 DEF UpdateSuricata
  <2> DEFINE v == OnOff(Some(S \union F), on)
  <2>2. v \in Value
    BY <1>1
  <2>3. ApplyApp(p, "suricata", v, SuricataSteps(v))
    BY <2>1
  <2> HIDE DEF v
  <2> QED BY <2>2, <2>3, <1>0, <1>2, AppPlans
<1>4. CASE UpdateInterfaceSuricata(p)
  <2>1. PICK f \in Port, monitored \in BOOLEAN :
          LET v == Flagged(stored.suricata, f, monitored)
          IN  ApplyApp(p, "suricata", v, SuricataSteps(v))
    BY <1>4 DEF UpdateInterfaceSuricata
  <2> DEFINE v == Flagged(stored["suricata"], f, monitored)
  <2>0. stored["suricata"] \in Value /\ f \in Field
    BY <1>0
  <2>2. v \in Value
    BY <2>0, Values DEF Mark
  <2>3. ApplyApp(p, "suricata", v, SuricataSteps(v))
    BY <2>1
  <2> HIDE DEF v
  <2> QED BY <2>2, <2>3, <1>0, <1>2, AppPlans
<1>5. CASE UpdateCaddy(p)
  <2>1. PICK on \in BOOLEAN, S \in SUBSET Item :
          LET v == OnOff(Some(S), on) IN ApplyApp(p, "caddy", v, CaddySteps(v))
    BY <1>5 DEF UpdateCaddy
  <2> DEFINE v == OnOff(Some(S), on)
  <2>2. v \in Value
    BY <1>1
  <2>3. ApplyApp(p, "caddy", v, CaddySteps(v))
    BY <2>1
  <2> HIDE DEF v
  <2> QED BY <2>2, <2>3, <1>0, <1>2, AppPlans
<1>6. CASE UpdateTunnel(p)
  <2>1. PICK on \in BOOLEAN, S \in SUBSET Item :
          LET v == OnOff(Some(S), on) IN ApplyApp(p, "tunnel", v, TunnelAppSteps(v))
    BY <1>6 DEF UpdateTunnel
  <2> DEFINE v == OnOff(Some(S), on)
  <2>2. v \in Value
    BY <1>1
  <2>3. ApplyApp(p, "tunnel", v, TunnelAppSteps(v))
    BY <2>1
  <2> HIDE DEF v
  <2> QED BY <2>2, <2>3, <1>0, <1>2, AppPlans
<1>7. \A u \in App : <<Plain("start", u)>> \in Plans /\ <<Plain("start", u)>> # <<>>
  <2>1. \A u \in App : Plain("start", u) \in Steps
    BY PlainTyped, Verbs, Apps
  <2> QED BY <2>1 DEF Plans
<1>8. CASE RestartCaddy(p)
  <2>1. Begin(p, Request(<<Plain("start", "caddy")>>, stored, {}))
    BY <1>8 DEF RestartCaddy
  <2> QED BY <2>1, <1>0, <1>7, AskedPlain
<1>9. CASE RestartTunnel(p)
  <2>1. Begin(p, Request(<<Plain("start", "tunnel")>>, stored, {}))
    BY <1>9 DEF RestartTunnel
  <2> QED BY <2>1, <1>0, <1>7, AskedPlain
<1> QED BY <1>3, <1>4, <1>5, <1>6, <1>8, <1>9
-----------------------------------------------------------------------------
\* The steps of the interfaces and gateways.

LEMMA Links ==
  ASSUME NEW P, NEW f \in Contents(P), NEW S \in SUBSET Item, NEW i \in Item
  PROVE  /\ f["links"] \in Content /\ f["route"] \in Content
         /\ f["links"] \ {Link(j) : j \in S} \in Content
         /\ f["links"] \union {Link(i)} \in Content
         /\ f["route"] \ {Default(j) : j \in S} \in Content
         /\ {Default(j) : j \in S} \in Content /\ {Default(i)} \in Content
<1>1. f["links"] \in Content /\ f["route"] \in Content
  BY ContentOf, UnitNames
<1>2. \A j \in Item : Link(j) \in Section \X Field \X Mark /\ Default(j) \in Section \X Field \X Mark
  BY Fields DEF Link, Default, Section, Mark
<1> QED BY <1>1, <1>2 DEF Content

LEMMA Linking ==
  ASSUME Base, NEW S, NEW i \in Item
  PROVE  LinkDown(S) \in Contents(part) /\ LinkUp(i) \in Contents(part) /\ LinkSet(i) \in Contents(part)
<1> DEFINE a == run["links"] \ {Link(j) : j \in S}
           b == run["route"] \ {Default(j) : j \in S}
           c == run["links"] \union {Link(i)}
           d == IF i \in Wan THEN {Default(i)} ELSE run["route"]
<1>1. /\ run \in Contents(part) /\ "links" \in Unit /\ "route" \in Unit
      /\ "links" \notin {"kea4", "kea6", "unbound"} /\ "route" \notin {"kea4", "kea6", "unbound"}
  BY UnitNames DEF Base, World
<1>2. c \in Content /\ d \in Content /\ run["links"] \in Content /\ run["route"] \in Content
  BY <1>1, Links
<1>3. a \in Content /\ b \in Content
  BY <1>2 DEF Content
<1>4. /\ LinkDown(S) = [[run EXCEPT !["links"] = a] EXCEPT !["route"] = b]
      /\ LinkUp(i) = [run EXCEPT !["links"] = c]
      /\ LinkSet(i) = [LinkUp(i) EXCEPT !["route"] = d]
  <2>1. LinkUp(i)["route"] = run["route"]
    BY <1>1 DEF LinkUp
  <2>2. LinkDown(S) = [[run EXCEPT !["links"] = a] EXCEPT !["route"] = b]
    BY DEF LinkDown
  <2> QED BY <2>1, <2>2 DEF LinkUp, LinkSet
<1> HIDE DEF a, b, c, d
<1>5. [run EXCEPT !["links"] = a] \in Contents(part)
  BY <1>1, <1>3, ContentPlain
<1>6. [[run EXCEPT !["links"] = a] EXCEPT !["route"] = b] \in Contents(part)
  BY <1>1, <1>3, <1>5, ContentPlain
<1>7. [run EXCEPT !["links"] = c] \in Contents(part)
  BY <1>1, <1>2, ContentPlain
<1>8. LinkUp(i) \in Contents(part)
  BY <1>4, <1>7
<1> HIDE DEF LinkUp
<1>9. [LinkUp(i) EXCEPT !["route"] = d] \in Contents(part)
  BY <1>1, <1>2, <1>8, ContentPlain
<1> QED BY <1>4, <1>6, <1>8, <1>9

LEMMA ConfiguredBase ==
  ASSUME Base, NEW p \in Proc, Busy(p), NEW i \in Item, NEW up, NEW r \in Requests(part),
         r.ans = "busy", Alike(r, req[p]), Configured(p, i, up, r), made' \in Budget
  PROVE  Base' /\ part' = part
<1>1. /\ UNCHANGED <<stored, cache, file, cand>> /\ (Failed(p) \/ Become(p, r))
      /\ run' = LinkUp(i) \/ run' = LinkSet(i) \/ run' = LinkDown({i})
  BY DEF Configured
<1>2. run' \in Contents(part)
  BY <1>1, Linking
<1>3. part' = part => World'
  BY <1>1, <1>2 DEF Base, World
<1> QED BY <1>1, <1>3, Breaking, Stepping

LEMMA LinkStepsBase ==
  ASSUME Base, NEW p \in Proc, part = "net",
         \/ Upsert(p) \/ Drop(p) \/ CloneList(p) \/ Recache(p) \/ SyncNat(p) \/ SyncGateways(p)
         \/ Consult(p) \/ ApplyLink(p) \/ SyncLink(p) \/ LinkFails(p) \/ Teardown(p)
         \/ ApplyGateway(p) \/ RemoveGateway(p)
  PROVE  Base' /\ part' = part
<1>0. /\ World /\ Lists(part) = Value /\ Wan \subseteq Item /\ cache \in Value /\ made \in Budget
      /\ stored \in Configs(part) /\ \A s \in Section : stored[s] \in Value
      /\ \A k \in Configs(part) : k["interfaces"] \in Value
      /\ {"interfaces", "nat", "gateways"} \subseteq Section
  BY LinkAssumption, ConfigSection DEF Base, World, Lists, Section
<1>1. Busy(p)
  <2>1. SyncLink(p) => Busy(p)
    BY DEF SyncLink, At
  <2>2. ApplyLink(p) => Busy(p)
    BY DEF ApplyLink, At
  <2>3. LinkFails(p) => Busy(p)
    BY DEF LinkFails, At
  <2>4. Upsert(p) => Busy(p)
    BY DEF Upsert, At
  <2> QED BY <2>1, <2>2, <2>3, <2>4 DEF Drop, CloneList, Recache, SyncNat, SyncGateways, Consult, Teardown,
       ApplyGateway, RemoveGateway, Set, At
<1>2. /\ req[p] \in Requests(part) /\ req[p].ans = "busy" /\ req[p].todo # <<>> /\ req[p].todo \in Plans
      /\ req[p].view \in Configs(part) /\ req[p].prev \in Configs(part) /\ req[p].was \in Value
      /\ Head(req[p].todo).on # "store" => Of(p) \subseteq Item
      /\ req[p].view["interfaces"] \in Value /\ req[p].prev["interfaces"] \in Value
  BY <1>0, <1>1, AtWork
<1>3. /\ Past(req[p]) \in Requests(part) /\ Past(req[p]).ans = "busy" /\ Tail(req[p].todo) \in Plans
      /\ Past(req[p]).notes = req[p].notes /\ Alike(Past(req[p]), req[p])
  BY <1>2, Going, TailTyped DEF Alike
<1>4. CASE Upsert(p)
  <2>1. PICK m \in {"on", "off"} :
          /\ <<req[p].item, m>> \in req[p].view.interfaces
          /\ cache' = Put(cache, req[p].item, m)
          /\ Become(p, [Past(req[p]) EXCEPT !.was = req[p].prev.interfaces])
          /\ UNCHANGED <<stored, file, cand, run, made>>
    BY <1>4 DEF Upsert
  <2> DEFINE r == [Past(req[p]) EXCEPT !.was = req[p].prev["interfaces"]]
  <2>2. r \in Requests(part) /\ r.ans = "busy" /\ Alike(r, req[p])
    BY <1>0, <1>2, <1>3 DEF Requests, Alike
  <2>3. Become(p, r)
    BY <2>1
  <2> HIDE DEF r
  <2>4. req[p].item \in Field
    BY <2>1, <1>2 DEF Value
  <2>5. cache' \in Value
    BY <2>1, <2>4, <1>0, Values DEF Mark
  <2>6. part' = part => World'
    BY <2>1, <2>5, <1>0 DEF World
  <2> QED BY <2>2, <2>3, <2>6, <1>1, Stepping
<1>5. CASE Drop(p)
  <2> DEFINE r == [Past(req[p]) EXCEPT !.was = cache]
             gone == Household(req[p].item) \intersect Named(cache)
  <2>1. /\ (Failed(p) \/ Become(p, r)) /\ UNCHANGED <<stored, file, cand, run, made>>
        /\ cache' = {e \in cache : e[1] \notin gone}
    BY <1>5 DEF Drop
  <2>2. r \in Requests(part) /\ r.ans = "busy" /\ Alike(r, req[p])
    BY <1>0, <1>3 DEF Requests, Alike
  <2>3. cache' \in Value
    BY <2>1, <1>0 DEF Value
  <2> HIDE DEF r, gone
  <2>4. part' = part => World'
    BY <2>1, <2>3, <1>0 DEF World
  <2> QED BY <2>1, <2>2, <2>4, <1>1, Stepping, Breaking
<1>6. CASE CloneList(p)
  <2> DEFINE k == [Past(req[p]).view EXCEPT !["interfaces"] = cache]
             r == [Past(req[p]) EXCEPT !.view = k]
  <2>1. Become(p, r) /\ UNCHANGED <<system, made>>
    BY <1>6 DEF CloneList
  <2>2. k \in Configs(part)
    <3>1. Past(req[p]).view \in Configs(part)
      BY <1>3 DEF Requests
    <3> QED BY <3>1, <1>0, ConfigPut
  <2> HIDE DEF k
  <2>3. r \in Requests(part) /\ r.ans = "busy" /\ Alike(r, req[p])
    BY <2>2, <1>3 DEF Requests, Alike
  <2> HIDE DEF r
  <2> QED BY <2>1, <2>3, <1>0, <1>1, Still, Stepping
<1>7. CASE Recache(p)
  <2>1. Advance(p) /\ cache' = req[p].view["interfaces"] /\ UNCHANGED <<stored, file, cand, run, made>>
    BY <1>7 DEF Recache
  <2>2. part' = part => World'
    BY <2>1, <1>0, <1>2 DEF World
  <2> QED BY <2>1, <2>2, <1>1, Advancing
<1>8. CASE SyncNat(p)
  <2> DEFINE v == Translated(req[p].view["interfaces"])
  <2>1. Advance(p) /\ stored' = [stored EXCEPT !["nat"] = v] /\ UNCHANGED <<cache, file, cand, run, made>>
    BY <1>8 DEF SyncNat
  <2>2. v \in Value
    BY <1>0, Fields DEF Translated, WanOf, Value, Mark
  <2> HIDE DEF v
  <2>3. stored' \in Configs(part)
    BY <2>1, <2>2, <1>0, ConfigPut
  <2>4. part' = part => World'
    BY <2>1, <2>3, <1>0 DEF World
  <2> QED BY <2>1, <2>4, <1>1, Advancing
<1>9. CASE SyncGateways(p)
  <2> DEFINE v == {e \in stored["gateways"] : e[2] # "auto"} \union Automatic(req[p].view["interfaces"])
  <2>1. Advance(p) /\ stored' = [stored EXCEPT !["gateways"] = v] /\ UNCHANGED <<cache, file, cand, run, made>>
    BY <1>9 DEF SyncGateways
  <2>2. v \in Value
    <3>1. Automatic(req[p].view["interfaces"]) \in Value
      BY <1>0, Fields DEF Automatic, WanOf, Value, Mark
    <3> QED BY <3>1, <1>0 DEF Value
  <2> HIDE DEF v
  <2>3. stored' \in Configs(part)
    BY <2>1, <2>2, <1>0, ConfigPut
  <2>4. part' = part => World'
    BY <2>1, <2>3, <1>0 DEF World
  <2> QED BY <2>1, <2>4, <1>1, Advancing
<1>10. CASE ApplyLink(p)
  <2>1. PICK i \in Item : Configured(p, i, Of(p) # {}, Past(req[p])) /\ UNCHANGED made
    BY <1>10 DEF ApplyLink
  <2> QED BY <2>1, <1>0, <1>1, <1>3, ConfiguredBase
<1>11. CASE SyncLink(p)
  <2>1. PICK i \in Item :
          /\ At(p, "sync", "links") /\ i \in Of(p) /\ UNCHANGED made
          /\ \/ Become(p, Synced(p, i)) /\ UNCHANGED system
             \/ Configured(p, i, Has(req[p].view.interfaces, i), Synced(p, i))
    BY <1>11 DEF SyncLink
  <2>2. Synced(p, i) \in Requests(part) /\ Synced(p, i).ans = "busy" /\ Alike(Synced(p, i), req[p])
    <3> DEFINE s == Step("sync", "links", Of(p) \ {i})
               q == <<s>> \o Tail(req[p].todo)
    <3>1. s \in Steps
      <4>1. Of(p) \ {i} \in SUBSET (Section \union Item) /\ Of(p) \ {i} \subseteq Item
        BY <2>1, <1>2 DEF At
      <4> QED BY <4>1, StepTyped, Verbs
    <3>2. <<s>> \in Plans
      BY <3>1 DEF Plans
    <3>3. q \in Plans
      BY <3>2, <1>3, PlanJoin
    <3> HIDE DEF q
    <3>4. /\ [req[p] EXCEPT !.todo = q] \in Requests(part) /\ [req[p] EXCEPT !.todo = q].ans = "busy"
          /\ Alike([req[p] EXCEPT !.todo = q], req[p])
      BY <3>3, <1>2 DEF Requests, Alike
    <3>5. Synced(p, i) = Past(req[p]) \/ Synced(p, i) = [req[p] EXCEPT !.todo = q]
      BY DEF Synced, q
    <3> QED BY <3>4, <3>5, <1>3
  <2>3. CASE Become(p, Synced(p, i)) /\ UNCHANGED system
    BY <2>1, <2>2, <2>3, <1>0, <1>1, Still, Stepping
  <2>4. CASE Configured(p, i, Has(req[p].view.interfaces, i), Synced(p, i))
    BY <2>1, <2>2, <2>4, <1>0, <1>1, ConfiguredBase
  <2> QED BY <2>1, <2>3, <2>4
<1>12. CASE LinkFails(p)
  <2>1. PICK i \in Item :
          /\ made' \in Budget /\ (run' = LinkUp(i) \/ run' = LinkDown({i}))
          /\ Failed(p) /\ UNCHANGED <<stored, cache, file, cand>>
    BY <1>12, Spent DEF LinkFails
  <2>2. run' \in Contents(part)
    BY <2>1, Linking
  <2>3. part' = part => World'
    BY <2>1, <2>2, <1>0 DEF World
  <2> QED BY <2>1, <2>3, <1>1, Breaking
<1>13. CASE Teardown(p)
  <2> DEFINE S == {req[p].item} \union (Household(req[p].item) \intersect Named(req[p].was))
  <2>1. Advance(p) /\ run' = LinkDown(S) /\ UNCHANGED <<stored, cache, file, cand, made>>
    BY <1>13 DEF Teardown
  <2> HIDE DEF S
  <2>3. run' \in Contents(part)
    <3> DEFINE a == run["links"] \ {Link(j) : j \in S}
               b == run["route"] \ {Default(j) : j \in S}
    <3>1. /\ run \in Contents(part) /\ "links" \in Unit /\ "route" \in Unit
          /\ run["links"] \in Content /\ run["route"] \in Content
      BY <1>0, UnitNames, ContentOf DEF World
    <3>2. a \in Content /\ b \in Content
      BY <3>1 DEF Content
    <3>3. run' = [[run EXCEPT !["links"] = a] EXCEPT !["route"] = b]
      BY <2>1 DEF LinkDown
    <3> HIDE DEF a, b
    <3>4. [run EXCEPT !["links"] = a] \in Contents(part)
      BY <3>1, <3>2, ContentPut
    <3> QED BY <3>1, <3>2, <3>3, <3>4, ContentPut
  <2>4. part' = part => World'
    BY <2>1, <2>3, <1>0 DEF World
  <2> QED BY <2>1, <2>4, <1>1, Advancing
<1>14. CASE ApplyGateway(p)
  <2> DEFINE c == {Default(i) : i \in Of(p)}
  <2>1. /\ (Failed(p) \/ Advance(p)) /\ UNCHANGED <<stored, cache, file, cand, made>>
        /\ (run' = run \/ run' = [run EXCEPT !["route"] = c]) /\ Of(p) \subseteq Item
    BY <1>14, <1>2 DEF ApplyGateway, At
  <2>2. c \in Content
    BY <2>1, Fields DEF Content, Default, Section, Mark
  <2> HIDE DEF c
  <2>3. run' = run /\ part' = part => World'
    BY <2>1, <1>0 DEF World
  <2>4. run' = [run EXCEPT !["route"] = c] /\ part' = part => World'
    BY <2>1, <2>2, <1>0, UnitNames, Running1
  <2> QED BY <2>1, <2>3, <2>4, <1>1, Advancing, Breaking
<1>15. CASE RemoveGateway(p)
  <2>1. run["route"] \ {Default(i) : i \in Of(p)} \in Content
    <3>1. run["route"] \in Content
      BY <1>0, UnitNames, ContentOf DEF World
    <3> QED BY <3>1 DEF Content
  <2> QED BY <2>1, <1>15, UnitNames, SetBase DEF RemoveGateway
<1>16. CASE Consult(p)
  <2>1. Advance(p) /\ UNCHANGED <<stored, cache, file, cand, run, made>>
    BY <1>16 DEF Consult, system
  <2>2. part' = part => World'
    BY <2>1, <1>0 DEF World
  <2> QED BY <2>1, <2>2, <1>1, Advancing
<1> QED BY <1>4, <1>5, <1>6, <1>7, <1>8, <1>9, <1>10, <1>11, <1>12, <1>13, <1>14, <1>15, <1>16
LEMMA LinkSteps ==
  /\ \A do \in {"upsert", "drop", "clone", "recache", "teardown"} : Plain(do, "links") \in Steps
  /\ \A do \in {"savenat", "saveauto", "consult"} : Plain(do, "store") \in Steps
  /\ Plain("publish", "nft") \in Steps /\ Plain("refresh", "nft") \in Steps
  /\ Save("interfaces") \in Steps /\ Save("gateways") \in Steps
  /\ Step("restore", "store", Section) \in Steps
  /\ \A S \in SUBSET Item : /\ Step("link", "links", S) \in Steps /\ Step("sync", "links", S) \in Steps
                            /\ Step("set", "route", S) \in Steps /\ Step("down", "route", S) \in Steps
<1>1. \A do \in {"upsert", "drop", "clone", "recache", "teardown"} : Plain(do, "links") \in Steps
  BY PlainTyped, Verbs
<1>2. \A do \in {"savenat", "saveauto", "consult"} : Plain(do, "store") \in Steps
  BY PlainTyped, Verbs
<1>3. Plain("publish", "nft") \in Steps /\ Plain("refresh", "nft") \in Steps
  BY PlainTyped, Verbs
<1>4. Save("interfaces") \in Steps /\ Save("gateways") \in Steps
  BY StoreTyped DEF Section
<1>5. Step("restore", "store", Section) \in Steps
  BY StepTyped, Verbs
<1>6. \A S \in SUBSET Item : /\ Step("link", "links", S) \in Steps /\ Step("sync", "links", S) \in Steps
                             /\ Step("set", "route", S) \in Steps /\ Step("down", "route", S) \in Steps
  BY StepTyped, Verbs
<1> QED BY <1>1, <1>2, <1>3, <1>4, <1>5, <1>6

LEMMA ForLinkBase ==
  ASSUME Base, NEW p \in Proc, NEW i \in Item, NEW change \in {"upsert", "drop"}, NEW act \in Steps,
         NEW end \in Plans, NEW k \in Configs(part), ForLink(p, i, change, act, end, k)
  PROVE  Base' /\ part' = part
<1> DEFINE save == <<Plain(change, "links"), Plain("clone", "links"), Save("interfaces"),
                     Plain("savenat", "store"), Plain("saveauto", "store")>>
           q == (save \o <<act, Plain("publish", "nft")>>) \o end
           t == <<Step("restore", "store", Section), Plain("recache", "links")>>
           U == {"links", "nft"}
           r == [Request(q, k, U) EXCEPT !.item = i, !.undo = t]
<1>1. Begin(p, r)
  BY DEF ForLink
<1>2. save \in Plans /\ <<act, Plain("publish", "nft")>> \in Plans /\ t \in Plans
      /\ save # <<>>
  BY LinkSteps DEF Plans
<1> HIDE DEF save, t
<1>3. q \in Plans /\ q # <<>>
  <2> DEFINE a == save \o <<act, Plain("publish", "nft")>>
  <2>1. a \in Plans /\ a # <<>>
    BY <1>2, PlanJoin
  <2> HIDE DEF a
  <2>2. a \o end \in Plans /\ a \o end # <<>>
    BY <2>1, PlanJoin
  <2> QED BY <2>2 DEF a
<1> HIDE DEF q
<1>4. Asks(r, q, k, U, i, t)
  BY DEF Asks
<1>5. U \in SUBSET Units(part)
  <2>1. part = "net"
    BY DEF ForLink
  <2> QED BY <2>1, UnitNames, UnitsHere
<1> HIDE DEF r, U
<1> QED BY <1>1, <1>2, <1>3, <1>4, <1>5, Asked

LEMMA LinkRequestsBase ==
  ASSUME Base, NEW p \in Proc, part = "net",
         \/ CreateInterface(p) \/ DeleteInterface(p) \/ ListInterfaces(p)
         \/ UpsertGateway(p) \/ DeleteGateway(p)
  PROVE  Base' /\ part' = part
<1>0. /\ stored \in Configs(part)
      /\ stored["interfaces"] \in Value /\ stored["gateways"] \in Value
      /\ \A s \in {"interfaces", "gateways"}, v \in Value : [stored EXCEPT ![s] = v] \in Configs(part)
      /\ Item \subseteq Field /\ {"on", "off"} \subseteq Mark
  BY ConfigSection, ConfigPut, Fields DEF Base, World, Section, Mark
<1>1. CASE CreateInterface(p)
  <2>1. PICK i \in Item, m \in {"on", "off"} :
          ForLink(p, i, "upsert", Step("link", "links", IF m = "on" THEN {i} ELSE {}), <<>>,
                  [stored EXCEPT !.interfaces = Put(@, i, m)])
    BY <1>1 DEF CreateInterface
  <2> DEFINE S == IF m = "on" THEN {i} ELSE {}
             v == Put(stored["interfaces"], i, m)
             k == [stored EXCEPT !["interfaces"] = v]
  <2>2. ForLink(p, i, "upsert", Step("link", "links", S), <<>>, k)
    BY <2>1
  <2>3. v \in Value /\ S \in SUBSET Item
    BY <1>0, Values
  <2> HIDE DEF v, S
  <2>4. k \in Configs(part) /\ Step("link", "links", S) \in Steps
    BY <2>3, <1>0, LinkSteps
  <2> HIDE DEF k
  <2>5. <<>> \in Plans
    BY DEF Plans
  <2> QED BY <2>2, <2>4, <2>5, ForLinkBase
<1>2. CASE DeleteInterface(p)
  <2>1. PICK i \in Item :
          ForLink(p, i, "drop", Plain("teardown", "links"), <<Plain("consult", "store")>>, stored)
    BY <1>2 DEF DeleteInterface
  <2>2. <<Plain("consult", "store")>> \in Plans /\ Plain("teardown", "links") \in Steps
    BY LinkSteps DEF Plans
  <2> QED BY <2>1, <2>2, <1>0, ForLinkBase
<1>3. CASE ListInterfaces(p)
  <2>1. Begin(p, Request(<<Plain("recache", "links")>>, stored, {}))
    BY <1>3 DEF ListInterfaces
  <2>2. <<Plain("recache", "links")>> \in Plans /\ <<Plain("recache", "links")>> # <<>>
    BY LinkSteps DEF Plans
  <2> QED BY <2>1, <2>2, <1>0, AskedPlain
<1>4. CASE UpsertGateway(p)
  <2>1. PICK i \in Item, m \in {"on", "off"} :
          LET act == IF m = "on" THEN Step("set", "route", {i}) ELSE Step("down", "route", {i})
              k == [stored EXCEPT !.gateways = (@ \ Manual(@, i)) \union {<<i, m>>}]
              r == Request(<<Save("gateways"), act>>, k, {"route"})
          IN  Begin(p, [r EXCEPT !.item = i])
    BY <1>4 DEF UpsertGateway
  <2> DEFINE act == IF m = "on" THEN Step("set", "route", {i}) ELSE Step("down", "route", {i})
             v == (stored["gateways"] \ Manual(stored["gateways"], i)) \union {<<i, m>>}
             k == [stored EXCEPT !["gateways"] = v]
             q == <<Save("gateways"), act>>
             r == [Request(q, k, {"route"}) EXCEPT !.item = i]
  <2>2. Begin(p, r)
    BY <2>1
  <2>3. v \in Value
    BY <1>0 DEF Value
  <2>4. act \in Steps
    BY LinkSteps
  <2> HIDE DEF v, act
  <2>5. k \in Configs(part)
    BY <2>3, <1>0
  <2>6. q \in Plans /\ q # <<>>
    BY <2>4, LinkSteps DEF Plans
  <2> HIDE DEF q, k
  <2>7. Asks(r, q, k, {"route"}, i, <<>>) /\ <<>> \in Plans
    BY DEF Asks, Plans
  <2> HIDE DEF r
  <2> QED BY <2>2, <2>5, <2>6, <2>7, UnitNames, UnitsHere, Asked
<1>5. CASE DeleteGateway(p)
  <2>1. PICK e \in stored.gateways :
          Begin(p, Request(<<Save("gateways")>>, [stored EXCEPT !.gateways = @ \ {e}], {}))
    BY <1>5 DEF DeleteGateway
  <2> DEFINE v == stored["gateways"] \ {e}
             k == [stored EXCEPT !["gateways"] = v]
             q == <<Save("gateways")>>
  <2>2. Begin(p, Request(q, k, {}))
    BY <2>1
  <2>3. v \in Value
    BY <1>0 DEF Value
  <2> HIDE DEF v
  <2>4. k \in Configs(part)
    BY <2>3, <1>0
  <2>5. q \in Plans /\ q # <<>>
    BY LinkSteps DEF Plans
  <2> HIDE DEF q, k
  <2> QED BY <2>2, <2>4, <2>5, AskedPlain
<1> QED BY <1>1, <1>2, <1>3, <1>4, <1>5

-----------------------------------------------------------------------------
\* The daemon starts.

LEMMA Startups ==
  ASSUME NEW d \in Part, NEW k PROVE StartupSteps(d, k) \in Plans
<1>1. <<>> \in Plans
  BY DEF Plans
<1>2. CASE d = "dns"
  <2> DEFINE a == <<Plain("set", "ipv6"), Read({"dns", "dot", "overrides"})>>
  <2>1. /\ Plain("set", "ipv6") \in Steps /\ Read({"dns", "dot", "overrides"}) \in Steps
        /\ Plain("refresh", "nft") \in Steps
    BY PlainTyped, StoreTyped, Verbs DEF Section
  <2>2. a \in Plans /\ <<Plain("refresh", "nft")>> \in Plans
    BY <2>1 DEF Plans
  <2>3. StartupSteps(d, k) = a \o UnboundSteps \o <<Plain("refresh", "nft")>>
    BY <1>2 DEF StartupSteps, DnsStartup, Family, App
  <2> HIDE DEF a
  <2> QED BY <2>2, <2>3, UnboundPlan, PlanJoin
<1>3. CASE d \in Family
  <2>1. StartupSteps(d, k) = KeaSteps(Server(d))
    BY <1>3 DEF StartupSteps, DhcpStartup, Family, App
  <2> QED BY <2>1, <1>3, KeaPlan
<1>4. CASE d = "ntp"
  <2>1. StartupSteps(d, k) = ClockSteps(k.ntp)
    BY <1>4 DEF StartupSteps, ClockStartup, Family, App
  <2> QED BY <2>1, ClockPlan
<1>5. CASE d = "qos"
  <2>1. StartupSteps(d, k) = QosSteps({}, k.qos)
    BY <1>5 DEF StartupSteps, QosStartup, Family, App
  <2> QED BY <2>1, QosPlan
<1>6. CASE d = "net"
  <2> DEFINE a == IF k.interfaces = {} THEN <<>> ELSE <<Step("sync", "links", Named(k.interfaces))>>
  <2>1. StartupSteps(d, k) = a \o <<Plain("refresh", "nft")>>
    BY <1>6 DEF StartupSteps, LinkStartup, Family, App
  <2>2. Step("sync", "links", Named(k.interfaces)) \in Steps /\ Plain("refresh", "nft") \in Steps
    BY LinkSteps DEF Named
  <2>3. a \in Plans /\ <<Plain("refresh", "nft")>> \in Plans
    BY <2>2 DEF Plans
  <2> HIDE DEF a
  <2> QED BY <2>1, <2>3, PlanJoin
<1>7. CASE d \in App \union {"wireguard"}
  <2>1. StartupSteps(d, k) = <<>>
    BY <1>7 DEF StartupSteps, Family, App
  <2> QED BY <2>1, <1>1
<1> QED BY <1>2, <1>3, <1>4, <1>5, <1>6, <1>7 DEF Part, Family, App
LEMMA StartedServed ==
  ASSUME NEW d \in Part, NEW k \in Configs(d)
  PROVE  Served(d, Started(d, k)) /\ \A p \in Proc : "met" \notin Started(d, k)[p].notes
<1> DEFINE due == StartupSteps(d, k)
           r == [Idle EXCEPT !.ans = "busy", !.todo = due, !.view = k, !.prev = k]
<1>1. Idle \in Requests(d) /\ Idle.todo = <<>> /\ Idle.ans = None /\ Idle.notes = {}
  BY IdleTyped DEF Idle
<1>2. due \in Plans
  BY Startups
<1>3. \A p \in Proc : Started(d, k)[p] = IF p = Daemon /\ due # <<>> THEN r ELSE Idle
  BY DEF Started
<1>4. DOMAIN Started(d, k) = Proc /\ Started(d, k) = [p \in Proc |-> Started(d, k)[p]]
  BY DEF Started
<1> HIDE DEF due
<1>5. r \in Requests(d) /\ r.ans = "busy" /\ r.todo = due /\ r.notes = {}
  BY <1>1, <1>2 DEF Requests
<1> HIDE DEF r
<1>6. \A p \in Proc :
        /\ Started(d, k)[p] \in Requests(d)
        /\ (Started(d, k)[p].todo # <<>>) <=> (Started(d, k)[p].ans = "busy")
        /\ Started(d, k)[p].notes = {}
  BY <1>1, <1>3, <1>5 DEF None
<1>7. Started(d, k) \in [Proc -> Requests(d)]
  BY <1>4, <1>6
<1>8. \A p \in Proc : Started(d, k)[p].ans = "busy" => p = Daemon
  BY <1>1, <1>3 DEF None
<1>9. \A p \in Proc :
        /\ (Started(d, k)[p].todo # <<>>) <=> (Started(d, k)[p].ans = "busy")
        /\ "failed" \in Started(d, k)[p].notes /\ Started(d, k)[p].ans # "busy" => Started(d, k)[p].ans = "error"
  BY <1>6
<1>10. \A p, q \in Proc :
        Started(d, k)[p].ans = "busy" /\ Started(d, k)[q].ans = "busy" /\ p # q
          => "met" \in Started(d, k)[p].notes
  BY <1>8
<1>11. \A p \in Proc : "met" \notin Started(d, k)[p].notes
  BY <1>6
<1>12. Served(d, Started(d, k))
  BY <1>7, <1>9, <1>10 DEF Served
<1> QED BY <1>11, <1>12

LEMMA EndedBase ==
  ASSUME Base, Restart \/ Reboot
  PROVE  Base' /\ part' = part
<1>0. /\ part \in Part /\ stored \in Configs(part) /\ file \in Contents(part) /\ run \in Contents(part)
      /\ cand \in [Kea -> Content] /\ made \in Budget /\ {} \in Content
  BY ServiceAssumption DEF Base, World, Content
<1>1. /\ made.restarts < MaxRestarts /\ made' = [made EXCEPT !.restarts = @ + 1]
      /\ req' = Started(part, stored) /\ cache' = stored["interfaces"]
      /\ past' = past \union If(\E p \in Client : Busy(p), {"cut"})
      /\ UNCHANGED <<part, stored, file, cand>>
  BY DEF Restart, Reboot, Ended
<1>2. made' \in Budget /\ past' \subseteq {"met", "cut", "restored"}
  BY <1>1, ServiceAssumption DEF Base, World, Budget, If
<1>3. cache' \in Lists(part)
  BY <1>0, <1>1, ConfigSection DEF Lists, Configs, Bare, Section
<1>4. Served(part, req') /\ \A p \in Proc : "met" \notin req'[p].notes
  BY <1>0, <1>1, StartedServed
<1>5. run' \in Contents(part)
  <2>1. CASE Restart
    BY <2>1, <1>0 DEF Restart
  <2>2. CASE Reboot
    <3>1. PICK S \in SUBSET {u \in Service : file[u] # {}} :
            run' = [u \in Unit |->
                      CASE u \in S -> If(Accepted(file[u]), file[u])
                        [] u = "sshd" -> run[u]
                        [] OTHER -> {}]
      BY <2>2 DEF Reboot
    <3>2. ASSUME NEW u \in Unit
          PROVE  /\ run'[u] \in Content
                 /\ u # "sshd" => run'[u] = {} \/ run'[u] = file[u]
      <4>1. file[u] \in Content /\ run[u] \in Content
        BY <1>0, ContentOf
      <4>2. run'[u] = CASE u \in S -> If(Accepted(file[u]), file[u])
                        [] u = "sshd" -> run[u]
                        [] OTHER -> {}
        BY <3>1
      <4>3. "sshd" \notin S
        BY DEF Service, Kea
      <4>4. CASE u \in S
        BY <4>1, <4>2, <4>3, <4>4, <1>0 DEF If
      <4>5. CASE u = "sshd"
        BY <4>1, <4>2, <4>3, <4>5
      <4>6. CASE u \notin S /\ u # "sshd"
        BY <4>1, <4>2, <4>6, <1>0
      <4> QED BY <4>4, <4>5, <4>6
    <3>3. run' \in [Unit -> Content]
      BY <3>1, <3>2
    <3>4. /\ part # "dhcp4" => run'["kea4"] = {}
          /\ part # "dhcp6" => run'["kea6"] = {}
          /\ part # "dns" => run'["unbound"] = {}
      BY <3>2, <1>0, UnitNames DEF Contents
    <3> QED BY <3>3, <3>4 DEF Contents
  <2> QED BY <2>1, <2>2
<1> QED BY <1>0, <1>1, <1>2, <1>3, <1>4, <1>5 DEF Base, World

LEMMA InitBase == Init => Base
<1> SUFFICES ASSUME Init PROVE Base
  OBVIOUS
<1>1. /\ part \in Parts /\ part \in Part /\ Blank \in Configs(part) /\ {} \in Lists(part)
  BY BlankConfig, ServiceAssumption DEF Init
<1>2. Nothing \in Contents(part) /\ [u \in Kea |-> {}] \in [Kea -> Content]
  BY UnitNames DEF Nothing, Contents, Content
<1>3. Served(part, Started(part, Blank)) /\ \A p \in Proc : "met" \notin Started(part, Blank)[p].notes
  BY <1>1, StartedServed
<1>4. [requests |-> 0, faults |-> 0, restarts |-> 0] \in Budget
  BY ServiceAssumption DEF Budget
<1> QED BY <1>1, <1>2, <1>3, <1>4 DEF Init, Base, World

LEMMA NextBase == Base /\ [Next]_vars => Base' /\ part' = part
<1> SUFFICES ASSUME Base, [Next]_vars PROVE Base' /\ part' = part
  OBVIOUS
<1>1. CASE UNCHANGED vars
  BY <1>1 DEF Base, World, vars
<1>2. CASE Restart \/ Reboot
  BY <1>2, EndedBase
<1>3. ASSUME NEW p \in Proc,
             \/ Persist(p) \/ Restore(p) \/ Load(p) \/ Fault(p) \/ PassedOver(p)
             \/ Publish(p) \/ RestoreRevision(p)
      PROVE  Base' /\ part' = part
  BY <1>3, GenericBase
<1>4. ASSUME NEW p \in Proc, part = "dns", DnsNext(p) PROVE Base' /\ part' = part
  BY <1>4, DnsStepsBase, DnsRequestsBase DEF DnsNext
<1>5. ASSUME NEW p \in Proc, part \in Family, DhcpNext(p) PROVE Base' /\ part' = part
  <2>1. CASE \E s \in Family : \/ Disable(p, s) \/ RemoveConfig(p, s) \/ Propose(p, s)
                               \/ TestConfig(p, s) \/ InstallKea(p, s) \/ StartKea(p, s)
    BY <2>1, <1>5, DhcpStepsBase
  <2>2. CASE \/ UpdateConfig4(p) \/ UpdateInterface4(p) \/ CreateLease4(p) \/ DeleteLease4(p)
             \/ CreateInterfaceLease4(p) \/ DeleteInterfaceLease4(p)
             \/ UpdateConfig6(p) \/ UpdateInterface6(p) \/ CreateLease6(p) \/ DeleteLease6(p)
             \/ CreateInterfaceLease6(p) \/ DeleteInterfaceLease6(p)
    <3>1. \E v \in Value : Apply(p, part, v)
      BY <2>2, <1>5, DhcpRequests
    <3> QED BY <3>1, <1>5, DhcpApplies
  <2> QED BY <2>1, <2>2, <1>5 DEF DhcpNext
<1>6. ASSUME NEW p \in Proc, part = "net", LinkNext(p) PROVE Base' /\ part' = part
  BY <1>6, LinkStepsBase, LinkRequestsBase DEF LinkNext
<1>7. ASSUME NEW p \in Proc, AppNext(p) PROVE Base' /\ part' = part
  BY <1>7, AppStepsBase, AppRequestsBase DEF AppNext
<1> QED
  BY <1>1, <1>2, <1>3, <1>4, <1>5, <1>6, <1>7, ClockBase, QosBase, WireGuardBase DEF Next

\* The state is as it is declared to be.
THEOREM ServicesTypeCorrect == Spec => []TypeOK
<1>1. Base => TypeOK
  <2> SUFFICES ASSUME Base PROVE TypeOK
    OBVIOUS
  <2>1. /\ part \in Parts
        /\ stored \in Config /\ cache \in Value
        /\ file \in [Unit -> Content] /\ cand \in [Kea -> Content] /\ run \in [Unit -> Content]
        /\ made \in Budget /\ past \subseteq {"met", "cut", "restored"}
    BY DEF Base, World, Configs, Lists, Contents
  <2>2. ASSUME NEW p \in Proc
        PROVE  LET r == req[p]
               IN  /\ r.ans \in {None, "busy", "ok", "error"}
                   /\ \A s \in Range(r.todo) \union Range(r.undo) : s \in StepType
                   /\ (r.todo # <<>>) <=> (r.ans = "busy")
                   /\ r.view \in Config /\ r.prev \in Config /\ r.was \in Value
                   /\ r.units \subseteq Unit /\ r.item \in Item \union {None, Revision}
                   /\ r.notes \subseteq Note
                   /\ "failed" \in r.notes /\ r.ans # "busy" => r.ans = "error"
    <3> DEFINE r == req[p]
    <3>1. /\ r \in Requests(part)
          /\ (r.todo # <<>>) <=> (r.ans = "busy")
          /\ "failed" \in r.notes /\ r.ans # "busy" => r.ans = "error"
      BY DEF Base, Served
    <3> HIDE DEF r
    <3>2. /\ r.ans \in {None, "busy", "ok", "error"} /\ r.todo \in Plans /\ r.undo \in Plans
          /\ r.view \in Configs(part) /\ r.prev \in Configs(part) /\ r.was \in Lists(part)
          /\ r.units \subseteq Unit /\ r.item \in Item \union {None, Revision}
          /\ r.notes \subseteq Note
      BY <3>1, UnitsHere DEF Requests
    <3>3. ASSUME NEW q \in Plans PROVE \A s \in Range(q) : s \in StepType
      <4>1. /\ DOMAIN q = 1..Len(q)
            /\ \A n \in 1..Len(q) : q[n] \in Steps
        BY LenProperties, ElementOfSeq DEF Plans
      <4> QED BY <4>1 DEF Range, Steps
    <3>4. r.view \in Config /\ r.prev \in Config /\ r.was \in Value
      BY <3>2 DEF Configs, Lists
    <3>5. \A s \in Range(r.todo) \union Range(r.undo) : s \in StepType
      BY <3>2, <3>3
    <3> QED BY <3>1, <3>2, <3>4, <3>5 DEF r
  <2> QED BY <2>1, <2>2 DEF TypeOK, Budget
<1> QED BY <1>1, InitBase, NextBase, PTL DEF Spec
-----------------------------------------------------------------------------
(* The file of a DHCP server is one that kea -t accepts.  As long as no two requests  *)
(* meet, one request or the startup is at work at most, and it goes through the steps *)
(* of the server in their order: when it installs a file, that one has been tested.   *)

Kea0(u) == KeaSteps(u)
Kea1(u) == <<Plain("test", u), Plain("install", u), Plain("start", u)>>
Kea2(u) == <<Plain("install", u), Plain("start", u)>>
Kea3(u) == <<Plain("start", u)>>
Removal(u) == <<Plain("remove", u)>>
Whole == <<Step("save", "store", Section)>>

\* What request r of p has before it, of server s with the candidate files c, the files f
\* and the configuration k.
KeaPlanned(p, r, s, c, f, k) ==
  LET u == Server(s)
  IN  /\ r.undo = <<>>
      /\ \/ r.todo \in {Kea0(u), Kea1(u), Kea2(u), Kea3(u), Removal(u)}
         \/ p # Daemon /\ r.todo \in {<<Save(s)>> \o Kea0(u), Whole}
      /\ Head(r.todo).do = "save" \/ r.view[s] = k[s]
      /\ r.todo \in {Kea1(u), Kea2(u)} => Leases(s, r.view) # {}
      /\ r.todo = Kea1(u) => c[u] = Leases(s, r.view)
      /\ r.todo = Kea2(u) => Accepted(Leases(s, r.view))
      /\ r.todo = Kea3(u) => f[u] # {}

Lone == \A p, q \in Proc : Busy(p) /\ Busy(q) => p = q

KeaOrder ==
  part \in Family /\ "met" \notin past =>
    /\ Lone
    /\ \A p \in Proc : Busy(p) => KeaPlanned(p, req[p], part, cand, file, stored)
    /\ \A u \in Kea : Accepted(file[u])

LEMMA Words ==
  /\ \A do, u : Plain(do, u).do = do /\ Plain(do, u).on = u
  /\ \A s : Save(s).do = "save" /\ Save(s).on = "store" /\ Save(s).of = {s}
  /\ \A do, on, of : Step(do, on, of).do = do /\ Step(do, on, of).on = on /\ Step(do, on, of).of = of
BY DEF Plain, Save, Step

\* A plan all of whose steps one engine takes is passed over as a whole.
LEMMA NothingElsewhere ==
  ASSUME NEW q \in Plans, NEW u, \A n \in 1..Len(q) : q[n].on \in Together(u)
  PROVE  Elsewhere(q, u) = <<>>
<1> DEFINE e == Elsewhere(q, u)
<1>1. /\ e \in Plans
      /\ \A n \in 1..Len(e) : \E m \in 1..Len(q) : e[n] = q[m] /\ q[m].on \notin Together(u)
  BY ElsewhereSteps
<1> HIDE DEF e
<1>2. e # <<>> => Len(e) \in Nat \ {0}
  BY <1>1, EmptySeq DEF Plans
<1>3. e # <<>> => 1 \in 1..Len(e)
  BY <1>2
<1> QED BY <1>1, <1>3 DEF e

LEMMA KeaTails ==
  ASSUME NEW s \in Family, NEW u, u = Server(s)
  PROVE  /\ Kea0(u) \in Plans /\ Head(Kea0(u)) = Plain("propose", u) /\ Tail(Kea0(u)) = Kea1(u)
         /\ Kea1(u) \in Plans /\ Head(Kea1(u)) = Plain("test", u) /\ Tail(Kea1(u)) = Kea2(u)
         /\ Kea2(u) \in Plans /\ Head(Kea2(u)) = Plain("install", u) /\ Tail(Kea2(u)) = Kea3(u)
         /\ Kea3(u) \in Plans /\ Head(Kea3(u)) = Plain("start", u) /\ Tail(Kea3(u)) = <<>>
         /\ Removal(u) \in Plans /\ Head(Removal(u)) = Plain("remove", u) /\ Tail(Removal(u)) = <<>>
         /\ Head(Whole) = Step("save", "store", Section) /\ Tail(Whole) = <<>>
         /\ \A q \in {Kea0(u), Kea1(u), Kea2(u), Kea3(u), Removal(u)} : Elsewhere(q, u) = <<>>
         /\ <<Save(s)>> \o Kea0(u) \in Plans
         /\ Head(<<Save(s)>> \o Kea0(u)) = Save(s) /\ Tail(<<Save(s)>> \o Kea0(u)) = Kea0(u)
<1> DEFINE a == Plain("propose", u)
           b == Plain("test", u)
           c == Plain("install", u)
           d == Plain("start", u)
           e == Plain("remove", u)
           f == Save(s)
           g == Step("save", "store", Section)
<1>1. /\ a \in Steps /\ b \in Steps /\ c \in Steps /\ d \in Steps /\ e \in Steps /\ f \in Steps
      /\ g \in Steps
  BY PlainTyped, StoreTyped, StepTyped, Verbs, Families
<1>2. a.on = u /\ b.on = u /\ c.on = u /\ d.on = u /\ e.on = u
  BY Words
<1>3. /\ Kea0(u) = <<a, b, c, d>> /\ Kea1(u) = <<b, c, d>> /\ Kea2(u) = <<c, d>> /\ Kea3(u) = <<d>>
      /\ Removal(u) = <<e>> /\ Whole = <<g>>
  BY DEF Kea0, KeaSteps, Kea1, Kea2, Kea3, Removal, Whole
<1> HIDE DEF a, b, c, d, e, f, g
<1>4. /\ Head(<<a, b, c, d>>) = a /\ Tail(<<a, b, c, d>>) = <<b, c, d>>
      /\ Head(<<b, c, d>>) = b /\ Tail(<<b, c, d>>) = <<c, d>>
      /\ Head(<<c, d>>) = c /\ Tail(<<c, d>>) = <<d>>
      /\ Head(<<d>>) = d /\ Tail(<<d>>) = <<>> /\ Head(<<e>>) = e /\ Tail(<<e>>) = <<>>
      /\ Head(<<g>>) = g /\ Tail(<<g>>) = <<>>
  OBVIOUS
<1>5. /\ <<f>> \o <<a, b, c, d>> = <<f, a, b, c, d>>
      /\ Tail(<<f, a, b, c, d>>) = <<a, b, c, d>> /\ Head(<<f, a, b, c, d>>) = f
  <2> DEFINE l == <<f>>
             r == <<a, b, c, d>>
             t == <<f, a, b, c, d>>
  <2>1. /\ l \in Seq(Steps) /\ r \in Seq(Steps) /\ t \in Seq(Steps)
        /\ Len(l) = 1 /\ Len(r) = 4 /\ Len(t) = 5
        /\ t[1] = l[1] /\ t[2] = r[1] /\ t[3] = r[2] /\ t[4] = r[3] /\ t[5] = r[4]
    BY <1>1
  <2> HIDE DEF l, r, t
  <2>2. /\ l \o r \in Seq(Steps) /\ Len(l \o r) = 5
        /\ \A n \in 1..5 : (l \o r)[n] = IF n <= 1 THEN l[n] ELSE r[n - 1]
    <3>1. l \o r \in Seq(Steps) /\ Len(l \o r) = Len(l) + Len(r)
      BY <2>1, ConcatProperties
    <3>2. \A n \in 1..(Len(l) + Len(r)) : (l \o r)[n] = IF n <= Len(l) THEN l[n] ELSE r[n - Len(l)]
      BY <2>1, ConcatProperties
    <3> QED BY <3>1, <3>2, <2>1
  <2>3. \A n \in 1..5 : (l \o r)[n] = t[n]
    BY <2>1, <2>2
  <2>4. l \o r = t
    BY <2>1, <2>2, <2>3, SeqEqual
  <2>5. Tail(<<f, a, b, c, d>>) = <<a, b, c, d>> /\ Head(<<f, a, b, c, d>>) = f
    OBVIOUS
  <2> QED BY <2>4, <2>5 DEF l, r, t
<1>6. /\ <<a, b, c, d>> \in Seq(Steps) /\ <<b, c, d>> \in Seq(Steps) /\ <<c, d>> \in Seq(Steps)
      /\ <<d>> \in Seq(Steps) /\ <<e>> \in Seq(Steps) /\ <<f, a, b, c, d>> \in Seq(Steps)
  BY <1>1
<1>7. u \in Together(u)
  BY DEF Together
<1>8. ASSUME NEW q \in {<<a, b, c, d>>, <<b, c, d>>, <<c, d>>, <<d>>, <<e>>} PROVE Elsewhere(q, u) = <<>>
  <2>1. q \in Plans
    BY <1>6 DEF Plans
  <2>2. \A n \in 1..Len(q) : q[n].on = u
    BY <1>2
  <2> QED BY <2>1, <2>2, <1>7, NothingElsewhere
<1>9. /\ Kea0(u) \in Plans /\ Head(Kea0(u)) = a /\ Tail(Kea0(u)) = Kea1(u)
      /\ Kea1(u) \in Plans /\ Head(Kea1(u)) = b /\ Tail(Kea1(u)) = Kea2(u)
      /\ Kea2(u) \in Plans /\ Head(Kea2(u)) = c /\ Tail(Kea2(u)) = Kea3(u)
      /\ Kea3(u) \in Plans /\ Head(Kea3(u)) = d /\ Tail(Kea3(u)) = <<>>
      /\ Removal(u) \in Plans /\ Head(Removal(u)) = e /\ Tail(Removal(u)) = <<>>
      /\ Head(Whole) = g /\ Tail(Whole) = <<>>
  BY <1>3, <1>4, <1>6 DEF Plans
<1>10. \A q \in {Kea0(u), Kea1(u), Kea2(u), Kea3(u), Removal(u)} : Elsewhere(q, u) = <<>>
  BY <1>3, <1>8
<1>11. /\ <<f>> \o Kea0(u) \in Plans
       /\ Head(<<f>> \o Kea0(u)) = f /\ Tail(<<f>> \o Kea0(u)) = Kea0(u)
  BY <1>3, <1>5, <1>6 DEF Plans
<1> QED BY <1>9, <1>10, <1>11 DEF a, b, c, d, e, f, g
\* The one request that is at work goes on, and becomes x.
LEMMA Alone ==
  ASSUME Base, Lone, NEW p \in Proc, Busy(p), NEW x \in Requests(part), x.ans = "busy",
         Alike(x, req[p]), Become(p, x)
  PROVE  /\ UNCHANGED <<part, past>>
         /\ \A q \in Proc : Busy(q)' => q = p /\ req'[p] = x /\ x.todo # <<>>
<1>1. /\ Served(part, req') /\ UNCHANGED <<part, past>> /\ Alike(req'[p], req[p])
      /\ \A q \in Proc \ {p} : req'[q] = req[q]
      /\ x.todo # <<>> => req'[p] = x
      /\ x.todo = <<>> => req'[p].ans = IF "failed" \in x.notes THEN "error" ELSE "ok"
  <2>1. Served(part, req)
    BY DEF Base
  <2> QED BY <2>1, Becoming
<1>2. x.todo = <<>> => req'[p].ans # "busy"
  BY <1>1 DEF Idle
<1>3. \A q \in Proc : Busy(q)' => q = p
  BY <1>1 DEF Lone, Busy
<1> QED BY <1>1, <1>2, <1>3 DEF Busy

\* The first of several, or the only one.
LEMMA First ==
  ASSUME Base, Lone, NEW p \in Proc, NEW r \in Requests(part), r.ans = "busy", r.todo # <<>>,
         Begin(p, r), "met" \notin past'
  PROVE  /\ Base' /\ UNCHANGED <<part, system>> /\ p # Daemon /\ \A q \in Proc : ~Busy(q)
         /\ past' = past \union If(r.item = Revision, {"restored"})
         /\ \A q \in Proc : Busy(q)' => q = p
         /\ req'[p] = [r EXCEPT !.notes = {}]
<1>1. /\ Base'
      /\ UNCHANGED <<part, system>> /\ p \in Client /\ ~Busy(p) /\ ~Busy(Daemon)
      /\ past' = past \union If(Others(p) # {}, {"met"}) \union If(r.item = Revision, {"restored"})
      /\ req'[p] = [r EXCEPT !.notes = If(Others(p) # {}, {"met"})]
      /\ \A q \in Proc \ (Others(p) \union {p}) : req'[q] = req[q]
  BY Beginning
<1>2. Others(p) = {}
  BY <1>1 DEF If
<1>3. If(Others(p) # {}, {"met"}) = {}
  BY <1>2 DEF If
<1>4. \A q \in Proc : ~Busy(q)
  BY <1>1, <1>2 DEF Others, Proc
<1>5. \A q \in Proc : Busy(q)' => q = p
  BY <1>1, <1>2, <1>4 DEF Busy
<1> QED BY <1>1, <1>3, <1>4, <1>5, ServiceAssumption

\* The step that comes next of a plan.
LEMMA KeaHead ==
  ASSUME Base, NEW s \in Family, NEW u, u = Server(s), NEW p \in Proc, Busy(p),
         KeaPlanned(p, req[p], s, cand, file, stored)
  PROVE  LET h == Head(req[p].todo)
             t == Tail(req[p].todo)
         IN  /\ h.do \in {"save", "propose", "test", "install", "start", "remove"}
             /\ h.on = IF h.do = "save" THEN "store" ELSE u
             /\ h.do = "save" => p # Daemon /\ t \in {Kea0(u), <<>>} /\ s \in h.of
             /\ h.do # "save" => Elsewhere(req[p].todo, u) = <<>> /\ req[p].view[s] = stored[s]
             /\ h.do = "propose" => t = Kea1(u)
             /\ h.do = "test" => req[p].todo = Kea1(u) /\ t = Kea2(u)
             /\ h.do = "install" => req[p].todo = Kea2(u) /\ t = Kea3(u)
             /\ h.do \in {"start", "remove"} => t = <<>>
             /\ req[p].undo = <<>>
<1> DEFINE q == req[p].todo
<1>1. /\ \/ q \in {Kea0(u), Kea1(u), Kea2(u), Kea3(u), Removal(u)}
         \/ p # Daemon /\ q \in {<<Save(s)>> \o Kea0(u), Whole}
      /\ req[p].undo = <<>>
      /\ Head(q).do = "save" \/ req[p].view[s] = stored[s]
  BY DEF KeaPlanned
<1> HIDE DEF q
<1>2. /\ Head(Kea0(u)) = Plain("propose", u) /\ Tail(Kea0(u)) = Kea1(u)
      /\ Head(Kea1(u)) = Plain("test", u) /\ Tail(Kea1(u)) = Kea2(u)
      /\ Head(Kea2(u)) = Plain("install", u) /\ Tail(Kea2(u)) = Kea3(u)
      /\ Head(Kea3(u)) = Plain("start", u) /\ Tail(Kea3(u)) = <<>>
      /\ Head(Removal(u)) = Plain("remove", u) /\ Tail(Removal(u)) = <<>>
      /\ Head(Whole) = Step("save", "store", Section) /\ Tail(Whole) = <<>>
      /\ \A x \in {Kea0(u), Kea1(u), Kea2(u), Kea3(u), Removal(u)} : Elsewhere(x, u) = <<>>
      /\ Head(<<Save(s)>> \o Kea0(u)) = Save(s) /\ Tail(<<Save(s)>> \o Kea0(u)) = Kea0(u)
  BY KeaTails
<1>3. CASE q \in {Kea0(u), Kea1(u), Kea2(u), Kea3(u), Removal(u)}
  <2>1. Elsewhere(q, u) = <<>>
    BY <1>2, <1>3
  <2>2. CASE q = Kea0(u)
    <3>1. Head(q).do = "propose" /\ Head(q).on = u /\ Tail(q) = Kea1(u)
      BY <1>2, <2>2, Words
    <3> QED BY <1>1, <2>1, <3>1 DEF q
  <2>3. CASE q = Kea1(u)
    <3>1. Head(q).do = "test" /\ Head(q).on = u /\ Tail(q) = Kea2(u)
      BY <1>2, <2>3, Words
    <3> QED BY <1>1, <2>1, <2>3, <3>1 DEF q
  <2>4. CASE q = Kea2(u)
    <3>1. Head(q).do = "install" /\ Head(q).on = u /\ Tail(q) = Kea3(u)
      BY <1>2, <2>4, Words
    <3> QED BY <1>1, <2>1, <2>4, <3>1 DEF q
  <2>5. CASE q = Kea3(u)
    <3>1. Head(q).do = "start" /\ Head(q).on = u /\ Tail(q) = <<>>
      BY <1>2, <2>5, Words
    <3> QED BY <1>1, <2>1, <3>1 DEF q
  <2>6. CASE q = Removal(u)
    <3>1. Head(q).do = "remove" /\ Head(q).on = u /\ Tail(q) = <<>>
      BY <1>2, <2>6, Words
    <3> QED BY <1>1, <2>1, <3>1 DEF q
  <2> QED BY <1>3, <2>2, <2>3, <2>4, <2>5, <2>6
<1>4. CASE p # Daemon /\ q \in {<<Save(s)>> \o Kea0(u), Whole}
  <2>1. /\ Head(q).do = "save" /\ Head(q).on = "store" /\ Tail(q) \in {Kea0(u), <<>>}
        /\ s \in Head(q).of
    <3>1. Head(q) \in {Save(s), Step("save", "store", Section)} /\ Tail(q) \in {Kea0(u), <<>>}
      BY <1>2, <1>4
    <3>2. s \in Section /\ s \in {s}
      BY Families
    <3> QED BY <3>1, <3>2, Words
  <2> QED BY <1>1, <1>4, <2>1 DEF q
<1> QED BY <1>1, <1>3, <1>4

\* A step fails: nothing is left to do.
LEMMA KeaFails ==
  ASSUME Base, Lone, NEW s \in Family, NEW p \in Proc, Busy(p), KeaPlanned(p, req[p], s, cand, file, stored),
         Failed(p)
  PROVE  UNCHANGED <<part, past>> /\ \A q \in Proc : ~Busy(q)'
<1> DEFINE u == Server(s)
           n == IF "failed" \in req[p].notes THEN "again" ELSE "failed"
<1>1. PICK x \in Requests(part) :
        /\ Become(p, x) /\ x.ans = "busy"
        /\ x.notes = req[p].notes \union {n}
        /\ p # Daemon => /\ x.undo = <<>>
                         /\ x.todo = IF Head(req[p].todo).do \in {"save", "drop", "consult"} THEN <<>>
                                     ELSE req[p].undo
        /\ p = Daemon => x.todo = Elsewhere(req[p].todo, Head(req[p].todo).on)
  BY Failing DEF Base
<1>2. LET h == Head(req[p].todo)
      IN  /\ h.on = IF h.do = "save" THEN "store" ELSE u
          /\ h.do = "save" => p # Daemon
          /\ h.do # "save" => Elsewhere(req[p].todo, u) = <<>>
          /\ req[p].undo = <<>>
  BY KeaHead
<1>3. x.todo = <<>> /\ Alike(x, req[p])
  BY <1>1, <1>2 DEF Alike
<1> QED BY <1>1, <1>3, Alone
\* A step is done, and the next one is before p.
LEMMA KeaAdvances ==
  ASSUME Base, Lone, NEW p \in Proc, Busy(p), Advance(p)
  PROVE  /\ UNCHANGED <<part, past>>
         /\ \A q \in Proc : Busy(q)' => /\ q = p /\ req'[p] \in Requests(part)
                                        /\ req'[p].todo = Tail(req[p].todo) /\ req'[p].todo # <<>>
                                        /\ req'[p].undo = req[p].undo /\ req'[p].view = req[p].view
<1> DEFINE x == Past(req[p])
<1>1. /\ x \in Requests(part) /\ x.ans = "busy" /\ x.todo = Tail(req[p].todo)
      /\ x.undo = req[p].undo /\ x.view = req[p].view /\ Alike(x, req[p])
  BY AtWork, Going DEF Same, Alike
<1>2. Become(p, x)
  BY DEF Advance
<1> HIDE DEF x
<1> QED BY <1>1, <1>2, Alone

LEMMA KeaApart ==
  ASSUME NEW s \in Family, NEW u, u = Server(s)
  PROVE  \A q \in {Kea0(u), Kea3(u), Removal(u), Whole, <<Save(s)>> \o Kea0(u)} :
           /\ q # Kea1(u) /\ q # Kea2(u)
           /\ Kea1(u) # Kea2(u) /\ Kea1(u) # Kea3(u) /\ Kea2(u) # Kea3(u)
           /\ Kea0(u) # Kea3(u) /\ Removal(u) # Kea3(u) /\ Whole # Kea3(u)
           /\ <<Save(s)>> \o Kea0(u) # Kea3(u)
<1>1. /\ Head(Kea0(u)) = Plain("propose", u) /\ Head(Kea1(u)) = Plain("test", u)
      /\ Head(Kea2(u)) = Plain("install", u) /\ Head(Kea3(u)) = Plain("start", u)
      /\ Head(Removal(u)) = Plain("remove", u) /\ Head(Whole) = Step("save", "store", Section)
      /\ Head(<<Save(s)>> \o Kea0(u)) = Save(s)
  BY KeaTails
<1>2. /\ Head(Kea0(u)).do = "propose" /\ Head(Kea1(u)).do = "test" /\ Head(Kea2(u)).do = "install"
      /\ Head(Kea3(u)).do = "start" /\ Head(Removal(u)).do = "remove" /\ Head(Whole).do = "save"
      /\ Head(<<Save(s)>> \o Kea0(u)).do = "save"
  BY <1>1, Words
<1> HIDE DEF Kea0, Kea1, Kea2, Kea3, Removal, Whole
<1> QED BY <1>2

LEMMA KeaOrderGeneric ==
  ASSUME Base, KeaOrder, NEW p \in Proc, "met" \notin past', part \in Family,
         \/ Persist(p) \/ Restore(p) \/ Load(p) \/ Fault(p) \/ PassedOver(p) \/ Publish(p)
         \/ RestoreRevision(p)
  PROVE  KeaOrder'
<1> DEFINE s == part
           u == Server(part)
           h == Head(req[p].todo)
<1>0. /\ u \in Kea /\ \A v \in Kea : Accepted(file[v]) \/ "met" \in past
      /\ "met" \notin past => Lone /\ \A q \in Proc : Busy(q) => KeaPlanned(q, req[q], part, cand, file, stored)
  BY Families DEF KeaOrder
<1>1. ASSUME Busy(p), "met" \notin past
      PROVE  /\ KeaPlanned(p, req[p], s, cand, file, stored) /\ Lone
             /\ h.do \in {"save", "propose", "test", "install", "start", "remove"}
             /\ h.on = IF h.do = "save" THEN "store" ELSE u
             /\ h.do = "save" => /\ p # Daemon /\ Tail(req[p].todo) \in {Kea0(u), <<>>}
                                /\ s \in h.of
             /\ req[p].undo = <<>>
  BY <1>1, <1>0, KeaHead
<1>2. CASE Persist(p)
  <2>1. /\ Busy(p) /\ h.do = "save" /\ Advance(p) /\ UNCHANGED <<file, cand>>
        /\ stored' = [x \in Section |-> IF x \in h.of THEN req[p].view[x] ELSE stored[x]]
    BY <1>2 DEF Persist, At, Of
  <2>2. "met" \notin past
    BY <2>1 DEF Advance, Become
  <2>3. /\ UNCHANGED <<part, past>> /\ Lone
        /\ \A q \in Proc : Busy(q)' => /\ q = p
                                       /\ req'[p].todo = Tail(req[p].todo) /\ req'[p].todo # <<>>
                                       /\ req'[p].undo = req[p].undo
                                       /\ req'[p].view = req[p].view
    BY <2>1, <2>2, <1>0, KeaAdvances
  <2>4. \A q \in Proc : Busy(q)' => KeaPlanned(q, req'[q], part, cand', file', stored')
    <3>1. Busy(p)' => req'[p].todo = Kea0(u) /\ req'[p].undo = <<>>
      BY <2>1, <2>2, <2>3, <1>1
    <3>2. Kea0(u) # Kea1(u) /\ Kea0(u) # Kea2(u) /\ Kea0(u) # Kea3(u)
      BY KeaApart
    <3>3. stored'[s] = req[p].view[s]
      BY <2>1, <2>2, <1>1, Families
    <3> QED BY <3>1, <3>2, <3>3, <2>3 DEF KeaPlanned
  <2> QED BY <2>1, <2>2, <2>3, <2>4, <1>0 DEF KeaOrder, Lone
<1>3. CASE Restore(p)
  <2>1. Busy(p) /\ h.do = "restore" /\ past' = past
    BY <1>3 DEF Restore, At, Become
  <2> QED BY <2>1, <1>1
<1>4. CASE Load(p)
  <2>1. Busy(p) /\ h.do = "read" /\ past' = past
    BY <1>4 DEF Load, At, Become
  <2> QED BY <2>1, <1>1
<1>5. CASE Fault(p)
  <2>1. Busy(p) /\ Failed(p) /\ UNCHANGED <<file, cand>>
    BY <1>5 DEF Fault
  <2>2. past' = past
    BY <2>1 DEF Failed, Become
  <2>3. UNCHANGED <<part, past>> /\ \A q \in Proc : ~Busy(q)'
    BY <2>1, <2>2, <1>1, KeaFails
  <2> QED BY <2>1, <2>3, <1>0 DEF KeaOrder, Lone
<1>6. CASE PassedOver(p)
  <2>1. Busy(p) /\ h.do \in Tolerated /\ past' = past
    BY <1>6 DEF PassedOver, Become
  <2> QED BY <2>1, <1>1 DEF Tolerated
<1>7. CASE Publish(p)
  <2>1. Busy(p) /\ h.do \in {"publish", "refresh"} /\ past' = past
    BY <1>7 DEF Publish, Set, At, Advance, Become
  <2> QED BY <2>1, <1>1
<1>8. CASE RestoreRevision(p)
  <2> DEFINE r == [Request(Whole, Blank, {}) EXCEPT !.item = Revision]
  <2>1. Begin(p, r) /\ "met" \notin past
    BY <1>8 DEF RestoreRevision, Whole, Begin
  <2>2. /\ r \in Requests(part) /\ r.ans = "busy" /\ r.todo = Whole /\ r.undo = <<>>
    <3>1. Step("save", "store", Section) \in Steps
      BY StepTyped, Verbs
    <3>2. Whole \in Plans
      BY <3>1 DEF Whole, Plans
    <3>3. stored \in Configs(part) /\ Blank \in Configs(part)
      BY BlankConfig DEF Base, World
    <3> QED BY <3>2, <3>3, IdleTyped DEF Request, Requests, Idle
  <2>3. Whole # <<>>
    BY DEF Whole
  <2> HIDE DEF r
  <2>4. /\ UNCHANGED <<part, system>> /\ p # Daemon /\ req'[p] = [r EXCEPT !.notes = {}]
        /\ \A q \in Proc : Busy(q)' => q = p
    BY <2>1, <2>2, <2>3, <1>0, First
  <2>5. req'[p].todo = Whole /\ req'[p].undo = <<>>
    BY <2>2, <2>4 DEF Requests
  <2>6. Whole # Kea1(u) /\ Whole # Kea2(u) /\ Whole # Kea3(u)
    BY KeaApart
  <2>7. KeaPlanned(p, req'[p], s, cand', file', stored')
    <3>1. Head(Whole).do = "save"
      BY DEF Whole, Step
    <3> QED BY <3>1, <2>4, <2>5, <2>6 DEF KeaPlanned
  <2> QED BY <2>1, <2>4, <2>7, <1>0 DEF KeaOrder, Lone, system
<1> QED BY <1>2, <1>3, <1>4, <1>5, <1>6, <1>7, <1>8
LEMMA KeaOrderSteps ==
  ASSUME Base, KeaOrder, NEW p \in Proc, "met" \notin past', part \in Family, NEW s \in Family,
         \/ Disable(p, s) \/ RemoveConfig(p, s) \/ Propose(p, s)
         \/ TestConfig(p, s) \/ InstallKea(p, s) \/ StartKea(p, s)
  PROVE  KeaOrder'
<1> DEFINE u == Server(part)
           r == req[p]
           h == Head(req[p].todo)
           t == Tail(req[p].todo)
<1>1. Busy(p) /\ "met" \notin past /\ h.on = Server(s)
  BY DEF Disable, RemoveConfig, Propose, TestConfig, InstallKea, StartKea, Start, At,
         Advance, Failed, Become
<1>2. /\ Lone /\ KeaPlanned(p, r, part, cand, file, stored) /\ \A v \in Kea : Accepted(file[v])
      /\ \A q \in Proc : Busy(q) => q = p
  BY <1>1 DEF KeaOrder, Lone
<1>3. /\ h.do \in {"save", "propose", "test", "install", "start", "remove"}
      /\ h.on = IF h.do = "save" THEN "store" ELSE u
      /\ h.do = "save" => p # Daemon /\ t \in {Kea0(u), <<>>}
      /\ h.do # "save" => Elsewhere(r.todo, u) = <<>> /\ r.view[part] = stored[part]
      /\ h.do = "propose" => t = Kea1(u)
      /\ h.do = "test" => r.todo = Kea1(u) /\ t = Kea2(u)
      /\ h.do = "install" => r.todo = Kea2(u) /\ t = Kea3(u)
      /\ h.do \in {"start", "remove"} => t = <<>>
      /\ r.undo = <<>>
  BY <1>1, <1>2, KeaHead
<1>4. s = part /\ Server(s) = u /\ u \in Kea
  BY <1>1, <1>3, Families DEF Kea
<1>5. ASSUME Advance(p)
      PROVE  /\ UNCHANGED <<part, past>>
             /\ \A q \in Proc : Busy(q)' => /\ q = p /\ req'[p].todo = t /\ t # <<>>
                                            /\ req'[p].undo = <<>> /\ req'[p].view = r.view
  BY <1>1, <1>2, <1>3, <1>5, KeaAdvances
<1>6. ASSUME Failed(p) PROVE UNCHANGED <<part, past>> /\ \A q \in Proc : ~Busy(q)'
  BY <1>1, <1>2, <1>6, KeaFails
<1>7. Kea0(u) # Kea1(u) /\ Kea1(u) # Kea2(u) /\ Kea3(u) # Kea1(u) /\ Kea3(u) # Kea2(u)
      /\ Removal(u) # Kea1(u) /\ Removal(u) # Kea2(u) /\ Removal(u) # Kea3(u)
      /\ Kea1(u) # Kea3(u) /\ Kea2(u) # Kea3(u)
  BY KeaApart
<1>8. CASE Disable(p, s)
  <2> DEFINE q == <<Plain("remove", u)>> \o Elsewhere(r.todo, u)
             x == [r EXCEPT !.todo = q]
  <2>1. /\ h.do = "propose" /\ UNCHANGED <<stored, file, cand>>
        /\ Become(p, x) \/ Become(p, Noted(x, "silent"))
    BY <1>8, <1>4 DEF Disable, At
  <2>2. q = Removal(u)
    <3>1. Elsewhere(r.todo, u) = <<>>
      BY <2>1, <1>3
    <3>2. <<Plain("remove", u)>> \in Seq(Steps)
      BY KeaTails, <1>4 DEF Removal, Plans
    <3>3. <<Plain("remove", u)>> \o <<>> = <<Plain("remove", u)>>
      BY <3>2, ConcatEmptySeq
    <3> QED BY <3>1, <3>3 DEF Removal
  <2>3. r \in Requests(part) /\ r.ans = "busy" /\ Removal(u) \in Plans
    BY <1>1, <1>4, AtWork, KeaTails
  <2> HIDE DEF q, r
  <2>4. /\ x \in Requests(part) /\ x.ans = "busy" /\ x.todo = Removal(u) /\ x.undo = <<>>
        /\ x.notes = r.notes /\ Alike(x, r) /\ x.view = r.view
    BY <2>2, <2>3, <1>3 DEF Requests, Alike
  <2> HIDE DEF x
  <2>5. /\ Noted(x, "silent") \in Requests(part) /\ Noted(x, "silent").ans = "busy"
        /\ Noted(x, "silent").todo = Removal(u) /\ Noted(x, "silent").undo = <<>>
        /\ Alike(Noted(x, "silent"), r) /\ Noted(x, "silent").view = r.view
    BY <2>4, Noting DEF Note, Alike, Same
  <2>6. PICK y \in Requests(part) :
          /\ Become(p, y) /\ y.ans = "busy" /\ y.todo = Removal(u) /\ y.undo = <<>>
          /\ Alike(y, r) /\ y.view = r.view
    BY <2>1, <2>4, <2>5
  <2>7. UNCHANGED <<part, past>> /\ \A v \in Proc : Busy(v)' => v = p /\ req'[p] = y
    BY <2>6, <1>1, <1>2, Alone DEF r
  <2>8. KeaPlanned(p, y, part, cand, file, stored)
    BY <2>1, <2>6, <1>3, <1>7 DEF KeaPlanned
  <2> QED BY <2>1, <2>7, <2>8, <1>2 DEF KeaOrder, Lone
<1>9. CASE RemoveConfig(p, s)
  <2>1. h.do = "remove" /\ Advance(p) /\ cand' = cand /\ file' = [file EXCEPT ![u] = {}]
    BY <1>9, <1>4 DEF RemoveConfig, At
  <2>2. \A v \in Kea : Accepted(file'[v])
    BY <2>1, <1>2, UnitNames DEF Base, World, Contents, Accepted, Kea
  <2>3. UNCHANGED <<part, past>> /\ \A q \in Proc : ~Busy(q)'
    BY <2>1, <1>3, <1>5
  <2> QED BY <2>2, <2>3 DEF KeaOrder, Lone
<1>10. CASE Propose(p, s)
  <2>1. /\ h.do = "propose" /\ Advance(p) /\ UNCHANGED <<stored, file>> /\ Leases(part, r.view) # {}
        /\ cand' = [cand EXCEPT ![u] = Leases(part, r.view)]
    BY <1>10, <1>4 DEF Propose, At
  <2>2. cand'[u] = Leases(part, r.view)
    BY <2>1, <1>4 DEF Base, World
  <2>3. /\ UNCHANGED <<part, past>>
        /\ \A q \in Proc : Busy(q)' => /\ q = p /\ req'[p].todo = Kea1(u)
                                       /\ req'[p].undo = <<>> /\ req'[p].view = r.view
    BY <2>1, <1>3, <1>5
  <2>4. \A q \in Proc : Busy(q)' => KeaPlanned(q, req'[q], part, cand', file', stored')
    BY <2>1, <2>2, <2>3, <1>3, <1>7 DEF KeaPlanned
  <2> QED BY <2>1, <2>3, <2>4, <1>2 DEF KeaOrder, Lone
<1>11. CASE TestConfig(p, s)
  <2>1. /\ h.do = "test" /\ UNCHANGED <<stored, file>>
        /\ \/ Advance(p) /\ cand' = cand /\ Accepted(cand[u])
           \/ Failed(p)
    BY <1>11, <1>4 DEF TestConfig, At
  <2>2. CASE Failed(p)
    BY <2>1, <2>2, <1>2, <1>6 DEF KeaOrder, Lone
  <2>3. CASE Advance(p) /\ cand' = cand /\ Accepted(cand[u])
    <3>1. Accepted(Leases(part, r.view)) /\ Leases(part, r.view) # {}
      BY <2>1, <2>3, <1>2, <1>3 DEF KeaPlanned
    <3>2. /\ UNCHANGED <<part, past>>
          /\ \A q \in Proc : Busy(q)' => /\ q = p /\ req'[p].todo = Kea2(u)
                                         /\ req'[p].undo = <<>> /\ req'[p].view = r.view
      BY <2>1, <2>3, <1>3, <1>5
    <3>3. \A q \in Proc : Busy(q)' => KeaPlanned(q, req'[q], part, cand', file', stored')
      BY <3>1, <3>2, <2>1, <1>3, <1>7 DEF KeaPlanned
    <3> QED BY <2>1, <3>2, <3>3, <1>2 DEF KeaOrder, Lone
  <2> QED BY <2>1, <2>2, <2>3
<1>12. CASE InstallKea(p, s)
  <2>1. /\ h.do = "install" /\ Advance(p) /\ stored' = stored
        /\ file' = [file EXCEPT ![u] = Leases(part, r.view)]
    BY <1>12, <1>4 DEF InstallKea, At
  <2>2. Accepted(Leases(part, r.view)) /\ Leases(part, r.view) # {}
    BY <2>1, <1>2, <1>3 DEF KeaPlanned
  <2>3. \A v \in Kea : Accepted(file'[v])
    BY <2>1, <2>2, <1>2, UnitNames DEF Base, World, Contents, Kea
  <2>4. /\ UNCHANGED <<part, past>>
        /\ \A q \in Proc : Busy(q)' => /\ q = p /\ req'[p].todo = Kea3(u)
                                       /\ req'[p].undo = <<>> /\ req'[p].view = r.view
    BY <2>1, <1>3, <1>5
  <2>5. \A q \in Proc : Busy(q)' => KeaPlanned(q, req'[q], part, cand', file', stored')
    <3>1. file'[u] # {}
      BY <2>1, <2>2, <1>4, UnitNames DEF Base, World, Contents, Kea
    <3> QED BY <3>1, <2>1, <2>4, <1>3, <1>7 DEF KeaPlanned
  <2> QED BY <2>3, <2>4, <2>5 DEF KeaOrder, Lone
<1>13. CASE StartKea(p, s)
  <2>1. h.do = "start" /\ (Advance(p) \/ Failed(p)) /\ UNCHANGED <<file, cand>>
    BY <1>13 DEF StartKea, Start, At
  <2>2. UNCHANGED <<part, past>> /\ \A q \in Proc : ~Busy(q)'
    BY <2>1, <1>3, <1>5, <1>6
  <2> QED BY <2>1, <2>2, <1>2 DEF KeaOrder, Lone
<1> QED BY <1>8, <1>9, <1>10, <1>11, <1>12, <1>13

LEMMA KeaOrderRequests ==
  ASSUME Base, KeaOrder, NEW p \in Proc, "met" \notin past', part \in Family, NEW v \in Value,
         Apply(p, part, v)
  PROVE  KeaOrder'
<1> DEFINE s == part
           u == Server(part)
           q == <<Save(s)>> \o Kea0(u)
           k == [stored EXCEPT ![s] = v]
           r == Request(q, k, {u})
<1>1. Begin(p, r) /\ "met" \notin past
  BY DEF Apply, Kea0, Begin
<1>2. /\ Lone /\ \A w \in Kea : Accepted(file[w])
  BY <1>1 DEF KeaOrder
<1>3. q \in Plans /\ k \in Configs(part) /\ {u} \in SUBSET Units(part) /\ q # <<>>
  <2>1. k \in Configs(part)
    BY Families, ConfigPut DEF Base, World
  <2>2. q \in Plans
    BY KeaTails
  <2>3. <<Save(s)>> \in Plans /\ Kea0(u) \in Plans
    <3>1. Save(s) \in Steps
      BY StoreTyped, Families
    <3>2. Kea0(u) \in Plans
      BY KeaTails
    <3> QED BY <3>1, <3>2 DEF Plans
  <2>4. q # <<>>
    BY <2>3, PlanJoin
  <2>5. {u} \in SUBSET Units(part)
    BY Families, UnitsHere DEF Kea
  <2> QED BY <2>1, <2>2, <2>4, <2>5
<1>4. q # Kea1(u) /\ q # Kea2(u) /\ q # Kea3(u)
  BY KeaApart
<1>5. q \in {<<Save(s)>> \o Kea0(u), Whole}
  OBVIOUS
<1> HIDE DEF q, k
<1>6. Asks(r, q, k, {u}, None, <<>>) /\ <<>> \in Plans
  BY DEF Asks, Plans
<1> HIDE DEF r
<1>7. /\ r \in Requests(part) /\ r.ans = "busy" /\ r.todo = q /\ r.undo = <<>> /\ r.view = k
      /\ r.prev = stored /\ r.was = {} /\ r.units = {u} /\ r.item = None /\ r.notes = {}
  <2>1. Posed(r, q, k, {u}, None, <<>>)
    BY <1>3, <1>6, Asking
  <2> QED BY <2>1 DEF Posed
<1>8. /\ UNCHANGED <<part, system>> /\ p # Daemon /\ \A w \in Proc : Busy(w)' => w = p
      /\ req'[p] = [r EXCEPT !.notes = {}]
  BY <1>1, <1>2, <1>3, <1>7, First
<1>9. req'[p].todo = q /\ req'[p].undo = <<>>
  BY <1>7, <1>8 DEF Requests
<1>10. KeaPlanned(p, req'[p], s, cand', file', stored')
  <2>1. Head(q).do = "save"
    BY KeaTails, Words DEF q
  <2> QED BY <2>1, <1>4, <1>5, <1>8, <1>9 DEF KeaPlanned
<1> QED BY <1>1, <1>2, <1>8, <1>10 DEF KeaOrder, Lone, system
LEMMA KeaStarted ==
  ASSUME NEW s \in Family, NEW k \in Configs(s), NEW c, NEW f, NEW p \in Proc,
         Started(s, k)[p].ans = "busy"
  PROVE  p = Daemon /\ KeaPlanned(p, Started(s, k)[p], s, c, f, k)
<1> DEFINE q == StartupSteps(s, k)
           r == [Idle EXCEPT !.ans = "busy", !.todo = q, !.view = k, !.prev = k]
<1>1. Started(s, k)[p] = IF p = Daemon /\ q # <<>> THEN r ELSE Idle
  BY DEF Started
<1>2. q = Kea0(Server(s))
  BY DEF StartupSteps, DhcpStartup, Family, App, Kea0
<1> HIDE DEF q
<1>3. r.todo = q /\ r.undo = <<>> /\ r.view = k /\ Idle.ans # "busy"
  BY DEF Idle, None
<1>4. p = Daemon /\ Started(s, k)[p] = r
  BY <1>1, <1>3
<1>5. /\ Kea0(Server(s)) # Kea1(Server(s)) /\ Kea0(Server(s)) # Kea2(Server(s))
      /\ Kea0(Server(s)) # Kea3(Server(s))
  BY KeaApart
<1> HIDE DEF r
<1> QED BY <1>2, <1>3, <1>4, <1>5 DEF KeaPlanned

LEMMA KeaOrderKept == Base /\ KeaOrder /\ [Next]_vars => KeaOrder'
<1> SUFFICES ASSUME Base, KeaOrder, [Next]_vars, part' \in Family, "met" \notin past'
             PROVE  KeaOrder'
  BY DEF KeaOrder
<1>1. CASE UNCHANGED vars
  <2>1. \A p \in Proc : Busy(p)' <=> Busy(p)
    BY <1>1 DEF vars, Busy
  <2> QED BY <1>1, <2>1 DEF vars, KeaOrder, Lone
<1>2. CASE Restart \/ Reboot
  <2>1. /\ req' = Started(part, stored) /\ "met" \notin past /\ UNCHANGED <<part, stored, file, cand>>
    BY <1>2 DEF Restart, Reboot, Ended
  <2>2. stored \in Configs(part) /\ part \in Family
    BY <2>1 DEF Base, World
  <2>3. \A p \in Proc : Busy(p)' => p = Daemon /\ KeaPlanned(p, req'[p], part, cand', file', stored')
    BY <2>1, <2>2, KeaStarted DEF Busy
  <2>4. \A u \in Kea : Accepted(file'[u])
    BY <2>1, <2>2 DEF KeaOrder
  <2> QED BY <2>1, <2>3, <2>4 DEF KeaOrder, Lone
<1>3. CASE Next /\ ~(Restart \/ Reboot)
  <2>2. part \in Family
    BY <1>3, NextBase
  <2>3. ASSUME NEW p \in Proc,
               \/ Persist(p) \/ Restore(p) \/ Load(p) \/ Fault(p) \/ PassedOver(p)
               \/ Publish(p) \/ RestoreRevision(p)
        PROVE  KeaOrder'
    BY <2>2, <2>3, KeaOrderGeneric
  <2>4. ASSUME NEW p \in Proc, DhcpNext(p) PROVE KeaOrder'
    <3>1. CASE \E s \in Family : \/ Disable(p, s) \/ RemoveConfig(p, s) \/ Propose(p, s)
                                 \/ TestConfig(p, s) \/ InstallKea(p, s) \/ StartKea(p, s)
      BY <3>1, <2>2, KeaOrderSteps
    <3>2. CASE \/ UpdateConfig4(p) \/ UpdateInterface4(p) \/ CreateLease4(p) \/ DeleteLease4(p)
               \/ CreateInterfaceLease4(p) \/ DeleteInterfaceLease4(p)
               \/ UpdateConfig6(p) \/ UpdateInterface6(p) \/ CreateLease6(p) \/ DeleteLease6(p)
               \/ CreateInterfaceLease6(p) \/ DeleteInterfaceLease6(p)
      <4>1. \E v \in Value : Apply(p, part, v)
        BY <3>2, <2>2, DhcpRequests
      <4> QED BY <4>1, <2>2, KeaOrderRequests
    <3> QED BY <3>1, <3>2, <2>4 DEF DhcpNext
  <2> QED BY <1>3, <2>2, <2>3, <2>4 DEF Next, Family, App
<1> QED BY <1>1, <1>2, <1>3

LEMMA InitKeaOrder == Init => KeaOrder
<1> SUFFICES ASSUME Init, part \in Family PROVE KeaOrder
  BY DEF KeaOrder
<1>1. req = Started(part, Blank) /\ stored = Blank /\ file = Nothing
  BY DEF Init
<1>2. \A p \in Proc : Busy(p) => p = Daemon /\ KeaPlanned(p, req[p], part, cand, file, stored)
  BY <1>1, BlankConfig, KeaStarted DEF Busy
<1>3. \A u \in Kea : Accepted(file[u])
  BY <1>1, UnitNames DEF Nothing, Accepted, Kea
<1> QED BY <1>2, <1>3 DEF KeaOrder, Lone

\* Unless two requests meet, the file of a DHCP server is one that kea -t accepts: a file
\* that was not tested, or is not what was tested, is never installed.
THEOREM KeaFilesAccepted == Spec => []KeaAccepted
<1>2. Base /\ KeaOrder => KeaAccepted
  <2> SUFFICES ASSUME Base, KeaOrder, "met" \notin past, NEW u \in Kea PROVE Accepted(file[u])
    BY DEF KeaAccepted
  <2>1. CASE part \in Family
    BY <2>1 DEF KeaOrder
  <2>2. CASE part \notin Family
    <3>1. file[u] = {}
      BY <2>2, Families DEF Base, World, Contents, Kea
    <3> QED BY <3>1 DEF Accepted
  <2> QED BY <2>1, <2>2
<1> QED BY <1>2, InitKeaOrder, InitBase, NextBase, KeaOrderKept, PTL DEF Spec
-----------------------------------------------------------------------------
(* The interfaces in memory and on disk, with what follows from them.  A request about *)
(* an interface that no other one meets goes through its steps in their order.  Where  *)
(* it is says what is changed already, and what it needs to undo it; between requests  *)
(* the lists agree.                                                                    *)

\* Requests before this moment cannot have left the lists apart; nor can a failure.
Trusted(P) == P \intersect {"met", "restored"} = {}
Fresh(P, n) == P = {} /\ n <= 1

Follows(k, c) == /\ k.nat = Translated(c)
                 /\ \A i \in Item : <<i, "auto">> \in k.gateways => i \in WanOf(c)
Agree(k, c, P, n) == /\ Trusted(P) => c = k.interfaces
                     /\ Fresh(P, n) => Follows(k, c)
Autos(v) == {e \in v : e[2] = "auto"}

\* The steps of a request about an interface, from the second on; a deletion (x) has one
\* more.
Acts == {a \in Steps : a.do \in {"link", "teardown"}}
Ending(x) == IF x THEN <<Plain("consult", "store")>> ELSE <<>>
Link6(x) == <<Plain("publish", "nft")>> \o Ending(x)
Link5(a, x) == <<a, Plain("publish", "nft")>> \o Ending(x)
Link4(a, x) == <<Plain("saveauto", "store"), a, Plain("publish", "nft")>> \o Ending(x)
Link3(a, x) == <<Plain("savenat", "store"), Plain("saveauto", "store"), a,
                 Plain("publish", "nft")>> \o Ending(x)
Link2(a, x) == <<Save("interfaces"), Plain("savenat", "store"), Plain("saveauto", "store"), a,
                 Plain("publish", "nft")>> \o Ending(x)
Link1(a, x) == <<Plain("clone", "links"), Save("interfaces"), Plain("savenat", "store"),
                 Plain("saveauto", "store"), a, Plain("publish", "nft")>> \o Ending(x)
Undo2 == <<Plain("recache", "links")>>
Undo1 == <<Step("restore", "store", Section), Plain("recache", "links")>>

\* Request r, with the configuration k on disk and the list c in memory, after P and n
\* failures.  It is about to change the copy, to save it, or to follow up.  What a deletion
\* is about is gone from the copy after its first step.
Changing(r, k, c, P) ==
  LET h == Head(r.todo)
      t == Tail(r.todo)
  IN  /\ k = r.prev
      /\ \E a \in Acts, x \in BOOLEAN :
           \/ /\ h.do \in {"upsert", "drop"} /\ t = Link1(a, x) /\ (x => h.do = "drop")
              /\ Trusted(P) => c = k.interfaces
           \/ /\ h.do = "clone" /\ t = Link2(a, x) /\ (x => ~Knows(c, r.item))
              /\ Trusted(P) => r.was = k.interfaces
           \/ /\ h = Save("interfaces") /\ t = Link3(a, x) /\ (x => ~Knows(c, r.item))
              /\ r.view.interfaces = c
              /\ Trusted(P) => r.was = k.interfaces

Following(r, k, c) ==
  LET h == Head(r.todo)
      t == Tail(r.todo)
  IN  /\ k.interfaces = c
      /\ \E x \in BOOLEAN :
           /\ x => ~Knows(c, r.item)
           /\ \/ \E a \in Acts :
                   /\ r.view.interfaces = c
                   /\ \/ h.do = "savenat" /\ t = Link4(a, x)
                      \/ h.do = "saveauto" /\ t = Link5(a, x) /\ k.nat = Translated(c)
              \/ /\ Follows(k, c)
                 /\ \/ h.do \in {"link", "teardown"} /\ t = Link6(x)
                    \/ h.do = "publish" /\ t = Ending(x)
                    \/ h.do = "consult" /\ h.on = "store" /\ t = <<>> /\ x

OnLink(r, k, c, P, n) ==
  /\ r.undo = Undo1 /\ "failed" \notin r.notes /\ r.item \in Item
  /\ Fresh(P, n) => Follows(r.prev, r.prev.interfaces)
  /\ Changing(r, k, c, P) \/ Following(r, k, c)

\* It writes back what it found, or reads the list from disk.
Undone(r, k, c, P, n) ==
  /\ r.undo = <<>>
  /\ \/ /\ Head(r.todo) = Step("restore", "store", Section) /\ Tail(r.todo) = Undo2
        /\ "failed" \in r.notes /\ k.interfaces = c
        /\ Fresh(P, n) => Follows(r.prev, r.prev.interfaces)
        /\ n >= 1 \/ Follows(k, c)
     \/ /\ Head(r.todo).do = "recache" /\ Tail(r.todo) = <<>>
        /\ k = r.prev /\ r.view.interfaces = k.interfaces
        /\ Fresh(P, n) => Follows(k, k.interfaces)

\* It is about a gateway, or puts back a revision.
OnGateway(r, k, c, P, n) ==
  LET h == Head(r.todo)
      t == Tail(r.todo)
      route(s) == s.do \in {"set", "down"}
  IN  /\ r.undo = <<>> /\ "links" \notin r.units /\ Agree(k, c, P, n)
      /\ \/ /\ h = Save("gateways") /\ Autos(r.view.gateways) \subseteq Autos(k.gateways)
            /\ t = <<>> \/ (route(Head(t)) /\ Tail(t) = <<>>)
         \/ route(h) /\ t = <<>>

OnRevision(r, P) ==
  /\ r.undo = <<>> /\ "links" \notin r.units /\ ~Trusted(P)
  /\ Head(r.todo) = Step("save", "store", Section) /\ Tail(r.todo) = <<>>

NetPlanned(r, k, c, P, n) ==
  \/ OnLink(r, k, c, P, n) \/ Undone(r, k, c, P, n) \/ OnGateway(r, k, c, P, n)
  \/ OnRevision(r, P)

Unmet(p) == Busy(p) /\ "met" \notin req[p].notes
Quiet == \A p \in Client : ~Busy(p)

NetOrder ==
  part = "net" =>
    /\ \A p \in Client : Unmet(p) => NetPlanned(req[p], stored, cache, past, made.faults)
    /\ Quiet => Agree(stored, cache, past, made.faults)
    /\ \A n \in 1..Len(req[Daemon].todo) : req[Daemon].todo[n].do \in {"sync", "refresh"}

\* What KeepsStore says of p.
Kept(p) ==
  "links" \in req[p].units /\ Answered(p, "error", {"failed", "silent"}) =>
    /\ stored' = req[p].prev \/ (Deleted(p) /\ stored' = stored)
    /\ past \intersect {"met", "restored"} # {} \/ cache' = stored'.interfaces

\* What follows a plan follows what is left of it.
LEMMA Joined ==
  ASSUME NEW q \in Plans, NEW e \in Plans, q # <<>>
  PROVE  q \o e # <<>> /\ Head(q \o e) = Head(q) /\ Tail(q \o e) = Tail(q) \o e
<1> DEFINE j == q \o e
           t == Tail(q)
           u == Tail(j)
           v == t \o e
<1>1. /\ Len(q) \in Nat \ {0} /\ Len(e) \in Nat /\ j \in Seq(Steps) /\ Len(j) = Len(q) + Len(e)
      /\ \A n \in 1..(Len(q) + Len(e)) : j[n] = IF n <= Len(q) THEN q[n] ELSE e[n - Len(q)]
  BY ConcatProperties, LenProperties, EmptySeq DEF Plans
<1>2. j # <<>>
  BY PlanJoin
<1>3. /\ t \in Seq(Steps) /\ Len(t) = Len(q) - 1 /\ (\A n \in 1..Len(t) : t[n] = q[n + 1])
      /\ Head(q) = q[1]
  BY HeadTailProperties DEF Plans
<1> HIDE DEF j
<1>4. /\ u \in Seq(Steps) /\ Len(u) = Len(j) - 1 /\ (\A n \in 1..Len(u) : u[n] = j[n + 1])
      /\ Head(j) = j[1]
  BY <1>1, <1>2, HeadTailProperties
<1> HIDE DEF t, u
<1>5. /\ v \in Seq(Steps) /\ Len(v) = Len(t) + Len(e)
      /\ \A n \in 1..(Len(t) + Len(e)) : v[n] = IF n <= Len(t) THEN t[n] ELSE e[n - Len(t)]
  BY <1>3, ConcatProperties DEF Plans
<1> HIDE DEF v
<1>6. Head(j) = Head(q)
  BY <1>1, <1>3, <1>4
<1>7. ASSUME NEW n \in 1..Len(u) PROVE u[n] = v[n]
  <2>1. /\ n \in Nat /\ n >= 1 /\ n <= Len(q) + Len(e) - 1 /\ u[n] = j[n + 1]
    BY <1>1, <1>4
  <2>2. CASE n <= Len(t)
    BY <2>1, <2>2, <1>1, <1>3, <1>5
  <2>3. CASE ~(n <= Len(t))
    <3>1. j[n + 1] = e[n + 1 - Len(q)] /\ v[n] = e[n - Len(t)]
      BY <2>1, <2>3, <1>1, <1>3, <1>5
    <3>2. n + 1 - Len(q) = n - Len(t)
      BY <2>1, <1>1, <1>3
    <3> QED BY <3>1, <3>2, <2>1
  <2> QED BY <2>2, <2>3
<1>8. Len(u) = Len(v)
  BY <1>1, <1>3, <1>4, <1>5
<1>9. u = v
  BY <1>4, <1>5, <1>7, <1>8, SeqEqual
<1> QED BY <1>2, <1>6, <1>9 DEF j, t, u, v

LEMMA Endings ==
  ASSUME NEW x \in BOOLEAN
  PROVE  /\ Ending(x) \in Plans /\ <<>> \o Ending(x) = Ending(x)
         /\ ~x => Ending(x) = <<>>
         /\ x => /\ Head(Ending(x)).do = "consult" /\ Head(Ending(x)).on = "store"
                 /\ Tail(Ending(x)) = <<>> /\ Ending(x) # <<>>
<1> DEFINE s == Plain("consult", "store")
<1>1. s \in Steps /\ s.do = "consult" /\ s.on = "store"
  BY LinkSteps, Words
<1>2. Ending(x) = IF x THEN <<s>> ELSE <<>>
  BY DEF Ending
<1> HIDE DEF s
<1>3. <<s>> \in Plans /\ <<>> \in Plans /\ Head(<<s>>) = s /\ Tail(<<s>>) = <<>> /\ <<s>> # <<>>
  BY <1>1 DEF Plans
<1>4. Ending(x) \in Plans
  BY <1>2, <1>3
<1>5. <<>> \o Ending(x) = Ending(x)
  BY <1>4, ConcatEmptySeq DEF Plans
<1> QED BY <1>1, <1>2, <1>3, <1>4, <1>5

LEMMA NetTails ==
  ASSUME NEW a \in Acts, NEW x \in BOOLEAN
  PROVE  /\ Head(Link1(a, x)).do = "clone" /\ Tail(Link1(a, x)) = Link2(a, x)
         /\ Link1(a, x) # <<>>
         /\ Head(Link2(a, x)) = Save("interfaces") /\ Tail(Link2(a, x)) = Link3(a, x)
         /\ Link2(a, x) # <<>>
         /\ Head(Link3(a, x)).do = "savenat" /\ Tail(Link3(a, x)) = Link4(a, x)
         /\ Link3(a, x) # <<>>
         /\ Head(Link4(a, x)).do = "saveauto" /\ Tail(Link4(a, x)) = Link5(a, x)
         /\ Link4(a, x) # <<>>
         /\ Head(Link5(a, x)) = a /\ a.do \in {"link", "teardown"} /\ Tail(Link5(a, x)) = Link6(x)
         /\ Link5(a, x) # <<>>
         /\ Head(Link6(x)).do = "publish" /\ Tail(Link6(x)) = Ending(x) /\ Link6(x) # <<>>
<1> DEFINE b == Plain("clone", "links")
           c == Save("interfaces")
           d == Plain("savenat", "store")
           e == Plain("saveauto", "store")
           f == Plain("publish", "nft")
           y == Ending(x)
           l1 == <<b, c, d, e, a, f>>
           l2 == <<c, d, e, a, f>>
           l3 == <<d, e, a, f>>
           l4 == <<e, a, f>>
           l5 == <<a, f>>
           l6 == <<f>>
<1>1. /\ Link1(a, x) = l1 \o y /\ Link2(a, x) = l2 \o y /\ Link3(a, x) = l3 \o y
      /\ Link4(a, x) = l4 \o y /\ Link5(a, x) = l5 \o y /\ Link6(x) = l6 \o y
  BY DEF Link1, Link2, Link3, Link4, Link5, Link6
<1>2. /\ b.do = "clone" /\ d.do = "savenat" /\ e.do = "saveauto" /\ f.do = "publish"
      /\ a.do \in {"link", "teardown"}
  BY Words DEF Acts
<1>3. /\ a \in Steps /\ b \in Steps /\ c \in Steps /\ d \in Steps /\ e \in Steps /\ f \in Steps
  BY LinkSteps DEF Acts
<1>4. y \in Plans /\ <<>> \o y = y
  BY Endings
<1> HIDE DEF b, c, d, e, f, y
<1>5. /\ l1 \in Plans /\ l1 # <<>> /\ Head(l1) = b /\ Tail(l1) = l2
      /\ l2 \in Plans /\ l2 # <<>> /\ Head(l2) = c /\ Tail(l2) = l3
  BY <1>3 DEF Plans
<1>6. /\ l3 \in Plans /\ l3 # <<>> /\ Head(l3) = d /\ Tail(l3) = l4
      /\ l4 \in Plans /\ l4 # <<>> /\ Head(l4) = e /\ Tail(l4) = l5
  BY <1>3 DEF Plans
<1>7. /\ l5 \in Plans /\ l5 # <<>> /\ Head(l5) = a /\ Tail(l5) = l6
      /\ l6 \in Plans /\ l6 # <<>> /\ Head(l6) = f /\ Tail(l6) = <<>>
  BY <1>3 DEF Plans
<1> HIDE DEF l1, l2, l3, l4, l5, l6
<1>8. /\ l1 \o y # <<>> /\ Head(l1 \o y) = b /\ Tail(l1 \o y) = l2 \o y
      /\ l2 \o y # <<>> /\ Head(l2 \o y) = c /\ Tail(l2 \o y) = l3 \o y
  BY <1>4, <1>5, Joined
<1>9. /\ l3 \o y # <<>> /\ Head(l3 \o y) = d /\ Tail(l3 \o y) = l4 \o y
      /\ l4 \o y # <<>> /\ Head(l4 \o y) = e /\ Tail(l4 \o y) = l5 \o y
  BY <1>4, <1>6, Joined
<1>10. /\ l5 \o y # <<>> /\ Head(l5 \o y) = a /\ Tail(l5 \o y) = l6 \o y
       /\ l6 \o y # <<>> /\ Head(l6 \o y) = f /\ Tail(l6 \o y) = y
  BY <1>4, <1>7, Joined
<1> QED BY <1>1, <1>2, <1>8, <1>9, <1>10 DEF c, y

LEMMA UndoTails ==
  /\ Head(Undo1) = Step("restore", "store", Section) /\ Tail(Undo1) = Undo2 /\ Undo1 # <<>>
  /\ Head(Undo2).do = "recache" /\ Tail(Undo2) = <<>> /\ Undo2 # <<>>
<1> DEFINE g == Step("restore", "store", Section)
           h == Plain("recache", "links")
<1>1. Undo1 = <<g, h>> /\ Undo2 = <<h>> /\ h.do = "recache"
  BY Words DEF Undo1, Undo2
<1> HIDE DEF g, h
<1>2. /\ Head(<<g, h>>) = g /\ Tail(<<g, h>>) = <<h>> /\ <<g, h>> # <<>>
      /\ Head(<<h>>) = h /\ Tail(<<h>>) = <<>> /\ <<h>> # <<>>
  OBVIOUS
<1> QED BY <1>1, <1>2 DEF g

\* What has to hold when p goes on as x, unless it has met another request.
Onward(p, x) ==
  /\ x.todo # <<>> => NetPlanned(x, stored', cache', past', made'.faults)
  /\ x.todo = <<>> => /\ Agree(stored', cache', past', made'.faults)
                      /\ "failed" \in x.notes /\ "again" \notin x.notes
                         /\ "links" \in req[p].units =>
                              stored' = req[p].prev \/ (Deleted(p) /\ stored' = stored)

\* A step of a client: p goes on as x.
LEMMA NetGoes ==
  ASSUME Base, NetOrder, part = "net", NEW p \in Client, Busy(p), NEW x \in Requests(part),
         x.ans = "busy", Alike(x, req[p]), Become(p, x),
         Unmet(p) => Onward(p, x)
  PROVE  NetOrder' /\ \A q \in Client : Kept(q)
<1>1. /\ Served(part, req') /\ UNCHANGED <<part, past>> /\ Alike(req'[p], req[p])
      /\ \A q \in Proc \ {p} : req'[q] = req[q]
      /\ x.todo # <<>> => req'[p] = x
      /\ x.todo = <<>> => /\ req'[p].ans = IF "failed" \in x.notes THEN "error" ELSE "ok"
                          /\ req'[p].notes = x.notes /\ req'[p].item = None
  <2>1. Served(part, req) /\ p \in Proc
    BY DEF Base, Proc
  <2> QED BY <2>1, Becoming
<1>2. Daemon \in Proc /\ p # Daemon /\ Client \subseteq Proc
  BY ServiceAssumption DEF Proc
<1>0. ASSUME "met" \notin req[p].notes
      PROVE  /\ x.todo # <<>> => NetPlanned(x, stored', cache', past', made'.faults)
             /\ x.todo = <<>> => /\ Agree(stored', cache', past', made'.faults)
                                 /\ "failed" \in x.notes /\ "again" \notin x.notes
                                    /\ "links" \in req[p].units =>
                                         stored' = req[p].prev \/ (Deleted(p) /\ stored' = stored)
  BY <1>0 DEF Unmet, Onward
<1>3. ASSUME NEW q \in Client, Unmet(q)'
      PROVE  NetPlanned(req'[q], stored', cache', past', made'.faults)
  <2>1. q = p
    BY <1>1, <1>2, <1>3 DEF Base, Served, Busy, Unmet
  <2>2. "met" \notin req[p].notes
    BY <1>1, <1>3, <2>1 DEF Unmet, Alike
  <2>3. x.todo # <<>>
    BY <1>1, <1>3, <2>1 DEF Unmet, Busy
  <2> QED BY <1>0, <1>1, <2>1, <2>2, <2>3
<1>4. Quiet' => Agree(stored', cache', past', made'.faults)
  <2> SUFFICES ASSUME Quiet' PROVE Agree(stored', cache', past', made'.faults)
    OBVIOUS
  <2>1. x.todo = <<>>
    BY <1>1 DEF Quiet, Busy
  <2>2. CASE "met" \in req[p].notes
    <3>1. "met" \in past'
      BY <2>2, <1>1, <1>2 DEF Base
    <3> QED BY <3>1 DEF Agree, Trusted, Fresh
  <2>3. CASE "met" \notin req[p].notes
    BY <1>0, <2>1, <2>3
  <2> QED BY <2>2, <2>3
<1>5. req'[Daemon] = req[Daemon]
  BY <1>1, <1>2
<1>6. ASSUME NEW q \in Client PROVE Kept(q)
  <2> SUFFICES ASSUME "links" \in req[q].units, Answered(q, "error", {"failed", "silent"})
               PROVE  /\ stored' = req[q].prev \/ (Deleted(q) /\ stored' = stored)
                      /\ ~Trusted(past) \/ cache' = stored'.interfaces
    BY DEF Kept, Trusted
  <2>1. q = p
    BY <1>1, <1>2 DEF Answered, Busy
  <2>2. x.todo = <<>> /\ "failed" \in x.notes
    BY <1>1, <2>1 DEF Answered
  <2>3. "again" \notin x.notes /\ "met" \notin req[p].notes
    BY <1>1, <2>1, <2>2 DEF Answered, Alike
  <2>4. /\ stored' = req[p].prev \/ (Deleted(p) /\ stored' = stored)
        /\ Agree(stored', cache', past', made'.faults)
    BY <1>0, <2>1, <2>2, <2>3
  <2> QED BY <2>1, <2>4, <1>1 DEF Agree
<1>7. NetOrder'
  BY <1>1, <1>3, <1>4, <1>5 DEF NetOrder
<1> QED BY <1>6, <1>7
\* A step of a client fails: what it has changed is undone, or nothing is left to be done.
LEMMA NetFails ==
  ASSUME Base, NetOrder, part = "net", NEW p \in Client, Busy(p), Failed(p), stored' = stored,
         NEW h, h = Head(req[p].todo), h.do \notin Tolerated \union (Harmless \ {"drop"}),
         \/ made'.faults = made.faults + 1
         \/ made'.faults = made.faults /\ h.do \in {"drop", "link", "set"},
         cache' = IF At(p, "save", "store") /\ h.of = {"interfaces"} THEN req[p].was ELSE cache
  PROVE  NetOrder' /\ \A q \in Client : Kept(q)
<1> DEFINE r == req[p]
           n == IF "failed" \in req[p].notes THEN "again" ELSE "failed"
<1>1. PICK x \in Requests(part) :
        /\ Become(p, x) /\ x.ans = "busy" /\ Same(x, req[p])
        /\ x.notes = req[p].notes \union {n}
        /\ x.undo = <<>>
        /\ x.todo = IF Head(req[p].todo).do \in {"save", "drop", "consult"} THEN <<>> ELSE req[p].undo
  <2>1. Served(part, req) /\ p \in Proc /\ p # Daemon
    BY ServiceAssumption DEF Base, Proc
  <2> QED BY <2>1, Failing
<1>2. Alike(x, req[p]) /\ x.prev = req[p].prev /\ UNCHANGED past
  BY <1>1 DEF Alike, Same, Become
<1>3. made.faults \in Nat /\ made'.faults \in Nat /\ made.faults <= made'.faults
  BY ServiceAssumption DEF Base, World, Budget
<1>4. Fresh(past, made'.faults) => Fresh(past, made.faults) /\ Trusted(past)
  BY <1>3 DEF Fresh, Trusted
<1>5. ASSUME Unmet(p) PROVE Onward(p, x)
  <2>1. NetPlanned(r, stored, cache, past, made.faults)
    BY <1>5 DEF NetOrder
  <2>2. /\ h.do \notin {"upsert", "clone", "teardown", "recache", "down"}
    BY DEF Tolerated, Harmless
  <2>3. CASE OnLink(r, stored, cache, past, made.faults) /\ Changing(r, stored, cache, past)
    <3>1. /\ stored = r.prev /\ h.do \in {"drop", "save"}
          /\ h.do = "drop" => (Trusted(past) => cache = stored.interfaces)
          /\ h.do = "save" => h = Save("interfaces") /\ (Trusted(past) => r.was = stored.interfaces)
      BY <2>2, <2>3, Words DEF Changing
    <3>2. h.do = "save" => h.of = {"interfaces"} /\ At(p, "save", "store")
      BY <3>1, Words DEF At
    <3>3. Trusted(past) => cache' = stored.interfaces
      BY <3>1, <3>2 DEF At
    <3>4. Fresh(past, made'.faults) => Follows(stored, stored.interfaces)
      BY <1>4, <2>3, <3>1 DEF OnLink
    <3>5. x.todo = <<>>
      BY <1>1, <3>1
    <3> QED BY <3>1, <3>3, <3>4, <3>5, <1>2, <1>4 DEF Agree, Onward
  <2>8. CASE OnLink(r, stored, cache, past, made.faults) /\ Following(r, stored, cache)
              /\ h.do = "consult"
    <3>1. /\ stored.interfaces = cache /\ Follows(stored, cache) /\ h.on = "store"
          /\ ~Knows(cache, r.item)
      BY <2>8 DEF Following
    <3>2. x.todo = <<>> /\ cache' = cache
      BY <1>1, <2>8 DEF At
    <3>3. Deleted(p)
      BY <3>1, <2>8, <1>5 DEF Deleted, FollowsFrom, Follows, At, Unmet
    <3>4. Agree(stored', cache', past', made'.faults)
      BY <3>1, <3>2, <1>2 DEF Agree
    <3> QED BY <3>2, <3>3, <3>4 DEF Onward
  <2>4. CASE OnLink(r, stored, cache, past, made.faults) /\ Following(r, stored, cache)
              /\ h.do # "consult"
    <3>1. /\ stored.interfaces = cache /\ h.do \in {"savenat", "saveauto", "link", "publish"}
          /\ h.do = "link" => Follows(stored, cache)
      BY <2>2, <2>4, Words DEF Following
    <3>2. cache' = cache /\ x.todo = Undo1 /\ "failed" \in x.notes
      BY <3>1, <2>4, <1>1 DEF OnLink, At
    <3>3. made'.faults >= 1 \/ Follows(stored, cache)
      BY <3>1, <1>3
    <3>4. Fresh(past, made'.faults) => Follows(x.prev, x.prev.interfaces)
      BY <1>2, <1>4, <2>4 DEF OnLink
    <3>6. Head(Undo1) = Step("restore", "store", Section) /\ Tail(Undo1) = Undo2 /\ Undo1 # <<>>
      BY UndoTails
    <3>7. Undone(x, stored, cache, past, made'.faults)
      BY <3>1, <3>2, <3>3, <3>4, <3>6, <1>1 DEF Undone
    <3> QED BY <3>2, <3>6, <3>7, <1>2 DEF NetPlanned, Onward
  <2>5. CASE Undone(r, stored, cache, past, made.faults)
    <3>1. /\ h.do = "restore" /\ "failed" \in r.notes /\ stored.interfaces = cache
          /\ made.faults >= 1 \/ Follows(stored, cache)
      BY <2>2, <2>5, Words DEF Undone
    <3>2. cache' = cache /\ x.todo = <<>> /\ "again" \in x.notes /\ made'.faults = made.faults + 1
      BY <3>1, <2>5, <1>1 DEF Undone, At
    <3>3. Fresh(past, made'.faults) => Follows(stored, cache)
      BY <3>1, <3>2, <1>3 DEF Fresh
    <3> QED BY <3>1, <3>2, <3>3, <1>2 DEF Agree, Onward
  <2>6. CASE OnGateway(r, stored, cache, past, made.faults)
    <3>1. /\ "links" \notin r.units /\ Agree(stored, cache, past, made.faults) /\ r.undo = <<>>
          /\ h.do = "save" => h = Save("gateways")
      BY <2>6, Words DEF OnGateway
    <3>2. At(p, "save", "store") => h.of = {"gateways"}
      BY <3>1, Words DEF At
    <3>3. cache' = cache /\ x.todo = <<>>
      BY <3>1, <3>2, <1>1
    <3> QED BY <3>1, <3>3, <1>2, <1>4 DEF Agree, Onward
  <2>7. CASE OnRevision(r, past)
    <3>1. "links" \notin r.units /\ ~Trusted(past) /\ x.todo = <<>>
      BY <2>7, <1>1 DEF OnRevision
    <3> QED BY <3>1, <1>2, <1>4 DEF Agree, Onward
  <2> QED BY <2>1, <2>3, <2>4, <2>5, <2>6, <2>7, <2>8 DEF NetPlanned, OnLink
<1> HIDE DEF n
<1> QED BY <1>1, <1>2, <1>5, NetGoes
LEMMA NetMoves ==
  ASSUME Base, NEW p \in Proc, Busy(p), Advance(p)
  PROVE  \E x \in Requests(part) :
           /\ Become(p, x) /\ x.ans = "busy" /\ Alike(x, req[p]) /\ Same(x, req[p])
           /\ x.todo = Tail(req[p].todo) /\ x.undo = req[p].undo /\ x.notes = req[p].notes
<1> DEFINE x == Past(req[p])
<1>1. /\ x \in Requests(part) /\ x.ans = "busy" /\ x.todo = Tail(req[p].todo)
      /\ x.undo = req[p].undo /\ x.notes = req[p].notes /\ Same(x, req[p])
  BY AtWork, Going
<1>2. Become(p, x)
  BY DEF Advance
<1> HIDE DEF x
<1>3. Alike(x, req[p])
  BY <1>1 DEF Alike
<1> QED BY <1>1, <1>2, <1>3

\* A section is saved: the interfaces, the gateways, or a whole revision.
LEMMA NetPersist ==
  ASSUME Base, NetOrder, part = "net", NEW p \in Client, Persist(p)
  PROVE  NetOrder' /\ \A q \in Client : Kept(q)
<1> DEFINE r == req[p]
           h == Head(req[p].todo)
<1>1. /\ Busy(p) /\ h.do = "save" /\ Advance(p) /\ UNCHANGED <<cache, made>>
      /\ stored' = [s \in Section |-> IF s \in h.of THEN r.view[s] ELSE stored[s]]
  BY DEF Persist, At, Of
<1>2. PICK x \in Requests(part) :
        /\ Become(p, x) /\ x.ans = "busy" /\ Alike(x, req[p]) /\ Same(x, req[p])
        /\ x.todo = Tail(req[p].todo) /\ x.undo = req[p].undo /\ x.notes = req[p].notes
  BY <1>1, NetMoves DEF Proc
<1>3. /\ UNCHANGED past /\ x.prev = r.prev /\ x.view = r.view /\ x.units = r.units
      /\ x.item = r.item /\ {"interfaces", "nat", "gateways"} \subseteq Section
  BY <1>2 DEF Become, Same, Section
<1>4. ASSUME Unmet(p) PROVE Onward(p, x)
  <2>1. NetPlanned(r, stored, cache, past, made.faults)
    BY <1>4 DEF NetOrder
  <2>2. CASE OnLink(r, stored, cache, past, made.faults)
    <3>1. PICK a \in Acts, z \in BOOLEAN :
            /\ h = Save("interfaces") /\ Tail(r.todo) = Link3(a, z) /\ r.view.interfaces = cache
            /\ z => ~Knows(cache, r.item)
      <4>1. Changing(r, stored, cache, past)
        BY <2>2, <1>1 DEF OnLink, Following
      <4> QED BY <4>1, <1>1 DEF Changing
    <3>2. h.of = {"interfaces"}
      BY <3>1, Words
    <3>3. stored'.interfaces = cache'
      BY <3>1, <3>2, <1>1, <1>3
    <3>4. Head(Link3(a, z)).do = "savenat" /\ Tail(Link3(a, z)) = Link4(a, z) /\ Link3(a, z) # <<>>
      BY NetTails
    <3>5. Following(x, stored', cache')
      BY <3>1, <3>3, <3>4, <1>1, <1>2, <1>3 DEF Following
    <3>6. OnLink(x, stored', cache', past', made'.faults)
      BY <3>5, <2>2, <1>1, <1>2, <1>3 DEF OnLink
    <3> QED BY <3>1, <3>4, <3>6, <1>2 DEF Onward, NetPlanned
  <2>3. CASE Undone(r, stored, cache, past, made.faults)
    BY <2>3, <1>1, Words DEF Undone
  <2>4. CASE OnGateway(r, stored, cache, past, made.faults)
    <3>1. /\ h = Save("gateways") /\ Autos(r.view.gateways) \subseteq Autos(stored.gateways)
          /\ r.undo = <<>> /\ "links" \notin r.units /\ Agree(stored, cache, past, made.faults)
          /\ \/ Tail(r.todo) = <<>>
             \/ Head(Tail(r.todo)).do \in {"set", "down"} /\ Tail(Tail(r.todo)) = <<>>
      BY <2>4, <1>1 DEF OnGateway
    <3>2. h.of = {"gateways"}
      BY <3>1, Words
    <3>3. stored'.interfaces = stored.interfaces /\ stored'.nat = stored.nat /\ stored'.gateways = r.view.gateways
      BY <3>2, <1>1, <1>3
    <3>4. ASSUME NEW i, <<i, "auto">> \in stored'.gateways PROVE <<i, "auto">> \in stored.gateways
      BY <3>1, <3>3, <3>4 DEF Autos
    <3>5. Agree(stored', cache', past', made'.faults)
      BY <3>1, <3>3, <3>4, <1>1, <1>3 DEF Agree, Follows
    <3>6. x.todo # <<>> => OnGateway(x, stored', cache', past', made'.faults)
      BY <3>1, <3>5, <1>2, <1>3 DEF OnGateway
    <3> QED BY <3>1, <3>5, <3>6 DEF Onward, NetPlanned
  <2>5. CASE OnRevision(r, past)
    BY <2>5, <1>2, <1>3 DEF OnRevision, Onward, Agree, Fresh, Trusted
  <2> QED BY <2>1, <2>2, <2>3, <2>4, <2>5 DEF NetPlanned
<1> QED BY <1>1, <1>2, <1>4, NetGoes

\* The whole configuration is put back.
LEMMA NetRestore ==
  ASSUME Base, NetOrder, part = "net", NEW p \in Client, Restore(p)
  PROVE  NetOrder' /\ \A q \in Client : Kept(q)
<1> DEFINE r == req[p]
           h == Head(req[p].todo)
           back(k) == [s \in Section |-> IF s \in h.of THEN r.prev[s] ELSE k[s]]
           y == [Past(r) EXCEPT !.view = back(@)]
<1>1. /\ Busy(p) /\ h.do = "restore" /\ Become(p, y) /\ UNCHANGED <<cache, made>>
      /\ stored' = back(stored)
  BY DEF Restore, At, Of
<1>2. /\ r \in Requests(part) /\ r.view \in Configs(part) /\ r.prev \in Configs(part)
      /\ Past(r) \in Requests(part) /\ Past(r).todo = Tail(r.todo) /\ Past(r).ans = "busy"
      /\ Past(r).notes = r.notes /\ Past(r).undo = r.undo /\ Same(Past(r), r)
  <2>1. p \in Proc
    BY DEF Proc
  <2> QED BY <1>1, <2>1, AtWork, Going
<1>3. \A k \in Configs(part) : back(k) \in Configs(part) /\ (h.of = Section => back(k) = r.prev)
  <2> SUFFICES ASSUME NEW k \in Configs(part)
               PROVE  back(k) \in Configs(part) /\ (h.of = Section => back(k) = r.prev)
    OBVIOUS
  <2>1. back(k) \in Configs(part)
    BY <1>2, ConfigMix
  <2>2. r.prev = [s \in Section |-> r.prev[s]]
    BY <1>2 DEF Configs, Config
  <2> QED BY <2>1, <2>2
<1>4. back(r.view) \in Configs(part) /\ Past(r).view = r.view /\ stored \in Configs(part)
  BY <1>2, <1>3 DEF Same, Base, World
<1> HIDE DEF back
<1>5. /\ y \in Requests(part) /\ y.ans = "busy" /\ y.todo = Tail(r.todo) /\ y.notes = r.notes
      /\ y.undo = r.undo /\ y.view = back(r.view) /\ y.prev = r.prev
  BY <1>2, <1>4 DEF Requests, Same
<1> HIDE DEF y
<1>6. PICK x \in Requests(part) :
        /\ Become(p, x) /\ x.ans = "busy" /\ x.todo = Tail(r.todo) /\ x.notes = r.notes
        /\ x.undo = r.undo /\ x.view = back(r.view) /\ x.prev = r.prev
  BY <1>1, <1>5
<1>7. UNCHANGED past /\ Alike(x, req[p])
  BY <1>6 DEF Become, Alike
<1>8. ASSUME Unmet(p) PROVE Onward(p, x)
  <2>1. NetPlanned(r, stored, cache, past, made.faults)
    BY <1>8 DEF NetOrder
  <2>2. /\ Undone(r, stored, cache, past, made.faults) /\ h = Step("restore", "store", Section)
        /\ Tail(r.todo) = Undo2
        /\ Fresh(past, made.faults) => Follows(r.prev, r.prev.interfaces)
    <3>1. ~OnLink(r, stored, cache, past, made.faults)
      BY <1>1, Words DEF OnLink, Changing, Following
    <3>2. ~OnGateway(r, stored, cache, past, made.faults) /\ ~OnRevision(r, past)
      BY <1>1, Words DEF OnGateway, OnRevision
    <3>3. Undone(r, stored, cache, past, made.faults)
      BY <2>1, <3>1, <3>2 DEF NetPlanned
    <3> QED BY <3>3, <1>1 DEF Undone
  <2>3. h.of = Section
    BY <2>2, Words
  <2>4. stored' = r.prev /\ x.view = r.prev
    BY <2>3, <1>1, <1>2, <1>3, <1>4, <1>6
  <2>5. Head(Undo2).do = "recache" /\ Tail(Undo2) = <<>> /\ Undo2 # <<>>
    BY UndoTails
  <2>6. Undone(x, stored', cache', past', made'.faults)
    BY <2>2, <2>4, <2>5, <1>1, <1>6, <1>7 DEF Undone
  <2> QED BY <2>2, <2>5, <2>6, <1>6 DEF Onward, NetPlanned
<1> QED BY <1>1, <1>6, <1>7, <1>8, NetGoes
\* The request that is alone is where its next step says.
LEMMA NetHead ==
  ASSUME NetOrder, part = "net", NEW p \in Client, Unmet(p)
  PROVE  LET r == req[p]
             do == Head(req[p].todo).do
         IN  /\ do \in {"upsert", "drop", "clone", "save", "savenat", "saveauto", "link", "teardown",
                        "publish", "consult", "restore", "recache", "set", "down"}
             /\ do \in {"upsert", "drop", "clone"} =>
                  OnLink(r, stored, cache, past, made.faults) /\ Changing(r, stored, cache, past)
             /\ do \in {"savenat", "saveauto", "link", "teardown", "publish", "consult"} =>
                  OnLink(r, stored, cache, past, made.faults) /\ Following(r, stored, cache)
             /\ do = "recache" => Undone(r, stored, cache, past, made.faults)
             /\ do \in {"set", "down"} => OnGateway(r, stored, cache, past, made.faults)
<1> DEFINE r == req[p]
           do == Head(req[p].todo).do
<1>1. NetPlanned(r, stored, cache, past, made.faults)
  BY DEF NetOrder
<1>2. CASE OnLink(r, stored, cache, past, made.faults) /\ Changing(r, stored, cache, past)
  <2>1. do \in {"upsert", "drop", "clone", "save"}
    BY <1>2, Words DEF Changing
  <2> QED BY <1>2, <2>1
<1>3. CASE OnLink(r, stored, cache, past, made.faults) /\ Following(r, stored, cache)
  <2>1. do \in {"savenat", "saveauto", "link", "teardown", "publish", "consult"}
    BY <1>3 DEF Following
  <2> QED BY <1>3, <2>1
<1>4. CASE Undone(r, stored, cache, past, made.faults)
  <2>1. do \in {"restore", "recache"}
    BY <1>4, Words DEF Undone
  <2> QED BY <1>4, <2>1
<1>5. CASE OnGateway(r, stored, cache, past, made.faults)
  <2>1. do \in {"save", "set", "down"}
    BY <1>5, Words DEF OnGateway
  <2> QED BY <1>5, <2>1
<1>6. CASE OnRevision(r, past)
  <2>1. do = "save"
    BY <1>6, Words DEF OnRevision
  <2> QED BY <2>1
<1> QED BY <1>1, <1>2, <1>3, <1>4, <1>5, <1>6 DEF NetPlanned, OnLink

\* The copy in memory is changed, and read for the request.
LEMMA NetChanges ==
  ASSUME Base, NetOrder, part = "net", NEW p \in Client, Upsert(p) \/ Drop(p) \/ CloneList(p)
  PROVE  NetOrder' /\ \A q \in Client : Kept(q)
<1> DEFINE r == req[p]
           h == Head(req[p].todo)
<1>1. Busy(p) /\ p \in Proc
  <2>1. Upsert(p) => Busy(p)
    BY DEF Upsert, At
  <2> QED BY <2>1 DEF Drop, CloneList, At, Proc
<1>2. /\ r \in Requests(part) /\ r.view \in Configs(part) /\ r.prev \in Configs(part)
      /\ Past(r) \in Requests(part) /\ Past(r).todo = Tail(r.todo) /\ Past(r).ans = "busy"
      /\ Past(r).notes = r.notes /\ Past(r).undo = r.undo /\ Same(Past(r), r)
  BY <1>1, AtWork, Going
<1>3. cache \in Lists(part) /\ r.prev["interfaces"] \in Lists(part) /\ "interfaces" \in Section
  BY <1>2, ConfigSection DEF Base, World, Lists, Section
<1>4. ASSUME NEW w \in Lists(part), Become(p, [Past(r) EXCEPT !.was = w])
      PROVE  \E x \in Requests(part) :
               /\ Become(p, x) /\ x.ans = "busy" /\ x.todo = Tail(r.todo) /\ x.notes = r.notes
               /\ x.undo = r.undo /\ x.view = r.view /\ x.prev = r.prev /\ x.was = w
               /\ x.item = r.item /\ Alike(x, req[p]) /\ UNCHANGED past
  <2> DEFINE y == [Past(r) EXCEPT !.was = w]
  <2>1. /\ y \in Requests(part) /\ y.ans = "busy" /\ y.todo = Tail(r.todo) /\ y.notes = r.notes
        /\ y.undo = r.undo /\ y.view = r.view /\ y.prev = r.prev /\ y.was = w /\ y.item = r.item
    BY <1>2 DEF Requests, Same
  <2>2. Become(p, y)
    BY <1>4
  <2> HIDE DEF y
  <2> QED BY <2>1, <2>2 DEF Become, Alike
<1>5. ASSUME UNCHANGED <<stored, made>>, Head(r.todo).do \in {"upsert", "drop"}, NEW w \in Lists(part),
             Trusted(past) /\ stored = r.prev /\ cache = stored.interfaces => w = stored.interfaces,
             h.do = "drop" => \A m \in Mark : r.item \in Item => <<r.item, m>> \notin cache',
             Become(p, [Past(r) EXCEPT !.was = w])
      PROVE  NetOrder' /\ \A q \in Client : Kept(q)
  <2>1. PICK x \in Requests(part) :
          /\ Become(p, x) /\ x.ans = "busy" /\ x.todo = Tail(r.todo) /\ x.notes = r.notes
          /\ x.undo = r.undo /\ x.view = r.view /\ x.prev = r.prev /\ x.was = w
          /\ x.item = r.item /\ Alike(x, req[p]) /\ UNCHANGED past
    BY <1>4, <1>5
  <2>2. ASSUME Unmet(p) PROVE Onward(p, x)
    <3>1. OnLink(r, stored, cache, past, made.faults) /\ Changing(r, stored, cache, past)
      BY <1>5, <2>2, NetHead
    <3>2. PICK a \in Acts, z \in BOOLEAN :
            /\ stored = r.prev /\ Tail(r.todo) = Link1(a, z) /\ (z => h.do = "drop")
            /\ Trusted(past) => cache = stored.interfaces
      BY <3>1, <1>5, Words DEF Changing
    <3>7. z => ~Knows(cache', x.item)
      BY <3>1, <3>2, <2>1, <1>5 DEF Knows, Without, OnLink
    <3>3. Head(Link1(a, z)).do = "clone" /\ Tail(Link1(a, z)) = Link2(a, z) /\ Link1(a, z) # <<>>
      BY NetTails
    <3>4. Trusted(past) => x.was = stored.interfaces
      BY <3>2, <2>1, <1>5
    <3>5. Changing(x, stored', cache', past')
      BY <3>2, <3>3, <3>4, <3>7, <2>1, <1>5 DEF Changing
    <3>6. OnLink(x, stored', cache', past', made'.faults)
      BY <3>5, <3>1, <2>1, <1>5 DEF OnLink
    <3> QED BY <3>2, <3>3, <3>6, <2>1 DEF Onward, NetPlanned
  <2> QED BY <2>1, <2>2, <1>1, NetGoes
<1>6. CASE Upsert(p)
  <2>1. /\ UNCHANGED <<stored, made>> /\ h.do = "upsert"
        /\ Become(p, [Past(r) EXCEPT !.was = r.prev["interfaces"]])
    BY <1>6 DEF Upsert, At
  <2>2. h.do # "drop"
    BY <2>1
  <2> QED BY <2>1, <2>2, <1>3, <1>5
<1>7. CASE Drop(p)
  <2> DEFINE gone == Household(r.item) \intersect Named(cache)
  <2>1. /\ UNCHANGED <<stored, made>> /\ h.do = "drop" /\ cache' = {e \in cache : e[1] \notin gone}
        /\ IF gone = {} THEN Failed(p) ELSE Become(p, [Past(r) EXCEPT !.was = cache])
    BY <1>7 DEF Drop, At
  <2>4. ASSUME NEW m \in Mark, r.item \in Item PROVE <<r.item, m>> \notin cache'
    <3>1. SUFFICES ASSUME <<r.item, m>> \in cache PROVE r.item \in gone
      BY <2>1
    <3> QED BY <3>1, <2>4 DEF Household, Named, Knows, Without
  <2> HIDE DEF gone
  <2>2. CASE gone = {}
    <3>1. cache' = cache /\ Failed(p) /\ h.do \notin Tolerated \union (Harmless \ {"drop"})
      BY <2>1, <2>2 DEF Tolerated, Harmless
    <3>2. made'.faults = made.faults /\ ~At(p, "save", "store")
      BY <2>1 DEF At
    <3> QED BY <3>1, <3>2, <2>1, <1>1, NetFails
  <2>3. CASE gone # {}
    <3>1. Become(p, [Past(r) EXCEPT !.was = cache]) /\ UNCHANGED <<stored, made>> /\ h.do = "drop"
      BY <2>1, <2>3
    <3> QED BY <3>1, <2>4, <1>3, <1>5
  <2> QED BY <2>2, <2>3
<1>8. CASE CloneList(p)
  <2> DEFINE k == [Past(r).view EXCEPT !["interfaces"] = cache]
             y == [Past(r) EXCEPT !.view = k]
  <2>1. Become(p, y) /\ UNCHANGED <<system, made>> /\ h.do = "clone"
    BY <1>8 DEF CloneList, At
  <2>2. k \in Configs(part) /\ k["interfaces"] = cache
    <3>1. Past(r).view \in Configs(part) /\ cache \in Value
      BY <1>2, <1>3 DEF Same, Lists
    <3>2. k \in Configs(part)
      BY <3>1, <1>3, ConfigPut
    <3>3. k["interfaces"] = cache
      BY <3>1, <1>3 DEF Configs, Config
    <3> QED BY <3>2, <3>3
  <2> HIDE DEF k
  <2>3. /\ y \in Requests(part) /\ y.ans = "busy" /\ y.todo = Tail(r.todo) /\ y.notes = r.notes
        /\ y.undo = r.undo /\ y.view = k /\ y.prev = r.prev /\ y.was = r.was /\ y.item = r.item
    BY <2>2, <1>2 DEF Requests, Same
  <2> HIDE DEF y
  <2>4. PICK x \in Requests(part) :
          /\ Become(p, x) /\ x.ans = "busy" /\ x.todo = Tail(r.todo) /\ x.notes = r.notes
          /\ x.undo = r.undo /\ x.view["interfaces"] = cache /\ x.prev = r.prev /\ x.was = r.was
          /\ x.item = r.item
    BY <2>1, <2>2, <2>3
  <2>5. Alike(x, req[p]) /\ UNCHANGED past
    BY <2>4 DEF Alike, Become
  <2>6. ASSUME Unmet(p) PROVE Onward(p, x)
    <3>1. OnLink(r, stored, cache, past, made.faults) /\ Changing(r, stored, cache, past)
      BY <2>1, <2>6, NetHead
    <3>2. PICK a \in Acts, z \in BOOLEAN :
            /\ stored = r.prev /\ Tail(r.todo) = Link2(a, z) /\ (z => ~Knows(cache, r.item))
            /\ Trusted(past) => r.was = stored.interfaces
      BY <3>1, <2>1, Words DEF Changing
    <3>3. /\ Head(Link2(a, z)) = Save("interfaces") /\ Tail(Link2(a, z)) = Link3(a, z)
          /\ Link2(a, z) # <<>>
      BY NetTails
    <3>4. Changing(x, stored', cache', past')
      BY <3>2, <3>3, <2>1, <2>4, <2>5 DEF Changing, system
    <3>5. OnLink(x, stored', cache', past', made'.faults)
      BY <3>1, <3>4, <2>1, <2>4, <2>5 DEF OnLink, system
    <3> QED BY <3>2, <3>3, <3>5, <2>4 DEF Onward, NetPlanned
  <2> QED BY <2>4, <2>5, <2>6, <1>1, NetGoes
<1> QED BY <1>6, <1>7, <1>8
\* A step that is not about the lists.
LEMMA NetKeeps ==
  ASSUME Base, NetOrder, part = "net", NEW p \in Client, Busy(p), UNCHANGED <<stored, cache>>,
         made'.faults \in {made.faults, made.faults + 1},
         Unmet(p) => Head(req[p].todo).do \in {"link", "teardown", "publish", "consult", "set", "down"},
         NEW x \in Requests(part), Become(p, x), x.ans = "busy", Same(x, req[p]),
         x.todo = Tail(req[p].todo), x.undo = req[p].undo,
         x.notes = req[p].notes \/ x.notes = req[p].notes \union {"silent"}
  PROVE  NetOrder' /\ \A q \in Client : Kept(q)
<1> DEFINE r == req[p]
           h == Head(req[p].todo)
<1>1. /\ Alike(x, req[p]) /\ UNCHANGED past /\ ("failed" \in x.notes <=> "failed" \in r.notes)
      /\ x.prev = r.prev /\ x.view = r.view /\ x.units = r.units /\ x.item = r.item
  BY DEF Alike, Become, Same
<1>2. made.faults \in Nat /\ made.faults <= made'.faults /\ made'.faults \in Nat
  BY ServiceAssumption DEF Base, World, Budget
<1>3. Fresh(past, made'.faults) => Fresh(past, made.faults) /\ Trusted(past)
  BY <1>2 DEF Fresh, Trusted
<1>4. ASSUME Unmet(p) PROVE Onward(p, x)
  <2>1. CASE h.do \in {"link", "teardown", "publish", "consult"}
    <3>1. OnLink(r, stored, cache, past, made.faults) /\ Following(r, stored, cache)
      BY <1>4, <2>1, NetHead
    <3>2. PICK z \in BOOLEAN :
            /\ stored.interfaces = cache /\ Follows(stored, cache) /\ (z => ~Knows(cache, r.item))
            /\ \/ h.do \in {"link", "teardown"} /\ Tail(r.todo) = Link6(z)
               \/ h.do = "publish" /\ Tail(r.todo) = Ending(z)
               \/ h.do = "consult" /\ Tail(r.todo) = <<>>
      BY <3>1, <2>1 DEF Following
    <3>3. Agree(stored', cache', past', made'.faults)
      BY <3>2 DEF Agree
    <3>4. CASE Tail(r.todo) = <<>>
      BY <3>1, <3>3, <3>4, <1>1 DEF Onward, OnLink
    <3>5. CASE Tail(r.todo) # <<>>
      <4>1. /\ Head(Link6(z)).do = "publish" /\ Tail(Link6(z)) = Ending(z) /\ Link6(z) # <<>>
        <5>1. Step("link", "links", {}) \in Steps /\ Step("link", "links", {}).do = "link"
          BY LinkSteps, Words
        <5> QED BY <5>1, NetTails DEF Acts
      <4>2. /\ ~z => Ending(z) = <<>>
            /\ z => /\ Head(Ending(z)).do = "consult" /\ Head(Ending(z)).on = "store"
                    /\ Tail(Ending(z)) = <<>>
        BY Endings
      <4>3. \/ Head(x.todo).do = "publish" /\ Tail(x.todo) = Ending(z)
            \/ Head(x.todo).do = "consult" /\ Head(x.todo).on = "store" /\ Tail(x.todo) = <<>> /\ z
        BY <3>2, <3>5, <4>1, <4>2
      <4>4. Following(x, stored', cache')
        BY <3>2, <4>3, <1>1 DEF Following
      <4>5. OnLink(x, stored', cache', past', made'.faults)
        BY <3>1, <4>4, <1>1, <1>3 DEF OnLink
      <4> QED BY <3>5, <4>5 DEF Onward, NetPlanned
    <3> QED BY <3>4, <3>5
  <2>2. CASE h.do \in {"set", "down"}
    <3>1. OnGateway(r, stored, cache, past, made.faults)
      BY <1>4, <2>2, NetHead
    <3>2. "links" \notin r.units /\ Agree(stored, cache, past, made.faults) /\ Tail(r.todo) = <<>>
      BY <3>1, <2>2, Words DEF OnGateway
    <3> QED BY <3>2, <1>1, <1>3 DEF Onward, Agree
  <2> QED BY <1>4, <2>1, <2>2
<1> QED BY <1>1, <1>4, NetGoes

LEMMA NetAdvances ==
  ASSUME Base, NetOrder, part = "net", NEW p \in Client, Busy(p), UNCHANGED <<stored, cache, made>>,
         Unmet(p) => Head(req[p].todo).do \in {"link", "teardown", "publish", "consult", "set", "down"},
         Advance(p)
  PROVE  NetOrder' /\ \A q \in Client : Kept(q)
<1>1. PICK x \in Requests(part) :
        /\ Become(p, x) /\ x.ans = "busy" /\ Alike(x, req[p]) /\ Same(x, req[p])
        /\ x.todo = Tail(req[p].todo) /\ x.undo = req[p].undo /\ x.notes = req[p].notes
  BY NetMoves DEF Proc
<1> QED BY <1>1, NetKeeps

\* The networks that are translated, the automatic gateways, and the copy that is put back.
LEMMA NetFollows ==
  ASSUME Base, NetOrder, part = "net", NEW p \in Client, SyncNat(p) \/ SyncGateways(p) \/ Recache(p)
  PROVE  NetOrder' /\ \A q \in Client : Kept(q)
<1> DEFINE r == req[p]
           h == Head(req[p].todo)
<1>1. Busy(p) /\ Advance(p) /\ UNCHANGED made
  BY DEF SyncNat, SyncGateways, Recache, At
<1>2. PICK x \in Requests(part) :
        /\ Become(p, x) /\ x.ans = "busy" /\ Alike(x, req[p]) /\ Same(x, req[p])
        /\ x.todo = Tail(req[p].todo) /\ x.undo = req[p].undo /\ x.notes = req[p].notes
  BY <1>1, NetMoves DEF Proc
<1>3. UNCHANGED past /\ x.prev = r.prev /\ x.view = r.view /\ x.units = r.units /\ x.item = r.item
  BY <1>2 DEF Become, Same
<1>4. /\ {"interfaces", "nat", "gateways"} \subseteq Section
      /\ stored = [s \in Section |-> stored[s]]
  BY DEF Base, World, Configs, Config, Section
<1>5. CASE SyncNat(p)
  <2>1. /\ cache' = cache /\ h.do = "savenat"
        /\ stored' = [stored EXCEPT !["nat"] = Translated(r.view["interfaces"])]
    BY <1>5 DEF SyncNat, At
  <2>2. stored'.nat = Translated(r.view.interfaces) /\ stored'.interfaces = stored.interfaces
    BY <2>1, <1>4
  <2>3. ASSUME Unmet(p) PROVE Onward(p, x)
    <3>1. OnLink(r, stored, cache, past, made.faults) /\ Following(r, stored, cache)
      BY <2>1, <2>3, NetHead
    <3>2. PICK a \in Acts, z \in BOOLEAN :
            /\ stored.interfaces = cache /\ r.view.interfaces = cache
            /\ Tail(r.todo) = Link4(a, z) /\ (z => ~Knows(cache, r.item))
      BY <3>1, <2>1 DEF Following
    <3>3. Head(Link4(a, z)).do = "saveauto" /\ Tail(Link4(a, z)) = Link5(a, z) /\ Link4(a, z) # <<>>
      BY NetTails
    <3>4. Following(x, stored', cache')
      BY <3>2, <3>3, <2>1, <2>2, <1>2, <1>3 DEF Following
    <3>5. OnLink(x, stored', cache', past', made'.faults)
      BY <3>1, <3>4, <1>1, <1>2, <1>3 DEF OnLink
    <3> QED BY <3>2, <3>3, <3>5, <1>2 DEF Onward, NetPlanned
  <2> QED BY <2>3, <1>1, <1>2, NetGoes
<1>6. CASE SyncGateways(p)
  <2> DEFINE v == {e \in stored["gateways"] : e[2] # "auto"} \union Automatic(r.view["interfaces"])
  <2>1. cache' = cache /\ h.do = "saveauto" /\ stored' = [stored EXCEPT !["gateways"] = v]
    BY <1>6 DEF SyncGateways, At
  <2>2. \A i : <<i, "auto">> \in v => i \in WanOf(r.view["interfaces"])
    BY DEF Automatic
  <2> HIDE DEF v
  <2>3. /\ stored'.nat = stored.nat /\ stored'.interfaces = stored.interfaces
        /\ \A i : <<i, "auto">> \in stored'.gateways => i \in WanOf(r.view.interfaces)
    BY <2>1, <2>2, <1>4
  <2>4. ASSUME Unmet(p) PROVE Onward(p, x)
    <3>1. OnLink(r, stored, cache, past, made.faults) /\ Following(r, stored, cache)
      BY <2>1, <2>4, NetHead
    <3>2. PICK a \in Acts, z \in BOOLEAN :
            /\ stored.interfaces = cache /\ r.view.interfaces = cache
            /\ Tail(r.todo) = Link5(a, z) /\ (z => ~Knows(cache, r.item))
            /\ stored.nat = Translated(cache)
      BY <3>1, <2>1 DEF Following
    <3>3. /\ Head(Link5(a, z)) = a /\ a.do \in {"link", "teardown"} /\ Tail(Link5(a, z)) = Link6(z)
          /\ Link5(a, z) # <<>>
      BY NetTails
    <3>4. Follows(stored', cache')
      BY <3>2, <2>1, <2>3 DEF Follows
    <3>5. Following(x, stored', cache')
      BY <3>2, <3>3, <3>4, <2>1, <2>3, <1>2, <1>3 DEF Following
    <3>6. OnLink(x, stored', cache', past', made'.faults)
      BY <3>1, <3>5, <1>1, <1>2, <1>3 DEF OnLink
    <3> QED BY <3>2, <3>3, <3>6, <1>2 DEF Onward, NetPlanned
  <2> QED BY <2>4, <1>1, <1>2, NetGoes
<1>7. CASE Recache(p)
  <2>1. stored' = stored /\ cache' = r.view["interfaces"] /\ h.do = "recache"
    BY <1>7 DEF Recache, At
  <2>2. ASSUME Unmet(p) PROVE Onward(p, x)
    <3>1. Undone(r, stored, cache, past, made.faults)
      BY <2>1, <2>2, NetHead
    <3>2. /\ Tail(r.todo) = <<>> /\ stored = r.prev /\ r.view.interfaces = stored.interfaces
          /\ Fresh(past, made.faults) => Follows(stored, stored.interfaces)
      BY <3>1, <2>1, Words DEF Undone
    <3> QED BY <3>2, <2>1, <1>1, <1>2, <1>3 DEF Onward, Agree
  <2> QED BY <2>2, <1>1, <1>2, NetGoes
<1> QED BY <1>5, <1>6, <1>7
\* The plan of the startup.
Startup(q) == \A n \in 1..Len(q) : q[n].do \in {"sync", "refresh"}

LEMMA StartupPlans ==
  ASSUME NEW q \in Plans, Startup(q)
  PROVE  /\ q # <<>> => Head(q).do \in {"sync", "refresh"} /\ Startup(Tail(q))
         /\ \A u : Elsewhere(q, u) \in Plans /\ Startup(Elsewhere(q, u))
         /\ \A s \in Steps : s.do = "sync" => <<s>> \o q \in Plans /\ Startup(<<s>> \o q)
<1>1. ASSUME q # <<>> PROVE Head(q).do \in {"sync", "refresh"} /\ Startup(Tail(q))
  <2>1. q \in Seq(Steps) /\ q # <<>> /\ Len(q) \in Nat
    BY <1>1, LenProperties DEF Plans
  <2>2. Len(q) > 0 /\ Head(q) = q[1]
    BY <2>1, EmptySeq DEF Plans
  <2>3. Len(Tail(q)) = Len(q) - 1 /\ \A n \in 1..Len(Tail(q)) : Tail(q)[n] = q[n + 1]
    BY <2>1, HeadTailProperties
  <2>4. 1 \in 1..Len(q) /\ \A n \in 1..Len(Tail(q)) : n + 1 \in 1..Len(q)
    BY <2>1, <2>2, <2>3
  <2> QED BY <2>2, <2>3, <2>4 DEF Startup
<1>2. ASSUME NEW u PROVE Elsewhere(q, u) \in Plans /\ Startup(Elsewhere(q, u))
  BY ElsewhereSteps DEF Startup
<1>3. ASSUME NEW s \in Steps, s.do = "sync" PROVE <<s>> \o q \in Plans /\ Startup(<<s>> \o q)
  <2> DEFINE l == <<s>>
  <2>1. l \in Seq(Steps) /\ Len(l) = 1 /\ l[1] = s /\ q \in Seq(Steps) /\ Len(q) \in Nat
    BY LenProperties DEF Plans
  <2> HIDE DEF l
  <2>2. l \o q \in Seq(Steps) /\ Len(l \o q) = Len(l) + Len(q)
    BY <2>1, ConcatProperties
  <2>3. \A n \in 1..(Len(l) + Len(q)) : (l \o q)[n] = IF n <= Len(l) THEN l[n] ELSE q[n - Len(l)]
    BY <2>1, ConcatProperties
  <2>4. ASSUME NEW n \in 1..Len(l \o q) PROVE (l \o q)[n].do \in {"sync", "refresh"}
    <3>1. (l \o q)[n] = IF n <= 1 THEN l[n] ELSE q[n - 1]
      BY <2>1, <2>2, <2>3
    <3>2. CASE n = 1
      BY <3>1, <3>2, <2>1, <1>3
    <3>3. CASE n # 1
      <4>1. n - 1 \in 1..Len(q) /\ ~(n <= 1)
        BY <3>3, <2>1, <2>2
      <4> QED BY <4>1, <3>1 DEF Startup
    <3> QED BY <3>2, <3>3
  <2> QED BY <2>2, <2>4 DEF Plans, Startup, l
<1> QED BY <1>1, <1>2, <1>3

LEMMA SyncedTyped ==
  ASSUME Base, NEW p \in Proc, Busy(p), NEW i, Head(req[p].todo).on = "links"
  PROVE  /\ Synced(p, i) \in Requests(part) /\ Synced(p, i).ans = "busy" /\ Alike(Synced(p, i), req[p])
         /\ Startup(req[p].todo) => Startup(Synced(p, i).todo)
<1> DEFINE s == Step("sync", "links", Of(p) \ {i})
           r == req[p]
           q == <<s>> \o Tail(r.todo)
           x == [r EXCEPT !.todo = q]
<1>1. /\ r \in Requests(part) /\ r.ans = "busy" /\ r.todo # <<>> /\ r.todo \in Plans
      /\ Of(p) \subseteq Item
  BY AtWork
<1>2. /\ Past(r) \in Requests(part) /\ Past(r).ans = "busy" /\ Tail(r.todo) \in Plans
      /\ Past(r).notes = r.notes /\ Past(r).todo = Tail(r.todo)
  BY <1>1, Going, TailTyped
<1>3. s \in Steps /\ s.do = "sync"
  <2>1. Of(p) \ {i} \in SUBSET (Section \union Item) /\ Of(p) \ {i} \subseteq Item
    BY <1>1
  <2> QED BY <2>1, StepTyped, Verbs, Words
<1>4. Startup(r.todo) => Startup(Tail(r.todo))
  BY <1>1, StartupPlans
<1>5. <<s>> \in Plans
  BY <1>3 DEF Plans
<1>6. q \in Plans
  BY <1>2, <1>5, PlanJoin
<1>7. Startup(r.todo) => Startup(q)
  BY <1>2, <1>3, <1>4, StartupPlans
<1>8. Synced(p, i) = Past(r) \/ Synced(p, i) = x
  BY DEF Synced
<1> HIDE DEF q
<1>9. x \in Requests(part) /\ x.ans = "busy" /\ x.notes = r.notes /\ x.todo = q
  BY <1>1, <1>6 DEF Requests
<1> HIDE DEF x
<1> QED BY <1>2, <1>4, <1>7, <1>8, <1>9 DEF Alike
\* A step of the startup.
LEMMA NetStartup ==
  ASSUME Base, NetOrder, part = "net", Busy(Daemon), UNCHANGED <<stored, cache>>,
         made'.faults \in {made.faults, made.faults + 1},
         NEW x \in Requests(part), x.ans = "busy", Alike(x, req[Daemon]), Become(Daemon, x),
         Startup(x.todo)
  PROVE  NetOrder' /\ \A q \in Client : Kept(q)
<1>1. /\ Served(part, req') /\ UNCHANGED <<part, past>> /\ Alike(req'[Daemon], req[Daemon])
      /\ \A q \in Proc \ {Daemon} : req'[q] = req[q]
      /\ x.todo # <<>> => req'[Daemon] = x
      /\ x.todo = <<>> => /\ req'[Daemon].ans = IF "failed" \in x.notes THEN "error" ELSE "ok"
                          /\ req'[Daemon].notes = x.notes /\ req'[Daemon].item = None
  <2>1. Served(part, req) /\ Daemon \in Proc
    BY DEF Base, Proc
  <2> QED BY <2>1, Becoming
<1>2. Daemon \in Proc /\ \A q \in Client : q \in Proc \ {Daemon} /\ req'[q] = req[q]
  BY <1>1, ServiceAssumption DEF Proc
<1>3. \A q \in Client : ~Unmet(q)'
  BY <1>2 DEF Base, Served, Unmet, Busy
<1>4. Quiet' => Agree(stored', cache', past', made'.faults)
  <2>1. Quiet' => Agree(stored, cache, past, made.faults)
    BY <1>2 DEF Quiet, Busy, NetOrder
  <2>2. made.faults \in Nat
    BY ServiceAssumption DEF Base, World, Budget
  <2>3. Fresh(past, made'.faults) => Fresh(past, made.faults)
    BY <2>2 DEF Fresh
  <2> QED BY <2>1, <2>3, <1>1 DEF Agree
<1>5. Startup(req'[Daemon].todo)
  <2>1. x.todo = <<>> => req'[Daemon].todo = <<>>
    BY <1>1, <1>2 DEF Served
  <2> QED BY <2>1, <1>1
<1>6. \A q \in Client : Kept(q)
  BY <1>2 DEF Kept, Answered, Busy
<1>7. NetOrder'
  BY <1>1, <1>3, <1>4, <1>5 DEF NetOrder, Startup
<1> QED BY <1>6, <1>7

\* The steps that all parts have.
LEMMA NetGeneric ==
  ASSUME Base, NetOrder, part = "net", NEW p \in Proc, Busy(p),
         Persist(p) \/ Restore(p) \/ Load(p) \/ Fault(p) \/ PassedOver(p) \/ Publish(p)
  PROVE  NetOrder' /\ \A q \in Client : Kept(q)
<1> DEFINE r == req[p]
           h == Head(req[p].todo)
<1>1. /\ r \in Requests(part) /\ r.ans = "busy" /\ r.todo # <<>> /\ r.todo \in Plans
      /\ Past(r) \in Requests(part) /\ Past(r).todo = Tail(r.todo) /\ Past(r).ans = "busy"
      /\ Past(r).notes = r.notes /\ Past(r).undo = r.undo /\ Same(Past(r), r)
      /\ stored \in Configs(part) /\ r.view \in Configs(part)
  BY AtWork, Going DEF Base, World
<1>2. /\ PassedOver(p) => /\ h.do \in Tolerated /\ made'.faults = made.faults + 1
                          /\ UNCHANGED <<stored, cache>> /\ Become(p, Noted(Past(r), "silent"))
      /\ Fault(p) => /\ h.do \notin Tolerated \union Harmless /\ made'.faults = made.faults + 1
                     /\ stored' = stored /\ Failed(p)
                     /\ cache' = IF At(p, "save", "store") /\ h.of = {"interfaces"} THEN r.was ELSE cache
  BY DEF PassedOver, Fault, Base, World, Budget, system, Of
<1>3. PICK y \in Requests(part) :
        /\ y.ans = "busy" /\ y.todo = Tail(r.todo) /\ y.undo = r.undo /\ Same(y, r)
        /\ y.notes = r.notes \union {"silent"} /\ Alike(y, r)
        /\ PassedOver(p) => Become(p, y)
  <2>1. Noted(Past(r), "silent") \in Requests(part) /\ Noted(Past(r), "silent").todo = Past(r).todo
        /\ Noted(Past(r), "silent").ans = Past(r).ans
        /\ Noted(Past(r), "silent").notes = Past(r).notes \union {"silent"}
        /\ Noted(Past(r), "silent").undo = Past(r).undo /\ Same(Noted(Past(r), "silent"), Past(r))
    BY <1>1, Noting DEF Note
  <2> QED BY <1>1, <1>2, <2>1 DEF Same, Alike
<1>4. Publish(p) => /\ h.do \in {"publish", "refresh"} /\ Advance(p) /\ UNCHANGED <<stored, cache, made>>
  BY DEF Publish, Set, At
<1>5. CASE p = Daemon
  <2>1. Startup(r.todo) /\ p \in Proc
    BY <1>5 DEF NetOrder, Startup
  <2>2. /\ h.do \in {"sync", "refresh"} /\ Startup(Tail(r.todo))
        /\ \A u : Startup(Elsewhere(r.todo, u))
    BY <1>1, <2>1, StartupPlans
  <2>3. CASE Fault(p)
    <3>1. PICK x \in Requests(part) :
            /\ Become(p, x) /\ x.ans = "busy"
            /\ x.notes = req[p].notes \union {IF "failed" \in req[p].notes THEN "again" ELSE "failed"}
            /\ p = Daemon => x.todo = Elsewhere(req[p].todo, Head(req[p].todo).on)
      <4>1. Served(part, req)
        BY DEF Base
      <4> QED BY <4>1, <1>2, <2>3, Failing
    <3>2. Alike(x, r) /\ Startup(x.todo) /\ UNCHANGED <<stored, cache>>
      BY <3>1, <2>2, <2>3, <1>2, <1>5 DEF Alike, At
    <3> QED BY <3>1, <3>2, <2>3, <1>2, <1>5, NetStartup
  <2>4. CASE PassedOver(p)
    BY <2>2, <2>4, <1>2, <1>3, <1>5, NetStartup
  <2>5. CASE Publish(p)
    <3>1. PICK x \in Requests(part) :
            /\ Become(p, x) /\ x.ans = "busy" /\ Alike(x, req[p]) /\ x.todo = Tail(req[p].todo)
      BY <1>4, <2>5, NetMoves
    <3> QED BY <3>1, <2>2, <2>5, <1>4, <1>5, NetStartup
  <2>6. ~(Persist(p) \/ Restore(p) \/ Load(p))
    BY <2>2 DEF Persist, Restore, Load, At
  <2> QED BY <2>3, <2>4, <2>5, <2>6
<1>6. CASE p \in Client
  <2>1. Unmet(p) =>
          h.do \in {"upsert", "drop", "clone", "save", "savenat", "saveauto", "link", "teardown",
                    "publish", "consult", "restore", "recache", "set", "down"}
    BY <1>6, NetHead
  <2>2. CASE Fault(p)
    BY <2>2, <1>2, <1>6, NetFails
  <2>3. CASE PassedOver(p)
    <3>1. Unmet(p) => h.do \in {"link", "teardown", "publish", "consult", "set", "down"}
      BY <2>1, <2>3, <1>2 DEF Tolerated
    <3> QED BY <3>1, <2>3, <1>2, <1>3, <1>6, NetKeeps
  <2>4. CASE Publish(p)
    <3>1. Unmet(p) => h.do \in {"link", "teardown", "publish", "consult", "set", "down"}
      BY <2>1, <2>4, <1>4
    <3> QED BY <3>1, <2>4, <1>4, <1>6, NetAdvances
  <2>5. CASE Load(p)
    <3> DEFINE v == [s \in Section |-> IF s \in Of(p) THEN stored[s] ELSE Past(r).view[s]]
               x == [Past(r) EXCEPT !.view = v]
    <3>1. Become(p, x) /\ h.do = "read"
      BY <2>5 DEF Load, At
    <3>2. v \in Configs(part)
      BY <1>1, ConfigMix DEF Same
    <3> HIDE DEF v
    <3>3. x \in Requests(part) /\ x.ans = "busy" /\ x.notes = r.notes
      BY <3>2, <1>1 DEF Requests
    <3> HIDE DEF x
    <3>4. PICK y1 \in Requests(part) : Become(p, y1) /\ y1.ans = "busy" /\ y1.notes = r.notes
      BY <3>1, <3>3
    <3>5. Alike(y1, r) /\ ~Unmet(p)
      BY <3>1, <3>4, <2>1 DEF Alike
    <3> QED BY <3>4, <3>5, <1>6, NetGoes
  <2> QED BY <2>2, <2>3, <2>4, <2>5, <1>6, NetPersist, NetRestore
<1> QED BY <1>5, <1>6 DEF Proc
\* The steps on the kernel.
LEMMA NetActs ==
  ASSUME Base, NetOrder, part = "net", NEW p \in Proc,
         Consult(p) \/ ApplyLink(p) \/ LinkFails(p) \/ Teardown(p) \/ ApplyGateway(p) \/ RemoveGateway(p)
  PROVE  NetOrder' /\ \A q \in Client : Kept(q)
<1> DEFINE h == Head(req[p].todo)
<1>1. /\ Busy(p) /\ h.do \in {"link", "teardown", "consult", "set", "down"}
      /\ UNCHANGED <<stored, cache>> /\ (Advance(p) \/ Failed(p))
      /\ Failed(p) => Advance(p) \/ h.do \in {"link", "set"}
      /\ made' = made \/ (made'.faults = made.faults + 1 /\ Failed(p) /\ h.do = "link")
  <2>1. CASE ApplyLink(p)
    BY <2>1 DEF ApplyLink, At, Configured, Advance
  <2>2. CASE LinkFails(p)
    <3>1. PICK i \in Item : /\ At(p, "link", "links") /\ Failed(p) /\ UNCHANGED <<stored, cache>>
                            /\ made' = [made EXCEPT !.faults = @ + 1]
      BY <2>2 DEF LinkFails
    <3> QED BY <3>1 DEF At, Base, World, Budget
  <2>3. CASE Teardown(p)
    BY <2>3 DEF Teardown, At
  <2>4. CASE ApplyGateway(p)
    BY <2>4 DEF ApplyGateway, At
  <2>5. CASE RemoveGateway(p)
    BY <2>5 DEF RemoveGateway, Set, At
  <2>6. CASE Consult(p)
    BY <2>6 DEF Consult, At, system
  <2> QED BY <2>1, <2>2, <2>3, <2>4, <2>5, <2>6
<1>2. p # Daemon
  <2> SUFFICES ASSUME p = Daemon PROVE FALSE
    OBVIOUS
  <2>1. req[p].todo \in Plans /\ req[p].todo # <<>> /\ Startup(req[p].todo)
    BY <1>1, AtWork DEF NetOrder, Startup
  <2>2. h.do \in {"sync", "refresh"}
    BY <2>1, StartupPlans
  <2> QED BY <2>2, <1>1
<1>3. p \in Client
  BY <1>2 DEF Proc
<1>4. CASE Advance(p) /\ made' = made
  BY <1>1, <1>3, <1>4, NetAdvances
<1>5. CASE Failed(p) /\ h.do \in {"link", "set"}
  <2>1. /\ h.do \notin Tolerated \union (Harmless \ {"drop"})
        /\ ~At(p, "save", "store")
    BY <1>5 DEF Tolerated, Harmless, At
  <2>2. made'.faults = made.faults + 1 \/ (made'.faults = made.faults /\ h.do \in {"drop", "link", "set"})
    BY <1>1, <1>5
  <2> QED BY <2>1, <2>2, <1>1, <1>3, <1>5, NetFails
<1> QED BY <1>1, <1>4, <1>5

\* The startup, or a request, brings the interfaces to what is listed.
LEMMA NetSyncs ==
  ASSUME Base, NetOrder, part = "net", NEW p \in Proc, SyncLink(p)
  PROVE  NetOrder' /\ \A q \in Client : Kept(q)
<1> DEFINE r == req[p]
           h == Head(req[p].todo)
<1>1. PICK i \in Item : /\ At(p, "sync", "links") /\ UNCHANGED <<stored, cache, made>>
                        /\ Become(p, Synced(p, i)) \/ Failed(p)
  BY DEF SyncLink, Configured, system
<1>2. Busy(p) /\ h.do = "sync" /\ h.on = "links"
  BY <1>1 DEF At
<1>3. /\ Synced(p, i) \in Requests(part) /\ Synced(p, i).ans = "busy" /\ Alike(Synced(p, i), req[p])
      /\ Startup(req[p].todo) => Startup(Synced(p, i).todo)
  BY <1>2, SyncedTyped
<1>4. PICK x \in Requests(part) :
        /\ Become(p, x) /\ x.ans = "busy" /\ Alike(x, req[p])
        /\ p = Daemon => Startup(x.todo)
  <2>1. p = Daemon => Startup(req[p].todo) /\ req[p].todo \in Plans
    BY <1>2, AtWork DEF NetOrder, Startup
  <2>2. CASE Become(p, Synced(p, i))
    BY <2>1, <2>2, <1>3
  <2>3. CASE Failed(p)
    <3>1. PICK x \in Requests(part) :
            /\ Become(p, x) /\ x.ans = "busy"
            /\ x.notes = req[p].notes \union {IF "failed" \in req[p].notes THEN "again" ELSE "failed"}
            /\ p = Daemon => x.todo = Elsewhere(req[p].todo, Head(req[p].todo).on)
      <4>1. Served(part, req)
        BY DEF Base
      <4> QED BY <4>1, <1>2, <2>3, Failing
    <3>2. p = Daemon => Startup(x.todo)
      BY <2>1, <3>1, StartupPlans
    <3>3. Alike(x, req[p])
      BY <3>1 DEF Alike
    <3> QED BY <3>1, <3>2, <3>3
  <2> QED BY <2>2, <2>3, <1>1
<1>5. CASE p = Daemon
  BY <1>1, <1>2, <1>4, <1>5, NetStartup
<1>6. CASE p \in Client
  <2>1. ~Unmet(p)
    BY <1>2, <1>6, NetHead
  <2> QED BY <2>1, <1>2, <1>4, <1>6, NetGoes
<1> QED BY <1>5, <1>6 DEF Proc

\* What a request does in order.
LEMMA NetSteps ==
  ASSUME Base, NetOrder, part = "net", NEW p \in Proc,
         \/ Upsert(p) \/ Drop(p) \/ CloneList(p) \/ Recache(p) \/ SyncNat(p) \/ SyncGateways(p)
         \/ Consult(p) \/ ApplyLink(p) \/ SyncLink(p) \/ LinkFails(p) \/ Teardown(p)
         \/ ApplyGateway(p) \/ RemoveGateway(p)
  PROVE  NetOrder' /\ \A q \in Client : Kept(q)
<1>1. CASE Upsert(p) \/ Drop(p) \/ CloneList(p) \/ Recache(p) \/ SyncNat(p) \/ SyncGateways(p)
  <2> DEFINE h == Head(req[p].todo)
  <2>1. Busy(p) /\ h.do \in {"upsert", "drop", "clone", "recache", "savenat", "saveauto"}
    <3>1. Upsert(p) => Busy(p) /\ h.do = "upsert"
      BY DEF Upsert, At
    <3>2. Drop(p) => Busy(p) /\ h.do = "drop"
      BY DEF Drop, At
    <3> QED BY <1>1, <3>1, <3>2 DEF CloneList, Recache, SyncNat, SyncGateways, At
  <2>2. p # Daemon
    <3> SUFFICES ASSUME p = Daemon PROVE FALSE
      OBVIOUS
    <3>1. req[p].todo \in Plans /\ req[p].todo # <<>> /\ Startup(req[p].todo)
      BY <2>1, AtWork DEF NetOrder, Startup
    <3>2. h.do \in {"sync", "refresh"}
      BY <3>1, StartupPlans
    <3> QED BY <3>2, <2>1
  <2>3. p \in Client
    BY <2>2 DEF Proc
  <2> QED BY <1>1, <2>3, NetChanges, NetFollows
<1>2. CASE \/ Consult(p) \/ ApplyLink(p) \/ LinkFails(p) \/ Teardown(p)
           \/ ApplyGateway(p) \/ RemoveGateway(p)
  BY <1>2, NetActs
<1>3. CASE SyncLink(p)
  BY <1>3, NetSyncs
<1> QED BY <1>1, <1>2, <1>3
-----------------------------------------------------------------------------
\* A request begins.
LEMMA NetBegins ==
  ASSUME Base, NetOrder, part = "net", NEW p \in Proc, NEW r \in Requests(part), r.ans = "busy",
         r.todo # <<>>, r.notes = {}, Begin(p, r),
         Agree(stored, cache, past', made.faults) /\ (r.item = Revision => ~Trusted(past')) =>
           NetPlanned(r, stored, cache, past', made.faults)
  PROVE  NetOrder' /\ \A q \in Client : Kept(q)
<1>1. /\ Base'
      /\ UNCHANGED <<part, system>> /\ p \in Client /\ ~Busy(p) /\ ~Busy(Daemon)
      /\ made' = [made EXCEPT !.requests = @ + 1]
      /\ past' = past \union If(Others(p) # {}, {"met"}) \union If(r.item = Revision, {"restored"})
      /\ req'[p] = [r EXCEPT !.notes = If(Others(p) # {}, {"met"})]
      /\ \A q \in Others(p) : req'[q] = [req[q] EXCEPT !.notes = @ \union {"met"}]
      /\ \A q \in Proc \ (Others(p) \union {p}) : req'[q] = req[q]
  BY Beginning
<1>2. /\ req'[p].ans = "busy" /\ req'[p].notes = If(Others(p) # {}, {"met"})
      /\ Others(p) = {} => req'[p] = r
  BY <1>1 DEF Requests, If
<1>3. \A q \in Others(p) : Busy(q) /\ req'[q].ans = "busy" /\ "met" \in req'[q].notes /\ q \in Client
  <2> SUFFICES ASSUME NEW q \in Others(p)
               PROVE  Busy(q) /\ req'[q].ans = "busy" /\ "met" \in req'[q].notes /\ q \in Client
    OBVIOUS
  <2> DEFINE x == req[q]
  <2>1. Busy(q) /\ q \in Client
    BY DEF Others
  <2>2. x \in Requests(part) /\ x.ans = "busy"
    BY <2>1, AtWork DEF Proc
  <2>3. req'[q] = [x EXCEPT !.notes = @ \union {"met"}]
    BY <1>1
  <2> HIDE DEF x
  <2> QED BY <2>1, <2>2, <2>3 DEF Requests
<1>4. \A q \in Client \ (Others(p) \union {p}) : req'[q] = req[q] /\ ~Busy(q)
  BY <1>1 DEF Others, Proc
<1>5. made'.faults = made.faults /\ UNCHANGED <<stored, cache>>
  BY <1>1 DEF Base, World, Budget, system
<1>6. ASSUME NEW q \in Client, Unmet(q)'
      PROVE  NetPlanned(req'[q], stored', cache', past', made'.faults)
  <2>1. q = p /\ Others(p) = {}
    BY <1>2, <1>3, <1>4, <1>6 DEF Unmet, Busy, If
  <2>2. Quiet
    BY <2>1, <1>1, <1>4 DEF Quiet
  <2>3. Agree(stored, cache, past, made.faults)
    BY <2>2 DEF NetOrder
  <2>4. Trusted(past') => Trusted(past)
    BY <1>1 DEF Trusted
  <2>5. Fresh(past', made.faults) => Fresh(past, made.faults)
    BY <1>1 DEF Fresh
  <2>6. Agree(stored, cache, past', made.faults)
    BY <2>3, <2>4, <2>5 DEF Agree
  <2>7. r.item = Revision => ~Trusted(past')
    <3>1. r.item = Revision => "restored" \in past'
      BY <1>1 DEF If
    <3> QED BY <3>1 DEF Trusted
  <2>8. NetPlanned(r, stored, cache, past', made.faults)
    BY <2>6, <2>7
  <2> QED BY <2>1, <2>8, <1>2, <1>5
<1>7. ~Quiet'
  BY <1>1, <1>2 DEF Quiet, Busy
<1>8. req'[Daemon] = req[Daemon]
  <2>1. Daemon \in Proc \ (Others(p) \union {p})
    BY <1>1, ServiceAssumption DEF Proc, Others
  <2> QED BY <2>1, <1>1
<1>9. \A q \in Client : Kept(q)
  <2> SUFFICES ASSUME NEW q \in Client, Busy(q), req'[q].ans = "error" PROVE FALSE
    BY DEF Kept, Answered
  <2> QED BY <1>2, <1>3, <1>4
<1>10. NetOrder'
  BY <1>6, <1>7, <1>8 DEF NetOrder
<1> QED BY <1>9, <1>10

LEMMA NetRestores ==
  ASSUME Base, NetOrder, part = "net", NEW p \in Proc, RestoreRevision(p)
  PROVE  NetOrder' /\ \A q \in Client : Kept(q)
<1> DEFINE s == Step("save", "store", Section)
           q == <<s>>
           x == Request(q, Blank, {})
           r == [x EXCEPT !.item = Revision]
<1>1. Begin(p, r)
  BY DEF RestoreRevision
<1>2. s \in Steps
  BY StepTyped, Verbs
<1>3. q \in Plans /\ q # <<>> /\ Head(q) = s /\ Tail(q) = <<>>
  BY <1>2 DEF Plans
<1> HIDE DEF q
<1>4. Blank \in Configs(part) /\ Idle \in Requests(part) /\ Idle.notes = {} /\ Idle.undo = <<>>
  BY BlankConfig, IdleTyped DEF Idle
<1>5. stored \in Configs(part)
  BY DEF Base, World
<1>6. /\ x \in Requests(part) /\ x.ans = "busy" /\ x.todo = q /\ x.undo = <<>> /\ x.units = {}
      /\ x.notes = {}
  BY <1>3, <1>4, <1>5 DEF Request, Requests
<1> HIDE DEF x
<1>7. /\ r \in Requests(part) /\ r.ans = "busy" /\ r.todo = q /\ r.undo = <<>> /\ r.units = {}
      /\ r.notes = {} /\ r.item = Revision
  BY <1>6 DEF Requests
<1> HIDE DEF r
<1>8. ~Trusted(past') => NetPlanned(r, stored, cache, past', made.faults)
  BY <1>3, <1>7 DEF OnRevision, NetPlanned
<1> QED BY <1>1, <1>3, <1>7, <1>8, NetBegins

\* A request about an interface, from its first step.
LEMMA NetForLink ==
  ASSUME Base, NetOrder, part = "net", NEW p \in Proc, NEW i \in Item,
         NEW change \in {"upsert", "drop"}, NEW act \in Acts, NEW x \in BOOLEAN,
         x => change = "drop", NEW k \in Configs(part), ForLink(p, i, change, act, Ending(x), k)
  PROVE  NetOrder' /\ \A q \in Client : Kept(q)
<1> DEFINE a == Plain(change, "links")
           b == Plain("clone", "links")
           c == Save("interfaces")
           d == Plain("savenat", "store")
           e == Plain("saveauto", "store")
           f == Plain("publish", "nft")
           j == <<a, b, c, d, e>> \o <<act, f>>
           g == <<a, b, c, d, e, act, f>>
           y == Ending(x)
           q == j \o y
           U == {"links", "nft"}
           r == [Request(q, k, U) EXCEPT !.item = i, !.undo = Undo1]
<1>1. Begin(p, r)
  BY DEF ForLink, Undo1
<1>2. /\ a \in Steps /\ b \in Steps /\ c \in Steps /\ d \in Steps /\ e \in Steps /\ f \in Steps
      /\ act \in Steps /\ a.do = change /\ Undo1 \in Plans /\ y \in Plans
  <2>1. Undo1 \in Plans
    BY LinkSteps DEF Plans, Undo1
  <2>2. a.do = change
    BY Words
  <2>3. y \in Plans
    BY Endings
  <2> QED BY <2>1, <2>2, <2>3, LinkSteps DEF Acts
<1>3. Link1(act, x) = <<b, c, d, e, act, f>> \o y
  BY DEF Link1
<1> HIDE DEF a, b, c, d, e, f
<1>4. j = g
  <2> DEFINE l == <<a, b, c, d, e>>
             m == <<act, f>>
             t == <<a, b, c, d, e, act, f>>
  <2>1. /\ l \in Seq(Steps) /\ m \in Seq(Steps) /\ t \in Seq(Steps)
        /\ Len(l) = 5 /\ Len(m) = 2 /\ Len(t) = 7
        /\ t[1] = l[1] /\ t[2] = l[2] /\ t[3] = l[3] /\ t[4] = l[4] /\ t[5] = l[5]
        /\ t[6] = m[1] /\ t[7] = m[2]
    BY <1>2
  <2> HIDE DEF l, m, t
  <2>2. /\ l \o m \in Seq(Steps) /\ Len(l \o m) = 7
        /\ \A n \in 1..7 : (l \o m)[n] = IF n <= 5 THEN l[n] ELSE m[n - 5]
    <3>1. l \o m \in Seq(Steps) /\ Len(l \o m) = Len(l) + Len(m)
      BY <2>1, ConcatProperties
    <3>2. \A n \in 1..(Len(l) + Len(m)) : (l \o m)[n] = IF n <= Len(l) THEN l[n] ELSE m[n - Len(l)]
      BY <2>1, ConcatProperties
    <3> QED BY <3>1, <3>2, <2>1
  <2>3. \A n \in 1..7 : (l \o m)[n] = t[n]
    <3> DEFINE w == l \o m
    <3>1. \A n \in 1..7 : w[n] = IF n <= 5 THEN l[n] ELSE m[n - 5]
      BY <2>2
    <3> HIDE DEF w
    <3>2. \A n \in 1..5 : w[n] = l[n]
      BY <3>1
    <3>3. w[6] = m[1] /\ w[7] = m[2]
      BY <3>1
    <3>4. \A n \in 1..7 : n \in {1, 2, 3, 4, 5} \/ n = 6 \/ n = 7
      OBVIOUS
    <3>5. \A n \in 1..7 : w[n] = t[n]
      BY <3>2, <3>3, <3>4, <2>1
    <3> QED BY <3>5 DEF w
  <2>4. l \o m = t
    BY <2>1, <2>2, <2>3, SeqEqual
  <2> QED BY <2>4 DEF l, m, t
<1>5. g \in Plans /\ g # <<>> /\ Head(g) = a /\ Tail(g) = <<b, c, d, e, act, f>>
  BY <1>2 DEF Plans
<1> HIDE DEF j, g, y
<1>6. q \in Plans /\ q # <<>> /\ Head(q) = a /\ Tail(q) = Link1(act, x)
  <2>1. /\ j \in Plans /\ j # <<>> /\ y \in Plans /\ Head(j) = a
        /\ Tail(j) = <<b, c, d, e, act, f>>
    BY <1>2, <1>4, <1>5
  <2>2. q \in Plans /\ q # <<>> /\ Head(q) = Head(j) /\ Tail(q) = Tail(j) \o y
    BY <2>1, PlanJoin, Joined
  <2> QED BY <2>1, <2>2, <1>3
<1> HIDE DEF q
<1>7. Asks(r, q, k, U, i, Undo1) /\ U \in SUBSET Units(part)
  BY UnitNames, UnitsHere DEF Asks
<1> HIDE DEF r, U
<1>8. /\ r \in Requests(part) /\ r.ans = "busy" /\ r.todo = q /\ r.undo = Undo1 /\ r.view = k
      /\ r.prev = stored /\ r.was = {} /\ r.units = U /\ r.item = i /\ r.notes = {}
  <2>1. Undo1 \in Plans
    BY <1>2
  <2>2. Posed(r, q, k, U, i, Undo1)
    BY <2>1, <1>6, <1>7, Asking
  <2> QED BY <2>2 DEF Posed
<1>9. ASSUME Agree(stored, cache, past', made.faults)
      PROVE  NetPlanned(r, stored, cache, past', made.faults)
  <2>1. Fresh(past', made.faults) => Trusted(past')
    BY DEF Fresh, Trusted
  <2>2. Fresh(past', made.faults) => Follows(r.prev, r.prev.interfaces)
    BY <2>1, <1>8, <1>9 DEF Agree
  <2>3. Changing(r, stored, cache, past')
    BY <1>2, <1>6, <1>8, <1>9 DEF Agree, Changing
  <2> QED BY <2>2, <2>3, <1>8 DEF NetPlanned, OnLink
<1> QED BY <1>1, <1>6, <1>8, <1>9, NetBegins
\* The requests about interfaces and gateways.
LEMMA NetRequests ==
  ASSUME Base, NetOrder, part = "net", NEW p \in Proc,
         \/ CreateInterface(p) \/ DeleteInterface(p) \/ ListInterfaces(p)
         \/ UpsertGateway(p) \/ DeleteGateway(p)
  PROVE  NetOrder' /\ \A q \in Client : Kept(q)
<1>0. /\ stored \in Configs(part) /\ <<>> \in Plans
      /\ stored["interfaces"] \in Value /\ stored["gateways"] \in Value
      /\ \A s \in {"interfaces", "gateways"}, v \in Value : [stored EXCEPT ![s] = v] \in Configs(part)
      /\ \A v \in Value : [stored EXCEPT !["gateways"] = v]["gateways"] = v
      /\ Item \subseteq Field /\ {"on", "off"} \subseteq Mark
  BY ConfigSection, ConfigPut, Fields DEF Base, World, Configs, Config, Section, Mark, Plans
<1>1. CASE CreateInterface(p)
  <2>1. PICK i \in Item, m \in {"on", "off"} :
          ForLink(p, i, "upsert", Step("link", "links", IF m = "on" THEN {i} ELSE {}), <<>>,
                  [stored EXCEPT !.interfaces = Put(@, i, m)])
    BY <1>1 DEF CreateInterface
  <2> DEFINE S == IF m = "on" THEN {i} ELSE {}
             v == Put(stored["interfaces"], i, m)
             k == [stored EXCEPT !["interfaces"] = v]
  <2>2. ForLink(p, i, "upsert", Step("link", "links", S), <<>>, k)
    BY <2>1
  <2>3. v \in Value /\ S \in SUBSET Item
    BY <1>0, Values
  <2> HIDE DEF v, S
  <2>4. k \in Configs(part) /\ Step("link", "links", S) \in Acts
    BY <2>3, <1>0, LinkSteps, Words DEF Acts
  <2> HIDE DEF k
  <2>5. ForLink(p, i, "upsert", Step("link", "links", S), Ending(FALSE), k)
    BY <2>2 DEF Ending
  <2> QED BY <2>4, <2>5, NetForLink
<1>2. CASE DeleteInterface(p)
  <2>1. PICK i \in Item : ForLink(p, i, "drop", Plain("teardown", "links"), Ending(TRUE), stored)
    BY <1>2 DEF DeleteInterface, Ending
  <2>2. Plain("teardown", "links") \in Acts
    BY LinkSteps, Words DEF Acts
  <2> QED BY <2>1, <2>2, <1>0, NetForLink
<1>3. CASE ListInterfaces(p)
  <2> DEFINE s == Plain("recache", "links")
             q == <<s>>
             r == Request(q, stored, {})
  <2>1. Begin(p, r) /\ s \in Steps /\ s.do = "recache"
    BY <1>3, LinkSteps, Words DEF ListInterfaces
  <2> HIDE DEF s
  <2>2. q \in Plans /\ q # <<>> /\ Head(q) = s /\ Tail(q) = <<>>
    BY <2>1 DEF Plans
  <2> HIDE DEF q
  <2>3. Asks(r, q, stored, {}, None, <<>>)
    BY DEF Asks
  <2> HIDE DEF r
  <2>4. /\ r \in Requests(part) /\ r.ans = "busy" /\ r.todo = q /\ r.undo = <<>> /\ r.view = stored
        /\ r.prev = stored /\ r.was = {} /\ r.units = {} /\ r.item = None /\ r.notes = {}
    <3>1. {} \in SUBSET Units(part) /\ <<>> \in Plans /\ stored \in Configs(part)
      BY <1>0
    <3>2. Posed(r, q, stored, {}, None, <<>>)
      BY <2>2, <2>3, <3>1, Asking
    <3> QED BY <3>2 DEF Posed
  <2>5. ASSUME Agree(stored, cache, past', made.faults)
        PROVE  NetPlanned(r, stored, cache, past', made.faults)
    <3>1. Fresh(past', made.faults) => Trusted(past')
      BY DEF Fresh, Trusted
    <3>2. Fresh(past', made.faults) => Follows(stored, stored.interfaces)
      BY <3>1, <2>5 DEF Agree
    <3> QED BY <3>2, <2>1, <2>2, <2>4 DEF NetPlanned, Undone
  <2> QED BY <2>1, <2>2, <2>4, <2>5, NetBegins
<1>4. ASSUME NEW v \in Value, NEW t \in Plans, NEW U \in SUBSET Units(part), "links" \notin U,
             NEW i \in Item \union {None}, NEW r, Begin(p, r),
             Autos(v) \subseteq Autos(stored["gateways"]),
             t = <<>> \/ (Head(t).do \in {"set", "down"} /\ Tail(t) = <<>>),
             NEW q \in Plans, q # <<>>, Head(q) = Save("gateways"), Tail(q) = t,
             Asks(r, q, [stored EXCEPT !["gateways"] = v], U, i, <<>>)
      PROVE  NetOrder' /\ \A w \in Client : Kept(w)
  <2> DEFINE k == [stored EXCEPT !["gateways"] = v]
  <2>1. k \in Configs(part) /\ k["gateways"] = v
    BY <1>0, <1>4
  <2>2. Asks(r, q, k, U, i, <<>>)
    BY <1>4
  <2> HIDE DEF k
  <2>3. /\ r \in Requests(part) /\ r.ans = "busy" /\ r.todo = q /\ r.undo = <<>> /\ r.view = k
        /\ r.prev = stored /\ r.was = {} /\ r.units = U /\ r.item = i /\ r.notes = {}
    <3>1. q # <<>> /\ <<>> \in Plans
      BY <1>0, <1>4
    <3>2. Posed(r, q, k, U, i, <<>>)
      BY <2>1, <2>2, <3>1, Asking
    <3> QED BY <3>2 DEF Posed
  <2>4. ASSUME Agree(stored, cache, past', made.faults)
        PROVE  NetPlanned(r, stored, cache, past', made.faults)
    BY <2>1, <2>3, <2>4, <1>4 DEF NetPlanned, OnGateway
  <2> QED BY <2>3, <2>4, <1>4, NetBegins
<1>5. CASE UpsertGateway(p)
  <2>1. PICK i \in Item, m \in {"on", "off"} :
          LET act == IF m = "on" THEN Step("set", "route", {i}) ELSE Step("down", "route", {i})
              k == [stored EXCEPT !.gateways = (@ \ Manual(@, i)) \union {<<i, m>>}]
              r == Request(<<Save("gateways"), act>>, k, {"route"})
          IN  Begin(p, [r EXCEPT !.item = i])
    BY <1>5 DEF UpsertGateway
  <2> DEFINE act == IF m = "on" THEN Step("set", "route", {i}) ELSE Step("down", "route", {i})
             v == (stored["gateways"] \ Manual(stored["gateways"], i)) \union {<<i, m>>}
             k == [stored EXCEPT !["gateways"] = v]
             q == <<Save("gateways"), act>>
             r == [Request(q, k, {"route"}) EXCEPT !.item = i]
  <2>2. Begin(p, r)
    BY <2>1
  <2>3. v \in Value
    BY <1>0 DEF Value
  <2>4. Autos(v) \subseteq Autos(stored["gateways"])
    BY DEF Autos
  <2>5. act \in Steps /\ act.do \in {"set", "down"} /\ Save("gateways") \in Steps
    BY LinkSteps, Words
  <2> HIDE DEF v, act
  <2>6. /\ q \in Plans /\ q # <<>> /\ Head(q) = Save("gateways") /\ Tail(q) = <<act>>
        /\ <<act>> \in Plans /\ Head(<<act>>) = act /\ Tail(<<act>>) = <<>>
    BY <2>5 DEF Plans
  <2>7. Asks(r, q, k, {"route"}, i, <<>>) /\ "links" \notin {"route"} /\ {"route"} \in SUBSET Units(part)
    BY UnitNames, UnitsHere DEF Asks
  <2> HIDE DEF q, r
  <2>8. <<act>> = <<>> \/ (Head(<<act>>).do \in {"set", "down"} /\ Tail(<<act>>) = <<>>)
    BY <2>5, <2>6
  <2> QED BY <2>2, <2>3, <2>4, <2>6, <2>7, <2>8, <1>4
<1>6. CASE DeleteGateway(p)
  <2>1. PICK e \in stored.gateways :
          Begin(p, Request(<<Save("gateways")>>, [stored EXCEPT !.gateways = @ \ {e}], {}))
    BY <1>6 DEF DeleteGateway
  <2> DEFINE v == stored["gateways"] \ {e}
             k == [stored EXCEPT !["gateways"] = v]
             q == <<Save("gateways")>>
             r == Request(q, k, {})
  <2>2. Begin(p, r)
    BY <2>1
  <2>3. v \in Value /\ Autos(v) \subseteq Autos(stored["gateways"])
    BY <1>0 DEF Value, Autos
  <2> HIDE DEF v
  <2>4. Save("gateways") \in Steps
    BY LinkSteps
  <2>5. q \in Plans /\ q # <<>> /\ Head(q) = Save("gateways") /\ Tail(q) = <<>>
    BY <2>4 DEF Plans
  <2>6. Asks(r, q, k, {}, None, <<>>)
    BY DEF Asks
  <2> HIDE DEF q, r
  <2> QED BY <2>2, <2>3, <2>5, <2>6, <1>0, <1>4
<1> QED BY <1>1, <1>2, <1>3, <1>5, <1>6

\* The daemon, or the appliance, starts again.
LEMMA NetStarted ==
  ASSUME NEW k \in Configs("net")
  PROVE  /\ \A p \in Client : Started("net", k)[p].ans # "busy"
         /\ Startup(Started("net", k)[Daemon].todo)
<1> DEFINE q == StartupSteps("net", k)
           r == [Idle EXCEPT !.ans = "busy", !.todo = q, !.view = k, !.prev = k]
<1>1. \A p \in Proc : Started("net", k)[p] = IF p = Daemon /\ q # <<>> THEN r ELSE Idle
  BY DEF Started
<1>2. Idle.ans # "busy" /\ Idle.todo = <<>>
  BY DEF Idle, None
<1>3. Startup(q)
  <2> DEFINE s == Step("sync", "links", Named(k.interfaces))
             f == Plain("refresh", "nft")
             t == <<f>>
             a == IF k.interfaces = {} THEN <<>> ELSE <<s>>
  <2>1. q = a \o t
    BY DEF StartupSteps, LinkStartup, Family, App
  <2>2. s \in Steps /\ f \in Steps /\ s.do = "sync" /\ f.do = "refresh"
    BY LinkSteps, Words DEF Named
  <2> HIDE DEF s, f, q
  <2>3. t \in Plans /\ Startup(t)
    BY <2>2 DEF Plans, Startup
  <2> HIDE DEF t
  <2>4. <<>> \o t = t
    BY <2>3, ConcatEmptySeq DEF Plans
  <2>5. Startup(<<s>> \o t)
    BY <2>2, <2>3, StartupPlans
  <2> QED BY <2>1, <2>3, <2>4, <2>5
<1>4. Startup(<<>>)
  BY DEF Startup
<1> HIDE DEF q
<1>5. r.todo = q
  BY DEF Idle
<1> HIDE DEF r
<1>6. Daemon \in Proc /\ \A p \in Client : p \in Proc /\ p # Daemon
  BY ServiceAssumption DEF Proc
<1> QED BY <1>1, <1>2, <1>3, <1>4, <1>5, <1>6

LEMMA NetEnds ==
  ASSUME Base, NetOrder, part = "net", Restart \/ Reboot
  PROVE  NetOrder' /\ \A q \in Client : Kept(q)
<1>1. /\ made.restarts < MaxRestarts /\ made' = [made EXCEPT !.restarts = @ + 1]
      /\ req' = Started(part, stored) /\ cache' = stored.interfaces
      /\ past' = past \union If(\E p \in Client : Busy(p), {"cut"})
      /\ UNCHANGED <<part, stored, file, cand>>
  BY DEF Restart, Reboot, Ended
<1>2. stored \in Configs("net") /\ made'.faults = made.faults
  BY <1>1 DEF Base, World, Budget
<1>3. (\A p \in Client : req'[p].ans # "busy") /\ Startup(req'[Daemon].todo)
  BY <1>1, <1>2, NetStarted
<1>4. Agree(stored', cache', past', made'.faults)
  <2>1. ASSUME Fresh(past', made'.faults) PROVE Follows(stored, stored.interfaces)
    <3>1. past = {} /\ ~\E p \in Client : Busy(p)
      BY <2>1, <1>1 DEF Fresh, If
    <3>2. Quiet /\ Fresh(past, made.faults) /\ Trusted(past)
      BY <3>1, <2>1, <1>2 DEF Quiet, Fresh, Trusted
    <3> QED BY <3>2 DEF NetOrder, Agree
  <2> QED BY <2>1, <1>1 DEF Agree
<1>5. \A p \in Client : ~Unmet(p)' /\ ~Busy(p)'
  BY <1>3 DEF Unmet, Busy
<1>6. \A q \in Client : Kept(q)
  <2> SUFFICES ASSUME NEW q \in Client, req'[q].ans = "error" PROVE FALSE
    BY DEF Kept, Answered
  <2>1. req'[q] = Idle
    BY <1>1, ServiceAssumption DEF Started, Proc
  <2> QED BY <2>1 DEF Idle, None
<1>7. NetOrder'
  BY <1>3, <1>4, <1>5, <1>1 DEF NetOrder, Startup
<1> QED BY <1>6, <1>7

LEMMA NetOrderKept == Base /\ NetOrder /\ [Next]_vars => NetOrder' /\ (part = "net" => \A q \in Client : Kept(q))
<1> SUFFICES ASSUME Base, NetOrder, [Next]_vars, part' = "net" \/ part = "net"
             PROVE  NetOrder' /\ \A q \in Client : Kept(q)
  BY DEF NetOrder
<1>0. part = "net"
  BY NextBase
<1>1. CASE UNCHANGED vars
  <2>1. \A p \in Client : (Unmet(p)' <=> Unmet(p)) /\ (Busy(p)' <=> Busy(p))
    BY <1>1 DEF vars, Busy, Unmet
  <2>2. \A q \in Client : Kept(q)
    <3> SUFFICES ASSUME NEW q \in Client, Busy(q), req'[q].ans = "error" PROVE FALSE
      BY DEF Kept, Answered
    <3> QED BY <1>1 DEF vars, Busy
  <2> QED BY <1>1, <2>1, <2>2 DEF vars, NetOrder, Quiet
<1>2. CASE Restart \/ Reboot
  BY <1>0, <1>2, NetEnds
<1>3. CASE Next /\ ~(Restart \/ Reboot)
  <2>1. PICK p \in Proc :
          \/ Persist(p) \/ Restore(p) \/ Load(p) \/ Fault(p) \/ PassedOver(p)
          \/ Publish(p) \/ RestoreRevision(p) \/ LinkNext(p)
    BY <1>0, <1>3 DEF Next, Family, App
  <2>2. CASE Persist(p) \/ Restore(p) \/ Load(p) \/ Fault(p) \/ PassedOver(p) \/ Publish(p)
    <3>1. Busy(p)
      BY <2>2 DEF Persist, Restore, Load, Fault, PassedOver, Publish, Set, At
    <3> QED BY <3>1, <2>2, <1>0, NetGeneric
  <2>3. CASE RestoreRevision(p)
    BY <2>3, <1>0, NetRestores
  <2>4. CASE LinkNext(p)
    BY <2>4, <1>0, NetSteps, NetRequests DEF LinkNext
  <2> QED BY <2>1, <2>2, <2>3, <2>4
<1> QED BY <1>1, <1>2, <1>3

LEMMA InitNetOrder == Init => NetOrder
<1> SUFFICES ASSUME Init, part = "net" PROVE NetOrder
  BY DEF NetOrder
<1>1. req = Started("net", Blank) /\ stored = Blank /\ cache = {} /\ Blank \in Configs("net")
  BY BlankConfig DEF Init
<1>2. (\A p \in Client : ~Busy(p)) /\ Startup(req[Daemon].todo)
  BY <1>1, NetStarted DEF Busy
<1>3. /\ stored.interfaces = {} /\ stored.nat = {} /\ stored.gateways = {}
      /\ Translated({}) = {}
  BY <1>1 DEF Blank, Section, Translated, WanOf, Has
<1>4. Agree(stored, cache, past, made.faults)
  BY <1>1, <1>3 DEF Agree, Follows
<1> QED BY <1>2, <1>4 DEF NetOrder, Unmet, Startup

\* With at most one failure, and as long as requests are neither cut off nor meet and no
\* revision is restored, an idle daemon has the interfaces in memory as on disk, and the
\* translated networks and the automatic gateways follow from them: a request that fails
\* half-way puts back all it has changed.
THEOREM InterfacesInStep == Spec => []InterfacesAgree
<1>2. Base /\ NetOrder => InterfacesAgree
  <2> SUFFICES ASSUME Base, NetOrder, past = {}, made.faults <= 1, \A p \in Proc : ~Busy(p)
               PROVE  /\ cache = stored.interfaces /\ stored.nat = Translated(cache)
                      /\ \A i \in Item : <<i, "auto">> \in stored.gateways => i \in WanOf(cache)
    BY DEF InterfacesAgree, FollowsFrom
  <2>1. CASE part = "net"
    <3>1. Quiet /\ Fresh(past, made.faults) /\ Trusted(past)
      BY DEF Quiet, Fresh, Trusted, Proc
    <3> QED BY <2>1, <3>1 DEF NetOrder, Agree, Follows
  <2>2. CASE part # "net"
    <3>1. stored.interfaces = {} /\ stored.nat = {} /\ stored.gateways = {} /\ cache = {}
      BY <2>2 DEF Base, World, Configs, Lists, Bare
    <3>2. Translated({}) = {}
      BY DEF Translated, WanOf, Has
    <3> QED BY <3>1, <3>2
  <2> QED BY <2>1, <2>2
<1> QED BY <1>2, InitNetOrder, InitBase, NextBase, NetOrderKept, PTL DEF Spec
-----------------------------------------------------------------------------
(* What fails or is refused changes nothing.  First the configuration: a request about *)
(* the clock saves last, when nothing can fail any more; one about the shaping saves   *)
(* first, and puts the section back when a step after that fails.                      *)

\* Steps that write the configuration, or end a request that fails without undoing it.
Writes == {"save", "restore", "savenat", "saveauto", "drop", "consult"}
Inert(q) == \A n \in 1..Len(q) : q[n].do \notin Writes
SavesLast(q) == \A n \in 1..Len(q) : q[n].do \in Writes => q[n].do = "save" /\ n = Len(q)
PutsBack(q) == q # <<>> /\ Head(q) = Step("restore", "store", {"qos"}) /\ Inert(Tail(q))
Besides(k, s) == [d \in Section \ {s} |-> k[d]]

\* Request r, with the configuration k on disk: it has saved nothing, or has put back what
\* it saved; it is about to save the shaping; it has saved it; it is about to put it back.
Unsaved(r, k) == /\ k = r.prev /\ r.undo = <<>>
                 /\ Inert(r.todo) \/ ("failed" \notin r.notes /\ SavesLast(r.todo))
Opening(r, k) == /\ k = r.prev /\ "failed" \notin r.notes
                 /\ Head(r.todo) = Save("qos") /\ Inert(Tail(r.todo)) /\ PutsBack(r.undo)
Shaping(r, k) == /\ Besides(k, "qos") = Besides(r.prev, "qos") /\ "failed" \notin r.notes
                 /\ Inert(r.todo) /\ PutsBack(r.undo)
Undoing(r, k) == /\ Besides(k, "qos") = Besides(r.prev, "qos") /\ "failed" \in r.notes
                 /\ PutsBack(r.todo) /\ r.undo = <<>>
StorePlanned(r, k) == Unsaved(r, k) \/ Opening(r, k) \/ Shaping(r, k) \/ Undoing(r, k)

\* r goes on as planned; or it ends, and if it has failed, and was undone, has changed nothing.
Settled(r, k) ==
  IF r.todo # <<>> THEN StorePlanned(r, k)
  ELSE "failed" \in r.notes /\ "again" \notin r.notes => k = r.prev

StoreOrder ==
  part \in {"ntp", "qos"} => \A p \in Client : Unmet(p) => StorePlanned(req[p], stored)

StoreKept(p) == Answered(p, "error", {"failed", "silent"}) => stored' = req[p].prev

\* A request that no other one meets is alone.
LEMMA Single ==
  ASSUME Base, NEW p \in Proc, Unmet(p)
  PROVE  Lone /\ \A q \in Proc : Busy(q) => q = p
<1>1. \A q \in Proc : Busy(q) => q = p
  BY DEF Unmet, Base, Served, Busy
<1> QED BY <1>1 DEF Lone

LEMMA InertTails ==
  ASSUME NEW q \in Plans, q # <<>>
  PROVE  /\ Inert(q) => Head(q).do \notin Writes /\ Inert(Tail(q))
         /\ SavesLast(q) => SavesLast(Tail(q))
         /\ SavesLast(q) /\ Head(q).do \in Writes => Head(q).do = "save" /\ Tail(q) = <<>>
<1>1. /\ Len(q) \in Nat \ {0} /\ Head(q) = q[1] /\ Tail(q) \in Seq(Steps) /\ Len(Tail(q)) = Len(q) - 1
      /\ \A n \in 1..(Len(q) - 1) : Tail(q)[n] = q[n + 1]
  BY HeadTailProperties, LenProperties, EmptySeq DEF Plans
<1>2. \A n \in 1..Len(Tail(q)) : n + 1 \in 1..Len(q) /\ Tail(q)[n] = q[n + 1]
  BY <1>1
<1> DEFINE t == Tail(q)
<1>0. 1 \in 1..Len(q) /\ Head(q) = q[1] /\ Len(t) = Len(q) - 1 /\ Len(q) \in Nat
      /\ \A n \in 1..Len(t) : n + 1 \in 1..Len(q) /\ t[n] = q[n + 1]
  BY <1>1, <1>2
<1> HIDE DEF t
<1>3. Inert(q) => Head(q).do \notin Writes /\ Inert(t)
  BY <1>0 DEF Inert
<1>4. ASSUME SavesLast(q) PROVE SavesLast(t)
  <2> SUFFICES ASSUME NEW n \in 1..Len(t), t[n].do \in Writes
               PROVE  t[n].do = "save" /\ n = Len(t)
    BY DEF SavesLast
  <2>1. n + 1 \in 1..Len(q) /\ t[n] = q[n + 1]
    BY <1>0
  <2>2. q[n + 1].do = "save" /\ n + 1 = Len(q)
    BY <2>1, <1>4 DEF SavesLast
  <2> QED BY <2>1, <2>2, <1>0
<1>5. ASSUME SavesLast(q), Head(q).do \in Writes
      PROVE  Head(q).do = "save" /\ Tail(q) = <<>>
  <2>1. q[1].do = "save" /\ 1 = Len(q)
    BY <1>0, <1>5 DEF SavesLast
  <2>2. Len(Tail(q)) = 0
    BY <2>1, <1>1
  <2> QED BY <2>1, <2>2, <1>1, EmptySeq
<1> QED BY <1>3, <1>4, <1>5 DEF t

\* p goes on as x: the others, if there are any, have met it.
LEMMA StoreMoves ==
  ASSUME Base, NEW p \in Proc, Busy(p), NEW x \in Requests(part), x.ans = "busy",
         Alike(x, req[p]), Become(p, x), x.prev = req[p].prev,
         p \in Client /\ Unmet(p) => Settled(x, stored')
  PROVE  StoreOrder' /\ \A q \in Client : StoreKept(q)
<1>1. /\ UNCHANGED <<part, past>> /\ Alike(req'[p], req[p])
      /\ \A q \in Proc \ {p} : req'[q] = req[q]
      /\ x.todo # <<>> => req'[p] = x
      /\ x.todo = <<>> => /\ req'[p].ans = IF "failed" \in x.notes THEN "error" ELSE "ok"
                          /\ req'[p].notes = x.notes
  <2>1. Served(part, req)
    BY DEF Base
  <2> QED BY <2>1, Becoming
<1>2. ASSUME NEW q \in Client, q # p PROVE ~Unmet(q)' /\ StoreKept(q)
  <2>1. q \in Proc /\ req'[q] = req[q]
    BY <1>1, <1>2 DEF Proc
  <2>2. ~Unmet(q)
    BY <2>1, <1>2, Single
  <2>3. Unmet(q)' <=> Unmet(q)
    BY <2>1 DEF Unmet, Busy
  <2>4. StoreKept(q)
    BY <2>1 DEF StoreKept, Answered, Busy
  <2> QED BY <2>2, <2>3, <2>4
<1>3. ASSUME p \in Client PROVE (Unmet(p)' => StorePlanned(req'[p], stored')) /\ StoreKept(p)
  <2>1. ASSUME Unmet(p)' PROVE StorePlanned(req'[p], stored')
    <3>1. Unmet(p)
      BY <2>1, <1>1 DEF Unmet, Alike
    <3>2. x.todo # <<>>
      BY <2>1, <1>1 DEF Unmet, Busy
    <3> QED BY <3>1, <3>2, <1>1, <1>3 DEF Settled
  <2>2. ASSUME Answered(p, "error", {"failed", "silent"}) PROVE stored' = req[p].prev
    <3>1. req'[p].ans = "error" /\ "met" \notin req'[p].notes /\ "again" \notin req'[p].notes
      BY <2>2 DEF Answered
    <3>2. x.todo = <<>>
      BY <3>1, <1>1
    <3>3. "failed" \in x.notes /\ "again" \notin x.notes
      BY <3>1, <3>2, <1>1
    <3>4. Unmet(p)
      BY <3>1, <1>1 DEF Unmet, Alike
    <3> QED BY <3>2, <3>3, <3>4, <1>3 DEF Settled
  <2> QED BY <2>1, <2>2 DEF StoreKept
<1> QED BY <1>1, <1>2, <1>3 DEF StoreOrder

\* A step that writes nothing is done, or is passed over.
LEMMA StoreGoes ==
  ASSUME Base, StoreOrder, part \in {"ntp", "qos"}, NEW p \in Proc, Busy(p),
         NEW x \in Requests(part), x.ans = "busy", Become(p, x), x.todo = Tail(req[p].todo),
         x.undo = req[p].undo, x.prev = req[p].prev,
         x.notes \ {"silent"} = req[p].notes \ {"silent"},
         Head(req[p].todo).do \notin Writes, stored' = stored
  PROVE  StoreOrder' /\ \A q \in Client : StoreKept(q)
<1>1. \A n \in {"met", "failed"} : n \in x.notes <=> n \in req[p].notes
  OBVIOUS
<1>2. ASSUME p \in Client, Unmet(p) PROVE Settled(x, stored')
  <2>1. StorePlanned(req[p], stored)
    BY <1>2 DEF StoreOrder
  <2>2. req[p].todo \in Plans /\ req[p].todo # <<>>
    BY AtWork
  <2>3. \A s : Save(s).do \in Writes /\ Step("restore", "store", {s}).do \in Writes
    BY Words DEF Writes
  <2>4. CASE Unsaved(req[p], stored)
    <3>1. Inert(x.todo) \/ ("failed" \notin x.notes /\ SavesLast(x.todo))
      BY <2>2, <2>4, <1>1, InertTails DEF Unsaved
    <3>2. stored = req[p].prev /\ req[p].undo = <<>>
      BY <2>4 DEF Unsaved
    <3> QED BY <3>1, <3>2 DEF Settled, StorePlanned, Unsaved
  <2>5. CASE Opening(req[p], stored) \/ Undoing(req[p], stored)
    BY <2>3, <2>5 DEF Opening, Undoing, PutsBack
  <2>6. CASE Shaping(req[p], stored)
    <3>1. /\ "failed" \notin x.notes /\ PutsBack(x.undo)
          /\ Besides(stored, "qos") = Besides(x.prev, "qos") /\ Inert(req[p].todo)
      BY <2>6, <1>1 DEF Shaping
    <3>2. Inert(x.todo)
      BY <3>1, <2>2, InertTails
    <3> QED BY <3>1, <3>2 DEF Settled, StorePlanned, Shaping
  <2> QED BY <2>1, <2>4, <2>5, <2>6 DEF StorePlanned
<1> QED BY <1>1, <1>2, StoreMoves DEF Alike

\* A step fails: what was saved is to be put back.
LEMMA StoreFails ==
  ASSUME Base, StoreOrder, part \in {"ntp", "qos"}, NEW p \in Proc, Busy(p), Failed(p),
         stored' = stored
  PROVE  StoreOrder' /\ \A q \in Client : StoreKept(q)
<1> DEFINE n == IF "failed" \in req[p].notes THEN "again" ELSE "failed"
<1>1. PICK x \in Requests(part) :
        /\ Become(p, x) /\ x.ans = "busy" /\ Same(x, req[p])
        /\ x.notes = req[p].notes \union {n}
        /\ p # Daemon => /\ x.undo = <<>>
                         /\ x.todo = IF Head(req[p].todo).do \in {"save", "drop", "consult"} THEN <<>>
                                     ELSE req[p].undo
  BY Failing DEF Base
<1>2. x.prev = req[p].prev /\ Alike(x, req[p])
  BY <1>1 DEF Same, Alike
<1>3. ASSUME p \in Client, Unmet(p) PROVE Settled(x, stored')
  <2>1. StorePlanned(req[p], stored) /\ p # Daemon
    BY <1>3, ServiceAssumption DEF StoreOrder
  <2>2. req[p].todo \in Plans /\ req[p].todo # <<>>
    BY AtWork
  <2>3. CASE stored = req[p].prev /\ x.todo = <<>>
    BY <2>3, <1>2 DEF Settled
  <2>4. CASE Unsaved(req[p], stored)
    BY <2>1, <2>3, <2>4, <1>1 DEF Unsaved
  <2>5. CASE Opening(req[p], stored)
    <3>1. Head(req[p].todo).do = "save"
      BY <2>5, Words DEF Opening
    <3> QED BY <2>1, <2>3, <2>5, <3>1, <1>1 DEF Opening
  <2>6. CASE Shaping(req[p], stored)
    <3>1. Head(req[p].todo).do \notin Writes
      BY <2>2, <2>6, InertTails DEF Shaping
    <3>2. x.todo = req[p].undo /\ x.undo = <<>> /\ "failed" \in x.notes
      BY <2>1, <2>6, <3>1, <1>1 DEF Writes, Shaping
    <3>3. PutsBack(x.todo) /\ x.todo # <<>> /\ Besides(stored, "qos") = Besides(x.prev, "qos")
      BY <3>2, <2>6, <1>2 DEF Shaping, PutsBack
    <3> QED BY <3>2, <3>3 DEF Settled, StorePlanned, Undoing
  <2>7. CASE Undoing(req[p], stored)
    <3>1. Head(req[p].todo).do = "restore"
      BY <2>7, Words DEF Undoing, PutsBack
    <3>2. x.todo = <<>> /\ "again" \in x.notes
      BY <3>1, <2>1, <2>7, <1>1 DEF Undoing
    <3> QED BY <3>2 DEF Settled
  <2> QED BY <2>1, <2>4, <2>5, <2>6, <2>7 DEF StorePlanned
<1> QED BY <1>1, <1>2, <1>3, StoreMoves

LEMMA StoreSaves ==
  ASSUME Base, StoreOrder, part \in {"ntp", "qos"}, NEW p \in Proc, Persist(p)
  PROVE  StoreOrder' /\ \A q \in Client : StoreKept(q)
<1> DEFINE x == Past(req[p])
<1>1. /\ Busy(p) /\ Head(req[p].todo).do = "save" /\ Become(p, x)
      /\ stored' = [s \in Section |-> IF s \in Of(p) THEN req[p].view[s] ELSE stored[s]]
  BY DEF Persist, At, Advance
<1>2. /\ req[p].todo \in Plans /\ req[p].todo # <<>>
      /\ x \in Requests(part) /\ x.ans = "busy" /\ x.todo = Tail(req[p].todo)
      /\ x.undo = req[p].undo /\ x.prev = req[p].prev /\ x.notes = req[p].notes
  BY <1>1, AtWork, Going DEF Same
<1> HIDE DEF x
<1>3. ASSUME p \in Client, Unmet(p) PROVE Settled(x, stored')
  <2>1. StorePlanned(req[p], stored)
    BY <1>3 DEF StoreOrder
  <2>2. Head(req[p].todo).do \in Writes
    BY <1>1 DEF Writes
  <2>3. CASE Unsaved(req[p], stored)
    <3>1. ~Inert(req[p].todo)
      BY <1>2, <2>2, InertTails
    <3>2. "failed" \notin req[p].notes /\ Tail(req[p].todo) = <<>>
      BY <3>1, <2>2, <2>3, <1>2, InertTails DEF Unsaved
    <3> QED BY <3>2, <1>2 DEF Settled
  <2>4. CASE Opening(req[p], stored)
    <3>1. Of(p) = {"qos"}
      BY <2>4, Words DEF Opening, Of
    <3>2. Besides(stored', "qos") = Besides(stored, "qos")
      BY <3>1, <1>1 DEF Besides
    <3> QED BY <2>4, <3>2, <1>2 DEF Settled, StorePlanned, Opening, Shaping
  <2>5. CASE Shaping(req[p], stored)
    BY <1>2, <2>2, <2>5, InertTails DEF Shaping
  <2>6. CASE Undoing(req[p], stored)
    BY <1>1, <2>6, Words DEF Undoing, PutsBack
  <2> QED BY <2>1, <2>3, <2>4, <2>5, <2>6 DEF StorePlanned
<1> QED BY <1>1, <1>2, <1>3, StoreMoves DEF Alike

LEMMA StoreRestores ==
  ASSUME Base, StoreOrder, part \in {"ntp", "qos"}, NEW p \in Proc, Restore(p)
  PROVE  StoreOrder' /\ \A q \in Client : StoreKept(q)
<1> DEFINE back(k) == [s \in Section |-> IF s \in Of(p) THEN req[p].prev[s] ELSE k[s]]
           x == [Past(req[p]) EXCEPT !.view = back(@)]
<1>1. /\ Busy(p) /\ Head(req[p].todo).do = "restore" /\ Become(p, x) /\ stored' = back(stored)
  BY DEF Restore, At
<1>2. \A k \in Configs(part) : back(k) \in Configs(part)
  <2>1. req[p].prev \in Configs(part)
    BY <1>1, AtWork
  <2> QED BY <2>1, ConfigMix
<1>3. /\ req[p].todo \in Plans /\ req[p].todo # <<>>
      /\ Past(req[p]) \in Requests(part) /\ Past(req[p]).ans = "busy"
      /\ Past(req[p]).todo = Tail(req[p].todo) /\ Past(req[p]).undo = req[p].undo
      /\ Past(req[p]).prev = req[p].prev /\ Past(req[p]).notes = req[p].notes
  BY <1>1, AtWork, Going DEF Same
<1>4. /\ x \in Requests(part) /\ x.ans = "busy" /\ x.todo = Tail(req[p].todo)
      /\ x.undo = req[p].undo /\ x.prev = req[p].prev /\ x.notes = req[p].notes
  <2> HIDE DEF back
  <2> QED BY <1>2, <1>3 DEF Requests
<1> HIDE DEF x
<1>5. ASSUME p \in Client, Unmet(p) PROVE Settled(x, stored')
  <2>1. StorePlanned(req[p], stored)
    BY <1>5 DEF StoreOrder
  <2>2. Head(req[p].todo).do \in Writes \ {"save"} /\ Head(req[p].todo).do \in Writes
    BY <1>1 DEF Writes
  <2>3. CASE Unsaved(req[p], stored) \/ Shaping(req[p], stored)
    BY <1>3, <2>2, <2>3, InertTails DEF Unsaved, Shaping
  <2>4. CASE Opening(req[p], stored)
    BY <1>1, <2>4, Words DEF Opening
  <2>5. CASE Undoing(req[p], stored)
    <3>1. Of(p) = {"qos"} /\ Besides(stored, "qos") = Besides(req[p].prev, "qos")
      BY <2>5, Words DEF Undoing, PutsBack, Of
    <3>2. \A s \in Section : stored'[s] = req[p].prev[s]
      <4> SUFFICES ASSUME NEW s \in Section PROVE stored'[s] = req[p].prev[s]
        OBVIOUS
      <4>1. CASE s = "qos"
        BY <4>1, <3>1, <1>1
      <4>2. CASE s # "qos"
        <5>1. stored'[s] = stored[s]
          BY <4>2, <3>1, <1>1
        <5>2. s \in Section \ {"qos"} /\ Besides(stored, "qos")[s] = Besides(req[p].prev, "qos")[s]
          BY <4>2, <3>1
        <5>3. stored[s] = req[p].prev[s]
          BY <5>2 DEF Besides
        <5> QED BY <5>1, <5>3
      <4> QED BY <4>1, <4>2
    <3>3. stored' \in Config /\ req[p].prev \in Config
      BY <1>1, <1>2, AtWork DEF Base, World, Configs
    <3>4. stored' = req[p].prev
      BY <3>2, <3>3 DEF Config
    <3>5. Inert(x.todo) /\ x.undo = <<>>
      BY <2>5, <1>4 DEF Undoing, PutsBack
    <3> QED BY <3>4, <3>5, <1>4 DEF Settled, StorePlanned, Unsaved
  <2> QED BY <2>1, <2>3, <2>4, <2>5 DEF StorePlanned
<1> QED BY <1>1, <1>4, <1>5, StoreMoves DEF Alike

LEMMA Prefixing ==
  ASSUME NEW a \in Steps, NEW q \in Plans
  PROVE  /\ <<a>> \o q \in Plans /\ <<a>> \o q # <<>>
         /\ Head(<<a>> \o q) = a /\ Tail(<<a>> \o q) = q
<1> DEFINE l == <<a>>
           t == l \o q
<1>1. l \in Seq(Steps) /\ q \in Seq(Steps) /\ Len(l) = 1 /\ l[1] = a
  BY DEF Plans
<1> HIDE DEF l
<1>2. /\ t \in Seq(Steps) /\ Len(t) = 1 + Len(q) /\ Len(q) \in Nat
      /\ \A n \in 1..(1 + Len(q)) : t[n] = IF n <= 1 THEN l[n] ELSE q[n - 1]
  <2>1. t \in Seq(Steps) /\ Len(t) = Len(l) + Len(q)
    BY <1>1, ConcatProperties
  <2>2. \A n \in 1..(Len(l) + Len(q)) : t[n] = IF n <= Len(l) THEN l[n] ELSE q[n - Len(l)]
    BY <1>1, ConcatProperties
  <2>3. Len(q) \in Nat
    BY <1>1, LenProperties
  <2> HIDE DEF t
  <2> QED BY <2>1, <2>2, <2>3, <1>1
<1> HIDE DEF t
<1>3. t # <<>>
  BY <1>2, EmptySeq
<1>4. /\ Head(t) = t[1] /\ Tail(t) \in Seq(Steps) /\ Len(Tail(t)) = Len(q)
      /\ \A n \in 1..Len(q) : Tail(t)[n] = t[n + 1]
  BY <1>2, <1>3, HeadTailProperties
<1>5. \A n \in 1..Len(q) : Tail(t)[n] = q[n]
  <2> SUFFICES ASSUME NEW n \in 1..Len(q) PROVE Tail(t)[n] = q[n]
    OBVIOUS
  <2>1. n + 1 \in 1..(1 + Len(q)) /\ ~(n + 1 <= 1) /\ (n + 1) - 1 = n
    BY <1>2
  <2> QED BY <2>1, <1>2, <1>4
<1>6. Tail(t) = q
  BY <1>1, <1>4, <1>5, SeqEqual
<1>7. Head(t) = a
  BY <1>1, <1>2, <1>4
<1> QED BY <1>2, <1>3, <1>6, <1>7 DEF t, l, Plans

LEMMA SavingLast ==
  ASSUME NEW q \in Plans, Inert(q), NEW s \in Section
  PROVE  /\ q \o <<Save(s)>> \in Plans /\ q \o <<Save(s)>> # <<>> /\ SavesLast(q \o <<Save(s)>>)
<1> DEFINE l == <<Save(s)>>
           t == q \o l
<1>1. l \in Seq(Steps) /\ q \in Seq(Steps) /\ Len(l) = 1 /\ l[1].do = "save"
  BY StoreTyped, Words DEF Plans
<1> HIDE DEF l
<1>2. /\ t \in Seq(Steps) /\ Len(t) = Len(q) + 1 /\ Len(q) \in Nat
      /\ \A n \in 1..(Len(q) + 1) : t[n] = IF n <= Len(q) THEN q[n] ELSE l[n - Len(q)]
  <2>1. t \in Seq(Steps) /\ Len(t) = Len(q) + Len(l)
    BY <1>1, ConcatProperties
  <2>2. \A n \in 1..(Len(q) + Len(l)) : t[n] = IF n <= Len(q) THEN q[n] ELSE l[n - Len(q)]
    BY <1>1, ConcatProperties
  <2>3. Len(q) \in Nat
    BY <1>1, LenProperties
  <2> HIDE DEF t
  <2> QED BY <2>1, <2>2, <2>3, <1>1
<1> HIDE DEF t
<1>3. ASSUME NEW n \in 1..Len(t), t[n].do \in Writes PROVE t[n].do = "save" /\ n = Len(t)
  <2>1. CASE n <= Len(q)
    <3>1. n \in 1..Len(q) /\ t[n] = q[n]
      BY <2>1, <1>2
    <3> QED BY <3>1, <1>3 DEF Inert
  <2>2. CASE ~(n <= Len(q))
    <3>1. n - Len(q) = 1 /\ n = Len(t) /\ t[n] = l[n - Len(q)]
      BY <2>2, <1>2
    <3> QED BY <3>1, <1>1
  <2> QED BY <2>1, <2>2
<1>4. t # <<>>
  BY <1>2, EmptySeq
<1> QED BY <1>2, <1>3, <1>4 DEF SavesLast, t, l, Plans

\* p asks for r: it meets those that are at work, if any.
LEMMA StoreBegins ==
  ASSUME Base, NEW p \in Proc, NEW r \in Requests(part), r.ans = "busy", r.todo # <<>>,
         Begin(p, r), r.notes = {}, StorePlanned(r, stored)
  PROVE  StoreOrder' /\ \A q \in Client : StoreKept(q)
<1>1. /\ UNCHANGED <<part, system>> /\ p \in Client /\ ~Busy(p)
      /\ req'[p] = [r EXCEPT !.notes = If(Others(p) # {}, {"met"})]
      /\ \A q \in Others(p) : req'[q] = [req[q] EXCEPT !.notes = @ \union {"met"}]
      /\ \A q \in Proc \ (Others(p) \union {p}) : req'[q] = req[q]
  BY Beginning
<1>2. ASSUME NEW q \in Others(p) PROVE q \in Proc /\ "met" \in req'[q].notes /\ req'[q].ans = req[q].ans
  <2>1. q \in Proc /\ req[q] \in Requests(part)
    BY DEF Others, Proc, Base, Served
  <2>2. req'[q] = [req[q] EXCEPT !.notes = @ \union {"met"}]
    BY <1>1
  <2> QED BY <2>1, <2>2 DEF Requests
<1>3. ASSUME NEW q \in Client, q # p PROVE ~Unmet(q)' /\ StoreKept(q)
  <2>1. CASE q \in Others(p)
    <3>1. ~Unmet(q)'
      BY <2>1, <1>2 DEF Unmet
    <3>2. StoreKept(q)
      BY <2>1, <1>2 DEF StoreKept, Answered, Busy
    <3> QED BY <3>1, <3>2
  <2>2. CASE q \notin Others(p)
    <3>1. req'[q] = req[q] /\ ~Busy(q)
      BY <2>2, <1>1, <1>3 DEF Others, Proc
    <3> QED BY <3>1 DEF Unmet, StoreKept, Answered, Busy
  <2> QED BY <2>1, <2>2
<1>4. StoreKept(p)
  BY <1>1 DEF StoreKept, Answered
<1>5. Unmet(p)' => StorePlanned(req'[p], stored')
  <2> SUFFICES ASSUME Unmet(p)' PROVE StorePlanned(req'[p], stored')
    OBVIOUS
  <2>1. /\ req'[p].todo = r.todo /\ req'[p].undo = r.undo /\ req'[p].prev = r.prev
        /\ req'[p].notes = If(Others(p) # {}, {"met"})
    BY <1>1 DEF Requests
  <2>2. req'[p].notes = r.notes
    BY <2>1 DEF Unmet, If
  <2>3. stored' = stored
    BY <1>1 DEF system
  <2> QED BY <2>1, <2>2, <2>3 DEF StorePlanned, Unsaved, Opening, Shaping, Undoing
<1> QED BY <1>1, <1>3, <1>4, <1>5 DEF StoreOrder

LEMMA StoreAsking ==
  ASSUME Base, NEW q \in Plans, q # <<>>, NEW k \in Configs(part), NEW t \in Plans,
         NEW U \in SUBSET Units(part), NEW r, Asks(r, q, k, U, None, t)
  PROVE  /\ r \in Requests(part) /\ r.ans = "busy" /\ r.todo = q /\ r.undo = t
         /\ r.prev = stored /\ r.notes = {}
<1> DEFINE i == None
<1>1. i \in Item \union {None} /\ Asks(r, q, k, U, i, t)
  OBVIOUS
<1> HIDE DEF i
<1>2. /\ r \in Requests(part) /\ r.ans = "busy" /\ r.todo = q /\ r.undo = t /\ r.view = k
      /\ r.prev = stored /\ r.was = {} /\ r.units = U /\ r.item = i /\ r.notes = {}
  <2>1. Posed(r, q, k, U, i, t)
    BY <1>1, Asking
  <2> QED BY <2>1 DEF Posed
<1> QED BY <1>2

LEMMA StoreRequests ==
  ASSUME Base, part \in {"ntp", "qos"}, NEW p \in Proc,
         \/ RestoreRevision(p)
         \/ part = "ntp" /\ UpdateNtp(p)
         \/ part = "qos" /\ (PutConfig(p) \/ ApplyQos(p))
  PROVE  StoreOrder' /\ \A q \in Client : StoreKept(q)
<1>0. /\ stored \in Configs(part) /\ \A s \in Section : stored[s] \in Value
      /\ Blank \in Configs(part) /\ {} \in Value /\ Item \subseteq Field /\ Flag \subseteq Field
      /\ "on" \in Mark /\ "ntp" \in Section /\ "qos" \in Section /\ <<>> \in Plans
      /\ Clock \in SUBSET Units(part) /\ {"qos"} \in SUBSET Units(part)
  BY BlankConfig, ConfigSection, Fields, UnitNames, UnitsHere
     DEF Base, World, Section, Value, Mark, Plans, Clock
<1>1. CASE RestoreRevision(p)
  <2> DEFINE r == [Request(Whole, Blank, {}) EXCEPT !.item = Revision]
  <2>1. Begin(p, r)
    BY <1>1 DEF RestoreRevision, Whole
  <2>2. Step("save", "store", Section) \in Steps /\ Step("save", "store", Section).do = "save"
    BY StepTyped, Verbs, Words
  <2>3. Whole \in Plans /\ Whole # <<>> /\ SavesLast(Whole)
    BY <2>2 DEF Whole, Plans, SavesLast
  <2>4. /\ r \in Requests(part) /\ r.ans = "busy" /\ r.todo = Whole /\ r.undo = <<>>
        /\ r.prev = stored /\ r.notes = {}
    BY <2>3, <1>0, IdleTyped DEF Request, Requests, Idle
  <2> HIDE DEF r
  <2>5. StorePlanned(r, stored)
    BY <2>3, <2>4 DEF StorePlanned, Unsaved
  <2> QED BY <2>1, <2>3, <2>4, <2>5, StoreBegins
<1>2. CASE UpdateNtp(p)
  <2>1. PICK on \in BOOLEAN, serve \in BOOLEAN, S \in SUBSET (Item \ Refused) :
          LET v == Flagged(Flagged({<<i, "on">> : i \in S}, "enabled", on), "serve", serve)
          IN  Begin(p, Request(ClockSteps(v) \o <<Save("ntp")>>, [stored EXCEPT !.ntp = v], Clock))
    BY <1>2 DEF UpdateNtp
  <2> DEFINE l == {<<i, "on">> : i \in S}
             v == Flagged(Flagged(l, "enabled", on), "serve", serve)
             k == [stored EXCEPT !["ntp"] = v]
             q == ClockSteps(v) \o <<Save("ntp")>>
             r == Request(q, k, Clock)
  <2>2. Begin(p, r)
    BY <2>1
  <2>3. l \in Value
    BY <1>0 DEF Value
  <2> HIDE DEF l
  <2>4. v \in Value
    BY <2>3, <1>0, Values DEF Flag
  <2> HIDE DEF v
  <2>5. k \in Configs(part)
    BY <2>4, <1>0, ConfigPut
  <2>6. ClockSteps(v) \in Plans /\ Inert(ClockSteps(v))
    BY ClockPlan DEF Inert, Writes
  <2>7. q \in Plans /\ q # <<>> /\ SavesLast(q)
    BY <2>6, <1>0, SavingLast
  <2> HIDE DEF q, k
  <2>8. Asks(r, q, k, Clock, None, <<>>)
    BY DEF Asks
  <2> HIDE DEF r
  <2>9. /\ r \in Requests(part) /\ r.ans = "busy" /\ r.todo = q /\ r.undo = <<>>
        /\ r.prev = stored /\ r.notes = {}
    BY <2>5, <2>7, <2>8, <1>0, StoreAsking
  <2>10. StorePlanned(r, stored)
    BY <2>7, <2>9 DEF StorePlanned, Unsaved
  <2> QED BY <2>2, <2>7, <2>9, <2>10, StoreBegins
<1>3. CASE ApplyQos(p)
  <2> DEFINE q == QosSteps({}, stored.qos)
             r == Request(q, stored, {"qos"})
  <2>1. Begin(p, r)
    BY <1>3 DEF ApplyQos
  <2>2. q \in Plans /\ q # <<>> /\ Inert(q)
    BY QosPlan DEF Inert, Writes
  <2> HIDE DEF q
  <2>3. Asks(r, q, stored, {"qos"}, None, <<>>)
    BY DEF Asks
  <2> HIDE DEF r
  <2>4. /\ r \in Requests(part) /\ r.ans = "busy" /\ r.todo = q /\ r.undo = <<>>
        /\ r.prev = stored /\ r.notes = {}
    BY <2>2, <2>3, <1>0, StoreAsking
  <2>5. StorePlanned(r, stored)
    BY <2>2, <2>4 DEF StorePlanned, Unsaved
  <2> QED BY <2>1, <2>2, <2>4, <2>5, StoreBegins
<1>4. CASE PutConfig(p)
  <2>1. PICK v \in QosValue :
          LET r == Request(<<Save("qos")>> \o QosSteps(stored.qos, v), [stored EXCEPT !.qos = v],
                           {"qos"})
          IN  Begin(p, [r EXCEPT !.undo = <<Step("restore", "store", {"qos"})>>
                                            \o QosSteps(v, stored.qos)])
    BY <1>4 DEF PutConfig
  <2> DEFINE k == [stored EXCEPT !["qos"] = v]
             a == QosSteps(stored.qos, v)
             b == QosSteps(v, stored.qos)
             q == <<Save("qos")>> \o a
             t == <<Step("restore", "store", {"qos"})>> \o b
             r == [Request(q, k, {"qos"}) EXCEPT !.undo = t]
  <2>2. Begin(p, r)
    BY <2>1
  <2>3. v \in Value
    BY DEF QosValue, Value, Field, Flag, Mark
  <2>4. k \in Configs(part)
    BY <2>3, <1>0, ConfigPut
  <2>5. Save("qos") \in Steps /\ Step("restore", "store", {"qos"}) \in Steps
    BY <1>0, StoreTyped, StepTyped, Verbs
  <2>6. a \in Plans /\ b \in Plans /\ Inert(a) /\ Inert(b)
    BY QosPlan DEF Inert, Writes
  <2> HIDE DEF a, b
  <2>7. /\ q \in Plans /\ q # <<>> /\ t \in Plans /\ t # <<>>
        /\ Head(q) = Save("qos") /\ Tail(q) = a
        /\ Head(t) = Step("restore", "store", {"qos"}) /\ Tail(t) = b
    BY <2>5, <2>6, Prefixing
  <2> HIDE DEF q, k, t
  <2>8. Asks(r, q, k, {"qos"}, None, t)
    BY DEF Asks
  <2> HIDE DEF r
  <2>9. /\ r \in Requests(part) /\ r.ans = "busy" /\ r.todo = q /\ r.undo = t
        /\ r.prev = stored /\ r.notes = {}
    BY <2>4, <2>7, <2>8, <1>0, StoreAsking
  <2>10. StorePlanned(r, stored)
    BY <2>6, <2>7, <2>9 DEF StorePlanned, Opening, PutsBack
  <2> QED BY <2>2, <2>7, <2>9, <2>10, StoreBegins
<1> QED BY <1>1, <1>2, <1>3, <1>4

LEMMA StoreAdvances ==
  ASSUME Base, StoreOrder, part \in {"ntp", "qos"}, NEW p \in Proc, Busy(p), Advance(p),
         Head(req[p].todo).do \notin Writes, stored' = stored
  PROVE  StoreOrder' /\ \A q \in Client : StoreKept(q)
<1> DEFINE x == Past(req[p])
<1>1. /\ x \in Requests(part) /\ x.ans = "busy" /\ x.todo = Tail(req[p].todo)
      /\ x.undo = req[p].undo /\ x.prev = req[p].prev /\ x.notes = req[p].notes
  BY AtWork, Going DEF Same
<1>2. Become(p, x)
  BY DEF Advance
<1> HIDE DEF x
<1> QED BY <1>1, <1>2, StoreGoes

LEMMA StoreSteps ==
  ASSUME Base, StoreOrder, part \in {"ntp", "qos"}, NEW p \in Proc,
         \/ Load(p) \/ Fault(p) \/ PassedOver(p) \/ Publish(p)
         \/ InstallClock(p) \/ StopClock(p) \/ RestartClock(p)
         \/ Clean(p) \/ Shape(p) \/ ShapeFails(p)
  PROVE  StoreOrder' /\ \A q \in Client : StoreKept(q)
<1>1. CASE Load(p)
  <2> DEFINE v == [s \in Section |-> IF s \in Of(p) THEN stored[s] ELSE Past(req[p]).view[s]]
             x == [Past(req[p]) EXCEPT !.view = v]
  <2>1. /\ Busy(p) /\ Become(p, x) /\ stored' = stored /\ Head(req[p].todo).do \notin Writes
    BY <1>1 DEF Load, At, system, Writes
  <2>2. /\ Past(req[p]) \in Requests(part) /\ Past(req[p]).ans = "busy"
        /\ Past(req[p]).todo = Tail(req[p].todo) /\ Past(req[p]).undo = req[p].undo
        /\ Past(req[p]).prev = req[p].prev /\ Past(req[p]).notes = req[p].notes
    BY <2>1, AtWork, Going DEF Same
  <2>3. v \in Configs(part)
    <3>1. Past(req[p]).view \in Configs(part)
      BY <2>2 DEF Requests
    <3>2. stored \in Configs(part)
      BY DEF Base, World
    <3> QED BY <3>1, <3>2, ConfigMix
  <2> HIDE DEF v
  <2>4. /\ x \in Requests(part) /\ x.ans = "busy" /\ x.todo = Tail(req[p].todo)
        /\ x.undo = req[p].undo /\ x.prev = req[p].prev /\ x.notes = req[p].notes
    BY <2>2, <2>3 DEF Requests
  <2> HIDE DEF x
  <2> QED BY <2>1, <2>4, StoreGoes
<1>2. CASE PassedOver(p)
  <2> DEFINE y == Past(req[p])
             x == Noted(y, "silent")
  <2>1. Busy(p) /\ Become(p, x) /\ stored' = stored /\ Head(req[p].todo).do \notin Writes
    BY <1>2 DEF PassedOver, system, Writes, Tolerated
  <2>2. /\ y \in Requests(part) /\ y.ans = "busy" /\ y.todo = Tail(req[p].todo)
        /\ y.undo = req[p].undo /\ y.prev = req[p].prev /\ y.notes = req[p].notes
    BY <2>1, AtWork, Going DEF Same
  <2> HIDE DEF y
  <2>3. /\ x \in Requests(part) /\ x.ans = "busy" /\ x.todo = Tail(req[p].todo)
        /\ x.undo = req[p].undo /\ x.prev = req[p].prev /\ x.notes = req[p].notes \union {"silent"}
    BY <2>2, Noting DEF Note, Same
  <2> HIDE DEF x
  <2>4. x.notes \ {"silent"} = req[p].notes \ {"silent"}
    BY <2>3
  <2> QED BY <2>1, <2>3, <2>4, StoreGoes
<1>3. CASE \/ Fault(p) \/ Publish(p) \/ InstallClock(p) \/ StopClock(p) \/ RestartClock(p)
           \/ Clean(p) \/ Shape(p) \/ ShapeFails(p)
  <2>1. /\ Busy(p) /\ stored' = stored
        /\ Failed(p) \/ (Advance(p) /\ Head(req[p].todo).do \notin Writes)
    BY <1>3 DEF Fault, Publish, InstallClock, StopClock, RestartClock, Clean, Shape, ShapeFails,
                Install, Start, Set, At, Writes
  <2> QED BY <2>1, StoreAdvances, StoreFails
<1> QED BY <1>1, <1>2, <1>3

LEMMA StoreOrderKept ==
  Base /\ StoreOrder /\ [Next]_vars =>
    StoreOrder' /\ (part \in {"ntp", "qos"} => \A q \in Client : StoreKept(q))
<1> SUFFICES ASSUME Base, StoreOrder, [Next]_vars, part' \in {"ntp", "qos"} \/ part \in {"ntp", "qos"}
             PROVE  StoreOrder' /\ \A q \in Client : StoreKept(q)
  BY DEF StoreOrder
<1>0. part \in {"ntp", "qos"}
  BY NextBase
<1>1. CASE UNCHANGED vars
  <2>1. \A p \in Client : Unmet(p)' <=> Unmet(p)
    BY <1>1 DEF vars, Busy, Unmet
  <2>2. \A q \in Client : StoreKept(q)
    BY <1>1 DEF vars, StoreKept, Answered, Busy
  <2> QED BY <1>1, <2>1, <2>2 DEF vars, StoreOrder
<1>2. CASE Restart \/ Reboot
  <2>1. req' = Started(part, stored)
    BY <1>2 DEF Restart, Reboot, Ended
  <2>2. \A q \in Client : req'[q].ans = None
    BY <2>1, ServiceAssumption DEF Started, Proc, Idle
  <2> QED BY <2>2 DEF StoreOrder, Unmet, Busy, StoreKept, Answered, None
<1>3. CASE Next /\ ~(Restart \/ Reboot)
  <2>1. PICK p \in Proc :
          \/ Persist(p) \/ Restore(p) \/ Load(p) \/ Fault(p) \/ PassedOver(p)
          \/ Publish(p) \/ RestoreRevision(p)
          \/ part = "ntp" /\ ClockNext(p)
          \/ part = "qos" /\ QosNext(p)
    BY <1>0, <1>3 DEF Next, Family, App
  <2>2. \/ Persist(p) \/ Restore(p)
        \/ Load(p) \/ Fault(p) \/ PassedOver(p) \/ Publish(p)
        \/ InstallClock(p) \/ StopClock(p) \/ RestartClock(p)
        \/ Clean(p) \/ Shape(p) \/ ShapeFails(p)
        \/ RestoreRevision(p)
        \/ part = "ntp" /\ UpdateNtp(p)
        \/ part = "qos" /\ (PutConfig(p) \/ ApplyQos(p))
    BY <2>1 DEF ClockNext, QosNext
  <2> QED BY <2>2, <1>0, StoreSaves, StoreRestores, StoreSteps, StoreRequests
<1> QED BY <1>1, <1>2, <1>3

\* A request that fails alone has left the configuration as it was, or is a deletion that
\* stands.
LEMMA StoreUnchanged == Base /\ StoreOrder /\ NetOrder /\ [Next]_vars => KeepsStore
<1> SUFFICES ASSUME Base, StoreOrder, NetOrder, [Next]_vars, NEW p \in Client,
                    part \in {"ntp", "qos"} \/ "links" \in req[p].units,
                    Answered(p, "error", {"failed", "silent"})
             PROVE  /\ stored' = req[p].prev \/ (Deleted(p) /\ stored' = stored)
                    /\ past \cap {"met", "restored"} # {} \/ cache' = stored'.interfaces
  BY DEF KeepsStore
<1>0. p \in Proc /\ req[p] \in Requests(part) /\ Base' /\ part' = part
  BY NextBase DEF Base, Served, Proc
<1>1. CASE part \in {"ntp", "qos"}
  <2>1. stored' = req[p].prev
    BY <1>1, StoreOrderKept DEF StoreKept
  <2>2. cache' = {} /\ stored'["interfaces"] = {}
    BY <1>0, <1>1 DEF Base, World, Lists, Configs, Bare
  <2> QED BY <2>1, <2>2
<1>2. CASE part \notin {"ntp", "qos"}
  <2>1. part = "net"
    BY <1>0, <1>2 DEF Requests, Units
  <2> QED BY <2>1, <1>2, NetOrderKept DEF Kept
<1> QED BY <1>1, <1>2

-----------------------------------------------------------------------------
(* Then the servers.  As long as no two requests meet, what is at work hands its engine *)
(* the section that is on disk; and a file that is started was written, and accepted.   *)

\* The startup switches IPv6 first; what else can fail in it belongs to the resolver.
Afterwards(s) ==
  \/ s.on = "unbound"
  \/ s.on = "store" /\ s.do = "read"
  \/ s.on = "nft" /\ s.do = "refresh"
StartsUp(q) == \A n \in 1..Len(q) : Afterwards(q[n]) \/ (n = 1 /\ q[n].on = "ipv6")

\* What request r of p has before it, with the file c of the resolver and the
\* configuration k.
Serving(p, r, c, k) ==
  LET h == Head(r.todo)
  IN  /\ r.undo = <<>> /\ Linked(r.todo)
      /\ (p # Daemon /\ h.do = "save" /\ "dns" \in h.of) \/ r.view["dns"] = k["dns"]
      /\ h.do = "check" => c # {}
      /\ h.do = "start" => c # {} /\ (Anchor => Accepted(c))
      /\ p = Daemon => StartsUp(r.todo)

DnsOrder ==
  part = "dns" /\ "met" \notin past =>
    /\ Lone
    /\ \A p \in Proc : Busy(p) => Serving(p, req[p], file["unbound"], stored)

LEMMA LinkedTails ==
  ASSUME NEW q \in Plans, q # <<>>
  PROVE  /\ Linked(q) =>
              /\ Linked(Tail(q))
              /\ Head(q).do \in {"install", "check", "start"} => Head(q).on = "unbound"
              /\ Tail(q) # <<>> => /\ Head(Tail(q)).do = "check" => Head(q).do = "install"
                                   /\ Head(Tail(q)).do = "start" => Head(q).do = "check"
         /\ StartsUp(q) => /\ StartsUp(Tail(q))
                           /\ Afterwards(Head(q)) \/ Head(q).on = "ipv6"
<1> DEFINE t == Tail(q)
<1>1. /\ Len(q) \in Nat \ {0} /\ Head(q) = q[1] /\ t \in Seq(Steps) /\ Len(t) = Len(q) - 1
      /\ \A n \in 1..(Len(q) - 1) : t[n] = q[n + 1]
  BY HeadTailProperties, LenProperties, EmptySeq DEF Plans
<1> HIDE DEF t
<1>2. 1 \in 1..Len(q) /\ Len(t) = Len(q) - 1 /\ Len(q) \in Nat
      /\ \A n \in 1..Len(t) : n + 1 \in 1..Len(q) /\ t[n] = q[n + 1]
  BY <1>1
<1>3. t # <<>> => Head(t) = t[1] /\ 1 \in 1..Len(t)
  BY <1>1, HeadTailProperties, EmptySeq, LenProperties
<1>4. ASSUME Linked(q)
      PROVE  /\ Linked(t) /\ (Head(q).do \in {"install", "check", "start"} => Head(q).on = "unbound")
             /\ t # <<>> => /\ Head(t).do = "check" => Head(q).do = "install"
                            /\ Head(t).do = "start" => Head(q).do = "check"
  <2>1. ASSUME NEW n \in 1..Len(t)
        PROVE  /\ t[n].do \in {"install", "check", "start"} => t[n].on = "unbound"
               /\ t[n].do = "check" => q[n].do = "install"
               /\ t[n].do = "start" => q[n].do = "check"
    <3>1. n + 1 \in 1..Len(q) /\ t[n] = q[n + 1] /\ (n + 1) - 1 = n /\ n + 1 # 1
      BY <1>2
    <3> QED BY <3>1, <1>4 DEF Linked
  <2>2. \A n \in 1..Len(t) : n = 1 \/ t[n - 1] = q[n]
    <3> SUFFICES ASSUME NEW n \in 1..Len(t), n # 1 PROVE t[n - 1] = q[n]
      OBVIOUS
    <3>1. n - 1 \in 1..Len(t) /\ (n - 1) + 1 = n
      BY <1>2
    <3> QED BY <3>1, <1>2
  <2>3. Linked(t)
    BY <2>1, <2>2 DEF Linked
  <2>4. Head(q).do \in {"install", "check", "start"} => Head(q).on = "unbound"
    BY <1>1, <1>2, <1>4 DEF Linked
  <2> QED BY <2>1, <2>3, <2>4, <1>1, <1>3
<1>5. ASSUME StartsUp(q) PROVE StartsUp(t) /\ (Afterwards(Head(q)) \/ Head(q).on = "ipv6")
  <2>1. \A n \in 1..Len(t) : Afterwards(t[n])
    <3> SUFFICES ASSUME NEW n \in 1..Len(t) PROVE Afterwards(t[n])
      OBVIOUS
    <3>1. n + 1 \in 1..Len(q) /\ t[n] = q[n + 1] /\ n + 1 # 1
      BY <1>2
    <3> QED BY <3>1, <1>5 DEF StartsUp
  <2>2. Afterwards(Head(q)) \/ Head(q).on = "ipv6"
    BY <1>1, <1>2, <1>5 DEF StartsUp
  <2> QED BY <2>1, <2>2 DEF StartsUp
<1> QED BY <1>4, <1>5 DEF t

\* The resolver is passed over.
LEMMA LinkedElsewhere ==
  ASSUME NEW q \in Plans, Linked(q), NEW e, e = Elsewhere(q, "unbound")
  PROVE  /\ e \in Plans /\ Linked(e)
         /\ e # <<>> => Head(e).do \notin {"install", "check", "start"}
         /\ q # <<>> /\ Head(q).on = "unbound" /\ StartsUp(q) => StartsUp(e)
<1>1. /\ e \in Plans
      /\ \A n \in 1..Len(e) : \E m \in 1..Len(q) : e[n] = q[m] /\ q[m].on \notin Together("unbound")
  BY ElsewhereSteps
<1>2. Together("unbound") = {"unbound"}
  BY DEF Together, Clock
<1>3. \A n \in 1..Len(e) : e[n].do \notin {"install", "check", "start"}
  BY <1>1, <1>2 DEF Linked
<1>4. e # <<>> => Head(e) = e[1] /\ 1 \in 1..Len(e)
  BY <1>1, HeadTailProperties, EmptySeq, LenProperties DEF Plans
<1>5. ASSUME q # <<>>, Head(q).on = "unbound", StartsUp(q) PROVE StartsUp(e)
  <2>1. Head(q) = q[1]
    BY <1>5, HeadTailProperties DEF Plans
  <2> SUFFICES ASSUME NEW n \in 1..Len(e) PROVE Afterwards(e[n])
    BY DEF StartsUp
  <2>2. PICK m \in 1..Len(q) : e[n] = q[m] /\ q[m].on # "unbound"
    BY <1>1, <1>2
  <2>3. m # 1
    BY <2>1, <2>2, <1>5
  <2> QED BY <2>2, <2>3, <1>5 DEF StartsUp
<1> QED BY <1>1, <1>3, <1>4, <1>5 DEF Linked

\* The startup goes on without IPv6.
LEMMA FirstElsewhere ==
  ASSUME NEW q \in Plans, q # <<>>, StartsUp(q), Head(q).on = "ipv6"
  PROVE  Elsewhere(q, "ipv6") = Tail(q)
<1> DEFINE own == {n \in 1..Len(q) : q[n].on \in Together("ipv6")}
<1>1. Together("ipv6") = {"ipv6"}
  BY DEF Together, Clock
<1>2. Head(q) = q[1] /\ Len(q) \in Nat \ {0} /\ q \in Seq(Steps)
  BY HeadTailProperties, LenProperties, EmptySeq DEF Plans
<1>3. own = {1}
  <2>1. 1 \in own
    BY <1>1, <1>2
  <2>2. ASSUME NEW n \in own PROVE n = 1
    <3>1. n \in 1..Len(q) /\ q[n].on = "ipv6"
      BY <1>1
    <3> QED BY <3>1 DEF StartsUp, Afterwards
  <2> QED BY <2>1, <2>2
<1>4. Min(own) = 1 /\ Max(own) = 1
  <2>1. own \in SUBSET (1..Len(q)) /\ own # {}
    BY <1>3
  <2>2. Min(own) \in own /\ Max(own) \in own
    <3> HIDE DEF own
    <3> QED BY <2>1, <1>2, LeastGreatest
  <2> HIDE DEF own
  <2> QED BY <2>2, <1>3
<1>5. Elsewhere(q, "ipv6") = SubSeq(q, 1, Min(own) - 1) \o SubSeq(q, Max(own) + 1, Len(q))
  <2>1. own # {}
    BY <1>3
  <2> QED BY <2>1 DEF Elsewhere
<1> HIDE DEF own
<1>6. Elsewhere(q, "ipv6") = SubSeq(q, 1, 0) \o SubSeq(q, 2, Len(q))
  BY <1>4, <1>5
<1>7. SubSeq(q, 1, 0) = <<>> /\ SubSeq(q, 2, Len(q)) = Tail(q) /\ Tail(q) \in Seq(Steps)
  BY <1>2, SubSeqEmpty, TailIsSubSeq, HeadTailProperties
<1> QED BY <1>6, <1>7, ConcatEmptySeq

\* p, which is alone, goes on as x.
LEMMA DnsMoves ==
  ASSUME Base, Lone, NEW p \in Proc, Busy(p), NEW x \in Requests(part), x.ans = "busy",
         Alike(x, req[p]), Become(p, x),
         x.todo # <<>> => Serving(p, x, file'["unbound"], stored')
  PROVE  DnsOrder'
<1>1. \A q \in Proc : Busy(q)' => q = p /\ req'[p] = x /\ x.todo # <<>>
  BY Alone
<1> QED BY <1>1 DEF DnsOrder, Lone

\* A step is done: what it was to see to has been seen to.
LEMMA DnsGoes ==
  ASSUME Base, Lone, NEW p \in Proc, Busy(p), Serving(p, req[p], file["unbound"], stored),
         NEW x \in Requests(part), x.ans = "busy", Alike(x, req[p]), Become(p, x),
         x.todo = Tail(req[p].todo), x.undo = req[p].undo, x.view["dns"] = stored'["dns"],
         LET h == Head(req[p].todo)
             c == file'["unbound"]
         IN  h.do \in {"install", "check"} =>
               c # {} /\ (h.do = "check" => (Anchor => Accepted(c)))
  PROVE  DnsOrder'
<1>1. req[p].todo \in Plans /\ req[p].todo # <<>>
  BY AtWork
<1>2. ASSUME x.todo # <<>> PROVE Serving(p, x, file'["unbound"], stored')
  <2>1. /\ Linked(x.todo)
        /\ Head(x.todo).do = "check" => Head(req[p].todo).do = "install"
        /\ Head(x.todo).do = "start" => Head(req[p].todo).do = "check"
    BY <1>1, <1>2, LinkedTails DEF Serving
  <2>2. p = Daemon => StartsUp(x.todo)
    BY <1>1, LinkedTails DEF Serving
  <2> QED BY <2>1, <2>2 DEF Serving
<1> QED BY <1>2, DnsMoves

\* The steps of the resolver are left out.
LEMMA DnsSkips ==
  ASSUME Base, Lone, NEW p \in Proc, Busy(p), Serving(p, req[p], file["unbound"], stored),
         NEW q \in {req[p].todo, Tail(req[p].todo)},
         NEW x \in Requests(part), x.ans = "busy", Alike(x, req[p]), Become(p, x),
         x.todo = Elsewhere(q, "unbound"), x.undo = req[p].undo, x.view["dns"] = stored'["dns"],
         p = Daemon => q = req[p].todo /\ Head(q).on = "unbound"
  PROVE  DnsOrder'
<1>1. req[p].todo \in Plans /\ req[p].todo # <<>>
  BY AtWork
<1>2. q \in Plans /\ Linked(q)
  BY <1>1, LinkedTails, TailTyped DEF Serving
<1>3. /\ Linked(x.todo)
      /\ x.todo # <<>> => Head(x.todo).do \notin {"install", "check", "start"}
      /\ p = Daemon => StartsUp(x.todo)
  <2>1. p = Daemon => q # <<>> /\ Head(q).on = "unbound" /\ StartsUp(q)
    BY <1>1 DEF Serving
  <2> QED BY <1>2, <2>1, LinkedElsewhere
<1>4. x.todo # <<>> => Serving(p, x, file'["unbound"], stored')
  BY <1>3 DEF Serving
<1> QED BY <1>4, DnsMoves

\* A step fails.
LEMMA DnsFails ==
  ASSUME Base, Lone, NEW p \in Proc, Busy(p), Serving(p, req[p], file["unbound"], stored),
         Failed(p), stored' = stored, Head(req[p].todo).do \notin {"read", "refresh"}
  PROVE  DnsOrder'
<1> DEFINE n == IF "failed" \in req[p].notes THEN "again" ELSE "failed"
           h == Head(req[p].todo)
<1>1. PICK x \in Requests(part) :
        /\ Become(p, x) /\ x.ans = "busy" /\ Same(x, req[p])
        /\ x.notes = req[p].notes \union {n}
        /\ p # Daemon => /\ x.undo = <<>>
                         /\ x.todo = IF h.do \in {"save", "drop", "consult"} THEN <<>> ELSE req[p].undo
        /\ p = Daemon => x.undo = req[p].undo /\ x.todo = Elsewhere(req[p].todo, h.on)
  BY Failing DEF Base
<1>2. /\ Alike(x, req[p]) /\ (p = Daemon => x.view["dns"] = stored'["dns"])
      /\ req[p].undo = <<>> /\ req[p].todo \in Plans /\ req[p].todo # <<>>
  BY <1>1, AtWork DEF Same, Alike, Serving
<1>3. CASE p # Daemon
  <2>1. x.todo = <<>>
    BY <1>1, <1>2, <1>3
  <2> QED BY <2>1, <1>1, <1>2, DnsMoves
<1>4. CASE p = Daemon
  <2>1. /\ StartsUp(req[p].todo) /\ x.undo = <<>> /\ x.todo = Elsewhere(req[p].todo, h.on)
        /\ x.view["dns"] = stored'["dns"]
    BY <1>1, <1>2, <1>4 DEF Serving
  <2>2. h.on \in {"unbound", "ipv6"}
    BY <2>1, <1>2, LinkedTails DEF Afterwards
  <2>3. CASE h.on = "unbound"
    BY <2>1, <2>3, <1>1, <1>2, DnsSkips
  <2>4. CASE h.on = "ipv6"
    <3>1. x.todo = Tail(req[p].todo)
      BY <2>1, <2>4, <1>2, FirstElsewhere
    <3>2. h.do \notin {"install", "check", "start"}
      BY <2>4, <1>2, LinkedTails DEF Serving
    <3> QED BY <2>1, <3>1, <3>2, <1>1, <1>2, DnsGoes
  <2> QED BY <2>2, <2>3, <2>4
<1> QED BY <1>3, <1>4

LEMMA DnsAdvances ==
  ASSUME Base, Lone, NEW p \in Proc, Busy(p), Serving(p, req[p], file["unbound"], stored),
         Advance(p), req[p].view["dns"] = stored'["dns"],
         LET h == Head(req[p].todo)
             c == file'["unbound"]
         IN  h.do \in {"install", "check"} =>
               c # {} /\ (h.do = "check" => (Anchor => Accepted(c)))
  PROVE  DnsOrder'
<1> DEFINE x == Past(req[p])
<1>1. /\ x \in Requests(part) /\ x.ans = "busy" /\ x.todo = Tail(req[p].todo)
      /\ x.undo = req[p].undo /\ x.view = req[p].view /\ Alike(x, req[p])
  BY AtWork, Going DEF Same, Alike
<1>2. Become(p, x)
  BY DEF Advance
<1> HIDE DEF x
<1> QED BY <1>1, <1>2, DnsGoes

LEMMA DnsOrderGeneric ==
  ASSUME Base, DnsOrder, NEW p \in Proc, "met" \notin past', part = "dns",
         \/ Persist(p) \/ Restore(p) \/ Load(p) \/ Fault(p) \/ PassedOver(p) \/ Publish(p)
  PROVE  DnsOrder'
<1> DEFINE h == Head(req[p].todo)
<1>1. Busy(p) /\ past' = past
  BY DEF Persist, Restore, Load, Fault, PassedOver, Publish, Set, At, Advance, Failed, Become
<1>2. /\ Lone /\ Serving(p, req[p], file["unbound"], stored)
      /\ h.do # "save" => req[p].view["dns"] = stored["dns"]
      /\ "dns" \in Section
  BY <1>1 DEF DnsOrder, Serving, Section
<1>3. CASE Persist(p)
  <2>1. /\ Advance(p) /\ h.do = "save"
        /\ stored' = [s \in Section |-> IF s \in Of(p) THEN req[p].view[s] ELSE stored[s]]
    BY <1>3 DEF Persist, At
  <2>2. "dns" \in Of(p) \/ req[p].view["dns"] = stored["dns"]
    BY <1>2 DEF Serving, Of
  <2>3. stored'["dns"] = req[p].view["dns"]
    BY <2>1, <2>2, <1>2
  <2> QED BY <2>1, <2>3, <1>1, <1>2, DnsAdvances
<1>4. CASE Restore(p)
  <2> DEFINE back(k) == [s \in Section |-> IF s \in Of(p) THEN req[p].prev[s] ELSE k[s]]
             v == back(Past(req[p]).view)
             x == [Past(req[p]) EXCEPT !.view = v]
  <2>1. h.do = "restore" /\ Become(p, x) /\ stored' = back(stored)
    BY <1>4 DEF Restore, At
  <2>2. /\ Past(req[p]) \in Requests(part) /\ Past(req[p]).ans = "busy"
        /\ Past(req[p]).todo = Tail(req[p].todo) /\ Past(req[p]).undo = req[p].undo
        /\ Past(req[p]).view = req[p].view /\ Past(req[p]).notes = req[p].notes
    BY <1>1, AtWork, Going DEF Same
  <2>3. v \in Configs(part) /\ v["dns"] = stored'["dns"]
    <3>1. \A k \in Configs(part) : back(k) \in Configs(part)
      <4>1. req[p].prev \in Configs(part)
        BY <1>1, AtWork
      <4> QED BY <4>1, ConfigMix
    <3>2. v = back(req[p].view) /\ req[p].view \in Configs(part)
      BY <2>2, <1>1, AtWork
    <3>3. back(req[p].view)["dns"] = back(stored)["dns"]
      BY <2>1, <1>2
    <3> HIDE DEF back, v
    <3> QED BY <2>1, <3>1, <3>2, <3>3
  <2> HIDE DEF back, v
  <2>4. /\ x \in Requests(part) /\ x.ans = "busy" /\ x.todo = Tail(req[p].todo)
        /\ x.undo = req[p].undo /\ x.view = v /\ Alike(x, req[p])
    BY <2>2, <2>3 DEF Requests, Alike
  <2> HIDE DEF x
  <2> QED BY <2>1, <2>3, <2>4, <1>1, <1>2, DnsGoes
<1>5. CASE Load(p)
  <2> DEFINE v == [s \in Section |-> IF s \in Of(p) THEN stored[s] ELSE Past(req[p]).view[s]]
             x == [Past(req[p]) EXCEPT !.view = v]
  <2>1. h.do = "read" /\ Become(p, x) /\ stored' = stored
    BY <1>5 DEF Load, At, system
  <2>2. /\ Past(req[p]) \in Requests(part) /\ Past(req[p]).ans = "busy"
        /\ Past(req[p]).todo = Tail(req[p].todo) /\ Past(req[p]).undo = req[p].undo
        /\ Past(req[p]).view = req[p].view /\ Past(req[p]).notes = req[p].notes
    BY <1>1, AtWork, Going DEF Same
  <2>3. v \in Configs(part) /\ v["dns"] = stored'["dns"]
    <3>1. v \in Configs(part)
      BY <2>2, ConfigMix DEF Base, World, Requests
    <3>2. v["dns"] = stored'["dns"]
      BY <2>1, <2>2, <1>2
    <3> QED BY <3>1, <3>2
  <2> HIDE DEF v
  <2>4. /\ x \in Requests(part) /\ x.ans = "busy" /\ x.todo = Tail(req[p].todo)
        /\ x.undo = req[p].undo /\ x.view = v /\ Alike(x, req[p])
    BY <2>2, <2>3 DEF Requests, Alike
  <2> HIDE DEF x
  <2> QED BY <2>1, <2>3, <2>4, <1>1, <1>2, DnsGoes
<1>6. CASE Fault(p)
  <2>1. Failed(p) /\ stored' = stored /\ h.do \notin {"read", "refresh"}
    BY <1>6 DEF Fault, Tolerated, Harmless
  <2> QED BY <2>1, <1>1, <1>2, DnsFails
<1>7. CASE PassedOver(p)
  <2> DEFINE y == Past(req[p])
             x == Noted(y, "silent")
  <2>1. Become(p, x) /\ stored' = stored /\ h.do \notin {"save", "install", "check"}
    BY <1>7 DEF PassedOver, system, Tolerated
  <2>2. /\ y \in Requests(part) /\ y.ans = "busy" /\ y.todo = Tail(req[p].todo)
        /\ y.undo = req[p].undo /\ y.view = req[p].view /\ y.notes = req[p].notes
    BY <1>1, AtWork, Going DEF Same
  <2> HIDE DEF y
  <2>3. /\ x \in Requests(part) /\ x.ans = "busy" /\ x.todo = Tail(req[p].todo)
        /\ x.undo = req[p].undo /\ x.view = req[p].view /\ Alike(x, req[p])
    BY <2>2, Noting DEF Note, Same, Alike
  <2> HIDE DEF x
  <2> QED BY <2>1, <2>3, <1>1, <1>2, DnsGoes
<1>8. CASE Publish(p)
  <2>1. Advance(p) /\ stored' = stored /\ h.do \notin {"save", "install", "check"}
    BY <1>8 DEF Publish, Set, At
  <2> QED BY <2>1, <1>1, <1>2, DnsAdvances
<1> QED BY <1>3, <1>4, <1>5, <1>6, <1>7, <1>8

LEMMA DnsOrderSteps ==
  ASSUME Base, DnsOrder, NEW p \in Proc, "met" \notin past', part = "dns",
         \/ StopUnbound(p) \/ InstallUnbound(p) \/ CheckUnbound(p) \/ StartUnbound(p)
         \/ LoadIfSet(p) \/ ApplyIpv6(p) \/ ApplySsh(p)
  PROVE  DnsOrder'
<1> DEFINE h == Head(req[p].todo)
<1>1. Busy(p) /\ past' = past /\ stored' = stored /\ h.do \notin {"save", "read", "refresh"}
  BY DEF StopUnbound, InstallUnbound, CheckUnbound, StartUnbound, LoadIfSet, ApplyIpv6, ApplySsh,
         Install, Start, Set, At, Advance, Failed, Become, system
<1>2. /\ Lone /\ Serving(p, req[p], file["unbound"], stored)
      /\ req[p].view["dns"] = stored["dns"]
      /\ "dns" \in Section
  BY <1>1 DEF DnsOrder, Serving, Section
<1>3. CASE StopUnbound(p)
  <2> DEFINE y == Skip(req[p], "unbound")
  <2>1. /\ Become(p, y) \/ Become(p, Noted(y, "silent"))
        /\ h.on = "unbound"
    BY <1>3 DEF StopUnbound, At
  <2>2. /\ y \in Requests(part) /\ y.ans = "busy" /\ y.todo = Elsewhere(req[p].todo, "unbound")
        /\ y.undo = req[p].undo /\ y.view = req[p].view /\ y.notes = req[p].notes
    BY <1>1, AtWork, Passing DEF Same
  <2> HIDE DEF y
  <2>3. /\ Noted(y, "silent") \in Requests(part) /\ Noted(y, "silent").ans = "busy"
        /\ Noted(y, "silent").todo = Elsewhere(req[p].todo, "unbound")
        /\ Noted(y, "silent").undo = req[p].undo /\ Noted(y, "silent").view = req[p].view
        /\ Noted(y, "silent").notes = req[p].notes \union {"silent"}
    BY <2>2, Noting DEF Note, Same
  <2>4. PICK x \in Requests(part) :
          /\ Become(p, x) /\ x.ans = "busy" /\ x.todo = Elsewhere(req[p].todo, "unbound")
          /\ x.undo = req[p].undo /\ x.view = req[p].view /\ Alike(x, req[p])
    BY <2>1, <2>2, <2>3 DEF Alike
  <2> QED BY <2>1, <2>4, <1>1, <1>2, DnsSkips
<1>4. CASE InstallUnbound(p)
  <2>1. /\ Advance(p) /\ h.do = "install" /\ Resolver(req[p].view) # {}
        /\ file' = [file EXCEPT !["unbound"] = Resolver(req[p].view)]
    BY <1>4 DEF InstallUnbound, Install, At
  <2>2. file'["unbound"] # {}
    BY <2>1, UnitNames DEF Base, World, Contents
  <2> QED BY <2>1, <2>2, <1>1, <1>2, DnsAdvances
<1>5. CASE CheckUnbound(p)
  <2>1. /\ h.do = "check" /\ file' = file
        /\ \/ Advance(p) /\ (Anchor => Accepted(file["unbound"]))
           \/ Failed(p)
    BY <1>5 DEF CheckUnbound, At, system
  <2>2. file["unbound"] # {}
    BY <2>1, <1>2 DEF Serving
  <2> QED BY <2>1, <2>2, <1>1, <1>2, DnsAdvances, DnsFails
<1>6. CASE StartUnbound(p)
  <2>1. h.do = "start" /\ (Advance(p) \/ Failed(p))
    BY <1>6 DEF StartUnbound, Start, At
  <2> QED BY <2>1, <1>1, <1>2, DnsAdvances, DnsFails
<1>7. CASE LoadIfSet(p)
  <2> DEFINE v == [s \in Section |-> IF s \in Of(p) THEN stored[s] ELSE req[p].view[s]]
             y == [Past(req[p]) EXCEPT !.view = v]
             z == Skip(y, "unbound")
  <2>1. /\ h.do = "readset" /\ h.on = "store"
        /\ Become(p, y) \/ Become(p, Noted(z, "skipped"))
    BY <1>7 DEF LoadIfSet, At
  <2>2. /\ Past(req[p]) \in Requests(part) /\ Past(req[p]).ans = "busy"
        /\ Past(req[p]).todo = Tail(req[p].todo) /\ Past(req[p]).undo = req[p].undo
        /\ Past(req[p]).notes = req[p].notes
    BY <1>1, AtWork, Going DEF Same
  <2>3. v \in Configs(part) /\ v["dns"] = stored["dns"]
    <3>1. v \in Configs(part)
      BY <1>1, AtWork, ConfigMix DEF Base, World
    <3> QED BY <3>1, <1>2
  <2> HIDE DEF v
  <2>4. /\ y \in Requests(part) /\ y.ans = "busy" /\ y.todo = Tail(req[p].todo)
        /\ y.undo = req[p].undo /\ y.view = v /\ y.notes = req[p].notes /\ Alike(y, req[p])
    BY <2>2, <2>3 DEF Requests, Alike
  <2> HIDE DEF y
  <2>5. CASE Become(p, y)
    BY <2>1, <2>3, <2>4, <2>5, <1>1, <1>2, DnsGoes
  <2>6. CASE Become(p, Noted(z, "skipped"))
    <3>1. /\ z \in Requests(part) /\ z.ans = "busy" /\ z.todo = Elsewhere(Tail(req[p].todo), "unbound")
          /\ z.undo = req[p].undo /\ z.view = v /\ z.notes = req[p].notes
      BY <2>4, Passing DEF Same
    <3> HIDE DEF z
    <3> DEFINE x == Noted(z, "skipped")
    <3>2. /\ x \in Requests(part) /\ x.ans = "busy" /\ x.todo = Elsewhere(Tail(req[p].todo), "unbound")
          /\ x.undo = req[p].undo /\ x.view = v /\ Alike(x, req[p])
      BY <3>1, Noting DEF Note, Same, Alike
    <3>3. p # Daemon
      <4>1. p = Daemon => StartsUp(req[p].todo)
        BY <1>2 DEF Serving
      <4>2. req[p].todo \in Plans /\ req[p].todo # <<>>
        BY <1>1, AtWork
      <4> QED BY <4>1, <4>2, <2>1, LinkedTails DEF Afterwards
    <3>4. Become(p, x)
      BY <2>6
    <3> HIDE DEF x
    <3> QED BY <3>2, <3>3, <3>4, <2>3, <1>1, <1>2, DnsSkips
  <2> QED BY <2>1, <2>5, <2>6
<1>8. CASE ApplyIpv6(p) \/ ApplySsh(p)
  <2>1. Advance(p) /\ h.do = "set"
    BY <1>8 DEF ApplyIpv6, ApplySsh, Set, At
  <2> QED BY <2>1, <1>1, <1>2, DnsAdvances
<1> QED BY <1>3, <1>4, <1>5, <1>6, <1>7, <1>8

\* Requests, and what the startup has to do.
LEMMA DnsBegins ==
  ASSUME Base, DnsOrder, part = "dns", "met" \notin past', NEW p \in Proc,
         NEW r \in Requests(part), r.ans = "busy", r.todo # <<>>, Begin(p, r),
         r.undo = <<>>, Linked(r.todo), Head(r.todo).do = "save",
         "dns" \in Head(r.todo).of \/ r.view["dns"] = stored["dns"]
  PROVE  DnsOrder'
<1>1. Lone /\ Base
  BY DEF DnsOrder, Begin
<1>2. /\ UNCHANGED <<part, system>> /\ p # Daemon /\ \A q \in Proc : Busy(q)' => q = p
      /\ req'[p] = [r EXCEPT !.notes = {}]
  BY <1>1, First
<1>3. /\ req'[p].todo = r.todo /\ req'[p].undo = <<>> /\ req'[p].view = r.view
  BY <1>2 DEF Requests
<1>4. Serving(p, req'[p], file'["unbound"], stored')
  BY <1>2, <1>3 DEF Serving, system
<1> QED BY <1>2, <1>4 DEF DnsOrder, Lone

LEMMA DnsOrderRequests ==
  ASSUME Base, DnsOrder, part = "dns", "met" \notin past', NEW p \in Proc,
         \/ RestoreRevision(p)
         \/ UpdateDns(p) \/ CreateBlocklist(p) \/ DeleteBlocklist(p)
         \/ CreateOverride(p) \/ DeleteOverride(p) \/ UpdateDot(p) \/ UpdateSettings(p)
  PROVE  DnsOrder'
<1>1. CASE RestoreRevision(p)
  <2> DEFINE r == [Request(Whole, Blank, {}) EXCEPT !.item = Revision]
             s == Step("save", "store", Section)
  <2>1. Begin(p, r)
    BY <1>1 DEF RestoreRevision, Whole
  <2>2. s \in Steps /\ s.do = "save" /\ s.of = Section
    <3>1. s \in Steps
      BY StepTyped, Verbs
    <3> QED BY <3>1, Words
  <2>3. /\ Idle \in Requests(part) /\ stored \in Configs(part) /\ Blank \in Configs(part)
    BY IdleTyped, BlankConfig DEF Base, World
  <2> HIDE DEF s
  <2>4. <<s>> \in Plans /\ <<s>> # <<>> /\ Head(<<s>>) = s /\ Linked(<<s>>)
    BY <2>2 DEF Plans, Linked
  <2>5. Whole = <<s>>
    BY DEF Whole, s
  <2>6. /\ r \in Requests(part) /\ r.ans = "busy" /\ r.todo = <<s>> /\ r.undo = <<>>
    BY <2>3, <2>4, <2>5 DEF Request, Requests, Idle
  <2>7. "dns" \in Section
    BY DEF Section
  <2> HIDE DEF r
  <2> QED BY <2>1, <2>2, <2>4, <2>6, <2>7, DnsBegins
<1>2. CASE \/ UpdateDns(p) \/ CreateBlocklist(p) \/ DeleteBlocklist(p)
           \/ CreateOverride(p) \/ DeleteOverride(p) \/ UpdateDot(p) \/ UpdateSettings(p)
  <2>1. PICK q \in Plans, k \in Configs(part), U \in SUBSET Units(part), h \in Steps :
          /\ Begin(p, Request(q, k, U)) /\ Orderly(q, h) /\ h.do = "save"
          /\ "dns" \in h.of \/ k["dns"] = stored["dns"]
    BY <1>2, DnsRequests DEF DnsAsked
  <2> DEFINE r == Request(q, k, U)
  <2>2. q # <<>> /\ Linked(q) /\ Head(q) = h
    BY <2>1 DEF Orderly
  <2>3. Asks(r, q, k, U, None, <<>>) /\ <<>> \in Plans
    BY DEF Asks, Plans
  <2>4. Begin(p, r)
    BY <2>1
  <2> HIDE DEF r
  <2>5. /\ r \in Requests(part) /\ r.ans = "busy" /\ r.todo = q /\ r.undo = <<>> /\ r.view = k
        /\ r.prev = stored /\ r.was = {} /\ r.units = U /\ r.item = None /\ r.notes = {}
    <3>1. Posed(r, q, k, U, None, <<>>)
      BY <2>2, <2>3, Asking
    <3> QED BY <3>1 DEF Posed
  <2> QED BY <2>1, <2>2, <2>4, <2>5, DnsBegins
<1> QED BY <1>1, <1>2

LEMMA StartsUpWith ==
  ASSUME NEW q \in Plans, q # <<>>, StartsUp(q), NEW t \in Plans,
         \A n \in 1..Len(t) : Afterwards(t[n])
  PROVE  StartsUp(q \o t)
<1>1. /\ q \in Seq(Steps) /\ t \in Seq(Steps)
      /\ Len(q \o t) = Len(q) + Len(t) /\ Len(q) \in Nat \ {0} /\ Len(t) \in Nat
      /\ \A n \in 1..(Len(q) + Len(t)) : (q \o t)[n] = IF n <= Len(q) THEN q[n] ELSE t[n - Len(q)]
  BY ConcatProperties, LenProperties, EmptySeq DEF Plans
<1> DEFINE x == q \o t
<1>2. ASSUME NEW n \in 1..Len(x)
      PROVE  Afterwards(x[n]) \/ (n = 1 /\ x[n].on = "ipv6")
  <2>1. CASE n <= Len(q)
    <3>1. x[n] = q[n] /\ n \in 1..Len(q)
      BY <1>1, <2>1
    <3> HIDE DEF x
    <3> QED BY <3>1 DEF StartsUp
  <2>2. CASE n > Len(q)
    <3>1. x[n] = t[n - Len(q)] /\ n - Len(q) \in 1..Len(t)
      BY <1>1, <2>2
    <3> HIDE DEF x
    <3> QED BY <3>1
  <2> QED BY <2>1, <2>2, <1>1
<1> QED BY <1>2 DEF StartsUp

LEMMA DnsStartups == StartsUp(DnsStartup) /\ Linked(DnsStartup) /\ DnsStartup \in Plans
                     /\ Head(DnsStartup).do = "set"
<1> DEFINE a == Plain("set", "ipv6")
           b == Read({"dns", "dot", "overrides"})
           c == Plain("refresh", "nft")
           x == Plain("install", "unbound")
           y == Plain("check", "unbound")
           z == Plain("start", "unbound")
<1>1. /\ a \in Steps /\ b \in Steps /\ c \in Steps /\ x \in Steps /\ y \in Steps /\ z \in Steps
      /\ a.do = "set" /\ a.on = "ipv6" /\ b.do = "read" /\ b.on = "store"
      /\ c.do = "refresh" /\ c.on = "nft"
      /\ x.on = "unbound" /\ y.on = "unbound" /\ z.on = "unbound"
  <2>1. /\ {"set", "refresh", "install", "check", "start"} \subseteq Verb
        /\ {"ipv6", "nft", "unbound"} \subseteq Unit
    BY Verbs
  <2>2. a \in Steps /\ c \in Steps /\ x \in Steps /\ y \in Steps /\ z \in Steps
    BY <2>1, PlainTyped
  <2>3. {"dns", "dot", "overrides"} \in SUBSET Section
    BY DEF Section
  <2>4. b \in Steps
    BY <2>3, StoreTyped
  <2>5. a.do = "set" /\ a.on = "ipv6" /\ c.do = "refresh" /\ c.on = "nft"
    BY Words
  <2>6. x.on = "unbound" /\ y.on = "unbound" /\ z.on = "unbound"
    BY Words
  <2>7. b.do = "read" /\ b.on = "store"
    BY Words DEF Read
  <2> QED BY <2>2, <2>4, <2>5, <2>6, <2>7
<1>2. UnboundSteps = <<x, y, z>> /\ DnsStartup = <<a, b>> \o UnboundSteps \o <<c>>
  BY DEF UnboundSteps, DnsStartup
<1> HIDE DEF a, b, c, x, y, z
<1>3. <<a, b>> \in Plans /\ <<x, y, z>> \in Plans /\ <<c>> \in Plans /\ <<a, b>> # <<>>
  BY <1>1 DEF Plans
<1>4. StartsUp(<<a, b>>)
  <2>1. a.on = "ipv6" /\ Afterwards(b)
    BY <1>1 DEF Afterwards
  <2> QED BY <2>1 DEF StartsUp
<1>5. \A n \in 1..Len(<<x, y, z>>) : Afterwards(<<x, y, z>>[n])
  <2>1. Afterwards(x) /\ Afterwards(y) /\ Afterwards(z)
    BY <1>1 DEF Afterwards
  <2> QED BY <2>1
<1>6. \A n \in 1..Len(<<c>>) : Afterwards(<<c>>[n])
  BY <1>1 DEF Afterwards
<1>7. StartsUp(<<a, b>> \o UnboundSteps)
  BY <1>2, <1>3, <1>4, <1>5, StartsUpWith
<1>8. <<a, b>> \o UnboundSteps \in Plans /\ <<a, b>> \o UnboundSteps # <<>>
  BY <1>2, <1>3, PlanJoin
<1>9. StartsUp(<<a, b>> \o UnboundSteps \o <<c>>)
  BY <1>3, <1>6, <1>7, <1>8, StartsUpWith
<1>10. Prelude(<<a, b>>, a) /\ Epilogue(<<c>>)
  BY <1>1, Preludes
<1>11. Orderly(<<a, b>> \o UnboundSteps \o <<c>>, a)
  BY <1>10, AroundUnbound
<1> QED BY <1>1, <1>2, <1>9, <1>11 DEF Orderly

LEMMA DnsStarted ==
  ASSUME NEW k, NEW c, NEW p \in Proc, Started("dns", k)[p].ans = "busy"
  PROVE  p = Daemon /\ Serving(p, Started("dns", k)[p], c, k)
<1> DEFINE q == StartupSteps("dns", k)
           r == [Idle EXCEPT !.ans = "busy", !.todo = q, !.view = k, !.prev = k]
<1>1. Started("dns", k)[p] = IF p = Daemon /\ q # <<>> THEN r ELSE Idle
  BY DEF Started
<1>2. q = DnsStartup
  BY DEF StartupSteps, Family, App
<1> HIDE DEF q
<1>3. r.todo = q /\ r.undo = <<>> /\ r.view = k /\ Idle.ans # "busy"
  BY DEF Idle, None
<1>4. p = Daemon /\ Started("dns", k)[p] = r
  BY <1>1, <1>3
<1> HIDE DEF r
<1> QED BY <1>2, <1>3, <1>4, DnsStartups DEF Serving

LEMMA DnsOrderKept == Base /\ DnsOrder /\ [Next]_vars => DnsOrder'
<1> SUFFICES ASSUME Base, DnsOrder, [Next]_vars, part' = "dns", "met" \notin past'
             PROVE  DnsOrder'
  BY DEF DnsOrder
<1>0. part = "dns"
  BY NextBase
<1>1. CASE UNCHANGED vars
  <2>1. \A p \in Proc : Busy(p)' <=> Busy(p)
    BY <1>1 DEF vars, Busy
  <2> QED BY <1>1, <2>1 DEF vars, DnsOrder, Lone
<1>2. CASE Restart \/ Reboot
  <2>1. req' = Started("dns", stored) /\ UNCHANGED <<part, stored, file>>
    BY <1>0, <1>2 DEF Restart, Reboot, Ended
  <2>2. \A p \in Proc : Busy(p)' => p = Daemon /\ Serving(p, req'[p], file'["unbound"], stored')
    BY <2>1, DnsStarted DEF Busy
  <2> QED BY <2>2 DEF DnsOrder, Lone
<1>3. CASE Next /\ ~(Restart \/ Reboot)
  <2>1. PICK p \in Proc :
          \/ Persist(p) \/ Restore(p) \/ Load(p) \/ Fault(p) \/ PassedOver(p)
          \/ Publish(p) \/ RestoreRevision(p) \/ DnsNext(p)
    BY <1>0, <1>3 DEF Next, Family, App
  <2> QED BY <2>1, <1>0, DnsOrderGeneric, DnsOrderSteps, DnsOrderRequests DEF DnsNext
<1> QED BY <1>1, <1>2, <1>3

\* Only its own part has a server run.
LEMMA RunsInPart ==
  ASSUME Base, NEW u \in Kea \union {"unbound"}, run[u] # {}
  PROVE  /\ u = "unbound" => part = "dns"
         /\ u # "unbound" => part \in Family /\ u = Server(part)
BY DEF Base, World, Contents, Kea, Family, Server

\* A resolver that is not to run is one that the DNS section switches off.
LEMMA ResolverOff ==
  ASSUME NEW k, NEW l, k["dns"] = l["dns"], Resolver(k) = {}
  PROVE  Resolver(l) = {}
<1>1. ~Has(Dns(k["dns"]), "enabled")
  <2> SUFFICES ASSUME Has(Dns(k["dns"]), "enabled") PROVE FALSE
    OBVIOUS
  <2> DEFINE e == <<"enabled", "on">>
  <2>1. e \in Dns(k["dns"]) /\ e[1] # "set" /\ e[2] # "off"
    BY DEF Has
  <2>2. <<"dns", e[1], e[2]>> \in Entries("dns", Dns(k["dns"]))
    BY <2>1 DEF Entries
  <2> QED BY <2>2 DEF Resolver, If
<1> QED BY <1>1 DEF Resolver, If

\* The resolver keeps running.
LEMMA ResolverKept ==
  ASSUME Base, DnsOrder, NEW p \in Proc, part = "dns", Anchor, "met" \notin past',
         DnsNext(p), run["unbound"] # {}, Resolver(stored') # {}
  PROVE  run'["unbound"] # {}
<1> DEFINE h == Head(req[p].todo)
<1>0. run \in Contents(part) /\ run \in [Unit -> Content]
  BY DEF Base, World, Contents
<1>1. CASE StopUnbound(p)
  <2>1. /\ Busy(p) /\ past' = past /\ stored' = stored /\ h.do = "install"
        /\ Resolver(req[p].view) = {}
    BY <1>1 DEF StopUnbound, At, Become
  <2>2. req[p].view["dns"] = stored["dns"]
    BY <2>1 DEF DnsOrder, Serving
  <2> QED BY <2>1, <2>2, ResolverOff
<1>2. CASE StartUnbound(p)
  <2>1. /\ Busy(p) /\ past' = past /\ h.do = "start"
        /\ run' = [run EXCEPT !["unbound"] = If(Accepted(file["unbound"]), file["unbound"])]
    BY <1>2 DEF StartUnbound, Start, At, Advance, Failed, Become
  <2>2. file["unbound"] # {} /\ Accepted(file["unbound"])
    BY <2>1 DEF DnsOrder, Serving
  <2>3. If(Accepted(file["unbound"]), file["unbound"]) = file["unbound"]
    BY <2>2 DEF If
  <2> QED BY <2>1, <2>2, <2>3, <1>0, UnitNames
<1>3. CASE ApplyIpv6(p) \/ ApplySsh(p)
  <2>1. PICK v \in {"ipv6", "sshd"} : \E c : run' = [run EXCEPT ![v] = c]
    BY <1>3 DEF ApplyIpv6, ApplySsh, Set
  <2> QED BY <2>1, <1>0, UnitNames
<1>4. CASE InstallUnbound(p) \/ CheckUnbound(p) \/ LoadIfSet(p)
  <2>1. run' = run
    BY <1>4 DEF InstallUnbound, Install, CheckUnbound, LoadIfSet, system
  <2> QED BY <2>1
<1>5. CASE \/ UpdateDns(p) \/ CreateBlocklist(p) \/ DeleteBlocklist(p)
           \/ CreateOverride(p) \/ DeleteOverride(p) \/ UpdateDot(p) \/ UpdateSettings(p)
  <2>1. \E r : Begin(p, r)
    BY <1>5, DnsRequests DEF DnsAsked
  <2>2. run' = run
    BY <2>1 DEF Begin, system
  <2> QED BY <2>2
<1> QED BY <1>1, <1>2, <1>3, <1>4, <1>5 DEF DnsNext

\* And so does a DHCP server.
LEMMA ServerKept ==
  ASSUME Base, KeaOrder, NEW p \in Proc, part \in Family, NEW u, u = Server(part),
         "met" \notin past', DhcpNext(p), run[u] # {}, Leases(part, stored') # {}
  PROVE  run'[u] # {}
<1> DEFINE h == Head(req[p].todo)
<1>0. /\ run \in [Unit -> Content] /\ u \in Unit /\ u \in Kea
      /\ \A s \in Family : Server(s) \in Unit /\ (Server(s) = u => s = part)
  BY Families DEF Base, World, Contents, Family, Server
<1>1. ASSUME NEW s \in Family, Disable(p, s) PROVE run'[u] # {}
  <2>1. /\ Busy(p) /\ past' = past /\ stored' = stored /\ h.do = "propose" /\ h.on = Server(s)
        /\ Leases(s, req[p].view) = {}
        /\ run' = [run EXCEPT ![Server(s)] = {}] \/ run' = run
    BY <1>1 DEF Disable, At, Become
  <2>2. CASE s = part
    <3>1. KeaPlanned(p, req[p], part, cand, file, stored)
      BY <2>1 DEF KeaOrder
    <3>2. req[p].view[part] = stored[part]
      BY <2>1, <3>1 DEF KeaPlanned
    <3>3. Leases(part, stored) = Leases(part, req[p].view)
      BY <3>2 DEF Leases
    <3> QED BY <2>1, <2>2, <3>3
  <2>3. CASE s # part
    <3>1. Server(s) # u
      BY <2>3, <1>0
    <3> QED BY <2>1, <3>1, <1>0
  <2> QED BY <2>2, <2>3
<1>2. ASSUME NEW s \in Family, StartKea(p, s) PROVE run'[u] # {}
  <2>1. /\ Busy(p) /\ past' = past /\ h.do = "start"
        /\ run' = [run EXCEPT ![Server(s)] = If(Accepted(file[Server(s)]), file[Server(s)])]
    BY <1>2 DEF StartKea, Start, At, Advance, Failed, Become
  <2>2. CASE s = part
    <3>1. KeaPlanned(p, req[p], part, cand, file, stored) /\ Accepted(file[u])
      BY <2>1, <1>0 DEF KeaOrder
    <3>2. req[p].todo = Kea3(u)
      <4> DEFINE q == req[p].todo
      <4>1. \/ q \in {Kea0(u), Kea1(u), Kea2(u), Kea3(u), Removal(u)}
            \/ q \in {<<Save(part)>> \o Kea0(u), Whole}
        BY <3>1 DEF KeaPlanned
      <4>2. Head(q).do = "start"
        BY <2>1
      <4> HIDE DEF q
      <4>3. /\ Head(Kea0(u)) = Plain("propose", u) /\ Head(Kea1(u)) = Plain("test", u)
            /\ Head(Kea2(u)) = Plain("install", u) /\ Head(Removal(u)) = Plain("remove", u)
            /\ Head(Whole) = Step("save", "store", Section)
            /\ Head(<<Save(part)>> \o Kea0(u)) = Save(part)
        BY KeaTails
      <4>4. q = Kea3(u)
        BY <4>1, <4>2, <4>3, Words
      <4> QED BY <4>4 DEF q
    <3>3. file[u] # {}
      BY <3>1, <3>2 DEF KeaPlanned
    <3>4. If(Accepted(file[u]), file[u]) = file[u]
      BY <3>1 DEF If
    <3> QED BY <2>1, <2>2, <3>3, <3>4, <1>0
  <2>3. CASE s # part
    <3>1. Server(s) # u
      BY <2>3, <1>0
    <3> QED BY <2>1, <3>1, <1>0
  <2> QED BY <2>2, <2>3
<1>3. ASSUME NEW s \in Family,
             RemoveConfig(p, s) \/ Propose(p, s) \/ TestConfig(p, s) \/ InstallKea(p, s)
      PROVE  run'[u] # {}
  <2>1. run' = run
    BY <1>3 DEF RemoveConfig, Propose, TestConfig, InstallKea
  <2> QED BY <2>1
<1>4. CASE \/ UpdateConfig4(p) \/ UpdateInterface4(p) \/ CreateLease4(p) \/ DeleteLease4(p)
           \/ CreateInterfaceLease4(p) \/ DeleteInterfaceLease4(p)
           \/ UpdateConfig6(p) \/ UpdateInterface6(p) \/ CreateLease6(p) \/ DeleteLease6(p)
           \/ CreateInterfaceLease6(p) \/ DeleteInterfaceLease6(p)
  <2>1. \E v \in Value : Apply(p, part, v)
    BY <1>4, DhcpRequests
  <2>2. run' = run
    BY <2>1 DEF Apply, Begin, system
  <2> QED BY <2>2
<1> QED BY <1>1, <1>2, <1>3, <1>4 DEF DhcpNext

LEMMA WantedServers ==
  ASSUME NEW k
  PROVE  /\ Wanted("unbound", k) = Resolver(k)
         /\ Wanted("kea4", k) = Leases("dhcp4", k) /\ Wanted("kea6", k) = Leases("dhcp6", k)
BY DEF Wanted, Wanted4, Wanted6, Clock, App

LEMMA RunsOn == Base /\ KeaOrder /\ DnsOrder /\ [Next]_vars => KeepsRunning
<1> SUFFICES ASSUME Base, KeaOrder, DnsOrder, [Next]_vars, made' = made, "met" \notin past',
                    NEW u \in Kea \union If(Anchor, {"unbound"}), run[u] # {}, Wanted(u, stored') # {}
             PROVE  run'[u] # {}
  BY DEF KeepsRunning
<1>0. u \in Kea \union {"unbound"} /\ (u = "unbound" => Anchor) /\ made \in Budget
      /\ run \in [Unit -> Content] /\ u \in Unit
      /\ [made EXCEPT !.restarts = @ + 1] # made /\ [made EXCEPT !.faults = @ + 1] # made
  <2>1. made \in Budget /\ run \in [Unit -> Content]
    BY DEF Base, World, Contents
  <2>2. u \in Kea \union {"unbound"} /\ (u = "unbound" => Anchor) /\ u \in Unit
    BY UnitNames DEF If, Kea
  <2>3. /\ made.restarts \in Nat /\ [made EXCEPT !.restarts = @ + 1].restarts = made.restarts + 1
        /\ made.faults \in Nat /\ [made EXCEPT !.faults = @ + 1].faults = made.faults + 1
    BY <2>1, ServiceAssumption DEF Budget
  <2>4. made.restarts + 1 # made.restarts /\ made.faults + 1 # made.faults
    BY <2>3
  <2> QED BY <2>1, <2>2, <2>3, <2>4
<1>1. /\ u = "unbound" => part = "dns" /\ Resolver(stored') # {}
      /\ u # "unbound" => part \in Family /\ u = Server(part) /\ Leases(part, stored') # {}
  <2>1. /\ u = "unbound" => part = "dns"
        /\ u # "unbound" => part \in Family /\ u = Server(part)
    BY <1>0, RunsInPart
  <2>2. u = "unbound" => Wanted(u, stored') = Resolver(stored')
    BY WantedServers
  <2>3. u = "kea4" => Wanted(u, stored') = Leases("dhcp4", stored')
    BY WantedServers
  <2>4. u = "kea6" => Wanted(u, stored') = Leases("dhcp6", stored')
    BY WantedServers
  <2> QED BY <2>1, <2>2, <2>3, <2>4 DEF Family, Server
<1>2. CASE UNCHANGED vars
  BY <1>2 DEF vars
<1>3. CASE Restart \/ Reboot
  <2>1. made' = [made EXCEPT !.restarts = @ + 1]
    BY <1>3 DEF Restart, Reboot, Ended
  <2> QED BY <2>1, <1>0
<1>4. CASE Next /\ ~(Restart \/ Reboot)
  <2>1. PICK p \in Proc :
          \/ Persist(p) \/ Restore(p) \/ Load(p) \/ Fault(p) \/ PassedOver(p)
          \/ Publish(p) \/ RestoreRevision(p)
          \/ part = "dns" /\ DnsNext(p)
          \/ part \in Family /\ DhcpNext(p)
    BY <1>1, <1>4 DEF Next, Family, App
  <2>2. CASE Persist(p) \/ Restore(p) \/ Load(p) \/ PassedOver(p) \/ RestoreRevision(p)
    <3>1. run' = run
      BY <2>2 DEF Persist, Restore, Load, PassedOver, RestoreRevision, Begin, system
    <3> QED BY <3>1
  <2>3. CASE Fault(p)
    <3>1. made' = [made EXCEPT !.faults = @ + 1]
      BY <2>3 DEF Fault
    <3> QED BY <3>1, <1>0
  <2>4. CASE Publish(p)
    <3>1. \E c : run' = [run EXCEPT !["nft"] = c]
      BY <2>4 DEF Publish, Set
    <3> QED BY <3>1, <1>0 DEF Kea
  <2>5. CASE part = "dns" /\ DnsNext(p)
    <3>1. u = "unbound"
      BY <2>5, <1>1 DEF Family
    <3> QED BY <3>1, <2>5, <1>0, <1>1, ResolverKept
  <2>6. CASE part \in Family /\ DhcpNext(p)
    <3>1. u # "unbound"
      BY <2>6, <1>1 DEF Family
    <3> QED BY <3>1, <2>6, <1>1, ServerKept
  <2> QED BY <2>1, <2>2, <2>3, <2>4, <2>5, <2>6
<1> QED BY <1>2, <1>3, <1>4

\* A request that fails by itself leaves the configuration as it was, or, if all it could
\* not do is the last reading of a deletion, with the deletion in full; and if it was about
\* the interfaces, their copy in memory agrees; and unless a step fails or two requests meet,
\* no step stops a DHCP server, or a resolver whose file is checked, that the
\* configuration has run.
THEOREM ErrorsChangeNothing == Spec => ErrorsHarmless
<1>1. Init => KeaOrder /\ NetOrder /\ StoreOrder /\ DnsOrder
  <2> SUFFICES ASSUME Init PROVE KeaOrder /\ NetOrder /\ StoreOrder /\ DnsOrder
    OBVIOUS
  <2>1. req = Started(part, Blank) /\ stored = Blank /\ file = Nothing
    BY DEF Init
  <2>2. StoreOrder
    <3>1. \A q \in Client : req[q].ans = None
      BY <2>1, ServiceAssumption DEF Started, Proc, Idle
    <3> QED BY <3>1 DEF StoreOrder, Unmet, Busy, None
  <2>3. DnsOrder
    <3>1. part = "dns" =>
            \A p \in Proc : Busy(p) => p = Daemon /\ Serving(p, req[p], file["unbound"], stored)
      BY <2>1, DnsStarted DEF Busy
    <3> QED BY <3>1 DEF DnsOrder, Lone
  <2> QED BY <2>2, <2>3, InitKeaOrder, InitNetOrder
<1>2. Base /\ KeaOrder /\ NetOrder /\ StoreOrder /\ DnsOrder /\ [Next]_vars =>
        Base' /\ KeaOrder' /\ NetOrder' /\ StoreOrder' /\ DnsOrder'
  BY NextBase, KeaOrderKept, NetOrderKept, StoreOrderKept, DnsOrderKept
<1>3. Base /\ KeaOrder /\ NetOrder /\ StoreOrder /\ DnsOrder /\ [Next]_vars =>
        KeepsStore /\ KeepsRunning
  BY StoreUnchanged, RunsOn
<1> QED BY <1>1, <1>2, <1>3, InitBase, PTL DEF Spec, ErrorsHarmless
=============================================================================
