------------------------------- MODULE DynamicDns -------------------------------
(***************************************************************************)
(* Dynamic DNS (api/dynamic_dns.rs): a run, asked for or scheduled, tells  *)
(* the provider of every entry that is enabled the address its interface   *)
(* has in the configuration, and writes down how that went.                *)
(*                                                                         *)
(* Nothing orders two runs.  What a run does between two answers it waits  *)
(* for is one step.  A host stands for a name and a type of record.        *)
(***************************************************************************)
EXTENDS BackgroundBase

CONSTANTS
  DdnsPlans,  \* configurations that are sent: on, and the entries by their identifier
  Uplink,     \* interfaces
  Address     \* addresses they may have, Unset for none

VARIABLES
  ddns,     \* the saved configuration
  address,  \* address[i]: the first address of interface i in the configuration
  zone,     \* zone[h]: the records of host h, number and address, at its provider
  status,   \* status.json: host, address and success of the entries of the last run
  cycle,    \* cycle[p]: the run of p
  sure,     \* history: no run has begun since the last one that was written down
  misread   \* history: the hosts last refused in an answer that was taken for consent

ddnsVars == <<ddns, address, zone, status, cycle, sure, misread>>

Unset == "none"
Job == "job"
Updater == Client \union {Job}
NoCycle == [pc |-> "none"]
Hosts == UNION {{f.entries[i].host : i \in DOMAIN f.entries} : f \in DdnsPlans}
InCycle(p) == cycle[p].pc \notin {"none", "ended"}

ASSUME DdnsAssumption ==
  \A f \in DdnsPlans :
    /\ f = [on |-> f.on, entries |-> f.entries] /\ IsFiniteSet(DOMAIN f.entries)
    /\ \A i \in DOMAIN f.entries :
         f.entries[i] \in [on : BOOLEAN, host : Hosts, iface : Uplink, cloud : BOOLEAN,
                          password : BOOLEAN]

\* A password that is not sent again is the one that is stored.
WithPasswords(f) ==
  [f EXCEPT !.entries = [i \in DOMAIN f.entries |->
     [f.entries[i] EXCEPT !.password =
        @ \/ (i \in DOMAIN ddns.entries /\ ddns.entries[i].password)]]]
Complete(f) == f.on => \A i \in DOMAIN f.entries : f.entries[i].on => f.entries[i].password

SaveDdns == \E f \in DdnsPlans :
  /\ Complete(WithPasswords(f)) /\ Spend("edits") /\ ddns' = WithPasswords(f)
  /\ UNCHANGED <<past, address, zone, status, cycle, sure, misread>>

SetAddress == \E i \in Uplink, a \in Address :
  /\ Spend("edits") /\ address' = [address EXCEPT ![i] = a]
  /\ UNCHANGED <<past, ddns, zone, status, cycle, sure, misread>>

\* A run takes the entries and the addresses as they are now.
StartCycle(p) ==
  /\ cycle[p] = NoCycle /\ ddns.on /\ Spend(IF p = Job THEN "time" ELSE "requests")
  /\ LET on == {i \in DOMAIN ddns.entries : ddns.entries[i].on}
     IN  cycle' = [cycle EXCEPT ![p] =
           [pc |-> "next", todo |-> [n \in DOMAIN SetToSeq(on) |-> ddns.entries[SetToSeq(on)[n]]],
            at |-> address, found |-> {}, done |-> {}]]
  /\ past' = past \union If(\E q \in Updater : InCycle(q), {"met"})
  /\ sure' = FALSE
  /\ UNCHANGED <<ddns, address, zone, status, misread>>

\* The entry p is about, the address it is to have, and what is noted of it.
Entry(p) == Head(cycle[p].todo)
Given(p) == cycle[p].at[Entry(p).iface]
Noted(p, ok) ==
  cycle' = [cycle EXCEPT ![p] =
    [cycle[p] EXCEPT !.pc = "next", !.todo = Tail(@),
       !.done = @ \union {[host |-> Entry(p).host, ip |-> Given(p), ok |-> ok]}]]
\* A long answer that cannot be cut at byte 240 ends the task: the request's, or that of
\* the scheduler.
Breaks(p) == cycle' = [cycle EXCEPT ![p] = IF p = Job THEN [pc |-> "ended"] ELSE NoCycle]

NoAddress(p) ==
  /\ cycle[p].pc = "next" /\ cycle[p].todo # <<>> /\ Given(p) = Unset
  /\ Noted(p, FALSE)
  /\ UNCHANGED <<left, past, ddns, address, zone, status, sure, misread>>

\* What a provider is asked changes the records of the host to one of Z, if there is one;
\* or it is refused, or its answer does not arrive in time, or is one that Breaks.
Replied(p, Z) ==
  LET after == {[zone EXCEPT ![Entry(p).host] = z] : z \in Z}
  IN  \/ zone' \in after /\ Noted(p, TRUE) /\ UNCHANGED left
         /\ misread' = misread \ {Entry(p).host}
      \/ after = {} /\ Noted(p, FALSE) /\ UNCHANGED <<zone, left, misread>>
      \/ zone' \in after \union {zone} /\ Spend("faults") /\ (Noted(p, FALSE) \/ Breaks(p))
         /\ UNCHANGED misread

\* A provider refuses with a status of success, in words that are none of the seven that
\* are looked for or that cannot be read: nothing is changed, and success is noted.
Misread(p) ==
  /\ Spend("faults") /\ UNCHANGED zone
  /\ Noted(p, TRUE) /\ misread' = misread \union {Entry(p).host}

\* All providers but one are told in one request.
Tell(p) ==
  /\ cycle[p].pc = "next" /\ cycle[p].todo # <<>> /\ Given(p) # Unset /\ ~Entry(p).cloud
  /\ Replied(p, {{<<1, Given(p)>>}}) \/ Misread(p)
  /\ UNCHANGED <<past, ddns, address, status, sure>>

\* Cloudflare is asked for a record of the host, which is then changed, or made if there
\* is none.
Lookup(p) ==
  /\ cycle[p].pc = "next" /\ cycle[p].todo # <<>> /\ Given(p) # Unset /\ Entry(p).cloud
  /\ \/ /\ UNCHANGED left
        /\ \E one \in {{r} : r \in zone[Entry(p).host]} \union
                      If(zone[Entry(p).host] = {}, {{}}) :
             cycle' = [cycle EXCEPT ![p] =
                         [cycle[p] EXCEPT !.pc = "write", !.found = {r[1] : r \in one}]]
     \/ Spend("faults") /\ (Noted(p, FALSE) \/ Breaks(p))
  /\ UNCHANGED <<past, ddns, address, zone, status, sure, misread>>

\* The provider refuses to make a record that is there, or to change one that is not.
Made(Z, a) ==
  If(\A r \in Z : r[2] # a, {Z \union {<<1 + Cardinality(Z), a>>}})
\* A mistake to be found: a new record is made although there is one.
RecordsAnew(Z, found, a) == Made(Z, a)

Records(Z, found, a) ==
  IF found = {} THEN Made(Z, a)
  ELSE If(\E r \in Z : r[1] \in found,
          {{r \in Z : r[1] \notin found} \union {<<n, a>> : n \in found}})

WriteRecord(p) ==
  /\ cycle[p].pc = "write"
  /\ Replied(p, Records(zone[Entry(p).host], cycle[p].found, Given(p)))
  /\ UNCHANGED <<past, ddns, address, status, sure>>

\* How it went is written down, in place of what the last run has left.
FinishCycle(p) ==
  /\ cycle[p].pc = "next" /\ cycle[p].todo = <<>>
  /\ \/ status' = cycle[p].done /\ sure' = TRUE /\ UNCHANGED left
     \/ Spend("faults") /\ status' \in {status, {}} /\ UNCHANGED sure
  /\ cycle' = [cycle EXCEPT ![p] = NoCycle]
  /\ UNCHANGED <<past, ddns, address, zone, misread>>

DdnsRestart ==
  /\ Spend("restarts")
  /\ cycle' = [p \in Updater |-> NoCycle]
  /\ UNCHANGED <<past, ddns, address, zone, status, sure, misread>>

DdnsInit ==
  /\ ddns \in {f \in DdnsPlans : Complete(f)} /\ address \in [Uplink -> Address]
  /\ part # "ddns" => ddns = (CHOOSE f \in DdnsPlans : Complete(f))
                      /\ address = [i \in Uplink |-> Unset]
  /\ \E Z \in {{}, {<<1, "other">>}} : zone = [h \in Hosts |-> IF part = "ddns" THEN Z ELSE {}]
  /\ status = {} /\ sure = TRUE /\ misread = {} /\ cycle = [p \in Updater |-> NoCycle]

DdnsNext ==
  \/ SaveDdns \/ SetAddress \/ DdnsRestart
  \/ \E p \in Updater :
       \/ StartCycle(p) \/ NoAddress(p) \/ Tell(p) \/ Lookup(p) \/ WriteRecord(p) \/ FinishCycle(p)

-----------------------------------------------------------------------------
\* Unless two runs meet, a host that the last run calls updated has the address noted for
\* it, and only that one, whatever answers were lost and retried before: as long as no
\* run is under way, cut off or not written down, and no two entries are for the host. The
\* hosts whose provider last refused them in words that the code takes for consent are
\* excepted; Cloudflare's answers say which they are.
StatusTrue ==
  sure /\ "met" \notin past =>
    \A s \in status :
      /\ s.ok /\ s.host \notin misread
      /\ \A t \in status : t.host = s.host => t = s
      => {r[2] : r \in zone[s.host]} = {s.ip}
=============================================================================
