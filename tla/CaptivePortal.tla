----------------------------- MODULE CaptivePortal -----------------------------
(***************************************************************************)
(* Sessions and vouchers of the captive portal, and their way into the     *)
(* ruleset of the kernel.  captive_portal.rs, and the captive portal's     *)
(* part of engine/nftables/mod.rs.                                         *)
(*                                                                         *)
(* Every handler loads the sessions file, edits the list, writes it back   *)
(* and publishes the ruleset, which loads configuration and sessions once  *)
(* more; nothing orders two handlers.  How a file is written is the        *)
(* subject of ConfigStore: here each load and each save is one step.       *)
(***************************************************************************)
EXTENDS Integers, FiniteSets

CONSTANTS
  Client,    \* addresses behind the portal
  MaxUses,   \* max_uses of the one voucher
  MaxId,     \* bound: sessions that exist at one time
  Task,      \* requests that may be served at the same time
  Reaper,    \* the task that removes expired sessions
  Ops,       \* requests, and the other publications of the ruleset: see Request
  Events     \* faults: see Fault

Request == {"authorize", "create", "logout", "revoke", "status", "update", "rules", "block"}
Fault == {"nft", "disk", "restart", "idle"}

ASSUME PortalAssumption ==
  /\ MaxUses \in Nat \ {0} /\ MaxId \in Nat \ {0}
  /\ Reaper \notin Task /\ Task # {} /\ IsFiniteSet(Task)
  /\ Ops \subseteq Request /\ Events \subseteq Fault

VARIABLES
  cfg,       \* the captive portal section of the configuration
  file,      \* the sessions file
  kernel,    \* the portal's part of the ruleset in force
  ps,        \* ps[p]: the operation that p executes
  granted,   \* history: sessions the voucher has been redeemed for
  raced,     \* history: a section was saved while another request held one it had
             \* loaded before, and the administrator has not set the uses since
  troubled   \* history: two operations overlapped or one failed half way, and
             \* none has since run alone and succeeded

hist == <<granted, raced, troubled>>
vars == <<cfg, file, kernel, ps, hist>>

Proc == Task \union {Reaper}

-----------------------------------------------------------------------------
\* idle: an idle timeout is configured.
Section == [on : BOOLEAN, voucher : BOOLEAN, idle : BOOLEAN, uses : 0..MaxUses]

\* "old": last_seen_at is long ago; "dead": the time in expires_at has come.
Session == [id : 1..MaxId, client : Client, age : {"new", "old", "dead"}]

SessionActive(c, s) == s.age # "dead" /\ ~(c.idle /\ s.age = "old")

Pruned(c, l) == {s \in l : SessionActive(c, s)}

Clients(l) == {s.client : s \in l}

\* The sets and gate rules generated from section c and list l.
Rules(c, l) == [gate |-> c.on, pass |-> IF c.on THEN Clients(l) ELSE {}]
Flushed == [gate |-> FALSE, pass |-> {}]

Label == {"idle", "savecfg", "load", "save", "cfg", "sessions", "prune", "land"}
NoSession == [id |-> 0]
Fresh == [on |-> FALSE, voucher |-> FALSE, idle |-> FALSE, uses |-> 0]
Idle == [pc |-> "idle", op |-> "reap", cfg |-> Fresh, list |-> {}, new |-> NoSession,
         drop |-> {}, dirty |-> FALSE, alone |-> FALSE]

Operation == Request \union {"reap", "publish", "startup"}
OpRecord == [pc : Label, op : Operation, cfg : Section, list : SUBSET Session,
             new : Session \union {NoSession}, drop : SUBSET Client,
             dirty : BOOLEAN, alone : BOOLEAN]

\* What granted counts: up to one session more than the voucher allows.
Tally == {n \in Int : n <= MaxUses + 1}

\* No list ever holds two sessions of one client.
OnePerClient(l) == \A s, t \in l : s.client = t.client => s = t

TypeOK ==
  /\ cfg \in Section
  /\ file \in SUBSET Session /\ OnePerClient(file)
  /\ kernel \in [gate : BOOLEAN, pass : SUBSET Client]
  /\ ps \in [Proc -> OpRecord] /\ \A p \in Proc : OnePerClient(ps[p].list)
  /\ granted \in Tally /\ raced \in BOOLEAN /\ troubled \in BOOLEAN

Init ==
  /\ \E v \in BOOLEAN, i \in IF "idle" \in Events THEN BOOLEAN ELSE {FALSE} :
       cfg = [Fresh EXCEPT !.voucher = v, !.idle = i]
  /\ file = {} /\ kernel = Flushed
  /\ ps = [p \in Proc |-> Idle]
  /\ granted = 0 /\ raced = FALSE /\ troubled = FALSE

-----------------------------------------------------------------------------
At(p, l) == ps[p].pc = l
Busy(p) == ~At(p, "idle")
Set(p, r) == ps' = [ps EXCEPT ![p] = r]
Goto(p, l) == Set(p, [ps[p] EXCEPT !.pc = l])

\* An operation starts.  From here on no other one runs alone.
Start(p, r) ==
  LET lone == \A q \in Proc : ~Busy(q)
  IN  /\ At(p, "idle") /\ \A q \in Proc : ps[q].op = "startup" => ~Busy(q)
      /\ ps' = [q \in Proc |-> IF q = p THEN [r EXCEPT !.alone = lone]
                                        ELSE [ps[q] EXCEPT !.alone = FALSE]]
      /\ troubled' = (troubled \/ ~lone)
      /\ UNCHANGED <<cfg, file, kernel, granted, raced>>

\* An operation that fails leaves behind what it has saved.
Fails(p) ==
  /\ Set(p, Idle)
  /\ troubled' = (troubled \/ ps[p].dirty)

\* A session id that is in no list.
Used == UNION ({file} \union {ps[p].list \union {ps[p].new} : p \in Proc})
Free == (1..MaxId) \ {s.id : s \in Used}
NewSession(c) == [id |-> CHOOSE i \in Free : \A j \in Free : i <= j, client |-> c,
                  age |-> "new"]

\* Mutant of Redeem: a voucher is not counted.
RedeemFree(c) == c

\* redeem_voucher: the use is counted in the section that will be saved.
Redeem(c) == IF c.voucher THEN [c EXCEPT !.uses = @ + 1] ELSE c

\* public_authorize loads the section and redeems the voucher.
Authorize(p) ==
  /\ "authorize" \in Ops /\ Free # {}
  /\ cfg.on /\ (cfg.voucher => cfg.uses < MaxUses)
  /\ \E c \in Client :
       Start(p, [Idle EXCEPT !.op = "authorize",
                             !.pc = IF cfg.voucher THEN "savecfg" ELSE "load",
                             !.cfg = Redeem(cfg), !.new = NewSession(c), !.drop = {c}])

\* create_admin_session needs no portal that is enabled, and no voucher.
CreateSession(p) ==
  /\ "create" \in Ops /\ Free # {}
  /\ \E c \in Client :
       Start(p, [Idle EXCEPT !.op = "create", !.pc = "load", !.new = NewSession(c),
                             !.drop = {c}])

\* revoke_admin_session, public_logout and public_status.
EditSession(p) ==
  /\ \E c \in Client, op \in Ops \cap {"logout", "revoke", "status"} :
       Start(p, [Idle EXCEPT !.op = op, !.pc = "load", !.cfg = cfg, !.drop = {c}])

\* update_admin_config saves the whole section as the administrator sends it:
\* the portal goes on or off, and the uses of the voucher are as they were when
\* the section was read, or other ones.  The kinds of authorization and of
\* expiry stay as Init chooses them.
UpdateConfig(p) ==
  /\ "update" \in Ops
  /\ \E on \in BOOLEAN, n \in 0..MaxUses :
       Start(p, [Idle EXCEPT !.op = "update", !.pc = "savecfg",
                             !.cfg = [cfg EXCEPT !.on = on, !.uses = n]])

\* Rule changes ("rules") and the threat engine ("block") publish the ruleset.
PublishRules(p) ==
  /\ \E op \in Ops \cap {"rules", "block"} :
       Start(p, [Idle EXCEPT !.op = op, !.pc = "cfg"])

\* A tick of the session reaper.
Reap ==
  /\ cfg.on
  /\ Start(Reaper, [Idle EXCEPT !.pc = "load", !.cfg = cfg])

\* The requests that have counted a use and not stored the session yet.
InFlight == {p \in Task : ps[p].op = "authorize" /\ ps[p].pc \in {"load", "save"}}

\* The uses that the administrator sets include those in flight.
SaveConfig(p) ==
  /\ At(p, "savecfg")
  /\ cfg' = ps[p].cfg
  /\ Set(p, [ps[p] EXCEPT !.pc = "load", !.dirty = ps[p].op = "update"])
  /\ granted' = IF ps[p].op = "update" THEN ps[p].cfg.uses - Cardinality(InFlight) ELSE granted
  /\ raced' = ((raced /\ ps[p].op # "update") \/ \E q \in Proc \ {p} : At(q, "savecfg"))
  /\ UNCHANGED <<file, kernel, troubled>>

Touched(l, who) == {IF s.client \in who THEN [s EXCEPT !.age = "new"] ELSE s : s \in l}

\* What the operation makes of the list it has loaded.
Edited(r, l) ==
  CASE r.op \in {"authorize", "create"} -> {s \in l : s.client \notin r.drop} \union {r.new}
    [] r.op \in {"logout", "revoke"} -> {s \in l : s.client \notin r.drop}
    [] r.op = "status" -> Touched(l, r.drop)
    [] OTHER -> Pruned(r.cfg, l)

\* There is nothing to write: the session to revoke does not exist, the client
\* has none that is active, or none has expired.
Unneeded(r, l) ==
  CASE r.op = "revoke" -> r.drop \cap Clients(l) = {}
    [] r.op = "status" -> r.drop \cap Clients(Pruned(r.cfg, l)) = {}
    [] r.op \in {"reap", "update"} -> Pruned(r.cfg, l) = l
    [] OTHER -> FALSE

\* The handler loads the sessions and edits the list.
LoadSessions(p) ==
  /\ At(p, "load")
  /\ \/ /\ ~Unneeded(ps[p], file)
        /\ Set(p, [ps[p] EXCEPT !.pc = "save", !.list = Edited(ps[p], file), !.drop = {},
                                !.cfg = Fresh])
     \/ Unneeded(ps[p], file) /\ ps[p].op = "update"
        /\ Set(p, [ps[p] EXCEPT !.op = "publish", !.pc = "cfg", !.cfg = Fresh])
     \/ Unneeded(ps[p], file) /\ ps[p].op # "update" /\ Set(p, Idle)
  /\ UNCHANGED <<cfg, file, kernel, hist>>

\* A session that the voucher has been redeemed for is stored.  What passes the
\* limit once has passed it: granted counts no further.
Counted(p) ==
  UNCHANGED raced /\ granted' = IF ps[p].op = "authorize" /\ cfg.voucher /\ granted <= MaxUses
             THEN granted + 1 ELSE granted

\* Mutant of SaveSessions: the list is saved and not published.
SaveSessionsQuietly(p) ==
  /\ At(p, "save")
  /\ file' = ps[p].list
  /\ Set(p, Idle)
  /\ Counted(p)
  /\ UNCHANGED <<cfg, kernel, troubled>>

SaveSessions(p) ==
  /\ At(p, "save")
  /\ file' = ps[p].list
  /\ IF ps[p].op = "status"
     THEN Set(p, Idle)
     ELSE Set(p, [Idle EXCEPT !.op = "publish", !.pc = "cfg", !.dirty = TRUE, !.alone = ps[p].alone])
  /\ Counted(p)
  /\ UNCHANGED <<cfg, kernel, troubled>>

-----------------------------------------------------------------------------
(* apply_current_ruleset_nft: the publication every operation ends with. *)

ApplyConfig(p) ==
  /\ At(p, "cfg")
  /\ Set(p, [ps[p] EXCEPT !.pc = "sessions", !.cfg = cfg])
  /\ UNCHANGED <<cfg, file, kernel, hist>>

\* The sessions are loaded and pruned; the file is written when one was, though
\* not by the threat engine.
ApplySessions(p) ==
  /\ At(p, "sessions")
  /\ LET l == Pruned(ps[p].cfg, file)
     IN  Set(p, [ps[p] EXCEPT !.pc = IF l = file \/ ps[p].op = "block" THEN "land" ELSE "prune",
                              !.list = l])
  /\ UNCHANGED <<cfg, file, kernel, hist>>

ApplyPrune(p) ==
  /\ At(p, "prune")
  /\ file' = ps[p].list
  /\ Set(p, [ps[p] EXCEPT !.pc = "land", !.dirty = TRUE])
  /\ UNCHANGED <<cfg, kernel, hist>>

\* nft -f.  What runs alone from its start to here brings everything in line.
Land(p) ==
  /\ At(p, "land")
  /\ kernel' = Rules(ps[p].cfg, ps[p].list)
  /\ Set(p, Idle)
  /\ troubled' = (troubled /\ ~ps[p].alone)
  /\ UNCHANGED <<cfg, file, granted, raced>>

LandFails(p) ==
  /\ "nft" \in Events /\ At(p, "land")
  /\ Fails(p)
  /\ UNCHANGED <<cfg, file, kernel, granted, raced>>

\* A load or a save fails and the handler returns an error.
DiskFails(p) ==
  /\ "disk" \in Events /\ Busy(p) /\ ~At(p, "land")
  /\ Fails(p)
  /\ UNCHANGED <<cfg, file, kernel, granted, raced>>

-----------------------------------------------------------------------------
(* Time and restarts. *)

\* A change to every copy of the session with id i.
Everywhere(F(_), i) ==
  LET G(s) == IF s.id = i THEN F(s) ELSE s
  IN  /\ file' = {G(s) : s \in file}
      /\ ps' = [p \in Proc |-> [ps[p] EXCEPT !.list = {G(s) : s \in @}, !.new = G(@)]]
      /\ UNCHANGED <<cfg, kernel, hist>>

\* The client of a session of the file is not seen for the idle timeout, or the
\* session reaches its expires_at.
Expire ==
  \E s \in file, a \in {"old", "dead"} :
    /\ \/ a = "old" /\ s.age = "new" /\ "idle" \in Events
       \/ a = "dead" /\ s.age # "dead"
    /\ Everywhere(LAMBDA t : [t EXCEPT !.age = a], s.id)

\* The daemon or the machine restarts; the daemon publishes before it serves.
Restart ==
  /\ "restart" \in Events
  /\ \E t \in Task : ps' = [p \in Proc |-> IF p = t THEN [Idle EXCEPT !.op = "startup", !.pc = "cfg",
                                                              !.dirty = TRUE, !.alone = TRUE]
                                                    ELSE Idle]
  /\ kernel' \in {kernel, Flushed}
  /\ troubled' = TRUE
  /\ UNCHANGED <<cfg, file, granted, raced>>

-----------------------------------------------------------------------------
Operate(p) == \/ SaveConfig(p) \/ LoadSessions(p) \/ SaveSessions(p) \/ ApplyConfig(p)
              \/ ApplySessions(p) \/ ApplyPrune(p) \/ Land(p)
Begin(p) == Authorize(p) \/ CreateSession(p) \/ EditSession(p) \/ UpdateConfig(p)
            \/ PublishRules(p)
Next ==
  \/ \E p \in Task : Begin(p)
  \/ \E p \in Proc : Operate(p) \/ LandFails(p) \/ DiskFails(p)
  \/ Reap \/ Expire \/ Restart

\* Every task is polled, nft and the URL fetches come to an end, the ticker of the
\* reaper goes on, and its loads and saves do not fail every time.
Fairness ==
  /\ \A p \in Proc : WF_vars(Operate(p))
  /\ SF_vars(Reap) /\ SF_vars(LoadSessions(Reaper)) /\ SF_vars(SaveSessions(Reaper))
Spec == Init /\ [][Next]_vars
LiveSpec == Spec /\ Fairness

-----------------------------------------------------------------------------
(* Properties. *)

Quiet == \A p \in Proc : ~Busy(p)

\* With nothing under way the kernel lets through every client with an active
\* session and none without a session in the file, however many operations
\* failed or overlapped before, once one of them has run alone and succeeded.
KernelGates ==
  Quiet /\ ~troubled =>
    /\ kernel.gate = cfg.on
    /\ Rules(cfg, Pruned(cfg, file)).pass \subseteq kernel.pass
    /\ kernel.pass \subseteq Rules(cfg, file).pass

\* A session that has left the file does not come back.
Ids(l) == {s.id : s \in l}
NoRevival == [][\A i \in Ids(file') \ Ids(file) : \E p \in Proc : ps[p].new.id = i]_vars

\* However many requests are served at once, and whatever fails or stops between
\* counting a use and storing the session, a voucher is redeemed no more often than it
\* allows, except after one count may have been written over another: redeem_voucher
\* counts in a copy of the section, which two requests may have loaded before either
\* saves it.
VoucherLimit == ~raced => granted <= MaxUses

\* The same without the exception.
VoucherStrict == granted <= MaxUses

\* A client without an active session does not pass for ever.
Stray(c) == /\ kernel.gate /\ cfg.on /\ c \in kernel.pass
            /\ c \notin Clients(Pruned(cfg, file)) /\ ~troubled
ExpiredLeave == \A c \in Client : Stray(c) ~> ~Stray(c)

\* The same without the exception of failed publications.
Outstays(c) == kernel.gate /\ cfg.on /\ c \in kernel.pass /\ c \notin Clients(Pruned(cfg, file))
StrayLeaves == \A c \in Client : Outstays(c) ~> ~Outstays(c)

=============================================================================
