-------------------------------- MODULE RuleSets --------------------------------
(***************************************************************************)
(* The managed rule sets of Suricata (rules/, api/rulesets.rs): installed  *)
(* from a site that publishes new versions, enabled for the appliance or   *)
(* for an interface, filtered, checked and updated, and loaded when        *)
(* Suricata is told to (engine/suricata).                                  *)
(*                                                                         *)
(* Nothing orders two operations: each works on the list it has read, and  *)
(* saves it whole after what it waits for, a site or a command.  What an   *)
(* operation does between two waits is one step.                           *)
(***************************************************************************)
EXTENDS BackgroundBase

CONSTANTS
  SetId,     \* curated rule sets
  Watched,   \* configurations of Suricata that are saved
  Rules,     \* rules that are disabled in a set
  Latest,    \* bound: versions that a site publishes
  SomeLists  \* lists of installed sets to start from

VARIABLES
  site,     \* site[s]: the version that the site of s offers
  list,     \* installed.json: the installed sets and what is known of them
  scopes,   \* interface-enabled.json: the sets enabled on an interface
  source,   \* source[s]: the version of original.rules, 0 when there is none
  off,      \* off[s]: disabled-rules.json
  live,     \* live[s]: suricata.rules, the source without what is off
  conf,     \* Suricata's configuration: whether it is on, and the interfaces it monitors
  yaml,     \* the sets that suricata.yaml names
  loaded,   \* the sets that Suricata runs, as they were when it loaded them
  task      \* task[p]: what p has still to do, the list it has read and what it found

setVars == <<site, list, scopes, source, off, live, conf, yaml, loaded, task>>

Scheduler == "scheduler"
Runner == Client \union {Scheduler}
Nothing == [version |-> 0, without |-> {}]
Done == [todo |-> <<>>, read |-> <<>>, got |-> 0, found |-> {}, job |-> FALSE]
Running(p) == task[p].todo # <<>>
Free(p) == ~Running(p) /\ ~task[p].job

Record(enabled, status, version) == [enabled |-> enabled, status |-> status, version |-> version]
With(l, s, r) == (s :> r) @@ l
Filtered(s) == [version |-> source'[s], without |-> off'[s]]

-----------------------------------------------------------------------------
\* The steps of the operations.
Step(do, s) == [do |-> do, set |-> s, on |-> ""]
Fetch(s) == <<Step("read", s), Step("fetch", s), Step("record", s)>>
Apply == <<Step("write", ""), Step("reload", "")>>
Query(s) == <<Step("read", s), Step("ask", s)>>

Do(p) == Head(task[p].todo)
At(p, do) == Running(p) /\ Do(p).do = do
\* p goes on with what is left, or with the steps q before that.
Goes(p, q) == task' = [task EXCEPT ![p].todo = q \o Tail(@)]
\* p is answered with an error, and leaves the rest; the scheduler goes on.
Fails(p) == task' = [task EXCEPT ![p].todo = <<>>]

Accepts(p, work) ==
  /\ p \in Client /\ Free(p) /\ p = CHOOSE c \in Client : Free(c)
  /\ Spend("requests")
  /\ task' = [task EXCEPT ![p] = work]

Calls(p, q, notes) ==
  /\ Accepts(p, [Done EXCEPT !.todo = q])
  /\ past' = past \union If(\E c \in Runner : Running(c), {"met"}) \union notes

\* Reading the list, before the site is asked.
ReadList(p) ==
  /\ At(p, "read")
  /\ task' = [task EXCEPT ![p].todo = Tail(@), ![p].read = list]
  /\ UNCHANGED <<left, past, site, list, scopes, source, off, live, conf, yaml, loaded>>

\* Install: a download that passes validation replaces the source, and what Suricata
\* reads is generated from it; one that fails changes no file.
FetchRules(p) ==
  /\ At(p, "fetch")
  /\ LET s == Do(p).set
     IN  \/ /\ source' = [source EXCEPT ![s] = site[s]]
            /\ UNCHANGED off
            /\ live' = [live EXCEPT ![s] = Filtered(s)]
            /\ task' = [task EXCEPT ![p].todo = Tail(@), ![p].got = site[s]]
            /\ UNCHANGED left
         \/ /\ Spend("faults")
            /\ task' = [task EXCEPT ![p].todo = Tail(@), ![p].got = 0]
            /\ UNCHANGED <<source, off, live>>
  /\ UNCHANGED <<past, site, list, scopes, conf, yaml, loaded>>

\* The list that was read is saved, with the set's new version or its failure; a set
\* that was enabled remains so, and one that was not known is not.
RecordInstall(p) ==
  /\ At(p, "record")
  /\ LET s == Do(p).set
         old == task[p].read
         was == IF s \in DOMAIN old THEN old[s] ELSE Record(FALSE, "failed", 0)
         new == IF task[p].got = 0 THEN [was EXCEPT !.status = "failed"]
                ELSE Record(was.enabled, "installed", task[p].got)
     IN  /\ list' = With(old, s, new)
         /\ task' = [task EXCEPT ![p].todo = Tail(@), ![p].read = list']
  /\ UNCHANGED <<left, past, site, scopes, source, off, live, conf, yaml, loaded>>

\* After an update, Suricata loads the set if it is enabled.
Refresh(p) ==
  /\ At(p, "refresh")
  /\ LET s == Do(p).set
     IN  Goes(p, IF task[p].read[s].enabled THEN Apply ELSE <<>>)
  /\ UNCHANGED <<left, past, site, list, scopes, source, off, live, conf, yaml, loaded>>

\* apply_config: suricata.yaml names the sets that are enabled, and Suricata reloads; or
\* it is stopped, when it is off.
WriteYaml(p) ==
  /\ At(p, "write")
  /\ IF ~conf.on
     THEN loaded' = {} /\ task' = [task EXCEPT ![p].todo = Tail(Tail(@))] /\ UNCHANGED yaml
     ELSE yaml' = {s \in DOMAIN list : list[s].enabled} /\ Goes(p, <<>>) /\ UNCHANGED loaded
  /\ UNCHANGED <<left, past, site, list, scopes, source, off, live, conf>>

\* Most operations only log that Suricata neither reloads nor starts.
Reload(p) ==
  /\ At(p, "reload")
  /\ \/ /\ loaded' = {<<s, live[s]>> : s \in {t \in yaml : live[t] # Nothing}}
        /\ UNCHANGED <<left, past>>
     \/ Spend("faults") /\ past' = past \union {"unloaded"} /\ UNCHANGED loaded
  /\ Goes(p, <<>>)
  /\ UNCHANGED <<site, list, scopes, source, off, live, conf, yaml>>

\* The site is asked for its version, after the list was read; the list is then saved.
\* A mistake to be found: a set whose update failed is left to the administrator.
AvailableAgain(r, v) ==
  [r EXCEPT !.status = IF v # r.version /\ @ = "installed" THEN "available" ELSE @]

Available(r, v) == [r EXCEPT !.status = IF v # r.version THEN "available" ELSE @]

Ask(p) ==
  /\ At(p, "ask")
  /\ LET s == Do(p).set
         old == task[p].read
     IN  \/ /\ s \in DOMAIN old /\ UNCHANGED left
            /\ list' = [old EXCEPT ![s] = Available(@, site[s])]
            /\ task' = [task EXCEPT ![p].todo = Tail(@),
                          ![p].found = @ \union If(list'[s].status = "available", {s})]
         \/ /\ IF s \in DOMAIN old THEN Spend("faults") ELSE UNCHANGED left
            /\ UNCHANGED list
            /\ task' = [task EXCEPT ![p].todo = Tail(@),
                          ![p].found = @ \union
                            If(s \in DOMAIN old /\ old[s].status = "available", {s})]
  /\ UNCHANGED <<past, site, scopes, source, off, live, conf, yaml, loaded>>

\* A scheduled update goes on with the sets for which there is a new version.
Update(s) == Append(Fetch(s), Step("refresh", s))
InTurn(S, Plan(_)) == FlattenSeq([n \in 1..Cardinality(S) |-> Plan(SetToSeq(S)[n])])
UpdateFound(p) ==
  /\ At(p, "found")
  /\ Goes(p, InTurn(task[p].found, Update))
  /\ UNCHANGED <<left, past, site, list, scopes, source, off, live, conf, yaml, loaded>>

CheckAll == InTurn(DOMAIN list, Query)
UpdateAll == Append(CheckAll, Step("found", ""))

-----------------------------------------------------------------------------
\* The requests.
InstallSet(p) == \E s \in SetId :
  /\ Calls(p, Fetch(s), If(s \in DOMAIN list /\ list[s].enabled, {"reinstalled"}))
  /\ UNCHANGED <<site, list, scopes, source, off, live, conf, yaml, loaded>>

UpdateSet(p) == \E s \in SetId :
  /\ Calls(p, Update(s), {})
  /\ UNCHANGED <<site, list, scopes, source, off, live, conf, yaml, loaded>>

CheckSets(p) ==
  /\ CheckAll # <<>> /\ Calls(p, CheckAll, {})
  /\ UNCHANGED <<site, list, scopes, source, off, live, conf, yaml, loaded>>

\* Enabling needs a file, which is made again from the source if it is gone.
Enabled(s) ==
  /\ s \in DOMAIN list
  /\ UNCHANGED <<source, off>>
  /\ live' = [live EXCEPT ![s] = IF @ = Nothing /\ source[s] # 0 THEN Filtered(s) ELSE @]
  /\ live'[s] # Nothing
  /\ list' = [list EXCEPT ![s].enabled = TRUE]

EnableSet(p) == \E s \in SetId :
  /\ Enabled(s) /\ Calls(p, Apply, {})
  /\ UNCHANGED <<site, scopes, conf, yaml, loaded>>

DisableSet(p) == \E s \in DOMAIN list :
  /\ list' = [list EXCEPT ![s].enabled = FALSE]
  /\ Calls(p, Apply, {})
  /\ UNCHANGED <<site, scopes, source, off, live, conf, yaml, loaded>>

\* For an interface: its sets are those enabled so far, until it has sets of its own, and
\* what is enabled on no monitored interface that has some is disabled.
Seeded(l, i) == IF i \in DOMAIN scopes THEN scopes[i] ELSE {s \in DOMAIN l : l[s].enabled}
Rescoped(l, c, f) ==
  LET own == c.at \intersect DOMAIN f
  IN  IF own = {} THEN l ELSE [s \in DOMAIN l |-> [l[s] EXCEPT !.enabled = \E i \in own : s \in f[i]]]

\* The sets of i become S.  What i begins with is only saved with a change to it, but it
\* counts for the list either way.
SetScope(i, S) ==
  LET f == With(scopes, i, S)
  IN  /\ scopes' = IF S = Seeded(list, i) THEN scopes ELSE f
      /\ list' = Rescoped(list, conf, f)

\* Enabled for all first, then for the interface.
EnableOn(p) == \E s \in SetId, i \in UNION {c.at : c \in Watched} :
  /\ Enabled(s) /\ Calls(p, Append(Apply, [Step("scope", s) EXCEPT !.on = i]), {})
  /\ UNCHANGED <<site, scopes, conf, yaml, loaded>>

ScopeEnable(p) ==
  /\ At(p, "scope")
  /\ LET i == Do(p).on
     IN  IF Do(p).set \in DOMAIN list
         THEN /\ SetScope(i, Seeded(list, i) \union {Do(p).set})
              /\ Goes(p, IF list' # list THEN Apply ELSE <<>>)
         ELSE Fails(p) /\ UNCHANGED <<scopes, list>>
  /\ UNCHANGED <<left, past, site, source, off, live, conf, yaml, loaded>>

DisableOn(p) == \E s \in DOMAIN list, i \in UNION {c.at : c \in Watched} :
  /\ SetScope(i, Seeded(list, i) \ {s})
  /\ Calls(p, IF list' # list THEN Apply ELSE <<>>, {})
  /\ UNCHANGED <<site, source, off, live, conf, yaml, loaded>>

\* Disabled first, so that Suricata no longer names its file.
UninstallSet(p) == \E s \in DOMAIN list :
  /\ list' = [list EXCEPT ![s].enabled = FALSE]
  /\ Calls(p, Append(Apply, Step("remove", s)), {})
  /\ UNCHANGED <<site, scopes, source, off, live, conf, yaml, loaded>>

RemoveSet(p) ==
  /\ At(p, "remove")
  /\ LET s == Do(p).set
     IN  IF s \in DOMAIN list
         THEN /\ list' = Restrict(list, DOMAIN list \ {s})
              /\ source' = [source EXCEPT ![s] = 0] /\ off' = [off EXCEPT ![s] = {}]
              /\ live' = [live EXCEPT ![s] = Nothing]
         ELSE UNCHANGED <<list, source, off, live>>
  /\ Goes(p, <<>>)
  /\ UNCHANGED <<left, past, site, scopes, conf, yaml, loaded>>

DisableRules(p) == \E s \in DOMAIN list, S \in SUBSET Rules :
  /\ off' = [off EXCEPT ![s] = S]
  /\ UNCHANGED source
  /\ live' = IF source[s] = 0 THEN live ELSE [live EXCEPT ![s] = Filtered(s)]
  /\ Calls(p, Apply, {})
  /\ UNCHANGED <<site, list, scopes, conf, yaml, loaded>>

\* Suricata's own configuration is saved, and the sets of its interfaces count.
Monitor(p) == \E c \in Watched :
  /\ conf' = c
  /\ list' = Rescoped(list, c, scopes)
  /\ Calls(p, Apply, {})
  /\ UNCHANGED <<site, scopes, source, off, live, yaml, loaded>>

\* The site publishes a version.
NewVersion == \E s \in SetId :
  /\ site[s] < Latest
  /\ site' = [site EXCEPT ![s] = @ + 1]
  /\ UNCHANGED <<left, past, list, scopes, source, off, live, conf, yaml, loaded, task>>

\* The daemon stops wherever it is; Suricata goes on, or loads its files as it starts.
CutSets ==
  /\ Spend("restarts")
  /\ past' = past \union If(\E p \in Runner : Running(p), {"cut"})
  /\ task' = [p \in Runner |-> Done]
  /\ UNCHANGED <<site, list, scopes, source, off, live, conf, yaml, loaded>>

Starting(S) == IF part = "rules" THEN S ELSE {CHOOSE x \in S : TRUE}
SetsInit ==
  /\ list \in Starting(SomeLists) /\ conf \in Starting(Watched)
  /\ scopes = <<>> /\ off = [s \in SetId |-> {}]
  /\ site = [s \in SetId |-> 1]
  /\ source = [s \in SetId |-> IF s \in DOMAIN list THEN 1 ELSE 0]
  /\ live = [s \in SetId |-> IF s \in DOMAIN list THEN [version |-> 1, without |-> {}] ELSE Nothing]
  /\ yaml = If(conf.on, {s \in DOMAIN list : list[s].enabled})
  /\ loaded = {<<s, live[s]>> : s \in yaml}
  /\ task = [p \in Runner |-> Done]

SetsNext ==
  \/ NewVersion
  \/ \E p \in Runner :
       \/ ReadList(p) \/ FetchRules(p) \/ RecordInstall(p) \/ Refresh(p) \/ WriteYaml(p)
       \/ Reload(p) \/ Ask(p) \/ UpdateFound(p) \/ ScopeEnable(p) \/ RemoveSet(p)
       \/ InstallSet(p) \/ UpdateSet(p) \/ CheckSets(p) \/ EnableSet(p) \/ DisableSet(p)
       \/ EnableOn(p) \/ DisableOn(p) \/ UninstallSet(p) \/ DisableRules(p) \/ Monitor(p)
=============================================================================
