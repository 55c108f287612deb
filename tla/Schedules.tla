------------------------------- MODULE Schedules -------------------------------
(***************************************************************************)
(* The system schedules (schedules.rs, api/schedules.rs): every minute the *)
(* scheduler runs, one after another, the jobs that are due, and saves     *)
(* when they ran once it is through; a request runs one job at once.  The  *)
(* update of the rule sets is that of RuleSets; what dynamic DNS does      *)
(* besides, and the renewal of certificates, are in modules of their own.  *)
(*                                                                         *)
(* Times are ages: what every run and every file knows grows older with    *)
(* each minute, up to Late.                                                *)
(***************************************************************************)
EXTENDS RuleSets

CONSTANTS
  Jobs,    \* the jobs, "rulesets" among them
  Plans,   \* schedules that are saved: whether a job is on, and every so many minutes
  Late     \* bound of an age; a job that never ran is as old

ASSUME ScheduleAssumption ==
  /\ "rulesets" \in Jobs /\ Late \in Nat
  /\ \A f \in Plans : \A j \in DOMAIN f : f[j].every \in 1..Late

VARIABLES
  plan,    \* system_schedules.json
  ages,    \* system_schedules_status.json: how long ago each job began its last run
  ticked,  \* a minute is over that the scheduler has not seen
  runs     \* runs[p]: the jobs p has to run, and the status it has read

scheduleVars == <<plan, ages, ticked, runs>>

Older(n) == IF n < Late THEN n + 1 ELSE n
NotRunning == [on |-> FALSE, jobs |-> <<>>, busy |-> FALSE, ages |-> [j \in Jobs |-> Late],
               since |-> 0, dirty |-> FALSE]

\* A job that the saved schedule does not list is off.
Normal(f) == [j \in Jobs |-> IF j \in DOMAIN f THEN f[j] ELSE [on |-> FALSE, every |-> Late]]

SaveSchedules == \E f \in Plans :
  /\ Spend("edits") /\ plan' = Normal(f)
  /\ UNCHANGED <<past, ages, ticked, runs>> /\ UNCHANGED setVars

Minute ==
  /\ ticked' = TRUE
  /\ ages' = [j \in Jobs |-> Older(ages[j])]
  /\ runs' = [p \in Runner |->
                [runs[p] EXCEPT !.ages = [j \in Jobs |-> Older(@[j])],
                                !.since = IF runs[p].busy THEN Older(@) ELSE @]]
  /\ UNCHANGED <<left, past, plan>> /\ UNCHANGED setVars

\* The scheduler takes the jobs that are on, and when they ran, as they are on disk.
SchedulerTick ==
  /\ ticked /\ ~runs[Scheduler].on
  /\ ticked' = FALSE
  /\ runs' = [runs EXCEPT ![Scheduler] =
                [NotRunning EXCEPT !.on = TRUE, !.ages = ages,
                                   !.jobs = SetToSeq({j \in Jobs : plan[j].on})]]
  /\ UNCHANGED <<left, past, plan, ages>> /\ UNCHANGED setVars

RunJobNow(p) == \E j \in Jobs :
  /\ Accepts(p, [Done EXCEPT !.job = TRUE])
  /\ runs' = [runs EXCEPT ![p] = [NotRunning EXCEPT !.on = TRUE, !.ages = ages, !.jobs = <<j>>]]
  /\ UNCHANGED <<past, plan, ages, ticked, site, list, scopes, source, off, live, conf, yaml, loaded>>

\* The scheduler leaves out a job that is not due.
Due(p, j) == p # Scheduler \/ runs[p].ages[j] >= plan[j].every

StartJob(p) ==
  /\ runs[p].on /\ runs[p].jobs # <<>> /\ ~runs[p].busy
  /\ LET j == Head(runs[p].jobs)
     IN  IF Due(p, j)
         THEN /\ runs' = [runs EXCEPT ![p].busy = TRUE, ![p].since = 0]
              /\ task' = [task EXCEPT ![p] =
                            [Done EXCEPT !.job = TRUE, !.todo = IF j = "rulesets" THEN UpdateAll ELSE <<>>]]
              /\ past' = past \union If(j = "rulesets" /\ \E q \in Runner : Running(q), {"met"})
         ELSE runs' = [runs EXCEPT ![p].jobs = Tail(@)] /\ UNCHANGED <<task, past>>
  /\ UNCHANGED <<left, plan, ages, ticked>>
  /\ UNCHANGED <<site, list, scopes, source, off, live, conf, yaml, loaded>>

EndJob(p) ==
  /\ runs[p].busy /\ runs[p].jobs # <<>> /\ ~Running(p)
  /\ runs' = [runs EXCEPT ![p].busy = FALSE, ![p].jobs = Tail(@), ![p].dirty = TRUE,
                          ![p].ages[Head(runs[p].jobs)] = runs[p].since]
  /\ UNCHANGED <<left, past, plan, ages, ticked>> /\ UNCHANGED setVars

\* An answer that a dynamic DNS run cannot cut ends the task: the request's, or that of the
\* scheduler, which then runs nothing more.
JobBreaks(p) ==
  /\ runs[p].busy /\ runs[p].jobs # <<>> /\ Head(runs[p].jobs) = "dynamic_dns"
  /\ Spend("faults")
  /\ runs' = [runs EXCEPT ![p] = IF p = Scheduler THEN [@ EXCEPT !.jobs = <<>>] ELSE NotRunning]
  /\ task' = [task EXCEPT ![p] = Done]
  /\ past' = past \union If(p = Scheduler, {"broken"})
  /\ UNCHANGED <<plan, ages, ticked, site, list, scopes, source, off, live, conf, yaml, loaded>>

\* The status that was read before the jobs is saved with their runs.
SaveStatus(p) ==
  /\ runs[p].on /\ runs[p].jobs = <<>> /\ ~runs[p].busy
  /\ \/ /\ ages' = (IF runs[p].dirty THEN runs[p].ages ELSE ages) /\ UNCHANGED left
     \/ runs[p].dirty /\ Spend("faults") /\ UNCHANGED ages
  /\ runs' = [runs EXCEPT ![p] = NotRunning]
  /\ task' = [task EXCEPT ![p].job = FALSE]
  /\ UNCHANGED <<past, plan, ticked>>
  /\ UNCHANGED <<site, list, scopes, source, off, live, conf, yaml, loaded>>

\* The first tick of a new scheduler comes at once.
ScheduleRestart ==
  /\ CutSets
  /\ ticked' = TRUE /\ runs' = [p \in Runner |-> NotRunning]
  /\ UNCHANGED <<plan, ages>>

ScheduleInit ==
  /\ SetsInit
  /\ plan \in {Normal(f) : f \in Starting(Plans)} /\ ages = [j \in Jobs |-> Late]
  /\ ticked = TRUE /\ runs = [p \in Runner |-> NotRunning]

ScheduleNext ==
  \/ SetsNext /\ UNCHANGED scheduleVars
  \/ SaveSchedules \/ Minute \/ SchedulerTick \/ ScheduleRestart
  \/ \E p \in Runner : RunJobNow(p) \/ StartJob(p) \/ EndJob(p) \/ JobBreaks(p) \/ SaveStatus(p)

\* Minutes go by, the scheduler's task is polled, and what a site or a command is asked is
\* answered, within its time limit.
Advances(p) ==
  \/ ReadList(p) \/ FetchRules(p) \/ RecordInstall(p) \/ Refresh(p) \/ WriteYaml(p)
  \/ Reload(p) \/ Ask(p) \/ UpdateFound(p) \/ ScopeEnable(p) \/ RemoveSet(p)
Polled(p) == StartJob(p) \/ EndJob(p) \/ SaveStatus(p) \/ (Advances(p) /\ UNCHANGED scheduleVars)

-----------------------------------------------------------------------------
\* A new version of a set that is enabled is loaded by Suricata in the end, when the
\* update is scheduled, whatever failed before: unless operations meet, a client installs
\* an enabled set anew, Suricata does not reload, the daemon stops within an update, or
\* the scheduler's task has ended.
Kept(s) ==
  /\ past = {} /\ plan["rulesets"].on /\ conf.on
  /\ s \in DOMAIN list /\ list[s].enabled
UpdatesLoaded ==
  \A s \in SetId :
    <>[]Kept(s) => <>[](\E e \in loaded : e[1] = s /\ e[2].version = site[s])
=============================================================================
