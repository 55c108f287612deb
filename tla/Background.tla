------------------------------- MODULE Background -------------------------------
(***************************************************************************)
(* What the daemon does besides serving the configuration: the AI policy   *)
(* engine (PolicyEngine), the system schedules with the rule sets of       *)
(* Suricata (Schedules, RuleSets), the certificate orders and their        *)
(* renewal (Certificates), logins and sessions (Login), dynamic DNS        *)
(* (DynamicDns), and the mails about threats (Notifications).              *)
(***************************************************************************)
EXTENDS PolicyEngine, Schedules, Certificates, Login, DynamicDns, Notifications

ruleVars == <<setVars, scheduleVars>>
vars == <<shared, policyVars, ruleVars, acmeVars, loginVars, ddnsVars, notifyVars>>

Init == BaseInit /\ PolicyInit /\ ScheduleInit /\ AcmeInit /\ LoginInit /\ DdnsInit /\ NotifyInit

Within(p, own) == part = p /\ own /\ UNCHANGED part
Policies == Within("policy", PolicyNext)
            /\ UNCHANGED <<ruleVars, acmeVars, loginVars, ddnsVars, notifyVars>>
InRules(own) == Within("rules", own)
                /\ UNCHANGED <<policyVars, acmeVars, loginVars, ddnsVars, notifyVars>>
Acme == Within("acme", AcmeNext)
        /\ UNCHANGED <<policyVars, ruleVars, loginVars, ddnsVars, notifyVars>>
Logins == Within("login", LoginNext)
          /\ UNCHANGED <<policyVars, ruleVars, acmeVars, ddnsVars, notifyVars>>
Updates == Within("ddns", DdnsNext)
           /\ UNCHANGED <<policyVars, ruleVars, acmeVars, loginVars, notifyVars>>
Mails == Within("notify", NotifyNext)
         /\ UNCHANGED <<policyVars, ruleVars, acmeVars, loginVars, ddnsVars>>

Next == Policies \/ InRules(ScheduleNext) \/ Acme \/ Logins \/ Updates \/ Mails

Fairness ==
  /\ WF_vars(InRules(Minute)) /\ WF_vars(InRules(SchedulerTick))
  /\ \A p \in Runner : WF_vars(InRules(Polled(p)))
Spec == Init /\ [][Next]_vars /\ Fairness
=============================================================================
