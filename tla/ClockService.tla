------------------------------ MODULE ClockService ------------------------------
(***************************************************************************)
(* The clock: api/ntp.rs, ntp/apply.rs.  systemd-timesyncd follows the     *)
(* servers, chrony can serve clients too; one of the two is to run.        *)
(***************************************************************************)
EXTENDS ServiceRequests

CONSTANT HasTimesyncd \* systemd-timesyncd is installed; chrony always is

Other(u) == IF u = "chrony" THEN "timesyncd" ELSE "chrony"
Chosen(v) == IF Has(v, "serve") \/ ~HasTimesyncd THEN "chrony" ELSE "timesyncd"

Timed(u, k) == If(Has(k.ntp, "enabled") /\ u = Chosen(k.ntp), Entries("ntp", k.ntp))

\* apply_ntp_config
ClockSteps(v) ==
  LET u == Chosen(v)
  IN  IF Has(v, "enabled")
      THEN <<Plain("install", u), Plain("retire", Other(u)), Plain("start", u)>>
      ELSE <<Plain("stop", "timesyncd"), Plain("stop", "chrony")>>

InstallClock(p) == \E u \in Clock : Install(p, u, Timed(u, req[p].view))

\* A service is stopped, and stays enabled.
StopClock(p) == \E u \in Clock, do \in {"stop", "retire"} : Set(p, do, u, {})

RestartClock(p) == \E u \in Clock : Start(p, u)

\* Mutant of UpdateNtp: the section is saved before it is applied.
UpdateNtpEarly(p) == \E on, serve \in BOOLEAN, S \in SUBSET (Item \ Refused) :
  LET v == Flagged(Flagged({<<i, "on">> : i \in S}, "enabled", on), "serve", serve)
  IN  Begin(p, Request(<<Save("ntp")>> \o ClockSteps(v), [stored EXCEPT !.ntp = v], Clock))

\* The section is saved after it has been applied.
UpdateNtp(p) == \E on, serve \in BOOLEAN, S \in SUBSET (Item \ Refused) :
  LET v == Flagged(Flagged({<<i, "on">> : i \in S}, "enabled", on), "serve", serve)
  IN  Begin(p, Request(ClockSteps(v) \o <<Save("ntp")>>, [stored EXCEPT !.ntp = v], Clock))

ClockStartup(k) == ClockSteps(k.ntp)

ClockNext(p) == InstallClock(p) \/ StopClock(p) \/ RestartClock(p) \/ UpdateNtp(p)
=============================================================================
