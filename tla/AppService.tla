------------------------------- MODULE AppService -------------------------------
(***************************************************************************)
(* Programs that are not reconciled at startup: Suricata (api/suricata.rs, *)
(* engine/suricata), Caddy (api/caddy.rs) and the Cloudflare tunnel        *)
(* (api/cloudflared.rs).                                                   *)
(***************************************************************************)
EXTENDS ServiceRequests

App == {"suricata", "caddy", "tunnel"}
Running(u, k) == If(Has(k[u], "enabled"), Entries(u, k[u]))

Monitored(c) == {e \in c : e[2] \in Port}

\* Mutant of AppOff: the app is not stopped.
AppOffStaysUp(u) == <<Plain("install", u)>>

\* An app that is switched off is stopped.
AppOff(u) == <<Plain("install", u), Plain("stop", u)>>

SuricataSteps(v) ==
  IF Has(v, "enabled")
  THEN <<Plain("install", "suricata"), Plain("signal", "suricata"), Plain("enable", "suricata")>>
  ELSE <<Plain("stop", "suricata")>>

\* A Suricata that runs reloads its rules and stays on its interfaces; if there is none,
\* or it cannot be told, it is started.
SignalSuricata(p) ==
  /\ At(p, "signal", "suricata")
  /\ LET old == run["suricata"]
         new == file["suricata"]
     IN  IF old = {} THEN Advance(p) /\ UNCHANGED run
         ELSE /\ Become(p, Skip(req[p], "suricata"))
              /\ run' = [run EXCEPT !["suricata"] = (new \ Monitored(new)) \union Monitored(old)]
  /\ UNCHANGED <<stored, cache, file, cand, made>>

CaddySteps(v) ==
  IF Has(v, "enabled")
  THEN <<Plain("install", "caddy"), Plain("enable", "caddy"), Plain("reload", "caddy")>>
  ELSE AppOff("caddy")

\* systemctl start, and enable --now: a service that runs already goes on as it is.
Enable(p) == \E u \in App :
  /\ At(p, "enable", u)
  /\ IF run[u] # {} \/ Accepted(file[u])
     THEN Advance(p) /\ run' = [run EXCEPT ![u] = IF @ = {} THEN file[u] ELSE @]
     ELSE Failed(p) /\ UNCHANGED run
  /\ UNCHANGED <<stored, cache, file, cand, made>>

\* Caddy goes on with what it has when it does not accept the new file.
ReloadCaddy(p) ==
  /\ At(p, "reload", "caddy")
  /\ IF run["caddy"] # {} /\ Accepted(file["caddy"])
     THEN Advance(p) /\ run' = [run EXCEPT !["caddy"] = file["caddy"]]
     ELSE Failed(p) /\ UNCHANGED run
  /\ UNCHANGED <<stored, cache, file, cand, made>>

TunnelAppSteps(v) ==
  IF Has(v, "enabled") THEN <<Plain("install", "tunnel"), Plain("enable", "tunnel")>>
  ELSE AppOff("tunnel")

InstallApp(p) == \E u \in App : Install(p, u, Entries(u, req[p].view[u]))
StopApp(p) == \E u \in App : Set(p, "stop", u, {})
RestartApp(p) == \E u \in App : Start(p, u)

-----------------------------------------------------------------------------
ApplyApp(p, u, v, steps) ==
  /\ part = u
  /\ Begin(p, Request(<<Save(u)>> \o steps, [stored EXCEPT ![u] = v], {u}))

OnOff(v, on) == Flagged(v, "enabled", on)
Some(S) == {<<i, "on">> : i \in S}

UpdateSuricata(p) == \E on \in BOOLEAN, S \in SUBSET (Item \ Refused), F \in SUBSET Port :
  LET v == OnOff(Some(S \union F), on)
  IN  ApplyApp(p, "suricata", v, SuricataSteps(v))

UpdateInterfaceSuricata(p) == \E f \in Port, monitored \in BOOLEAN :
  LET v == Flagged(stored.suricata, f, monitored)
  IN  ApplyApp(p, "suricata", v, SuricataSteps(v))

UpdateCaddy(p) == \E on \in BOOLEAN, S \in SUBSET Item :
  LET v == OnOff(Some(S), on)
  IN  ApplyApp(p, "caddy", v, CaddySteps(v))

UpdateTunnel(p) == \E on \in BOOLEAN, S \in SUBSET Item :
  LET v == OnOff(Some(S), on)
  IN  ApplyApp(p, "tunnel", v, TunnelAppSteps(v))

\* restart_service does not ask whether the service is switched on.
RestartCaddy(p) ==
  part = "caddy" /\ Begin(p, Request(<<Plain("start", "caddy")>>, stored, {}))

RestartTunnel(p) ==
  part = "tunnel" /\ Begin(p, Request(<<Plain("start", "tunnel")>>, stored, {}))

AppNext(p) ==
  \/ InstallApp(p) \/ StopApp(p) \/ RestartApp(p) \/ Enable(p)
  \/ SignalSuricata(p) \/ ReloadCaddy(p)
  \/ UpdateSuricata(p) \/ UpdateInterfaceSuricata(p) \/ UpdateCaddy(p) \/ UpdateTunnel(p)
  \/ RestartCaddy(p) \/ RestartTunnel(p)
=============================================================================
