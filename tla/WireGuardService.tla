---------------------------- MODULE WireGuardService ----------------------------
(***************************************************************************)
(* WireGuard tunnels: api/wireguard.rs, engine/vpn.  A request is about    *)
(* one tunnel of the list, and nothing brings tunnels up at startup.       *)
(***************************************************************************)
EXTENDS ServiceRequests

Tunnel(i, v) == {<<"wireguard", e[1], e[2]>> : e \in {d \in v : d[1] = i /\ d[2] # "off"}}
Up(i) == {e \in run["wireguard"] : e[2] = i}

TunnelSteps(i) == <<Step("install", "wireguard", {i}), Step("up", "wireguard", {i})>>

ForTunnel(p, i) == Busy(p) /\ Head(req[p].todo).on = "wireguard" /\ Of(p) = {i}

Rewritten(S, i, c) == {e \in S : e[2] # i} \union c

WriteTunnel(p) == \E i \in Item :
  /\ ForTunnel(p, i)
  /\ Install(p, "wireguard",
             Rewritten(file["wireguard"], i, Tunnel(i, req[p].view.wireguard)))

\* A tunnel that is up is synchronised: its peers change and its address stays.
BringUp(p) == \E i \in Item :
  /\ ForTunnel(p, i) /\ At(p, "up", "wireguard")
  /\ LET says == {e \in file["wireguard"] : e[2] = i}
         up == Up(i) # {}
     IN  IF up \/ (says # {} /\ Accepted(says))
         THEN /\ Advance(p)
              /\ run' = [run EXCEPT !["wireguard"] = IF up THEN @ ELSE @ \union says]
         ELSE Failed(p) /\ UNCHANGED run
  /\ UNCHANGED <<stored, cache, file, cand, made>>

\* wg-quick down reads the file of the tunnel, and fails without it: only a warning.
BringDown(p) == \E i \in Item :
  /\ ForTunnel(p, i) /\ At(p, "down", "wireguard")
  /\ IF \E e \in file["wireguard"] : e[2] = i
     THEN Advance(p) /\ run' = [run EXCEPT !["wireguard"] = Rewritten(@, i, {})]
     ELSE Become(p, Noted(Past(req[p]), "silent")) /\ UNCHANGED run
  /\ UNCHANGED <<stored, cache, file, cand, made>>

RemoveTunnel(p) == \E i \in Item :
  /\ ForTunnel(p, i) /\ At(p, "remove", "wireguard")
  /\ file' = [file EXCEPT !["wireguard"] = Rewritten(@, i, {})]
  /\ Advance(p)
  /\ UNCHANGED <<stored, cache, cand, run, made>>

-----------------------------------------------------------------------------
CreateTunnel(p) == \E i \in Item, m \in {"on", "moved", "off"} :
  LET r == Request(<<Save("wireguard")>> \o
                     (IF m = "off" THEN <<Step("down", "wireguard", {i})>>
                      ELSE TunnelSteps(i)),
                   [stored EXCEPT !.wireguard = Put(@, i, m)], {"wireguard"})
  IN  Begin(p, [r EXCEPT !.item = i])

\* The list is loaded before the tunnel goes down, and saved after.
DeleteTunnel(p) == \E i \in Item :
  LET r == Request(<<Step("down", "wireguard", {i}), Step("remove", "wireguard", {i}),
                     Save("wireguard")>>,
                   [stored EXCEPT !.wireguard = Without(@, i)], {"wireguard"})
  IN  /\ Knows(stored.wireguard, i)
      /\ Begin(p, [r EXCEPT !.item = i])

WireGuardNext(p) ==
  \/ WriteTunnel(p) \/ BringUp(p) \/ BringDown(p) \/ RemoveTunnel(p)
  \/ CreateTunnel(p) \/ DeleteTunnel(p)
=============================================================================
