------------------------------ MODULE MCBackground ------------------------------
EXTENDS Background

Seen == [src |-> "net", proto |-> "tcp", port |-> 23, blocked |-> TRUE, iface |-> "wan", at |-> 1]
MCTraffic == {Seen,
              [Seen EXCEPT !.src = "lan", !.iface = "lan", !.proto = "icmp", !.port = 0]}
Wish == [on |-> TRUE, proto |-> "any", port |-> 0, iface |-> "", sources |-> {"lan"}, lan |-> TRUE,
         action |-> "allow"]
MCIntentLists == {<<Wish>>, <<[Wish EXCEPT !.on = FALSE], [Wish EXCEPT !.sources = {}, !.port = 23]>>}
MCLimits ==
  {[threshold |-> 50, intent |-> FALSE, proto |-> TRUE, port |-> FALSE, hourly |-> 1,
    edits |-> TRUE, management |-> FALSE]}
Offered == [name |-> "dns", private |-> TRUE, listen |-> {}, port |-> 53, six |-> FALSE]
MCAppliance ==
  [lan |-> {"lan"}, six |-> TRUE, management |-> {"wan"}, ports |-> {22},
   services |-> {Offered, [Offered EXCEPT !.name = "dhcp6", !.private = FALSE, !.listen = {"lan"}, !.six = TRUE, !.port = 547],
                 [Offered EXCEPT !.name = "wireguard", !.private = FALSE, !.port = 51820]}]

Default == [threshold |-> 75, intent |-> TRUE, proto |-> TRUE, port |-> TRUE, hourly |-> 10,
            edits |-> FALSE, management |-> TRUE]
MCSaved == {[mode |-> "monitor", settings |-> Default, intents |-> <<>>],
            [mode |-> "control", settings |-> Default, intents |-> <<Wish>>]}
            \union {[mode |-> "control", settings |-> l, intents |-> <<>>] : l \in MCLimits}
MCBudgets == [p \in Parts |->
  CASE p = "policy" -> {[requests |-> 2, edits |-> 0, faults |-> 1, restarts |-> 0, time |-> 1],
                        [requests |-> 1, edits |-> 0, faults |-> 1, restarts |-> 1, time |-> 1],
                        [requests |-> 1, edits |-> 1, faults |-> 0, restarts |-> 0, time |-> 2],
                        [requests |-> 0, edits |-> 1, faults |-> 1, restarts |-> 1, time |-> 1]}
    [] p = "rules" ->
         {[requests |-> 1, edits |-> 0, faults |-> 0, restarts |-> 0, time |-> 0],
          [requests |-> 0, edits |-> 1, faults |-> 1, restarts |-> 1, time |-> 0]}
    [] p = "acme" ->
         {[requests |-> 2, edits |-> 0, faults |-> 1, restarts |-> 1, time |-> 1],
          [requests |-> 1, edits |-> 1, faults |-> 1, restarts |-> 0, time |-> 2]}
    [] p = "login" ->
         {[requests |-> 4, edits |-> 0, faults |-> 0, restarts |-> 0, time |-> 0],
          [requests |-> 3, edits |-> 0, faults |-> 0, restarts |-> 0, time |-> 1],
          [requests |-> 2, edits |-> 1, faults |-> 1, restarts |-> 1, time |-> 0]}
    [] p = "ddns" ->
         {[requests |-> 2, edits |-> 0, faults |-> 1, restarts |-> 0, time |-> 1],
          [requests |-> 1, edits |-> 1, faults |-> 1, restarts |-> 0, time |-> 0],
          [requests |-> 1, edits |-> 0, faults |-> 1, restarts |-> 1, time |-> 1]}
    [] p = "notify" ->
         {[requests |-> 4, edits |-> 0, faults |-> 1, restarts |-> 0, time |-> 4],
          [requests |-> 2, edits |-> 1, faults |-> 1, restarts |-> 1, time |-> 3]}]

MCBootstraps == {[mode |-> TRUE, with |-> {"strict", "services"}], [mode |-> FALSE, with |-> {"services"}]}
MCAcmePlans == {[on |-> TRUE, domain |-> "a", how |-> h] : h \in {"http", "dns", "manual"}}
               \union {[on |-> FALSE, domain |-> "a", how |-> "http"],
                       [on |-> TRUE, domain |-> "b", how |-> "http"]}
MCSecurities == {[attempts |-> 2, lock |-> 1, session |-> 2], [attempts |-> 3, lock |-> 1, session |-> 1]}
MCFirstKeys == {[value |-> 1, full |-> f] : f \in BOOLEAN}

Known(l) == [s \in DOMAIN l |-> [enabled |-> l[s], status |-> "installed", version |-> 1]]
MCSomeLists == {Known([s \in {"et"} |-> TRUE]), Known([s \in {"et"} |-> FALSE]), <<>>}
MCWatched == {[on |-> TRUE, at |-> {"lan"}], [on |-> FALSE, at |-> {"lan"}]}
Daily == [on |-> TRUE, every |-> 1]
MCPlans == {[rulesets |-> Daily]}

MCDdnsPlans ==
  LET e(h, i, c) == [on |-> TRUE, host |-> h, iface |-> i, cloud |-> c, password |-> TRUE]
      entered(f) == [on |-> TRUE, entries |-> f]
  IN  {entered(<<e("home", "wan", TRUE), e("office", "wan", FALSE)>>),
       entered(<<[e("home", "wan", TRUE) EXCEPT !.password = FALSE], e("home", "lte", TRUE)>>),
       entered(<<[e("home", "wan", TRUE) EXCEPT !.on = FALSE], e("office", "lte", TRUE)>>),
       [entered(<<e("home", "wan", TRUE)>>) EXCEPT !.on = FALSE]}
MCMailPlans ==
  {[on |-> TRUE, wants |-> TRUE, digest |-> d, limit |-> n] : d \in BOOLEAN, n \in 1..2}
  \union {[on |-> FALSE, wants |-> TRUE, digest |-> FALSE, limit |-> 1]}
=============================================================================
