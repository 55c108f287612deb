------------------------------ MODULE Certificates ------------------------------
(***************************************************************************)
(* Certificates from an ACME directory (engine/acme, api/acme.rs): an      *)
(* order is made when the certificate of the first domain is missing or    *)
(* old, its challenge answered on port 80 or in the DNS, and the           *)
(* certificate and its key are written to two files.                       *)
(*                                                                         *)
(* Nothing orders two orders.  What an order does between two answers it   *)
(* waits for is one step; writing a file is a step.                        *)
(***************************************************************************)
EXTENDS BackgroundBase

CONSTANTS
  Domain,    \* first domains
  AcmePlans  \* configurations that are saved: on, the first domain, how it is challenged

ASSUME AcmeAssumption ==
  AcmePlans # {} /\ \A c \in AcmePlans : c.domain \in Domain

VARIABLES
  acme,     \* the saved configuration
  member,   \* acme_account.json: "none", "torn" or "good"
  crt,      \* crt[d]: the key pair that the certificate of d is for, {} without a file
  pem,      \* pem[d]: the key pair in the key file of d
  old,      \* the domains with a certificate of more than 60 days
  pairs,    \* key pairs made so far
  port,     \* who listens on port 80: an order, or {}
  order     \* order[p]: what p does

acmeVars == <<acme, member, crt, pem, old, pairs, port, order>>

Timer == "timer"
Orderer == Client \union {Timer}
Torn == {0}
NoOrder == [pc |-> "none"]

Moves(p, step) == order' = [order EXCEPT ![p] = [@ EXCEPT !.pc = step]]
Ends(p) == order' = [order EXCEPT ![p] = NoOrder]
Writing(d) ==
  {p \in Orderer : order[p].pc \in {"crt", "key", "delete"} /\ order[p].for.domain = d}
Meets(p, d) == past' = past \union If(Writing(d) \ {p} # {}, {"met"})

SaveAcme == \E c \in AcmePlans :
  /\ Spend("edits") /\ acme' = c
  /\ UNCHANGED <<past, member, crt, pem, old, pairs, port, order>>

\* A request, or the schedule, looks whether there is something to do.
Renew(p) ==
  /\ order[p] = NoOrder /\ Spend(IF p = Timer THEN "time" ELSE "requests")
  /\ IF acme.on /\ (crt[acme.domain] = {} \/ acme.domain \in old)
     THEN order' = [order EXCEPT ![p] = [pc |-> "account", for |-> acme, new |-> 0]]
     ELSE UNCHANGED order
  /\ UNCHANGED <<past, acme, member, crt, pem, old, pairs, port>>

\* The account is read from its file, or registered and written.
Account(p) ==
  /\ order[p].pc = "account"
  /\ \/ /\ member # "torn" /\ UNCHANGED left
        /\ member' = "good" /\ Moves(p, "order")
     \/ member = "torn" /\ UNCHANGED <<member, left>> /\ Ends(p)
     \/ /\ Spend("faults") /\ Ends(p)
        /\ member' = member \/ (member = "none" /\ member' = "torn")
  /\ UNCHANGED <<past, acme, crt, pem, old, pairs, port>>

\* The order, and the port; a port that is taken fails it.
NewOrder(p) ==
  /\ order[p].pc = "order"
  /\ \/ /\ order[p].for.how = "http" /\ UNCHANGED left
        /\ IF port = {} THEN port' = {p} /\ Moves(p, "challenge") ELSE UNCHANGED port /\ Ends(p)
     \/ /\ order[p].for.how = "dns" /\ UNCHANGED left
        /\ Moves(p, "challenge") /\ UNCHANGED port
     \/ order[p].for.how = "manual" /\ UNCHANGED <<left, port>> /\ Ends(p)
     \/ Spend("faults") /\ UNCHANGED port /\ Ends(p)
  /\ UNCHANGED <<past, acme, member, crt, pem, old, pairs>>

\* The listener of an order that ends here is not stopped: nobody else can.
Leaves(p) == port' = IF port = {p} THEN {"nobody"} ELSE port
Stops(p) == port' = port \ {p}

Challenge(p) ==
  /\ order[p].pc = "challenge"
  /\ \/ Moves(p, "poll") /\ UNCHANGED <<left, port>>
     \/ Spend("faults") /\ Leaves(p) /\ Ends(p)
  /\ UNCHANGED <<past, acme, member, crt, pem, old, pairs>>

\* Ready; or invalid or too late; or the directory cannot be asked.
Poll(p) ==
  /\ order[p].pc = "poll"
  /\ \/ Stops(p) /\ Moves(p, "finalise") /\ UNCHANGED left
     \/ Spend("faults") /\ (Stops(p) \/ Leaves(p)) /\ Ends(p)
  /\ UNCHANGED <<past, acme, member, crt, pem, old, pairs>>

\* A mistake to be found: the key is written once it is made.
FinaliseEarly(p) ==
  /\ order[p].pc = "finalise"
  /\ pairs' = pairs + 1
  /\ pem' = [pem EXCEPT ![order[p].for.domain] = {pairs'}]
  /\ \/ order' = [order EXCEPT ![p].pc = "crt", ![p].new = pairs'] /\ UNCHANGED left
        /\ Meets(p, order[p].for.domain)
     \/ Spend("faults") /\ Ends(p) /\ UNCHANGED past
  /\ UNCHANGED <<acme, member, crt, old, port>>

\* A key pair is made, the order finalised with it and the certificate fetched.
Finalise(p) ==
  /\ order[p].pc = "finalise"
  /\ \/ /\ pairs' = pairs + 1 /\ UNCHANGED left
        /\ order' = [order EXCEPT ![p].pc = "crt", ![p].new = pairs']
        /\ Meets(p, order[p].for.domain)
     \/ Spend("faults") /\ Ends(p) /\ UNCHANGED <<pairs, past>>
  /\ UNCHANGED <<acme, member, crt, pem, old, port>>

\* Each file is written in place; one that is torn counts as new.
WriteCrt(p) ==
  /\ order[p].pc = "crt"
  /\ LET d == order[p].for.domain
     IN  /\ old' = old \ {d}
         /\ \/ crt' = [crt EXCEPT ![d] = {order[p].new}] /\ Moves(p, "key") /\ UNCHANGED <<left, past>>
            \/ /\ crt' = [crt EXCEPT ![d] = Torn] /\ Ends(p) /\ Spend("faults")
               /\ past' = past \union {"halved"}
  /\ UNCHANGED <<acme, member, pem, pairs, port>>

WriteKey(p) ==
  /\ order[p].pc = "key"
  /\ LET d == order[p].for.domain
     IN  \/ pem' = [pem EXCEPT ![d] = {order[p].new}] /\ UNCHANGED <<left, past>>
         \/ pem' = [pem EXCEPT ![d] = Torn] /\ Spend("faults") /\ past' = past \union {"halved"}
  /\ Ends(p)
  /\ UNCHANGED <<acme, member, crt, old, pairs, port>>

\* A request removes the certificate, then the key.
DeleteCrt(p) ==
  /\ p \in Client /\ order[p] = NoOrder /\ Spend("requests")
  /\ crt' = [crt EXCEPT ![acme.domain] = {}] /\ old' = old \ {acme.domain}
  /\ order' = [order EXCEPT ![p] = [pc |-> "delete", for |-> acme, new |-> 0]]
  /\ Meets(p, acme.domain)
  /\ UNCHANGED <<acme, member, pem, pairs, port>>

DeleteKey(p) ==
  /\ order[p].pc = "delete"
  /\ \/ pem' = [pem EXCEPT ![order[p].for.domain] = {}] /\ UNCHANGED <<left, past>>
     \/ UNCHANGED pem /\ Spend("faults") /\ past' = past \union {"halved"}
  /\ Ends(p)
  /\ UNCHANGED <<acme, member, crt, old, pairs, port>>

\* Two months go by.
Ages ==
  /\ Spend("time")
  /\ old' = {d \in Domain : crt[d] # {}}
  /\ UNCHANGED <<past, acme, member, crt, pem, pairs, port, order>>

\* The daemon stops, within the writing of the account's file too, and its listeners with it.
AcmeRestart ==
  /\ Spend("restarts")
  /\ past' = past \union If(\E d \in Domain : Writing(d) # {}, {"cut"})
  /\ member' = member
     \/ (member = "none" /\ member' = "torn" /\ \E p \in Orderer : order[p].pc = "account")
  /\ port' = {} /\ order' = [p \in Orderer |-> NoOrder]
  /\ UNCHANGED <<acme, crt, pem, old, pairs>>

AcmeInit ==
  /\ acme \in IF part = "acme" THEN AcmePlans ELSE {CHOOSE x \in AcmePlans : TRUE}
  /\ member = "none" /\ pairs = 0 /\ old = {} /\ port = {}
  /\ crt = [d \in Domain |-> {}] /\ pem = crt
  /\ order = [p \in Orderer |-> NoOrder]

AcmeNext ==
  \/ SaveAcme \/ Ages \/ AcmeRestart
  \/ \E p \in Orderer :
       \/ Renew(p) \/ Account(p) \/ NewOrder(p) \/ Challenge(p) \/ Poll(p) \/ Finalise(p)
       \/ WriteCrt(p) \/ WriteKey(p) \/ DeleteCrt(p) \/ DeleteKey(p)

-----------------------------------------------------------------------------
\* The files of a domain are of one key pair, so that the listener for the interface can
\* start with them, however the orders went: unless a file cannot be written, the daemon
\* stops between the two, or two operations write them at the same time.
PairsMatch ==
  past = {} => \A d \in Domain : Writing(d) = {} => crt[d] = pem[d]
=============================================================================
