----------------------------- MODULE BackgroundBase -----------------------------
(***************************************************************************)
(* What the parts of Background have in common: they share no state, so a  *)
(* behaviour takes place in one of them, and each has its own bounds on    *)
(* requests, failures, restarts and steps of the clock.                    *)
(***************************************************************************)
EXTENDS Naturals, FiniteSets, SequencesExt

CONSTANTS
  Client,   \* requests that may be served at the same time
  Parts,    \* the parts looked at
  Budgets   \* bounds: for each part, what a behaviour may spend, in one of these combinations

Part == {"policy", "login", "acme", "rules", "ddns", "notify"}
Cost == {"requests", "edits", "faults", "restarts", "time"}

ASSUME BackgroundAssumption ==
  Parts \subseteq Part /\ \A p \in Parts : Budgets[p] \subseteq [Cost -> Nat]

VARIABLES
  part,  \* the part this behaviour takes place in
  left,  \* what is left of its budget
  past   \* history: what a property makes an exception of

shared == <<part, left, past>>

If(b, S) == IF b THEN S ELSE {}
Spend(k) == left[k] > 0 /\ left' = [left EXCEPT ![k] = @ - 1]

BaseInit ==
  /\ part \in Parts
  /\ left \in Budgets[part]
  /\ past = {}
=============================================================================
