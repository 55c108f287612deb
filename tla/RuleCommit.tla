------------------------------ MODULE RuleCommit ------------------------------
(***************************************************************************)
(* What a change of the firewall rules promises to the operator: the rules *)
(* the kernel enforces and the rules the API has acknowledged are the same *)
(* list, and they change together, one accepted request at a time.         *)
(***************************************************************************)
EXTENDS Integers, FiniteSets

CONSTANTS
  Rule,      \* firewall rules
  Rejected   \* rules nft refuses to load

VARIABLES
  enforced,  \* the rules in the kernel
  acked      \* the rules every acknowledged request adds up to

vars == <<enforced, acked>>

\* A request creates, deletes or edits one rule.
OneEdit(old, new) ==
  /\ new # old
  /\ Cardinality(new \ old) <= 1 /\ Cardinality(old \ new) <= 1

Init == enforced = {} /\ acked = {}

Commit(new) ==
  /\ OneEdit(acked, new)
  /\ enforced' = new /\ acked' = new

Next == \E new \in SUBSET (Rule \ Rejected) : Commit(new)

Spec == Init /\ [][Next]_vars
=============================================================================
