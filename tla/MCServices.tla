------------------------------ MODULE MCServices ------------------------------
(***************************************************************************)
(* A small instance of Services: "a" is an interface with a gateway, "b" a *)
(* VLAN on it, and an entry that a checker, or the kernel, does not accept.*)
(***************************************************************************)
EXTENDS Services

MCVlan == {<<"b", "a">>}
=============================================================================
