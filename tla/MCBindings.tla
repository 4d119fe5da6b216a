------------------------------ MODULE MCBindings ------------------------------
(***************************************************************************)
(* Bindings for TLC: two keys, one of them never put, an address, another  *)
(* address, and bytes that are none; an open and three calls behind it.    *)
(***************************************************************************)
EXTENDS Bindings, TLC

CONSTANTS k1, k2, alice, bob, bytes

Keys == Permutations({k1, k2})
Addresses == Permutations({alice, bob})
Symmetry == Keys \cup Addresses
===============================================================================
