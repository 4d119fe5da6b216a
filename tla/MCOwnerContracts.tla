--------------------------- MODULE MCOwnerContracts ---------------------------
(***************************************************************************)
(* OwnerContracts for TLC: an init of alice in C or Rust, one of bob in C  *)
(* or C++, and a third process that reads in C or Rust or is refused, in   *)
(* any order.                                                              *)
(***************************************************************************)
EXTENDS OwnerContracts

CONSTANTS p1, p2, p3, alice, bob, behind

Req(lang, valid, action, sender) ==
    [lang |-> lang, valid |-> valid, action |-> action, sender |-> sender]

Init1 == {Req(l, TRUE, "init", alice) : l \in {"c", "rust"}}
Init2 == {Req(l, TRUE, "init", bob) : l \in {"c", "cpp"}}
Call3 == {Req(l, TRUE, "call", alice) : l \in {"c", "rust"}}
           \cup {Req("rust", FALSE, "call", alice)}

OwnerRequest == [p \in Proc |-> CASE p = p1 -> Init1 [] p = p2 -> Init2 [] OTHER -> Call3]
OwnerKeys == {<<"owner", "NUL", behind>>, <<"owner">>}
===============================================================================
