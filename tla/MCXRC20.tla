------------------------------- MODULE MCXRC20 -------------------------------
(* Small instances of XRC20 for TLC. *)
EXTENDS XRC20Ledger, TLC

CONSTANTS alice, bob, s1, s2, p1, p2, p3

MCAddress == {alice, bob}
MCSupply == {s1, s2}
MCKey == {kOwner, kTotalSupply} \cup BalanceKey
MCValue == MCAddress \cup MCSupply

(* Fields that the code does not look at have a fixed value. *)
Bytes(n, m) == [size |-> n, method |-> m, address |-> alice, word |-> s1]

InitOf(a, s) ==
    [valid |-> TRUE, action |-> "init", sender |-> a,
     data |-> [Bytes(8, 0) EXCEPT !.word = s]]

CallOf(a, d) == [valid |-> TRUE, action |-> "call", sender |-> a, data |-> d]

GetSupply == CallOf(bob, Bytes(1, METHOD_TOTAL_SUPPLY))
GetBalance(sender, a) ==
    CallOf(sender, [Bytes(21, METHOD_BALANCE_OF) EXCEPT !.address = a])

(* Two owners that start the contract over and over, and a reader. *)
MCRequest == {InitOf(alice, s1), InitOf(bob, s2), GetSupply}

(***************************************************************************)
(* One command line on each side of every check of main: the two sides of  *)
(* 8 bytes for init; no call data, one byte, 20 and 21 bytes, a mint and   *)
(* the first byte of a supply for call; an unusable context.               *)
(***************************************************************************)
MCOddRequest ==
    {InitOf(alice, s1),
     [InitOf(alice, s1) EXCEPT !.data = Bytes(7, 0)],
     [InitOf(alice, s1) EXCEPT !.data = Bytes(9, 0)],
     [InitOf(alice, s1) EXCEPT !.valid = FALSE],
     CallOf(bob, Bytes(0, 0)),
     CallOf(bob, Bytes(8, METHOD_TOTAL_SUPPLY)),
     CallOf(bob, Bytes(20, METHOD_BALANCE_OF)),
     GetBalance(bob, alice),
     GetBalance(alice, bob),
     CallOf(bob, Bytes(21, METHOD_MINT))}

Processes == Permutations(Proc)
=============================================================================
