----------------------------- MODULE XRC20Ledger -----------------------------
(***************************************************************************)
(* XRC20 implements Ledger.  A process takes effect when it ends, so the   *)
(* mapping leaves out of the ledger what the process that now has the      *)
(* store has put so far, and hides a status and a reply until the process  *)
(* has exited.                                                             *)
(***************************************************************************)
EXTENDS XRC20, FiniteSets

(***************************************************************************)
(* The inits in the first n records of log w.  Each begins with its owner, *)
(* so the owners list them in order.                                       *)
(***************************************************************************)
Heads(w, n) == {i \in 1 .. n : w[i].key = kOwner}

(* The members of a finite set of numbers in increasing order. *)
Sorted == [S \in SUBSET Nat |->
    [j \in 1 .. Cardinality(S) |->
        CHOOSE i \in S : Cardinality({h \in S : h <= i}) = j]]

(* How many of its records the init that begins at i has there. *)
Effects(w, n, i) ==
    LET Has(e) == i + e - 1 <= n /\ w[i + e - 1].by = w[i].by
    IN IF Has(3) THEN 3 ELSE IF Has(2) THEN 2 ELSE 1

Tx(w, n, i) == [by |-> w[i].by, effects |-> Effects(w, n, i)]

InitsOf(w, n) ==
    LET heads == Sorted[Heads(w, n)]
        tx == [i \in Heads(w, n) |-> Tx(w, n, i)]
    IN [j \in DOMAIN heads |-> tx[heads[j]]]

(* How many records the processes that have ended have in the log. *)
Settled == Cardinality({i \in 1 .. Len(wal) : wal[i].by # lock})

State(p) ==
    IF pc[p] = "exited" THEN <<"exited", status[p]>>
    ELSE IF pc[p] \in Running THEN <<"running">> ELSE <<pc[p]>>

Transactions == InitsOf(wal, Settled)
States == [p \in Proc |-> State(p)]
Replies == [p \in Proc |-> IF pc[p] = "exited" THEN reply[p] ELSE None]

L == INSTANCE Ledger WITH txs <- Transactions, state <- States, reply <- Replies

(***************************************************************************)
(* Every behaviour of the contract, with its separate puts, its lock and   *)
(* its crashes, is one of the ledger's, where a transaction is one step:   *)
(* no reader sees half of a running init, no init overlaps another, and    *)
(* what is printed is what the ledger holds.                               *)
(***************************************************************************)
ImplementsLedger == L!Spec
=============================================================================
