-------------------------------- MODULE Ledger -------------------------------
(***************************************************************************)
(* What c-xrc20 promises the people who run it: transactions take effect   *)
(* one at a time, each at a single instant, when its process ends.  The    *)
(* ledger is the sequence of the inits that took effect.  An init that     *)
(* exits with 0 counts in full; one that fails or is killed may count in   *)
(* part, as its first one, two or three effects; no other transaction      *)
(* counts.  A query answers from the whole ledger.  A power loss may drop  *)
(* the newest part of the ledger.                                          *)
(*                                                                         *)
(* The records are those of XRC20; there are no puts, no log and no lock.  *)
(***************************************************************************)
EXTENDS Naturals, Sequences

CONSTANTS Proc, Request, None

VARIABLES
    txs,    \* the inits that count: their process and how many effects count
    req,    \* the command line of each process
    state,  \* Idle, Running, Killed or Exited with a status
    reply   \* the answer to a query

vars == <<txs, req, state, reply>>

Idle == <<"idle">>
Running == <<"running">>
Killed == <<"killed">>
Exited(code) == <<"exited", code>>

Init ==
    /\ txs = << >>
    /\ req = [p \in Proc |-> None]
    /\ state = [p \in Proc |-> Idle]
    /\ reply = [p \in Proc |-> None]

----------------------------------------------------------------------------
MakesSupply(r) == r.valid /\ r.action = "init" /\ r.data.size = 8
AsksSupply(r) ==
    r.valid /\ r.action = "call" /\ r.data.size >= 1 /\ r.data.method = 0
AsksBalance(r) ==
    r.valid /\ r.action = "call" /\ r.data.size = 21 /\ r.data.method = 1

WellFormed(r) == MakesSupply(r) \/ AsksSupply(r) \/ AsksBalance(r)

(* The newest j in txs for which Has(j), read through Field; None if none. *)
NewestTx(Has(_), Field(_)) ==
    LET J == {j \in 1 .. Len(txs) : Has(j)}
    IN IF J = {} THEN None ELSE Field(CHOOSE j \in J : \A i \in J : i <= j)

SupplyOf(j) == req[txs[j].by].data.word

TotalSupply ==
    LET Has(j) == txs[j].effects >= 2 IN NewestTx(Has, SupplyOf)

BalanceOf(a) ==
    LET Has(j) == txs[j].effects = 3 /\ req[txs[j].by].sender = a
    IN NewestTx(Has, SupplyOf)

Answer(r) == IF AsksSupply(r) THEN TotalSupply ELSE BalanceOf(r.data.address)

(* The statuses with which a process may fail, and why. *)
Failures(r) ==
    {101, 255} \cup (IF ~r.valid THEN {100} ELSE IF WellFormed(r) THEN {} ELSE {1})

(* The ledger after n effects of p's init. *)
WithEffects(p, n) ==
    IF n = 0 THEN txs ELSE Append(txs, [by |-> p, effects |-> n])

Partial(p) == IF MakesSupply(req[p]) THEN 0 .. 3 ELSE {0}

----------------------------------------------------------------------------
Launch(p) ==
    /\ state[p] = Idle
    /\ state' = [state EXCEPT ![p] = Running]
    /\ \E r \in Request : req' = [req EXCEPT ![p] = r]
    /\ UNCHANGED <<reply, txs>>

End(p, outcome) ==
    /\ state[p] = Running
    /\ state' = [state EXCEPT ![p] = outcome]
    /\ UNCHANGED req

Succeed(p) ==
    /\ End(p, Exited(0))
    /\ \/ /\ MakesSupply(req[p])
          /\ txs' = WithEffects(p, 3)
          /\ UNCHANGED reply
       \/ /\ AsksSupply(req[p]) \/ AsksBalance(req[p])
          /\ Answer(req[p]) # None
          /\ reply' = [reply EXCEPT ![p] = Answer(req[p])]
          /\ UNCHANGED txs

Fail(p) ==
    /\ state[p] = Running
    /\ \E c \in Failures(req[p]) : End(p, Exited(c))
    /\ \E n \in Partial(p) : txs' = WithEffects(p, n)
    /\ UNCHANGED reply

Kill(p) ==
    /\ End(p, Killed)
    /\ \E n \in Partial(p) : txs' = WithEffects(p, n)
    /\ UNCHANGED reply

(* The beginnings of ledger v: the last init that is left may count in part. *)
Beginnings(v) ==
    {<< >>} \cup
    UNION {{[SubSeq(v, 1, n) EXCEPT ![n].effects = m] : m \in 1 .. v[n].effects} :
            n \in 1 .. Len(v)}

PowerLoss ==
    /\ state' = [p \in Proc |-> IF state[p] = Running THEN Killed ELSE state[p]]
    /\ UNCHANGED <<req, reply>>
    /\ \E p \in Proc : \E n \in IF state[p] = Running THEN Partial(p) ELSE {0} :
        txs' \in Beginnings(WithEffects(p, n))

Next ==
    \/ \E p \in Proc : Launch(p) \/ Succeed(p) \/ Fail(p) \/ Kill(p)
    \/ PowerLoss

Spec == Init /\ [][Next]_vars
=============================================================================
