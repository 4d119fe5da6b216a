----------------------------- MODULE XRC20Proofs -----------------------------
(***************************************************************************)
(* The safety properties of XRC20 for every set of processes, addresses,   *)
(* supplies and command lines.                                             *)
(*                                                                         *)
(* None of them is inductive alone.  The strengthening Inv adds what makes *)
(* them so: a process between opening the store and exiting holds the      *)
(* lock, hence nobody else appends, hence the newest records of the log    *)
(* are the ones this process has put so far.                               *)
(*                                                                         *)
(* The second half proves that XRC20 implements Ledger.  It takes lemmas   *)
(* about sets of numbers and their members in order, about logs that are   *)
(* made of inits, and a further strengthening, LedgerInv.                  *)
(***************************************************************************)
EXTENDS XRC20Ledger, FiniteSetTheorems, WellFoundedInduction, TLAPS

HoldsLock == \A p \in Proc : pc[p] \in Inside => lock = p

OwnerRecord(p) == [by |-> p, key |-> kOwner, val |-> req[p].sender]
SupplyRecord(p) == [by |-> p, key |-> kTotalSupply, val |-> req[p].data.word]
BalanceRecord(p) ==
    [by |-> p, key |-> keyBalanceOf(req[p].sender), val |-> req[p].data.word]

(* What process p has put so far is at the end of the log. *)
PutSoFar(p) ==
    /\ pc[p] \in {"putTotalSupply", "putBalance", "return"} => req[p].action = "init"
    /\ pc[p] = "putTotalSupply" =>
        /\ Len(wal) >= 1
        /\ wal[Len(wal)] = OwnerRecord(p)
    /\ pc[p] = "putBalance" =>
        /\ Len(wal) >= 2
        /\ wal[Len(wal) - 1] = OwnerRecord(p)
        /\ wal[Len(wal)] = SupplyRecord(p)
    /\ pc[p] = "return" =>
        /\ Len(wal) >= 3
        /\ wal[Len(wal) - 2] = OwnerRecord(p)
        /\ wal[Len(wal) - 1] = SupplyRecord(p)
        /\ wal[Len(wal)] = BalanceRecord(p)

Progress == \A p \in Proc : PutSoFar(p)

(* Only a process that has called exit has a status. *)
NoEarlyStatus ==
    \A p \in Proc : pc[p] \in {"idle", "open"} \cup Inside => status[p] = NoStatus

Inv ==
    /\ TypeOK
    /\ HoldsLock
    /\ Progress
    /\ NoEarlyStatus
    /\ InitsNeverMix
    /\ SuccessMeansAllPut

----------------------------------------------------------------------------
(* The three kinds of keys of the contract differ. *)
LEMMA KeysDiffer ==
    /\ kOwner # kTotalSupply
    /\ \A a : keyBalanceOf(a) # kOwner /\ keyBalanceOf(a) # kTotalSupply
BY DEF kOwner, kTotalSupply, keyBalanceOf

(* The newest value of a key is that of its record with no later one. *)
LEMMA NewestIsLast ==
    ASSUME NEW w, Len(w) \in Nat, NEW k, NEW n \in 1 .. Len(w),
           w[n].key = k, \A j \in n + 1 .. Len(w) : w[j].key # k
    PROVE  Newest(w, k) = w[n].val
<1>1. LastPut(w, k) = {n}
  BY DEF LastPut
<1>2. QED
  BY <1>1 DEF Newest

(* A put adds a record of the right type, whatever else the step does. *)
LEMMA AppendType ==
    ASSUME NEW p \in Proc, NEW k \in Key, NEW v \in Value, StoreTypeOK,
           AppendRecord(p, k, v)
    PROVE  /\ StoreTypeOK'
           /\ Len(wal') = Len(wal) + 1
           /\ wal'[Len(wal) + 1] = [by |-> p, key |-> k, val |-> v]
           /\ \A i \in 1 .. Len(wal) : wal'[i] = wal[i]
BY DEF StoreTypeOK, AppendRecord, Record

(* The three kinds of key of the contract are keys of the store. *)
LEMMA ContractKeys ==
    kOwner \in Key /\ kTotalSupply \in Key /\ \A a \in Address : keyBalanceOf(a) \in Key
BY XRC20Assumption DEF BalanceKey

(* Every command line names an operation, and its sender and data have their types. *)
LEMMA RequestFields ==
    ASSUME NEW r \in Request
    PROVE  r.sender \in Value /\ r.data.word \in Value /\ r.sender \in Address
             /\ r.data.address \in Address
BY XRC20Assumption DEF Requests, Data

(* The value a get answers with is a stored one. *)
LEMMA NewestType ==
    ASSUME NEW k, StoreTypeOK, Newest(wal, k) # None
    PROVE  Newest(wal, k) \in Value
<1>1. PICK n \in LastPut(wal, k) : Newest(wal, k) = wal[n].val
  BY DEF Newest
<1>2. wal[n] \in Record
  BY <1>1 DEF LastPut, StoreTypeOK
<1>3. QED
  BY <1>1, <1>2 DEF Record

----------------------------------------------------------------------------
Statuses == {0, QERR_GENERAL, QERR_INVALID_CONTEXT, QERR_STORAGE, QERR_OOM, NoStatus}
Labels == {"idle"} \cup Running \cup Ended

(* A put, whether it succeeds, fails or fails after all, keeps the types. *)
LEMMA PutType ==
    ASSUME NEW p \in Proc, NEW k \in Key, NEW v \in Value, NEW next \in Inside,
           TypeOK, pc[p] # "idle", Put(p, k, v, next)
    PROVE  TypeOK'
<1>. USE DEF TypeOK, Statuses, FailWith, ExitWith, Goto
<1>1. StoreTypeOK'
  <2>1. CASE AppendRecord(p, k, v)
    BY <2>1, AppendType
  <2>2. CASE UNCHANGED storeVars
    BY <2>2 DEF storeVars, StoreTypeOK
  <2>3. QED
    BY <2>1, <2>2 DEF Put
<1>2. req' = req /\ reply' = reply
  BY DEF Put
<1>3. pc' \in [Proc -> Labels] /\ \A q \in Proc : pc'[q] # "idle" => pc[q] # "idle"
  BY DEF Put, Labels, Running, Inside
<1>4. status' \in [Proc -> Statuses]
  BY DEF Put
<1>5. QED
  BY <1>1, <1>2, <1>3, <1>4 DEF Labels

(* A failure with one of the statuses of the code keeps the types. *)
LEMMA FailType ==
    ASSUME NEW p \in Proc, NEW c \in Statuses, TypeOK, pc[p] # "idle",
           FailWith(p, c), UNCHANGED storeVars
    PROVE  TypeOK'
BY DEF TypeOK, StoreTypeOK, storeVars, Statuses, FailWith, ExitWith, Goto, Running

(* A failing qtum_get ends the process and leaves the store as it is. *)
LEMMA GetType ==
    ASSUME NEW p \in Proc, NEW k \in Key, TypeOK, pc[p] # "idle", Get(p, k)
    PROVE  TypeOK'
<1>1. CASE FailWith(p, QERR_STORAGE)
  BY <1>1, FailType DEF Get, Statuses
<1>2. CASE ~FailWith(p, QERR_STORAGE)
  <2>1. Newest(wal, k) \in Value
    BY <1>2, NewestType DEF Get, TypeOK
  <2>2. QED
    BY <1>2, <2>1 DEF Get, TypeOK, StoreTypeOK, storeVars, ExitWith, Goto, Running
<1>3. QED
  BY <1>1, <1>2

(* The types are an invariant of every step. *)
LEMMA TypeStep == TypeOK /\ [Next]_vars => TypeOK'
<1> SUFFICES ASSUME TypeOK, [Next]_vars
             PROVE  TypeOK'
  OBVIOUS
<1>1. ASSUME NEW p \in Proc, Launch(p)
      PROVE  TypeOK'
  BY <1>1 DEF TypeOK, StoreTypeOK, storeVars, Launch, Goto, Running
<1>2. ASSUME NEW p \in Proc,
             OpenRejected(p) \/ OpenStoreFails(p) \/ InitRejected(p) \/ HandleRejected(p)
      PROVE  TypeOK'
  BY <1>2, FailType
  DEF OpenRejected, OpenStoreFails, InitRejected, HandleRejected, Statuses
<1>3. ASSUME NEW p \in Proc, OpenStore(p)
      PROVE  TypeOK'
  BY <1>3 DEF OpenStore, LockStore, TypeOK, StoreTypeOK, Goto, Running, Inside
<1>4. ASSUME NEW p \in Proc, PutOwner(p) \/ PutTotalSupply(p) \/ PutBalance(p)
      PROVE  TypeOK'
  <2>1. pc[p] # "idle" /\ req[p] \in Request
    BY <1>4 DEF TypeOK, PutOwner, PutTotalSupply, PutBalance
  <2>2. req[p].sender \in Value /\ req[p].data.word \in Value
          /\ kOwner \in Key /\ kTotalSupply \in Key /\ keyBalanceOf(req[p].sender) \in Key
    BY <2>1, RequestFields, ContractKeys
  <2>3. {"putTotalSupply", "putBalance", "return"} \subseteq Inside
    BY DEF Inside
  <2>4. QED
    BY <1>4, <2>1, <2>2, <2>3, PutType DEF PutOwner, PutTotalSupply, PutBalance
<1>5. ASSUME NEW p \in Proc, ReturnFromMain(p)
      PROVE  TypeOK'
  BY <1>5 DEF ReturnFromMain, ExitWith, Goto, TypeOK, StoreTypeOK, storeVars, Running
<1>6. ASSUME NEW p \in Proc, TotalSupply(p) \/ BalanceOf(p)
      PROVE  TypeOK'
  <2>1. pc[p] # "idle" /\ req[p] \in Request
    BY <1>6 DEF TypeOK, TotalSupply, BalanceOf
  <2>2. kTotalSupply \in Key /\ keyBalanceOf(req[p].data.address) \in Key
    BY <2>1, RequestFields, ContractKeys
  <2>3. QED
    BY <1>6, <2>1, <2>2, GetType DEF TotalSupply, BalanceOf
<1>7. ASSUME NEW p \in Proc, Exit(p) \/ Kill(p)
      PROVE  TypeOK'
  <2>1. StoreTypeOK'
    BY <1>7 DEF Exit, Kill, UnlockStore, TypeOK, StoreTypeOK
  <2>2. pc[p] # "idle"
    BY <1>7 DEF Exit, Kill, Running, Inside
  <2>3. PICK l \in {"exited", "killed"} : pc' = [pc EXCEPT ![p] = l]
    BY <1>7 DEF Exit, Kill, Goto
  <2>4. l \in Labels /\ l # "idle"
    BY <2>3 DEF Labels, Ended
  <2>5. pc \in [Proc -> Labels]
    BY DEF TypeOK, Labels
  <2>6. pc' \in [Proc -> Labels]
    BY <2>3, <2>4, <2>5
  <2>7. \A q \in Proc : pc'[q] # "idle" => pc[q] # "idle"
    BY <2>2, <2>3, <2>5
  <2>8. req' = req /\ status' = status /\ reply' = reply
    BY <1>7 DEF Exit, Kill
  <2>9. QED
    BY <2>1, <2>6, <2>7, <2>8 DEF TypeOK, Labels
<1>8. CASE PowerLoss
  <2>1. StoreTypeOK'
    <3>1. PICK n \in durable .. Len(wal) :
            /\ wal' = SubSeq(wal, 1, n)
            /\ durable' = n
            /\ lost' = lost \cup {wal[i].by : i \in n + 1 .. Len(wal)}
            /\ lock' = NoProc
      BY <1>8 DEF PowerLoss, CutLog
    <3>2. wal' \in Seq(Record) /\ durable' \in 0 .. Len(wal')
      BY <3>1 DEF TypeOK, StoreTypeOK
    <3>3. lost' \subseteq Proc
      <4>1. \A i \in n + 1 .. Len(wal) : wal[i] \in Record
        BY <3>1 DEF TypeOK, StoreTypeOK
      <4>2. QED
        BY <3>1, <4>1 DEF TypeOK, StoreTypeOK, Record
    <3>4. QED
      BY <3>1, <3>2, <3>3 DEF StoreTypeOK
  <2>2. "killed" \in Labels /\ "idle" \notin Running
    BY DEF Labels, Ended, Running, Inside
  <2>3. pc \in [Proc -> Labels]
    BY DEF TypeOK, Labels
  <2>4. pc' = [q \in Proc |-> IF pc[q] \in Running THEN "killed" ELSE pc[q]]
    BY <1>8 DEF PowerLoss
  <2>5. pc' \in [Proc -> Labels] /\ \A q \in Proc : pc'[q] # "idle" => pc[q] # "idle"
    BY <2>2, <2>3, <2>4
  <2>6. req' = req /\ status' = status /\ reply' = reply
    BY <1>8 DEF PowerLoss
  <2>7. QED
    BY <2>1, <2>5, <2>6 DEF TypeOK, Labels
<1>9. CASE UNCHANGED vars
  BY <1>9 DEF vars, TypeOK, StoreTypeOK
<1>10. QED
  BY <1>1, <1>2, <1>3, <1>4, <1>5, <1>6, <1>7, <1>8, <1>9 DEF Next, Step

----------------------------------------------------------------------------
(* What an action of one process leaves alone. *)
LEMMA OthersUndisturbed ==
    ASSUME NEW p \in Proc, TypeOK, Launch(p) \/ Step(p) \/ Kill(p)
    PROVE  /\ \A q \in Proc \ {p} :
                /\ pc'[q] = pc[q] /\ req'[q] = req[q]
                /\ status'[q] = status[q] /\ reply'[q] = reply[q]
           /\ pc[p] # "idle" => req' = req
           /\ lost' = lost
<1>1. CASE Launch(p)
  BY <1>1 DEF Launch, Goto, TypeOK, storeVars
<1>2. CASE OpenRejected(p) \/ OpenStore(p) \/ OpenStoreFails(p)
  BY <1>2 DEF OpenRejected, OpenStore, OpenStoreFails, FailWith, ExitWith, Goto,
              LockStore, TypeOK, storeVars
<1>3. CASE InitRejected(p) \/ HandleRejected(p)
  BY <1>3 DEF InitRejected, HandleRejected, FailWith, ExitWith, Goto, TypeOK, storeVars
<1>4. CASE PutOwner(p) \/ PutTotalSupply(p) \/ PutBalance(p)
  BY <1>4 DEF PutOwner, PutTotalSupply, PutBalance, Put, AppendRecord, FailWith,
              ExitWith, Goto, TypeOK, storeVars
<1>5. CASE ReturnFromMain(p) \/ TotalSupply(p) \/ BalanceOf(p)
  BY <1>5 DEF ReturnFromMain, TotalSupply, BalanceOf, Get, FailWith, ExitWith, Goto,
              TypeOK, storeVars
<1>6. CASE Exit(p) \/ Kill(p)
  BY <1>6 DEF Exit, Kill, UnlockStore, Goto, TypeOK
<1>7. QED
  BY <1>1, <1>2, <1>3, <1>4, <1>5, <1>6 DEF Step

(***************************************************************************)
(* The log changes in three ways only: a put of init appends its record, a *)
(* power loss cuts it, and no other step touches it.                       *)
(***************************************************************************)
PutsOwner(p) ==
    pc[p] = "main" /\ WellFormedInit(req[p]) /\ AppendRecord(p, kOwner, req[p].sender)

PutsSupply(p) ==
    pc[p] = "putTotalSupply" /\ AppendRecord(p, kTotalSupply, req[p].data.word)

PutsBalance(p) ==
    /\ pc[p] = "putBalance"
    /\ AppendRecord(p, keyBalanceOf(req[p].sender), req[p].data.word)

(* The log changes only by the three puts of init. *)
LEMMA WalOfStep ==
    ASSUME NEW p \in Proc, Launch(p) \/ Step(p) \/ Kill(p)
    PROVE  wal' = wal \/ PutsOwner(p) \/ PutsSupply(p) \/ PutsBalance(p)
<1>1. CASE PutOwner(p)
  BY <1>1 DEF PutOwner, Put, PutsOwner, WellFormedInit, storeVars
<1>2. CASE PutTotalSupply(p)
  BY <1>2 DEF PutTotalSupply, Put, PutsSupply, storeVars
<1>3. CASE PutBalance(p)
  BY <1>3 DEF PutBalance, Put, PutsBalance, storeVars
<1>4. CASE ~(PutOwner(p) \/ PutTotalSupply(p) \/ PutBalance(p))
  BY <1>4 DEF Step, Launch, Kill, OpenRejected, OpenStore, OpenStoreFails, LockStore,
              InitRejected, ReturnFromMain, HandleRejected, TotalSupply, BalanceOf,
              Get, Exit, UnlockStore, storeVars
<1>5. QED
  BY <1>1, <1>2, <1>3, <1>4

(* A put finds the types it needs in its process's command line. *)
LEMMA PutsAppend ==
    ASSUME NEW p \in Proc, TypeOK, PutsOwner(p) \/ PutsSupply(p) \/ PutsBalance(p)
    PROVE  /\ pc[p] \in Inside
           /\ Len(wal') = Len(wal) + 1
           /\ \A i \in 1 .. Len(wal) : wal'[i] = wal[i]
           /\ PutsOwner(p) => wal'[Len(wal) + 1] = OwnerRecord(p)
           /\ PutsSupply(p) => wal'[Len(wal) + 1] = SupplyRecord(p)
           /\ PutsBalance(p) => wal'[Len(wal) + 1] = BalanceRecord(p)
<1>1. pc[p] \in Inside /\ pc[p] # "idle"
  BY DEF PutsOwner, PutsSupply, PutsBalance, Inside
<1>2. req[p] \in Request
  BY <1>1 DEF TypeOK
<1>3. req[p].sender \in Value /\ req[p].data.word \in Value
        /\ kOwner \in Key /\ kTotalSupply \in Key /\ keyBalanceOf(req[p].sender) \in Key
  BY <1>2, RequestFields, ContractKeys
<1>4. StoreTypeOK
  BY DEF TypeOK
<1>5. QED
  BY <1>1, <1>3, <1>4, AppendType
  DEF PutsOwner, PutsSupply, PutsBalance, OwnerRecord, SupplyRecord, BalanceRecord

----------------------------------------------------------------------------
(* Mutual exclusion: whoever has an open context holds the lock. *)
LEMMA HoldsLockStep == TypeOK /\ HoldsLock /\ [Next]_vars => HoldsLock'
<1> SUFFICES ASSUME TypeOK, HoldsLock, [Next]_vars, NEW q \in Proc, pc'[q] \in Inside
             PROVE  lock' = q
  BY DEF HoldsLock
<1>1. ASSUME NEW p \in Proc, Launch(p)
      PROVE  lock' = q
  BY <1>1 DEF Launch, Goto, TypeOK, HoldsLock, storeVars, Inside
<1>2. ASSUME NEW p \in Proc, OpenStore(p)
      PROVE  lock' = q
  BY <1>2, StoreAssumption DEF OpenStore, LockStore, Goto, TypeOK, HoldsLock
<1>3. ASSUME NEW p \in Proc,
             \/ OpenRejected(p) \/ OpenStoreFails(p) \/ InitRejected(p)
             \/ ReturnFromMain(p) \/ HandleRejected(p) \/ TotalSupply(p) \/ BalanceOf(p)
      PROVE  lock' = q
  BY <1>3 DEF OpenRejected, OpenStoreFails, InitRejected, ReturnFromMain, HandleRejected,
              TotalSupply, BalanceOf, Get, FailWith, ExitWith, Goto, TypeOK, HoldsLock,
              storeVars, Inside
<1>4. ASSUME NEW p \in Proc, PutOwner(p) \/ PutTotalSupply(p) \/ PutBalance(p)
      PROVE  lock' = q
  BY <1>4 DEF PutOwner, PutTotalSupply, PutBalance, Put, AppendRecord, FailWith, ExitWith,
              Goto, TypeOK, HoldsLock, storeVars, Inside
<1>5. ASSUME NEW p \in Proc, Exit(p) \/ Kill(p)
      PROVE  lock' = q
  BY <1>5 DEF Exit, Kill, UnlockStore, Goto, TypeOK, HoldsLock, Inside
<1>6. CASE PowerLoss
  BY <1>6 DEF PowerLoss, Running, Inside
<1>7. CASE UNCHANGED vars
  BY <1>7 DEF vars, HoldsLock
<1>8. QED
  BY <1>1, <1>2, <1>3, <1>4, <1>5, <1>6, <1>7 DEF Next, Step

(* A status appears with the call of exit, never before. *)
LEMMA NoEarlyStatusStep == TypeOK /\ NoEarlyStatus /\ [Next]_vars => NoEarlyStatus'
<1> DEFINE Early == {"idle", "open"} \cup Inside
<1> SUFFICES ASSUME TypeOK, NoEarlyStatus, [Next]_vars, NEW q \in Proc, pc'[q] \in Early
             PROVE  status'[q] = NoStatus
  BY DEF NoEarlyStatus
<1>1. ASSUME NEW p \in Proc, Launch(p) \/ OpenStore(p)
      PROVE  status'[q] = NoStatus
  BY <1>1 DEF Launch, OpenStore, Goto, TypeOK, NoEarlyStatus, Inside
<1>2. ASSUME NEW p \in Proc,
             \/ OpenRejected(p) \/ OpenStoreFails(p) \/ InitRejected(p)
             \/ ReturnFromMain(p) \/ HandleRejected(p) \/ TotalSupply(p) \/ BalanceOf(p)
      PROVE  status'[q] = NoStatus
  BY <1>2 DEF OpenRejected, OpenStoreFails, InitRejected, ReturnFromMain, HandleRejected,
              TotalSupply, BalanceOf, Get, FailWith, ExitWith, Goto, TypeOK,
              NoEarlyStatus, Inside
<1>3. ASSUME NEW p \in Proc, PutOwner(p) \/ PutTotalSupply(p) \/ PutBalance(p)
      PROVE  status'[q] = NoStatus
  BY <1>3 DEF PutOwner, PutTotalSupply, PutBalance, Put, FailWith, ExitWith, Goto, TypeOK,
              NoEarlyStatus, Inside
<1>4. ASSUME NEW p \in Proc, Exit(p) \/ Kill(p)
      PROVE  status'[q] = NoStatus
  BY <1>4 DEF Exit, Kill, Goto, TypeOK, NoEarlyStatus, Inside
<1>5. CASE PowerLoss
  BY <1>5 DEF PowerLoss, NoEarlyStatus, Running, Inside
<1>6. CASE UNCHANGED vars
  BY <1>6 DEF vars, NoEarlyStatus
<1>7. QED
  BY <1>1, <1>2, <1>3, <1>4, <1>5, <1>6 DEF Next, Step

(***************************************************************************)
(* The records of a running init stay at the end of the log: only the      *)
(* process itself could put a record behind them, and each of its own puts *)
(* adds the one that the next program point expects.                       *)
(***************************************************************************)
LEMMA ProgressStep == TypeOK /\ HoldsLock /\ Progress /\ [Next]_vars => Progress'
<1> DEFINE Putting == {"putTotalSupply", "putBalance", "return"}
<1> SUFFICES ASSUME TypeOK, HoldsLock, Progress, [Next]_vars, NEW q \in Proc,
                    pc'[q] \in Putting
             PROVE  PutSoFar(q)'
  BY DEF Progress, PutSoFar
<1>0. StoreTypeOK /\ Len(wal) \in Nat
  BY DEF TypeOK, StoreTypeOK
<1>1. ASSUME NEW p \in Proc, Launch(p) \/ Step(p) \/ Kill(p), p # q
      PROVE  PutSoFar(q)'
  <2>1. pc'[q] = pc[q] /\ req'[q] = req[q]
    BY <1>1, OthersUndisturbed
  <2>2. pc[q] \in Inside /\ lock = q
    BY <2>1 DEF Inside, HoldsLock
  <2>3. wal' = wal
    BY <1>1, <2>2, WalOfStep, PutsAppend DEF HoldsLock
  <2>4. PutSoFar(q)
    BY DEF Progress
  <2>5. QED
    BY <2>1, <2>3, <2>4 DEF PutSoFar, OwnerRecord, SupplyRecord, BalanceRecord
<1>2. CASE PutOwner(q)
  <2>1. PutsOwner(q) /\ pc'[q] = "putTotalSupply" /\ req' = req
    BY <1>2 DEF PutOwner, Put, PutsOwner, WellFormedInit, FailWith, ExitWith, Goto, TypeOK
  <2>2. QED
    BY <1>0, <2>1, PutsAppend DEF PutSoFar, OwnerRecord, PutsOwner, WellFormedInit
<1>3. CASE PutTotalSupply(q)
  <2>1. PutsSupply(q) /\ pc'[q] = "putBalance" /\ req' = req
    BY <1>3 DEF PutTotalSupply, Put, PutsSupply, FailWith, ExitWith, Goto, TypeOK
  <2>2. PutSoFar(q) /\ pc[q] = "putTotalSupply"
    BY <1>3 DEF Progress, PutTotalSupply
  <2>3. QED
    BY <1>0, <2>1, <2>2, PutsAppend DEF PutSoFar, OwnerRecord, SupplyRecord
<1>4. CASE PutBalance(q)
  <2>1. PutsBalance(q) /\ pc'[q] = "return" /\ req' = req
    BY <1>4 DEF PutBalance, Put, PutsBalance, FailWith, ExitWith, Goto, TypeOK
  <2>2. PutSoFar(q) /\ pc[q] = "putBalance"
    BY <1>4 DEF Progress, PutBalance
  <2>3. QED
    BY <1>0, <2>1, <2>2, PutsAppend DEF PutSoFar, OwnerRecord, SupplyRecord, BalanceRecord
<1>5. CASE \/ Launch(q) \/ OpenRejected(q) \/ OpenStore(q) \/ OpenStoreFails(q)
           \/ InitRejected(q) \/ ReturnFromMain(q) \/ HandleRejected(q)
           \/ TotalSupply(q) \/ BalanceOf(q) \/ Exit(q) \/ Kill(q)
  BY <1>5 DEF Launch, OpenRejected, OpenStore, OpenStoreFails, InitRejected,
              ReturnFromMain, HandleRejected, TotalSupply, BalanceOf, Get, Exit, Kill,
              FailWith, ExitWith, Goto, TypeOK
<1>6. CASE PowerLoss
  BY <1>6 DEF PowerLoss, Running, Inside
<1>7. CASE UNCHANGED vars
  BY <1>7 DEF vars, Progress, PutSoFar, OwnerRecord, SupplyRecord, BalanceRecord
<1>8. QED
  BY <1>1, <1>2, <1>3, <1>4, <1>5, <1>6, <1>7 DEF Next, Step

(* A log that only grew by one fitting record, or shrank, is still serial. *)
LEMMA PrefixContinues ==
    ASSUME NEW v, NEW w, NEW i \in Nat, \A j \in 1 .. i : v[j] = w[j], i >= 1,
           ContinuesItsInit(w, i)
    PROVE  ContinuesItsInit(v, i)
<1>1. v[i] = w[i] /\ (i > 1 => v[i - 1] = w[i - 1]) /\ (i > 2 => v[i - 2] = w[i - 2])
  OBVIOUS
<1>2. QED
  BY <1>1 DEF ContinuesItsInit

(* No step mixes two inits: only the holder of the lock appends, and in order. *)
LEMMA InitsNeverMixStep ==
    TypeOK /\ Progress /\ InitsNeverMix /\ [Next]_vars => InitsNeverMix'
<1> SUFFICES ASSUME TypeOK, Progress, InitsNeverMix, [Next]_vars
             PROVE  InitsNeverMix'
  OBVIOUS
<1>0. StoreTypeOK /\ Len(wal) \in Nat
  BY DEF TypeOK, StoreTypeOK
<1>1. CASE wal' = wal
  BY <1>0, <1>1, PrefixContinues DEF InitsNeverMix
<1>2. ASSUME NEW p \in Proc, PutsOwner(p) \/ PutsSupply(p) \/ PutsBalance(p)
      PROVE  InitsNeverMix'
  <2>1. PutSoFar(p)
    BY DEF Progress
  <2>2. /\ Len(wal') = Len(wal) + 1
        /\ \A i \in 1 .. Len(wal) : wal'[i] = wal[i]
    BY <1>2, PutsAppend
  <2>3. CASE PutsOwner(p)
    <3>1. wal'[Len(wal) + 1] = OwnerRecord(p)
      BY <2>3, PutsAppend
    <3>2. ContinuesItsInit(wal', Len(wal) + 1)
      BY <3>1 DEF ContinuesItsInit, OwnerRecord
    <3>3. QED
      BY <1>0, <2>2, <3>2, PrefixContinues DEF InitsNeverMix
  <2>4. CASE PutsSupply(p)
    <3>1. Len(wal) >= 1 /\ wal[Len(wal)] = OwnerRecord(p)
      BY <2>1, <2>4 DEF PutsSupply, PutSoFar
    <3>2. wal'[Len(wal)] = OwnerRecord(p) /\ wal'[Len(wal) + 1] = SupplyRecord(p)
      BY <1>0, <2>2, <2>4, <3>1, PutsAppend
    <3>3. ContinuesItsInit(wal', Len(wal) + 1)
      BY <1>0, <3>1, <3>2 DEF ContinuesItsInit, OwnerRecord, SupplyRecord
    <3>4. QED
      BY <1>0, <2>2, <3>3, PrefixContinues DEF InitsNeverMix
  <2>5. CASE PutsBalance(p)
    <3>1. /\ Len(wal) >= 2
          /\ wal[Len(wal) - 1] = OwnerRecord(p)
          /\ wal[Len(wal)] = SupplyRecord(p)
      BY <2>1, <2>5 DEF PutsBalance, PutSoFar
    <3>2. /\ wal'[Len(wal) - 1] = OwnerRecord(p)
          /\ wal'[Len(wal)] = SupplyRecord(p)
          /\ wal'[Len(wal) + 1] = BalanceRecord(p)
      BY <1>0, <2>2, <2>5, <3>1, PutsAppend
    <3>3. ContinuesItsInit(wal', Len(wal) + 1)
      BY <1>0, <3>1, <3>2 DEF ContinuesItsInit, OwnerRecord, SupplyRecord, BalanceRecord
    <3>4. QED
      BY <1>0, <2>2, <3>3, PrefixContinues DEF InitsNeverMix
  <2>6. QED
    BY <1>2, <2>3, <2>4, <2>5
<1>3. CASE PowerLoss
  <2>1. PICK n \in durable .. Len(wal) : wal' = SubSeq(wal, 1, n)
    BY <1>3 DEF PowerLoss, CutLog
  <2>2. n \in Nat /\ n <= Len(wal)
    BY <1>0, <2>1 DEF StoreTypeOK
  <2>3. Len(wal') = n /\ \A i \in 1 .. n : wal'[i] = wal[i]
    BY <1>0, <2>1, <2>2 DEF StoreTypeOK
  <2>4. QED
    BY <1>0, <2>2, <2>3, PrefixContinues DEF InitsNeverMix
<1>4. QED
  BY <1>1, <1>2, <1>3, WalOfStep DEF Next, vars

(***************************************************************************)
(* The records of an init that exited with 0 stay where they are: the log  *)
(* only grows, or is cut by a power loss behind them.                      *)
(***************************************************************************)
LEMMA SuccessStep ==
    TypeOK /\ Progress /\ NoEarlyStatus /\ SuccessMeansAllPut /\ [Next]_vars
      => SuccessMeansAllPut'
<1> DEFINE AllPut(q) ==
      \E i \in 1 .. Len(wal) : i + 2 <= Len(wal) /\ InitRecords(q, i)
<1> SUFFICES ASSUME TypeOK, Progress, NoEarlyStatus, SuccessMeansAllPut, [Next]_vars,
                    NEW q \in Proc \ lost', status'[q] = 0, req'[q].action = "init"
             PROVE  AllPut(q)'
  BY DEF SuccessMeansAllPut
<1>0. StoreTypeOK /\ Len(wal) \in Nat
  BY DEF TypeOK, StoreTypeOK
<1>7. ASSUME AllPut(q), req'[q] = req[q], Len(wal') \in Nat, Len(wal') >= Len(wal),
             \A i \in 1 .. Len(wal) : wal'[i] = wal[i]
      PROVE  AllPut(q)'
  BY SMTT(30), <1>7, <1>0 DEF InitRecords
<1>1. ASSUME NEW p \in Proc, Launch(p) \/ Step(p) \/ Kill(p), status[q] = 0
      PROVE  AllPut(q)'
  <2>1. req'[q] = req[q] /\ q \notin lost
    BY <1>1, OthersUndisturbed, q \in Proc DEF NoEarlyStatus, NoStatus
  <2>2. AllPut(q)
    BY <1>1, <2>1 DEF SuccessMeansAllPut
  <2>3. wal' = wal \/ PutsOwner(p) \/ PutsSupply(p) \/ PutsBalance(p)
    BY <1>1, WalOfStep
  <2>4. QED
    BY <1>7, <1>0, <2>1, <2>2, <2>3, PutsAppend
<1>2. CASE ReturnFromMain(q) /\ status[q] # 0
  <2>1. wal' = wal /\ req' = req /\ PutSoFar(q) /\ pc[q] = "return"
    BY <1>2 DEF ReturnFromMain, storeVars, Progress
  <2>2. InitRecords(q, Len(wal) - 2) /\ Len(wal) >= 3
    BY <1>0, <2>1 DEF PutSoFar, InitRecords, OwnerRecord, SupplyRecord, BalanceRecord
  <2>3. AllPut(q)
    BY <1>0, <2>2
  <2>4. QED
    BY <1>7, <1>0, <2>1, <2>3
<1>3. ASSUME NEW p \in Proc, Launch(p) \/ Step(p) \/ Kill(p), status[q] # 0,
             ~ReturnFromMain(q)
      PROVE  FALSE
  <2>1. p = q
    BY <1>3, OthersUndisturbed
  <2>2. CASE \/ Launch(q) \/ OpenRejected(q) \/ OpenStore(q) \/ OpenStoreFails(q)
             \/ InitRejected(q) \/ HandleRejected(q) \/ Exit(q) \/ Kill(q)
    BY <1>3, <2>2 DEF Launch, OpenRejected, OpenStore, OpenStoreFails, InitRejected,
          HandleRejected, Exit, Kill, FailWith, ExitWith, TypeOK,
          QERR_GENERAL, QERR_INVALID_CONTEXT, QERR_STORAGE, QERR_OOM
  <2>3. CASE PutOwner(q) \/ PutTotalSupply(q) \/ PutBalance(q)
    BY <1>3, <2>3 DEF PutOwner, PutTotalSupply, PutBalance, Put, FailWith, ExitWith,
          TypeOK, QERR_STORAGE, QERR_OOM
  <2>4. CASE TotalSupply(q) \/ BalanceOf(q)
    <3>1. pc[q] = "main" /\ req[q].action = "call"
      BY <2>4 DEF TotalSupply, BalanceOf
    <3>2. req' = req
      BY <1>3, <2>1, <3>1, OthersUndisturbed
    <3>3. QED
      BY <3>1, <3>2
  <2>5. QED
    BY <1>3, <2>1, <2>2, <2>3, <2>4 DEF Step
<1>4. CASE PowerLoss
  <2>1. PICK n \in durable .. Len(wal) :
          /\ wal' = SubSeq(wal, 1, n)
          /\ lost' = lost \cup {wal[i].by : i \in n + 1 .. Len(wal)}
    BY <1>4 DEF PowerLoss, CutLog
  <2>2. n \in Nat /\ n <= Len(wal)
    BY <1>0, <2>1 DEF StoreTypeOK
  <2>3. Len(wal') = n /\ \A i \in 1 .. n : wal'[i] = wal[i]
    BY <1>0, <2>1, <2>2 DEF StoreTypeOK
  <2>4. req' = req /\ status' = status /\ q \notin lost
    BY <1>4, <2>1 DEF PowerLoss
  <2>5. PICK i \in 1 .. Len(wal) : i + 2 <= Len(wal) /\ InitRecords(q, i)
    BY <2>4 DEF SuccessMeansAllPut
  <2>6. i + 2 <= n
    <3>1. wal[i + 2].by = q
      BY <2>5 DEF InitRecords
    <3>2. \A j \in n + 1 .. Len(wal) : wal[j].by # q
      BY <2>1
    <3>3. QED
      BY <1>0, <2>2, <2>5, <3>1, <3>2
  <2>7. i \in 1 .. Len(wal') /\ i + 2 <= Len(wal')
    BY <1>0, <2>2, <2>3, <2>5, <2>6
  <2>8. InitRecords(q, i)'
    BY <1>0, <2>2, <2>3, <2>4, <2>5, <2>6 DEF InitRecords
  <2>9. QED
    BY <2>7, <2>8
<1>5. CASE UNCHANGED vars
  BY <1>5 DEF vars, SuccessMeansAllPut, InitRecords
<1>6. QED
  BY <1>1, <1>2, <1>3, <1>4, <1>5 DEF Next, Step

----------------------------------------------------------------------------
(* Nothing has happened yet, so nothing can be wrong. *)
LEMMA InitInv == Init => Inv
<1> SUFFICES ASSUME Init PROVE Inv
  OBVIOUS
<1>1. TypeOK
  BY DEF Init, StoreInit, TypeOK, StoreTypeOK, Record
<1>2. wal = << >> /\ Len(wal) = 0 /\ \A p \in Proc : pc[p] = "idle" /\ status[p] = NoStatus
  BY DEF Init, StoreInit
<1>3. HoldsLock /\ Progress /\ NoEarlyStatus /\ InitsNeverMix /\ SuccessMeansAllPut
  BY <1>2 DEF HoldsLock, Progress, PutSoFar, NoEarlyStatus, InitsNeverMix,
              SuccessMeansAllPut, Inside, NoStatus
<1>4. QED
  BY <1>1, <1>3 DEF Inv

(* Every step preserves the inductive invariant. *)
LEMMA InvStep == Inv /\ [Next]_vars => Inv'
BY TypeStep, HoldsLockStep, ProgressStep, NoEarlyStatusStep, InitsNeverMixStep,
   SuccessStep
DEF Inv

(* Inv holds in every reachable state, whatever is killed, lost or raced. *)
THEOREM Invariance == Spec => []Inv
BY InitInv, InvStep, PTL DEF Spec

(* Lock, log, program counters and statuses keep the types C gives them. *)
THEOREM TypeCorrect == Spec => []TypeOK
<1>1. Inv => TypeOK
  BY DEF Inv
<1>2. QED
  BY <1>1, Invariance, PTL

(***************************************************************************)
(* The three puts of init (c-xrc20/main.c) need no transaction: the lock   *)
(* of the database keeps those of any number of inits apart, and a failed  *)
(* put, a kill or a power loss can only cut an init short.                 *)
(***************************************************************************)
THEOREM InitsSerial == Spec => []InitsNeverMix
<1>1. Inv => InitsNeverMix
  BY DEF Inv
<1>2. QED
  BY <1>1, Invariance, PTL

(***************************************************************************)
(* Exit status 0 of init means that owner, supply and balance are stored,  *)
(* one behind the other, and only a power loss takes them away.            *)
(***************************************************************************)
THEOREM SuccessIsStored == Spec => []SuccessMeansAllPut
<1>1. Inv => SuccessMeansAllPut
  BY DEF Inv
<1>2. QED
  BY <1>1, Invariance, PTL

(***************************************************************************)
(* A log that ends in a balance ends in a whole init, so what a query then *)
(* reads as owner, supply and balance belongs together.                    *)
(***************************************************************************)
LEMMA SettledLog == TypeOK /\ InitsNeverMix => OwnerHoldsSupply
<1> SUFFICES ASSUME TypeOK, InitsNeverMix,
                    wal # << >>, wal[Len(wal)].key \in BalanceKey
             PROVE  /\ Newest(wal, kTotalSupply) # None
                    /\ Newest(wal, keyBalanceOf(Newest(wal, kOwner)))
                         = Newest(wal, kTotalSupply)
  BY DEF OwnerHoldsSupply
<1> DEFINE n == Len(wal)
<1>1. StoreTypeOK /\ n \in Nat /\ n >= 1
  BY DEF TypeOK, StoreTypeOK
<1>2. wal[n].key # kOwner /\ wal[n].key # kTotalSupply
  BY KeysDiffer DEF BalanceKey
<1>3. /\ n > 2
      /\ wal[n - 1].key = kTotalSupply
      /\ wal[n].key = keyBalanceOf(wal[n - 2].val)
      /\ wal[n].val = wal[n - 1].val
  BY <1>1, <1>2 DEF InitsNeverMix, ContinuesItsInit
<1>4. wal[n - 2].key = kOwner
  <2>1. ContinuesItsInit(wal, n - 1)
    BY <1>1, <1>3 DEF InitsNeverMix
  <2>2. wal[n - 1].key # kOwner /\ \A a : wal[n - 1].key # keyBalanceOf(a)
    BY <1>3, KeysDiffer
  <2>3. QED
    BY <1>1, <1>3, <2>1, <2>2 DEF ContinuesItsInit
<1>5. Newest(wal, kOwner) = wal[n - 2].val
  <2>1. \A j \in (n - 2) + 1 .. n : wal[j].key # kOwner
    BY <1>1, <1>2, <1>3, KeysDiffer
  <2>2. QED
    BY <1>1, <1>3, <1>4, <2>1, NewestIsLast
<1>6. Newest(wal, kTotalSupply) = wal[n - 1].val
  <2>1. \A j \in (n - 1) + 1 .. n : wal[j].key # kTotalSupply
    BY <1>1, <1>2, <1>3
  <2>2. QED
    BY <1>1, <1>3, <2>1, NewestIsLast
<1>7. Newest(wal, keyBalanceOf(wal[n - 2].val)) = wal[n].val
  BY <1>1, <1>3, NewestIsLast
<1>8. wal[n - 1].val # None
  <2>1. wal[n - 1] \in Record
    BY <1>1, <1>3 DEF StoreTypeOK
  <2>2. QED
    BY <2>1, StoreAssumption DEF Record
<1>9. QED
  BY <1>3, <1>5, <1>6, <1>7, <1>8

(***************************************************************************)
(* After every init that ran to its end, the stored owner's balance is the *)
(* stored supply, whatever torn or complete inits came before it.          *)
(***************************************************************************)
THEOREM SupplySettled == Spec => []OwnerHoldsSupply
<1>1. Inv => OwnerHoldsSupply
  BY SettledLog DEF Inv
<1>2. QED
  BY <1>1, Invariance, PTL

----------------------------------------------------------------------------
(***************************************************************************)
(* A set of numbers that is not empty has a least member.  The theorems    *)
(* about well-founded orders give it for the intervals 0 .. x, ordered by  *)
(* inclusion.                                                              *)
(***************************************************************************)
LEMMA LeastNumber ==
    ASSUME NEW T, T \subseteq Nat, T # {}
    PROVE  \E x \in T : \A y \in T : x <= y
<1>1. PICK t \in T : TRUE
  OBVIOUS
<1> DEFINE S == 0 .. t
           U == {0 .. x : x \in T \cap S}
<1>2. IsFiniteSet(S)
  BY <1>1, FS_Interval
<1>3. IsWellFoundedOn(StrictSubsetOrdering(S), SUBSET S)
  <2>1. IsWellFoundedOn(StrictSubsetOrdering(S), FiniteSubsetsOf(S))
    BY FS_StrictSubsetOrderingWellFounded
  <2>2. FiniteSubsetsOf(S) = SUBSET S
    BY <1>2, FS_FiniteSubsetsOfFinite
  <2>3. QED
    BY <2>1, <2>2
<1>4. U \subseteq SUBSET S /\ U # {}
  BY <1>1
<1>5. PICK u \in U : \A v \in U : <<v, u>> \notin StrictSubsetOrdering(S)
  <2> HIDE DEF U
  <2> QED
    BY <1>3, <1>4, WFMin
<1>6. PICK x \in T \cap S : u = 0 .. x
  BY <1>5
<1>7. ASSUME NEW y \in T, y < x
      PROVE  FALSE
  <2>1. 0 .. y \in U
    BY <1>1, <1>6, <1>7
  <2>2. 0 .. y \subseteq u /\ 0 .. y # u
    BY <1>1, <1>6, <1>7
  <2>3. QED
    BY <1>4, <1>5, <2>1, <2>2 DEF StrictSubsetOrdering
<1>8. QED
  BY <1>1, <1>6, <1>7

(* A bounded one has a greatest. *)
LEMMA GreatestNumber ==
    ASSUME NEW T, T \subseteq Nat, T # {}, NEW b \in Nat, \A y \in T : y <= b
    PROVE  \E x \in T : \A y \in T : y <= x
<1> DEFINE U == {n \in Nat : \A y \in T : y <= n}
<1>1. U \subseteq Nat /\ b \in U
  OBVIOUS
<1>2. PICK x \in U : \A n \in U : x <= n
  <2> HIDE DEF U
  <2> QED
    BY <1>1, LeastNumber
<1>3. CASE x \in T
  BY <1>2, <1>3
<1>4. CASE x \notin T
  <2>1. PICK y \in T : TRUE
    OBVIOUS
  <2>2. y < x
    BY <1>2, <1>4, <2>1
  <2>3. x - 1 \in Nat /\ \A z \in T : z <= x - 1
    BY <1>2, <1>4, <2>2
  <2>4. QED
    BY <1>2, <2>3
<1>5. QED
  BY <1>3, <1>4

UpTo(S, i) == {h \in S : h <= i}

(* The members up to a larger one are more. *)
LEMMA RankGrows ==
    ASSUME NEW S, S \subseteq Nat, IsFiniteSet(S)
    PROVE  /\ Cardinality(S) \in Nat
           /\ \A i : /\ Cardinality(UpTo(S, i)) \in Nat
                    /\ Cardinality(UpTo(S, i)) <= Cardinality(S)
           /\ \A i \in S : Cardinality(UpTo(S, i)) >= 1
           /\ \A i \in Nat, k \in S :
                i < k => Cardinality(UpTo(S, i)) < Cardinality(UpTo(S, k))
<1>1. \A i : UpTo(S, i) \in SUBSET S
  BY DEF UpTo
<1>2. \A i : /\ IsFiniteSet(UpTo(S, i))
             /\ Cardinality(UpTo(S, i)) <= Cardinality(S)
             /\ Cardinality(UpTo(S, i)) \in Nat
  BY <1>1, FS_Subset, FS_CardinalityType
<1>3. Cardinality(S) \in Nat
  BY FS_CardinalityType
<1>4. ASSUME NEW i \in S
      PROVE  Cardinality(UpTo(S, i)) # 0
  <2>1. i \in UpTo(S, i)
    BY DEF UpTo
  <2>2. QED
    BY <1>2, <2>1, FS_EmptySet
<1>5. ASSUME NEW i \in Nat, NEW k \in S, i < k
      PROVE  Cardinality(UpTo(S, i)) < Cardinality(UpTo(S, k))
  <2>1. UpTo(S, i) \in SUBSET UpTo(S, k) /\ UpTo(S, i) # UpTo(S, k)
    <3>1. k \in UpTo(S, k) /\ k \notin UpTo(S, i)
      BY <1>5 DEF UpTo
    <3>2. \A h \in UpTo(S, i) : h \in UpTo(S, k)
      BY <1>5 DEF UpTo
    <3>3. QED
      BY <3>1, <3>2
  <2>2. /\ Cardinality(UpTo(S, i)) <= Cardinality(UpTo(S, k))
        /\ Cardinality(UpTo(S, i)) # Cardinality(UpTo(S, k))
    BY <1>2, <2>1, FS_Subset
  <2>3. QED
    BY <1>2, <2>2
<1>6. QED
  BY <1>2, <1>3, <1>4, <1>5

(* The sets of positions that occur here are finite sets of numbers. *)
LEMMA Positions ==
    ASSUME NEW n \in Nat, NEW S, S \subseteq 1 .. n
    PROVE  /\ S \subseteq Nat
           /\ \A i \in S : i \in Nat /\ 1 <= i /\ i <= n
           /\ IsFiniteSet(S)
<1>1. \A i \in 1 .. n : i \in Nat /\ 1 <= i /\ i <= n
  OBVIOUS
<1>2. IsFiniteSet(1 .. n) /\ S \in SUBSET (1 .. n)
  BY FS_Interval
<1>3. IsFiniteSet(S)
  BY <1>2, FS_Subset
<1>4. QED
  BY <1>1, <1>3

(* Each rank up to the number of members is the rank of one. *)
LEMMA RankReached ==
    ASSUME NEW n \in Nat, NEW S, S \subseteq 1 .. n, NEW j \in 1 .. Cardinality(S)
    PROVE  \E i \in S : Cardinality(UpTo(S, i)) = j
<1> DEFINE R(i) == Cardinality(UpTo(S, i))
           T == {i \in Nat : R(i) >= j}
<1>1. /\ S \subseteq Nat
      /\ IsFiniteSet(S)
      /\ \A i \in S : i \in Nat /\ 1 <= i /\ i <= n
  BY Positions
<1>2. Cardinality(S) \in Nat /\ \A i \in Nat : R(i) \in Nat
  BY <1>1, RankGrows
<1>3. n \in T
  <2>1. UpTo(S, n) = S
    BY <1>1 DEF UpTo
  <2>2. QED
    BY <1>2, <2>1
<1>4. PICK i \in T : \A k \in T : i <= k
  <2>1. T \subseteq Nat
    OBVIOUS
  <2> HIDE DEF T
  <2> QED
    BY <1>3, <2>1, LeastNumber
<1>5. i # 0
  <2>1. UpTo(S, 0) = {}
    <3>1. \A h \in S : ~(h <= 0)
      BY <1>1
    <3>2. QED
      BY <3>1 DEF UpTo
  <2>2. QED
    BY <2>1, <1>2, FS_EmptySet
<1>6. i - 1 \in Nat /\ R(i - 1) < j
  <2>1. i - 1 \in Nat /\ i - 1 \notin T
    BY <1>4, <1>5
  <2>2. R(i - 1) \in Nat
    BY <2>1, <1>2
  <2>3. QED
    BY <2>1, <2>2
<1>7. \A h \in S : h <= i <=> h <= i - 1 \/ h = i
  BY <1>1, <1>6
<1>8. i \in S
  <2>1. SUFFICES ASSUME i \notin S
                 PROVE  FALSE
    OBVIOUS
  <2>2. UpTo(S, i) = UpTo(S, i - 1)
    BY <1>7, <2>1 DEF UpTo
  <2>3. R(i) = R(i - 1) /\ R(i - 1) \in Nat /\ R(i) >= j
    BY <1>2, <1>6, <2>2
  <2> HIDE DEF R
  <2> QED
    BY <1>6, <2>3
<1>9. R(i) = R(i - 1) + 1
  <2>1. IsFiniteSet(UpTo(S, i - 1)) /\ i \notin UpTo(S, i - 1)
    <3>1. UpTo(S, i - 1) \in SUBSET S
      BY DEF UpTo
    <3>2. IsFiniteSet(UpTo(S, i - 1))
      BY <1>1, <3>1, FS_Subset
    <3>3. QED
      BY <1>6, <3>2 DEF UpTo
  <2>2. QED
    <3>1. UpTo(S, i) = UpTo(S, i - 1) \cup {i}
      BY <1>7, <1>8 DEF UpTo
    <3>2. QED
      BY <2>1, <3>1, FS_AddElement
<1>10. R(i) = j
  <2>1. R(i) \in Nat /\ R(i - 1) \in Nat /\ R(i) >= j
    BY <1>2, <1>6
  <2> HIDE DEF R
  <2> QED
    BY <1>6, <1>9, <2>1
<1> QED
  BY <1>8, <1>10

(* Sorted lists the members of a set by rank. *)
LEMMA SortedByRank ==
    ASSUME NEW n \in Nat, NEW S, S \subseteq 1 .. n
    PROVE  /\ Cardinality(S) \in Nat
           /\ DOMAIN Sorted[S] = 1 .. Cardinality(S)
           /\ \A j \in 1 .. Cardinality(S) :
                Sorted[S][j] \in S /\ Cardinality(UpTo(S, Sorted[S][j])) = j
           /\ \A i \in S : /\ Cardinality(UpTo(S, i)) \in 1 .. Cardinality(S)
                           /\ Sorted[S][Cardinality(UpTo(S, i))] = i
<1>1. /\ S \subseteq Nat
      /\ IsFiniteSet(S)
      /\ \A i \in S : i \in Nat /\ 1 <= i /\ i <= n
  BY Positions
<1>2. Sorted[S] = [j \in 1 .. Cardinality(S) |->
                     CHOOSE i \in S : Cardinality(UpTo(S, i)) = j]
  BY <1>1 DEF Sorted, UpTo
<1>3. \A j \in 1 .. Cardinality(S) :
        Sorted[S][j] \in S /\ Cardinality(UpTo(S, Sorted[S][j])) = j
  <2>1. \A j \in 1 .. Cardinality(S) :
          Sorted[S][j] = CHOOSE i \in S : Cardinality(UpTo(S, i)) = j
    BY <1>2
  <2>2. \A j \in 1 .. Cardinality(S) : \E i \in S : Cardinality(UpTo(S, i)) = j
    BY RankReached
  <2>3. QED
    BY <2>1, <2>2
<1>4. ASSUME NEW i \in S
      PROVE  /\ Cardinality(UpTo(S, i)) \in 1 .. Cardinality(S)
             /\ Sorted[S][Cardinality(UpTo(S, i))] = i
  <2> DEFINE k == Sorted[S][Cardinality(UpTo(S, i))]
  <2>1. Cardinality(UpTo(S, i)) \in 1 .. Cardinality(S)
    <3>1. /\ Cardinality(S) \in Nat /\ Cardinality(UpTo(S, i)) \in Nat
          /\ Cardinality(UpTo(S, i)) <= Cardinality(S)
          /\ Cardinality(UpTo(S, i)) >= 1
      BY <1>1, RankGrows
    <3>2. QED
      BY <3>1
  <2>2. k \in S /\ Cardinality(UpTo(S, k)) = Cardinality(UpTo(S, i))
    BY <1>3, <2>1
  <2>3. ~(k < i) /\ ~(i < k)
    <3> HIDE DEF k
    <3>1. /\ Cardinality(UpTo(S, i)) \in Nat /\ i \in Nat /\ k \in Nat
          /\ k < i => Cardinality(UpTo(S, k)) < Cardinality(UpTo(S, i))
          /\ i < k => Cardinality(UpTo(S, i)) < Cardinality(UpTo(S, k))
      BY <1>1, <2>2, RankGrows
    <3>2. QED
      BY <2>2, <3>1
  <2>4. QED
    <3> HIDE DEF k
    <3>1. k = i
      BY <1>1, <2>2, <2>3
    <3>2. QED
      BY <2>1, <3>1 DEF k
<1>5. QED
  BY <1>1, <1>2, <1>3, <1>4, RankGrows

(* The list of the smaller members of a set is a beginning of its list. *)
LEMMA SortedPrefix ==
    ASSUME NEW n \in Nat, NEW S, S \subseteq 1 .. n, NEW b \in Nat
    PROVE  /\ Cardinality(UpTo(S, b)) \in 0 .. Cardinality(S)
           /\ \A j \in 1 .. Cardinality(UpTo(S, b)) : Sorted[UpTo(S, b)][j] = Sorted[S][j]
<1> DEFINE P == UpTo(S, b)
<1>1. P \subseteq 1 .. n /\ P \subseteq S
  BY DEF UpTo
<1>2. Cardinality(P) \in 0 .. Cardinality(S) /\ Cardinality(S) \in Nat
  <2>1. S \subseteq Nat /\ IsFiniteSet(S)
    BY Positions
  <2>2. /\ Cardinality(S) \in Nat /\ Cardinality(P) \in Nat
        /\ Cardinality(P) <= Cardinality(S)
    BY <2>1, RankGrows
  <2> HIDE DEF P
  <2>3. QED
    BY <2>2
<1>3. ASSUME NEW j \in 1 .. Cardinality(P)
      PROVE  Sorted[P][j] = Sorted[S][j]
  <2>1. PICK i \in P : i = Sorted[P][j] /\ Cardinality(UpTo(P, i)) = j
    <3> HIDE DEF P
    <3> QED
      BY <1>1, SortedByRank
  <2>2. UpTo(P, i) = UpTo(S, i)
    <3>1. i <= b /\ i \in Nat /\ \A h \in S : h \in Nat
      BY <2>1, Positions DEF UpTo
    <3>2. \A h \in S : h <= i => h <= b
      BY <3>1
    <3>3. QED
      BY <3>2 DEF UpTo
  <2>3. Sorted[S][j] = i
    <3>1. i \in S /\ Cardinality(UpTo(S, i)) = j
      BY <1>1, <2>1, <2>2
    <3> HIDE DEF P
    <3>2. QED
      BY <3>1, SortedByRank
  <2>4. QED
    BY <2>1, <2>3
<1>4. QED
  BY <1>2, <1>3

----------------------------------------------------------------------------
(***************************************************************************)
(* A log of inits: each record continues an init, and each process is the  *)
(* writer of one init at most.                                             *)
(***************************************************************************)
LogOK(w) ==
    /\ Len(w) \in Nat
    /\ \A i \in 1 .. Len(w) : ContinuesItsInit(w, i)
    /\ \A i, k \in 1 .. Len(w) :
        w[i].key = kOwner /\ w[k].key = kOwner /\ w[i].by = w[k].by => i = k

(* Record k of log w is the e-th of the init that begins at i. *)
Belongs(w, k, i, e) ==
    /\ i \in 1 .. Len(w) /\ w[i].key = kOwner /\ k = i + e - 1
    /\ w[k].by = w[i].by
    /\ e >= 2 => w[i + 1].by = w[i].by /\ w[i + 1].key = kTotalSupply
    /\ e = 3 => w[k].key = keyBalanceOf(w[i].val) /\ w[k].val = w[i + 1].val

(* Every record is the first, second or third of an init. *)
LEMMA RecordBelongs ==
    ASSUME NEW w, LogOK(w), NEW k \in 1 .. Len(w)
    PROVE  \E i \in 1 .. k, e \in 1 .. 3 : Belongs(w, k, i, e)
<1>1. Len(w) \in Nat /\ k \in Nat /\ k >= 1 /\ k <= Len(w) /\ ContinuesItsInit(w, k)
  BY DEF LogOK
<1>2. CASE w[k].key = kOwner
  BY <1>1, <1>2 DEF Belongs
<1>3. CASE k > 1 /\ w[k - 1].key = kOwner /\ w[k].key = kTotalSupply /\ w[k - 1].by = w[k].by
  <2>1. Belongs(w, k, k - 1, 2)
    BY <1>1, <1>3 DEF Belongs
  <2>2. k - 1 \in 1 .. k
    BY <1>1, <1>3
  <2>3. QED
    BY <2>1, <2>2
<1>4. CASE /\ k > 2 /\ w[k - 1].key = kTotalSupply /\ w[k - 1].by = w[k].by
           /\ w[k].key = keyBalanceOf(w[k - 2].val) /\ w[k].val = w[k - 1].val
  <2>1. k - 1 \in 1 .. Len(w) /\ k - 1 > 1 /\ k - 1 - 1 = k - 2 /\ k - 2 \in 1 .. k /\ k - 2 \in 1 .. Len(w)
          /\ k - 2 + 1 = k - 1 /\ k = (k - 2) + 3 - 1
    BY <1>1, <1>4
  <2>2. ContinuesItsInit(w, k - 1)
    BY <2>1 DEF LogOK
  <2>3. w[k - 1].key # kOwner /\ \A a : w[k - 1].key # keyBalanceOf(a)
    BY <1>4, KeysDiffer
  <2>4. w[k - 2].key = kOwner /\ w[k - 2].by = w[k - 1].by
    BY <2>1, <2>2, <2>3 DEF ContinuesItsInit
  <2>5. Belongs(w, k, k - 2, 3)
    BY <1>4, <2>1, <2>4 DEF Belongs
  <2>6. QED
    BY <2>1, <2>5
<1>5. QED
  BY <1>1, <1>2, <1>3, <1>4 DEF ContinuesItsInit

(* The records of one writer are one, two or three in a row. *)
LEMMA OwnRecords ==
    ASSUME NEW w, LogOK(w), NEW i \in 1 .. Len(w), w[i].key = kOwner,
           NEW k \in 1 .. Len(w), w[k].by = w[i].by
    PROVE  \E e \in 1 .. 3 : Belongs(w, k, i, e)
<1>1. PICK h \in 1 .. k, e \in 1 .. 3 : Belongs(w, k, h, e)
  BY RecordBelongs
<1>2. h = i
  BY <1>1 DEF Belongs, LogOK
<1>3. QED
  BY <1>1, <1>2

(* Effects counts the records of an init among the first n of the log. *)
LEMMA EffectsCount ==
    ASSUME NEW w, LogOK(w), NEW n \in 0 .. Len(w), NEW i \in Heads(w, n)
    PROVE  /\ i \in 1 .. n /\ Effects(w, n, i) \in 1 .. 3
           /\ i + Effects(w, n, i) - 1 <= n
           /\ \A k \in 1 .. n :
                w[k].by = w[i].by <=> i <= k /\ k <= i + Effects(w, n, i) - 1
<1> DEFINE E == Effects(w, n, i)
<1>0. Len(w) \in Nat /\ n \in Nat /\ n <= Len(w) /\ i \in Nat /\ i >= 1 /\ i <= n /\ w[i].key = kOwner
  BY DEF LogOK, Heads
<1>1. \A k \in 1 .. n : w[k].by = w[i].by => \E e \in 1 .. 3 : Belongs(w, k, i, e)
  <2>1. \A k \in 1 .. n : k \in 1 .. Len(w)
    BY <1>0
  <2>2. i \in 1 .. Len(w)
    BY <1>0
  <2>3. QED
    BY <1>0, <2>1, <2>2, OwnRecords
<1>2. \A k \in 1 .. n : w[k].by = w[i].by =>
        \/ k = i \/ k = i + 1
        \/ k = i + 2 /\ w[i + 1].by = w[i].by
  BY <1>0, <1>1 DEF Belongs
<1>7. i + 2 - 1 = i + 1 /\ i + 3 - 1 = i + 2 /\ i + 1 - 1 = i
  BY <1>0
<1>3. CASE i + 2 <= n /\ w[i + 2].by = w[i].by
  <2>1. E = 3
    BY <1>0, <1>3, <1>7 DEF Effects
  <2>2. i + 2 \in 1 .. n
    BY <1>0, <1>3
  <2>3. w[i + 1].by = w[i].by
    BY <1>0, <1>2, <1>3, <2>2
  <2>4. QED
    <3> HIDE DEF E
    <3>1. QED
      BY <1>0, <1>2, <1>3, <1>7, <2>1, <2>3 DEF E
<1>4. CASE ~(i + 2 <= n /\ w[i + 2].by = w[i].by) /\ i + 1 <= n /\ w[i + 1].by = w[i].by
  <2>1. E = 2
    BY <1>0, <1>4, <1>7 DEF Effects
  <2>4. QED
    BY <1>0, <1>2, <1>4, <1>7, <2>1
<1>5. CASE ~(i + 2 <= n /\ w[i + 2].by = w[i].by) /\ ~(i + 1 <= n /\ w[i + 1].by = w[i].by)
  <2>1. E = 1
    BY <1>0, <1>5, <1>7 DEF Effects
  <2>4. QED
    BY <1>0, <1>2, <1>5, <1>7, <2>1
<1>6. QED
  BY <1>3, <1>4, <1>5

(* A ledger: the writers of the log, with as many effects as an init may have. *)
Ledgers(w) == Seq([by : {w[i].by : i \in 1 .. Len(w)}, effects : 1 .. 3])

(* The ledger has one entry per owner, in the order of the log. *)
LEMMA InitsInOrder ==
    ASSUME NEW w, LogOK(w), NEW n \in 0 .. Len(w)
    PROVE  /\ Heads(w, n) \subseteq 1 .. n
           /\ Cardinality(Heads(w, n)) \in Nat
           /\ InitsOf(w, n) \in Ledgers(w)
           /\ Len(InitsOf(w, n)) = Cardinality(Heads(w, n))
           /\ \A j \in 1 .. Cardinality(Heads(w, n)) :
                /\ Sorted[Heads(w, n)][j] \in Heads(w, n)
                /\ InitsOf(w, n)[j] = Tx(w, n, Sorted[Heads(w, n)][j])
<1> DEFINE H == Heads(w, n)
           T == [by : {w[i].by : i \in 1 .. Len(w)}, effects : 1 .. 3]
<1>0. Len(w) \in Nat /\ n \in Nat /\ n <= Len(w)
  BY DEF LogOK
<1>1. H \subseteq 1 .. n
  BY DEF Heads
<1>2. /\ Cardinality(H) \in Nat /\ DOMAIN Sorted[H] = 1 .. Cardinality(H)
      /\ \A j \in 1 .. Cardinality(H) : Sorted[H][j] \in H
  <2> HIDE DEF H
  <2> QED
    BY <1>0, <1>1, SortedByRank
<1>3. InitsOf(w, n) = [j \in 1 .. Cardinality(H) |-> Tx(w, n, Sorted[H][j])]
  BY <1>2 DEF InitsOf
<1>4. \A i \in H : Tx(w, n, i) \in T
  <2>1. ASSUME NEW i \in H
        PROVE  Tx(w, n, i) \in T
    <3>1. i \in 1 .. Len(w)
      BY <1>0, <1>1
    <3>2. Effects(w, n, i) \in 1 .. 3
      BY EffectsCount
    <3>3. QED
      BY <3>1, <3>2 DEF Tx
  <2>2. QED
    BY <2>1
<1>5. InitsOf(w, n) \in [1 .. Cardinality(H) -> T]
  <2> HIDE DEF H, T
  <2> QED
    BY <1>2, <1>3, <1>4
<1>6. InitsOf(w, n) \in Seq(T) /\ Len(InitsOf(w, n)) = Cardinality(H)
  <2> HIDE DEF H, T
  <2> QED
    BY <1>2, <1>5
<1>7. QED
  <2>1. \A j \in 1 .. Cardinality(H) : InitsOf(w, n)[j] = Tx(w, n, Sorted[H][j])
    <3> HIDE DEF H
    <3> QED
      BY <1>3
  <2>2. QED
    BY <1>1, <1>2, <1>6, <2>1 DEF Ledgers

(* The ledger of a log's beginning does not depend on the rest. *)
LEMMA SameBeginning ==
    ASSUME NEW w, NEW u, NEW n \in Nat, \A i \in 1 .. n : u[i] = w[i]
    PROVE  InitsOf(u, n) = InitsOf(w, n)
<1>1. Heads(u, n) = Heads(w, n)
  BY DEF Heads
<1>2. Heads(w, n) \subseteq 1 .. n
  BY DEF Heads
<1>3. \A i \in Heads(w, n) : Tx(u, n, i) = Tx(w, n, i)
  <2>1. ASSUME NEW i \in Heads(w, n)
        PROVE  Tx(u, n, i) = Tx(w, n, i)
    <3>1. i \in 1 .. n /\ u[i] = w[i]
      BY <1>2
    <3>2. \A e \in 1 .. 3 : i + e - 1 <= n => u[i + e - 1] = w[i + e - 1]
      BY <3>1
    <3>3. QED
      BY <3>1, <3>2 DEF Tx, Effects
  <2>2. QED
    BY <2>1
<1>4. DOMAIN Sorted[Heads(w, n)] = 1 .. Cardinality(Heads(w, n))
        /\ \A j \in 1 .. Cardinality(Heads(w, n)) : Sorted[Heads(w, n)][j] \in Heads(w, n)
  BY <1>2, SortedByRank
<1>5. QED
  BY <1>1, <1>3, <1>4 DEF InitsOf

(* Fewer records give a beginning of the list of heads. *)
LEMMA HeadsPrefix ==
    ASSUME NEW w, LogOK(w), NEW n \in 0 .. Len(w), NEW m \in 0 .. n
    PROVE  /\ Cardinality(Heads(w, m)) <= Cardinality(Heads(w, n))
           /\ \A j \in 1 .. Cardinality(Heads(w, m)) :
                Sorted[Heads(w, m)][j] = Sorted[Heads(w, n)][j]
<1>0. Len(w) \in Nat /\ n \in Nat /\ m \in Nat /\ m <= n
  BY DEF LogOK
<1>1. Heads(w, n) \subseteq 1 .. n /\ Heads(w, m) \subseteq 1 .. m
  BY DEF Heads
<1>2. Heads(w, m) = UpTo(Heads(w, n), m)
  <2>1. \A i \in 1 .. m : i \in 1 .. n /\ i <= m
    BY <1>0
  <2>2. \A i \in 1 .. n : i <= m => i \in 1 .. m
    BY <1>0
  <2>3. QED
    BY <2>1, <2>2 DEF Heads, UpTo
<1>3. Cardinality(Heads(w, n)) \in Nat
  BY <1>0, <1>1, SortedByRank
<1>4. Cardinality(UpTo(Heads(w, n), m)) \in 0 .. Cardinality(Heads(w, n))
        /\ \A j \in 1 .. Cardinality(UpTo(Heads(w, n), m)) :
              Sorted[UpTo(Heads(w, n), m)][j] = Sorted[Heads(w, n)][j]
  BY <1>0, <1>1, SortedPrefix
<1>5. QED
  BY <1>2, <1>3, <1>4

(* The list is increasing. *)
LEMMA SortedIncreases ==
    ASSUME NEW n \in Nat, NEW S, S \subseteq 1 .. n,
           NEW j \in 1 .. Cardinality(S), NEW k \in 1 .. Cardinality(S), j < k
    PROVE  Sorted[S][j] < Sorted[S][k]
<1> DEFINE a == Sorted[S][j]
           b == Sorted[S][k]
<1>1. /\ a \in S /\ Cardinality(UpTo(S, a)) = j
      /\ b \in S /\ Cardinality(UpTo(S, b)) = k
      /\ Cardinality(S) \in Nat
  BY SortedByRank
<1>2. S \subseteq Nat /\ IsFiniteSet(S)
  BY Positions
<1> HIDE DEF a, b
<1>3. b < a => k < j
  BY <1>1, <1>2, RankGrows
<1>4. a \in Nat /\ b \in Nat /\ a # b
  BY <1>1, <1>2
<1>5. QED
  BY <1>1, <1>3, <1>4 DEF a, b

(* Less of the log, less of an init. *)
LEMMA EffectsGrow ==
    ASSUME NEW w, LogOK(w), NEW n \in 0 .. Len(w), NEW m \in 0 .. n, NEW i \in Heads(w, m)
    PROVE  /\ i \in Heads(w, n) /\ Effects(w, m, i) <= Effects(w, n, i)
           /\ i + Effects(w, n, i) - 1 <= m => Effects(w, m, i) = Effects(w, n, i)
<1> DEFINE e == Effects(w, m, i)
           f == Effects(w, n, i)
<1>0. Len(w) \in Nat /\ n \in Nat /\ m \in Nat /\ m <= n /\ n <= Len(w)
  BY DEF LogOK
<1>1. i \in 1 .. m /\ i \in 1 .. n /\ i \in Heads(w, n) /\ m \in 0 .. Len(w)
  BY <1>0 DEF Heads
<1>2. /\ e \in 1 .. 3 /\ i + e - 1 <= m
      /\ \A k \in 1 .. m : w[k].by = w[i].by <=> i <= k /\ k <= i + e - 1
  BY <1>1, EffectsCount
<1>3. /\ f \in 1 .. 3 /\ i + f - 1 <= n
      /\ \A k \in 1 .. n : w[k].by = w[i].by <=> i <= k /\ k <= i + f - 1
  BY <1>1, EffectsCount
<1> HIDE DEF e, f
<1>4. e <= f
  <2>1. i + e - 1 \in 1 .. m /\ i + e - 1 \in 1 .. n /\ i <= i + e - 1 /\ i + e - 1 <= i + e - 1
    BY <1>0, <1>1, <1>2
  <2>2. i + e - 1 <= i + f - 1
    BY <1>2, <1>3, <2>1
  <2>3. QED
    BY <1>1, <1>2, <1>3, <2>2
<1>5. i + f - 1 <= m => e = f
  <2>1. ASSUME i + f - 1 <= m PROVE e = f
    <3>1. i + f - 1 \in 1 .. m /\ i + f - 1 \in 1 .. n /\ i <= i + f - 1 /\ i + f - 1 <= i + f - 1
      BY <1>0, <1>1, <1>3, <2>1
    <3>2. i + f - 1 <= i + e - 1
      BY <1>2, <1>3, <3>1
    <3>3. QED
      BY <1>1, <1>2, <1>3, <1>4, <3>2
  <2>2. QED
    BY <2>1
<1>6. QED
  BY <1>1, <1>4, <1>5 DEF e, f

(* All but the last init of a shorter log are whole in it. *)
LEMMA EarlierInits ==
    ASSUME NEW w, LogOK(w), NEW n \in 0 .. Len(w), NEW m \in 0 .. n,
           NEW i \in Heads(w, m), NEW h \in Heads(w, m), i < h
    PROVE  Effects(w, m, i) = Effects(w, n, i)
<1>0. Len(w) \in Nat /\ n \in Nat /\ m \in Nat /\ m <= n /\ n <= Len(w)
  BY DEF LogOK
<1>1. /\ h \in 1 .. m /\ h \in 1 .. n /\ h \in 1 .. Len(w) /\ i \in 1 .. Len(w)
      /\ i \in Heads(w, n) /\ i \in Nat /\ h \in Nat
      /\ w[i].key = kOwner /\ w[h].key = kOwner
  BY <1>0 DEF Heads
<1>2. w[h].by # w[i].by
  BY <1>1, i < h DEF LogOK
<1>3. Effects(w, n, i) \in 1 .. 3 /\ ~(h <= i + Effects(w, n, i) - 1)
  BY <1>1, <1>2, EffectsCount, i < h
<1>4. i + Effects(w, n, i) - 1 <= m
  <2> DEFINE f == Effects(w, n, i)
  <2>1. f \in 1 .. 3 /\ ~(h <= i + f - 1) /\ h <= m
    BY <1>1, <1>3
  <2> HIDE DEF f
  <2>2. i + f - 1 <= m
    BY <1>0, <1>1, <2>1
  <2>3. QED
    BY <2>2 DEF f
<1>5. QED
  BY <1>4, EffectsGrow

(* What is left of a log after a power loss is a beginning of its ledger. *)
LEMMA CutLedger ==
    ASSUME NEW w, LogOK(w), NEW n \in 0 .. Len(w), NEW m \in 0 .. n
    PROVE  InitsOf(w, m) \in L!Beginnings(InitsOf(w, n))
<1> DEFINE u == InitsOf(w, m)
           v == InitsOf(w, n)
           r == Cardinality(Heads(w, m))
           c == Cardinality(Heads(w, n))
           Hm == Heads(w, m)
           Hn == Heads(w, n)
<1>0. Len(w) \in Nat /\ n \in Nat /\ m \in Nat /\ m <= n /\ m \in 0 .. Len(w)
  BY DEF LogOK
<1>1. /\ Hm \subseteq 1 .. m /\ r \in Nat /\ u \in Ledgers(w) /\ Len(u) = r
      /\ \A j \in 1 .. r : Sorted[Hm][j] \in Hm /\ u[j] = Tx(w, m, Sorted[Hm][j])
  BY <1>0, InitsInOrder
<1>2. /\ c \in Nat /\ v \in Ledgers(w) /\ Len(v) = c
      /\ \A j \in 1 .. c : Sorted[Hn][j] \in Hn /\ v[j] = Tx(w, n, Sorted[Hn][j])
  BY <1>0, InitsInOrder
<1>3. r <= c /\ \A j \in 1 .. r : Sorted[Hm][j] = Sorted[Hn][j]
  BY HeadsPrefix
<1>4. ASSUME NEW j \in 1 .. r, j < r
      PROVE  u[j] = v[j]
  <2>1. j \in 1 .. c /\ r \in 1 .. r
    BY <1>1, <1>2, <1>3, <1>4
  <2>2. Sorted[Hm][j] \in Hm /\ Sorted[Hm][r] \in Hm /\ Sorted[Hm][j] < Sorted[Hm][r]
    BY <1>0, <1>1, <1>4, <2>1, SortedIncreases
  <2>3. Effects(w, m, Sorted[Hm][j]) = Effects(w, n, Sorted[Hm][j])
    BY <2>2, EarlierInits
  <2>4. QED
    BY <1>1, <1>2, <1>3, <2>1, <2>3 DEF Tx
<1>5. ASSUME r >= 1
      PROVE  /\ u[r].by = v[r].by /\ u[r].effects \in 1 .. v[r].effects
             /\ u[r] = [v[r] EXCEPT !.effects = u[r].effects]
  <2>1. r \in 1 .. r /\ r \in 1 .. c
    BY <1>1, <1>2, <1>3, <1>5
  <2> DEFINE i == Sorted[Hm][r]
  <2>2. i \in Hm /\ i = Sorted[Hn][r] /\ u[r] = Tx(w, m, i) /\ v[r] = Tx(w, n, i)
    BY <1>1, <1>2, <1>3, <2>1
  <2> HIDE DEF i
  <2>3. Effects(w, m, i) <= Effects(w, n, i) /\ i \in Heads(w, n)
    BY <2>2, EffectsGrow
  <2>4. Effects(w, m, i) \in 1 .. 3 /\ Effects(w, n, i) \in 1 .. 3
    BY <1>0, <2>2, <2>3, EffectsCount
  <2>5. Effects(w, m, i) \in 1 .. Effects(w, n, i)
    BY <2>3, <2>4
  <2>6. QED
    BY <2>2, <2>5 DEF Tx
<1>6. CASE r = 0
  <2>1. u = << >>
    BY <1>1, <1>6 DEF Ledgers
  <2>2. QED
    BY <2>1 DEF L!Beginnings
<1>7. CASE r >= 1
  <2> DEFINE x == u[r].effects
  <2>1. u = [SubSeq(v, 1, r) EXCEPT ![r].effects = x]
    <3>1. r \in 1 .. c /\ r \in 1 .. r
      BY <1>1, <1>2, <1>3, <1>7
    <3> DEFINE T == [by : {w[i].by : i \in 1 .. Len(w)}, effects : 1 .. 3]
    <3>0. u \in Seq(T) /\ v \in Seq(T) /\ Len(u) = r /\ Len(v) = c
      BY <1>1, <1>2 DEF Ledgers
    <3> HIDE DEF T
    <3>2. SubSeq(v, 1, r) \in [1 .. r -> T] /\ \A j \in 1 .. r : SubSeq(v, 1, r)[j] = v[j]
      <4> HIDE DEF v, r, c
      <4>1. Len(SubSeq(v, 1, r)) = r /\ SubSeq(v, 1, r) \in Seq(T)
        BY <1>1, <1>2, <3>1, <3>0
      <4>2. \A j \in 1 .. r : SubSeq(v, 1, r)[j] = v[j]
        BY <1>1, <1>2, <3>1, <3>0
      <4> DEFINE q == SubSeq(v, 1, r)
      <4>3. Len(q) = r /\ q \in Seq(T)
        BY <4>1
      <4> HIDE DEF q
      <4>4. q \in [1 .. r -> T]
        BY <4>3
      <4> QED
        BY <4>2, <4>4 DEF q
    <3>3. u \in [1 .. r -> T]
      <4> HIDE DEF u, r
      <4> QED
        BY <3>0
    <3>4. \A j \in 1 .. r : u[j] = [SubSeq(v, 1, r) EXCEPT ![r].effects = x][j]
      <4>1. u[r] = [SubSeq(v, 1, r)[r] EXCEPT !.effects = x]
        BY <1>5, <1>7, <3>1, <3>2
      <4>2. \A j \in 1 .. r : j # r => u[j] = SubSeq(v, 1, r)[j]
        BY <1>1, <1>4, <3>2
      <4> HIDE DEF u, v, r, x
      <4>3. QED
        BY <3>2, <4>1, <4>2
    <3> HIDE DEF u, v, r, x
    <3>5. QED
      BY <3>2, <3>3, <3>4
  <2>2. x \in 1 .. v[r].effects /\ r \in 1 .. Len(v)
    BY <1>1, <1>2, <1>3, <1>5, <1>7
  <2> HIDE DEF u, v, r, x
  <2>3. u \in L!Beginnings(v)
    <3> DEFINE Cut(k) == {[SubSeq(v, 1, k) EXCEPT ![k].effects = y] : y \in 1 .. v[k].effects}
    <3>1. u \in Cut(r)
      BY <2>1, <2>2
    <3>2. Cut(r) \in {Cut(k) : k \in 1 .. Len(v)}
      BY <2>2
    <3>3. L!Beginnings(v) = {<< >>} \cup UNION {Cut(k) : k \in 1 .. Len(v)}
      BY DEF L!Beginnings
    <3> HIDE DEF Cut
    <3>4. QED
      BY <3>1, <3>2, <3>3
  <2>4. QED
    BY <2>3 DEF u, v
<1>8. QED
  BY <1>1, <1>6, <1>7

(* The records of one process at the end of a log are its ledger's last entry. *)
LEMMA TailInit ==
    ASSUME NEW w, LogOK(w), NEW p, NEW c \in 0 .. Len(w), c < Len(w),
           \A i \in 1 .. c : w[i].by # p,
           \A i \in c + 1 .. Len(w) : w[i].by = p
    PROVE  /\ Len(w) - c \in 1 .. 3
           /\ w[c + 1].key = kOwner
           /\ InitsOf(w, Len(w)) =
                Append(InitsOf(w, c), [by |-> p, effects |-> Len(w) - c])
<1> DEFINE n == Len(w)
           h == c + 1
           Hc == Heads(w, c)
           Hn == Heads(w, n)
           r == Cardinality(Hc)
           u == InitsOf(w, c)
           v == InitsOf(w, n)
<1>0. n \in Nat /\ c \in Nat /\ n \in 0 .. Len(w) /\ c \in 0 .. n /\ h \in 1 .. n /\ h \in c + 1 .. n
        /\ h \in Nat /\ n \in c + 1 .. n /\ n \in 1 .. n
  BY DEF LogOK
<1>1. w[h].key = kOwner
  <2>1. PICK i \in 1 .. h, e \in 1 .. 3 : Belongs(w, h, i, e)
    BY <1>0, RecordBelongs
  <2>2. w[i].by = p /\ w[i].key = kOwner
    BY <1>0, <2>1 DEF Belongs
  <2>3. i = h
    BY <1>0, <2>1, <2>2
  <2>4. QED
    BY <2>2, <2>3
<1>2. h \in Hn
  BY <1>0, <1>1 DEF Heads
<1>3. Effects(w, n, h) = n - c /\ n - c \in 1 .. 3
  <2> DEFINE f == Effects(w, n, h)
  <2>1. /\ f \in 1 .. 3 /\ h + f - 1 <= n
        /\ \A k \in 1 .. n : w[k].by = w[h].by <=> h <= k /\ k <= h + f - 1
    BY <1>0, <1>2, EffectsCount
  <2>2. w[n].by = w[h].by
    BY <1>0
  <2> HIDE DEF f
  <2>3. n <= h + f - 1
    BY <1>0, <2>1, <2>2
  <2>4. f = n - c
    BY <1>0, <2>1, <2>3
  <2>5. QED
    BY <2>1, <2>4 DEF f
<1>4. \A i \in Hc : i \in Hn /\ Effects(w, c, i) = Effects(w, n, i)
  <2>1. ASSUME NEW i \in Hc
        PROVE  i \in Hn /\ Effects(w, c, i) = Effects(w, n, i)
    <3>1. i \in Hn /\ i \in 1 .. c /\ i \in Nat
      BY <1>0, EffectsGrow DEF Heads
    <3> DEFINE f == Effects(w, n, i)
    <3>2. f \in 1 .. 3 /\ \A k \in 1 .. n : w[k].by = w[i].by <=> i <= k /\ k <= i + f - 1
      BY <1>0, <3>1, EffectsCount
    <3>3. w[h].by # w[i].by /\ i <= h
      BY <1>0, <3>1
    <3> HIDE DEF f
    <3>4. i + f - 1 <= c
      BY <1>0, <3>1, <3>2, <3>3
    <3>5. QED
      BY <1>0, <3>1, <3>4, EffectsGrow DEF f
  <2>2. QED
    BY <2>1
<1>5. Hn = Hc \cup {h}
  <2>1. \A i \in Hn : i \in Hc \/ i = h
    <3>1. ASSUME NEW i \in Hn, i # h
          PROVE  i \in Hc
      <4>1. i \in 1 .. n /\ w[i].key = kOwner
        BY DEF Heads
      <4>2. w[i].by # w[h].by
        BY <1>0, <1>1, <3>1, <4>1 DEF LogOK
      <4>3. i \notin c + 1 .. n
        BY <1>0, <4>2
      <4>4. i \in 1 .. c
        BY <1>0, <4>1, <4>3
      <4>5. QED
        BY <4>1, <4>4 DEF Heads
    <3>2. QED
      BY <3>1
  <2>2. QED
    BY <1>2, <1>4, <2>1
<1>6. /\ r \in Nat /\ u \in Ledgers(w) /\ Len(u) = r
      /\ Hc \subseteq 1 .. c
      /\ \A j \in 1 .. r : Sorted[Hc][j] \in Hc /\ u[j] = Tx(w, c, Sorted[Hc][j])
  BY <1>0, InitsInOrder
<1>7. Cardinality(Hn) = r + 1
  <2>1. IsFiniteSet(Hc) /\ h \notin Hc
    <3>1. IsFiniteSet(Hc) /\ \A i \in Hc : i <= c
      <4> HIDE DEF Hc
      <4> QED
        BY <1>0, <1>6, Positions
    <3>2. QED
      BY <1>0, <3>1
  <2> HIDE DEF Hc, Hn, h
  <2>2. QED
    BY <1>5, <2>1, FS_AddElement
<1>8. /\ v \in Ledgers(w) /\ Len(v) = r + 1
      /\ \A j \in 1 .. r + 1 : v[j] = Tx(w, n, Sorted[Hn][j])
  <2>1. /\ v \in Ledgers(w) /\ Len(v) = Cardinality(Hn)
        /\ \A j \in 1 .. Cardinality(Hn) : v[j] = Tx(w, n, Sorted[Hn][j])
    BY <1>0, InitsInOrder
  <2>2. QED
    BY <1>7, <2>1
<1>9. Sorted[Hn][r + 1] = h
  <2>1. Hn \subseteq 1 .. n /\ h \in Nat
    BY <1>0 DEF Heads
  <2>2. UpTo(Hn, h) = Hn
    <3>1. \A i \in Hn : i <= h
      BY <1>0, <1>5, <1>6
    <3>2. QED
      BY <3>1 DEF UpTo
  <2> HIDE DEF Hn, h, n, r
  <2>3. Sorted[Hn][Cardinality(UpTo(Hn, h))] = h
    BY <1>0, <1>2, <2>1, SortedByRank
  <2>4. QED
    BY <1>7, <2>2, <2>3
<1>10. \A j \in 1 .. r : Sorted[Hc][j] = Sorted[Hn][j]
  BY <1>0, HeadsPrefix
<1>11. \A j \in 1 .. r : v[j] = u[j]
  <2>1. \A i \in Hc : Tx(w, n, i) = Tx(w, c, i)
    BY <1>4 DEF Tx
  <2>2. ASSUME NEW j \in 1 .. r
        PROVE  v[j] = u[j]
    <3> DEFINE i == Sorted[Hc][j]
    <3>1. j \in 1 .. r + 1
      BY <1>6
    <3>2. i \in Hc /\ u[j] = Tx(w, c, i)
      BY <1>6
    <3>3. v[j] = Tx(w, n, i)
      <4>1. v[j] = Tx(w, n, Sorted[Hn][j])
        BY <1>8, <3>1
      <4>2. Sorted[Hn][j] = i
        BY <1>10
      <4>3. QED
        BY <4>1, <4>2
    <3> HIDE DEF i
    <3>4. QED
      BY <2>1, <3>2, <3>3
  <2>3. QED
    BY <2>2
<1>12. v[r + 1] = [by |-> p, effects |-> n - c]
  <2>1. w[h].by = p /\ r + 1 \in 1 .. r + 1
    BY <1>0, <1>6
  <2>2. QED
    BY <1>3, <1>8, <1>9, <2>1 DEF Tx
<1>13. v = Append(u, [by |-> p, effects |-> n - c])
  <2> DEFINE T == [by : {w[i].by : i \in 1 .. Len(w)}, effects : 1 .. 3]
             x == [by |-> p, effects |-> n - c]
  <2>1. u \in Seq(T) /\ v \in Seq(T)
    BY <1>6, <1>8 DEF Ledgers
  <2>2. x \in T
    <3>1. r + 1 \in 1 .. r + 1
      BY <1>6
    <3> HIDE DEF T, x
    <3>2. QED
      BY <1>8, <1>12, <2>1, <3>1 DEF x
  <2> HIDE DEF T, x, u, v, r
  <2>3. QED
    BY <1>6, <1>8, <1>11, <1>12, <2>1, <2>2 DEF x
<1>14. QED
  BY <1>1, <1>3, <1>13

(* A key that was never put has no value. *)
LEMMA NewestOfNone ==
    ASSUME NEW w, NEW k, \A i \in 1 .. Len(w) : w[i].key # k
    PROVE  Newest(w, k) = None
BY DEF Newest, LastPut

(* The records of key k are the ones d behind the owners of the inits in J. *)
PutsOfKey(w, J, k, d) ==
    LET heads == Sorted[Heads(w, Len(w))]
    IN /\ J \subseteq 1 .. Cardinality(Heads(w, Len(w)))
       /\ \A j \in J : heads[j] + d \in 1 .. Len(w) /\ w[heads[j] + d].key = k
       /\ \A i \in 1 .. Len(w) : w[i].key = k => \E j \in J : i = heads[j] + d

IsLast(m, J) == m \in J /\ \A j \in J : j <= m

(* The newest one is that of the last init in J. *)
LEMMA NewestInit ==
    ASSUME NEW w, NEW J, NEW k, NEW d \in Nat, NEW m,
           LogOK(w), PutsOfKey(w, J, k, d), IsLast(m, J)
    PROVE  Newest(w, k) = w[Sorted[Heads(w, Len(w))][m] + d].val
<1> DEFINE n == Len(w)
           H == Heads(w, n)
           s == Sorted[H]
           i == s[m] + d
<1>1. n \in Nat /\ H \subseteq 1 .. n
  BY DEF LogOK, Heads
<1>2. /\ J \subseteq 1 .. Cardinality(H)
      /\ m \in J /\ \A j \in J : j <= m
      /\ i \in 1 .. n /\ w[i].key = k
      /\ \A l \in 1 .. n : w[l].key = k => \E j \in J : l = s[j] + d
  BY DEF PutsOfKey, IsLast
<1>3. ASSUME NEW l \in i + 1 .. n, w[l].key = k
      PROVE  FALSE
  <2>1. l \in 1 .. n /\ l > i /\ l \in Nat /\ i \in Nat
    <3> HIDE DEF i
    <3> QED
      BY <1>1, <1>2
  <2>2. PICK j \in J : l = s[j] + d
    BY <1>2, <1>3, <2>1
  <2>3. j \in 1 .. Cardinality(H) /\ m \in 1 .. Cardinality(H) /\ j <= m
    BY <1>2
  <2> HIDE DEF H
  <2>4. Cardinality(H) \in Nat /\ s[j] \in H /\ s[m] \in H
    BY <1>1, <2>3, SortedByRank
  <2> DEFINE x == s[m]
             y == s[j]
  <2>5. x \in Nat /\ y \in Nat /\ j \in Nat /\ m \in Nat
    <3>1. \A z \in 1 .. n : z \in Nat
      BY <1>1
    <3>2. \A z \in 1 .. Cardinality(H) : z \in Nat
      BY <2>4
    <3>3. x \in 1 .. n /\ y \in 1 .. n
      BY <1>1, <2>4
    <3> HIDE DEF x, y, n
    <3>4. QED
      BY <2>3, <3>1, <3>2, <3>3
  <2>6. l = y + d /\ i = x + d /\ i < l
    BY <2>1, <2>2
  <2>7. j < m => y < x
    BY <1>1, <2>3, SortedIncreases
  <2>8. j = m => y = x
    OBVIOUS
  <2> HIDE DEF x, y, i, n
  <2>9. QED
    BY <2>3, <2>5, <2>6, <2>7, <2>8
<1> HIDE DEF i
<1>4. \A l \in i + 1 .. n : w[l].key # k
  BY <1>3
<1>5. Newest(w, k) = w[i].val
  BY <1>1, <1>2, <1>4, NewestIsLast
<1>6. QED
  BY <1>5 DEF i

----------------------------------------------------------------------------
(* No process puts a second owner. *)
OneInitEach ==
    \A i, k \in 1 .. Len(wal) :
        wal[i].key = kOwner /\ wal[k].key = kOwner /\ wal[i].by = wal[k].by => i = k

(* A process that has not left "main" has put nothing. *)
NothingPutYet ==
    \A p \in Proc : pc[p] \in {"idle", "open", "main"} =>
        \A i \in 1 .. Len(wal) : wal[i].by # p

(* Every record is one of an init that its writer was started with. *)
PutByInit(i, p) ==
    /\ pc[p] # "idle" /\ req[p].valid /\ WellFormedInit(req[p])
    /\ wal[i] \in {OwnerRecord(p), SupplyRecord(p), BalanceRecord(p)}

PutByInits == \A i \in 1 .. Len(wal) : PutByInit(i, wal[i].by)

(* What a process does is what it was started for. *)
Serves ==
    \A p \in Proc :
        /\ pc[p] \in Inside => req[p].valid
        /\ pc[p] \in {"putTotalSupply", "putBalance", "return"} => WellFormedInit(req[p])

(* The records of the process that has the store are the newest. *)
HolderIsLast ==
    /\ lock \in Proc => pc[lock] \in Running
    /\ \A i, k \in 1 .. Len(wal) : i <= k /\ wal[i].by = lock => wal[k].by = lock

(* A running process that has put something has the store. *)
WriterHolds ==
    \A i \in 1 .. Len(wal) : pc[wal[i].by] \in Running => wal[i].by = lock

(* A power loss leaves no process running. *)
LostEnded == \A p \in lost : pc[p] \in Ended

AskedKey(r) == IF AsksTotalSupply(r.data) THEN kTotalSupply ELSE keyBalanceOf(r.data.address)

(* What a process that calls exit is about to report. *)
Outcome(p) ==
    \/ status[p] \in L!Failures(req[p]) /\ reply[p] = None
    \/ status[p] = 0 /\ req[p].valid /\ WellFormedInit(req[p]) /\ reply[p] = None
    \/ /\ status[p] = 0 /\ req[p].valid /\ WellFormedCall(req[p])
       /\ reply[p] # None /\ reply[p] = Newest(wal, AskedKey(req[p])) /\ lock = p

Outcomes ==
    \A p \in Proc :
        /\ pc[p] \in {"idle", "open"} \cup Inside => reply[p] = None
        /\ pc[p] = "exit" => Outcome(p)

LedgerInv ==
    /\ OneInitEach
    /\ NothingPutYet
    /\ PutByInits
    /\ Serves
    /\ HolderIsLast
    /\ WriterHolds
    /\ LostEnded
    /\ Outcomes

----------------------------------------------------------------------------
(* Who has the store after a step of process p. *)
LEMMA LockOfStep ==
    ASSUME NEW p \in Proc, TypeOK, Launch(p) \/ Step(p) \/ Kill(p)
    PROVE  \/ lock' = lock /\ pc'[p] \in Running /\ pc[p] \in {"idle"} \cup Running
           \/ lock = NoProc /\ lock' = p /\ pc[p] = "open" /\ pc'[p] = "main" /\ wal' = wal
           \/ /\ lock' = IF lock = p THEN NoProc ELSE lock
              /\ pc[p] \in Running /\ pc'[p] \in Ended /\ wal' = wal
<1>1. CASE Launch(p)
  BY <1>1 DEF Launch, Goto, TypeOK, storeVars, Running
<1>2. CASE OpenRejected(p) \/ OpenStoreFails(p) \/ InitRejected(p) \/ HandleRejected(p)
  BY <1>2 DEF OpenRejected, OpenStoreFails, InitRejected, HandleRejected, FailWith,
              ExitWith, Goto, TypeOK, storeVars, Running, Inside
<1>3. CASE OpenStore(p)
  BY <1>3 DEF OpenStore, LockStore, Goto, TypeOK
<1>4. CASE PutOwner(p) \/ PutTotalSupply(p) \/ PutBalance(p)
  BY <1>4 DEF PutOwner, PutTotalSupply, PutBalance, Put, AppendRecord, FailWith,
              ExitWith, Goto, TypeOK, storeVars, Running, Inside
<1>5. CASE ReturnFromMain(p) \/ TotalSupply(p) \/ BalanceOf(p)
  BY <1>5 DEF ReturnFromMain, TotalSupply, BalanceOf, Get, FailWith, ExitWith, Goto,
              TypeOK, storeVars, Running, Inside
<1>6. CASE Exit(p) \/ Kill(p)
  BY <1>6 DEF Exit, Kill, UnlockStore, Goto, TypeOK, Running, Ended
<1>7. QED
  BY <1>1, <1>2, <1>3, <1>4, <1>5, <1>6 DEF Step

(***************************************************************************)
(* How a step of process p changes the log: not at all, or by a record of  *)
(* an init that has the store.                                             *)
(***************************************************************************)
LEMMA RecordOfStep ==
    ASSUME NEW p \in Proc, TypeOK, HoldsLock, Launch(p) \/ Step(p) \/ Kill(p)
    PROVE  \/ wal' = wal
           \/ /\ lock = p /\ lock' = p
              /\ pc[p] \in Inside /\ pc'[p] \in {"putTotalSupply", "putBalance", "return", "exit"}
              /\ Len(wal') = Len(wal) + 1
              /\ \A i \in 1 .. Len(wal) : wal'[i] = wal[i]
              /\ wal'[Len(wal) + 1].by = p
              /\ wal'[Len(wal) + 1] \in {OwnerRecord(p), SupplyRecord(p), BalanceRecord(p)}
              /\ wal'[Len(wal) + 1].key = kOwner => pc[p] = "main" /\ WellFormedInit(req[p])
              /\ pc[p] = "main" => WellFormedInit(req[p])
<1>1. SUFFICES ASSUME wal' # wal
               PROVE  /\ PutsOwner(p) \/ PutsSupply(p) \/ PutsBalance(p)
                      /\ pc'[p] \in {"putTotalSupply", "putBalance", "return", "exit"}
  <2>1. CASE wal' = wal
    BY <2>1
  <2>2. CASE wal' # wal
    <3>1. /\ PutsOwner(p) \/ PutsSupply(p) \/ PutsBalance(p)
          /\ pc'[p] \in {"putTotalSupply", "putBalance", "return", "exit"}
      BY <2>2, <1>1
    <3>2. lock = p /\ lock' = p
      BY <3>1, PutsAppend DEF HoldsLock, PutsOwner, PutsSupply, PutsBalance, AppendRecord
    <3>3. /\ pc[p] \in Inside
          /\ Len(wal') = Len(wal) + 1
          /\ \A i \in 1 .. Len(wal) : wal'[i] = wal[i]
          /\ PutsOwner(p) => wal'[Len(wal) + 1] = OwnerRecord(p)
          /\ PutsSupply(p) => wal'[Len(wal) + 1] = SupplyRecord(p)
          /\ PutsBalance(p) => wal'[Len(wal) + 1] = BalanceRecord(p)
      BY <3>1, PutsAppend
    <3>4. /\ OwnerRecord(p).by = p /\ SupplyRecord(p).by = p /\ BalanceRecord(p).by = p
          /\ SupplyRecord(p).key # kOwner /\ BalanceRecord(p).key # kOwner
      BY KeysDiffer DEF OwnerRecord, SupplyRecord, BalanceRecord
    <3>5. CASE PutsOwner(p)
      BY <3>1, <3>2, <3>3, <3>4, <3>5 DEF PutsOwner
    <3>6. CASE PutsSupply(p)
      BY <3>1, <3>2, <3>3, <3>4, <3>6 DEF PutsSupply
    <3>7. CASE PutsBalance(p)
      BY <3>1, <3>2, <3>3, <3>4, <3>7 DEF PutsBalance
    <3>8. QED
      BY <3>1, <3>5, <3>6, <3>7
  <2>3. QED
    BY <2>1, <2>2
<1>2. PutsOwner(p) \/ PutsSupply(p) \/ PutsBalance(p)
  BY <1>1, WalOfStep
<1>3. ~(Launch(p) \/ OpenStore(p) \/ Exit(p) \/ Kill(p))
  BY <1>1 DEF Launch, OpenStore, LockStore, Exit, Kill, UnlockStore, storeVars
<1>4. CASE OpenRejected(p) \/ OpenStoreFails(p) \/ InitRejected(p) \/ HandleRejected(p)
  BY <1>1, <1>4 DEF OpenRejected, OpenStoreFails, InitRejected, HandleRejected, storeVars
<1>5. CASE ReturnFromMain(p) \/ TotalSupply(p) \/ BalanceOf(p)
  BY <1>1, <1>5 DEF ReturnFromMain, TotalSupply, BalanceOf, Get, storeVars
<1>6. CASE PutOwner(p) \/ PutTotalSupply(p) \/ PutBalance(p)
  <2>1. pc'[p] \in {"putTotalSupply", "putBalance", "return", "exit"}
    BY <1>6 DEF PutOwner, PutTotalSupply, PutBalance, Put, FailWith, ExitWith, Goto, TypeOK
  <2>2. QED
    BY <1>2, <2>1
<1>7. QED
  BY <1>3, <1>4, <1>5, <1>6 DEF Step

(* A power loss ends every process and leaves a beginning of the log. *)
LEMMA PowerLossCuts ==
    ASSUME TypeOK, PowerLoss
    PROVE  /\ lock' = NoProc /\ req' = req /\ status' = status /\ reply' = reply
           /\ \A p \in Proc : pc'[p] = IF pc[p] \in Running THEN "killed" ELSE pc[p]
           /\ \A p \in Proc : pc'[p] \notin Running
           /\ Len(wal') \in 0 .. Len(wal)
           /\ \A i \in 1 .. Len(wal') : wal'[i] = wal[i] /\ i \in 1 .. Len(wal)
           /\ \A p \in lost' : p \in lost \/ \E i \in 1 .. Len(wal) : wal[i].by = p
<1>0. StoreTypeOK /\ Len(wal) \in Nat
  BY DEF TypeOK, StoreTypeOK
<1>1. PICK n \in durable .. Len(wal) :
        /\ wal' = SubSeq(wal, 1, n)
        /\ lost' = lost \cup {wal[i].by : i \in n + 1 .. Len(wal)}
        /\ lock' = NoProc
  BY DEF PowerLoss, CutLog
<1>2. n \in Nat /\ n <= Len(wal)
  BY <1>0, <1>1 DEF StoreTypeOK
<1>3. Len(wal') = n /\ \A i \in 1 .. n : wal'[i] = wal[i]
  BY <1>0, <1>1, <1>2 DEF StoreTypeOK
<1>4. \A p \in Proc : pc'[p] = IF pc[p] \in Running THEN "killed" ELSE pc[p]
  BY DEF PowerLoss
<1>5. "killed" \notin Running
  BY DEF Running, Inside
<1>6. \A i \in n + 1 .. Len(wal) : i \in 1 .. Len(wal)
  BY <1>0, <1>2
<1>7. Len(wal') \in 0 .. Len(wal) /\ \A i \in 1 .. Len(wal') : i \in 1 .. Len(wal)
  BY <1>0, <1>2, <1>3
<1>8. req' = req /\ status' = status /\ reply' = reply
  BY DEF PowerLoss
<1>9. QED
  BY <1>1, <1>3, <1>4, <1>5, <1>6, <1>7, <1>8

(* Writers are processes. *)
LEMMA WritersType ==
    ASSUME TypeOK
    PROVE  /\ Len(wal) \in Nat
           /\ \A i \in 1 .. Len(wal) : wal[i].by \in Proc
           /\ NoProc \notin Proc
<1>1. wal \in Seq(Record)
  BY DEF TypeOK, StoreTypeOK
<1>2. \A i \in 1 .. Len(wal) : wal[i] \in Record
  BY <1>1
<1>3. QED
  BY <1>1, <1>2, StoreAssumption DEF Record

(* A record of the new log is an old one, or the one a step has just put. *)
LEMMA OldOrNew ==
    ASSUME TypeOK, HoldsLock, NEW p \in Proc, Launch(p) \/ Step(p) \/ Kill(p),
           NEW i \in 1 .. Len(wal')
    PROVE  \/ i \in 1 .. Len(wal) /\ wal'[i] = wal[i]
           \/ i = Len(wal) + 1 /\ wal' # wal
<1>1. CASE wal' = wal
  BY <1>1
<1>2. CASE wal' # wal
  <2>1. Len(wal') = Len(wal) + 1 /\ \A k \in 1 .. Len(wal) : wal'[k] = wal[k]
    BY <1>2, RecordOfStep
  <2>2. Len(wal) \in Nat
    BY WritersType
  <2>3. i \in 1 .. Len(wal) \/ i = Len(wal) + 1
    BY <2>1, <2>2
  <2>4. QED
    BY <1>2, <2>1, <2>3
<1>3. QED
  BY <1>1, <1>2

(* A process puts nothing before it has passed "main". *)
LEMMA NothingPutYetStep ==
    TypeOK /\ HoldsLock /\ NothingPutYet /\ [Next]_vars => NothingPutYet'
<1> DEFINE Early == {"idle", "open", "main"}
<1> SUFFICES ASSUME TypeOK, HoldsLock, NothingPutYet, [Next]_vars,
                    NEW q \in Proc, pc'[q] \in Early, NEW i \in 1 .. Len(wal')
             PROVE  wal'[i].by # q
  BY DEF NothingPutYet
<1>1. ASSUME NEW p \in Proc, Launch(p) \/ Step(p) \/ Kill(p)
      PROVE  wal'[i].by # q
  <2>1. pc[q] \in Early
    <3>1. CASE p # q
      BY <1>1, <3>1, OthersUndisturbed
    <3>2. CASE p = q
      BY <1>1, <3>2 DEF Step, Launch, Kill, OpenRejected, OpenStore, OpenStoreFails,
            InitRejected, PutOwner, PutTotalSupply, PutBalance, Put, ReturnFromMain,
            HandleRejected, TotalSupply, BalanceOf, Get, Exit, FailWith, ExitWith, Goto,
            TypeOK
    <3>3. QED
      BY <3>1, <3>2
  <2>2. CASE i \in 1 .. Len(wal) /\ wal'[i] = wal[i]
    BY <2>1, <2>2 DEF NothingPutYet
  <2>3. CASE i = Len(wal) + 1 /\ wal' # wal
    BY <1>1, <2>3, RecordOfStep
  <2>4. QED
    BY <1>1, <2>2, <2>3, OldOrNew
<1>2. CASE PowerLoss
  <2>1. pc'[q] = IF pc[q] \in Running THEN "killed" ELSE pc[q]
    BY <1>2, PowerLossCuts
  <2>2. pc[q] \in Early
    BY <2>1
  <2>3. wal'[i] = wal[i] /\ i \in 1 .. Len(wal)
    BY <1>2, PowerLossCuts
  <2>4. QED
    BY <2>2, <2>3 DEF NothingPutYet
<1>3. CASE UNCHANGED vars
  BY <1>3 DEF vars, NothingPutYet
<1>4. QED
  BY <1>1, <1>2, <1>3 DEF Next

(* A process does only what its command line asks for. *)
LEMMA ServesStep == TypeOK /\ Serves /\ [Next]_vars => Serves'
<1> DEFINE Fits(l, r) ==
      /\ l \in Inside => r.valid
      /\ l \in {"putTotalSupply", "putBalance", "return"} => WellFormedInit(r)
<1> SUFFICES ASSUME TypeOK, Serves, [Next]_vars, NEW q \in Proc
             PROVE  Fits(pc'[q], req'[q])
  BY DEF Serves
<1>0. Fits(pc[q], req[q])
  BY DEF Serves
<1>1. ASSUME NEW p \in Proc, Launch(p) \/ Step(p) \/ Kill(p), p # q
      PROVE  Fits(pc'[q], req'[q])
  <2>1. pc'[q] = pc[q] /\ req'[q] = req[q]
    BY <1>1, OthersUndisturbed
  <2>2. QED
    BY <1>0, <2>1
<1>2. CASE \/ Launch(q) \/ OpenRejected(q) \/ OpenStoreFails(q) \/ InitRejected(q)
           \/ ReturnFromMain(q) \/ HandleRejected(q) \/ TotalSupply(q) \/ BalanceOf(q)
           \/ Exit(q) \/ Kill(q)
  <2>1. pc'[q] \notin Inside
    BY <1>2 DEF Launch, OpenRejected, OpenStoreFails, InitRejected, ReturnFromMain,
          HandleRejected, TotalSupply, BalanceOf, Get, Exit, Kill, FailWith, ExitWith,
          Goto, TypeOK, Inside
  <2>2. QED
    BY <2>1 DEF Inside
<1>3. CASE OpenStore(q)
  BY <1>3 DEF OpenStore, Goto, TypeOK
<1>4. CASE PutOwner(q) \/ PutTotalSupply(q) \/ PutBalance(q)
  <2>1. /\ req' = req /\ pc[q] \in Inside
        /\ pc'[q] \in {"putTotalSupply", "putBalance", "return"} \/ pc'[q] = "exit"
        /\ pc[q] = "main" => WellFormedInit(req[q])
        /\ pc[q] \in {"main", "putTotalSupply", "putBalance"}
    BY <1>4 DEF PutOwner, PutTotalSupply, PutBalance, Put, FailWith, ExitWith, Goto,
          TypeOK, Inside
  <2>2. QED
    BY <1>0, <2>1 DEF Inside
<1>5. CASE PowerLoss
  BY <1>0, <1>5, PowerLossCuts DEF Running, Inside
<1>6. CASE UNCHANGED vars
  BY <1>0, <1>6 DEF vars
<1>7. QED
  BY <1>1, <1>2, <1>3, <1>4, <1>5, <1>6 DEF Next, Step

(* Only a process that has put nothing puts an owner. *)
LEMMA OneInitEachStep ==
    TypeOK /\ HoldsLock /\ NothingPutYet /\ OneInitEach /\ [Next]_vars => OneInitEach'
<1> SUFFICES ASSUME TypeOK, HoldsLock, NothingPutYet, OneInitEach, [Next]_vars,
                    NEW i \in 1 .. Len(wal'), NEW k \in 1 .. Len(wal'),
                    wal'[i].key = kOwner, wal'[k].key = kOwner, wal'[i].by = wal'[k].by
             PROVE  i = k
  BY DEF OneInitEach
<1>1. ASSUME NEW p \in Proc, Launch(p) \/ Step(p) \/ Kill(p)
      PROVE  i = k
  <2> DEFINE n == Len(wal) + 1
  <2>1. ASSUME NEW a \in 1 .. Len(wal), wal' # wal, wal'[n].key = kOwner,
               wal[a].by = wal'[n].by
        PROVE  FALSE
    <3>1. pc[p] = "main" /\ wal'[n].by = p
      BY <1>1, <2>1, RecordOfStep
    <3>2. QED
      BY <2>1, <3>1 DEF NothingPutYet
  <2>2. (i \in 1 .. Len(wal) /\ wal'[i] = wal[i]) \/ (i = n /\ wal' # wal)
    BY <1>1, OldOrNew
  <2>3. (k \in 1 .. Len(wal) /\ wal'[k] = wal[k]) \/ (k = n /\ wal' # wal)
    BY <1>1, OldOrNew
  <2> HIDE DEF n
  <2>4. QED
    BY <2>1, <2>2, <2>3 DEF OneInitEach
<1>2. CASE PowerLoss
  <2>1. /\ wal'[i] = wal[i] /\ i \in 1 .. Len(wal)
        /\ wal'[k] = wal[k] /\ k \in 1 .. Len(wal)
    BY <1>2, PowerLossCuts
  <2>2. QED
    BY <2>1 DEF OneInitEach
<1>3. CASE UNCHANGED vars
  BY <1>3 DEF vars, OneInitEach
<1>4. QED
  BY <1>1, <1>2, <1>3 DEF Next

(* The command line of a process that has put something does not change. *)
LEMMA PutByInitsStep ==
    TypeOK /\ HoldsLock /\ Serves /\ PutByInits /\ [Next]_vars => PutByInits'
<1> SUFFICES ASSUME TypeOK, HoldsLock, Serves, PutByInits, [Next]_vars,
                    NEW i \in 1 .. Len(wal')
             PROVE  PutByInit(i, wal[i].by)'
  BY DEF PutByInits
<1>1. ASSUME i \in 1 .. Len(wal), wal'[i] = wal[i],
             pc'[wal[i].by] # "idle", req'[wal[i].by] = req[wal[i].by]
      PROVE  PutByInit(i, wal[i].by)'
  <2>1. PutByInit(i, wal[i].by)
    BY <1>1 DEF PutByInits
  <2>2. QED
    BY <1>1, <2>1 DEF PutByInit, OwnerRecord, SupplyRecord, BalanceRecord
<1>2. ASSUME NEW p \in Proc, Launch(p) \/ Step(p) \/ Kill(p)
      PROVE  PutByInit(i, wal[i].by)'
  <2>1. CASE i \in 1 .. Len(wal) /\ wal'[i] = wal[i]
    <3> DEFINE q == wal[i].by
    <3>1. q \in Proc /\ pc[q] # "idle"
      BY <2>1, WritersType DEF PutByInits, PutByInit
    <3>2. p # q => pc'[q] = pc[q] /\ req'[q] = req[q]
      BY <1>2, <3>1, OthersUndisturbed
    <3>3. p = q => req'[q] = req[q] /\ pc'[q] # "idle"
      <4>1. pc'[p] # "idle"
        BY <1>2, LockOfStep DEF Running, Inside, Ended
      <4>2. p = q => req' = req
        BY <1>2, <3>1, OthersUndisturbed
      <4>3. QED
        BY <4>1, <4>2
    <3>4. QED
      BY <1>1, <2>1, <3>1, <3>2, <3>3
  <2>2. CASE i = Len(wal) + 1 /\ wal' # wal
    <3>1. /\ pc[p] \in Inside /\ pc'[p] \in {"putTotalSupply", "putBalance", "return", "exit"}
          /\ wal'[i].by = p
          /\ wal'[i] \in {OwnerRecord(p), SupplyRecord(p), BalanceRecord(p)}
          /\ pc[p] = "main" => WellFormedInit(req[p])
      BY <1>2, <2>2, RecordOfStep
    <3>2. req' = req
      BY <1>2, <3>1, OthersUndisturbed DEF Inside
    <3>3. req[p].valid /\ WellFormedInit(req[p])
      BY <3>1 DEF Serves, Inside
    <3>4. QED
      BY <3>1, <3>2, <3>3 DEF PutByInit, OwnerRecord, SupplyRecord, BalanceRecord
  <2>3. QED
    BY <1>2, <2>1, <2>2, OldOrNew
<1>3. CASE PowerLoss
  <2> DEFINE q == wal[i].by
  <2>1. wal'[i] = wal[i] /\ i \in 1 .. Len(wal) /\ req' = req
    BY <1>3, PowerLossCuts
  <2>2. q \in Proc /\ pc[q] # "idle"
    BY <2>1, WritersType DEF PutByInits, PutByInit
  <2>3. pc'[q] = IF pc[q] \in Running THEN "killed" ELSE pc[q]
    BY <1>3, <2>2, PowerLossCuts
  <2>4. QED
    BY <1>1, <2>1, <2>2, <2>3
<1>4. CASE UNCHANGED vars
  <2>1. PutByInit(i, wal[i].by)
    BY <1>4 DEF vars, PutByInits
  <2>2. QED
    BY <1>4, <2>1 DEF vars, PutByInit, OwnerRecord, SupplyRecord, BalanceRecord
<1>5. QED
  BY <1>2, <1>3, <1>4 DEF Next

(***************************************************************************)
(* The process that has the store is running, and what it has put is at    *)
(* the end of the log: nobody else puts, and who gets the store next has   *)
(* put nothing.                                                            *)
(***************************************************************************)
LEMMA HolderIsLastStep ==
    TypeOK /\ HoldsLock /\ NothingPutYet /\ HolderIsLast /\ [Next]_vars => HolderIsLast'
<1> SUFFICES ASSUME TypeOK, HoldsLock, NothingPutYet, HolderIsLast, [Next]_vars
             PROVE  /\ lock' \in Proc => pc'[lock'] \in Running
                    /\ \A i, k \in 1 .. Len(wal') :
                         i <= k /\ wal'[i].by = lock' => wal'[k].by = lock'
  BY DEF HolderIsLast
<1>0. Len(wal) \in Nat /\ NoProc \notin Proc /\ \A i \in 1 .. Len(wal) : wal[i].by \in Proc
  BY WritersType
<1>1. ASSUME NEW p \in Proc, Launch(p) \/ Step(p) \/ Kill(p)
      PROVE  /\ lock' \in Proc => pc'[lock'] \in Running
             /\ \A i, k \in 1 .. Len(wal') :
                  i <= k /\ wal'[i].by = lock' => wal'[k].by = lock'
  <2>1. CASE lock' = lock /\ pc'[p] \in Running /\ wal' = wal
    <3>1. lock \in Proc => pc'[lock] \in Running
      BY <1>1, <2>1, OthersUndisturbed DEF HolderIsLast
    <3>2. QED
      BY <2>1, <3>1 DEF HolderIsLast
  <2>2. CASE wal' # wal
    <3>1. /\ lock = p /\ lock' = p
          /\ pc'[p] \in {"putTotalSupply", "putBalance", "return", "exit"}
          /\ Len(wal') = Len(wal) + 1
          /\ \A i \in 1 .. Len(wal) : wal'[i] = wal[i]
          /\ wal'[Len(wal) + 1].by = p
      BY <1>1, <2>2, RecordOfStep
    <3>2. \A k \in 1 .. Len(wal') : k \in 1 .. Len(wal) \/ k = Len(wal) + 1
      BY <1>0, <3>1
    <3>3. ASSUME NEW i \in 1 .. Len(wal'), NEW k \in 1 .. Len(wal'), i <= k, wal'[i].by = p
          PROVE  wal'[k].by = p
      <4>1. CASE k \in 1 .. Len(wal)
        <5>1. i \in 1 .. Len(wal)
          BY <1>0, <3>1, <3>3, <4>1
        <5>2. QED
          BY <3>1, <3>3, <4>1, <5>1 DEF HolderIsLast
      <4>2. CASE k = Len(wal) + 1
        BY <3>1, <4>2
      <4>3. QED
        BY <3>2, <4>1, <4>2
    <3>4. QED
      BY <3>1, <3>3 DEF Running, Inside
  <2>3. CASE lock' = p /\ pc[p] = "open" /\ pc'[p] = "main" /\ wal' = wal
    BY <2>3 DEF NothingPutYet, Running, Inside
  <2>4. CASE /\ lock' = IF lock = p THEN NoProc ELSE lock
             /\ wal' = wal
    <3>1. CASE lock = p
      BY <1>0, <2>4, <3>1
    <3>2. CASE lock # p
      <4>1. lock \in Proc => pc'[lock] = pc[lock]
        BY <1>1, <3>2, OthersUndisturbed
      <4>2. QED
        BY <2>4, <3>2, <4>1 DEF HolderIsLast
    <3>3. QED
      BY <3>1, <3>2
  <2>5. QED
    BY <1>1, <2>1, <2>2, <2>3, <2>4, LockOfStep
<1>2. CASE PowerLoss
  BY <1>0, <1>2, PowerLossCuts
<1>3. CASE UNCHANGED vars
  BY <1>3 DEF vars, HolderIsLast
<1>4. QED
  BY <1>1, <1>2, <1>3 DEF Next

(* A process keeps the store until it is gone. *)
LEMMA WriterHoldsStep ==
    TypeOK /\ HoldsLock /\ NothingPutYet /\ WriterHolds /\ [Next]_vars => WriterHolds'
<1> SUFFICES ASSUME TypeOK, HoldsLock, NothingPutYet, WriterHolds, [Next]_vars,
                    NEW i \in 1 .. Len(wal'), pc'[wal'[i].by] \in Running
             PROVE  wal'[i].by = lock'
  BY DEF WriterHolds
<1>0. Len(wal) \in Nat /\ NoProc \notin Proc /\ \A k \in 1 .. Len(wal) : wal[k].by \in Proc
  BY WritersType
<1>1. ASSUME NEW p \in Proc, Launch(p) \/ Step(p) \/ Kill(p)
      PROVE  wal'[i].by = lock'
  <2>1. CASE i \in 1 .. Len(wal) /\ wal'[i] = wal[i]
    <3> DEFINE q == wal[i].by
    <3>1. q \in Proc /\ pc'[q] \in Running
      BY <1>0, <2>1
    <3>2. CASE p # q
      <4>1. pc[q] \in Running
        BY <1>1, <3>1, <3>2, OthersUndisturbed
      <4>2. lock = q
        BY <2>1, <4>1 DEF WriterHolds
      <4>3. lock' = lock
        BY <1>0, <1>1, <3>1, <3>2, <4>2, LockOfStep
      <4>4. QED
        BY <2>1, <4>2, <4>3
    <3>3. CASE p = q
      <4>1. pc[p] \notin {"idle", "open", "main"}
        BY <2>1, <3>3 DEF NothingPutYet
      <4>2. pc'[p] \notin Ended
        BY <3>1, <3>3 DEF Running, Inside, Ended
      <4>3. lock' = lock /\ pc[p] \in Running
        BY <1>1, <4>1, <4>2, LockOfStep
      <4>4. QED
        BY <2>1, <3>3, <4>3 DEF WriterHolds
    <3>4. QED
      BY <3>2, <3>3
  <2>2. CASE i = Len(wal) + 1 /\ wal' # wal
    BY <1>1, <2>2, RecordOfStep
  <2>3. QED
    BY <1>1, <2>1, <2>2, OldOrNew
<1>2. CASE PowerLoss
  <2>1. wal'[i] = wal[i] /\ i \in 1 .. Len(wal)
    BY <1>2, PowerLossCuts
  <2>2. QED
    BY <1>0, <1>2, <2>1, PowerLossCuts
<1>3. CASE UNCHANGED vars
  BY <1>3 DEF vars, WriterHolds
<1>4. QED
  BY <1>1, <1>2, <1>3 DEF Next

(* Nothing that has ended runs again. *)
LEMMA LostEndedStep ==
    TypeOK /\ PutByInits /\ LostEnded /\ [Next]_vars => LostEnded'
<1> SUFFICES ASSUME TypeOK, PutByInits, LostEnded, [Next]_vars, NEW q \in lost'
             PROVE  pc'[q] \in Ended
  BY DEF LostEnded
<1>1. ASSUME NEW p \in Proc, Launch(p) \/ Step(p) \/ Kill(p)
      PROVE  pc'[q] \in Ended
  <2>1. q \in lost /\ q \in Proc /\ pc[q] \in Ended
    BY <1>1, OthersUndisturbed DEF LostEnded, TypeOK, StoreTypeOK
  <2>2. p # q
    BY <1>1, <2>1, LockOfStep DEF Running, Inside, Ended
  <2>3. QED
    BY <1>1, <2>1, <2>2, OthersUndisturbed
<1>2. CASE PowerLoss
  <2>1. CASE q \in lost
    <3>1. q \in Proc /\ pc[q] \in Ended
      BY <2>1 DEF LostEnded, TypeOK, StoreTypeOK
    <3>2. pc[q] \notin Running
      BY <3>1 DEF Running, Inside, Ended
    <3>3. QED
      BY <1>2, <3>1, <3>2, PowerLossCuts
  <2>2. CASE \E i \in 1 .. Len(wal) : wal[i].by = q
    <3>1. q \in Proc /\ pc[q] # "idle"
      BY <2>2, WritersType DEF PutByInits, PutByInit
    <3>2. pc[q] \in Running \/ pc[q] \in Ended
      BY <3>1 DEF TypeOK
    <3>3. pc'[q] = IF pc[q] \in Running THEN "killed" ELSE pc[q]
      BY <1>2, <3>1, PowerLossCuts
    <3>4. QED
      BY <3>2, <3>3 DEF Ended
  <2>3. QED
    BY <1>2, <2>1, <2>2, PowerLossCuts
<1>3. CASE UNCHANGED vars
  BY <1>3 DEF vars, LostEnded
<1>4. QED
  BY <1>1, <1>2, <1>3 DEF Next

(***************************************************************************)
(* A process reports a failure it may have, a success of what it was       *)
(* started for, and as an answer the newest value of the key it asks for.  *)
(***************************************************************************)
LEMMA OutcomesStep ==
    TypeOK /\ HoldsLock /\ Serves /\ Outcomes /\ [Next]_vars => Outcomes'
<1> DEFINE Early == {"idle", "open"} \cup Inside
<1> SUFFICES ASSUME TypeOK, HoldsLock, Serves, Outcomes, [Next]_vars, NEW q \in Proc
             PROVE  /\ pc'[q] \in Early => reply'[q] = None
                    /\ pc'[q] = "exit" => Outcome(q)'
  BY DEF Outcomes
<1>0. pc[q] \in Early => reply[q] = None
  BY DEF Outcomes
<1>1. ASSUME NEW p \in Proc, Launch(p) \/ Step(p) \/ Kill(p), p # q
      PROVE  /\ pc'[q] \in Early => reply'[q] = None
             /\ pc'[q] = "exit" => Outcome(q)'
  <2>1. pc'[q] = pc[q] /\ req'[q] = req[q] /\ status'[q] = status[q]
    BY <1>1, OthersUndisturbed
  <2>2. reply'[q] = reply[q]
    BY <1>1 DEF Step, Launch, Kill, OpenRejected, OpenStore, OpenStoreFails, InitRejected,
          PutOwner, PutTotalSupply, PutBalance, Put, ReturnFromMain, HandleRejected,
          TotalSupply, BalanceOf, Get, Exit, FailWith, TypeOK
  <2>3. lock = q => lock' = q /\ wal' = wal
    BY <1>1, StoreAssumption, LockOfStep, RecordOfStep
  <2>4. pc[q] = "exit" => Outcome(q)
    BY DEF Outcomes
  <2>5. QED
    BY <1>0, <2>1, <2>2, <2>3, <2>4 DEF Outcome
<1>2. CASE Launch(q) \/ OpenStore(q)
  BY <1>0, <1>2 DEF Launch, OpenStore, Goto, TypeOK, Inside
<1>3. CASE Exit(q) \/ Kill(q)
  BY <1>3 DEF Exit, Kill, Goto, TypeOK, Inside
<1>4. ASSUME NEW c, FailWith(q, c), reply[q] = None,
             {c, QERR_OOM} \subseteq L!Failures(req[q])
      PROVE  /\ pc'[q] \in Early => reply'[q] = None
             /\ pc'[q] = "exit" => Outcome(q)'
  BY <1>4 DEF FailWith, ExitWith, Goto, TypeOK, Inside, Outcome
<1>5. {QERR_STORAGE, QERR_OOM} \subseteq L!Failures(req[q])
  BY DEF L!Failures, QERR_STORAGE, QERR_OOM
<1>6. CASE OpenRejected(q)
  <2>1. {QERR_INVALID_CONTEXT, QERR_OOM} \subseteq L!Failures(req[q])
    BY <1>6 DEF OpenRejected, L!Failures, QERR_INVALID_CONTEXT, QERR_OOM
  <2>2. QED
    BY <1>0, <1>4, <1>6, <2>1 DEF OpenRejected
<1>7. CASE OpenStoreFails(q)
  BY <1>0, <1>4, <1>5, <1>7 DEF OpenStoreFails
<1>8. CASE InitRejected(q) \/ HandleRejected(q)
  <2>1. pc[q] = "main" /\ req[q].valid /\ FailWith(q, QERR_GENERAL)
    BY <1>8 DEF InitRejected, HandleRejected, Serves, Inside
  <2>2. ~L!WellFormed(req[q])
    BY <1>8 DEF InitRejected, HandleRejected, L!WellFormed, L!MakesSupply, L!AsksSupply,
          L!AsksBalance, WellFormedCall, AsksTotalSupply, AsksBalanceOf,
          METHOD_TOTAL_SUPPLY, METHOD_BALANCE_OF
  <2>3. {QERR_GENERAL, QERR_OOM} \subseteq L!Failures(req[q])
    BY <2>1, <2>2 DEF L!Failures, QERR_GENERAL, QERR_OOM
  <2>4. reply[q] = None
    BY <1>0, <2>1 DEF Inside
  <2>5. QED
    BY <1>4, <2>1, <2>3, <2>4
<1>9. CASE PutOwner(q) \/ PutTotalSupply(q) \/ PutBalance(q)
  <2>1. reply[q] = None
    BY <1>0, <1>9 DEF PutOwner, PutTotalSupply, PutBalance, Inside
  <2>2. CASE FailWith(q, QERR_STORAGE)
    BY <1>4, <1>5, <2>1, <2>2
  <2>3. CASE ~FailWith(q, QERR_STORAGE)
    BY <1>9, <2>1, <2>3 DEF PutOwner, PutTotalSupply, PutBalance, Put, Goto, TypeOK
  <2>4. QED
    BY <2>2, <2>3
<1>10. CASE ReturnFromMain(q)
  <2>1. req[q].valid /\ WellFormedInit(req[q]) /\ reply[q] = None
    BY <1>0, <1>10 DEF ReturnFromMain, Serves, Inside
  <2>2. req' = req /\ reply' = reply /\ status'[q] = 0 /\ pc'[q] = "exit"
    BY <1>10 DEF ReturnFromMain, ExitWith, Goto, TypeOK
  <2>3. QED
    BY <2>1, <2>2 DEF Outcome, Inside
<1>11. CASE TotalSupply(q) \/ BalanceOf(q)
  <2>1. pc[q] = "main" /\ reply[q] = None /\ req[q].valid /\ lock = q
    BY <1>0, <1>11 DEF TotalSupply, BalanceOf, Serves, HoldsLock, Inside
  <2>2. WellFormedCall(req[q]) /\ Get(q, AskedKey(req[q]))
    BY <1>11 DEF TotalSupply, BalanceOf, WellFormedCall, AskedKey, AsksTotalSupply,
          AsksBalanceOf, METHOD_TOTAL_SUPPLY, METHOD_BALANCE_OF
  <2>3. CASE FailWith(q, QERR_STORAGE)
    BY <1>4, <1>5, <2>1, <2>3
  <2>4. CASE ~FailWith(q, QERR_STORAGE)
    <3>1. /\ Newest(wal, AskedKey(req[q])) # None
          /\ reply'[q] = Newest(wal, AskedKey(req[q]))
          /\ pc'[q] = "exit" /\ status'[q] = 0
          /\ req' = req /\ wal' = wal /\ lock' = lock
      BY <2>2, <2>4 DEF Get, ExitWith, Goto, TypeOK, storeVars
    <3>2. Outcome(q)'
      BY <2>1, <2>2, <3>1 DEF Outcome
    <3>3. QED
      BY <3>1, <3>2 DEF Inside
  <2>5. QED
    BY <2>3, <2>4
<1>12. CASE PowerLoss
  <2>1. pc'[q] = (IF pc[q] \in Running THEN "killed" ELSE pc[q]) /\ reply' = reply
    BY <1>12, PowerLossCuts
  <2>2. QED
    BY <1>0, <2>1 DEF Running, Inside
<1>13. CASE UNCHANGED vars
  <2>1. pc[q] = "exit" => Outcome(q)
    BY DEF Outcomes
  <2>2. QED
    BY <1>0, <1>13, <2>1 DEF vars, Outcome
<1>14. QED
  BY <1>1, <1>2, <1>3, <1>6, <1>7, <1>8, <1>9, <1>10, <1>11, <1>12, <1>13 DEF Next, Step

(* Before anything is put, the ledger's invariant holds, *)
LEMMA LedgerInvInit == Init => LedgerInv
<1> SUFFICES ASSUME Init PROVE LedgerInv
  OBVIOUS
<1>1. /\ wal = << >> /\ Len(wal) = 0 /\ lock = NoProc /\ lost = {}
      /\ \A p \in Proc : pc[p] = "idle" /\ reply[p] = None
  BY DEF Init, StoreInit
<1>2. OneInitEach /\ NothingPutYet /\ PutByInits /\ WriterHolds
  BY <1>1 DEF OneInitEach, NothingPutYet, PutByInits, WriterHolds
<1>3. Serves /\ LostEnded /\ Outcomes
  BY <1>1 DEF Serves, LostEnded, Outcomes, Inside
<1>4. HolderIsLast
  BY <1>1, StoreAssumption DEF HolderIsLast
<1>5. QED
  BY <1>2, <1>3, <1>4 DEF LedgerInv

(* and no step breaks it. *)
LEMMA LedgerInvStep == Inv /\ LedgerInv /\ [Next]_vars => LedgerInv'
BY NothingPutYetStep, ServesStep, OneInitEachStep, PutByInitsStep, HolderIsLastStep,
   WriterHoldsStep, LostEndedStep, OutcomesStep
DEF Inv, LedgerInv

(* The log of a reachable state is a log of inits. *)
LEMMA WalOK == TypeOK /\ InitsNeverMix /\ OneInitEach => LogOK(wal)
BY WritersType DEF LogOK, InitsNeverMix, OneInitEach

----------------------------------------------------------------------------
(* Records that one process l has at the end of a log are not settled. *)
LEMMA SettledIs ==
    ASSUME NEW w, Len(w) \in Nat, NEW l, NEW c \in 0 .. Len(w),
           \A i \in 1 .. c : w[i].by # l,
           \A i \in c + 1 .. Len(w) : w[i].by = l
    PROVE  Cardinality({i \in 1 .. Len(w) : w[i].by # l}) = c
<1> DEFINE S == {i \in 1 .. Len(w) : w[i].by # l}
<1>1. c \in Nat /\ \A i \in 1 .. Len(w) : i \in 1 .. c \/ i \in c + 1 .. Len(w)
  OBVIOUS
<1>2. \A i \in 1 .. c : i \in 1 .. Len(w)
  BY <1>1
<1>3. S = 1 .. c
  BY <1>1, <1>2
<1>4. Cardinality(1 .. c) = c
  BY <1>1, FS_Interval
<1>5. QED
  BY <1>3, <1>4

(* So the settled records are a beginning of the log. *)
LEMMA SettledSplit ==
    ASSUME TypeOK, HolderIsLast
    PROVE  /\ Settled \in 0 .. Len(wal) /\ Len(wal) \in Nat
           /\ \A i \in 1 .. Settled : wal[i].by # lock
           /\ \A i \in Settled + 1 .. Len(wal) : wal[i].by = lock
<1> DEFINE S == {i \in 1 .. Len(wal) : wal[i].by # lock}
<1>1. Len(wal) \in Nat
  BY WritersType
<1>2. ASSUME NEW c \in 0 .. Len(wal),
             \A i \in 1 .. c : wal[i].by # lock,
             \A i \in c + 1 .. Len(wal) : wal[i].by = lock
      PROVE  Settled = c
  BY <1>1, <1>2, SettledIs DEF Settled
<1>3. CASE S = {}
  <2>1. 0 \in 0 .. Len(wal) /\ 1 .. 0 = {} /\ 0 + 1 .. Len(wal) = 1 .. Len(wal)
    BY <1>1
  <2>2. \A i \in 1 .. Len(wal) : wal[i].by = lock
    BY <1>3
  <2>3. Settled = 0
    BY <1>2, <2>1, <2>2
  <2>4. QED
    BY <1>1, <2>1, <2>2, <2>3
<1>4. CASE S # {}
  <2>1. S \subseteq Nat /\ \A i \in S : i <= Len(wal)
    BY <1>1
  <2>2. PICK c \in S : \A i \in S : i <= c
    <3> HIDE DEF S
    <3> QED
      BY <1>1, <1>4, <2>1, GreatestNumber
  <2>3. c \in 1 .. Len(wal) /\ wal[c].by # lock /\ c \in 0 .. Len(wal) /\ c \in Nat
    BY <1>1, <2>2
  <2>4. \A i \in 1 .. c : i \in 1 .. Len(wal) /\ i <= c
    BY <1>1, <2>3
  <2>5. \A i \in 1 .. c : wal[i].by # lock
    BY <2>3, <2>4 DEF HolderIsLast
  <2>6. \A i \in c + 1 .. Len(wal) : i \in 1 .. Len(wal) /\ ~(i <= c)
    BY <1>1, <2>3
  <2>7. \A i \in c + 1 .. Len(wal) : wal[i].by = lock
    BY <2>2, <2>6
  <2>8. Settled = c
    BY <1>2, <2>3, <2>5, <2>7
  <2>9. QED
    BY <1>1, <2>3, <2>5, <2>7, <2>8
<1>5. QED
  BY <1>3, <1>4

(* With the store free, the whole log is settled. *)
LEMMA FreeIsSettled ==
    ASSUME TypeOK, \A i \in 1 .. Len(wal) : wal[i].by # lock
    PROVE  Settled = Len(wal)
<1>1. Len(wal) \in Nat /\ Len(wal) \in 0 .. Len(wal) /\ Len(wal) + 1 .. Len(wal) = {}
  BY WritersType
<1>2. QED
  BY <1>1, SettledIs DEF Settled

(* Until the process that has the store ends, the ledger stays as it is. *)
LEMMA TransactionsStay ==
    ASSUME TypeOK, TypeOK', HoldsLock, NothingPutYet, HolderIsLast,
           NEW p \in Proc, Launch(p) \/ Step(p) \/ Kill(p),
           ~(lock = p /\ pc'[p] \in Ended)
    PROVE  Transactions' = Transactions
<1>1. CASE wal' = wal /\ lock' = lock
  BY <1>1 DEF Transactions, Settled
<1>2. CASE wal' # wal
  <2> DEFINE c == Settled
  <2>1. /\ lock = p /\ lock' = p
        /\ Len(wal') = Len(wal) + 1
        /\ \A i \in 1 .. Len(wal) : wal'[i] = wal[i]
        /\ wal'[Len(wal) + 1].by = p
    BY <1>2, RecordOfStep
  <2>2. /\ c \in 0 .. Len(wal) /\ Len(wal) \in Nat
        /\ \A i \in 1 .. c : wal[i].by # lock
        /\ \A i \in c + 1 .. Len(wal) : wal[i].by = lock
    BY SettledSplit
  <2> HIDE DEF c
  <2>3. c \in 0 .. Len(wal') /\ Len(wal') \in Nat /\ c \in Nat
    BY <2>1, <2>2
  <2>4. /\ \A i \in 1 .. c : i \in 1 .. Len(wal)
        /\ \A i \in c + 1 .. Len(wal') : i \in c + 1 .. Len(wal) \/ i = Len(wal) + 1
        /\ \A i \in c + 1 .. Len(wal) : i \in 1 .. Len(wal)
    BY <2>1, <2>2
  <2>5. /\ \A i \in 1 .. c : wal'[i] = wal[i]
        /\ \A i \in 1 .. c : wal'[i].by # p
        /\ \A i \in c + 1 .. Len(wal') : wal'[i].by = p
    BY <2>1, <2>2, <2>4
  <2>6. Cardinality({i \in 1 .. Len(wal') : wal'[i].by # p}) = c
    BY <2>3, <2>5, SettledIs
  <2>7. Settled' = c
    BY <2>1, <2>6 DEF Settled
  <2>8. InitsOf(wal', c) = InitsOf(wal, c)
    BY <2>3, <2>5, SameBeginning
  <2>9. QED
    BY <2>7, <2>8 DEF Transactions, c
<1>3. CASE lock = NoProc /\ lock' = p /\ pc[p] = "open" /\ wal' = wal
  <2>1. \A i \in 1 .. Len(wal) : wal[i].by # lock
    BY <1>3, WritersType
  <2>2. \A i \in 1 .. Len(wal) : wal[i].by # p
    BY <1>3 DEF NothingPutYet
  <2>3. Settled = Len(wal)
    BY <2>1, FreeIsSettled
  <2>4. Len(wal) \in Nat /\ Len(wal) \in 0 .. Len(wal) /\ Len(wal) + 1 .. Len(wal) = {}
    BY WritersType
  <2>5. Cardinality({i \in 1 .. Len(wal) : wal[i].by # p}) = Len(wal)
    BY <2>2, <2>4, SettledIs
  <2>6. Settled' = Len(wal)
    BY <1>3, <2>5 DEF Settled
  <2>7. QED
    BY <1>3, <2>3, <2>6 DEF Transactions
<1>4. QED
  BY <1>1, <1>2, <1>3, LockOfStep, RecordOfStep

(* The whole log is the ledger and what the process with the store has put. *)
LEMMA WholeLedger ==
    ASSUME Inv, LedgerInv, NEW p \in Proc, lock = p
    PROVE  /\ Len(wal) - Settled \in L!Partial(p)
           /\ InitsOf(wal, Len(wal)) = L!WithEffects(p, Len(wal) - Settled)
<1> DEFINE c == Settled
           n == Len(wal)
<1>1. TypeOK /\ HolderIsLast /\ PutByInits /\ LogOK(wal)
  BY WalOK DEF Inv, LedgerInv
<1>2. /\ c \in 0 .. n /\ n \in Nat
      /\ \A i \in 1 .. c : wal[i].by # p
      /\ \A i \in c + 1 .. n : wal[i].by = p
  BY <1>1, SettledSplit
<1> HIDE DEF c
<1>3. CASE c = n
  <2>1. n - c = 0
    BY <1>2, <1>3
  <2>2. 0 \in L!Partial(p)
    BY DEF L!Partial
  <2>3. InitsOf(wal, n) = L!WithEffects(p, 0)
    BY <1>3 DEF L!WithEffects, Transactions, c
  <2>4. QED
    BY <2>1, <2>2, <2>3 DEF c
<1>4. CASE c < n
  <2>1. /\ n - c \in 1 .. 3
        /\ InitsOf(wal, n) = Append(InitsOf(wal, c), [by |-> p, effects |-> n - c])
    BY <1>1, <1>2, <1>4, TailInit
  <2>2. c + 1 \in c + 1 .. n /\ c + 1 \in 1 .. n /\ n - c # 0 /\ n - c \in 0 .. 3
    BY <1>2, <1>4, <2>1
  <2>3. req[p].valid /\ WellFormedInit(req[p])
    BY <1>1, <1>2, <2>2 DEF PutByInits, PutByInit
  <2>4. L!MakesSupply(req[p])
    BY <2>3 DEF WellFormedInit, L!MakesSupply
  <2>5. n - c \in L!Partial(p)
    BY <2>2, <2>4 DEF L!Partial
  <2>6. InitsOf(wal, n) = L!WithEffects(p, n - c)
    BY <2>1, <2>2 DEF L!WithEffects, Transactions, c
  <2>7. QED
    BY <2>5, <2>6 DEF c
<1>5. QED
  BY <1>2, <1>3, <1>4

----------------------------------------------------------------------------
(* Every record is one of an entry of the ledger that counts it. *)
LEMMA EntryOfRecord ==
    ASSUME NEW w, LogOK(w), NEW k \in 1 .. Len(w)
    PROVE  \E j \in 1 .. Cardinality(Heads(w, Len(w))), e \in 1 .. 3 :
              /\ Belongs(w, k, Sorted[Heads(w, Len(w))][j], e)
              /\ Effects(w, Len(w), Sorted[Heads(w, Len(w))][j]) >= e
<1> DEFINE n == Len(w)
           H == Heads(w, n)
<1>1. PICK i \in 1 .. k, e \in 1 .. 3 : Belongs(w, k, i, e)
  BY RecordBelongs
<1>2. n \in Nat /\ n \in 0 .. n /\ k \in Nat /\ k <= n
  BY DEF LogOK
<1>3. i \in 1 .. n /\ w[i].key = kOwner /\ k = i + e - 1 /\ w[k].by = w[i].by
  BY <1>1 DEF Belongs
<1>4. i \in H /\ H \subseteq 1 .. n
  BY <1>3 DEF Heads
<1>5. Cardinality(UpTo(H, i)) \in 1 .. Cardinality(H) /\ Sorted[H][Cardinality(UpTo(H, i))] = i
  <2> HIDE DEF H
  <2> QED
    BY <1>2, <1>4, SortedByRank
<1>6. /\ Effects(w, n, i) \in 1 .. 3
      /\ k <= i + Effects(w, n, i) - 1
  BY <1>2, <1>3, <1>4, EffectsCount
<1>7. Effects(w, n, i) >= e
  BY <1>2, <1>3, <1>6
<1>8. QED
  BY <1>1, <1>5, <1>7

(* An entry of the ledger stands for the records of its process's init. *)
LEMMA RecordsOfEntry ==
    ASSUME Inv, LedgerInv, NEW i \in Heads(wal, Len(wal)), NEW b, b = wal[i].by
    PROVE  /\ Effects(wal, Len(wal), i) \in 1 .. 3 /\ i \in 1 .. Len(wal)
           /\ Effects(wal, Len(wal), i) >= 2 =>
                 i + 1 \in 1 .. Len(wal) /\ wal[i + 1] = SupplyRecord(b)
           /\ Effects(wal, Len(wal), i) = 3 =>
                 i + 2 \in 1 .. Len(wal) /\ wal[i + 2] = BalanceRecord(b)
<1> DEFINE n == Len(wal)
           E == Effects(wal, n, i)
<1>1. LogOK(wal) /\ PutByInits
  BY WalOK DEF Inv, LedgerInv
<1>2. n \in Nat /\ n \in 0 .. n /\ i \in 1 .. n /\ i \in Nat /\ wal[i].key = kOwner
  BY <1>1 DEF LogOK, Heads
<1>3. /\ E \in 1 .. 3
      /\ i + E - 1 <= n
      /\ \A k \in 1 .. n : i <= k /\ k <= i + E - 1 => wal[k].by = b
  BY <1>1, <1>2, EffectsCount
<1> HIDE DEF E
<1>4. ASSUME NEW k \in 1 .. n, wal[k].by = b
      PROVE  /\ wal[k] \in {OwnerRecord(b), SupplyRecord(b), BalanceRecord(b)}
             /\ k = i + 1 => wal[k].key = kTotalSupply
             /\ k = i + 2 => \E a : wal[k].key = keyBalanceOf(a)
  <2>1. wal[k] \in {OwnerRecord(b), SupplyRecord(b), BalanceRecord(b)}
    BY <1>1, <1>4 DEF PutByInits, PutByInit
  <2>2. PICK e \in 1 .. 3 : Belongs(wal, k, i, e)
    BY <1>1, <1>2, <1>4, OwnRecords
  <2>3. k = i + e - 1
    BY <2>2 DEF Belongs
  <2>4. /\ k = i + 1 => e = 2
        /\ k = i + 2 => e = 3
    BY <1>2, <2>3
  <2>5. e = 2 => wal[i + 1].key = kTotalSupply
    BY <2>2 DEF Belongs
  <2>6. e = 3 => wal[k].key = keyBalanceOf(wal[i].val)
    BY <2>2 DEF Belongs
  <2>7. QED
    BY <2>1, <2>4, <2>5, <2>6
<1>5. /\ OwnerRecord(b).key = kOwner /\ SupplyRecord(b).key = kTotalSupply
      /\ BalanceRecord(b).key = keyBalanceOf(req[b].sender)
  BY DEF OwnerRecord, SupplyRecord, BalanceRecord
<1>6. ASSUME E >= 2
      PROVE  i + 1 \in 1 .. n /\ wal[i + 1] = SupplyRecord(b)
  <2>1. i + 1 \in 1 .. n /\ i <= i + 1 /\ i + 1 <= i + E - 1
    BY <1>2, <1>3, <1>6
  <2>2. QED
    BY <1>3, <1>4, <1>5, <2>1, KeysDiffer
<1>7. ASSUME E = 3
      PROVE  i + 2 \in 1 .. n /\ wal[i + 2] = BalanceRecord(b)
  <2>1. i + 2 \in 1 .. n /\ i <= i + 2 /\ i + 2 <= i + E - 1
    BY <1>2, <1>3, <1>7
  <2>2. QED
    BY <1>3, <1>4, <1>5, <2>1, KeysDiffer
<1>8. QED
  BY <1>2, <1>3, <1>6, <1>7 DEF E

(* The ledger's entries, with the whole log settled. *)
LEMMA EntriesOfLog ==
    ASSUME Inv, LedgerInv, Settled = Len(wal)
    PROVE  /\ LogOK(wal) /\ Len(wal) \in Nat
           /\ Heads(wal, Len(wal)) \subseteq 1 .. Len(wal)
           /\ Cardinality(Heads(wal, Len(wal))) \in Nat
           /\ Len(Transactions) = Cardinality(Heads(wal, Len(wal)))
           /\ \A j \in 1 .. Cardinality(Heads(wal, Len(wal))) :
                /\ Sorted[Heads(wal, Len(wal))][j] \in Heads(wal, Len(wal))
                /\ Sorted[Heads(wal, Len(wal))][j] \in Nat
                /\ Transactions[j].by = wal[Sorted[Heads(wal, Len(wal))][j]].by
                /\ Transactions[j].effects =
                      Effects(wal, Len(wal), Sorted[Heads(wal, Len(wal))][j])
<1> DEFINE n == Len(wal)
           H == Heads(wal, n)
<1>1. LogOK(wal) /\ n \in Nat /\ n \in 0 .. n
  BY WalOK, WritersType DEF Inv, LedgerInv
<1>2. Transactions = InitsOf(wal, n)
  BY DEF Transactions
<1>3. /\ H \subseteq 1 .. n /\ Cardinality(H) \in Nat
      /\ Len(InitsOf(wal, n)) = Cardinality(H)
      /\ \A j \in 1 .. Cardinality(H) :
            Sorted[H][j] \in H /\ InitsOf(wal, n)[j] = Tx(wal, n, Sorted[H][j])
  BY <1>1, InitsInOrder
<1>4. \A i : Tx(wal, n, i).by = wal[i].by /\ Tx(wal, n, i).effects = Effects(wal, n, i)
  BY DEF Tx
<1>5. \A i \in 1 .. n : i \in Nat
  BY <1>1
<1>6. QED
  <2> HIDE DEF H
  <2>1. QED
    BY <1>1, <1>2, <1>3, <1>4, <1>5 DEF H

(* The answer to a query of the total supply. *)
LEMMA SupplyAnswer ==
    ASSUME Inv, LedgerInv, Settled = Len(wal)
    PROVE  L!TotalSupply = Newest(wal, kTotalSupply)
<1> DEFINE n == Len(wal)
           H == Heads(wal, n)
           c == Cardinality(H)
           S == Sorted[H]
           J == {j \in 1 .. c : Transactions[j].effects >= 2}
<1>1. /\ LogOK(wal) /\ n \in Nat /\ c \in Nat /\ Len(Transactions) = c
      /\ \A j \in 1 .. c : /\ S[j] \in H /\ S[j] \in Nat
                           /\ Transactions[j].by = wal[S[j]].by
                           /\ Transactions[j].effects = Effects(wal, n, S[j])
  BY EntriesOfLog
<1>2. \A j \in J : S[j] + 1 \in 1 .. n /\ wal[S[j] + 1] = SupplyRecord(Transactions[j].by)
  BY <1>1, RecordsOfEntry
<1>3. ASSUME NEW i \in 1 .. n, wal[i].key = kTotalSupply
      PROVE  \E j \in J : i = S[j] + 1
  <2>1. PICK j \in 1 .. c, e \in 1 .. 3 : Belongs(wal, i, S[j], e) /\ Effects(wal, n, S[j]) >= e
    BY <1>1, EntryOfRecord
  <2>2. /\ S[j] \in 1 .. n /\ i = S[j] + e - 1 /\ wal[S[j]].key = kOwner
        /\ e = 3 => \E a : wal[i].key = keyBalanceOf(a)
    BY <2>1 DEF Belongs
  <2>0. S[j] \in Nat /\ e \in {1, 2, 3}
    BY <1>1
  <2>9. i = S[j] + e - 1
    BY <2>2
  <2> DEFINE x == S[j]
  <2> HIDE DEF S
  <2>3. (e = 1 => i = S[j]) /\ (e = 2 => i = S[j] + 1)
    <3>1. x \in Nat /\ i = x + e - 1 /\ e \in {1, 2, 3}
      BY <2>0, <2>9
    <3>2. (e = 1 => i = x) /\ (e = 2 => i = x + 1)
      <4> HIDE DEF x
      <4> QED
        BY <3>1
    <3>3. QED
      BY <3>2
  <2>4. e # 1 /\ e # 3
    <3>1. e # 1
      BY <1>3, <2>2, <2>3, KeysDiffer
    <3>2. e # 3
      BY <1>3, <2>2, KeysDiffer
    <3>3. QED
      BY <3>1, <3>2
  <2>5. e = 2 /\ i = S[j] + 1
    BY <2>3, <2>4, <2>0
  <2>6. QED
    BY <1>1, <2>1, <2>5
<1> HIDE DEF S
<1>4. \A j \in J : wal[S[j] + 1].key = kTotalSupply
  <2>1. \A b : SupplyRecord(b).key = kTotalSupply
    BY DEF SupplyRecord
  <2>2. QED
    BY <1>2, <2>1
<1>5. L!TotalSupply = IF J = {} THEN None
                      ELSE req[Transactions[CHOOSE j \in J : \A i \in J : i <= j].by].data.word
  BY <1>1 DEF L!TotalSupply, L!NewestTx, L!SupplyOf
<1>6. CASE J = {}
  <2>1. \A i \in 1 .. n : wal[i].key # kTotalSupply
    BY <1>3, <1>6
  <2>2. QED
    BY <1>5, <1>6, <2>1, NewestOfNone
<1>7. CASE J # {}
  <2>1. \E m \in J : \A i \in J : i <= m
    <3>1. J \subseteq Nat /\ \A i \in J : i <= c
      BY <1>1
    <3> HIDE DEF J
    <3>2. QED
      BY <1>1, <1>7, <3>1, GreatestNumber
  <2> DEFINE m == CHOOSE j \in J : \A i \in J : i <= j
  <2>2. m \in J /\ IsLast(m, J)
    BY <2>1 DEF IsLast
  <2>3. L!TotalSupply = req[Transactions[m].by].data.word
    BY <1>5, <1>7
  <2>4. PutsOfKey(wal, J, kTotalSupply, 1)
    BY <1>3, <1>2, <1>4 DEF PutsOfKey, S
  <2> HIDE DEF m, J
  <2>5. Newest(wal, kTotalSupply) = wal[S[m] + 1].val
    BY <1>1, <2>2, <2>4, NewestInit DEF S
  <2>6. wal[S[m] + 1] = SupplyRecord(Transactions[m].by)
    BY <1>2, <2>2
  <2>7. wal[S[m] + 1].val = req[Transactions[m].by].data.word
    BY <2>6 DEF SupplyRecord
  <2>8. QED
    BY <2>3, <2>5, <2>7
<1>8. QED
  BY <1>6, <1>7

(* The answer to a query of a balance. *)
LEMMA BalanceAnswer ==
    ASSUME Inv, LedgerInv, Settled = Len(wal), NEW a
    PROVE  L!BalanceOf(a) = Newest(wal, keyBalanceOf(a))
<1> DEFINE n == Len(wal)
           H == Heads(wal, n)
           c == Cardinality(H)
           S == Sorted[H]
           J == {j \in 1 .. c : /\ Transactions[j].effects = 3
                                /\ req[Transactions[j].by].sender = a}
<1>1. /\ LogOK(wal) /\ n \in Nat /\ c \in Nat /\ Len(Transactions) = c
      /\ \A j \in 1 .. c : /\ S[j] \in H /\ S[j] \in Nat
                           /\ Transactions[j].by = wal[S[j]].by
                           /\ Transactions[j].effects = Effects(wal, n, S[j])
  BY EntriesOfLog
<1>2. \A j \in 1 .. c : Effects(wal, n, S[j]) = 3 =>
        S[j] + 2 \in 1 .. n /\ wal[S[j] + 2] = BalanceRecord(Transactions[j].by)
  BY <1>1, RecordsOfEntry
<1>3. ASSUME NEW i \in 1 .. n, wal[i].key = keyBalanceOf(a)
      PROVE  \E j \in J : i = S[j] + 2
  <2>1. PICK j \in 1 .. c, e \in 1 .. 3 : Belongs(wal, i, S[j], e) /\ Effects(wal, n, S[j]) >= e
    BY <1>1, EntryOfRecord
  <2>2. /\ S[j] \in 1 .. n /\ i = S[j] + e - 1 /\ wal[S[j]].key = kOwner
        /\ e >= 2 => wal[S[j] + 1].key = kTotalSupply
    BY <2>1 DEF Belongs
  <2>0. S[j] \in Nat /\ e \in {1, 2, 3}
    BY <1>1
  <2>10. i = S[j] + e - 1
    BY <2>2
  <2> DEFINE x == S[j]
  <2> HIDE DEF S
  <2>3. /\ e = 1 => i = S[j]
        /\ e = 2 => i = S[j] + 1
        /\ e = 3 => i = S[j] + 2
    <3>1. x \in Nat /\ i = x + e - 1 /\ e \in {1, 2, 3}
      BY <2>0, <2>10
    <3>2. (e = 1 => i = x) /\ (e = 2 => i = x + 1) /\ (e = 3 => i = x + 2)
      <4> HIDE DEF x
      <4> QED
        BY <3>1
    <3>3. QED
      BY <3>2
  <2>4. e # 1 /\ e # 2
    <3>1. e # 1
      BY <1>3, <2>2, <2>3, KeysDiffer
    <3>2. e = 2 => wal[i].key = kTotalSupply
      BY <2>2, <2>3
    <3>3. QED
      BY <1>3, <3>1, <3>2, KeysDiffer
  <2>5. e = 3 /\ i = S[j] + 2
    BY <2>3, <2>4, <2>0
  <2>6. Effects(wal, n, S[j]) = 3
    BY <1>1, <2>1, <2>5, RecordsOfEntry
  <2>7. wal[i].key = keyBalanceOf(req[Transactions[j].by].sender)
    <3>1. wal[S[j] + 2] = BalanceRecord(Transactions[j].by)
      BY <1>2, <2>6
    <3>2. QED
      BY <2>5, <3>1 DEF BalanceRecord
  <2>8. req[Transactions[j].by].sender = a
    BY <1>3, <2>7 DEF keyBalanceOf
  <2>9. QED
    BY <1>1, <2>5, <2>6, <2>8
<1> HIDE DEF S
<1>4. \A j \in J : /\ S[j] + 2 \in 1 .. n
                   /\ wal[S[j] + 2] = BalanceRecord(Transactions[j].by)
                   /\ wal[S[j] + 2].key = keyBalanceOf(a)
  BY <1>1, <1>2 DEF BalanceRecord
<1>5. L!BalanceOf(a) = IF J = {} THEN None
                       ELSE req[Transactions[CHOOSE j \in J : \A i \in J : i <= j].by].data.word
  BY <1>1 DEF L!BalanceOf, L!NewestTx, L!SupplyOf
<1>6. CASE J = {}
  <2>1. \A i \in 1 .. n : wal[i].key # keyBalanceOf(a)
    BY <1>3, <1>6
  <2>2. QED
    BY <1>5, <1>6, <2>1, NewestOfNone
<1>7. CASE J # {}
  <2>1. \E m \in J : \A i \in J : i <= m
    <3>1. J \subseteq Nat /\ \A i \in J : i <= c
      BY <1>1
    <3> HIDE DEF J
    <3>2. QED
      BY <1>1, <1>7, <3>1, GreatestNumber
  <2> DEFINE m == CHOOSE j \in J : \A i \in J : i <= j
  <2>2. m \in J /\ IsLast(m, J)
    BY <2>1 DEF IsLast
  <2>3. L!BalanceOf(a) = req[Transactions[m].by].data.word
    BY <1>5, <1>7
  <2>4. PutsOfKey(wal, J, keyBalanceOf(a), 2)
    BY <1>3, <1>4, <1>4 DEF PutsOfKey, S
  <2> HIDE DEF m, J
  <2>5. Newest(wal, keyBalanceOf(a)) = wal[S[m] + 2].val
    BY <1>1, <2>2, <2>4, NewestInit DEF S
  <2>6. wal[S[m] + 2] = BalanceRecord(Transactions[m].by)
    BY <1>4, <2>2
  <2>7. wal[S[m] + 2].val = req[Transactions[m].by].data.word
    BY <2>6 DEF BalanceRecord
  <2>8. QED
    BY <2>3, <2>5, <2>7
<1>8. QED
  BY <1>6, <1>7

----------------------------------------------------------------------------
(* A query is answered from the ledger. *)
LEMMA AnswerIs ==
    ASSUME Inv, LedgerInv, Settled = Len(wal),
           NEW r, r.valid, WellFormedCall(r)
    PROVE  /\ L!AsksSupply(r) \/ L!AsksBalance(r)
           /\ L!Answer(r) = Newest(wal, AskedKey(r))
<1>1. /\ L!AsksSupply(r) <=> AsksTotalSupply(r.data)
      /\ L!AsksBalance(r) <=> AsksBalanceOf(r.data)
  BY DEF WellFormedCall, AsksTotalSupply, AsksBalanceOf, METHOD_TOTAL_SUPPLY,
         METHOD_BALANCE_OF, L!AsksSupply, L!AsksBalance
<1>2. AsksTotalSupply(r.data) \/ AsksBalanceOf(r.data)
  BY DEF WellFormedCall
<1>3. L!TotalSupply = Newest(wal, kTotalSupply)
  BY SupplyAnswer
<1>4. L!BalanceOf(r.data.address) = Newest(wal, keyBalanceOf(r.data.address))
  BY BalanceAnswer
<1>5. QED
  BY <1>1, <1>2, <1>3, <1>4 DEF L!Answer, AskedKey

(* What a step of process p shows of the process, and of no other. *)
LEMMA OnlyOwnState ==
    ASSUME NEW p \in Proc, TypeOK, TypeOK', Launch(p) \/ Step(p) \/ Kill(p)
    PROVE  /\ States' = [States EXCEPT ![p] = State(p)']
           /\ Replies' = [Replies EXCEPT ![p] = IF pc'[p] = "exited" THEN reply'[p] ELSE None]
<1>1. \A q \in Proc : q # p => pc'[q] = pc[q] /\ status'[q] = status[q] /\ reply'[q] = reply[q]
  BY OthersUndisturbed
<1>2. \A q \in Proc : q # p => State(q)' = State(q)
  BY <1>1 DEF State
<1>3. States' = [q \in Proc |-> State(q)']
  BY DEF States
<1>4. QED
  BY <1>1, <1>2, <1>3 DEF States, Replies

(* Before it has exited a process shows no status and no reply. *)
LEMMA ShownStates ==
    ASSUME TypeOK, NEW p \in Proc
    PROVE  /\ States[p] = State(p)
           /\ pc[p] = "idle" => States[p] = L!Idle
           /\ pc[p] \in Running <=> States[p] = L!Running
           /\ pc[p] = "killed" => States[p] = L!Killed
           /\ pc[p] = "exited" => States[p] = L!Exited(status[p])
           /\ pc[p] # "exited" => Replies[p] = None
           /\ pc[p] = "exited" => Replies[p] = reply[p]
<1>1. pc[p] \in {"idle"} \cup Running \cup Ended
  BY DEF TypeOK
<1>2. "idle" \notin Running /\ "exited" \notin Running /\ "killed" \notin Running
  BY DEF Running, Inside
<1>3. States[p] = State(p) /\ Replies[p] = IF pc[p] = "exited" THEN reply[p] ELSE None
  BY DEF States, Replies
<1>4. CASE pc[p] = "idle"
  BY <1>2, <1>3, <1>4 DEF State, L!Idle, L!Running
<1>5. CASE pc[p] \in Running
  BY <1>2, <1>3, <1>5 DEF State, L!Running
<1>6. CASE pc[p] = "killed"
  BY <1>2, <1>3, <1>6 DEF State, L!Killed, L!Running
<1>7. CASE pc[p] = "exited"
  <2>1. States[p] = <<"exited", status[p]>>
    BY <1>3, <1>7 DEF State
  <2>2. <<"exited", status[p]>> # <<"running">>
    OBVIOUS
  <2>3. QED
    BY <1>2, <1>3, <1>7, <2>1, <2>2 DEF L!Exited, L!Running
<1>8. QED
  BY <1>1, <1>4, <1>5, <1>6, <1>7 DEF Ended

(* A start of the contract is a start of the transaction. *)
LEMMA LaunchMaps ==
    ASSUME Inv, Inv', LedgerInv, NEW p \in Proc, Launch(p)
    PROVE  L!Launch(p)
<1>1. TypeOK /\ TypeOK' /\ HoldsLock /\ NothingPutYet /\ HolderIsLast
  BY DEF Inv, LedgerInv
<1>2. pc[p] = "idle" /\ pc'[p] = "open"
  BY <1>1 DEF Launch, Goto, TypeOK
<1>3. pc'[p] \in Running /\ pc'[p] \notin Ended /\ pc'[p] # "exited"
  BY <1>2 DEF Running, Ended
<1>4. Transactions' = Transactions
  BY <1>1, <1>3, TransactionsStay
<1>5. States[p] = L!Idle /\ Replies[p] = None
  BY <1>1, <1>2, ShownStates
<1>6. State(p)' = L!Running
  BY <1>3 DEF State, L!Running
<1>7. States' = [States EXCEPT ![p] = L!Running]
  BY <1>1, <1>6, OnlyOwnState
<1>8. Replies' = Replies
  BY <1>1, <1>3, <1>5, OnlyOwnState DEF Replies
<1>9. \E r \in Request : req' = [req EXCEPT ![p] = r]
  BY DEF Launch
<1>10. QED
  BY <1>4, <1>5, <1>7, <1>8, <1>9 DEF L!Launch

(* What a running process does before its end does not show. *)
LEMMA InnerStepStutters ==
    ASSUME Inv, Inv', LedgerInv, NEW p \in Proc, Step(p), ~Exit(p)
    PROVE  UNCHANGED L!vars
<1>1. TypeOK /\ TypeOK' /\ HoldsLock /\ NothingPutYet /\ HolderIsLast
  BY DEF Inv, LedgerInv
<1>2. pc[p] \in Running /\ pc'[p] \in Running /\ req' = req
  <2>1. CASE OpenRejected(p) \/ OpenStoreFails(p) \/ InitRejected(p) \/ HandleRejected(p)
    BY <1>1, <2>1 DEF OpenRejected, OpenStoreFails, InitRejected, HandleRejected, FailWith,
                ExitWith, Goto, TypeOK, Running, Inside
  <2>2. CASE OpenStore(p)
    BY <1>1, <2>2 DEF OpenStore, Goto, TypeOK, Running, Inside
  <2>3. CASE PutOwner(p) \/ PutTotalSupply(p) \/ PutBalance(p)
    BY <1>1, <2>3 DEF PutOwner, PutTotalSupply, PutBalance, Put, FailWith,
                ExitWith, Goto, TypeOK, Running, Inside
  <2>4. CASE ReturnFromMain(p) \/ TotalSupply(p) \/ BalanceOf(p)
    BY <1>1, <2>4 DEF ReturnFromMain, TotalSupply, BalanceOf, Get, FailWith, ExitWith, Goto,
                TypeOK, Running, Inside
  <2>5. QED
    BY <2>1, <2>2, <2>3, <2>4 DEF Step
<1>3. pc'[p] \notin Ended /\ pc'[p] # "exited" /\ pc[p] # "exited"
  BY <1>2 DEF Running, Inside, Ended
<1>4. Transactions' = Transactions
  BY <1>1, <1>3, TransactionsStay
<1>5. State(p)' = State(p)
  BY <1>2, <1>3 DEF State
<1>6. States' = States
  BY <1>1, <1>5, OnlyOwnState DEF States
<1>7. Replies[p] = None
  BY <1>1, <1>3, ShownStates
<1>8. Replies' = Replies
  BY <1>1, <1>3, <1>7, OnlyOwnState DEF Replies
<1>9. QED
  BY <1>2, <1>4, <1>6, <1>8 DEF L!vars

(* When a process ends, what it has put becomes part of the ledger. *)
LEMMA EndSettles ==
    ASSUME Inv, Inv', LedgerInv, NEW p \in Proc, Exit(p) \/ Kill(p)
    PROVE  /\ lock = p => /\ Len(wal) - Settled \in L!Partial(p)
                          /\ Transactions' = L!WithEffects(p, Len(wal) - Settled)
           /\ lock # p => Transactions' = L!WithEffects(p, 0)
           /\ \E n \in L!Partial(p) : Transactions' = L!WithEffects(p, n)
<1>1. TypeOK /\ TypeOK' /\ HoldsLock /\ NothingPutYet /\ HolderIsLast
  BY DEF Inv, LedgerInv
<1>2. wal' = wal /\ lock' = IF lock = p THEN NoProc ELSE lock
  BY DEF Exit, Kill, UnlockStore
<1>3. ASSUME lock = p
      PROVE  /\ Len(wal) - Settled \in L!Partial(p)
             /\ Transactions' = L!WithEffects(p, Len(wal) - Settled)
  <2>1. \A i \in 1 .. Len(wal) : wal[i].by # NoProc
    BY <1>1, WritersType
  <2>2. Len(wal) \in Nat /\ Len(wal) \in 0 .. Len(wal) /\ Len(wal) + 1 .. Len(wal) = {}
    BY <1>1, WritersType
  <2>3. Cardinality({i \in 1 .. Len(wal) : wal[i].by # NoProc}) = Len(wal)
    BY <2>1, <2>2, SettledIs
  <2>4. Settled' = Len(wal)
    BY <1>2, <1>3, <2>3 DEF Settled
  <2>5. Transactions' = InitsOf(wal, Len(wal))
    BY <1>2, <2>4 DEF Transactions
  <2>6. QED
    BY <1>3, <2>5, WholeLedger
<1>4. ASSUME lock # p
      PROVE  Transactions' = L!WithEffects(p, 0)
  BY <1>1, <1>4, TransactionsStay DEF L!WithEffects, Step
<1>5. 0 \in L!Partial(p)
  BY DEF L!Partial
<1>6. QED
  BY <1>3, <1>4, <1>5

(* A kill may leave part of an init in the ledger. *)
LEMMA KillMaps ==
    ASSUME Inv, Inv', LedgerInv, NEW p \in Proc, Kill(p)
    PROVE  L!Kill(p)
<1>1. TypeOK /\ TypeOK'
  BY DEF Inv
<1>2. pc[p] \in Running /\ pc'[p] = "killed" /\ req' = req
  BY <1>1 DEF Kill, Goto, TypeOK
<1>3. pc[p] # "exited" /\ pc'[p] # "exited" /\ pc'[p] \notin Running
  BY <1>2 DEF Running, Inside
<1>4. States[p] = L!Running /\ Replies[p] = None
  BY <1>1, <1>2, <1>3, ShownStates
<1>5. State(p)' = L!Killed
  BY <1>2, <1>3 DEF State, L!Killed
<1>6. States' = [States EXCEPT ![p] = L!Killed]
  BY <1>1, <1>5, OnlyOwnState
<1>7. Replies' = Replies
  BY <1>1, <1>3, <1>4, OnlyOwnState DEF Replies
<1>8. \E n \in L!Partial(p) : Transactions' = L!WithEffects(p, n)
  BY EndSettles
<1>9. QED
  BY <1>2, <1>4, <1>6, <1>7, <1>8 DEF L!Kill, L!End

(* An init that succeeds has put all it puts. *)
LEMMA SuccessInFull ==
    ASSUME Inv, LedgerInv, NEW p \in Proc,
           pc[p] = "exit", status[p] = 0, WellFormedInit(req[p])
    PROVE  lock = p /\ Len(wal) - Settled = 3
<1>1. p \notin lost /\ pc[p] \in Running
  BY DEF LedgerInv, LostEnded, Ended, Running
<1>2. PICK i \in 1 .. Len(wal) : i + 2 <= Len(wal) /\ InitRecords(p, i)
  BY <1>1 DEF Inv, SuccessMeansAllPut, WellFormedInit
<1>3. wal[i].by = p
  BY <1>2 DEF InitRecords
<1>4. lock = p
  BY <1>1, <1>3 DEF LedgerInv, WriterHolds
<1>5. /\ Settled \in 0 .. Len(wal) /\ Len(wal) \in Nat
      /\ \A k \in 1 .. Settled : wal[k].by # lock
  BY SettledSplit DEF Inv, LedgerInv
<1>6. i > Settled
  BY <1>3, <1>4, <1>5
<1>7. Len(wal) - Settled \in L!Partial(p)
  BY <1>4, WholeLedger
<1>8. Len(wal) - Settled \in 0 .. 3
  BY <1>7 DEF L!Partial
<1>9. QED
  BY <1>2, <1>4, <1>5, <1>6, <1>8

(* An exit is a success or a failure of the transaction, as its status says. *)
LEMMA ExitMaps ==
    ASSUME Inv, Inv', LedgerInv, NEW p \in Proc, Exit(p)
    PROVE  L!Succeed(p) \/ L!Fail(p)
<1>1. TypeOK /\ TypeOK' /\ Outcomes /\ PutByInits
  BY DEF Inv, LedgerInv
<1>2. pc[p] = "exit" /\ pc'[p] = "exited" /\ req' = req /\ status' = status /\ reply' = reply
  BY <1>1 DEF Exit, Goto, TypeOK
<1>3. pc[p] \in Running /\ pc[p] # "exited"
  BY <1>2 DEF Running
<1>4. States[p] = L!Running /\ Replies[p] = None
  BY <1>1, <1>3, ShownStates
<1>5. State(p)' = L!Exited(status[p])
  BY <1>2 DEF State, L!Exited
<1>6. L!End(p, L!Exited(status[p]))
  BY <1>1, <1>2, <1>4, <1>5, OnlyOwnState DEF L!End, Step
<1>7. Replies' = [Replies EXCEPT ![p] = reply[p]]
  BY <1>1, <1>2, OnlyOwnState DEF Step
<1>8. reply[p] = None => Replies' = Replies
  BY <1>4, <1>7 DEF Replies
<1>9. CASE status[p] \in L!Failures(req[p]) /\ reply[p] = None
  <2>1. \E n \in L!Partial(p) : Transactions' = L!WithEffects(p, n)
    BY EndSettles
  <2>2. QED
    BY <1>4, <1>6, <1>8, <1>9, <2>1 DEF L!Fail
<1>10. CASE status[p] = 0 /\ req[p].valid /\ WellFormedInit(req[p]) /\ reply[p] = None
  <2>1. lock = p /\ Len(wal) - Settled = 3
    BY <1>2, <1>10, SuccessInFull
  <2>2. Transactions' = L!WithEffects(p, 3)
    BY <2>1, EndSettles
  <2>3. L!MakesSupply(req[p])
    BY <1>10 DEF WellFormedInit, L!MakesSupply
  <2>4. QED
    BY <1>6, <1>8, <1>10, <2>2, <2>3 DEF L!Succeed
<1>11. CASE /\ status[p] = 0 /\ req[p].valid /\ WellFormedCall(req[p])
            /\ reply[p] # None /\ reply[p] = Newest(wal, AskedKey(req[p])) /\ lock = p
  <2>1. ~WellFormedInit(req[p])
    BY <1>11 DEF WellFormedInit, WellFormedCall
  <2>2. \A i \in 1 .. Len(wal) : wal[i].by # lock
    BY <1>1, <1>11, <2>1 DEF PutByInits, PutByInit
  <2>3. Settled = Len(wal) /\ Len(wal) \in Nat
    BY <1>1, <2>2, FreeIsSettled, WritersType
  <2>4. Transactions' = L!WithEffects(p, Len(wal) - Settled)
    BY <1>11, EndSettles
  <2>5. Len(wal) - Settled = 0
    BY <2>3
  <2>6. Transactions' = Transactions
    BY <2>4, <2>5 DEF L!WithEffects
  <2>7. /\ L!AsksSupply(req[p]) \/ L!AsksBalance(req[p])
        /\ L!Answer(req[p]) = reply[p] /\ reply[p] # None
    BY <1>11, <2>3, AnswerIs
  <2>8. QED
    BY <1>6, <1>7, <1>11, <2>6, <2>7 DEF L!Succeed
<1>12. QED
  BY <1>1, <1>2, <1>9, <1>10, <1>11 DEF Outcomes, Outcome

(* A power loss drops the newest part of the ledger. *)
LEMMA PowerLossMaps ==
    ASSUME Inv, Inv', LedgerInv, PowerLoss
    PROVE  L!PowerLoss \/ UNCHANGED L!vars
<1> DEFINE n == Len(wal)
           m == Len(wal')
<1>1. TypeOK /\ TypeOK' /\ HolderIsLast /\ LogOK(wal)
  BY WalOK DEF Inv, LedgerInv
<1>2. /\ lock' = NoProc /\ req' = req /\ status' = status /\ reply' = reply
      /\ \A p \in Proc : pc'[p] = IF pc[p] \in Running THEN "killed" ELSE pc[p]
      /\ m \in 0 .. n
      /\ \A i \in 1 .. m : wal'[i] = wal[i]
  BY <1>1, PowerLossCuts
<1>3. n \in Nat /\ m \in Nat /\ n \in 0 .. n /\ NoProc \notin Proc
  BY <1>1, WritersType
<1>4. States' = [p \in Proc |-> IF States[p] = L!Running THEN L!Killed ELSE States[p]]
  <2>1. ASSUME NEW p \in Proc
        PROVE  State(p)' = IF States[p] = L!Running THEN L!Killed ELSE States[p]
    <3>1. CASE pc[p] \in Running
      <4>1. pc'[p] = "killed" /\ "killed" \notin Running
        BY <1>2, <3>1 DEF Running, Inside
      <4>2. State(p)' = L!Killed
        BY <4>1 DEF State, L!Killed
      <4>3. QED
        BY <1>1, <3>1, <4>2, ShownStates
    <3>2. CASE pc[p] \notin Running
      <4>1. State(p)' = State(p)
        BY <1>2, <3>2 DEF State
      <4>2. QED
        BY <1>1, <3>2, <4>1, ShownStates
    <3>3. QED
      BY <3>1, <3>2
  <2>2. QED
    BY <2>1 DEF States
<1>5. Replies' = Replies
  <2>1. \A p \in Proc : pc'[p] = "exited" <=> pc[p] = "exited"
    BY <1>2 DEF Running, Inside
  <2>2. QED
    BY <1>2, <2>1 DEF Replies
<1>6. Transactions' = InitsOf(wal', m)
  <2>1. \A i \in 1 .. m : i \in 1 .. n /\ wal'[i].by # NoProc
    <3>1. \A i \in 1 .. m : i \in 1 .. n
      BY <1>2, <1>3
    <3>2. QED
      BY <1>1, <1>2, <3>1, WritersType
  <2>2. m \in 0 .. m /\ m + 1 .. m = {}
    BY <1>3
  <2>3. Cardinality({i \in 1 .. m : wal'[i].by # NoProc}) = m
    BY <1>3, <2>1, <2>2, SettledIs
  <2>4. Settled' = m
    BY <1>2, <2>3 DEF Settled
  <2>5. QED
    BY <2>4 DEF Transactions
<1>7. Transactions' \in L!Beginnings(InitsOf(wal, n))
  <2>1. InitsOf(wal', m) = InitsOf(wal, m)
    BY <1>2, <1>3, SameBeginning
  <2>2. InitsOf(wal, m) \in L!Beginnings(InitsOf(wal, n))
    BY <1>1, <1>2, <1>3, CutLedger
  <2>3. QED
    BY <1>6, <2>1, <2>2
<1>8. CASE lock \in Proc
  <2>1. n - Settled \in L!Partial(lock) /\ InitsOf(wal, n) = L!WithEffects(lock, n - Settled)
    BY <1>8, WholeLedger
  <2>2. States[lock] = L!Running
    BY <1>1, <1>8, ShownStates DEF HolderIsLast
  <2>3. QED
    BY <1>2, <1>4, <1>5, <1>7, <1>8, <2>1, <2>2 DEF L!PowerLoss
<1>9. CASE lock \notin Proc /\ Proc # {}
  <2>1. \A i \in 1 .. n : wal[i].by # lock
    BY <1>1, <1>9, WritersType
  <2>2. InitsOf(wal, n) = Transactions
    BY <1>1, <2>1, FreeIsSettled DEF Transactions
  <2>3. PICK p \in Proc : TRUE
    BY <1>9
  <2>4. InitsOf(wal, n) = L!WithEffects(p, 0)
    BY <2>2 DEF L!WithEffects
  <2>5. 0 \in IF States[p] = L!Running THEN L!Partial(p) ELSE {0}
    BY DEF L!Partial
  <2>6. QED
    BY <1>2, <1>4, <1>5, <1>7, <2>4, <2>5 DEF L!PowerLoss
<1>10. CASE Proc = {}
  <2>1. n = 0
    <3>1. \A i \in 1 .. n : FALSE
      BY <1>1, <1>10, WritersType
    <3>2. n > 0 => 1 \in 1 .. n
      BY <1>3
    <3>3. QED
      BY <1>3, <3>1, <3>2
  <2>2. m = 0
    BY <1>2, <2>1
  <2>3. Settled = 0
    <3>1. \A i \in 1 .. n : wal[i].by # lock
      BY <2>1
    <3>2. QED
      BY <1>1, <2>1, <3>1, FreeIsSettled
  <2>4. Transactions' = Transactions
    <3>1. InitsOf(wal', 0) = InitsOf(wal, 0)
      BY SameBeginning
    <3>2. QED
      BY <1>6, <2>2, <2>3, <3>1 DEF Transactions
  <2>5. States' = States
    BY <1>10 DEF States
  <2>6. QED
    BY <1>2, <1>5, <2>4, <2>5 DEF L!vars
<1>11. QED
  BY <1>8, <1>9, <1>10

(* The mapping takes initial states to initial states, *)
LEMMA LedgerInit == Init => L!Init
<1> SUFFICES ASSUME Init PROVE L!Init
  OBVIOUS
<1>1. /\ wal = << >> /\ Len(wal) = 0 /\ lock = NoProc
      /\ pc = [p \in Proc |-> "idle"] /\ req = [p \in Proc |-> None]
  BY DEF Init, StoreInit
<1>2. TypeOK
  BY InitInv DEF Inv
<1>3. Transactions = << >>
  <2>1. \A i \in 1 .. Len(wal) : wal[i].by # lock
    BY <1>1
  <2>2. Settled = 0
    BY <1>1, <1>2, <2>1, FreeIsSettled
  <2>3. Heads(wal, 0) = {}
    BY DEF Heads
  <2>4. Sorted[{}] = << >>
    <3>1. Cardinality({}) = 0 /\ {} \in SUBSET Nat
      BY FS_EmptySet
    <3>2. DOMAIN Sorted[{}] = 1 .. 0
      BY <3>1 DEF Sorted
    <3>3. Sorted[{}] = [j \in 1 .. 0 |-> CHOOSE i \in {} : Cardinality({h \in {} : h <= i}) = j]
      BY <3>1 DEF Sorted
    <3>4. QED
      BY <3>3
  <2>5. QED
    BY <2>2, <2>3, <2>4 DEF Transactions, InitsOf
<1>4. States = [p \in Proc |-> L!Idle]
  BY <1>1 DEF States, State, L!Idle, Running, Inside
<1>5. Replies = [p \in Proc |-> None]
  BY <1>1 DEF Replies
<1>6. QED
  BY <1>1, <1>3, <1>4, <1>5 DEF L!Init

(* and each step to one step of the ledger, or to none. *)
LEMMA StepMaps == Inv /\ Inv' /\ LedgerInv /\ [Next]_vars => [L!Next]_L!vars
<1> SUFFICES ASSUME Inv, Inv', LedgerInv, [Next]_vars
             PROVE  [L!Next]_L!vars
  OBVIOUS
<1>1. ASSUME NEW p \in Proc, Launch(p)
      PROVE  L!Next
  BY <1>1, LaunchMaps DEF L!Next
<1>2. ASSUME NEW p \in Proc, Step(p), ~Exit(p)
      PROVE  UNCHANGED L!vars
  BY <1>2, InnerStepStutters
<1>3. ASSUME NEW p \in Proc, Exit(p)
      PROVE  L!Next
  BY <1>3, ExitMaps DEF L!Next
<1>4. ASSUME NEW p \in Proc, Kill(p)
      PROVE  L!Next
  BY <1>4, KillMaps DEF L!Next
<1>5. CASE PowerLoss
  BY <1>5, PowerLossMaps DEF L!Next
<1>6. CASE UNCHANGED vars
  <2>1. /\ lock' = lock /\ wal' = wal /\ pc' = pc /\ req' = req
        /\ status' = status /\ reply' = reply
    BY <1>6 DEF vars
  <2>2. Transactions' = Transactions
    BY <2>1 DEF Transactions, Settled
  <2>3. States' = States /\ Replies' = Replies
    BY <2>1 DEF States, State, Replies
  <2>4. QED
    BY <2>1, <2>2, <2>3 DEF L!vars
<1>7. QED
  BY <1>1, <1>2, <1>3, <1>4, <1>5, <1>6 DEF Next

(***************************************************************************)
(* LedgerInv holds in every reachable state: each process puts one init,   *)
(* at the end of the log and under the lock, and what it is about to       *)
(* report when it calls exit is true of the log (main.c, init and handle). *)
(***************************************************************************)
THEOREM LedgerInvariance == Spec => []LedgerInv
<1>1. Spec => []Inv
  BY Invariance
<1>2. QED
  BY <1>1, LedgerInvInit, LedgerInvStep, PTL DEF Spec

(***************************************************************************)
(* The contract implements the ledger: with its separate puts, its lock,   *)
(* its failures and its crashes, it shows nothing that transactions taking *)
(* effect one at a time, when their processes end, would not show.         *)
(***************************************************************************)
THEOREM TransactionsAreAtomic == Spec => ImplementsLedger
<1>1. Spec => []Inv
  BY Invariance
<1>2. Spec => []LedgerInv
  BY LedgerInvariance
<1>3. Spec => L!Spec
  BY <1>1, <1>2, LedgerInit, StepMaps, PTL DEF Spec, L!Spec
<1>4. QED
  BY <1>3 DEF ImplementsLedger
=============================================================================
