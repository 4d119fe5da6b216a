-------------------------------- MODULE XRC20 --------------------------------
(***************************************************************************)
(* The token contract contracts/c-xrc20/main.c, run by any number of       *)
(* processes over one store.  A process is one command line                *)
(*     ./main <init|call> <context file>                                   *)
(* that opens the context, serves one transaction and exits.  It may be    *)
(* killed anywhere, any storage call may fail, and the power may go.       *)
(*                                                                         *)
(* Call data is abstracted to what init and handle look at: its size, its  *)
(* first byte (the method), the address after it, and the eight bytes      *)
(* that are a supply.  No code does arithmetic on a supply.                *)
(***************************************************************************)
EXTENDS ContractStore

CONSTANTS Address,   \* 20-byte addresses
          Supply,    \* 8-byte supplies
          Request    \* the command lines that may be run

Data == [size: Nat, method: 0 .. 255, address: Address, word: Supply]

(* valid: qtum_context_open can read the action and the context file. *)
Requests == [valid: BOOLEAN, action: {"init", "call"}, sender: Address, data: Data]

QERR_GENERAL == 1
QERR_INVALID_CONTEXT == 100
QERR_STORAGE == 101
QERR_OOM == 255
NoStatus == 256    \* a process that has not called exit

kOwner == <<"owner">>
kTotalSupply == <<"totalSupply">>
keyBalanceOf(a) == <<"balanceOf", a>>

BalanceKey == {keyBalanceOf(a) : a \in Address}

ASSUME XRC20Assumption ==
    /\ Key = {kOwner, kTotalSupply} \cup BalanceKey
    /\ Value = Address \cup Supply
    /\ Request \subseteq Requests

VARIABLES pc,      \* where each process is
          req,     \* the command line it was started with
          status,  \* the status it passes to exit
          reply    \* the data qtum_exit_return prints

vars == <<lock, wal, durable, lost, pc, req, status, reply>>

Inside == {"main", "putTotalSupply", "putBalance", "return"}  \* has an open context
Running == {"open", "exit"} \cup Inside
Ended == {"exited", "killed"}

METHOD_TOTAL_SUPPLY == 0
METHOD_BALANCE_OF == 1
METHOD_MINT == 2

TypeOK ==
    /\ StoreTypeOK
    /\ pc \in [Proc -> {"idle"} \cup Running \cup Ended]
    /\ req \in [Proc -> Request \cup {None}]
    /\ \A p \in Proc : pc[p] # "idle" => req[p] \in Request
    /\ status \in [Proc -> {0, QERR_GENERAL, QERR_INVALID_CONTEXT,
                            QERR_STORAGE, QERR_OOM, NoStatus}]
    /\ reply \in [Proc -> Value \cup {None}]

Init ==
    /\ StoreInit
    /\ pc = [p \in Proc |-> "idle"]
    /\ req = [p \in Proc |-> None]
    /\ status = [p \in Proc |-> NoStatus]
    /\ reply = [p \in Proc |-> None]

----------------------------------------------------------------------------
Goto(p, label) == pc' = [pc EXCEPT ![p] = label]

ExitWith(p, code) ==
    /\ Goto(p, "exit")
    /\ status' = [status EXCEPT ![p] = code]

(***************************************************************************)
(* qtum_exit_error(qtum_err_new(code, ...)): qtum_err_new itself exits     *)
(* with QERR_OOM when it cannot allocate.                                  *)
(***************************************************************************)
FailWith(p, code) ==
    /\ \E c \in {code, QERR_OOM} : ExitWith(p, c)
    /\ UNCHANGED <<req, reply>>

(* A shell starts the contract. *)
Launch(p) ==
    /\ pc[p] = "idle"
    /\ Goto(p, "open")
    /\ \E r \in Request : req' = [req EXCEPT ![p] = r]
    /\ UNCHANGED <<storeVars, status, reply>>

----------------------------------------------------------------------------
(* qtum_context_open: no action, an unknown one, or an unusable file. *)
OpenRejected(p) ==
    /\ pc[p] = "open"
    /\ ~req[p].valid
    /\ FailWith(p, QERR_INVALID_CONTEXT)
    /\ UNCHANGED storeVars

OpenStoreIgnoringLock(p) ==
    /\ pc[p] = "open"
    /\ req[p].valid
    /\ lock' = p
    /\ durable' = Len(wal)
    /\ Goto(p, "main")
    /\ UNCHANGED <<wal, lost, req, status, reply>>

OpenStore(p) ==
    /\ pc[p] = "open"
    /\ req[p].valid
    /\ LockStore(p)
    /\ Goto(p, "main")
    /\ UNCHANGED <<req, status, reply>>

(***************************************************************************)
(* leveldb_open reports an error: always when another process has the      *)
(* database open, and possibly at any other time.                          *)
(***************************************************************************)
OpenStoreFails(p) ==
    /\ pc[p] = "open"
    /\ req[p].valid
    /\ FailWith(p, QERR_STORAGE)
    /\ UNCHANGED storeVars

----------------------------------------------------------------------------
(***************************************************************************)
(* qtum_put and the "if (err) qtum_exit_error(err)" after it.  A put that  *)
(* reports an error may have reached the log all the same.                 *)
(***************************************************************************)
PutIgnoringErrors(p, k, v, next) ==
    /\ AppendRecord(p, k, v) \/ UNCHANGED storeVars
    /\ Goto(p, next)
    /\ UNCHANGED <<req, status, reply>>

Put(p, k, v, next) ==
    \/ /\ AppendRecord(p, k, v)
       /\ Goto(p, next)
       /\ UNCHANGED <<req, status, reply>>
    \/ /\ AppendRecord(p, k, v) \/ UNCHANGED storeVars
       /\ FailWith(p, QERR_STORAGE)

WellFormedInit(r) == r.action = "init" /\ r.data.size = 8

InitRejected(p) ==
    /\ pc[p] = "main"
    /\ req[p].action = "init"
    /\ req[p].data.size # 8
    /\ FailWith(p, QERR_GENERAL)
    /\ UNCHANGED storeVars

PutOwner(p) ==
    /\ pc[p] = "main"
    /\ WellFormedInit(req[p])
    /\ Put(p, kOwner, req[p].sender, "putTotalSupply")

PutTotalSupply(p) ==
    /\ pc[p] = "putTotalSupply"
    /\ Put(p, kTotalSupply, req[p].data.word, "putBalance")

PutBalanceOfArgument(p) ==
    /\ pc[p] = "putBalance"
    /\ Put(p, keyBalanceOf(req[p].data.address), req[p].data.word, "return")

PutBalanceWithoutAddress(p) ==
    /\ pc[p] = "putBalance"
    /\ Put(p, <<"balanceOf">>, req[p].data.word, "return")

PutBalance(p) ==
    /\ pc[p] = "putBalance"
    /\ Put(p, keyBalanceOf(req[p].sender), req[p].data.word, "return")

(* main returns 0; nothing has called qtum_context_close. *)
ReturnFromMain(p) ==
    /\ pc[p] = "return"
    /\ ExitWith(p, 0)
    /\ UNCHANGED <<storeVars, req, reply>>

----------------------------------------------------------------------------
(* handle: the first byte selects the method, mint is not among the cases. *)
AsksTotalSupply(d) == d.size >= 1 /\ d.method = METHOD_TOTAL_SUPPLY
AsksBalanceOf(d) == d.size = 21 /\ d.method = METHOD_BALANCE_OF

WellFormedCall(r) ==
    r.action = "call" /\ (AsksTotalSupply(r.data) \/ AsksBalanceOf(r.data))

(* No call data, a balanceOf without 20 bytes of address, the default case. *)
HandleRejected(p) ==
    /\ pc[p] = "main"
    /\ req[p].action = "call"
    /\ ~WellFormedCall(req[p])
    /\ FailWith(p, QERR_GENERAL)
    /\ UNCHANGED storeVars

(***************************************************************************)
(* qtum_get, then qtum_exit_return or qtum_exit_error.  A key that is not  *)
(* there and a read that fails are the same error to the caller.           *)
(***************************************************************************)
GetUntilFound(p, k) ==
    /\ Newest(wal, k) # None
    /\ reply' = [reply EXCEPT ![p] = Newest(wal, k)]
    /\ ExitWith(p, 0)
    /\ UNCHANGED <<storeVars, req>>

Get(p, k) ==
    /\ \/ /\ Newest(wal, k) # None
          /\ reply' = [reply EXCEPT ![p] = Newest(wal, k)]
          /\ ExitWith(p, 0)
          /\ UNCHANGED req
       \/ FailWith(p, QERR_STORAGE)
    /\ UNCHANGED storeVars

TotalSupply(p) ==
    /\ pc[p] = "main"
    /\ req[p].action = "call" /\ AsksTotalSupply(req[p].data)
    /\ Get(p, kTotalSupply)

BalanceOfSender(p) ==
    /\ pc[p] = "main"
    /\ req[p].action = "call" /\ AsksBalanceOf(req[p].data)
    /\ Get(p, keyBalanceOf(req[p].sender))

BalanceOf(p) ==
    /\ pc[p] = "main"
    /\ req[p].action = "call" /\ AsksBalanceOf(req[p].data)
    /\ Get(p, keyBalanceOf(req[p].data.address))

----------------------------------------------------------------------------
(* The process is gone, and with it its hold on the database. *)
Exit(p) ==
    /\ pc[p] = "exit"
    /\ Goto(p, "exited")
    /\ UnlockStore(p)
    /\ UNCHANGED <<req, status, reply>>

Kill(p) ==
    /\ pc[p] \in Running
    /\ Goto(p, "killed")
    /\ UnlockStore(p)
    /\ UNCHANGED <<req, status, reply>>

PowerLoss ==
    /\ CutLog
    /\ pc' = [p \in Proc |-> IF pc[p] \in Running THEN "killed" ELSE pc[p]]
    /\ UNCHANGED <<req, status, reply>>

Step(p) ==
    \/ OpenRejected(p) \/ OpenStore(p) \/ OpenStoreFails(p)
    \/ InitRejected(p)
    \/ PutOwner(p) \/ PutTotalSupply(p) \/ PutBalance(p) \/ ReturnFromMain(p)
    \/ HandleRejected(p) \/ TotalSupply(p) \/ BalanceOf(p)
    \/ Exit(p)

Next ==
    \/ \E p \in Proc : Launch(p) \/ Step(p) \/ Kill(p)
    \/ PowerLoss

Spec == Init /\ [][Next]_vars

(* The operating system schedules every running process. *)
FairSpec == Spec /\ \A p \in Proc : WF_vars(Step(p))

----------------------------------------------------------------------------
(***************************************************************************)
(* The puts of one init are never mixed with those of another, nor out of  *)
(* order: each record is an owner, or the total supply put right after     *)
(* the owner by the same process, or that owner's balance put right after  *)
(* the same supply.  It is what init's three separate qtum_put calls rely  *)
(* on the database lock for, and it also holds of every log that a failed  *)
(* put, a killed process or a power loss leaves behind.                    *)
(***************************************************************************)
ContinuesItsInit(w, i) ==
    \/ w[i].key = kOwner
    \/ /\ i > 1
       /\ w[i - 1].by = w[i].by
       /\ w[i - 1].key = kOwner
       /\ w[i].key = kTotalSupply
    \/ /\ i > 2
       /\ w[i - 1].by = w[i].by
       /\ w[i - 1].key = kTotalSupply
       /\ w[i].key = keyBalanceOf(w[i - 2].val)
       /\ w[i].val = w[i - 1].val

InitsNeverMix == \A i \in 1 .. Len(wal) : ContinuesItsInit(wal, i)

(***************************************************************************)
(* Whenever the newest record is a balance, that is after every init that  *)
(* ran to its end, the stored owner's balance is the stored total supply,  *)
(* whatever torn or complete inits came before (main.c, init).             *)
(***************************************************************************)
OwnerHoldsSupply ==
    (wal # << >> /\ wal[Len(wal)].key \in BalanceKey) =>
        /\ Newest(wal, kTotalSupply) # None
        /\ Newest(wal, keyBalanceOf(Newest(wal, kOwner))) = Newest(wal, kTotalSupply)

(***************************************************************************)
(* An init that exits with status 0 has put all three of its records, one  *)
(* after the other, with its own sender and supply; only a power loss can  *)
(* take them away (main.c, init: "if (err) qtum_exit_error(err)").         *)
(***************************************************************************)
InitRecords(p, i) ==
    /\ wal[i] = [by |-> p, key |-> kOwner, val |-> req[p].sender]
    /\ wal[i + 1] = [by |-> p, key |-> kTotalSupply, val |-> req[p].data.word]
    /\ wal[i + 2] = [by |-> p, key |-> keyBalanceOf(req[p].sender),
                     val |-> req[p].data.word]

SuccessMeansAllPut ==
    \A p \in Proc \ lost :
        (status[p] = 0 /\ req[p].action = "init") =>
            \E i \in 1 .. Len(wal) : i + 2 <= Len(wal) /\ InitRecords(p, i)

(***************************************************************************)
(* A process that gets hold of the store gives it back: contracts never    *)
(* call qtum_context_close, so this rests on every path of main reaching   *)
(* exit.                                                                   *)
(***************************************************************************)
StoreIsReleased == \A p \in Proc : (lock = p) ~> (lock # p)

(***************************************************************************)
(* handle's calldata comment lists "mint address [02][address (20 bytes)]" *)
(* (main.c:118): such a call is not refused as an unknown method.          *)
(***************************************************************************)
MintIsAMethod ==
    \A p \in Proc :
        (pc[p] = "exited" /\ req[p].valid /\ req[p].action = "call"
           /\ req[p].data.size = 21 /\ req[p].data.method = METHOD_MINT)
        => status[p] # QERR_GENERAL
=============================================================================
