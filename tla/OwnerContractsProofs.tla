------------------------- MODULE OwnerContractsProofs -------------------------
(***************************************************************************)
(* What the owner contracts report is stored, for every set of processes,  *)
(* addresses and command lines, and whatever lies behind C's literal.      *)
(*                                                                         *)
(* ReportsAreTrue speaks of processes that have reported.  Inv adds those  *)
(* that are about to: between a put that succeeded and its report, a       *)
(* process has its record in the log, or the power took it and both.       *)
(***************************************************************************)
EXTENDS OwnerContracts, TLAPS

Labels == {"idle", "exited", "killed"} \cup Running
Lines == {"error", "set owner", "put owner", "get owner"}
Statuses == {0, QERR_INVALID_CONTEXT, QERR_STORAGE, QERR_OOM, NoStatus}

(* TypeOK without the store's part. *)
ProcTypes ==
    /\ pc \in [Proc -> Labels]
    /\ req \in [Proc -> Requests \cup {None}]
    /\ \A p \in Proc : pc[p] # "idle" => req[p] \in Request[p]
    /\ result \in [Proc -> {"ok", "error", "panic"}]
    /\ answer \in [Proc -> Address \cup {None}]
    /\ out \in [Proc -> SUBSET Lines]
    /\ status \in [Proc -> Statuses]

(* A status is passed to exit, and an idle process has printed nothing. *)
NothingEarly ==
    \A p \in Proc :
        /\ pc[p] \in {"idle", "open", "end"} \cup Inside => status[p] = NoStatus
        /\ pc[p] \in {"idle", "open"} => out[p] = {}

(* The process has reported success, or nothing can keep it from it any more. *)
Succeeded(p) ==
    \/ Quiet(p) \/ "put owner" \in out[p]
    \/ pc[p] = "print"
    \/ pc[p] \in {"close", "end"} /\ result[p] = "ok"

Stored(p) ==
    \E i \in 1 .. Len(wal) :
        wal[i] = [by |-> p, key |-> KeyOf(Lang(p)), val |-> req[p].sender]

SuccessIsStored ==
    \A p \in Proc \ lost :
        pc[p] # "idle" /\ req[p].action = "init" /\ Succeeded(p) => Stored(p)

(* A call that is done with its work, and without an error, and what it has then. *)
Done(p) == Quiet(p) \/ (pc[p] \in {"close", "end"} /\ result[p] = "ok")
Answered(p) == answer[p] # None /\ (Lang(p) = "rust" => "get owner" \in out[p])

CallsAreAnswered ==
    \A p \in Proc : pc[p] # "idle" /\ req[p].action = "call" =>
        /\ pc[p] = "print" => answer[p] # None
        /\ Done(p) => Answered(p)

Inv ==
    /\ TypeOK
    /\ NothingEarly
    /\ SuccessIsStored
    /\ CallsAreAnswered

----------------------------------------------------------------------------
(* The types of the processes and those of the store are all of TypeOK. *)
LEMMA TypeParts == TypeOK <=> StoreTypeOK /\ ProcTypes
BY DEF TypeOK, ProcTypes, Labels, Lines, Statuses

(* A put adds a record of the right type and keeps the older ones. *)
LEMMA AppendType ==
    ASSUME NEW p \in Proc, NEW k \in Key, NEW v \in Value, StoreTypeOK,
           AppendRecord(p, k, v)
    PROVE  /\ StoreTypeOK'
           /\ Len(wal') = Len(wal) + 1
           /\ wal'[Len(wal) + 1] = [by |-> p, key |-> k, val |-> v]
           /\ \A i \in 1 .. Len(wal) : wal'[i] = wal[i]
           /\ lost' = lost
BY DEF StoreTypeOK, AppendRecord, Record

(* Each language's owner key is a key of the store, and a sender is a value. *)
LEMMA RequestFields ==
    ASSUME NEW p \in Proc, ProcTypes, pc[p] # "idle"
    PROVE  /\ req[p] \in Requests
           /\ req[p].sender \in Value /\ KeyOf(Lang(p)) \in Key
BY OwnerAssumption DEF ProcTypes, Requests, KeyOf

(* The value a get answers with is a stored one, which is an address. *)
LEMMA NewestType ==
    ASSUME NEW k, StoreTypeOK, Newest(wal, k) # None
    PROVE  Newest(wal, k) \in Address
<1>1. PICK n \in LastPut(wal, k) : Newest(wal, k) = wal[n].val
  BY DEF Newest
<1>2. wal[n] \in Record
  BY <1>1 DEF LastPut, StoreTypeOK
<1>3. QED
  BY <1>1, <1>2, OwnerAssumption DEF Record

(* After a power loss the store is a prefix of what it was. *)
LEMMA CutType ==
    ASSUME StoreTypeOK, CutLog
    PROVE  /\ StoreTypeOK'
           /\ lost \subseteq lost'
           /\ \A i \in 1 .. Len(wal) : wal[i].by \notin lost' =>
                i \in 1 .. Len(wal') /\ wal'[i] = wal[i]
<1>1. PICK n \in durable .. Len(wal) :
        /\ wal' = SubSeq(wal, 1, n)
        /\ durable' = n
        /\ lost' = lost \cup {wal[i].by : i \in n + 1 .. Len(wal)}
        /\ lock' = NoProc
  BY DEF CutLog
<1>2. n \in 0 .. Len(wal) /\ wal \in Seq(Record)
  BY DEF StoreTypeOK
<1>3. wal' \in Seq(Record) /\ Len(wal') = n /\ \A i \in 1 .. n : wal'[i] = wal[i]
  BY <1>1, <1>2
<1>4. \A i \in 1 .. Len(wal) : wal[i].by \in Proc
  <2>1. \A i \in 1 .. Len(wal) : wal[i] \in Record
    BY <1>2
  <2>2. QED
    BY <2>1 DEF Record
<1>5. lost' \subseteq Proc
  BY <1>1, <1>2, <1>4 DEF StoreTypeOK
<1>6. \A i \in 1 .. Len(wal) : wal[i].by \notin lost' => i \in 1 .. n
  BY <1>1, <1>2
<1>7. QED
  BY <1>1, <1>2, <1>3, <1>5, <1>6 DEF StoreTypeOK

----------------------------------------------------------------------------
(* Printing one of the program's lines keeps what is printed well typed. *)
LEMMA PrintsType ==
    ASSUME NEW p \in Proc, NEW line \in Lines, ProcTypes, Prints(p, line)
    PROVE  out' \in [Proc -> SUBSET Lines]
<1>1. out[p] \cup {line} \in SUBSET Lines
  BY DEF ProcTypes
<1>2. out' = [out EXCEPT ![p] = out[p] \cup {line}]
  BY DEF Prints
<1>3. QED
  BY <1>1, <1>2 DEF ProcTypes

(* A failing call ends a process of the right types with a status of the code. *)
LEMMA FailType ==
    ASSUME NEW p \in Proc, NEW code \in {QERR_INVALID_CONTEXT, QERR_STORAGE},
           NEW next \in {"close", "end"}, ProcTypes, pc[p] # "idle", Fail(p, code, next)
    PROVE  ProcTypes'
<1>1. pc' \in [Proc -> Labels] /\ \A q \in Proc : pc'[q] # "idle" => pc[q] # "idle"
  BY DEF Fail, ExitWith, Goto, ProcTypes, Labels, Running, Inside
<1>2. result' \in [Proc -> {"ok", "error", "panic"}]
  BY DEF Fail, ProcTypes
<1>3. out' \in [Proc -> SUBSET Lines]
  <2>1. out' = out \/ Prints(p, "error")
    BY DEF Fail, MayPrint
  <2>2. QED
    BY <2>1, PrintsType DEF Lines, ProcTypes
<1>4. status' \in [Proc -> Statuses]
  BY DEF Fail, ExitWith, ProcTypes, Statuses
<1>5. req' = req /\ answer' = answer
  BY DEF Fail
<1>6. QED
  BY <1>1, <1>2, <1>3, <1>4, <1>5 DEF ProcTypes

(* The store keeps its types in every step. *)
LEMMA StoreStep == TypeOK /\ [Next]_vars => StoreTypeOK'
<1> SUFFICES ASSUME StoreTypeOK, ProcTypes, [Next]_vars
             PROVE  StoreTypeOK'
  BY TypeParts
<1>1. ASSUME NEW p \in Proc, Launch(p) \/ OpenRejected(p) \/ OpenStoreFails(p) \/ Announce(p)
                               \/ PrintLine(p) \/ PrintPanics(p) \/ ReturnFromMain(p)
      PROVE  StoreTypeOK'
  BY <1>1 DEF Launch, OpenRejected, OpenStoreFails, Announce, PrintLine, PrintPanics,
              ReturnFromMain, storeVars, StoreTypeOK
<1>2. ASSUME NEW p \in Proc, OpenStore(p)
      PROVE  StoreTypeOK'
  BY <1>2 DEF OpenStore, LockStore, StoreTypeOK
<1>3. ASSUME NEW p \in Proc, PutOwner(p)
      PROVE  StoreTypeOK'
  <2>1. pc[p] # "idle"
    BY <1>3 DEF PutOwner, AtPut
  <2>2. CASE AppendRecord(p, KeyOf(Lang(p)), req[p].sender)
    BY <2>1, <2>2, RequestFields, AppendType
  <2>3. CASE UNCHANGED storeVars
    BY <2>3 DEF storeVars, StoreTypeOK
  <2>4. QED
    BY <1>3, <2>2, <2>3 DEF PutOwner
<1>4. ASSUME NEW p \in Proc, GetOwner(p)
      PROVE  StoreTypeOK'
  BY <1>4 DEF GetOwner, GetFrom, storeVars, StoreTypeOK
<1>5. ASSUME NEW p \in Proc, Close(p) \/ Exit(p) \/ Kill(p)
      PROVE  StoreTypeOK'
  BY <1>5 DEF Close, Exit, Kill, UnlockStore, StoreTypeOK
<1>6. CASE PowerLoss
  BY <1>6, CutType DEF PowerLoss
<1>7. CASE UNCHANGED vars
  BY <1>7 DEF vars, StoreTypeOK
<1>8. QED
  BY <1>1, <1>2, <1>3, <1>4, <1>5, <1>6, <1>7 DEF Next, Step

(* The processes keep their types in every step. *)
LEMMA ProcStep == TypeOK /\ [Next]_vars => ProcTypes'
<1> SUFFICES ASSUME StoreTypeOK, ProcTypes, [Next]_vars
             PROVE  ProcTypes'
  BY TypeParts
<1>1. ASSUME NEW p \in Proc, Launch(p)
      PROVE  ProcTypes'
  <2>1. PICK r \in Request[p] : req' = [req EXCEPT ![p] = r]
    BY <1>1 DEF Launch
  <2>2. r \in Requests
    BY <2>1, OwnerAssumption
  <2>3. req' \in [Proc -> Requests \cup {None}]
    BY <2>1, <2>2 DEF ProcTypes
  <2>4. pc' \in [Proc -> Labels]
    BY <1>1 DEF Launch, Goto, ProcTypes, Labels, Running
  <2>5. \A q \in Proc : pc'[q] # "idle" => req'[q] \in Request[q]
    BY <1>1, <2>1 DEF Launch, Goto, ProcTypes
  <2>6. QED
    BY <1>1, <2>3, <2>4, <2>5 DEF Launch, ProcTypes
<1>2. ASSUME NEW p \in Proc, OpenRejected(p) \/ OpenStoreFails(p)
      PROVE  ProcTypes'
  BY <1>2, FailType DEF OpenRejected, OpenStoreFails
<1>3. ASSUME NEW p \in Proc, OpenStore(p) \/ Close(p) \/ Exit(p) \/ Kill(p)
      PROVE  ProcTypes'
  <2>1. pc' \in [Proc -> Labels] /\ \A q \in Proc : pc'[q] # "idle" => pc[q] # "idle"
    BY <1>3 DEF OpenStore, Close, Exit, Kill, Goto, ProcTypes, Labels, Running, Inside
  <2>2. UNCHANGED <<req, result, answer, out, status>>
    BY <1>3 DEF OpenStore, Close, Exit, Kill
  <2>3. QED
    BY <2>1, <2>2 DEF ProcTypes
<1>4. ASSUME NEW p \in Proc, Announce(p) \/ PrintLine(p)
      PROVE  ProcTypes'
  <2>1. pc' \in [Proc -> Labels] /\ \A q \in Proc : pc'[q] # "idle" => pc[q] # "idle"
    BY <1>4 DEF Announce, PrintLine, Goto, ProcTypes, Labels, Running, Inside
  <2>2. out' \in [Proc -> SUBSET Lines]
    <3>1. out' = out \/ \E line \in Lines : Prints(p, line)
      BY <1>4 DEF Announce, PrintLine, MayPrint, Lines
    <3>2. QED
      BY <3>1, PrintsType DEF ProcTypes
  <2>3. UNCHANGED <<req, result, answer, status>>
    BY <1>4 DEF Announce, PrintLine
  <2>4. QED
    BY <2>1, <2>2, <2>3 DEF ProcTypes
<1>5. ASSUME NEW p \in Proc, PutOwner(p)
      PROVE  ProcTypes'
  <2>1. pc[p] # "idle"
    BY <1>5 DEF PutOwner, AtPut
  <2>2. CASE Fail(p, QERR_STORAGE, "close")
    BY <2>1, <2>2, FailType
  <2>3. CASE Goto(p, AfterPut(p)) /\ UNCHANGED <<req, result, answer, out, status>>
    <3>1. pc' \in [Proc -> Labels] /\ \A q \in Proc : pc'[q] # "idle" => pc[q] # "idle"
      BY <2>1, <2>3 DEF AfterPut, Goto, ProcTypes, Labels, Running, Inside
    <3>2. QED
      BY <2>3, <3>1 DEF ProcTypes
  <2>4. QED
    BY <1>5, <2>2, <2>3 DEF PutOwner
<1>6. ASSUME NEW p \in Proc, GetOwner(p)
      PROVE  ProcTypes'
  <2>1. pc[p] # "idle"
    BY <1>6 DEF GetOwner, GetFrom
  <2>2. CASE Fail(p, QERR_STORAGE, "close")
    BY <2>1, <2>2, FailType
  <2>3. CASE ~Fail(p, QERR_STORAGE, "close")
    <3>1. PICK k : k = KeyOf(Lang(p)) /\ Newest(wal, k) # None
                     /\ answer' = [answer EXCEPT ![p] = Newest(wal, k)]
      BY <1>6, <2>3 DEF GetOwner, GetFrom
    <3>2. answer' \in [Proc -> Address \cup {None}]
      BY <3>1, NewestType DEF ProcTypes
    <3>3. pc' \in [Proc -> Labels] /\ \A q \in Proc : pc'[q] # "idle" => pc[q] # "idle"
      BY <1>6, <2>1, <2>3 DEF GetOwner, GetFrom, Goto, ProcTypes, Labels, Running, Inside
    <3>4. UNCHANGED <<req, result, out, status>>
      BY <1>6, <2>3 DEF GetOwner, GetFrom
    <3>5. QED
      BY <3>2, <3>3, <3>4 DEF ProcTypes
  <2>4. QED
    BY <2>2, <2>3
<1>7. ASSUME NEW p \in Proc, PrintPanics(p)
      PROVE  ProcTypes'
  BY <1>7 DEF PrintPanics, Goto, ProcTypes, Labels, Running, Inside
<1>8. ASSUME NEW p \in Proc, ReturnFromMain(p)
      PROVE  ProcTypes'
  <2>1. pc' \in [Proc -> Labels] /\ \A q \in Proc : pc'[q] # "idle" => pc[q] # "idle"
    BY <1>8 DEF ReturnFromMain, ExitWith, Goto, ProcTypes, Labels, Running
  <2>2. status' \in [Proc -> Statuses]
    BY <1>8 DEF ReturnFromMain, ExitWith, ProcTypes, Statuses, Panicked, QERR_STORAGE
  <2>3. out' \in [Proc -> SUBSET Lines]
    <3>1. out' = out \/ Prints(p, "error")
      BY <1>8 DEF ReturnFromMain
    <3>2. QED
      BY <3>1, PrintsType DEF Lines, ProcTypes
  <2>4. QED
    BY <1>8, <2>1, <2>2, <2>3 DEF ReturnFromMain, ProcTypes
<1>9. CASE PowerLoss
  <2>1. pc' \in [Proc -> Labels] /\ \A q \in Proc : pc'[q] # "idle" => pc[q] # "idle"
    BY <1>9 DEF PowerLoss, ProcTypes, Labels, Running, Inside
  <2>2. QED
    BY <1>9, <2>1 DEF PowerLoss, ProcTypes
<1>10. CASE UNCHANGED vars
  BY <1>10 DEF vars, ProcTypes
<1>11. QED
  BY <1>1, <1>2, <1>3, <1>4, <1>5, <1>6, <1>7, <1>8, <1>9, <1>10 DEF Next, Step

(* TypeOK holds in every reachable state. *)
LEMMA TypeStep == TypeOK /\ [Next]_vars => TypeOK'
BY StoreStep, ProcStep, TypeParts, PTL

----------------------------------------------------------------------------
(* The steps that one process takes. *)
Moves(p) == Launch(p) \/ Step(p) \/ Kill(p)

(* A process never touches the local state of another. *)
LEMMA OthersKept ==
    ASSUME NEW p \in Proc, NEW q \in Proc, q # p, ProcTypes, Moves(p)
    PROVE  /\ pc'[q] = pc[q] /\ req'[q] = req[q] /\ result'[q] = result[q]
           /\ out'[q] = out[q] /\ status'[q] = status[q] /\ answer'[q] = answer[q]
<1>1. CASE Launch(p)
  BY <1>1 DEF Launch, Goto, ProcTypes
<1>2. ASSUME NEW code, NEW next, Fail(p, code, next)
      PROVE  /\ pc'[q] = pc[q] /\ req'[q] = req[q] /\ result'[q] = result[q]
             /\ out'[q] = out[q] /\ status'[q] = status[q] /\ answer'[q] = answer[q]
  BY <1>2 DEF Fail, ExitWith, Goto, MayPrint, Prints, ProcTypes
<1>3. CASE OpenRejected(p) \/ OpenStoreFails(p)
  BY <1>2, <1>3 DEF OpenRejected, OpenStoreFails
<1>4. CASE OpenStore(p) \/ Close(p) \/ Exit(p) \/ Kill(p)
  BY <1>4 DEF OpenStore, Close, Exit, Kill, Goto, ProcTypes
<1>5. CASE Announce(p) \/ PrintLine(p) \/ PrintPanics(p)
  BY <1>5 DEF Announce, PrintLine, PrintPanics, Goto, MayPrint, Prints, ProcTypes
<1>6. CASE PutOwner(p)
  <2>1. CASE Fail(p, QERR_STORAGE, "close")
    BY <1>2, <2>1
  <2>2. CASE ~Fail(p, QERR_STORAGE, "close")
    BY <1>6, <2>2 DEF PutOwner, Goto, ProcTypes
  <2>3. QED
    BY <2>1, <2>2
<1>7. CASE GetOwner(p)
  <2>1. CASE Fail(p, QERR_STORAGE, "close")
    BY <1>2, <2>1
  <2>2. CASE ~Fail(p, QERR_STORAGE, "close")
    BY <1>7, <2>2 DEF GetOwner, GetFrom, Goto, ProcTypes
  <2>3. QED
    BY <2>1, <2>2
<1>8. CASE ReturnFromMain(p)
  BY <1>8 DEF ReturnFromMain, ExitWith, Goto, Prints, ProcTypes
<1>9. QED
  BY <1>1, <1>3, <1>4, <1>5, <1>6, <1>7, <1>8 DEF Moves, Step

(* A process takes nothing out of the log: only the power does. *)
LEMMA LogKept ==
    ASSUME NEW p \in Proc, StoreTypeOK, ProcTypes, Moves(p)
    PROVE  /\ lost' = lost
           /\ \A i \in 1 .. Len(wal) : i \in 1 .. Len(wal') /\ wal'[i] = wal[i]
<1>1. CASE wal' = wal /\ lost' = lost
  BY <1>1
<1>2. CASE PutOwner(p)
  <2>1. pc[p] # "idle"
    BY <1>2 DEF PutOwner, AtPut
  <2>2. CASE UNCHANGED storeVars
    BY <1>1, <2>2 DEF storeVars
  <2>3. CASE AppendRecord(p, KeyOf(Lang(p)), req[p].sender)
    <3>1. req[p].sender \in Value /\ KeyOf(Lang(p)) \in Key
      BY <2>1, RequestFields
    <3>2. lost' = lost /\ Len(wal') = Len(wal) + 1
            /\ \A i \in 1 .. Len(wal) : wal'[i] = wal[i]
      BY <2>3, <3>1, AppendType
    <3>3. Len(wal) \in Nat
      BY DEF StoreTypeOK
    <3>4. QED
      BY <3>2, <3>3
  <2>4. QED
    BY <1>2, <2>2, <2>3 DEF PutOwner
<1>3. CASE ~PutOwner(p)
  BY <1>1, <1>3 DEF Moves, Step, Launch, Kill, OpenRejected, OpenStoreFails, OpenStore,
       LockStore, Announce, GetOwner, GetFrom, PrintLine, PrintPanics, Close,
       ReturnFromMain, Exit, UnlockStore, storeVars
<1>4. QED
  BY <1>2, <1>3

(* So a stored record stays stored while the process keeps its command line. *)
LEMMA StoredKept ==
    ASSUME NEW p \in Proc, NEW q \in Proc, StoreTypeOK, ProcTypes, Moves(p),
           req'[q] = req[q], Stored(q)
    PROVE  Stored(q)'
<1>1. PICK i \in 1 .. Len(wal) :
        wal[i] = [by |-> q, key |-> KeyOf(Lang(q)), val |-> req[q].sender]
  BY DEF Stored
<1>2. i \in 1 .. Len(wal') /\ wal'[i] = wal[i]
  BY <1>1, LogKept
<1>3. QED
  BY <1>1, <1>2 DEF Stored, KeyOf, Lang, keyOwner, kOwner

(* A failing call reports no success: not by a status, a line or a result. *)
LEMMA FailureIsReported ==
    ASSUME NEW p \in Proc, NEW code \in {QERR_INVALID_CONTEXT, QERR_STORAGE},
           NEW next \in {"close", "end"}, ProcTypes, status[p] = NoStatus,
           Fail(p, code, next)
    PROVE  /\ req'[p] = req[p]
           /\ ~Quiet(p)'
           /\ "put owner" \in out'[p] => "put owner" \in out[p]
           /\ pc'[p] = "exit" \/ (pc'[p] = next /\ result'[p] # "ok")
<1>1. code # 0 /\ QERR_OOM # 0 /\ NoStatus # 0
  BY DEF QERR_INVALID_CONTEXT, QERR_STORAGE, QERR_OOM, NoStatus
<1>2. status'[p] # 0
  BY <1>1 DEF Fail, ExitWith, ProcTypes
<1>3. "put owner" \in out'[p] => "put owner" \in out[p]
  <2>1. CASE out' = out
    BY <2>1
  <2>2. CASE Prints(p, "error")
    <3>1. out'[p] = out[p] \cup {"error"}
      BY <2>2 DEF Prints, ProcTypes
    <3>2. QED
      BY <3>1
  <2>3. QED
    BY <2>1, <2>2 DEF Fail, MayPrint
<1>4. pc'[p] = "exit" \/ (pc'[p] = next /\ result'[p] # "ok")
  BY DEF Fail, ExitWith, Goto, ProcTypes
<1>5. QED
  BY <1>2, <1>3, <1>4 DEF Quiet, Fail

----------------------------------------------------------------------------
(* Nothing is reported early: every exit status comes with an exit. *)
LEMMA NothingEarlyStep == Inv /\ [Next]_vars => NothingEarly'
<1> SUFFICES ASSUME Inv, [Next]_vars
             PROVE  NothingEarly'
  OBVIOUS
<1>0. ProcTypes /\ NothingEarly
  BY TypeParts DEF Inv
<1>1. ASSUME NEW p \in Proc, Moves(p), NEW q \in Proc
      PROVE  /\ pc'[q] \in {"idle", "open", "end"} \cup Inside => status'[q] = NoStatus
             /\ pc'[q] \in {"idle", "open"} => out'[q] = {}
  <2>1. CASE q # p
    BY <1>0, <1>1, <2>1, OthersKept DEF NothingEarly
  <2>2. CASE q = p
    <3>1. ASSUME NEW code, NEW next \in {"close", "end"}, Fail(p, code, next),
                 pc[p] \in {"open"} \cup Inside
          PROVE  /\ pc'[p] \notin {"idle", "open"}
                 /\ pc'[p] = "exit" \/ status'[p] = NoStatus
      BY <1>0, <3>1 DEF Fail, ExitWith, Goto, ProcTypes, NothingEarly
    <3>2. CASE Launch(p)
      BY <1>0, <2>2, <3>2 DEF Launch, Goto, ProcTypes, NothingEarly
    <3>3. CASE OpenRejected(p) \/ OpenStoreFails(p)
      BY <2>2, <3>1, <3>3 DEF OpenRejected, OpenStoreFails, Inside
    <3>4. CASE OpenStore(p) \/ Close(p) \/ Exit(p) \/ Kill(p)
      BY <1>0, <2>2, <3>4 DEF OpenStore, Close, Exit, Kill, Goto, ProcTypes, NothingEarly, Inside
    <3>5. CASE Announce(p) \/ PrintLine(p) \/ PrintPanics(p)
      BY <1>0, <2>2, <3>5 DEF Announce, PrintLine, PrintPanics, Goto, ProcTypes, NothingEarly, Inside
    <3>6. CASE PutOwner(p)
      <4>1. CASE Fail(p, QERR_STORAGE, "close")
        BY <2>2, <3>1, <3>6, <4>1 DEF PutOwner, AtPut, Inside
      <4>2. CASE ~Fail(p, QERR_STORAGE, "close")
        BY <1>0, <2>2, <3>6, <4>2
           DEF PutOwner, AtPut, AfterPut, Goto, ProcTypes, NothingEarly, Inside
      <4>3. QED
        BY <4>1, <4>2
    <3>7. CASE GetOwner(p)
      <4>1. CASE Fail(p, QERR_STORAGE, "close")
        BY <2>2, <3>1, <3>7, <4>1 DEF GetOwner, GetFrom, Inside
      <4>2. CASE ~Fail(p, QERR_STORAGE, "close")
        BY <1>0, <2>2, <3>7, <4>2 DEF GetOwner, GetFrom, Goto, ProcTypes, NothingEarly, Inside
      <4>3. QED
        BY <4>1, <4>2
    <3>8. CASE ReturnFromMain(p)
      BY <1>0, <2>2, <3>8 DEF ReturnFromMain, ExitWith, Goto, ProcTypes, Inside
    <3>9. QED
      BY <1>1, <3>2, <3>3, <3>4, <3>5, <3>6, <3>7, <3>8 DEF Moves, Step
  <2>3. QED
    BY <2>1, <2>2
<1>2. CASE PowerLoss
  BY <1>0, <1>2 DEF PowerLoss, ProcTypes, NothingEarly, Running, Inside
<1>3. CASE UNCHANGED vars
  BY <1>0, <1>3 DEF vars, NothingEarly
<1>4. QED
  BY <1>1, <1>2, <1>3 DEF Next, Moves, NothingEarly

(* A process succeeds by storing its record; until then it reports no success. *)
LEMMA SuccessNeedsPut ==
    ASSUME NEW p \in Proc, Inv, Moves(p),
           pc'[p] # "idle", req'[p].action = "init", Succeeded(p)'
    PROVE  \/ Stored(p)'
           \/ pc[p] # "idle" /\ req'[p] = req[p] /\ Succeeded(p)
<1>0. StoreTypeOK /\ ProcTypes /\ NothingEarly
  BY TypeParts DEF Inv
<1>1. NoStatus # 0 /\ Panicked # 0
  BY DEF NoStatus, Panicked
<1>2. ~Launch(p)
  BY <1>0, <1>1 DEF Launch, Goto, ProcTypes, NothingEarly, Succeeded, Quiet
<1>3. ASSUME NEW code \in {QERR_INVALID_CONTEXT, QERR_STORAGE}, NEW next \in {"close", "end"},
             Fail(p, code, next), status[p] = NoStatus, pc[p] # "idle"
      PROVE  req'[p] = req[p] /\ Succeeded(p)
  BY <1>0, <1>3, FailureIsReported DEF Succeeded, Quiet
<1>4. CASE OpenRejected(p) \/ OpenStoreFails(p)
  BY <1>0, <1>3, <1>4 DEF OpenRejected, OpenStoreFails, NothingEarly
<1>5. CASE OpenStore(p) \/ Close(p) \/ Exit(p) \/ Kill(p)
  <2>1. UNCHANGED <<req, result, out, status>>
    BY <1>5 DEF OpenStore, Close, Exit, Kill
  <2>2. pc[p] # "idle" /\ pc'[p] # "print" /\ (pc'[p] \in {"close", "end"} => pc[p] = "close")
    BY <1>0, <1>5 DEF OpenStore, Close, Exit, Kill, Goto, ProcTypes, Running, Inside
  <2>3. QED
    BY <2>1, <2>2 DEF Succeeded, Quiet
<1>6. CASE Announce(p)
  <2>1. pc[p] = "main" /\ pc'[p] = "put" /\ req' = req /\ status' = status
    BY <1>0, <1>6 DEF Announce, Goto, ProcTypes
  <2>2. status[p] = NoStatus
    BY <1>0, <2>1 DEF NothingEarly, Inside
  <2>3. out'[p] = out[p] \cup {"set owner"}
    BY <1>0, <1>6 DEF Announce, Prints, ProcTypes
  <2>4. "put owner" \in out[p]
    BY <1>1, <2>1, <2>2, <2>3 DEF Succeeded, Quiet
  <2>5. QED
    BY <2>1, <2>4 DEF Succeeded
<1>12. CASE PrintLine(p)
  BY <1>12 DEF PrintLine, Succeeded
<1>7. CASE PrintPanics(p)
  BY <1>0, <1>7 DEF PrintPanics, Goto, ProcTypes, Succeeded, Quiet
<1>8. CASE PutOwner(p)
  <2>1. pc[p] # "idle" /\ status[p] = NoStatus
    BY <1>0, <1>8 DEF PutOwner, AtPut, NothingEarly, Inside
  <2>2. CASE Fail(p, QERR_STORAGE, "close")
    BY <1>3, <2>1, <2>2
  <2>3. CASE ~Fail(p, QERR_STORAGE, "close")
    <3>1. AppendRecord(p, KeyOf(Lang(p)), req[p].sender) /\ req' = req
      BY <1>8, <2>3 DEF PutOwner
    <3>2. req[p].sender \in Value /\ KeyOf(Lang(p)) \in Key
      BY <1>0, <2>1, RequestFields
    <3>3. /\ Len(wal') = Len(wal) + 1
          /\ wal'[Len(wal) + 1] = [by |-> p, key |-> KeyOf(Lang(p)), val |-> req[p].sender]
      BY <1>0, <3>1, <3>2, AppendType
    <3>4. Len(wal) + 1 \in 1 .. Len(wal')
      BY <1>0, <3>3 DEF StoreTypeOK
    <3>5. QED
      BY <3>1, <3>3, <3>4 DEF Stored, KeyOf, Lang, keyOwner, kOwner
  <2>4. QED
    BY <2>2, <2>3
<1>9. CASE GetOwner(p)
  <2>1. pc[p] # "idle" /\ status[p] = NoStatus /\ req' = req
    BY <1>0, <1>9 DEF GetOwner, GetFrom, Fail, NothingEarly, Inside
  <2>2. req[p].action # "init"
    BY <1>9 DEF GetOwner, GetFrom
  <2>3. QED
    BY <2>1, <2>2
<1>10. CASE ReturnFromMain(p)
  <2>1. pc[p] = "end" /\ pc'[p] = "exit" /\ req' = req
    BY <1>0, <1>10 DEF ReturnFromMain, ExitWith, Goto, ProcTypes
  <2>2. CASE result[p] = "ok"
    BY <2>1, <2>2 DEF Succeeded
  <2>3. CASE out' = out /\ status'[p] = Panicked
    BY <1>1, <2>1, <2>3 DEF Succeeded, Quiet
  <2>4. CASE Prints(p, "error")
    <3>1. out'[p] = out[p] \cup {"error"}
      BY <1>0, <2>4 DEF Prints, ProcTypes
    <3>2. "put owner" \in out[p]
      BY <2>1, <3>1 DEF Succeeded, Quiet
    <3>3. QED
      BY <2>1, <3>2 DEF Succeeded
  <2>5. QED
    BY <1>0, <1>10, <2>2, <2>3, <2>4 DEF ReturnFromMain, ExitWith, ProcTypes
<1>11. QED
  BY <1>2, <1>4, <1>5, <1>6, <1>7, <1>8, <1>9, <1>10, <1>12 DEF Moves, Step

(* A stored record of a success stays, or the power that takes it takes note. *)
LEMMA SuccessStep == Inv /\ [Next]_vars => SuccessIsStored'
<1> SUFFICES ASSUME Inv, [Next]_vars,
                    NEW q \in Proc, q \notin lost', pc'[q] # "idle",
                    req'[q].action = "init", Succeeded(q)'
             PROVE  Stored(q)'
  BY DEF SuccessIsStored
<1>0. StoreTypeOK /\ ProcTypes /\ SuccessIsStored
  BY TypeParts DEF Inv
<1>1. ASSUME NEW p \in Proc, Moves(p)
      PROVE  Stored(q)'
  <2>1. CASE q # p
    <3>1. pc[q] # "idle" /\ req'[q] = req[q] /\ Succeeded(q)
      BY <1>0, <1>1, <2>1, OthersKept DEF Succeeded, Quiet
    <3>2. q \notin lost
      BY <1>0, <1>1, LogKept
    <3>3. Stored(q)
      BY <1>0, <3>1, <3>2 DEF SuccessIsStored
    <3>4. QED
      BY <1>0, <1>1, <3>1, <3>3, StoredKept
  <2>2. CASE q = p
    <3>1. CASE Stored(p)'
      BY <2>2, <3>1
    <3>2. CASE pc[p] # "idle" /\ req'[p] = req[p] /\ Succeeded(p)
      <4>1. p \notin lost
        BY <1>0, <1>1, <2>2, LogKept
      <4>2. Stored(p)
        BY <1>0, <2>2, <3>2, <4>1 DEF SuccessIsStored
      <4>3. QED
        BY <1>0, <1>1, <2>2, <3>2, <4>2, StoredKept
    <3>3. QED
      BY <1>1, <2>2, <3>1, <3>2, SuccessNeedsPut
  <2>3. QED
    BY <2>1, <2>2
<1>2. CASE PowerLoss
  <2>1. pc[q] # "idle" /\ req' = req /\ Succeeded(q)
    <3>1. UNCHANGED <<req, result, out, status>>
      BY <1>2 DEF PowerLoss
    <3>2. pc[q] # "idle" /\ (pc'[q] \in {"print", "close", "end"} => pc'[q] = pc[q])
      BY <1>0, <1>2 DEF PowerLoss, ProcTypes, Running, Inside
    <3>3. QED
      BY <3>1, <3>2 DEF Succeeded, Quiet
  <2>2. /\ lost \subseteq lost'
        /\ \A i \in 1 .. Len(wal) : wal[i].by \notin lost' =>
             i \in 1 .. Len(wal') /\ wal'[i] = wal[i]
    BY <1>0, <1>2, CutType DEF PowerLoss
  <2>3. PICK i \in 1 .. Len(wal) :
          wal[i] = [by |-> q, key |-> KeyOf(Lang(q)), val |-> req[q].sender]
    BY <1>0, <2>1, <2>2 DEF SuccessIsStored, Stored
  <2>4. i \in 1 .. Len(wal') /\ wal'[i] = wal[i]
    BY <2>2, <2>3
  <2>5. QED
    BY <2>1, <2>3, <2>4 DEF Stored, KeyOf, Lang, keyOwner, kOwner
<1>3. CASE UNCHANGED vars
  <2>1. Stored(q)
    BY <1>0, <1>3 DEF vars, SuccessIsStored, Succeeded, Quiet
  <2>2. QED
    BY <1>3, <2>1 DEF vars, Stored, KeyOf, Lang, keyOwner, kOwner
<1>4. QED
  BY <1>1, <1>2, <1>3 DEF Next, Moves

(* Only the step behind a get makes a call done. *)
LEMMA DoneNeedsPrint ==
    ASSUME NEW p \in Proc, Inv, Moves(p),
           pc'[p] # "idle", req'[p].action = "call", Done(p)'
    PROVE  Answered(p)'
<1>0. ProcTypes /\ NothingEarly /\ CallsAreAnswered
  BY TypeParts DEF Inv
<1>1. NoStatus # 0 /\ Panicked # 0
  BY DEF NoStatus, Panicked
<1>2. ~Launch(p)
  BY <1>0, <1>1 DEF Launch, Goto, ProcTypes, NothingEarly, Done, Quiet
<1>3. ASSUME NEW code \in {QERR_INVALID_CONTEXT, QERR_STORAGE}, NEW next \in {"close", "end"},
             status[p] = NoStatus
      PROVE  ~Fail(p, code, next)
  BY <1>0, <1>3, FailureIsReported DEF Done
<1>4. ~OpenRejected(p) /\ ~OpenStoreFails(p)
  BY <1>0, <1>3 DEF OpenRejected, OpenStoreFails, NothingEarly
<1>5. CASE Close(p) \/ Exit(p) \/ Kill(p)
  <2>1. UNCHANGED <<req, result, answer, out, status>>
    BY <1>5 DEF Close, Exit, Kill
  <2>2. pc[p] # "idle" /\ (pc'[p] \in {"close", "end"} => pc[p] = "close")
    BY <1>0, <1>5 DEF Close, Exit, Kill, Goto, ProcTypes, Running, Inside
  <2>3. QED
    BY <1>0, <2>1, <2>2 DEF CallsAreAnswered, Done, Answered, Quiet, Lang
<1>6. ~OpenStore(p) /\ ~Announce(p) /\ ~PrintPanics(p)
  <2>1. ASSUME pc[p] \in {"open"} \cup Inside, status' = status,
               pc'[p] \in {"main", "put"} \/ result'[p] = "panic"
        PROVE  FALSE
    BY <1>0, <1>1, <2>1 DEF NothingEarly, Done, Quiet
  <2>2. QED
    BY <1>0, <2>1 DEF OpenStore, Announce, PrintPanics, Goto, ProcTypes, Inside
<1>7. ~PutOwner(p)
  <2>1. PutOwner(p) => status[p] = NoStatus /\ req' = req /\ req[p].action = "init"
    BY <1>0 DEF PutOwner, AtPut, Fail, NothingEarly, Inside
  <2>2. QED
    BY <2>1
<1>8. ~GetOwner(p)
  <2>1. SUFFICES ASSUME GetOwner(p) PROVE FALSE
    OBVIOUS
  <2>2. status[p] = NoStatus
    BY <1>0, <2>1 DEF GetOwner, GetFrom, NothingEarly, Inside
  <2>3. ~Fail(p, QERR_STORAGE, "close")
    BY <1>3, <2>2
  <2>4. pc'[p] = "print" /\ status' = status
    BY <1>0, <2>1, <2>3 DEF GetOwner, GetFrom, Goto, ProcTypes
  <2>5. QED
    BY <1>1, <2>2, <2>4 DEF Done, Quiet
<1>9. CASE PrintLine(p)
  <2>1. pc[p] = "print" /\ UNCHANGED <<req, answer>> /\ MayPrint(p, "get owner")
    BY <1>9 DEF PrintLine
  <2>2. answer[p] # None
    BY <1>0, <2>1 DEF CallsAreAnswered
  <2>3. Lang(p) = "rust" => "get owner" \in out'[p]
    BY <1>0, <2>1 DEF MayPrint, Prints, ProcTypes
  <2>4. QED
    BY <2>1, <2>2, <2>3 DEF Answered, Lang
<1>10. CASE ReturnFromMain(p)
  <2>1. pc[p] = "end" /\ pc'[p] = "exit" /\ UNCHANGED <<req, answer>>
    BY <1>0, <1>10 DEF ReturnFromMain, ExitWith, Goto, ProcTypes
  <2>2. CASE result[p] = "ok" /\ out' = out
    BY <1>0, <2>1, <2>2 DEF CallsAreAnswered, Done, Answered, Lang
  <2>3. CASE status'[p] = Panicked
    BY <1>1, <2>1, <2>3 DEF Done, Quiet
  <2>4. CASE Prints(p, "error")
    <3>1. "error" \in out'[p]
      BY <1>0, <2>4 DEF Prints, ProcTypes
    <3>2. QED
      BY <2>1, <3>1 DEF Done, Quiet
  <2>5. QED
    BY <1>0, <1>10, <2>2, <2>3, <2>4 DEF ReturnFromMain, ExitWith, ProcTypes
<1>11. QED
  BY <1>2, <1>4, <1>5, <1>6, <1>7, <1>8, <1>9, <1>10 DEF Moves, Step

(* A call that prints has read an owner. *)
LEMMA PrintNeedsAnswer ==
    ASSUME NEW p \in Proc, Inv, Moves(p), req'[p].action = "call", pc'[p] = "print"
    PROVE  answer'[p] # None
<1>0. ProcTypes
  BY TypeParts DEF Inv
<1>1. ASSUME NEW code, NEW next \in {"close", "end"}
      PROVE  ~Fail(p, code, next)
  BY <1>0 DEF Fail, ExitWith, Goto, ProcTypes
<1>2. PutOwner(p) \/ GetOwner(p)
  BY <1>0, <1>1 DEF Moves, Step, Launch, OpenRejected, OpenStoreFails, OpenStore, Announce,
       PrintLine, PrintPanics, Close, ReturnFromMain, Exit, Kill, ExitWith, Goto, ProcTypes
<1>3. ~PutOwner(p)
  <2>1. PutOwner(p) => req' = req /\ req[p].action = "init"
    BY DEF PutOwner, AtPut, Fail
  <2>2. QED
    BY <2>1
<1>4. QED
  BY <1>0, <1>1, <1>2, <1>3 DEF GetOwner, GetFrom, ProcTypes

(* No other step makes a call done, and what is printed stays printed. *)
LEMMA AnswersStep == Inv /\ [Next]_vars => CallsAreAnswered'
<1> SUFFICES ASSUME Inv, [Next]_vars,
                    NEW q \in Proc, pc'[q] # "idle", req'[q].action = "call"
             PROVE  /\ pc'[q] = "print" => answer'[q] # None
                    /\ Done(q)' => Answered(q)'
  BY DEF CallsAreAnswered
<1>0. ProcTypes /\ CallsAreAnswered
  BY TypeParts DEF Inv
<1>1. ASSUME NEW p \in Proc, Moves(p)
      PROVE  /\ pc'[q] = "print" => answer'[q] # None
             /\ Done(q)' => Answered(q)'
  <2>1. CASE q # p
    BY <1>0, <1>1, <2>1, OthersKept DEF CallsAreAnswered, Done, Answered, Quiet, Lang
  <2>2. CASE q = p
    BY <1>1, <2>2, DoneNeedsPrint, PrintNeedsAnswer
  <2>3. QED
    BY <2>1, <2>2
<1>2. CASE PowerLoss
  <2>1. UNCHANGED <<req, result, answer, out, status>>
    BY <1>2 DEF PowerLoss
  <2>2. /\ pc[q] # "idle"
        /\ pc'[q] \in {"print", "close", "end"} => pc'[q] = pc[q]
    BY <1>0, <1>2 DEF PowerLoss, ProcTypes, Running, Inside
  <2>3. QED
    BY <1>0, <2>1, <2>2 DEF CallsAreAnswered, Done, Answered, Quiet, Lang
<1>3. CASE UNCHANGED vars
  BY <1>0, <1>3 DEF vars, CallsAreAnswered, Done, Answered, Quiet, Lang
<1>4. QED
  BY <1>1, <1>2, <1>3 DEF Next, Moves

----------------------------------------------------------------------------
(* No process has started and nothing is stored at first. *)
LEMMA InitInv == Init => Inv
<1> SUFFICES ASSUME Init
             PROVE  Inv
  OBVIOUS
<1>1. StoreTypeOK
  BY DEF Init, StoreInit, StoreTypeOK
<1>2. ProcTypes
  BY DEF Init, ProcTypes, Labels, Lines, Statuses
<1>3. \A p \in Proc : pc[p] = "idle" /\ status[p] = NoStatus /\ out[p] = {}
  BY DEF Init
<1>4. NothingEarly /\ SuccessIsStored /\ CallsAreAnswered
  BY <1>3 DEF NothingEarly, SuccessIsStored, CallsAreAnswered
<1>5. QED
  BY <1>1, <1>2, <1>4, TypeParts DEF Inv

(* Inv is an invariant of the contracts. *)
LEMMA Invariance == Spec => []Inv
<1>1. Inv /\ [Next]_vars => Inv'
  BY TypeStep, NothingEarlyStep, SuccessStep, AnswersStep DEF Inv
<1>2. QED
  BY <1>1, InitInv, PTL DEF Spec

(* Every variable of the contracts and of their store keeps its type. *)
THEOREM TypeCorrect == Spec => []TypeOK
<1>1. Inv => TypeOK
  BY DEF Inv
<1>2. QED
  BY <1>1, Invariance, PTL

(* An init that prints "put owner" or ends quietly has stored its sender,  *)
(* unless a power loss took the record; and a call that ends quietly has   *)
(* read an owner, and in Rust has printed it.                              *)
THEOREM ReportsTrue == Spec => []ReportsAreTrue
<1>1. Inv => ReportsAreTrue
  <2> SUFFICES ASSUME Inv, NEW p \in Proc \ lost
               PROVE  /\ (Quiet(p) \/ "put owner" \in out[p]) /\ req[p].action = "init" =>
                           \E i \in 1 .. Len(wal) :
                               wal[i] = [by |-> p, key |-> KeyOf(Lang(p)), val |-> req[p].sender]
                      /\ Quiet(p) /\ req[p].action = "call" => Answered(p)
    BY DEF ReportsAreTrue, Answered
  <2>1. pc[p] = "idle" => ~Quiet(p) /\ "put owner" \notin out[p]
    <3>1. NoStatus # 0
      BY DEF NoStatus
    <3>2. QED
      BY <3>1 DEF Inv, NothingEarly, Quiet
  <2>2. CASE pc[p] = "idle"
    BY <2>1, <2>2
  <2>3. CASE pc[p] # "idle"
    BY <2>3 DEF Inv, SuccessIsStored, Succeeded, Stored, CallsAreAnswered, Done
  <2>4. QED
    BY <2>2, <2>3
<1>2. QED
  BY <1>1, Invariance, PTL

----------------------------------------------------------------------------
(***************************************************************************)
(* The owner contracts implement OwnerRegister once per key.               *)
(*                                                                         *)
(* A step of a process is one of the register only because of what Steady  *)
(* adds to Inv: a process with an open context has the lock, so nobody     *)
(* else puts; a process that has yet to put has no record in the log; and  *)
(* no process that runs has lost one.                                      *)
(***************************************************************************)

(* The process has neither put nor got anything. *)
Fresh == {"idle", "open", "main", "put"}

HoldsLock == \A p \in Proc : pc[p] \in Inside => lock = p

FirstPut == \A p \in Proc : pc[p] \in Fresh => \A i \in 1 .. Len(wal) : wal[i].by # p

NotLost == \A p \in Proc : pc[p] \in {"idle"} \cup Running => p \notin lost

Asked ==
    \A p \in Proc :
        /\ pc[p] \in Fresh => answer[p] = None
        /\ answer[p] # None => pc[p] # "idle" /\ req[p].action = "call"

Steady == Inv /\ HoldsLock /\ FirstPut /\ NotLost /\ Asked

----------------------------------------------------------------------------
(* What a failing call leaves alone. *)
LEMMA FailMoves ==
    ASSUME NEW p \in Proc, NEW code, NEW next, ProcTypes, Fail(p, code, next)
    PROVE  /\ pc'[p] \in {"exit", next} /\ \A q \in Proc : q # p => pc'[q] = pc[q]
           /\ UNCHANGED <<req, answer>>
BY DEF Fail, ExitWith, Goto, ProcTypes

(* How the program counter of a process moves. *)
LEMMA PcMoves ==
    ASSUME NEW p \in Proc, ProcTypes, Moves(p)
    PROVE  /\ \A q \in Proc : q # p => pc'[q] = pc[q]
           /\ pc'[p] # "idle"
           /\ pc'[p] = "open" => Launch(p)
           /\ pc'[p] \in Inside => pc[p] \in Inside \/ OpenStore(p)
           /\ pc'[p] \in {"main", "put"} => OpenStore(p) \/ Announce(p)
<1>1. CASE Launch(p)
  BY <1>1 DEF Launch, Goto, ProcTypes, Inside
<1>2. CASE OpenRejected(p) \/ OpenStoreFails(p)
  BY <1>2, FailMoves DEF OpenRejected, OpenStoreFails, Inside
<1>3. CASE OpenStore(p) \/ Close(p) \/ Exit(p) \/ Kill(p)
  BY <1>3 DEF OpenStore, Close, Exit, Kill, Goto, ProcTypes, Inside
<1>4. CASE Announce(p) \/ PrintLine(p) \/ PrintPanics(p)
  BY <1>4 DEF Announce, PrintLine, PrintPanics, Goto, ProcTypes, Inside
<1>5. CASE PutOwner(p)
  <2>1. pc[p] \in Inside
    BY <1>5 DEF PutOwner, AtPut, Inside
  <2>2. CASE Fail(p, QERR_STORAGE, "close")
    BY <2>1, <2>2, FailMoves DEF Inside
  <2>3. CASE Goto(p, AfterPut(p))
    BY <2>1, <2>3 DEF Goto, AfterPut, ProcTypes, Inside
  <2>4. QED
    BY <1>5, <2>2, <2>3 DEF PutOwner
<1>6. CASE GetOwner(p)
  <2>1. pc[p] \in Inside
    BY <1>6 DEF GetOwner, GetFrom, Inside
  <2>2. CASE Fail(p, QERR_STORAGE, "close")
    BY <2>1, <2>2, FailMoves DEF Inside
  <2>3. CASE Goto(p, "print")
    BY <2>1, <2>3 DEF Goto, ProcTypes, Inside
  <2>4. QED
    BY <1>6, <2>2, <2>3 DEF GetOwner, GetFrom
<1>7. CASE ReturnFromMain(p)
  BY <1>7 DEF ReturnFromMain, ExitWith, Goto, ProcTypes, Inside
<1>8. QED
  BY <1>1, <1>2, <1>3, <1>4, <1>5, <1>6, <1>7 DEF Moves, Step

(* How the lock moves, and what has moved it. *)
Unlocks(p) == lock' = IF lock = p THEN NoProc ELSE lock

(* A process takes a free lock, leaves its own, or leaves the lock alone. *)
LEMMA LockMoves ==
    ASSUME NEW p \in Proc, Moves(p)
    PROVE  \/ OpenStore(p) /\ lock = NoProc /\ lock' = p
           \/ (Close(p) \/ Exit(p) \/ Kill(p)) /\ Unlocks(p)
           \/ ~OpenStore(p) /\ lock' = lock
<1>1. OpenStore(p) => lock = NoProc /\ lock' = p
  BY DEF OpenStore, LockStore
<1>2. CASE Close(p) \/ Exit(p) \/ Kill(p)
  BY <1>2 DEF Close, Exit, Kill, UnlockStore, Unlocks
<1>3. CASE Launch(p) \/ OpenRejected(p) \/ OpenStoreFails(p) \/ Announce(p) \/ PutOwner(p)
             \/ GetOwner(p) \/ PrintLine(p) \/ PrintPanics(p) \/ ReturnFromMain(p)
  <2>1. lock' = lock
    BY <1>3 DEF Launch, OpenRejected, OpenStoreFails, Announce, PutOwner, GetOwner, GetFrom,
         PrintLine, PrintPanics, ReturnFromMain, AppendRecord, storeVars
  <2>2. QED
    BY <1>1, <2>1
<1>4. QED
  BY <1>1, <1>2, <1>3 DEF Moves, Step

(* A process leaves an open context only with the lock. *)
LEMMA HoldsLockStep == Steady /\ [Next]_vars => HoldsLock'
<1> SUFFICES ASSUME Steady, [Next]_vars
             PROVE  HoldsLock'
  OBVIOUS
<1>0. ProcTypes /\ HoldsLock /\ NoProc \notin Proc
  BY TypeParts, StoreAssumption DEF Steady, Inv
<1>1. ASSUME NEW p \in Proc, Moves(p), NEW q \in Proc, pc'[q] \in Inside
      PROVE  lock' = q
  <2>1. CASE q # p
    BY <1>0, <1>1, <2>1, PcMoves, LockMoves DEF HoldsLock, Unlocks
  <2>2. CASE q = p
    <3>1. CASE Close(p) \/ Exit(p) \/ Kill(p)
      BY <1>0, <1>1, <2>2, <3>1 DEF Close, Exit, Kill, Goto, ProcTypes, Inside
    <3>2. CASE ~(Close(p) \/ Exit(p) \/ Kill(p))
      BY <1>0, <1>1, <2>2, <3>2, PcMoves, LockMoves DEF HoldsLock
    <3>3. QED
      BY <3>1, <3>2
  <2>3. QED
    BY <2>1, <2>2
<1>2. CASE PowerLoss
  BY <1>0, <1>2 DEF PowerLoss, ProcTypes, HoldsLock, Running, Inside
<1>3. CASE UNCHANGED vars
  BY <1>0, <1>3 DEF vars, HoldsLock
<1>4. QED
  BY <1>1, <1>2, <1>3 DEF Next, Moves, HoldsLock

(* What a step of a process does to the log: at most it puts its own record. *)
LEMMA LogMoves ==
    ASSUME NEW p \in Proc, ProcTypes, Moves(p)
    PROVE  /\ lost' = lost
           /\ \/ wal' = wal
              \/ /\ PutOwner(p) /\ pc[p] \in {"main", "put"} /\ pc'[p] \notin Fresh
                 /\ AppendRecord(p, KeyOf(Lang(p)), req[p].sender)
<1>1. CASE PutOwner(p)
  <2>1. pc[p] \in {"main", "put"}
    BY <1>1 DEF PutOwner, AtPut
  <2>2. pc'[p] \notin Fresh
    <3>1. CASE Goto(p, AfterPut(p))
      BY <3>1 DEF Goto, AfterPut, ProcTypes, Fresh
    <3>2. CASE Fail(p, QERR_STORAGE, "close")
      BY <3>2, FailMoves DEF Fresh
    <3>3. QED
      BY <1>1, <3>1, <3>2 DEF PutOwner
  <2>3. UNCHANGED storeVars \/ AppendRecord(p, KeyOf(Lang(p)), req[p].sender)
    BY <1>1 DEF PutOwner
  <2>4. QED
    BY <1>1, <2>1, <2>2, <2>3 DEF storeVars, AppendRecord
<1>2. CASE ~PutOwner(p)
  BY <1>2 DEF Moves, Step, Launch, Kill, OpenRejected, OpenStoreFails, OpenStore,
       LockStore, Announce, GetOwner, GetFrom, PrintLine, PrintPanics, Close,
       ReturnFromMain, Exit, UnlockStore, storeVars
<1>3. QED
  BY <1>1, <1>2

(* A process that has yet to put has no record in the log. *)
LEMMA FirstPutStep == Steady /\ [Next]_vars => FirstPut'
<1> SUFFICES ASSUME Steady, [Next]_vars
             PROVE  FirstPut'
  OBVIOUS
<1>0. StoreTypeOK /\ ProcTypes /\ FirstPut
  BY TypeParts DEF Steady, Inv
<1>1. ASSUME NEW p \in Proc, Moves(p), NEW q \in Proc, pc'[q] \in Fresh, NEW i \in 1 .. Len(wal')
      PROVE  wal'[i].by # q
  <2>1. pc[q] \in Fresh
    <3>1. CASE q = p
      BY <1>1, <1>0, <3>1, PcMoves DEF Fresh, Launch, OpenStore, Announce
    <3>2. CASE q # p
      BY <1>1, <1>0, <3>2, PcMoves
    <3>3. QED
      BY <3>1, <3>2
  <2>2. CASE wal' = wal
    BY <1>0, <1>1, <2>1, <2>2 DEF FirstPut
  <2>3. CASE AppendRecord(p, KeyOf(Lang(p)), req[p].sender) /\ pc[p] \in {"main", "put"} /\ q # p
    <3>1. req[p].sender \in Value /\ KeyOf(Lang(p)) \in Key
      BY <1>0, <2>3, RequestFields
    <3>2. /\ Len(wal') = Len(wal) + 1 /\ Len(wal) \in Nat
          /\ wal'[Len(wal) + 1] = [by |-> p, key |-> KeyOf(Lang(p)), val |-> req[p].sender]
          /\ \A j \in 1 .. Len(wal) : wal'[j] = wal[j]
      BY <1>0, <2>3, <3>1, AppendType DEF StoreTypeOK
    <3>3. CASE i = Len(wal) + 1
      BY <2>3, <3>2, <3>3
    <3>4. CASE i \in 1 .. Len(wal)
      BY <1>0, <2>1, <3>2, <3>4 DEF FirstPut
    <3>5. QED
      BY <3>2, <3>3, <3>4
  <2>4. QED
    BY <1>0, <1>1, <2>2, <2>3, LogMoves
<1>2. CASE PowerLoss
  <2>1. \A q \in Proc : pc'[q] \in Fresh => pc[q] \in Fresh
    BY <1>0, <1>2 DEF PowerLoss, ProcTypes, Fresh
  <2>2. PICK n \in durable .. Len(wal) : wal' = SubSeq(wal, 1, n)
    BY <1>2 DEF PowerLoss, CutLog
  <2>3. n \in 0 .. Len(wal) /\ wal \in Seq(Record)
    BY <1>0, <2>2 DEF StoreTypeOK
  <2>4. Len(wal') = n /\ \A i \in 1 .. n : wal'[i] = wal[i] /\ i \in 1 .. Len(wal)
    BY <2>2, <2>3
  <2>5. QED
    BY <1>0, <2>1, <2>4 DEF FirstPut
<1>3. CASE UNCHANGED vars
  BY <1>0, <1>3 DEF vars, FirstPut
<1>4. QED
  BY <1>1, <1>2, <1>3 DEF Next, Moves, FirstPut

(* The power takes no record of a process that runs on, or is yet to run. *)
LEMMA NotLostStep == Steady /\ [Next]_vars => NotLost'
<1> SUFFICES ASSUME Steady, [Next]_vars
             PROVE  NotLost'
  OBVIOUS
<1>0. StoreTypeOK /\ ProcTypes /\ NotLost /\ FirstPut
  BY TypeParts DEF Steady, Inv
<1>1. ASSUME NEW p \in Proc, Moves(p), NEW q \in Proc, pc'[q] \in {"idle"} \cup Running
      PROVE  q \notin lost'
  <2>1. lost' = lost
    BY <1>0, <1>1, LogMoves
  <2>2. CASE q # p
    BY <1>0, <1>1, <2>1, <2>2, PcMoves DEF NotLost
  <2>3. CASE q = p
    <3>1. pc[p] \in {"idle"} \cup Running
      BY <1>1 DEF Moves, Step, Launch, Kill, OpenRejected, OpenStoreFails, OpenStore, Announce,
           PutOwner, AtPut, GetOwner, GetFrom, PrintLine, PrintPanics, Close, ReturnFromMain,
           Exit, Running, Inside
    <3>2. QED
      BY <1>0, <2>1, <2>3, <3>1 DEF NotLost
  <2>4. QED
    BY <2>2, <2>3
<1>2. CASE PowerLoss
  <2>1. \A q \in Proc : pc'[q] \in {"idle"} \cup Running => pc[q] = "idle"
    BY <1>0, <1>2 DEF PowerLoss, ProcTypes, Running, Inside
  <2>2. PICK n \in durable .. Len(wal) : lost' = lost \cup {wal[i].by : i \in n + 1 .. Len(wal)}
    BY <1>2 DEF PowerLoss, CutLog
  <2>3. n + 1 .. Len(wal) \subseteq 1 .. Len(wal)
    BY <1>0, <2>2 DEF StoreTypeOK
  <2>4. QED
    BY <1>0, <2>1, <2>2, <2>3 DEF NotLost, FirstPut, Fresh
<1>3. CASE UNCHANGED vars
  BY <1>0, <1>3 DEF vars, NotLost
<1>4. QED
  BY <1>1, <1>2, <1>3 DEF Next, Moves, NotLost

(* Only a get gives an answer, and only a call gets. *)
LEMMA AnswerMoves ==
    ASSUME NEW p \in Proc, ProcTypes, Moves(p)
    PROVE  /\ UNCHANGED req \/ (Launch(p) /\ \A q \in Proc : q # p => req'[q] = req[q])
           /\ \/ UNCHANGED answer
              \/ /\ pc[p] = "main" /\ req[p].action = "call" /\ pc'[p] = "print"
                 /\ UNCHANGED <<storeVars, req, out, status>>
                 /\ Newest(wal, KeyOf(Lang(p))) # None
                 /\ answer' = [answer EXCEPT ![p] = Newest(wal, KeyOf(Lang(p)))]
<1>1. CASE GetOwner(p)
  <2>1. CASE Fail(p, QERR_STORAGE, "close")
    BY <2>1 DEF Fail
  <2>2. CASE ~Fail(p, QERR_STORAGE, "close")
    BY <1>1, <2>2 DEF GetOwner, GetFrom, Goto, ProcTypes
  <2>3. QED
    BY <2>1, <2>2
<1>2. CASE Launch(p)
  BY <1>2 DEF Launch, ProcTypes
<1>3. CASE ~GetOwner(p) /\ ~Launch(p)
  BY <1>3 DEF Moves, Step, Kill, OpenRejected, OpenStoreFails, OpenStore, Announce, PutOwner,
       PrintLine, PrintPanics, Close, ReturnFromMain, Exit, Fail
<1>4. QED
  BY <1>1, <1>2, <1>3

(* A process has no answer until it has asked. *)
LEMMA AskedStep == Steady /\ [Next]_vars => Asked'
<1> SUFFICES ASSUME Steady, [Next]_vars
             PROVE  Asked'
  OBVIOUS
<1>0. ProcTypes /\ Asked
  BY TypeParts DEF Steady, Inv
<1>1. ASSUME NEW p \in Proc, Moves(p), NEW q \in Proc
      PROVE  /\ pc'[q] \in Fresh => answer'[q] = None
             /\ answer'[q] # None => pc'[q] # "idle" /\ req'[q].action = "call"
  <2>1. pc'[q] \in Fresh => pc[q] \in Fresh
    BY <1>0, <1>1, PcMoves DEF Fresh, Launch, OpenStore, Announce
  <2>2. pc[q] # "idle" => pc'[q] # "idle"
    BY <1>0, <1>1, PcMoves
  <2>3. CASE UNCHANGED <<answer, req>>
    BY <1>0, <2>1, <2>2, <2>3 DEF Asked
  <2>4. CASE UNCHANGED answer /\ Launch(p) /\ \A r \in Proc : r # p => req'[r] = req[r]
    <3>1. pc[p] = "idle" /\ answer[p] = None
      BY <1>0, <2>4 DEF Launch, Asked, Fresh
    <3>2. QED
      BY <1>0, <2>1, <2>2, <2>4, <3>1 DEF Asked
  <2>5. CASE /\ pc[p] = "main" /\ req[p].action = "call" /\ pc'[p] = "print" /\ UNCHANGED req
             /\ answer' = [answer EXCEPT ![p] = Newest(wal, KeyOf(Lang(p)))]
    <3>1. CASE q = p
      BY <2>5, <3>1 DEF Fresh
    <3>2. CASE q # p
      BY <1>0, <2>1, <2>2, <2>5, <3>2 DEF Asked, ProcTypes
    <3>3. QED
      BY <3>1, <3>2
  <2>6. QED
    BY <1>0, <1>1, <2>3, <2>4, <2>5, AnswerMoves
<1>2. CASE PowerLoss
  <2>1. ASSUME NEW q \in Proc
        PROVE  /\ pc'[q] \in Fresh => pc[q] \in Fresh
               /\ pc[q] # "idle" => pc'[q] # "idle"
    BY <1>0, <1>2 DEF PowerLoss, ProcTypes, Fresh
  <2>2. req' = req /\ answer' = answer
    BY <1>2 DEF PowerLoss
  <2>3. QED
    BY <1>0, <2>1, <2>2 DEF Asked
<1>3. CASE UNCHANGED vars
  BY <1>0, <1>3 DEF vars, Asked
<1>4. QED
  BY <1>1, <1>2, <1>3 DEF Next, Moves, Asked

(* Steady holds at first and stays. *)
LEMMA SteadyInvariance == Spec => []Steady
<1>1. Init => HoldsLock /\ FirstPut /\ NotLost /\ Asked
  BY DEF Init, StoreInit, HoldsLock, FirstPut, NotLost, Asked, Inside
<1>2. Inv /\ [Next]_vars => Inv'
  BY TypeStep, NothingEarlyStep, SuccessStep, AnswersStep DEF Inv
<1>3. Steady /\ [Next]_vars => Steady'
  BY <1>2, HoldsLockStep, FirstPutStep, NotLostStep, AskedStep DEF Steady
<1>4. Init => Steady
  BY <1>1, InitInv DEF Steady
<1>5. QED
  BY <1>3, <1>4, PTL DEF Spec

----------------------------------------------------------------------------
(***************************************************************************)
(* The register of key k.  TLC checks the two that there are, RegisterOfC  *)
(* and RegisterOfCppAndRust, one at a time.                                *)
(***************************************************************************)
Register(k) == INSTANCE OwnerRegister WITH
    versions <- Versions(k), safe <- Safe(k), holder <- lock, report <- Reports(k)

Version(w, i) == [at |-> i, by |-> w[i].by, val |-> w[i].val]

(* A version is a record of the key and its place in the log. *)
LEMMA VersionOf ==
    ASSUME NEW k
    PROVE  /\ \A i \in 1 .. Len(wal) : wal[i].key = k => Version(wal, i) \in Versions(k)
           /\ \A v \in Versions(k) : \E i \in 1 .. Len(wal) : wal[i].key = k /\ v = Version(wal, i)
BY DEF Versions, Version

(* A put adds a version to its key, behind all others, and none elsewhere. *)
LEMMA PutAdds ==
    ASSUME NEW p \in Proc, NEW key \in Key, NEW val \in Value, NEW k, StoreTypeOK,
           AppendRecord(p, key, val)
    PROVE  /\ Versions(k)' = IF key = k
                             THEN Versions(k) \cup {[at |-> Len(wal) + 1, by |-> p, val |-> val]}
                             ELSE Versions(k)
           /\ Safe(k)' = Safe(k)
           /\ \A v \in Versions(k) : v.at < Len(wal) + 1
<1> DEFINE new == [at |-> Len(wal) + 1, by |-> p, val |-> val]
<1>1. /\ Len(wal') = Len(wal) + 1 /\ Len(wal) \in Nat
      /\ wal'[Len(wal) + 1] = [by |-> p, key |-> key, val |-> val]
      /\ \A i \in 1 .. Len(wal) : wal'[i] = wal[i]
  BY AppendType DEF StoreTypeOK
<1>2. durable' = durable /\ durable \in 0 .. Len(wal)
  BY DEF AppendRecord, StoreTypeOK
<1>3. ASSUME NEW i \in 1 .. Len(wal)
      PROVE  Version(wal', i) = Version(wal, i) /\ wal'[i].key = wal[i].key
  BY <1>1 DEF Version
<1>4. Version(wal', Len(wal) + 1) = new /\ wal'[Len(wal) + 1].key = key
  BY <1>1 DEF Version
<1>5. \A v \in Versions(k) : v.at < Len(wal) + 1
  <2>1. ASSUME NEW i \in 1 .. Len(wal)
        PROVE  Version(wal, i).at < Len(wal) + 1
    BY <1>1 DEF Version
  <2>2. QED
    BY <2>1, VersionOf
<1>6. \A v : v \in Versions(k)' <=> v \in Versions(k) \/ (key = k /\ v = new)
  <2> HIDE DEF new
  <2>1. \A v : v \in Versions(k)' <=>
                \E i \in 1 .. Len(wal) + 1 : wal'[i].key = k /\ v = Version(wal', i)
    BY <1>1 DEF Versions, Version
  <2>2. \A v : v \in Versions(k) <=> \E i \in 1 .. Len(wal) : wal[i].key = k /\ v = Version(wal, i)
    BY DEF Versions, Version
  <2>3. 1 .. Len(wal) + 1 = 1 .. Len(wal) \cup {Len(wal) + 1}
    BY <1>1
  <2>4. QED
    BY <1>3, <1>4, <2>1, <2>2, <2>3
<1>7. Safe(k)' = Safe(k)
  <2>1. \A v : v \in Safe(k)' <=> v \in Versions(k)' /\ v.at <= durable
    BY <1>2 DEF Safe
  <2>2. \A v : v \in Safe(k) <=> v \in Versions(k) /\ v.at <= durable
    BY DEF Safe
  <2>3. ~(new.at <= durable)
    BY <1>1, <1>2
  <2>4. QED
    BY <1>6, <2>1, <2>2, <2>3
<1>8. QED
  BY <1>5, <1>6, <1>7

(* The newest value of a key is that of its last version. *)
LEMMA NewestVersion ==
    ASSUME NEW k, StoreTypeOK, Newest(wal, k) # None
    PROVE  \E v \in Versions(k) : v.val = Newest(wal, k) /\ \A w \in Versions(k) : w.at <= v.at
<1>1. PICK n \in LastPut(wal, k) : Newest(wal, k) = wal[n].val
  BY DEF Newest
<1>2. n \in 1 .. Len(wal) /\ wal[n].key = k /\ \A j \in n + 1 .. Len(wal) : wal[j].key # k
  BY <1>1 DEF LastPut
<1>3. ASSUME NEW w \in Versions(k)
      PROVE  w.at <= n
  <2>1. PICK i \in 1 .. Len(wal) : wal[i].key = k /\ w = Version(wal, i)
    BY VersionOf
  <2>2. Len(wal) \in Nat
    BY DEF StoreTypeOK
  <2>3. QED
    BY <1>2, <2>1, <2>2 DEF Version
<1>4. Version(wal, n) \in Versions(k)
  BY <1>2, VersionOf
<1>5. QED
  BY <1>1, <1>3, <1>4 DEF Version

(* A power loss takes the versions behind some place of the log. *)
LEMMA PowerTakes ==
    ASSUME NEW k, StoreTypeOK, CutLog
    PROVE  \E n \in Nat :
             /\ \A v : v \in Versions(k)' <=> v \in Versions(k) /\ v.at <= n
             /\ Safe(k)' = Versions(k)' /\ Safe(k) \subseteq Versions(k)'
             /\ \A v \in Versions(k) : v.at \in Nat
<1>1. PICK n \in durable .. Len(wal) : wal' = SubSeq(wal, 1, n) /\ durable' = n
  BY DEF CutLog
<1>2. durable \in 0 .. Len(wal) /\ Len(wal) \in Nat /\ wal \in Seq(Record) /\ n \in 0 .. Len(wal)
  BY <1>1 DEF StoreTypeOK
<1>3. Len(wal') = n /\ \A i \in 1 .. n : wal'[i] = wal[i]
  BY <1>1, <1>2
<1>4. ASSUME NEW i \in 1 .. n
      PROVE  Version(wal', i) = Version(wal, i) /\ wal'[i].key = wal[i].key
  BY <1>3 DEF Version
<1>5. \A i : Version(wal, i).at = i
  BY DEF Version
<1>6. \A v : v \in Versions(k)' <=> \E i \in 1 .. n : wal'[i].key = k /\ v = Version(wal', i)
  BY <1>3 DEF Versions, Version
<1>7. \A v : v \in Versions(k) <=> \E i \in 1 .. Len(wal) : wal[i].key = k /\ v = Version(wal, i)
  BY DEF Versions, Version
<1>8. \A i \in 1 .. Len(wal) : i \in 1 .. n <=> i <= n
  BY <1>2
<1>9. 1 .. n \subseteq 1 .. Len(wal) /\ 1 .. Len(wal) \subseteq Nat
  BY <1>2
<1>10. \A v : v \in Versions(k)' <=> v \in Versions(k) /\ v.at <= n
  <2>1. ASSUME NEW v \in Versions(k)'
        PROVE  v \in Versions(k) /\ v.at <= n
    <3>1. PICK i \in 1 .. n : wal'[i].key = k /\ v = Version(wal', i)
      BY <1>6
    <3>2. QED
      BY <1>4, <1>5, <1>7, <1>8, <1>9, <3>1
  <2>2. ASSUME NEW v \in Versions(k), v.at <= n
        PROVE  v \in Versions(k)'
    <3>1. PICK i \in 1 .. Len(wal) : wal[i].key = k /\ v = Version(wal, i)
      BY <1>7
    <3>2. i \in 1 .. n
      BY <1>5, <1>8, <2>2, <3>1
    <3>3. QED
      BY <1>4, <1>6, <3>1, <3>2
  <2>3. QED
    BY <2>1, <2>2
<1>11. \A v \in Versions(k) : v.at \in Nat
  BY <1>5, <1>7, <1>9
<1>12. Safe(k)' = Versions(k)'
  BY <1>1, <1>10 DEF Safe
<1>13. Safe(k) \subseteq Versions(k)'
  BY <1>1, <1>2, <1>10, <1>11 DEF Safe
<1>14. QED
  BY <1>2, <1>10, <1>11, <1>12, <1>13

----------------------------------------------------------------------------
(* The process has said that it stored its owner, if it was to store one. *)
Told(p) == Quiet(p) \/ "put owner" \in out[p]

(* Who said what depends on nothing else. *)
LEMMA SameReports ==
    ASSUME NEW k, UNCHANGED <<req, answer>>, \A q \in Proc : Told(q)' <=> Told(q)
    PROVE  Reports(k)' = Reports(k)
<1>1. ASSUME NEW q \in Proc
      PROVE  Report(q)' = Report(q) /\ (Uses(q, k)' <=> Uses(q, k))
  <2>1. (Quiet(q) \/ "put owner" \in out[q])' <=> (Quiet(q) \/ "put owner" \in out[q])
    BY DEF Told
  <2>2. req'[q] = req[q] /\ answer'[q] = answer[q] /\ KeyOf(Lang(q))' = KeyOf(Lang(q))
    BY DEF KeyOf, Lang, keyOwner, kOwner
  <2>3. QED
    BY <2>1, <2>2 DEF Report, Uses
<1>2. QED
  BY <1>1 DEF Reports

(* A process that does not move says nothing. *)
LEMMA OthersSilent ==
    ASSUME NEW p \in Proc, ProcTypes, Moves(p), NEW q \in Proc, q # p
    PROVE  Told(q)' <=> Told(q)
BY OthersKept DEF Told, Quiet

(* A failing call says nothing. *)
LEMMA FailsSilently ==
    ASSUME NEW p \in Proc, NEW code \in {QERR_INVALID_CONTEXT, QERR_STORAGE},
           NEW next \in {"close", "end"}, ProcTypes, status[p] = NoStatus, Fail(p, code, next)
    PROVE  Told(p)' <=> Told(p)
<1>1. ~Quiet(p)' /\ ("put owner" \in out'[p] => "put owner" \in out[p])
  BY FailureIsReported
<1>2. ~Quiet(p)
  BY DEF Quiet, NoStatus
<1>3. "put owner" \in out[p] => "put owner" \in out'[p]
  BY DEF Fail, MayPrint, Prints, ProcTypes
<1>4. QED
  BY <1>1, <1>2, <1>3 DEF Told

(* Nothing changes for a register whose records and reports stay. *)
LEMMA RegisterStays ==
    ASSUME NEW k, UNCHANGED <<wal, durable, lock>>, Reports(k)' = Reports(k)
    PROVE  UNCHANGED Register(k)!vars
<1>1. Versions(k)' = Versions(k)
  BY DEF Versions
<1>2. Safe(k)' = Safe(k)
  BY <1>1 DEF Safe
<1>3. QED
  BY <1>1, <1>2 DEF Register!vars

(* Opening the store is entering every register. *)
LEMMA StepEnters ==
    ASSUME NEW k \in Key, NEW p \in Proc, StoreTypeOK, OpenStore(p), Reports(k)' = Reports(k)
    PROVE  Register(k)!Enter(p)
<1>1. lock = NoProc /\ lock' = p /\ wal' = wal /\ durable' = Len(wal)
  BY DEF OpenStore, LockStore
<1>2. Versions(k)' = Versions(k)
  BY <1>1 DEF Versions
<1>3. \A v \in Versions(k) : v.at <= Len(wal)
  <2>1. \A i \in 1 .. Len(wal) : Version(wal, i).at <= Len(wal)
    BY DEF Version, StoreTypeOK
  <2>2. QED
    BY <2>1, VersionOf
<1>4. Safe(k)' = Versions(k)
  BY <1>1, <1>2, <1>3 DEF Safe
<1>5. QED
  BY <1>1, <1>2, <1>4 DEF Register!Enter

(* Losing the lock is leaving every register, for whoever had it. *)
LEMMA StepLeaves ==
    ASSUME NEW k \in Key, NEW p \in Proc, UnlockStore(p), Reports(k)' = Reports(k)
    PROVE  Register(k)!Leave(p) \/ UNCHANGED Register(k)!vars
<1>1. UNCHANGED <<wal, durable>> /\ lock' = IF lock = p THEN NoProc ELSE lock
  BY DEF UnlockStore
<1>2. Versions(k)' = Versions(k)
  BY <1>1 DEF Versions
<1>3. Safe(k)' = Safe(k)
  BY <1>1, <1>2 DEF Safe
<1>4. CASE lock = p
  BY <1>1, <1>2, <1>3, <1>4 DEF Register!Leave
<1>5. CASE lock # p
  BY <1>1, <1>5, RegisterStays
<1>6. QED
  BY <1>4, <1>5

(* A put sets the register of its key, for the first time in its process. *)
LEMMA StepSets ==
    ASSUME NEW k \in Key, NEW p \in Proc, Steady, pc[p] \in {"main", "put"},
           AppendRecord(p, KeyOf(Lang(p)), req[p].sender), Reports(k)' = Reports(k)
    PROVE  Register(k)!Set(p) \/ UNCHANGED Register(k)!vars
<1> DEFINE new == [at |-> Len(wal) + 1, by |-> p, val |-> req[p].sender]
<1>0. StoreTypeOK /\ ProcTypes /\ HoldsLock /\ FirstPut
  BY TypeParts DEF Steady, Inv
<1>1. req[p].sender \in Value /\ KeyOf(Lang(p)) \in Key /\ Value = Address
  BY <1>0, RequestFields, OwnerAssumption
<1>2. lock = p /\ UNCHANGED lock
  BY <1>0 DEF HoldsLock, Inside, AppendRecord
<1>3. /\ Versions(k)' = IF KeyOf(Lang(p)) = k THEN Versions(k) \cup {new} ELSE Versions(k)
      /\ Safe(k)' = Safe(k)
      /\ \A v \in Versions(k) : v.at < Len(wal) + 1
  BY <1>0, <1>1, PutAdds
<1>4. CASE KeyOf(Lang(p)) # k
  BY <1>2, <1>3, <1>4 DEF Register!vars
<1>5. CASE KeyOf(Lang(p)) = k
  <2>1. \A v \in Versions(k) : v.by # p
    BY <1>0, VersionOf DEF FirstPut, Fresh, Version
  <2>2. new \notin Versions(k) /\ new.by = p /\ new.val \in Address /\ new.at = Len(wal) + 1
    BY <1>1, <2>1
  <2> HIDE DEF new
  <2>3. new \in Versions(k)' \ Versions(k) /\ Versions(k)' = Versions(k) \cup {new}
    BY <1>3, <1>5, <2>2
  <2>4. Register(k)!Set(p)
    BY <1>2, <1>3, <2>1, <2>2, <2>3 DEF Register!Set, Register!SetBy
  <2>5. QED
    BY <2>4
<1>6. QED
  BY <1>4, <1>5

(* A power loss is one of every register. *)
LEMMA PowerStep ==
    ASSUME NEW k \in Key, StoreTypeOK, PowerLoss
    PROVE  Register(k)!PowerLoss
<1>1. Reports(k)' = Reports(k)
  <2>1. UNCHANGED <<req, answer, out, status>>
    BY DEF PowerLoss
  <2>2. \A q \in Proc : Told(q)' <=> Told(q)
    BY <2>1 DEF Told, Quiet
  <2>3. QED
    BY <2>1, <2>2, SameReports
<1>2. lock' = NoProc
  BY DEF PowerLoss, CutLog
<1>3. PICK n \in Nat : /\ \A v : v \in Versions(k)' <=> v \in Versions(k) /\ v.at <= n
                      /\ Safe(k)' = Versions(k)' /\ Safe(k) \subseteq Versions(k)'
                      /\ \A v \in Versions(k) : v.at \in Nat
  BY PowerTakes DEF PowerLoss
<1>4. \A v \in Versions(k)', w \in Versions(k) : w.at < v.at => w \in Versions(k)'
  <2>1. ASSUME NEW v \in Versions(k)', NEW w \in Versions(k), w.at < v.at
        PROVE  w.at <= n
    BY <1>3, <2>1
  <2>2. QED
    BY <1>3, <2>1
<1>5. Versions(k)' \subseteq Versions(k)
  BY <1>3
<1>6. QED
  BY <1>1, <1>2, <1>3, <1>4, <1>5 DEF Register!PowerLoss

(* A get reads the newest version of its key, for the first time in its process. *)
LEMMA StepGets ==
    ASSUME NEW k \in Key, NEW p \in Proc, Steady,
           pc[p] = "main", req[p].action = "call", Newest(wal, KeyOf(Lang(p))) # None,
           UNCHANGED <<storeVars, req, out, status>>,
           answer' = [answer EXCEPT ![p] = Newest(wal, KeyOf(Lang(p)))]
    PROVE  Register(k)!Get(p) \/ UNCHANGED Register(k)!vars
<1> DEFINE owner == Newest(wal, KeyOf(Lang(p)))
<1>0. StoreTypeOK /\ ProcTypes /\ HoldsLock /\ Asked
  BY TypeParts DEF Steady, Inv
<1>1. lock = p /\ UNCHANGED <<wal, durable, lock>>
  BY <1>0 DEF HoldsLock, Inside, storeVars
<1>2. answer[p] = None /\ answer'[p] = owner /\ \A q \in Proc : q # p => answer'[q] = answer[q]
  BY <1>0 DEF Asked, Fresh, ProcTypes
<1>3. \A q \in Proc : Uses(q, k)' <=> Uses(q, k)
  BY DEF Uses, KeyOf, Lang, keyOwner, kOwner
<1>4. \A q \in Proc : q # p => Report(q)' = Report(q)
  BY <1>2 DEF Report, Quiet
<1>5. Report(p) = None /\ Report(p)' = owner
  <2>1. Report(p) = None
    BY <1>2 DEF Report
  <2>2. Report(p)' = owner
    BY <1>2 DEF Report
  <2>3. QED
    BY <2>1, <2>2
<1> HIDE DEF owner
<1>6. CASE Uses(p, k)
  <2>1. Reports(k)[p] = None /\ Reports(k)' = [Reports(k) EXCEPT ![p] = owner]
    BY <1>3, <1>4, <1>5, <1>6 DEF Reports
  <2>2. \E v \in Versions(k) : v.val = owner /\ \A w \in Versions(k) : w.at <= v.at
    BY <1>0, <1>6, NewestVersion DEF Uses, owner
  <2>3. Versions(k)' = Versions(k)
    BY <1>1 DEF Versions
  <2>4. Safe(k)' = Safe(k)
    BY <1>1, <2>3 DEF Safe
  <2>5. QED
    BY <1>1, <2>1, <2>2, <2>3, <2>4 DEF Register!Get
<1>7. CASE ~Uses(p, k)
  <2>1. Reports(k)' = Reports(k)
    BY <1>3, <1>4, <1>7 DEF Reports
  <2>2. QED
    BY <1>1, <2>1, RegisterStays
<1>8. QED
  BY <1>6, <1>7

(* Who tells that its owner is stored, has stored it. *)
LEMMA StepSays ==
    ASSUME NEW k \in Key, NEW p \in Proc, Steady, Steady', Moves(p), pc[p] \in Running,
           UNCHANGED <<storeVars, req, answer>>, Told(p) => Told(p)'
    PROVE  Register(k)!SayStored(p) \/ UNCHANGED Register(k)!vars
<1>0. /\ StoreTypeOK /\ ProcTypes /\ NotLost
      /\ SuccessIsStored' /\ UNCHANGED <<wal, durable, lock, lost>>
  BY TypeParts DEF Steady, Inv, storeVars
<1>1. \A q \in Proc : q # p => (Told(q)' <=> Told(q))
  BY <1>0, OthersSilent
<1>2. CASE Told(p)' <=> Told(p)
  <2>1. Reports(k)' = Reports(k)
    BY <1>1, <1>2, SameReports
  <2>2. QED
    BY <1>0, <2>1, RegisterStays
<1>3. CASE ~Told(p) /\ Told(p)'
  <2>1. \A q \in Proc : Uses(q, k)' <=> Uses(q, k)
    BY DEF Uses, KeyOf, Lang, keyOwner, kOwner
  <2>2. \A q \in Proc : q # p => Report(q)' = Report(q)
    BY <1>1 DEF Report, Told
  <2>3. CASE answer[p] = None /\ req[p] # None /\ req[p].action = "init" /\ Uses(p, k)
    <3>1. Report(p) = None /\ Report(p)' = "stored"
      BY <1>3, <2>3 DEF Report, Told
    <3>2. Reports(k)[p] = None /\ Reports(k)' = [Reports(k) EXCEPT ![p] = "stored"]
      BY <2>1, <2>2, <2>3, <3>1 DEF Reports
    <3>3. p \notin lost' /\ pc'[p] # "idle"
      BY <1>0, PcMoves DEF NotLost
    <3>4. Stored(p)'
      BY <1>0, <1>3, <2>3, <3>3 DEF SuccessIsStored, Succeeded, Told
    <3>5. PICK i \in 1 .. Len(wal) :
            wal[i] = [by |-> p, key |-> KeyOf(Lang(p)), val |-> req[p].sender]
      BY <1>0, <3>4 DEF Stored, KeyOf, Lang, keyOwner, kOwner
    <3>6. Version(wal, i) \in Versions(k) /\ Version(wal, i).by = p
      BY <2>3, <3>5, VersionOf DEF Uses, Version
    <3>7. Versions(k)' = Versions(k)
      BY <1>0 DEF Versions
    <3>8. Safe(k)' = Safe(k)
      BY <1>0, <3>7 DEF Safe
    <3>9. QED
      BY <1>0, <3>2, <3>6, <3>7, <3>8 DEF Register!SayStored, Register!SetBy
  <2>4. CASE ~(answer[p] = None /\ req[p] # None /\ req[p].action = "init" /\ Uses(p, k))
    <3>1. Uses(p, k) => Report(p)' = Report(p)
      BY <2>4 DEF Report
    <3>2. Reports(k)' = Reports(k)
      BY <2>1, <2>2, <3>1 DEF Reports
    <3>3. QED
      BY <1>0, <3>2, RegisterStays
  <2>5. QED
    BY <2>3, <2>4
<1>4. QED
  BY <1>2, <1>3

(* A process that is being launched has nothing to report. *)
LEMMA LaunchSilent ==
    ASSUME NEW k, NEW p \in Proc, Steady, Launch(p)
    PROVE  Reports(k)' = Reports(k)
<1>0. ProcTypes /\ NothingEarly /\ Asked
  BY TypeParts DEF Steady, Inv
<1>1. PICK r \in Request[p] : req' = [req EXCEPT ![p] = r]
  BY DEF Launch
<1>2. pc[p] = "idle" /\ UNCHANGED <<answer, out, status>>
  BY DEF Launch
<1>3. ASSUME NEW q \in Proc, q # p
      PROVE  Report(q)' = Report(q) /\ (Uses(q, k)' <=> Uses(q, k))
  <2>1. req'[q] = req[q]
    BY <1>0, <1>1, <1>3 DEF ProcTypes
  <2>2. QED
    BY <1>2, <2>1 DEF Report, Uses, Quiet, KeyOf, Lang, keyOwner, kOwner
<1>4. answer[p] = None /\ status[p] = NoStatus /\ out[p] = {}
  BY <1>0, <1>2 DEF Asked, Fresh, NothingEarly
<1>5. Report(p) = None /\ Report(p)' = None
  <2>1. Report(p) = None
    BY <1>4 DEF Report, Quiet, NoStatus
  <2>2. Report(p)' = None
    BY <1>2, <1>4 DEF Report, Quiet, NoStatus
  <2>3. QED
    BY <2>1, <2>2
<1>6. QED
  BY <1>3, <1>5 DEF Reports

(* Before the status there is only the line, and no line is taken back. *)
LEMMA PrintKeeps ==
    ASSUME NEW p \in Proc, ProcTypes, NothingEarly, pc[p] \in {"end"} \cup Inside,
           UNCHANGED out \/ \E line : Prints(p, line)
    PROVE  Told(p) => Told(p)'
<1>1. ~Quiet(p)
  BY DEF NothingEarly, Quiet, NoStatus
<1>2. "put owner" \in out[p] => "put owner" \in out'[p]
  BY DEF Prints, ProcTypes
<1>3. QED
  BY <1>1, <1>2 DEF Told

(* Each step of a process is one of the register, or leaves it alone. *)
LEMMA ProcessStep ==
    ASSUME NEW k \in Key, NEW p \in Proc, Steady, Steady', Moves(p)
    PROVE  \/ Register(k)!Enter(p) \/ Register(k)!Set(p) \/ Register(k)!Get(p)
           \/ Register(k)!SayStored(p) \/ Register(k)!Leave(p)
           \/ UNCHANGED Register(k)!vars
<1>0. StoreTypeOK /\ ProcTypes /\ NothingEarly
  BY TypeParts DEF Steady, Inv
<1>1. \A q \in Proc : q # p => (Told(q)' <=> Told(q))
  BY <1>0, OthersSilent
<1>2. ASSUME UNCHANGED <<req, answer>>, Told(p)' <=> Told(p)
      PROVE  Reports(k)' = Reports(k)
  BY <1>1, <1>2, SameReports
<1>3. ASSUME UNCHANGED <<req, answer, out, status>>
      PROVE  Reports(k)' = Reports(k)
  BY <1>2, <1>3 DEF Told, Quiet
<1>4. ASSUME NEW code \in {QERR_INVALID_CONTEXT, QERR_STORAGE}, NEW next \in {"close", "end"},
             pc[p] \in {"open"} \cup Inside, Fail(p, code, next)
      PROVE  Reports(k)' = Reports(k)
  <2>1. status[p] = NoStatus
    BY <1>0, <1>4 DEF NothingEarly
  <2>2. Told(p)' <=> Told(p)
    BY <1>0, <1>4, <2>1, FailsSilently
  <2>3. UNCHANGED <<req, answer>>
    BY <1>4 DEF Fail
  <2>4. QED
    BY <1>2, <2>2, <2>3
<1>5. CASE Launch(p)
  BY <1>5, LaunchSilent, RegisterStays DEF Launch, storeVars
<1>6. CASE OpenRejected(p) \/ OpenStoreFails(p)
  BY <1>4, <1>6, RegisterStays DEF OpenRejected, OpenStoreFails, storeVars
<1>7. CASE OpenStore(p)
  BY <1>0, <1>3, <1>7, StepEnters DEF OpenStore
<1>8. CASE Close(p) \/ Exit(p) \/ Kill(p)
  BY <1>3, <1>8, StepLeaves DEF Close, Exit, Kill
<1>9. CASE PutOwner(p)
  <2>1. pc[p] \in {"main", "put"}
    BY <1>9 DEF PutOwner, AtPut
  <2>2. Reports(k)' = Reports(k)
    BY <1>3, <1>4, <1>9, <2>1 DEF PutOwner, Inside
  <2>3. AppendRecord(p, KeyOf(Lang(p)), req[p].sender) \/ UNCHANGED storeVars
    BY <1>9 DEF PutOwner
  <2>4. QED
    BY <2>1, <2>2, <2>3, StepSets, RegisterStays DEF storeVars
<1>10. CASE GetOwner(p)
  <2>1. pc[p] = "main" /\ req[p].action = "call" /\ UNCHANGED storeVars
    BY <1>10 DEF GetOwner, GetFrom
  <2>2. CASE Fail(p, QERR_STORAGE, "close")
    <3>1. Reports(k)' = Reports(k)
      BY <1>4, <2>1, <2>2 DEF Inside
    <3>2. QED
      BY <2>1, <3>1, RegisterStays DEF storeVars
  <2>3. CASE ~Fail(p, QERR_STORAGE, "close")
    BY <1>10, <2>1, <2>3, StepGets DEF GetOwner, GetFrom
  <2>4. QED
    BY <2>2, <2>3
<1>11. CASE Announce(p) \/ PrintLine(p)
  <2>1. Told(p) => Told(p)'
    BY <1>0, <1>11, PrintKeeps DEF Announce, PrintLine, MayPrint, Inside
  <2>2. pc[p] \in Running /\ UNCHANGED <<storeVars, req, answer>>
    BY <1>11 DEF Announce, PrintLine, Running, Inside
  <2>3. QED
    BY <2>1, <2>2, StepSays
<1>12. CASE PrintPanics(p)
  BY <1>3, <1>12, RegisterStays DEF PrintPanics, storeVars
<1>13. CASE ReturnFromMain(p)
  <2>1. Told(p) => Told(p)'
    BY <1>0, <1>13, PrintKeeps DEF ReturnFromMain
  <2>2. pc[p] \in Running /\ UNCHANGED <<storeVars, req, answer>>
    BY <1>13 DEF ReturnFromMain, Running
  <2>3. QED
    BY <2>1, <2>2, StepSays
<1>14. QED
  BY <1>5, <1>6, <1>7, <1>8, <1>9, <1>10, <1>11, <1>12, <1>13 DEF Moves, Step

(* So is each step of the contracts, a power loss included. *)
LEMMA RegisterStep ==
    ASSUME NEW k \in Key
    PROVE  Steady /\ Steady' /\ [Next]_vars => [Register(k)!Next]_(Register(k)!vars)
<1> SUFFICES ASSUME Steady, Steady', [Next]_vars
             PROVE  [Register(k)!Next]_(Register(k)!vars)
  OBVIOUS
<1>1. CASE \E p \in Proc : Moves(p)
  BY <1>1, ProcessStep DEF Register!Next
<1>2. CASE PowerLoss
  <2>1. StoreTypeOK
    BY TypeParts DEF Steady, Inv
  <2>2. QED
    BY <1>2, <2>1, PowerStep DEF Register!Next
<1>3. CASE UNCHANGED vars
  <2>1. UNCHANGED <<req, answer>> /\ (\A q \in Proc : Told(q)' <=> Told(q))
    BY <1>3 DEF vars, Told, Quiet
  <2>2. Reports(k)' = Reports(k)
    BY <2>1, SameReports
  <2>3. QED
    BY <1>3, <2>2, RegisterStays DEF vars
<1>4. QED
  BY <1>1, <1>2, <1>3 DEF Next, Moves

(* At first nothing is stored and nothing said. *)
LEMMA RegisterInit == ASSUME NEW k \in Key PROVE Init => Register(k)!Init
<1> SUFFICES ASSUME Init
             PROVE  Register(k)!Init
  OBVIOUS
<1>1. Versions(k) = {}
  <2>1. wal = << >>
    BY DEF Init, StoreInit
  <2>2. QED
    BY <2>1 DEF Versions
<1>2. Safe(k) = {}
  BY <1>1 DEF Safe
<1>3. ASSUME NEW p \in Proc
      PROVE  answer[p] = None /\ status[p] = NoStatus /\ out[p] = {}
  BY DEF Init
<1>4. ASSUME NEW p \in Proc
      PROVE  Report(p) = None
  <2>1. answer[p] = None /\ status[p] = NoStatus /\ out[p] = {}
    BY <1>3
  <2>2. QED
    BY <2>1 DEF Report, Quiet, NoStatus
<1>5. Reports(k) = [p \in Proc |-> None]
  BY <1>4 DEF Reports
<1>6. QED
  BY <1>1, <1>2, <1>5 DEF Register!Init, Init, StoreInit

----------------------------------------------------------------------------
(***************************************************************************)
(* The contracts of one key are a register of owners: set at most once by  *)
(* each process, while nobody else has the store open; read at its newest; *)
(* and said to be stored (contracts/c/main.c's "put owner", the silence    *)
(* and status 0 of cpp and rust) only by who stored it and has not lost it *)
(* before.  A power loss takes what was put since the last opening, newest *)
(* first.                                                                  *)
(***************************************************************************)
THEOREM RegisterOfKey == ASSUME NEW k \in Key PROVE Spec => Register(k)!Spec
<1>1. Steady /\ Steady' /\ [Next]_vars => [Register(k)!Next]_(Register(k)!vars)
  BY RegisterStep
<1>2. Init => Register(k)!Init
  BY RegisterInit
<1>3. QED
  BY <1>1, <1>2, SteadyInvariance, PTL DEF Spec, Register!Spec

(***************************************************************************)
(* Both registers at once: that of C, whose key has the NUL and two bytes  *)
(* behind it, and the one that C++ and Rust share.                         *)
(***************************************************************************)
THEOREM ImplementsAll == Spec => ImplementsRegisters
<1>1. keyOwner \in Key /\ kOwner \in Key
  BY OwnerAssumption
<1>2. Register(keyOwner)!Spec => RegisterOfC!Spec
  BY DEF Register!Spec, Register!Init, Register!Next, Register!Enter, Register!Set,
     Register!Get, Register!SayStored, Register!Leave, Register!PowerLoss, Register!SetBy,
     Register!vars, RegisterOfC!Spec, RegisterOfC!Init, RegisterOfC!Next, RegisterOfC!Enter,
     RegisterOfC!Set, RegisterOfC!Get, RegisterOfC!SayStored, RegisterOfC!Leave,
     RegisterOfC!PowerLoss, RegisterOfC!SetBy, RegisterOfC!vars
<1>3. Register(kOwner)!Spec => RegisterOfCppAndRust!Spec
  BY DEF Register!Spec, Register!Init, Register!Next, Register!Enter, Register!Set,
     Register!Get, Register!SayStored, Register!Leave, Register!PowerLoss, Register!SetBy,
     Register!vars, RegisterOfCppAndRust!Spec, RegisterOfCppAndRust!Init,
     RegisterOfCppAndRust!Next, RegisterOfCppAndRust!Enter, RegisterOfCppAndRust!Set,
     RegisterOfCppAndRust!Get, RegisterOfCppAndRust!SayStored, RegisterOfCppAndRust!Leave,
     RegisterOfCppAndRust!PowerLoss, RegisterOfCppAndRust!SetBy, RegisterOfCppAndRust!vars
<1>4. QED
  BY <1>1, <1>2, <1>3, RegisterOfKey DEF ImplementsRegisters
=============================================================================
