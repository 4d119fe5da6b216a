--------------------------- MODULE OwnerContracts ---------------------------
(***************************************************************************)
(* The sample contract in C, C++ and Rust (contracts/c, cpp and rust): its *)
(* init stores the sender as the owner and its handle prints the owner.    *)
(* Any number of processes run the three programs over one store; each may *)
(* be killed anywhere, any storage call may fail, and the power may go.    *)
(*                                                                         *)
(* The bindings are those of Bindings, reduced to what the process does    *)
(* next: a death by a double free or a stray error pointer is a Kill.      *)
(***************************************************************************)
EXTENDS ContractStore

CONSTANTS Address,  \* 20-byte addresses
          Behind,   \* the two bytes that the linker puts behind C's "owner"
          Request   \* the command lines that each process may be run with

Requests == [lang: {"c", "cpp", "rust"}, valid: BOOLEAN,
             action: {"init", "call"}, sender: Address]

(***************************************************************************)
(* C stores under sizeof(keyOwner) bytes, the size of a pointer: those of  *)
(* the literal, its NUL and two more.  C++ and Rust use the five letters.  *)
(***************************************************************************)
keyOwner == <<"owner", "NUL", Behind>>
kOwner == <<"owner">>
KeyOfLiteral(lang) == IF lang = "c" THEN <<"owner", "NUL">> ELSE kOwner
KeyOf(lang) == IF lang = "c" THEN keyOwner ELSE kOwner

ASSUME OwnerAssumption ==
    /\ Key = {keyOwner, kOwner}
    /\ Value = Address /\ "stored" \notin Address
    /\ Request \in [Proc -> SUBSET Requests]

QERR_INVALID_CONTEXT == 100
QERR_STORAGE == 101
QERR_OOM == 255
Panicked == 101    \* the status of a Rust process whose main thread panics
NoStatus == 256

VARIABLES
    pc,      \* where each process is
    req,     \* the command line it was started with
    result,  \* what Rust's run() returns, if it does not panic
    answer,  \* the owner that get returned
    out,     \* the kinds of lines printed on stdout
    status   \* the status the process ends with

vars == <<lock, wal, durable, lost, pc, req, result, answer, out, status>>

Inside == {"main", "put", "print", "close"}    \* has an open context
Running == {"open", "end", "exit"} \cup Inside

Init ==
    /\ StoreInit
    /\ pc = [p \in Proc |-> "idle"]
    /\ req = [p \in Proc |-> None]
    /\ result = [p \in Proc |-> "ok"]
    /\ answer = [p \in Proc |-> None]
    /\ out = [p \in Proc |-> {}]
    /\ status = [p \in Proc |-> NoStatus]

----------------------------------------------------------------------------
Lang(p) == req[p].lang
Goto(p, label) == pc' = [pc EXCEPT ![p] = label]
Prints(p, line) == out' = [out EXCEPT ![p] = @ \cup {line}]

(* printf and cout may fail, and C and C++ do not look. *)
MayPrint(p, line) == Prints(p, line) \/ (Lang(p) # "rust" /\ UNCHANGED out)
ExitWith(p, code) == Goto(p, "exit") /\ status' = [status EXCEPT ![p] = code]

(***************************************************************************)
(* The call before came back with an error.  C and C++ print it and exit,  *)
(* without closing; Rust returns it, or from_c panics, and in both cases   *)
(* goes on at next; and the error may not have fitted into the memory.     *)
(***************************************************************************)
Fail(p, code, next) ==
    /\ \/ ExitWith(p, QERR_OOM) /\ UNCHANGED <<result, out>>
       \/ /\ Lang(p) # "rust"
          /\ MayPrint(p, "error") /\ ExitWith(p, code)
          /\ UNCHANGED result
       \/ /\ Lang(p) = "rust"
          /\ \E r \in {"error", "panic"} : result' = [result EXCEPT ![p] = r]
          /\ Goto(p, next)
          /\ UNCHANGED <<out, status>>
    /\ UNCHANGED <<req, answer>>

Launch(p) ==
    /\ pc[p] = "idle"
    /\ Goto(p, "open")
    /\ \E r \in Request[p] : req' = [req EXCEPT ![p] = r]
    /\ UNCHANGED <<storeVars, result, answer, out, status>>

OpenRejected(p) ==
    /\ pc[p] = "open" /\ ~req[p].valid
    /\ Fail(p, QERR_INVALID_CONTEXT, "end")
    /\ UNCHANGED storeVars

OpenStoreFails(p) ==
    /\ pc[p] = "open" /\ req[p].valid
    /\ Fail(p, QERR_STORAGE, "end")
    /\ UNCHANGED storeVars

OpenStore(p) ==
    /\ pc[p] = "open" /\ req[p].valid
    /\ LockStore(p)
    /\ Goto(p, "main")
    /\ UNCHANGED <<req, result, answer, out, status>>

----------------------------------------------------------------------------
(* Rust prints "set owner" before it puts. *)
Announce(p) ==
    /\ pc[p] = "main" /\ req[p].action = "init" /\ Lang(p) = "rust"
    /\ Prints(p, "set owner")
    /\ Goto(p, "put")
    /\ UNCHANGED <<storeVars, req, result, answer, status>>

AfterPut(p) == IF Lang(p) = "rust" THEN "close" ELSE "print"
AtPut(p) ==
    /\ pc[p] \in {"main", "put"} /\ req[p].action = "init"
    /\ Lang(p) = "rust" => pc[p] = "put"

PutIgnoringErrors(p) ==
    /\ AtPut(p)
    /\ AppendRecord(p, KeyOf(Lang(p)), req[p].sender) \/ UNCHANGED storeVars
    /\ Goto(p, AfterPut(p))
    /\ UNCHANGED <<req, result, answer, out, status>>

(* A put that reports an error may have reached the log all the same. *)
PutOwner(p) ==
    /\ AtPut(p)
    /\ \/ /\ AppendRecord(p, KeyOf(Lang(p)), req[p].sender)
          /\ Goto(p, AfterPut(p))
          /\ UNCHANGED <<req, result, answer, out, status>>
       \/ /\ AppendRecord(p, KeyOf(Lang(p)), req[p].sender) \/ UNCHANGED storeVars
          /\ Fail(p, QERR_STORAGE, "close")

GetFrom(p, k) ==
    /\ pc[p] = "main" /\ req[p].action = "call"
    /\ \/ /\ Newest(wal, k) # None
          /\ answer' = [answer EXCEPT ![p] = Newest(wal, k)]
          /\ Goto(p, "print")
          /\ UNCHANGED <<req, result, out, status>>
       \/ Fail(p, QERR_STORAGE, "close")
    /\ UNCHANGED storeVars

GetOwnerByLetters(p) == GetFrom(p, kOwner)
GetOwner(p) == GetFrom(p, KeyOf(Lang(p)))

(* C and C++ after their put, and all three after their get. *)
PrintLine(p) ==
    /\ pc[p] = "print"
    /\ MayPrint(p, IF req[p].action = "init" THEN "put owner" ELSE "get owner")
    /\ Goto(p, IF Lang(p) = "c" THEN "end" ELSE "close")
    /\ UNCHANGED <<storeVars, req, result, answer, status>>

(* println! panics when it cannot write; unwinding drops the Context. *)
PrintPanics(p) ==
    /\ pc[p] \in {"main", "print"} /\ Lang(p) = "rust"
    /\ result' = [result EXCEPT ![p] = "panic"]
    /\ Goto(p, "close")
    /\ UNCHANGED <<storeVars, req, answer, out, status>>

(* ~Context and Drop; C has none. *)
Close(p) ==
    /\ pc[p] = "close"
    /\ UnlockStore(p)
    /\ Goto(p, "end")
    /\ UNCHANGED <<req, result, answer, out, status>>

(* The end of main: Rust prints an error, and that is all it does about it. *)
ReturnFromMain(p) ==
    /\ pc[p] = "end"
    /\ \/ result[p] = "ok" /\ ExitWith(p, 0) /\ UNCHANGED out
       \/ result[p] = "error" /\ Prints(p, "error") /\ ExitWith(p, 0)
       \/ result[p] # "ok" /\ ExitWith(p, Panicked) /\ UNCHANGED out
    /\ UNCHANGED <<storeVars, req, result, answer>>

Exit(p) ==
    /\ pc[p] = "exit"
    /\ Goto(p, "exited")
    /\ UnlockStore(p)
    /\ UNCHANGED <<req, result, answer, out, status>>

Kill(p) ==
    /\ pc[p] \in Running
    /\ Goto(p, "killed")
    /\ UnlockStore(p)
    /\ UNCHANGED <<req, result, answer, out, status>>

PowerLoss ==
    /\ CutLog
    /\ pc' = [p \in Proc |-> IF pc[p] \in Running THEN "killed" ELSE pc[p]]
    /\ UNCHANGED <<req, result, answer, out, status>>

Step(p) ==
    \/ OpenRejected(p) \/ OpenStoreFails(p) \/ OpenStore(p)
    \/ Announce(p) \/ PutOwner(p) \/ GetOwner(p)
    \/ PrintLine(p) \/ PrintPanics(p) \/ Close(p) \/ ReturnFromMain(p) \/ Exit(p)

Next ==
    \/ \E p \in Proc : Launch(p) \/ Step(p) \/ Kill(p)
    \/ PowerLoss

Spec == Init /\ [][Next]_vars

----------------------------------------------------------------------------
TypeOK ==
    /\ StoreTypeOK
    /\ pc \in [Proc -> {"idle", "exited", "killed"} \cup Running]
    /\ req \in [Proc -> Requests \cup {None}]
    /\ \A p \in Proc : pc[p] # "idle" => req[p] \in Request[p]
    /\ result \in [Proc -> {"ok", "error", "panic"}]
    /\ answer \in [Proc -> Address \cup {None}]
    /\ out \in [Proc -> SUBSET {"error", "set owner", "put owner", "get owner"}]
    /\ status \in [Proc -> {0, QERR_INVALID_CONTEXT, QERR_STORAGE, QERR_OOM, NoStatus}]

(***************************************************************************)
(* Whoever believes a contract is right, unless a power loss took the      *)
(* record: an init that prints "put owner", or that exits with 0 and       *)
(* prints no error, has stored its own sender.  Rust's "set owner" and its *)
(* status are not enough, and no status tells a panic from QERR_STORAGE.   *)
(* Such a call has read an owner; that it has printed it is sure in Rust.  *)
(***************************************************************************)
Quiet(p) == status[p] = 0 /\ "error" \notin out[p]

ReportsAreTrue ==
    \A p \in Proc \ lost :
        /\ (Quiet(p) \/ "put owner" \in out[p]) /\ req[p].action = "init" =>
             \E i \in 1 .. Len(wal) :
                 wal[i] = [by |-> p, key |-> KeyOf(Lang(p)), val |-> req[p].sender]
        /\ Quiet(p) /\ req[p].action = "call" =>
             answer[p] # None /\ (Lang(p) = "rust" => "get owner" \in out[p])

----------------------------------------------------------------------------
(***************************************************************************)
(* The contracts implement one register per key.  A process of the other   *)
(* key only enters and leaves it.                                          *)
(***************************************************************************)
Versions(k) ==
    {[at |-> i, by |-> wal[i].by, val |-> wal[i].val] :
        i \in {j \in 1 .. Len(wal) : wal[j].key = k}}

Report(p) ==
    IF answer[p] # None THEN answer[p]
    ELSE IF req[p] # None /\ req[p].action = "init" /\ (Quiet(p) \/ "put owner" \in out[p])
    THEN "stored" ELSE None

Uses(p, k) == req[p] # None /\ KeyOf(Lang(p)) = k

Safe(k) == {v \in Versions(k) : v.at <= durable}
Reports(k) == [p \in Proc |-> IF Uses(p, k) THEN Report(p) ELSE None]

RegisterOfC == INSTANCE OwnerRegister WITH
    versions <- Versions(keyOwner), safe <- Safe(keyOwner),
    holder <- lock, report <- Reports(keyOwner)

RegisterOfCppAndRust == INSTANCE OwnerRegister WITH
    versions <- Versions(kOwner), safe <- Safe(kOwner),
    holder <- lock, report <- Reports(kOwner)

(***************************************************************************)
(* C's contracts never see the owner of C++'s and Rust's, and the other    *)
(* way round; those of one key see the newest, across languages.           *)
(***************************************************************************)
ImplementsRegisters == RegisterOfC!Spec /\ RegisterOfCppAndRust!Spec
=============================================================================
