------------------------------- MODULE Bindings -------------------------------
(***************************************************************************)
(* The Context of qtum.hpp and that of qtum.rs, with qtum_put and qtum_get *)
(* below them: a program opens a context, calls its methods in any order   *)
(* and drops it, while any storage call may fail.  Every block that        *)
(* crosses the boundary has an owner, and somebody has to release it.      *)
(*                                                                         *)
(* The bytes of a value matter as the twenty of an address, or others; a   *)
(* message by its missing NUL.  Allocations do not fail here.              *)
(***************************************************************************)
EXTENDS Naturals, Sequences

CONSTANTS Key,       \* storage keys
          Address,   \* values of twenty bytes
          Other,     \* values of any other length
          MaxCalls,  \* bound on the calls of a program, that of open included
          None,      \* NULL; also an absent value
          Stray      \* a pointer that was never set

Value == Address \cup Other
Results == {"pending", "ok", "error"}

ASSUME BindingsAssumption ==
    /\ MaxCalls \in Nat
    /\ Address \cap Other = {}
    /\ None \notin Value \cup Key /\ Value \cap Results = {}
    /\ None # Stray /\ {None, Stray} \cap ({"err"} \X Nat) = {}

VARIABLES
    lang,     \* "cpp" or "rust"
    unicode,  \* Rust: all of the program's arguments are Unicode
    pc,       \* where the program is
    log,      \* the calls so far, the last one in progress unless pc = "idle"
    err,      \* the binding's err, which *err of the C function points to
    value,    \* what qtum_get returned
    store,    \* the value of each key
    live,     \* blocks and handles not yet released
    badFree   \* history: something was released that was not live, or nobody's to release

vars == <<lang, unicode, pc, log, err, value, store, live, badFree>>

Block(site) == <<site, Len(log)>>   \* acquired by the call in progress
NewBlock(site) == <<site, Len(log) + 1>>
Context == {<<"ctx", 1>>, <<"db", 1>>}
CallData == <<"data", 1>>           \* ctx->data, NULL if the file has none

(* What qtum_context_close releases. *)
Held == Context \cup ({CallData} \cap live)

(* failed: the C function has set *err. *)
Call == [method: {"open", "put", "get", "getString", "getAddress"},
         key: Key \cup {None}, arg: Value \cup {None},
         failed: BOOLEAN, result: Value \cup Results]

(* Of C++'s err in open, nobody sets the first value. *)
Init ==
    /\ lang \in {"cpp", "rust"}
    /\ unicode \in BOOLEAN /\ (lang = "cpp" => unicode)
    /\ err \in IF lang = "cpp" THEN {None, Stray} ELSE {None}
    /\ pc = "start" /\ log = <<>> /\ value = None
    /\ store \in [Key -> Value \cup {None}]
    /\ live = {} /\ badFree = FALSE

----------------------------------------------------------------------------
(* The C function that the binding calls. *)
Calls(method, key, arg, failed) ==
    /\ log' = Append(log, [method |-> method, key |-> key, arg |-> arg,
                           failed |-> failed, result |-> "pending"])
    /\ pc' = "called"

(* It comes back with an error object; what else is there, nobody releases. *)
Fails(method, key, arg, forgotten) ==
    /\ Calls(method, key, arg, TRUE)
    /\ err' = NewBlock("err") /\ value' = None
    /\ live' = live \cup {NewBlock(site) : site \in {"err", "message"} \cup forgotten}

(* std::env::args() panics on an argument that is not Unicode. *)
ArgumentPanic ==
    /\ pc = "start" /\ ~unicode
    /\ pc' = "panicked"
    /\ UNCHANGED <<lang, unicode, log, err, value, store, live, badFree>>

(***************************************************************************)
(* qtum_context_open.  The call data of one entry of the context file is   *)
(* lost when a later entry supersedes it, whatever comes of the call.      *)
(***************************************************************************)
Open ==
    /\ pc = "start" /\ unicode
    /\ \/ /\ Calls("open", None, None, FALSE)
          /\ \E sites \in {{}, {"data"}, {"data", "superseded data"}} :
                live' = Context \cup {NewBlock(site) : site \in sites}
          /\ UNCHANGED <<err, value>>
       \/ \E forgotten \in SUBSET {"superseded data", "leveldb message"} :
            Fails("open", None, None, forgotten)
    /\ UNCHANGED <<lang, unicode, store, badFree>>

Ready == pc = "idle" /\ Len(log) < MaxCalls

(* qtum_put; the value of a put that fails may be stored all the same. *)
Put(k, v) ==
    /\ Ready
    /\ \/ /\ Calls("put", k, v, FALSE)
          /\ store' = [store EXCEPT ![k] = v]
          /\ err' = None /\ value' = None
          /\ UNCHANGED live
       \/ /\ Fails("put", k, v, {"leveldb message"})
          /\ store' \in {store, [store EXCEPT ![k] = v]}
    /\ UNCHANGED <<lang, unicode, badFree>>

(* When leveldb_get fails there are two errors, and the second is returned. *)
Get(method, k) ==
    /\ Ready
    /\ method \in IF lang = "cpp" THEN {"get", "getString", "getAddress"} ELSE {"get"}
    /\ \/ /\ store[k] # None
          /\ Calls(method, k, None, FALSE)
          /\ err' = None /\ value' = store[k]
          /\ live' = live \cup {NewBlock("value")}
       \/ store[k] = None /\ Fails(method, k, None, {})
       \/ Fails(method, k, None, {"leveldb message", "first err", "first message"})
    /\ UNCHANGED <<lang, unicode, store, badFree>>

----------------------------------------------------------------------------
(* Back in the binding. *)
Current == log[Len(log)]
ReturnedUnchecked(method) == pc = "called" /\ Current.method = method
Returned(method) == pc = "called" /\ Current.method = method /\ err = None

Return(result, label) ==
    /\ log' = [log EXCEPT ![Len(log)].result = result]
    /\ pc' = label
    /\ UNCHANGED <<lang, unicode, err, value, store>>

(* Where a call that returns an error leaves the program. *)
AfterError == IF Current.method = "open" THEN "closed" ELSE "idle"

Free(blocks) ==
    /\ live' = live \ blocks
    /\ badFree' = (badFree \/ ~(blocks \subseteq live))

Keep == UNCHANGED <<live, badFree>>
ErrorBlocks == {Block("err"), Block("message")}

ReturnContext == Returned("open") /\ Return("ok", "idle") /\ Keep
ReturnFromPut == Returned("put") /\ Return("ok", "idle") /\ Keep

(* C++: the caller gets the block itself. *)
GetBytes == lang = "cpp" /\ Returned("get") /\ Return(value, "idle") /\ Keep

GetString == Returned("getString") /\ Return(value, "idle") /\ Free({Block("value")})

GetAddressOfAnyLength ==
    Returned("getAddress") /\ Return(value, "idle") /\ Free({Block("value")})

GetAddress ==
    /\ Returned("getAddress")
    /\ \/ value \in Address /\ Return(value, "idle") /\ Free({Block("value")})
       \/ value \in Other /\ Return("error", "idle") /\ Keep

(* Rust copies the bytes and releases the block. *)
GetVecWithoutFree == lang = "rust" /\ Returned("get") /\ Return(value, "idle") /\ Keep

GetVec ==
    lang = "rust" /\ Returned("get") /\ Return(value, "idle") /\ Free({Block("value")})

(***************************************************************************)
(* C++'s open succeeds, but takes its unset pointer for an error.          *)
(* error(err) reads a code and a message through it and releases both;     *)
(* where the program survives that, up to two blocks may be gone that were *)
(* somebody else's, and open returns an error and forgets the context.     *)
(***************************************************************************)
ReadStrayError ==
    /\ pc = "called" /\ err = Stray
    /\ \/ /\ pc' = "died"
          /\ UNCHANGED <<lang, unicode, log, err, value, store, live, badFree>>
       \/ /\ Return("error", AfterError)
          /\ \E object, message \in (live \ {<<"db", 1>>}) \cup {None} :
                live' = live \ {object, message}
          /\ badFree' = TRUE

Failed == pc = "called" /\ err = Block("err")

(* error(err) makes an Error and releases the object; open returns that. *)
CppError ==
    /\ lang = "cpp" /\ Failed
    /\ IF Current.method = "open" THEN Return("error", "closed")
       ELSE /\ pc' = "qtum_err_free"
            /\ UNCHANGED <<lang, unicode, log, err, value, store>>
    /\ Free(ErrorBlocks)

(* put and get release it again, which the allocator may survive or not. *)
FreeAgain ==
    /\ pc = "qtum_err_free"
    /\ \/ Return("error", "idle")
       \/ pc' = "died" /\ UNCHANGED <<lang, unicode, log, err, value, store>>
    /\ Free(ErrorBlocks)

RustErrorKeepingMessage ==
    /\ lang = "rust" /\ Failed
    /\ Return("error", AfterError)
    /\ live' = live \ ErrorBlocks /\ badFree' = TRUE

(* from_c: the message is copied, and given back before the C side frees it. *)
RustError ==
    /\ lang = "rust" /\ Failed
    /\ Return("error", AfterError)
    /\ Free(ErrorBlocks)

(***************************************************************************)
(* The message has no NUL, and what is read behind it is not UTF-8: unwrap *)
(* panics.  Unwinding drops the CString, so Rust's allocator, which need   *)
(* not be C's, releases the message, and drops the Context.                *)
(***************************************************************************)
RustPanic ==
    /\ lang = "rust" /\ Failed
    /\ pc' \in {"panicked", "died"}
    /\ live' = live \ ({Block("message")} \cup Held)
    /\ badFree' = TRUE
    /\ UNCHANGED <<lang, unicode, log, err, value, store>>

----------------------------------------------------------------------------
(* The program: it releases what get gave it, and drops the context. *)
Given == {<<"value", n>> : n \in {k \in DOMAIN log : lang = "cpp" /\ log[k].method = "get"}}

FreeGivenTwice ==
    /\ pc = "idle"
    /\ \E b \in Given : Free({b})
    /\ UNCHANGED <<lang, unicode, pc, log, err, value, store>>

FreeGiven ==
    /\ pc = "idle"
    /\ \E b \in Given \cap live : Free({b})
    /\ UNCHANGED <<lang, unicode, pc, log, err, value, store>>

Drop ==
    /\ pc = "idle"
    /\ pc' = "closed"
    /\ Free(Held)
    /\ UNCHANGED <<lang, unicode, log, err, value, store>>

Next ==
    \/ ArgumentPanic \/ Open
    \/ \E k \in Key, v \in Value : Put(k, v)
    \/ \E m \in {"get", "getString", "getAddress"}, k \in Key : Get(m, k)
    \/ ReturnContext \/ ReturnFromPut
    \/ GetBytes \/ GetString \/ GetAddress \/ GetVec
    \/ ReadStrayError \/ CppError \/ FreeAgain \/ RustError \/ RustPanic
    \/ FreeGiven \/ Drop

Spec == Init /\ [][Next]_vars

----------------------------------------------------------------------------
Sites == {"ctx", "db", "data", "err", "message", "value",
          "superseded data", "leveldb message", "first err", "first message"}

TypeOK ==
    /\ lang \in {"cpp", "rust"} /\ unicode \in BOOLEAN
    /\ pc \in {"start", "called", "qtum_err_free", "idle", "closed", "panicked", "died"}
    /\ log \in Seq(Call)
    /\ pc = "start" => log = <<>>
    /\ log = <<>> => pc \in {"start", "panicked"}
    /\ err \in {None, Stray} \cup ({"err"} \X Nat)
    /\ value \in Value \cup {None}
    /\ store \in [Key -> Value \cup {None}]
    /\ live \subseteq Sites \X Nat
    /\ badFree \in BOOLEAN

(***************************************************************************)
(* The bindings release only what is theirs, and once, and nobody dies, as *)
(* long as no C function fails and C++ finds its err NULL; Rust panics     *)
(* then only on its arguments.  In a failing call, too, Rust releases      *)
(* nothing twice unless it panics.                                         *)
(***************************************************************************)
SomeCallFailed == \E n \in DOMAIN log : log[n].failed

OnlyKnownFaults ==
    /\ badFree \/ pc = "died" => SomeCallFailed \/ (lang = "cpp" /\ err = Stray)
    /\ pc = "panicked" => SomeCallFailed \/ ~unicode
    /\ badFree /\ lang = "rust" => pc \in {"panicked", "died"}

(***************************************************************************)
(* Whatever was called, with whatever outcome: what is left is the context *)
(* until it is dropped, what the program got from get, and what the code   *)
(* forgets: superseded call data, leveldb's messages, the first of         *)
(* qtum_get's two errors, the value that getAddress found to have another  *)
(* length, and a context that C++'s open takes for a failure.              *)
(***************************************************************************)
Forgets(call) ==
    {"superseded data"} \cup
    IF call.failed THEN {"leveldb message", "first err", "first message"}
    ELSE IF call.result # "error" THEN {}
    ELSE IF call.method = "open" THEN {"ctx", "db", "data"}
    ELSE IF call.method = "getAddress" THEN {"value"} ELSE {}

Forgotten == UNION {{<<site, n>> : site \in Forgets(log[n])} : n \in DOMAIN log}

OnlyKnownLeaks ==
    /\ pc = "idle" => live \subseteq Context \cup {CallData} \cup Given \cup Forgotten
    /\ pc = "closed" => live \subseteq Given \cup Forgotten
    /\ pc = "panicked" => live \subseteq {err} \cup Forgotten

(***************************************************************************)
(* What a method returns is what was put: by the last put of the key that  *)
(* succeeded, or by one that failed behind it; an Address has its twenty   *)
(* bytes.                                                                  *)
(***************************************************************************)
PutsBefore(n) == {m \in 1 .. n - 1 : log[m].method = "put" /\ log[m].key = log[n].key}

ReadsFindWrites ==
    \A n \in DOMAIN log : log[n].result \in Value =>
        /\ log[n].method = "getAddress" => log[n].result \in Address
        /\ \A m \in PutsBefore(n) : ~log[m].failed =>
             \E j \in PutsBefore(n) : m <= j /\ log[j].arg = log[n].result

(***************************************************************************)
(* "The API methods return results along with possible err values"         *)
(* (README.md:162): a C++ method whose storage call fails returns.         *)
(***************************************************************************)
ErrorsAreReturned == lang = "cpp" /\ SomeCallFailed => pc # "died"
===============================================================================
