--------------------------- MODULE BindingsProofs ---------------------------
(***************************************************************************)
(* The safety properties of Bindings for programs of any number of calls,  *)
(* any keys and any values.                                                *)
(*                                                                         *)
(* They rest on what holds while a call is in progress: err points to an   *)
(* object of this call or is NULL, the blocks that the binding is to       *)
(* release are live and belong to this call, and what qtum_get returned is *)
(* what the store has.                                                     *)
(***************************************************************************)
EXTENDS Bindings, TLAPS

Methods == {"open", "put", "get", "getString", "getAddress"}
Getters == {"get", "getString", "getAddress"}
Fatal == {"panicked", "died"}

(* The C function is being called, or has just come back. *)
Calling == pc \in {"called", "qtum_err_free"}

(* The call in progress, and what it hands to the binding. *)
InCall ==
    Calling =>
        /\ Current.result = "pending"
        /\ Current.method = "open" <=> Len(log) = 1
        /\ Current.method # "open" => Current.key \in Key
        /\ Current.failed <=> err = Block("err")
        /\ ~Current.failed /\ Current.method \in Getters =>
             value \in Value /\ value = store[Current.key]
        /\ pc = "qtum_err_free" => lang = "cpp" /\ Current.failed /\ Current.method # "open"

(* Before the first call err points to no object, and only C++ leaves it   *)
(* unset; what it then does with it ends in open.                          *)
ErrUnset ==
    /\ pc = "start" => err \in {None, Stray}
    /\ err = Stray => /\ lang = "cpp" /\ pc # "idle"
                      /\ Calling => Current.method = "open"

(* There is a Context, or qtum_context_open has just made one. *)
Opened == pc = "idle" \/ (Calling /\ (Current.method = "open" => ~Current.failed))

(* What the C function has handed over and the binding has to release. *)
InHand ==
    IF pc # "called" THEN {}
    ELSE IF Current.failed THEN ErrorBlocks
    ELSE IF Current.method \in Getters THEN {Block("value")} ELSE {}

(* The context and its call data. *)
Holdings == Context \cup {CallData}

(* Every live block is somebody's, and those to be released are live. *)
LiveIsOwned ==
    /\ pc \notin Fatal =>
         live \subseteq InHand \cup Given \cup Forgotten \cup (IF Opened THEN Holdings ELSE {})
    /\ pc = "panicked" => live \subseteq {err} \cup Forgotten
    /\ Opened => Context \subseteq live
    /\ InHand \subseteq live

FaultsKnown ==
    /\ badFree \/ pc = "died" => SomeCallFailed \/ (lang = "cpp" /\ err = Stray)
    /\ badFree => pc # "start" /\ (lang = "rust" => pc \in Fatal)
    /\ pc = "panicked" => SomeCallFailed \/ ~unicode

(* The store has the value of the last put of the key that succeeded, or   *)
(* of one that failed behind it.                                           *)
PutsOf(k) == {m \in DOMAIN log : log[m].method = "put" /\ log[m].key = k}

StoreIsPut ==
    \A k \in Key : \A m \in PutsOf(k) : ~log[m].failed =>
        \E j \in PutsOf(k) : m <= j /\ log[j].arg = store[k]

Inv ==
    /\ TypeOK
    /\ InCall
    /\ ErrUnset
    /\ LiveIsOwned
    /\ FaultsKnown
    /\ StoreIsPut
    /\ ReadsFindWrites

----------------------------------------------------------------------------
(* A call in progress is the last one of a log that is not empty. *)
LEMMA CurrentType ==
    ASSUME TypeOK, pc \notin {"start", "panicked"}
    PROVE  Len(log) \in Nat \ {0} /\ DOMAIN log = 1 .. Len(log) /\ Len(log) \in DOMAIN log
             /\ Current \in Call
BY DEF TypeOK, Current

(* A new call is the last one, and the earlier ones stay as they are. *)
LEMMA NewCall ==
    ASSUME TypeOK, NEW method \in Methods, NEW key \in Key \cup {None},
           NEW arg \in Value \cup {None}, NEW failed \in BOOLEAN,
           Calls(method, key, arg, failed)
    PROVE  /\ log' \in Seq(Call) /\ log' # <<>> /\ Len(log) \in Nat
           /\ Len(log') = Len(log) + 1
           /\ DOMAIN log = 1 .. Len(log) /\ DOMAIN log' = 1 .. Len(log) + 1
           /\ \A n \in DOMAIN log : log'[n] = log[n]
           /\ Current' = [method |-> method, key |-> key, arg |-> arg,
                          failed |-> failed, result |-> "pending"]
           /\ log'[Len(log) + 1] = Current'
<1> DEFINE call == [method |-> method, key |-> key, arg |-> arg,
                    failed |-> failed, result |-> "pending"]
<1>1. call \in Call
  BY DEF Call, Methods, Results
<1>2. log \in Seq(Call) /\ log' = Append(log, call)
  BY DEF TypeOK, Calls
<1> HIDE DEF call
<1>3. QED
  BY <1>1, <1>2 DEF Current, call

(* A call that returns gets a result, and nothing else changes in the log. *)
LEMMA CallReturns ==
    ASSUME TypeOK, pc \notin {"start", "panicked"}, NEW result \in Value \cup Results, NEW label,
           Return(result, label)
    PROVE  /\ log' \in Seq(Call) /\ log' # <<>>
           /\ Len(log') = Len(log) /\ DOMAIN log' = DOMAIN log
           /\ \A n \in DOMAIN log : n # Len(log) => log'[n] = log[n]
           /\ Current' = [Current EXCEPT !.result = result]
           /\ log'[Len(log)] = Current'
           /\ Current.method = Current'.method /\ Current.key = Current'.key
           /\ Current.arg = Current'.arg /\ Current.failed = Current'.failed
           /\ Current'.result = result
<1>1. Len(log) \in Nat \ {0} /\ log \in Seq(Call)
  BY CurrentType DEF TypeOK
<1>2. log' = [log EXCEPT ![Len(log)].result = result]
  BY DEF Return
<1>3. [log[Len(log)] EXCEPT !.result = result] \in Call
  <2>1. ASSUME NEW c \in Call
        PROVE  [c EXCEPT !.result = result] \in Call
    BY DEF Call
  <2>2. log[Len(log)] \in Call
    BY <1>1
  <2>3. QED
    BY <2>1, <2>2
<1>4. log' \in Seq(Call) /\ Len(log') = Len(log)
  BY <1>1, <1>2, <1>3
<1>5. log'[Len(log)] = [log[Len(log)] EXCEPT !.result = result]
  BY <1>1, <1>2
<1>6. QED
  BY <1>1, <1>2, <1>4, <1>5 DEF Current, Call

----------------------------------------------------------------------------
(* Types of a step that calls a C function. *)
LEMMA CallType ==
    ASSUME TypeOK, Open \/ (\E k \in Key, v \in Value : Put(k, v))
                     \/ (\E m \in Getters, k \in Key : Get(m, k))
    PROVE  TypeOK'
<1>1. ASSUME NEW method \in Methods, NEW key \in Key \cup {None},
             NEW arg \in Value \cup {None}, NEW failed \in BOOLEAN,
             Calls(method, key, arg, failed)
      PROVE  log' \in Seq(Call) /\ log' # <<>> /\ pc' = "called" /\ Len(log) + 1 \in Nat
  <2>1. pc' = "called"
    BY <1>1 DEF Calls
  <2>2. QED
    BY <1>1, <2>1, NewCall
<1>2. ASSUME NEW method \in Methods, NEW key \in Key \cup {None},
             NEW arg \in Value \cup {None}, NEW forgotten \in SUBSET Sites,
             Fails(method, key, arg, forgotten)
      PROVE  /\ log' \in Seq(Call) /\ log' # <<>> /\ pc' = "called"
             /\ err' \in {"err"} \X Nat /\ value' \in Value \cup {None}
             /\ live' \subseteq Sites \X Nat
  <2>1. Calls(method, key, arg, TRUE)
    BY <1>2 DEF Fails
  <2>2. log' \in Seq(Call) /\ log' # <<>> /\ pc' = "called" /\ Len(log) + 1 \in Nat
    BY <1>1, <2>1
  <2>3. NewBlock("err") \in {"err"} \X Nat /\ \A site \in Sites : NewBlock(site) \in Sites \X Nat
    BY <2>2 DEF NewBlock
  <2>4. {"err", "message"} \cup forgotten \subseteq Sites
    BY DEF Sites
  <2>5. QED
    BY <1>2, <2>2, <2>3, <2>4 DEF Fails, TypeOK
<1>3. CASE Open
  <2>1. lang' = lang /\ unicode' = unicode /\ store' = store /\ badFree' = badFree
    BY <1>3 DEF Open
  <2>2. CASE /\ Calls("open", None, None, FALSE) /\ UNCHANGED <<err, value>>
             /\ \E sites \in {{}, {"data"}, {"data", "superseded data"}} :
                  live' = Context \cup {NewBlock(site) : site \in sites}
    <3>1. live' \subseteq Sites \X Nat
      <4>1. <<"ctx", 1>> \in Sites \X Nat /\ <<"db", 1>> \in Sites \X Nat
        BY DEF Sites
      <4>2. PICK sites \in {{}, {"data"}, {"data", "superseded data"}} :
              live' = Context \cup {NewBlock(site) : site \in sites}
        BY <2>2
      <4>3. sites \subseteq Sites
        BY DEF Sites
      <4>4. Len(log) + 1 \in Nat
        BY <1>1, <2>2 DEF Methods
      <4>5. \A site \in Sites : NewBlock(site) \in Sites \X Nat
        BY <4>4 DEF NewBlock
      <4>6. QED
        BY <4>1, <4>2, <4>3, <4>5 DEF Context
    <3>2. log' \in Seq(Call) /\ log' # <<>> /\ pc' = "called"
      BY <1>1, <2>2 DEF Methods
    <3>3. QED
      BY <2>1, <2>2, <3>1, <3>2 DEF TypeOK
  <2>3. CASE \E forgotten \in SUBSET {"superseded data", "leveldb message"} :
               Fails("open", None, None, forgotten)
    <3>1. PICK forgotten \in SUBSET {"superseded data", "leveldb message"} :
            Fails("open", None, None, forgotten)
      BY <2>3
    <3>2. forgotten \in SUBSET Sites
      BY DEF Sites
    <3>3. QED
      BY <1>2, <2>1, <3>1, <3>2 DEF TypeOK, Methods
  <2>4. QED
    BY <1>3, <2>2, <2>3 DEF Open
<1>4. ASSUME NEW k \in Key, NEW v \in Value, Put(k, v)
      PROVE  TypeOK'
  <2>1. lang' = lang /\ unicode' = unicode /\ badFree' = badFree /\ [store EXCEPT ![k] = v] \in [Key -> Value \cup {None}]
    BY <1>4 DEF Put, TypeOK
  <2>2. CASE Calls("put", k, v, FALSE) /\ store' = [store EXCEPT ![k] = v]
               /\ err' = None /\ value' = None /\ UNCHANGED live
    <3>1. log' \in Seq(Call) /\ log' # <<>> /\ pc' = "called"
      BY <1>1, <2>2 DEF Methods
    <3>2. QED
      BY <2>1, <2>2, <3>1 DEF TypeOK
  <2>3. CASE Fails("put", k, v, {"leveldb message"})
               /\ store' \in {store, [store EXCEPT ![k] = v]}
    <3>1. {"leveldb message"} \in SUBSET Sites
      BY DEF Sites
    <3>2. QED
      BY <1>2, <2>1, <2>3, <3>1 DEF TypeOK, Methods
  <2>4. QED
    BY <1>4, <2>2, <2>3 DEF Put
<1>5. ASSUME NEW m \in Getters, NEW k \in Key, Get(m, k)
      PROVE  TypeOK'
  <2>1. lang' = lang /\ unicode' = unicode /\ badFree' = badFree /\ store' = store /\ m \in Methods
    BY <1>5 DEF Get, Getters, Methods
  <2>2. CASE store[k] # None /\ Calls(m, k, None, FALSE) /\ err' = None
               /\ value' = store[k] /\ live' = live \cup {NewBlock("value")}
    <3>1. log' \in Seq(Call) /\ log' # <<>> /\ pc' = "called" /\ Len(log) + 1 \in Nat
      BY <1>1, <2>1, <2>2
    <3>2. NewBlock("value") \in Sites \X Nat /\ store[k] \in Value \cup {None}
      BY <3>1 DEF NewBlock, Sites, TypeOK
    <3>3. QED
      BY <2>1, <2>2, <3>1, <3>2 DEF TypeOK
  <2>3. CASE Fails(m, k, None, {})
             \/ Fails(m, k, None, {"leveldb message", "first err", "first message"})
    <3>1. {} \in SUBSET Sites /\ {"leveldb message", "first err", "first message"} \in SUBSET Sites
      BY DEF Sites
    <3>2. QED
      BY <1>2, <2>1, <2>3, <3>1 DEF TypeOK
  <2>4. QED
    BY <1>5, <2>2, <2>3 DEF Get
<1>6. QED
  BY <1>3, <1>4, <1>5

(* A C function that has set no error has given what the store has. *)
LEMMA GotValue ==
    ASSUME TypeOK, InCall, pc = "called", err = None
    PROVE  /\ ~Current.failed
           /\ Current.method \in Getters => value \in Value /\ value = store[Current.key]
<1>1. Block("err") \in {"err"} \X Nat
  BY CurrentType DEF Block
<1>2. QED
  BY <1>1, BindingsAssumption DEF InCall, Calling

(* The steps of the binding and of the program. *)
Back == \/ ReturnContext \/ ReturnFromPut \/ GetBytes \/ GetString \/ GetAddress \/ GetVec
        \/ ReadStrayError \/ CppError \/ FreeAgain \/ RustError \/ RustPanic
Idle == ArgumentPanic \/ FreeGiven \/ Drop \/ UNCHANGED vars

(* The call in progress returns. *)
Returns(results, labels) ==
    Calling /\ \E result \in results, label \in labels : Return(result, label)

(* A step of the binding returns from the call, or leaves the log alone. *)
LEMMA BackKinds ==
    ASSUME TypeOK, InCall, Back
    PROVE  \/ Returns(Value \cup {"ok", "error"}, {"idle", "closed"})
           \/ Calling /\ pc' \in {"qtum_err_free", "panicked", "died"}
                /\ UNCHANGED <<lang, unicode, log, err, value, store>>
<1>1. Address \subseteq Value /\ AfterError \in {"idle", "closed"}
  BY DEF Value, AfterError
<1>2. CASE ReturnContext \/ ReturnFromPut
  BY <1>2 DEF ReturnContext, ReturnFromPut, Returned, Returns, Calling
<1>3. CASE GetBytes \/ GetString \/ GetAddress \/ GetVec
  <2>1. Current.method \in Getters /\ pc = "called" /\ err = None
    BY <1>3 DEF GetBytes, GetString, GetAddress, GetVec, Returned, Getters
  <2>2. value \in Value
    BY <2>1, GotValue
  <2>3. QED
    BY <1>3, <2>1, <2>2 DEF GetBytes, GetString, GetAddress, GetVec, Returns, Calling
<1>4. CASE ReadStrayError
  BY <1>1, <1>4 DEF ReadStrayError, Calling, Returns
<1>5. CASE CppError
  BY <1>5 DEF CppError, Failed, Calling, Returns
<1>6. CASE FreeAgain
  BY <1>6 DEF FreeAgain, Calling, Returns
<1>7. CASE RustError
  BY <1>1, <1>7 DEF RustError, Failed, Calling, Returns
<1>8. CASE RustPanic
  BY <1>8 DEF RustPanic, Failed, Calling
<1>9. QED
  BY <1>2, <1>3, <1>4, <1>5, <1>6, <1>7, <1>8 DEF Back

(* Steps of the binding and of the program release, and acquire nothing. *)
LEMMA OnlyReleases ==
    ASSUME TypeOK, Back \/ Idle
    PROVE  live' \subseteq live /\ badFree' \in BOOLEAN /\ UNCHANGED <<lang, unicode, err, value, store>>
<1>1. live' \subseteq live /\ badFree' \in BOOLEAN
  BY DEF Back, Idle, ReturnContext, ReturnFromPut, GetBytes, GetString, GetAddress, GetVec,
       ReadStrayError, CppError, FreeAgain, RustError, RustPanic, ArgumentPanic, FreeGiven, Drop, vars,
       Free, Keep, TypeOK
<1>2. UNCHANGED <<lang, unicode, err, value, store>>
  BY DEF Back, Idle, ReturnContext, ReturnFromPut, GetBytes, GetString, GetAddress, GetVec,
       ReadStrayError, CppError, FreeAgain, RustError, RustPanic, ArgumentPanic, FreeGiven, Drop, vars, Return
<1>3. QED
  BY <1>1, <1>2

(* Types of every step. *)
LEMMA TypeStep == TypeOK /\ InCall /\ [Next]_vars => TypeOK'
<1> SUFFICES ASSUME TypeOK, InCall, [Next]_vars
             PROVE  TypeOK'
  OBVIOUS
<1>1. CASE Back \/ Idle
  <2>1. /\ live' \subseteq Sites \X Nat /\ badFree' \in BOOLEAN
        /\ UNCHANGED <<lang, unicode, err, value, store>>
    BY <1>1, OnlyReleases DEF TypeOK
  <2>2. CASE Returns(Value \cup {"ok", "error"}, {"idle", "closed"})
    <3>1. PICK result \in Value \cup {"ok", "error"}, label \in {"idle", "closed"} :
            Return(result, label)
      BY <2>2 DEF Returns
    <3>2. pc \notin {"start", "panicked"} /\ pc' = label /\ result \in Value \cup Results
      BY <2>2, <3>1 DEF Returns, Calling, Return, Results
    <3>3. log' \in Seq(Call) /\ log' # <<>>
      BY <3>1, <3>2, CallReturns
    <3>4. QED
      BY <2>1, <3>1, <3>2, <3>3 DEF TypeOK
  <2>3. CASE Calling /\ pc' \in {"qtum_err_free", "panicked", "died"} /\ log' = log
    BY <2>1, <2>3 DEF TypeOK, Calling
  <2>4. CASE Idle
    BY <2>1, <2>4 DEF TypeOK, Idle, ArgumentPanic, FreeGiven, Drop, vars
  <2>5. QED
    BY <1>1, <2>2, <2>3, <2>4, BackKinds
<1>2. QED
  BY <1>1, CallType DEF Next, Back, Idle, Getters

----------------------------------------------------------------------------
(* A call that succeeds, and one that fails, as the binding finds them. *)
LEMMA CallSeen ==
    ASSUME TypeOK, NEW method \in Methods, NEW key \in Key \cup {None},
           NEW arg \in Value \cup {None}, NEW failed \in BOOLEAN,
           Calls(method, key, arg, failed)
    PROVE  /\ Current'.method = method /\ Current'.key = key /\ Current'.arg = arg
           /\ Current'.failed = failed /\ Current'.result = "pending"
           /\ pc' = "called" /\ Len(log') = Len(log) + 1 /\ Len(log) \in Nat
           /\ \A site \in Sites : Block(site)' = NewBlock(site)
<1>1. /\ Len(log') = Len(log) + 1 /\ Len(log) \in Nat
      /\ Current' = [method |-> method, key |-> key, arg |-> arg,
                     failed |-> failed, result |-> "pending"]
  BY NewCall
<1>2. pc' = "called"
  BY DEF Calls
<1>3. QED
  BY <1>1, <1>2 DEF Block, NewBlock

(* An error object is neither NULL nor unset. *)
LEMMA ErrorIsSet ==
    ASSUME TypeOK
    PROVE  NewBlock("err") \notin {None, Stray} /\ (pc # "start" => Block("err") \notin {None, Stray})
<1>1. Len(log) \in Nat /\ Len(log) + 1 \in Nat
  BY DEF TypeOK
<1>2. NewBlock("err") \in {"err"} \X Nat /\ Block("err") \in {"err"} \X Nat
  BY <1>1 DEF NewBlock, Block
<1>3. QED
  BY <1>2, BindingsAssumption

(* What is known of the call in progress stays true. *)
LEMMA InCallStep == TypeOK /\ InCall /\ ErrUnset /\ [Next]_vars => InCall' /\ ErrUnset'
<1> SUFFICES ASSUME TypeOK, InCall, ErrUnset, [Next]_vars
             PROVE  InCall' /\ ErrUnset'
  OBVIOUS
<1>1. ASSUME NEW method \in Methods, NEW key \in Key \cup {None},
             NEW arg \in Value \cup {None}, NEW forgotten,
             Fails(method, key, arg, forgotten), lang' = lang,
             method = "open" <=> Len(log) = 0, method # "open" => key \in Key
      PROVE  InCall' /\ ErrUnset'
  <2>1. Calls(method, key, arg, TRUE) /\ err' = NewBlock("err")
    BY <1>1 DEF Fails
  <2>2. /\ Current'.method = method /\ Current'.key = key /\ Current'.failed
        /\ Current'.result = "pending" /\ pc' = "called"
        /\ Len(log') = Len(log) + 1 /\ Len(log) \in Nat
    BY <1>1, <2>1, CallSeen
  <2>3. err' = Block("err")' /\ err' # Stray
    BY <2>1, <2>2, ErrorIsSet DEF Block, NewBlock
  <2>4. QED
    BY <1>1, <2>2, <2>3 DEF InCall, ErrUnset, Calling
<1>2. ASSUME NEW method \in Methods, NEW key \in Key \cup {None},
             NEW arg \in Value \cup {None},
             Calls(method, key, arg, FALSE), lang' = lang,
             method = "open" <=> Len(log) = 0, method # "open" => key \in Key,
             err' \in {None, Stray}, err' = Stray => lang = "cpp" /\ method = "open",
             method \in Getters => value' \in Value /\ value' = store'[key]
      PROVE  InCall' /\ ErrUnset'
  <2>1. /\ Current'.method = method /\ Current'.key = key /\ ~Current'.failed
        /\ Current'.result = "pending" /\ pc' = "called"
        /\ Len(log') = Len(log) + 1 /\ Len(log) \in Nat
    BY <1>2, CallSeen
  <2>2. err' # Block("err")'
    BY <1>2, <2>1, ErrorIsSet DEF Block, NewBlock
  <2>3. QED
    BY <1>2, <2>1, <2>2 DEF InCall, ErrUnset, Calling
<1>3. CASE Open
  <2>1. Len(log) = 0 /\ err \in {None, Stray} /\ lang' = lang /\ pc = "start"
    BY <1>3 DEF Open, TypeOK, ErrUnset
  <2>2. "open" \in Methods /\ "open" \notin Getters
    BY DEF Methods, Getters
  <2>3. QED
    BY <1>1, <1>2, <1>3, <2>1, <2>2 DEF Open, ErrUnset
<1>4. ASSUME pc = "idle"
      PROVE  Len(log) # 0
  BY <1>4 DEF TypeOK
<1>5. ASSUME NEW k \in Key, NEW v \in Value, Put(k, v)
      PROVE  InCall' /\ ErrUnset'
  <2>1. Len(log) # 0 /\ lang' = lang
    BY <1>4, <1>5 DEF Put, Ready
  <2>2. "put" \in Methods /\ "put" \notin Getters /\ None # Stray
    BY BindingsAssumption DEF Methods, Getters
  <2>3. QED
    BY <1>1, <1>2, <1>5, <2>1, <2>2 DEF Put
<1>6. ASSUME NEW m \in Getters, NEW k \in Key, Get(m, k)
      PROVE  InCall' /\ ErrUnset'
  <2>1. Len(log) # 0 /\ lang' = lang /\ store' = store
    BY <1>4, <1>6 DEF Get, Ready
  <2>2. m \in Methods /\ m # "open" /\ None # Stray
    BY BindingsAssumption DEF Methods, Getters
  <2>3. store[k] \in Value \cup {None}
    BY DEF TypeOK
  <2>4. CASE store[k] # None /\ Calls(m, k, None, FALSE) /\ err' = None /\ value' = store[k]
    BY <1>2, <2>1, <2>2, <2>3, <2>4
  <2>5. CASE \E forgotten : Fails(m, k, None, forgotten)
    BY <1>1, <2>1, <2>2, <2>5
  <2>6. QED
    BY <1>6, <2>4, <2>5 DEF Get
<1>7. CASE Back
  <2>1. /\ UNCHANGED <<lang, unicode, err, value, store>> /\ pc # "start" /\ pc' # "start"
        /\ pc' # "called"
        /\ pc' = "qtum_err_free" => log' = log
    BY <1>7, OnlyReleases, BackKinds DEF Returns, Return, Calling
  <2>2. CASE pc' = "qtum_err_free"
    <3>1. CppError
      BY <1>7, <2>2 DEF Back, ReturnContext, ReturnFromPut, GetBytes, GetString, GetAddress, GetVec,
           ReadStrayError, FreeAgain, RustError, RustPanic, Return, AfterError
    <3>2. lang = "cpp" /\ pc = "called" /\ Current.method # "open" /\ Current.failed
      BY <2>2, <3>1 DEF CppError, Failed, InCall, Calling, Return
    <3>3. Current' = Current /\ Block("err")' = Block("err")
      BY <2>1, <2>2 DEF Current, Block
    <3>4. QED
      BY <2>1, <2>2, <3>2, <3>3 DEF InCall, ErrUnset, Calling
  <2>3. CASE pc' # "qtum_err_free"
    <3>1. Calling
      BY <1>7, BackKinds DEF Returns
    <3>2. err = Stray => pc' # "idle"
      <4>1. CASE pc = "called" /\ err = None
        BY <4>1, BindingsAssumption
      <4>2. CASE ReadStrayError
        BY <3>1, <4>2 DEF ReadStrayError, Return, AfterError, ErrUnset
      <4>3. CASE Current.failed
        BY <3>1, <4>3, ErrorIsSet DEF InCall, Calling
      <4>4. CASE Failed
        BY <4>4, ErrorIsSet DEF Failed
      <4>5. QED
        BY <1>7, <3>1, <4>1, <4>2, <4>3, <4>4 DEF Back, ReturnContext, ReturnFromPut, GetBytes,
           GetString, GetAddress, GetVec, Returned, CppError, FreeAgain, RustError, RustPanic,
           InCall
    <3>3. QED
      BY <2>1, <2>3, <3>1, <3>2 DEF InCall, ErrUnset, Calling
  <2>4. QED
    BY <2>2, <2>3
<1>8. CASE ArgumentPanic \/ FreeGiven \/ Drop
  BY <1>8 DEF ArgumentPanic, FreeGiven, Drop, InCall, ErrUnset, Calling
<1>9. CASE UNCHANGED vars
  BY <1>9 DEF vars, InCall, ErrUnset, Calling, Current, Block
<1>10. QED
  BY <1>3, <1>5, <1>6, <1>7, <1>8, <1>9 DEF Next, Back, Getters

----------------------------------------------------------------------------
(* The log only grows: a call keeps its method, its outcome and, once it   *)
(* has one, its result.                                                    *)
LogGrows ==
    \A n \in DOMAIN log :
        /\ n \in DOMAIN log'
        /\ log'[n].method = log[n].method /\ log'[n].failed = log[n].failed
        /\ log[n].result = log'[n].result \/ log[n].result = "pending"

(* What was given or forgotten remains so, and a failed call failed. *)
LEMMA GrowingLog ==
    ASSUME LogGrows, lang' = lang
    PROVE  Given \subseteq Given' /\ Forgotten \subseteq Forgotten' /\ (SomeCallFailed => SomeCallFailed')
<1>1. Given \subseteq Given'
  BY DEF LogGrows, Given
<1>2. Forgotten \subseteq Forgotten'
  <2>1. ASSUME NEW n \in DOMAIN log
        PROVE  n \in DOMAIN log' /\ Forgets(log[n]) \subseteq Forgets(log'[n])
    BY DEF LogGrows, Forgets
  <2>2. QED
    BY <2>1 DEF Forgotten
<1>3. SomeCallFailed => SomeCallFailed'
  BY DEF SomeCallFailed, LogGrows
<1>4. QED
  BY <1>1, <1>2, <1>3

(* The log grows by a call. *)
LEMMA CallGrows ==
    ASSUME TypeOK, NEW method \in Methods, NEW key \in Key \cup {None},
           NEW arg \in Value \cup {None}, NEW failed \in BOOLEAN,
           Calls(method, key, arg, failed)
    PROVE  LogGrows /\ Len(log') \in DOMAIN log' /\ log'[Len(log')] = Current'
BY NewCall DEF LogGrows

(* The log grows by the result of the call that returns. *)
LEMMA ReturnGrows ==
    ASSUME TypeOK, InCall, Calling, NEW result \in Value \cup Results, NEW label,
           Return(result, label)
    PROVE  LogGrows /\ DOMAIN log' = DOMAIN log /\ Len(log) \in DOMAIN log' /\ log'[Len(log)] = Current'
<1>1. pc \notin {"start", "panicked"} /\ log[Len(log)].result = "pending" /\ log[Len(log)] = Current
  BY DEF Calling, InCall, Current
<1>2. QED
  BY <1>1, CallReturns, CurrentType DEF LogGrows

----------------------------------------------------------------------------
(* The context's blocks are not those of any later call. *)
LEMMA ContextApart ==
    /\ \A n : /\ <<"value", n>> \notin Holdings /\ <<"err", n>> \notin Holdings
              /\ <<"message", n>> \notin Holdings
    /\ Holdings \cap InHand = {} /\ Holdings \cap Given = {} /\ Holdings \cap ErrorBlocks = {}
    /\ Context \subseteq Holdings /\ Context \subseteq Held
    /\ Held \subseteq Holdings /\ Holdings \cap live \subseteq Held
BY DEF Context, CallData, Holdings, Held, InHand, ErrorBlocks, Block, Given

(* What the calls of the log forget is forgotten. *)
LEMMA ForgottenNext ==
    \A n \in DOMAIN log' : \A site \in Forgets(log'[n]) : <<site, n>> \in Forgotten'
BY DEF Forgotten

(* The first call is number one. *)
LEMMA FirstBlock == ASSUME TypeOK, pc = "start" PROVE NewBlock("data") = CallData
<1>1. log = <<>>
  BY DEF TypeOK
<1>2. Len(log) + 1 = 1
  BY <1>1
<1>3. QED
  BY <1>2 DEF NewBlock, CallData

(* A failing call hands over an error object and forgets the rest. *)
LEMMA FailsLive ==
    ASSUME TypeOK, LiveIsOwned, pc \in {"start", "idle"}, lang' = lang,
           NEW method \in Methods, NEW key \in Key \cup {None}, NEW arg \in Value \cup {None},
           NEW forgotten \in SUBSET {"superseded data", "leveldb message", "first err", "first message"},
           Fails(method, key, arg, forgotten), method = "open" <=> pc = "start"
    PROVE  LiveIsOwned'
<1>1. Calls(method, key, arg, TRUE)
  BY DEF Fails
<1>2. /\ Current'.method = method /\ Current'.failed /\ pc' = "called"
      /\ Len(log') = Len(log) + 1
      /\ \A site \in Sites : Block(site)' = NewBlock(site)
  BY <1>1, CallSeen
<1>3. LogGrows /\ Len(log') \in DOMAIN log' /\ log'[Len(log')] = Current'
  BY <1>1, CallGrows
<1>4. Given \subseteq Given' /\ Forgotten \subseteq Forgotten'
  BY <1>3, GrowingLog
<1>5. {NewBlock(site) : site \in forgotten} \subseteq Forgotten'
  <2>1. forgotten \subseteq Forgets(log'[Len(log')])
    BY <1>2, <1>3 DEF Forgets
  <2>2. \A site \in forgotten : NewBlock(site) = <<site, Len(log')>>
    BY <1>2 DEF NewBlock
  <2>3. QED
    BY <1>3, <2>1, <2>2, ForgottenNext
<1>6. InHand' = {NewBlock("err"), NewBlock("message")}
  BY <1>2 DEF InHand, ErrorBlocks, Sites
<1>7. live' = live \cup {NewBlock("err"), NewBlock("message")} \cup {NewBlock(site) : site \in forgotten}
  BY DEF Fails
<1>8. Opened' <=> method # "open"
  BY <1>2 DEF Opened, Calling
<1>9. InHand = {} /\ (Opened <=> method # "open")
  BY DEF InHand, Opened, Calling
<1>10. QED
  BY <1>2, <1>4, <1>5, <1>6, <1>7, <1>8, <1>9 DEF LiveIsOwned, Fatal

(* A call that succeeds hands over the context, a value, or nothing. *)
LEMMA SucceedsLive ==
    ASSUME TypeOK, LiveIsOwned, pc \in {"start", "idle"}, lang' = lang,
           NEW method \in Methods, NEW key \in Key \cup {None}, NEW arg \in Value \cup {None},
           Calls(method, key, arg, FALSE), method = "open" <=> pc = "start",
           method = "open" => \E sites \in SUBSET {"data", "superseded data"} :
                                live' = Context \cup {NewBlock(site) : site \in sites},
           method \in Getters => live' = live \cup {NewBlock("value")},
           method = "put" => live' = live
    PROVE  LiveIsOwned'
<1>1. /\ Current'.method = method /\ ~Current'.failed /\ pc' = "called"
      /\ \A site \in Sites : Block(site)' = NewBlock(site)
      /\ Len(log') = Len(log) + 1 /\ Len(log) \in Nat
  BY CallSeen
<1>2. LogGrows /\ Len(log') \in DOMAIN log' /\ Given \subseteq Given' /\ Forgotten \subseteq Forgotten'
  BY CallGrows, GrowingLog
<1>3. InHand' = IF method \in Getters THEN {NewBlock("value")} ELSE {}
  BY <1>1 DEF InHand, Sites
<1>4. Opened' /\ (Opened <=> method # "open") /\ InHand = {} /\ "open" \notin Getters /\ "put" \notin Getters
  BY <1>1 DEF Opened, Calling, InHand, Getters
<1>5. CASE method = "open"
  <2>1. PICK sites \in SUBSET {"data", "superseded data"} :
          live' = Context \cup {NewBlock(site) : site \in sites}
    BY <1>5
  <2>2. pc = "start"
    BY <1>5
  <2>3. NewBlock("data") = CallData
    BY <2>2, FirstBlock
  <2>4. NewBlock("superseded data") \in Forgotten'
    <3>1. "superseded data" \in Forgets(log'[Len(log')])
      BY DEF Forgets
    <3>2. NewBlock("superseded data") = <<"superseded data", Len(log')>>
      BY <1>1 DEF NewBlock
    <3>3. QED
      BY <1>2, <3>1, <3>2, ForgottenNext
  <2>5. live' \subseteq Holdings \cup Forgotten' /\ Context \subseteq live'
    BY <2>1, <2>3, <2>4 DEF Holdings
  <2>6. QED
    BY <1>1, <1>3, <1>4, <1>5, <2>5 DEF LiveIsOwned, Fatal
<1>6. CASE method # "open"
  <2>1. method \in Getters \/ method = "put"
    BY <1>6 DEF Methods, Getters
  <2>2. QED
    BY <1>1, <1>2, <1>3, <1>4, <1>6, <2>1 DEF LiveIsOwned, Fatal
<1>7. QED
  BY <1>5, <1>6

(* The binding returns: what it had in hand is released, given or forgotten. *)
LEMMA ReturnLive ==
    ASSUME TypeOK, InCall, LiveIsOwned, Calling, NEW result \in Value \cup Results,
           NEW label \in {"idle", "closed"}, Return(result, label), label = "idle" <=> Opened,
           live' \subseteq live, Context \cap live \subseteq live',
           InHand \cap live' \subseteq Given' \cup Forgotten'
    PROVE  LiveIsOwned'
<1>1. lang' = lang /\ pc' = label
  BY DEF Return
<1>2. Given \subseteq Given' /\ Forgotten \subseteq Forgotten'
  BY <1>1, ReturnGrows, GrowingLog
<1>3. InHand' = {} /\ (Opened' <=> Opened)
  BY <1>1 DEF InHand, Opened, Calling
<1>4. pc \notin Fatal /\ pc' \notin Fatal
  BY <1>1 DEF Calling, Fatal
<1>5. QED
  BY <1>2, <1>3, <1>4 DEF LiveIsOwned, Fatal

(* Every live block stays somebody's. *)
LEMMA LiveStep == TypeOK /\ InCall /\ ErrUnset /\ LiveIsOwned /\ [Next]_vars => LiveIsOwned'
<1> SUFFICES ASSUME TypeOK, InCall, ErrUnset, LiveIsOwned, [Next]_vars
             PROVE  LiveIsOwned'
  OBVIOUS
<1>1. CASE Open
  <2>1. pc = "start" /\ lang' = lang /\ "open" \in Methods
    BY <1>1 DEF Open, Methods
  <2>2. CASE /\ Calls("open", None, None, FALSE)
             /\ \E sites \in {{}, {"data"}, {"data", "superseded data"}} :
                  live' = Context \cup {NewBlock(site) : site \in sites}
    <3>1. \E sites \in SUBSET {"data", "superseded data"} :
            live' = Context \cup {NewBlock(site) : site \in sites}
      BY <2>2
    <3>2. "open" # "put" /\ "open" \notin Getters
      BY DEF Getters
    <3>3. QED
      BY <2>1, <2>2, <3>1, <3>2, SucceedsLive
  <2>3. CASE \E forgotten \in SUBSET {"superseded data", "leveldb message"} :
               Fails("open", None, None, forgotten)
    <3>1. PICK forgotten \in SUBSET {"superseded data", "leveldb message"} :
            Fails("open", None, None, forgotten)
      BY <2>3
    <3>2. forgotten \in SUBSET {"superseded data", "leveldb message", "first err", "first message"}
      OBVIOUS
    <3>3. QED
      BY <2>1, <3>1, <3>2, FailsLive
  <2>4. QED
    BY <1>1, <2>2, <2>3 DEF Open
<1>2. ASSUME NEW k \in Key, NEW v \in Value, Put(k, v)
      PROVE  LiveIsOwned'
  <2>1. pc = "idle" /\ lang' = lang /\ "put" \in Methods /\ "put" \notin Getters
    BY <1>2 DEF Put, Ready, Methods, Getters
  <2>2. CASE Calls("put", k, v, FALSE) /\ live' = live
    BY <2>1, <2>2, SucceedsLive
  <2>3. CASE Fails("put", k, v, {"leveldb message"})
    BY <2>1, <2>3, FailsLive
  <2>4. QED
    BY <1>2, <2>2, <2>3 DEF Put
<1>3. ASSUME NEW m \in Getters, NEW k \in Key, Get(m, k)
      PROVE  LiveIsOwned'
  <2>1. pc = "idle" /\ lang' = lang /\ m \in Methods /\ m # "open" /\ m # "put"
    BY <1>3 DEF Get, Ready, Methods, Getters
  <2>2. CASE Calls(m, k, None, FALSE) /\ live' = live \cup {NewBlock("value")}
    BY <2>1, <2>2, SucceedsLive
  <2>3. CASE \/ Fails(m, k, None, {})
             \/ Fails(m, k, None, {"leveldb message", "first err", "first message"})
    BY <2>1, <2>3, FailsLive
  <2>4. QED
    BY <1>3, <2>2, <2>3 DEF Get
<1>4. "ok" \in Results /\ "error" \in Results /\ Value \subseteq Value \cup Results
  BY DEF Results
<1>5. CASE ReturnContext \/ ReturnFromPut
  <2>1. pc = "called" /\ err = None /\ Current.method \in {"open", "put"} /\ Return("ok", "idle")
        /\ live' = live
    BY <1>5 DEF ReturnContext, ReturnFromPut, Returned, Keep
  <2>2. ~Current.failed
    BY <2>1, GotValue
  <2>3. Calling /\ Opened /\ InHand = {}
    BY <2>1, <2>2 DEF Calling, Opened, InHand, Getters
  <2>4. QED
    BY <1>4, <2>1, <2>3, ReturnLive
<1>6. ASSUME pc = "called", err = None, Current.method \in Getters
      PROVE  Calling /\ Opened /\ InHand = {Block("value")} /\ value \in Value
               /\ {Block("value")} \cap Context = {}
  <2>1. ~Current.failed /\ value \in Value
    BY <1>6, GotValue
  <2>2. QED
    BY <1>6, <2>1, ContextApart DEF Calling, Opened, InHand, Getters, Block
<1>7. CASE GetBytes
  <2>1. pc = "called" /\ err = None /\ Current.method = "get" /\ Return(value, "idle")
        /\ live' = live /\ lang = "cpp"
    BY <1>7 DEF GetBytes, Returned, Keep
  <2>2. Block("value") \in Given
    BY <2>1, CurrentType DEF Given, Block, Current
  <2>3. Calling /\ Opened /\ InHand = {Block("value")} /\ value \in Value
    BY <1>6, <2>1 DEF Getters
  <2>4. Given \subseteq Given'
    BY <2>1, <2>3, ReturnGrows, GrowingLog DEF Return
  <2>5. QED
    BY <2>1, <2>2, <2>3, <2>4, ReturnLive
<1>8. ASSUME pc = "called", err = None, Current.method \in Getters, Return(value, "idle"),
             Free({Block("value")})
      PROVE  LiveIsOwned'
  <2>1. live' = live \ {Block("value")}
    BY <1>8 DEF Free
  <2>2. QED
    BY <1>6, <1>8, <2>1, ReturnLive
<1>9. ASSUME pc = "called", err = None, Current.method = "getAddress", Return("error", "idle"), Keep
      PROVE  LiveIsOwned'
  <2>1. Calling /\ Opened /\ InHand = {Block("value")} /\ ~Current.failed
    BY <1>6, <1>9, GotValue DEF Getters
  <2>2. /\ Current'.method = "getAddress" /\ ~Current'.failed /\ Current'.result = "error"
        /\ Len(log) \in DOMAIN log' /\ log'[Len(log)] = Current' /\ Len(log') = Len(log)
    BY <1>4, <1>9, <2>1, CallReturns, ReturnGrows DEF Calling
  <2>3. "value" \in Forgets(log'[Len(log)]) /\ Block("value") = <<"value", Len(log)>>
    BY <2>2 DEF Forgets, Block
  <2>4. Block("value") \in Forgotten'
    BY <2>2, <2>3 DEF Forgotten
  <2>5. live' = live
    BY <1>9 DEF Keep
  <2>6. QED
    BY <1>4, <1>9, <2>1, <2>4, <2>5, ReturnLive
<1>10. CASE GetString \/ GetAddress \/ GetVec
  <2>1. Address \subseteq Value
    BY DEF Value
  <2>2. QED
    BY <1>8, <1>9, <1>10 DEF GetString, GetAddress, GetVec, Returned, Getters
<1>11. CASE ReadStrayError
  <2>1. CASE pc' = "died"
    BY <1>11, <2>1 DEF LiveIsOwned, Opened, Calling, InHand, Fatal
  <2>2. CASE pc' # "died"
    <3>1. Calling /\ Current.method = "open" /\ ~Current.failed /\ Len(log) = 1 /\ pc = "called"
      BY <1>11, ErrorIsSet DEF ReadStrayError, Calling, InCall, ErrUnset
    <3>2. Return("error", "closed") /\ live' \subseteq live
      BY <1>11, <2>2, <3>1 DEF ReadStrayError, AfterError
    <3>3. /\ Current'.method = "open" /\ ~Current'.failed /\ Current'.result = "error"
          /\ 1 \in DOMAIN log' /\ log'[1] = Current'
      BY <1>4, <3>1, <3>2, CallReturns, ReturnGrows DEF Calling
    <3>4. Forgets(log'[1]) = {"superseded data", "ctx", "db", "data"}
      BY <3>3 DEF Forgets
    <3>5. Holdings \subseteq Forgotten'
      BY <3>3, <3>4, ForgottenNext DEF Holdings, Context, CallData
    <3>6. Given \subseteq Given' /\ Forgotten \subseteq Forgotten'
      BY <1>4, <3>1, <3>2, ReturnGrows, GrowingLog DEF Return
    <3>7. InHand = {} /\ InHand' = {} /\ ~Opened' /\ pc' = "closed"
      BY <3>1, <3>2 DEF InHand, Opened, Calling, Getters, Return
    <3>8. QED
      BY <3>1, <3>2, <3>5, <3>6, <3>7 DEF LiveIsOwned, Fatal
  <2>3. QED
    BY <2>1, <2>2
<1>12. ASSUME Calling, Current.failed, NEW label \in {"idle", "closed"},
              Return("error", label), label = "idle" <=> Current.method # "open",
              Free(ErrorBlocks)
       PROVE  LiveIsOwned'
  <2>1. live' = live \ ErrorBlocks
    BY <1>12 DEF Free
  <2>2. label = "idle" <=> Opened
    BY <1>12 DEF Opened, Calling
  <2>3. InHand \subseteq ErrorBlocks /\ ErrorBlocks \cap Context = {}
    BY <1>12, ContextApart DEF InHand
  <2>4. QED
    BY <1>4, <1>12, <2>1, <2>2, <2>3, ReturnLive
<1>13. ASSUME Failed
       PROVE  Calling /\ Current.failed /\ pc = "called" /\ InHand = ErrorBlocks
  BY <1>13 DEF Failed, InCall, Calling, InHand
<1>14. CASE CppError
  <2>1. CASE Current.method = "open"
    BY <1>12, <1>13, <1>14, <2>1 DEF CppError
  <2>2. CASE Current.method # "open"
    <3>1. /\ pc' = "qtum_err_free" /\ UNCHANGED <<lang, unicode, log, err, value, store>>
          /\ live' = live \ ErrorBlocks
      BY <1>14, <2>2 DEF CppError, Free
    <3>2. Opened /\ Opened' /\ InHand' = {} /\ Given' = Given /\ Forgotten' = Forgotten
      BY <1>13, <1>14, <2>2, <3>1 DEF CppError, Opened, Calling, Current, InHand, Given, Forgotten
    <3>3. InHand = ErrorBlocks /\ Context \cap ErrorBlocks = {} /\ pc = "called"
      BY <1>13, <1>14, ContextApart DEF CppError
    <3>4. QED
      BY <3>1, <3>2, <3>3 DEF LiveIsOwned, Fatal
  <2>3. QED
    BY <2>1, <2>2
<1>15. CASE FreeAgain
  <2>1. Calling /\ Current.failed /\ Current.method # "open"
    BY <1>15 DEF FreeAgain, InCall, Calling
  <2>2. CASE Return("error", "idle")
    BY <1>12, <1>15, <2>1, <2>2 DEF FreeAgain
  <2>3. CASE pc' = "died"
    BY <2>3 DEF LiveIsOwned, Opened, Calling, InHand, Fatal
  <2>4. QED
    BY <1>15, <2>2, <2>3 DEF FreeAgain
<1>16. CASE RustError
  BY <1>12, <1>13, <1>16 DEF RustError, AfterError
<1>17. CASE RustPanic
  <2>1. /\ pc' \in Fatal /\ UNCHANGED <<lang, log, err>> /\ lang = "rust" /\ err = Block("err")
        /\ live' = live \ ({Block("message")} \cup Held)
    BY <1>17 DEF RustPanic, Failed, Fatal
  <2>2. Given = {} /\ Forgotten' = Forgotten
    BY <2>1 DEF Given, Forgotten
  <2>3. InHand = {err, Block("message")} /\ pc \notin Fatal
    BY <1>13, <1>17, <2>1 DEF RustPanic, ErrorBlocks, Fatal
  <2>4. ~Opened' /\ InHand' = {}
    BY <2>1 DEF Opened, Calling, InHand, Fatal
  <2>5. QED
    BY <2>1, <2>2, <2>3, <2>4, ContextApart DEF LiveIsOwned
<1>18. CASE FreeGiven \/ Drop
  <2>1. pc = "idle" /\ pc' \in {"idle", "closed"} /\ UNCHANGED <<lang, log>>
    BY <1>18 DEF FreeGiven, Drop
  <2>2. Opened /\ InHand = {} /\ InHand' = {} /\ Given' = Given /\ Forgotten' = Forgotten
        /\ (Opened' <=> pc' = "idle")
    BY <2>1 DEF Opened, Calling, InHand, Given, Forgotten
  <2>3. \/ pc' = "idle" /\ live' \subseteq live /\ Context \cap live = Context \cap live'
        \/ pc' = "closed" /\ live' = live \ Held
    BY <1>18, <2>1, ContextApart DEF FreeGiven, Drop, Free
  <2>4. QED
    BY <2>1, <2>2, <2>3, ContextApart DEF LiveIsOwned, Fatal
<1>19. CASE UNCHANGED vars
  <2>1. /\ Opened' = Opened /\ InHand' = InHand /\ Given' = Given /\ Forgotten' = Forgotten
        /\ UNCHANGED <<pc, err, live>>
    BY <1>19 DEF vars, Opened, Calling, InHand, Current, Given, Forgotten,
         ErrorBlocks, Block
  <2>2. QED
    BY <2>1 DEF LiveIsOwned
<1>20. CASE ArgumentPanic
  <2>1. pc = "start" /\ pc' = "panicked" /\ UNCHANGED <<lang, log, live>>
    BY <1>20 DEF ArgumentPanic
  <2>2. Given = {} /\ Forgotten = {}
    BY <2>1 DEF TypeOK, Given, Forgotten
  <2>3. InHand = {} /\ InHand' = {} /\ ~Opened /\ ~Opened'
    BY <2>1 DEF InHand, Opened, Calling
  <2>4. QED
    BY <2>1, <2>2, <2>3 DEF LiveIsOwned, Fatal
<1>21. QED
  BY <1>1, <1>2, <1>3, <1>5, <1>7, <1>10, <1>11, <1>14, <1>15, <1>16, <1>17, <1>18, <1>19, <1>20
     DEF Next, Getters

----------------------------------------------------------------------------
(* A step that calls a C function. *)
MakesCall(method, key, arg, failed) ==
    /\ pc \in {"start", "idle"} /\ UNCHANGED <<lang, badFree>>
    /\ Calls(method, key, arg, failed)

(* Open, Put and Get are such steps. *)
LEMMA CallKinds ==
    ASSUME \/ Open \/ (\E k \in Key, v \in Value : Put(k, v))
           \/ (\E m \in Getters, k \in Key : Get(m, k))
    PROVE  \E method \in Methods, key \in Key \cup {None}, arg \in Value \cup {None},
              failed \in BOOLEAN : MakesCall(method, key, arg, failed)
<1>1. CASE Open
  <2>1. MakesCall("open", None, None, FALSE) \/ MakesCall("open", None, None, TRUE)
    BY <1>1 DEF Open, Fails, MakesCall
  <2>2. QED
    BY <2>1 DEF Methods
<1>2. ASSUME NEW k \in Key, NEW v \in Value, Put(k, v)
      PROVE  \E method \in Methods, key \in Key \cup {None}, arg \in Value \cup {None},
              failed \in BOOLEAN : MakesCall(method, key, arg, failed)
  <2>1. MakesCall("put", k, v, FALSE) \/ MakesCall("put", k, v, TRUE)
    BY <1>2 DEF Put, Ready, Fails, MakesCall
  <2>2. QED
    BY <2>1 DEF Methods
<1>3. ASSUME NEW m \in Getters, NEW k \in Key, Get(m, k)
      PROVE  \E method \in Methods, key \in Key \cup {None}, arg \in Value \cup {None},
              failed \in BOOLEAN : MakesCall(method, key, arg, failed)
  <2>1. MakesCall(m, k, None, FALSE) \/ MakesCall(m, k, None, TRUE)
    BY <1>3 DEF Get, Ready, Fails, MakesCall
  <2>2. QED
    BY <2>1 DEF Methods, Getters
<1>4. QED
  BY <1>1, <1>2, <1>3

(* The log never shrinks. *)
LEMMA LogStep ==
    ASSUME TypeOK, InCall, [Next]_vars
    PROVE  /\ LogGrows /\ lang' = lang /\ unicode' = unicode
           /\ SomeCallFailed => SomeCallFailed'
<1>1. lang' = lang /\ unicode' = unicode /\ (UNCHANGED log => LogGrows)
  BY DEF Next, ArgumentPanic, Open, Put, Get, ReturnContext, ReturnFromPut, GetBytes, GetString, GetAddress,
       GetVec, ReadStrayError, CppError, FreeAgain, RustError, RustPanic, FreeGiven, Drop, vars,
       Return, LogGrows
<1>2. CASE \/ Open \/ (\E k \in Key, v \in Value : Put(k, v))
           \/ (\E m \in Getters, k \in Key : Get(m, k))
  BY <1>1, <1>2, CallKinds, CallGrows, GrowingLog DEF MakesCall
<1>3. CASE Back
  <2>1. CASE Returns(Value \cup {"ok", "error"}, {"idle", "closed"})
    BY <1>1, <2>1, ReturnGrows, GrowingLog DEF Returns, Results
  <2>2. CASE UNCHANGED log
    BY <1>1, <2>2, GrowingLog
  <2>3. QED
    BY <1>3, <2>1, <2>2, BackKinds
<1>4. CASE Idle
  <2>1. UNCHANGED log
    BY <1>4 DEF Idle, ArgumentPanic, FreeGiven, Drop, vars
  <2>2. QED
    BY <1>1, <2>1, GrowingLog
<1>5. QED
  BY <1>2, <1>3, <1>4 DEF Next, Back, Idle, Getters

(* A call in progress that failed has failed. *)
LEMMA FailedCall == ASSUME TypeOK, pc \notin {"start", "panicked"}, Current.failed PROVE SomeCallFailed
BY CurrentType DEF SomeCallFailed, Current

(* Whatever goes wrong is one of the faults that are known. *)
LEMMA FaultsStep ==
    ASSUME TypeOK, InCall, ErrUnset, LiveIsOwned, FaultsKnown, [Next]_vars
    PROVE  FaultsKnown'
<1>1. lang' = lang /\ unicode' = unicode /\ (SomeCallFailed => SomeCallFailed')
  BY LogStep
<1>2. CASE \/ Open \/ (\E k \in Key, v \in Value : Put(k, v))
           \/ (\E m \in Getters, k \in Key : Get(m, k))
  <2>1. pc' = "called" /\ pc \in {"start", "idle"} /\ badFree' = badFree
    BY <1>2, CallKinds DEF MakesCall, Calls
  <2>2. badFree => lang = "cpp" /\ SomeCallFailed
    BY <2>1 DEF FaultsKnown, ErrUnset, Fatal, TypeOK
  <2>3. QED
    BY <1>1, <2>1, <2>2 DEF FaultsKnown
<1>3. ASSUME badFree' = badFree, pc' \notin Fatal \cup {"start"}, pc \notin Fatal, err' = err
      PROVE  FaultsKnown'
  BY <1>1, <1>3 DEF FaultsKnown, Fatal
<1>4. ASSUME NEW blocks, Free(blocks), blocks \subseteq live,
             pc' \notin Fatal \cup {"start"}, pc \notin Fatal, err' = err
      PROVE  FaultsKnown'
  <2>1. badFree' = badFree
    BY <1>4 DEF Free, TypeOK
  <2>2. QED
    BY <1>3, <1>4, <2>1
<1>5. CASE ReturnContext \/ ReturnFromPut \/ GetBytes
  <2>1. badFree' = badFree /\ pc = "called" /\ pc' = "idle" /\ err' = err
    BY <1>5 DEF ReturnContext, ReturnFromPut, GetBytes, Returned, Return, Keep
  <2>2. QED
    BY <1>3, <2>1 DEF Fatal
<1>6. CASE GetString \/ GetAddress \/ GetVec
  <2>1. /\ pc = "called" /\ pc' = "idle" /\ err = None /\ Current.method \in Getters
        /\ badFree' = badFree \/ Free({Block("value")})
        /\ err' = err
    BY <1>6 DEF GetString, GetAddress, GetVec, Returned, Return, Keep, Getters
  <2>2. {Block("value")} \subseteq live
    BY <2>1, GotValue DEF LiveIsOwned, InHand
  <2>3. QED
    BY <1>3, <1>4, <2>1, <2>2 DEF Fatal
<1>7. CASE ReadStrayError
  <2>1. lang = "cpp" /\ err = Stray /\ err' = err /\ pc' \in {"died", "closed", "idle"}
    BY <1>7 DEF ReadStrayError, ErrUnset, Return, AfterError
  <2>2. QED
    BY <1>1, <2>1 DEF FaultsKnown
<1>8. ASSUME Failed
      PROVE  ErrorBlocks \subseteq live /\ pc = "called" /\ SomeCallFailed
  BY <1>8, FailedCall DEF Failed, InCall, Calling, InHand, LiveIsOwned
<1>9. CASE CppError \/ RustError
  <2>1. Failed /\ Free(ErrorBlocks) /\ pc' \notin Fatal \cup {"start"} /\ err' = err
    BY <1>9 DEF CppError, RustError, Return, AfterError, Fatal
  <2>2. QED
    BY <1>4, <1>8, <2>1 DEF Fatal
<1>10. CASE FreeAgain
  <2>1. Calling /\ lang = "cpp" /\ SomeCallFailed /\ pc' \in {"idle", "died"}
    BY <1>10, FailedCall DEF FreeAgain, InCall, Calling, Return
  <2>2. QED
    BY <1>1, <2>1 DEF FaultsKnown
<1>11. CASE RustPanic
  <2>1. SomeCallFailed /\ pc' \in Fatal
    BY <1>8, <1>11 DEF RustPanic, Fatal
  <2>2. QED
    BY <1>1, <2>1 DEF FaultsKnown, Fatal
<1>12. CASE FreeGiven
  BY <1>4, <1>12 DEF FreeGiven, Fatal
<1>13. CASE Drop
  <2>1. pc = "idle" /\ Free(Held) /\ pc' = "closed" /\ err' = err
    BY <1>13 DEF Drop
  <2>2. Held \subseteq live
    BY <2>1 DEF Held, LiveIsOwned, Opened
  <2>3. QED
    BY <1>4, <2>1, <2>2 DEF Fatal
<1>14. CASE ArgumentPanic
  <2>1. pc = "start" /\ pc' = "panicked" /\ ~unicode /\ badFree' = badFree
    BY <1>14 DEF ArgumentPanic
  <2>2. QED
    BY <1>1, <2>1 DEF FaultsKnown
<1>15. CASE UNCHANGED vars
  BY <1>1, <1>15 DEF vars, FaultsKnown
<1>16. QED
  BY <1>2, <1>5, <1>6, <1>7, <1>9, <1>10, <1>11, <1>12, <1>13, <1>14, <1>15 DEF Next, Getters

----------------------------------------------------------------------------
(* Earlier puts stay where they are in the log. *)
LEMMA PutsStay ==
    ASSUME TypeOK, log' = log \/ (\E method \in Methods, key \in Key \cup {None},
                                   arg \in Value \cup {None}, failed \in BOOLEAN :
                                   Calls(method, key, arg, failed))
                               \/ (pc \notin {"start", "panicked"} /\ \E result \in Value \cup Results :
                                   \E label : Return(result, label))
    PROVE  /\ Len(log) \in Nat /\ Len(log') \in Nat
           /\ DOMAIN log = 1 .. Len(log) /\ DOMAIN log' = 1 .. Len(log')
           /\ \A n \in DOMAIN log : /\ n \in DOMAIN log'
                                    /\ log'[n].method = log[n].method /\ log'[n].key = log[n].key
                                    /\ log'[n].arg = log[n].arg /\ log'[n].failed = log[n].failed
<1>1. Len(log) \in Nat /\ DOMAIN log = 1 .. Len(log)
  BY DEF TypeOK
<1>2. CASE log' = log
  BY <1>1, <1>2
<1>3. ASSUME NEW method \in Methods, NEW key \in Key \cup {None},
             NEW arg \in Value \cup {None}, NEW failed \in BOOLEAN,
             Calls(method, key, arg, failed)
      PROVE  /\ Len(log') \in Nat /\ DOMAIN log' = 1 .. Len(log')
             /\ \A n \in DOMAIN log : n \in DOMAIN log' /\ log'[n] = log[n]
  <2>1. /\ Len(log') = Len(log) + 1 /\ DOMAIN log' = 1 .. Len(log) + 1
        /\ \A n \in DOMAIN log : log'[n] = log[n]
    BY <1>3, NewCall
  <2>2. QED
    BY <1>1, <2>1
<1>4. ASSUME pc \notin {"start", "panicked"}, NEW result \in Value \cup Results, NEW label, Return(result, label)
      PROVE  /\ Len(log') \in Nat /\ DOMAIN log' = 1 .. Len(log')
             /\ \A n \in DOMAIN log : /\ n \in DOMAIN log'
                                      /\ log'[n].method = log[n].method /\ log'[n].key = log[n].key
                                      /\ log'[n].arg = log[n].arg /\ log'[n].failed = log[n].failed
  <2>1. Len(log') = Len(log) /\ DOMAIN log' = DOMAIN log
    BY <1>4, CallReturns
  <2>2. ASSUME NEW n \in DOMAIN log
        PROVE  /\ log'[n].method = log[n].method /\ log'[n].key = log[n].key
               /\ log'[n].arg = log[n].arg /\ log'[n].failed = log[n].failed
    BY <1>4, CallReturns DEF Current
  <2>3. QED
    BY <1>1, <2>1, <2>2
<1>5. QED
  BY <1>1, <1>2, <1>3, <1>4

(* The steps of the binding and of the program leave store and puts alone. *)
LEMMA BackKeepsPuts ==
    ASSUME TypeOK, InCall, Back \/ Idle
    PROVE  /\ Len(log) \in Nat /\ DOMAIN log' = DOMAIN log /\ UNCHANGED store
           /\ DOMAIN log = 1 .. Len(log)
           /\ \A n \in DOMAIN log : /\ log'[n].method = log[n].method /\ log'[n].key = log[n].key
                                    /\ log'[n].arg = log[n].arg /\ log'[n].failed = log[n].failed
<1>1. UNCHANGED store
  BY OnlyReleases
<1>2. CASE UNCHANGED log
  BY <1>1, <1>2, PutsStay
<1>3. CASE Returns(Value \cup {"ok", "error"}, {"idle", "closed"})
  <2>1. PICK result \in Value \cup Results, label \in {"idle", "closed"} : Return(result, label)
    BY <1>3 DEF Returns, Results
  <2>2. pc \notin {"start", "panicked"} /\ Calling
    BY <1>3 DEF Returns, Calling
  <2>3. QED
    BY <1>1, <2>1, <2>2, PutsStay, ReturnGrows
<1>4. Idle => UNCHANGED log
  BY DEF Idle, ArgumentPanic, FreeGiven, Drop, vars
<1>5. QED
  BY <1>2, <1>3, <1>4, BackKinds

(* A put becomes the newest of its key, a put that fails perhaps. *)
LEMMA StoreStep ==
    ASSUME TypeOK, InCall, StoreIsPut, [Next]_vars
    PROVE  StoreIsPut'
<1>1. ASSUME NEW method \in Methods, NEW key \in Key \cup {None},
             NEW arg \in Value \cup {None}, NEW failed \in BOOLEAN,
             Calls(method, key, arg, failed), failed \/ method # "put" \/ store'[key] = arg,
             NEW k \in Key,
             \/ store'[k] = store[k]
             \/ method = "put" /\ key = k /\ store'[k] = arg,
             NEW m \in PutsOf(k)', ~log'[m].failed
      PROVE  \E j \in PutsOf(k)' : m <= j /\ log'[j].arg = store'[k]
  <2>1. /\ Len(log) \in Nat /\ DOMAIN log = 1 .. Len(log) /\ DOMAIN log' = 1 .. Len(log) + 1
        /\ \A n \in DOMAIN log : log'[n] = log[n]
        /\ log'[Len(log) + 1].method = method /\ log'[Len(log) + 1].key = key
        /\ log'[Len(log) + 1].arg = arg /\ log'[Len(log) + 1].failed = failed
    <3>1. /\ Len(log) \in Nat /\ DOMAIN log = 1 .. Len(log) /\ DOMAIN log' = 1 .. Len(log) + 1
          /\ \A n \in DOMAIN log : log'[n] = log[n]
          /\ log'[Len(log) + 1] = Current'
      BY <1>1, NewCall
    <3>2. /\ Current'.method = method /\ Current'.key = key /\ Current'.arg = arg
          /\ Current'.failed = failed
      BY <1>1, CallSeen
    <3>3. QED
      BY <3>1, <3>2
  <2>2. m \in 1 .. Len(log) + 1 /\ log'[m].method = "put" /\ log'[m].key = k
    BY <2>1 DEF PutsOf
  <2>3. CASE method = "put" /\ key = k /\ store'[k] = arg
    <3>1. Len(log) + 1 \in PutsOf(k)'
      BY <2>1, <2>3 DEF PutsOf
    <3>2. m <= Len(log) + 1 /\ log'[Len(log) + 1].arg = store'[k]
      BY <2>1, <2>2, <2>3
    <3>3. QED
      BY <3>1, <3>2
  <2>4. CASE store'[k] = store[k] /\ ~(method = "put" /\ key = k /\ store'[k] = arg)
    <3>1. m # Len(log) + 1
      BY <1>1, <2>1, <2>2, <2>4
    <3>2. m \in PutsOf(k) /\ ~log[m].failed
      BY <1>1, <2>1, <2>2, <3>1 DEF PutsOf
    <3>3. PICK j \in PutsOf(k) : m <= j /\ log[j].arg = store[k]
      BY <3>2 DEF StoreIsPut
    <3>4. j \in PutsOf(k)' /\ log'[j].arg = store'[k]
      BY <2>1, <2>4, <3>3 DEF PutsOf
    <3>5. QED
      BY <3>3, <3>4
  <2>5. QED
    BY <1>1, <2>3, <2>4
<1>2. CASE Open
  <2>1. store' = store /\ (Calls("open", None, None, FALSE) \/ Calls("open", None, None, TRUE))
    BY <1>2 DEF Open, Fails
  <2>2. "open" \in Methods /\ "open" # "put"
    BY DEF Methods
  <2>3. QED
    BY <1>1, <2>1, <2>2 DEF StoreIsPut
<1>3. ASSUME NEW k \in Key, NEW v \in Value, Put(k, v)
      PROVE  StoreIsPut'
  <2>1. "put" \in Methods /\ store \in [Key -> Value \cup {None}]
    BY DEF Methods, TypeOK
  <2>2. CASE Calls("put", k, v, FALSE) /\ store' = [store EXCEPT ![k] = v]
    <3>1. store'[k] = v /\ \A l \in Key : store'[l] = store[l] \/ (l = k /\ store'[l] = v)
      BY <2>1, <2>2
    <3>2. ASSUME NEW l \in Key, NEW m \in PutsOf(l)', ~log'[m].failed
          PROVE  \E j \in PutsOf(l)' : m <= j /\ log'[j].arg = store'[l]
      BY <1>1, <2>1, <2>2, <3>1, <3>2
    <3>3. QED
      BY <3>2 DEF StoreIsPut
  <2>3. CASE Calls("put", k, v, TRUE) /\ store' \in {store, [store EXCEPT ![k] = v]}
    <3>1. \A l \in Key : store'[l] = store[l] \/ (l = k /\ store'[l] = v)
      BY <2>1, <2>3
    <3>2. ASSUME NEW l \in Key, NEW m \in PutsOf(l)', ~log'[m].failed
          PROVE  \E j \in PutsOf(l)' : m <= j /\ log'[j].arg = store'[l]
      <4>1. Calls("put", k, v, TRUE) /\ k \in Key \cup {None} /\ v \in Value \cup {None}
        BY <2>3
      <4>2. store'[l] = store[l] \/ (k = l /\ store'[l] = v)
        BY <3>1
      <4>3. QED
        BY <1>1, <2>1, <3>2, <4>1, <4>2
    <3>3. QED
      BY <3>2 DEF StoreIsPut
  <2>4. QED
    BY <1>3, <2>2, <2>3 DEF Put, Fails
<1>4. ASSUME NEW m \in Getters, NEW k \in Key, Get(m, k)
      PROVE  StoreIsPut'
  <2>1. store' = store /\ (Calls(m, k, None, FALSE) \/ Calls(m, k, None, TRUE))
    BY <1>4 DEF Get, Fails
  <2>2. m \in Methods /\ m # "put"
    BY DEF Methods, Getters
  <2>3. QED
    BY <1>1, <2>1, <2>2 DEF StoreIsPut
<1>5. CASE Back \/ Idle
  <2>1. \A k \in Key : PutsOf(k)' = PutsOf(k)
    BY <1>5, BackKeepsPuts DEF PutsOf
  <2>2. QED
    BY <1>5, <2>1, BackKeepsPuts DEF StoreIsPut, PutsOf
<1>6. QED
  BY <1>2, <1>3, <1>4, <1>5 DEF Next, Back, Idle, Getters

----------------------------------------------------------------------------
ReadFindsWrite(n) ==
    log[n].result \in Value =>
        /\ log[n].method = "getAddress" => log[n].result \in Address
        /\ \A m \in PutsBefore(n) : ~log[m].failed =>
             \E j \in PutsBefore(n) : m <= j /\ log[j].arg = log[n].result

(* The call in progress reads what the store has, so a put of its key. *)
LEMMA ReadOfStore ==
    ASSUME TypeOK, StoreIsPut, pc \notin {"start", "panicked"},
           Current.method \in Getters, Current.key \in Key,
           NEW m \in PutsBefore(Len(log)), ~log[m].failed
    PROVE  \E j \in PutsBefore(Len(log)) : m <= j /\ log[j].arg = store[Current.key]
<1>1. Len(log) \in Nat \ {0} /\ DOMAIN log = 1 .. Len(log)
  BY CurrentType
<1>2. m \in PutsOf(Current.key)
  BY <1>1 DEF PutsBefore, PutsOf, Current
<1>3. PICK j \in PutsOf(Current.key) : m <= j /\ log[j].arg = store[Current.key]
  BY <1>2 DEF StoreIsPut
<1>4. j # Len(log)
  BY DEF PutsOf, Current, Getters
<1>5. j \in PutsBefore(Len(log))
  BY <1>1, <1>4 DEF PutsOf, PutsBefore, Current
<1>6. QED
  BY <1>3, <1>5

(* A call has its result for good, and the puts before it are fixed. *)
LEMMA OldReads ==
    ASSUME ReadsFindWrites, NEW n \in DOMAIN log, DOMAIN log = 1 .. Len(log), Len(log) \in Nat,
           DOMAIN log \subseteq DOMAIN log', log'[n].result = log[n].result,
           \A l \in DOMAIN log : /\ log'[l].method = log[l].method /\ log'[l].key = log[l].key
                                 /\ log'[l].arg = log[l].arg /\ log'[l].failed = log[l].failed
    PROVE  ReadFindsWrite(n)'
<1>1. ReadFindsWrite(n)
  BY DEF ReadsFindWrites, ReadFindsWrite
<1>2. 1 .. n - 1 \subseteq DOMAIN log
  OBVIOUS
<1>3. PutsBefore(n)' = PutsBefore(n) /\ PutsBefore(n) \subseteq DOMAIN log
  BY <1>2 DEF PutsBefore
<1>4. QED
  BY <1>1, <1>3 DEF ReadFindsWrite

(* No call finds what no put of its key has put. *)
LEMMA ReadsStep ==
    ASSUME TypeOK, InCall, StoreIsPut, ReadsFindWrites, [Next]_vars
    PROVE  ReadsFindWrites'
<1> SUFFICES ASSUME NEW n \in DOMAIN log'
             PROVE  ReadFindsWrite(n)'
  BY DEF ReadsFindWrites, ReadFindsWrite
<1>1. Len(log) \in Nat /\ DOMAIN log = 1 .. Len(log)
  BY DEF TypeOK
<1>2. ASSUME NEW method \in Methods, NEW key \in Key \cup {None},
             NEW arg \in Value \cup {None}, NEW failed \in BOOLEAN,
             Calls(method, key, arg, failed)
      PROVE  ReadFindsWrite(n)'
  <2>1. /\ DOMAIN log' = 1 .. Len(log) + 1 /\ log'[Len(log) + 1] = Current'
        /\ \A l \in DOMAIN log : log'[l] = log[l]
    BY <1>2, NewCall
  <2>2. CASE n \in DOMAIN log
    BY <1>1, <2>1, <2>2, OldReads
  <2>3. CASE n = Len(log) + 1
    <3>1. Current'.result = "pending"
      BY <1>2, CallSeen
    <3>2. log'[n].result \notin Value
      BY <2>1, <2>3, <3>1, BindingsAssumption DEF Results
    <3>3. QED
      BY <3>2 DEF ReadFindsWrite
  <2>4. QED
    BY <1>1, <2>1, <2>2, <2>3
<1>3. ASSUME Calling, NEW result \in Value \cup Results, NEW label, Return(result, label),
             result \in Value => /\ result = value /\ ~Current.failed /\ Current.method \in Getters
                                 /\ Current.method = "getAddress" => value \in Address
      PROVE  ReadFindsWrite(n)'
  <2>1. pc \notin {"start", "panicked"}
    BY <1>3 DEF Calling
  <2>2. /\ DOMAIN log' = DOMAIN log
        /\ \A l \in DOMAIN log : l # Len(log) => log'[l] = log[l]
        /\ log'[Len(log)] = Current' /\ Current'.result = result
        /\ Current'.method = Current.method /\ Current'.key = Current.key
    BY <1>3, <2>1, CallReturns
  <2>3. \A l \in DOMAIN log : /\ log'[l].method = log[l].method /\ log'[l].key = log[l].key
                              /\ log'[l].arg = log[l].arg /\ log'[l].failed = log[l].failed
    BY <1>3, <2>1, PutsStay
  <2>4. CASE n # Len(log)
    BY <1>1, <2>2, <2>3, <2>4, OldReads
  <2>5. CASE n = Len(log) /\ result \in Value
    <3>1. Current.key \in Key /\ value = store[Current.key]
      BY <1>3, <2>5 DEF InCall, Getters
    <3>2. PutsBefore(n)' = PutsBefore(n) /\ PutsBefore(n) \subseteq DOMAIN log
      <4>1. 1 .. n - 1 \subseteq DOMAIN log
        BY <1>1, <2>2
      <4>2. QED
        BY <2>2, <2>3, <4>1 DEF PutsBefore
    <3>3. log'[n].result = store[Current.key]
      BY <1>3, <2>2, <2>5, <3>1
    <3>4. ASSUME NEW m \in PutsBefore(n), ~log[m].failed
          PROVE  \E j \in PutsBefore(n) : m <= j /\ log'[j].arg = log'[n].result
      <4>1. PICK j \in PutsBefore(n) : m <= j /\ log[j].arg = store[Current.key]
        BY <1>3, <2>1, <2>5, <3>1, <3>4, ReadOfStore
      <4>2. QED
        BY <2>3, <3>2, <3>3, <4>1
    <3>5. log'[n].method = "getAddress" => log'[n].result \in Address
      BY <1>3, <2>2, <2>5
    <3>6. QED
      BY <2>3, <3>2, <3>4, <3>5 DEF ReadFindsWrite
  <2>6. CASE n = Len(log) /\ result \notin Value
    BY <2>2, <2>6 DEF ReadFindsWrite
  <2>7. QED
    BY <2>4, <2>5, <2>6
<1>4. CASE UNCHANGED log
  BY <1>1, <1>4, OldReads
<1>5. "ok" \in Results \ Value /\ "error" \in Results \ Value /\ Address \subseteq Value
  BY BindingsAssumption DEF Results, Value
<1>6. CASE \/ ReturnContext \/ ReturnFromPut \/ CppError \/ FreeAgain \/ RustError
           \/ ReadStrayError
  <2>1. UNCHANGED log \/ \E result \in {"ok", "error"} : \E label : Return(result, label)
    BY <1>6 DEF ReturnContext, ReturnFromPut, CppError, FreeAgain, RustError, ReadStrayError
  <2>2. Calling
    BY <1>6 DEF ReturnContext, ReturnFromPut, CppError, FreeAgain, RustError, ReadStrayError,
         Returned, Failed, Calling
  <2>3. QED
    BY <1>3, <1>4, <1>5, <2>1, <2>2
<1>7. CASE GetBytes \/ GetString \/ GetAddress \/ GetVec
  <2>1. /\ pc = "called" /\ err = None /\ Current.method \in Getters
        /\ \/ /\ Return(value, "idle")
              /\ Current.method = "getAddress" => value \in Address
           \/ Return("error", "idle")
    BY <1>7 DEF GetBytes, GetString, GetAddress, GetVec, Returned, Getters
  <2>2. Calling /\ ~Current.failed /\ value \in Value
    BY <2>1, GotValue DEF Calling
  <2>3. QED
    BY <1>3, <1>5, <2>1, <2>2
<1>8. CASE RustPanic \/ Idle
  BY <1>4, <1>8 DEF RustPanic, Idle, ArgumentPanic, FreeGiven, Drop, vars
<1>9. CASE \/ Open \/ (\E k \in Key, v \in Value : Put(k, v))
           \/ (\E m \in Getters, k \in Key : Get(m, k))
  BY <1>2, <1>9, CallKinds DEF MakesCall
<1>10. QED
  BY <1>6, <1>7, <1>8, <1>9 DEF Next, Idle, Getters

----------------------------------------------------------------------------
(* Before the first call there is nothing to hold. *)
LEMMA InitInv == Init => Inv
<1> SUFFICES ASSUME Init
             PROVE  Inv
  OBVIOUS
<1>1. TypeOK
  <2>1. <<>> \in Seq(Call)
    OBVIOUS
  <2>2. log = <<>> /\ pc = "start" /\ live = {} /\ badFree = FALSE /\ value = None
    BY DEF Init
  <2>3. lang \in {"cpp", "rust"} /\ unicode \in BOOLEAN /\ err \in {None, Stray} /\ store \in [Key -> Value \cup {None}]
    BY DEF Init
  <2>4. QED
    BY <2>1, <2>2, <2>3 DEF TypeOK
<1>2. InCall /\ ErrUnset /\ LiveIsOwned
  BY BindingsAssumption DEF Init, InCall, ErrUnset, LiveIsOwned, Calling, Opened, InHand, Fatal
<1>3. FaultsKnown /\ StoreIsPut /\ ReadsFindWrites
  BY DEF Init, FaultsKnown, Fatal, StoreIsPut, PutsOf, ReadsFindWrites
<1>4. QED
  BY <1>1, <1>2, <1>3 DEF Inv

(* Every step keeps the invariant. *)
LEMMA InvStep == Inv /\ [Next]_vars => Inv'
BY TypeStep, InCallStep, LiveStep, FaultsStep, StoreStep, ReadsStep DEF Inv

(* The invariant holds for any number of calls. *)
THEOREM Invariance == Spec => []Inv
BY InitInv, InvStep, PTL DEF Spec

(* Every variable has its type. *)
THEOREM TypeCorrect == Spec => []TypeOK
<1>1. Inv => TypeOK
  BY DEF Inv
<1>2. QED
  BY <1>1, Invariance, PTL

(***************************************************************************)
(* Nothing is released but what is one's own, and once, and nobody dies    *)
(* until a C function fails, or C++ finds garbage in err, or Rust an       *)
(* argument that is not Unicode; and Rust releases twice only when it      *)
(* panics.                                                                 *)
(***************************************************************************)
THEOREM FaultsAreKnown == Spec => []OnlyKnownFaults
<1>1. Inv => OnlyKnownFaults
  BY DEF Inv, FaultsKnown, OnlyKnownFaults, Fatal
<1>2. QED
  BY <1>1, Invariance, PTL

(***************************************************************************)
(* What is left behind after any calls is the context until it is dropped, *)
(* what get gave, and what the code is known to forget.                    *)
(***************************************************************************)
THEOREM LeaksAreKnown == Spec => []OnlyKnownLeaks
<1>1. Inv => OnlyKnownLeaks
  BY DEF Inv, LiveIsOwned, OnlyKnownLeaks, Holdings, Fatal, InHand, Opened, Calling
<1>2. QED
  BY <1>1, Invariance, PTL

(***************************************************************************)
(* What a method returns was put, by the last put of the key that did not  *)
(* fail or by one behind it that did, whatever happened in between.        *)
(***************************************************************************)
THEOREM ReadsAreWrites == Spec => []ReadsFindWrites
<1>1. Inv => ReadsFindWrites
  BY DEF Inv
<1>2. QED
  BY <1>1, Invariance, PTL
=============================================================================
