----------------------------- MODULE QtumContext -----------------------------
(***************************************************************************)
(* qtum_context_open, qtum_context_close and the error objects of qtum.c:  *)
(* from the command line and the context file to an open context, or to an *)
(* error, with every block, stream and database handle on the way.         *)
(*                                                                         *)
(* Any allocation and any call of the C library may fail, leveldb_open may *)
(* report an error, and somebody else may delete or rewrite the context    *)
(* file at any moment.  The JSON parser is taken by what it makes of each  *)
(* beginning of a text, and by what it leaves behind out of memory; hex    *)
(* strings by their length and by whether they decode, and to what.        *)
(***************************************************************************)
EXTENDS Naturals, Sequences

CONSTANTS Text,     \* contents of a context file
          Edits,    \* the contents that may be written while it is read
          Content,  \* what a hex string decodes to: addresses and call data
          Zero,     \* the twenty zero bytes of a field that was never set
          Garbled,  \* a field that was overwritten only in part
          None      \* NULL; also a file that is not there

Field == {"address", "sender", "data"}

(***************************************************************************)
(* A JSON value as far as the decoders look at it.  hex: the characters    *)
(* that are decoded, 2 * (length / 2) of them, are all hex digits.         *)
(***************************************************************************)
JsonValue == [type: {"string", "other"}, length: Nat, hex: BOOLEAN, bytes: Content]

(***************************************************************************)
(* An entry of an object, or an element of an array (prefixOf is then      *)
(* unused): the field names that its name is a prefix of.                  *)
(***************************************************************************)
Item == [prefixOf: SUBSET Field, value: JsonValue]
Document == [type: {"object", "array", "other"}, items: Seq(Item)]

(***************************************************************************)
(* The contents of a file: byte n stands for the document that the first   *)
(* n bytes are, or for None when they are no document.  A text that ends   *)
(* in the middle of a literal is none: the byte behind the buffer, which   *)
(* the parser then looks at (json.c:596), is taken not to complete it.     *)
(***************************************************************************)
Texts == Seq(Document \cup {None})

(* The objects and arrays that t begins with. *)
DocumentsOf(t) == {t[n] : n \in {m \in DOMAIN t : t[m] # None /\ t[m].type # "other"}}

Block(site) == <<site, 0>>
DataBlock(n) == <<"data", n>>    \* malloc of decodeHexData for item n

QERR_INVALID_CONTEXT == 100
QERR_STORAGE == 101
QERR_OOM == 255

(***************************************************************************)
(* qtum_err: both constructors allocate strlen(msg) bytes for the message. *)
(* room is what is left behind the text, and copied what is written there: *)
(* nothing by the memcpy of qtum_err_new, the NUL by the vsprintf of       *)
(* qtum_err_fmt.                                                           *)
(***************************************************************************)
Memcpy == 0
Vsprintf == 1

ErrorStrings == Field \cup {"open", "read", "parse", "invalid", "leveldb"}

ErrorObject == [code: {QERR_INVALID_CONTEXT, QERR_STORAGE},
                message: ErrorStrings \cup {"action", "invalid action"},
                room: {0}, copied: {Memcpy, Vsprintf}]

ASSUME ContextAssumption ==
    /\ Text \subseteq Texts
    /\ Edits \subseteq Text
    /\ None \notin Text \cup Document \cup Content
    /\ None \notin ErrorObject \cup ErrorStrings \cup ({"data"} \X Nat)
    /\ Zero \notin Content /\ Garbled \notin Content /\ Zero # Garbled

(***************************************************************************)
(* An object or array that is cut before its last bracket is no document,  *)
(* and behind it come only blanks and comments, or what the parser does    *)
(* not accept.  (A number may be cut; but it configures nothing.)          *)
(***************************************************************************)
ASSUME PrefixAssumption ==
    \A t \in Text : \A d \in DocumentsOf(t), e \in DocumentsOf(t) : d = e

VARIABLES
    pc,       \* the program counter of qtum_context_open and of its caller
    args,     \* argc and argv[1]
    file,     \* what the path argv[2] names now
    stream,   \* what the FILE would deliver now
    fsize,    \* st_size as stat saw it
    val,      \* the parsed document
    i,        \* the entry or element to decode next
    ctx,      \* the fields of the context
    serr,     \* the error string of the configure functions
    err,      \* *err, the error object
    live,     \* blocks, streams and handles not yet released
    badFree,  \* history: something was released that was not live
    source    \* history: what was in the file when it was read

vars == <<pc, args, file, stream, fsize, val, i, ctx, serr, err, live, badFree, source>>
envVars == <<file, stream>>

(* argc, cut at the 3 beyond which no argument is looked at, and argv[1]. *)
Arguments == [argc: 1 .. 3, action: {"init", "call", "other"}]

(* memset(ctx, 0, sizeof(qtum_context)) *)
EmptyContext == [action |-> None, address |-> Zero, sender |-> Zero,
                 data |-> None, block |-> None, db |-> FALSE]

Init ==
    /\ pc = "argc"
    /\ args \in Arguments
    /\ file \in Text \cup {None}
    /\ stream = None /\ fsize = 0 /\ val = None /\ i = 1
    /\ ctx = EmptyContext
    /\ serr = None /\ err = None
    /\ live = {} /\ badFree = FALSE
    /\ source = None

----------------------------------------------------------------------------
Goto(label) == pc' = label

Free(blocks) ==
    /\ live' = live \ blocks
    /\ badFree' = (badFree \/ ~(blocks \subseteq live))

(* The configure functions stop with error string s at label. *)
FailTo(label, s) == Goto(label) /\ serr' = s

(***************************************************************************)
(* qtum_err_new and qtum_err_fmt: an object and a copy of the message, or  *)
(* exit(QERR_OOM) when either cannot be allocated.                         *)
(***************************************************************************)
NewError(code, msg, copied, next) ==
    \/ /\ err' = [code |-> code, message |-> msg, room |-> 0, copied |-> copied]
       /\ live' = live \cup {Block("err"), Block("message")}
       /\ Goto(next)
    \/ /\ Goto("oom")
       /\ UNCHANGED <<err, live>>

----------------------------------------------------------------------------
(* qtum_context_open *)
NoAction ==
    /\ pc = "argc"
    /\ args.argc < 2
    /\ NewError(QERR_INVALID_CONTEXT, "action", Memcpy, "returned")
    /\ UNCHANGED <<args, envVars, fsize, val, i, ctx, serr, badFree, source>>

AllocateContext ==
    /\ pc = "argc"
    /\ args.argc >= 2
    /\ \/ /\ live' = live \cup {Block("ctx")}
          /\ Goto("action")
       \/ /\ Goto("oom")
          /\ UNCHANGED live
    /\ UNCHANGED <<args, envVars, fsize, val, i, ctx, serr, err, badFree, source>>

UnknownAction ==
    /\ pc = "action"
    /\ args.action = "other"
    /\ NewError(QERR_INVALID_CONTEXT, "invalid action", Vsprintf, "exit_err")
    /\ UNCHANGED <<args, envVars, fsize, val, i, ctx, serr, badFree, source>>

AnyAction ==
    /\ pc = "action"
    /\ ctx' = [ctx EXCEPT !.action = args.action]
    /\ Goto(IF args.argc >= 3 THEN "stat" ELSE "leveldb_open")
    /\ UNCHANGED <<args, envVars, fsize, val, i, serr, err, live, badFree, source>>

KnownAction ==
    /\ pc = "action"
    /\ args.action \in {"init", "call"}
    /\ ctx' = [ctx EXCEPT !.action = args.action]
    /\ Goto(IF args.argc >= 3 THEN "stat" ELSE "leveldb_open")
    /\ UNCHANGED <<args, envVars, fsize, val, i, serr, err, live, badFree, source>>

(* After qtum_context_configure_by_jsonfile: serr decides. *)
ConfigureFailed ==
    /\ pc = "configured"
    /\ serr # None
    /\ NewError(QERR_INVALID_CONTEXT, serr, Memcpy, "exit_err")
    /\ UNCHANGED <<args, envVars, fsize, val, i, ctx, serr, badFree, source>>

Configured ==
    /\ pc = "configured"
    /\ serr = None
    /\ Goto("leveldb_open")
    /\ UNCHANGED <<args, envVars, fsize, val, i, ctx, serr, err, live, badFree, source>>

(* qtum_context_configure_db *)
OpenStore ==
    /\ pc = "leveldb_open"
    /\ ctx' = [ctx EXCEPT !.db = TRUE]
    /\ live' = live \cup {Block("db")}
    /\ Goto("returned")
    /\ UNCHANGED <<args, envVars, fsize, val, i, serr, err, badFree, source>>

(* leveldb allocates the message it reports; nothing ever frees it. *)
OpenStoreFails ==
    /\ pc = "leveldb_open"
    /\ serr' = "leveldb"
    /\ live' = live \cup {Block("leveldb message")}
    /\ Goto("store failed")
    /\ UNCHANGED <<args, envVars, fsize, val, i, ctx, err, badFree, source>>

ReportStoreError ==
    /\ pc = "store failed"
    /\ NewError(QERR_STORAGE, serr, Memcpy, "exit_err")
    /\ UNCHANGED <<args, envVars, fsize, val, i, ctx, serr, badFree, source>>

(* qtum_context_close releases the call data, the database, the context. *)
HeldByContext ==
    (IF ctx.block = None THEN {} ELSE {ctx.block})
      \cup (IF ctx.db THEN {Block("db")} ELSE {}) \cup {Block("ctx")}

CloseUnlessStoreFailed ==
    /\ pc = "exit_err"
    /\ Free(IF serr = "leveldb" THEN {} ELSE HeldByContext)
    /\ Goto("returned")
    /\ UNCHANGED <<args, envVars, fsize, val, i, ctx, serr, err, source>>

CloseAfterError ==
    /\ pc = "exit_err"
    /\ Free(HeldByContext)
    /\ Goto("returned")
    /\ UNCHANGED <<args, envVars, fsize, val, i, ctx, serr, err, source>>

----------------------------------------------------------------------------
(* qtum_context_configure_by_jsonfile *)
Stat ==
    /\ pc = "stat"
    /\ \/ /\ file # None
          /\ fsize' = Len(file)
          /\ Goto("fopen")
          /\ UNCHANGED serr
       \/ /\ FailTo("configured", "open")
          /\ UNCHANGED fsize
    /\ UNCHANGED <<args, envVars, val, i, ctx, err, live, badFree, source>>

Open ==
    /\ pc = "fopen"
    /\ \/ /\ file # None
          /\ stream' = file
          /\ live' = live \cup {Block("fp")}
          /\ Goto("malloc")
          /\ UNCHANGED serr
       \/ /\ FailTo("configured", "open")
          /\ UNCHANGED <<stream, live>>
    /\ UNCHANGED <<args, file, fsize, val, i, ctx, err, badFree, source>>

AllocateFileContent ==
    /\ pc = "malloc"
    /\ \/ /\ live' = live \cup {Block("fileContent")}
          /\ Goto("fread")
          /\ UNCHANGED serr
       \/ /\ FailTo("exit_fp", "read")
          /\ UNCHANGED live
    /\ UNCHANGED <<args, envVars, fsize, val, i, ctx, err, badFree, source>>

(* fread of one element of fsize bytes: none of it, or all of it. *)
ReadableSize == fsize > 0 /\ stream # None /\ Len(stream) >= fsize

ReadFails ==
    /\ pc = "fread"
    /\ FailTo("exit_fileContent", "read")
    /\ UNCHANGED <<args, envVars, fsize, val, i, ctx, err, live, badFree, source>>

(* What json_parse_ex makes of the bytes that were read, with enough memory. *)
Parsed == stream[fsize]

Parse ==
    /\ pc = "fread" /\ ReadableSize
    /\ Parsed # None
    /\ val' = Parsed
    /\ live' = live \cup {Block("val")}
    /\ source' = stream
    /\ Goto("configure")
    /\ UNCHANGED <<args, envVars, fsize, i, ctx, serr, err, badFree>>

(***************************************************************************)
(* No document, or no memory.  Out of memory in its second pass the parser *)
(* forgets the values that it was in the middle of (JsonParser's           *)
(* LeaksOnlyOpenValues), or releases a root whose entries it counted but   *)
(* has no room for, through NULL (CrashesAtRootOnly).                      *)
(***************************************************************************)
HasItems(doc) == doc # None /\ doc.type # "other" /\ doc.items # << >>

ParseFails ==
    /\ pc = "fread" /\ ReadableSize
    /\ \/ UNCHANGED live
       \/ HasItems(Parsed) /\ live' = live \cup {Block("open values")}
    /\ FailTo("exit_fileContent", "parse")
    /\ UNCHANGED <<args, envVars, fsize, val, i, ctx, err, badFree, source>>

ParseCrashes ==
    /\ pc = "fread" /\ ReadableSize
    /\ HasItems(Parsed)
    /\ Goto("crashed")
    /\ UNCHANGED <<args, envVars, fsize, val, i, ctx, serr, err, live, badFree, source>>

ReleaseValue ==
    /\ pc = "exit_val"
    /\ Free({Block("val")})
    /\ Goto("exit_fileContent")
    /\ UNCHANGED <<args, envVars, fsize, val, i, ctx, serr, err, source>>

ReleaseFileContentAndStream ==
    /\ pc = "exit_fileContent"
    /\ Free({Block("fileContent"), Block("fp")})
    /\ Goto("exit_fp")
    /\ UNCHANGED <<args, envVars, fsize, val, i, ctx, serr, err, source>>

ReleaseFileContent ==
    /\ pc = "exit_fileContent"
    /\ Free({Block("fileContent")})
    /\ Goto("exit_fp")
    /\ UNCHANGED <<args, envVars, fsize, val, i, ctx, serr, err, source>>

LeaveStreamOpen ==
    /\ pc = "exit_fp"
    /\ stream' = None
    /\ Goto("configured")
    /\ UNCHANGED <<args, file, fsize, val, i, ctx, serr, err, live, badFree, source>>

CloseStream ==
    /\ pc = "exit_fp"
    /\ Free({Block("fp")})
    /\ stream' = None
    /\ Goto("configured")
    /\ UNCHANGED <<args, file, fsize, val, i, ctx, serr, err, source>>

----------------------------------------------------------------------------
(***************************************************************************)
(* qtum_context_configure.  memcmp(k, name, name_length) = 0 holds of      *)
(* every name that is a prefix of k, and the first k that matches counts.  *)
(***************************************************************************)
FieldOf(item) ==
    CASE "address" \in item.prefixOf -> "address"
      [] "address" \notin item.prefixOf /\ "sender" \in item.prefixOf -> "sender"
      [] item.prefixOf = {"data"} -> "data"
      [] OTHER -> None

Target(doc, n) ==
    IF doc.type = "object" THEN FieldOf(doc.items[n])
    ELSE <<"address", "sender", "data">>[n]

(* How many items are decoded: all of an object, three of an array. *)
ItemCount(doc) == IF doc.type = "object" THEN Len(doc.items) ELSE 3

Configurable(doc) ==
    doc.type = "object" \/ (doc.type = "array" /\ Len(doc.items) >= 3)

IsAddress(v) == v.type = "string" /\ v.length \div 2 = 20 /\ v.hex
IsHexData(v) == v.type = "string" /\ v.hex

CurrentTarget == Target(val, i)
CurrentValue == val.items[i].value
Decoding == pc = "configure" /\ Configurable(val) /\ i <= ItemCount(val)

InvalidDocument ==
    /\ pc = "configure"
    /\ ~Configurable(val)
    /\ FailTo("exit_val", "invalid")
    /\ UNCHANGED <<args, envVars, fsize, val, i, ctx, err, live, badFree, source>>

ConfigureDone ==
    /\ pc = "configure"
    /\ Configurable(val) /\ i > ItemCount(val)
    /\ Goto("exit_val")
    /\ UNCHANGED <<args, envVars, fsize, val, i, ctx, serr, err, live, badFree, source>>

SkipEntryWithoutAdvancing ==
    /\ Decoding /\ CurrentTarget = None
    /\ UNCHANGED <<pc, args, envVars, fsize, val, ctx, serr, err, live, badFree, source, i>>

SkipEntry ==
    /\ Decoding /\ CurrentTarget = None
    /\ i' = i + 1
    /\ UNCHANGED <<pc, args, envVars, fsize, val, ctx, serr, err, live, badFree, source>>

DecodeAddress ==
    /\ Decoding /\ CurrentTarget \in {"address", "sender"}
    /\ IsAddress(CurrentValue)
    /\ ctx' = [ctx EXCEPT ![CurrentTarget] = CurrentValue.bytes]
    /\ i' = i + 1
    /\ UNCHANGED <<pc, args, envVars, fsize, val, serr, err, live, badFree, source>>

RejectAddressAndGoOn ==
    /\ Decoding /\ CurrentTarget \in {"address", "sender"}
    /\ ~IsAddress(CurrentValue)
    /\ serr' = CurrentTarget
    /\ i' = i + 1
    /\ UNCHANGED <<pc, args, envVars, fsize, val, ctx, err, live, badFree, source>>

(* The bytes in front of a bad digit are already in the field. *)
RejectAddress ==
    /\ Decoding /\ CurrentTarget \in {"address", "sender"}
    /\ ~IsAddress(CurrentValue)
    /\ ctx' \in IF CurrentValue.type = "string" /\ CurrentValue.length \div 2 = 20
                 THEN {ctx, [ctx EXCEPT ![CurrentTarget] = Garbled]}
                 ELSE {ctx}
    /\ FailTo("exit_val", CurrentTarget)
    /\ UNCHANGED <<args, envVars, fsize, val, i, err, live, badFree, source>>

SetData(block) ==
    /\ ctx' = [ctx EXCEPT !.data = CurrentValue.bytes, !.block = block]
    /\ i' = i + 1

(* decodeHexData; a block that an earlier entry left in ctx->data is lost. *)
FirstDataWins ==
    /\ Decoding /\ CurrentTarget = "data"
    /\ IsHexData(CurrentValue)
    /\ IF ctx.data = None
       THEN SetData(DataBlock(i)) /\ live' = live \cup {DataBlock(i)}
       ELSE i' = i + 1 /\ UNCHANGED <<ctx, live>>
    /\ UNCHANGED <<pc, args, envVars, fsize, val, serr, err, badFree, source>>

DecodeHexData ==
    /\ Decoding /\ CurrentTarget = "data"
    /\ IsHexData(CurrentValue)
    /\ \/ SetData(DataBlock(i)) /\ live' = live \cup {DataBlock(i)}
       \/ CurrentValue.length < 2 /\ SetData(None) /\ UNCHANGED live
    /\ UNCHANGED <<pc, args, envVars, fsize, val, serr, err, badFree, source>>

RejectHexData ==
    /\ Decoding /\ CurrentTarget = "data"
    /\ ~IsHexData(CurrentValue)
    /\ FailTo("exit_val", "data")
    /\ UNCHANGED <<args, envVars, fsize, val, i, ctx, err, live, badFree, source>>

(* The result of malloc is not looked at before the bytes are stored. *)
StoreThroughNull ==
    /\ Decoding /\ CurrentTarget = "data"
    /\ CurrentValue.type = "string" /\ CurrentValue.length >= 2
    /\ Goto("crashed")
    /\ UNCHANGED <<args, envVars, fsize, val, i, ctx, serr, err, live, badFree, source>>

----------------------------------------------------------------------------
(* The caller: a C++ or Rust destructor, or qtum_exit_error. *)
Close ==
    /\ pc = "returned"
    /\ err = None
    /\ Free(HeldByContext)
    /\ Goto("closed")
    /\ UNCHANGED <<args, envVars, fsize, val, i, ctx, serr, err, source>>

ExitError ==
    /\ pc = "returned"
    /\ err # None
    /\ Free({Block("err"), Block("message")})
    /\ Goto("exited")
    /\ UNCHANGED <<args, envVars, fsize, val, i, ctx, serr, err, source>>

(***************************************************************************)
(* Somebody deletes the file, replaces it, or rewrites it in place; what   *)
(* happens to it after fread is of no consequence and left out.            *)
(***************************************************************************)
EditFile ==
    /\ pc \in {"argc", "action", "stat", "fopen", "malloc", "fread"}
    /\ file' \in Edits \cup {None}
    /\ stream' \in {stream} \cup (IF stream # None THEN {file'} \ {None} ELSE {})
    /\ UNCHANGED <<pc, args, fsize, val, i, ctx, serr, err, live, badFree, source>>

(* qtum_context_open *)
Step ==
    \/ NoAction \/ AllocateContext \/ UnknownAction \/ KnownAction
    \/ Stat \/ Open \/ AllocateFileContent
    \/ ReadFails \/ Parse \/ ParseFails \/ ParseCrashes
    \/ InvalidDocument \/ SkipEntry \/ DecodeAddress \/ RejectAddress
    \/ DecodeHexData \/ RejectHexData \/ StoreThroughNull \/ ConfigureDone
    \/ ReleaseValue \/ ReleaseFileContent \/ CloseStream
    \/ ConfigureFailed \/ Configured
    \/ OpenStore \/ OpenStoreFails \/ ReportStoreError \/ CloseAfterError

Next == Step \/ Close \/ ExitError \/ EditFile

Spec == Init /\ [][Next]_vars

(* open waits for nobody; its caller and those who edit may do nothing. *)
FairSpec == Spec /\ WF_vars(Step)

----------------------------------------------------------------------------
Labels ==
    {"argc", "action", "stat", "fopen", "malloc", "fread", "configure", "exit_val",
     "exit_fileContent", "exit_fp", "configured", "leveldb_open", "store failed",
     "exit_err", "returned", "closed", "exited", "oom", "crashed"}

Sites == {"ctx", "data", "fp", "fileContent", "val", "db", "err", "message",
          "leveldb message", "open values"}

Contexts == [action: {"init", "call", None},
             address: Content \cup {Zero, Garbled},
             sender: Content \cup {Zero, Garbled},
             data: Content \cup {None},
             block: ({"data"} \X Nat) \cup {None},
             db: BOOLEAN]

TypeOK ==
    /\ pc \in Labels
    /\ args \in Arguments
    /\ {file, stream, source} \subseteq Texts \cup {None}
    /\ fsize \in Nat /\ i \in Nat \ {0}
    /\ val \in Document \cup {None}
    /\ ctx \in Contexts
    /\ serr \in ErrorStrings \cup {None}
    /\ err \in ErrorObject \cup {None}
    /\ live \subseteq Sites \X Nat
    /\ badFree \in BOOLEAN

(***************************************************************************)
(* qtum_context_open returns a context with its database open and no       *)
(* error, or an error and no context, whichever of its seventeen ways out  *)
(* it took: every "goto exit_*" and early return of the three functions.   *)
(***************************************************************************)
ContextOrError ==
    pc = "returned" =>
        \/ err = None /\ {Block("ctx"), Block("db")} \subseteq live
        \/ /\ err # None /\ {Block("err"), Block("message")} \subseteq live
           /\ Block("ctx") \notin live /\ Block("db") \notin live

(* No path of open, close and exit_error releases what is not live. *)
NoBadFree == ~badFree

(***************************************************************************)
(* When a context is closed, nothing is left of the whole call but call    *)
(* data that a later entry of the context file replaced; when an error is  *)
(* freed, that and what the one function that failed has forgotten: the    *)
(* message of leveldb_open, or the open values of a parser out of memory.  *)
(***************************************************************************)
Superseded ==
    {DataBlock(n) : n \in {k \in 1 .. i - 1 :
        /\ val # None /\ Target(val, k) = "data"
        /\ \E m \in k + 1 .. i - 1 : Target(val, m) = "data"}}

Forgotten ==
    (IF serr = "leveldb" THEN {Block("leveldb message")} ELSE {})
      \cup (IF serr = "parse" THEN {Block("open values")} ELSE {})

OnlyKnownLeaks ==
    /\ pc = "closed" => live \subseteq Superseded
    /\ pc = "exited" => live \subseteq Superseded \cup Forgotten

(***************************************************************************)
(* Before the database is opened, and so created and locked, the context   *)
(* is what the object or array says that was in the file: every entry that *)
(* names a field is valid, and each field has the value of the last entry  *)
(* for it (of an array: of its place), or is still zero.  Prefixes of      *)
(* field names, and edits of the file in the middle, do not change that:   *)
(* when stat and fread saw two sizes, what was read describes the whole of *)
(* the document or is refused.                                             *)
(***************************************************************************)
Valid(doc, n) ==
    CASE Target(doc, n) \in {"address", "sender"} -> IsAddress(doc.items[n].value)
      [] Target(doc, n) = "data" -> IsHexData(doc.items[n].value)
      [] OTHER -> TRUE

Largest(N) == CHOOSE n \in N : \A k \in N : k <= n

Says(doc, m, field, default) ==
    LET N == {n \in 1 .. m : Target(doc, n) = field}
    IN IF N = {} THEN default ELSE doc.items[Largest(N)].value.bytes

(* The context after the first m items of doc. *)
DescribesUpTo(doc, m) ==
    /\ \A n \in 1 .. m : Valid(doc, n)
    /\ ctx.address = Says(doc, m, "address", Zero)
    /\ ctx.sender = Says(doc, m, "sender", Zero)
    /\ ctx.data = Says(doc, m, "data", None)

Describes(doc) == Configurable(doc) /\ DescribesUpTo(doc, ItemCount(doc))

Untouched == ctx = [EmptyContext EXCEPT !.action = ctx.action, !.db = ctx.db]

ContextIsDecoded ==
    (pc \in {"leveldb_open", "store failed"} \/ (pc = "returned" /\ err = None)) =>
        IF args.argc < 3 THEN Untouched
        ELSE /\ source # None /\ DocumentsOf(source) # {}
             /\ \A doc \in DocumentsOf(source) : Describes(doc)

(***************************************************************************)
(* An error about a field is about the first item that is wrong, and the   *)
(* items behind it have not been looked at.                                *)
(***************************************************************************)
ErrorNamesFirstBadItem ==
    serr \in Field =>
        /\ i <= ItemCount(val) /\ Target(val, i) = serr /\ ~Valid(val, i)
        /\ \A n \in 1 .. i - 1 : Valid(val, n)

(***************************************************************************)
(* open, with all its calls, is for its caller the two steps of Opening:   *)
(* the command line is judged before the store is asked for, each error    *)
(* has its own code, the store is held by an open context and at no other  *)
(* time, and every call of open ends, however often the file is edited.    *)
(***************************************************************************)
Phase ==
    CASE pc \in {"oom", "crashed"} -> "dead"
      [] pc = "closed" -> "closed"
      [] pc \in {"returned", "exited"} /\ err # None ->
           IF err.code = QERR_STORAGE THEN "storage error" ELSE "refused"
      [] pc = "returned" /\ err = None -> "open"
      [] pc = "leveldb_open" \/ (serr = "leveldb" /\ pc \in {"store failed", "exit_err"}) ->
           "accepted"
      [] OTHER -> "opening"

O == INSTANCE Opening WITH phase <- Phase, holds <- Block("db") \in live

ImplementsOpening == O!Spec

(***************************************************************************)
(* qtum_err_new "copies message string to an allocated struct"             *)
(* (qtum.h:53): the copy ends with a NUL, inside the allocated block.      *)
(***************************************************************************)
MessageIsAString == err # None => 1 <= err.copied /\ err.copied <= err.room
=============================================================================
