-------------------------- MODULE QtumContextProofs --------------------------
(***************************************************************************)
(* Memory and results of qtum_context_open, for every set of context files *)
(* and every edit of them: what is released was held, what is returned is  *)
(* one of context and error, and only what the code forgets is left.       *)
(***************************************************************************)
EXTENDS QtumContext, TLAPS

----------------------------------------------------------------------------
(* What each program point holds. *)
Opening ==
    {"action", "stat", "fopen", "malloc", "fread", "configure", "exit_val",
     "exit_fileContent", "exit_fp", "configured", "leveldb_open", "store failed"}
Streaming == {"malloc", "fread", "configure", "exit_val", "exit_fileContent", "exit_fp"}
Loaded == {"fread", "configure", "exit_val", "exit_fileContent"}
Parsing == {"configure", "exit_val"}

OwnsContext == pc \in Opening \cup {"exit_err"} \/ (pc = "returned" /\ err = None)
OwnsError == pc \in {"exit_err", "returned"} /\ err # None

(* Everything that may still be live, by its owner. *)
Owned ==
    (IF OwnsContext THEN HeldByContext ELSE {})
      \cup (IF OwnsError THEN {Block("err"), Block("message")} ELSE {})
      \cup (IF pc \in Streaming THEN {Block("fp")} ELSE {})
      \cup (IF pc \in Loaded THEN {Block("fileContent")} ELSE {})
      \cup (IF pc \in Parsing THEN {Block("val")} ELSE {})

Running == Opening \cup {"argc", "exit_err", "returned"}

(* Owned is live, and what else is live is one of the known leaks. *)
LiveIsOwned ==
    /\ pc \in Running => Owned \subseteq live
    /\ pc \notin {"oom", "crashed"} => live \subseteq Owned \cup Superseded \cup Forgotten

(***************************************************************************)
(* The error appears with exit_err or the return, the database just before *)
(* it, and an error string only where a function has just failed.          *)
(***************************************************************************)
ResultSoFar ==
    /\ pc \in {"argc", "action", "stat", "fopen", "malloc", "fread", "configure",
               "leveldb_open"} => serr = None
    /\ pc \in Opening \cup {"argc"} => err = None
    /\ pc \in {"exit_err", "exited"} => err # None
    /\ ctx.db => pc \in {"returned", "closed"} /\ err = None
    /\ pc = "returned" => (err = None <=> ctx.db)

(* ctx->data points to the block of a "data" item, and each has its own. *)
DataIsLast ==
    /\ pc \in {"argc", "action", "stat", "fopen", "malloc", "fread"} => i = 1
    /\ ctx.block # None =>
         \E k \in 1 .. i - 1 :
            ctx.block = DataBlock(k) /\ val # None /\ Target(val, k) = "data"
    /\ pc = "configure" => val # None
    /\ pc = "store failed" => serr # None

(* The text that was read begins with doc, and with no other document. *)
WasRead(doc) ==
    /\ source # None
    /\ doc \in {source[n] : n \in DOMAIN source}
    /\ doc.type # "other" => DocumentsOf(source) = {doc}

(* Its document is what the context holds. *)
SourceDescribed ==
    /\ source # None /\ DocumentsOf(source) # {}
    /\ \A doc \in DocumentsOf(source) : Describes(doc)

(* Nothing but the texts of Text is ever in the file. *)
FilesOfText == {file, stream} \subseteq Text \cup {None}

(* The loop invariant of configure, and what holds before and behind it. *)
DecodedSoFar ==
    /\ pc \in {"argc", "action", "stat", "fopen", "malloc", "fread"} =>
         Untouched /\ serr = None
    /\ pc \in {"stat", "fopen", "malloc", "fread", "configure", "exit_val",
               "exit_fileContent", "exit_fp", "configured"} => args.argc >= 3
    /\ pc = "configure" =>
         /\ serr = None /\ WasRead(val) /\ i <= ItemCount(val) + 1
         /\ DescribesUpTo(val, i - 1)
    /\ pc \in {"exit_val", "exit_fileContent", "exit_fp", "configured"} /\ serr = None =>
         SourceDescribed
    /\ ContextIsDecoded

Inv ==
    /\ TypeOK
    /\ FilesOfText
    /\ badFree = FALSE /\ LiveIsOwned
    /\ ResultSoFar
    /\ DataIsLast
    /\ DecodedSoFar

----------------------------------------------------------------------------
(* A block is named by its site. *)
LEMMA BlockType == \A site \in Sites : Block(site) \in Sites \X Nat
BY DEF Block

(* A new error object is one, and its two blocks are blocks. *)
LEMMA NewErrorType ==
    ASSUME NEW code \in {QERR_INVALID_CONTEXT, QERR_STORAGE},
           NEW msg \in ErrorStrings \cup {"action", "invalid action"},
           NEW copied \in {Memcpy, Vsprintf}, NEW next \in Labels,
           TypeOK, NewError(code, msg, copied, next),
           UNCHANGED <<args, envVars, fsize, val, i, ctx, serr, badFree, source>>
    PROVE  TypeOK'
<1>1. err' \in ErrorObject \cup {None}
  <2>1. [code |-> code, message |-> msg, room |-> 0, copied |-> copied] \in ErrorObject
    BY DEF ErrorObject
  <2>2. QED
    BY <2>1 DEF NewError, TypeOK
<1>2. pc' \in Labels
  BY DEF NewError, Goto, Labels
<1>3. live' \subseteq Sites \X Nat
  BY BlockType DEF NewError, TypeOK, Sites
<1>4. QED
  BY <1>1, <1>2, <1>3 DEF TypeOK, envVars

(* The item being decoded is one of the document. *)
LEMMA CurrentItem ==
    ASSUME TypeOK, Decoding, val # None
    PROVE  /\ val \in Document /\ i \in 1 .. Len(val.items)
           /\ CurrentValue \in JsonValue
           /\ CurrentTarget \in Field \cup {None}
<1>1. val \in Document /\ val.items \in Seq(Item) /\ i \in Nat \ {0}
  BY DEF TypeOK, Document
<1>2. i <= Len(val.items)
  BY <1>1 DEF Decoding, Configurable, ItemCount
<1>3. val.items[i] \in Item
  BY <1>1, <1>2
<1>4. CurrentTarget \in Field \cup {None}
  <2>1. CASE val.type = "object"
    BY <2>1, <1>3 DEF CurrentTarget, Target, FieldOf, Field, Item
  <2>2. CASE val.type # "object"
    <3>1. i \in {1, 2, 3}
      BY <2>2, <1>1 DEF Decoding, ItemCount
    <3>2. QED
      BY <2>2, <3>1 DEF CurrentTarget, Target, Field
  <2>3. QED
    BY <2>1, <2>2
<1>5. QED
  BY <1>1, <1>2, <1>3, <1>4 DEF CurrentValue, Item

(* A data block is a block and, like every block, not NULL. *)
LEMMA DataBlockType ==
    ASSUME NEW n \in Nat
    PROVE  DataBlock(n) \in {"data"} \X Nat /\ DataBlock(n) \in Sites \X Nat
             /\ DataBlock(n) # None
<1>1. DataBlock(n) \in {"data"} \X Nat /\ DataBlock(n) \in Sites \X Nat
  BY DEF DataBlock, Sites
<1>2. None \notin {"data"} \X Nat
  BY ContextAssumption
<1>3. QED
  BY <1>1, <1>2

(* The four ends of reading the file and parsing it, as one action. *)
ReadAndParse == ReadFails \/ Parse \/ ParseFails \/ ParseCrashes

(* What it changes: one line for each of its ends. *)
LEMMA Reading ==
    ASSUME TypeOK, ReadAndParse
    PROVE  /\ pc = "fread" /\ UNCHANGED <<args, file, stream, fsize, i, ctx, err, badFree>>
           /\ \/ /\ pc' = "exit_fileContent" /\ serr' = "read"
                 /\ UNCHANGED <<val, live, source>>
              \/ /\ pc' = "exit_fileContent" /\ serr' = "parse"
                 /\ live' = live \/ live' = live \cup {Block("open values")}
                 /\ UNCHANGED <<val, source>>
              \/ pc' = "crashed" /\ UNCHANGED <<val, serr, live, source>>
              \/ /\ pc' = "configure" /\ live' = live \cup {Block("val")} /\ serr' = serr
                 /\ stream # None /\ source' = stream
                 /\ val' \in {stream[n] : n \in DOMAIN stream}
                 /\ val' # None /\ val' \in Document
<1>1. CASE ReadFails
  BY <1>1 DEF ReadFails, FailTo, Goto, envVars
<1>2. CASE Parse
  <2>1. stream \in Seq(Document \cup {None}) /\ stream # None /\ fsize \in DOMAIN stream
    BY <1>2 DEF Parse, ReadableSize, TypeOK, Texts
  <2>2. stream[fsize] \in Document \cup {None}
    BY <2>1
  <2>3. QED
    BY <1>2, <2>1, <2>2 DEF Parse, Parsed, Goto, envVars
<1>3. CASE ParseFails
  BY <1>3 DEF ParseFails, FailTo, Goto, envVars
<1>4. CASE ParseCrashes
  BY <1>4 DEF ParseCrashes, Goto, envVars
<1>5. QED
  BY <1>1, <1>2, <1>3, <1>4 DEF ReadAndParse

(* Every step keeps the types; one step per group of like actions. *)
LEMMA TypeStep == TypeOK /\ DataIsLast /\ [Next]_vars => TypeOK'
<1> SUFFICES ASSUME TypeOK, DataIsLast, [Next]_vars
             PROVE  TypeOK'
  OBVIOUS
<1>0. Field \cup {"open", "read", "parse", "invalid", "leveldb"} = ErrorStrings
  BY DEF ErrorStrings
<1>1. CASE NoAction \/ UnknownAction \/ ConfigureFailed \/ ReportStoreError
  <2>1. {"returned", "exit_err"} \subseteq Labels
    BY DEF Labels
  <2>2. serr # None => serr \in ErrorStrings
    BY DEF TypeOK
  <2>3. CASE NoAction
    BY <2>3, <2>1, NewErrorType DEF NoAction
  <2>4. CASE UnknownAction
    BY <2>4, <2>1, NewErrorType DEF UnknownAction
  <2>5. CASE ConfigureFailed
    BY <2>5, <2>1, <2>2, NewErrorType DEF ConfigureFailed
  <2>6. CASE ReportStoreError
    BY <2>6, <2>1, <2>2, NewErrorType DEF ReportStoreError, DataIsLast
  <2>7. QED
    BY <1>1, <2>3, <2>4, <2>5, <2>6
<1>2. CASE AllocateContext
  <2>1. pc' \in Labels
    BY <1>2 DEF AllocateContext, Goto, Labels
  <2>2. live' \subseteq Sites \X Nat
    BY <1>2, BlockType DEF AllocateContext, TypeOK, Sites
  <2>3. QED
    BY <1>2, <2>1, <2>2 DEF AllocateContext, TypeOK, envVars
<1>3. CASE KnownAction
  <2>1. pc' \in Labels
    BY <1>3 DEF KnownAction, Goto, Labels
  <2>2. ctx' \in Contexts
    BY <1>3 DEF KnownAction, TypeOK, Contexts
  <2>3. QED
    BY <1>3, <2>1, <2>2 DEF KnownAction, TypeOK, envVars
<1>4. CASE Stat
  <2>1. pc' \in Labels /\ serr' \in ErrorStrings \cup {None}
    BY <1>4, <1>0 DEF Stat, FailTo, Goto, Labels, TypeOK
  <2>2. fsize' \in Nat
    BY <1>4 DEF Stat, TypeOK, Texts
  <2>3. QED
    BY <1>4, <2>1, <2>2 DEF Stat, TypeOK, envVars
<1>5. CASE Open
  <2>1. pc' \in Labels /\ serr' \in ErrorStrings \cup {None}
    BY <1>5, <1>0 DEF Open, FailTo, Goto, Labels, TypeOK
  <2>2. live' \subseteq Sites \X Nat /\ stream' \in Texts \cup {None}
    BY <1>5, BlockType DEF Open, TypeOK, Sites
  <2>3. QED
    BY <1>5, <2>1, <2>2 DEF Open, TypeOK
<1>6. CASE AllocateFileContent
  <2>1. pc' \in Labels /\ serr' \in ErrorStrings \cup {None}
    BY <1>6, <1>0 DEF AllocateFileContent, FailTo, Goto, Labels, TypeOK
  <2>2. live' \subseteq Sites \X Nat
    BY <1>6, BlockType DEF AllocateFileContent, TypeOK, Sites
  <2>3. QED
    BY <1>6, <2>1, <2>2 DEF AllocateFileContent, TypeOK, envVars
<1>7. CASE ReadAndParse
  <2>1. pc' \in Labels /\ serr' \in ErrorStrings \cup {None}
    BY <1>7, <1>0, Reading DEF Labels, TypeOK
  <2>2. live' \subseteq Sites \X Nat
    BY <1>7, Reading, BlockType DEF TypeOK, Sites
  <2>3. val' \in Document \cup {None} /\ source' \in Texts \cup {None}
    BY <1>7, Reading DEF TypeOK
  <2>4. QED
    BY <1>7, Reading, <2>1, <2>2, <2>3 DEF TypeOK
<1>8. CASE InvalidDocument \/ ConfigureDone \/ Configured
  <2>1. pc' \in Labels /\ serr' \in ErrorStrings \cup {None}
    BY <1>8, <1>0 DEF InvalidDocument, ConfigureDone, Configured, FailTo, Goto, Labels,
                      TypeOK
  <2>2. QED
    BY <1>8, <2>1 DEF InvalidDocument, ConfigureDone, Configured, TypeOK, envVars
<1>9. CASE SkipEntry
  BY <1>9 DEF SkipEntry, TypeOK, envVars
<1>10. CASE DecodeAddress
  <2>1. CurrentValue.bytes \in Content
    BY <1>10, CurrentItem DEF DecodeAddress, Decoding, DataIsLast, JsonValue
  <2>2. ctx' \in Contexts
    BY <1>10, <2>1 DEF DecodeAddress, TypeOK, Contexts
  <2>3. QED
    BY <1>10, <2>2 DEF DecodeAddress, TypeOK, envVars
<1>11. CASE RejectAddress
  <2>1. pc' \in Labels /\ serr' \in ErrorStrings \cup {None}
    BY <1>11, <1>0 DEF RejectAddress, FailTo, Goto, Labels, TypeOK, Field
  <2>2. ctx' \in Contexts
    BY <1>11 DEF RejectAddress, TypeOK, Contexts
  <2>3. QED
    BY <1>11, <2>1, <2>2 DEF RejectAddress, TypeOK, envVars
<1>12. CASE DecodeHexData
  <2>1. CurrentValue.bytes \in Content
    BY <1>12, CurrentItem DEF DecodeHexData, Decoding, DataIsLast, JsonValue
  <2>2. DataBlock(i) \in {"data"} \X Nat /\ DataBlock(i) \in Sites \X Nat
    BY DataBlockType DEF TypeOK
  <2>3. ctx' \in Contexts
    BY ZenonT(60), <1>12, <2>1, <2>2 DEF DecodeHexData, SetData, TypeOK, Contexts
  <2>4. live' \subseteq Sites \X Nat /\ i' \in Nat \ {0}
    BY <1>12, <2>2 DEF DecodeHexData, SetData, TypeOK
  <2>5. QED
    BY <1>12, <2>3, <2>4 DEF DecodeHexData, TypeOK, envVars
<1>13. CASE RejectHexData \/ StoreThroughNull
  <2>1. pc' \in Labels /\ serr' \in ErrorStrings \cup {None}
    BY <1>13, <1>0 DEF RejectHexData, StoreThroughNull, FailTo, Goto, Labels, TypeOK, Field
  <2>2. QED
    BY <1>13, <2>1 DEF RejectHexData, StoreThroughNull, TypeOK, envVars
<1>14. CASE \/ ReleaseValue \/ ReleaseFileContent \/ CloseStream
            \/ CloseAfterError \/ Close \/ ExitError
  <2>1. pc' \in Labels
    BY <1>14 DEF ReleaseValue, ReleaseFileContent, CloseStream, CloseAfterError, Close,
                 ExitError, Goto, Labels
  <2>2. live' \subseteq Sites \X Nat /\ badFree' \in BOOLEAN
    BY <1>14 DEF ReleaseValue, ReleaseFileContent, CloseStream, CloseAfterError, Close,
                 ExitError, Free, TypeOK
  <2>3. QED
    BY <1>14, <2>1, <2>2 DEF ReleaseValue, ReleaseFileContent, CloseStream,
                 CloseAfterError, Close, ExitError, TypeOK, envVars
<1>15. CASE OpenStore \/ OpenStoreFails
  <2>1. pc' \in Labels /\ serr' \in ErrorStrings \cup {None}
    BY <1>15, <1>0 DEF OpenStore, OpenStoreFails, Goto, Labels, TypeOK
  <2>2. live' \subseteq Sites \X Nat
    BY <1>15, BlockType DEF OpenStore, OpenStoreFails, TypeOK, Sites
  <2>3. ctx' \in Contexts
    BY <1>15 DEF OpenStore, OpenStoreFails, TypeOK, Contexts
  <2>4. QED
    BY <1>15, <2>1, <2>2, <2>3 DEF OpenStore, OpenStoreFails, TypeOK, envVars
<1>16. CASE EditFile
  <2>1. file' \in Texts \cup {None} /\ stream' \in Texts \cup {None}
    BY <1>16, ContextAssumption DEF EditFile, TypeOK
  <2>2. QED
    BY <1>16, <2>1 DEF EditFile, TypeOK
<1>17. CASE UNCHANGED vars
  BY <1>17 DEF vars, TypeOK
<1>18. QED
  BY <1>1, <1>2, <1>3, <1>4, <1>5, <1>6, <1>7, <1>8, <1>9, <1>10, <1>11, <1>12, <1>13,
     <1>14, <1>15, <1>16, <1>17 DEF Next, Step, ReadAndParse

(* The file is only ever given a text of Edits. *)
LEMMA FilesStep == TypeOK /\ FilesOfText /\ [Next]_vars => FilesOfText'
<1> SUFFICES ASSUME TypeOK, FilesOfText, [Next]_vars
             PROVE  FilesOfText'
  OBVIOUS
<1> USE DEF FilesOfText
<1>1. CASE EditFile
  BY <1>1, ContextAssumption DEF EditFile
<1>2. CASE Open \/ CloseStream
  BY <1>2 DEF Open, CloseStream
<1>3. CASE ReadAndParse
  BY <1>3, Reading
<1>4. CASE \/ NoAction \/ AllocateContext \/ UnknownAction \/ KnownAction \/ Stat
           \/ AllocateFileContent \/ InvalidDocument \/ SkipEntry \/ DecodeAddress
           \/ RejectAddress \/ DecodeHexData \/ RejectHexData \/ StoreThroughNull
           \/ ConfigureDone \/ ReleaseValue \/ ReleaseFileContent \/ ConfigureFailed
           \/ Configured \/ OpenStore \/ OpenStoreFails \/ ReportStoreError
           \/ CloseAfterError \/ Close \/ ExitError \/ UNCHANGED vars
  BY <1>4 DEF NoAction, AllocateContext, UnknownAction, KnownAction, Stat,
       AllocateFileContent, InvalidDocument, SkipEntry, DecodeAddress, RejectAddress,
       DecodeHexData, RejectHexData, StoreThroughNull, ConfigureDone, ReleaseValue,
       ReleaseFileContent, ConfigureFailed, Configured, OpenStore, OpenStoreFails,
       ReportStoreError, CloseAfterError, Close, ExitError, envVars, vars
<1>5. QED
  BY <1>1, <1>2, <1>3, <1>4 DEF Next, Step, ReadAndParse

----------------------------------------------------------------------------
(* An error object is not NULL, nor is an error string. *)
LEMMA NewErrorNotNull ==
    ASSUME NEW code \in {QERR_INVALID_CONTEXT, QERR_STORAGE},
           NEW msg \in ErrorStrings \cup {"action", "invalid action"},
           NEW copied \in {Memcpy, Vsprintf}, NEW next,
           NewError(code, msg, copied, next)
    PROVE  \/ /\ err' # None /\ pc' = next
              /\ live' = live \cup {Block("err"), Block("message")}
           \/ pc' = "oom" /\ err' = err /\ live' = live
<1>1. [code |-> code, message |-> msg, room |-> 0, copied |-> copied] \in ErrorObject
  BY DEF ErrorObject
<1>2. QED
  BY <1>1, ContextAssumption DEF NewError, Goto

(* The four actions that make an error object, as one. *)
LEMMA ErrorMade ==
    ASSUME TypeOK, DataIsLast,
           NoAction \/ UnknownAction \/ ConfigureFailed \/ ReportStoreError
    PROVE  /\ UNCHANGED <<val, i, ctx, serr, badFree>>
           /\ pc \in {"argc", "action", "configured", "store failed"}
           /\ \/ /\ err' # None
                 /\ pc' = IF pc = "argc" THEN "returned" ELSE "exit_err"
                 /\ live' = live \cup {Block("err"), Block("message")}
              \/ pc' = "oom" /\ err' = err /\ live' = live
<1>1. serr # None => serr \in ErrorStrings
  BY DEF TypeOK
<1>2. CASE NoAction
  BY <1>2, NewErrorNotNull DEF NoAction
<1>3. CASE UnknownAction
  BY <1>3, NewErrorNotNull DEF UnknownAction
<1>4. CASE ConfigureFailed
  BY <1>4, <1>1, NewErrorNotNull DEF ConfigureFailed
<1>5. CASE ReportStoreError
  BY <1>5, <1>1, NewErrorNotNull DEF ReportStoreError, DataIsLast
<1>6. QED
  BY <1>2, <1>3, <1>4, <1>5

(* The result grows in step with the program counter. *)
LEMMA ResultStep == TypeOK /\ DataIsLast /\ ResultSoFar /\ [Next]_vars => ResultSoFar'
<1> SUFFICES ASSUME TypeOK, DataIsLast, ResultSoFar, [Next]_vars
             PROVE  ResultSoFar'
  OBVIOUS
<1> USE DEF ResultSoFar, Opening
<1>1. CASE NoAction \/ UnknownAction \/ ConfigureFailed \/ ReportStoreError
  BY <1>1, ErrorMade
<1>2. CASE AllocateContext
  BY <1>2 DEF AllocateContext, Goto
<1>3. CASE KnownAction
  BY <1>3 DEF KnownAction, Goto, TypeOK, Contexts
<1>4. CASE Stat \/ Open \/ AllocateFileContent
  BY <1>4 DEF Stat, Open, AllocateFileContent, FailTo, Goto
<1>14. CASE ReadAndParse
  BY <1>14, Reading
<1>5. CASE InvalidDocument \/ ConfigureDone \/ Configured \/ RejectHexData \/ StoreThroughNull
  BY <1>5 DEF InvalidDocument, ConfigureDone, Configured, RejectHexData, StoreThroughNull,
              Decoding, FailTo, Goto
<1>6. CASE SkipEntry \/ DecodeAddress \/ DecodeHexData
  BY <1>6 DEF SkipEntry, DecodeAddress, DecodeHexData, SetData, Decoding, TypeOK, Contexts
<1>7. CASE RejectAddress
  BY <1>7 DEF RejectAddress, Decoding, FailTo, Goto, TypeOK, Contexts
<1>8. CASE ReleaseValue \/ ReleaseFileContent \/ CloseStream
  BY <1>8 DEF ReleaseValue, ReleaseFileContent, CloseStream, Goto
<1>9. CASE CloseAfterError \/ Close \/ ExitError
  BY <1>9 DEF CloseAfterError, Close, ExitError, Goto
<1>10. CASE OpenStore \/ OpenStoreFails
  BY <1>10 DEF OpenStore, OpenStoreFails, Goto, TypeOK, Contexts
<1>11. CASE EditFile
  BY <1>11 DEF EditFile
<1>12. CASE UNCHANGED vars
  BY <1>12 DEF vars
<1>13. QED
  BY <1>1, <1>2, <1>3, <1>4, <1>5, <1>6, <1>7, <1>8, <1>9, <1>10, <1>11, <1>12, <1>14
  DEF Next, Step, ReadAndParse

(* No item, no call data. *)
LEMMA NoDataYet == DataIsLast /\ i = 1 => ctx.block = None
<1>1. DataIsLast => (ctx.block # None => \E k \in 1 .. i - 1 : ctx.block = DataBlock(k))
  BY DEF DataIsLast
<1>2. QED
  BY <1>1

(* Nothing but DecodeHexData changes what ctx->data points to. *)
LEMMA DataStep == TypeOK /\ DataIsLast /\ [Next]_vars => DataIsLast'
<1> SUFFICES ASSUME TypeOK, DataIsLast, [Next]_vars
             PROVE  DataIsLast'
  OBVIOUS
<1>0. i \in Nat \ {0}
  BY DEF TypeOK
<1> USE DEF DataIsLast
<1>1. CASE NoAction \/ UnknownAction \/ ConfigureFailed \/ ReportStoreError
  BY <1>1, ErrorMade
<1>2. CASE AllocateContext \/ KnownAction
  BY <1>2 DEF AllocateContext, KnownAction, Goto, TypeOK, Contexts
<1>3. CASE Stat \/ Open \/ AllocateFileContent
  BY <1>3 DEF Stat, Open, AllocateFileContent, FailTo, Goto
<1>4. CASE ReadAndParse
  <2>1. i = 1
    BY <1>4, Reading
  <2>2. ctx.block = None
    BY <2>1, NoDataYet
  <2>3. QED
    BY <1>4, <2>1, <2>2, Reading
<1>5. CASE InvalidDocument \/ ConfigureDone \/ Configured \/ RejectHexData \/ StoreThroughNull
  BY <1>5 DEF InvalidDocument, ConfigureDone, Configured, RejectHexData, StoreThroughNull,
              Decoding, FailTo, Goto
<1>6. ASSUME i' = i + 1, val' = val, pc' = pc, pc = "configure", ctx'.block = ctx.block
      PROVE  DataIsLast'
  BY <1>0, <1>6
<1>7. CASE SkipEntry \/ DecodeAddress
  BY <1>6, <1>7 DEF SkipEntry, DecodeAddress, Decoding, TypeOK, Contexts
<1>8. CASE DecodeHexData
  <2>1. pc = "configure" /\ i' = i + 1 /\ val' = val /\ pc' = pc
    BY <1>8 DEF DecodeHexData, Decoding, SetData
  <2>2. Target(val, i) = "data"
    BY <1>8 DEF DecodeHexData, CurrentTarget
  <2>3. ctx'.block \in {None, DataBlock(i)}
    BY <1>8 DEF DecodeHexData, SetData, TypeOK, Contexts
  <2>4. QED
    BY <1>0, <2>1, <2>2, <2>3
<1>9. CASE RejectAddress
  BY <1>9 DEF RejectAddress, Decoding, FailTo, Goto, TypeOK, Contexts
<1>10. CASE ReleaseValue \/ ReleaseFileContent \/ CloseStream
  BY <1>10 DEF ReleaseValue, ReleaseFileContent, CloseStream, Goto
<1>11. CASE CloseAfterError \/ Close \/ ExitError
  BY <1>11 DEF CloseAfterError, Close, ExitError, Goto
<1>12. CASE OpenStore
  BY <1>12 DEF OpenStore, Goto, TypeOK, Contexts
<1>13. CASE OpenStoreFails
  <2>1. "leveldb" # None
    BY ContextAssumption DEF ErrorStrings
  <2>2. QED
    BY <1>13, <2>1 DEF OpenStoreFails, Goto
<1>14. CASE EditFile
  BY <1>14 DEF EditFile
<1>15. CASE UNCHANGED vars
  BY <1>15 DEF vars
<1>16. QED
  BY <1>1, <1>2, <1>3, <1>4, <1>5, <1>7, <1>8, <1>9, <1>10, <1>11, <1>12, <1>13, <1>14,
     <1>15 DEF Next, Step, ReadAndParse

----------------------------------------------------------------------------
(* A data block that is replaced, or whose entry lies behind, is superseded. *)
LEMMA SupersededGrows ==
    ASSUME TypeOK, val # None, i' = i + 1, val' = val
    PROVE  /\ Superseded \subseteq Superseded'
           /\ Target(val, i) = "data" =>
                \A k \in 1 .. i - 1 : Target(val, k) = "data" => DataBlock(k) \in Superseded'
<1>1. i \in Nat \ {0}
  BY DEF TypeOK
<1>2. QED
  BY <1>1 DEF Superseded

(* What is superseded depends on the document and the position in it. *)
LEMMA SupersededKept ==
    (val' = val /\ i' = i) \/ (i = 1 /\ i' = i) => Superseded' = Superseded
<1>1. CASE val' = val /\ i' = i
  BY <1>1 DEF Superseded
<1>2. CASE i = 1 /\ i' = i
  BY <1>2 DEF Superseded
<1>3. QED
  BY <1>1, <1>2

(* Nothing is forgotten before an error string is set, nor found again. *)
LEMMA ForgottenGrows ==
    ASSUME serr' = serr \/ serr = None
    PROVE  Forgotten \subseteq Forgotten'
<1>1. CASE serr' = serr
  BY <1>1 DEF Forgotten
<1>2. CASE serr = None
  <2>1. None # "leveldb" /\ None # "parse"
    BY ContextAssumption DEF ErrorStrings
  <2>2. QED
    BY <1>2, <2>1 DEF Forgotten
<1>3. QED
  BY <1>1, <1>2

(* An error string is set where there was none. *)
LEMMA ForgottenStep == TypeOK /\ ResultSoFar /\ [Next]_vars => Forgotten \subseteq Forgotten'
<1> SUFFICES ASSUME TypeOK, ResultSoFar, [Next]_vars
             PROVE  serr' = serr \/ serr = None
  BY ForgottenGrows
<1>1. CASE \/ Stat \/ Open \/ AllocateFileContent \/ InvalidDocument \/ RejectAddress
           \/ RejectHexData \/ OpenStoreFails
  BY <1>1 DEF Stat, Open, AllocateFileContent, InvalidDocument, RejectAddress,
       RejectHexData, OpenStoreFails, Decoding, ResultSoFar
<1>2. CASE ReadAndParse
  BY <1>2, Reading DEF ResultSoFar
<1>3. CASE \/ NoAction \/ AllocateContext \/ UnknownAction \/ KnownAction \/ SkipEntry
           \/ DecodeAddress \/ DecodeHexData \/ StoreThroughNull \/ ConfigureDone
           \/ ReleaseValue \/ ReleaseFileContent \/ CloseStream \/ ConfigureFailed
           \/ Configured \/ OpenStore \/ ReportStoreError \/ CloseAfterError
           \/ Close \/ ExitError \/ EditFile \/ UNCHANGED vars
  BY <1>3 DEF NoAction, AllocateContext, UnknownAction, KnownAction, SkipEntry,
       DecodeAddress, DecodeHexData, StoreThroughNull, ConfigureDone, ReleaseValue,
       ReleaseFileContent, CloseStream, ConfigureFailed, Configured, OpenStore,
       ReportStoreError, CloseAfterError, Close, ExitError, EditFile, vars
<1>4. QED
  BY <1>1, <1>2, <1>3 DEF Next, Step, ReadAndParse

(* Blocks of different sites differ, and call data has a site of its own. *)
LEMMA BlocksDiffer ==
    ASSUME TypeOK, DataIsLast
    PROVE  /\ \A s, t : s # t => Block(s) # Block(t)
           /\ ctx.block # None => \A s : s # "data" => ctx.block # Block(s)
           /\ i = 1 => ctx.block = None
<1>1. \A s, t : s # t => Block(s) # Block(t)
  BY DEF Block
<1>2. \A s, n : s # "data" => DataBlock(n) # Block(s)
  BY DEF Block, DataBlock
<1>3. ctx.block # None => \E k \in 1 .. i - 1 : ctx.block = DataBlock(k)
  BY DEF DataIsLast
<1>4. i = 1 => ctx.block = None
  BY <1>3
<1>5. QED
  BY <1>1, <1>2, <1>3, <1>4

(***************************************************************************)
(* Every step adds to live what its next program point owns, and releases  *)
(* what its own point owned and the next one does not.                     *)
(***************************************************************************)
MemoryInv == LiveIsOwned /\ badFree = FALSE

(* A bad address leaves the call data and the database of the context. *)
LEMMA RejectKeepsData ==
    ASSUME TypeOK, RejectAddress
    PROVE  ctx'.block = ctx.block /\ ctx'.db = ctx.db
<1>1. CurrentTarget \in {"address", "sender"} /\ ctx \in Contexts
  BY DEF RejectAddress, TypeOK
<1>2. ctx' = ctx \/ ctx' = [ctx EXCEPT ![CurrentTarget] = Garbled]
  BY DEF RejectAddress
<1>3. QED
  BY <1>1, <1>2 DEF Contexts

(* Leaving the loop of configure releases nothing yet. *)
LEMMA ParsingFails ==
    ASSUME MemoryInv, pc = "configure", pc' = "exit_val",
           UNCHANGED <<i, val, live, err, badFree>>, serr = None,
           ctx'.block = ctx.block, ctx'.db = ctx.db
    PROVE  MemoryInv'
<1>1. HeldByContext' = HeldByContext
  BY DEF HeldByContext
<1>2. Owned' = Owned
  BY <1>1 DEF Owned, OwnsContext, OwnsError, Opening, Streaming, Loaded, Parsing
<1>3. Superseded' = Superseded
  BY SupersededKept
<1>4. QED
  BY <1>2, <1>3, ForgottenGrows DEF MemoryInv, LiveIsOwned, Running, Opening

(* Every step keeps the account of which blocks are live and who owns them. *)
LEMMA MemoryStep ==
    TypeOK /\ DataIsLast /\ ResultSoFar /\ MemoryInv /\ [Next]_vars => MemoryInv'
<1> SUFFICES ASSUME TypeOK, DataIsLast, ResultSoFar, MemoryInv, [Next]_vars
             PROVE  MemoryInv'
  OBVIOUS
<1>0. Forgotten \subseteq Forgotten'
  BY ForgottenStep
<1>21. CASE UNCHANGED vars
  <2>1. /\ UNCHANGED <<pc, ctx, err, live, badFree>> /\ Superseded' = Superseded
        /\ Forgotten' = Forgotten
    BY <1>21, SupersededKept DEF vars, Forgotten
  <2>2. Owned' = Owned
    BY <2>1 DEF Owned, OwnsContext, OwnsError, HeldByContext
  <2>3. QED
    BY <2>1, <2>2 DEF MemoryInv, LiveIsOwned
<1> USE DEF MemoryInv, LiveIsOwned, Owned, OwnsContext, OwnsError, Running, Opening,
            Streaming, Loaded, Parsing, HeldByContext
<1>1. CASE NoAction \/ UnknownAction \/ ConfigureFailed \/ ReportStoreError
  BY ZenonT(60), <1>0, <1>1, ErrorMade, SupersededKept DEF ResultSoFar
<1>2. CASE AllocateContext
  <2>1. ctx.block = None
    BY <1>2, BlocksDiffer DEF AllocateContext, DataIsLast
  <2>2. QED
    BY <1>0, <1>2, <2>1, SupersededKept DEF AllocateContext, Goto, ResultSoFar
<1>3. CASE KnownAction
  BY ZenonT(60), <1>0, <1>3, SupersededKept DEF KnownAction, Goto, TypeOK, Contexts
<1>4. CASE Stat
  BY <1>0, <1>4, SupersededKept DEF Stat, FailTo, Goto
<1>5. CASE Open
  BY <1>0, <1>5, SupersededKept DEF Open, FailTo, Goto
<1>6. CASE AllocateFileContent
  BY ZenonT(60), <1>0, <1>6, SupersededKept DEF AllocateFileContent, FailTo, Goto
<1>7. CASE ReadAndParse
  <2>1. serr' = "parse" => Block("open values") \in Forgotten'
    BY DEF Forgotten
  <2>2. i = 1 /\ i' = i /\ Superseded' = Superseded
    BY <1>7, Reading, SupersededKept DEF DataIsLast
  <2>3. UNCHANGED <<ctx, err, badFree>> /\ pc = "fread"
    BY <1>7, Reading
  <2>4. CASE pc' = "exit_fileContent" /\ live' = live
    BY <1>0, <2>2, <2>3, <2>4
  <2>5. CASE pc' = "exit_fileContent" /\ live' = live \cup {Block("open values")}
             /\ serr' = "parse"
    BY <1>0, <2>1, <2>2, <2>3, <2>5
  <2>6. CASE pc' = "crashed"
    BY <2>3, <2>6
  <2>7. CASE pc' = "configure" /\ live' = live \cup {Block("val")}
    BY <1>0, <2>2, <2>3, <2>7
  <2>8. QED
    BY <1>7, <2>4, <2>5, <2>6, <2>7, Reading
<1>8. CASE InvalidDocument \/ ConfigureDone \/ Configured \/ RejectHexData \/ StoreThroughNull
  BY <1>0, <1>8, SupersededKept DEF InvalidDocument, ConfigureDone, Configured, RejectHexData,
              StoreThroughNull, Decoding, FailTo, Goto
<1>9. CASE SkipEntry \/ DecodeAddress
  <2>1. /\ pc = "configure" /\ pc' = pc /\ i' = i + 1 /\ val' = val /\ val # None
        /\ ctx'.block = ctx.block /\ ctx'.db = ctx.db
        /\ UNCHANGED <<live, err, badFree>>
    BY <1>9 DEF SkipEntry, DecodeAddress, Decoding, TypeOK, Contexts, DataIsLast
  <2>2. Superseded \subseteq Superseded'
    BY <2>1, SupersededGrows
  <2>3. Owned' = Owned
    BY <2>1
  <2>4. QED
    BY <1>0, <2>1, <2>2, <2>3
<1>10. CASE DecodeHexData
  <2>1. /\ pc = "configure" /\ pc' = pc /\ i' = i + 1 /\ val' = val /\ val # None
        /\ ctx'.db = ctx.db /\ UNCHANGED <<err, badFree>>
        /\ Target(val, i) = "data"
    BY <1>10 DEF DecodeHexData, Decoding, SetData, CurrentTarget, TypeOK, Contexts,
                 DataIsLast
  <2>2. \/ ctx'.block = DataBlock(i) /\ live' = live \cup {DataBlock(i)}
        \/ ctx'.block = None /\ live' = live
    BY <1>10 DEF DecodeHexData, SetData, TypeOK, Contexts
  <2>3. DataBlock(i) # None
    BY DataBlockType DEF TypeOK
  <2>4. ctx.block # None => ctx.block \in Superseded'
    BY <2>1, SupersededGrows DEF DataIsLast
  <2>5. Superseded \subseteq Superseded'
    BY <2>1, SupersededGrows
  <2>6. QED
    BY ZenonT(60), <1>0, <2>1, <2>2, <2>3, <2>4, <2>5
<1>11. CASE RejectAddress
  <2>1. /\ pc = "configure" /\ pc' = "exit_val" /\ i' = i /\ val' = val
        /\ UNCHANGED <<live, err, badFree>>
    BY <1>11 DEF RejectAddress, Decoding, FailTo, Goto
  <2>2. ctx'.block = ctx.block /\ ctx'.db = ctx.db
    BY <1>11, RejectKeepsData
  <2>3. QED
    BY <2>1, <2>2, ParsingFails DEF ResultSoFar
<1>12. CASE ReleaseValue
  BY ZenonT(60), <1>0, <1>12, SupersededKept, BlocksDiffer DEF ReleaseValue, Free, Goto, ResultSoFar
<1>13. CASE ReleaseFileContent
  BY ZenonT(60), <1>0, <1>13, SupersededKept, BlocksDiffer
  DEF ReleaseFileContent, Free, Goto, ResultSoFar
<1>14. CASE CloseStream
  BY <1>0, <1>14, SupersededKept, BlocksDiffer DEF CloseStream, Free, Goto, ResultSoFar
<1>15. CASE CloseAfterError
  <2>1. ctx.db = FALSE /\ err # None
    BY <1>15 DEF CloseAfterError, ResultSoFar, TypeOK, Contexts
  <2>2. QED
    BY ZenonT(60), <1>0, <1>15, <2>1, SupersededKept, BlocksDiffer DEF CloseAfterError, Free, Goto
<1>16. CASE Close
  BY <1>0, <1>16, SupersededKept DEF Close, Free, Goto, ResultSoFar
<1>17. CASE ExitError
  BY <1>0, <1>17, SupersededKept DEF ExitError, Free, Goto, ResultSoFar
<1>18. CASE OpenStore
  BY ZenonT(60), <1>0, <1>18, SupersededKept DEF OpenStore, Goto, TypeOK, Contexts, ResultSoFar
<1>19. CASE OpenStoreFails
  <2>1. Block("leveldb message") \in Forgotten'
    BY <1>19 DEF OpenStoreFails, Forgotten
  <2>2. QED
    BY ZenonT(60), <1>0, <1>19, <2>1, SupersededKept DEF OpenStoreFails, Goto
<1>20. CASE EditFile
  BY ZenonT(60), <1>0, <1>20, SupersededKept DEF EditFile
<1>22. QED
  BY <1>1, <1>2, <1>3, <1>4, <1>5, <1>6, <1>7, <1>8, <1>9, <1>10, <1>11, <1>12, <1>13,
     <1>14, <1>15, <1>16, <1>17, <1>18, <1>19, <1>20, <1>21 DEF Next, Step, ReadAndParse

----------------------------------------------------------------------------
(* One more item: it overrides what was said of its field, and no other. *)
LEMMA SaysNext ==
    ASSUME NEW doc, NEW m \in Nat, NEW field, NEW default
    PROVE  Says(doc, m + 1, field, default)
             = IF Target(doc, m + 1) = field THEN doc.items[m + 1].value.bytes
               ELSE Says(doc, m, field, default)
<1> DEFINE N(k) == {n \in 1 .. k : Target(doc, n) = field}
<1>1. CASE Target(doc, m + 1) = field
  <2>1. m + 1 \in N(m + 1) /\ \A n \in N(m + 1) : n \in Nat /\ n <= m + 1
    BY <1>1
  <2>2. Largest(N(m + 1)) = m + 1
    <3>1. \A n \in N(m + 1) : (\A k \in N(m + 1) : k <= n) => n = m + 1
      BY <2>1
    <3>2. \A k \in N(m + 1) : k <= m + 1
      BY <2>1
    <3> HIDE DEF N
    <3>3. QED
      BY <2>1, <3>1, <3>2 DEF Largest
  <2>3. N(m + 1) # {}
    BY <2>1
  <2>4. QED
    BY <1>1, <2>2, <2>3 DEF Says
<1>2. CASE Target(doc, m + 1) # field
  <2>1. \A n : n \in 1 .. m + 1 <=> (n \in 1 .. m \/ n = m + 1)
    OBVIOUS
  <2>2. N(m + 1) = N(m)
    BY <1>2, <2>1
  <2>3. QED
    BY <1>2, <2>2 DEF Says
<1>3. QED
  BY <1>1, <1>2

(* Before the first item nothing is said of any field. *)
LEMMA SaysNothing ==
    ASSUME NEW doc, NEW field, NEW default
    PROVE  Says(doc, 0, field, default) = default
BY DEF Says

(* ItemCount counts. *)
LEMMA ItemCountType ==
    ASSUME NEW doc \in Document
    PROVE  ItemCount(doc) \in Nat
BY DEF ItemCount, Document

(* The three fields after one more item, when that item is valid. *)
LEMMA DescribesNext ==
    ASSUME TypeOK, val # None, i' = i + 1, val' = val,
           DescribesUpTo(val, i - 1), Valid(val, i),
           ctx'.address = IF Target(val, i) = "address" THEN CurrentValue.bytes
                          ELSE ctx.address,
           ctx'.sender = IF Target(val, i) = "sender" THEN CurrentValue.bytes
                         ELSE ctx.sender,
           ctx'.data = IF Target(val, i) = "data" THEN CurrentValue.bytes ELSE ctx.data
    PROVE  DescribesUpTo(val, i - 1)'
<1>1. i \in Nat \ {0}
  BY DEF TypeOK
<1> DEFINE m == i - 1
<1>2. m \in Nat /\ i = m + 1 /\ i' - 1 = m + 1
  BY <1>1
<1>3. \A n \in 1 .. m + 1 : Valid(val, n)
  BY <1>2 DEF DescribesUpTo
<1>4. /\ Says(val, m + 1, "address", Zero) = ctx'.address
      /\ Says(val, m + 1, "sender", Zero) = ctx'.sender
      /\ Says(val, m + 1, "data", None) = ctx'.data
  BY <1>2, SaysNext DEF DescribesUpTo, CurrentValue
<1>5. DescribesUpTo(val, i - 1)' <=>
        /\ \A n \in 1 .. i' - 1 : Valid(val', n)
        /\ ctx'.address = Says(val', i' - 1, "address", Zero)
        /\ ctx'.sender = Says(val', i' - 1, "sender", Zero)
        /\ ctx'.data = Says(val', i' - 1, "data", None)
  BY DEF DescribesUpTo
<1>6. QED
  BY <1>2, <1>3, <1>4, <1>5

(* DescribesUpTo looks at three fields of the context only. *)
LEMMA DescribesKept ==
    ASSUME NEW doc, NEW m,
           ctx'.address = ctx.address, ctx'.sender = ctx.sender, ctx'.data = ctx.data,
           DescribesUpTo(doc, m)
    PROVE  DescribesUpTo(doc, m)'
BY DEF DescribesUpTo

(* No error string is NULL. *)
LEMMA StringsNotNull == \A s \in ErrorStrings : s # None
BY ContextAssumption

(* What a document says of the context stays true of the same three fields. *)
LEMMA DescribesStays ==
    ASSUME ctx'.address = ctx.address, ctx'.sender = ctx.sender, ctx'.data = ctx.data,
           source' = source, SourceDescribed
    PROVE  SourceDescribed'
BY DEF SourceDescribed, Describes, DescribesUpTo

(* An untouched context stays untouched when its action or database is set. *)
LEMMA UntouchedStays ==
    ASSUME TypeOK, Untouched, NEW a, NEW b,
           ctx' = [ctx EXCEPT !.action = a] \/ ctx' = [ctx EXCEPT !.db = b]
    PROVE  Untouched'
BY DEF Untouched, EmptyContext, TypeOK, Contexts

(* The loop of configure goes on: one more item is decoded, or skipped. *)
LEMMA LoopGoesOn ==
    ASSUME TypeOK, DataIsLast, DecodedSoFar, Decoding,
           UNCHANGED <<pc, args, val, serr, source>>, i' = i + 1,
           DescribesUpTo(val, i - 1)'
    PROVE  DecodedSoFar'
<1>1. pc = "configure" /\ i <= ItemCount(val) /\ val # None
  BY DEF Decoding, DataIsLast
<1>2. ItemCount(val) \in Nat /\ i \in Nat
  BY <1>1, ItemCountType DEF TypeOK
<1>3. args.argc >= 3 /\ serr = None /\ WasRead(val)
  BY <1>1 DEF DecodedSoFar
<1>4. i' <= ItemCount(val) + 1
  BY <1>1, <1>2
<1>5. (i <= ItemCount(val) + 1)' /\ WasRead(val)'
  BY <1>3, <1>4 DEF WasRead
<1>6. QED
  BY <1>1, <1>3, <1>5 DEF DecodedSoFar, ContextIsDecoded

(* The loop of configure ends: with an error string, or with every item decoded. *)
LEMMA LoopEnds ==
    ASSUME DecodedSoFar, pc = "configure", pc' = "exit_val", args' = args,
           serr' # None \/ SourceDescribed'
    PROVE  DecodedSoFar'
BY DEF DecodedSoFar, ContextIsDecoded

(* The context follows the document; one step per group of like actions. *)
LEMMA DecodeStep ==
    TypeOK /\ FilesOfText /\ DataIsLast /\ ResultSoFar /\ DecodedSoFar /\ [Next]_vars
      => DecodedSoFar'
<1> SUFFICES ASSUME TypeOK, FilesOfText, DataIsLast, ResultSoFar, DecodedSoFar,
                    [Next]_vars
             PROVE  DecodedSoFar'
  OBVIOUS
<1>1. CASE NoAction \/ UnknownAction \/ ConfigureFailed \/ ReportStoreError
  BY <1>1, ErrorMade DEF DecodedSoFar, ContextIsDecoded
<1>2. CASE AllocateContext
  BY <1>2 DEF AllocateContext, Goto, DecodedSoFar, ContextIsDecoded, Untouched
<1>3. CASE KnownAction
  <2>1. Untouched /\ serr = None /\ UNCHANGED <<args, serr>>
    BY <1>3 DEF KnownAction, DecodedSoFar
  <2>2. Untouched'
    BY <1>3, <2>1, UntouchedStays DEF KnownAction
  <2>3. pc' = IF args.argc >= 3 THEN "stat" ELSE "leveldb_open"
    BY <1>3 DEF KnownAction, Goto
  <2>4. CASE args.argc >= 3
    BY <2>1, <2>2, <2>3, <2>4 DEF DecodedSoFar, ContextIsDecoded
  <2>5. CASE ~(args.argc >= 3)
    <3>1. args.argc < 3
      BY <2>5 DEF TypeOK, Arguments
    <3>2. QED
      BY <2>1, <2>2, <2>3, <2>5, <3>1 DEF DecodedSoFar, ContextIsDecoded
  <2>6. QED
    BY <2>4, <2>5
<1>4. CASE Stat \/ Open \/ AllocateFileContent
  <2>1. "open" # None /\ "read" # None
    BY StringsNotNull DEF ErrorStrings
  <2>2. QED
    BY <1>4, <2>1 DEF Stat, Open, AllocateFileContent, FailTo, Goto, DecodedSoFar,
                      ContextIsDecoded, Untouched
<1>5. CASE ReadAndParse
  <2>1. "read" # None /\ "parse" # None
    BY StringsNotNull DEF ErrorStrings
  <2>2. pc = "fread" /\ i = 1 /\ Untouched /\ serr = None /\ args.argc >= 3
        /\ UNCHANGED <<args, i, ctx>>
    BY <1>5, Reading DEF DecodedSoFar, DataIsLast
  <2>3. CASE pc' = "exit_fileContent" /\ serr' \in {"read", "parse"}
    BY <2>1, <2>2, <2>3 DEF DecodedSoFar, ContextIsDecoded
  <2>4. CASE pc' = "crashed"
    BY <2>4 DEF DecodedSoFar, ContextIsDecoded
  <2>5. CASE /\ pc' = "configure" /\ serr' = serr /\ val' # None /\ val' \in Document
             /\ stream # None /\ source' = stream
             /\ val' \in {stream[n] : n \in DOMAIN stream}
    <3>1. ctx.address = Zero /\ ctx.sender = Zero /\ ctx.data = None
      BY <2>2 DEF Untouched, EmptyContext
    <3>2. DescribesUpTo(val, i - 1)'
      <4>1. i' - 1 = 0
        BY <2>2
      <4>2. DescribesUpTo(val, i - 1)' <=>
              /\ \A n \in 1 .. i' - 1 : Valid(val', n)
              /\ ctx'.address = Says(val', i' - 1, "address", Zero)
              /\ ctx'.sender = Says(val', i' - 1, "sender", Zero)
              /\ ctx'.data = Says(val', i' - 1, "data", None)
        BY DEF DescribesUpTo
      <4>3. QED
        BY <2>2, <3>1, <4>1, <4>2, SaysNothing
    <3>3. (i <= ItemCount(val) + 1)'
      <4>1. ItemCount(val') \in Nat
        BY <2>5, ItemCountType
      <4>2. QED
        BY <2>2, <4>1
    <3>4. WasRead(val)'
      <4>1. \A d, e \in DocumentsOf(stream) : d = e
        BY <2>5, PrefixAssumption DEF FilesOfText
      <4>2. val'.type # "other" => val' \in DocumentsOf(stream)
        BY <2>5 DEF DocumentsOf
      <4>3. val'.type # "other" => DocumentsOf(source') = {val'}
        BY <2>5, <4>1, <4>2
      <4>4. QED
        BY <2>5, <4>3 DEF WasRead
    <3>5. QED
      BY <2>2, <2>5, <3>2, <3>3, <3>4 DEF DecodedSoFar, ContextIsDecoded
  <2>6. QED
    BY <1>5, <2>2, <2>3, <2>4, <2>5, Reading
<1>6. CASE SkipEntry \/ DecodeAddress \/ DecodeHexData
  <2>1. Decoding /\ i' = i + 1 /\ UNCHANGED <<pc, args, val, serr, source>>
    BY <1>6 DEF SkipEntry, DecodeAddress, DecodeHexData, SetData
  <2>2. val # None /\ DescribesUpTo(val, i - 1) /\ ctx \in Contexts
    BY <2>1 DEF Decoding, DataIsLast, DecodedSoFar, TypeOK
  <2>3. Valid(val, i)
    <3>1. \A f \in Field : f # None
      BY StringsNotNull DEF ErrorStrings
    <3>2. QED
      BY <1>6, <3>1 DEF SkipEntry, DecodeAddress, DecodeHexData, CurrentTarget,
                        CurrentValue, Valid, Field
  <2>4. CASE SkipEntry
    <3>1. Target(val, i) = None /\ ctx' = ctx
      BY <2>4 DEF SkipEntry, CurrentTarget
    <3>2. \A f \in Field : f # None
      BY StringsNotNull DEF ErrorStrings
    <3>3. QED
      BY <2>1, <2>2, <2>3, <3>1, <3>2, DescribesNext, LoopGoesOn DEF Field
  <2>5. CASE DecodeAddress
    <3>1. Target(val, i) \in {"address", "sender"}
          /\ ctx' = [ctx EXCEPT ![Target(val, i)] = CurrentValue.bytes]
      BY <2>5 DEF DecodeAddress, CurrentTarget
    <3>2. /\ ctx'.address = IF Target(val, i) = "address" THEN CurrentValue.bytes
                            ELSE ctx.address
          /\ ctx'.sender = IF Target(val, i) = "sender" THEN CurrentValue.bytes
                           ELSE ctx.sender
          /\ ctx'.data = ctx.data
      BY <2>2, <3>1 DEF Contexts
    <3>3. QED
      BY <2>1, <2>2, <2>3, <3>1, <3>2, DescribesNext, LoopGoesOn
  <2>6. CASE DecodeHexData
    <3>1. Target(val, i) = "data"
      BY <2>6 DEF DecodeHexData, CurrentTarget
    <3>2. ctx'.address = ctx.address /\ ctx'.sender = ctx.sender
          /\ ctx'.data = CurrentValue.bytes
      BY <2>2, <2>6 DEF DecodeHexData, SetData, Contexts
    <3>3. QED
      BY <2>1, <2>2, <2>3, <3>1, <3>2, DescribesNext, LoopGoesOn
  <2>7. QED
    BY <1>6, <2>4, <2>5, <2>6
<1>7. CASE InvalidDocument \/ RejectAddress \/ RejectHexData
  <2>1. pc = "configure" /\ pc' = "exit_val" /\ args' = args /\ serr' \in ErrorStrings
    BY <1>7 DEF InvalidDocument, RejectAddress, RejectHexData, Decoding, FailTo, Goto,
                ErrorStrings, Field
  <2>2. QED
    BY <2>1, StringsNotNull, LoopEnds
<1>8. CASE ConfigureDone
  <2>1. /\ pc = "configure" /\ pc' = "exit_val" /\ args' = args
        /\ Configurable(val) /\ i > ItemCount(val) /\ UNCHANGED <<ctx, source>>
    BY <1>8 DEF ConfigureDone, Goto
  <2>2. /\ WasRead(val) /\ val # None /\ val.type \in {"object", "array"}
        /\ i <= ItemCount(val) + 1 /\ DescribesUpTo(val, i - 1)
    BY <2>1 DEF DecodedSoFar, DataIsLast, Configurable
  <2>3. i - 1 = ItemCount(val)
    BY <2>1, <2>2, ItemCountType DEF TypeOK
  <2>4. Describes(val)
    BY <2>1, <2>2, <2>3 DEF Describes
  <2>5. DocumentsOf(source) = {val}
    BY <2>2 DEF WasRead
  <2>6. SourceDescribed
    BY <2>2, <2>4, <2>5 DEF SourceDescribed, WasRead
  <2>7. QED
    BY <2>1, <2>6, DescribesStays, LoopEnds
<1>9. CASE StoreThroughNull
  BY <1>9 DEF StoreThroughNull, Goto, DecodedSoFar, ContextIsDecoded
<1>10. CASE ReleaseValue \/ ReleaseFileContent \/ CloseStream
  <2>1. /\ pc \in {"exit_val", "exit_fileContent", "exit_fp"}
        /\ pc' \in {"exit_fileContent", "exit_fp", "configured"}
        /\ UNCHANGED <<args, ctx, serr, source>>
    BY <1>10 DEF ReleaseValue, ReleaseFileContent, CloseStream, Goto
  <2>2. serr = None => SourceDescribed'
    BY <2>1, DescribesStays DEF DecodedSoFar
  <2>3. QED
    BY <2>1, <2>2 DEF DecodedSoFar, ContextIsDecoded
<1>11. CASE Configured
  <2>1. /\ pc = "configured" /\ pc' = "leveldb_open" /\ serr = None
        /\ UNCHANGED <<args, ctx, serr, source>>
    BY <1>11 DEF Configured, Goto
  <2>2. SourceDescribed' /\ args.argc >= 3
    BY <2>1, DescribesStays DEF DecodedSoFar
  <2>3. args.argc \in 1 .. 3
    BY DEF TypeOK, Arguments
  <2>4. QED
    BY <2>1, <2>2, <2>3 DEF DecodedSoFar, ContextIsDecoded, SourceDescribed
<1>12. CASE OpenStore \/ OpenStoreFails
  <2>1. /\ pc = "leveldb_open" /\ pc' \in {"returned", "store failed"}
        /\ UNCHANGED <<args, source>>
        /\ ctx' = ctx \/ ctx' = [ctx EXCEPT !.db = TRUE]
    BY <1>12 DEF OpenStore, OpenStoreFails, Goto
  <2>2. IF args.argc < 3 THEN Untouched ELSE SourceDescribed
    BY <2>1 DEF DecodedSoFar, ContextIsDecoded, SourceDescribed
  <2>3. Untouched => Untouched'
    <3>1. ctx' = ctx => (Untouched => Untouched')
      BY DEF Untouched
    <3>2. QED
      BY <2>1, <3>1, UntouchedStays
  <2>4. UNCHANGED <<ctx.address, ctx.sender, ctx.data>>
    BY <2>1 DEF TypeOK, Contexts
  <2>5. SourceDescribed => SourceDescribed'
    BY <2>1, <2>4, DescribesStays
  <2>6. QED
    BY <2>1, <2>2, <2>3, <2>5 DEF DecodedSoFar, ContextIsDecoded, SourceDescribed
<1>13. CASE CloseAfterError \/ Close \/ ExitError
  <2>1. /\ err' = err /\ pc' \in {"returned", "closed", "exited"}
        /\ pc' = "returned" => pc = "exit_err"
    BY <1>13 DEF CloseAfterError, Close, ExitError, Goto
  <2>2. pc' = "returned" => err' # None
    BY <2>1 DEF ResultSoFar
  <2>3. QED
    BY <2>1, <2>2 DEF DecodedSoFar, ContextIsDecoded
<1>14. CASE EditFile
  BY <1>14 DEF EditFile, DecodedSoFar, ContextIsDecoded, Untouched
<1>15. CASE UNCHANGED vars
  <2>1. UNCHANGED <<pc, args, val, i, ctx, serr, err, source>>
    BY <1>15 DEF vars
  <2>2. QED
    BY <2>1 DEF DecodedSoFar, ContextIsDecoded, Untouched, SourceDescribed, WasRead,
         Describes, DescribesUpTo
<1>16. QED
  BY <1>1, <1>2, <1>3, <1>4, <1>5, <1>6, <1>7, <1>8, <1>9, <1>10, <1>11, <1>12, <1>13,
     <1>14, <1>15 DEF Next, Step, ReadAndParse

----------------------------------------------------------------------------
(* The program starts with nothing held, and every step keeps the invariant. *)
LEMMA InitInv == Init => Inv
<1> SUFFICES ASSUME Init
             PROVE  Inv
  OBVIOUS
<1> USE DEF Init
<1>1. ctx \in Contexts
  BY DEF EmptyContext, Contexts
<1>2. TypeOK
  <2>1. {file, stream, source} \subseteq Texts \cup {None}
    BY ContextAssumption
  <2>2. pc \in Labels /\ live \subseteq Sites \X Nat /\ badFree \in BOOLEAN
    BY DEF Labels
  <2>3. fsize \in Nat /\ i \in Nat \ {0}
    OBVIOUS
  <2>4. QED
    BY <1>1, <2>1, <2>2, <2>3 DEF TypeOK
<1>3. ctx.block = None /\ ctx.db = FALSE
  BY DEF EmptyContext
<1>4. LiveIsOwned
  BY <1>3 DEF LiveIsOwned, Owned, OwnsContext, OwnsError, Running, Opening, Streaming,
              Loaded, Parsing
<1>5. ResultSoFar /\ DataIsLast
  BY <1>3 DEF ResultSoFar, DataIsLast, Opening
<1>6. Untouched
  BY DEF Untouched, EmptyContext
<1>7. DecodedSoFar
  BY <1>6 DEF DecodedSoFar, ContextIsDecoded
<1>8. FilesOfText
  BY DEF FilesOfText
<1>9. QED
  BY <1>2, <1>4, <1>5, <1>7, <1>8 DEF Inv

(* Inv is inductive: its parts rest on one another only as the lemmas say. *)
LEMMA InvStep == Inv /\ [Next]_vars => Inv'
BY TypeStep, FilesStep, ResultStep, DataStep, MemoryStep, DecodeStep DEF Inv, MemoryInv

(***************************************************************************)
(* For every set of context files and every edit of them, whatever fails:  *)
(* each program point of qtum_context_open holds what it owns, and the     *)
(* context holds what the items decoded so far say.                        *)
(***************************************************************************)
THEOREM Invariance == Spec => []Inv
<1>1. Init => Inv
  BY InitInv
<1>2. Inv /\ [Next]_vars => Inv'
  BY InvStep
<1>3. QED
  BY <1>1, <1>2, PTL DEF Spec

(* Counter, context, error object and heap keep their types. *)
THEOREM TypeCorrect == Spec => []TypeOK
<1>1. Inv => TypeOK
  BY DEF Inv
<1>2. QED
  BY <1>1, Invariance, PTL

(* qtum_context_open returns an open context or an error, never both or none. *)
THEOREM OneResult == Spec => []ContextOrError
<1>1. Inv => ContextOrError
  <2> SUFFICES ASSUME Inv, pc = "returned"
               PROVE  \/ err = None /\ {Block("ctx"), Block("db")} \subseteq live
                      \/ /\ err # None /\ {Block("err"), Block("message")} \subseteq live
                         /\ Block("ctx") \notin live /\ Block("db") \notin live
    BY DEF ContextOrError
  <2> USE DEF Inv
  <2>1. Owned \subseteq live /\ live \subseteq Owned \cup Superseded \cup Forgotten
    BY DEF LiveIsOwned, Running
  <2>2. CASE err = None
    <3>1. ctx.db
      BY <2>2 DEF ResultSoFar
    <3>2. {Block("ctx"), Block("db")} \subseteq Owned
      BY <2>2, <3>1 DEF Owned, OwnsContext, HeldByContext
    <3>3. QED
      BY <2>1, <2>2, <3>2
  <2>3. CASE err # None
    <3>1. Owned = {Block("err"), Block("message")}
      BY <2>3 DEF Owned, OwnsContext, OwnsError, Opening, Streaming, Loaded, Parsing
    <3>2. \A s : s # "data" => Block(s) \notin Superseded
      BY DEF Superseded, Block, DataBlock
    <3>3. \A s, t : s # t => Block(s) # Block(t)
      BY DEF Block
    <3>4. Block("ctx") \notin live /\ Block("db") \notin live
      BY <2>1, <3>1, <3>2, <3>3 DEF Forgotten
    <3>5. QED
      BY <2>1, <2>3, <3>1, <3>4
  <2>4. QED
    BY <2>2, <2>3
<1>2. QED
  BY <1>1, Invariance, PTL

(* No cleanup path of open, close and exit_error frees what is not live. *)
THEOREM MemorySafe == Spec => []NoBadFree
<1>1. Inv => NoBadFree
  BY DEF Inv, NoBadFree
<1>2. QED
  BY <1>1, Invariance, PTL

(* An open context has seen no error string, and keeps it so. *)
NoErrorSoFar == (pc = "returned" /\ err = None) \/ pc = "closed" => serr = None

(* Only a step from "leveldb_open" hands out a context. *)
LEMMA NoErrorStep == Inv /\ NoErrorSoFar /\ [Next]_vars => NoErrorSoFar'
<1> SUFFICES ASSUME Inv, NoErrorSoFar, [Next]_vars
             PROVE  NoErrorSoFar'
  OBVIOUS
<1> USE DEF NoErrorSoFar
<1>1. CASE NoAction \/ UnknownAction \/ ConfigureFailed \/ ReportStoreError
  BY <1>1, ErrorMade DEF Inv
<1>2. CASE OpenStore \/ Close
  BY <1>2 DEF OpenStore, Close, Goto, Inv, ResultSoFar
<1>3. CASE CloseAfterError \/ ExitError
  BY <1>3 DEF CloseAfterError, ExitError, Goto, Inv, ResultSoFar
<1>4. CASE ReadAndParse
  BY <1>4, Reading DEF Inv
<1>5. CASE \/ AllocateContext \/ KnownAction \/ Stat \/ Open \/ AllocateFileContent
           \/ InvalidDocument \/ SkipEntry \/ DecodeAddress \/ RejectAddress
           \/ DecodeHexData \/ RejectHexData \/ StoreThroughNull \/ ConfigureDone
           \/ ReleaseValue \/ ReleaseFileContent \/ CloseStream \/ Configured
           \/ OpenStoreFails
  BY <1>5 DEF AllocateContext, KnownAction, Stat, Open, AllocateFileContent,
       InvalidDocument, SkipEntry, DecodeAddress, RejectAddress, DecodeHexData, RejectHexData,
       StoreThroughNull, ConfigureDone, ReleaseValue, ReleaseFileContent, CloseStream,
       Configured, OpenStoreFails, Decoding, FailTo, Goto
<1>6. CASE EditFile \/ UNCHANGED vars
  BY <1>6 DEF EditFile, vars
<1>7. QED
  BY <1>1, <1>2, <1>3, <1>4, <1>5, <1>6 DEF Next, Step, ReadAndParse

(***************************************************************************)
(* A closed context leaves superseded call data behind; a freed error      *)
(* that, and the leveldb message or the open values of the parser if they  *)
(* are what it is about.                                                   *)
(***************************************************************************)
THEOREM LeaksKnown == Spec => []OnlyKnownLeaks
<1>1. Init => NoErrorSoFar
  BY DEF Init, NoErrorSoFar
<1>2. Inv /\ NoErrorSoFar => OnlyKnownLeaks
  <2>1. pc \in {"closed", "exited"} => Owned = {}
    BY DEF Owned, OwnsContext, OwnsError, Opening, Streaming, Loaded, Parsing
  <2>2. serr = None => Forgotten = {}
    BY StringsNotNull DEF Forgotten, ErrorStrings
  <2>3. QED
    BY <2>1, <2>2 DEF Inv, LiveIsOwned, OnlyKnownLeaks, NoErrorSoFar
<1>3. QED
  BY <1>1, <1>2, NoErrorStep, Invariance, PTL DEF Spec

(* A context that is handed out says what a document of the file said. *)
THEOREM DecodesTheFile == Spec => []ContextIsDecoded
<1>1. Inv => ContextIsDecoded
  BY DEF Inv, DecodedSoFar
<1>2. QED
  BY <1>1, Invariance, PTL

----------------------------------------------------------------------------
(* No message of another kind is the name of a field. *)
LEMMA OtherMessages ==
    /\ {"open", "read", "parse", "invalid", "leveldb"} \cap Field = {}
    /\ None \notin Field
BY StringsNotNull DEF Field, ErrorStrings

(* A rejected item is the first bad one, and nothing is decoded behind it. *)
LEMMA ErrorStep == Inv /\ ErrorNamesFirstBadItem /\ [Next]_vars => ErrorNamesFirstBadItem'
<1> SUFFICES ASSUME Inv, ErrorNamesFirstBadItem, [Next]_vars
             PROVE  ErrorNamesFirstBadItem'
  OBVIOUS
<1>1. CASE UNCHANGED <<i, val, serr>>
  BY <1>1 DEF ErrorNamesFirstBadItem
<1>2. CASE serr' \notin Field
  BY <1>2 DEF ErrorNamesFirstBadItem
<1>3. CASE RejectAddress \/ RejectHexData
  <2>1. Decoding /\ serr' = Target(val, i) /\ UNCHANGED <<i, val>>
    BY <1>3 DEF RejectAddress, RejectHexData, FailTo, CurrentTarget
  <2>2. Target(val, i) \in Field /\ ~Valid(val, i)
    BY <1>3 DEF RejectAddress, RejectHexData, CurrentTarget, CurrentValue, Valid, Field
  <2>3. \A n \in 1 .. i - 1 : Valid(val, n)
    BY <2>1 DEF Inv, DecodedSoFar, Decoding, DescribesUpTo
  <2>4. QED
    BY <2>1, <2>2, <2>3 DEF ErrorNamesFirstBadItem, Decoding
<1>4. CASE ReadAndParse \/ SkipEntry \/ DecodeAddress \/ DecodeHexData
  <2>1. serr = None
    BY <1>4, Reading DEF SkipEntry, DecodeAddress, DecodeHexData, Decoding,
                Inv, DecodedSoFar
  <2>2. serr' \in {serr, "read", "parse"}
    BY <1>4, Reading DEF SkipEntry, DecodeAddress, DecodeHexData, SetData, Inv
  <2>3. QED
    BY <1>2, <2>1, <2>2, OtherMessages
<1>5. CASE Stat \/ Open \/ AllocateFileContent \/ InvalidDocument \/ OpenStoreFails
  BY <1>1, <1>2, <1>5, OtherMessages
     DEF Stat, Open, AllocateFileContent, InvalidDocument, OpenStoreFails, FailTo
<1>6. CASE \/ NoAction \/ AllocateContext \/ UnknownAction \/ KnownAction \/ ConfigureDone
           \/ StoreThroughNull \/ ReleaseValue \/ ReleaseFileContent \/ CloseStream
           \/ ConfigureFailed \/ Configured \/ OpenStore \/ ReportStoreError
           \/ CloseAfterError \/ Close \/ ExitError \/ EditFile \/ UNCHANGED vars
  BY <1>1, <1>6
     DEF NoAction, AllocateContext, UnknownAction, KnownAction, ConfigureDone,
         StoreThroughNull, ReleaseValue, ReleaseFileContent, CloseStream, ConfigureFailed,
         Configured, OpenStore, ReportStoreError, CloseAfterError, Close, ExitError,
         EditFile, vars
<1>7. QED
  BY <1>3, <1>4, <1>5, <1>6 DEF Next, Step, ReadAndParse

(***************************************************************************)
(* An error about a field is about the first item of the file that is      *)
(* wrong, for files with any number of items.                              *)
(***************************************************************************)
THEOREM ErrorNamesItem == Spec => []ErrorNamesFirstBadItem
<1>1. Init => ErrorNamesFirstBadItem
  BY OtherMessages DEF Init, ErrorNamesFirstBadItem
<1>2. QED
  BY <1>1, ErrorStep, Invariance, PTL DEF Spec

----------------------------------------------------------------------------
(***************************************************************************)
(* The refinement of Opening.  Its phase is told from pc, err and serr;    *)
(* that the code of an error and serr agree about the store is a part of   *)
(* the invariant, and so is that only an open context has the database.    *)
(***************************************************************************)
StorePhase ==
    /\ serr = "leveldb" =>
         /\ pc \in {"store failed", "exit_err", "returned", "exited", "oom"}
         /\ pc = "returned" => err # None
    /\ pc = "store failed" => serr = "leveldb"
    /\ pc \in {"exit_err", "returned", "exited"} /\ err # None =>
         (err.code = QERR_STORAGE <=> serr = "leveldb")

OpenInv == Inv /\ StorePhase

(* An error about the store is one that leveldb_open reported. *)
LEMMA StorePhaseStep == OpenInv /\ [Next]_vars => StorePhase'
<1> SUFFICES ASSUME OpenInv, [Next]_vars
             PROVE  StorePhase'
  OBVIOUS
<1> USE DEF OpenInv, Inv
<1>0. None # "leveldb" /\ QERR_STORAGE # QERR_INVALID_CONTEXT
  BY StringsNotNull DEF ErrorStrings, QERR_STORAGE, QERR_INVALID_CONTEXT
<1>1. ASSUME NEW code, NEW msg, NEW copied, NEW next, NewError(code, msg, copied, next)
      PROVE  pc' = "oom" \/ (pc' = next /\ err'.code = code)
  BY <1>1 DEF NewError, Goto
<1>2. CASE NoAction \/ UnknownAction
  <2>1. pc' = "oom" \/ (pc' \in {"returned", "exit_err"} /\ err'.code = QERR_INVALID_CONTEXT)
    BY <1>1, <1>2 DEF NoAction, UnknownAction
  <2>2. serr' = None
    BY <1>2 DEF NoAction, UnknownAction, DecodedSoFar
  <2>3. QED
    BY <1>0, <2>1, <2>2 DEF StorePhase
<1>3. CASE ConfigureFailed
  <2>1. pc = "configured" /\ serr' = serr
    BY <1>3 DEF ConfigureFailed
  <2>2. pc' = "oom" \/ (pc' = "exit_err" /\ err'.code = QERR_INVALID_CONTEXT)
    BY <1>1, <1>3 DEF ConfigureFailed
  <2>3. QED
    BY <1>0, <2>1, <2>2 DEF StorePhase
<1>4. CASE ReportStoreError
  <2>1. pc = "store failed" /\ serr' = serr
    BY <1>4 DEF ReportStoreError
  <2>2. pc' = "oom" \/ (pc' = "exit_err" /\ err'.code = QERR_STORAGE)
    BY <1>1, <1>4 DEF ReportStoreError
  <2>3. QED
    BY <2>1, <2>2 DEF StorePhase
<1>5. CASE OpenStoreFails
  BY <1>5 DEF OpenStoreFails, Goto, StorePhase
<1>6. CASE OpenStore
  <2>1. pc = "leveldb_open" /\ pc' = "returned" /\ err' = err /\ serr' = serr
    BY <1>6 DEF OpenStore, Goto
  <2>2. err = None
    BY <2>1 DEF ResultSoFar, Opening
  <2>3. QED
    BY <2>1, <2>2 DEF StorePhase
<1>7. CASE CloseAfterError \/ ExitError
  <2>1. /\ pc \in {"exit_err", "returned"} /\ pc' \in {"returned", "exited"}
        /\ err # None /\ UNCHANGED <<err, serr>>
    BY <1>7 DEF CloseAfterError, ExitError, Goto, ResultSoFar
  <2>2. QED
    BY <2>1 DEF StorePhase
<1>8. CASE Close
  <2>1. pc = "returned" /\ err = None /\ pc' = "closed" /\ UNCHANGED serr
    BY <1>8 DEF Close, Goto
  <2>2. QED
    BY <2>1 DEF StorePhase
<1>9. CASE AllocateContext \/ KnownAction \/ Configured \/ ReleaseValue \/ ReleaseFileContent
           \/ CloseStream \/ ConfigureDone \/ StoreThroughNull \/ SkipEntry \/ DecodeAddress
           \/ DecodeHexData
  <2>1. /\ pc \in Opening \cup {"argc"} /\ pc # "store failed" /\ UNCHANGED serr
        /\ pc' \in Opening \cup {"oom", "crashed"} /\ pc' # "store failed"
    BY <1>9 DEF AllocateContext, KnownAction, Configured, ReleaseValue, ReleaseFileContent,
         CloseStream, ConfigureDone, StoreThroughNull, SkipEntry, DecodeAddress,
         DecodeHexData, Decoding, Goto, Opening
  <2>2. QED
    BY <2>1 DEF StorePhase, Opening
<1>10. CASE Stat \/ Open \/ AllocateFileContent \/ ReadAndParse \/ InvalidDocument
            \/ RejectAddress \/ RejectHexData
  <2>1. /\ pc \in Opening /\ pc # "store failed"
        /\ pc' \in Opening \cup {"crashed"} /\ pc' # "store failed"
        /\ serr' = serr \/ serr' \in Field \cup {"open", "read", "parse", "invalid"}
    BY <1>10, Reading DEF Stat, Open, AllocateFileContent, InvalidDocument,
         RejectAddress, RejectHexData, Decoding, FailTo, Goto, Opening, Field
  <2>2. QED
    BY <2>1, OtherMessages DEF StorePhase, Opening
<1>11. CASE EditFile \/ UNCHANGED vars
  BY <1>11 DEF EditFile, vars, StorePhase
<1>12. QED
  BY <1>2, <1>3, <1>4, <1>5, <1>6, <1>7, <1>8, <1>9, <1>10, <1>11
  DEF Next, Step, ReadAndParse

(* The database is held by an open context, and released with it. *)
StoreHeld == Block("db") \in live
StoreIsOpen == pc \notin {"oom", "crashed"} => (StoreHeld <=> pc = "returned" /\ err = None)

(* Nobody else has the database. *)
LEMMA StoreIsHeld == OpenInv => StoreIsOpen
<1> SUFFICES ASSUME OpenInv, pc \notin {"oom", "crashed"}
             PROVE  Block("db") \in live <=> pc = "returned" /\ err = None
  BY DEF StoreIsOpen, StoreHeld
<1>1. Block("db") \notin Superseded \cup Forgotten
  BY BlocksDiffer DEF Block, Superseded, DataBlock, Forgotten
<1>2. ctx.block # None => ctx.block # Block("db")
  BY BlocksDiffer DEF OpenInv, Inv
<1>3. Block("db") \in Owned <=> OwnsContext /\ ctx.db
  <2>1. Block("db") \in HeldByContext <=> ctx.db
    BY <1>2, BlocksDiffer DEF HeldByContext, OpenInv, Inv, TypeOK, Contexts
  <2>2. Block("db") \notin {Block("err"), Block("message"), Block("fp"),
                            Block("fileContent"), Block("val")}
    BY DEF Block
  <2>3. QED
    BY <2>1, <2>2 DEF Owned
<1>4. OwnsContext /\ ctx.db <=> pc = "returned" /\ err = None
  BY DEF OwnsContext, OpenInv, Inv, ResultSoFar, Opening
<1>5. QED
  BY <1>1, <1>3, <1>4 DEF OpenInv, Inv, LiveIsOwned, Running, Labels, TypeOK

(* Opening's phase, program point by program point. *)
PhaseTable ==
    /\ pc \in {"oom", "crashed"} => Phase = "dead"
    /\ pc = "closed" => Phase = "closed"
    /\ pc \in {"returned", "exited"} /\ err # None =>
         Phase = IF err.code = QERR_STORAGE THEN "storage error" ELSE "refused"
    /\ pc = "returned" /\ err = None => Phase = "open"
    /\ pc = "leveldb_open" => Phase = "accepted"
    /\ pc \in {"store failed", "exit_err"} /\ serr = "leveldb" => Phase = "accepted"
    /\ pc \in Opening \cup {"argc", "exit_err"} /\ pc # "leveldb_open" /\ serr # "leveldb" =>
         Phase = "opening"

(* The table is what Phase says. *)
LEMMA PhaseIsTable == PhaseTable
BY DEF PhaseTable, Phase, Opening

(* Opening's variables move as Phase and StoreHeld do. *)
LEMMA PhaseMoves ==
    ASSUME NEW from, NEW to, Phase = from, Phase' = to
    PROVE  /\ StoreHeld' => O!Becomes(from, to, TRUE)
           /\ ~StoreHeld' => O!Becomes(from, to, FALSE)
BY DEF StoreHeld, O!Becomes

(* Nothing changes for Opening when Phase and StoreHeld stay. *)
LEMMA PhaseStays == Phase' = Phase /\ (StoreHeld' <=> StoreHeld) => UNCHANGED O!vars
BY DEF StoreHeld, O!vars

(* Opening may die with the store as it was. *)
LEMMA PhaseDies == Phase \in {"opening", "accepted"} /\ Phase' = "dead"
                     /\ (StoreHeld' <=> StoreHeld) => O!Open
BY DEF StoreHeld, O!Open, O!Die

(* Every step of the code is one of Opening, or leaves phase and store alone. *)
LEMMA OpeningStep == OpenInv /\ OpenInv' /\ [Next]_vars => [O!Open \/ O!Close]_(O!vars)
<1> SUFFICES ASSUME OpenInv, OpenInv', [Next]_vars
             PROVE  [O!Open \/ O!Close]_(O!vars)
  OBVIOUS
<1>0. StoreIsOpen /\ StoreIsOpen' /\ PhaseTable /\ PhaseTable'
  BY StoreIsHeld, PhaseIsTable, PTL
<1>1. SUFFICES \/ Phase' = Phase /\ (StoreHeld' <=> StoreHeld)
               \/ Phase = "opening" /\ Phase' \in {"accepted", "refused"} /\ ~StoreHeld'
               \/ Phase = "accepted" /\ Phase' = "open" /\ StoreHeld'
               \/ Phase = "accepted" /\ Phase' = "storage error" /\ ~StoreHeld'
               \/ Phase = "open" /\ Phase' = "closed" /\ ~StoreHeld'
               \/ /\ Phase \in {"opening", "accepted"} /\ Phase' = "dead"
                  /\ StoreHeld' <=> StoreHeld
  <2>1. O!Becomes("opening", "accepted", FALSE) \/ O!Becomes("opening", "refused", FALSE)
          => O!Open
    BY DEF O!Open, O!Accept, O!Refuse
  <2>2. O!Becomes("accepted", "open", TRUE) \/ O!Becomes("accepted", "storage error", FALSE)
          => O!Open
    BY DEF O!Open, O!GetStore, O!StoreFails
  <2>3. O!Becomes("open", "closed", FALSE) => O!Close
    BY DEF O!Close
  <2>4. QED
    BY <2>1, <2>2, <2>3, PhaseMoves, PhaseStays, PhaseDies
<1> DEFINE early == (Opening \ {"leveldb_open", "store failed"}) \cup {"argc", "exit_err"}
<1>2. ASSUME pc' \in {"oom", "crashed"}, pc \in Opening \cup {"argc"}, live' = live
      PROVE  /\ Phase \in {"opening", "accepted"} /\ Phase' = "dead"
             /\ StoreHeld' <=> StoreHeld
  BY <1>0, <1>2 DEF PhaseTable, StoreHeld, Opening, OpenInv, StorePhase
<1>3. ASSUME pc \in early, pc' \in early, serr # "leveldb", serr' # "leveldb"
      PROVE  Phase' = Phase /\ (StoreHeld' <=> StoreHeld)
  BY <1>0, <1>3 DEF PhaseTable, StoreIsOpen, Opening
<1>4. /\ pc \in early \ {"exit_err"} => serr # "leveldb"
      /\ pc' \in early \ {"exit_err"} => serr' # "leveldb"
  BY DEF Opening, OpenInv, StorePhase
<1>5. ASSUME NEW code, NEW msg, NEW copied, NEW next, NewError(code, msg, copied, next)
      PROVE  (pc' = "oom" /\ live' = live) \/ (pc' = next /\ err'.code = code)
  BY <1>5 DEF NewError, Goto
<1>6. CASE NoAction
  <2>1. pc = "argc"
    BY <1>6 DEF NoAction
  <2>2. CASE pc' = "oom" /\ live' = live
    BY <1>2, <2>1, <2>2
  <2>3. CASE pc' = "returned" /\ err'.code = QERR_INVALID_CONTEXT
    <3>1. serr' # "leveldb" /\ Phase = "opening" /\ ~StoreHeld
      BY <1>0, <1>4, <1>6, <2>1 DEF NoAction, PhaseTable, StoreIsOpen, Opening
    <3>2. err' # None
      BY <1>6, <2>3, ErrorMade DEF OpenInv, Inv
    <3>3. Phase' = "refused" /\ ~StoreHeld'
      <4>1. Phase' = "refused"
        <5>1. Phase' = IF err'.code = QERR_STORAGE THEN "storage error" ELSE "refused"
          BY <1>0, <2>3, <3>2 DEF PhaseTable
        <5>2. err'.code # QERR_STORAGE
          BY <2>3 DEF QERR_INVALID_CONTEXT, QERR_STORAGE
        <5>3. QED
          BY <5>1, <5>2
      <4>2. StoreIsOpen'
        BY <1>0
      <4>3. ~StoreHeld'
        BY <2>3, <3>2, <4>2 DEF StoreIsOpen
      <4>4. QED
        BY <4>1, <4>3
    <3>4. QED
      BY <3>1, <3>3
  <2>4. QED
    BY <1>5, <1>6, <2>2, <2>3 DEF NoAction
<1>7. CASE UnknownAction \/ ConfigureFailed
  <2>1. pc \in {"action", "configured"} /\ serr' = serr
    BY <1>7 DEF UnknownAction, ConfigureFailed
  <2>2. CASE pc' = "oom" /\ live' = live
    BY <1>2, <2>1, <2>2 DEF Opening
  <2>3. CASE pc' = "exit_err"
    BY <1>3, <1>4, <2>1, <2>3 DEF Opening
  <2>4. QED
    BY <1>5, <1>7, <2>2, <2>3 DEF UnknownAction, ConfigureFailed
<1>8. CASE ReportStoreError
  <2>1. pc = "store failed" /\ serr' = serr
    BY <1>8 DEF ReportStoreError
  <2>2. CASE pc' = "oom" /\ live' = live
    BY <1>2, <2>1, <2>2 DEF Opening
  <2>3. CASE pc' = "exit_err"
    BY <1>0, <2>1, <2>3 DEF PhaseTable, StoreIsOpen, OpenInv, StorePhase
  <2>4. QED
    BY <1>5, <1>8, <2>2, <2>3 DEF ReportStoreError
<1>17. CASE ReadAndParse /\ pc' = "crashed"
  BY <1>2, <1>17, Reading DEF Opening, OpenInv, Inv
<1>9. CASE AllocateContext \/ StoreThroughNull
  <2>1. pc \in {"argc", "configure"} /\ serr' = serr
    BY <1>9 DEF AllocateContext, StoreThroughNull, Decoding
  <2>2. (pc' \in {"oom", "crashed"} /\ live' = live) \/ pc' = "action"
    BY <1>9 DEF AllocateContext, StoreThroughNull, Goto
  <2>3. QED
    BY <1>2, <1>3, <1>4, <2>1, <2>2 DEF Opening
<1>10. CASE KnownAction \/ Configured
  <2>1. /\ pc \in {"action", "configured"} /\ pc' \in {"stat", "leveldb_open"}
        /\ serr' = serr
    BY <1>10 DEF KnownAction, Configured, Goto
  <2>2. CASE pc' = "stat"
    BY <1>3, <1>4, <2>1, <2>2 DEF Opening
  <2>3. CASE pc' = "leveldb_open"
    BY <1>0, <1>4, <2>1, <2>3 DEF PhaseTable, StoreIsOpen, Opening
  <2>4. QED
    BY <2>1, <2>2, <2>3
<1>18. CASE ReadAndParse /\ pc' # "crashed"
  <2>1. pc \in early \ {"exit_err"} /\ pc' \in early \ {"exit_err"}
    BY <1>18, Reading DEF Opening, OpenInv, Inv
  <2>2. serr # "leveldb" /\ serr' # "leveldb"
    BY <1>4, <2>1 DEF Opening
  <2>3. QED
    BY <1>3, <2>1, <2>2
<1>11. CASE Stat \/ Open \/ AllocateFileContent \/ InvalidDocument \/ SkipEntry
            \/ DecodeAddress \/ RejectAddress \/ DecodeHexData \/ RejectHexData
            \/ ConfigureDone \/ ReleaseValue \/ ReleaseFileContent \/ CloseStream
  <2>1. pc \in early \ {"exit_err"} /\ pc' \in early \ {"exit_err"}
    BY <1>11 DEF Stat, Open, AllocateFileContent, InvalidDocument, SkipEntry,
         DecodeAddress, RejectAddress, DecodeHexData, RejectHexData, ConfigureDone,
         ReleaseValue, ReleaseFileContent, CloseStream, Decoding, FailTo, Goto, Opening
  <2>2. serr # "leveldb" /\ serr' # "leveldb"
    BY <1>4, <2>1 DEF Opening
  <2>3. QED
    BY <1>3, <2>1, <2>2
<1>12. CASE OpenStore \/ OpenStoreFails
  <2>1. pc = "leveldb_open" /\ err' = err /\ err = None
    BY <1>12 DEF OpenStore, OpenStoreFails, OpenInv, Inv, ResultSoFar, Opening
  <2>2. pc' = "returned" \/ (pc' = "store failed" /\ serr' = "leveldb")
    BY <1>12 DEF OpenStore, OpenStoreFails, Goto
  <2>3. QED
    BY <1>0, <2>1, <2>2 DEF PhaseTable, StoreIsOpen
<1>13. CASE CloseAfterError
  <2>1. pc = "exit_err" /\ pc' = "returned" /\ err # None /\ UNCHANGED <<err, serr>>
    BY <1>13 DEF CloseAfterError, Goto, OpenInv, Inv, ResultSoFar
  <2>2. QED
    BY <1>0, <2>1 DEF PhaseTable, StoreIsOpen, OpenInv, StorePhase
<1>14. CASE Close \/ ExitError
  <2>1. /\ pc = "returned" /\ err' = err
        /\ pc' = IF err = None THEN "closed" ELSE "exited"
    BY <1>14 DEF Close, ExitError, Goto
  <2>2. QED
    BY <1>0, <2>1 DEF PhaseTable, StoreIsOpen, OpenInv, StorePhase
<1>15. CASE EditFile \/ UNCHANGED vars
  BY <1>15 DEF EditFile, vars, Phase, StoreHeld
<1>16. QED
  BY <1>6, <1>7, <1>8, <1>9, <1>10, <1>11, <1>12, <1>13, <1>14, <1>15, <1>17, <1>18
  DEF Next, Step, ReadAndParse

(***************************************************************************)
(* open is for its caller the two steps of Opening, for any context file:  *)
(* the command line is judged before the store is asked for, each error    *)
(* has its own code, and only an open context has the store.               *)
(***************************************************************************)
THEOREM OpensInTwoSteps == Spec => O!Safety
<1>1. Init => StorePhase
  BY StringsNotNull DEF Init, StorePhase, ErrorStrings
<1>2. OpenInv /\ [Next]_vars => OpenInv'
  BY StorePhaseStep, InvStep DEF OpenInv
<1>3. Init => O!Init
  <2>1. Init => Phase = "opening"
    BY StringsNotNull DEF Init, Phase, ErrorStrings
  <2>2. QED
    BY <2>1 DEF Init, O!Init
<1>4. Init => OpenInv
  BY <1>1, InitInv DEF OpenInv
<1>5. QED
  BY <1>2, <1>3, <1>4, OpeningStep, PTL DEF Spec, O!Safety
=============================================================================
