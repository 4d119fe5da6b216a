------------------------------ MODULE JsonParser ------------------------------
(***************************************************************************)
(* json_parse_ex and json_value_free of json.c, for the settings of qtum.c *)
(* (comments, no memory limit).  The parser reads the text twice: pass 1   *)
(* checks it, links the values it meets into a chain and counts what each  *)
(* will hold; pass 0 reads it again, takes the values from the chain, and  *)
(* gives each one block of exactly the counted size to fill.  Any          *)
(* allocation may fail.                                                    *)
(*                                                                         *)
(* A character of the model stands for what one step of the scanner        *)
(* consumes: a class of characters that it treats alike, a whole literal,  *)
(* a comment's opening or closing, or the XXXX of a \uXXXX.  What a number *)
(* is worth is left out.                                                   *)
(***************************************************************************)
EXTENDS Integers, Sequences

CONSTANTS Prefix,     \* what the text is known to begin with, or be
          Alphabet,   \* the characters it may go on with
          MaxLength   \* bound on how far it goes on

Quote == "\""
Backslash == "\\"
Blank == " "
Newline == "\n"        \* or a carriage return
LineComment == "//"
BlockComment == "/*"
EndComment == "*/"     \* of a block comment
Slash == "/"           \* with neither a slash nor a star behind it
NUL == "NUL"           \* the end of the text; a NUL in it ends it, too
Literal == "true"      \* true, false or null
Fragment == "tru"      \* something else that begins like one of them
Other == "x"
Unicode == "u"         \* behind a backslash: uXXXX, three bytes as UTF-8
BadUnicode == "u?"     \* behind a backslash: u without its four digits
Digits == {"0", "1"}   \* "1" is any digit but zero
Signs == {"+", "-"}
NumberChars == Digits \cup Signs \cup {".", "e"}

Chars == NumberChars \cup {"{", "}", "[", "]", ",", ":", Quote, Backslash, Blank, NUL,
                           Newline, LineComment, BlockComment, EndComment, Slash,
                           Literal, Fragment, Other, Unicode, BadUnicode}

ASSUME ParserAssumption ==
    /\ Alphabet \subseteq Chars \ {NUL}
    /\ Prefix \subseteq Seq(Chars)
    /\ MaxLength \in Nat

VARIABLES
    pc,            \* "scan", a label of json_parse_ex, or where the caller is
    first_pass,    \* 1 or 0; -1 when both passes are done
    text,          \* the text as far as it has been looked at
    ptr,           \* the position of the character that is read next
    flags,
    top, root, alloc,   \* values, by their place in the chain; 0 is NULL
    string_length, num_digits,
    values,        \* the chain of json_values
    live,          \* blocks not yet released
    badFree,       \* history: something was released that was not live
    cur            \* the value that json_value_free_ex looks at

scanner == <<text, ptr, flags, string_length, num_digits>>
tree == <<top, root, alloc, values>>
vars == <<pc, first_pass, scanner, tree, live, badFree, cur>>

(***************************************************************************)
(* A json_value.  length: of the union, entries or bytes.  names: of an    *)
(* object, the bytes of the names met so far; pass 1 counts them in the    *)
(* pointer that will hold the block, pass 0 moves object_mem by them.      *)
(* size and room: entries and bytes of the block of pass 0 (both 0: NULL). *)
(* kids and keys: what is in the entries, the keys by their length.        *)
(***************************************************************************)
NewRecord(type, parent) ==
    [type |-> type, parent |-> parent, length |-> 0, names |-> 0,
     size |-> 0, room |-> 0, kids |-> <<>>, keys |-> <<>>]

Value(n) == <<"value", n>>
Data(n) == <<"data", n>>

Init ==
    /\ pc = "scan" /\ first_pass = 1
    /\ text \in Prefix
    /\ ptr = 1 /\ flags = {"seek_value"} /\ string_length = 0 /\ num_digits = 0
    /\ top = 0 /\ root = 0 /\ alloc = 0 /\ values = <<>>
    /\ live = {} /\ badFree = FALSE /\ cur = 0

----------------------------------------------------------------------------
(***************************************************************************)
(* b: the character at ptr, or one that the text may go on with, or NUL.   *)
(* Other is every character that has no meaning where it is.               *)
(***************************************************************************)
InString == "string" \in flags
InLineComment == "line_comment" \in flags
InBlockComment == "block_comment" \in flags

Meaningful ==
    IF InString THEN {Other, Quote, Backslash, Unicode, BadUnicode}
    ELSE IF InLineComment THEN {Other, Newline}
    ELSE IF InBlockComment THEN {Other, Newline, EndComment}
    ELSE Chars \ {Backslash, Unicode, BadUnicode, EndComment}

Readable ==
    IF ptr <= Len(text) THEN {text[ptr]}
    ELSE {NUL} \cup (IF ptr > MaxLength THEN {} ELSE Alphabet \cap Meaningful)

Scanning(b) ==
    /\ pc = "scan" /\ "next" \notin flags
    /\ b \in Readable
    /\ text' = IF ptr <= Len(text) THEN text ELSE Append(text, b)

(* What the scanner can be in the middle of. *)
InJson == ~InString /\ ~InLineComment /\ ~InBlockComment
IsDone == InJson /\ "done" \in flags
Seeking == InJson /\ ~IsDone /\ "seek_value" \in flags
InValue == InJson /\ ~IsDone /\ ~Seeking
InObject == InValue /\ values[top].type = "object"
InNumber == InValue /\ values[top].type \in {"integer", "double"}

Continue(newFlags) == flags' = newFlags /\ ptr' = ptr + 1

(* To the code behind the switch: the value is complete. *)
Complete(newFlags) == flags' = newFlags \cup {"next"} /\ UNCHANGED ptr

rest == <<pc, first_pass, live, badFree, cur>>

(***************************************************************************)
(* Strings, and names of object entries.                                   *)
(***************************************************************************)
StringChar == \E b \in Chars \ {Quote, Backslash, NUL} :
    /\ Scanning(b) /\ InString /\ "escaped" \notin flags
    /\ string_length' = string_length + 1
    /\ Continue(flags)
    /\ UNCHANGED <<rest, tree, num_digits>>

StartEscape ==
    /\ Scanning(Backslash) /\ InString /\ "escaped" \notin flags
    /\ Continue(flags \cup {"escaped"})
    /\ UNCHANGED <<rest, tree, string_length, num_digits>>

Escape == \E b \in Chars \ {NUL, BadUnicode} :
    /\ Scanning(b) /\ InString /\ "escaped" \in flags
    /\ string_length' = string_length + (IF b = Unicode THEN 3 ELSE 1)
    /\ Continue(flags \ {"escaped"})
    /\ UNCHANGED <<rest, tree, num_digits>>

CloseString ==
    /\ Scanning(Quote) /\ InString /\ "escaped" \notin flags
    /\ values[top].type = "string"
    /\ values' = [values EXCEPT ![top].length = string_length]
    /\ Complete(flags \ {"string"})
    /\ UNCHANGED <<rest, top, root, alloc, string_length, num_digits>>

CloseNameWithoutNul ==
    /\ Scanning(Quote) /\ InString /\ "escaped" \notin flags
    /\ values[top].type = "object"
    /\ values' = [values EXCEPT ![top].names = @ + string_length + 1 - first_pass,
                                ![top].keys = IF first_pass = 1 THEN @
                                              ELSE Append(@, string_length)]
    /\ Continue((flags \ {"string"}) \cup {"seek_value", "need_colon"})
    /\ UNCHANGED <<rest, top, root, alloc, string_length, num_digits>>

(* The name and its NUL: counted by pass 1, in the block in pass 0. *)
CloseName ==
    /\ Scanning(Quote) /\ InString /\ "escaped" \notin flags
    /\ values[top].type = "object"
    /\ values' = [values EXCEPT ![top].names = @ + string_length + 1,
                                ![top].keys = IF first_pass = 1 THEN @
                                              ELSE Append(@, string_length)]
    /\ Continue((flags \ {"string"}) \cup {"seek_value", "need_colon"})
    /\ UNCHANGED <<rest, top, root, alloc, string_length, num_digits>>

----------------------------------------------------------------------------
(***************************************************************************)
(* Comments: anywhere but in a string and behind the digits of a number.   *)
(* The character that ends a line comment is read again.                   *)
(***************************************************************************)
StartLineComment ==
    /\ Scanning(LineComment) /\ (IsDone \/ Seeking \/ InObject)
    /\ Continue(flags \cup {"line_comment"})
    /\ UNCHANGED <<rest, tree, string_length, num_digits>>

StartBlockComment ==
    /\ Scanning(BlockComment) /\ (IsDone \/ Seeking \/ InObject)
    /\ Continue(flags \cup {"block_comment"})
    /\ UNCHANGED <<rest, tree, string_length, num_digits>>

CommentCharPastNul == \E b \in Chars :
    /\ Scanning(b)
    /\ \/ InLineComment /\ b # Newline
       \/ InBlockComment /\ b # EndComment
    /\ Continue(flags)
    /\ UNCHANGED <<rest, tree, string_length, num_digits>>

CommentChar == \E b \in Chars \ {NUL} :
    /\ Scanning(b)
    /\ \/ InLineComment /\ b # Newline
       \/ InBlockComment /\ b # EndComment
    /\ Continue(flags)
    /\ UNCHANGED <<rest, tree, string_length, num_digits>>

EndAnyCommentAtNewline == \E b \in {Newline, NUL} :
    /\ Scanning(b) /\ (InLineComment \/ InBlockComment)
    /\ flags' = flags \ {"line_comment", "block_comment"}
    /\ UNCHANGED <<rest, ptr, tree, string_length, num_digits>>

EndLineCommentKeepingFlag == \E b \in {Newline, NUL} :
    /\ Scanning(b) /\ InLineComment
    /\ UNCHANGED <<rest, ptr, flags, tree, string_length, num_digits>>

EndLineComment == \E b \in {Newline, NUL} :
    /\ Scanning(b) /\ InLineComment
    /\ flags' = flags \ {"line_comment"}
    /\ UNCHANGED <<rest, ptr, tree, string_length, num_digits>>

EndBlockComment ==
    /\ Scanning(EndComment) /\ InBlockComment
    /\ Continue(flags \ {"block_comment"})
    /\ UNCHANGED <<rest, tree, string_length, num_digits>>

----------------------------------------------------------------------------
(***************************************************************************)
(* new_value.  Pass 1 appends a value to the chain and makes it top; pass  *)
(* 0 takes the next one and allocates what it will hold.                   *)
(***************************************************************************)
HasData(v) == v.type = "string" \/ (v.type \in {"array", "object"} /\ v.length > 0)

WithDataOfCountedLength(v) ==
    IF v.type = "string" THEN [v EXCEPT !.room = v.length + 1, !.length = 0]
    ELSE [v EXCEPT !.size = v.length, !.room = v.names, !.names = 0]

WithData(v) ==
    IF v.type = "string" THEN [v EXCEPT !.room = v.length + 1, !.length = 0]
    ELSE [v EXCEPT !.size = v.length, !.room = v.names, !.length = 0, !.names = 0]

AppendValue(type) ==
    LET n == Len(values) + 1 IN
    /\ first_pass = 1
    /\ values' = Append(values, NewRecord(type, top))
    /\ top' = n /\ alloc' = n
    /\ root' = IF root = 0 THEN n ELSE root
    /\ live' = live \cup {Value(n)}

TakeValuePastTheEnd ==
    /\ first_pass = 0 /\ alloc # 0
    /\ top' = alloc
    /\ alloc' = alloc + 1
    /\ root' = IF root = 0 THEN alloc ELSE root

TakeValue ==
    /\ first_pass = 0 /\ alloc # 0
    /\ top' = alloc
    /\ alloc' = IF alloc < Len(values) THEN alloc + 1 ELSE 0
    /\ root' = IF root = 0 THEN alloc ELSE root

NewValue(type) ==
    \/ AppendValue(type)
    \/ /\ TakeValue
       /\ IF HasData(values[alloc])
          THEN /\ values' = [values EXCEPT ![alloc] = WithData(@)]
               /\ live' = live \cup {Data(alloc)}
          ELSE UNCHANGED <<values, live>>

NewValueFails ==
    \/ first_pass = 1 /\ UNCHANGED tree
    \/ TakeValue /\ HasData(values[alloc]) /\ UNCHANGED values

(***************************************************************************)
(* Looking for a value: of the document, of an array or of an entry.       *)
(***************************************************************************)
SkipBlank == \E b \in {Blank, Newline} :
    /\ Scanning(b) /\ (IsDone \/ Seeking \/ InObject)
    /\ Continue(flags)
    /\ UNCHANGED <<rest, tree, string_length, num_digits>>

CloseAnything ==
    /\ Scanning("]") /\ Seeking /\ top # 0
    /\ Complete(flags \ {"need_comma", "seek_value"})
    /\ UNCHANGED <<rest, tree, string_length, num_digits>>

CloseArray ==
    /\ Scanning("]") /\ Seeking /\ top # 0 /\ values[top].type = "array"
    /\ Complete(flags \ {"need_comma", "seek_value"})
    /\ UNCHANGED <<rest, tree, string_length, num_digits>>

Comma ==
    /\ Scanning(",") /\ (Seeking \/ InObject) /\ "need_comma" \in flags
    /\ Continue(flags \ {"need_comma"})
    /\ UNCHANGED <<rest, tree, string_length, num_digits>>

Colon ==
    /\ Scanning(":") /\ Seeking /\ "need_comma" \notin flags /\ "need_colon" \in flags
    /\ Continue(flags \ {"need_colon"})
    /\ UNCHANGED <<rest, tree, string_length, num_digits>>

AtValue == Seeking /\ flags \cap {"need_comma", "need_colon"} = {}
Found == flags \ {"seek_value"}

TypeOfStart(b) ==
    CASE b = "{" -> "object" [] b = "[" -> "array" [] b = Quote -> "string"
      [] b = Literal -> "literal" [] OTHER -> "integer"

ValueStarts == {"{", "[", Quote, Literal, "-"} \cup Digits

StartContainer == \E b \in {"{", "["} :
    /\ Scanning(b) /\ AtValue
    /\ NewValue(TypeOfStart(b))
    /\ Continue(IF b = "[" THEN flags ELSE Found)
    /\ UNCHANGED <<pc, first_pass, badFree, cur, string_length, num_digits>>

StartString ==
    /\ Scanning(Quote) /\ AtValue
    /\ NewValue("string")
    /\ string_length' = 0
    /\ Continue(Found \cup {"string"})
    /\ UNCHANGED <<pc, first_pass, badFree, cur, num_digits>>

ReadLiteral ==
    /\ Scanning(Literal) /\ AtValue
    /\ NewValue("literal")
    /\ Complete(Found)
    /\ UNCHANGED <<pc, first_pass, badFree, cur, string_length, num_digits>>

StartNumberKeepingFlags == \E b \in {"-"} \cup Digits :
    /\ Scanning(b) /\ AtValue /\ first_pass = 1
    /\ NewValue("integer")
    /\ num_digits' = 0
    /\ flags' = Found
    /\ ptr' = IF b = "-" THEN ptr + 1 ELSE ptr
    /\ UNCHANGED <<pc, first_pass, badFree, cur, string_length>>

(* A digit is read again by the number code; a minus sign is not. *)
StartNumber == \E b \in {"-"} \cup Digits :
    /\ Scanning(b) /\ AtValue /\ first_pass = 1
    /\ NewValue("integer")
    /\ num_digits' = 0
    /\ flags' = Found \ {"num_zero", "num_e", "num_e_got_sign"}
    /\ ptr' = IF b = "-" THEN ptr + 1 ELSE ptr
    /\ UNCHANGED <<pc, first_pass, badFree, cur, string_length>>

SkippedWithoutPlus == Digits \cup {"-", ".", "e"}

(* Pass 0 skips what looks like a number. *)
Skipped == Digits \cup Signs \cup {".", "e"}

SkipNumber == \E b \in {"-"} \cup Digits :
    /\ Scanning(b) /\ AtValue /\ first_pass = 0
    /\ NewValue("integer")
    /\ ptr' = CHOOSE p \in ptr .. Len(text) :
                /\ text[p] \notin Skipped
                /\ \A q \in ptr .. p - 1 : text[q] \in Skipped
    /\ flags' = Found \cup {"next", "reproc"}
    /\ UNCHANGED <<pc, first_pass, badFree, cur, string_length, num_digits>>

AllocationFails == \E b \in ValueStarts :
    /\ Scanning(b) /\ AtValue
    /\ NewValueFails
    /\ pc' = "e_alloc_failure"
    /\ UNCHANGED <<first_pass, live, badFree, cur, ptr, flags, string_length, num_digits>>

(***************************************************************************)
(* The text ends in all but the last letter of true, false or null.  That  *)
(* letter is looked for behind the buffer, and if it happens to be there,  *)
(* ptr has passed the end and the scanner goes on in other memory.         *)
(***************************************************************************)
ReadPastEnd ==
    /\ Scanning(Fragment) /\ AtValue /\ ptr > Len(text)
    /\ pc' = "past the end"
    /\ UNCHANGED <<first_pass, live, badFree, cur, ptr, flags, string_length, num_digits, tree>>

----------------------------------------------------------------------------
(* In an object, between the entries. *)
StartName ==
    /\ Scanning(Quote) /\ InObject /\ "need_comma" \notin flags
    /\ string_length' = 0
    /\ Continue(flags \cup {"string"})
    /\ UNCHANGED <<rest, tree, num_digits>>

CloseObject ==
    /\ Scanning("}") /\ InObject
    /\ Complete(flags \ {"need_comma"})
    /\ UNCHANGED <<rest, tree, string_length, num_digits>>

----------------------------------------------------------------------------
(***************************************************************************)
(* In a number (pass 1 only).                                              *)
(***************************************************************************)
Slashes == {Slash, LineComment, BlockComment}   \* a comment is not allowed here

IsInteger == values[top].type = "integer"
SignHere(b) == b \in Signs /\ "num_e" \in flags /\ "num_e_got_sign" \notin flags
PointHere(b) == b = "." /\ IsInteger
ExponentHere(b) == b = "e" /\ "num_e" \notin flags

Digit == \E b \in Digits :
    /\ Scanning(b) /\ InNumber
    /\ IsInteger => "num_zero" \notin flags
    /\ num_digits' = num_digits + 1
    /\ Continue(flags
         \cup (IF "num_e" \in flags THEN {"num_e_got_sign"} ELSE {})
         \cup (IF IsInteger /\ num_digits' = 1 /\ b = "0" THEN {"num_zero"} ELSE {}))
    /\ UNCHANGED <<rest, tree, string_length>>

ExponentSign == \E b \in Signs :
    /\ Scanning(b) /\ InNumber /\ SignHere(b)
    /\ Continue(flags \cup {"num_e_got_sign"})
    /\ UNCHANGED <<rest, tree, string_length, num_digits>>

Point ==
    /\ Scanning(".") /\ InNumber /\ PointHere(".") /\ num_digits > 0
    /\ values' = [values EXCEPT ![top].type = "double"]
    /\ num_digits' = 0
    /\ Continue(flags)
    /\ UNCHANGED <<rest, top, root, alloc, string_length>>

Exponent ==
    /\ Scanning("e") /\ InNumber /\ ExponentHere("e")
    /\ IsInteger \/ num_digits > 0
    /\ values' = [values EXCEPT ![top].type = "double"]
    /\ num_digits' = 0
    /\ Continue((flags \ {"num_zero"}) \cup {"num_e"})
    /\ UNCHANGED <<rest, top, root, alloc, string_length>>

EndNumber == \E b \in Chars \ (Digits \cup Slashes) :
    /\ Scanning(b) /\ InNumber
    /\ ~SignHere(b) /\ ~PointHere(b) /\ ~ExponentHere(b)
    /\ IsInteger \/ num_digits > 0
    /\ Complete(flags \cup {"reproc"})
    /\ UNCHANGED <<rest, tree, string_length, num_digits>>

----------------------------------------------------------------------------
(***************************************************************************)
(* flag_next: top is complete, and goes into its parent in pass 0.         *)
(***************************************************************************)
FinishValue ==
    LET parent == values[top].parent IN
    /\ pc = "scan" /\ "next" \in flags
    /\ ptr' = IF "reproc" \in flags THEN ptr ELSE ptr + 1
    /\ flags' = (flags \ {"next", "reproc"}) \cup {"need_comma"}
         \cup (IF parent = 0 THEN {"done"}
               ELSE IF values[parent].type = "array" THEN {"seek_value"} ELSE {})
    /\ IF parent = 0 THEN UNCHANGED <<top, values>>
       ELSE /\ top' = parent
            /\ values' = [values EXCEPT ![parent].length = @ + 1,
                                        ![parent].kids = IF first_pass = 1 THEN @
                                                         ELSE Append(@, top)]
    /\ UNCHANGED <<rest, root, alloc, text, string_length, num_digits>>

EndPassAtAnyNul ==
    /\ Scanning(NUL) /\ InJson
    /\ first_pass' = first_pass - 1
    /\ IF first_pass = 1
       THEN /\ ptr' = 1 /\ flags' = {"seek_value"} /\ string_length' = 0
            /\ alloc' = root /\ top' = 0 /\ root' = 0
            /\ UNCHANGED pc
       ELSE /\ pc' = "returned"
            /\ alloc' = root
            /\ UNCHANGED <<ptr, flags, string_length, top, root>>
    /\ UNCHANGED <<num_digits, values, live, badFree, cur>>

EndPass ==
    /\ Scanning(NUL) /\ IsDone
    /\ first_pass' = first_pass - 1
    /\ IF first_pass = 1
       THEN /\ ptr' = 1 /\ flags' = {"seek_value"} /\ string_length' = 0
            /\ alloc' = root /\ top' = 0 /\ root' = 0
            /\ UNCHANGED pc
       ELSE /\ pc' = "returned"
            /\ alloc' = root
            /\ UNCHANGED <<ptr, flags, string_length, top, root>>
    /\ UNCHANGED <<num_digits, values, live, badFree, cur>>

Skippable == {Blank, Newline, LineComment, BlockComment}

RejectedInString(b) == InString /\ (b = NUL \/ ("escaped" \in flags /\ b = BadUnicode))
RejectedInComment(b) == InBlockComment /\ b = NUL
RejectedBehind(b) == IsDone /\ b \notin Skippable \cup {NUL}

RejectedAsValue(b) ==
    \/ Seeking /\ b = "]" /\ (IF top = 0 THEN TRUE ELSE values[top].type # "array")
    \/ /\ Seeking /\ b \notin Skippable \cup {"]"}
       /\ IF "need_comma" \in flags THEN b # ","
          ELSE IF "need_colon" \in flags THEN b # ":"
          ELSE b \notin ValueStarts

RejectedInObject(b) ==
    InObject /\ (\/ b \notin Skippable \cup {Quote, "}", ","}
                 \/ b = Quote /\ "need_comma" \in flags
                 \/ b = "," /\ "need_comma" \notin flags)

RejectedInNumber(b) ==
    InNumber /\ (\/ b \in Slashes
                 \/ b \in Digits /\ IsInteger /\ "num_zero" \in flags
                 \/ PointHere(b) /\ num_digits = 0
                 \/ b \notin Digits /\ ~SignHere(b) /\ ~IsInteger /\ num_digits = 0)

Rejected(b) ==
    \/ RejectedInString(b) \/ RejectedInComment(b) \/ RejectedBehind(b)
    \/ RejectedAsValue(b) \/ RejectedInObject(b) \/ RejectedInNumber(b)

Reject == \E b \in Chars :
    /\ Scanning(b) /\ Rejected(b)
    /\ pc' = "e_failed"
    /\ UNCHANGED <<first_pass, ptr, flags, string_length, num_digits, tree, live, badFree, cur>>

----------------------------------------------------------------------------
Free(blocks) ==
    /\ live' = live \ blocks
    /\ badFree' = (badFree \/ ~(blocks \subseteq live))

FreeWholeChain ==
    /\ pc \in {"e_failed", "e_alloc_failure"}
    /\ Free(IF root = 0 THEN {} ELSE {Value(n) : n \in root .. Len(values)})
    /\ IF first_pass = 1 THEN pc' = "failed" /\ UNCHANGED cur
       ELSE pc' = "free" /\ cur' = root
    /\ UNCHANGED <<first_pass, scanner, tree>>

FreeChainFromAlloc ==
    /\ pc \in {"e_failed", "e_alloc_failure"}
    /\ Free(IF alloc = 0 THEN {} ELSE {Value(n) : n \in alloc .. Len(values)})
    /\ IF first_pass = 1 THEN pc' = "failed" /\ UNCHANGED cur
       ELSE pc' = "free" /\ cur' = root
    /\ UNCHANGED <<first_pass, scanner, tree>>

(***************************************************************************)
(* e_failed: the rest of the chain, all of it in pass 1, and then the      *)
(* tree.  top and alloc, the loop's cursors, stay as the failure left them. *)
(***************************************************************************)
FreeChain ==
    LET first == IF first_pass = 1 THEN root ELSE alloc IN
    /\ pc \in {"e_failed", "e_alloc_failure"}
    /\ Free(IF first = 0 THEN {} ELSE {Value(n) : n \in first .. Len(values)})
    /\ IF first_pass = 1 THEN pc' = "failed" /\ UNCHANGED cur
       ELSE pc' = "free" /\ cur' = root
    /\ UNCHANGED <<first_pass, scanner, tree>>

(* The caller has used the document: json_value_free. *)
FreeDocument ==
    /\ pc = "returned"
    /\ pc' = "free" /\ cur' = root
    /\ UNCHANGED <<first_pass, scanner, tree, live, badFree>>

(***************************************************************************)
(* json_value_free_ex: down to the last entry while there is one, and up   *)
(* to the parent behind what is released.  There is nothing to go down to  *)
(* when the block is NULL, or its entry was never stored.                  *)
(***************************************************************************)
Allocated(v) == v.size > 0 \/ v.room > 0
HasKids(v) == v.type \in {"array", "object"} /\ v.length > 0

Stored(v) == Allocated(v) /\ v.length <= Len(v.kids)

DescendKeepingLength ==
    /\ pc = "free" /\ cur # 0 /\ HasKids(values[cur])
    /\ IF Stored(values[cur])
       THEN cur' = values[cur].kids[values[cur].length] /\ UNCHANGED pc
       ELSE pc' = "crashed" /\ UNCHANGED cur
    /\ UNCHANGED <<first_pass, scanner, tree, live, badFree>>

Descend ==
    /\ pc = "free" /\ cur # 0 /\ HasKids(values[cur])
    /\ IF Stored(values[cur])
       THEN /\ values' = [values EXCEPT ![cur].length = @ - 1]
            /\ cur' = values[cur].kids[values[cur].length]
            /\ UNCHANGED pc
       ELSE pc' = "crashed" /\ UNCHANGED <<values, cur>>
    /\ UNCHANGED <<first_pass, scanner, top, root, alloc, live, badFree>>

Release ==
    /\ pc = "free" /\ cur # 0 /\ ~HasKids(values[cur])
    /\ Free({Value(cur)} \cup (IF Allocated(values[cur]) THEN {Data(cur)} ELSE {}))
    /\ cur' = values[cur].parent
    /\ UNCHANGED <<pc, first_pass, scanner, tree>>

FreeDone ==
    /\ pc = "free" /\ cur = 0
    /\ pc' = IF first_pass = 0 THEN "failed" ELSE "freed"
    /\ UNCHANGED <<first_pass, scanner, tree, live, badFree, cur>>

Next ==
    \/ StringChar \/ StartEscape \/ Escape \/ CloseString \/ CloseName
    \/ StartLineComment \/ StartBlockComment
    \/ CommentChar \/ EndLineComment \/ EndBlockComment
    \/ SkipBlank \/ CloseArray \/ Comma \/ Colon
    \/ StartContainer \/ StartString \/ ReadLiteral \/ StartNumber \/ SkipNumber
    \/ AllocationFails \/ ReadPastEnd
    \/ StartName \/ CloseObject
    \/ Digit \/ ExponentSign \/ Point \/ Exponent \/ EndNumber
    \/ FinishValue \/ EndPass \/ Reject
    \/ FreeChain \/ FreeDocument \/ Descend \/ Release \/ FreeDone

Spec == Init /\ [][Next]_vars

(* The parser is one thread that nothing waits for or interrupts. *)
FairSpec == Spec /\ WF_vars(Next)

----------------------------------------------------------------------------
Flags == {"next", "reproc", "need_comma", "seek_value", "escaped", "string", "need_colon",
          "done", "num_zero", "num_e", "num_e_got_sign", "line_comment", "block_comment"}

Records == [type: {"object", "array", "string", "literal", "integer", "double"},
            parent: Nat, length: Nat, names: Nat, size: Nat, room: Nat,
            kids: Seq(Nat), keys: Seq(Nat)]

TypeOK ==
    /\ pc \in {"scan", "e_failed", "e_alloc_failure", "failed", "returned", "free", "freed",
               "crashed", "past the end"}
    /\ first_pass \in {1, 0, -1}
    /\ text \in Seq(Chars) /\ ptr \in 1 .. Len(text) + 1
    /\ flags \subseteq Flags
    /\ string_length \in Nat /\ num_digits \in Nat
    /\ values \in Seq(Records)
    /\ {top, root, alloc, cur} \subseteq 0 .. Len(values)
    /\ live \subseteq {"value", "data"} \X (1 .. Len(values))
    /\ badFree \in BOOLEAN

(***************************************************************************)
(* Pass 0 fills the blocks of new_value with what pass 1 counted, and not  *)
(* one entry or byte more: bytes of strings with their escapes decoded,    *)
(* names of all entries of an object behind one another, each with a NUL.  *)
(***************************************************************************)
WritesFit ==
    first_pass = 0 =>
        /\ \A n \in DOMAIN values :
              LET v == values[n] IN
              /\ Len(v.kids) <= v.size /\ Len(v.keys) <= v.size
              /\ v.type = "object" /\ Data(n) \in live => v.names <= v.room
        /\ pc = "scan" /\ InString =>
              string_length < values[top].room - values[top].names

(***************************************************************************)
(* The passes follow two different paths through the numbers, and still    *)
(* agree: pass 0 finds no error, finds a value in the chain wherever the   *)
(* text has one, and has used up the chain when it is done.                *)
(***************************************************************************)
PassesAgree ==
    first_pass = 0 =>
        /\ pc # "e_failed"
        /\ pc = "scan" /\ IsDone => alloc = 0
        /\ pc = "scan" /\ AtValue /\ text[ptr] \in ValueStarts =>
             /\ alloc # 0
             /\ \/ values[alloc].type = TypeOfStart(text[ptr])
                \/ TypeOfStart(text[ptr]) = "integer" /\ values[alloc].type = "double"

(***************************************************************************)
(* The scanner stops at the NUL that stands for the end of the text, in    *)
(* strings, comments and numbers as well, and pass 0 reads nothing that    *)
(* pass 1 has not.  Only pass 1 may leave the buffer, and only where the   *)
(* text ends in all but the last letter of true, false or null.            *)
(***************************************************************************)
StaysInText ==
    /\ \A q \in DOMAIN text : q < ptr => text[q] # NUL
    /\ first_pass # 1 => ptr <= Len(text)
    /\ pc = "past the end" => first_pass = 1 /\ text[Len(text)] = Fragment

(* Nothing is released twice, by json_parse_ex or by json_value_free. *)
NoBadFree == ~badFree

(***************************************************************************)
(* json_value_free releases all of a document, and a failing parse all of  *)
(* its values but those that pass 0 was in the middle of, with what they   *)
(* hold: they are out of the chain and not yet in the tree.                *)
(***************************************************************************)
Path[n \in 0 .. Len(values)] == IF n = 0 THEN {} ELSE {n} \cup Path[values[n].parent]

Taken == {n \in DOMAIN values : first_pass = 0 /\ (alloc = 0 \/ n < alloc)}
Lost == {n \in Taken : Path[n] \cap (Path[top] \ {root}) # {}}

LeaksOnlyOpenValues ==
    /\ pc = "freed" => live = {}
    /\ pc = "failed" => live \subseteq UNION {{Value(n), Data(n)} : n \in Lost}

(***************************************************************************)
(* The one way to dereference NULL: the root is an array or object that    *)
(* has entries, and there is no memory for them.                           *)
(***************************************************************************)
CrashesAtRootOnly ==
    pc = "crashed" => cur = root /\ top = root /\ values[root].type \in {"array", "object"}

(***************************************************************************)
(* Every step leaves less to do: a pass, a character, one look less at the *)
(* same character; an entry of the tree, or one step less up to the root.  *)
(* So nothing that is read again, and no way up and down the tree, leads   *)
(* back to where the parser was.                                           *)
(***************************************************************************)
Phase ==
    CASE pc = "scan" -> 3
      [] pc \in {"e_failed", "e_alloc_failure", "returned"} -> 2
      [] pc = "free" -> 1
      [] OTHER -> 0

(* The looks at one character: the end of a comment, the start of a number *)
(* or its end, the value behind it, the end of a value that has it.        *)
LooksLeft ==
    IF InLineComment THEN 5
    ELSE IF "next" \in flags THEN IF "reproc" \in flags THEN 2 ELSE 0
    ELSE IF "need_comma" \in flags THEN 1
    ELSE IF "seek_value" \in flags THEN 4 ELSE 3

ToWalk == UNION {{n} \X (1 .. values[n].length) : n \in DOMAIN values}

ScansOn ==
    \/ first_pass' < first_pass
    \/ first_pass' = first_pass /\ ptr' > ptr
    \/ first_pass' = first_pass /\ ptr' = ptr /\ LooksLeft' < LooksLeft

FreesOn ==
    \/ ToWalk' \subseteq ToWalk /\ ToWalk' # ToWalk
    \/ ToWalk' = ToWalk /\ cur' < cur

Forward ==
    \/ Phase' < Phase
    \/ pc = "scan" /\ pc' = "scan" /\ ScansOn
    \/ pc = "free" /\ pc' = "free" /\ FreesOn

AlwaysForward == [][Forward]_vars

(***************************************************************************)
(* Whatever the text, the parser comes to an end, and the caller with it,  *)
(* though the ends of numbers and line comments are read again, and the    *)
(* tree is walked down and up without a stack; or it leaves the buffer.    *)
(***************************************************************************)
Terminates == <>(pc \in {"failed", "freed", "crashed", "past the end"})
=============================================================================
