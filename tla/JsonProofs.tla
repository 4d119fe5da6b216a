----------------------------- MODULE JsonProofs -----------------------------
(***************************************************************************)
(* Type correctness of the parser for every text, of any length; in the    *)
(* second part, that pass 0 does what pass 1 did; and, in the last, that   *)
(* every step leaves the parser less to do.                                *)
(*                                                                         *)
(* The types are not inductive by themselves: the scanner goes on at the   *)
(* parent of a value, at the entry of a block, at the next value of the    *)
(* chain.  ChainOK says that what they lead to is in the chain, ScanOK     *)
(* that the scanner has a value to work on wherever it uses one, and has   *)
(* not passed a NUL.                                                       *)
(***************************************************************************)
EXTENDS JsonParser, SequenceTheorems, WellFoundedInduction, TLAPS

ChainOK ==
    \A n \in 1 .. Len(values) :
        /\ values[n].parent \in 0 .. n - 1
        /\ values[n].kids \in Seq(1 .. Len(values))

(* There is a value to fill unless one is being looked for, or was the last. *)
ScanOK ==
    /\ first_pass \in {0, 1}
    /\ \A q \in 1 .. Len(text) : q < ptr => text[q] # NUL
    /\ first_pass = 0 => \E q \in 1 .. Len(text) : text[q] = NUL
    /\ flags \cap {"done", "seek_value"} = {} => top # 0
    /\ "string" \in flags => flags \cap {"done", "seek_value"} = {}
    /\ "next" \in flags =>
         /\ flags \cap {"done", "seek_value", "string"} = {}
         /\ ptr <= Len(text)
         /\ "reproc" \notin flags => text[ptr] # NUL

Inv ==
    /\ TypeOK
    /\ ChainOK
    /\ pc = "scan" => ScanOK

----------------------------------------------------------------------------
(* The end of the text is one of the characters. *)
LEMMA NulIsChar == NUL \in Chars
BY DEF Chars

(* Where the scanner is. *)
LEMMA Position ==
    ASSUME TypeOK
    PROVE  /\ text \in Seq(Chars) /\ Len(text) \in Nat
           /\ ptr \in Nat /\ 1 <= ptr /\ ptr <= Len(text) + 1
<1>1. text \in Seq(Chars)
  BY DEF TypeOK
<1>2. ptr \in 1 .. Len(text) + 1
  BY DEF TypeOK
<1>3. Len(text) \in Nat
  BY <1>1
<1>4. QED
  BY <1>1, <1>2, <1>3

(* The character that is looked at is there afterwards, and older ones stay. *)
LEMMA Reads ==
    ASSUME NEW b, TypeOK, Scanning(b)
    PROVE  /\ b \in Chars /\ text' \in Seq(Chars)
           /\ ptr <= Len(text') /\ text'[ptr] = b
           /\ Len(text) <= Len(text')
           /\ \A q \in 1 .. Len(text) : text'[q] = text[q]
           /\ \A q \in 1 .. Len(text') : q < ptr => q \in 1 .. Len(text)
<1>0. /\ text \in Seq(Chars) /\ Len(text) \in Nat
      /\ ptr \in Nat /\ 1 <= ptr /\ ptr <= Len(text) + 1
  BY Position
<1>1. CASE ptr <= Len(text)
  <2>1. b = text[ptr] /\ text' = text
    BY <1>1 DEF Scanning, Readable
  <2>2. QED
    BY <1>0, <1>1, <2>1
<1>2. CASE ptr > Len(text)
  <2>1. ptr = Len(text) + 1 /\ text' = Append(text, b)
    BY <1>0, <1>2 DEF Scanning
  <2>2. b \in {NUL} \cup Alphabet
    BY <1>0, <1>2 DEF Scanning, Readable
  <2>3. b \in Chars
    BY <2>2, NulIsChar, ParserAssumption
  <2>4. Len(text') = Len(text) + 1 /\ text'[Len(text) + 1] = b /\ text' \in Seq(Chars)
    BY <1>0, <2>1, <2>3
  <2>5. \A q \in 1 .. Len(text) : text'[q] = text[q]
    BY <1>0, <2>1
  <2>6. QED
    BY <1>0, <2>1, <2>3, <2>4, <2>5
<1>3. QED
  BY <1>0, <1>1, <1>2

(* What a pass has not passed, it does not pass by one more step. *)
LEMMA ReadsOn ==
    ASSUME NEW b, TypeOK, ScanOK, Scanning(b), ptr' \in {ptr, ptr + 1}, b = NUL => ptr' = ptr
    PROVE  /\ text' \in Seq(Chars) /\ ptr' \in 1 .. Len(text') + 1
           /\ \A q \in 1 .. Len(text') : q < ptr' => text'[q] # NUL
           /\ first_pass = 0 => \E q \in 1 .. Len(text') : text'[q] = NUL
<1>0. text' \in Seq(Chars)
  BY Reads
<1>1. ptr \in Nat /\ ptr >= 1 /\ Len(text) \in Nat /\ Len(text') \in Nat
  BY <1>0, Position
<1>2. ASSUME NEW q \in 1 .. Len(text'), q < ptr'
      PROVE  text'[q] # NUL
  <2>1. CASE q < ptr
    BY <2>1, Reads DEF ScanOK
  <2>2. CASE q = ptr
    BY <1>1, <1>2, <2>2, Reads
  <2>3. QED
    BY <1>1, <1>2, <2>1, <2>2
<1>3. first_pass = 0 => \E q \in 1 .. Len(text') : text'[q] = NUL
  BY <1>1, Reads DEF ScanOK
<1>4. QED
  BY <1>1, <1>2, <1>3, Reads

(* The scanner moves, and leaves the values alone. *)
Moves(b) ==
    /\ Scanning(b)
    /\ ptr' \in {ptr, ptr + 1} /\ (b = NUL => ptr' = ptr)
    /\ flags' \subseteq Flags
    /\ string_length' \in Nat /\ num_digits' \in Nat
    /\ UNCHANGED <<pc, first_pass, tree, live, badFree, cur>>
    /\ flags' \cap {"done", "seek_value"} = flags \cap {"done", "seek_value"}
    /\ "next" \notin flags'
    /\ "string" \in flags' => flags \cap {"done", "seek_value"} = {}

LEMMA MovesKeepInv ==
    ASSUME NEW b, Inv, Moves(b)
    PROVE  Inv'
<1>1. pc = "scan"
  BY DEF Moves, Scanning
<1>2. UNCHANGED <<top, root, alloc, values>>
  BY DEF Moves, tree
<1>3. /\ text' \in Seq(Chars) /\ ptr' \in 1 .. Len(text') + 1
      /\ \A q \in 1 .. Len(text') : q < ptr' => text'[q] # NUL
      /\ first_pass = 0 => \E q \in 1 .. Len(text') : text'[q] = NUL
  BY <1>1, ReadsOn DEF Inv, Moves
<1>4. TypeOK'
  BY <1>2, <1>3 DEF Inv, TypeOK, Moves
<1>5. ChainOK'
  BY <1>2 DEF Inv, ChainOK
<1>6. ScanOK'
  BY <1>1, <1>2, <1>3 DEF Inv, ScanOK, Moves
<1>7. QED
  BY <1>4, <1>5, <1>6 DEF Inv

(* Strings, comments, commas and the like are moves. *)
LEMMA MovingStep ==
    ASSUME Inv, \/ StringChar \/ StartEscape \/ Escape
                \/ StartLineComment \/ StartBlockComment
                \/ CommentChar \/ EndLineComment \/ EndBlockComment
                \/ SkipBlank \/ Comma \/ Colon \/ StartName \/ Digit \/ ExponentSign
    PROVE  Inv'
<1>0. TypeOK /\ (pc = "scan" => ScanOK)
  BY DEF Inv
<1>1. ASSUME StringChar \/ StartEscape \/ Escape
      PROVE  \E b : Moves(b)
  <2>1. \E b \in Chars \ {NUL} :
          /\ Scanning(b) /\ InString /\ ptr' = ptr + 1
          /\ flags' \in {flags, flags \cup {"escaped"}, flags \ {"escaped"}}
          /\ string_length' \in {string_length, string_length + 1, string_length + 3}
          /\ UNCHANGED <<rest, tree, num_digits>>
    BY <1>1 DEF StringChar, StartEscape, Escape, Continue, Chars, Backslash, NUL, Quote
  <2>2. QED
    BY <1>0, <2>1 DEF Moves, Scanning, InString, ScanOK, TypeOK, Flags, rest
<1>2. ASSUME StartLineComment \/ StartBlockComment \/ CommentChar \/ EndLineComment \/ EndBlockComment
      PROVE  \E b : Moves(b)
  <2>1. PICK b : /\ Scanning(b)
                 /\ ptr' \in {ptr, ptr + 1} /\ (b = NUL => ptr' = ptr)
                 /\ \/ flags' = flags \/ flags' = flags \ {"line_comment"}
                    \/ flags' = flags \ {"block_comment"}
                    \/ ~InString /\ flags' = flags \cup {"line_comment"}
                    \/ ~InString /\ flags' = flags \cup {"block_comment"}
                 /\ UNCHANGED <<rest, tree, string_length, num_digits>>
    BY <1>2 DEF StartLineComment, StartBlockComment, CommentChar, EndLineComment, EndBlockComment,
         Continue, LineComment, BlockComment, EndComment, NUL, IsDone, Seeking, InObject, InValue, InJson
  <2>2. QED
    BY <1>0, <2>1 DEF Moves, Scanning, InString, ScanOK, TypeOK, Flags, rest
<1>3. ASSUME SkipBlank \/ Comma \/ Colon \/ StartName
      PROVE  \E b : Moves(b)
  <2>1. PICK b : /\ Scanning(b) /\ ptr' = ptr + 1 /\ b # NUL /\ ~InString
                 /\ \/ flags' = flags \/ flags' = flags \ {"need_comma"}
                    \/ flags' = flags \ {"need_colon"}
                    \/ InObject /\ flags' = flags \cup {"string"}
                 /\ string_length' \in {string_length, 0}
                 /\ UNCHANGED <<rest, tree, num_digits>>
    BY <1>3 DEF SkipBlank, Comma, Colon, StartName, Continue, Blank, Newline, Quote, NUL,
         IsDone, Seeking, InObject, InValue, InJson
  <2>2. InObject => flags \cap {"done", "seek_value"} = {}
    BY DEF IsDone, Seeking, InObject, InValue
  <2>3. "string" \notin flags /\ "next" \notin flags /\ flags \subseteq Flags
    BY <1>0, <2>1 DEF InString, Scanning, TypeOK
  <2>4. flags' \subseteq Flags /\ flags' \cap {"done", "seek_value"} = flags \cap {"done", "seek_value"}
    BY <2>1, <2>3 DEF Flags
  <2>5. "next" \notin flags' /\ ("string" \in flags' => flags \cap {"done", "seek_value"} = {})
    BY <2>1, <2>2, <2>3
  <2>6. string_length' \in Nat /\ num_digits' \in Nat
    <3>1. string_length \in Nat /\ num_digits \in Nat
      BY <1>0 DEF TypeOK
    <3>2. num_digits' = num_digits /\ (string_length' = string_length \/ string_length' = 0)
      BY <2>1
    <3>3. QED
      BY <3>1, <3>2
  <2>7. QED
    BY <2>1, <2>4, <2>5, <2>6 DEF Moves, rest
<1>4. ASSUME Digit \/ ExponentSign
      PROVE  \E b : Moves(b)
  <2>1. PICK b : /\ Scanning(b) /\ ptr' = ptr + 1 /\ b # NUL /\ ~InString
                 /\ flags \subseteq flags' /\ flags' \subseteq flags \cup {"num_e_got_sign", "num_zero"}
                 /\ num_digits' \in {num_digits, num_digits + 1}
                 /\ UNCHANGED <<rest, tree, string_length>>
    BY <1>4 DEF Digit, ExponentSign, Continue, Digits, Signs, NUL, InNumber, InValue, InJson
  <2>2. QED
    BY <1>0, <2>1 DEF Moves, Scanning, InString, ScanOK, TypeOK, Flags, rest
<1>5. QED
  BY <1>1, <1>2, <1>3, <1>4, MovesKeepInv

----------------------------------------------------------------------------
(* The values, and what leads to them. *)
TreeOK ==
    /\ values \in Seq(Records) /\ ChainOK
    /\ {top, root, alloc} \subseteq 0 .. Len(values)
    /\ live \subseteq {"value", "data"} \X (1 .. Len(values))

(* What the flags promise of the value at work. *)
FlagsOK ==
    /\ flags \subseteq Flags
    /\ flags \cap {"done", "seek_value"} = {} => top # 0
    /\ "string" \in flags => flags \cap {"done", "seek_value"} = {}
    /\ "next" \in flags => flags \cap {"done", "seek_value", "string"} = {}

(* The tree is part of the invariant. *)
LEMMA TreeOfInv == Inv => TreeOK /\ (pc = "scan" => FlagsOK)
<1> SUFFICES ASSUME Inv
             PROVE  TreeOK /\ (pc = "scan" => FlagsOK)
  OBVIOUS
<1>1. values \in Seq(Records) /\ {top, root, alloc} \subseteq 0 .. Len(values)
  BY DEF Inv, TypeOK
<1>2. live \subseteq {"value", "data"} \X (1 .. Len(values))
  BY DEF Inv, TypeOK
<1>3. pc = "scan" => FlagsOK
  BY DEF Inv, TypeOK, ScanOK, FlagsOK
<1>4. QED
  BY <1>1, <1>2, <1>3 DEF Inv, TreeOK

(* A step of the scanner that completes a value or goes on to another. *)
LEMMA ScanStep ==
    ASSUME NEW b, Inv, Scanning(b), UNCHANGED <<pc, first_pass, badFree, cur>>,
           ptr' \in {ptr, ptr + 1}, b = NUL => ptr' = ptr,
           string_length' \in Nat, num_digits' \in Nat,
           TreeOK', Len(values) <= Len(values'), FlagsOK',
           "next" \in flags' => ptr' = ptr /\ ("reproc" \notin flags' => b # NUL)
    PROVE  Inv'
<1>1. pc = "scan" /\ ScanOK /\ TypeOK
  BY DEF Inv, Scanning
<1>2. /\ text' \in Seq(Chars) /\ ptr' \in 1 .. Len(text') + 1
      /\ \A q \in 1 .. Len(text') : q < ptr' => text'[q] # NUL
      /\ first_pass = 0 => \E q \in 1 .. Len(text') : text'[q] = NUL
  BY <1>1, ReadsOn
<1>3. cur' \in 0 .. Len(values')
  <2>1. cur \in 0 .. Len(values) /\ values \in Seq(Records) /\ values' \in Seq(Records)
    BY <1>1 DEF TypeOK, TreeOK
  <2>2. QED
    BY <2>1
<1>4. TypeOK'
  <2>1. /\ pc' \in {"scan", "e_failed", "e_alloc_failure", "failed", "returned", "free", "freed",
                    "crashed", "past the end"}
        /\ first_pass' \in {1, 0, -1} /\ badFree' \in BOOLEAN
    BY <1>1 DEF TypeOK
  <2>2. /\ values' \in Seq(Records) /\ {top', root', alloc', cur'} \subseteq 0 .. Len(values')
        /\ live' \subseteq {"value", "data"} \X (1 .. Len(values'))
    BY <1>3 DEF TreeOK
  <2>3. flags' \subseteq Flags
    BY DEF FlagsOK
  <2>4. QED
    BY <1>2, <2>1, <2>2, <2>3 DEF TypeOK
<1>5. ScanOK'
  <2>1. ptr <= Len(text') /\ text'[ptr] = b
    BY <1>1, Reads
  <2>2. QED
    BY <1>1, <1>2, <2>1 DEF ScanOK, FlagsOK
<1>6. ChainOK'
  BY DEF TreeOK
<1>7. QED
  BY <1>4, <1>5, <1>6 DEF Inv

(* A value is complete at its closing bracket, or behind the last digit. *)
LEMMA CompletingStep ==
    ASSUME Inv, CloseArray \/ CloseObject \/ EndNumber
    PROVE  Inv'
<1>1. PICK b : /\ Scanning(b) /\ ptr' = ptr
               /\ (Seeking /\ top # 0 /\ flags' = (flags \ {"need_comma", "seek_value"}) \cup {"next"})
                  \/ (InValue /\ flags' = (flags \ {"need_comma"}) \cup {"next"})
                  \/ (InValue /\ flags' = flags \cup {"reproc", "next"})
               /\ "reproc" \notin flags' => b # NUL
               /\ UNCHANGED <<rest, tree, string_length, num_digits>>
  BY DEF CloseArray, CloseObject, EndNumber, Complete, InObject, InNumber, NUL
<1>2. FlagsOK /\ TreeOK /\ string_length \in Nat /\ num_digits \in Nat /\ "next" \notin flags
  BY <1>1, TreeOfInv DEF Inv, TypeOK, Scanning
<1>3. FlagsOK'
  <2>1. "string" \notin flags /\ "done" \notin flags
    BY <1>1 DEF Seeking, InValue, InJson, InString, IsDone
  <2>2. InValue => "seek_value" \notin flags
    BY DEF Seeking, InValue, InJson
  <2>3. top' = top
    BY <1>1 DEF tree
  <2>4. QED
    BY <1>1, <1>2, <2>1, <2>2, <2>3 DEF FlagsOK, Flags
<1>4. TreeOK' /\ Len(values) <= Len(values')
  BY <1>1, <1>2 DEF TreeOK, ChainOK, tree, rest
<1>5. QED
  BY <1>1, <1>2, <1>3, <1>4, ScanStep DEF rest

----------------------------------------------------------------------------
(* One value of the chain is overwritten with one that has the same parent. *)
LEMMA Overwrite ==
    ASSUME values \in Seq(Records), ChainOK, NEW n \in 1 .. Len(values), NEW v \in Records,
           v.parent = values[n].parent, v.kids \in Seq(1 .. Len(values)),
           values' = [values EXCEPT ![n] = v]
    PROVE  values' \in Seq(Records) /\ Len(values') = Len(values) /\ ChainOK'
<1>1. Len(values') = Len(values) /\ DOMAIN values' = DOMAIN values
  OBVIOUS
<1>2. values' \in Seq(Records)
  OBVIOUS
<1>3. \A m \in 1 .. Len(values) : values'[m] = IF m = n THEN v ELSE values[m]
  OBVIOUS
<1>4. ChainOK'
  BY <1>1, <1>3 DEF ChainOK
<1>5. QED
  BY <1>1, <1>2, <1>4

(* The fields of a record of the chain. *)
LEMMA RecordFields ==
    ASSUME NEW v \in Records
    PROVE  /\ v.parent \in Nat /\ v.length \in Nat /\ v.names \in Nat
           /\ v.size \in Nat /\ v.room \in Nat
           /\ v.kids \in Seq(Nat) /\ v.keys \in Seq(Nat)
BY DEF Records

(* The end of a string or of a name, a point and an exponent change top. *)
LEMMA EditingStep ==
    ASSUME Inv, CloseString \/ CloseName \/ Point \/ Exponent
    PROVE  Inv'
<1>0. /\ FlagsOK /\ TreeOK /\ TypeOK /\ ChainOK
      /\ string_length \in Nat /\ num_digits \in Nat /\ "next" \notin flags
  BY TreeOfInv DEF Inv, TypeOK, Scanning, CloseString, CloseName, Point, Exponent
<1> DEFINE v == values[top]
<1>1. top \in 1 .. Len(values) /\ v \in Records /\ v.kids \in Seq(1 .. Len(values))
  <2>1. top # 0
    BY <1>0 DEF CloseString, CloseName, Point, Exponent, InString, InNumber, InValue, InJson, IsDone,
         Seeking, FlagsOK
  <2>2. top \in 1 .. Len(values)
    BY <1>0, <2>1 DEF TreeOK
  <2>3. QED
    BY <1>0, <2>2 DEF TreeOK, ChainOK
<1>6. Len(values) <= Len(values)
  BY <1>1
<1>2. ASSUME CloseString
      PROVE  Inv'
  <2>1. [v EXCEPT !.length = string_length] \in Records
    BY <1>0, <1>1 DEF Records
  <2>2. values' = [values EXCEPT ![top] = [v EXCEPT !.length = string_length]]
    BY <1>2 DEF CloseString
  <2>3. values' \in Seq(Records) /\ Len(values') = Len(values) /\ ChainOK'
    BY <1>0, <1>1, <2>1, <2>2, Overwrite DEF TreeOK, Records
  <2>4. TreeOK'
    BY <1>0, <1>2, <2>3 DEF TreeOK, CloseString, rest
  <2>5. FlagsOK'
    BY <1>0, <1>1, <1>2 DEF CloseString, FlagsOK, Flags, Complete, InString
  <2>6. /\ Scanning(Quote) /\ Quote # NUL /\ ptr' = ptr
        /\ UNCHANGED <<pc, first_pass, badFree, cur, string_length, num_digits>>
    BY <1>2 DEF CloseString, Complete, rest, Quote, NUL
  <2>7. QED
    BY <1>0, <1>6, <2>3, <2>4, <2>5, <2>6, ScanStep
<1>3. ASSUME CloseName
      PROVE  Inv'
  <2> DEFINE names == v.names + string_length + 1
             keys == IF first_pass = 1 THEN v.keys ELSE Append(v.keys, string_length)
  <2>1. [v EXCEPT !.names = names, !.keys = keys] \in Records
    <3>1. names \in Nat /\ keys \in Seq(Nat)
      BY <1>0, <1>1, RecordFields
    <3>2. QED
      BY <1>1, <3>1 DEF Records
  <2>2. values' = [values EXCEPT ![top] = [v EXCEPT !.names = names, !.keys = keys]]
    BY <1>1, <1>3 DEF CloseName, TreeOK
  <2>3. values' \in Seq(Records) /\ Len(values') = Len(values) /\ ChainOK'
    BY <1>0, <1>1, <2>1, <2>2, Overwrite DEF TreeOK, Records
  <2>4. TreeOK'
    BY <1>0, <1>3, <2>3 DEF TreeOK, CloseName, rest
  <2>5. FlagsOK'
    BY <1>0, <1>1, <1>3 DEF CloseName, FlagsOK, Flags, Continue, InString
  <2>6. "next" \notin flags'
    BY <1>0, <1>3 DEF CloseName, Continue
  <2>7. /\ Scanning(Quote) /\ Quote # NUL /\ ptr' = ptr + 1
        /\ UNCHANGED <<pc, first_pass, badFree, cur, string_length, num_digits>>
    BY <1>3 DEF CloseName, Continue, rest, Quote, NUL
  <2>8. QED
    BY <1>0, <1>6, <2>3, <2>4, <2>5, <2>6, <2>7, ScanStep
<1>4. ASSUME Point \/ Exponent
      PROVE  Inv'
  <2>1. [v EXCEPT !.type = "double"] \in Records
    BY <1>1 DEF Records
  <2>2. PICK b : /\ Scanning(b) /\ b # NUL /\ ptr' = ptr + 1 /\ InNumber /\ num_digits' = 0
                 /\ (flags' = flags \/ flags' = (flags \ {"num_zero"}) \cup {"num_e"})
                 /\ values' = [values EXCEPT ![top] = [v EXCEPT !.type = "double"]]
                 /\ UNCHANGED <<rest, top, root, alloc, string_length>>
    BY <1>4 DEF Point, Exponent, Continue, NUL
  <2>3. values' \in Seq(Records) /\ Len(values') = Len(values) /\ ChainOK'
    BY <1>0, <1>1, <2>1, <2>2, Overwrite DEF TreeOK, Records
  <2>4. TreeOK'
    BY <1>0, <2>2, <2>3 DEF TreeOK, rest
  <2>5. FlagsOK' /\ "next" \notin flags'
    <3>1. flags' \subseteq Flags
      BY <1>0, <2>2 DEF FlagsOK, Flags
    <3>2. /\ flags' \cap {"done", "seek_value", "string"} = flags \cap {"done", "seek_value", "string"}
          /\ "next" \notin flags'
      BY <1>0, <2>2
    <3>3. top' # 0
      BY <1>1, <2>2
    <3>4. QED
      BY <1>0, <3>1, <3>2, <3>3 DEF FlagsOK
  <2>6. /\ UNCHANGED <<pc, first_pass, badFree, cur>> /\ string_length' \in Nat /\ num_digits' \in Nat
        /\ ptr' \in {ptr, ptr + 1} /\ Len(values) <= Len(values')
    BY <1>0, <1>6, <2>2, <2>3 DEF rest
  <2>7. QED
    BY <1>0, <2>2, <2>4, <2>5, <2>6, ScanStep
<1>5. QED
  BY <1>2, <1>3, <1>4

----------------------------------------------------------------------------
Types == {"object", "array", "string", "literal", "integer", "double"}

(* new_value in pass 1: one more value, below top. *)
LEMMA AppendKeeps ==
    ASSUME NEW type \in Types, TreeOK, AppendValue(type)
    PROVE  TreeOK' /\ Len(values) <= Len(values') /\ top' # 0
<1> DEFINE n == Len(values) + 1
           v == NewRecord(type, top)
<1>1. n \in Nat /\ n # 0 /\ top \in 0 .. n - 1 /\ root \in 0 .. n - 1
  BY DEF TreeOK
<1>2. v \in Records /\ v.parent = top /\ v.kids = <<>>
  BY <1>1 DEF NewRecord, Records, Types
<1>3. values' = Append(values, v) /\ top' = n /\ alloc' = n /\ root' \in {root, n}
      /\ live' = live \cup {Value(n)}
  BY DEF AppendValue
<1> HIDE DEF v
<1>4. values' \in Seq(Records) /\ Len(values') = n /\ values'[n] = v
      /\ \A m \in 1 .. Len(values) : values'[m] = values[m]
  BY <1>2, <1>3 DEF TreeOK
<1>5. ChainOK'
  <2>1. ASSUME NEW m \in 1 .. n
        PROVE  values'[m].parent \in 0 .. m - 1 /\ values'[m].kids \in Seq(1 .. n)
    <3>1. CASE m = n
      <4>1. values'[m] = v /\ <<>> \in Seq(1 .. n) /\ n - 1 = m - 1
        BY <1>1, <1>4, <3>1
      <4>2. QED
        BY <1>1, <1>2, <4>1
    <3>2. CASE m \in 1 .. Len(values)
      <4>1. values[m].parent \in 0 .. m - 1 /\ values[m].kids \in Seq(1 .. Len(values))
        BY <3>2 DEF TreeOK, ChainOK
      <4>2. 1 .. Len(values) \subseteq 1 .. n
        BY <1>1
      <4>3. values[m].kids \in Seq(1 .. n)
        BY <4>1, <4>2
      <4>4. QED
        BY <1>4, <3>2, <4>1, <4>3
    <3>3. QED
      BY <1>1, <3>1, <3>2
  <2>2. QED
    BY <1>4, <2>1 DEF ChainOK
<1>6. live' \subseteq {"value", "data"} \X (1 .. Len(values'))
  <2>1. 1 .. Len(values) \subseteq 1 .. n /\ n \in 1 .. n
    BY <1>1
  <2>2. live \subseteq {"value", "data"} \X (1 .. n)
    BY <2>1 DEF TreeOK
  <2>3. QED
    BY <1>3, <1>4, <2>1, <2>2 DEF Value
<1>7. {top', root', alloc'} \subseteq 0 .. Len(values')
  BY <1>1, <1>3, <1>4
<1>8. QED
  BY <1>1, <1>3, <1>4, <1>5, <1>6, <1>7 DEF TreeOK

(* new_value in pass 0: the next value of the chain. *)
LEMMA TakeKeeps ==
    ASSUME TreeOK, TakeValue
    PROVE  {top', root', alloc'} \subseteq 0 .. Len(values) /\ top' # 0 /\ alloc \in 1 .. Len(values)
BY DEF TakeValue, TreeOK

(* It gets its block, if it is to hold anything. *)
LEMMA WithDataType ==
    ASSUME NEW v \in Records
    PROVE  WithData(v) \in Records /\ WithData(v).parent = v.parent /\ WithData(v).kids = v.kids
<1>1. v.length + 1 \in Nat
  BY RecordFields
<1>2. [v EXCEPT !.room = v.length + 1, !.length = 0] \in Records
  BY <1>1 DEF Records
<1>3. [v EXCEPT !.size = v.length, !.room = v.names, !.length = 0, !.names = 0] \in Records
  BY RecordFields DEF Records
<1>4. QED
  BY <1>2, <1>3 DEF WithData, Records

(* Whichever pass it is, the tree stays one. *)
LEMMA NewValueKeeps ==
    ASSUME NEW type \in Types, TreeOK, NewValue(type)
    PROVE  TreeOK' /\ Len(values) <= Len(values') /\ top' # 0
<1>0. Len(values) \in Nat
  BY DEF TreeOK
<1>1. CASE AppendValue(type)
  BY <1>1, AppendKeeps
<1>2. CASE TakeValue /\ UNCHANGED <<values, live>>
  BY <1>0, <1>2, TakeKeeps DEF TreeOK, ChainOK
<1>3. CASE /\ TakeValue /\ live' = live \cup {Data(alloc)}
           /\ values' = [values EXCEPT ![alloc] = WithData(@)]
  <2>1. {top', root', alloc'} \subseteq 0 .. Len(values) /\ top' # 0 /\ alloc \in 1 .. Len(values)
    BY <1>3, TakeKeeps
  <2>2. values[alloc] \in Records /\ values[alloc].kids \in Seq(1 .. Len(values))
    BY <2>1 DEF TreeOK, ChainOK
  <2>3. values' \in Seq(Records) /\ Len(values') = Len(values) /\ ChainOK'
    BY <1>3, <2>1, <2>2, WithDataType, Overwrite DEF TreeOK
  <2>4. live' \subseteq {"value", "data"} \X (1 .. Len(values'))
    BY <1>3, <2>1, <2>3 DEF TreeOK, Data
  <2>5. QED
    BY <1>0, <2>1, <2>3, <2>4 DEF TreeOK
<1>4. QED
  BY <1>1, <1>2, <1>3 DEF NewValue

(* Flags of a value that has been found. *)
LEMMA FoundFlags ==
    ASSUME FlagsOK, AtValue
    PROVE  /\ Found \subseteq Flags /\ Found \cap {"done", "seek_value", "string"} = {}
           /\ flags \subseteq Flags /\ flags \cap {"done", "string"} = {} /\ "seek_value" \in flags
BY DEF FlagsOK, AtValue, Found, Seeking, InJson, InString, IsDone

(* What the start of a value does, whatever it is. *)
Starts(b, type) ==
    /\ Scanning(b) /\ b # NUL /\ NewValue(type) /\ ptr' \in {ptr, ptr + 1}
    /\ \/ flags' = flags \/ flags' = Found \/ flags' = Found \cup {"string"}
       \/ flags' = Found \ {"num_zero", "num_e", "num_e_got_sign"}
       \/ ptr' = ptr /\ flags' = Found \cup {"next"}
    /\ string_length' \in {0, string_length} /\ num_digits' \in {0, num_digits}
    /\ UNCHANGED <<pc, first_pass, badFree, cur>>

(* The start of a value, but for a number in pass 0. *)
LEMMA StartingStep ==
    ASSUME Inv, StartContainer \/ StartString \/ ReadLiteral \/ StartNumber
    PROVE  Inv'
<1>0. /\ FlagsOK /\ TreeOK /\ string_length \in Nat /\ num_digits \in Nat
      /\ "next" \notin flags /\ AtValue
  BY TreeOfInv DEF Inv, TypeOK, Scanning, StartContainer, StartString, ReadLiteral, StartNumber
<1>5. PICK type \in Types : \E b : Starts(b, type)
  <2>1. CASE StartContainer
    <3>1. PICK b \in {"{", "["} : /\ Scanning(b) /\ NewValue(TypeOfStart(b))
                                 /\ Continue(IF b = "[" THEN flags ELSE Found)
                                 /\ UNCHANGED <<pc, first_pass, badFree, cur, string_length, num_digits>>
      BY <2>1 DEF StartContainer
    <3>2. b # NUL /\ TypeOfStart(b) \in Types
      BY <3>1 DEF TypeOfStart, NUL, Quote, Literal, Types
    <3>3. Starts(b, TypeOfStart(b))
      BY <3>1, <3>2 DEF Starts, Continue
    <3>4. QED
      BY <3>2, <3>3
  <2>2. CASE StartString
    BY <2>2 DEF Starts, StartString, Continue, Quote, NUL, Types
  <2>3. CASE ReadLiteral
    BY <2>3 DEF Starts, ReadLiteral, Complete, Literal, NUL, Types
  <2>4. CASE StartNumber
    BY <2>4 DEF Starts, StartNumber, Digits, NUL, Types
  <2>5. QED
    BY <2>1, <2>2, <2>3, <2>4
<1>1. PICK b : Starts(b, type)
  BY <1>5
<1>2. TreeOK' /\ Len(values) <= Len(values') /\ top' # 0
  BY <1>0, <1>1, NewValueKeeps DEF Starts
<1>3. FlagsOK' /\ ("next" \in flags' => ptr' = ptr)
  BY <1>0, <1>1, <1>2, FoundFlags DEF Starts, FlagsOK, Flags, Found
<1>4. string_length' \in Nat /\ num_digits' \in Nat
  BY <1>0, <1>1 DEF Starts
<1>6. QED
  BY <1>1, <1>2, <1>3, <1>4, ScanStep DEF Starts

----------------------------------------------------------------------------
(* The least number operator, from the well-foundedness of the naturals. *)
Smaller == {p \in Nat \X Nat : p[1] < p[2]}

(* Smaller is the order that the library proves well-founded. *)
LEMMA SmallerWF == IsWellFoundedOn(Smaller, Nat)
<1>1. OpToRel(<, Nat) = Smaller
  BY Zenon DEF OpToRel, Smaller
<1>2. QED
  BY <1>1, NatLessThanWellFounded

(* A set of numbers that is not empty has a least one. *)
LEMMA Least ==
    ASSUME NEW T \in SUBSET Nat, T # {}
    PROVE  \E x \in T : \A y \in T : x <= y
<1>1. PICK x \in T : \A y \in T : ~ (<<y, x>> \in Smaller)
  <2>1. \E x \in T : \A y \in T : ~ (<<y, x>> \in Smaller)
    BY SmallerWF, WFMin
  <2>2. QED
    BY <2>1
<1>2. ASSUME NEW y \in T
      PROVE  x <= y
  <2>1. <<y, x>> \notin Smaller
    BY <1>1
  <2>2. <<y, x>> \in Nat \X Nat
    BY <1>1
  <2>3. ~(<<y, x>>[1] < <<y, x>>[2])
    BY <2>1, <2>2 DEF Smaller
  <2>4. QED
    BY <2>3
<1>3. QED
  BY <1>2

(* Behind a number: the first character that does not look like one. *)
BehindNumber ==
    CHOOSE p \in ptr .. Len(text) :
        /\ text[p] \notin Skipped
        /\ \A q \in ptr .. p - 1 : text[q] \in Skipped

(* Pass 0 finds it, for the NUL that ended pass 1 is not behind it. *)
LEMMA NumberEnds ==
    ASSUME TypeOK, ScanOK, first_pass = 0
    PROVE  /\ BehindNumber \in ptr .. Len(text) /\ text[BehindNumber] \notin Skipped
           /\ \A q \in ptr .. BehindNumber - 1 : text[q] \in Skipped
<1>0. Len(text) \in Nat /\ ptr \in Nat /\ 1 <= ptr /\ ptr <= Len(text) + 1
  BY Position
<1> DEFINE T == {p \in ptr .. Len(text) : text[p] \notin Skipped}
<1>1. PICK z \in 1 .. Len(text) : text[z] = NUL
  BY DEF ScanOK
<1>2. z \in ptr .. Len(text)
  BY <1>0, <1>1 DEF ScanOK
<1>3. z \in T
  BY <1>1, <1>2 DEF Skipped, Digits, Signs, NUL
<1>4. T \in SUBSET Nat
  BY <1>0
<1> HIDE DEF T
<1>5. PICK m \in T : \A y \in T : m <= y
  BY <1>3, <1>4, Least
<1> USE DEF T
<1>6. m \in ptr .. Len(text) /\ text[m] \notin Skipped
  BY <1>5
<1>7. \A q \in ptr .. m - 1 : text[q] \in Skipped
  <2>1. ASSUME NEW q \in ptr .. m - 1, text[q] \notin Skipped
        PROVE  FALSE
    <3>1. q \in T /\ q < m
      BY <1>0, <1>6, <2>1
    <3>2. m <= q
      BY <1>5, <3>1
    <3>3. QED
      BY <1>0, <1>6, <3>1, <3>2
  <2>2. QED
    BY <2>1
<1>8. QED
  BY <1>6, <1>7 DEF BehindNumber

(* A number in pass 0. *)
LEMMA SkippingStep ==
    ASSUME Inv, SkipNumber
    PROVE  Inv'
<1>0. PICK b \in {"-"} \cup Digits :
        /\ Scanning(b) /\ AtValue /\ first_pass = 0 /\ NewValue("integer")
        /\ ptr' = BehindNumber /\ flags' = Found \cup {"next", "reproc"}
        /\ UNCHANGED <<pc, first_pass, badFree, cur, string_length, num_digits>>
  BY DEF SkipNumber, BehindNumber
<1>1. pc = "scan" /\ ScanOK /\ TypeOK /\ FlagsOK /\ TreeOK
  BY <1>0, TreeOfInv DEF Inv, Scanning
<1>2. Len(text) \in Nat /\ ptr \in Nat /\ 1 <= ptr /\ text \in Seq(Chars)
  BY <1>1, Position
<1>3. /\ BehindNumber \in ptr .. Len(text) /\ text[BehindNumber] \notin Skipped
      /\ \A q \in ptr .. BehindNumber - 1 : text[q] \in Skipped
  BY <1>0, <1>1, NumberEnds
<1>4. text' = text
  <2>1. ptr <= Len(text)
    BY <1>2, <1>3
  <2>2. QED
    BY <1>0, <2>1 DEF Scanning
<1>5. \A q \in 1 .. Len(text) : q < ptr' => text[q] # NUL
  <2>1. ASSUME NEW q \in 1 .. Len(text), q < ptr'
        PROVE  text[q] # NUL
    <3>1. CASE q < ptr
      BY <1>1, <3>1 DEF ScanOK
    <3>2. CASE q >= ptr
      <4>1. q \in ptr .. BehindNumber - 1
        BY <1>0, <1>2, <1>3, <2>1, <3>2
      <4>2. text[q] \in Skipped
        BY <1>3, <4>1
      <4>3. QED
        BY <4>2 DEF Skipped, Digits, Signs, NUL
    <3>3. QED
      BY <1>2, <3>1, <3>2
  <2>2. QED
    BY <2>1
<1>6. TreeOK' /\ Len(values) <= Len(values') /\ top' # 0
  BY <1>0, <1>1, NewValueKeeps DEF Types
<1>7. flags' \subseteq Flags /\ flags' \cap {"done", "seek_value", "string"} = {} /\ "reproc" \in flags'
  BY <1>0, <1>1, FoundFlags DEF Flags
<1>8. cur' \in 0 .. Len(values')
  <2>1. cur \in 0 .. Len(values) /\ values \in Seq(Records) /\ values' \in Seq(Records) /\ cur' = cur
    BY <1>0, <1>1, <1>6 DEF TypeOK, TreeOK
  <2>2. QED
    BY <1>6, <2>1
<1>9. TypeOK'
  <2>1. /\ pc' \in {"scan", "e_failed", "e_alloc_failure", "failed", "returned", "free", "freed",
                    "crashed", "past the end"}
        /\ first_pass' \in {1, 0, -1} /\ badFree' \in BOOLEAN
        /\ string_length' \in Nat /\ num_digits' \in Nat
    BY <1>0, <1>1 DEF TypeOK
  <2>2. /\ values' \in Seq(Records) /\ {top', root', alloc', cur'} \subseteq 0 .. Len(values')
        /\ live' \subseteq {"value", "data"} \X (1 .. Len(values'))
    BY <1>6, <1>8 DEF TreeOK
  <2>3. text' \in Seq(Chars) /\ ptr' \in 1 .. Len(text') + 1
    BY <1>0, <1>2, <1>3, <1>4
  <2>4. QED
    BY <1>7, <2>1, <2>2, <2>3 DEF TypeOK
<1>10. ScanOK'
  <2>1. ptr' <= Len(text') /\ first_pass' = 0 /\ \E q \in 1 .. Len(text') : text'[q] = NUL
    BY <1>0, <1>1, <1>2, <1>3, <1>4 DEF ScanOK
  <2>2. QED
    BY <1>4, <1>5, <1>6, <1>7, <2>1 DEF ScanOK
<1>11. ChainOK'
  BY <1>6 DEF TreeOK
<1>12. QED
  BY <1>9, <1>10, <1>11 DEF Inv

----------------------------------------------------------------------------
(* The end of the scan, with an error or behind the text. *)
LEMMA StoppingStep ==
    ASSUME Inv, AllocationFails \/ ReadPastEnd \/ Reject
    PROVE  Inv'
<1>1. PICK b : /\ Scanning(b) /\ pc' \in {"e_alloc_failure", "past the end", "e_failed"}
               /\ (NewValueFails \/ UNCHANGED tree)
               /\ UNCHANGED <<first_pass, live, badFree, cur, ptr, flags, string_length, num_digits>>
  BY DEF AllocationFails, ReadPastEnd, Reject
<1>2. TypeOK /\ TreeOK
  BY TreeOfInv DEF Inv
<1>3. values' = values /\ {top', root', alloc'} \subseteq 0 .. Len(values)
  BY <1>1, <1>2, TakeKeeps DEF NewValueFails, TreeOK, tree
<1>4. text' \in Seq(Chars) /\ ptr' \in 1 .. Len(text') + 1
  <2>1. text' \in Seq(Chars) /\ ptr <= Len(text') /\ ptr' = ptr
    BY <1>1, <1>2, Reads
  <2>2. Len(text') \in Nat
    BY <2>1
  <2>3. QED
    BY <1>2, <2>1, <2>2, Position
<1>5. TypeOK'
  <2>1. /\ first_pass' \in {1, 0, -1} /\ badFree' \in BOOLEAN /\ flags' \subseteq Flags
        /\ string_length' \in Nat /\ num_digits' \in Nat
    BY <1>1, <1>2 DEF TypeOK
  <2>2. /\ values' \in Seq(Records) /\ {top', root', alloc', cur'} \subseteq 0 .. Len(values')
        /\ live' \subseteq {"value", "data"} \X (1 .. Len(values'))
    BY <1>1, <1>2, <1>3 DEF TypeOK
  <2>3. QED
    BY <1>1, <1>4, <2>1, <2>2 DEF TypeOK
<1>6. ChainOK'
  BY <1>2, <1>3 DEF TreeOK, ChainOK
<1>7. QED
  BY <1>1, <1>5, <1>6 DEF Inv

(* What is in the chain is a value, and leads to other values. *)
LEMMA InChain ==
    ASSUME TreeOK, NEW n \in 1 .. Len(values)
    PROVE  /\ values[n] \in Records /\ values[n].parent \in 0 .. n - 1
           /\ values[n].kids \in Seq(1 .. Len(values))
BY DEF TreeOK, ChainOK

(* A value goes into its parent, which is worked on next. *)
LEMMA FinishingStep ==
    ASSUME Inv, FinishValue
    PROVE  Inv'
<1> DEFINE parent == values[top].parent
           kids == IF first_pass = 1 THEN values[parent].kids ELSE Append(values[parent].kids, top)
<1>0. pc = "scan" /\ ScanOK /\ TypeOK /\ TreeOK /\ ChainOK /\ FlagsOK /\ "next" \in flags
  BY TreeOfInv DEF Inv, FinishValue
<1>1. Len(text) \in Nat /\ ptr \in Nat /\ 1 <= ptr /\ ptr <= Len(text) /\ text \in Seq(Chars)
  BY <1>0, Position DEF ScanOK
<1>2. top \in 1 .. Len(values) /\ parent \in 0 .. top - 1
  <2>1. top \in 1 .. Len(values)
    BY <1>0 DEF FlagsOK, TreeOK
  <2>2. QED
    BY <1>0, <2>1 DEF ChainOK
<1>3. /\ ptr' = IF "reproc" \in flags THEN ptr ELSE ptr + 1
      /\ flags' = (flags \ {"next", "reproc"}) \cup {"need_comma"}
           \cup (IF parent = 0 THEN {"done"}
                 ELSE IF values[parent].type = "array" THEN {"seek_value"} ELSE {})
      /\ UNCHANGED <<pc, first_pass, live, badFree, cur, root, alloc, text, string_length, num_digits>>
  BY DEF FinishValue, rest
<1>4. /\ top' \in 0 .. Len(values) /\ (parent # 0 => top' # 0)
      /\ values' \in Seq(Records) /\ Len(values') = Len(values) /\ ChainOK'
  <2>1. CASE parent = 0
    <3>1. UNCHANGED <<top, values>>
      BY <2>1 DEF FinishValue
    <3>2. QED
      BY <1>0, <2>1, <3>1 DEF TreeOK, ChainOK
  <2>2. CASE parent # 0
    <3> DEFINE p == values[parent]
               v == [p EXCEPT !.length = @ + 1, !.kids = kids]
    <3>1. parent \in 1 .. Len(values)
      BY <1>0, <1>2, <2>2
    <3> HIDE DEF parent
    <3>2. p \in Records /\ p.kids \in Seq(1 .. Len(values))
      BY <1>0, <3>1, InChain
    <3>8. p.length \in Nat /\ p.kids \in Seq(Nat)
      BY <3>2, RecordFields
    <3>9. kids \in Seq(1 .. Len(values))
      <4>1. Append(p.kids, top) \in Seq(1 .. Len(values))
        BY <1>2, <3>2
      <4>2. QED
        BY <3>2, <4>1
    <3>10. kids \in Seq(Nat)
      BY <1>2, <3>8
    <3>3. kids \in Seq(1 .. Len(values)) /\ kids \in Seq(Nat) /\ p.length + 1 \in Nat
      BY <3>8, <3>9, <3>10
    <3>4. v \in Records
      BY <3>2, <3>3 DEF Records
    <3>5. v.parent = p.parent /\ v.kids = kids
      BY <3>2 DEF Records
    <3>6. values' = [values EXCEPT ![parent] = v] /\ top' = parent
      BY <1>0, <2>2, <3>1 DEF FinishValue, TreeOK, parent
    <3> HIDE DEF v, kids
    <3>11. values \in Seq(Records) /\ ChainOK /\ parent # 0
      BY <1>0, <2>2 DEF TreeOK
    <3>12. values' \in Seq(Records) /\ Len(values') = Len(values) /\ ChainOK'
      BY <3>11, <3>1, <3>3, <3>4, <3>5, <3>6, Overwrite
    <3>7. QED
      BY <3>1, <3>6, <3>11, <3>12
  <2>3. QED
    BY <2>1, <2>2
<1>5. /\ flags' \subseteq Flags /\ "next" \notin flags' /\ "string" \notin flags'
      /\ parent = 0 => "done" \in flags'
  BY <1>0, <1>3 DEF FlagsOK, Flags
<1>6. /\ first_pass' \in {0, 1} /\ ptr' \in 1 .. Len(text') + 1
      /\ \A q \in 1 .. Len(text') : q < ptr' => text'[q] # NUL
  <2>1. ASSUME NEW q \in 1 .. Len(text), q < ptr'
        PROVE  text[q] # NUL
    <3>1. q < ptr \/ (q = ptr /\ "reproc" \notin flags)
      BY <1>1, <1>3, <2>1
    <3>2. QED
      BY <1>0, <3>1 DEF ScanOK
  <2>2. QED
    BY <1>0, <1>1, <1>3, <2>1 DEF ScanOK
<1>7. TypeOK'
  <2>1. /\ pc' = "scan" /\ first_pass' \in {1, 0, -1} /\ badFree' \in BOOLEAN
        /\ string_length' \in Nat /\ num_digits' \in Nat /\ text' \in Seq(Chars)
    BY <1>0, <1>3 DEF TypeOK
  <2>2. {root', alloc', cur'} \subseteq 0 .. Len(values) /\ live' \subseteq {"value", "data"} \X (1 .. Len(values))
    BY <1>0, <1>3 DEF TypeOK
  <2>3. QED
    BY <1>4, <1>5, <1>6, <2>1, <2>2 DEF TypeOK
<1>8. ScanOK'
  <2>1. first_pass' = 0 => \E q \in 1 .. Len(text') : text'[q] = NUL
    BY <1>0, <1>3 DEF ScanOK
  <2>2. QED
    BY <1>4, <1>5, <1>6, <2>1 DEF ScanOK
<1>9. QED
  BY <1>4, <1>7, <1>8 DEF Inv

(* Pass 0 begins, or the document is returned. *)
LEMMA EndingStep ==
    ASSUME Inv, EndPass
    PROVE  Inv'
<1>0. pc = "scan" /\ ScanOK /\ TypeOK /\ TreeOK
  BY TreeOfInv DEF Inv, EndPass, Scanning
<1>1. /\ text' \in Seq(Chars) /\ ptr <= Len(text') /\ text'[ptr] = NUL
  BY <1>0, Reads DEF EndPass
<1>2. Len(text') \in Nat /\ ptr \in 1 .. Len(text')
  <2>1. Len(text') \in Nat
    BY <1>1
  <2>2. QED
    BY <1>0, <1>1, <2>1, Position
<1>3. UNCHANGED <<num_digits, values, live, badFree, cur>> /\ alloc' = root
      /\ first_pass' = first_pass - 1
  BY DEF EndPass
<1>4. /\ {top', root'} \subseteq {0, top, root} /\ flags' \subseteq flags \cup {"seek_value"}
      /\ ptr' \in {1, ptr} /\ string_length' \in {0, string_length} /\ pc' \in {"scan", "returned"}
  BY <1>0 DEF EndPass
<1>5. TypeOK'
  <2>1. /\ pc' \in {"scan", "e_failed", "e_alloc_failure", "failed", "returned", "free", "freed",
                    "crashed", "past the end"}
        /\ first_pass' \in {1, 0, -1} /\ badFree' \in BOOLEAN
    <3>1. first_pass \in {0, 1} /\ badFree \in BOOLEAN
      BY <1>0 DEF TypeOK, ScanOK
    <3>2. first_pass' \in {1, 0, -1}
      BY <1>3, <3>1
    <3>3. QED
      BY <1>3, <1>4, <3>1, <3>2
  <2>2. string_length' \in Nat /\ num_digits' \in Nat /\ flags' \subseteq Flags
    <3>1. string_length \in Nat /\ num_digits \in Nat /\ flags \subseteq Flags
      BY <1>0 DEF TypeOK
    <3>2. QED
      BY <1>3, <1>4, <3>1 DEF Flags
  <2>3. values' \in Seq(Records) /\ live' \subseteq {"value", "data"} \X (1 .. Len(values'))
    BY <1>0, <1>3 DEF TreeOK
  <2>4. {top', root', alloc', cur'} \subseteq 0 .. Len(values')
    <3>1. {top, root, alloc, cur} \subseteq 0 .. Len(values) /\ 0 \in 0 .. Len(values)
      BY <1>0 DEF TypeOK
    <3>2. QED
      BY <1>3, <1>4, <3>1
  <2>5. text' \in Seq(Chars) /\ ptr' \in 1 .. Len(text') + 1
    BY <1>1, <1>2, <1>4
  <2>6. QED
    BY <2>1, <2>2, <2>3, <2>4, <2>5 DEF TypeOK
<1>6. pc' = "scan" => ScanOK'
  <2>1. SUFFICES ASSUME pc' = "scan"
                 PROVE  ScanOK'
    OBVIOUS
  <2>2. first_pass' = 0 /\ flags' = {"seek_value"} /\ ptr' = 1
    BY <1>0, <2>1 DEF EndPass, ScanOK
  <2>3. \E q \in 1 .. Len(text') : text'[q] = NUL
    BY <1>1, <1>2
  <2>4. QED
    BY <1>2, <2>2, <2>3 DEF ScanOK
<1>7. ChainOK'
  BY <1>0, <1>3 DEF TreeOK, ChainOK
<1>8. QED
  BY <1>5, <1>6, <1>7 DEF Inv

----------------------------------------------------------------------------
(* Behind the scan: the blocks and the values are released. *)
LEMMA FreeingStep ==
    ASSUME Inv, FreeChain \/ FreeDocument \/ Descend \/ Release \/ FreeDone
    PROVE  Inv'
<1>0. TypeOK /\ TreeOK /\ ChainOK
  BY TreeOfInv DEF Inv
<1>1. /\ UNCHANGED <<first_pass, scanner, top, root, alloc>>
      /\ live' \subseteq live /\ badFree' \in BOOLEAN
      /\ pc' \in {"failed", "free", "freed", "crashed"}
  BY <1>0 DEF FreeChain, FreeDocument, Descend, Release, FreeDone, Free, tree, scanner, TypeOK
<1>2. /\ values' \in Seq(Records) /\ Len(values') = Len(values) /\ ChainOK'
      /\ cur' \in 0 .. Len(values)
  <2>0. cur \in 0 .. Len(values) /\ root \in 0 .. Len(values)
    BY <1>0 DEF TypeOK
  <2>1. CASE UNCHANGED values /\ cur' \in {cur, root}
    BY <1>0, <2>0, <2>1 DEF ChainOK, TreeOK
  <2>2. CASE Release
    <3>1. values[cur].parent \in 0 .. cur - 1 /\ cur \in 1 .. Len(values)
      BY <1>0, <2>0, <2>2 DEF ChainOK, Release
    <3>2. cur' = values[cur].parent /\ values' = values
      BY <2>2 DEF Release, tree
    <3>3. QED
      BY <1>0, <3>1, <3>2 DEF ChainOK, TreeOK
  <2>3. CASE Descend /\ Stored(values[cur])
    <3> DEFINE v == values[cur]
               w == [v EXCEPT !.length = @ - 1]
    <3>1. cur \in 1 .. Len(values) /\ v.length > 0 /\ v.length <= Len(v.kids)
      BY <2>0, <2>3 DEF Descend, HasKids, Stored
    <3>2. v \in Records /\ v.kids \in Seq(1 .. Len(values))
      BY <1>0, <3>1 DEF TreeOK, ChainOK
    <3>3. v.length \in Nat
      BY <3>2, RecordFields
    <3>4. w \in Records /\ w.parent = v.parent /\ w.kids = v.kids
      <4>1. v.length - 1 \in Nat
        BY <3>1, <3>3
      <4>2. QED
        BY <3>2, <4>1 DEF Records
    <3>5. values' = [values EXCEPT ![cur] = w] /\ cur' = v.kids[v.length]
      BY <2>3 DEF Descend
    <3>6. cur' \in 1 .. Len(values)
      BY <3>1, <3>2, <3>3, <3>5, SMTT(60)
    <3> HIDE DEF w
    <3>7. values' \in Seq(Records) /\ Len(values') = Len(values) /\ ChainOK'
      BY <1>0, <3>1, <3>2, <3>4, <3>5, Overwrite DEF TreeOK
    <3>8. QED
      BY <3>6, <3>7
  <2>4. QED
    BY <2>1, <2>2, <2>3 DEF FreeChain, FreeDocument, Descend, FreeDone, tree
<1>3. TypeOK'
  <2>1. /\ first_pass' \in {1, 0, -1} /\ text' \in Seq(Chars) /\ ptr' \in 1 .. Len(text') + 1
        /\ flags' \subseteq Flags /\ string_length' \in Nat /\ num_digits' \in Nat
    BY <1>0, <1>1 DEF TypeOK, scanner
  <2>2. /\ {top', root', alloc', cur'} \subseteq 0 .. Len(values')
        /\ live' \subseteq {"value", "data"} \X (1 .. Len(values'))
    BY <1>0, <1>1, <1>2 DEF TreeOK
  <2>3. QED
    BY <1>1, <1>2, <2>1, <2>2 DEF TypeOK
<1>4. QED
  BY <1>1, <1>2, <1>3 DEF Inv

----------------------------------------------------------------------------
(* The parser begins with a text, and nothing of it read. *)
LEMMA InitInv == Init => Inv
<1> SUFFICES ASSUME Init
             PROVE  Inv
  OBVIOUS
<1>1. text \in Seq(Chars)
  BY ParserAssumption DEF Init
<1>2. Len(text) \in Nat
  BY <1>1
<1>3. values = <<>> /\ values \in Seq(Records) /\ Len(values) = 0
  BY DEF Init
<1>4. TypeOK
  <2>1. 1 \in 1 .. Len(text) + 1 /\ {"seek_value"} \subseteq Flags
    BY <1>2 DEF Flags
  <2>2. {0} \subseteq 0 .. Len(values)
    BY <1>3
  <2>3. QED
    BY <1>1, <1>3, <2>1, <2>2 DEF Init, TypeOK
<1>5. ChainOK
  BY <1>3 DEF ChainOK
<1>6. ScanOK
  BY <1>2 DEF Init, ScanOK
<1>7. QED
  BY <1>4, <1>5, <1>6 DEF Inv

(* The invariant is inductive. *)
LEMMA StepInv == Inv /\ [Next]_vars => Inv'
<1> SUFFICES ASSUME Inv, [Next]_vars
             PROVE  Inv'
  OBVIOUS
<1>1. CASE UNCHANGED vars
  BY <1>1 DEF Inv, TypeOK, ChainOK, ScanOK, vars, scanner, tree
<1>2. CASE Next
  BY <1>2, MovingStep, CompletingStep, EditingStep, StartingStep, SkippingStep, StoppingStep,
     FinishingStep, EndingStep, FreeingStep DEF Next
<1>3. QED
  BY <1>1, <1>2

(* The invariant holds whatever the text is. *)
THEOREM Invariance == Spec => []Inv
BY InitInv, StepInv, PTL DEF Spec

(***************************************************************************)
(* Whatever the text, and whichever allocations fail, the parser and the   *)
(* release of its result never leave the chain: every value that they      *)
(* read, change, store or go on at is one of the values of the chain, and  *)
(* every counter is a natural number (length is never decremented at 0).   *)
(***************************************************************************)
THEOREM TypeCorrect == Spec => []TypeOK
<1>1. Inv => TypeOK
  BY DEF Inv
<1>2. QED
  BY Invariance, <1>1, PTL

(* Where the scanner reads a character and does not go on, it is in the text. *)
LEMMA StaysHere ==
    ASSUME NEW b, Inv, Scanning(b), ptr' = ptr
    PROVE  /\ \A q \in DOMAIN text' : q < ptr' => text'[q] # NUL
           /\ ptr' <= Len(text')
<1>1. TypeOK /\ ScanOK
  BY DEF Inv, Scanning
<1>2. /\ text' \in Seq(Chars) /\ ptr <= Len(text')
      /\ \A q \in 1 .. Len(text) : text'[q] = text[q]
      /\ \A q \in 1 .. Len(text') : q < ptr => q \in 1 .. Len(text)
  BY <1>1, Reads
<1>3. \A q \in 1 .. Len(text) : q < ptr => text[q] # NUL
  BY <1>1 DEF ScanOK
<1>4. DOMAIN text' = 1 .. Len(text')
  BY <1>2
<1>5. QED
  BY <1>2, <1>3, <1>4

(* What scans on leaves pc, and what leaves pc as it is scans on. *)
LEMMA StopsHere ==
    ASSUME Next, pc = "scan", pc' # "scan"
    PROVE  /\ UNCHANGED ptr /\ \E b : Scanning(b)
           /\ pc' = "past the end" => ReadPastEnd
<1>1. EndPass \/ AllocationFails \/ Reject \/ ReadPastEnd
  BY DEF Next, StringChar, StartEscape, Escape, CloseString, CloseName, StartLineComment,
     StartBlockComment, CommentChar, EndLineComment, EndBlockComment, SkipBlank, CloseArray,
     Comma, Colon, StartContainer, StartString, ReadLiteral, StartNumber, SkipNumber, StartName,
     CloseObject, Digit, ExponentSign, Point, Exponent, EndNumber, FinishValue, rest,
     FreeChain, FreeDocument, Descend, Release, FreeDone
<1>2. CASE EndPass
  BY <1>2 DEF EndPass
<1>3. CASE AllocationFails
  BY <1>3 DEF AllocationFails
<1>4. CASE Reject
  BY <1>4, SMTT(60) DEF Reject
<1>5. CASE ReadPastEnd
  BY <1>5, ZenonT(60) DEF ReadPastEnd
<1>6. QED
  BY <1>1, <1>2, <1>3, <1>4, <1>5

(* The release of a document, and of what a failed parse leaves, reads no text. *)
LEMMA ReleaseReadsNothing ==
    ASSUME Next, pc # "scan"
    PROVE  UNCHANGED <<text, ptr, first_pass>> /\ pc' # "past the end" /\ pc' # "scan"
<1>1. FreeChain \/ FreeDocument \/ Descend \/ Release \/ FreeDone
  BY DEF Next, StringChar, StartEscape, Escape, CloseString, CloseName, StartLineComment,
     StartBlockComment, CommentChar, EndLineComment, EndBlockComment, SkipBlank, CloseArray,
     Comma, Colon, StartContainer, StartString, ReadLiteral, StartNumber, SkipNumber,
     AllocationFails, ReadPastEnd, StartName, CloseObject, Digit, ExponentSign, Point,
     Exponent, EndNumber, FinishValue, EndPass, Reject, Scanning
<1>2. QED
  BY <1>1, ZenonT(60) DEF FreeChain, FreeDocument, Descend, Release, FreeDone, scanner

LEMMA StepStays == Inv /\ StaysInText /\ Inv' /\ [Next]_vars => StaysInText'
<1> SUFFICES ASSUME Inv, StaysInText, Inv', [Next]_vars
             PROVE  StaysInText'
  OBVIOUS
<1>1. CASE UNCHANGED vars
  BY <1>1 DEF vars, scanner, StaysInText
<1>2. CASE Next /\ pc # "scan"
  BY <1>2, ReleaseReadsNothing DEF StaysInText
<1>3. CASE Next /\ pc = "scan" /\ pc' = "scan"
  <2>1. ScanOK' /\ text' \in Seq(Chars) /\ ptr' \in Nat /\ Len(text') \in Nat
    <3>1. ScanOK' /\ text' \in Seq(Chars) /\ ptr' \in 1 .. Len(text') + 1
      BY <1>3 DEF Inv, TypeOK
    <3>2. Len(text') \in Nat
      BY <3>1
    <3>3. QED
      BY <3>1, <3>2
  <2>2. \A q \in 1 .. Len(text') : q < ptr' => text'[q] # NUL
    BY <2>1 DEF ScanOK
  <2>3. first_pass' # 1 => \E q \in 1 .. Len(text') : text'[q] = NUL
    BY <2>1 DEF ScanOK
  <2>4. first_pass' # 1 => ptr' <= Len(text')
    BY <2>1, <2>2, <2>3
  <2>5. DOMAIN text' = 1 .. Len(text')
    BY <2>1
  <2>6. QED
    BY <1>3, <2>2, <2>4, <2>5 DEF StaysInText
<1>4. CASE Next /\ pc = "scan" /\ pc' # "scan"
  <2>1. UNCHANGED ptr /\ \E b : Scanning(b)
    BY <1>4, StopsHere
  <2>2. /\ \A q \in DOMAIN text' : q < ptr' => text'[q] # NUL
        /\ ptr' <= Len(text')
    BY <2>1, StaysHere
  <2>3. ASSUME pc' = "past the end"
        PROVE  first_pass' = 1 /\ text'[Len(text')] = Fragment
    <3>1. Scanning(Fragment) /\ ptr > Len(text) /\ UNCHANGED first_pass
      BY <1>4, <2>3, StopsHere DEF ReadPastEnd
    <3>2. ScanOK /\ text \in Seq(Chars) /\ ptr \in Nat /\ Len(text) \in Nat /\ Fragment \in Chars
      <4>1. ScanOK /\ TypeOK
        BY <1>4 DEF Inv
      <4>2. QED
        BY <4>1, Position DEF Chars
    <3>3. first_pass = 1
      BY <3>1, <3>2 DEF ScanOK
    <3>4. text' = Append(text, Fragment)
      BY <3>1, <3>2 DEF Scanning
    <3>5. Len(text') = Len(text) + 1 /\ text'[Len(text) + 1] = Fragment
      BY <3>2, <3>4, AppendProperties
    <3>6. QED
      BY <3>1, <3>3, <3>5
  <2>4. QED
    BY <2>2, <2>3 DEF StaysInText
<1>5. QED
  BY <1>1, <1>2, <1>3, <1>4

(* No text, whatever its strings, comments and numbers, leads the scanner past *)
(* its end, but for one that ends in a part of true, false or null.            *)
THEOREM StaysInside == Spec => []StaysInText
<1>1. Init => StaysInText
  BY DEF Init, StaysInText
<1>2. QED
  BY <1>1, StepStays, Invariance, PTL DEF Spec

----------------------------------------------------------------------------
(***************************************************************************)
(* Pass 0 of the parser goes the way of pass 1: WritesFit and PassesAgree  *)
(* for every text.                                                         *)
(*                                                                         *)
(* What pass 1 did is not in the state when pass 0 runs.  The invariant    *)
(* says that there is a set of snapshots of pass 1, closed under the steps *)
(* of the scanner, and that pass 0 is at one of them: nothing is counted   *)
(* and nothing recursive is needed.  A snapshot leaves numbers out: pass 0 *)
(* takes each in one step.                                                 *)
(***************************************************************************)

NumberFlags == {"num_zero", "num_e", "num_e_got_sign"}
Containers == {"array", "object"}

(* Where the scanner is, and what it works on. *)
Scan == [ptr |-> ptr, flags |-> flags \ NumberFlags, sl |-> string_length]
TopType == IF top = 0 THEN "none" ELSE values[top].type

----------------------------------------------------------------------------
(* The scanner as a function: what to do is a matter of the flags, the     *)
(* type of top and the character.                                          *)
AtSkippable(c) ==
    IF c = LineComment THEN "startline" ELSE IF c = BlockComment THEN "startblock" ELSE "skip"

AtString(fl, ty, c) ==
    IF "escaped" \in fl THEN IF c \in {NUL, BadUnicode} THEN "stuck" ELSE "escape"
    ELSE IF c = Quote THEN IF ty = "string" THEN "closestring" ELSE "closename"
    ELSE IF c = Backslash THEN "startescape"
    ELSE IF c = NUL THEN "stuck" ELSE "char"

AtComment(fl, c) ==
    IF "line_comment" \in fl THEN IF c \in {Newline, NUL} THEN "endline" ELSE "skip"
    ELSE IF c = EndComment THEN "endblock" ELSE IF c = NUL THEN "stuck" ELSE "skip"

AtDone(c) ==
    IF c \in Skippable THEN AtSkippable(c) ELSE IF c = NUL THEN "final" ELSE "stuck"

AtSeek(fl, ty, c) ==
    IF c \in Skippable THEN AtSkippable(c)
    ELSE IF c = "]" THEN IF ty = "array" THEN "closearray" ELSE "stuck"
    ELSE IF "need_comma" \in fl THEN IF c = "," THEN "comma" ELSE "stuck"
    ELSE IF "need_colon" \in fl THEN IF c = ":" THEN "colon" ELSE "stuck"
    ELSE IF c \in {"-"} \cup Digits THEN "number"
    ELSE IF c \in ValueStarts THEN "open" ELSE "stuck"

AtObject(fl, c) ==
    IF c \in Skippable THEN AtSkippable(c)
    ELSE IF c = "}" THEN "closeobject"
    ELSE IF c = Quote /\ "need_comma" \notin fl THEN "startname"
    ELSE IF c = "," /\ "need_comma" \in fl THEN "comma" ELSE "stuck"

Kind(fl, ty, c) ==
    IF "next" \in fl THEN "finish"
    ELSE IF "string" \in fl THEN AtString(fl, ty, c)
    ELSE IF fl \cap {"line_comment", "block_comment"} # {} THEN AtComment(fl, c)
    ELSE IF "done" \in fl THEN AtDone(c)
    ELSE IF "seek_value" \in fl THEN AtSeek(fl, ty, c)
    ELSE AtObject(fl, c)

FlagsAfter(k, c, fl) ==
    CASE k = "startescape" -> fl \cup {"escaped"}
      [] k = "escape" -> fl \ {"escaped"}
      [] k = "closestring" -> (fl \ {"string"}) \cup {"next"}
      [] k = "closename" -> (fl \ {"string"}) \cup {"seek_value", "need_colon"}
      [] k = "startline" -> fl \cup {"line_comment"}
      [] k = "startblock" -> fl \cup {"block_comment"}
      [] k = "endline" -> fl \ {"line_comment"}
      [] k = "endblock" -> fl \ {"block_comment"}
      [] k = "closearray" -> (fl \ {"need_comma", "seek_value"}) \cup {"next"}
      [] k = "closeobject" -> (fl \ {"need_comma"}) \cup {"next"}
      [] k = "comma" -> fl \ {"need_comma"}
      [] k = "colon" -> fl \ {"need_colon"}
      [] k = "startname" -> fl \cup {"string"}
      [] k = "open" /\ c = "{" -> fl \ {"seek_value"}
      [] k = "open" /\ c = Quote -> (fl \ {"seek_value"}) \cup {"string"}
      [] k = "open" /\ c = Literal -> (fl \ {"seek_value"}) \cup {"next"}
      [] OTHER -> fl

Stays(k, c) ==
    k \in {"endline", "closestring", "closearray", "closeobject"} \/ (k = "open" /\ c = Literal)

LengthAfter(k, c, n) ==
    CASE k = "char" -> n + 1
      [] k = "escape" -> n + (IF c = Unicode THEN 3 ELSE 1)
      [] k = "startname" -> 0
      [] k = "open" /\ c = Quote -> 0
      [] OTHER -> n

ScanAfter(k, c, q) ==
    [ptr |-> IF Stays(k, c) THEN q.ptr ELSE q.ptr + 1,
     flags |-> FlagsAfter(k, c, q.flags),
     sl |-> LengthAfter(k, c, q.sl)]

(* Flags that go together, and the type that top has with them. *)
FlagsFit(fl, ty) ==
    /\ "escaped" \in fl => "string" \in fl
    /\ ~({"line_comment", "block_comment"} \subseteq fl)
    /\ "string" \in fl => /\ fl \cap {"line_comment", "block_comment", "done", "seek_value"} = {}
                          /\ ty \in {"string", "object"}
    /\ "next" \in fl =>
         fl \cap {"string", "line_comment", "block_comment", "done", "seek_value"} = {}
    /\ "done" \in fl => "seek_value" \notin fl
    /\ "seek_value" \in fl => ty \in {"none", "array", "object"}
    /\ fl \cap {"next", "string", "done", "seek_value"} = {} => ty = "object"

----------------------------------------------------------------------------
(* The steps of both passes at b, outside of numbers. *)
Tree(k, b) ==
    /\ k = "open" => NewValue(TypeOfStart(b))
    /\ k = "closestring" =>
         values' = [values EXCEPT ![top].length = string_length] /\ UNCHANGED <<top, root, alloc, live>>
    /\ k = "closename" =>
         /\ values' = [values EXCEPT ![top].names = @ + string_length + 1,
                                     ![top].keys = IF first_pass = 1 THEN @
                                                   ELSE Append(@, string_length)]
         /\ UNCHANGED <<top, root, alloc, live>>
    /\ k \notin {"open", "closestring", "closename"} => UNCHANGED <<tree, live>>

Small(k, b) ==
    /\ Scanning(b) /\ k = Kind(flags \ NumberFlags, TopType, b)
    /\ k \notin {"stuck", "final", "finish", "number"}
    /\ Scan' = ScanAfter(k, b, Scan)
    /\ Tree(k, b)
    /\ UNCHANGED <<pc, first_pass, badFree, cur>>
    /\ flags' \cap NumberFlags \subseteq flags

(* Steps in a string or a name. *)
LEMMA StringSteps ==
    ASSUME FlagsFit(flags, TopType), top # 0 \/ "string" \notin flags,
           StringChar \/ StartEscape \/ Escape \/ CloseString \/ CloseName
    PROVE  \E k, b : Small(k, b)
<1> USE DEF Scan, Kind, AtString, FlagsFit, TopType, Scanning, InString, Continue, rest, ScanAfter,
        FlagsAfter, LengthAfter, Stays, NumberFlags
<1>1. CASE StringChar
  <2>1. PICK b \in Chars \ {Quote, Backslash, NUL} :
            /\ Scanning(b) /\ InString /\ "escaped" \notin flags
            /\ string_length' = string_length + 1
            /\ Continue(flags)
            /\ UNCHANGED <<rest, tree, num_digits>>
    BY <1>1 DEF StringChar
  <2>2. Small("char", b)
    BY <2>1 DEF Small, Tree
  <2>3. QED
    BY <2>2
<1>2. CASE StartEscape
  <2>2. Small("startescape", Backslash)
    BY <1>2 DEF StartEscape, Small, Tree, Backslash, Quote
  <2>3. QED
    BY <2>2
<1>3. CASE Escape
  <2>1. PICK b \in Chars \ {NUL, BadUnicode} :
            /\ Scanning(b) /\ InString /\ "escaped" \in flags
            /\ string_length' = string_length + (IF b = Unicode THEN 3 ELSE 1)
            /\ Continue(flags \ {"escaped"})
            /\ UNCHANGED <<rest, tree, num_digits>>
    BY <1>3 DEF Escape
  <2>2. Small("escape", b)
    BY <2>1 DEF Small, Tree
  <2>3. QED
    BY <2>2
<1>4. CASE CloseString
  <2>2. Small("closestring", Quote)
    BY <1>4 DEF CloseString, Complete, Small, Tree
  <2>3. QED
    BY <2>2
<1>5. CASE CloseName
  <2>2. Small("closename", Quote)
    BY <1>5 DEF CloseName, Small, Tree
  <2>3. QED
    BY <2>2
<1>6. QED
  BY <1>1, <1>2, <1>3, <1>4, <1>5

(* Steps at and in a comment. *)
LEMMA CommentSteps ==
    ASSUME FlagsFit(flags, TopType),
           \/ StartLineComment \/ StartBlockComment \/ CommentChar
           \/ EndLineComment \/ EndBlockComment
    PROVE  \E k, b : Small(k, b)
<1> USE DEF Scan, Kind, AtComment, FlagsFit, Scanning, Continue, rest, ScanAfter,
        FlagsAfter, LengthAfter, Stays, NumberFlags, InLineComment, InBlockComment
<1>1. CASE StartLineComment \/ StartBlockComment
  <2>1. PICK b \in {LineComment, BlockComment} :
            /\ Scanning(b) /\ (IsDone \/ Seeking \/ InObject)
            /\ Continue(flags \cup {IF b = LineComment THEN "line_comment" ELSE "block_comment"})
            /\ UNCHANGED <<rest, tree, string_length, num_digits>>
    BY <1>1 DEF StartLineComment, StartBlockComment, LineComment, BlockComment
  <2>2. Kind(flags \ NumberFlags, TopType, b) = AtSkippable(b)
    BY <2>1 DEF IsDone, Seeking, InObject, InValue, InJson, InString, AtDone, AtSeek, AtObject, Skippable
  <2>3. AtSkippable(b) = IF b = LineComment THEN "startline" ELSE "startblock"
    BY <2>1 DEF AtSkippable
  <2>4. Small(AtSkippable(b), b)
    <3> HIDE DEF Kind
    <3>1. QED
      BY <2>1, <2>2, <2>3, ZenonT(60) DEF Small, Tree
  <2>5. QED
    BY <2>4
<1>2. CASE CommentChar
  <2>1. PICK b \in Chars \ {NUL} :
            /\ Scanning(b)
            /\ (InLineComment /\ b # Newline) \/ (InBlockComment /\ b # EndComment)
            /\ Continue(flags)
            /\ UNCHANGED <<rest, tree, string_length, num_digits>>
    BY <1>2 DEF CommentChar
  <2>2. Small("skip", b)
    BY <2>1 DEF Small, Tree
  <2>3. QED
    BY <2>2
<1>3. CASE EndLineComment
  <2>1. PICK b \in {Newline, NUL} :
            /\ Scanning(b) /\ InLineComment
            /\ flags' = flags \ {"line_comment"}
            /\ UNCHANGED <<rest, ptr, tree, string_length, num_digits>>
    BY <1>3 DEF EndLineComment
  <2>2. Small("endline", b)
    BY <2>1 DEF Small, Tree
  <2>3. QED
    BY <2>2
<1>4. CASE EndBlockComment
  <2>2. Small("endblock", EndComment)
    BY <1>4 DEF EndBlockComment, Small, Tree
  <2>3. QED
    BY <2>2
<1>5. QED
  BY <1>1, <1>2, <1>3, <1>4

(* Steps between values. *)
LEMMA SeparatorSteps ==
    ASSUME FlagsFit(flags, TopType),
           SkipBlank \/ CloseArray \/ Comma \/ Colon \/ StartName \/ CloseObject
    PROVE  \E k, b : Small(k, b)
<1> USE DEF Scan, Scanning, Continue, Complete, rest, ScanAfter,
        FlagsAfter, LengthAfter, Stays, NumberFlags
<1> USE DEF IsDone, Seeking, InObject, InValue, InJson, InString, InLineComment, InBlockComment
<1> USE DEF Kind, AtDone, AtSeek, AtObject, Skippable, FlagsFit, TopType
<1>1. CASE SkipBlank
  <2>1. PICK b \in {Blank, Newline} :
            /\ Scanning(b) /\ (IsDone \/ Seeking \/ InObject)
            /\ Continue(flags)
            /\ UNCHANGED <<rest, tree, string_length, num_digits>>
    BY <1>1 DEF SkipBlank
  <2>2. Kind(flags \ NumberFlags, TopType, b) = "skip"
    BY <2>1 DEF AtSkippable, Blank, Newline, LineComment, BlockComment
  <2>3. Small("skip", b)
    <3> HIDE DEF Kind
    <3>1. QED
      BY <2>1, <2>2 DEF Small, Tree
  <2>4. QED
    BY <2>3
<1>2. CASE CloseArray
  <2>1. Small("closearray", "]")
    BY <1>2 DEF CloseArray, Small, Tree, Blank, Newline, LineComment, BlockComment
  <2>2. QED
    BY <2>1
<1>3. CASE Comma
  <2>1. Small("comma", ",")
    BY <1>3 DEF Comma, Small, Tree, Blank, Newline, LineComment, BlockComment, Quote
  <2>2. QED
    BY <2>1
<1>4. CASE Colon
  <2>1. Small("colon", ":")
    BY <1>4 DEF Colon, Small, Tree, Blank, Newline, LineComment, BlockComment
  <2>2. QED
    BY <2>1
<1>5. CASE StartName
  <2>1. Small("startname", Quote)
    BY <1>5 DEF StartName, Small, Tree, Blank, Newline, LineComment, BlockComment, Quote
  <2>2. QED
    BY <2>1
<1>6. CASE CloseObject
  <2>1. Small("closeobject", "}")
    BY <1>6 DEF CloseObject, Small, Tree, Blank, Newline, LineComment, BlockComment, Quote
  <2>2. QED
    BY <2>1
<1>7. QED
  BY <1>1, <1>2, <1>3, <1>4, <1>5, <1>6

(* Steps at the start of a value. *)
LEMMA OpeningSteps ==
    ASSUME FlagsFit(flags, TopType), StartContainer \/ StartString \/ ReadLiteral
    PROVE  \E k, b : Small(k, b)
<1>1. PICK b \in {"{", "[", Quote, Literal} :
        /\ Scanning(b) /\ AtValue /\ NewValue(TypeOfStart(b))
        /\ ptr' = (IF b = Literal THEN ptr ELSE ptr + 1)
        /\ flags' = (IF b = "[" THEN flags ELSE IF b = "{" THEN Found
                     ELSE IF b = Quote THEN Found \cup {"string"} ELSE Found \cup {"next"})
        /\ string_length' = (IF b = Quote THEN 0 ELSE string_length)
        /\ UNCHANGED <<pc, first_pass, badFree, cur>>
  <2>1. CASE StartContainer
    BY <2>1 DEF StartContainer, Continue, Quote, Literal
  <2>2. CASE StartString
    BY <2>2 DEF StartString, Continue, Quote, Literal, TypeOfStart
  <2>3. CASE ReadLiteral
    BY <2>3 DEF ReadLiteral, Complete, Quote, Literal, TypeOfStart
  <2>4. QED
    BY <2>1, <2>2, <2>3
<1>2. Kind(flags \ NumberFlags, TopType, b) = "open"
  BY <1>1 DEF Kind, AtSeek, AtValue, Seeking, IsDone, InJson, InString, InLineComment, InBlockComment,
     Skippable, Blank, Newline, LineComment, BlockComment, NumberFlags, ValueStarts, Quote, Literal,
     Digits, Scanning
<1>3. Scan' = ScanAfter("open", b, Scan)
  BY <1>1 DEF Scan, ScanAfter, FlagsAfter, LengthAfter, Stays, Found, NumberFlags, Quote, Literal
<1>4. Small("open", b)
  BY <1>1, <1>2, <1>3 DEF Small, Tree, Found, NumberFlags
<1>5. QED
  BY <1>4

(* Every step of either pass that is not about a number, but the last of a value. *)
LEMMA SmallSteps ==
    ASSUME FlagsFit(flags, TopType), top # 0 \/ "string" \notin flags,
           \/ StringChar \/ StartEscape \/ Escape \/ CloseString \/ CloseName
           \/ StartLineComment \/ StartBlockComment
           \/ CommentChar \/ EndLineComment \/ EndBlockComment
           \/ SkipBlank \/ CloseArray \/ Comma \/ Colon
           \/ StartContainer \/ StartString \/ ReadLiteral
           \/ StartName \/ CloseObject
    PROVE  \E k, b : Small(k, b)
BY StringSteps, CommentSteps, SeparatorSteps, OpeningSteps

----------------------------------------------------------------------------
(***************************************************************************)
(* Snapshots of pass 1.  named: the names met so far, by object; neither   *)
(* pass counts them, but pass 0 stores that many keys.                     *)
(***************************************************************************)
Snapshots ==
    [scan: [ptr: Nat, flags: SUBSET (Flags \ NumberFlags), sl: Nat],
     top: Nat, vals: Seq(Records), named: [Nat -> Nat]]

Now(named) == [scan |-> Scan, top |-> top, vals |-> values, named |-> named]

TypeAt(s) == IF s.top = 0 THEN "none" ELSE s.vals[s.top].type

(* What pass 1 makes of a value. *)
Counted(s, n) ==
    LET v == s.vals[n] IN
    /\ v.parent \in 0 .. n - 1
    /\ v.parent # 0 => s.vals[v.parent].type \in Containers
    /\ v.kids = <<>> /\ v.keys = <<>> /\ v.size = 0 /\ v.room = 0
    /\ v.type \notin Containers \cup {"string"} => v.length = 0
    /\ v.type # "object" => v.names = 0 /\ s.named[n] = 0
    /\ s.named[n] = 0 => v.names = 0

Fits(s) ==
    /\ s.top \in 0 .. Len(s.vals)
    /\ FlagsFit(s.scan.flags, TypeAt(s))
    /\ \A n \in 1 .. Len(s.vals) : Counted(s, n)
    /\ \A n \in Nat : n > Len(s.vals) => s.named[n] = 0
    /\ "string" \in s.scan.flags => s.top # 0
    /\ "string" \in s.scan.flags /\ TypeAt(s) = "string" => s.vals[s.top].length = 0

(* From one snapshot to the next, at c. *)
Grown(k, c, s, t) ==
    /\ k = "open" =>
         /\ t.vals = Append(s.vals, NewRecord(TypeOfStart(c), s.top))
         /\ t.top = Len(s.vals) + 1 /\ t.named = s.named
    /\ k = "closestring" =>
         /\ t.vals = [s.vals EXCEPT ![s.top].length = s.scan.sl]
         /\ t.top = s.top /\ t.named = s.named
    /\ k = "closename" =>
         /\ t.vals = [s.vals EXCEPT ![s.top].names = @ + s.scan.sl + 1]
         /\ t.top = s.top /\ t.named = [s.named EXCEPT ![s.top] = @ + 1]
    /\ k \notin {"open", "closestring", "closename"} =>
         t.vals = s.vals /\ t.top = s.top /\ t.named = s.named

Finished(s, t) ==
    LET parent == s.vals[s.top].parent
        fl == (s.scan.flags \ {"next", "reproc"}) \cup {"need_comma"} IN
    /\ t.scan = [ptr |-> IF "reproc" \in s.scan.flags THEN s.scan.ptr ELSE s.scan.ptr + 1,
                 flags |-> fl \cup (IF parent = 0 THEN {"done"}
                                    ELSE IF s.vals[parent].type = "array" THEN {"seek_value"}
                                    ELSE {}),
                 sl |-> s.scan.sl]
    /\ t.named = s.named
    /\ IF parent = 0 THEN t.top = s.top /\ t.vals = s.vals
       ELSE t.top = parent /\ t.vals = [s.vals EXCEPT ![parent].length = @ + 1]

(* A number, in one step. *)
NumberRead(s, t) ==
    /\ t.scan.ptr \in s.scan.ptr .. Len(text)
    /\ \A q \in s.scan.ptr .. t.scan.ptr - 1 : text[q] \in Skipped
    /\ t.scan.flags = (s.scan.flags \ {"seek_value"}) \cup {"next", "reproc"}
    /\ t.scan.sl = s.scan.sl /\ t.named = s.named
    /\ t.top = Len(s.vals) + 1
    /\ \E type \in {"integer", "double"} : t.vals = Append(s.vals, NewRecord(type, s.top))

KindAt(s) == Kind(s.scan.flags, TypeAt(s), text[s.scan.ptr])

Leads(s, t) ==
    LET c == text[s.scan.ptr]
        k == KindAt(s) IN
    /\ k \notin {"stuck", "final"}
    /\ k = "finish" => Finished(s, t)
    /\ k = "number" => NumberRead(s, t)
    /\ k \notin {"finish", "number"} => t.scan = ScanAfter(k, c, s.scan) /\ Grown(k, c, s, t)

(* Nothing is taken back.  A string or name that is being read at s is     *)
(* still being read at t, or has been added.                               *)
Added(s, t) ==
    IF TypeAt(s) = "string" THEN s.scan.sl <= t.vals[s.top].length
    ELSE /\ s.vals[s.top].names + s.scan.sl + 1 <= t.vals[s.top].names
         /\ s.named[s.top] + 1 <= t.named[s.top]

Below(s, t) ==
    /\ Len(s.vals) <= Len(t.vals)
    /\ \A n \in 1 .. Len(s.vals) :
         /\ s.vals[n].type = t.vals[n].type /\ s.vals[n].parent = t.vals[n].parent
         /\ s.vals[n].length <= t.vals[n].length /\ s.vals[n].names <= t.vals[n].names
         /\ s.named[n] <= t.named[n]
    /\ "done" \in s.scan.flags => "done" \in t.scan.flags /\ s.vals = t.vals
    /\ "string" \in s.scan.flags =>
         \/ "string" \in t.scan.flags /\ s.top = t.top /\ s.scan.sl <= t.scan.sl
         \/ Added(s, t)

(* Names are followed by values.  S: top, its parent and so on. *)
Balanced(S, s) ==
    /\ S \subseteq 1 .. Len(s.vals)
    /\ IF "done" \in s.scan.flags THEN S = {} ELSE s.top \in S \/ (S = {} /\ s.top = 0)
    /\ \A m \in S :
         /\ m <= s.top
         /\ s.vals[m].parent # 0 => s.vals[m].parent \in S
         /\ \A k \in S : m < k => m <= s.vals[k].parent
    /\ \A n \in 1 .. Len(s.vals) :
         /\ s.named[n] <= s.vals[n].length + 1
         /\ n \notin S \/ (n = s.top /\ "seek_value" \notin s.scan.flags) =>
              s.named[n] <= s.vals[n].length

Start == [scan |-> [ptr |-> 1, flags |-> {"seek_value"}, sl |-> 0],
          top |-> 0, vals |-> <<>>, named |-> [n \in Nat |-> 0]]

Continued(s, G) == s.scan.ptr \in 1 .. Len(text) /\ \E t \in G : Leads(s, t)

(* Pass 1 has come from Start to s, by way of G. *)
Trace(G, S, s) ==
    /\ Start \in G /\ s \in G /\ G \subseteq Snapshots
    /\ \A r \in G : Fits(r) /\ Below(r, s) /\ (r = s \/ Continued(r, G))
    /\ Balanced(S, s)

(* It is there, or in the number that begins there. *)
InNumberFrom(s) ==
    /\ "next" \notin flags /\ KindAt(s) = "number" /\ s.scan.ptr \in 1 .. Len(text)
    /\ ptr >= s.scan.ptr /\ \A q \in s.scan.ptr .. ptr - 1 : text[q] \in Skipped
    /\ flags \ NumberFlags = s.scan.flags \ {"seek_value"}
    /\ string_length = s.scan.sl
    /\ top = Len(s.vals) + 1
    /\ \E type \in {"integer", "double"} : values = Append(s.vals, NewRecord(type, s.top))

PassOne ==
    pc = "scan" /\ first_pass = 1 =>
        /\ alloc = Len(values) /\ root = (IF values = <<>> THEN 0 ELSE 1)
        /\ \E G, S, s : Trace(G, S, s) /\ (s = Now(s.named) \/ InNumberFrom(s))

----------------------------------------------------------------------------
(* The text that has been read does not change. *)
Extends == Len(text) <= Len(text') /\ \A q \in 1 .. Len(text) : text'[q] = text[q]

(* The fields of a snapshot. *)
LEMMA SnapshotFields ==
    ASSUME NEW s \in Snapshots
    PROVE  /\ s.scan.ptr \in Nat /\ s.scan.flags \subseteq Flags \ NumberFlags /\ s.scan.sl \in Nat
           /\ s.top \in Nat /\ s.vals \in Seq(Records) /\ Len(s.vals) \in Nat
           /\ s.named \in [Nat -> Nat]
<1>1. s.vals \in Seq(Records)
  BY DEF Snapshots
<1>2. Len(s.vals) \in Nat
  BY <1>1
<1>3. QED
  BY <1>1, <1>2 DEF Snapshots

(* The fields of its values. *)
LEMMA CountedFields ==
    ASSUME NEW s \in Snapshots, NEW n \in 1 .. Len(s.vals)
    PROVE  /\ s.vals[n] \in Records /\ n \in Nat /\ s.vals[n].parent \in Nat
           /\ s.vals[n].length \in Nat /\ s.vals[n].names \in Nat /\ s.named[n] \in Nat
<1>1. s.vals[n] \in Records /\ n \in Nat /\ s.named[n] \in Nat
  BY SnapshotFields
<1>2. QED
  BY <1>1, RecordFields

(* So what a snapshot has led to, it leads to. *)
LEMMA LeadsStays ==
    ASSUME NEW s \in Snapshots, NEW t \in Snapshots, text \in Seq(Chars), text' \in Seq(Chars), Extends,
           s.scan.ptr \in 1 .. Len(text), Leads(s, t)
    PROVE  Leads(s, t)'
<1>0. Len(text) \in Nat /\ Len(text') \in Nat /\ s.scan.ptr \in Nat /\ t.scan.ptr \in Nat
  BY SnapshotFields
<1>1. text'[s.scan.ptr] = text[s.scan.ptr]
  BY DEF Extends
<1>2. KindAt(s)' = KindAt(s)
  BY <1>1 DEF KindAt
<1>3. NumberRead(s, t) => NumberRead(s, t)'
  <2>1. ASSUME t.scan.ptr \in s.scan.ptr .. Len(text),
               \A q \in s.scan.ptr .. t.scan.ptr - 1 : text[q] \in Skipped
        PROVE  /\ t.scan.ptr \in s.scan.ptr .. Len(text')
               /\ \A q \in s.scan.ptr .. t.scan.ptr - 1 : text'[q] \in Skipped
    <3>1. t.scan.ptr \in s.scan.ptr .. Len(text')
      BY <1>0, <2>1 DEF Extends
    <3>2. ASSUME NEW q \in s.scan.ptr .. t.scan.ptr - 1
          PROVE  text'[q] \in Skipped
      <4>1. q \in 1 .. Len(text)
        BY <1>0, <2>1, <3>2
      <4>2. QED
        BY <2>1, <4>1 DEF Extends
    <3>3. QED
      BY <3>1, <3>2
  <2>2. QED
    BY <2>1 DEF NumberRead
<1>4. QED
  BY <1>1, <1>2, <1>3 DEF Leads

(* Nor is a snapshot left without one that it leads to. *)
LEMMA ContinuedStays ==
    ASSUME NEW s \in Snapshots, NEW G, NEW H, G \subseteq H, H \subseteq Snapshots,
           text \in Seq(Chars), text' \in Seq(Chars), Extends, Continued(s, G)
    PROVE  Continued(s, H)'
<1>1. s.scan.ptr \in 1 .. Len(text')
  <2>1. Len(text) \in Nat /\ Len(text') \in Nat /\ s.scan.ptr \in 1 .. Len(text)
    BY DEF Continued
  <2>2. QED
    BY <2>1 DEF Extends
<1>2. PICK t \in G : Leads(s, t)
  BY DEF Continued
<1>3. Leads(s, t)'
  BY <1>2, LeadsStays DEF Continued
<1>4. QED
  BY <1>1, <1>3 DEF Continued

(* Nothing is taken back in two steps, either. *)
LEMMA BelowTrans ==
    ASSUME NEW r \in Snapshots, NEW s \in Snapshots, NEW t \in Snapshots, Fits(r), Fits(s), Fits(t),
           Below(r, s), Below(s, t)
    PROVE  Below(r, t)
<1>0. Len(r.vals) \in Nat /\ Len(s.vals) \in Nat /\ Len(t.vals) \in Nat
      /\ Len(r.vals) <= Len(s.vals) /\ Len(s.vals) <= Len(t.vals)
  BY SnapshotFields DEF Below
<1>1. ASSUME NEW n \in 1 .. Len(r.vals)
      PROVE  /\ n \in 1 .. Len(s.vals) /\ n \in 1 .. Len(t.vals)
             /\ r.vals[n].type = t.vals[n].type /\ r.vals[n].parent = t.vals[n].parent
             /\ r.vals[n].length <= t.vals[n].length /\ r.vals[n].names <= t.vals[n].names
             /\ r.named[n] <= t.named[n]
  <2>1. n \in 1 .. Len(s.vals) /\ n \in 1 .. Len(t.vals)
    BY <1>0
  <2>2. /\ r.vals[n].length \in Nat /\ s.vals[n].length \in Nat /\ t.vals[n].length \in Nat
        /\ r.vals[n].names \in Nat /\ s.vals[n].names \in Nat /\ t.vals[n].names \in Nat
        /\ r.named[n] \in Nat /\ s.named[n] \in Nat /\ t.named[n] \in Nat
    BY <2>1, CountedFields
  <2>3. /\ r.vals[n].type = s.vals[n].type /\ r.vals[n].parent = s.vals[n].parent
        /\ r.vals[n].length <= s.vals[n].length /\ r.vals[n].names <= s.vals[n].names
        /\ r.named[n] <= s.named[n]
    BY DEF Below
  <2>4. /\ s.vals[n].type = t.vals[n].type /\ s.vals[n].parent = t.vals[n].parent
        /\ s.vals[n].length <= t.vals[n].length /\ s.vals[n].names <= t.vals[n].names
        /\ s.named[n] <= t.named[n]
    BY <2>1 DEF Below
  <2>5. r.vals[n].type = t.vals[n].type /\ r.vals[n].parent = t.vals[n].parent
    BY <2>3, <2>4
  <2>6. \A i, j, k \in Nat : i <= j /\ j <= k => i <= k
    OBVIOUS
  <2>7. r.vals[n].length <= t.vals[n].length
    BY <2>2, <2>3, <2>4, <2>6
  <2>8. r.vals[n].names <= t.vals[n].names /\ r.named[n] <= t.named[n]
    BY <2>2, <2>3, <2>4, <2>6
  <2>9. QED
    BY <2>1, <2>5, <2>7, <2>8
<1>2. ASSUME "string" \in r.scan.flags
      PROVE  \/ "string" \in t.scan.flags /\ r.top = t.top /\ r.scan.sl <= t.scan.sl
             \/ Added(r, t)
  <2>0. r.top \in 1 .. Len(r.vals) /\ r.top # 0
    BY <1>0, <1>2 DEF Fits
  <2> DEFINE n == r.top
  <2>1. n \in 1 .. Len(s.vals) /\ n \in 1 .. Len(t.vals)
    BY <1>1, <2>0
  <2>2. /\ r.vals[n].length \in Nat /\ s.vals[n].length \in Nat /\ t.vals[n].length \in Nat
        /\ r.vals[n].names \in Nat /\ s.vals[n].names \in Nat /\ t.vals[n].names \in Nat
        /\ r.named[n] \in Nat /\ s.named[n] \in Nat /\ t.named[n] \in Nat
        /\ r.scan.sl \in Nat /\ s.scan.sl \in Nat /\ t.scan.sl \in Nat
    BY <2>0, <2>1, CountedFields, SnapshotFields
  <2>3. /\ r.vals[n].type = s.vals[n].type
        /\ r.vals[n].names <= s.vals[n].names /\ r.named[n] <= s.named[n]
        /\ s.vals[n].length <= t.vals[n].length
        /\ s.vals[n].names <= t.vals[n].names /\ s.named[n] <= t.named[n]
    BY <2>0, <2>1 DEF Below
  <2>4. CASE Added(r, s)
    <3>1. CASE TypeAt(r) = "string"
      <4>1. r.scan.sl <= s.vals[n].length
        BY <2>4, <3>1 DEF Added
      <4>2. r.scan.sl <= t.vals[n].length
        BY <2>2, <2>3, <4>1
      <4>3. QED
        BY <3>1, <4>2 DEF Added
    <3>2. CASE TypeAt(r) # "string"
      <4>1. r.vals[n].names + r.scan.sl + 1 <= s.vals[n].names /\ r.named[n] + 1 <= s.named[n]
        BY <2>4, <3>2 DEF Added
      <4>2. r.vals[n].names + r.scan.sl + 1 <= t.vals[n].names /\ r.named[n] + 1 <= t.named[n]
        BY <2>2, <2>3, <4>1
      <4>3. QED
        BY <3>2, <4>2 DEF Added
    <3>3. QED
      BY <3>1, <3>2
  <2>5. CASE "string" \in s.scan.flags /\ r.top = s.top /\ r.scan.sl <= s.scan.sl
    <3>1. CASE "string" \in t.scan.flags /\ s.top = t.top /\ s.scan.sl <= t.scan.sl
      BY <2>2, <2>5, <3>1
    <3>2. CASE Added(s, t)
      <4>1. TypeAt(r) = TypeAt(s)
        BY <2>0, <2>3, <2>5 DEF TypeAt
      <4>2. QED
        BY <2>2, <2>3, <2>5, <3>2, <4>1 DEF Added
    <3>3. QED
      BY <2>5, <3>1, <3>2 DEF Below
  <2>6. QED
    BY <1>2, <2>4, <2>5 DEF Below
<1>3. "done" \in r.scan.flags => "done" \in t.scan.flags /\ r.vals = t.vals
  BY DEF Below
<1>4. Len(r.vals) <= Len(t.vals)
  BY <1>0
<1>5. QED
  BY <1>1, <1>2, <1>3, <1>4 DEF Below

(* Nothing is taken back in no step. *)
LEMMA BelowSelf ==
    ASSUME NEW s \in Snapshots, Fits(s)
    PROVE  Below(s, s)
<1>1. Len(s.vals) <= Len(s.vals) /\ s.scan.sl <= s.scan.sl
  BY SnapshotFields
<1>2. ASSUME NEW n \in 1 .. Len(s.vals)
      PROVE  /\ s.vals[n].length <= s.vals[n].length /\ s.vals[n].names <= s.vals[n].names
             /\ s.named[n] <= s.named[n]
  BY CountedFields
<1>3. QED
  BY <1>1, <1>2 DEF Below

(* Pass 1 goes on. *)
LEMMA TraceGoesOn ==
    ASSUME NEW G, NEW S, NEW s, NEW t \in Snapshots, NEW T, Trace(G, S, s),
           text \in Seq(Chars), text' \in Seq(Chars), Extends,
           s.scan.ptr \in 1 .. Len(text'), Leads(s, t)',
           Fits(t), Below(s, t), Balanced(T, t)
    PROVE  Trace(G \cup {t}, T, t)'
<1> DEFINE H == G \cup {t}
<1>1. s \in G /\ H \subseteq Snapshots /\ Start \in H /\ t \in H
  BY DEF Trace
<1>2. ASSUME NEW r \in H
      PROVE  Fits(r) /\ Below(r, t) /\ (r = t \/ Continued(r, H)')
  <2>1. CASE r = t
    BY <2>1, BelowSelf
  <2>2. CASE r \in G
    <3>1. Fits(r) /\ Below(r, s) /\ Fits(s) /\ r \in Snapshots /\ s \in Snapshots
      BY <1>1, <2>2 DEF Trace
    <3>2. Below(r, t)
      BY <3>1, BelowTrans
    <3>3. CASE r = s
      BY <1>1, <3>1, <3>2, <3>3 DEF Continued
    <3>4. CASE Continued(r, G)
      <4>1. Continued(r, H)'
        BY <1>1, <3>1, <3>4, ContinuedStays
      <4>2. QED
        BY <3>1, <3>2, <4>1
    <3>5. QED
      BY <2>2, <3>3, <3>4 DEF Trace
  <2>3. QED
    BY <2>1, <2>2
<1>3. QED
  BY <1>1, <1>2 DEF Trace

----------------------------------------------------------------------------
MoveKinds == {"skip", "char", "startescape", "escape", "endline", "endblock", "startline",
              "startblock", "closearray", "comma", "colon", "closeobject", "startname"}

(* What the flags are where the scanner does k. *)
Meaning(k, fl, ty, c) ==
    /\ k # "finish" => "next" \notin fl
    /\ k \in {"char", "startescape", "escape", "closestring", "closename"} => "string" \in fl
    /\ k \in {"char", "startescape", "closestring", "closename"} => "escaped" \notin fl
    /\ k = "closestring" => ty = "string"
    /\ k = "closename" => ty # "string"
    /\ k \in {"skip", "endline", "endblock", "startline", "startblock", "closearray", "comma",
              "colon", "open", "number", "closeobject", "startname", "final"} => "string" \notin fl
    /\ k \in {"startline", "startblock", "closearray", "comma", "colon", "open", "number",
              "closeobject", "startname", "final"} =>
         fl \cap {"line_comment", "block_comment"} = {}
    /\ k \in {"closearray", "comma", "colon", "open", "number", "closeobject", "startname"} =>
         "done" \notin fl
    /\ k \in {"closearray", "colon", "open", "number"} => "seek_value" \in fl
    /\ k \in {"closeobject", "startname"} => "seek_value" \notin fl
    /\ k = "closearray" => ty = "array"
    /\ k = "open" => c \in {"{", "[", Quote, Literal}
    /\ k = "number" => c \in {"-"} \cup Digits
    /\ k \in {"open", "number"} => fl \cap {"need_comma", "need_colon"} = {}
    /\ k = "final" => "done" \in fl /\ c = NUL
    /\ k \in MoveKinds \cup {"stuck", "final", "finish", "number", "open", "closestring", "closename"}

(* Kind is one of them, where the flags are so. *)
LEMMA KindMeans ==
    ASSUME NEW fl, NEW ty, NEW c
    PROVE  Meaning(Kind(fl, ty, c), fl, ty, c)
<1> USE DEF Meaning, MoveKinds
<1>1. CASE "next" \in fl
  BY <1>1 DEF Kind
<1>2. CASE "next" \notin fl /\ "string" \in fl
  BY <1>2 DEF Kind, AtString
<1>3. CASE fl \cap {"next", "string"} = {} /\ fl \cap {"line_comment", "block_comment"} # {}
  BY <1>3 DEF Kind, AtComment
<1>4. CASE fl \cap {"next", "string", "line_comment", "block_comment"} = {} /\ "done" \in fl
  BY <1>4 DEF Kind, AtDone, AtSkippable
<1>5. CASE fl \cap {"next", "string", "line_comment", "block_comment", "done"} = {} /\ "seek_value" \in fl
  BY <1>5 DEF Kind, AtSeek, AtSkippable, ValueStarts
<1>6. CASE fl \cap {"next", "string", "line_comment", "block_comment", "done", "seek_value"} = {}
  BY <1>6, ZenonT(60) DEF Kind, AtObject, AtSkippable
<1>7. QED
  BY <1>1, <1>2, <1>3, <1>4, <1>5, <1>6

(* The flags still fit behind a step that leaves the tree alone. *)
LEMMA MoveFlags ==
    ASSUME NEW fl, NEW ty, NEW c, NEW k \in MoveKinds, FlagsFit(fl, ty), k = Kind(fl, ty, c)
    PROVE  FlagsFit(FlagsAfter(k, c, fl), ty)
<1>0. Meaning(k, fl, ty, c)
  BY KindMeans
<1> USE DEF FlagsFit, FlagsAfter
<1>1. CASE k \in {"skip", "char"}
  BY <1>1, ZenonT(60)
<1>2. CASE k \in {"startescape", "escape"}
  BY <1>0, <1>2 DEF Meaning
<1>3. CASE k \in {"endline", "endblock"}
  BY <1>0, <1>3 DEF Meaning
<1>4. CASE k \in {"startline", "startblock"}
  BY <1>0, <1>4, ZenonT(60) DEF Meaning
<1>5. CASE k \in {"closearray", "closeobject"}
  <2>1. "string" \notin fl /\ "done" \notin fl /\ fl \cap {"line_comment", "block_comment"} = {}
    BY <1>0, <1>5 DEF Meaning
  <2>2. CASE k = "closearray"
    BY <2>1, <2>2
  <2>3. CASE k = "closeobject"
    <3>1. "seek_value" \notin fl
      BY <1>0, <2>3 DEF Meaning
    <3>2. QED
      BY <2>1, <2>3, <3>1
  <2>4. QED
    BY <1>5, <2>2, <2>3
<1>6. CASE k \in {"comma", "colon"}
  BY <1>0, <1>6 DEF Meaning
<1>7. CASE k = "startname"
  BY <1>0, <1>7 DEF Meaning
<1>8. QED
  BY <1>1, <1>2, <1>3, <1>4, <1>5, <1>6, <1>7 DEF MoveKinds

(* What such a step does to some of the flags, and to the length of a string. *)
LEMMA MoveEffect ==
    ASSUME NEW k \in MoveKinds, NEW c, NEW fl, NEW gl, gl = FlagsAfter(k, c, fl),
           NEW i \in Nat, NEW j, j = LengthAfter(k, c, i)
    PROVE  /\ k # "startname" => ("string" \in gl <=> "string" \in fl)
           /\ k # "closearray" => ("seek_value" \in gl <=> "seek_value" \in fl)
           /\ "done" \in gl <=> "done" \in fl
           /\ k # "startname" => i <= j
<1>1. /\ k # "startname" => ("string" \in gl <=> "string" \in fl)
      /\ k # "closearray" => ("seek_value" \in gl <=> "seek_value" \in fl)
      /\ "done" \in gl <=> "done" \in fl
  <2>1. CASE k \in {"skip", "char", "startescape", "escape"}
    BY <2>1 DEF FlagsAfter
  <2>2. CASE k \in {"startline", "startblock", "endline", "endblock"}
    BY <2>2 DEF FlagsAfter
  <2>3. CASE k \in {"closearray", "closeobject", "comma", "colon", "startname"}
    BY <2>3 DEF FlagsAfter
  <2>4. QED
    BY <2>1, <2>2, <2>3 DEF MoveKinds
<1>2. k # "startname" => i <= j
  <2>1. CASE k \in {"char", "escape"}
    BY <2>1 DEF LengthAfter
  <2>2. CASE k \notin {"char", "escape"}
    BY <2>2 DEF LengthAfter, MoveKinds
  <2>3. QED
    BY <2>1, <2>2
<1>3. QED
  BY <1>1, <1>2

(* A step that leaves the tree alone. *)
LEMMA GrownByMove ==
    ASSUME NEW S, NEW s \in Snapshots, NEW t \in Snapshots, NEW c, NEW k \in MoveKinds,
           Fits(s), Balanced(S, s), k = Kind(s.scan.flags, TypeAt(s), c),
           t.scan = ScanAfter(k, c, s.scan), Grown(k, c, s, t)
    PROVE  Fits(t) /\ Below(s, t) /\ Balanced(S, t)
<1> DEFINE fl == s.scan.flags
           gl == t.scan.flags
<1>0. Meaning(k, fl, TypeAt(s), c)
  BY KindMeans
<1>1. gl = FlagsAfter(k, c, fl) /\ t.scan.sl = LengthAfter(k, c, s.scan.sl)
  BY DEF ScanAfter
<1>2. t.vals = s.vals /\ t.top = s.top /\ t.named = s.named /\ TypeAt(t) = TypeAt(s)
  BY DEF Grown, MoveKinds, TypeAt
<1>3. FlagsFit(gl, TypeAt(t)) /\ FlagsFit(fl, TypeAt(s))
  BY <1>1, <1>2, MoveFlags DEF Fits
<1>4. /\ k # "startname" => ("string" \in gl <=> "string" \in fl) /\ s.scan.sl <= t.scan.sl
      /\ k # "closearray" => ("seek_value" \in gl <=> "seek_value" \in fl)
      /\ "done" \in gl <=> "done" \in fl
  <2>1. s.scan.sl \in Nat
    BY SnapshotFields
  <2>2. QED
    BY <1>1, <2>1, MoveEffect
<1>5. ("string" \in gl /\ TypeAt(t) = "string" => t.vals[t.top].length = 0) /\ ("string" \in gl => t.top # 0)
  <2>1. CASE k = "startname"
    <3>1. TypeAt(s) = "object"
      BY <1>0, <1>3, <2>1 DEF Meaning, FlagsFit
    <3>2. QED
      BY <1>2, <3>1 DEF TypeAt
  <2>2. CASE k # "startname"
    <3>1. "string" \in gl => "string" \in fl
      BY <1>4, <2>2
    <3>2. QED
      BY <1>2, <3>1 DEF Fits
  <2>3. QED
    BY <2>1, <2>2
<1>6. Fits(t)
  BY <1>2, <1>3, <1>5 DEF Fits, Counted
<1>7. Below(s, t)
  <2>1. "done" \in fl => "done" \in gl
    BY <1>4
  <2>2. ASSUME "string" \in fl
        PROVE  "string" \in gl /\ s.scan.sl <= t.scan.sl
    <3>1. k # "startname"
      BY <1>0, <2>2 DEF Meaning
    <3>2. QED
      BY <1>4, <2>2, <3>1
  <2>3. /\ Len(s.vals) <= Len(s.vals)
        /\ \A n \in 1 .. Len(s.vals) :
             /\ s.vals[n].length <= s.vals[n].length /\ s.vals[n].names <= s.vals[n].names
             /\ s.named[n] <= s.named[n]
    BY BelowSelf DEF Below
  <2>4. QED
    BY <1>2, <2>1, <2>2, <2>3 DEF Below
<1>8. Balanced(S, t)
  <2>1. "done" \in fl <=> "done" \in gl
    BY <1>4
  <2>2. CASE k = "closearray"
    <3>0. TypeAt(s) = "array"
      BY <1>0, <2>2 DEF Meaning
    <3>1. s.top # 0 /\ s.top \in 1 .. Len(s.vals) /\ s.vals[s.top].type = "array"
      BY <3>0 DEF TypeAt, Fits
    <3>2. s.named[s.top] = 0 /\ s.vals[s.top].length \in Nat
      BY <3>1, CountedFields DEF Fits, Counted
    <3>3. s.named[s.top] <= s.vals[s.top].length
      BY <3>2
    <3>4. QED
      BY <1>2, <2>1, <3>3 DEF Balanced
  <2>3. CASE k # "closearray"
    <3>1. "seek_value" \in fl <=> "seek_value" \in gl
      BY <1>4, <2>3
    <3>2. QED
      BY <1>2, <2>1, <3>1 DEF Balanced
  <2>4. QED
    BY <2>2, <2>3
<1>9. QED
  BY <1>6, <1>7, <1>8

(* The chain r is the chain q and v. *)
Appended(r, q, v) ==
    Len(r) = Len(q) + 1 /\ r[Len(q) + 1] = v /\ \A n \in 1 .. Len(q) : r[n] = q[n]

Blank0(v, type, parent) ==
    /\ v.type = type /\ v.parent = parent /\ v.length = 0 /\ v.names = 0 /\ v.size = 0
    /\ v.room = 0 /\ v.kids = <<>> /\ v.keys = <<>>

(* A value when it is new. *)
LEMMA NewRecordIs ==
    ASSUME NEW type \in Types, NEW parent \in Nat
    PROVE  NewRecord(type, parent) \in Records /\ Blank0(NewRecord(type, parent), type, parent)
BY DEF NewRecord, Records, Types, Blank0

(* The end of the chain. *)
LEMMA AppendIs ==
    ASSUME NEW q \in Seq(Records), NEW v \in Records
    PROVE  Append(q, v) \in Seq(Records) /\ Appended(Append(q, v), q, v)
BY DEF Appended

(* A step that adds a value, of whatever type. *)
LEMMA GrownByValue ==
    ASSUME NEW S, NEW s \in Snapshots, NEW t \in Snapshots, NEW type \in Types, NEW v \in Records,
           Fits(s), Balanced(S, s), "seek_value" \in s.scan.flags,
           Blank0(v, type, s.top), Appended(t.vals, s.vals, v), t.top = Len(s.vals) + 1,
           t.named = s.named, FlagsFit(t.scan.flags, type), "done" \notin t.scan.flags
    PROVE  Fits(t) /\ Below(s, t) /\ Balanced(S \cup {t.top}, t)
<1> DEFINE len == Len(s.vals)
<1>0. /\ "done" \notin s.scan.flags /\ "string" \notin s.scan.flags
      /\ TypeAt(s) \in {"none", "array", "object"} /\ s.top \in 0 .. len
  BY DEF Fits, FlagsFit
<1>1. len \in Nat /\ Len(t.vals) \in Nat /\ s.top \in Nat /\ t.top \in Nat
  BY SnapshotFields
<1> HIDE DEF len
<1>2. len = Len(s.vals) /\ t.top = len + 1
  BY DEF len
<1>9. s.top \in 0 .. len
  BY <1>0
<1>3. /\ v.type = type /\ v.parent = s.top /\ v.length = 0 /\ v.names = 0 /\ v.size = 0
      /\ v.room = 0 /\ v.kids = <<>> /\ v.keys = <<>>
  BY DEF Blank0
<1>4. /\ Len(t.vals) = len + 1 /\ t.vals[len + 1] = v
      /\ \A n \in 1 .. len : t.vals[n] = s.vals[n]
  BY DEF Appended, len
<1>5. Fits(t)
  <2>1. t.top \in 0 .. Len(t.vals) /\ t.top # 0
    BY <1>1, <1>2, <1>4
  <2>2. TypeAt(t) = type
    BY <1>2, <1>3, <1>4, <2>1 DEF TypeAt
  <2>3. ASSUME NEW n \in 1 .. Len(t.vals)
        PROVE  Counted(t, n)
    <3>1. CASE n = len + 1
      <4>1. v.parent \in 0 .. n - 1
        BY <1>0, <1>1, <1>2, <1>3, <3>1
      <4>2. v.parent # 0 => t.vals[v.parent].type \in Containers
        <5>1. CASE s.top # 0
          <6>0. s.top \in 1 .. len
            BY <1>1, <1>9, <5>1
          <6>1. t.vals[s.top] = s.vals[s.top] /\ s.vals[s.top].type = TypeAt(s)
            BY <1>4, <5>1, <6>0 DEF TypeAt
          <6>2. TypeAt(s) # "none"
            <7>1. s.vals[s.top] \in Records
              BY <1>2, <6>0, CountedFields
            <7>2. QED
              BY <6>1, <7>1 DEF Records
          <6>3. QED
            BY <1>0, <1>2, <1>3, <6>1, <6>2 DEF Containers
        <5>2. QED
          BY <1>3, <5>1
      <4>3. t.named[n] = 0
        <5>1. n \in Nat /\ n > len
          BY <1>1, <3>1
        <5>2. QED
          BY <1>2, <5>1 DEF Fits
      <4>4. QED
        BY <1>2, <1>3, <1>4, <3>1, <4>1, <4>2, <4>3 DEF Counted
    <3>2. CASE n \in 1 .. len
      <4>1. Counted(s, n) /\ t.vals[n] = s.vals[n]
        BY <1>2, <1>4, <3>2 DEF Fits
      <4>2. s.vals[n].parent # 0 => t.vals[s.vals[n].parent] = s.vals[s.vals[n].parent]
        <5>1. s.vals[n].parent \in 0 .. n - 1
          BY <4>1 DEF Counted
        <5>2. s.vals[n].parent # 0 => s.vals[n].parent \in 1 .. len
          <6>1. n \in Nat /\ n <= len
            BY <1>1, <3>2
          <6>2. s.vals[n].parent \in Nat /\ s.vals[n].parent <= n - 1
            BY <5>1, <6>1
          <6>3. QED
            BY <1>1, <6>1, <6>2
        <5>3. QED
          BY <1>4, <5>2
      <4>3. QED
        BY <4>1, <4>2 DEF Counted
    <3>3. QED
      BY <1>1, <1>2, <1>4, <3>1, <3>2
  <2>4. \A n \in Nat : n > Len(t.vals) => t.named[n] = 0
    BY <1>1, <1>2, <1>4 DEF Fits
  <2>5. t.vals[t.top].length = 0
    BY <1>2, <1>3, <1>4
  <2>6. QED
    BY <2>1, <2>2, <2>3, <2>4, <2>5 DEF Fits
<1>6. Below(s, t)
  <2>1. Len(s.vals) <= Len(t.vals)
    BY <1>1, <1>2, <1>4
  <2>2. ASSUME NEW n \in 1 .. len
        PROVE  s.vals[n].length <= s.vals[n].length /\ s.vals[n].names <= s.vals[n].names
               /\ s.named[n] <= s.named[n]
    BY <1>2, CountedFields
  <2>3. QED
    BY <1>0, <1>2, <1>4, <2>1, <2>2 DEF Below
<1>7. Balanced(S \cup {t.top}, t)
  <2> DEFINE T == S \cup {t.top}
  <2>1. S \subseteq 1 .. len /\ (s.top # 0 => s.top \in S) /\ (s.top = 0 => S = {})
    BY <1>0, <1>2 DEF Balanced
  <2>2. T \subseteq 1 .. Len(t.vals) /\ t.top \in T
    <3>1. 1 .. len \subseteq 1 .. len + 1 /\ t.top \in 1 .. len + 1 /\ Len(t.vals) = len + 1
      BY <1>1, <1>2, <1>4
    <3>2. QED
      BY <1>2, <2>1, <3>1
  <2>3. ASSUME NEW m \in T
        PROVE  /\ m <= t.top /\ (t.vals[m].parent # 0 => t.vals[m].parent \in T)
               /\ \A k \in T : m < k => m <= t.vals[k].parent
    <3>1. CASE m = t.top
      <4>1. t.vals[m].parent = s.top
        BY <1>2, <1>3, <1>4, <3>1
      <4>2. \A k \in T : k <= t.top
        <5>1. \A k \in 1 .. len : k <= t.top
          BY <1>1, <1>2
        <5>2. t.top <= t.top
          BY <1>1
        <5>3. QED
          BY <1>2, <2>1, <5>1, <5>2
      <4>3. \A k \in T : ~(m < k)
        BY <1>1, <1>2, <2>2, <3>1, <4>2
      <4>4. QED
        BY <1>1, <1>2, <2>1, <3>1, <4>1, <4>2, <4>3
    <3>2. CASE m \in S
      <4>0. m \in 1 .. len /\ t.vals[m] = s.vals[m] /\ m <= s.top
        BY <1>2, <1>4, <2>1, <3>2 DEF Balanced
      <4>1. m <= t.top /\ (t.vals[m].parent # 0 => t.vals[m].parent \in T)
        <5>1. m <= t.top
          BY <1>1, <1>2, <4>0
        <5>2. s.vals[m].parent # 0 => s.vals[m].parent \in S
          BY <3>2 DEF Balanced
        <5>3. QED
          BY <4>0, <5>1, <5>2
      <4>2. ASSUME NEW k \in T, m < k
            PROVE  m <= t.vals[k].parent
        <5>1. CASE k = t.top
          BY <1>2, <1>3, <1>4, <4>0, <5>1
        <5>2. CASE k \in S
          <6>1. k \in 1 .. len
            BY <2>1, <5>2
          <6>2. t.vals[k] = s.vals[k]
            BY <1>2, <1>4, <6>1
          <6>3. m <= s.vals[k].parent
            BY <3>2, <4>2, <5>2 DEF Balanced
          <6>4. QED
            BY <6>2, <6>3
        <5>3. QED
          BY <4>2, <5>1, <5>2
      <4>3. QED
        BY <4>1, <4>2
    <3>3. QED
      BY <3>1, <3>2
  <2>4. ASSUME NEW n \in 1 .. Len(t.vals)
        PROVE  /\ t.named[n] <= t.vals[n].length + 1
               /\ n \notin T \/ (n = t.top /\ "seek_value" \notin t.scan.flags) =>
                    t.named[n] <= t.vals[n].length
    <3>1. CASE n = len + 1
      <4>1. t.named[n] = 0 /\ t.vals[n].length = 0
        <5>1. n \in Nat /\ n > len
          BY <1>1, <3>1
        <5>2. s.named[n] = 0
          BY <1>2, <5>1 DEF Fits
        <5>3. QED
          BY <1>3, <1>4, <3>1, <5>2
      <4>2. QED
        BY <4>1
    <3>2. CASE n \in 1 .. len
      <4>1. t.vals[n] = s.vals[n] /\ n # t.top
        BY <1>1, <1>2, <1>4, <3>2
      <4>2. /\ s.named[n] <= s.vals[n].length + 1
            /\ n \notin S => s.named[n] <= s.vals[n].length
        BY <1>2, <3>2 DEF Balanced
      <4>3. QED
        BY <4>1, <4>2
    <3>3. QED
      BY <1>1, <1>2, <1>4, <3>1, <3>2
  <2>5. QED
    BY <2>2, <2>3, <2>4 DEF Balanced
<1>8. QED
  BY <1>5, <1>6, <1>7

(* The chain r is the chain q with v at m. *)
Changed(r, q, m, v) ==
    Len(r) = Len(q) /\ \A n \in 1 .. Len(q) : r[n] = IF n = m THEN v ELSE q[n]

(* A value of the chain is replaced. *)
LEMMA ExceptIs ==
    ASSUME NEW q \in Seq(Records), NEW m \in 1 .. Len(q), NEW v \in Records
    PROVE  Changed([q EXCEPT ![m] = v], q, m, v) /\ [q EXCEPT ![m] = v] \in Seq(Records)
BY DEF Changed

(* A chain in which one value has more entries, bytes or names. *)
LEMMA GrownByChange ==
    ASSUME NEW s \in Snapshots, NEW t \in Snapshots, NEW m \in 1 .. Len(s.vals), NEW v \in Records,
           \A n \in 1 .. Len(s.vals) : Counted(s, n), Changed(t.vals, s.vals, m, v),
           \A n \in Nat : s.named[n] <= t.named[n],
           v.type = s.vals[m].type, v.parent = s.vals[m].parent,
           s.vals[m].length <= v.length, s.vals[m].names <= v.names
    PROVE  /\ Len(s.vals) <= Len(t.vals)
           /\ \A n \in 1 .. Len(s.vals) :
                /\ s.vals[n].type = t.vals[n].type /\ s.vals[n].parent = t.vals[n].parent
                /\ s.vals[n].length <= t.vals[n].length /\ s.vals[n].names <= t.vals[n].names
                /\ s.named[n] <= t.named[n]
<1>1. Len(s.vals) \in Nat /\ Len(t.vals) = Len(s.vals)
  BY SnapshotFields DEF Changed
<1>2. Len(s.vals) <= Len(t.vals)
  BY <1>1
<1>3. ASSUME NEW n \in 1 .. Len(s.vals)
      PROVE  /\ s.vals[n].type = t.vals[n].type /\ s.vals[n].parent = t.vals[n].parent
             /\ s.vals[n].length <= t.vals[n].length /\ s.vals[n].names <= t.vals[n].names
             /\ s.named[n] <= t.named[n]
  <2>1. s.vals[n].length <= s.vals[n].length /\ s.vals[n].names <= s.vals[n].names
    BY CountedFields
  <2>2. s.named[n] <= t.named[n]
    OBVIOUS
  <2>3. CASE n = m
    BY <2>2, <2>3 DEF Changed
  <2>4. CASE n # m
    BY <2>1, <2>2, <2>4 DEF Changed
  <2>5. QED
    BY <2>3, <2>4
<1>4. QED
  BY <1>2, <1>3

(* The other values are what they were. *)
LEMMA CountedByChange ==
    ASSUME NEW s \in Snapshots, NEW t \in Snapshots, NEW m \in 1 .. Len(s.vals), NEW v \in Records,
           \A n \in 1 .. Len(s.vals) : Counted(s, n), Changed(t.vals, s.vals, m, v),
           v.type = s.vals[m].type, v.parent = s.vals[m].parent,
           \A n \in Nat : n # m => t.named[n] = s.named[n],
           NEW n \in 1 .. Len(t.vals), n # m \/ (t.vals[m].kids = <<>> /\ t.vals[m].keys = <<>>
             /\ t.vals[m].size = 0 /\ t.vals[m].room = 0
             /\ (v.type \notin Containers \cup {"string"} => v.length = 0)
             /\ (v.type # "object" => v.names = 0 /\ t.named[m] = 0)
             /\ (t.named[m] = 0 => v.names = 0))
    PROVE  Counted(t, n)
<1>1. n \in 1 .. Len(s.vals) /\ n \in Nat
  BY DEF Changed
<1>2. \A k \in 1 .. Len(s.vals) : t.vals[k].type = s.vals[k].type /\ t.vals[k].parent = s.vals[k].parent
  BY DEF Changed
<1>3. Counted(s, n) /\ n \in Nat /\ Len(s.vals) \in Nat
  BY <1>1, SnapshotFields
<1>4. s.vals[n].parent # 0 => s.vals[n].parent \in 1 .. Len(s.vals)
  <2>1. s.vals[n].parent \in 0 .. n - 1
    BY <1>3 DEF Counted
  <2>2. n <= Len(s.vals)
    BY <1>1, <1>3
  <2>3. QED
    BY <1>3, <2>1, <2>2
<1>5. /\ t.vals[n].parent \in 0 .. n - 1
      /\ t.vals[n].parent # 0 => t.vals[t.vals[n].parent].type \in Containers
  <2>1. t.vals[n].parent = s.vals[n].parent
    BY <1>1, <1>2
  <2>2. /\ s.vals[n].parent \in 0 .. n - 1
        /\ s.vals[n].parent # 0 => s.vals[s.vals[n].parent].type \in Containers
    BY <1>3 DEF Counted
  <2>3. s.vals[n].parent # 0 => t.vals[s.vals[n].parent].type = s.vals[s.vals[n].parent].type
    BY <1>2, <1>4
  <2>4. QED
    BY <2>1, <2>2, <2>3
<1>6. CASE n # m
  <2>1. t.vals[n] = s.vals[n] /\ t.named[n] = s.named[n]
    BY <1>1, <1>6 DEF Changed
  <2>2. QED
    BY <1>3, <1>5, <2>1 DEF Counted
<1>7. CASE n = m
  <2>1. t.vals[n] = v
    BY <1>1, <1>7 DEF Changed
  <2>2. QED
    BY <1>5, <1>7, <2>1 DEF Counted
<1>8. QED
  BY <1>6, <1>7

(* The end of a string. *)
LEMMA GrownByString ==
    ASSUME NEW S, NEW s \in Snapshots, NEW t \in Snapshots, NEW c,
           Fits(s), Balanced(S, s), "closestring" = Kind(s.scan.flags, TypeAt(s), c),
           t.scan = ScanAfter("closestring", c, s.scan), Grown("closestring", c, s, t)
    PROVE  Fits(t) /\ Below(s, t) /\ Balanced(S, t)
<1> DEFINE fl == s.scan.flags
           gl == t.scan.flags
           m == s.top
           v == [s.vals[m] EXCEPT !.length = s.scan.sl]
<1>0. Meaning("closestring", fl, TypeAt(s), c)
  BY KindMeans
<1>1. TypeAt(s) = "string" /\ "string" \in fl /\ "escaped" \notin fl /\ "next" \notin fl
  BY <1>0 DEF Meaning
<1>2. gl = (fl \ {"string"}) \cup {"next"} /\ t.scan.sl = s.scan.sl
  BY DEF ScanAfter, FlagsAfter, LengthAfter
<1>3. m # 0 /\ m \in 1 .. Len(s.vals) /\ s.vals[m].type = "string"
  BY <1>1 DEF TypeAt, Fits
<1>4. s.vals[m] \in Records /\ Counted(s, m) /\ s.vals[m].length = 0 /\ s.scan.sl \in Nat
  BY <1>1, <1>3, CountedFields, SnapshotFields DEF Fits
<1>5. /\ v \in Records /\ v.type = s.vals[m].type /\ v.parent = s.vals[m].parent
      /\ v.length = s.scan.sl /\ v.names = s.vals[m].names /\ v.kids = s.vals[m].kids
      /\ v.keys = s.vals[m].keys /\ v.size = s.vals[m].size /\ v.room = s.vals[m].room
  BY <1>4 DEF Records
<1>6. t.vals = [s.vals EXCEPT ![m] = v] /\ t.top = m /\ t.named = s.named
  BY <1>3 DEF Grown
<1> HIDE DEF v, m
<1>7. Changed(t.vals, s.vals, m, v)
  <2>1. s.vals \in Seq(Records) /\ v \in Records
    BY <1>5, SnapshotFields
  <2>2. Changed([s.vals EXCEPT ![m] = v], s.vals, m, v)
    BY <1>3, <2>1, ExceptIs
  <2>3. QED
    BY <1>6, <2>2
<1>8. t.vals[m] = v /\ Len(t.vals) = Len(s.vals)
  BY <1>3, <1>7 DEF Changed
<1>9. TypeAt(t) = "string" /\ m = s.top
  BY <1>3, <1>5, <1>6, <1>8 DEF TypeAt, m
<1>10. \A n \in Nat : s.named[n] <= s.named[n]
  BY SnapshotFields
<1>11. Fits(t)
  <2>1. FlagsFit(gl, "string")
    BY <1>1, <1>2 DEF FlagsFit, Fits
  <2>2. ASSUME NEW n \in 1 .. Len(t.vals)
        PROVE  Counted(t, n)
    <3>1. /\ t.vals[m].kids = <<>> /\ t.vals[m].keys = <<>> /\ t.vals[m].size = 0 /\ t.vals[m].room = 0
          /\ v.type = "string" /\ v.names = 0 /\ t.named[m] = 0
      BY <1>3, <1>4, <1>5, <1>6, <1>8 DEF Counted
    <3>2. \A k \in 1 .. Len(s.vals) : Counted(s, k)
      BY DEF Fits
    <3>3. \A k \in Nat : k # m => t.named[k] = s.named[k]
      BY <1>6
    <3>4. QED
      BY <1>3, <1>5, <1>7, <3>1, <3>2, <3>3, CountedByChange
  <2>3. "string" \notin gl
    BY <1>2
  <2>4. t.top \in 0 .. Len(t.vals) /\ \A n \in Nat : n > Len(t.vals) => t.named[n] = 0
    BY <1>6, <1>8, <1>9 DEF Fits
  <2>5. QED
    BY <1>9, <2>1, <2>2, <2>3, <2>4 DEF Fits
<1>12. /\ Len(s.vals) <= Len(t.vals)
       /\ \A n \in 1 .. Len(s.vals) :
            /\ s.vals[n].type = t.vals[n].type /\ s.vals[n].parent = t.vals[n].parent
            /\ s.vals[n].length <= t.vals[n].length /\ s.vals[n].names <= t.vals[n].names
            /\ s.named[n] <= t.named[n]
  <2>1. s.vals[m].length <= v.length /\ s.vals[m].names <= v.names
    BY <1>3, <1>4, <1>5, CountedFields
  <2>2. \A k \in 1 .. Len(s.vals) : Counted(s, k)
    BY DEF Fits
  <2>3. QED
    BY <1>3, <1>5, <1>6, <1>7, <1>10, <2>1, <2>2, GrownByChange
<1>13. Below(s, t)
  <2>1. "done" \notin fl
    BY <1>1 DEF Fits, FlagsFit
  <2>2. Added(s, t)
    <3>1. s.scan.sl <= s.scan.sl
      BY <1>4
    <3>2. QED
      BY <1>1, <1>5, <1>8, <1>9, <3>1 DEF Added
  <2>3. QED
    BY <1>12, <2>1, <2>2 DEF Below
<1>14. Balanced(S, t)
  <2>1. /\ "seek_value" \in gl <=> "seek_value" \in fl
        /\ "done" \in gl <=> "done" \in fl
    BY <1>2
  <2>2. \A n \in 1 .. Len(s.vals) : t.vals[n].parent = s.vals[n].parent
    BY <1>12
  <2>3. S \subseteq 1 .. Len(s.vals)
    BY DEF Balanced
  <2>4. ASSUME NEW n \in 1 .. Len(s.vals)
        PROVE  /\ t.named[n] <= t.vals[n].length + 1
               /\ n \notin S \/ (n = t.top /\ "seek_value" \notin gl) => t.named[n] <= t.vals[n].length
    <3>1. CASE n = m
      BY <1>3, <1>4, <1>5, <1>6, <1>8, <3>1 DEF Counted
    <3>2. CASE n # m
      <4>1. t.vals[n] = s.vals[n]
        BY <1>7, <3>2 DEF Changed
      <4>2. QED
        BY <1>6, <1>9, <2>1, <4>1 DEF Balanced
    <3>3. QED
      BY <3>1, <3>2
  <2>5. QED
    BY <1>6, <1>8, <1>9, <2>1, <2>2, <2>3, <2>4 DEF Balanced
<1>15. QED
  BY <1>11, <1>13, <1>14

(* The end of a name. *)
LEMMA GrownByName ==
    ASSUME NEW S, NEW s \in Snapshots, NEW t \in Snapshots, NEW c,
           Fits(s), Balanced(S, s), "closename" = Kind(s.scan.flags, TypeAt(s), c),
           t.scan = ScanAfter("closename", c, s.scan), Grown("closename", c, s, t)
    PROVE  Fits(t) /\ Below(s, t) /\ Balanced(S, t)
<1> DEFINE fl == s.scan.flags
           gl == t.scan.flags
           m == s.top
           names == s.vals[m].names + s.scan.sl + 1
           v == [s.vals[m] EXCEPT !.names = names]
<1>0. Meaning("closename", fl, TypeAt(s), c)
  BY KindMeans
<1>1. TypeAt(s) = "object" /\ "string" \in fl /\ "escaped" \notin fl /\ "next" \notin fl
  BY <1>0 DEF Meaning, Fits, FlagsFit
<1>2. gl = (fl \ {"string"}) \cup {"seek_value", "need_colon"} /\ t.scan.sl = s.scan.sl
  BY DEF ScanAfter, FlagsAfter, LengthAfter
<1>3. m # 0 /\ m \in 1 .. Len(s.vals) /\ m \in Nat /\ s.vals[m].type = "object"
  BY <1>1, SnapshotFields DEF TypeAt, Fits
<1>4. s.vals[m] \in Records /\ Counted(s, m) /\ s.scan.sl \in Nat /\ s.vals[m].names \in Nat
      /\ s.vals[m].length \in Nat /\ s.named[m] \in Nat
  BY <1>1, <1>3, CountedFields, SnapshotFields DEF Fits
<1>16. names \in Nat /\ s.vals[m].names <= names
  BY <1>4
<1> HIDE DEF names
<1>5. /\ v \in Records /\ v.type = s.vals[m].type /\ v.parent = s.vals[m].parent
      /\ v.length = s.vals[m].length /\ v.names = names /\ v.kids = s.vals[m].kids
      /\ v.keys = s.vals[m].keys /\ v.size = s.vals[m].size /\ v.room = s.vals[m].room
  BY <1>4, <1>16 DEF Records
<1>6. /\ t.vals = [s.vals EXCEPT ![m] = v] /\ t.top = m
      /\ t.named = [s.named EXCEPT ![m] = @ + 1]
  BY <1>3 DEF Grown, names
<1> HIDE DEF v, m
<1>7. Changed(t.vals, s.vals, m, v)
  <2>1. s.vals \in Seq(Records) /\ v \in Records
    BY <1>5, SnapshotFields
  <2>2. Changed([s.vals EXCEPT ![m] = v], s.vals, m, v)
    BY <1>3, <2>1, ExceptIs
  <2>3. QED
    BY <1>6, <2>2
<1>8. t.vals[m] = v /\ Len(t.vals) = Len(s.vals)
  BY <1>3, <1>7 DEF Changed
<1>9. TypeAt(t) = "object" /\ m = s.top
  BY <1>3, <1>5, <1>6, <1>8 DEF TypeAt, m
<1>17. t.named[m] = s.named[m] + 1 /\ \A n \in Nat : n # m => t.named[n] = s.named[n]
  <2>1. s.named \in [Nat -> Nat] /\ m \in Nat
    BY <1>3, SnapshotFields
  <2>2. QED
    BY <1>6, <2>1
<1>10. \A n \in Nat : s.named[n] <= t.named[n]
  <2>1. \A n \in Nat : s.named[n] \in Nat
    BY SnapshotFields
  <2>2. QED
    BY <1>17, <2>1
<1>11. Fits(t)
  <2>1. FlagsFit(gl, "object")
    BY <1>1, <1>2 DEF FlagsFit, Fits
  <2>2. ASSUME NEW n \in 1 .. Len(t.vals)
        PROVE  Counted(t, n)
    <3>1. /\ t.vals[m].kids = <<>> /\ t.vals[m].keys = <<>> /\ t.vals[m].size = 0 /\ t.vals[m].room = 0
          /\ v.type = "object"
      BY <1>3, <1>4, <1>5, <1>8 DEF Counted
    <3>2. \A k \in 1 .. Len(s.vals) : Counted(s, k)
      BY DEF Fits
    <3>3. t.named[m] # 0
      BY <1>4, <1>17
    <3>4. QED
      BY <1>3, <1>5, <1>7, <1>17, <3>1, <3>2, <3>3, CountedByChange DEF Containers
  <2>3. "string" \notin gl
    BY <1>2
  <2>4. t.top \in 0 .. Len(t.vals)
    BY <1>6, <1>8, <1>9 DEF Fits
  <2>5. ASSUME NEW n \in Nat, n > Len(t.vals)
        PROVE  t.named[n] = 0
    <3>1. n # m
      BY <1>3, <1>8, <2>5, SnapshotFields
    <3>2. QED
      BY <1>8, <1>17, <2>5, <3>1 DEF Fits
  <2>6. QED
    BY <1>9, <2>1, <2>2, <2>3, <2>4, <2>5 DEF Fits
<1>12. /\ Len(s.vals) <= Len(t.vals)
       /\ \A n \in 1 .. Len(s.vals) :
            /\ s.vals[n].type = t.vals[n].type /\ s.vals[n].parent = t.vals[n].parent
            /\ s.vals[n].length <= t.vals[n].length /\ s.vals[n].names <= t.vals[n].names
            /\ s.named[n] <= t.named[n]
  <2>1. s.vals[m].length <= v.length /\ s.vals[m].names <= v.names
    BY <1>4, <1>5, <1>16
  <2>2. \A k \in 1 .. Len(s.vals) : Counted(s, k)
    BY DEF Fits
  <2>3. QED
    BY <1>3, <1>5, <1>7, <1>10, <2>1, <2>2, GrownByChange
<1>13. Below(s, t)
  <2>1. "done" \notin fl
    BY <1>1 DEF Fits, FlagsFit
  <2>2. Added(s, t)
    <3>1. s.vals[m].names + s.scan.sl + 1 <= names /\ s.named[m] + 1 <= s.named[m] + 1
      BY <1>4, <1>16 DEF names
    <3>2. QED
      BY <1>1, <1>5, <1>8, <1>9, <1>17, <3>1 DEF Added
  <2>3. QED
    BY <1>12, <2>1, <2>2 DEF Below
<1>14. Balanced(S, t)
  <2>1. /\ "seek_value" \in gl /\ "seek_value" \notin fl
        /\ "done" \in gl <=> "done" \in fl
        /\ "done" \notin fl
    BY <1>1, <1>2 DEF Fits, FlagsFit
  <2>2. \A n \in 1 .. Len(s.vals) : t.vals[n].parent = s.vals[n].parent
    BY <1>12
  <2>3. S \subseteq 1 .. Len(s.vals) /\ m \in S
    BY <1>3, <1>9, <2>1 DEF Balanced
  <2>4. ASSUME NEW n \in 1 .. Len(s.vals)
        PROVE  /\ t.named[n] <= t.vals[n].length + 1
               /\ n \notin S => t.named[n] <= t.vals[n].length
    <3>1. CASE n = m
      <4>1. s.named[m] <= s.vals[m].length
        BY <1>3, <1>9, <2>1 DEF Balanced
      <4>2. s.named[m] + 1 <= s.vals[m].length + 1
        BY <1>4, <4>1, SMTT(60)
      <4>3. QED
        BY <1>5, <1>8, <1>17, <2>3, <3>1, <4>2
    <3>2. CASE n # m
      <4>1. t.vals[n] = s.vals[n] /\ t.named[n] = s.named[n]
        BY <1>7, <1>17, <3>2 DEF Changed
      <4>2. QED
        BY <4>1 DEF Balanced
    <3>3. QED
      BY <3>1, <3>2
  <2>5. QED
    BY <1>6, <1>8, <1>9, <2>1, <2>2, <2>3, <2>4 DEF Balanced
<1>15. QED
  BY <1>11, <1>13, <1>14

(* A value goes into its parent. *)
LEMMA GrownByFinish ==
    ASSUME NEW S, NEW s \in Snapshots, NEW t \in Snapshots,
           Fits(s), Balanced(S, s), "next" \in s.scan.flags, s.top # 0, Finished(s, t)
    PROVE  Fits(t) /\ Below(s, t) /\ Balanced(S \ {s.top}, t)
<1> DEFINE fl == s.scan.flags
           gl == t.scan.flags
           p == s.vals[s.top].parent
           T == S \ {s.top}
<1>0. /\ fl \cap {"string", "line_comment", "block_comment", "done", "seek_value", "escaped"} = {}
  BY DEF Fits, FlagsFit
<1>1. gl = (fl \ {"next", "reproc"}) \cup {"need_comma"}
             \cup (IF p = 0 THEN {"done"} ELSE IF s.vals[p].type = "array" THEN {"seek_value"} ELSE {})
  <2>1. t.scan = [ptr |-> IF "reproc" \in fl THEN s.scan.ptr ELSE s.scan.ptr + 1,
                  flags |-> ((fl \ {"next", "reproc"}) \cup {"need_comma"})
                    \cup (IF p = 0 THEN {"done"}
                          ELSE IF s.vals[p].type = "array" THEN {"seek_value"} ELSE {}),
                  sl |-> s.scan.sl]
    BY DEF Finished
  <2> HIDE DEF fl, p
  <2>2. QED
    BY <2>1, SMTT(60)
<1>2. s.top \in 1 .. Len(s.vals) /\ Len(s.vals) \in Nat /\ s.top \in Nat
  <2>1. s.top \in 0 .. Len(s.vals) /\ Len(s.vals) \in Nat
    BY SnapshotFields DEF Fits
  <2>2. QED
    BY <2>1
<1>3. p \in 0 .. s.top - 1 /\ (p # 0 => s.vals[p].type \in Containers) /\ p \in Nat
  <2>1. Counted(s, s.top)
    BY <1>2, SMTT(60) DEF Fits
  <2>2. QED
    BY <1>2, <2>1, SMTT(60) DEF Counted
<1>4. t.named = s.named
  BY DEF Finished
<1>5. s.top \in S
  BY <1>0, <1>2 DEF Balanced
<1>6. \A n \in Nat : s.named[n] <= s.named[n]
  BY SnapshotFields
<1>14. \A k \in 1 .. Len(s.vals) : Counted(s, k)
  BY DEF Fits
<1>7. CASE p = 0
  <2>1. t.top = s.top /\ t.vals = s.vals /\ TypeAt(t) = TypeAt(s)
    BY <1>7 DEF Finished, TypeAt
  <2>2. Fits(t)
    <3>1. FlagsFit(gl, TypeAt(t))
      BY <1>0, <1>1, <1>7 DEF FlagsFit
    <3>2. QED
      BY <1>0, <1>1, <1>4, <1>7, <2>1, <3>1 DEF Fits, Counted
  <2>3. Below(s, t)
    <3>1. Below(s, s)
      BY BelowSelf
    <3>2. QED
      BY <1>0, <1>4, <2>1, <3>1 DEF Below
  <2>4. Balanced(T, t)
    <3>1. "done" \in gl
      BY <1>1, <1>7
    <3>2. T = {}
      <4>1. ASSUME NEW n \in T
            PROVE  FALSE
        <5>1. n \in S /\ n <= s.top /\ n # s.top /\ n \in 1 .. Len(s.vals)
          BY <4>1 DEF Balanced
        <5>2. n < s.top
          BY <1>2, <5>1
        <5>3. n <= p
          BY <1>5, <5>1, <5>2 DEF Balanced
        <5>4. QED
          BY <1>7, <5>1, <5>3
      <4>2. QED
        BY <4>1
    <3>3. ASSUME NEW n \in 1 .. Len(s.vals)
          PROVE  s.named[n] <= s.vals[n].length + 1 /\ s.named[n] <= s.vals[n].length
      <4>1. n \notin S \/ n = s.top
        BY <3>2
      <4>2. QED
        BY <1>0, <4>1 DEF Balanced
    <3>4. QED
      BY <1>4, <2>1, <3>1, <3>2, <3>3 DEF Balanced
  <2>5. QED
    BY <2>2, <2>3, <2>4
<1>8. CASE p # 0
  <2> DEFINE v == [s.vals[p] EXCEPT !.length = @ + 1]
  <2>1. p \in 1 .. Len(s.vals) /\ p < s.top
    BY <1>2, <1>3, <1>8
  <2>2. s.vals[p] \in Records /\ s.vals[p].length \in Nat /\ s.vals[p].names \in Nat
    BY <2>1, CountedFields
  <2>17. s.vals[p].length \in Nat
    BY <2>2
  <2>18. s.vals[p].names <= s.vals[p].names
    BY <2>2
  <2>16. s.vals[p].length + 1 \in Nat /\ s.vals[p].length <= s.vals[p].length + 1
    BY <2>17, SMTT(60)
  <2>3. /\ v \in Records /\ v.type = s.vals[p].type /\ v.parent = s.vals[p].parent
        /\ v.length = s.vals[p].length + 1 /\ v.names = s.vals[p].names /\ v.kids = s.vals[p].kids
        /\ v.keys = s.vals[p].keys /\ v.size = s.vals[p].size /\ v.room = s.vals[p].room
    BY <2>2, <2>16 DEF Records
  <2>4. t.vals = [s.vals EXCEPT ![p] = v] /\ t.top = p
    BY <1>8 DEF Finished
  <2> HIDE DEF v
  <2>5. Changed(t.vals, s.vals, p, v)
    <3>1. s.vals \in Seq(Records)
      BY SnapshotFields
    <3>2. QED
      BY <2>1, <2>3, <2>4, <3>1, ExceptIs
  <2>6. t.vals[p] = v /\ Len(t.vals) = Len(s.vals)
    BY <2>1, <2>5, SMTT(60) DEF Changed
  <2>7. TypeAt(t) = s.vals[p].type /\ s.vals[p].type \in {"array", "object"}
    BY <1>3, <1>8, <2>3, <2>4, <2>6, SMTT(60) DEF TypeAt, Containers
  <2>8. Fits(t)
    <3>1. FlagsFit(gl, TypeAt(t))
      BY <1>0, <1>1, <1>8, <2>7, SMTT(60) DEF FlagsFit
    <3>2. ASSUME NEW n \in 1 .. Len(t.vals)
          PROVE  Counted(t, n)
      <4>1. Counted(s, p)
        BY <1>14, <2>1, SMTT(60)
      <4>2. /\ t.vals[p].kids = <<>> /\ t.vals[p].keys = <<>> /\ t.vals[p].size = 0 /\ t.vals[p].room = 0
            /\ v.type \in Containers
            /\ (v.type # "object" => v.names = 0 /\ t.named[p] = 0)
            /\ (t.named[p] = 0 => v.names = 0)
        BY <1>4, <2>3, <2>6, <2>7, <4>1 DEF Counted, Containers
      <4>3. \A k \in Nat : k # p => t.named[k] = s.named[k]
        BY <1>4
      <4>5. v \in Records /\ v.type = s.vals[p].type /\ v.parent = s.vals[p].parent
        BY <2>3
      <4>6. /\ t.vals[p].kids = <<>> /\ t.vals[p].keys = <<>> /\ t.vals[p].size = 0 /\ t.vals[p].room = 0
            /\ (v.type \notin Containers \cup {"string"} => v.length = 0)
            /\ (v.type # "object" => v.names = 0 /\ t.named[p] = 0)
            /\ (t.named[p] = 0 => v.names = 0)
        BY <4>2
      <4> HIDE DEF p
      <4>4. QED
        BY <1>14, <2>1, <2>5, <4>3, <4>5, <4>6, CountedByChange, SMTT(60)
    <3>3. "string" \notin gl
      BY <1>0, <1>1
    <3>4. t.top \in 0 .. Len(t.vals)
      BY <2>1, <2>4, <2>6
    <3>5. \A n \in Nat : n > Len(t.vals) => t.named[n] = 0
      BY <1>4, <2>6, SMTT(60) DEF Fits
    <3>6. QED
      BY <3>1, <3>2, <3>3, <3>4, <3>5 DEF Fits
  <2>9. /\ Len(s.vals) <= Len(t.vals)
        /\ \A n \in 1 .. Len(s.vals) :
             /\ s.vals[n].type = t.vals[n].type /\ s.vals[n].parent = t.vals[n].parent
             /\ s.vals[n].length <= t.vals[n].length /\ s.vals[n].names <= t.vals[n].names
             /\ s.named[n] <= t.named[n]
    <3>1. s.vals[p].length <= v.length /\ s.vals[p].names <= v.names
      BY <2>3, <2>16, <2>18
    <3>2. \A n \in Nat : s.named[n] <= t.named[n]
      BY <1>4, <1>6
    <3>3. QED
      BY <1>14, <2>1, <2>3, <2>5, <3>1, <3>2, GrownByChange, ZenonT(60)
  <2>10. Below(s, t)
    BY <1>0, <2>9 DEF Below
  <2>11. Balanced(T, t)
    <3>1. \A n \in 1 .. Len(s.vals) : t.vals[n].parent = s.vals[n].parent
      BY <2>9
    <3>2. T \subseteq 1 .. Len(s.vals)
      BY DEF Balanced
    <3>3. t.top \in T
      <4>1. p \in S
        BY <1>5, <1>8 DEF Balanced
      <4>2. QED
        BY <1>2, <2>1, <2>4, <4>1
    <3>4. ASSUME NEW n \in T
          PROVE  /\ n <= t.top /\ (t.vals[n].parent # 0 => t.vals[n].parent \in T)
                 /\ \A k \in T : n < k => n <= t.vals[k].parent
      <4>1. n \in S /\ n <= s.top /\ n # s.top /\ n \in 1 .. Len(s.vals)
        BY DEF Balanced
      <4>2. n < s.top
        BY <1>2, <4>1
      <4>3. n <= p
        BY <1>5, <4>1, <4>2 DEF Balanced
      <4>4. s.vals[n].parent # 0 => s.vals[n].parent \in S
        BY <4>1 DEF Balanced
      <4>5. s.vals[n].parent < s.top
        <5>1. Counted(s, n)
          BY <1>14, <4>1
        <5>2. s.vals[n].parent \in 0 .. n - 1
          BY <5>1 DEF Counted
        <5>3. QED
          BY <1>2, <4>1, <4>2, <5>2
      <4>6. s.vals[n].parent # s.top
        BY <1>2, <4>5
      <4>7. \A k \in T : n < k => n <= t.vals[k].parent
        BY <3>1, <3>2, <4>1, SMTT(60) DEF Balanced
      <4>8. QED
        BY <2>4, <3>1, <4>1, <4>3, <4>4, <4>6, <4>7
    <3>5. ASSUME NEW n \in 1 .. Len(s.vals)
          PROVE  /\ t.named[n] <= t.vals[n].length + 1
                 /\ n \notin T \/ (n = t.top /\ "seek_value" \notin gl) => t.named[n] <= t.vals[n].length
      <4>1. CASE n = p
        <5>1. s.named[p] <= s.vals[p].length + 1 /\ s.named[p] \in Nat
          BY <2>1, CountedFields DEF Balanced
        <5>2. s.named[p] <= (s.vals[p].length + 1) + 1
          <6>1. \A i, j \in Nat : j <= i + 1 => j <= (i + 1) + 1
            OBVIOUS
          <6>2. QED
            BY <2>17, <5>1, <6>1
        <5>3. QED
          BY <1>4, <2>3, <2>6, <4>1, <5>1, <5>2
      <4>2. CASE n # p
        <5>1. t.vals[n] = s.vals[n] /\ n # t.top
          BY <2>4, <2>5, <4>2 DEF Changed
        <5>2. n \notin T => n \notin S \/ (n = s.top /\ "seek_value" \notin fl)
          BY <1>0
        <5>3. QED
          BY <1>4, <5>1, <5>2 DEF Balanced
      <4>3. QED
        BY <4>1, <4>2, SMTT(60)
    <3>7. "done" \notin gl
      BY <1>0, <1>1, <1>8
    <3>6. QED
      BY <2>6, <3>2, <3>3, <3>4, <3>5, <3>7 DEF Balanced
  <2>12. QED
    BY <2>8, <2>10, <2>11
<1>9. QED
  BY <1>7, <1>8

(* The flags behind the start of a value. *)
LEMMA OpenFlags ==
    ASSUME NEW fl, NEW ty, NEW c, FlagsFit(fl, ty), "open" = Kind(fl, ty, c)
    PROVE  /\ FlagsFit(FlagsAfter("open", c, fl), TypeOfStart(c)) /\ TypeOfStart(c) \in Types
           /\ "done" \notin FlagsAfter("open", c, fl)
<1>1. Meaning("open", fl, ty, c)
  BY KindMeans
<1>2. /\ c \in {"{", "[", Quote, Literal} /\ "next" \notin fl /\ "string" \notin fl /\ "escaped" \notin fl
      /\ "seek_value" \in fl /\ "done" \notin fl /\ fl \cap {"line_comment", "block_comment"} = {}
  BY <1>1 DEF Meaning, FlagsFit
<1>3. CASE c \in {"{", "["}
  BY <1>2, <1>3 DEF FlagsFit, FlagsAfter, TypeOfStart, Quote, Literal, Types
<1>4. CASE c \in {Quote, Literal}
  BY <1>2, <1>4 DEF FlagsFit, FlagsAfter, TypeOfStart, Quote, Literal, Types
<1>5. QED
  BY <1>2, <1>3, <1>4

(* Any step but those of numbers and the end of a value. *)
LEMMA GrownBySmall ==
    ASSUME NEW S, NEW s \in Snapshots, NEW t \in Snapshots, NEW c, NEW k,
           Fits(s), Balanced(S, s), k = Kind(s.scan.flags, TypeAt(s), c),
           k \notin {"stuck", "final", "finish", "number"},
           t.scan = ScanAfter(k, c, s.scan), Grown(k, c, s, t)
    PROVE  \E T : Fits(t) /\ Below(s, t) /\ Balanced(T, t)
<1>0. Meaning(k, s.scan.flags, TypeAt(s), c)
  BY KindMeans
<1>1. CASE k \in MoveKinds
  BY <1>1, GrownByMove
<1>2. CASE k = "closestring"
  BY <1>2, GrownByString, ZenonT(60)
<1>3. CASE k = "closename"
  BY <1>3, GrownByName, ZenonT(60)
<1>4. CASE k = "open"
  <2> DEFINE type == TypeOfStart(c)
             v == NewRecord(type, s.top)
  <2>1. FlagsFit(t.scan.flags, type) /\ type \in Types /\ "done" \notin t.scan.flags
    <3>1. t.scan.flags = FlagsAfter("open", c, s.scan.flags)
      BY <1>4 DEF ScanAfter
    <3>2. FlagsFit(s.scan.flags, TypeAt(s)) /\ "open" = Kind(s.scan.flags, TypeAt(s), c)
      BY <1>4 DEF Fits
    <3>3. QED
      BY <3>1, <3>2, OpenFlags
  <2>2. "seek_value" \in s.scan.flags
    BY <1>0, <1>4 DEF Meaning
  <2>3. s.top \in Nat /\ s.vals \in Seq(Records)
    BY SnapshotFields
  <2> HIDE DEF type
  <2>4. v \in Records /\ Blank0(v, type, s.top)
    BY <2>1, <2>3, NewRecordIs
  <2>5. t.vals = Append(s.vals, v) /\ t.top = Len(s.vals) + 1 /\ t.named = s.named
    BY <1>4 DEF Grown, type
  <2> HIDE DEF v
  <2>6. Appended(t.vals, s.vals, v)
    BY <2>3, <2>4, <2>5, AppendIs
  <2>7. Fits(t) /\ Below(s, t) /\ Balanced(S \cup {t.top}, t)
    BY <2>1, <2>2, <2>4, <2>5, <2>6, GrownByValue
  <2>8. QED
    BY <2>7
<1>5. QED
  BY <1>0, <1>1, <1>2, <1>3, <1>4 DEF Meaning

----------------------------------------------------------------------------
(* The scanner's state is a snapshot. *)
LEMMA SnapshotIs ==
    ASSUME NEW p \in Nat, NEW fl \in SUBSET Flags, NEW n \in Nat, NEW tp \in Nat,
           NEW vs \in Seq(Records), NEW g \in [Nat -> Nat]
    PROVE  [scan |-> [ptr |-> p, flags |-> fl \ NumberFlags, sl |-> n],
            top |-> tp, vals |-> vs, named |-> g] \in Snapshots
BY DEF Snapshots

(* It is, before a step and behind it. *)
LEMMA NowIs ==
    ASSUME NEW g \in [Nat -> Nat]
    PROVE  (TypeOK => Now(g) \in Snapshots) /\ (TypeOK' => Now(g)' \in Snapshots)
<1>1. ASSUME TypeOK
      PROVE  Now(g) \in Snapshots
  <2>1. ptr \in Nat /\ flags \in SUBSET Flags /\ string_length \in Nat
    BY <1>1, Position DEF TypeOK
  <2>2. values \in Seq(Records) /\ top \in 0 .. Len(values)
    BY <1>1 DEF TypeOK
  <2>4. top \in Nat
    BY <2>2
  <2>3. QED
    BY <2>1, <2>2, <2>4, SnapshotIs DEF Now, Scan
<1>2. ASSUME TypeOK'
      PROVE  Now(g)' \in Snapshots
  <2>1. ptr' \in 1 .. Len(text') + 1 /\ flags' \in SUBSET Flags /\ string_length' \in Nat
    BY <1>2 DEF TypeOK
  <2>2. values' \in Seq(Records) /\ top' \in 0 .. Len(values')
    BY <1>2 DEF TypeOK
  <2>4. ptr' \in Nat /\ top' \in Nat
    BY <2>1, <2>2
  <2>3. QED
    BY <2>1, <2>2, <2>4, SnapshotIs DEF Now, Scan
<1>3. QED
  BY <1>1, <1>2

(* What the snapshot has to do is what the scanner has to do. *)
LEMMA KindOfNow ==
    ASSUME NEW s, NEW b, s = Now(s.named), TypeOK, Scanning(b)
    PROVE  /\ s.scan = Scan /\ s.top = top /\ s.vals = values /\ TypeAt(s) = TopType
           /\ s.scan.ptr = ptr /\ s.scan.flags = flags \ NumberFlags /\ s.scan.sl = string_length
           /\ text'[s.scan.ptr] = b /\ s.scan.ptr \in 1 .. Len(text')
           /\ text \in Seq(Chars) /\ text' \in Seq(Chars) /\ Extends
<1>1. s.scan = Scan /\ s.top = top /\ s.vals = values
  BY DEF Now
<1>2. TypeAt(s) = TopType
  BY <1>1 DEF TypeAt, TopType
<1>3. s.scan.ptr = ptr /\ s.scan.flags = flags \ NumberFlags /\ s.scan.sl = string_length
  BY <1>1 DEF Scan
<1>4. text'[ptr] = b /\ ptr <= Len(text') /\ Extends /\ text' \in Seq(Chars)
  BY Reads DEF Extends
<1>5. ptr \in Nat /\ 1 <= ptr /\ text \in Seq(Chars)
  BY Position
<1>6. ptr \in 1 .. Len(text')
  <2>1. Len(text') \in Nat
    BY <1>4
  <2>2. QED
    BY <1>4, <1>5, <2>1
<1>7. QED
  BY <1>1, <1>2, <1>3, <1>4, <1>5, <1>6

----------------------------------------------------------------------------
SmallActions ==
    \/ StringChar \/ StartEscape \/ Escape \/ CloseString \/ CloseName
    \/ StartLineComment \/ StartBlockComment
    \/ CommentChar \/ EndLineComment \/ EndBlockComment
    \/ SkipBlank \/ CloseArray \/ Comma \/ Colon
    \/ StartContainer \/ StartString \/ ReadLiteral
    \/ StartName \/ CloseObject

(* Where they happen. *)
NotInNumber ==
    InString \/ InLineComment \/ InBlockComment \/ IsDone \/ Seeking \/ InObject

(* They do not happen in a number. *)
LEMMA SmallWhere ==
    ASSUME SmallActions
    PROVE  "next" \notin flags /\ pc = "scan" /\ NotInNumber
<1>1. CASE StringChar \/ StartEscape \/ Escape \/ CloseString \/ CloseName
  BY <1>1 DEF StringChar, StartEscape, Escape, CloseString, CloseName, Scanning, NotInNumber
<1>2. CASE StartLineComment \/ StartBlockComment \/ CommentChar \/ EndLineComment \/ EndBlockComment
  BY <1>2 DEF StartLineComment, StartBlockComment, CommentChar, EndLineComment, EndBlockComment,
     Scanning, NotInNumber
<1>3. CASE SkipBlank \/ CloseArray \/ Comma \/ Colon \/ StartName \/ CloseObject
  BY <1>3 DEF SkipBlank, CloseArray, Comma, Colon, StartName, CloseObject, Scanning, NotInNumber
<1>4. CASE StartContainer \/ StartString \/ ReadLiteral
  BY <1>4 DEF StartContainer, StartString, ReadLiteral, AtValue, Scanning, NotInNumber
<1>5. QED
  BY <1>1, <1>2, <1>3, <1>4 DEF SmallActions

(* In a number. *)
LEMMA NumberMode ==
    ASSUME NEW s \in Snapshots, Fits(s), InNumberFrom(s)
    PROVE  /\ ~NotInNumber /\ TopType \in {"integer", "double"} /\ "next" \notin flags
           /\ flags \cap {"string", "line_comment", "block_comment", "done", "seek_value",
                          "need_comma", "need_colon", "escaped"} = {}
<1>1. Meaning("number", s.scan.flags, TypeAt(s), text[s.scan.ptr])
  BY KindMeans DEF InNumberFrom, KindAt
<1>2. /\ flags \ NumberFlags = s.scan.flags \ {"seek_value"} /\ "next" \notin flags
      /\ "escaped" \in s.scan.flags => "string" \in s.scan.flags
  BY DEF InNumberFrom, Fits, FlagsFit
<1>3. flags \cap {"string", "line_comment", "block_comment", "done", "seek_value",
                  "need_comma", "need_colon", "escaped"} = {}
  BY <1>1, <1>2 DEF Meaning, NumberFlags
<1>4. TopType \in {"integer", "double"}
  <2>1. PICK type \in {"integer", "double"} : values = Append(s.vals, NewRecord(type, s.top))
    BY DEF InNumberFrom
  <2>2. s.vals \in Seq(Records) /\ s.top \in Nat /\ Len(s.vals) \in Nat
    BY SnapshotFields
  <2>3. NewRecord(type, s.top) \in Records /\ Blank0(NewRecord(type, s.top), type, s.top)
    BY <2>2, NewRecordIs DEF Types
  <2>4. Appended(values, s.vals, NewRecord(type, s.top))
    BY <2>1, <2>2, <2>3, AppendIs
  <2>5. values[top].type = type
    BY <2>3, <2>4 DEF Appended, Blank0, InNumberFrom
  <2>6. top # 0
    BY <2>2 DEF InNumberFrom
  <2>7. QED
    BY <2>5, <2>6 DEF TopType
<1>5. ~InObject
  BY <1>4 DEF InObject, TopType, InValue
<1>6. ~NotInNumber
  BY <1>3, <1>5 DEF NotInNumber, InString, InLineComment, InBlockComment, IsDone, Seeking
<1>7. QED
  BY <1>2, <1>3, <1>4, <1>6

(* At a snapshot. *)
LEMMA NowMode ==
    ASSUME NEW s, Fits(s), s = Now(s.named)
    PROVE  /\ FlagsFit(flags, TopType) /\ (top # 0 \/ "string" \notin flags)
           /\ "next" \notin flags => ~InNumber
<1>1. /\ s.scan.flags = flags \ NumberFlags /\ s.top = top /\ TypeAt(s) = TopType
  BY DEF Now, Scan, TypeAt, TopType
<1>2. FlagsFit(flags \ NumberFlags, TopType) /\ (top # 0 \/ "string" \notin flags)
  BY <1>1 DEF Fits, NumberFlags
<1>3. FlagsFit(flags, TopType)
  BY <1>2 DEF FlagsFit, NumberFlags
<1>4. "next" \notin flags => ~InNumber
  BY <1>3 DEF FlagsFit, InNumber, InValue, InJson, InString, IsDone, Seeking, TopType
<1>5. QED
  BY <1>2, <1>3, <1>4

Tracing == \E G, S, s : Trace(G, S, s) /\ (s = Now(s.named) \/ InNumberFrom(s))
ChainEnds == alloc = Len(values) /\ root = (IF values = <<>> THEN 0 ELSE 1)

(* One more snapshot. *)
LEMMA TracingGoesOn ==
    ASSUME NEW G, NEW S, NEW s, NEW t \in Snapshots, Trace(G, S, s),
           text \in Seq(Chars), text' \in Seq(Chars), Extends,
           s.scan.ptr \in 1 .. Len(text'), Leads(s, t)', t = Now(t.named)',
           \E T : Fits(t) /\ Below(s, t) /\ Balanced(T, t)
    PROVE  Tracing'
<1>1. PICK T : Fits(t) /\ Below(s, t) /\ Balanced(T, t)
  OBVIOUS
<1>2. Trace(G \cup {t}, T, t)'
  BY <1>1, TraceGoesOn
<1>3. QED
  BY <1>2 DEF Tracing

(* Pass 1 outside of numbers. *)
LEMMA PassOneSmall ==
    ASSUME Inv, TypeOK', NEW G, NEW S, NEW s, NEW k, NEW b, Trace(G, S, s), s = Now(s.named),
           ChainEnds, first_pass = 1, Small(k, b)
    PROVE  Tracing' /\ ChainEnds'
<1>0. TypeOK /\ s \in Snapshots /\ Fits(s) /\ Balanced(S, s)
  BY DEF Inv, Trace
<1>1. Scanning(b) /\ k = Kind(flags \ NumberFlags, TopType, b)
      /\ k \notin {"stuck", "final", "finish", "number"} /\ Scan' = ScanAfter(k, b, Scan) /\ Tree(k, b)
  BY DEF Small
<1>2. /\ s.scan = Scan /\ s.top = top /\ s.vals = values /\ TypeAt(s) = TopType
      /\ s.scan.ptr = ptr /\ s.scan.flags = flags \ NumberFlags /\ s.scan.sl = string_length
      /\ text'[s.scan.ptr] = b /\ s.scan.ptr \in 1 .. Len(text')
      /\ text \in Seq(Chars) /\ text' \in Seq(Chars) /\ Extends
  BY <1>0, <1>1, KindOfNow
<1> DEFINE g == IF k = "closename" THEN [s.named EXCEPT ![s.top] = @ + 1] ELSE s.named
<1>3. g \in [Nat -> Nat] /\ s.named \in [Nat -> Nat] /\ s.top \in Nat
  <2>1. s.named \in [Nat -> Nat] /\ s.top \in Nat
    BY <1>0, SnapshotFields
  <2>2. [s.named EXCEPT ![s.top] = @ + 1] \in [Nat -> Nat]
    BY <2>1
  <2>3. QED
    BY <2>1, <2>2
<1> HIDE DEF g
<1>4. PICK t : t = Now(g)'
  OBVIOUS
<1>5. t \in Snapshots
  BY <1>3, <1>4, NowIs
<1>6. t.scan = Scan' /\ t.top = top' /\ t.vals = values' /\ t.named = g
  BY <1>4 DEF Now
<1>7. Grown(k, b, s, t)
  <2>1. CASE k = "open"
    <3>1. AppendValue(TypeOfStart(b))
      BY <1>1, <2>1 DEF Tree, NewValue, TakeValue
    <3>2. QED
      BY <1>2, <1>6, <2>1, <3>1 DEF Grown, AppendValue, g
  <2>2. CASE k = "closestring"
    BY <1>1, <1>2, <1>6, <2>2 DEF Grown, Tree, g
  <2>3. CASE k = "closename"
    <3>1. top \in 1 .. Len(values) /\ values \in Seq(Records) /\ values[top] \in Records
      <4>1. Meaning(k, flags \ NumberFlags, TopType, b)
        BY <1>1, KindMeans
      <4>2. "string" \in s.scan.flags
        BY <1>2, <2>3, <4>1 DEF Meaning
      <4>3. top # 0 /\ top \in 0 .. Len(values) /\ values \in Seq(Records)
        BY <1>0, <1>2, <4>2 DEF Fits, TypeOK
      <4>4. top \in 1 .. Len(values)
        BY <4>3
      <4>5. QED
        BY <4>3, <4>4
    <3>2. values' = [values EXCEPT ![top] = [values[top] EXCEPT !.names = @ + string_length + 1,
                                                               !.keys = values[top].keys]]
      BY <1>1, <2>3, <3>1 DEF Tree
    <3>3. [values[top] EXCEPT !.names = @ + string_length + 1, !.keys = values[top].keys]
            = [values[top] EXCEPT !.names = @ + string_length + 1]
      BY <3>1 DEF Records
    <3>4. values' = [values EXCEPT ![top] = [values[top] EXCEPT !.names = @ + string_length + 1]]
      BY <3>2, <3>3
    <3>5. top' = top
      BY <1>1, <2>3 DEF Tree
    <3>6. QED
      BY <1>2, <1>6, <2>3, <3>4, <3>5 DEF Grown, g
  <2>4. CASE k \notin {"open", "closestring", "closename"}
    BY <1>1, <1>2, <1>6, <2>4 DEF Grown, Tree, tree, g
  <2>5. QED
    BY <2>1, <2>2, <2>3, <2>4
<1>8. KindAt(s)' = k
  BY <1>1, <1>2 DEF KindAt
<1>9. t.scan = ScanAfter(k, b, s.scan)
  BY <1>1, <1>2, <1>6
<1>10. Leads(s, t)'
  BY <1>1, <1>2, <1>7, <1>8, <1>9 DEF Leads
<1>16. k = Kind(s.scan.flags, TypeAt(s), b) /\ k \notin {"stuck", "final", "finish", "number"}
  BY <1>1, <1>2
<1>11. \E T : Fits(t) /\ Below(s, t) /\ Balanced(T, t)
  BY <1>0, <1>5, <1>7, <1>9, <1>16, GrownBySmall
<1>12. t = Now(t.named)'
  BY <1>4, <1>6
<1>13. Tracing'
  BY <1>2, <1>5, <1>10, <1>11, <1>12, TracingGoesOn
<1>14. ChainEnds'
  <2>1. CASE k = "open"
    <3>1. AppendValue(TypeOfStart(b))
      BY <1>1, <2>1 DEF Tree, NewValue, TakeValue
    <3>2. values \in Seq(Records) /\ Len(values) \in Nat
      BY <1>0, <1>2, SnapshotFields
    <3>3. values' \in Seq(Records)
      BY <1>5, <1>6, SnapshotFields
    <3>4. values' = Append(values, NewRecord(TypeOfStart(b), top)) /\ Len(values') = Len(values) + 1
      BY <3>1, <3>2 DEF AppendValue
    <3>5. values' # <<>>
      BY <3>2, <3>4
    <3>6. values = <<>> <=> root = 0
      BY DEF ChainEnds
    <3>7. values = <<>> => Len(values) = 0
      OBVIOUS
    <3>8. QED
      BY <3>1, <3>4, <3>5, <3>6, <3>7 DEF ChainEnds, AppendValue
  <2>2. CASE k # "open"
    <3>1. UNCHANGED <<root, alloc>> /\ Len(values') = Len(values) /\ (values' = <<>> <=> values = <<>>)
      <4>1. CASE k \in {"closestring", "closename"}
        <5>1. Len(values') = Len(values) /\ UNCHANGED <<root, alloc>>
          BY <1>1, <1>2, <4>1, SnapshotFields, <1>0 DEF Tree
        <5>2. values \in Seq(Records) /\ values' \in Seq(Records)
          BY <1>0, <1>2, <1>5, <1>6, SnapshotFields
        <5>3. QED
          BY <5>1, <5>2
      <4>2. CASE k \notin {"open", "closestring", "closename"}
        BY <1>1, <4>2 DEF Tree, tree
      <4>3. QED
        BY <2>2, <4>1, <4>2
    <3>2. QED
      BY <3>1 DEF ChainEnds
  <2>3. QED
    BY <2>1, <2>2
<1>15. QED
  BY <1>13, <1>14
----------------------------------------------------------------------------
(* What pass 1 has done does not change while the text goes on. *)
LEMMA TraceStays ==
    ASSUME NEW G, NEW S, NEW s, Trace(G, S, s), text \in Seq(Chars), text' \in Seq(Chars), Extends
    PROVE  Trace(G, S, s)'
<1>1. ASSUME NEW r \in G, Continued(r, G)
      PROVE  Continued(r, G)'
  BY <1>1, ContinuedStays DEF Trace
<1>2. QED
  BY <1>1 DEF Trace

(* The chain in which pass 1 has a number that it has met. *)
LEMMA ChainWithNumber ==
    ASSUME NEW s \in Snapshots, NEW type \in {"integer", "double"}, NEW q,
           q = Append(s.vals, NewRecord(type, s.top))
    PROVE  /\ NewRecord(type, s.top) \in Records /\ Blank0(NewRecord(type, s.top), type, s.top)
           /\ Appended(q, s.vals, NewRecord(type, s.top)) /\ Len(q) = Len(s.vals) + 1
           /\ q[Len(s.vals) + 1] = NewRecord(type, s.top)
<1>1. s.vals \in Seq(Records) /\ s.top \in Nat /\ Len(s.vals) \in Nat
  BY SnapshotFields
<1>2. NewRecord(type, s.top) \in Records /\ Blank0(NewRecord(type, s.top), type, s.top)
  BY <1>1, NewRecordIs DEF Types
<1>3. Appended(q, s.vals, NewRecord(type, s.top))
  BY <1>1, <1>2, AppendIs
<1>4. QED
  BY <1>2, <1>3 DEF Appended

(* The start of a number. *)
LEMMA PassOneStartsNumber ==
    ASSUME Inv, NEW G, NEW S, NEW s, Trace(G, S, s), s = Now(s.named),
           ChainEnds, first_pass = 1, StartNumber
    PROVE  Tracing' /\ ChainEnds'
<1>0. TypeOK /\ s \in Snapshots
  BY DEF Inv, Trace
<1>1. PICK b \in {"-"} \cup Digits :
        /\ Scanning(b) /\ AtValue /\ first_pass = 1
        /\ NewValue("integer")
        /\ flags' = Found \ {"num_zero", "num_e", "num_e_got_sign"}
        /\ ptr' = (IF b = "-" THEN ptr + 1 ELSE ptr)
        /\ UNCHANGED string_length
  BY DEF StartNumber
<1>2. /\ s.top = top /\ s.vals = values /\ TypeAt(s) = TopType
      /\ s.scan.ptr = ptr /\ s.scan.flags = flags \ NumberFlags /\ s.scan.sl = string_length
      /\ text'[s.scan.ptr] = b /\ s.scan.ptr \in 1 .. Len(text')
      /\ text \in Seq(Chars) /\ text' \in Seq(Chars) /\ Extends
  BY <1>0, <1>1, KindOfNow
<1>3. AppendValue("integer")
  BY <1>1 DEF NewValue, TakeValue
<1>4. Trace(G, S, s)'
  BY <1>2, TraceStays
<1>5. Kind(flags \ NumberFlags, TopType, b) = "number"
  <2>1. /\ flags \cap {"next", "string", "line_comment", "block_comment", "done", "need_comma",
                       "need_colon"} = {}
        /\ "seek_value" \in flags
    BY <1>1 DEF AtValue, Seeking, InJson, InString, InLineComment, InBlockComment, IsDone, Scanning
  <2>2. b \notin Skippable \cup {"]"}
    BY <1>1 DEF Skippable, Digits, Blank, Newline, LineComment, BlockComment
  <2>3. QED
    BY <1>1, <2>1, <2>2 DEF Kind, AtSeek, NumberFlags
<1>6. InNumberFrom(s)'
  <2>1. KindAt(s)' = "number"
    BY <1>2, <1>5 DEF KindAt
  <2>2. "next" \notin flags' /\ flags' \ NumberFlags = s.scan.flags \ {"seek_value"}
    BY <1>1, <1>2 DEF Scanning, Found, NumberFlags
  <2>3. ptr' >= s.scan.ptr /\ \A q \in s.scan.ptr .. ptr' - 1 : text'[q] \in Skipped
    <3>1. ptr \in Nat
      BY <1>0, Position
    <3>2. CASE b = "-"
      <4>1. ptr' = ptr + 1
        BY <1>1, <3>2
      <4>2. \A q \in ptr .. ptr' - 1 : q = ptr
        BY <3>1, <4>1
      <4>3. text'[ptr] \in Skipped
        BY <1>2, <3>2 DEF Skipped, Signs
      <4>4. QED
        BY <1>2, <3>1, <4>1, <4>2, <4>3
    <3>3. CASE b # "-"
      BY <1>1, <1>2, <3>1, <3>3
    <3>4. QED
      BY <3>2, <3>3
  <2>4. /\ string_length' = s.scan.sl /\ top' = Len(s.vals) + 1
        /\ values' = Append(s.vals, NewRecord("integer", s.top))
    BY <1>1, <1>2, <1>3 DEF AppendValue
  <2>5. QED
    BY <1>2, <2>1, <2>2, <2>3, <2>4 DEF InNumberFrom
<1>7. ChainEnds'
  <2>1. values' = Append(s.vals, NewRecord("integer", s.top))
    BY <1>2, <1>3 DEF AppendValue
  <2>2. Len(values') = Len(values) + 1 /\ Len(values) \in Nat
    BY <1>0, <1>2, <2>1, ChainWithNumber, SnapshotFields
  <2>3. values' # <<>>
    BY <2>2
  <2>4. values = <<>> <=> root = 0
    BY DEF ChainEnds
  <2>5. values = <<>> => Len(values) = 0
    OBVIOUS
  <2>6. QED
    BY <1>3, <2>2, <2>3, <2>4, <2>5 DEF ChainEnds, AppendValue
<1>8. QED
  BY <1>4, <1>6, <1>7 DEF Tracing

(* The characters of a number that change nothing but its type. *)
LEMMA PassOneInNumber ==
    ASSUME Inv, NEW G, NEW S, NEW s, Trace(G, S, s), InNumberFrom(s),
           ChainEnds, Digit \/ ExponentSign \/ Point \/ Exponent
    PROVE  Tracing' /\ ChainEnds'
<1>0. TypeOK /\ s \in Snapshots /\ Fits(s)
  BY DEF Inv, Trace
<1>1. PICK b \in Skipped :
        /\ Scanning(b) /\ ptr' = ptr + 1
        /\ flags' \ NumberFlags = flags \ NumberFlags /\ "next" \notin flags'
        /\ UNCHANGED <<top, root, alloc, string_length>>
        /\ \/ UNCHANGED values
           \/ values' = [values EXCEPT ![top].type = "double"]
  <2>1. CASE Digit
    BY <2>1 DEF Digit, Skipped, Continue, tree, NumberFlags, Scanning
  <2>2. CASE ExponentSign
    BY <2>2 DEF ExponentSign, Skipped, Continue, tree, NumberFlags, Scanning
  <2>3. CASE Point
    BY <2>3 DEF Point, Skipped, Continue, NumberFlags, Scanning
  <2>4. CASE Exponent
    BY <2>4 DEF Exponent, Skipped, Continue, NumberFlags, Scanning
  <2>5. QED
    BY <2>1, <2>2, <2>3, <2>4
<1>2. /\ text \in Seq(Chars) /\ text' \in Seq(Chars) /\ Extends /\ ptr <= Len(text') /\ text'[ptr] = b
      /\ ptr \in Nat /\ Len(text) \in Nat /\ Len(text') \in Nat
      /\ \A q \in 1 .. Len(text') : q < ptr => q \in 1 .. Len(text)
  <2>1. text' \in Seq(Chars) /\ text \in Seq(Chars)
    BY <1>0, <1>1, Reads, Position
  <2>2. QED
    BY <1>0, <1>1, <2>1, Reads, Position DEF Extends
<1>3. Trace(G, S, s)'
  BY <1>2, TraceStays
<1>4. PICK type \in {"integer", "double"} : values = Append(s.vals, NewRecord(type, s.top))
  BY DEF InNumberFrom
<1>5. s.scan.ptr \in 1 .. Len(text) /\ s.scan.ptr \in Nat /\ ptr >= s.scan.ptr
  BY <1>0, SnapshotFields DEF InNumberFrom
<1>6. InNumberFrom(s)'
  <2>1. s.scan.ptr \in 1 .. Len(text') /\ text'[s.scan.ptr] = text[s.scan.ptr]
    BY <1>2, <1>5 DEF Extends
  <2>2. KindAt(s)' = "number"
    BY <2>1 DEF KindAt, InNumberFrom
  <2>3. ptr' >= s.scan.ptr
    BY <1>1, <1>2, <1>5
  <2>4. ASSUME NEW q \in s.scan.ptr .. ptr' - 1
        PROVE  text'[q] \in Skipped
    <3>1. CASE q = ptr
      BY <1>1, <1>2, <3>1
    <3>2. CASE q # ptr
      <4>1. q \in s.scan.ptr .. ptr - 1 /\ q \in 1 .. Len(text') /\ q < ptr
        BY <1>1, <1>2, <1>5, <3>2
      <4>2. text[q] \in Skipped
        BY <4>1 DEF InNumberFrom
      <4>3. text'[q] = text[q]
        BY <1>2, <4>1 DEF Extends
      <4>4. QED
        BY <4>2, <4>3
    <3>3. QED
      BY <3>1, <3>2
  <2>5. \E ty \in {"integer", "double"} : values' = Append(s.vals, NewRecord(ty, s.top))
    <3>1. CASE UNCHANGED values
      BY <1>4, <3>1
    <3>2. CASE values' = [values EXCEPT ![top].type = "double"]
      <4>1. s.vals \in Seq(Records) /\ Len(s.vals) \in Nat /\ top = Len(s.vals) + 1
        BY <1>0, SnapshotFields DEF InNumberFrom
      <4>2. [NewRecord(type, s.top) EXCEPT !.type = "double"] = NewRecord("double", s.top)
        BY DEF NewRecord
      <4>3. values' = [values EXCEPT ![top] = [values[top] EXCEPT !.type = "double"]]
        BY <3>2
      <4>4. values[top] = NewRecord(type, s.top)
        BY <1>0, <1>4, <4>1, ChainWithNumber
      <4>5. values' = [Append(s.vals, NewRecord(type, s.top)) EXCEPT
                         ![Len(s.vals) + 1] = NewRecord("double", s.top)]
        BY <1>4, <4>1, <4>2, <4>3, <4>4
      <4>6. ASSUME NEW x \in Records, NEW y \in Records
            PROVE  [Append(s.vals, x) EXCEPT ![Len(s.vals) + 1] = y] = Append(s.vals, y)
        <5> DEFINE p == [Append(s.vals, x) EXCEPT ![Len(s.vals) + 1] = y]
                   r == Append(s.vals, y)
        <5>1. p \in Seq(Records) /\ r \in Seq(Records) /\ Len(p) = Len(s.vals) + 1 /\ Len(r) = Len(s.vals) + 1
          BY <4>1
        <5>2. ASSUME NEW n \in 1 .. Len(s.vals) + 1
              PROVE  p[n] = r[n]
          <6>1. Append(s.vals, x) \in Seq(Records) /\ Len(Append(s.vals, x)) = Len(s.vals) + 1
            BY <4>1
          <6> DEFINE a == Append(s.vals, x)
                     m == Len(s.vals) + 1
          <6>5. m \in 1 .. Len(a) /\ n \in 1 .. Len(a)
            BY <4>1, <6>1
          <6>6. p = [a EXCEPT ![m] = y] /\ a \in Seq(Records)
            BY <6>1
          <6> HIDE DEF a, m, p
          <6>7. Changed(p, a, m, y)
            BY <6>5, <6>6, ExceptIs
          <6>2. p[n] = IF n = m THEN y ELSE a[n]
            BY <6>5, <6>7 DEF Changed
          <6> USE DEF a, m
          <6>3. n # Len(s.vals) + 1 => n \in 1 .. Len(s.vals)
            BY <4>1
          <6>4. QED
            BY <4>1, <6>2, <6>3
        <5> HIDE DEF p, r
        <5>3. p = r
          BY <5>1, <5>2, SeqEqual
        <5>4. QED
          BY <5>3 DEF p, r
      <4>8. NewRecord(type, s.top) \in Records /\ NewRecord("double", s.top) \in Records
        BY <1>0, SnapshotFields, NewRecordIs DEF Types
      <4>7. QED
        BY <4>5, <4>6, <4>8
    <3>3. QED
      BY <1>1, <3>1, <3>2
  <2>6. "next" \notin flags' /\ flags' \ NumberFlags = s.scan.flags \ {"seek_value"}
        /\ string_length' = s.scan.sl /\ top' = Len(s.vals) + 1
    BY <1>1 DEF InNumberFrom
  <2>7. QED
    BY <2>1, <2>2, <2>3, <2>4, <2>5, <2>6 DEF InNumberFrom
<1>7. ChainEnds'
  <2>1. PICK ty \in {"integer", "double"} : values' = Append(s.vals, NewRecord(ty, s.top))
    BY <1>6 DEF InNumberFrom
  <2>2. /\ Len(values) = Len(s.vals) + 1 /\ Len(values') = Len(s.vals) + 1 /\ Len(s.vals) \in Nat
    BY <1>0, <1>4, <2>1, ChainWithNumber, SnapshotFields
  <2>3. values # <<>> /\ values' # <<>>
    BY <2>2
  <2>4. QED
    BY <1>1, <2>2, <2>3 DEF ChainEnds
<1>8. QED
  BY <1>3, <1>6, <1>7 DEF Tracing
(* The end of a number: the next snapshot. *)
LEMMA PassOneEndsNumber ==
    ASSUME Inv, TypeOK', NEW G, NEW S, NEW s, Trace(G, S, s), InNumberFrom(s), ChainEnds, EndNumber
    PROVE  Tracing' /\ ChainEnds'
<1>0. TypeOK /\ s \in Snapshots /\ Fits(s) /\ Balanced(S, s)
  BY DEF Inv, Trace
<1>1. PICK b : /\ Scanning(b) /\ ptr' = ptr /\ flags' = flags \cup {"reproc", "next"}
               /\ UNCHANGED <<top, root, alloc, values, string_length>>
  BY DEF EndNumber, Complete, tree
<1>2. /\ text \in Seq(Chars) /\ text' \in Seq(Chars) /\ Extends /\ ptr <= Len(text')
      /\ ptr \in Nat /\ Len(text) \in Nat /\ Len(text') \in Nat
  <2>1. text' \in Seq(Chars) /\ text \in Seq(Chars)
    BY <1>0, <1>1, Reads, Position
  <2>2. QED
    BY <1>0, <1>1, <2>1, Reads, Position DEF Extends
<1>3. PICK type \in {"integer", "double"} : values = Append(s.vals, NewRecord(type, s.top))
  BY DEF InNumberFrom
<1>4. PICK t : t = Now(s.named)'
  OBVIOUS
<1>5. t \in Snapshots
  BY <1>0, <1>4, SnapshotFields, NowIs
<1>6. /\ t.scan.ptr = ptr /\ t.scan.flags = (flags \cup {"reproc", "next"}) \ NumberFlags
      /\ t.scan.sl = string_length /\ t.top = top /\ t.vals = values /\ t.named = s.named
  BY <1>1, <1>4 DEF Now, Scan
<1>7. s.scan.ptr \in 1 .. Len(text) /\ s.scan.ptr \in Nat /\ ptr >= s.scan.ptr
  BY <1>0, SnapshotFields DEF InNumberFrom
<1>8. s.scan.ptr \in 1 .. Len(text') /\ text'[s.scan.ptr] = text[s.scan.ptr]
  BY <1>2, <1>7 DEF Extends
<1>9. t.scan.flags = (s.scan.flags \ {"seek_value"}) \cup {"next", "reproc"}
  BY <1>6 DEF InNumberFrom, NumberFlags
<1>10. NumberRead(s, t)'
  <2>1. t.scan.ptr \in s.scan.ptr .. Len(text')
    BY <1>2, <1>6, <1>7
  <2>2. ASSUME NEW q \in s.scan.ptr .. t.scan.ptr - 1
        PROVE  text'[q] \in Skipped
    <3>1. q \in s.scan.ptr .. ptr - 1
      BY <1>6
    <3>2. text[q] \in Skipped
      BY <3>1 DEF InNumberFrom
    <3>3. q \in 1 .. Len(text)
      <4>1. ptr <= Len(text) + 1
        BY <1>0, Position
      <4>2. QED
        BY <1>2, <1>7, <3>1, <4>1
    <3>4. text'[q] = text[q]
      BY <1>2, <3>3 DEF Extends
    <3>5. QED
      BY <3>2, <3>4
  <2>3. t.scan.sl = s.scan.sl /\ t.named = s.named /\ t.top = Len(s.vals) + 1
    BY <1>6 DEF InNumberFrom
  <2>4. QED
    BY <1>3, <1>6, <1>9, <2>1, <2>2, <2>3 DEF NumberRead
<1>11. Leads(s, t)'
  <2>1. KindAt(s)' = "number"
    BY <1>8 DEF KindAt, InNumberFrom
  <2>2. QED
    BY <1>10, <2>1 DEF Leads
<1>12. Fits(t) /\ Below(s, t) /\ Balanced(S \cup {t.top}, t)
  <2>1. Meaning("number", s.scan.flags, TypeAt(s), text[s.scan.ptr])
    BY KindMeans DEF InNumberFrom, KindAt
  <2>2. "seek_value" \in s.scan.flags
    BY <2>1 DEF Meaning
  <2>3. FlagsFit(t.scan.flags, type) /\ "done" \notin t.scan.flags
    <3>1. s.scan.flags \cap {"string", "line_comment", "block_comment", "done"} = {}
      BY <2>1 DEF Meaning
    <3>2. "escaped" \notin s.scan.flags
      BY <1>0, <3>1 DEF Fits, FlagsFit
    <3>3. QED
      BY <1>9, <3>1, <3>2 DEF FlagsFit
  <2>4. /\ NewRecord(type, s.top) \in Records /\ Blank0(NewRecord(type, s.top), type, s.top)
        /\ Appended(t.vals, s.vals, NewRecord(type, s.top))
    BY <1>0, <1>3, <1>6, ChainWithNumber
  <2>5. t.top = Len(s.vals) + 1 /\ t.named = s.named /\ type \in Types
    BY <1>6 DEF InNumberFrom, Types
  <2>6. QED
    BY <1>0, <1>5, <2>2, <2>3, <2>4, <2>5, GrownByValue
<1>13. t = Now(t.named)'
  BY <1>4, <1>6
<1>14. Tracing'
  BY <1>2, <1>5, <1>8, <1>11, <1>12, <1>13, TracingGoesOn
<1>15. QED
  BY <1>1, <1>14 DEF ChainEnds

(* A value is finished: the next snapshot. *)
LEMMA PassOneFinishes ==
    ASSUME Inv, TypeOK', NEW G, NEW S, NEW s, Trace(G, S, s), s = Now(s.named), ChainEnds,
           first_pass = 1, FinishValue
    PROVE  Tracing' /\ ChainEnds'
<1>0. TypeOK /\ s \in Snapshots /\ Fits(s) /\ Balanced(S, s) /\ ScanOK /\ FlagsOK /\ TreeOK
  BY TreeOfInv DEF Inv, Trace, FinishValue
<1>1. "next" \in flags /\ top # 0 /\ text' = text
  BY <1>0 DEF FinishValue, FlagsOK
<1>2. /\ s.top = top /\ s.vals = values /\ s.scan.ptr = ptr
      /\ s.scan.flags = flags \ NumberFlags /\ s.scan.sl = string_length
  BY DEF Now, Scan
<1>3. text \in Seq(Chars) /\ Len(text) \in Nat /\ ptr \in Nat /\ 1 <= ptr /\ ptr <= Len(text)
  BY <1>0, <1>1, Position DEF ScanOK
<1>4. Extends /\ s.scan.ptr \in 1 .. Len(text')
  BY <1>1, <1>2, <1>3 DEF Extends
<1>5. PICK t : t = Now(s.named)'
  OBVIOUS
<1>6. t \in Snapshots
  BY <1>0, <1>5, SnapshotFields, NowIs
<1>7. /\ t.scan.ptr = ptr' /\ t.scan.flags = flags' \ NumberFlags
      /\ t.scan.sl = string_length' /\ t.top = top' /\ t.vals = values' /\ t.named = s.named
      /\ t.scan = Scan'
  BY <1>5 DEF Now, Scan
<1> DEFINE p == values[top].parent
<1>8. top \in 1 .. Len(values) /\ p \in 0 .. top - 1 /\ p \in Nat /\ (p # 0 => p \in 1 .. Len(values))
  <2>1. top \in 1 .. Len(values) /\ Len(values) \in Nat
    BY <1>0, <1>1 DEF TreeOK
  <2>2. p \in 0 .. top - 1
    BY <1>0, <2>1, InChain
  <2>3. QED
    BY <2>1, <2>2
<1> HIDE DEF p
<1>9. /\ ptr' = IF "reproc" \in flags THEN ptr ELSE ptr + 1
      /\ flags' = (flags \ {"next", "reproc"}) \cup {"need_comma"}
           \cup (IF p = 0 THEN {"done"} ELSE IF values[p].type = "array" THEN {"seek_value"} ELSE {})
      /\ IF p = 0 THEN UNCHANGED <<top, values>>
         ELSE /\ top' = p
              /\ values' = [values EXCEPT ![p].length = @ + 1, ![p].kids = @]
      /\ UNCHANGED <<string_length, root, alloc>>
  BY DEF FinishValue, p
<1>10. p # 0 => values' = [values EXCEPT ![p].length = @ + 1]
  <2>1. ASSUME p # 0
        PROVE  values' = [values EXCEPT ![p].length = @ + 1]
    <3>1. values[p] \in Records
      BY <1>0, <1>8, <2>1, InChain
    <3>2. [values[p] EXCEPT !.length = @ + 1, !.kids = values[p].kids] = [values[p] EXCEPT !.length = @ + 1]
      BY <3>1 DEF Records
    <3>3. values' = [values EXCEPT ![p] = [values[p] EXCEPT !.length = @ + 1, !.kids = values[p].kids]]
      BY <1>8, <1>9, <2>1
    <3>4. QED
      BY <3>2, <3>3
  <2>2. QED
    BY <2>1
<1>11. Finished(s, t)
  <2>1. /\ "reproc" \in s.scan.flags <=> "reproc" \in flags
        /\ flags' \ NumberFlags = (s.scan.flags \ {"next", "reproc"}) \cup {"need_comma"}
             \cup (IF p = 0 THEN {"done"} ELSE IF values[p].type = "array" THEN {"seek_value"} ELSE {})
    BY <1>2, <1>9 DEF NumberFlags
  <2>2. s.vals[s.top].parent = p
    BY <1>2 DEF p
  <2>3. Scan' = [ptr |-> IF "reproc" \in s.scan.flags THEN s.scan.ptr ELSE s.scan.ptr + 1,
                 flags |-> (s.scan.flags \ {"next", "reproc"}) \cup {"need_comma"}
                   \cup (IF p = 0 THEN {"done"} ELSE IF s.vals[p].type = "array" THEN {"seek_value"} ELSE {}),
                 sl |-> s.scan.sl]
    BY <1>2, <1>9, <2>1 DEF Scan
  <2>4. IF p = 0 THEN t.top = s.top /\ t.vals = s.vals
        ELSE t.top = p /\ t.vals = [s.vals EXCEPT ![p].length = @ + 1]
    BY <1>2, <1>7, <1>9, <1>10
  <2>5. QED
    BY <1>7, <2>2, <2>3, <2>4 DEF Finished
<1>12. Leads(s, t)'
  <2>1. KindAt(s)' = "finish"
    BY <1>1, <1>2 DEF KindAt, Kind, NumberFlags
  <2>2. QED
    BY <1>11, <2>1 DEF Leads
<1>13. Fits(t) /\ Below(s, t) /\ Balanced(S \ {s.top}, t)
  <2>1. "next" \in s.scan.flags /\ s.top # 0
    BY <1>1, <1>2 DEF NumberFlags
  <2>2. QED
    BY <1>0, <1>6, <1>11, <2>1, GrownByFinish
<1>14. t = Now(t.named)'
  BY <1>5, <1>7
<1>15. Tracing'
  BY <1>1, <1>3, <1>4, <1>6, <1>12, <1>13, <1>14, TracingGoesOn
<1>16. ChainEnds'
  <2>1. values \in Seq(Records) /\ values' \in Seq(Records)
    BY <1>0, <1>6, <1>7, SnapshotFields DEF TreeOK
  <2>2. Len(values') = Len(values)
    BY <1>9, <1>10, <2>1
  <2>3. values' = <<>> <=> values = <<>>
    BY <2>1, <2>2
  <2>4. QED
    BY <1>9, <2>2, <2>3 DEF ChainEnds
<1>17. QED
  BY <1>15, <1>16
(* Pass 1 begins. *)
LEMMA PassOneBegins ==
    ASSUME Init
    PROVE  PassOne
<1>1. Start \in Snapshots /\ Len(Start.vals) = 0
  <2>1. {"seek_value"} \in SUBSET (Flags \ NumberFlags) /\ <<>> \in Seq(Records)
    BY DEF Flags, NumberFlags
  <2>2. [n \in Nat |-> 0] \in [Nat -> Nat]
    OBVIOUS
  <2>3. QED
    BY <2>1, <2>2 DEF Start, Snapshots
<1>2. Fits(Start)
  BY <1>1 DEF Fits, Start, FlagsFit, TypeAt
<1>3. Below(Start, Start)
  BY <1>1, <1>2, BelowSelf
<1>4. Balanced({}, Start)
  BY <1>1 DEF Balanced, Start
<1>5. Trace({Start}, {}, Start)
  BY <1>1, <1>2, <1>3, <1>4 DEF Trace
<1>6. Start = Now(Start.named)
  BY DEF Start, Now, Scan, Init, NumberFlags
<1>7. ChainEnds
  BY DEF ChainEnds, Init
<1>8. QED
  BY <1>5, <1>6, <1>7 DEF PassOne, ChainEnds

(* PassOne, in other words. *)
LEMMA PassOneIs == PassOne <=> (pc = "scan" /\ first_pass = 1 => ChainEnds /\ Tracing)
BY DEF PassOne, ChainEnds, Tracing

(* What pass 1 can do. *)
LEMMA PassOneDoes ==
    ASSUME Inv, TypeOK', ChainEnds, Tracing, pc = "scan", first_pass = 1,
           SmallActions \/ StartNumber \/ Digit \/ ExponentSign \/ Point \/ Exponent \/ EndNumber \/ FinishValue
    PROVE  ChainEnds' /\ Tracing'
<1>1. PICK G, S, s : Trace(G, S, s) /\ (s = Now(s.named) \/ InNumberFrom(s))
  BY DEF Tracing
<1>2. s \in Snapshots /\ Fits(s)
  BY <1>1 DEF Trace
<1>3. CASE s = Now(s.named)
  <2>1. /\ FlagsFit(flags, TopType) /\ (top # 0 \/ "string" \notin flags)
        /\ "next" \notin flags => ~InNumber
    BY <1>2, <1>3, NowMode
  <2>2. CASE SmallActions
    <3>1. \E k, b : Small(k, b)
      BY <2>1, <2>2, SmallSteps DEF SmallActions
    <3>2. QED
      BY <1>1, <1>3, <3>1, PassOneSmall
  <2>3. CASE StartNumber
    BY <1>1, <1>3, <2>3, PassOneStartsNumber
  <2>4. CASE Digit \/ ExponentSign \/ Point \/ Exponent \/ EndNumber
    BY <2>1, <2>4 DEF Digit, ExponentSign, Point, Exponent, EndNumber, Scanning
  <2>5. CASE FinishValue
    BY <1>1, <1>3, <2>5, PassOneFinishes
  <2>6. QED
    BY <2>2, <2>3, <2>4, <2>5
<1>4. CASE InNumberFrom(s)
  <2>1. /\ ~NotInNumber /\ "next" \notin flags /\ "seek_value" \notin flags
    BY <1>2, <1>4, NumberMode
  <2>2. CASE SmallActions
    BY <2>1, <2>2, SmallWhere
  <2>3. CASE StartNumber \/ FinishValue
    BY <2>1, <2>3 DEF StartNumber, FinishValue, AtValue, Seeking
  <2>4. CASE Digit \/ ExponentSign \/ Point \/ Exponent
    BY <1>1, <1>4, <2>4, PassOneInNumber
  <2>5. CASE EndNumber
    BY <1>1, <1>4, <2>5, PassOneEndsNumber
  <2>6. QED
    BY <2>2, <2>3, <2>4, <2>5
<1>5. QED
  BY <1>1, <1>3, <1>4

(* What pass 1 does, it does in order. *)
LEMMA PassOneStep ==
    ASSUME Inv, TypeOK', PassOne, Next
    PROVE  PassOne'
<1>1. CASE /\ pc = "scan" /\ first_pass = 1
           /\ \/ SmallActions \/ StartNumber \/ Digit \/ ExponentSign \/ Point \/ Exponent
              \/ EndNumber \/ FinishValue
  <2>1. ChainEnds' /\ Tracing'
    BY <1>1, PassOneIs, PassOneDoes
  <2>2. QED
    BY <2>1 DEF PassOne, ChainEnds, Tracing
<1>2. CASE ~(pc = "scan" /\ first_pass = 1)
  <2>1. ~(pc' = "scan" /\ first_pass' = 1)
    <3>1. pc # "scan" => pc' # "scan"
      BY <1>2, ZenonT(60) DEF Next, StringChar, StartEscape, Escape, CloseString, CloseName, StartLineComment,
         StartBlockComment, CommentChar, EndLineComment, EndBlockComment, SkipBlank, CloseArray,
         Comma, Colon, StartContainer, StartString, ReadLiteral, StartNumber, SkipNumber,
         AllocationFails, ReadPastEnd, StartName, CloseObject, Digit, ExponentSign, Point,
         Exponent, EndNumber, FinishValue, EndPass, Reject, FreeChain, FreeDocument, Descend,
         Release, FreeDone, Scanning
    <3>2. first_pass' \in {first_pass, first_pass - 1} /\ first_pass \in {1, 0, -1}
      BY DEF Inv, TypeOK, Next, StringChar, StartEscape, Escape, CloseString, CloseName, StartLineComment,
         StartBlockComment, CommentChar, EndLineComment, EndBlockComment, SkipBlank, CloseArray,
         Comma, Colon, StartContainer, StartString, ReadLiteral, StartNumber, SkipNumber,
         AllocationFails, ReadPastEnd, StartName, CloseObject, Digit, ExponentSign, Point,
         Exponent, EndNumber, FinishValue, EndPass, Reject, FreeChain, FreeDocument, Descend,
         Release, FreeDone, rest
    <3>3. QED
      BY <1>2, <3>1, <3>2, SMTT(60)
  <2>2. QED
    BY <2>1, SMTT(60) DEF PassOne
<1>3. CASE /\ pc = "scan" /\ first_pass = 1
           /\ \/ SkipNumber \/ AllocationFails \/ ReadPastEnd \/ EndPass \/ Reject
              \/ FreeChain \/ FreeDocument \/ Descend \/ Release \/ FreeDone
  BY <1>3 DEF SkipNumber, AllocationFails, ReadPastEnd, EndPass, Reject, FreeChain, FreeDocument,
     Descend, Release, FreeDone, PassOne
<1>4. QED
  BY <1>1, <1>2, <1>3 DEF Next, SmallActions
----------------------------------------------------------------------------
(* Pass 1 is done at s. *)
Ending(s) == s.scan.ptr \in 1 .. Len(text) /\ KindAt(s) = "final"

(* Pass 1 has come from Start to e, and is done. *)
Final(G, e) ==
    /\ Start \in G /\ e \in G /\ G \subseteq Snapshots
    /\ \A r \in G : Fits(r) /\ Below(r, e) /\ (Ending(r) \/ Continued(r, G))
    /\ "done" \in e.scan.flags
    /\ \A n \in 1 .. Len(e.vals) : e.named[n] <= e.vals[n].length

(***************************************************************************)
(* Pass 0 is where pass 1 was at s: what s had counted is filled, with     *)
(* blocks of the size that e has, and the rest of the chain is as pass 1   *)
(* left it.                                                                *)
(***************************************************************************)
SizeOf(v) == IF v.type \in Containers THEN v.length ELSE 0
RoomOf(v) == IF v.type = "string" THEN v.length + 1
             ELSE IF v.type \in Containers /\ v.length > 0 THEN v.names ELSE 0

(* v: the value of pass 0, u and w: those of s and e, names: how many have been met *)
Filled(v, u, w, names) ==
    /\ v.type = w.type /\ v.parent = w.parent
    /\ v.length = u.length /\ v.names = u.names
    /\ v.size = SizeOf(w) /\ v.room = RoomOf(w)
    /\ Len(v.kids) = SizeOf(u) /\ Len(v.keys) = names

Follows(s, e) ==
    /\ Scan = s.scan /\ flags \cap NumberFlags = {} /\ top = s.top
    /\ Len(values) = Len(e.vals)
    /\ alloc = IF Len(s.vals) < Len(e.vals) THEN Len(s.vals) + 1 ELSE 0
    /\ root = IF Len(s.vals) = 0 THEN 0 ELSE 1
    /\ \A n \in 1 .. Len(s.vals) : Filled(values[n], s.vals[n], e.vals[n], s.named[n])
    /\ \A n \in 1 .. Len(e.vals) : n > Len(s.vals) => values[n] = e.vals[n]

PassZero ==
    pc = "scan" /\ first_pass = 0 => \E G, e, s : Final(G, e) /\ s \in G /\ Follows(s, e)

(* At the end of the document everything has its value. *)
LEMMA NamesHaveValues ==
    ASSUME NEW S, NEW s \in Snapshots, Fits(s), Balanced(S, s), "done" \in s.scan.flags
    PROVE  \A n \in 1 .. Len(s.vals) : s.named[n] <= s.vals[n].length
BY DEF Balanced

(* Pass 0 begins. *)
LEMMA PassZeroBegins ==
    ASSUME Inv, PassOne, EndPass, first_pass = 1
    PROVE  PassZero'
<1>0. pc = "scan" /\ ChainEnds /\ Tracing /\ TypeOK
  BY PassOneIs DEF EndPass, Scanning, Inv
<1>1. PICK G, S, s : Trace(G, S, s) /\ (s = Now(s.named) \/ InNumberFrom(s))
  BY <1>0 DEF Tracing
<1>2. s \in Snapshots /\ Fits(s) /\ Balanced(S, s)
  BY <1>1 DEF Trace
<1>3. /\ Scanning(NUL) /\ IsDone /\ first_pass' = first_pass - 1
      /\ ptr' = 1 /\ flags' = {"seek_value"} /\ string_length' = 0
      /\ alloc' = root /\ top' = 0 /\ root' = 0 /\ UNCHANGED values
  BY DEF EndPass
<1>4. s = Now(s.named)
  BY <1>1, <1>2, <1>3, NumberMode DEF NotInNumber
<1>5. /\ s.top = top /\ s.vals = values /\ TypeAt(s) = TopType
      /\ s.scan.ptr = ptr /\ s.scan.flags = flags \ NumberFlags
      /\ text'[s.scan.ptr] = NUL /\ s.scan.ptr \in 1 .. Len(text')
      /\ text \in Seq(Chars) /\ text' \in Seq(Chars) /\ Extends
  BY <1>0, <1>3, <1>4, KindOfNow
<1>6. Trace(G, S, s)'
  BY <1>1, <1>5, TraceStays
<1>7. "done" \in s.scan.flags
  BY <1>3, <1>5 DEF IsDone, NumberFlags
<1>8. Ending(s)'
  <2>1. Kind(s.scan.flags, TypeAt(s), NUL) = "final"
    BY <1>3, <1>5 DEF IsDone, InJson, InString, InLineComment, InBlockComment, Scanning, Kind, AtDone,
       NumberFlags, Skippable, NUL, Blank, Newline, LineComment, BlockComment
  <2>2. KindAt(s)' = "final"
    BY <1>5, <2>1 DEF KindAt
  <2>3. QED
    BY <1>5, <2>2 DEF Ending
<1>9. Final(G, s)'
  <2>1. \A n \in 1 .. Len(s.vals) : s.named[n] <= s.vals[n].length
    BY <1>2, <1>7, NamesHaveValues
  <2>2. QED
    BY <1>6, <1>7, <1>8, <2>1 DEF Final, Trace
<1>10. Follows(Start, s)'
  <2>1. Len(Start.vals) = 0 /\ Start.top = 0 /\ Start.scan = [ptr |-> 1, flags |-> {"seek_value"}, sl |-> 0]
    BY DEF Start
  <2>2. Scan' = Start.scan /\ flags' \cap NumberFlags = {}
    BY <1>3, <2>1 DEF Scan, NumberFlags
  <2>3. Len(s.vals) \in Nat
    BY <1>2, SnapshotFields
  <2>4. alloc' = IF 0 < Len(s.vals) THEN 1 ELSE 0
    <3>1. s.vals = <<>> <=> Len(s.vals) = 0
      BY <1>2, SnapshotFields
    <3>2. QED
      BY <1>0, <1>3, <1>5, <2>3, <3>1 DEF ChainEnds
  <2>5. QED
    BY <1>3, <1>5, <2>1, <2>2, <2>3, <2>4 DEF Follows
<1>11. Start \in G
  BY <1>6 DEF Trace
<1>12. QED
  BY <1>9, <1>10, <1>11 DEF PassZero
(* The scanner of pass 0 is where the snapshot is. *)
LEMMA Following ==
    ASSUME TypeOK, NEW G, NEW e, NEW s \in G, Final(G, e), Follows(s, e)
    PROVE  /\ s \in Snapshots /\ e \in Snapshots /\ Fits(s) /\ Fits(e) /\ Below(s, e)
           /\ s.scan.ptr = ptr /\ s.scan.flags = flags /\ s.scan.sl = string_length /\ s.top = top
           /\ ptr \in 1 .. Len(text) /\ TypeAt(s) = TopType
           /\ Len(s.vals) \in Nat /\ Len(e.vals) \in Nat /\ Len(s.vals) <= Len(e.vals)
           /\ \A b : Scanning(b) => b = text[ptr] /\ text' = text
           /\ KindAt(s) = Kind(flags, TopType, text[ptr])
<1>1. s \in Snapshots /\ e \in Snapshots /\ Fits(s) /\ Fits(e) /\ Below(s, e)
  BY DEF Final
<1>2. s.scan.ptr = ptr /\ s.scan.flags = flags /\ s.scan.sl = string_length /\ s.top = top
  <2>1. s.scan.ptr = ptr /\ s.scan.flags = flags \ NumberFlags /\ s.scan.sl = string_length
    BY DEF Follows, Scan
  <2>2. flags \cap NumberFlags = {} /\ s.top = top
    BY DEF Follows
  <2>3. flags \ NumberFlags = flags
    BY <2>2
  <2>4. QED
    BY <2>1, <2>2, <2>3
<1>3. Len(s.vals) \in Nat /\ Len(e.vals) \in Nat /\ Len(s.vals) <= Len(e.vals)
  BY <1>1, SnapshotFields DEF Below
<1>4. ptr \in 1 .. Len(text)
  BY <1>2 DEF Final, Ending, Continued
<1>5. TypeAt(s) = TopType
  <2>1. CASE top = 0
    BY <1>2, <2>1 DEF TypeAt, TopType
  <2>2. CASE top # 0
    <3>1. top \in 1 .. Len(s.vals)
      BY <1>1, <1>2, <1>3, <2>2 DEF Fits
    <3>2. values[top].type = e.vals[top].type
      BY <3>1 DEF Follows, Filled
    <3>3. s.vals[top].type = e.vals[top].type
      BY <1>1, <3>1 DEF Below
    <3>4. QED
      BY <1>2, <2>2, <3>2, <3>3 DEF TypeAt, TopType
  <2>3. QED
    BY <2>1, <2>2
<1>6. ASSUME NEW b, Scanning(b)
      PROVE  b = text[ptr] /\ text' = text
  <2>1. ptr <= Len(text)
    BY <1>4, Position
  <2>2. QED
    BY <1>6, <2>1 DEF Scanning, Readable
<1>7. KindAt(s) = Kind(flags, TopType, text[ptr])
  BY <1>2, <1>5 DEF KindAt
<1>8. QED
  BY <1>1, <1>2, <1>3, <1>4, <1>5, <1>6, <1>7

(* What it has to do next has been done in pass 1. *)
LEMMA DoneBefore ==
    ASSUME NEW G, NEW e, NEW s \in G, Final(G, e), KindAt(s) # "final"
    PROVE  \E t \in G : Leads(s, t)
BY DEF Final, Ending, Continued

(* What pass 1 did is a matter of the text. *)
LEMMA FinalStays ==
    ASSUME NEW G, NEW e, Final(G, e), text' = text
    PROVE  Final(G, e)'
<1>1. ASSUME NEW r \in G
      PROVE  (Ending(r) \/ Continued(r, G))'
  <2>1. KindAt(r)' = KindAt(r)
    BY DEF KindAt
  <2>2. CASE Ending(r)
    BY <2>1, <2>2 DEF Ending
  <2>3. CASE Continued(r, G)
    <3>1. PICK t \in G : Leads(r, t)
      BY <2>3 DEF Continued
    <3>2. NumberRead(r, t)' <=> NumberRead(r, t)
      BY DEF NumberRead
    <3>3. Leads(r, t)'
      BY <2>1, <3>1, <3>2 DEF Leads
    <3>4. QED
      BY <2>3, <3>3 DEF Continued
  <2>4. QED
    BY <2>2, <2>3 DEF Final
<1>2. QED
  BY <1>1 DEF Final

(* A value of the chain, as pass 1 left it, with what e has. *)
LEMMA LeftByPassOne ==
    ASSUME NEW e \in Snapshots, Fits(e), NEW n \in 1 .. Len(e.vals)
    PROVE  LET w == e.vals[n] IN
           /\ w \in Records /\ w.length \in Nat /\ w.names \in Nat
           /\ w.kids = <<>> /\ w.keys = <<>> /\ w.size = 0 /\ w.room = 0
           /\ w.type \notin Containers \cup {"string"} => w.length = 0
           /\ w.type # "object" => w.names = 0
           /\ e.named[n] = 0 => w.names = 0
<1>1. Counted(e, n)
  BY DEF Fits
<1>2. QED
  BY <1>1, CountedFields DEF Counted

(* It is taken, and gets its block. *)
Took(v, w) == v = IF HasData(w) THEN WithData(w) ELSE w

(* Nothing is in it yet. *)
LEMMA TookIs ==
    ASSUME NEW w \in Records, NEW v, Took(v, w), NEW u, Blank0(u, w.type, w.parent),
           w.kids = <<>>, w.keys = <<>>, w.size = 0, w.room = 0,
           w.type \notin Containers \cup {"string"} => w.length = 0,
           w.type # "object" => w.names = 0,
           w.length = 0 => w.names = 0
    PROVE  Filled(v, u, w, 0)
<1>0. w.length \in Nat /\ w.names \in Nat /\ w.length + 1 \in Nat
  BY RecordFields
<1>1. u.length = 0 /\ u.names = 0 /\ SizeOf(u) = 0
  BY DEF Blank0, SizeOf
<1>2. CASE w.type = "string"
  <2>1. v = [w EXCEPT !.room = w.length + 1, !.length = 0]
    BY <1>2 DEF Took, HasData, WithData
  <2>2. /\ v.type = w.type /\ v.parent = w.parent /\ v.length = 0 /\ v.names = w.names
        /\ v.size = w.size /\ v.room = w.length + 1 /\ v.kids = w.kids /\ v.keys = w.keys
    BY <1>0, <2>1 DEF Records
  <2>3. QED
    BY <1>1, <1>2, <2>2 DEF Filled, SizeOf, RoomOf, Containers
<1>3. CASE w.type \in Containers /\ w.length > 0
  <2>1. v = [w EXCEPT !.size = w.length, !.room = w.names, !.length = 0, !.names = 0]
    BY <1>3 DEF Took, HasData, WithData, Containers
  <2>2. /\ v.type = w.type /\ v.parent = w.parent /\ v.length = 0 /\ v.names = 0
        /\ v.size = w.length /\ v.room = w.names /\ v.kids = w.kids /\ v.keys = w.keys
    BY <1>0, <2>1 DEF Records
  <2>3. QED
    BY <1>1, <1>3, <2>2 DEF Filled, SizeOf, RoomOf, Containers
<1>4. CASE w.type # "string" /\ ~(w.type \in Containers /\ w.length > 0)
  <2>1. v = w
    BY <1>4 DEF Took, HasData, Containers
  <2>2. w.length = 0 /\ w.names = 0
    BY <1>0, <1>4
  <2>3. QED
    BY <1>1, <1>4, <2>1, <2>2 DEF Filled, SizeOf, RoomOf
<1>5. QED
  BY <1>2, <1>3, <1>4
(* A value is taken where pass 1 met it. *)
LEMMA TakenFollows ==
    ASSUME TypeOK, NEW G, NEW e, NEW s \in G, NEW t \in G, Final(G, e), Follows(s, e),
           NEW type \in Types, NEW u \in Records, Blank0(u, type, s.top), Appended(t.vals, s.vals, u),
           t.named = s.named, t.top = Len(s.vals) + 1,
           Scan' = t.scan, flags' \cap NumberFlags = {}, NEW ty, NewValue(ty), first_pass = 0
    PROVE  Follows(t, e)'
<1>1. /\ s \in Snapshots /\ t \in Snapshots /\ e \in Snapshots
      /\ Fits(s) /\ Fits(t) /\ Fits(e) /\ Below(s, e) /\ Below(t, e)
  BY DEF Final
<1>2. /\ Len(s.vals) \in Nat /\ Len(t.vals) \in Nat /\ Len(e.vals) \in Nat
      /\ Len(t.vals) = Len(s.vals) + 1 /\ Len(t.vals) <= Len(e.vals)
  BY <1>1, SnapshotFields DEF Below, Appended
<1> DEFINE m == Len(s.vals) + 1
           w == e.vals[m]
<1>3. m \in 1 .. Len(e.vals) /\ m \in 1 .. Len(t.vals) /\ m \in Nat /\ m # 0
  BY <1>2
<1>4. alloc = m /\ Len(values) = Len(e.vals) /\ values[m] = w
  <2>1. Len(s.vals) < Len(e.vals) /\ m > Len(s.vals)
    BY <1>2
  <2>2. QED
    BY <1>3, <2>1 DEF Follows
<1>5. /\ TakeValue
      /\ values' = IF HasData(w) THEN [values EXCEPT ![m] = WithData(w)] ELSE values
  <2>1. TakeValue /\ (IF HasData(values[alloc])
                      THEN values' = [values EXCEPT ![alloc] = WithData(@)]
                      ELSE UNCHANGED values)
    BY DEF NewValue, AppendValue
  <2>2. QED
    BY <1>3, <1>4, <2>1
<1>6. /\ w \in Records /\ w.length \in Nat /\ w.names \in Nat
      /\ w.kids = <<>> /\ w.keys = <<>> /\ w.size = 0 /\ w.room = 0
      /\ w.type \notin Containers \cup {"string"} => w.length = 0
      /\ w.type # "object" => w.names = 0
      /\ e.named[m] = 0 => w.names = 0
  BY <1>1, <1>3, LeftByPassOne
<1>7. w.length = 0 => w.names = 0
  <2>1. e.named[m] \in Nat /\ e.named[m] <= w.length
    BY <1>1, <1>3, CountedFields DEF Final
  <2>2. w.length = 0 => e.named[m] = 0
    BY <2>1
  <2>3. QED
    BY <1>6, <2>2
<1>8. Blank0(u, w.type, w.parent) /\ t.vals[m] = u
  <2>1. t.vals[m] = u
    BY DEF Appended
  <2>2. t.vals[m].type = w.type /\ t.vals[m].parent = w.parent
    BY <1>1, <1>3 DEF Below
  <2>3. QED
    BY <2>1, <2>2 DEF Blank0
<1>9. values \in Seq(Records)
  BY DEF TypeOK
<1> HIDE DEF m, w
<1>10. PICK v \in Records : Took(v, w) /\ Len(values') = Len(values)
          /\ \A n \in 1 .. Len(values) : values'[n] = IF n = m THEN v ELSE values[n]
  <2>1. CASE HasData(w)
    <3>1. WithData(w) \in Records
      BY <1>6, WithDataType
    <3>2. Changed([values EXCEPT ![m] = WithData(w)], values, m, WithData(w))
      BY <1>3, <1>4, <1>9, <3>1, ExceptIs
    <3>3. QED
      BY <1>5, <2>1, <3>1, <3>2 DEF Changed, Took
  <2>2. CASE ~HasData(w)
    BY <1>3, <1>4, <1>5, <1>6, <2>2 DEF Took
  <2>3. QED
    BY <2>1, <2>2
<1>11. Filled(v, u, w, 0)
  BY <1>6, <1>7, <1>8, <1>10, TookIs
<1>12. s.named[m] = 0
  <2>1. m > Len(s.vals)
    BY <1>2 DEF m
  <2>2. QED
    BY <1>1, <1>3, <2>1 DEF Fits
<1>13. top' = t.top /\ Len(values') = Len(e.vals)
  BY <1>4, <1>5, <1>10 DEF TakeValue, m
<1>14. alloc' = IF Len(t.vals) < Len(e.vals) THEN Len(t.vals) + 1 ELSE 0
  BY <1>2, <1>4, <1>5 DEF TakeValue, m
<1>15. root' = IF Len(t.vals) = 0 THEN 0 ELSE 1
  <2>1. root = IF Len(s.vals) = 0 THEN 0 ELSE 1
    BY DEF Follows
  <2>2. root' = IF root = 0 THEN m ELSE root
    BY <1>4, <1>5 DEF TakeValue
  <2>3. QED
    BY <1>2, <2>1, <2>2 DEF m
<1>16. ASSUME NEW n \in 1 .. Len(t.vals)
       PROVE  Filled(values'[n], t.vals[n], e.vals[n], t.named[n])
  <2>1. n \in 1 .. Len(values)
    BY <1>2, <1>4
  <2>2. CASE n = m
    BY <1>8, <1>10, <1>11, <1>12, <2>1, <2>2 DEF w
  <2>3. CASE n # m
    <3>1. n \in 1 .. Len(s.vals)
      BY <1>2, <2>3 DEF m
    <3>2. values'[n] = values[n] /\ t.vals[n] = s.vals[n]
      BY <1>10, <2>1, <2>3, <3>1 DEF Appended
    <3>3. QED
      BY <3>1, <3>2 DEF Follows
  <2>4. QED
    BY <2>2, <2>3
<1>17. ASSUME NEW n \in 1 .. Len(e.vals), n > Len(t.vals)
       PROVE  values'[n] = e.vals[n]
  <2>1. n \in 1 .. Len(values) /\ n # m /\ n > Len(s.vals)
    BY <1>2, <1>4, <1>17 DEF m
  <2>2. QED
    BY <1>10, <2>1 DEF Follows
<1>18. QED
  BY <1>13, <1>14, <1>15, <1>16, <1>17 DEF Follows
(* A value changes as it did in pass 1. *)
LEMMA ChangedFollows ==
    ASSUME NEW G, NEW e, NEW s \in G, NEW t \in G, Final(G, e), Follows(s, e),
           NEW m \in 1 .. Len(s.vals), NEW u, NEW v,
           Changed(t.vals, s.vals, m, u), Changed(values', values, m, v),
           Filled(v, u, e.vals[m], t.named[m]), \A n \in Nat : n # m => t.named[n] = s.named[n],
           Scan' = t.scan, flags' \cap NumberFlags = {}, top' = t.top, UNCHANGED <<root, alloc>>
    PROVE  Follows(t, e)'
<1>1. s \in Snapshots /\ e \in Snapshots /\ Below(s, e)
  BY DEF Final
<1>2. Len(s.vals) \in Nat /\ Len(e.vals) \in Nat /\ Len(s.vals) <= Len(e.vals) /\ m \in Nat
  BY <1>1, SnapshotFields DEF Below
<1>3. Len(t.vals) = Len(s.vals) /\ Len(values') = Len(values) /\ Len(values) = Len(e.vals)
  BY DEF Changed, Follows
<1>4. ASSUME NEW n \in 1 .. Len(s.vals)
      PROVE  Filled(values'[n], t.vals[n], e.vals[n], t.named[n])
  <2>0. n \in 1 .. Len(values) /\ n \in Nat
    BY <1>2, <1>3
  <2>1. CASE n = m
    BY <2>0, <2>1 DEF Changed
  <2>2. CASE n # m
    <3>1. values'[n] = values[n] /\ t.vals[n] = s.vals[n] /\ t.named[n] = s.named[n]
      BY <2>0, <2>2 DEF Changed
    <3>2. QED
      BY <3>1 DEF Follows
  <2>3. QED
    BY <2>1, <2>2
<1>5. ASSUME NEW n \in 1 .. Len(e.vals), n > Len(s.vals)
      PROVE  values'[n] = e.vals[n]
  <2>1. n \in 1 .. Len(values) /\ n # m
    BY <1>2, <1>3, <1>5
  <2>2. QED
    BY <1>5, <2>1 DEF Changed, Follows
<1>6. QED
  BY <1>3, <1>4, <1>5 DEF Follows

(* A step that is neither of a number nor the end of a value. *)
LEMMA PassZeroSmall ==
    ASSUME Inv, NEW G, NEW e, NEW s \in G, Final(G, e), Follows(s, e), first_pass = 0,
           NEW k, NEW b, Small(k, b)
    PROVE  PassZero'
<1>0. TypeOK
  BY DEF Inv
<1>1. /\ s \in Snapshots /\ e \in Snapshots /\ Fits(s) /\ Fits(e) /\ Below(s, e)
      /\ s.scan.ptr = ptr /\ s.scan.flags = flags /\ s.scan.sl = string_length /\ s.top = top
      /\ ptr \in 1 .. Len(text) /\ TypeAt(s) = TopType
      /\ Len(s.vals) \in Nat /\ Len(e.vals) \in Nat /\ Len(s.vals) <= Len(e.vals)
      /\ KindAt(s) = Kind(flags, TopType, text[ptr])
  BY <1>0, Following
<1>2. /\ Scanning(b) /\ k = Kind(flags \ NumberFlags, TopType, b)
      /\ k \notin {"stuck", "final", "finish", "number"}
      /\ Scan' = ScanAfter(k, b, Scan) /\ Tree(k, b) /\ flags' \cap NumberFlags \subseteq flags
  BY DEF Small
<1>3. b = text[ptr] /\ text' = text
  BY <1>0, <1>2, Following
<1>4. flags \ NumberFlags = flags /\ flags' \cap NumberFlags = {}
  BY <1>2 DEF Follows
<1>5. KindAt(s) = k
  BY <1>1, <1>2, <1>3, <1>4
<1>6. PICK t \in G : Leads(s, t)
  BY <1>2, <1>5, DoneBefore
<1>7. Scan' = t.scan /\ Grown(k, b, s, t) /\ t \in Snapshots
  BY <1>1, <1>2, <1>3, <1>5, <1>6 DEF Leads, Follows, Final
<1>8. Final(G, e)'
  BY <1>3, FinalStays
<1>9. Meaning(k, flags, TopType, b)
  BY <1>2, <1>4, KindMeans
<1>10. values \in Seq(Records) /\ Len(values) = Len(e.vals)
  BY <1>0 DEF TypeOK, Follows
<1>11. Follows(t, e)'
  <2>1. CASE k = "open"
    <3>1. NewValue(TypeOfStart(b))
      BY <1>2, <2>1 DEF Tree
    <3>2. TypeOfStart(b) \in Types
      BY <1>9, <2>1 DEF Meaning, TypeOfStart, Types
    <3>3. s.vals \in Seq(Records) /\ s.top \in Nat
      BY <1>1, SnapshotFields
    <3> DEFINE u == NewRecord(TypeOfStart(b), s.top)
    <3>4. u \in Records /\ Blank0(u, TypeOfStart(b), s.top)
      BY <3>2, <3>3, NewRecordIs
    <3>5. t.vals = Append(s.vals, u) /\ t.top = Len(s.vals) + 1 /\ t.named = s.named
      BY <1>7, <2>1 DEF Grown
    <3> HIDE DEF u
    <3>6. Appended(t.vals, s.vals, u)
      BY <3>3, <3>4, <3>5, AppendIs
    <3>7. QED
      BY <1>0, <1>4, <1>7, <3>1, <3>2, <3>4, <3>5, <3>6, TakenFollows
  <2>2. CASE k \in {"closestring", "closename"}
    <3>1. "string" \in flags
      BY <1>9, <2>2 DEF Meaning
    <3>2. top # 0 /\ top \in 1 .. Len(s.vals) /\ top \in 1 .. Len(values)
      <4>1. top # 0 /\ top \in 0 .. Len(s.vals)
        BY <1>1, <3>1 DEF Fits
      <4>2. QED
        BY <1>1, <1>10, <4>1
    <3>3. Filled(values[top], s.vals[top], e.vals[top], s.named[top])
      BY <3>2 DEF Follows
    <3>4. s.vals[top] \in Records /\ s.vals[top].type = values[top].type /\ values[top] \in Records
          /\ s.vals \in Seq(Records)
      <4>1. s.vals[top].type = e.vals[top].type
        BY <1>1, <3>2 DEF Below
      <4>2. s.vals[top] \in Records /\ s.vals \in Seq(Records)
        BY <1>1, <3>2, CountedFields, SnapshotFields
      <4>3. values[top] \in Records
        BY <1>10, <3>2
      <4>4. QED
        BY <3>3, <4>1, <4>2, <4>3 DEF Filled
    <3>5. UNCHANGED <<top, root, alloc>>
      BY <1>2, <2>2 DEF Tree
    <3>6. CASE k = "closestring"
      <4> DEFINE u == [s.vals[top] EXCEPT !.length = string_length]
                 v == [values[top] EXCEPT !.length = string_length]
      <4>1. values' = [values EXCEPT ![top] = v] /\ t.vals = [s.vals EXCEPT ![top] = u] /\ t.top = top
            /\ t.named = s.named
        BY <1>1, <1>2, <1>7, <3>6 DEF Tree, Grown
      <4>2. string_length \in Nat
        BY <1>0 DEF TypeOK
      <4>3. /\ u \in Records /\ u.length = string_length /\ u.names = s.vals[top].names
            /\ u.type = s.vals[top].type
            /\ v \in Records /\ v.length = string_length /\ v.names = values[top].names
            /\ v.type = values[top].type /\ v.parent = values[top].parent
            /\ v.size = values[top].size /\ v.room = values[top].room
            /\ v.kids = values[top].kids /\ v.keys = values[top].keys
        BY <3>4, <4>2 DEF Records
      <4>4. values[top].type = "string"
        BY <1>9, <3>2, <3>6 DEF Meaning, TopType
      <4> HIDE DEF u, v
      <4>5. Filled(v, u, e.vals[top], t.named[top])
        BY <3>3, <3>4, <4>1, <4>3, <4>4 DEF Filled, SizeOf, Containers
      <4>6. Changed(t.vals, s.vals, top, u) /\ Changed(values', values, top, v)
        <5>1. Changed([s.vals EXCEPT ![top] = u], s.vals, top, u)
          BY <3>2, <3>4, <4>3, ExceptIs
        <5>2. Changed([values EXCEPT ![top] = v], values, top, v)
          BY <1>10, <3>2, <4>3, ExceptIs
        <5>3. QED
          BY <4>1, <5>1, <5>2
      <4>7. QED
        BY <1>4, <1>7, <3>2, <3>5, <4>1, <4>5, <4>6, ChangedFollows
    <3>7. CASE k = "closename"
      <4> DEFINE names == values[top].names + string_length + 1
                 u == [s.vals[top] EXCEPT !.names = names]
                 v == [values[top] EXCEPT !.names = names, !.keys = Append(@, string_length)]
      <4>0. s.vals[top].names = values[top].names
        BY <3>3 DEF Filled
      <4>1. values' = [values EXCEPT ![top] = v] /\ t.vals = [s.vals EXCEPT ![top] = u] /\ t.top = top
            /\ t.named = [s.named EXCEPT ![top] = @ + 1]
        <5>1. values' = [values EXCEPT ![top].names = @ + string_length + 1,
                                       ![top].keys = Append(@, string_length)]
          BY <1>2, <3>7 DEF Tree
        <5>2. values' = [values EXCEPT ![top] = v]
          BY <3>2, <5>1
        <5>3. t.vals = [s.vals EXCEPT ![top] = u] /\ t.top = top /\ t.named = [s.named EXCEPT ![top] = @ + 1]
          BY <1>1, <1>7, <3>2, <3>7, <4>0 DEF Grown
        <5>4. QED
          BY <5>2, <5>3
      <4>2. string_length \in Nat /\ names \in Nat /\ values[top].keys \in Seq(Nat)
        <5>1. string_length \in Nat /\ values[top].names \in Nat /\ values[top].keys \in Seq(Nat)
          BY <1>0, <3>4, RecordFields DEF TypeOK
        <5>2. QED
          BY <5>1
      <4>9. Append(values[top].keys, string_length) \in Seq(Nat)
            /\ Len(Append(values[top].keys, string_length)) = Len(values[top].keys) + 1
        BY <4>2
      <4> HIDE DEF names
      <4>3. /\ u \in Records /\ u.names = names /\ u.length = s.vals[top].length
            /\ u.type = s.vals[top].type
            /\ v \in Records /\ v.names = names /\ v.length = values[top].length
            /\ v.type = values[top].type /\ v.parent = values[top].parent
            /\ v.size = values[top].size /\ v.room = values[top].room
            /\ v.kids = values[top].kids /\ v.keys = Append(values[top].keys, string_length)
        BY <3>4, <4>2, <4>9 DEF Records
      <4> HIDE DEF u, v
      <4>4. s.named \in [Nat -> Nat] /\ top \in Nat
        BY <1>1, SnapshotFields
      <4>5. t.named[top] = s.named[top] + 1 /\ \A n \in Nat : n # top => t.named[n] = s.named[n]
        BY <4>1, <4>4
      <4>6. Filled(v, u, e.vals[top], t.named[top])
        <5>1. Len(v.keys) = t.named[top]
          BY <3>3, <4>3, <4>5, <4>9 DEF Filled
        <5>2. SizeOf(u) = SizeOf(s.vals[top])
          BY <4>3 DEF SizeOf
        <5>3. QED
          BY <3>3, <4>3, <5>1, <5>2 DEF Filled
      <4>7. Changed(t.vals, s.vals, top, u) /\ Changed(values', values, top, v)
        <5>1. Changed([s.vals EXCEPT ![top] = u], s.vals, top, u)
          BY <3>2, <3>4, <4>3, ExceptIs
        <5>2. Changed([values EXCEPT ![top] = v], values, top, v)
          BY <1>10, <3>2, <4>3, ExceptIs
        <5>3. QED
          BY <4>1, <5>1, <5>2
      <4>10. flags' \cap NumberFlags = {} /\ Scan' = t.scan /\ top' = t.top /\ UNCHANGED <<root, alloc>>
        BY <1>4, <1>7, <3>5, <4>1
      <4>8. QED
        BY <3>2, <4>5, <4>6, <4>7, <4>10, ChangedFollows
    <3>8. QED
      BY <2>2, <3>6, <3>7
  <2>3. CASE k \notin {"open", "closestring", "closename"}
    <3>1. t.vals = s.vals /\ t.top = s.top /\ t.named = s.named /\ UNCHANGED <<values, top, root, alloc>>
      BY <1>2, <1>7, <2>3 DEF Grown, Tree, tree
    <3>2. QED
      BY <1>4, <1>7, <3>1 DEF Follows
  <2>4. QED
    BY <2>1, <2>2, <2>3
<1>12. QED
  BY <1>8, <1>11 DEF PassZero
(* The end of a value. *)
LEMMA PassZeroFinishes ==
    ASSUME Inv, NEW G, NEW e, NEW s \in G, Final(G, e), Follows(s, e), first_pass = 0, FinishValue
    PROVE  PassZero'
<1>0. TypeOK /\ TreeOK /\ FlagsOK
  BY TreeOfInv DEF Inv, FinishValue
<1>1. /\ s \in Snapshots /\ e \in Snapshots /\ Fits(s) /\ Fits(e) /\ Below(s, e)
      /\ s.scan.ptr = ptr /\ s.scan.flags = flags /\ s.scan.sl = string_length /\ s.top = top
      /\ Len(s.vals) \in Nat /\ Len(e.vals) \in Nat /\ Len(s.vals) <= Len(e.vals)
      /\ KindAt(s) = Kind(flags, TopType, text[ptr])
  BY <1>0, Following
<1>2. "next" \in flags /\ top # 0 /\ text' = text
  BY <1>0 DEF FinishValue, FlagsOK
<1>3. KindAt(s) = "finish"
  BY <1>1, <1>2 DEF Kind
<1>4. PICK t \in G : Leads(s, t)
  BY <1>3, DoneBefore
<1>5. Finished(s, t) /\ t \in Snapshots
  BY <1>3, <1>4 DEF Leads, Final
<1>6. Final(G, e)'
  BY <1>2, FinalStays
<1> DEFINE p == values[top].parent
<1>7. top \in 1 .. Len(s.vals)
  BY <1>1, <1>2 DEF Fits
<1>8. Filled(values[top], s.vals[top], e.vals[top], s.named[top])
  BY <1>7 DEF Follows
<1>9. s.vals[top].parent = p
  <2>1. s.vals[top].parent = e.vals[top].parent
    BY <1>1, <1>7 DEF Below
  <2>2. QED
    BY <1>8, <2>1 DEF Filled
<1>10. /\ p \in 0 .. top - 1 /\ p \in Nat
       /\ p # 0 => p \in 1 .. Len(s.vals) /\ s.vals[p].type \in Containers
  <2>1. Counted(s, top)
    BY <1>1, <1>7 DEF Fits
  <2>2. p \in 0 .. top - 1 /\ (p # 0 => s.vals[p].type \in Containers)
    BY <1>9, <2>1 DEF Counted
  <2>3. top \in Nat /\ top <= Len(s.vals)
    BY <1>1, <1>7
  <2>4. QED
    BY <1>1, <2>2, <2>3
<1>15. p # 0 => /\ Filled(values[p], s.vals[p], e.vals[p], s.named[p])
                /\ s.vals[p].type = values[p].type
  <2>1. ASSUME p # 0
        PROVE  /\ Filled(values[p], s.vals[p], e.vals[p], s.named[p])
               /\ s.vals[p].type = values[p].type
    <3>1. p \in 1 .. Len(s.vals)
      BY <1>10, <2>1
    <3>2. Filled(values[p], s.vals[p], e.vals[p], s.named[p])
      BY <3>1 DEF Follows
    <3>3. s.vals[p].type = e.vals[p].type
      BY <1>1, <3>1 DEF Below
    <3>4. QED
      BY <3>2, <3>3 DEF Filled
  <2>2. QED
    BY <2>1
<1> HIDE DEF p
<1>11. /\ ptr' = IF "reproc" \in flags THEN ptr ELSE ptr + 1
       /\ flags' = (flags \ {"next", "reproc"}) \cup {"need_comma"}
            \cup (IF p = 0 THEN {"done"} ELSE IF values[p].type = "array" THEN {"seek_value"} ELSE {})
       /\ IF p = 0 THEN UNCHANGED <<top, values>>
          ELSE /\ top' = p
               /\ values' = [values EXCEPT ![p].length = @ + 1, ![p].kids = Append(@, top)]
       /\ UNCHANGED <<string_length, root, alloc>>
  BY DEF FinishValue, p
<1>12. flags' \cap NumberFlags = {}
  <2>1. flags \cap NumberFlags = {}
    BY DEF Follows
  <2>2. QED
    BY <1>11, <2>1 DEF NumberFlags
<1>13. Scan' = t.scan
  <2>1. p # 0 => s.vals[p].type = values[p].type
    BY <1>15
  <2>2. t.scan = [ptr |-> IF "reproc" \in flags THEN ptr ELSE ptr + 1,
                  flags |-> (flags \ {"next", "reproc"}) \cup {"need_comma"}
                    \cup (IF p = 0 THEN {"done"}
                          ELSE IF s.vals[p].type = "array" THEN {"seek_value"} ELSE {}),
                  sl |-> string_length]
    BY <1>1, <1>5, <1>9 DEF Finished
  <2>3. t.scan = [ptr |-> ptr', flags |-> flags', sl |-> string_length']
    BY <1>11, <2>1, <2>2
  <2>4. flags' \ NumberFlags = flags'
    BY <1>12
  <2>5. QED
    BY <2>3, <2>4 DEF Scan
<1>14. Follows(t, e)'
  <2>1. CASE p = 0
    <3>1. t.top = s.top /\ t.vals = s.vals /\ t.named = s.named /\ UNCHANGED <<top, values, root, alloc>>
      BY <1>1, <1>5, <1>9, <1>11, <2>1 DEF Finished
    <3>2. QED
      BY <1>12, <1>13, <3>1 DEF Follows
  <2>2. CASE p # 0
    <3> DEFINE u == [s.vals[p] EXCEPT !.length = @ + 1]
               v == [values[p] EXCEPT !.length = @ + 1, !.kids = Append(@, top)]
    <3>1. /\ p \in 1 .. Len(s.vals) /\ s.vals[p].type \in Containers
          /\ Filled(values[p], s.vals[p], e.vals[p], s.named[p])
          /\ s.vals[p].type = values[p].type
      BY <1>10, <1>15, <2>2
    <3>2. values \in Seq(Records) /\ s.vals \in Seq(Records) /\ Len(values) = Len(e.vals)
          /\ p \in 1 .. Len(values)
      <4>1. values \in Seq(Records) /\ s.vals \in Seq(Records) /\ Len(values) = Len(e.vals)
        BY <1>0, <1>1, SnapshotFields DEF TypeOK, Follows
      <4>2. QED
        BY <1>1, <3>1, <4>1
    <3>3. s.vals[p] \in Records /\ values[p] \in Records
      BY <3>1, <3>2
    <3>4. values[p].kids \in Seq(Nat) /\ top \in Nat /\ s.vals[p].length \in Nat /\ values[p].length \in Nat
      BY <1>1, <1>7, <3>3, RecordFields
    <3>5. /\ Append(values[p].kids, top) \in Seq(Nat)
          /\ Len(Append(values[p].kids, top)) = Len(values[p].kids) + 1
      BY <3>4
    <3>6. s.vals[p].length + 1 \in Nat /\ values[p].length + 1 \in Nat
      BY <3>4
    <3>7. /\ u \in Records /\ u.length = s.vals[p].length + 1 /\ u.names = s.vals[p].names
          /\ u.type = s.vals[p].type
          /\ v \in Records /\ v.length = values[p].length + 1 /\ v.names = values[p].names
          /\ v.type = values[p].type /\ v.parent = values[p].parent
          /\ v.size = values[p].size /\ v.room = values[p].room
          /\ v.kids = Append(values[p].kids, top) /\ v.keys = values[p].keys
      BY <3>3, <3>5, <3>6 DEF Records
    <3>8. t.vals = [s.vals EXCEPT ![p] = u] /\ t.top = p /\ t.named = s.named
      BY <1>1, <1>5, <1>9, <2>2 DEF Finished
    <3>9. values' = [values EXCEPT ![p] = v] /\ top' = p /\ UNCHANGED <<root, alloc>>
      BY <1>11, <2>2, <3>2
    <3> HIDE DEF u, v
    <3>10. Filled(v, u, e.vals[p], t.named[p])
      BY <3>1, <3>5, <3>7, <3>8 DEF Filled, SizeOf
    <3>11. Changed(t.vals, s.vals, p, u) /\ Changed(values', values, p, v)
      <4>1. Changed([s.vals EXCEPT ![p] = u], s.vals, p, u)
        BY <3>1, <3>2, <3>7, ExceptIs
      <4>2. Changed([values EXCEPT ![p] = v], values, p, v)
        BY <3>2, <3>7, ExceptIs
      <4>3. QED
        BY <3>8, <3>9, <4>1, <4>2
    <3>12. \A n \in Nat : n # p => t.named[n] = s.named[n]
      BY <3>8
    <3>13. top' = t.top /\ UNCHANGED <<root, alloc>>
      BY <3>8, <3>9
    <3>14. QED
      BY <1>12, <1>13, <3>1, <3>10, <3>11, <3>12, <3>13, ChangedFollows
  <2>3. QED
    BY <2>1, <2>2
<1>16. QED
  BY <1>6, <1>14 DEF PassZero

(* Behind a number comes nothing that looks like one. *)
LEMMA NumberIsAll ==
    ASSUME NEW G, NEW e, NEW s \in G, NEW t \in G, Final(G, e), KindAt(s) = "number", NumberRead(s, t)
    PROVE  text[t.scan.ptr] \notin Skipped
<1>0. s \in Snapshots /\ t \in Snapshots /\ Fits(t)
  BY DEF Final
<1>1. t.scan.flags = (s.scan.flags \ {"seek_value"}) \cup {"next", "reproc"}
  BY DEF NumberRead
<1>2. KindAt(t) = "finish"
  BY <1>1 DEF KindAt, Kind
<1>3. PICK u \in G : Leads(t, u)
  BY <1>2, DoneBefore
<1>4. Finished(t, u) /\ Fits(u)
  BY <1>2, <1>3 DEF Leads, Final
<1>5. /\ u.scan.ptr = t.scan.ptr
      /\ "need_comma" \in u.scan.flags
      /\ u.scan.flags \subseteq (t.scan.flags \ {"next", "reproc"}) \cup {"need_comma", "done", "seek_value"}
  <2> DEFINE X == IF t.vals[t.top].parent = 0 THEN {"done"}
                  ELSE IF t.vals[t.vals[t.top].parent].type = "array" THEN {"seek_value"} ELSE {}
  <2>1. u.scan = [ptr |-> IF "reproc" \in t.scan.flags THEN t.scan.ptr ELSE t.scan.ptr + 1,
                  flags |-> (t.scan.flags \ {"next", "reproc"}) \cup {"need_comma"} \cup X,
                  sl |-> t.scan.sl]
    BY <1>4 DEF Finished
  <2>2. X \subseteq {"done", "seek_value"}
    OBVIOUS
  <2> HIDE DEF X
  <2>3. /\ u.scan.ptr = IF "reproc" \in t.scan.flags THEN t.scan.ptr ELSE t.scan.ptr + 1
        /\ u.scan.flags = (t.scan.flags \ {"next", "reproc"}) \cup {"need_comma"} \cup X
    BY <2>1
  <2>4. "reproc" \in t.scan.flags
    BY <1>1
  <2>5. QED
    BY <2>2, <2>3, <2>4
<1>6. Meaning("number", s.scan.flags, TypeAt(s), text[s.scan.ptr])
  BY KindMeans DEF KindAt
<1>7. u.scan.flags \cap {"next", "string", "line_comment", "block_comment"} = {}
  BY <1>1, <1>5, <1>6 DEF Meaning
<1>8. KindAt(u) # "stuck"
  <2>1. Ending(u) \/ Continued(u, G)
    BY DEF Final
  <2>2. QED
    BY <2>1 DEF Ending, Continued, Leads
<1>9. ASSUME text[u.scan.ptr] \in Skipped
      PROVE  KindAt(u) = "stuck"
  <2>1. text[u.scan.ptr] \notin Skippable \cup {NUL, "]", "}", ",", Quote}
    BY <1>9 DEF Skipped, Digits, Signs, Skippable, NUL, Quote, Blank, Newline, LineComment, BlockComment
  <2>2. QED
    BY <1>5, <1>7, <2>1 DEF KindAt, Kind, AtDone, AtSeek, AtObject
<1>10. QED
  BY <1>5, <1>8, <1>9
(* A number is skipped as far as pass 1 had read it. *)
LEMMA PassZeroSkips ==
    ASSUME Inv, NEW G, NEW e, NEW s \in G, Final(G, e), Follows(s, e), first_pass = 0, SkipNumber
    PROVE  PassZero'
<1>0. PICK b \in {"-"} \cup Digits :
        /\ Scanning(b) /\ AtValue /\ NewValue("integer")
        /\ ptr' = BehindNumber /\ flags' = Found \cup {"next", "reproc"}
        /\ UNCHANGED string_length
  BY DEF SkipNumber, BehindNumber
<1>1. TypeOK /\ ScanOK
  BY <1>0 DEF Inv, Scanning
<1>2. /\ s \in Snapshots /\ e \in Snapshots /\ Fits(s)
      /\ s.scan.ptr = ptr /\ s.scan.flags = flags /\ s.scan.sl = string_length
      /\ b = text[ptr] /\ text' = text
      /\ KindAt(s) = Kind(flags, TopType, text[ptr])
  BY <1>0, <1>1, Following
<1>3. KindAt(s) = "number"
  <2>1. /\ flags \cap {"next", "string", "line_comment", "block_comment", "done", "need_comma",
                       "need_colon"} = {}
        /\ "seek_value" \in flags
    BY <1>0 DEF AtValue, Seeking, InJson, InString, InLineComment, InBlockComment, IsDone, Scanning
  <2>2. b \notin Skippable \cup {"]"}
    BY <1>0 DEF Skippable, Digits, Blank, Newline, LineComment, BlockComment
  <2>3. QED
    BY <1>0, <1>2, <2>1, <2>2 DEF Kind, AtSeek
<1>4. PICK t \in G : Leads(s, t)
  BY <1>3, DoneBefore
<1>5. NumberRead(s, t) /\ t \in Snapshots
  BY <1>3, <1>4 DEF Leads, Final
<1>6. t.scan.ptr = BehindNumber
  <2>1. text[t.scan.ptr] \notin Skipped
    BY <1>3, <1>5, NumberIsAll
  <2>2. t.scan.ptr \in ptr .. Len(text) /\ \A q \in ptr .. t.scan.ptr - 1 : text[q] \in Skipped
    BY <1>2, <1>5 DEF NumberRead
  <2>3. /\ BehindNumber \in ptr .. Len(text) /\ text[BehindNumber] \notin Skipped
        /\ \A q \in ptr .. BehindNumber - 1 : text[q] \in Skipped
    BY <1>1, NumberEnds
  <2>4. ptr \in Nat /\ Len(text) \in Nat
    BY <1>1, Position
  <2> HIDE DEF BehindNumber
  <2>5. ~(t.scan.ptr < BehindNumber) /\ ~(BehindNumber < t.scan.ptr)
    <3>1. t.scan.ptr < BehindNumber => t.scan.ptr \in ptr .. BehindNumber - 1
      BY <2>2, <2>3, <2>4
    <3>2. BehindNumber < t.scan.ptr => BehindNumber \in ptr .. t.scan.ptr - 1
      BY <2>2, <2>3, <2>4
    <3>3. QED
      BY <2>1, <2>2, <2>3, <3>1, <3>2
  <2>6. QED
    BY <2>2, <2>3, <2>4, <2>5
<1>7. PICK type \in {"integer", "double"} : t.vals = Append(s.vals, NewRecord(type, s.top))
  BY <1>5 DEF NumberRead
<1>8. flags' \cap NumberFlags = {} /\ Scan' = t.scan
  <2>1. flags \cap NumberFlags = {}
    BY DEF Follows
  <2>2. flags' \cap NumberFlags = {} /\ flags' = (flags \ {"seek_value"}) \cup {"next", "reproc"}
    BY <1>0, <2>1 DEF Found, NumberFlags
  <2>3. flags' \ NumberFlags = flags'
    BY <2>2
  <2>4. /\ t.scan.ptr = ptr' /\ t.scan.sl = string_length'
        /\ t.scan.flags = flags'
    BY <1>0, <1>2, <1>5, <1>6, <2>2 DEF NumberRead
  <2>5. t.scan = [ptr |-> t.scan.ptr, flags |-> t.scan.flags, sl |-> t.scan.sl]
    BY <1>5 DEF Snapshots
  <2>6. QED
    BY <2>2, <2>3, <2>4, <2>5 DEF Scan
<1>9. /\ NewRecord(type, s.top) \in Records /\ Blank0(NewRecord(type, s.top), type, s.top)
      /\ Appended(t.vals, s.vals, NewRecord(type, s.top))
  BY <1>2, <1>7, ChainWithNumber
<1>10. t.named = s.named /\ t.top = Len(s.vals) + 1 /\ type \in Types
  BY <1>5 DEF NumberRead, Types
<1>11. Follows(t, e)'
  BY <1>0, <1>1, <1>8, <1>9, <1>10, TakenFollows
<1>12. Final(G, e)'
  BY <1>2, FinalStays
<1>13. QED
  BY <1>11, <1>12 DEF PassZero

(* Pass 0 is never in a number, and finds nothing to reject. *)
LEMMA PassZeroMode ==
    ASSUME Inv, NEW G, NEW e, NEW s \in G, Final(G, e), Follows(s, e), pc = "scan"
    PROVE  /\ FlagsFit(flags, TopType) /\ (top # 0 \/ "string" \notin flags)
           /\ "next" \notin flags => ~InNumber
           /\ ~Reject
<1>1. /\ s \in Snapshots /\ Fits(s) /\ s.scan.flags = flags /\ s.top = top /\ TypeAt(s) = TopType
      /\ \A b : Scanning(b) => b = text[ptr]
      /\ KindAt(s) = Kind(flags, TopType, text[ptr])
  BY Following DEF Inv
<1>2. FlagsFit(flags, TopType) /\ (top # 0 \/ "string" \notin flags)
  BY <1>1 DEF Fits
<1>3. "next" \notin flags => ~InNumber
  BY <1>2 DEF FlagsFit, InNumber, InValue, InJson, InString, IsDone, Seeking, TopType
<1>4. KindAt(s) # "stuck"
  <2>1. Ending(s) \/ Continued(s, G)
    BY DEF Final
  <2>2. QED
    BY <2>1 DEF Ending, Continued, Leads
<1>5. ASSUME Reject
      PROVE  FALSE
  <2>1. PICK b : Scanning(b) /\ Rejected(b)
    BY <1>5 DEF Reject
  <2>2. "next" \notin flags /\ b = text[ptr] /\ ~InNumber
    BY <1>1, <1>3, <2>1 DEF Scanning
  <2>3. CASE InString
    <3>1. (b = NUL \/ ("escaped" \in flags /\ b = BadUnicode))
      BY <2>1, <2>3, <2>2, <1>2 DEF
             Rejected, RejectedInString, RejectedInComment, RejectedBehind,
             RejectedAsValue, RejectedInObject, RejectedInNumber,
             InBlockComment, InString, IsDone, InJson, Seeking, InObject, InValue, FlagsFit
    <3>2. Kind(flags, TopType, b) = "stuck"
      BY <2>2, <2>3, <3>1 DEF Kind, AtString, InString, NUL, Quote, Backslash
    <3>3. QED
      BY <1>1, <1>4, <2>2, <3>2
  <2>4. CASE ~InString /\ (InLineComment \/ InBlockComment)
    <3>1. InBlockComment /\ b = NUL
      BY <2>1, <2>2, <2>4 DEF
             Rejected, RejectedInString, RejectedInComment, RejectedBehind,
             RejectedAsValue, RejectedInObject, RejectedInNumber,
             IsDone, InJson, Seeking, InObject, InValue
    <3>2. "line_comment" \notin flags
      BY <1>2, <3>1 DEF FlagsFit, InBlockComment
    <3>3. Kind(flags, TopType, b) = "stuck"
      BY <2>2, <2>4, <3>1, <3>2 DEF Kind, AtComment, InString, InBlockComment, NUL, EndComment
    <3>4. QED
      BY <1>1, <1>4, <2>2, <3>3
  <2>5. CASE InJson
    <3>0. flags \cap {"next", "string", "line_comment", "block_comment"} = {}
      BY <2>2, <2>5 DEF InJson, InString, InLineComment, InBlockComment
    <3>1. CASE IsDone
      <4>1. b \notin Skippable \cup {NUL}
        BY <2>1, <2>2, <2>5, <3>1 DEF
             Rejected, RejectedInString, RejectedInComment, RejectedBehind,
             RejectedAsValue, RejectedInObject, RejectedInNumber,
             InJson, Seeking, InObject, InValue
      <4>2. Kind(flags, TopType, b) = "stuck"
        BY <3>0, <3>1, <4>1 DEF Kind, AtDone, IsDone
      <4>3. QED
        BY <1>1, <1>4, <2>2, <4>2
    <3>2. CASE Seeking
      <4>1. \/ b = "]" /\ TopType # "array"
            \/ /\ b \notin Skippable \cup {"]"}
               /\ IF "need_comma" \in flags THEN b # ","
                  ELSE IF "need_colon" \in flags THEN b # ":"
                  ELSE b \notin ValueStarts
        BY <2>1, <2>2, <2>5, <3>2 DEF
             Rejected, RejectedInString, RejectedInComment, RejectedBehind,
             RejectedAsValue, RejectedInObject, RejectedInNumber,
             InJson, Seeking, InObject, InValue, TopType
      <4>2. Kind(flags, TopType, b) = "stuck"
        BY <3>0, <3>2, <4>1 DEF Kind, AtSeek, Seeking, IsDone, Skippable, ValueStarts, Blank, Newline,
           LineComment, BlockComment
      <4>3. QED
        BY <1>1, <1>4, <2>2, <4>2
    <3>3. CASE InObject
      <4>1. \/ b \notin Skippable \cup {Quote, "}", ","}
            \/ b = Quote /\ "need_comma" \in flags
            \/ b = "," /\ "need_comma" \notin flags
        BY <2>1, <2>2, <2>5, <3>3 DEF
             Rejected, RejectedInString, RejectedInComment, RejectedBehind,
             RejectedAsValue, RejectedInObject, RejectedInNumber,
             InJson, InObject, InValue
      <4>2. Kind(flags, TopType, b) = "stuck"
        BY <3>0, <3>3, <4>1 DEF Kind, AtObject, InObject, InValue, Seeking, IsDone, Skippable, Blank, Newline,
           LineComment, BlockComment, Quote
      <4>3. QED
        BY <1>1, <1>4, <2>2, <4>2
    <3>4. QED
      BY <2>1, <2>2, <2>5, <3>1, <3>2, <3>3 DEF
             Rejected, RejectedInString, RejectedInComment, RejectedBehind,
             RejectedAsValue, RejectedInObject, RejectedInNumber,
             InJson
  <2>6. QED
    BY <2>3, <2>4, <2>5 DEF InJson
<1>6. QED
  BY <1>2, <1>3, <1>5
----------------------------------------------------------------------------
(* The steps that are not steps of pass 1 or 0, by where they lead. *)
LEMMA Leaving ==
    ASSUME Next
    PROVE  /\ pc # "scan" => /\ pc' \in {"failed", "free", "freed", "crashed"}
                             /\ UNCHANGED <<first_pass, alloc>> /\ live' \subseteq live
           /\ pc = "scan" => \/ EndPass
                             \/ UNCHANGED first_pass /\ (pc' = "scan" \/ UNCHANGED <<values, live>>)
<1>1. ASSUME pc # "scan"
      PROVE  FreeChain \/ FreeDocument \/ Descend \/ Release \/ FreeDone
  BY <1>1 DEF Next, StringChar, StartEscape, Escape, CloseString, CloseName, StartLineComment,
     StartBlockComment, CommentChar, EndLineComment, EndBlockComment, SkipBlank, CloseArray,
     Comma, Colon, StartContainer, StartString, ReadLiteral, StartNumber, SkipNumber,
     AllocationFails, ReadPastEnd, StartName, CloseObject, Digit, ExponentSign, Point,
     Exponent, EndNumber, FinishValue, EndPass, Reject, Scanning
<1>2. FreeChain \/ FreeDocument \/ Descend \/ Release \/ FreeDone =>
        /\ pc # "scan" /\ pc' \in {"failed", "free", "freed", "crashed"}
        /\ UNCHANGED <<first_pass, alloc>> /\ live' \subseteq live
  BY DEF FreeChain, FreeDocument, Descend, Release, FreeDone, Free, tree
<1>3. SmallActions => UNCHANGED <<pc, first_pass>>
  BY DEF SmallActions, StringChar, StartEscape, Escape, CloseString, CloseName, StartLineComment,
     StartBlockComment, CommentChar, EndLineComment, EndBlockComment, SkipBlank, CloseArray,
     Comma, Colon, StartContainer, StartString, ReadLiteral, StartName, CloseObject, rest
<1>4. StartNumber \/ SkipNumber \/ Digit \/ ExponentSign \/ Point \/ Exponent \/ EndNumber \/ FinishValue
        => UNCHANGED <<pc, first_pass>>
  BY DEF StartNumber, SkipNumber, Digit, ExponentSign, Point, Exponent, EndNumber, FinishValue, rest
<1>5. AllocationFails \/ ReadPastEnd \/ Reject => UNCHANGED <<first_pass, values, live>>
  BY DEF AllocationFails, ReadPastEnd, Reject, NewValueFails, tree
<1>6. QED
  BY <1>1, <1>2, <1>3, <1>4, <1>5, SMTT(60) DEF Next, SmallActions

(* Pass 0 goes on. *)
LEMMA PassZeroStep ==
    ASSUME Inv, PassOne, PassZero, Next
    PROVE  PassZero' /\ (first_pass = 0 /\ pc = "scan" => pc' # "e_failed")
<1>1. CASE pc # "scan"
  BY <1>1, Leaving DEF PassZero
<1>2. CASE pc = "scan" /\ first_pass = 1
  <2>1. CASE EndPass
    BY <1>2, <2>1, PassZeroBegins
  <2>2. CASE ~EndPass
    BY <1>2, <2>2, Leaving DEF PassZero
  <2>3. QED
    BY <1>2, <2>1, <2>2
<1>3. CASE pc = "scan" /\ first_pass = 0
  <2>1. PICK G, e, s : Final(G, e) /\ s \in G /\ Follows(s, e)
    BY <1>3 DEF PassZero
  <2>2. /\ FlagsFit(flags, TopType) /\ (top # 0 \/ "string" \notin flags)
        /\ "next" \notin flags => ~InNumber
        /\ ~Reject
    BY <1>3, <2>1, PassZeroMode
  <2>3. CASE SmallActions
    <3>1. PICK k, b : Small(k, b)
      BY <2>2, <2>3, SmallSteps DEF SmallActions
    <3>2. PassZero' /\ pc' = pc
      BY <1>3, <2>1, <3>1, PassZeroSmall DEF Small
    <3>3. QED
      BY <1>3, <3>2
  <2>4. CASE FinishValue
    BY <1>3, <2>1, <2>4, PassZeroFinishes DEF FinishValue, rest
  <2>5. CASE SkipNumber
    BY <1>3, <2>1, <2>5, PassZeroSkips DEF SkipNumber
  <2>6. CASE StartNumber
    BY <1>3, <2>6 DEF StartNumber
  <2>7. CASE Digit \/ ExponentSign \/ Point \/ Exponent \/ EndNumber
    BY <2>2, <2>7 DEF Digit, ExponentSign, Point, Exponent, EndNumber, Scanning
  <2>8. CASE AllocationFails \/ ReadPastEnd
    BY <2>8 DEF AllocationFails, ReadPastEnd, PassZero
  <2>9. CASE EndPass
    <3>1. pc' = "returned"
      BY <1>3, <2>9 DEF EndPass
    <3>2. QED
      BY <3>1 DEF PassZero
  <2>10. CASE FreeChain \/ FreeDocument \/ Descend \/ Release \/ FreeDone
    BY <1>3, <2>10 DEF FreeChain, FreeDocument, Descend, Release, FreeDone
  <2>11. QED
    BY <2>2, <2>3, <2>4, <2>5, <2>6, <2>7, <2>8, <2>9, <2>10 DEF Next, SmallActions
<1>4. CASE pc = "scan" /\ first_pass = -1
  <2>1. FALSE
    BY <1>4 DEF Inv, ScanOK
  <2>2. QED
    BY <2>1
<1>5. QED
  BY <1>1, <1>2, <1>3, <1>4 DEF Inv, TypeOK
----------------------------------------------------------------------------
(* Data is allocated by pass 0, for the values that it has taken. *)
DataOfTaken ==
    /\ first_pass = 1 => \A n \in Nat : Data(n) \notin live
    /\ first_pass = 0 /\ pc = "scan" =>
         \A n \in Nat : Data(n) \in live => alloc = 0 \/ n < alloc

(* What changes live, and alloc, while the scanner goes on. *)
LEMMA OnlyNewValue ==
    ASSUME Next, pc = "scan"
    PROVE  EndPass \/ (\E type : NewValue(type)) \/ pc' # "scan" \/ UNCHANGED <<live, alloc>>
<1>1. SmallActions => (\E type : NewValue(type)) \/ UNCHANGED <<live, alloc>>
  BY DEF SmallActions, StringChar, StartEscape, Escape, CloseString, CloseName, StartLineComment,
     StartBlockComment, CommentChar, EndLineComment, EndBlockComment, SkipBlank, CloseArray,
     Comma, Colon, StartContainer, StartString, ReadLiteral, StartName, CloseObject, rest, tree
<1>2. StartNumber \/ SkipNumber => \E type : NewValue(type)
  BY DEF StartNumber, SkipNumber
<1>3. Digit \/ ExponentSign \/ Point \/ Exponent \/ EndNumber \/ FinishValue => UNCHANGED <<live, alloc>>
  BY DEF Digit, ExponentSign, Point, Exponent, EndNumber, FinishValue, rest, tree
<1>4. AllocationFails \/ ReadPastEnd \/ Reject \/ FreeChain \/ FreeDocument \/ Descend \/ Release \/ FreeDone
        => pc' # "scan"
  BY DEF AllocationFails, ReadPastEnd, Reject, FreeChain, FreeDocument, Descend, Release, FreeDone
<1>5. QED
  BY <1>1, <1>2, <1>3, <1>4 DEF Next, SmallActions

(* Data is allocated for values that have been taken. *)
LEMMA DataOfTakenStep ==
    ASSUME Inv, DataOfTaken, Next
    PROVE  DataOfTaken'
<1>1. \A n, m : Value(n) # Data(m) /\ (Data(n) = Data(m) => n = m)
  BY DEF Value, Data
<1>2. CASE pc # "scan"
  BY <1>2, Leaving DEF DataOfTaken
<1>3. CASE pc = "scan" /\ EndPass
  BY <1>3 DEF EndPass, DataOfTaken, Inv, ScanOK
<1>4. CASE pc = "scan" /\ ~EndPass /\ pc' # "scan"
  BY <1>4, Leaving DEF DataOfTaken
<1>5. CASE pc = "scan" /\ ~EndPass /\ pc' = "scan" /\ UNCHANGED <<live, alloc>>
  BY <1>5, Leaving DEF DataOfTaken
<1>6. CASE pc = "scan" /\ ~EndPass /\ pc' = "scan" /\ \E type : NewValue(type)
  <2>0. PICK type : NewValue(type)
    BY <1>6
  <2>1. UNCHANGED first_pass
    BY <1>6, Leaving
  <2>2. CASE AppendValue(type)
    <3>1. first_pass = 1 /\ live' = live \cup {Value(Len(values) + 1)}
      BY <2>2 DEF AppendValue
    <3>2. QED
      BY <1>1, <2>1, <3>1 DEF DataOfTaken
  <2>3. CASE TakeValue
    <3>1. /\ first_pass = 0 /\ alloc # 0 /\ alloc' \in {0, alloc + 1} /\ live' \subseteq live \cup {Data(alloc)}
      BY <2>0, <2>3 DEF TakeValue, NewValue, AppendValue
    <3>2. alloc \in Nat
      BY TreeOfInv DEF TreeOK
    <3>3. ASSUME NEW n \in Nat, Data(n) \in live'
          PROVE  alloc' = 0 \/ n < alloc'
      <4>1. n = alloc \/ n < alloc
        BY <1>1, <1>6, <3>1, <3>3 DEF DataOfTaken
      <4>2. QED
        BY <3>1, <3>2, <4>1
    <3>4. QED
      BY <2>1, <3>1, <3>3 DEF DataOfTaken
  <2>4. QED
    BY <2>0, <2>2, <2>3 DEF NewValue
<1>7. QED
  BY <1>2, <1>3, <1>4, <1>5, <1>6, OnlyNewValue

----------------------------------------------------------------------------
(* What WritesFit says of the blocks. *)
BlocksFit ==
    \A n \in DOMAIN values :
        LET v == values[n] IN
        /\ Len(v.kids) <= v.size /\ Len(v.keys) <= v.size
        /\ v.type = "object" /\ Data(n) \in live => v.names <= v.room

(* A value that pass 0 has taken. *)
LEMMA FilledFits ==
    ASSUME NEW e \in Snapshots, NEW s \in Snapshots, Fits(s), Below(s, e), NEW n \in 1 .. Len(s.vals),
           Fits(e), e.named[n] <= e.vals[n].length,
           NEW v, Filled(v, s.vals[n], e.vals[n], s.named[n])
    PROVE  /\ Len(v.kids) <= v.size /\ Len(v.keys) <= v.size
           /\ v.type = "object" => v.names <= v.room
<1> DEFINE u == s.vals[n]
           w == e.vals[n]
<1>0. n \in 1 .. Len(e.vals)
  <2>1. Len(s.vals) \in Nat /\ Len(e.vals) \in Nat /\ Len(s.vals) <= Len(e.vals)
    BY SnapshotFields DEF Below
  <2>2. QED
    BY <2>1
<1>1. /\ u.length \in Nat /\ u.names \in Nat /\ w.length \in Nat /\ w.names \in Nat
      /\ s.named[n] \in Nat /\ e.named[n] \in Nat
  BY <1>0, CountedFields
<1>2. u.type = w.type /\ u.length <= w.length /\ u.names <= w.names /\ s.named[n] <= e.named[n]
  BY DEF Below
<1>3. s.named[n] <= w.length
  BY <1>1, <1>2
<1>4. w.type # "object" => s.named[n] = 0
  BY <1>2 DEF Fits, Counted
<1>5. w.length = 0 => u.names = 0
  <2>1. w.length = 0 => s.named[n] = 0
    BY <1>1, <1>3
  <2>2. QED
    BY <2>1 DEF Fits, Counted
<1>6. /\ v.type = w.type /\ v.names = u.names /\ v.size = SizeOf(w) /\ v.room = RoomOf(w)
      /\ Len(v.kids) = SizeOf(u) /\ Len(v.keys) = s.named[n]
  BY DEF Filled
<1> HIDE DEF u, w
<1>7. SizeOf(u) <= SizeOf(w)
  BY <1>1, <1>2 DEF SizeOf
<1>8. s.named[n] <= SizeOf(w)
  <2>1. CASE w.type \in Containers
    BY <1>3, <2>1 DEF SizeOf
  <2>2. CASE w.type \notin Containers
    <3>1. w.type # "object"
      BY <2>2 DEF Containers
    <3>2. QED
      BY <1>4, <2>2, <3>1 DEF SizeOf
  <2>3. QED
    BY <2>1, <2>2
<1>9. w.type = "object" => u.names <= RoomOf(w)
  <2>1. ASSUME w.type = "object"
        PROVE  u.names <= RoomOf(w)
    <3>1. RoomOf(w) = IF w.length > 0 THEN w.names ELSE 0
      BY <2>1 DEF RoomOf, Containers
    <3>2. QED
      BY <1>1, <1>2, <1>5, <3>1
  <2>2. QED
    BY <2>1
<1>10. QED
  BY <1>6, <1>7, <1>8, <1>9

(* Where pass 0 goes the way of pass 1, what it writes fits. *)
LEMMA FollowingFits ==
    ASSUME Inv, PassZero, DataOfTaken, pc = "scan", first_pass = 0
    PROVE  BlocksFit /\ (InString => string_length < values[top].room - values[top].names)
<1>0. TypeOK
  BY DEF Inv
<1>1. PICK G, e, s : Final(G, e) /\ s \in G /\ Follows(s, e)
  BY DEF PassZero
<1>2. /\ s \in Snapshots /\ e \in Snapshots /\ Fits(s) /\ Fits(e) /\ Below(s, e)
      /\ s.scan.flags = flags /\ s.scan.sl = string_length /\ s.top = top /\ TypeAt(s) = TopType
      /\ Len(s.vals) \in Nat /\ Len(e.vals) \in Nat /\ Len(s.vals) <= Len(e.vals)
  BY <1>0, <1>1, Following
<1>3. values \in Seq(Records) /\ Len(values) = Len(e.vals)
  BY <1>0, <1>1 DEF TypeOK, Follows
<1>4. DOMAIN values = 1 .. Len(e.vals)
  BY <1>3
<1>5. ASSUME NEW n \in DOMAIN values
      PROVE  /\ Len(values[n].kids) <= values[n].size /\ Len(values[n].keys) <= values[n].size
             /\ values[n].type = "object" /\ Data(n) \in live => values[n].names <= values[n].room
  <2>0. n \in 1 .. Len(e.vals) /\ n \in Nat
    BY <1>2, <1>4
  <2>1. CASE n \in 1 .. Len(s.vals)
    <3>1. Filled(values[n], s.vals[n], e.vals[n], s.named[n]) /\ e.named[n] <= e.vals[n].length
      BY <1>1, <2>0, <2>1 DEF Follows, Final
    <3>2. QED
      BY <1>2, <2>1, <3>1, FilledFits
  <2>2. CASE n \notin 1 .. Len(s.vals)
    <3>1. n > Len(s.vals)
      BY <1>2, <2>0, <2>2
    <3>2. values[n] = e.vals[n]
      BY <1>1, <2>0, <3>1 DEF Follows
    <3>3. values[n].kids = <<>> /\ values[n].keys = <<>> /\ values[n].size = 0
      BY <1>2, <2>0, <3>2, LeftByPassOne
    <3>4. alloc # 0 /\ ~(n < alloc)
      <4>1. alloc = IF Len(s.vals) < Len(e.vals) THEN Len(s.vals) + 1 ELSE 0
        BY <1>1 DEF Follows
      <4>2. QED
        BY <1>2, <2>0, <3>1, <4>1
    <3>5. Data(n) \notin live
      BY <2>0, <3>4 DEF DataOfTaken
    <3>6. Len(values[n].kids) = 0 /\ Len(values[n].keys) = 0
      BY <3>3
    <3>7. QED
      BY <3>3, <3>5, <3>6
  <2>3. QED
    BY <2>1, <2>2
<1>6. ASSUME InString
      PROVE  string_length < values[top].room - values[top].names
  <2>1. "string" \in s.scan.flags /\ top # 0 /\ top \in 1 .. Len(s.vals)
    <3>1. "string" \in s.scan.flags /\ top # 0 /\ top \in 0 .. Len(s.vals)
      BY <1>2, <1>6 DEF InString, Fits
    <3>2. QED
      BY <1>2, <3>1
  <2>2. top \in 1 .. Len(e.vals)
    BY <1>2, <2>1
  <2>3. Filled(values[top], s.vals[top], e.vals[top], s.named[top]) /\ e.named[top] <= e.vals[top].length
    BY <1>1, <2>1, <2>2 DEF Follows, Final
  <2>4. Added(s, e)
    <3>1. "string" \notin e.scan.flags
      BY <1>1, <1>2 DEF Fits, FlagsFit, Final
    <3>2. QED
      BY <1>2, <2>1, <3>1 DEF Below
  <2>5. /\ s.vals[top].names \in Nat /\ e.vals[top].length \in Nat /\ e.vals[top].names \in Nat
        /\ s.named[top] \in Nat /\ e.named[top] \in Nat /\ string_length \in Nat
    BY <1>2, <2>1, <2>2, CountedFields, SnapshotFields
  <2>6. /\ s.vals[top].type = e.vals[top].type /\ s.vals[top].type = TypeAt(s)
        /\ TypeAt(s) \in {"string", "object"}
    BY <1>2, <2>1 DEF Below, TypeAt, Fits, FlagsFit
  <2>7. values[top].names = s.vals[top].names /\ values[top].room = RoomOf(e.vals[top])
    BY <2>3 DEF Filled
  <2>8. CASE TypeAt(s) = "string"
    <3>1. string_length <= e.vals[top].length
      BY <1>2, <2>4, <2>8 DEF Added
    <3>2. s.vals[top].names = 0
      BY <1>2, <2>1, <2>6, <2>8 DEF Fits, Counted
    <3>3. RoomOf(e.vals[top]) = e.vals[top].length + 1
      BY <2>6, <2>8 DEF RoomOf
    <3>4. QED
      BY <2>5, <2>7, <3>1, <3>2, <3>3
  <2>9. CASE TypeAt(s) = "object"
    <3>1. /\ s.vals[top].names + string_length + 1 <= e.vals[top].names
          /\ s.named[top] + 1 <= e.named[top]
      BY <1>2, <2>4, <2>9 DEF Added
    <3>2. e.vals[top].length > 0
      BY <2>3, <2>5, <3>1
    <3>3. RoomOf(e.vals[top]) = e.vals[top].names
      BY <2>6, <2>9, <3>2 DEF RoomOf, Containers
    <3>4. QED
      BY <2>5, <2>7, <3>1, <3>3
  <2>10. QED
    BY <2>6, <2>8, <2>9
<1>7. QED
  BY <1>5, <1>6 DEF BlocksFit
(* Where pass 0 goes the way of pass 1, it finds the values of the chain. *)
LEMMA FollowingAgrees ==
    ASSUME Inv, PassZero, pc = "scan", first_pass = 0
    PROVE  /\ IsDone => alloc = 0
           /\ AtValue /\ text[ptr] \in ValueStarts =>
                /\ alloc # 0 /\ values[alloc].parent = top
                /\ \/ values[alloc].type = TypeOfStart(text[ptr])
                   \/ TypeOfStart(text[ptr]) = "integer" /\ values[alloc].type = "double"
<1>0. TypeOK
  BY DEF Inv
<1>1. PICK G, e, s : Final(G, e) /\ s \in G /\ Follows(s, e)
  BY DEF PassZero
<1>2. /\ s \in Snapshots /\ e \in Snapshots /\ Fits(s) /\ Fits(e) /\ Below(s, e)
      /\ s.scan.flags = flags /\ s.scan.ptr = ptr /\ s.top = top
      /\ Len(s.vals) \in Nat /\ Len(e.vals) \in Nat /\ Len(s.vals) <= Len(e.vals)
      /\ KindAt(s) = Kind(flags, TopType, text[ptr])
  BY <1>0, <1>1, Following
<1>3. alloc = IF Len(s.vals) < Len(e.vals) THEN Len(s.vals) + 1 ELSE 0
  BY <1>1 DEF Follows
<1>4. ASSUME IsDone
      PROVE  alloc = 0
  <2>1. s.vals = e.vals
    BY <1>2, <1>4 DEF IsDone, Below
  <2>2. QED
    BY <1>2, <1>3, <2>1
<1>5. ASSUME AtValue, text[ptr] \in ValueStarts
      PROVE  /\ alloc # 0 /\ values[alloc].parent = top
             /\ \/ values[alloc].type = TypeOfStart(text[ptr])
                \/ TypeOfStart(text[ptr]) = "integer" /\ values[alloc].type = "double"
  <2> DEFINE c == text[ptr]
             m == Len(s.vals) + 1
  <2>1. /\ flags \cap {"string", "line_comment", "block_comment", "done", "need_comma", "need_colon"} = {}
        /\ "seek_value" \in flags
    BY <1>5 DEF AtValue, Seeking, InJson, InString, InLineComment, InBlockComment, IsDone
  <2>2. "next" \notin flags
    BY <1>2, <2>1 DEF Fits, FlagsFit
  <2>3. c \notin Skippable \cup {"]"}
    BY <1>5 DEF ValueStarts, Skippable, Digits, Blank, Newline, LineComment, BlockComment, Quote, Literal
  <2>4. KindAt(s) = IF c \in {"-"} \cup Digits THEN "number" ELSE "open"
    BY <1>2, <1>5, <2>1, <2>2, <2>3 DEF Kind, AtSeek
  <2>5. PICK t \in G : Leads(s, t)
    BY <1>1, <2>4, DoneBefore
  <2>6. t \in Snapshots /\ Fits(t) /\ Below(t, e)
    BY <1>1 DEF Final
  <2>7. PICK type : /\ t.vals = Append(s.vals, NewRecord(type, s.top)) /\ type \in Types
                    /\ type = TypeOfStart(c) \/ (TypeOfStart(c) = "integer" /\ type = "double")
    <3>1. CASE KindAt(s) = "open"
      <4>1. t.vals = Append(s.vals, NewRecord(TypeOfStart(c), s.top))
        BY <1>2, <2>5, <3>1 DEF Leads, Grown
      <4>2. QED
        BY <4>1 DEF TypeOfStart, Types
    <3>2. CASE KindAt(s) = "number"
      <4>1. \E type \in {"integer", "double"} : t.vals = Append(s.vals, NewRecord(type, s.top))
        BY <2>5, <3>2 DEF Leads, NumberRead
      <4>2. TypeOfStart(c) = "integer"
        BY <2>4, <3>2 DEF TypeOfStart, Digits, Quote, Literal
      <4>3. QED
        BY <4>1, <4>2 DEF Types
    <3>3. QED
      BY <2>4, <3>1, <3>2
  <2>8. s.vals \in Seq(Records) /\ s.top \in Nat
    BY <1>2, SnapshotFields
  <2>9. NewRecord(type, s.top) \in Records /\ Blank0(NewRecord(type, s.top), type, s.top)
    BY <2>7, <2>8, NewRecordIs
  <2>10. Appended(t.vals, s.vals, NewRecord(type, s.top))
    BY <2>7, <2>8, <2>9, AppendIs
  <2> HIDE DEF c
  <2>11. Len(t.vals) = m /\ t.vals[m].type = type /\ t.vals[m].parent = s.top
    BY <2>9, <2>10 DEF Appended, Blank0
  <2>12. m <= Len(e.vals) /\ m \in 1 .. Len(t.vals)
    BY <1>2, <2>6, <2>11 DEF Below
  <2>13. alloc = m /\ alloc # 0 /\ m > Len(s.vals) /\ m \in 1 .. Len(e.vals)
    BY <1>2, <1>3, <2>12
  <2>14. values[m] = e.vals[m]
    BY <1>1, <2>13 DEF Follows
  <2>15. e.vals[m].type = type /\ e.vals[m].parent = s.top
    BY <2>6, <2>11, <2>12 DEF Below
  <2>16. QED
    BY <1>2, <2>7, <2>13, <2>14, <2>15 DEF c
<1>6. QED
  BY <1>4, <1>5

----------------------------------------------------------------------------
(* The inductive invariant. *)
PassesInv ==
    /\ Inv /\ PassOne /\ PassZero /\ DataOfTaken
    /\ first_pass = 0 /\ pc # "scan" => BlocksFit /\ pc # "e_failed"

(* Pass 1 begins with nothing. *)
LEMMA InitPasses == Init => PassesInv
<1> SUFFICES ASSUME Init
             PROVE  PassesInv
  OBVIOUS
<1>1. Inv /\ PassOne
  BY InitInv, PassOneBegins
<1>2. PassZero /\ DataOfTaken
  BY DEF Init, PassZero, DataOfTaken
<1>3. QED
  BY <1>1, <1>2 DEF PassesInv, Init

(* Nothing that releases values makes them hold more. *)
LEMMA BlocksFitStays ==
    ASSUME Inv, BlocksFit, pc # "scan", Next
    PROVE  BlocksFit'
<1>1. live' \subseteq live
  BY Leaving
<1>2. values \in Seq(Records)
  BY DEF Inv, TypeOK
<1>3. CASE UNCHANGED values
  BY <1>1, <1>3 DEF BlocksFit
<1>4. CASE ~UNCHANGED values
  <2>1. Descend
    BY <1>4 DEF Next, StringChar, StartEscape, Escape, CloseString, CloseName, StartLineComment,
       StartBlockComment, CommentChar, EndLineComment, EndBlockComment, SkipBlank, CloseArray,
       Comma, Colon, StartContainer, StartString, ReadLiteral, StartNumber, SkipNumber,
       AllocationFails, ReadPastEnd, StartName, CloseObject, Digit, ExponentSign, Point,
       Exponent, EndNumber, FinishValue, EndPass, Reject, Scanning, FreeChain, FreeDocument,
       Release, FreeDone, tree
  <2>2. cur # 0 /\ HasKids(values[cur]) /\ values' = [values EXCEPT ![cur].length = @ - 1]
    BY <1>4, <2>1 DEF Descend
  <2>3. cur \in 1 .. Len(values)
    <3>1. cur \in 0 .. Len(values)
      BY DEF Inv, TypeOK
    <3>2. QED
      BY <2>2, <3>1
  <2>4. values[cur] \in Records
    BY <1>2, <2>3
  <2>5. values[cur].length - 1 \in Nat
    BY <2>2, <2>4, RecordFields DEF HasKids
  <2> DEFINE v == [values[cur] EXCEPT !.length = values[cur].length - 1]
  <2>6. /\ v.type = values[cur].type /\ v.names = values[cur].names /\ v.size = values[cur].size
        /\ v.room = values[cur].room /\ v.kids = values[cur].kids /\ v.keys = values[cur].keys
        /\ v \in Records
    BY <2>4, <2>5 DEF Records
  <2>7. values' = [values EXCEPT ![cur] = v]
    BY <2>2, <2>3
  <2> HIDE DEF v
  <2>8. Changed(values', values, cur, v)
    <3>1. Changed([values EXCEPT ![cur] = v], values, cur, v)
      BY <1>2, <2>3, <2>6, ExceptIs
    <3>2. QED
      BY <2>7, <3>1
  <2>9. values' \in Seq(Records) /\ DOMAIN values = 1 .. Len(values) /\ DOMAIN values' = 1 .. Len(values)
    BY <1>2, <2>3, <2>6, <2>7
  <2>10. QED
    BY <1>1, <2>6, <2>8, <2>9, SMTT(60) DEF BlocksFit, Changed
<1>5. QED
  BY <1>3, <1>4

(* The invariant is inductive. *)
LEMMA StepPasses == PassesInv /\ [Next]_vars => PassesInv'
<1> SUFFICES ASSUME PassesInv, [Next]_vars
             PROVE  PassesInv'
  OBVIOUS
<1>0. Inv /\ PassOne /\ PassZero /\ DataOfTaken
  BY DEF PassesInv
<1>1. Inv' /\ TypeOK'
  BY <1>0, StepInv DEF Inv
<1>2. CASE Next
  <2>1. PassOne' /\ PassZero' /\ DataOfTaken'
    BY <1>0, <1>1, <1>2, PassOneStep, PassZeroStep, DataOfTakenStep
  <2>2. ASSUME first_pass' = 0, pc' # "scan"
        PROVE  BlocksFit' /\ pc' # "e_failed"
    <3>1. CASE pc = "scan"
      <4>1. ~EndPass /\ UNCHANGED <<first_pass, values, live>>
        <5>1. ~EndPass
          BY <1>0, <2>2, <3>1 DEF EndPass, Inv, ScanOK
        <5>2. QED
          BY <1>2, <2>2, <3>1, <5>1, Leaving
      <4>2. BlocksFit
        BY <1>0, <2>2, <3>1, <4>1, FollowingFits
      <4>3. pc' # "e_failed"
        BY <1>0, <1>2, <2>2, <3>1, <4>1, PassZeroStep
      <4>4. QED
        BY <4>1, <4>2, <4>3 DEF BlocksFit
    <3>2. CASE pc # "scan"
      <4>1. UNCHANGED first_pass /\ pc' # "e_failed"
        BY <1>2, <3>2, Leaving
      <4>2. BlocksFit
        BY <2>2, <3>2, <4>1 DEF PassesInv
      <4>3. QED
        BY <1>0, <1>2, <3>2, <4>1, <4>2, BlocksFitStays
    <3>3. QED
      BY <3>1, <3>2
  <2>3. QED
    BY <1>1, <2>1, <2>2 DEF PassesInv
<1>3. CASE UNCHANGED vars
  <2>1. UNCHANGED <<pc, first_pass, text, ptr, flags, string_length, top, root, alloc, values, live>>
    BY <1>3 DEF vars, scanner, tree
  <2>2. text \in Seq(Chars) /\ text' \in Seq(Chars) /\ Extends
    <3>1. text \in Seq(Chars) /\ Len(text) \in Nat
      BY <1>0, Position DEF Inv
    <3>2. QED
      BY <2>1, <3>1 DEF Extends
  <2>3. PassOne'
    <3>1. ASSUME Tracing
          PROVE  Tracing'
      <4>1. PICK G, S, s : Trace(G, S, s) /\ (s = Now(s.named) \/ InNumberFrom(s))
        BY <3>1 DEF Tracing
      <4>2. Trace(G, S, s)'
        BY <2>2, <4>1, TraceStays
      <4>3. s = Now(s.named) => s = Now(s.named)'
        BY <2>1 DEF Now, Scan
      <4>4. InNumberFrom(s) => InNumberFrom(s)'
        BY <2>1 DEF InNumberFrom, KindAt
      <4>5. QED
        BY <4>1, <4>2, <4>3, <4>4 DEF Tracing
    <3>2. QED
      BY <1>0, <2>1, <3>1 DEF PassOne, ChainEnds, Tracing
  <2>4. PassZero'
    <3>1. ASSUME NEW G, NEW e, NEW s, Final(G, e), Follows(s, e)
          PROVE  Final(G, e)' /\ Follows(s, e)'
      <4>1. Final(G, e)'
        BY <2>1, <3>1, FinalStays
      <4>2. Follows(s, e)'
        BY <2>1, <3>1 DEF Follows, Scan
      <4>3. QED
        BY <4>1, <4>2
    <3>2. QED
      BY <1>0, <2>1, <3>1 DEF PassZero
  <2>5. DataOfTaken' /\ (first_pass' = 0 /\ pc' # "scan" => BlocksFit' /\ pc' # "e_failed")
    BY <2>1 DEF PassesInv, DataOfTaken, BlocksFit
  <2>6. QED
    BY <1>1, <2>3, <2>4, <2>5 DEF PassesInv
<1>4. QED
  BY <1>2, <1>3

(***************************************************************************)
(* Whatever the text, pass 0 goes the way of pass 1: PassesInv, of which   *)
(* WritesFit and PassesAgree are consequences, always holds.               *)
(***************************************************************************)
THEOREM PassesInvariance == Spec => []PassesInv
BY InitPasses, StepPasses, PTL DEF Spec

(***************************************************************************)
(* json_parse_ex writes no entry, no name and no character behind the end  *)
(* of a block that it has allocated, however the text is nested, whatever  *)
(* escapes its strings have and whichever allocation fails.                *)
(***************************************************************************)
THEOREM BlocksAreLargeEnough == Spec => []WritesFit
<1>1. PassesInv => WritesFit
  <2> SUFFICES ASSUME PassesInv, first_pass = 0
               PROVE  /\ BlocksFit
                      /\ pc = "scan" /\ InString => string_length < values[top].room - values[top].names
    BY DEF WritesFit, BlocksFit
  <2>1. CASE pc = "scan"
    BY <2>1, FollowingFits DEF PassesInv
  <2>2. CASE pc # "scan"
    BY <2>2 DEF PassesInv
  <2>3. QED
    BY <2>1, <2>2
<1>2. QED
  BY PassesInvariance, <1>1, PTL

(***************************************************************************)
(* Pass 0 of json_parse_ex rejects nothing that pass 1 has accepted, takes *)
(* from the chain, wherever the text has a value, the value that pass 1    *)
(* had met there, and has taken all of them when the document ends.        *)
(***************************************************************************)
THEOREM SecondPassAgrees == Spec => []PassesAgree
<1>1. PassesInv => PassesAgree
  <2> SUFFICES ASSUME PassesInv, first_pass = 0
               PROVE  /\ pc # "e_failed"
                      /\ pc = "scan" /\ IsDone => alloc = 0
                      /\ pc = "scan" /\ AtValue /\ text[ptr] \in ValueStarts =>
                           /\ alloc # 0
                           /\ \/ values[alloc].type = TypeOfStart(text[ptr])
                              \/ TypeOfStart(text[ptr]) = "integer" /\ values[alloc].type = "double"
    BY DEF PassesAgree
  <2>1. CASE pc = "scan"
    BY <2>1, FollowingAgrees DEF PassesInv
  <2>2. CASE pc # "scan"
    BY <2>2 DEF PassesInv
  <2>3. QED
    BY <2>1, <2>2
<1>2. QED
  BY PassesInvariance, <1>1, PTL

----------------------------------------------------------------------------
(***************************************************************************)
(* Every step of the parser leaves less to do: AlwaysForward.              *)
(***************************************************************************)

(* What is read again is the end of a value. *)
ReadAgain == "reproc" \in flags => "next" \in flags

(* Nothing is, at first. *)
LEMMA InitReadAgain == Init => ReadAgain
BY DEF Init, ReadAgain

(* No other step has a character read again. *)
LEMMA StepReadAgain == ReadAgain /\ [Next]_vars => ReadAgain'
<1> SUFFICES ASSUME ReadAgain, [Next]_vars
             PROVE  ReadAgain'
  OBVIOUS
<1>1. CASE UNCHANGED flags
  BY <1>1 DEF ReadAgain
<1>2. CASE CloseString \/ CloseArray \/ ReadLiteral \/ CloseObject \/ EndNumber \/ SkipNumber
  BY <1>2 DEF CloseString, CloseArray, ReadLiteral, CloseObject, EndNumber, SkipNumber, Complete,
     ReadAgain
<1>3. CASE FinishValue
  BY <1>3 DEF FinishValue, ReadAgain
<1>4. CASE StartEscape \/ Escape \/ CloseName \/ StartLineComment \/ StartBlockComment
           \/ EndLineComment \/ EndBlockComment \/ Comma \/ Colon
  <2>1. "next" \notin flags
    BY <1>4 DEF StartEscape, Escape, CloseName, StartLineComment, StartBlockComment, EndLineComment,
       EndBlockComment, Comma, Colon, Scanning
  <2>2. flags' \subseteq flags \cup {"escaped", "seek_value", "need_colon", "line_comment",
                                     "block_comment"}
    <3>1. CASE StartEscape \/ Escape \/ CloseName
      BY <3>1 DEF StartEscape, Escape, CloseName, Continue
    <3>2. CASE StartLineComment \/ StartBlockComment \/ EndLineComment \/ EndBlockComment
      BY <3>2 DEF StartLineComment, StartBlockComment, EndLineComment, EndBlockComment, Continue
    <3>3. CASE Comma \/ Colon
      BY <3>3 DEF Comma, Colon, Continue
    <3>4. QED
      BY <1>4, <3>1, <3>2, <3>3
  <2>3. QED
    BY <2>1, <2>2 DEF ReadAgain
<1>5. CASE StartContainer \/ StartString \/ StartNumber \/ StartName
  <2>1. "next" \notin flags
    BY <1>5 DEF StartContainer, StartString, StartNumber, StartName, Scanning
  <2>2. flags' \subseteq flags \cup {"string"}
    <3>1. CASE StartContainer \/ StartNumber
      BY <3>1 DEF StartContainer, StartNumber, Continue, Found
    <3>2. CASE StartString \/ StartName
      BY <3>2 DEF StartString, StartName, Continue, Found
    <3>3. QED
      BY <1>5, <3>1, <3>2
  <2>3. QED
    BY <2>1, <2>2 DEF ReadAgain
<1>6. CASE Digit \/ ExponentSign \/ Exponent
  BY <1>6 DEF Digit, ExponentSign, Exponent, Continue, ReadAgain
<1>7. CASE EndPass
  BY <1>7 DEF EndPass, ReadAgain
<1>8. CASE StringChar \/ CommentChar \/ SkipBlank \/ Point \/ AllocationFails \/ ReadPastEnd
           \/ Reject \/ FreeChain \/ FreeDocument \/ Descend \/ Release \/ FreeDone
  <2>1. UNCHANGED flags
    BY <1>8 DEF StringChar, CommentChar, SkipBlank, Point, AllocationFails, ReadPastEnd, Reject,
       FreeChain, FreeDocument, Descend, Release, FreeDone, Continue, scanner
  <2>2. QED
    BY <1>1, <2>1
<1>9. UNCHANGED vars => UNCHANGED flags
  BY DEF vars, scanner
<1>10. QED
  BY <1>1, <1>2, <1>3, <1>4, <1>5, <1>6, <1>7, <1>8, <1>9 DEF Next

(* What goes with a comment, and with a number. *)
LookingOK ==
    /\ flags \cap {"string", "next"} # {} => "line_comment" \notin flags
    /\ InNumber /\ "next" \notin flags => "need_comma" \notin flags

(* Pass 1 and pass 0 have only flags that go together. *)
LEMMA LookingFits ==
    ASSUME PassesInv, pc = "scan"
    PROVE  LookingOK
<1>0. TypeOK /\ ScanOK /\ PassOne /\ PassZero
  BY DEF PassesInv, Inv
<1>1. ASSUME FlagsFit(flags, TopType), "next" \notin flags => ~InNumber
      PROVE  LookingOK
  BY <1>1 DEF FlagsFit, LookingOK
<1>2. CASE first_pass = 1
  <2>1. PICK G, S, s : Trace(G, S, s) /\ (s = Now(s.named) \/ InNumberFrom(s))
    BY <1>0, <1>2 DEF PassOne
  <2>2. s \in Snapshots /\ Fits(s)
    BY <2>1 DEF Trace
  <2>3. CASE s = Now(s.named)
    BY <1>1, <2>2, <2>3, NowMode
  <2>4. CASE InNumberFrom(s)
    BY <2>2, <2>4, NumberMode DEF LookingOK
  <2>5. QED
    BY <2>1, <2>3, <2>4
<1>3. CASE first_pass = 0
  <2>1. PICK G, e, s : Final(G, e) /\ s \in G /\ Follows(s, e)
    BY <1>0, <1>3 DEF PassZero
  <2>2. Fits(s) /\ s.scan.flags = flags /\ TypeAt(s) = TopType
    BY <1>0, <2>1, Following
  <2>3. FlagsFit(flags, TopType)
    BY <2>2 DEF Fits
  <2>4. "next" \notin flags => ~InNumber
    BY <2>3 DEF FlagsFit, InNumber, InValue, InJson, InString, IsDone, Seeking, TopType
  <2>5. QED
    BY <1>1, <2>3, <2>4
<1>4. QED
  BY <1>0, <1>2, <1>3 DEF ScanOK

----------------------------------------------------------------------------
(* The scanner goes to the next character. *)
LEMMA NextCharacter ==
    ASSUME TypeOK, UNCHANGED first_pass, ptr' = ptr + 1
    PROVE  ScansOn
<1>1. ptr \in Nat
  BY Position
<1>2. QED
  BY <1>1 DEF ScansOn

(* Most steps do, whatever they do to the values. *)
LEMMA GoesToNext ==
    ASSUME TypeOK,
           \/ StringChar \/ StartEscape \/ Escape \/ CloseName
           \/ StartLineComment \/ StartBlockComment \/ CommentChar \/ EndBlockComment
           \/ SkipBlank \/ Comma \/ Colon \/ StartContainer \/ StartString \/ StartName
           \/ Digit \/ ExponentSign \/ Point \/ Exponent
    PROVE  ScansOn
<1>1. CASE StringChar \/ StartEscape \/ Escape \/ CloseName
  BY <1>1, NextCharacter DEF StringChar, StartEscape, Escape, CloseName, Continue, rest
<1>2. CASE StartLineComment \/ StartBlockComment \/ CommentChar \/ EndBlockComment
  BY <1>2, NextCharacter DEF StartLineComment, StartBlockComment, CommentChar, EndBlockComment,
     Continue, rest
<1>3. CASE SkipBlank \/ Comma \/ Colon \/ StartContainer \/ StartString \/ StartName
  BY <1>3, NextCharacter DEF SkipBlank, Comma, Colon, StartContainer, StartString, StartName,
     Continue, rest
<1>4. CASE Digit \/ ExponentSign \/ Point \/ Exponent
  BY <1>4, NextCharacter DEF Digit, ExponentSign, Point, Exponent, Continue, rest
<1>5. QED
  BY <1>1, <1>2, <1>3, <1>4

(* The others have one look less at the character. *)
LEMMA LooksLess ==
    ASSUME UNCHANGED first_pass, UNCHANGED ptr, LooksLeft' < LooksLeft
    PROVE  ScansOn
BY DEF ScansOn

(* The end of a comment, of a value and of a number. *)
LEMMA LooksAgain ==
    ASSUME LookingOK, ReadAgain,
           EndLineComment \/ CloseString \/ CloseArray \/ ReadLiteral \/ CloseObject \/ EndNumber
    PROVE  ScansOn
<1>0. "next" \notin flags /\ "reproc" \notin flags /\ UNCHANGED first_pass /\ UNCHANGED ptr
  <2>1. "next" \notin flags
    BY DEF EndLineComment, CloseString, CloseArray, ReadLiteral, CloseObject, EndNumber, Scanning
  <2>2. UNCHANGED first_pass /\ UNCHANGED ptr
    BY DEF EndLineComment, CloseString, CloseArray, ReadLiteral, CloseObject, EndNumber, Complete,
       rest
  <2>3. QED
    BY <2>1, <2>2 DEF ReadAgain
<1>1. CASE EndLineComment
  <2>1. "line_comment" \in flags /\ "line_comment" \notin flags'
    BY <1>1 DEF EndLineComment, InLineComment
  <2>2. LooksLeft = 5 /\ LooksLeft' \in {0, 1, 2, 3, 4}
    BY <2>1 DEF LooksLeft, InLineComment
  <2>3. QED
    BY <1>0, <2>2, LooksLess
<1>2. CASE CloseString \/ CloseArray \/ ReadLiteral \/ CloseObject
  <2>1. /\ "next" \in flags' /\ "reproc" \notin flags' /\ flags' \subseteq flags \cup {"next"}
        /\ "line_comment" \notin flags
    <3>1. CASE CloseString
      BY <1>0, <3>1 DEF CloseString, Complete, InString, LookingOK
    <3>2. CASE CloseArray \/ ReadLiteral \/ CloseObject
      BY <1>0, <3>2 DEF CloseArray, ReadLiteral, CloseObject, AtValue, Seeking, InObject, InValue,
         InJson, InLineComment, Complete, Found
    <3>3. QED
      BY <1>2, <3>1, <3>2
  <2>2. LooksLeft' = 0 /\ LooksLeft \in {1, 3, 4}
    BY <1>0, <2>1 DEF LooksLeft, InLineComment
  <2>3. QED
    BY <1>0, <2>2, LooksLess
<1>3. CASE EndNumber
  <2>1. /\ InNumber /\ flags' = flags \cup {"next", "reproc"}
        /\ "line_comment" \notin flags /\ "seek_value" \notin flags
    BY <1>3 DEF EndNumber, Complete, InNumber, InValue, Seeking, IsDone, InJson, InLineComment
  <2>2. "need_comma" \notin flags
    BY <1>0, <2>1 DEF LookingOK
  <2>3. LooksLeft = 3 /\ LooksLeft' = 2
    BY <1>0, <2>1, <2>2 DEF LooksLeft, InLineComment
  <2>4. QED
    BY <1>0, <2>3, LooksLess
<1>4. QED
  BY <1>1, <1>2, <1>3

(* A digit with which a number begins is read again, by the code for numbers. *)
LEMMA LooksAtNumber ==
    ASSUME TypeOK, StartNumber
    PROVE  ScansOn
<1>1. PICK b \in {"-"} \cup Digits :
        /\ Scanning(b) /\ AtValue /\ UNCHANGED first_pass
        /\ flags' = Found \ {"num_zero", "num_e", "num_e_got_sign"}
        /\ ptr' = IF b = "-" THEN ptr + 1 ELSE ptr
  BY DEF StartNumber
<1>2. CASE b = "-"
  BY <1>1, <1>2, NextCharacter
<1>3. CASE b # "-"
  <2>1. /\ "next" \notin flags /\ "seek_value" \in flags /\ "need_comma" \notin flags
        /\ "line_comment" \notin flags
    BY <1>1 DEF Scanning, AtValue, Seeking, InJson, InLineComment
  <2>2. /\ "next" \notin flags' /\ "seek_value" \notin flags' /\ "need_comma" \notin flags'
        /\ "line_comment" \notin flags'
    BY <1>1, <2>1 DEF Found
  <2>3. LooksLeft = 4 /\ LooksLeft' = 3
    BY <2>1, <2>2 DEF LooksLeft, InLineComment
  <2>4. QED
    BY <1>1, <1>3, <2>3, LooksLess
<1>4. QED
  BY <1>2, <1>3

(* Pass 0 skips at least the character with which the number begins. *)
LEMMA SkipsCharacters ==
    ASSUME TypeOK, ScanOK, SkipNumber
    PROVE  ScansOn
<1>1. PICK b \in {"-"} \cup Digits : Scanning(b) /\ first_pass = 0
  BY DEF SkipNumber
<1>2. ptr' = BehindNumber /\ UNCHANGED first_pass
  BY DEF SkipNumber, BehindNumber
<1>3. ptr \in Nat /\ Len(text) \in Nat
  BY Position
<1>4. BehindNumber \in ptr .. Len(text) /\ text[BehindNumber] \notin Skipped
  BY <1>1, NumberEnds
<1>5. text[ptr] \in Skipped
  <2>1. ptr <= Len(text)
    BY <1>3, <1>4
  <2>2. b = text[ptr]
    BY <1>1, <2>1 DEF Scanning, Readable
  <2>3. QED
    BY <1>1, <2>2 DEF Skipped, Signs
<1>6. BehindNumber # ptr
  BY <1>4, <1>5
<1>7. ptr' > ptr
  BY <1>2, <1>3, <1>4, <1>6
<1>8. QED
  BY <1>2, <1>7 DEF ScansOn

(* A value is complete; the character may be the one behind it. *)
LEMMA LooksBehind ==
    ASSUME TypeOK, LookingOK, FinishValue
    PROVE  ScansOn
<1>1. "next" \in flags /\ UNCHANGED first_pass
  BY DEF FinishValue, rest
<1>2. CASE "reproc" \notin flags
  <2>1. ptr' = ptr + 1
    BY <1>2 DEF FinishValue
  <2>2. QED
    BY <1>1, <2>1, NextCharacter
<1>3. CASE "reproc" \in flags
  <2>1. /\ UNCHANGED ptr /\ "next" \notin flags' /\ "need_comma" \in flags'
        /\ flags' \subseteq flags \cup {"need_comma", "done", "seek_value"}
    BY <1>3 DEF FinishValue
  <2>2. "line_comment" \notin flags
    BY <1>1 DEF LookingOK
  <2>3. "line_comment" \notin flags'
    BY <2>1, <2>2
  <2>4. LooksLeft = 2 /\ LooksLeft' = 1
    BY <1>1, <1>3, <2>1, <2>2, <2>3 DEF LooksLeft, InLineComment
  <2>5. QED
    BY <1>1, <2>1, <2>4, LooksLess
<1>4. QED
  BY <1>2, <1>3

(* While the text is read. *)
LEMMA ScanningForward ==
    ASSUME PassesInv, ReadAgain, Next, pc = "scan", pc' = "scan"
    PROVE  ScansOn
<1>0. TypeOK /\ ScanOK /\ LookingOK
  BY LookingFits DEF PassesInv, Inv
<1>1. CASE EndPass
  <2>1. first_pass' = first_pass - 1 /\ first_pass = 1
    BY <1>1 DEF EndPass
  <2>2. QED
    BY <2>1 DEF ScansOn
<1>2. ~(AllocationFails \/ ReadPastEnd \/ Reject)
  BY DEF AllocationFails, ReadPastEnd, Reject
<1>3. ~(FreeChain \/ FreeDocument \/ Descend \/ Release \/ FreeDone)
  BY DEF FreeChain, FreeDocument, Descend, Release, FreeDone
<1>4. QED
  BY <1>0, <1>1, <1>2, <1>3, GoesToNext, LooksAgain, LooksAtNumber, SkipsCharacters, LooksBehind
     DEF Next

----------------------------------------------------------------------------
(* What has yet to be walked. *)
LEMMA WalkIs ==
    ASSUME values \in Seq(Records)
    PROVE  \A n, i : <<n, i>> \in ToWalk <=> n \in 1 .. Len(values) /\ i \in 1 .. values[n].length
<1>1. DOMAIN values = 1 .. Len(values)
  OBVIOUS
<1>2. QED
  BY <1>1 DEF ToWalk

(* The walk down takes an entry off. *)
LEMMA WalksDown ==
    ASSUME Inv, Descend, pc' = "free"
    PROVE  FreesOn
<1>0. values \in Seq(Records) /\ cur \in 0 .. Len(values) /\ Len(values) \in Nat
  <2>1. values \in Seq(Records) /\ cur \in 0 .. Len(values)
    BY DEF Inv, TypeOK
  <2>2. QED
    BY <2>1
<1>1. /\ cur \in 1 .. Len(values) /\ HasKids(values[cur])
      /\ values' = [values EXCEPT ![cur].length = @ - 1]
  BY <1>0 DEF Descend
<1>2. values[cur] \in Records
  BY <1>0, <1>1
<1>3. values[cur].length \in Nat /\ values[cur].length > 0
  BY <1>1, <1>2, RecordFields DEF HasKids
<1> DEFINE v == [values[cur] EXCEPT !.length = values[cur].length - 1]
<1>4. v \in Records /\ v.length = values[cur].length - 1
  <2>1. values[cur].length - 1 \in Nat
    BY <1>3
  <2>2. QED
    BY <1>2, <2>1, ZenonT(60) DEF Records
<1>5. values' = [values EXCEPT ![cur] = v]
  BY <1>0, <1>1
<1> HIDE DEF v
<1>6. /\ values' \in Seq(Records) /\ Len(values') = Len(values) /\ values'[cur] = v
      /\ \A n \in 1 .. Len(values) : n # cur => values'[n] = values[n]
  BY <1>0, <1>1, <1>4, <1>5
<1>7. \A n, i : <<n, i>> \in ToWalk' <=> n \in 1 .. Len(values') /\ i \in 1 .. values'[n].length
  <2>1. DOMAIN values' = 1 .. Len(values')
    BY <1>6
  <2>2. QED
    BY <2>1 DEF ToWalk
<1>8. \A n, i : <<n, i>> \in ToWalk <=> n \in 1 .. Len(values) /\ i \in 1 .. values[n].length
  BY <1>0, WalkIs
<1>9. ToWalk' \subseteq ToWalk
  <2>1. ASSUME NEW e \in ToWalk'
        PROVE  e \in ToWalk
    <3>1. PICK n \in DOMAIN values' : \E i \in 1 .. values'[n].length : e = <<n, i>>
      BY <2>1 DEF ToWalk
    <3>2. PICK i \in 1 .. values'[n].length : e = <<n, i>>
      BY <3>1
    <3>3. n \in 1 .. Len(values)
      BY <1>6, <3>1
    <3>4. i \in 1 .. values[n].length
      <4>1. CASE n = cur
        BY <1>3, <1>4, <1>6, <3>2, <4>1
      <4>2. CASE n # cur
        BY <1>6, <3>2, <3>3, <4>2
      <4>3. QED
        BY <4>1, <4>2
    <3>5. QED
      BY <1>8, <3>2, <3>3, <3>4
  <2>2. QED
    BY <2>1
<1>10. <<cur, values[cur].length>> \in ToWalk
  <2>1. values[cur].length \in 1 .. values[cur].length
    BY <1>3
  <2>2. QED
    BY <1>1, <1>8, <2>1
<1>11. <<cur, values[cur].length>> \notin ToWalk'
  <2>1. ~(values[cur].length \in 1 .. values'[cur].length)
    BY <1>3, <1>4, <1>6
  <2>2. QED
    BY <1>7, <2>1
<1>12. ToWalk' # ToWalk
  BY <1>10, <1>11
<1>13. QED
  BY <1>9, <1>12 DEF FreesOn

(* The walk up goes to a value that is older. *)
LEMMA WalksUp ==
    ASSUME Inv, Release
    PROVE  FreesOn
<1>1. UNCHANGED values /\ cur' = values[cur].parent /\ cur # 0
  BY DEF Release, tree
<1>2. cur \in 0 .. Len(values) /\ Len(values) \in Nat
  <2>1. values \in Seq(Records) /\ cur \in 0 .. Len(values)
    BY DEF Inv, TypeOK
  <2>2. QED
    BY <2>1
<1>3. cur \in 1 .. Len(values)
  BY <1>1, <1>2
<1>4. values[cur].parent \in 0 .. cur - 1
  BY <1>3 DEF Inv, ChainOK
<1>5. cur' < cur
  BY <1>1, <1>3, <1>4
<1>6. ToWalk' = ToWalk
  BY <1>1 DEF ToWalk
<1>7. QED
  BY <1>5, <1>6 DEF FreesOn

(* Behind the scan. *)
LEMMA FreeingForward ==
    ASSUME Inv, Next, pc # "scan"
    PROVE  Forward
<1>1. FreeChain \/ FreeDocument \/ Descend \/ Release \/ FreeDone
  BY DEF Next, StringChar, StartEscape, Escape, CloseString, CloseName, StartLineComment,
     StartBlockComment, CommentChar, EndLineComment, EndBlockComment, SkipBlank, CloseArray,
     Comma, Colon, StartContainer, StartString, ReadLiteral, StartNumber, SkipNumber,
     AllocationFails, ReadPastEnd, StartName, CloseObject, Digit, ExponentSign, Point,
     Exponent, EndNumber, FinishValue, EndPass, Reject, Scanning
<1>2. CASE FreeChain
  <2>1. pc \in {"e_failed", "e_alloc_failure"} /\ pc' \in {"failed", "free"}
    BY <1>2 DEF FreeChain
  <2>2. Phase = 2 /\ Phase' \in {0, 1}
    BY <2>1 DEF Phase
  <2>3. QED
    BY <2>2 DEF Forward
<1>3. CASE FreeDocument
  <2>1. pc = "returned" /\ pc' = "free"
    BY <1>3 DEF FreeDocument
  <2>2. Phase = 2 /\ Phase' = 1
    BY <2>1 DEF Phase
  <2>3. QED
    BY <2>2 DEF Forward
<1>4. CASE FreeDone \/ (Descend /\ pc' # "free")
  <2>1. pc = "free" /\ pc' \in {"failed", "freed", "crashed"}
    BY <1>4 DEF FreeDone, Descend
  <2>2. Phase = 1 /\ Phase' = 0
    BY <2>1 DEF Phase
  <2>3. QED
    BY <2>2 DEF Forward
<1>5. CASE Descend /\ pc' = "free"
  <2>1. pc = "free"
    BY <1>5 DEF Descend
  <2>2. QED
    BY <1>5, <2>1, WalksDown DEF Forward
<1>6. CASE Release
  <2>1. pc = "free" /\ pc' = "free"
    BY <1>6 DEF Release
  <2>2. QED
    BY <1>6, <2>1, WalksUp DEF Forward
<1>7. QED
  BY <1>1, <1>2, <1>3, <1>4, <1>5, <1>6

(***************************************************************************)
(* Whatever the text, and whichever allocation fails, every step of        *)
(* json_parse_ex, of the release of what it leaves and of json_value_free  *)
(* leaves less to do.  What there is to do is the passes, the rest of the  *)
(* text and the rest of the tree, so none of them goes on for ever with a  *)
(* text that ends: the part of Terminates that needs no fairness.          *)
(***************************************************************************)
THEOREM GoesForward == Spec => AlwaysForward
<1>1. PassesInv /\ ReadAgain /\ [Next]_vars => [Forward]_vars
  <2> SUFFICES ASSUME PassesInv, ReadAgain, Next
               PROVE  Forward
    OBVIOUS
  <2>1. CASE pc # "scan"
    BY <2>1, FreeingForward DEF PassesInv
  <2>2. CASE pc = "scan" /\ pc' = "scan"
    BY <2>2, ScanningForward DEF Forward
  <2>3. CASE pc = "scan" /\ pc' # "scan"
    <3>1. Phase = 3 /\ Phase' \in {0, 1, 2}
      BY <2>3 DEF Phase
    <3>2. QED
      BY <3>1 DEF Forward
  <2>4. QED
    BY <2>1, <2>2, <2>3
<1>2. Spec => []ReadAgain
  BY InitReadAgain, StepReadAgain, PTL DEF Spec
<1>3. QED
  BY <1>1, <1>2, PassesInvariance, PTL DEF Spec, AlwaysForward
=============================================================================
