--------------------------- MODULE JsonTextProofs ---------------------------
(***************************************************************************)
(* What json_parse returns is the text, for every text: ResultIsTheText.   *)
(*                                                                         *)
(* The text is read by a lexer beside the scanner (JsonText), and the tree *)
(* is written down when it is complete.  While pass 0 runs, the invariant  *)
(* says where in the tokens read so far each value is written: from[n] to  *)
(* to[n].  Those that are not complete have their beginning; the scanner's *)
(* flags say which token comes next.  At the end all are complete, and by  *)
(* going from the last value to the first each is written as the part of   *)
(* the text that it came from.                                             *)
(***************************************************************************)
EXTENDS JsonTreeProofs, JsonText

----------------------------------------------------------------------------
(***************************************************************************)
(* Where the values of the tree are in the text: value n is written at the *)
(* tokens from[n] to to[n] of T.                                           *)
(***************************************************************************)
Opening(v) == IF v.type = "array" THEN Mark("[") ELSE Mark("{")
Closing(v) == IF v.type = "array" THEN Mark("]") ELSE Mark("}")
Single(v) == IF v.type = "string" THEN StringOf(v.length)
             ELSE IF v.type = "literal" THEN Mark(Literal) ELSE Number

(* The last token of the first i entries of v, which is value n. *)
Behind(v, n, i, from, to) == IF i = 0 THEN from[n] ELSE to[v.kids[i]]

(* Behind the token at e there is what comes in front of entry i of v, up to f. *)
PutAt(T, v, i, e, f) ==
    LET g == IF i = 1 THEN e ELSE e + 1 IN
    /\ i # 1 => T[e + 1] = Mark(",")
    /\ IF v.type = "object"
       THEN /\ i <= Len(v.keys) /\ T[g + 1] = StringOf(v.keys[i])
            /\ T[g + 2] = Mark(":") /\ f = g + 3
       ELSE f = g + 1

(* Value n begins there, and its entries are behind one another. *)
Begun(T, vals, n, from, to) ==
    LET v == vals[n] IN
    /\ from[n] \in 1 .. Len(T)
    /\ v.type \in Containers => T[from[n]] = Opening(v)
    /\ \A i \in 1 .. Len(v.kids) : PutAt(T, v, i, Behind(v, n, i - 1, from, to), from[v.kids[i]])

(* It ends there. *)
WholeAt(T, vals, n, from, to) ==
    LET v == vals[n] IN
    /\ to[n] \in 1 .. Len(T)
    /\ IF v.type \in Containers
       THEN to[n] = Behind(v, n, Len(v.kids), from, to) + 1 /\ T[to[n]] = Closing(v)
       ELSE to[n] = from[n] /\ T[to[n]] = Single(v)

(* What is at f is to be the next entry of p, or the document. *)
NextOf(T, vals, p, f, from, to) ==
    IF p = 0 THEN f = 1
    ELSE LET v == vals[p] IN
         PutAt(T, v, Len(v.kids) + 1, Behind(v, p, Len(v.kids), from, to), f)

(* What is not complete is one in the other. *)
Chained(vals, O) ==
    \A n \in O : /\ vals[n].parent \in O \cup {0}
                 /\ \A m \in O : vals[m].parent = vals[n].parent => m = n

(* G: the values met so far, O: those not yet in their parents, u: one of   *)
(* which the text has not been read, or 0.                                 *)
Spans(T, vals, G, O, u, from, to) ==
    /\ from \in [1 .. Len(vals) -> Nat] /\ to \in [1 .. Len(vals) -> Nat]
    /\ O \subseteq G /\ G \subseteq 1 .. Len(vals)
    /\ \A n \in G : \A i \in 1 .. Len(vals[n].kids) :
         vals[n].kids[i] \in G \ O /\ vals[vals[n].kids[i]].parent = n
    /\ Chained(vals, O)
    /\ u # 0 => u \in O /\ vals[u].kids = <<>> /\ \A n \in O : vals[n].parent # u
    /\ \A n \in G : n # u => Begun(T, vals, n, from, to)
    /\ \A n \in G \ O : WholeAt(T, vals, n, from, to)
    /\ \A n \in O : n # u => NextOf(T, vals, vals[n].parent, from[n], from, to)

----------------------------------------------------------------------------
(* The lexer is behind the characters that the scanner is done with. *)
Read == IF "next" \in flags /\ "reproc" \notin flags THEN ptr ELSE ptr - 1
Lex == Lexing(text)[Read]

(* It sees strings and comments where the scanner does. *)
SameMode(x) ==
    /\ "reproc" \in flags => "next" \in flags
    /\ x.number => x.mode = "out" /\ text[Read + 1] \notin NumberChars
    /\ x.bytes = IF InString THEN string_length ELSE 0
    /\ IF "next" \in flags THEN x.mode = "out"
       ELSE IF InString THEN x.mode = IF "escaped" \in flags THEN "escape" ELSE "in"
       ELSE IF InLineComment THEN x.mode = "line"
       ELSE IF InBlockComment THEN x.mode = "block"
       ELSE x.mode = "out" \/ (x.mode = "line" /\ text[ptr] \in {Newline, NUL})

(* The string that is being read, and what it or the next value will be in. *)
Unread ==
    IF top # 0 /\ flags \cap {"next", "done"} = {} /\ values[top].type = "string" THEN top ELSE 0
Holder == IF Unread # 0 THEN Parent(top) ELSE top

(* v is at e, between two entries or at an end. *)
Between(T, comma, v, e) ==
    /\ Len(T) = e
    /\ comma <=> v.kids # <<>> /\ "need_comma" \notin flags
    /\ v.kids = <<>> => "need_comma" \notin flags
    /\ "need_colon" \notin flags
    /\ v.type = "object" => Len(v.keys) = Len(v.kids)

(* v has a name without its value. *)
Named(T, comma, v, e) ==
    LET g == IF v.kids = <<>> THEN e ELSE e + 1 IN
    /\ ~comma /\ "need_comma" \notin flags /\ Len(v.keys) = Len(v.kids) + 1
    /\ v.kids # <<>> => T[e + 1] = Mark(",")
    /\ T[g + 1] = StringOf(v.keys[Len(v.kids) + 1])
    /\ IF "need_colon" \in flags THEN Len(T) = g + 1
       ELSE Len(T) = g + 2 /\ T[g + 2] = Mark(":")

(* What is not complete has its name. *)
NamesFit(vals, O) ==
    \A n \in O :
        LET v == vals[vals[n].parent] IN
        vals[n].parent # 0 /\ v.type = "object" => Len(v.keys) = Len(v.kids) + 1

(* What has been written of h, which is not complete. *)
Ahead(x, h, from, to) ==
    LET v == values[h]
        e == Behind(v, h, Len(v.kids), from, to)
    IN  /\ v.type \in Containers
        /\ IF v.type = "object" /\ (Unread # 0 \/ "seek_value" \in flags)
           THEN Named(x.tokens, x.comma, v, e)
           ELSE Between(x.tokens, x.comma, v, e)

(* The tree is written up to what has been read. *)
Frontier(x, from, to) ==
    /\ "next" \in flags =>
         /\ ~x.comma /\ "need_colon" \notin flags
         /\ WholeAt(x.tokens, values, top, from, to) /\ to[top] = Len(x.tokens)
    /\ "done" \in flags => ~x.comma /\ from[root] = 1 /\ to[root] = Len(x.tokens)
    /\ flags \cap {"next", "done"} = {} =>
         /\ top # 0 => values[top].type \in Containers \cup {"string"}
         /\ InString => flags \cap {"need_comma", "need_colon"} = {}
         /\ Holder = 0 => x.tokens = <<>> /\ ~x.comma /\ flags \cap {"need_comma", "need_colon"} = {}
         /\ Holder # 0 => Ahead(x, Holder, from, to)

(* The state of pass 0: the lexer, the tree and the text of what has been  *)
(* read agree.                                                             *)
Reading(x, O, from, to) ==
    /\ SameMode(x) /\ Frontier(x, from, to)
    /\ Branch(O, Tip) /\ NamesFit(values, O)
    /\ Spans(x.tokens, values, Given, O, Unread, from, to)

(* All values are complete, and r is all of the text. *)
WholeText(T, vals, r, from, to) ==
    /\ Spans(T, vals, 1 .. Len(vals), {}, 0, from, to)
    /\ r \in 1 .. Len(vals) /\ from[r] = 1 /\ to[r] = Len(T)
    /\ \A n \in 1 .. Len(vals) :
         vals[n].type \in Containers => vals[n].length = Len(vals[n].kids)

(* At the end there is nothing but complete values. *)
TextOf ==
    /\ pc = "scan" /\ first_pass = 0 =>
         \E O, from, to : Reading(Lex, O, from, to)
    /\ pc = "returned" =>
         \E from, to : WholeText(Lexed, values, root, from, to)

----------------------------------------------------------------------------
(***************************************************************************)
(* The lexer: its states, one by one.                                      *)
(***************************************************************************)
Tokens == (Chars \cup {"string", "number"}) \X Nat
LexStates == [mode: {"out", "in", "escape", "line", "block"}, bytes: Nat, number: BOOLEAN,
              comma: BOOLEAN, tokens: Seq(Tokens)]

(* f has the states of the lexer up to m. *)
LexedUpTo(t, m, f) ==
    f = [k \in 0 .. m |-> IF k = 0 THEN LexStart ELSE LexChar(f[k - 1], t[k])]

(* They exist, up to any place of the text. *)
LEMMA LexingExists ==
    ASSUME NEW t \in Seq(Chars)
    PROVE  \E f : LexedUpTo(t, Len(t), f)
<1> DEFINE Bad == {m \in Nat : m <= Len(t) /\ ~\E f : LexedUpTo(t, m, f)}
<1> SUFFICES ASSUME Bad # {}
             PROVE  FALSE
  <2>1. Len(t) \in Nat
    OBVIOUS
  <2>2. QED
    BY <2>1
<1>1. PICK x \in Bad : \A y \in Bad : x <= y
  BY Least
<1>2. CASE x = 0
  <2> DEFINE f == [k \in 0 .. 0 |-> LexStart]
  <2>1. LexedUpTo(t, 0, f)
    BY DEF LexedUpTo
  <2>2. QED
    BY <1>2, <2>1
<1>3. CASE x # 0
  <2>1. x \in Nat /\ x - 1 \in Nat /\ x <= Len(t) /\ x - 1 <= Len(t) /\ Len(t) \in Nat
    BY <1>3
  <2>2. x - 1 \notin Bad
    BY <1>1, <2>1
  <2>3. PICK f : LexedUpTo(t, x - 1, f)
    BY <2>1, <2>2
  <2> DEFINE g == [k \in 0 .. x |-> IF k = x THEN LexChar(f[x - 1], t[x]) ELSE f[k]]
  <2>4. ASSUME NEW k \in 0 .. x
        PROVE  g[k] = IF k = 0 THEN LexStart ELSE LexChar(g[k - 1], t[k])
    <3>1. CASE k = x
      <4>1. g[k] = LexChar(f[x - 1], t[x]) /\ x - 1 \in 0 .. x /\ x - 1 # x
        BY <2>1, <3>1
      <4>2. g[x - 1] = f[x - 1]
        BY <4>1
      <4>3. QED
        BY <1>3, <3>1, <4>1, <4>2
    <3>2. CASE k # x
      <4>1. k \in 0 .. x - 1 /\ g[k] = f[k] /\ (k # 0 => k - 1 \in 0 .. x /\ k - 1 # x)
        BY <2>1, <3>2
      <4>2. k # 0 => g[k - 1] = f[k - 1]
        BY <4>1
      <4>3. f[k] = IF k = 0 THEN LexStart ELSE LexChar(f[k - 1], t[k])
        BY <2>3, <4>1 DEF LexedUpTo
      <4>4. QED
        BY <4>1, <4>2, <4>3
    <3>3. QED
      BY <3>1, <3>2
  <2>5. g = [k \in 0 .. x |-> IF k = 0 THEN LexStart ELSE LexChar(g[k - 1], t[k])]
    BY <2>4
  <2> HIDE DEF g
  <2>6. LexedUpTo(t, x, g)
    BY <2>5 DEF LexedUpTo
  <2>7. QED
    BY <2>6
<1>4. QED
  BY <1>2, <1>3

(* So Lexing is what it is defined to be. *)
LEMMA LexingIs ==
    ASSUME NEW t \in Seq(Chars)
    PROVE  /\ Lexing(t)[0] = LexStart
           /\ \A k \in 1 .. Len(t) : Lexing(t)[k] = LexChar(Lexing(t)[k - 1], t[k])
<1>1. LexedUpTo(t, Len(t), Lexing(t))
  BY LexingExists DEF Lexing, LexedUpTo
<1>2. Len(t) \in Nat
  OBVIOUS
<1> DEFINE L == Lexing(t)
<1> HIDE DEF L
<1>3. L = [k \in 0 .. Len(t) |-> IF k = 0 THEN LexStart ELSE LexChar(L[k - 1], t[k])]
  BY <1>1 DEF LexedUpTo, L
<1>4. L[0] = LexStart /\ \A k \in 1 .. Len(t) : L[k] = LexChar(L[k - 1], t[k])
  <2>1. 0 \in 0 .. Len(t) /\ \A k \in 1 .. Len(t) : k \in 0 .. Len(t) /\ k # 0
    BY <1>2
  <2>2. QED
    BY <1>3, <2>1
<1>5. QED
  BY <1>4 DEF L

(* Tokens are tokens. *)
LEMMA MarkTypes ==
    /\ \A b \in Chars : Mark(b) \in Tokens
    /\ \A n \in Nat : StringOf(n) \in Tokens
    /\ Number \in Tokens
    /\ Mark(",") \in Tokens
BY ZenonT(60) DEF Mark, StringOf, Number, Tokens, Chars

(* A comma is a token like the others. *)
LEMMA WithCommaType ==
    ASSUME NEW x \in LexStates
    PROVE  WithComma(x) \in Seq(Tokens)
<1>1. x.tokens \in Seq(Tokens) /\ Mark(",") \in Tokens
  BY MarkTypes DEF LexStates
<1>2. Append(x.tokens, Mark(",")) \in Seq(Tokens)
  BY <1>1, AppendProperties
<1>3. QED
  BY <1>1, <1>2 DEF WithComma

(* What is there behind a token. *)
LEMMA EmitIs ==
    ASSUME NEW x \in LexStates, NEW token \in Tokens
    PROVE  /\ Emit(x, token) \in LexStates
           /\ Emit(x, token).mode = "out" /\ Emit(x, token).bytes = 0
           /\ Emit(x, token).number = FALSE /\ Emit(x, token).comma = FALSE
           /\ Emit(x, token).tokens =
                Append(IF token \in {Mark("]"), Mark("}")} THEN x.tokens ELSE WithComma(x), token)
<1> DEFINE s == Append(IF token \in {Mark("]"), Mark("}")} THEN x.tokens ELSE WithComma(x), token)
<1>1. s \in Seq(Tokens)
  <2>1. x.tokens \in Seq(Tokens) /\ WithComma(x) \in Seq(Tokens)
    BY WithCommaType DEF LexStates
  <2>2. QED
    BY <2>1, AppendProperties
<1>2. Emit(x, token) = [LexStart EXCEPT !.tokens = s]
  BY DEF Emit
<1> HIDE DEF s
<1>3. /\ Emit(x, token).mode = "out" /\ Emit(x, token).bytes = 0
      /\ Emit(x, token).number = FALSE /\ Emit(x, token).comma = FALSE
      /\ Emit(x, token).tokens = s
  BY <1>2 DEF LexStart
<1>4. Emit(x, token) = [mode |-> "out", bytes |-> 0, number |-> FALSE, comma |-> FALSE, tokens |-> s]
  BY <1>2 DEF LexStart
<1>5. Emit(x, token) \in LexStates
  BY <1>1, <1>4 DEF LexStates
<1>6. QED
  BY <1>3, <1>5 DEF s

(* A lexer that only looks: the tokens stay. *)
Looks(x, y) == y \in LexStates /\ y.comma = x.comma /\ y.tokens = x.tokens

(* In a string. *)
LEMMA LexInString ==
    ASSUME NEW x \in LexStates, NEW b \in Chars, NEW y, y = LexChar(x, b)
    PROVE  /\ x.mode = "escape" =>
                /\ Looks(x, y) /\ y.mode = "in" /\ y.number = x.number
                /\ y.bytes = x.bytes + (IF b = Unicode THEN 3 ELSE 1)
           /\ x.mode = "in" /\ b = Quote => y = Emit(x, StringOf(x.bytes))
           /\ x.mode = "in" /\ b = Backslash =>
                Looks(x, y) /\ y.mode = "escape" /\ y.number = x.number /\ y.bytes = x.bytes
           /\ x.mode = "in" /\ b \notin {Quote, Backslash} =>
                Looks(x, y) /\ y.mode = "in" /\ y.number = x.number /\ y.bytes = x.bytes + 1
<1>1. CASE x.mode = "escape"
  <2>1. y = [x EXCEPT !.mode = "in", !.bytes = x.bytes + (IF b = Unicode THEN 3 ELSE 1)]
    BY <1>1 DEF LexChar
  <2>2. x.bytes + (IF b = Unicode THEN 3 ELSE 1) \in Nat
    BY DEF LexStates
  <2>3. QED
    BY <1>1, <2>1, <2>2 DEF LexStates, Looks
<1>2. CASE x.mode = "in" /\ b = Quote
  BY <1>2 DEF LexChar, Quote, Backslash
<1>3. CASE x.mode = "in" /\ b = Backslash
  <2>1. y = [x EXCEPT !.mode = "escape"]
    BY <1>3 DEF LexChar, Quote, Backslash
  <2>2. QED
    BY <1>3, <2>1 DEF LexStates, Looks, Quote, Backslash
<1>4. CASE x.mode = "in" /\ b \notin {Quote, Backslash}
  <2>1. y = [x EXCEPT !.bytes = x.bytes + 1]
    BY <1>4 DEF LexChar
  <2>2. x.bytes + 1 \in Nat
    BY DEF LexStates
  <2>3. QED
    BY <1>4, <2>1, <2>2 DEF LexStates, Looks
<1>5. QED
  BY <1>1, <1>2, <1>3, <1>4 DEF Quote, Backslash

(* In a comment. *)
LEMMA LexInComment ==
    ASSUME NEW x \in LexStates, NEW b \in Chars, NEW y, y = LexChar(x, b)
    PROVE  /\ x.mode = "line" =>
                /\ Looks(x, y) /\ y.number = x.number /\ y.bytes = x.bytes
                /\ y.mode = IF b = Newline THEN "out" ELSE "line"
           /\ x.mode = "block" =>
                /\ Looks(x, y) /\ y.number = x.number /\ y.bytes = x.bytes
                /\ y.mode = IF b = EndComment THEN "out" ELSE "block"
<1>1. CASE x.mode = "line"
  <2>1. y = [x EXCEPT !.mode = IF b = Newline THEN "out" ELSE "line"]
    BY <1>1 DEF LexChar
  <2>2. QED
    BY <1>1, <2>1 DEF LexStates, Looks
<1>2. CASE x.mode = "block"
  <2>1. y = [x EXCEPT !.mode = IF b = EndComment THEN "out" ELSE "block"]
    BY <1>2 DEF LexChar
  <2>2. QED
    BY <1>2, <2>1 DEF LexStates, Looks
<1>3. QED
  BY <1>1, <1>2

(* Between the tokens. *)
LookedAt(x, b, y) ==
    /\ b \in {Blank, Newline, NUL} =>
         Looks(x, y) /\ y.mode = "out" /\ y.number = FALSE /\ y.bytes = x.bytes
    /\ b = Quote => Looks(x, y) /\ y.mode = "in" /\ y.number = FALSE /\ y.bytes = x.bytes
    /\ b = LineComment => Looks(x, y) /\ y.mode = "line" /\ y.number = FALSE /\ y.bytes = x.bytes
    /\ b = BlockComment => Looks(x, y) /\ y.mode = "block" /\ y.number = FALSE /\ y.bytes = x.bytes

(* Outside of strings and comments, blanks and what opens these are no     *)
(* tokens.                                                                 *)
LEMMA LexOutside ==
    ASSUME NEW x \in LexStates, NEW b \in Chars, x.mode = "out"
    PROVE  LookedAt(x, b, LexChar(x, b))
<1> DEFINE y == LexChar(x, b)
<1> SUFFICES LookedAt(x, b, y)
  OBVIOUS
<1> USE DEF LookedAt
<1>1. CASE b \in {Blank, Newline, NUL}
  <2>1. y = [x EXCEPT !.number = FALSE]
    BY <1>1 DEF LexChar, Blank, Newline, NUL, Quote, LineComment, BlockComment,
       NumberChars, Digits, Signs
  <2>2. QED
    BY <1>1, <2>1 DEF LexStates, Looks, Blank, Newline, NUL, Quote, LineComment, BlockComment
<1>2. CASE b = Quote
  <2>1. y = [x EXCEPT !.mode = "in", !.number = FALSE]
    BY <1>2 DEF LexChar, Blank, Newline, NUL, Quote, LineComment, BlockComment,
       NumberChars, Digits, Signs
  <2>2. QED
    BY <1>2, <2>1 DEF LexStates, Looks, Blank, Newline, NUL, Quote, LineComment, BlockComment
<1>3. CASE b = LineComment
  <2>1. y = [x EXCEPT !.mode = "line", !.number = FALSE]
    BY <1>3 DEF LexChar, Blank, Newline, NUL, Quote, LineComment, BlockComment,
       NumberChars, Digits, Signs
  <2>2. QED
    BY <1>3, <2>1 DEF LexStates, Looks, Blank, Newline, NUL, Quote, LineComment, BlockComment
<1>4. CASE b = BlockComment
  <2>1. y = [x EXCEPT !.mode = "block", !.number = FALSE]
    BY <1>4 DEF LexChar, Blank, Newline, NUL, Quote, LineComment, BlockComment,
       NumberChars, Digits, Signs
  <2>2. QED
    BY <1>4, <2>1 DEF LexStates, Looks, Blank, Newline, NUL, Quote, LineComment, BlockComment
<1>5. QED
  BY <1>1, <1>2, <1>3, <1>4

(* At a token. *)
LEMMA LexToken ==
    ASSUME NEW x \in LexStates, NEW b \in Chars, NEW y, y = LexChar(x, b), x.mode = "out"
    PROVE  /\ b = "," => /\ y \in LexStates /\ y.mode = "out" /\ y.number = FALSE /\ y.bytes = x.bytes
                         /\ y.comma = TRUE /\ y.tokens = WithComma(x)
           /\ b \in NumberChars =>
                IF x.number THEN y = x
                ELSE /\ y \in LexStates /\ y.mode = "out" /\ y.number = TRUE /\ y.bytes = 0
                     /\ y.comma = FALSE /\ y.tokens = Append(WithComma(x), Number)
           /\ b \notin {Blank, Newline, NUL, Quote, LineComment, BlockComment, ","} \cup NumberChars =>
                y = Emit(x, Mark(b))
<1> DEFINE Others == {Blank, Newline, NUL, Quote, LineComment, BlockComment, ","}
<1>1. CASE b = ","
  <2>1. y = [x EXCEPT !.number = FALSE, !.comma = TRUE, !.tokens = WithComma(x)]
    BY <1>1 DEF LexChar, Blank, Newline, NUL, Quote, LineComment, BlockComment,
       NumberChars, Digits, Signs
  <2>2. WithComma(x) \in Seq(Tokens) /\ b \notin NumberChars
    BY <1>1, WithCommaType DEF NumberChars, Digits, Signs
  <2>3. QED
    BY <1>1, <2>1, <2>2 DEF LexStates
<1>2. CASE b \in NumberChars
  <2>1. b \notin Others
    BY <1>2 DEF NumberChars, Digits, Signs, Blank, Newline, NUL, Quote, LineComment, BlockComment
  <2>2. y = IF x.number THEN x ELSE [Emit(x, Number) EXCEPT !.number = TRUE]
    BY <1>2, <2>1 DEF LexChar
  <2>3. CASE x.number
    BY <1>2, <2>1, <2>2, <2>3
  <2>4. CASE ~x.number
    <3> DEFINE z == Emit(x, Number)
    <3>1. z \in LexStates /\ z.mode = "out" /\ z.bytes = 0 /\ z.comma = FALSE
      BY MarkTypes, EmitIs
    <3>2. z.tokens = Append(WithComma(x), Number)
      <4>1. Number \notin {Mark("]"), Mark("}")}
        BY DEF Number, Mark
      <4>2. QED
        BY <4>1, MarkTypes, EmitIs
    <3> HIDE DEF z
    <3>3. y = [z EXCEPT !.number = TRUE]
      BY <2>2, <2>4 DEF z
    <3>4. y \in LexStates /\ y.mode = "out" /\ y.number = TRUE /\ y.bytes = 0 /\ y.comma = FALSE
          /\ y.tokens = z.tokens
      BY <3>1, <3>3 DEF LexStates
    <3>5. QED
      BY <1>2, <2>1, <2>4, <3>2, <3>4
  <2>5. QED
    BY <2>3, <2>4
<1>3. CASE b \notin Others \cup NumberChars
  <2>1. y = Emit(x, Mark(b))
    BY <1>3 DEF LexChar
  <2>2. QED
    BY <1>3, <2>1
<1>4. QED
  BY <1>1, <1>2, <1>3

(* Whatever it reads, the lexer is in one of its states. *)
LEMMA LexCharType ==
    ASSUME NEW x \in LexStates, NEW b \in Chars
    PROVE  LexChar(x, b) \in LexStates
<1>1. CASE x.mode \in {"escape", "in"}
  <2>1. x.bytes \in Nat
    BY DEF LexStates
  <2>2. Emit(x, StringOf(x.bytes)) \in LexStates
    BY <2>1, MarkTypes, EmitIs
  <2>3. QED
    BY <1>1, <2>2, LexInString DEF Looks
<1>2. CASE x.mode \in {"line", "block"}
  BY <1>2, LexInComment DEF Looks
<1>3. CASE x.mode = "out"
  <2>1. Emit(x, Mark(b)) \in LexStates
    BY MarkTypes, EmitIs
  <2>2. CASE b \in {Blank, Newline, NUL, Quote, LineComment, BlockComment}
    BY <1>3, <2>2, LexOutside DEF Looks, LookedAt
  <2>3. CASE b = "," \/ b \in NumberChars
    BY <1>3, <2>3, LexToken
  <2>4. CASE b \notin {Blank, Newline, NUL, Quote, LineComment, BlockComment, ","} \cup NumberChars
    BY <1>3, <2>1, <2>4, LexToken
  <2>5. QED
    BY <2>2, <2>3, <2>4
<1>4. QED
  BY <1>1, <1>2, <1>3 DEF LexStates

(* The lexer is in one of its states wherever it is. *)
LEMMA LexingType ==
    ASSUME NEW t \in Seq(Chars), NEW m \in 0 .. Len(t)
    PROVE  Lexing(t)[m] \in LexStates
<1> DEFINE Bad == {k \in Nat : k <= Len(t) /\ Lexing(t)[k] \notin LexStates}
<1>0. Len(t) \in Nat /\ m \in Nat /\ m <= Len(t)
  OBVIOUS
<1> SUFFICES ASSUME Bad # {}
             PROVE  FALSE
  BY <1>0
<1>1. PICK x \in Bad : \A y \in Bad : x <= y
  BY Least
<1>2. LexStart \in LexStates
  <2>1. <<>> \in Seq(Tokens)
    OBVIOUS
  <2>2. QED
    BY <2>1 DEF LexStart, LexStates
<1>3. x # 0
  BY <1>1, <1>2, LexingIs
<1>4. x \in 1 .. Len(t) /\ x - 1 \in Nat /\ x - 1 <= Len(t) /\ x - 1 < x
  BY <1>0, <1>1, <1>3
<1>5. Lexing(t)[x - 1] \in LexStates
  BY <1>1, <1>4
<1>6. t[x] \in Chars
  BY <1>4
<1>7. Lexing(t)[x] \in LexStates
  BY <1>4, <1>5, <1>6, LexingIs, LexCharType
<1>8. QED
  BY <1>1, <1>7

----------------------------------------------------------------------------
(***************************************************************************)
(* Values stay where they are in the text, and new ones get their place.   *)
(***************************************************************************)
Longer(T, T2) ==
    /\ T \in Seq(Tokens) /\ T2 \in Seq(Tokens)
    /\ Len(T) <= Len(T2) /\ \A q \in 1 .. Len(T) : T2[q] = T[q]

(* v2 is v with more names. *)
SameEntries(v, v2) ==
    /\ v2.type = v.type /\ v2.parent = v.parent /\ v2.kids = v.kids
    /\ Len(v.keys) <= Len(v2.keys) /\ \A i \in 1 .. Len(v.keys) : v2.keys[i] = v.keys[i]

(* The values that have been met are the same, and the complete ones of the same length. *)
Alike(vals, vals2, G, O) ==
    /\ vals \in Seq(Records) /\ vals2 \in Seq(Records) /\ Len(vals2) = Len(vals)
    /\ \A n \in G : SameEntries(vals[n], vals2[n])
    /\ \A n \in G \ O : vals2[n].length = vals[n].length

(* A text goes on from itself, by a token, and from what goes on from it. *)
LEMMA LongerItself ==
    ASSUME NEW T \in Seq(Tokens)
    PROVE  Longer(T, T)
BY DEF Longer

LEMMA LongerByOne ==
    ASSUME NEW T \in Seq(Tokens), NEW token \in Tokens
    PROVE  /\ Longer(T, Append(T, token)) /\ Append(T, token) \in Seq(Tokens)
           /\ Len(Append(T, token)) = Len(T) + 1 /\ Append(T, token)[Len(T) + 1] = token
<1>1. /\ Append(T, token) \in Seq(Tokens) /\ Len(Append(T, token)) = Len(T) + 1
      /\ Append(T, token)[Len(T) + 1] = token
      /\ \A i \in 1 .. Len(T) : Append(T, token)[i] = T[i]
  BY AppendProperties
<1>2. Len(T) \in Nat
  OBVIOUS
<1>3. QED
  BY <1>1, <1>2 DEF Longer

LEMMA LongerStill ==
    ASSUME NEW T, NEW T2, NEW T3, Longer(T, T2), Longer(T2, T3)
    PROVE  Longer(T, T3)
<1>1. Len(T) \in Nat /\ Len(T2) \in Nat /\ Len(T3) \in Nat /\ Len(T) <= Len(T3)
  BY DEF Longer
<1>2. \A q \in 1 .. Len(T) : q \in 1 .. Len(T2)
  BY <1>1 DEF Longer
<1>3. QED
  BY <1>1, <1>2 DEF Longer

(* An entry stays where it is. *)
LEMMA PutStays ==
    ASSUME NEW T, NEW T2, Longer(T, T2), NEW v \in Records, NEW v2 \in Records, SameEntries(v, v2),
           NEW i \in Nat, i # 0, NEW e \in Nat, e # 0, NEW f \in Nat, f <= Len(T) + 1, PutAt(T, v, i, e, f)
    PROVE  PutAt(T2, v2, i, e, f)
<1> DEFINE g == IF i = 1 THEN e ELSE e + 1
<1>0. /\ v2.type = v.type
      /\ \A q \in 1 .. Len(T) : T2[q] = T[q]
  BY DEF Longer, SameEntries
<1>11. Len(T) \in Nat /\ g \in Nat /\ g # 0
  BY DEF Longer
<1>12. i # 1 => g = e + 1
  OBVIOUS
<1>1. i # 1 => T[e + 1] = Mark(",")
  BY DEF PutAt
<1>2. CASE v.type = "object"
  <2>1. i <= Len(v.keys) /\ T[g + 1] = StringOf(v.keys[i]) /\ T[g + 2] = Mark(":") /\ f = g + 3
    BY <1>2 DEF PutAt
  <2> HIDE DEF g
  <2>2. g + 1 \in 1 .. Len(T) /\ g + 2 \in 1 .. Len(T) /\ (i # 1 => e + 1 \in 1 .. Len(T))
    BY <1>11, <1>12, <2>1
  <2>3. T2[g + 1] = T[g + 1] /\ T2[g + 2] = T[g + 2] /\ (i # 1 => T2[e + 1] = T[e + 1])
    BY <1>0, <2>2
  <2>4. i <= Len(v2.keys) /\ v2.keys[i] = v.keys[i]
    <3>1. Len(v.keys) \in Nat /\ Len(v2.keys) \in Nat
      BY RecordFields
    <3>2. Len(v.keys) <= Len(v2.keys) /\ \A k \in 1 .. Len(v.keys) : v2.keys[k] = v.keys[k]
      BY DEF SameEntries
    <3>3. i \in 1 .. Len(v.keys)
      BY <2>1, <3>1
    <3>4. QED
      BY <2>1, <3>1, <3>2, <3>3
  <2>5. QED
    BY <1>0, <1>1, <1>2, <2>1, <2>3, <2>4 DEF PutAt, g
<1>3. CASE v.type # "object"
  <2>1. f = g + 1
    BY <1>3 DEF PutAt
  <2> HIDE DEF g
  <2>2. i # 1 => e + 1 \in 1 .. Len(T)
    BY <1>11, <1>12, <2>1
  <2>3. i # 1 => T2[e + 1] = T[e + 1]
    BY <1>0, <2>2
  <2>4. QED
    BY <1>0, <1>1, <1>3, <2>1, <2>3 DEF PutAt, g
<1>4. QED
  BY <1>2, <1>3

(* The kinds of values that there are in a chain. *)
LEMMA ValueIn ==
    ASSUME NEW vals \in Seq(Records), NEW n \in 1 .. Len(vals)
    PROVE  /\ vals[n] \in Records /\ vals[n].kids \in Seq(Nat) /\ vals[n].keys \in Seq(Nat)
           /\ Len(vals[n].kids) \in Nat /\ Len(vals[n].keys) \in Nat
           /\ n \in Nat /\ n # 0 /\ Len(vals) \in Nat /\ vals[n].parent \in Nat
<1>1. vals[n] \in Records /\ n \in Nat /\ n # 0 /\ Len(vals) \in Nat
  BY SMTT(60)
<1>2. QED
  BY <1>1, RecordFields, SMTT(60)

(* An entry is a complete value. *)
LEMMA EntryIs ==
    ASSUME NEW T \in Seq(Tokens), NEW vals \in Seq(Records), NEW G, NEW O, NEW u, NEW from, NEW to,
           Spans(T, vals, G, O, u, from, to), NEW n \in G, NEW i \in 1 .. Len(vals[n].kids),
           NEW k, k = vals[n].kids[i]
    PROVE  /\ k \in G \ O /\ k # u /\ vals[k].parent = n /\ k \in 1 .. Len(vals)
           /\ Begun(T, vals, k, from, to) /\ WholeAt(T, vals, k, from, to)
           /\ from[k] \in 1 .. Len(T) /\ to[k] \in 1 .. Len(T)
<1>1. k \in G \ O /\ vals[k].parent = n /\ k \in 1 .. Len(vals)
  BY DEF Spans
<1>2. k # u
  <2>1. k # 0
    BY <1>1, ValueIn
  <2>2. u # 0 => u \in O
    BY DEF Spans
  <2>3. QED
    BY <1>1, <2>1, <2>2
<1>3. Begun(T, vals, k, from, to) /\ WholeAt(T, vals, k, from, to)
  BY <1>1, <1>2 DEF Spans
<1>4. QED
  BY <1>1, <1>2, <1>3 DEF Begun, WholeAt

(* What is behind the entries of a value. *)
LEMMA BehindIn ==
    ASSUME NEW T \in Seq(Tokens), NEW vals \in Seq(Records), NEW G, NEW O, NEW u, NEW from, NEW to,
           Spans(T, vals, G, O, u, from, to), NEW n \in G, n # u, NEW i \in 0 .. Len(vals[n].kids)
    PROVE  Behind(vals[n], n, i, from, to) \in 1 .. Len(T)
<1>1. CASE i = 0
  BY <1>1 DEF Behind, Spans, Begun
<1>2. CASE i # 0
  <2>1. Len(vals[n].kids) \in Nat
    BY ValueIn DEF Spans
  <2>2. i \in 1 .. Len(vals[n].kids)
    BY <1>2, <2>1
  <2>3. to[vals[n].kids[i]] \in 1 .. Len(T)
    BY <2>2, EntryIs
  <2>4. QED
    BY <1>2, <2>3 DEF Behind
<1>3. QED
  BY <1>1, <1>2

(* It is the same for a value with the same entries. *)
LEMMA BehindSame ==
    ASSUME NEW v, NEW v2, SameEntries(v, v2), NEW n, NEW i, NEW from, NEW to
    PROVE  Behind(v2, n, i, from, to) = Behind(v, n, i, from, to)
BY DEF Behind, SameEntries

(* More text, and more names: values that are there stay there. *)
LEMMA SpansStay ==
    ASSUME NEW T, NEW T2, Longer(T, T2), NEW vals, NEW vals2, NEW G, NEW O, Alike(vals, vals2, G, O),
           NEW u, NEW from, NEW to, Spans(T, vals, G, O, u, from, to)
    PROVE  Spans(T2, vals2, G, O, u, from, to)
<1>0. /\ T \in Seq(Tokens) /\ T2 \in Seq(Tokens) /\ vals \in Seq(Records) /\ vals2 \in Seq(Records)
      /\ Len(vals2) = Len(vals) /\ \A n \in G : SameEntries(vals[n], vals2[n])
      /\ O \subseteq G /\ G \subseteq 1 .. Len(vals)
  BY DEF Longer, Alike, Spans
<1>1. \A q \in 1 .. Len(T) : q \in 1 .. Len(T2) /\ T2[q] = T[q] /\ q \in Nat /\ q # 0 /\ q <= Len(T) + 1
  BY DEF Longer
<1>2. ASSUME NEW n \in G
      PROVE  /\ vals[n] \in Records /\ vals2[n] \in Records /\ SameEntries(vals[n], vals2[n])
             /\ vals2[n].kids = vals[n].kids /\ vals2[n].type = vals[n].type
             /\ vals2[n].parent = vals[n].parent /\ Len(vals[n].kids) \in Nat
             /\ n \in 1 .. Len(vals)
  <2>1. n \in 1 .. Len(vals) /\ n \in 1 .. Len(vals2) /\ SameEntries(vals[n], vals2[n])
    BY <1>0
  <2>2. QED
    BY <1>0, <2>1, ValueIn DEF SameEntries
<1>3. ASSUME NEW n \in G, n # u
      PROVE  Begun(T2, vals2, n, from, to)
  <2>1. Begun(T, vals, n, from, to)
    BY <1>3 DEF Spans
  <2>2. from[n] \in 1 .. Len(T2) /\ T2[from[n]] = T[from[n]]
    BY <1>1, <2>1 DEF Begun
  <2>3. ASSUME NEW i \in 1 .. Len(vals2[n].kids)
        PROVE  PutAt(T2, vals2[n], i, Behind(vals2[n], n, i - 1, from, to), from[vals2[n].kids[i]])
    <3> DEFINE e == Behind(vals[n], n, i - 1, from, to)
               f == from[vals[n].kids[i]]
    <3>1. i \in 1 .. Len(vals[n].kids) /\ i - 1 \in 0 .. Len(vals[n].kids) /\ i \in Nat /\ i # 0
      BY <1>2
    <3>2. e \in 1 .. Len(T)
      BY <1>0, <1>3, <3>1, BehindIn
    <3>3. f \in 1 .. Len(T)
      BY <1>0, <3>1, EntryIs
    <3>4. PutAt(T, vals[n], i, e, f)
      BY <2>1, <3>1 DEF Begun
    <3> HIDE DEF e, f
    <3>5. e \in Nat /\ e # 0 /\ f \in Nat /\ f <= Len(T) + 1
      BY <1>1, <3>2, <3>3
    <3>6. PutAt(T2, vals2[n], i, e, f)
      BY <1>2, <3>1, <3>4, <3>5, PutStays
    <3>7. QED
      BY <1>2, <3>6, BehindSame DEF e, f
  <2>4. vals2[n].type \in Containers => T2[from[n]] = Opening(vals2[n])
    BY <1>2, <2>1, <2>2 DEF Begun, Opening
  <2>5. QED
    BY <2>2, <2>3, <2>4 DEF Begun
<1>4. ASSUME NEW n \in G \ O
      PROVE  WholeAt(T2, vals2, n, from, to)
  <2>1. WholeAt(T, vals, n, from, to) /\ n \in G
    BY DEF Spans
  <2>2. to[n] \in 1 .. Len(T2) /\ T2[to[n]] = T[to[n]]
    BY <1>1, <2>1 DEF WholeAt
  <2>3. Closing(vals2[n]) = Closing(vals[n]) /\ Single(vals2[n]) = Single(vals[n])
    BY <1>2, <2>1 DEF Closing, Single, Alike
  <2>4. Behind(vals2[n], n, Len(vals2[n].kids), from, to) = Behind(vals[n], n, Len(vals[n].kids), from, to)
    BY <1>2, <2>1, BehindSame
  <2>5. QED
    BY <1>2, <2>1, <2>2, <2>3, <2>4 DEF WholeAt
<1>5. ASSUME NEW n \in O, n # u
      PROVE  NextOf(T2, vals2, vals2[n].parent, from[n], from, to)
  <2> DEFINE p == vals[n].parent
  <2>1. NextOf(T, vals, p, from[n], from, to) /\ n \in G /\ vals2[n].parent = p
    BY <1>0, <1>2, <1>5 DEF Spans
  <2>2. from[n] \in 1 .. Len(T)
    BY <1>5, <2>1 DEF Spans, Begun
  <2>3. CASE p = 0
    BY <2>1, <2>3 DEF NextOf
  <2>4. CASE p # 0
    <3>1. p \in G /\ p # u
      BY <1>0, <2>4 DEF Spans, Chained
    <3> HIDE DEF p
    <3> DEFINE e == Behind(vals[p], p, Len(vals[p].kids), from, to)
               i == Len(vals[p].kids) + 1
    <3>2. PutAt(T, vals[p], i, e, from[n])
      BY <2>1, <2>4 DEF NextOf
    <3>3. Len(vals[p].kids) \in 0 .. Len(vals[p].kids) /\ i \in Nat /\ i # 0
      BY <1>2, <3>1
    <3>4. e \in 1 .. Len(T)
      <4>1. T \in Seq(Tokens) /\ vals \in Seq(Records)
        BY <1>0
      <4>2. QED
        BY <3>1, <3>3, <4>1, BehindIn
    <3> HIDE DEF e
    <3>5. e \in Nat /\ e # 0 /\ from[n] \in Nat /\ from[n] <= Len(T) + 1
      BY <1>1, <2>2, <3>4
    <3>6. PutAt(T2, vals2[p], i, e, from[n])
      BY <1>2, <3>1, <3>2, <3>3, <3>5, PutStays
    <3>7. QED
      BY <1>2, <2>1, <2>4, <3>1, <3>6, BehindSame DEF NextOf, e
  <2>5. QED
    BY <2>3, <2>4
<1>6. Chained(vals2, O)
  <2>1. Chained(vals, O)
    BY DEF Spans
  <2>2. \A n \in O : vals2[n].parent = vals[n].parent
    BY <1>0, <1>2
  <2>3. QED
    BY <2>1, <2>2 DEF Chained
<1>7. \A n \in G : \A i \in 1 .. Len(vals2[n].kids) :
        vals2[n].kids[i] \in G \ O /\ vals2[vals2[n].kids[i]].parent = n
  <2> SUFFICES ASSUME NEW n \in G, NEW i \in 1 .. Len(vals2[n].kids)
               PROVE  vals2[n].kids[i] \in G \ O /\ vals2[vals2[n].kids[i]].parent = n
    OBVIOUS
  <2> DEFINE k == vals[n].kids[i]
  <2>1. i \in 1 .. Len(vals[n].kids) /\ vals2[n].kids[i] = k
    BY <1>2
  <2>2. k \in G \ O /\ vals[k].parent = n
    BY <2>1 DEF Spans
  <2>3. vals2[k].parent = n
    BY <1>2, <2>2
  <2>4. QED
    BY <2>1, <2>2, <2>3
<1>8. u # 0 => u \in O /\ vals2[u].kids = <<>> /\ \A n \in O : vals2[n].parent # u
  BY <1>0, <1>2 DEF Spans
<1>9. from \in [1 .. Len(vals2) -> Nat] /\ to \in [1 .. Len(vals2) -> Nat]
  BY <1>0 DEF Spans
<1>10. QED
  BY <1>0, <1>3, <1>4, <1>5, <1>6, <1>7, <1>8, <1>9 DEF Spans

(* A value is taken from the chain: its text has not been read yet. *)
LEMMA SpansTaken ==
    ASSUME NEW T \in Seq(Tokens), NEW vals \in Seq(Records), NEW G, NEW O, NEW from, NEW to,
           Spans(T, vals, G, O, 0, from, to),
           NEW a \in 1 .. Len(vals), a \notin G, vals[a].kids = <<>>,
           vals[a].parent \in O \cup {0}, \A n \in O : vals[n].parent # vals[a].parent
    PROVE  Spans(T, vals, G \cup {a}, O \cup {a}, a, from, to)
<1> DEFINE G2 == G \cup {a}
           O2 == O \cup {a}
<1>0. /\ O \subseteq G /\ G \subseteq 1 .. Len(vals) /\ Chained(vals, O) /\ a # 0
      /\ from \in [1 .. Len(vals) -> Nat] /\ to \in [1 .. Len(vals) -> Nat]
  BY ValueIn DEF Spans
<1>1. O2 \subseteq G2 /\ G2 \subseteq 1 .. Len(vals) /\ G2 \ O2 = G \ O
  BY <1>0
<1>2. \A n \in G2 : \A i \in 1 .. Len(vals[n].kids) :
        vals[n].kids[i] \in G2 \ O2 /\ vals[vals[n].kids[i]].parent = n
  <2>1. Len(vals[a].kids) = 0
    OBVIOUS
  <2>2. \A i \in 1 .. Len(vals[a].kids) : FALSE
    BY <2>1
  <2>3. \A n \in G : \A i \in 1 .. Len(vals[n].kids) :
          vals[n].kids[i] \in G \ O /\ vals[vals[n].kids[i]].parent = n
    BY DEF Spans
  <2>4. QED
    BY <1>1, <2>2, <2>3
<1>3. Chained(vals, O2)
  <2>1. \A n \in O2 : vals[n].parent \in O2 \cup {0}
    BY <1>0 DEF Chained
  <2>2. \A n, m \in O2 : vals[m].parent = vals[n].parent => m = n
    BY <1>0 DEF Chained
  <2>3. QED
    BY <2>1, <2>2 DEF Chained
<1>4. \A n \in O2 : vals[n].parent # a
  <2>1. \A n \in O : vals[n].parent # a
    BY <1>0 DEF Chained
  <2>2. vals[a].parent # a
    BY <1>0
  <2>3. QED
    BY <2>1, <2>2
<1>5. \A n \in G2 : n # a => Begun(T, vals, n, from, to)
  <2>1. \A n \in G : n # 0 => Begun(T, vals, n, from, to)
    BY DEF Spans
  <2>2. \A n \in G : n # 0
    BY <1>0, ValueIn
  <2>3. QED
    BY <2>1, <2>2
<1>6. \A n \in G2 \ O2 : WholeAt(T, vals, n, from, to)
  BY <1>1 DEF Spans
<1>7. \A n \in O2 : n # a => NextOf(T, vals, vals[n].parent, from[n], from, to)
  <2>1. \A n \in O : n # 0 => NextOf(T, vals, vals[n].parent, from[n], from, to)
    BY DEF Spans
  <2>2. \A n \in O : n # 0
    BY <1>0, ValueIn
  <2>3. QED
    BY <2>1, <2>2
<1> HIDE DEF G2, O2
<1>8. a \in O2
  BY DEF O2
<1>9. Spans(T, vals, G2, O2, a, from, to)
  BY <1>0, <1>1, <1>2, <1>3, <1>4, <1>5, <1>6, <1>7, <1>8 DEF Spans
<1>10. QED
  BY <1>9 DEF G2, O2

(* The places of the values of C stay. *)
SamePlaces(C, from, to, from2, to2) == \A k \in C : from2[k] = from[k] /\ to2[k] = to[k]

(* Entry i of v, which is value n, ends where it did and begins where it did. *)
AsBefore(v, n, i, from, to, from2, to2) ==
    /\ Behind(v, n, i, from2, to2) = Behind(v, n, i, from, to)
    /\ i # 0 => from2[v.kids[i]] = from[v.kids[i]]

(* What is behind the entries of a value is a matter of the complete values, and of its own place. *)
LEMMA BehindOthers ==
    ASSUME NEW T \in Seq(Tokens), NEW vals \in Seq(Records), NEW G, NEW O, NEW u, NEW from, NEW to,
           Spans(T, vals, G, O, u, from, to), NEW from2, NEW to2,
           NEW n \in G, SamePlaces((G \ O) \cup {n}, from, to, from2, to2),
           NEW i \in 0 .. Len(vals[n].kids)
    PROVE  AsBefore(vals[n], n, i, from, to, from2, to2)
<1> USE DEF AsBefore
<1>1. CASE i = 0
  BY <1>1 DEF Behind, SamePlaces
<1>2. CASE i # 0
  <2>1. i \in 1 .. Len(vals[n].kids)
    <3>1. n \in 1 .. Len(vals)
      BY DEF Spans
    <3>2. Len(vals[n].kids) \in Nat
      BY <3>1, ValueIn
    <3>3. QED
      BY <1>2, <3>2
  <2>2. vals[n].kids[i] \in G \ O
    BY <2>1 DEF Spans
  <2>3. QED
    BY <1>2, <2>2 DEF Behind, SamePlaces
<1>3. QED
  BY <1>1, <1>2

(* A value is the same as itself. *)
LEMMA AlikeItself ==
    ASSUME NEW vals \in Seq(Records), NEW G, NEW O
    PROVE  Alike(vals, vals, G, O)
<1>1. \A n \in G : SameEntries(vals[n], vals[n])
  BY DEF SameEntries
<1>2. QED
  BY <1>1 DEF Alike

(* The text of the value begins, where it was to. *)
LEMMA SpansPlaced ==
    ASSUME NEW T \in Seq(Tokens), NEW vals \in Seq(Records), NEW G, NEW O, NEW u, u # 0,
           NEW from, NEW to, Spans(T, vals, G, O, u, from, to),
           NEW f \in 1 .. Len(T), vals[u].type \in Containers => T[f] = Opening(vals[u]),
           NextOf(T, vals, vals[u].parent, f, from, to),
           NEW from2, from2 = [from EXCEPT ![u] = f], NEW to2, to2 = [to EXCEPT ![u] = f]
    PROVE  Spans(T, vals, G, O, 0, from2, to2)
<1>0. /\ O \subseteq G /\ G \subseteq 1 .. Len(vals) /\ Chained(vals, O)
      /\ u \in O /\ vals[u].kids = <<>> /\ \A n \in O : vals[n].parent # u
      /\ from \in [1 .. Len(vals) -> Nat] /\ to \in [1 .. Len(vals) -> Nat]
  BY DEF Spans
<1>1. u \in G /\ u \in 1 .. Len(vals) /\ f \in Nat /\ \A n \in G : n # 0
  BY <1>0, ValueIn
<1>2. /\ from2[u] = f /\ to2[u] = f /\ from2 \in [1 .. Len(vals) -> Nat] /\ to2 \in [1 .. Len(vals) -> Nat]
      /\ \A n \in G : n # u => from2[n] = from[n] /\ to2[n] = to[n]
  BY <1>0, <1>1
<1>3. ASSUME NEW n \in G, n # u, NEW i \in 0 .. Len(vals[n].kids)
      PROVE  /\ Behind(vals[n], n, i, from2, to2) = Behind(vals[n], n, i, from, to)
             /\ i # 0 => from2[vals[n].kids[i]] = from[vals[n].kids[i]]
  <2>1. SamePlaces((G \ O) \cup {n}, from, to, from2, to2)
    BY <1>0, <1>2, <1>3 DEF SamePlaces
  <2>2. AsBefore(vals[n], n, i, from, to, from2, to2)
    BY <2>1, BehindOthers
  <2>3. QED
    BY <2>2 DEF AsBefore
<1>4. ASSUME NEW n \in G
      PROVE  Begun(T, vals, n, from2, to2)
  <2>1. CASE n = u
    <3>1. Len(vals[u].kids) = 0
      BY <1>0
    <3>2. \A i \in 1 .. Len(vals[u].kids) : FALSE
      BY <3>1
    <3>3. QED
      BY <1>2, <2>1, <3>2 DEF Begun
  <2>2. CASE n # u
    <3>1. Begun(T, vals, n, from, to)
      BY <2>2 DEF Spans
    <3>2. ASSUME NEW i \in 1 .. Len(vals[n].kids)
          PROVE  PutAt(T, vals[n], i, Behind(vals[n], n, i - 1, from2, to2), from2[vals[n].kids[i]])
      <4>1. PutAt(T, vals[n], i, Behind(vals[n], n, i - 1, from, to), from[vals[n].kids[i]])
        BY <3>1 DEF Begun
      <4>2. i \in 0 .. Len(vals[n].kids) /\ i - 1 \in 0 .. Len(vals[n].kids) /\ i # 0
        <5>1. Len(vals[n].kids) \in Nat
          BY <1>0, ValueIn
        <5>2. QED
          BY <5>1
      <4>3. from2[vals[n].kids[i]] = from[vals[n].kids[i]]
        BY <1>3, <2>2, <4>2
      <4>4. Behind(vals[n], n, i - 1, from2, to2) = Behind(vals[n], n, i - 1, from, to)
        BY <1>3, <2>2, <4>2
      <4>5. QED
        BY <4>1, <4>3, <4>4
    <3>3. from2[n] = from[n]
      BY <1>2, <2>2
    <3>4. QED
      BY <3>1, <3>2, <3>3 DEF Begun
  <2>3. QED
    BY <2>1, <2>2
<1>5. ASSUME NEW n \in G \ O
      PROVE  WholeAt(T, vals, n, from2, to2)
  <2>1. WholeAt(T, vals, n, from, to) /\ n # u /\ n \in G
    BY <1>0 DEF Spans
  <2>2. from2[n] = from[n] /\ to2[n] = to[n]
    BY <1>2, <2>1
  <2>3. Len(vals[n].kids) \in 0 .. Len(vals[n].kids)
    <3>1. Len(vals[n].kids) \in Nat
      BY <1>0, ValueIn
    <3>2. QED
      BY <3>1
  <2>4. Behind(vals[n], n, Len(vals[n].kids), from2, to2) = Behind(vals[n], n, Len(vals[n].kids), from, to)
    BY <1>3, <2>1, <2>3
  <2>5. QED
    BY <2>1, <2>2, <2>4 DEF WholeAt
<1>6. ASSUME NEW n \in O
      PROVE  NextOf(T, vals, vals[n].parent, from2[n], from2, to2)
  <2> DEFINE p == vals[n].parent
  <2>1. NextOf(T, vals, p, from2[n], from, to)
    <3>1. CASE n = u
      BY <1>2, <3>1
    <3>2. CASE n # u
      BY <1>0, <1>2, <3>2 DEF Spans
    <3>3. QED
      BY <3>1, <3>2
  <2>2. CASE p = 0
    BY <2>1, <2>2 DEF NextOf
  <2>3. CASE p # 0
    <3>1. p \in G /\ p # u
      BY <1>0, <2>3 DEF Chained
    <3> HIDE DEF p
    <3>2. Len(vals[p].kids) \in 0 .. Len(vals[p].kids)
      <4>1. Len(vals[p].kids) \in Nat
        BY <1>0, <3>1, ValueIn
      <4>2. QED
        BY <4>1
    <3>3. Behind(vals[p], p, Len(vals[p].kids), from2, to2) = Behind(vals[p], p, Len(vals[p].kids), from, to)
      BY <1>3, <3>1, <3>2
    <3>4. NextOf(T, vals, p, from2[n], from2, to2)
      BY <2>1, <2>3, <3>3 DEF NextOf
    <3>5. QED
      BY <3>4 DEF p
  <2>4. QED
    BY <2>2, <2>3
<1>7. \A n \in G : \A i \in 1 .. Len(vals[n].kids) :
        vals[n].kids[i] \in G \ O /\ vals[vals[n].kids[i]].parent = n
  BY DEF Spans
<1>8. QED
  BY <1>0, <1>2, <1>4, <1>5, <1>6, <1>7 DEF Spans

(* The entries of the values of G end where they did. *)
SameBehind(vals, G, from, to, to2) ==
    \A n \in G : \A i \in 0 .. Len(vals[n].kids) :
        Behind(vals[n], n, i, from, to2) = Behind(vals[n], n, i, from, to)

(* Where the incomplete values end is still open. *)
LEMMA SpansElsewhere ==
    ASSUME NEW T \in Seq(Tokens), NEW vals \in Seq(Records), NEW G, NEW O,
           NEW from, NEW to, Spans(T, vals, G, O, 0, from, to),
           NEW to2 \in [1 .. Len(vals) -> Nat], SamePlaces(G \ O, from, to, from, to2)
    PROVE  /\ Spans(T, vals, G, O, 0, from, to2)
           /\ SameBehind(vals, G, from, to, to2)
<1>0. /\ O \subseteq G /\ G \subseteq 1 .. Len(vals) /\ Chained(vals, O)
      /\ from \in [1 .. Len(vals) -> Nat]
  BY DEF Spans
<1>1. \A n \in G : n # 0 /\ Len(vals[n].kids) \in Nat
  BY <1>0, ValueIn
<1>2. ASSUME NEW n \in G, NEW i \in 0 .. Len(vals[n].kids)
      PROVE  Behind(vals[n], n, i, from, to2) = Behind(vals[n], n, i, from, to)
  <2>1. CASE i = 0
    BY <2>1 DEF Behind
  <2>2. CASE i # 0
    <3>1. i \in 1 .. Len(vals[n].kids)
      BY <1>1, <2>2
    <3>2. vals[n].kids[i] \in G \ O
      BY <3>1 DEF Spans
    <3>3. QED
      BY <2>2, <3>2 DEF Behind, SamePlaces
  <2>3. QED
    BY <2>1, <2>2
<1>3. ASSUME NEW n \in G
      PROVE  Begun(T, vals, n, from, to2)
  <2>1. Begun(T, vals, n, from, to)
    BY <1>1 DEF Spans
  <2>2. ASSUME NEW i \in 1 .. Len(vals[n].kids)
        PROVE  PutAt(T, vals[n], i, Behind(vals[n], n, i - 1, from, to2), from[vals[n].kids[i]])
    <3>1. PutAt(T, vals[n], i, Behind(vals[n], n, i - 1, from, to), from[vals[n].kids[i]])
      BY <2>1 DEF Begun
    <3>2. i - 1 \in 0 .. Len(vals[n].kids)
      BY <1>1
    <3>3. Behind(vals[n], n, i - 1, from, to2) = Behind(vals[n], n, i - 1, from, to)
      BY <1>2, <3>2
    <3>4. QED
      BY <3>1, <3>3
  <2>3. QED
    BY <2>1, <2>2 DEF Begun
<1>4. ASSUME NEW n \in G \ O
      PROVE  WholeAt(T, vals, n, from, to2)
  <2>1. WholeAt(T, vals, n, from, to) /\ n \in G
    BY DEF Spans
  <2>2. to2[n] = to[n]
    BY DEF SamePlaces
  <2>3. Len(vals[n].kids) \in 0 .. Len(vals[n].kids)
    BY <1>1
  <2>4. Behind(vals[n], n, Len(vals[n].kids), from, to2) = Behind(vals[n], n, Len(vals[n].kids), from, to)
    BY <1>2, <2>3
  <2>5. QED
    BY <2>1, <2>2, <2>4 DEF WholeAt
<1>5. ASSUME NEW n \in O
      PROVE  NextOf(T, vals, vals[n].parent, from[n], from, to2)
  <2> DEFINE p == vals[n].parent
  <2>1. NextOf(T, vals, p, from[n], from, to)
    BY <1>0, <1>1 DEF Spans
  <2>2. CASE p = 0
    BY <2>1, <2>2 DEF NextOf
  <2>3. CASE p # 0
    <3>1. p \in G
      BY <1>0, <2>3 DEF Chained
    <3> HIDE DEF p
    <3>2. Len(vals[p].kids) \in 0 .. Len(vals[p].kids)
      BY <1>1, <3>1
    <3>3. Behind(vals[p], p, Len(vals[p].kids), from, to2) = Behind(vals[p], p, Len(vals[p].kids), from, to)
      BY <1>2, <3>1, <3>2
    <3>4. NextOf(T, vals, p, from[n], from, to2)
      BY <2>1, <2>3, <3>3 DEF NextOf
    <3>5. QED
      BY <3>4 DEF p
  <2>4. QED
    BY <2>2, <2>3
<1>6. \A n \in G : \A i \in 1 .. Len(vals[n].kids) :
        vals[n].kids[i] \in G \ O /\ vals[vals[n].kids[i]].parent = n
  BY DEF Spans
<1>7. Spans(T, vals, G, O, 0, from, to2)
  BY <1>0, <1>3, <1>4, <1>5, <1>6 DEF Spans
<1>8. QED
  BY <1>2, <1>7 DEF SameBehind

(* An array or object is closed. *)
Closed(T, vals, G, O, n, from, to) ==
    /\ Spans(T, vals, G, O, 0, from, to)
    /\ WholeAt(T, vals, n, from, to) /\ to[n] = Len(T)

(* The closing bracket completes the value: it is where the value ends. *)
LEMMA SpansClosed ==
    ASSUME NEW T \in Seq(Tokens), NEW vals \in Seq(Records), NEW G, NEW O,
           NEW from, NEW to, Spans(T, vals, G, O, 0, from, to),
           NEW n \in O, vals[n].type \in Containers,
           Behind(vals[n], n, Len(vals[n].kids), from, to) = Len(T),
           NEW T2, T2 = Append(T, Closing(vals[n])), NEW to2, to2 = [to EXCEPT ![n] = Len(T2)]
    PROVE  Closed(T2, vals, G, O, n, from, to2)
<1>0. /\ O \subseteq G /\ G \subseteq 1 .. Len(vals)
      /\ from \in [1 .. Len(vals) -> Nat] /\ to \in [1 .. Len(vals) -> Nat]
  BY DEF Spans
<1>1. Closing(vals[n]) \in Tokens
  BY MarkTypes DEF Closing, Chars
<1>2. /\ Longer(T, T2) /\ T2 \in Seq(Tokens) /\ Len(T2) = Len(T) + 1
      /\ T2[Len(T) + 1] = Closing(vals[n])
  BY <1>1, LongerByOne
<1>3. Len(T2) \in Nat /\ Len(T2) \in 1 .. Len(T2) /\ n \in 1 .. Len(vals)
  BY <1>0, <1>2
<1>4. /\ to2 \in [1 .. Len(vals) -> Nat] /\ to2[n] = Len(T2)
      /\ \A k \in G \ O : to2[k] = to[k]
  BY <1>0, <1>3
<1>5. SamePlaces(G \ O, from, to, from, to2)
  BY <1>4 DEF SamePlaces
<1>6. Spans(T2, vals, G, O, 0, from, to)
  BY <1>2, AlikeItself, SpansStay
<1>7. Spans(T2, vals, G, O, 0, from, to2)
  <2>1. T2 \in Seq(Tokens) /\ to2 \in [1 .. Len(vals) -> Nat]
    BY <1>2, <1>4
  <2>2. QED
    BY <1>5, <1>6, <2>1, SpansElsewhere
<1>12. SameBehind(vals, G, from, to, to2)
  <2>1. T2 \in Seq(Tokens) /\ to2 \in [1 .. Len(vals) -> Nat]
    BY <1>2, <1>4
  <2>2. QED
    BY <1>5, <1>6, <2>1, SpansElsewhere
<1>8. Len(vals[n].kids) \in 0 .. Len(vals[n].kids)
  <2>1. Len(vals[n].kids) \in Nat
    BY <1>3, ValueIn
  <2>2. QED
    BY <2>1
<1>9. Behind(vals[n], n, Len(vals[n].kids), from, to2) = Len(T)
  BY <1>0, <1>8, <1>12 DEF SameBehind
<1>10. WholeAt(T2, vals, n, from, to2)
  BY <1>2, <1>3, <1>4, <1>9 DEF WholeAt
<1>11. QED
  BY <1>4, <1>7, <1>10 DEF Closed

(* The document is complete. *)
LEMMA SpansDone ==
    ASSUME NEW T \in Seq(Tokens), NEW vals \in Seq(Records), NEW G, NEW O,
           NEW from, NEW to, Spans(T, vals, G, O, 0, from, to),
           NEW t \in O, vals[t].parent = 0, WholeAt(T, vals, t, from, to),
           \A n \in O : vals[n].parent # t
    PROVE  Spans(T, vals, G, O \ {t}, 0, from, to)
<1> DEFINE O2 == O \ {t}
<1>0. /\ O \subseteq G /\ G \subseteq 1 .. Len(vals) /\ Chained(vals, O)
      /\ from \in [1 .. Len(vals) -> Nat] /\ to \in [1 .. Len(vals) -> Nat]
  BY DEF Spans
<1>1. O2 \subseteq G /\ G \ O2 = (G \ O) \cup {t}
  BY <1>0
<1>2. Chained(vals, O2)
  BY <1>0 DEF Chained
<1>3. \A n \in G : \A i \in 1 .. Len(vals[n].kids) :
        vals[n].kids[i] \in G \ O2 /\ vals[vals[n].kids[i]].parent = n
  BY <1>1 DEF Spans
<1>4. \A n \in G : n # 0 => Begun(T, vals, n, from, to)
  BY DEF Spans
<1>5. \A n \in G \ O2 : WholeAt(T, vals, n, from, to)
  BY <1>1 DEF Spans
<1>6. \A n \in O2 : n # 0 => NextOf(T, vals, vals[n].parent, from[n], from, to)
  BY DEF Spans
<1> HIDE DEF O2
<1>7. Spans(T, vals, G, O2, 0, from, to)
  BY <1>0, <1>1, <1>2, <1>3, <1>4, <1>5, <1>6 DEF Spans
<1>8. QED
  BY <1>7 DEF O2

(* v2 is v with one more entry. *)
OneMore(v, v2, t) ==
    /\ v2.type = v.type /\ v2.parent = v.parent /\ v2.keys = v.keys
    /\ v2.kids = Append(v.kids, t)

(* All places but the last are places of what is without it. *)
LEMMA BeforeLast ==
    ASSUME NEW k \in Nat, NEW i \in 1 .. k + 1, i # k + 1
    PROVE  i \in 1 .. k
OBVIOUS

(* Its entries are where they were, and the new one is behind them. *)
PutBehind(v, v2, t, p, from, to) ==
    /\ Len(v2.kids) = Len(v.kids) + 1 /\ v2.kids[Len(v.kids) + 1] = t
    /\ \A i \in 1 .. Len(v.kids) : v2.kids[i] = v.kids[i]
    /\ \A i \in 0 .. Len(v.kids) : Behind(v2, p, i, from, to) = Behind(v, p, i, from, to)
    /\ Behind(v2, p, Len(v2.kids), from, to) = to[t]

(* One more entry is one at the end. *)
LEMMA OneMoreBehind ==
    ASSUME NEW v \in Records, NEW v2 \in Records, NEW t \in Nat, OneMore(v, v2, t), NEW p, NEW from, NEW to
    PROVE  PutBehind(v, v2, t, p, from, to)
<1> USE DEF PutBehind
<1>1. v.kids \in Seq(Nat) /\ Len(v.kids) \in Nat
  BY RecordFields
<1>2. /\ Len(v2.kids) = Len(v.kids) + 1 /\ v2.kids[Len(v.kids) + 1] = t
      /\ \A i \in 1 .. Len(v.kids) : v2.kids[i] = v.kids[i]
  BY <1>1, AppendProperties DEF OneMore
<1>3. ASSUME NEW i \in 0 .. Len(v.kids)
      PROVE  Behind(v2, p, i, from, to) = Behind(v, p, i, from, to)
  <2>1. i = 0 \/ i \in 1 .. Len(v.kids)
    BY <1>1
  <2>2. QED
    BY <1>2, <2>1 DEF Behind
<1>4. Behind(v2, p, Len(v2.kids), from, to) = to[t]
  <2>1. Len(v.kids) + 1 # 0
    BY <1>1
  <2>2. QED
    BY <1>2, <2>1 DEF Behind
<1>5. QED
  BY <1>2, <1>3, <1>4

(* A complete value goes into its parent, behind the other entries. *)
LEMMA SpansJoined ==
    ASSUME NEW T \in Seq(Tokens), NEW vals \in Seq(Records), NEW G, NEW O,
           NEW from, NEW to, Spans(T, vals, G, O, 0, from, to),
           NEW t \in O, WholeAt(T, vals, t, from, to), \A n \in O : vals[n].parent # t,
           NEW p, p = vals[t].parent, p # 0,
           NEW vals2 \in Seq(Records), Len(vals2) = Len(vals),
           \A n \in 1 .. Len(vals) : n # p => vals2[n] = vals[n],
           OneMore(vals[p], vals2[p], t)
    PROVE  Spans(T, vals2, G, O \ {t}, 0, from, to)
<1> DEFINE O2 == O \ {t}
<1>0. /\ O \subseteq G /\ G \subseteq 1 .. Len(vals) /\ Chained(vals, O)
      /\ from \in [1 .. Len(vals) -> Nat] /\ to \in [1 .. Len(vals) -> Nat]
  BY DEF Spans
<1>1. p \in O /\ p # t /\ p \in G /\ p \in 1 .. Len(vals) /\ t \in G /\ t \in 1 .. Len(vals)
  BY <1>0 DEF Chained
<1>2. O2 \subseteq G /\ G \ O2 = (G \ O) \cup {t} /\ p \notin G \ O2
  BY <1>0, <1>1, SMTT(60)
<1>3. /\ vals[p] \in Records /\ vals2[p] \in Records /\ t \in Nat /\ Len(vals[p].kids) \in Nat
      /\ \A n \in G : n # 0 /\ Len(vals[n].kids) \in Nat
  BY <1>0, <1>1, ValueIn
<1>4. /\ Len(vals2[p].kids) = Len(vals[p].kids) + 1 /\ vals2[p].kids[Len(vals[p].kids) + 1] = t
      /\ \A i \in 1 .. Len(vals[p].kids) : vals2[p].kids[i] = vals[p].kids[i]
      /\ \A i \in 0 .. Len(vals[p].kids) :
           Behind(vals2[p], p, i, from, to) = Behind(vals[p], p, i, from, to)
  <2>1. OneMore(vals[p], vals2[p], t)
    BY <1>0
  <2>2. PutBehind(vals[p], vals2[p], t, p, from, to)
    BY <1>3, <2>1, OneMoreBehind, SMTT(60)
  <2>3. QED
    BY <2>2 DEF PutBehind
<1>5. \A n \in G : vals2[n].parent = vals[n].parent
  BY <1>0 DEF OneMore
<1>6. Chained(vals2, O2)
  <2>1. \A n \in O2 : vals2[n].parent \in O2 \cup {0}
    BY <1>0, <1>5 DEF Chained
  <2>2. \A n, m \in O2 : vals2[m].parent = vals2[n].parent => m = n
    BY <1>0, <1>5 DEF Chained
  <2>3. QED
    BY <2>1, <2>2 DEF Chained
<1>7. ASSUME NEW n \in G, NEW i \in 1 .. Len(vals2[n].kids)
      PROVE  vals2[n].kids[i] \in G \ O2 /\ vals2[vals2[n].kids[i]].parent = n
  <2>1. ASSUME i \in 1 .. Len(vals[n].kids), vals2[n].kids[i] = vals[n].kids[i]
        PROVE  vals2[n].kids[i] \in G \ O2 /\ vals2[vals2[n].kids[i]].parent = n
    <3>1. vals[n].kids[i] \in G \ O /\ vals[vals[n].kids[i]].parent = n
      BY <2>1, SMTT(60) DEF Spans
    <3>2. QED
      BY <1>2, <1>5, <2>1, <3>1
  <2>2. CASE n # p
    <3>1. vals2[n] = vals[n]
      BY <1>0, <2>2, SMTT(60)
    <3>2. QED
      BY <2>1, <3>1
  <2>3. CASE n = p /\ i # Len(vals[p].kids) + 1
    <3>1. i \in 1 .. Len(vals[p].kids)
      <4>1. i \in 1 .. Len(vals[p].kids) + 1 /\ i # Len(vals[p].kids) + 1 /\ Len(vals[p].kids) \in Nat
        BY <1>3, <1>4, <2>3, SMTT(60)
      <4>2. QED
        BY <4>1, BeforeLast
    <3>2. QED
      BY <1>4, <2>1, <2>3, <3>1
  <2>4. CASE n = p /\ i = Len(vals[p].kids) + 1
    <3>1. vals2[n].kids[i] = t
      BY <1>4, <2>4
    <3>2. QED
      BY <1>1, <1>2, <1>5, <2>4, <3>1, SMTT(60)
  <2>5. QED
    BY <2>2, <2>3, <2>4
<1>8. ASSUME NEW n \in G
      PROVE  Begun(T, vals2, n, from, to)
  <2>1. Begun(T, vals, n, from, to)
    BY <1>3 DEF Spans
  <2>2. CASE n # p
    <3>1. vals2[n] = vals[n]
      BY <1>0, <2>2, SMTT(60)
    <3>2. QED
      BY <2>1, <3>1, SMTT(60) DEF Begun
  <2>3. CASE n = p
    <3>1. vals2[p].type = vals[p].type /\ vals2[p].keys = vals[p].keys
      BY SMTT(60) DEF OneMore
    <3>2. ASSUME NEW i \in 1 .. Len(vals2[p].kids)
          PROVE  PutAt(T, vals2[p], i, Behind(vals2[p], p, i - 1, from, to), from[vals2[p].kids[i]])
      <4>1. i - 1 \in 0 .. Len(vals[p].kids)
        BY <1>3, <1>4, SMTT(60)
      <4>2. Behind(vals2[p], p, i - 1, from, to) = Behind(vals[p], p, i - 1, from, to)
        BY <1>4, <4>1
      <4>3. PutAt(T, vals[p], i, Behind(vals[p], p, i - 1, from, to), from[vals2[p].kids[i]])
        <5>1. CASE i # Len(vals[p].kids) + 1
          <6>1. i \in 1 .. Len(vals[p].kids)
            <7>1. i \in 1 .. Len(vals[p].kids) + 1 /\ Len(vals[p].kids) \in Nat
              BY <1>3, <1>4, SMTT(60)
            <7>2. QED
              BY <5>1, <7>1, BeforeLast, ZenonT(60)
          <6>2. QED
            BY <1>4, <2>1, <2>3, <6>1, ZenonT(60) DEF Begun
        <5>2. CASE i = Len(vals[p].kids) + 1
          <6>1. NextOf(T, vals, p, from[t], from, to)
            BY <1>1, <1>3 DEF Spans
          <6>2. PutAt(T, vals[p], i, Behind(vals[p], p, Len(vals[p].kids), from, to), from[t])
            BY <5>2, <6>1 DEF NextOf
          <6>3. i - 1 = Len(vals[p].kids)
            BY <1>3, <5>2
          <6>4. QED
            BY <1>4, <5>2, <6>2, <6>3
        <5>3. QED
          BY <5>1, <5>2, SMTT(60)
      <4>4. QED
        BY <3>1, <4>2, <4>3, ZenonT(60) DEF PutAt
    <3>3. QED
      BY <2>1, <2>3, <3>1, <3>2, ZenonT(60) DEF Begun, Opening
  <2>4. QED
    BY <2>2, <2>3
<1>9. ASSUME NEW n \in G \ O2
      PROVE  WholeAt(T, vals2, n, from, to)
  <2>1. WholeAt(T, vals, n, from, to)
    BY <1>2 DEF Spans
  <2>2. vals2[n] = vals[n]
    BY <1>0, <1>2
  <2>3. QED
    BY <2>1, <2>2 DEF WholeAt
<1>10. ASSUME NEW n \in O2
       PROVE  NextOf(T, vals2, vals2[n].parent, from[n], from, to)
  <2> DEFINE q == vals[n].parent
  <2>1. NextOf(T, vals, q, from[n], from, to) /\ vals2[n].parent = q
    BY <1>0, <1>3, <1>5 DEF Spans
  <2>2. q # p
    BY <1>0 DEF Chained
  <2>3. q # 0 => vals2[q] = vals[q]
    BY <1>0, <2>2 DEF Chained
  <2>4. QED
    BY <2>1, <2>3 DEF NextOf
<1> HIDE DEF O2
<1>11. /\ from \in [1 .. Len(vals2) -> Nat] /\ to \in [1 .. Len(vals2) -> Nat]
       /\ G \subseteq 1 .. Len(vals2)
  BY <1>0
<1>12. Spans(T, vals2, G, O2, 0, from, to)
  BY <1>2, <1>6, <1>7, <1>8, <1>9, <1>10, <1>11 DEF Spans
<1>13. QED
  BY <1>12 DEF O2

----------------------------------------------------------------------------
(***************************************************************************)
(* Pass 0 goes on, and the lexer with it.                                  *)
(***************************************************************************)
(* The flags that tell where the lexer is to be. *)
LEMMA FlagsNext ==
    ASSUME NEW k, NEW b, NEW fl, NEW ty, fl \cap {"next", "reproc"} = {}, Meaning(k, fl, ty, b),
           k \notin {"stuck", "final", "finish", "number"}, NEW gl, gl = FlagsAfter(k, b, fl)
    PROVE  /\ "next" \in gl <=> Stays(k, b) /\ k # "endline"
           /\ "reproc" \notin gl
<1>0. k \in MoveKinds \cup {"open", "closestring", "closename"}
  <2>1. k \in MoveKinds \cup {"stuck", "final", "finish", "number", "open", "closestring", "closename"}
    BY DEF Meaning
  <2>2. QED
    BY <2>1
<1>1. CASE k \in {"skip", "char", "startescape", "escape", "endline", "endblock", "startline", "startblock"}
  BY <1>1 DEF FlagsAfter, Stays
<1>2. CASE k \in {"closearray", "comma", "colon", "closeobject", "startname", "closestring", "closename"}
  BY <1>2 DEF FlagsAfter, Stays
<1>3. CASE k = "open"
  <2>1. b \in {"{", "[", Quote, Literal}
    BY <1>3 DEF Meaning
  <2>2. QED
    BY <1>3, <2>1 DEF FlagsAfter, Stays, Quote, Literal
<1>4. QED
  BY <1>0, <1>1, <1>2, <1>3 DEF MoveKinds

(* What has been read, and what is read next. *)
ReadsNext(k, b, x, y) ==
    /\ Inv /\ pc = "scan" /\ first_pass = 0 /\ UNCHANGED <<text, pc, first_pass>>
    /\ text \in Seq(Chars) /\ ptr \in 1 .. Len(text) /\ b = text[ptr] /\ b \in Chars
    /\ Read = ptr - 1 /\ x \in LexStates /\ y \in LexStates /\ x = Lex /\ y = Lex'
    /\ k = Kind(flags, TopType, b) /\ Meaning(k, flags, TopType, b) /\ FlagsFit(flags, TopType)
    /\ k \in MoveKinds \cup {"open", "closestring", "closename"}
    /\ flags' = FlagsAfter(k, b, flags) /\ string_length' = LengthAfter(k, b, string_length)
    /\ flags \cap {"next", "reproc"} = {} /\ "reproc" \notin flags' /\ string_length \in Nat
    /\ "next" \in flags' <=> Stays(k, b) /\ k # "endline"
    /\ ptr' = IF Stays(k, b) THEN ptr ELSE ptr + 1
    /\ IF k = "endline" THEN y = x ELSE y = LexChar(x, b)
    /\ Tree(k, b)

(* A step of the scanner by one character is one step of the lexer, but    *)
(* that the scanner may stay.                                              *)
LEMMA SmallReads ==
    ASSUME PassesInv, first_pass = 0, SameMode(Lex), NEW k, NEW b, Small(k, b)
    PROVE  \E x, y : ReadsNext(k, b, x, y)
<1>0. Inv /\ PassZero /\ TypeOK /\ pc = "scan" /\ "next" \notin flags
  BY DEF PassesInv, Inv, Small, Scanning
<1>1. PICK G, e, s : Final(G, e) /\ s \in G /\ Follows(s, e)
  BY <1>0 DEF PassZero
<1>2. ptr \in 1 .. Len(text) /\ b = text[ptr] /\ text' = text
  <2>1. Scanning(b)
    BY DEF Small
  <2>2. QED
    BY <1>0, <1>1, <2>1, Following
<1>3. FlagsFit(flags, TopType)
  BY <1>0, <1>1, PassZeroMode
<1>4. flags \cap NumberFlags = {}
  BY <1>1 DEF Follows
<1>5. flags \ NumberFlags = flags /\ flags' \ NumberFlags = flags'
  BY <1>4 DEF Small
<1>6. /\ k = Kind(flags, TopType, b) /\ k \notin {"stuck", "final", "finish", "number"}
      /\ Tree(k, b) /\ UNCHANGED <<pc, first_pass>>
  BY <1>5 DEF Small
<1>7. flags' = FlagsAfter(k, b, flags) /\ string_length' = LengthAfter(k, b, string_length)
      /\ ptr' = IF Stays(k, b) THEN ptr ELSE ptr + 1
  <2>1. Scan' = ScanAfter(k, b, Scan)
    BY DEF Small
  <2>2. /\ Scan.ptr = ptr /\ Scan.flags = flags /\ Scan.sl = string_length
        /\ Scan'.ptr = ptr' /\ Scan'.flags = flags' /\ Scan'.sl = string_length'
    BY <1>5 DEF Scan
  <2>3. QED
    BY <2>1, <2>2 DEF ScanAfter
<1>8. Meaning(k, flags, TopType, b)
  BY <1>6, KindMeans
<1>9. flags \cap {"next", "reproc"} = {}
  BY <1>0 DEF SameMode
<1>10. k \in MoveKinds \cup {"open", "closestring", "closename"}
  BY <1>6, <1>8 DEF Meaning
<1>11. "reproc" \notin flags' /\ ("next" \in flags' <=> Stays(k, b) /\ k # "endline")
  BY <1>6, <1>7, <1>8, <1>9, FlagsNext
<1>12. text \in Seq(Chars) /\ Len(text) \in Nat /\ string_length \in Nat
  BY <1>0, Position DEF TypeOK
<1>13. b \in Chars
  BY <1>2, <1>12
<1>14. Read = ptr - 1 /\ Read' = IF k = "endline" THEN ptr - 1 ELSE ptr
  <2>1. ptr \in Nat /\ ptr + 1 - 1 = ptr
    BY <1>2
  <2>2. Read = ptr - 1
    BY <1>9 DEF Read
  <2>3. Read' = IF Stays(k, b) /\ k # "endline" THEN ptr' ELSE ptr' - 1
    BY <1>11 DEF Read
  <2>4. k = "endline" => Stays(k, b)
    BY DEF Stays
  <2>5. QED
    BY <1>7, <2>1, <2>2, <2>3, <2>4
<1>15. ptr - 1 \in 0 .. Len(text) /\ ptr \in 0 .. Len(text)
  BY <1>2, <1>12
<1>16. Lex = Lexing(text)[ptr - 1] /\ Lex \in LexStates
  BY <1>12, <1>14, <1>15, LexingType DEF Lex
<1>17. Lex' = Lexing(text)[Read']
  BY <1>2 DEF Lex
<1>18. Lex' \in LexStates
  <2>1. Read' \in 0 .. Len(text)
    BY <1>14, <1>15
  <2>2. QED
    BY <1>12, <1>17, <2>1, LexingType
<1>19. IF k = "endline" THEN Lex' = Lex ELSE Lex' = LexChar(Lex, b)
  BY <1>2, <1>12, <1>14, <1>16, <1>17, LexingIs
<1>20. PICK x, y : x = Lex /\ y = Lex'
  OBVIOUS
<1>21. ReadsNext(k, b, x, y)
  BY <1>0, <1>2, <1>3, <1>6, <1>7, <1>8, <1>9, <1>10, <1>11, <1>12, <1>13, <1>14, <1>16, <1>18, <1>19,
     <1>20 DEF ReadsNext
<1>22. QED
  BY <1>21

(* What is read where the scanner does k. *)
ReadAt(k, fl, b) ==
    /\ k = "char" => b \notin {Quote, Backslash, NUL}
    /\ k = "startescape" => b = Backslash
    /\ k = "escape" => "escaped" \in fl
    /\ k \in {"closestring", "closename", "startname"} => b = Quote
    /\ k = "endline" => "line_comment" \in fl /\ b \in {Newline, NUL}
    /\ k = "endblock" =>
         "line_comment" \notin fl /\ "block_comment" \in fl /\ b = EndComment
    /\ k = "skip" => IF "line_comment" \in fl THEN b \notin {Newline, NUL}
                     ELSE IF "block_comment" \in fl THEN b \notin {EndComment, NUL}
                     ELSE b \in {Blank, Newline}
    /\ k = "startline" => b = LineComment
    /\ k = "startblock" => b = BlockComment
    /\ k = "startname" => "need_comma" \notin fl

(* The same for what separates and closes. *)
Separates(k, fl, b) ==
    /\ k = "comma" => b = "," /\ "need_comma" \in fl
    /\ k = "colon" => b = ":" /\ "need_colon" \in fl /\ "need_comma" \notin fl
    /\ k = "closearray" => b = "]"
    /\ k = "closeobject" => b = "}"

(* It is what the scanner finds: Kind goes by the character. *)
LEMMA KindReads ==
    ASSUME NEW fl, NEW ty, NEW b
    PROVE  ReadAt(Kind(fl, ty, b), fl, b) /\ Separates(Kind(fl, ty, b), fl, b)
<1> USE DEF ReadAt, Separates
<1>1. CASE "next" \in fl
  BY <1>1 DEF Kind
<1>2. CASE "next" \notin fl /\ "string" \in fl
  BY <1>2 DEF Kind, AtString
<1>3. CASE fl \cap {"next", "string"} = {} /\ fl \cap {"line_comment", "block_comment"} # {}
  BY <1>3 DEF Kind, AtComment
<1>4. CASE fl \cap {"next", "string", "line_comment", "block_comment"} = {} /\ "done" \in fl
  BY <1>4 DEF Kind, AtDone, AtSkippable, Skippable
<1>5. CASE fl \cap {"next", "string", "line_comment", "block_comment", "done"} = {} /\ "seek_value" \in fl
  BY <1>5 DEF Kind, AtSeek, AtSkippable, ValueStarts, Skippable
<1>6. CASE fl \cap {"next", "string", "line_comment", "block_comment", "done", "seek_value"} = {}
  BY <1>6 DEF Kind, AtObject, AtSkippable, Skippable
<1>7. QED
  BY <1>1, <1>2, <1>3, <1>4, <1>5, <1>6

(* The flags and the length that it leaves. *)
Left(k, b, fl, gl) ==
    /\ k \in {"skip", "char"} \/ (k = "open" /\ b = "[") => gl = fl
    /\ k = "startescape" => gl = fl \cup {"escaped"}
    /\ k = "escape" => gl = fl \ {"escaped"}
    /\ k = "closestring" => gl = (fl \ {"string"}) \cup {"next"}
    /\ k = "closename" => gl = (fl \ {"string"}) \cup {"seek_value", "need_colon"}
    /\ k = "startline" => gl = fl \cup {"line_comment"}
    /\ k = "startblock" => gl = fl \cup {"block_comment"}
    /\ k = "endline" => gl = fl \ {"line_comment"}
    /\ k = "endblock" => gl = fl \ {"block_comment"}
    /\ k = "closearray" => gl = (fl \ {"need_comma", "seek_value"}) \cup {"next"}
    /\ k = "closeobject" => gl = (fl \ {"need_comma"}) \cup {"next"}
    /\ k = "comma" => gl = fl \ {"need_comma"}
    /\ k = "colon" => gl = fl \ {"need_colon"}
    /\ k = "startname" => gl = fl \cup {"string"}
    /\ k = "open" /\ b = "{" => gl = fl \ {"seek_value"}
    /\ k = "open" /\ b = Quote => gl = (fl \ {"seek_value"}) \cup {"string"}
    /\ k = "open" /\ b = Literal => gl = (fl \ {"seek_value"}) \cup {"next"}

(* That is what FlagsAfter says, case by case. *)
LEMMA FlagsAre ==
    ASSUME NEW k, NEW b, NEW fl
    PROVE  Left(k, b, fl, FlagsAfter(k, b, fl))
<1> DEFINE gl == FlagsAfter(k, b, fl)
<1> USE DEF FlagsAfter
<1>1. k \in {"skip", "char"} => gl = fl
  OBVIOUS
<1>2. k \in {"startescape", "escape", "closestring", "closename"} =>
        /\ k = "startescape" => gl = fl \cup {"escaped"}
        /\ k = "escape" => gl = fl \ {"escaped"}
        /\ k = "closestring" => gl = (fl \ {"string"}) \cup {"next"}
        /\ k = "closename" => gl = (fl \ {"string"}) \cup {"seek_value", "need_colon"}
  OBVIOUS
<1>3. k \in {"startline", "startblock", "endline", "endblock"} =>
        /\ k = "startline" => gl = fl \cup {"line_comment"}
        /\ k = "startblock" => gl = fl \cup {"block_comment"}
        /\ k = "endline" => gl = fl \ {"line_comment"}
        /\ k = "endblock" => gl = fl \ {"block_comment"}
  OBVIOUS
<1>4. k \in {"closearray", "closeobject", "comma", "colon", "startname"} =>
        /\ k = "closearray" => gl = (fl \ {"need_comma", "seek_value"}) \cup {"next"}
        /\ k = "closeobject" => gl = (fl \ {"need_comma"}) \cup {"next"}
        /\ k = "comma" => gl = fl \ {"need_comma"}
        /\ k = "colon" => gl = fl \ {"need_colon"}
        /\ k = "startname" => gl = fl \cup {"string"}
  OBVIOUS
<1>5. ASSUME k = "open"
      PROVE  /\ b = "[" => gl = fl
             /\ b = "{" => gl = fl \ {"seek_value"}
             /\ b = Quote => gl = (fl \ {"seek_value"}) \cup {"string"}
             /\ b = Literal => gl = (fl \ {"seek_value"}) \cup {"next"}
  BY <1>5 DEF Quote, Literal
<1> HIDE DEF gl, FlagsAfter
<1>6. Left(k, b, fl, gl)
  BY <1>1, <1>2, <1>3, <1>4, <1>5 DEF Left
<1>7. QED
  BY <1>6 DEF gl

(* Bytes are counted where the lexer counts them. *)
LengthLeft(k, b, n, m) ==
    /\ k = "char" => m = n + 1
    /\ k = "escape" => m = n + (IF b = Unicode THEN 3 ELSE 1)
    /\ k = "startname" \/ (k = "open" /\ b = Quote) => m = 0
    /\ k \notin {"char", "escape", "startname", "open"} => m = n

(* That is what LengthAfter says, case by case. *)
LEMMA LengthIs ==
    ASSUME NEW k, NEW b, NEW n
    PROVE  LengthLeft(k, b, n, LengthAfter(k, b, n))
<1> USE DEF LengthLeft
<1>1. CASE k \in {"char", "escape"}
  BY <1>1 DEF LengthAfter
<1>2. CASE k = "startname"
  BY <1>2 DEF LengthAfter
<1>3. CASE k = "open"
  BY <1>3 DEF LengthAfter
<1>4. CASE k \notin {"char", "escape", "startname", "open"}
  BY <1>4 DEF LengthAfter
<1>5. QED
  BY <1>1, <1>2, <1>3, <1>4

(* What is there behind a token, and behind a bracket. *)
Closings == {Mark("]"), Mark("}")}

(* The lexer behind a token. *)
Emitted(tokens, y) ==
    /\ y \in LexStates /\ y.mode = "out" /\ y.bytes = 0 /\ y.number = FALSE /\ y.comma = FALSE
    /\ y.tokens = tokens

(* A token that closes nothing is put behind the comma that waits. *)
LEMMA EmitToken ==
    ASSUME NEW x \in LexStates, NEW token \in Tokens \ Closings
    PROVE  Emitted(Append(WithComma(x), token), Emit(x, token))
BY EmitIs DEF Closings, Emitted

(* One that closes is put instead of the comma. *)
LEMMA EmitClosing ==
    ASSUME NEW x \in LexStates, NEW token \in Tokens \cap Closings
    PROVE  Emitted(Append(x.tokens, token), Emit(x, token))
BY EmitIs DEF Closings, Emitted

(* What the lexer does where the scanner does k. *)
Looking == {"skip", "char", "startescape", "escape", "endline", "endblock", "startline",
            "startblock", "startname"}

(* The tokens that each step of the scanner adds to the text. *)
LexedBy(k, b, sl, x, y) ==
    /\ k \in Looking \/ (k = "open" /\ b = Quote) => y.tokens = x.tokens /\ y.comma = x.comma
    /\ k \in {"closestring", "closename"} => y.tokens = Append(WithComma(x), StringOf(sl)) /\ ~y.comma
    /\ k = "closearray" => y.tokens = Append(x.tokens, Mark("]")) /\ ~y.comma
    /\ k = "closeobject" => y.tokens = Append(x.tokens, Mark("}")) /\ ~y.comma
    /\ k = "comma" => y.tokens = WithComma(x) /\ y.comma
    /\ k = "colon" => y.tokens = Append(WithComma(x), Mark(":")) /\ ~y.comma
    /\ k = "open" /\ b # Quote => y.tokens = Append(WithComma(x), Mark(b)) /\ ~y.comma

(* In a string. *)
LEMMA LexOfString ==
    ASSUME NEW k, NEW b, NEW x, NEW y, ReadsNext(k, b, x, y), SameMode(x),
           k \in {"char", "startescape", "escape", "closestring", "closename"}
    PROVE  SameMode(y)' /\ LexedBy(k, b, string_length, x, y)
<1> DEFINE fl == flags
           gl == flags'
<1>0. ReadAt(k, fl, b) /\ Left(k, b, fl, gl) /\ LengthLeft(k, b, string_length, string_length')
  BY KindReads, FlagsAre, LengthIs DEF ReadsNext
<1>1. /\ x \in LexStates /\ b \in Chars /\ y = LexChar(x, b) /\ string_length \in Nat
      /\ "next" \notin fl /\ "reproc" \notin gl /\ ("next" \in gl <=> k = "closestring")
  BY DEF ReadsNext, Stays
<1>2. /\ "string" \in fl
      /\ k \in {"char", "startescape", "closestring", "closename"} => "escaped" \notin fl
  BY DEF ReadsNext, Meaning
<1>3. /\ k = "char" => b \notin {Quote, Backslash, NUL}
      /\ k = "startescape" => b = Backslash
      /\ k = "escape" => "escaped" \in fl
      /\ k \in {"closestring", "closename", "startname"} => b = Quote
  BY <1>0 DEF ReadAt
<1>4. /\ k = "char" => gl = fl
      /\ k = "startescape" => gl = fl \cup {"escaped"}
      /\ k = "escape" => gl = fl \ {"escaped"}
      /\ k = "closestring" => gl = (fl \ {"string"}) \cup {"next"}
      /\ k = "closename" => gl = (fl \ {"string"}) \cup {"seek_value", "need_colon"}
  BY <1>0 DEF Left
<1>5. /\ k = "char" => string_length' = string_length + 1
      /\ k = "escape" => string_length' = string_length + (IF b = Unicode THEN 3 ELSE 1)
      /\ k = "startescape" => string_length' = string_length
  BY <1>0 DEF LengthLeft
<1>6. /\ x.bytes = string_length /\ x.mode = IF "escaped" \in fl THEN "escape" ELSE "in"
      /\ ~x.number /\ x.number = FALSE
  <2>1. x.number \in BOOLEAN
    BY <1>1 DEF LexStates
  <2>2. QED
    BY <1>1, <1>2, <2>1 DEF SameMode, InString
<1>7. fl \cap {"line_comment", "block_comment"} = {}
  BY <1>2 DEF ReadsNext, FlagsFit
<1>8. CASE k \in {"char", "startescape", "escape"}
  <2>1. /\ y.tokens = x.tokens /\ y.comma = x.comma /\ y.number = FALSE
        /\ y.bytes = string_length'
        /\ y.mode = IF k = "startescape" THEN "escape" ELSE "in"
    BY <1>1, <1>2, <1>3, <1>5, <1>6, <1>8, LexInString DEF Looks
  <2>2. /\ "string" \in gl /\ "next" \notin gl
        /\ "escaped" \in gl <=> k = "startescape"
    BY <1>1, <1>2, <1>3, <1>4, <1>8
  <2>3. SameMode(y)'
    BY <1>1, <2>1, <2>2 DEF SameMode, InString
  <2>4. QED
    BY <1>8, <2>1, <2>3 DEF LexedBy, Looking
<1>9. CASE k \in {"closestring", "closename"}
  <2>0. StringOf(string_length) \in Tokens \ Closings
    BY <1>1, MarkTypes DEF StringOf, Mark, Closings
  <2>1. y = Emit(x, StringOf(string_length))
    BY <1>1, <1>2, <1>3, <1>6, <1>9, LexInString
  <2>2. /\ y.tokens = Append(WithComma(x), StringOf(string_length)) /\ y.comma = FALSE
        /\ y.number = FALSE /\ y.bytes = 0 /\ y.mode = "out"
    BY <1>1, <2>0, <2>1, EmitToken, ZenonT(60) DEF Emitted
  <2>3. "string" \notin gl /\ ("next" \notin gl => gl \cap {"line_comment", "block_comment"} = {})
    BY <1>4, <1>7, <1>9
  <2>4. SameMode(y)'
    BY <1>1, <2>2, <2>3 DEF SameMode, InString, InLineComment, InBlockComment
  <2>5. QED
    BY <1>9, <2>2, <2>4 DEF LexedBy, Looking
<1>10. QED
  BY <1>8, <1>9

(* In a comment, and where one begins. *)
LEMMA LexOfComment ==
    ASSUME NEW k, NEW b, NEW x, NEW y, ReadsNext(k, b, x, y), SameMode(x),
           k \in {"endline", "endblock", "startline", "startblock"}
           \/ (k = "skip" /\ flags \cap {"line_comment", "block_comment"} # {})
    PROVE  SameMode(y)' /\ LexedBy(k, b, string_length, x, y)
<1> DEFINE fl == flags
           gl == flags'
<1>0. ReadAt(k, fl, b) /\ Left(k, b, fl, gl) /\ LengthLeft(k, b, string_length, string_length')
  BY KindReads, FlagsAre, LengthIs DEF ReadsNext
<1>1. /\ x \in LexStates /\ b \in Chars /\ string_length' = string_length
      /\ IF k = "endline" THEN y = x ELSE y = LexChar(x, b)
      /\ "next" \notin fl /\ "reproc" \notin gl /\ "next" \notin gl /\ "string" \notin fl /\ b = text[ptr]
  <2>1. "string" \notin fl
    BY DEF ReadsNext, Meaning
  <2>2. string_length' = string_length
    BY <1>0 DEF LengthLeft
  <2>3. QED
    BY <2>1, <2>2 DEF ReadsNext, Stays
<1>2. /\ k = "endline" => "line_comment" \in fl /\ b \in {Newline, NUL}
      /\ k = "endblock" => "line_comment" \notin fl /\ "block_comment" \in fl /\ b = EndComment
      /\ k = "skip" => IF "line_comment" \in fl THEN b \notin {Newline, NUL}
                       ELSE IF "block_comment" \in fl THEN b \notin {EndComment, NUL}
                       ELSE b \in {Blank, Newline}
      /\ k = "startline" => b = LineComment
      /\ k = "startblock" => b = BlockComment
  BY <1>0 DEF ReadAt
<1>3. /\ k = "skip" => gl = fl
      /\ k = "startline" => gl = fl \cup {"line_comment"}
      /\ k = "startblock" => gl = fl \cup {"block_comment"}
      /\ k = "endline" => gl = fl \ {"line_comment"}
      /\ k = "endblock" => gl = fl \ {"block_comment"}
  BY <1>0 DEF Left
<1>4. ~({"line_comment", "block_comment"} \subseteq fl) /\ "string" \notin gl
  BY <1>1, <1>3 DEF ReadsNext, FlagsFit
<1>5. /\ x.bytes = 0
      /\ "line_comment" \in fl => x.mode = "line"
      /\ "line_comment" \notin fl /\ "block_comment" \in fl => x.mode = "block"
      /\ fl \cap {"line_comment", "block_comment"} = {} =>
           x.mode = "out" \/ (x.mode = "line" /\ b \in {Newline, NUL})
      /\ x.mode # "out" => x.number = FALSE
  <2>1. x.number \in BOOLEAN
    BY <1>1 DEF LexStates
  <2>2. QED
    BY <1>1, <2>1 DEF SameMode, InString, InLineComment, InBlockComment
<1>6. CASE k = "endline"
  <2>1. "line_comment" \notin gl /\ "block_comment" \notin gl
    BY <1>2, <1>3, <1>4, <1>6
  <2>2. x.mode = "line" /\ y = x /\ x.number = FALSE
    BY <1>1, <1>2, <1>5, <1>6
  <2>3. text' = text /\ ptr' = ptr
    BY <1>6 DEF ReadsNext, Stays
  <2>4. SameMode(y)'
    BY <1>1, <1>2, <1>4, <1>5, <1>6, <2>1, <2>2, <2>3 DEF SameMode, InString, InLineComment, InBlockComment
  <2>5. QED
    BY <1>6, <2>2, <2>4 DEF LexedBy, Looking
<1>7. CASE k \in {"skip", "endblock"}
  <2>1. x.mode \in {"line", "block"}
    BY <1>2, <1>5, <1>7
  <2>2. /\ y.tokens = x.tokens /\ y.comma = x.comma /\ y.number = FALSE /\ y.bytes = 0
        /\ x.mode = "line" => y.mode = IF b = Newline THEN "out" ELSE "line"
        /\ x.mode = "block" => y.mode = IF b = EndComment THEN "out" ELSE "block"
    BY <1>1, <1>5, <1>7, <2>1, LexInComment DEF Looks
  <2>3. IF "line_comment" \in gl THEN y.mode = "line"
        ELSE IF "block_comment" \in gl THEN y.mode = "block" ELSE y.mode = "out"
    <3>1. CASE k = "skip"
      BY <1>2, <1>3, <1>5, <2>2, <3>1
    <3>2. CASE k = "endblock"
      BY <1>2, <1>3, <1>5, <2>2, <3>2
    <3>3. QED
      BY <1>7, <3>1, <3>2
  <2>4. SameMode(y)'
    BY <1>1, <1>4, <2>2, <2>3 DEF SameMode, InString, InLineComment, InBlockComment
  <2>5. QED
    BY <1>7, <2>2, <2>4 DEF LexedBy, Looking
<1>8. CASE k \in {"startline", "startblock"}
  <2>1. fl \cap {"line_comment", "block_comment"} = {}
    BY <1>8 DEF ReadsNext, Meaning
  <2>2. b \notin {Newline, NUL}
    BY <1>2, <1>8 DEF LineComment, BlockComment, Newline, NUL
  <2>3. x.mode = "out"
    BY <1>5, <2>1, <2>2
  <2>4. /\ y.tokens = x.tokens /\ y.comma = x.comma /\ y.number = FALSE /\ y.bytes = 0
        /\ y.mode = IF k = "startline" THEN "line" ELSE "block"
    <3>1. x \in LexStates /\ b \in Chars /\ y = LexChar(x, b) /\ x.mode = "out" /\ x.bytes = 0
      BY <1>1, <1>5, <1>8, <2>3
    <3>2. /\ b = LineComment => Looks(x, y) /\ y.mode = "line" /\ y.number = FALSE /\ y.bytes = x.bytes
          /\ b = BlockComment => Looks(x, y) /\ y.mode = "block" /\ y.number = FALSE /\ y.bytes = x.bytes
      BY <3>1, LexOutside DEF LookedAt
    <3>3. QED
      BY <1>2, <1>8, <3>1, <3>2 DEF Looks
  <2>5. IF "line_comment" \in gl THEN y.mode = "line"
        ELSE "block_comment" \in gl /\ y.mode = "block"
    BY <1>3, <1>8, <2>1, <2>4
  <2>6. SameMode(y)'
    BY <1>1, <1>4, <2>4, <2>5 DEF SameMode, InString, InLineComment, InBlockComment
  <2>7. QED
    BY <1>8, <2>4, <2>6 DEF LexedBy, Looking
<1>9. QED
  BY <1>6, <1>7, <1>8

(* At a token, once more. *)
AtComma(x, y) ==
    /\ y.mode = "out" /\ y.number = FALSE /\ y.bytes = x.bytes
    /\ y.comma = TRUE /\ y.tokens = WithComma(x)

(* The marks that the text has outside of strings. *)
Brackets == {"]", "}"}
Others == {":", "{", "[", Literal}

(* Each of them is one token. *)
LEMMA LexTokens ==
    ASSUME NEW x \in LexStates, NEW b \in Chars, x.mode = "out"
    PROVE  /\ b = "," => AtComma(x, LexChar(x, b))
           /\ b \in Brackets => Emitted(Append(x.tokens, Mark(b)), LexChar(x, b))
           /\ b \in Others => Emitted(Append(WithComma(x), Mark(b)), LexChar(x, b))
<1>0. Mark(b) \in Tokens
  BY MarkTypes
<1>1. ASSUME b = ","
      PROVE  AtComma(x, LexChar(x, b))
  BY <1>1, LexToken, ZenonT(60) DEF AtComma
<1>2. ASSUME b \in Brackets \cup Others
      PROVE  LexChar(x, b) = Emit(x, Mark(b))
  <2>1. b \notin {Blank, Newline, NUL, Quote, LineComment, BlockComment, ","} \cup NumberChars
    BY <1>2 DEF Brackets, Others, Literal, Blank, Newline, NUL, Quote, LineComment, BlockComment,
       NumberChars, Digits, Signs
  <2>2. QED
    BY <2>1, LexToken
<1>3. ASSUME b \in Brackets
      PROVE  Emitted(Append(x.tokens, Mark(b)), LexChar(x, b))
  <2>1. Mark(b) \in Tokens \cap Closings
    BY <1>0, <1>3 DEF Brackets, Closings
  <2>2. Emitted(Append(x.tokens, Mark(b)), Emit(x, Mark(b)))
    BY <2>1, EmitClosing
  <2>3. QED
    BY <1>2, <1>3, <2>2
<1>4. ASSUME b \in Others
      PROVE  Emitted(Append(WithComma(x), Mark(b)), LexChar(x, b))
  <2>1. Mark(b) \in Tokens \ Closings
    BY <1>0, <1>4 DEF Others, Literal, Closings, Mark
  <2>2. Emitted(Append(WithComma(x), Mark(b)), Emit(x, Mark(b)))
    BY <2>1, EmitToken
  <2>3. QED
    BY <1>2, <1>4, <2>2
<1>5. QED
  BY <1>1, <1>3, <1>4

(* Outside of strings and comments. *)
LEMMA LexOfToken ==
    ASSUME NEW k, NEW b, NEW x, NEW y, ReadsNext(k, b, x, y), SameMode(x),
           k \in {"closearray", "comma", "colon", "closeobject", "startname", "open"}
           \/ (k = "skip" /\ flags \cap {"line_comment", "block_comment"} = {})
    PROVE  SameMode(y)' /\ LexedBy(k, b, string_length, x, y)
<1> DEFINE fl == flags
           gl == flags'
<1>0. /\ ReadAt(k, fl, b) /\ Left(k, b, fl, gl) /\ LengthLeft(k, b, string_length, string_length')
      /\ Separates(k, fl, b)
  BY KindReads, FlagsAre, LengthIs DEF ReadsNext
<1>1. /\ x \in LexStates /\ b \in Chars /\ y = LexChar(x, b)
      /\ "next" \notin fl /\ "reproc" \notin gl /\ b = text[ptr]
  BY DEF ReadsNext
<1>2. "string" \notin fl /\ "escaped" \notin fl /\ fl \cap {"line_comment", "block_comment"} = {}
  BY DEF ReadsNext, Meaning, FlagsFit
<1>3. x.bytes = 0 /\ (x.mode = "out" \/ (x.mode = "line" /\ b \in {Newline, NUL} /\ x.number = FALSE))
  <2>1. x.number \in BOOLEAN
    BY <1>1 DEF LexStates
  <2>2. QED
    BY <1>1, <1>2, <2>1 DEF SameMode, InString, InLineComment, InBlockComment
<1>4. "line_comment" \notin gl /\ "block_comment" \notin gl /\ "escaped" \notin gl
  <2>1. CASE k = "open"
    <3>1. b \in {"{", "[", Quote, Literal}
      BY <2>1 DEF ReadsNext, Meaning
    <3>2. QED
      BY <1>0, <1>2, <2>1, <3>1 DEF Left
  <2>2. CASE k \in {"closearray", "comma", "colon", "closeobject", "startname", "skip"}
    BY <1>0, <1>2, <2>2 DEF Left
  <2>3. QED
    BY <2>1, <2>2
<1>5. CASE k = "skip"
  <2>1. b \in {Blank, Newline} /\ gl = fl
    BY <1>0, <1>2, <1>5 DEF ReadAt, Left
  <2>2. /\ y.tokens = x.tokens /\ y.comma = x.comma /\ y.number = FALSE /\ y.bytes = 0 /\ y.mode = "out"
    <3>1. CASE x.mode = "out"
      <4>1. LookedAt(x, b, y)
        BY <1>1, <3>1, LexOutside
      <4>2. QED
        BY <1>3, <2>1, <4>1 DEF LookedAt, Looks
    <3>2. CASE x.mode # "out"
      <4>1. x.mode = "line" /\ x.number = FALSE /\ b = Newline
        BY <1>3, <2>1, <3>2 DEF Blank, Newline, NUL
      <4>2. QED
        BY <1>1, <1>3, <4>1, LexInComment DEF Looks
    <3>3. QED
      BY <3>1, <3>2
  <2>3. SameMode(y)'
    BY <1>1, <1>2, <1>4, <2>1, <2>2 DEF SameMode, InString, InLineComment, InBlockComment
  <2>4. QED
    BY <1>5, <2>2, <2>3 DEF LexedBy, Looking
<1>6. ASSUME k # "skip"
      PROVE  x.mode = "out"
  <2>1. b \notin {Newline, NUL}
    <3>1. CASE k = "open"
      <4>1. b \in {"{", "[", Quote, Literal}
        BY <3>1 DEF ReadsNext, Meaning
      <4>2. QED
        BY <4>1 DEF Quote, Literal, Newline, NUL
    <3>2. CASE k = "startname"
      BY <1>0, <3>2 DEF ReadAt, Quote, Newline, NUL
    <3>3. CASE k \in {"closearray", "comma", "colon", "closeobject"}
      BY <1>0, <3>3 DEF Separates, Newline, NUL
    <3>4. QED
      BY <1>6, <3>1, <3>2, <3>3
  <2>2. QED
    BY <1>3, <2>1
<1>7. CASE k = "startname" \/ (k = "open" /\ b = Quote)
  <2>1. b = Quote /\ "string" \in gl /\ "next" \notin gl /\ string_length' = 0
    <3>1. CASE k = "startname"
      BY <1>0, <1>1, <3>1 DEF ReadAt, Left, LengthLeft
    <3>2. CASE k = "open" /\ b = Quote
      BY <1>0, <1>1, <3>2 DEF Left, LengthLeft
    <3>3. QED
      BY <1>7, <3>1, <3>2
  <2>2. LookedAt(x, b, y)
    BY <1>1, <1>6, <1>7, LexOutside
  <2>3. y.tokens = x.tokens /\ y.comma = x.comma /\ y.number = FALSE /\ y.bytes = 0 /\ y.mode = "in"
    BY <1>3, <2>1, <2>2 DEF LookedAt, Looks
  <2>4. SameMode(y)'
    BY <1>1, <1>4, <2>1, <2>3 DEF SameMode, InString
  <2>5. QED
    BY <1>7, <2>3, <2>4 DEF LexedBy, Looking
<1>8. ASSUME y.mode = "out", y.number = FALSE, y.bytes = 0, "string" \notin gl
      PROVE  SameMode(y)'
  BY <1>1, <1>4, <1>8 DEF SameMode, InString, InLineComment, InBlockComment
<1>9. CASE k \in {"closearray", "comma", "colon", "closeobject"}
  <2>1. "string" \notin gl /\ x.mode = "out"
    BY <1>0, <1>2, <1>6, <1>9 DEF Left
  <2>2. CASE k = "comma"
    <3>1. AtComma(x, y)
      BY <1>0, <1>1, <2>1, <2>2, LexTokens DEF Separates
    <3>2. QED
      BY <1>3, <1>8, <2>1, <2>2, <3>1 DEF AtComma, LexedBy, Looking
  <2>3. CASE k = "colon"
    <3>1. Emitted(Append(WithComma(x), Mark(":")), y)
      BY <1>0, <1>1, <2>1, <2>3, LexTokens DEF Separates, Others
    <3>2. QED
      BY <1>8, <2>1, <2>3, <3>1 DEF Emitted, LexedBy, Looking
  <2>4. CASE k = "closearray"
    <3>1. Emitted(Append(x.tokens, Mark("]")), y)
      BY <1>0, <1>1, <2>1, <2>4, LexTokens DEF Separates, Brackets
    <3>2. QED
      BY <1>8, <2>1, <2>4, <3>1 DEF Emitted, LexedBy, Looking
  <2>5. CASE k = "closeobject"
    <3>1. Emitted(Append(x.tokens, Mark("}")), y)
      BY <1>0, <1>1, <2>1, <2>5, LexTokens DEF Separates, Brackets
    <3>2. QED
      BY <1>8, <2>1, <2>5, <3>1 DEF Emitted, LexedBy, Looking
  <2>6. QED
    BY <1>9, <2>2, <2>3, <2>4, <2>5
<1>10. CASE k = "open" /\ b # Quote
  <2>1. b \in {"{", "[", Literal}
    BY <1>10 DEF ReadsNext, Meaning
  <2>2. "string" \notin gl /\ x.mode = "out"
    BY <1>0, <1>2, <1>6, <1>10, <2>1 DEF Left
  <2>3. Emitted(Append(WithComma(x), Mark(b)), y)
    BY <1>1, <2>1, <2>2, LexTokens DEF Others
  <2>4. QED
    BY <1>8, <1>10, <2>2, <2>3 DEF Emitted, LexedBy, Looking
<1>11. QED
  BY <1>5, <1>7, <1>9, <1>10, <1>2

(* After any small step the lexer is where the scanner is, in the same     *)
(* mode.                                                                   *)
LEMMA LexOfSmall ==
    ASSUME NEW k, NEW b, NEW x, NEW y, ReadsNext(k, b, x, y), SameMode(x)
    PROVE  SameMode(y)' /\ LexedBy(k, b, string_length, x, y)
<1>1. k \in MoveKinds \cup {"open", "closestring", "closename"}
  BY DEF ReadsNext
<1>2. QED
  BY <1>1, LexOfString, LexOfComment, LexOfToken DEF MoveKinds

----------------------------------------------------------------------------
(***************************************************************************)
(* What is read is what is written, step by step.                          *)
(***************************************************************************)
(* A step that the tree has nothing to do with. *)
LEMMA LookingText ==
    ASSUME Inv, NEW k, NEW b, NEW x, NEW y, ReadsNext(k, b, x, y), k \in Looking,
           NEW O, NEW from, NEW to, Reading(x, O, from, to)
    PROVE  Reading(y, O, from, to)'
<1> DEFINE fl == flags
           gl == flags'
<1>0. /\ ReadAt(k, fl, b) /\ Left(k, b, fl, gl) /\ "next" \notin fl
      /\ UNCHANGED <<top, root, alloc, values, first_pass, text>>
  <2>1. UNCHANGED <<top, root, alloc, values>>
    BY DEF ReadsNext, Tree, tree, Looking
  <2>2. QED
    BY <2>1, KindReads, FlagsAre DEF ReadsNext
<1>1. SameMode(y)' /\ y.tokens = x.tokens /\ y.comma = x.comma
  <2>1. SameMode(x)
    BY DEF Reading
  <2>2. SameMode(y)' /\ LexedBy(k, b, string_length, x, y)
    BY <2>1, LexOfSmall
  <2>3. QED
    BY <2>2 DEF LexedBy
<1>2. /\ "next" \notin gl /\ ("done" \in gl <=> "done" \in fl)
      /\ "seek_value" \in gl <=> "seek_value" \in fl
      /\ "need_comma" \in gl <=> "need_comma" \in fl
      /\ "need_colon" \in gl <=> "need_colon" \in fl
      /\ "string" \in gl => "string" \in fl \/ k = "startname"
  <2>1. CASE k \in {"skip", "char", "startescape", "escape", "endline"}
    BY <1>0, <2>1 DEF Left
  <2>2. CASE k \in {"endblock", "startline", "startblock", "startname"}
    BY <1>0, <2>2 DEF Left
  <2>3. QED
    BY <2>1, <2>2 DEF Looking
<1>3. Unread' = Unread /\ Holder' = Holder /\ Tip' = Tip /\ Given' = Given
  <2>1. fl \cap {"next", "done"} = {} <=> gl \cap {"next", "done"} = {}
    BY <1>0, <1>2
  <2>2. Unread' = Unread
    BY <1>0, <2>1 DEF Unread
  <2>3. QED
    BY <1>0, <1>2, <2>2 DEF Holder, Tip, Given, Parent
<1>4. Branch(O, Tip)' /\ NamesFit(values, O)' /\ Spans(y.tokens, values', Given', O, Unread', from, to)
  <2>1. Branch(O, Tip) /\ NamesFit(values, O) /\ Spans(x.tokens, values, Given, O, Unread, from, to)
    BY DEF Reading
  <2>2. QED
    BY <1>0, <1>1, <1>3, <2>1 DEF Branch, Parent
<1>5. Frontier(y, from, to)'
  <2>0. Frontier(x, from, to)
    BY DEF Reading
  <2>1. "done" \in gl => ~y.comma /\ from[root'] = 1 /\ to[root'] = Len(y.tokens)
    BY <1>0, <1>1, <1>2, <2>0 DEF Frontier
  <2>2. ASSUME gl \cap {"next", "done"} = {}
        PROVE  /\ top' # 0 => values'[top'].type \in Containers \cup {"string"}
               /\ Holder' = 0 => y.tokens = <<>> /\ ~y.comma /\ gl \cap {"need_comma", "need_colon"} = {}
               /\ Holder' # 0 => Ahead(y, Holder, from, to)'
    <3>0. fl \cap {"next", "done"} = {}
      BY <1>0, <1>2, <2>2
    <3>1. /\ top # 0 => values[top].type \in Containers \cup {"string"}
          /\ Holder = 0 => x.tokens = <<>> /\ ~x.comma /\ fl \cap {"need_comma", "need_colon"} = {}
      BY <2>0, <3>0 DEF Frontier
    <3>2. ASSUME Holder # 0
          PROVE  Ahead(y, Holder, from, to)'
      <4>0. PICK h, v, e : /\ h = Holder /\ v = values[h] /\ e = Behind(v, h, Len(v.kids), from, to)
        OBVIOUS
      <4>1. /\ v.type \in Containers
            /\ IF v.type = "object" /\ (Unread # 0 \/ "seek_value" \in fl)
               THEN Named(x.tokens, x.comma, v, e) ELSE Between(x.tokens, x.comma, v, e)
        BY <2>0, <3>0, <3>2, <4>0 DEF Frontier, Ahead
      <4>2. Holder' = h /\ values'[h] = v
        BY <1>0, <1>3, <4>0
      <4>3. Named(x.tokens, x.comma, v, e) => Named(y.tokens, y.comma, v, e)'
        BY <1>1, <1>2 DEF Named
      <4>4. Between(x.tokens, x.comma, v, e) => Between(y.tokens, y.comma, v, e)'
        BY <1>1, <1>2 DEF Between
      <4>5. QED
        BY <1>2, <1>3, <4>0, <4>1, <4>2, <4>3, <4>4 DEF Ahead
    <3>3. gl \cap {"need_comma", "need_colon"} = fl \cap {"need_comma", "need_colon"}
      BY <1>2
    <3>4. QED
      BY <1>0, <1>1, <1>2, <1>3, <3>1, <3>2, <3>3
  <2>3. ASSUME gl \cap {"next", "done"} = {}, "string" \in gl
        PROVE  gl \cap {"need_comma", "need_colon"} = {}
    <3>0. fl \cap {"next", "done"} = {}
      BY <1>0, <1>2, <2>3
    <3>1. CASE "string" \in fl
      BY <1>2, <2>0, <3>0, <3>1 DEF Frontier, InString
    <3>2. CASE k = "startname"
      <4>1. "need_comma" \notin fl /\ "seek_value" \notin fl /\ "string" \notin fl
        BY <1>0, <3>2 DEF ReadAt, ReadsNext, Meaning
      <4>2. TopType = "object"
        BY <3>0, <4>1 DEF ReadsNext, FlagsFit
      <4>3. top # 0 /\ values[top].type = "object"
        BY <4>2 DEF TopType
      <4>4. Unread = 0 /\ Holder = top
        BY <4>3 DEF Unread, Holder
      <4>5. "need_colon" \notin fl
        BY <2>0, <3>0, <4>1, <4>3, <4>4 DEF Frontier, Ahead, Between
      <4>6. QED
        BY <1>2, <4>1, <4>5
    <3>3. QED
      BY <1>2, <2>3, <3>1, <3>2
  <2>4. /\ "next" \notin gl
        /\ "done" \in gl => ~y.comma /\ from[root'] = 1 /\ to[root'] = Len(y.tokens)
        /\ gl \cap {"next", "done"} = {} =>
             /\ top' # 0 => values'[top'].type \in Containers \cup {"string"}
             /\ "string" \in gl => gl \cap {"need_comma", "need_colon"} = {}
             /\ Holder' = 0 => y.tokens = <<>> /\ ~y.comma /\ gl \cap {"need_comma", "need_colon"} = {}
             /\ Holder' # 0 => Ahead(y, Holder, from, to)'
    BY <1>2, <2>1, <2>2, <2>3
  <2>5. QED
    BY <2>4 DEF Frontier, InString
<1>6. QED
  BY <1>1, <1>4, <1>5 DEF Reading

(* Where a value is not being read, what it would be in is top. *)
LEMMA HolderIsTop ==
    ASSUME NEW k, NEW b, NEW x, NEW y, ReadsNext(k, b, x, y),
           k \in {"comma", "colon", "closearray", "closeobject", "closename", "open"}
    PROVE  /\ flags \cap {"next", "done"} = {} /\ Unread = 0 /\ Holder = top
           /\ k \in {"closeobject", "closename"} => top # 0 /\ values[top].type = "object"
           /\ k = "closearray" => top # 0 /\ values[top].type = "array"
           /\ k = "closename" => "seek_value" \notin flags
<1>1. /\ FlagsFit(flags, TopType) /\ Meaning(k, flags, TopType, b) /\ flags \cap {"next", "reproc"} = {}
  BY DEF ReadsNext
<1>2. "done" \notin flags
  BY <1>1 DEF Meaning, FlagsFit
<1>3. CASE k = "closename"
  <2>1. TopType = "object" /\ "seek_value" \notin flags
    BY <1>1, <1>3 DEF Meaning, FlagsFit
  <2>2. QED
    BY <1>1, <1>2, <1>3, <2>1 DEF TopType, Unread, Holder
<1>4. CASE k = "closearray"
  <2>1. TopType = "array"
    BY <1>1, <1>4 DEF Meaning
  <2>2. QED
    BY <1>1, <1>2, <1>4, <2>1 DEF TopType, Unread, Holder
<1>5. CASE k = "closeobject"
  <2>1. TopType = "object"
    BY <1>1, <1>2, <1>5 DEF Meaning, FlagsFit
  <2>2. QED
    BY <1>1, <1>2, <1>5, <2>1 DEF TopType, Unread, Holder
<1>6. CASE k \in {"comma", "colon", "open"}
  <2>1. "string" \notin flags
    BY <1>1, <1>6 DEF Meaning
  <2>2. TopType # "string"
    BY <1>1, <1>2, <2>1 DEF FlagsFit
  <2>3. Unread = 0
    BY <2>2 DEF TopType, Unread
  <2>4. QED
    BY <1>1, <1>2, <1>6, <2>3 DEF Holder
<1>7. QED
  BY <1>3, <1>4, <1>5, <1>6

(* Between two entries, and between a name and its value. *)
LEMMA SeparatorText ==
    ASSUME Inv, NEW k, NEW b, NEW x, NEW y, ReadsNext(k, b, x, y), k \in {"comma", "colon"},
           NEW O, NEW from, NEW to, Reading(x, O, from, to)
    PROVE  Reading(y, O, from, to)'
<1> DEFINE fl == flags
           gl == flags'
<1>0. /\ ReadAt(k, fl, b) /\ Left(k, b, fl, gl) /\ Separates(k, fl, b) /\ "next" \notin fl
      /\ UNCHANGED <<top, root, alloc, values, first_pass, text>>
  <2>1. UNCHANGED <<top, root, alloc, values>>
    BY DEF ReadsNext, Tree, tree
  <2>2. QED
    BY <2>1, KindReads, FlagsAre DEF ReadsNext
<1>1. /\ SameMode(y)' /\ (k = "comma" => y.tokens = WithComma(x) /\ y.comma)
      /\ (k = "colon" => y.tokens = Append(WithComma(x), Mark(":")) /\ ~y.comma)
  <2>1. SameMode(x)
    BY DEF Reading
  <2>2. SameMode(y)' /\ LexedBy(k, b, string_length, x, y)
    BY <2>1, LexOfSmall
  <2>3. QED
    BY <2>2 DEF LexedBy
<1>2. fl \cap {"next", "done"} = {} /\ Unread = 0 /\ Holder = top /\ gl \cap {"next", "done"} = {}
  <2>1. fl \cap {"next", "done"} = {} /\ Unread = 0 /\ Holder = top
    BY HolderIsTop
  <2>2. QED
    BY <1>0, <2>1, ZenonT(60) DEF Left
<1>3. Unread' = Unread /\ Holder' = Holder /\ Tip' = Tip /\ Given' = Given
  <2>1. Unread' = Unread
    BY <1>0, <1>2 DEF Unread
  <2>2. QED
    BY <1>0, <1>2, <2>1 DEF Holder, Tip, Given, Parent
<1>4. Branch(O, Tip) /\ NamesFit(values, O) /\ Spans(x.tokens, values, Given, O, Unread, from, to)
      /\ Frontier(x, from, to)
  BY DEF Reading
<1>5. /\ top # 0 => values[top].type \in Containers \cup {"string"} /\ Ahead(x, top, from, to)
      /\ top = 0 => fl \cap {"need_comma", "need_colon"} = {}
  BY <1>2, <1>4 DEF Frontier
<1>6. top # 0 /\ values[top].type \in Containers /\ "string" \notin fl /\ "string" \notin gl
  <2>1. top # 0
    BY <1>0, <1>5 DEF Separates
  <2>2. values[top].type \in Containers
    BY <1>5, <2>1 DEF Ahead
  <2>3. "string" \notin fl
    BY DEF ReadsNext, Meaning
  <2>4. QED
    BY <1>0, <2>1, <2>2, <2>3 DEF Left
<1>7. PICK h, v, e : h = top /\ v = values[h] /\ e = Behind(v, h, Len(v.kids), from, to)
  OBVIOUS
<1>8. /\ v.type \in Containers
      /\ IF v.type = "object" /\ "seek_value" \in fl
         THEN Named(x.tokens, x.comma, v, e) ELSE Between(x.tokens, x.comma, v, e)
  BY <1>2, <1>5, <1>6, <1>7 DEF Ahead
<1>9. x.tokens \in Seq(Tokens) /\ x.comma \in BOOLEAN /\ values \in Seq(Records)
      /\ e \in 1 .. Len(x.tokens) /\ Len(x.tokens) \in Nat /\ Len(v.kids) \in Nat
  <2>1. x.tokens \in Seq(Tokens) /\ x.comma \in BOOLEAN /\ values \in Seq(Records)
    BY ChainIs DEF ReadsNext, LexStates
  <2>2. h \in O /\ h \in Given /\ h # Unread
    BY <1>2, <1>4, <1>6, <1>7 DEF Branch, Tip, Spans, ReadsNext
  <2>3. Len(v.kids) \in 0 .. Len(v.kids) /\ Len(v.kids) \in Nat
    <3>1. h \in 1 .. Len(values)
      BY <1>4, <2>2 DEF Spans
    <3>2. QED
      BY <1>7, <2>1, <3>1, ValueIn
  <2>4. e \in 1 .. Len(x.tokens)
    BY <1>4, <1>7, <2>1, <2>2, <2>3, BehindIn
  <2>5. QED
    BY <2>1, <2>3, <2>4
<1>10. CASE k = "comma"
  <2>1. "need_comma" \in fl /\ gl = fl \ {"need_comma"}
    BY <1>0, <1>10 DEF Separates, Left
  <2>2. ~(v.type = "object" /\ "seek_value" \in fl) /\ Between(x.tokens, x.comma, v, e)
    BY <1>8, <2>1 DEF Named
  <2>3. ~x.comma /\ v.kids # <<>>
    BY <2>1, <2>2 DEF Between
  <2>4. y.tokens = x.tokens /\ y.comma = TRUE
    <3>1. y \in LexStates
      BY DEF ReadsNext
    <3>2. QED
      BY <1>1, <1>10, <2>3, <3>1 DEF WithComma, LexStates
  <2>5. Between(y.tokens, y.comma, v, e)'
    BY <2>1, <2>2, <2>3, <2>4 DEF Between
  <2>6. Ahead(y, h, from, to)'
    BY <1>0, <1>2, <1>3, <1>7, <1>8, <2>1, <2>2, <2>5 DEF Ahead
  <2>7. Frontier(y, from, to)'
    BY <1>0, <1>2, <1>3, <1>6, <1>7, <2>6 DEF Frontier, InString
  <2>8. QED
    BY <1>0, <1>1, <1>3, <1>4, <1>10, <2>4, <2>7 DEF Reading, Branch, Parent
<1>11. CASE k = "colon"
  <2>1. "need_colon" \in fl /\ "need_comma" \notin fl /\ gl = fl \ {"need_colon"}
    BY <1>0, <1>11 DEF Separates, Left
  <2>2. v.type = "object" /\ "seek_value" \in fl /\ Named(x.tokens, x.comma, v, e)
    BY <1>8, <2>1 DEF Between
  <2>3. y.tokens = Append(x.tokens, Mark(":")) /\ ~y.comma
    BY <1>1, <1>11, <2>2 DEF WithComma, Named
  <2>4. /\ Longer(x.tokens, y.tokens) /\ y.tokens \in Seq(Tokens)
        /\ Len(y.tokens) = Len(x.tokens) + 1 /\ y.tokens[Len(x.tokens) + 1] = Mark(":")
    <3>1. Mark(":") \in Tokens
      BY MarkTypes DEF Chars
    <3>2. QED
      BY <1>9, <2>3, <3>1, LongerByOne
  <2>5. Named(y.tokens, y.comma, v, e)'
    <3> DEFINE g == IF v.kids = <<>> THEN e ELSE e + 1
    <3>1. /\ Len(v.keys) = Len(v.kids) + 1 /\ Len(x.tokens) = g + 1
          /\ v.kids # <<>> => x.tokens[e + 1] = Mark(",")
          /\ x.tokens[g + 1] = StringOf(v.keys[Len(v.kids) + 1])
      BY <2>1, <2>2 DEF Named
    <3>a. (v.kids = <<>> /\ g = e) \/ (v.kids # <<>> /\ g = e + 1)
      OBVIOUS
    <3> HIDE DEF g
    <3>b. (g = e \/ g = e + 1) /\ Len(x.tokens) = g + 1 /\ e \in 1 .. Len(x.tokens) /\ Len(x.tokens) \in Nat
      BY <1>9, <3>1, <3>a
    <3>c. g + 1 \in 1 .. Len(x.tokens) /\ g \in Nat /\ Len(x.tokens) + 1 = g + 2
      BY <3>b
    <3>d. g = e + 1 => e + 1 \in 1 .. Len(x.tokens)
      BY <3>b
    <3>2. g + 1 \in 1 .. Len(x.tokens) /\ (v.kids # <<>> => e + 1 \in 1 .. Len(x.tokens)) /\ g \in Nat
          /\ Len(x.tokens) + 1 = g + 2
      BY <3>a, <3>c, <3>d
    <3>3. /\ v.kids # <<>> => y.tokens[e + 1] = Mark(",")
          /\ y.tokens[g + 1] = StringOf(v.keys[Len(v.kids) + 1])
      BY <2>4, <3>1, <3>2 DEF Longer
    <3>4. Len(y.tokens) = g + 2 /\ y.tokens[g + 2] = Mark(":")
      BY <2>4, <3>1, <3>2
    <3>5. "need_comma" \notin gl /\ "need_colon" \notin gl
      BY <2>1
    <3>6. QED
      BY <2>3, <3>1, <3>3, <3>4, <3>5 DEF Named, g
  <2>6. Ahead(y, h, from, to)'
    BY <1>0, <1>2, <1>3, <1>7, <1>8, <2>1, <2>2, <2>5 DEF Ahead
  <2>7. Frontier(y, from, to)'
    BY <1>0, <1>2, <1>3, <1>6, <1>7, <2>6 DEF Frontier, InString
  <2>8. Spans(y.tokens, values, Given, O, Unread, from, to)
    <3>1. Alike(values, values, Given, O)
      BY <1>9, AlikeItself
    <3>2. QED
      BY <1>4, <2>4, <3>1, SpansStay
  <2>9. QED
    BY <1>0, <1>1, <1>3, <1>4, <2>7, <2>8 DEF Reading, Branch, Parent
<1>12. QED
  BY <1>10, <1>11

(* top gets a name or a length. *)
LEMMA AlikeChanged ==
    ASSUME NEW vals \in Seq(Records), NEW vals2 \in Seq(Records), NEW h, NEW v2,
           Changed(vals2, vals, h, v2), NEW G, G \subseteq 1 .. Len(vals), NEW O, h \in O,
           SameEntries(vals[h], v2)
    PROVE  Alike(vals, vals2, G, O)
<1>1. ASSUME NEW n \in G
      PROVE  /\ SameEntries(vals[n], vals2[n]) /\ (n \notin O => vals2[n].length = vals[n].length)
  <2>1. vals2[n] = IF n = h THEN v2 ELSE vals[n]
    BY DEF Changed
  <2>2. SameEntries(vals[n], vals[n])
    BY ValueIn DEF SameEntries
  <2>3. QED
    BY <2>1, <2>2
<1>2. Len(vals2) = Len(vals)
  BY DEF Changed
<1>3. QED
  BY <1>1, <1>2 DEF Alike

(* Nothing that is not complete is in h. *)
Empty(vals, O, h) == \A n \in O : vals[n].parent # h

(* Then h may be changed: the names of the others are as they were. *)
LEMMA NamesStay ==
    ASSUME NEW vals, NEW vals2, NEW h, NEW v2, Changed(vals2, vals, h, v2),
           NEW O, O \subseteq 1 .. Len(vals), NamesFit(vals, O), Chained(vals, O),
           Empty(vals, O, h), v2.parent = vals[h].parent
    PROVE  NamesFit(vals2, O)
<1>1. ASSUME NEW n \in O, vals2[n].parent # 0, vals2[vals2[n].parent].type = "object"
      PROVE  Len(vals2[vals2[n].parent].keys) = Len(vals2[vals2[n].parent].kids) + 1
  <2>1. n \in 1 .. Len(vals) /\ vals2[n].parent = vals[n].parent
    BY DEF Changed
  <2>2. vals[n].parent \in O /\ vals[n].parent \in 1 .. Len(vals) /\ vals[n].parent # h
    BY <1>1, <2>1 DEF Chained, Empty
  <2>3. vals2[vals[n].parent] = vals[vals[n].parent]
    BY <2>2 DEF Changed
  <2>4. QED
    BY <1>1, <2>1, <2>3 DEF NamesFit
<1>2. QED
  BY <1>1 DEF NamesFit

(* Nothing that is not complete is in the last one of them. *)
LEMMA NothingInTip ==
    ASSUME Inv, NEW O, NEW h, Branch(O, h), h # 0
    PROVE  /\ h \in O /\ O \subseteq 1 .. Len(values) /\ \A n \in O : values[n].parent # h
           /\ \A n \in O : n # h => n < h
           /\ values[h].parent = 0 => h = root
<1>1. h \in O /\ O \subseteq 1 .. Len(values) /\ (values[h].parent = 0 => h = root)
  BY DEF Branch, Parent
<1>2. ASSUME NEW n \in O
      PROVE  values[n].parent # h /\ (n # h => n < h)
  <2>1. n <= h /\ n \in 1 .. Len(values) /\ h \in 1 .. Len(values)
    BY <1>1 DEF Branch
  <2>2. Parent(n) < n /\ Parent(n) \in Nat /\ n \in Nat /\ h \in Nat
    BY <2>1, ParentBelow
  <2>3. Parent(n) # h /\ (n # h => n < h)
    BY <2>1, <2>2
  <2>4. QED
    BY <2>3 DEF Parent
<1>3. QED
  BY <1>1, <1>2

(* A name has been read. *)
LEMMA NameText ==
    ASSUME Inv, NEW k, NEW b, NEW x, NEW y, ReadsNext(k, b, x, y), k = "closename",
           NEW O, NEW from, NEW to, Reading(x, O, from, to)
    PROVE  Reading(y, O, from, to)'
<1> DEFINE fl == flags
           gl == flags'
<1>0. /\ "next" \notin fl /\ gl = (fl \ {"string"}) \cup {"seek_value", "need_colon"} /\ "string" \in fl
      /\ UNCHANGED <<top, root, alloc, first_pass, text>>
  <2>1. UNCHANGED <<top, root, alloc>>
    BY DEF ReadsNext, Tree
  <2>2. Left(k, b, fl, gl)
    BY FlagsAre DEF ReadsNext
  <2>3. "string" \in fl /\ "next" \notin fl /\ UNCHANGED <<first_pass, text>>
    BY DEF ReadsNext, Meaning
  <2>4. QED
    BY <2>1, <2>2, <2>3 DEF Left
<1>1. /\ SameMode(y)' /\ y.tokens = Append(WithComma(x), StringOf(string_length)) /\ ~y.comma
  <2>1. SameMode(x)
    BY DEF Reading
  <2>2. SameMode(y)' /\ LexedBy(k, b, string_length, x, y)
    BY <2>1, LexOfSmall
  <2>3. QED
    BY <2>2 DEF LexedBy
<1>2. /\ fl \cap {"next", "done"} = {} /\ Unread = 0 /\ Holder = top /\ gl \cap {"next", "done"} = {}
      /\ top # 0 /\ values[top].type = "object" /\ "seek_value" \notin fl
  <2>1. /\ fl \cap {"next", "done"} = {} /\ Unread = 0 /\ Holder = top
        /\ top # 0 /\ values[top].type = "object" /\ "seek_value" \notin fl
    BY HolderIsTop
  <2>2. QED
    BY <1>0, <2>1
<1>3. Branch(O, Tip) /\ NamesFit(values, O) /\ Spans(x.tokens, values, Given, O, Unread, from, to)
      /\ Frontier(x, from, to)
  BY DEF Reading
<1>4. Ahead(x, top, from, to) /\ fl \cap {"need_comma", "need_colon"} = {}
  BY <1>0, <1>2, <1>3 DEF Frontier, InString
<1>5. PICK h, v, e : h = top /\ v = values[h] /\ e = Behind(v, h, Len(v.kids), from, to)
  OBVIOUS
<1>6. v.type = "object" /\ Between(x.tokens, x.comma, v, e)
  BY <1>2, <1>4, <1>5 DEF Ahead
<1>7. /\ Branch(O, h) /\ h \in O /\ O \subseteq Given /\ Given \subseteq 1 .. Len(values) /\ h \in 1 .. Len(values)
      /\ \A n \in O : values[n].parent # h
  <2>1. Tip = h
    BY <1>2, <1>5 DEF Tip, ReadsNext
  <2>2. O \subseteq Given /\ Given \subseteq 1 .. Len(values)
    BY <1>3 DEF Spans
  <2>3. QED
    BY <1>2, <1>3, <1>5, <2>1, <2>2, NothingInTip
<1>8. /\ values \in Seq(Records) /\ v \in Records /\ v.kids \in Seq(Nat) /\ v.keys \in Seq(Nat)
      /\ Len(v.kids) \in Nat /\ Len(v.keys) \in Nat /\ string_length \in Nat /\ v.names \in Nat
  <2>1. values \in Seq(Records)
    BY ChainIs
  <2>2. v \in Records
    BY <1>5, <1>7, <2>1, ValueIn
  <2>3. v.names \in Nat
    BY <2>2, RecordFields
  <2>4. QED
    BY <1>5, <1>7, <2>1, <2>2, <2>3, ValueIn DEF ReadsNext
<1>9. PICK v2 : v2 = [v EXCEPT !.names = @ + string_length + 1, !.keys = Append(@, string_length)]
  OBVIOUS
<1>10. /\ v2 \in Records /\ v2.type = v.type /\ v2.parent = v.parent /\ v2.kids = v.kids
       /\ v2.keys = Append(v.keys, string_length)
  <2>1. v.names + string_length + 1 \in Nat
    BY <1>8
  <2>2. Append(v.keys, string_length) \in Seq(Nat)
    BY <1>8, AppendProperties
  <2>3. QED
    BY <1>8, <1>9, <2>1, <2>2 DEF Records
<1>11. Changed(values', values, h, v2) /\ values' \in Seq(Records) /\ values'[h] = v2
  <2>0. values' = [values EXCEPT ![top].names = @ + string_length + 1,
                                 ![top].keys = Append(@, string_length)]
    BY DEF ReadsNext, Tree
  <2>1. values' = [values EXCEPT ![h] = v2]
    BY <1>5, <1>7, <1>8, <1>9, <2>0
  <2>2. Changed(values', values, h, v2) /\ values' \in Seq(Records)
    BY <1>7, <1>8, <1>10, <2>1, ExceptIs
  <2>3. QED
    BY <1>7, <2>2 DEF Changed
<1>12. /\ Len(v2.keys) = Len(v.keys) + 1 /\ v2.keys[Len(v.keys) + 1] = string_length
       /\ \A j \in 1 .. Len(v.keys) : v2.keys[j] = v.keys[j]
  BY <1>8, <1>10, AppendProperties
<1>13. SameEntries(v, v2)
  <2>1. Len(v.keys) <= Len(v2.keys)
    BY <1>8, <1>12
  <2>2. QED
    BY <1>10, <1>12, <2>1 DEF SameEntries
<1>14. Alike(values, values', Given, O)
  BY <1>5, <1>7, <1>8, <1>11, <1>13, AlikeChanged
<1>15. Len(values') = Len(values) /\ SameParents
  <2>1. \A n \in 1 .. Len(values) : values'[n].parent = values[n].parent
    BY <1>5, <1>10, <1>11 DEF Changed
  <2>2. QED
    BY <1>11, <2>1 DEF Changed, SameParents
<1>16. Unread' = 0 /\ Holder' = h /\ Given' = Given /\ Tip' = Tip
  <2>1. Unread' = 0
    BY <1>0, <1>2, <1>5, <1>6, <1>10, <1>11 DEF Unread
  <2>2. QED
    BY <1>0, <1>2, <1>5, <1>15, <2>1 DEF Holder, Tip, Given
<1>17. Branch(O, Tip)'
  <2>1. Branch(O, Tip)
    BY <1>3
  <2>2. PICK tip : tip = Tip
    OBVIOUS
  <2>3. Branch(O, tip)'
    BY <1>0, <1>15, <2>1, <2>2, BranchStays
  <2>4. QED
    BY <1>16, <2>2, <2>3 DEF Branch
<1>18. NamesFit(values', O)
  <2>1. Chained(values, O)
    BY <1>3 DEF Spans
  <2>2. O \subseteq 1 .. Len(values) /\ Empty(values, O, h)
    BY <1>7 DEF Empty
  <2>3. v2.parent = values[h].parent
    BY <1>5, <1>10
  <2>4. QED
    BY <1>3, <1>11, <2>1, <2>2, <2>3, NamesStay
<1>19. PICK T : T = WithComma(x)
  OBVIOUS
<1>20. /\ x.tokens \in Seq(Tokens) /\ x.comma \in BOOLEAN /\ T \in Seq(Tokens) /\ StringOf(string_length) \in Tokens
       /\ Mark(",") \in Tokens
  BY <1>8, <1>19, WithCommaType, MarkTypes DEF ReadsNext, LexStates
<1>21. Len(x.tokens) = e /\ e \in Nat /\ Len(T) \in Nat
  <2>1. h \in Given /\ h # Unread
    BY <1>2, <1>5, <1>7
  <2>2. Len(v.kids) \in 0 .. Len(v.kids)
    BY <1>8
  <2>3. e \in 1 .. Len(x.tokens)
    BY <1>3, <1>5, <1>8, <1>20, <2>1, <2>2, BehindIn
  <2>4. Len(x.tokens) = e
    BY <1>6 DEF Between
  <2>5. e \in Nat
    BY <2>3
  <2>a. T \in Seq(Tokens)
    BY <1>20
  <2>6. Len(T) \in Nat
    BY <2>a
  <2>7. QED
    BY <2>4, <2>5, <2>6
<1>22. /\ Longer(x.tokens, T)
       /\ IF v.kids = <<>> THEN Len(T) = e ELSE Len(T) = e + 1 /\ T[e + 1] = Mark(",")
  <2>1. x.comma <=> v.kids # <<>>
    BY <1>4, <1>6 DEF Between
  <2>2. CASE x.comma
    <3>1. T = Append(x.tokens, Mark(","))
      BY <1>19, <2>2 DEF WithComma
    <3>2. QED
      BY <1>20, <1>21, <2>1, <2>2, <3>1, LongerByOne
  <2>3. CASE ~x.comma
    <3>1. T = x.tokens
      BY <1>19, <2>3 DEF WithComma
    <3>2. QED
      BY <1>20, <1>21, <2>1, <2>3, <3>1, LongerItself
  <2>4. QED
    BY <2>2, <2>3
<1>23. /\ Longer(T, y.tokens) /\ Longer(x.tokens, y.tokens)
       /\ Len(y.tokens) = Len(T) + 1 /\ y.tokens[Len(T) + 1] = StringOf(string_length)
  <2>1. y.tokens = Append(T, StringOf(string_length))
    BY <1>1, <1>19
  <2>2. /\ Longer(T, y.tokens) /\ Len(y.tokens) = Len(T) + 1
        /\ y.tokens[Len(T) + 1] = StringOf(string_length)
    BY <1>20, <2>1, LongerByOne, ZenonT(60)
  <2>3. QED
    BY <1>22, <2>2, LongerStill
<1>24. Spans(y.tokens, values', Given, O, 0, from, to)
  <2>1. Spans(x.tokens, values, Given, O, 0, from, to)
    BY <1>2, <1>3
  <2>2. QED
    BY <1>14, <1>23, <2>1, SpansStay
<1>25. Named(y.tokens, y.comma, v2, e)'
  <2>1. "need_comma" \notin gl /\ "need_colon" \in gl
    BY <1>0, <1>4
  <2>2. Len(v2.keys) = Len(v2.kids) + 1 /\ v2.keys[Len(v2.kids) + 1] = string_length
    BY <1>6, <1>10, <1>12 DEF Between
  <2>3. CASE v.kids = <<>>
    BY <1>1, <1>10, <1>22, <1>23, <2>1, <2>2, <2>3 DEF Named
  <2>4. CASE v.kids # <<>>
    <3>1. Len(T) = e + 1 /\ T[e + 1] = Mark(",")
      BY <1>22, <2>4
    <3>0. e + 1 \in 1 .. e + 1
      BY <1>21
    <3>2. e + 1 \in 1 .. Len(T)
      BY <3>0, <3>1
    <3>3. y.tokens[e + 1] = Mark(",")
      BY <1>23, <3>1, <3>2 DEF Longer
    <3>4. QED
      BY <1>1, <1>10, <1>23, <2>1, <2>2, <2>4, <3>1, <3>3 DEF Named
  <2>5. QED
    BY <2>3, <2>4
<1>26. Ahead(y, h, from, to)'
  <2>1. Behind(v2, h, Len(v2.kids), from, to) = e
    BY <1>5, <1>10 DEF Behind
  <2>2. v2.type = "object" /\ "seek_value" \in gl
    BY <1>0, <1>6, <1>10
  <2>3. QED
    BY <1>11, <1>25, <2>1, <2>2 DEF Ahead, Containers
<1>27. Frontier(y, from, to)'
  <2>1. "string" \notin gl
    BY <1>0
  <2>2. top' = h /\ values'[top'].type \in Containers
    BY <1>0, <1>5, <1>6, <1>10, <1>11 DEF Containers
  <2>3. QED
    BY <1>2, <1>5, <1>16, <1>26, <2>1, <2>2 DEF Frontier, InString
<1>28. QED
  BY <1>1, <1>16, <1>17, <1>18, <1>24, <1>27 DEF Reading

(* Where the next value is to be, there is the next token. *)
LEMMA WithCommaIs ==
    ASSUME NEW x \in LexStates
    PROVE  /\ WithComma(x) \in Seq(Tokens) /\ Longer(x.tokens, WithComma(x))
           /\ x.tokens \in Seq(Tokens) /\ Len(x.tokens) \in Nat /\ Len(WithComma(x)) \in Nat
           /\ x.comma => /\ Len(WithComma(x)) = Len(x.tokens) + 1
                         /\ WithComma(x)[Len(x.tokens) + 1] = Mark(",")
           /\ ~x.comma => WithComma(x) = x.tokens
<1>1. x.tokens \in Seq(Tokens) /\ WithComma(x) \in Seq(Tokens) /\ Mark(",") \in Tokens
  BY WithCommaType, MarkTypes DEF LexStates
<1>2. Len(x.tokens) \in Nat /\ Len(WithComma(x)) \in Nat
  BY <1>1, LenProperties
<1>3. CASE x.comma
  <2>1. WithComma(x) = Append(x.tokens, Mark(","))
    BY <1>3 DEF WithComma
  <2>2. PICK T : T = Append(x.tokens, Mark(","))
    OBVIOUS
  <2>3. /\ Longer(x.tokens, T) /\ Len(T) = Len(x.tokens) + 1
        /\ T[Len(x.tokens) + 1] = Mark(",")
    BY <1>1, <2>2, LongerByOne
  <2>4. WithComma(x) = T
    BY <2>1, <2>2
  <2>5. QED
    BY <1>1, <1>2, <1>3, <2>3, <2>4
<1>4. CASE ~x.comma
  <2>1. WithComma(x) = x.tokens
    BY <1>4 DEF WithComma
  <2>2. QED
    BY <1>1, <1>2, <1>4, <2>1, LongerItself
<1>5. QED
  BY <1>3, <1>4

(* The text is at the place of the next entry of p, which is v: behind e. *)
Awaited(x, p, v, e, from, to) ==
    /\ p = 0 => x.tokens = <<>> /\ ~x.comma
    /\ p # 0 => /\ v \in Records /\ e = Behind(v, p, Len(v.kids), from, to)
                /\ e \in 1 .. Len(x.tokens)
                /\ IF v.type = "object" THEN Named(x.tokens, x.comma, v, e)
                   ELSE Between(x.tokens, x.comma, v, e)

(* A token that is read there is the first of the next entry. *)
LEMMA NextPlace ==
    ASSUME NEW x \in LexStates, NEW token \in Tokens, flags \cap {"need_comma", "need_colon"} = {},
           NEW vals, NEW p \in Nat, NEW from, NEW to,
           NEW v, v = vals[p], NEW e \in Nat, Awaited(x, p, v, e, from, to),
           NEW T2, T2 = Append(WithComma(x), token)
    PROVE  /\ NextOf(T2, vals, p, Len(T2), from, to) /\ Longer(x.tokens, T2) /\ T2 \in Seq(Tokens)
           /\ Len(T2) \in 1 .. Len(T2) /\ Len(T2) \in Nat /\ T2[Len(T2)] = token
<1> USE DEF Awaited
<1>1. PICK T : T = WithComma(x)
  OBVIOUS
<1>2. /\ T \in Seq(Tokens) /\ Longer(x.tokens, T)
      /\ x.tokens \in Seq(Tokens) /\ Len(x.tokens) \in Nat /\ Len(T) \in Nat
      /\ x.comma => Len(T) = Len(x.tokens) + 1 /\ T[Len(x.tokens) + 1] = Mark(",")
      /\ ~x.comma => T = x.tokens
  BY <1>1, WithCommaIs
<1>3. /\ Longer(T, T2) /\ T2 \in Seq(Tokens) /\ Len(T2) = Len(T) + 1 /\ T2[Len(T) + 1] = token
  BY <1>1, <1>2, LongerByOne
<1>4. Longer(x.tokens, T2)
  BY <1>2, <1>3, LongerStill
<1>5. Len(T2) \in Nat /\ Len(T2) \in 1 .. Len(T2)
  <2>1. Len(T2) = Len(T) + 1 /\ Len(T) \in Nat
    BY <1>2, <1>3
  <2>2. QED
    BY <2>1
<1>6. T2[Len(T2)] = token
  BY <1>3
<1>7. NextOf(T2, vals, p, Len(T2), from, to)
  <2>1. CASE p = 0
    <3>0. T = <<>>
      BY <1>2, <2>1
    <3>1. Len(T) = 0
      BY <3>0
    <3>2. Len(T2) = 1
      BY <1>3, <3>1
    <3>3. QED
      BY <2>1, <3>2 DEF NextOf
  <2>2. CASE p # 0
    <3>0. v.kids \in Seq(Nat) /\ Len(v.kids) \in Nat /\ (Len(v.kids) + 1 = 1 <=> v.kids = <<>>)
          /\ e \in 1 .. Len(x.tokens) /\ v \in Records
      <4>1. v.kids \in Seq(Nat)
        BY <2>2, RecordFields
      <4>2. Len(v.kids) \in Nat /\ (Len(v.kids) = 0 <=> v.kids = <<>>)
        BY <4>1, EmptySeq, LenProperties
      <4>3. Len(v.kids) + 1 = 1 <=> v.kids = <<>>
        BY <4>2
      <4>4. QED
        BY <2>2, <4>1, <4>2, <4>3
    <3>1. PICK j, g : j = Len(v.kids) + 1 /\ g = IF v.kids = <<>> THEN e ELSE e + 1
      OBVIOUS
    <3>2. g \in Nat /\ (g = e \/ g = e + 1)
      BY <3>1
    <3>3. CASE v.type = "object"
      <4>1. Named(x.tokens, x.comma, v, e)
        BY <2>2, <3>3
      <4>2. /\ ~x.comma /\ Len(v.keys) = Len(v.kids) + 1 /\ Len(x.tokens) = g + 2
            /\ v.kids # <<>> => x.tokens[e + 1] = Mark(",")
            /\ x.tokens[g + 1] = StringOf(v.keys[j]) /\ x.tokens[g + 2] = Mark(":")
        BY <3>1, <4>1 DEF Named
      <4>3. T = x.tokens /\ Longer(T, T2)
        BY <1>2, <1>3, <4>2
      <4>4. /\ g + 1 \in 1 .. Len(x.tokens) /\ g + 2 \in 1 .. Len(x.tokens) /\ e + 1 \in 1 .. Len(x.tokens)
            /\ Len(x.tokens) + 1 = g + 3
        <5>1. Len(x.tokens) = g + 2 /\ g \in Nat /\ e \in Nat /\ (g = e \/ g = e + 1)
          BY <3>2, <4>2
        <5>2. e + 1 \in 1 .. g + 2 /\ g + 1 \in 1 .. g + 2 /\ g + 2 \in 1 .. g + 2 /\ g + 2 + 1 = g + 3
          BY <5>1
        <5>3. QED
          BY <5>1, <5>2
      <4>5. /\ v.kids # <<>> => T2[e + 1] = Mark(",")
            /\ T2[g + 1] = StringOf(v.keys[j]) /\ T2[g + 2] = Mark(":")
        BY <4>2, <4>3, <4>4 DEF Longer
      <4>6. Len(T2) = g + 3 /\ j <= Len(v.keys)
        <5>1. Len(T2) = g + 3
          BY <1>3, <4>3, <4>4
        <5>2. j = Len(v.kids) + 1 /\ Len(v.kids) \in Nat /\ j = Len(v.keys)
          BY <3>0, <3>1, <4>2
        <5>3. j <= Len(v.keys)
          <6>1. j \in Nat
            BY <5>2
          <6>2. QED
            BY <5>2, <6>1
        <5>4. QED
          BY <5>1, <5>3
      <4>7. PutAt(T2, v, j, e, Len(T2))
        BY <3>0, <3>1, <3>3, <4>5, <4>6 DEF PutAt
      <4>8. QED
        BY <2>2, <3>1, <4>7 DEF NextOf
    <3>4. CASE v.type # "object"
      <4>1. Len(x.tokens) = e /\ (x.comma <=> v.kids # <<>>)
        BY <2>2, <3>4 DEF Between
      <4>2. /\ v.kids # <<>> => T[e + 1] = Mark(",")
            /\ Len(T) = g
        BY <1>2, <3>1, <4>1
      <4>3. /\ v.kids # <<>> => T2[e + 1] = Mark(",")
            /\ Len(T2) = g + 1
        <5>1. v.kids # <<>> => e + 1 \in 1 .. Len(T)
          <6>1. v.kids # <<>> => Len(T) = e + 1
            BY <3>1, <4>2
          <6>2. e + 1 \in 1 .. e + 1
            OBVIOUS
          <6>3. QED
            BY <6>1, <6>2
        <5>2. QED
          BY <1>3, <4>2, <5>1 DEF Longer
      <4>4. PutAt(T2, v, j, e, Len(T2))
        BY <3>0, <3>1, <3>4, <4>3 DEF PutAt
      <4>5. QED
        BY <2>2, <3>1, <4>4 DEF NextOf
    <3>5. QED
      BY <3>3, <3>4
  <2>3. QED
    BY <2>1, <2>2
<1>8. QED
  BY <1>3, <1>4, <1>5, <1>6, <1>7

(* What x says of the place of the next value. *)
LEMMA PlaceOfNext ==
    ASSUME Inv, first_pass = 0, NEW x \in LexStates, NEW O, NEW from, NEW to, Reading(x, O, from, to),
           flags \cap {"next", "done", "need_comma", "need_colon"} = {},
           Unread # 0 \/ "seek_value" \in flags, NEW p, p = Holder,
           NEW token \in Tokens, NEW T2, T2 = Append(WithComma(x), token)
    PROVE  /\ NextOf(T2, values, p, Len(T2), from, to) /\ Longer(x.tokens, T2) /\ T2 \in Seq(Tokens)
           /\ Len(T2) \in 1 .. Len(T2) /\ Len(T2) \in Nat /\ T2[Len(T2)] = token
<1>1. /\ Branch(O, Tip) /\ Frontier(x, from, to) /\ Spans(x.tokens, values, Given, O, Unread, from, to)
      /\ Chained(values, O) /\ O \subseteq Given /\ Given \subseteq 1 .. Len(values)
  BY DEF Reading, Spans
<1>2. p = 0 => x.tokens = <<>> /\ ~x.comma
  BY <1>1 DEF Frontier
<1>3. x.tokens \in Seq(Tokens) /\ values \in Seq(Records)
  BY ChainIs DEF LexStates
<1>4. ASSUME p # 0
      PROVE  p \in O /\ p # Unread /\ p \in 1 .. Len(values) /\ p \in Given
  <2>0. top # 0 /\ (first_pass = 0 /\ "done" \notin flags => Tip = top)
    BY <1>4 DEF Holder, Unread, Tip
  <2>1. CASE Unread = 0
    <3>1. p = top
      BY <2>1 DEF Holder
    <3>2. p \in O
      <4>1. Tip = p
        BY <2>0, <3>1
      <4>2. QED
        BY <1>1, <1>4, <4>1 DEF Branch
    <3>3. QED
      BY <1>1, <1>4, <2>1, <3>2
  <2>2. CASE Unread # 0
    <3>1. Unread = top /\ p = Parent(top) /\ top \in O
      BY <1>1, <2>2 DEF Holder, Unread, Spans
    <3>2. p \in O
      BY <1>1, <1>4, <3>1 DEF Chained, Parent
    <3>3. top \in 1 .. Len(values)
      BY <1>1, <3>1
    <3>4. p # top
      BY <3>1, <3>3, ParentBelow
    <3>5. QED
      BY <1>1, <3>1, <3>2, <3>4
  <2>3. QED
    BY <2>1, <2>2
<1>5. p \in Nat
  <2>1. CASE p = 0
    BY <2>1
  <2>2. CASE p # 0
    BY <1>3, <1>4, <2>2, ValueIn
  <2>3. QED
    BY <2>1, <2>2
<1>6. PICK v : v = values[p]
  OBVIOUS
<1>7. flags \cap {"need_comma", "need_colon"} = {}
  OBVIOUS
<1>8. ASSUME NEW e \in Nat, Awaited(x, p, v, e, from, to)
      PROVE  /\ NextOf(T2, values, p, Len(T2), from, to) /\ Longer(x.tokens, T2) /\ T2 \in Seq(Tokens)
             /\ Len(T2) \in 1 .. Len(T2) /\ Len(T2) \in Nat /\ T2[Len(T2)] = token
  BY <1>5, <1>6, <1>7, <1>8, NextPlace
<1>9. CASE p = 0
  <2>1. Awaited(x, p, v, 0, from, to) /\ 0 \in Nat
    BY <1>2, <1>9 DEF Awaited
  <2>2. QED
    BY <1>8, <2>1
<1>10. CASE p # 0
  <2>1. PICK e : e = Behind(v, p, Len(v.kids), from, to)
    OBVIOUS
  <2>2. v \in Records /\ Len(v.kids) \in Nat /\ Len(v.kids) \in 0 .. Len(v.kids)
    BY <1>3, <1>4, <1>6, <1>10, ValueIn
  <2>3. e \in 1 .. Len(x.tokens) /\ e \in Nat
    <3>1. e \in 1 .. Len(x.tokens)
      BY <1>1, <1>3, <1>4, <1>6, <1>10, <2>1, <2>2, BehindIn
    <3>2. QED
      BY <3>1
  <2>4. Ahead(x, p, from, to)
    BY <1>1, <1>10 DEF Frontier
  <2>5. IF v.type = "object" THEN Named(x.tokens, x.comma, v, e) ELSE Between(x.tokens, x.comma, v, e)
    BY <1>6, <2>1, <2>4 DEF Ahead
  <2>6. Awaited(x, p, v, e, from, to)
    BY <1>10, <2>1, <2>2, <2>3, <2>5 DEF Awaited
  <2>7. QED
    BY <1>8, <2>3, <2>6
<1>11. QED
  BY <1>9, <1>10

(* A string has been read. *)
LEMMA StringText ==
    ASSUME Inv, NEW k, NEW b, NEW x, NEW y, ReadsNext(k, b, x, y), k = "closestring",
           NEW O, NEW from, NEW to, Reading(x, O, from, to)
    PROVE  \E from2, to2 : Reading(y, O, from2, to2)'
<1> DEFINE fl == flags
           gl == flags'
<1>0. /\ "next" \notin fl /\ gl = (fl \ {"string"}) \cup {"next"} /\ "string" \in fl
      /\ "done" \notin fl /\ TopType = "string"
      /\ UNCHANGED <<top, root, alloc, first_pass, text>> /\ first_pass = 0
      /\ x \in LexStates /\ string_length \in Nat
      /\ values' = [values EXCEPT ![top].length = string_length]
  <2>1. UNCHANGED <<top, root, alloc>> /\ values' = [values EXCEPT ![top].length = string_length]
    BY DEF ReadsNext, Tree
  <2>2. Left(k, b, fl, gl)
    BY FlagsAre DEF ReadsNext
  <2>3. gl = (fl \ {"string"}) \cup {"next"}
    BY <2>2 DEF Left
  <2>4. "string" \in fl /\ "next" \notin fl /\ "done" \notin fl /\ TopType = "string"
    BY DEF ReadsNext, Meaning, FlagsFit
  <2>5. /\ UNCHANGED <<first_pass, text>> /\ first_pass = 0 /\ x \in LexStates /\ string_length \in Nat
    BY DEF ReadsNext
  <2>6. QED
    BY <2>1, <2>3, <2>4, <2>5
<1>1. /\ SameMode(y)' /\ y.tokens = Append(WithComma(x), StringOf(string_length)) /\ ~y.comma
  <2>1. SameMode(x)
    BY DEF Reading
  <2>2. SameMode(y)' /\ LexedBy(k, b, string_length, x, y)
    BY <2>1, LexOfSmall
  <2>3. QED
    BY <2>2 DEF LexedBy
<1>2. PICK h : h = top
  OBVIOUS
<1>3. /\ fl \cap {"next", "done"} = {} /\ Unread = h /\ h # 0 /\ Holder = Parent(h)
      /\ values[h].type = "string" /\ Tip = h
  BY <1>0, <1>2 DEF TopType, Unread, Holder, Tip
<1>4. /\ Branch(O, h) /\ NamesFit(values, O) /\ Spans(x.tokens, values, Given, O, h, from, to)
      /\ Frontier(x, from, to)
  BY <1>3 DEF Reading
<1>5. fl \cap {"next", "done", "need_comma", "need_colon"} = {}
  BY <1>0, <1>3, <1>4 DEF Frontier, InString
<1>6. /\ h \in O /\ O \subseteq Given /\ Given \subseteq 1 .. Len(values) /\ h \in 1 .. Len(values)
      /\ Empty(values, O, h) /\ Chained(values, O)
  <2>1. h \in O /\ Empty(values, O, h) /\ O \subseteq 1 .. Len(values)
    BY <1>3, <1>4, NothingInTip DEF Empty
  <2>2. O \subseteq Given /\ Given \subseteq 1 .. Len(values) /\ Chained(values, O)
    BY <1>4 DEF Spans
  <2>3. QED
    BY <2>1, <2>2
<1>7. values \in Seq(Records) /\ values[h] \in Records /\ Parent(h) \in Nat /\ Parent(h) # h
  BY <1>6, ChainIs, ParentBelow
<1>8. PICK v2 : v2 = [values[h] EXCEPT !.length = string_length]
  OBVIOUS
<1>9. /\ v2 \in Records /\ v2.type = "string" /\ v2.parent = Parent(h) /\ v2.kids = values[h].kids
      /\ v2.keys = values[h].keys /\ v2.length = string_length
  BY <1>0, <1>3, <1>7, <1>8 DEF Records, Parent
<1>10. Changed(values', values, h, v2) /\ values' \in Seq(Records) /\ values'[h] = v2
  <2>1. values' = [values EXCEPT ![h] = v2]
    BY <1>0, <1>2, <1>8
  <2>2. Changed(values', values, h, v2) /\ values' \in Seq(Records)
    BY <1>6, <1>7, <1>9, <2>1, ExceptIs
  <2>3. QED
    BY <1>6, <2>2 DEF Changed
<1>11. Alike(values, values', Given, O)
  <2>1. SameEntries(values[h], v2)
    <3>1. Len(values[h].keys) \in Nat
      BY <1>6, <1>7, ValueIn
    <3>2. QED
      BY <1>3, <1>9, <3>1 DEF SameEntries, Parent
  <2>2. QED
    BY <1>6, <1>7, <1>10, <2>1, AlikeChanged
<1>12. Len(values') = Len(values) /\ SameParents
  <2>1. \A n \in 1 .. Len(values) : values'[n].parent = values[n].parent
    BY <1>9, <1>10 DEF Changed, Parent
  <2>2. QED
    BY <1>10, <2>1 DEF Changed, SameParents
<1>13. Unread' = 0 /\ Given' = Given /\ Tip' = h
  <2>1. "next" \in gl /\ "done" \notin gl
    BY <1>0
  <2>2. Unread' = 0
    BY <2>1 DEF Unread
  <2>3. QED
    BY <1>0, <1>2, <1>12, <2>1, <2>2 DEF Tip, Given
<1>14. Branch(O, Tip)'
  <2>1. Branch(O, h)'
    BY <1>0, <1>4, <1>12, BranchStays
  <2>2. QED
    BY <1>13, <2>1 DEF Branch
<1>15. NamesFit(values', O)
  <2>1. v2.parent = values[h].parent /\ O \subseteq 1 .. Len(values)
    BY <1>6, <1>9 DEF Parent
  <2>2. QED
    BY <1>4, <1>6, <1>10, <2>1, NamesStay
<1>16. PICK T2, p, token : T2 = y.tokens /\ p = Parent(h) /\ token = StringOf(string_length)
  OBVIOUS
<1>17. /\ NextOf(T2, values, p, Len(T2), from, to) /\ Longer(x.tokens, T2) /\ T2 \in Seq(Tokens)
       /\ Len(T2) \in 1 .. Len(T2) /\ Len(T2) \in Nat /\ T2[Len(T2)] = token
  <2>1. token \in Tokens /\ T2 = Append(WithComma(x), token) /\ p = Holder /\ Unread # 0
    BY <1>0, <1>1, <1>3, <1>16, MarkTypes
  <2>2. QED
    BY <1>0, <1>5, <2>1, PlaceOfNext
<1>18. Spans(T2, values', Given, O, h, from, to)
  BY <1>4, <1>11, <1>17, SpansStay
<1>19. NextOf(T2, values', values'[h].parent, Len(T2), from, to)
  <2>1. values'[h].parent = p /\ (p # 0 => values'[p] = values[p])
    <3>1. p # 0 => p \in 1 .. Len(values) /\ p # h
      BY <1>6, <1>7, <1>16 DEF Chained, Parent
    <3>2. QED
      BY <1>9, <1>10, <1>16, <3>1 DEF Changed
  <2>2. QED
    BY <1>17, <2>1 DEF NextOf
<1>20. PICK from2, to2 : from2 = [from EXCEPT ![h] = Len(T2)] /\ to2 = [to EXCEPT ![h] = Len(T2)]
  OBVIOUS
<1>21. Spans(T2, values', Given, O, 0, from2, to2)
  <2>1. values'[h].type \notin Containers
    BY <1>9, <1>10 DEF Containers
  <2>2. values' \in Seq(Records)
    BY <1>10
  <2>3. QED
    BY <1>3, <1>17, <1>18, <1>19, <1>20, <2>1, <2>2, SpansPlaced
<1>22. from2[h] = Len(T2) /\ to2[h] = Len(T2)
  <2>1. from \in [1 .. Len(values) -> Nat] /\ to \in [1 .. Len(values) -> Nat]
    BY <1>4 DEF Spans
  <2>2. QED
    BY <1>6, <1>20, <2>1
<1>23. WholeAt(T2, values', h, from2, to2)
  BY <1>9, <1>10, <1>16, <1>17, <1>22 DEF WholeAt, Single, Containers
<1>24. Frontier(y, from2, to2)'
  <2>1. "next" \in gl /\ "done" \notin gl /\ "need_colon" \notin gl /\ top' = h
    BY <1>0, <1>2, <1>5
  <2>2. QED
    BY <1>1, <1>16, <1>22, <1>23, <2>1 DEF Frontier
<1>25. Reading(y, O, from2, to2)'
  BY <1>1, <1>13, <1>14, <1>15, <1>16, <1>21, <1>24 DEF Reading
<1>26. QED
  BY <1>25

(* A type is the one of the character that starts the value. *)
TypeFits(b, type) == type = TypeOfStart(b) \/ (TypeOfStart(b) = "integer" /\ type = "double")

(* Where the text has a value, pass 0 takes one with nothing in it. *)
TakenFrom(vals, a, b, vals2) ==
    /\ vals2 \in Seq(Records) /\ Len(vals2) = Len(vals) /\ a \in 1 .. Len(vals)
    /\ \A n \in 1 .. Len(vals) : n # a => vals2[n] = vals[n]
    /\ vals2[a].parent = vals[a].parent /\ vals2[a].kids = <<>> /\ vals2[a].keys = <<>>
    /\ TypeFits(b, vals2[a].type)

(* What NewValue does in pass 0, where the text has a value: it takes one  *)
(* that fits the character.                                                *)
LEMMA TakenIs ==
    ASSUME PassesInv, pc = "scan", first_pass = 0, AtValue, NEW b \in ValueStarts, Scanning(b),
           NEW type, NewValue(type), NEW a, a = alloc
    PROVE  TakenFrom(values, a, b, values') /\ TakeValue /\ FlagsFit(flags, TopType)
<1>0. Inv /\ PassZero /\ TypeOK
  BY DEF PassesInv, Inv
<1>1. PICK G, e, s : Final(G, e) /\ s \in G /\ Follows(s, e)
  BY <1>0 DEF PassZero
<1>2. /\ e \in Snapshots /\ Fits(e) /\ text[ptr] = b
      /\ Len(s.vals) \in Nat /\ Len(e.vals) \in Nat
  BY <1>0, <1>1, Following
<1>3. a \in 1 .. Len(values) /\ a # 0 /\ a \notin Given
  BY AllocIs
<1>4. TypeFits(b, values[a].type)
  BY <1>0, <1>2, FollowingAgrees DEF TypeFits
<1>5. values[a].keys = <<>> /\ values[a].kids = <<>>
  <2>1. Len(values) = Len(e.vals) /\ alloc = IF Len(s.vals) < Len(e.vals) THEN Len(s.vals) + 1 ELSE 0
    BY <1>1 DEF Follows
  <2>2. a \in 1 .. Len(e.vals) /\ a > Len(s.vals)
    BY <1>2, <1>3, <2>1
  <2>3. values[a] = e.vals[a]
    BY <1>1, <2>2 DEF Follows
  <2>4. e.vals[a].keys = <<>> /\ e.vals[a].kids = <<>>
    BY <1>2, <2>2, LeftByPassOne
  <2>5. QED
    BY <2>3, <2>4
<1>6. TakeValue /\ (IF HasData(values[a]) THEN values' = [values EXCEPT ![a] = WithData(values[a])]
                    ELSE values' = values)
  BY DEF NewValue, AppendValue
<1>7. values \in Seq(Records) /\ values[a] \in Records
  BY <1>0, <1>3, ChainIs, ParentBelow
<1>10. FlagsFit(flags, TopType)
  BY <1>0, <1>1, PassZeroMode
<1>11. SUFFICES TakenFrom(values, a, b, values')
  BY <1>6, <1>10
<1>8. CASE ~HasData(values[a])
  <2>1. values' = values
    BY <1>6, <1>8
  <2>2. QED
    BY <1>3, <1>4, <1>5, <1>7, <2>1 DEF TakenFrom
<1>9. CASE HasData(values[a])
  <2>1. PICK w, v : w = values[a] /\ v = WithData(w)
    OBVIOUS
  <2>2. v \in Records /\ v.parent = w.parent /\ v.kids = w.kids
    BY <1>7, <2>1, WithDataType
  <2>3. v.type = w.type /\ v.keys = w.keys
    <3>1. w.length + 1 \in Nat /\ w \in Records
      BY <1>7, <2>1, RecordFields
    <3>2. CASE w.type = "string"
      <4>1. v = [w EXCEPT !.room = w.length + 1, !.length = 0]
        BY <2>1, <3>2 DEF WithData
      <4>2. QED
        BY <3>1, <4>1 DEF Records
    <3>3. CASE w.type # "string"
      <4>1. v = [w EXCEPT !.size = w.length, !.room = w.names, !.length = 0, !.names = 0]
        BY <2>1, <3>3 DEF WithData
      <4>2. QED
        BY <3>1, <4>1 DEF Records
    <3>4. QED
      BY <3>2, <3>3
  <2>4. values' = [values EXCEPT ![a] = v]
    BY <1>6, <1>9, <2>1
  <2>5. Changed(values', values, a, v) /\ values' \in Seq(Records)
    BY <1>3, <1>7, <2>2, <2>4, ExceptIs
  <2>6. values'[a] = v /\ Len(values') = Len(values)
        /\ \A n \in 1 .. Len(values) : n # a => values'[n] = values[n]
    BY <1>3, <2>5 DEF Changed
  <2>7. /\ v.parent = values[a].parent /\ v.kids = <<>> /\ v.keys = <<>>
        /\ TypeFits(b, v.type)
    BY <1>4, <1>5, <2>1, <2>2, <2>3
  <2>8. QED
    BY <1>3, <2>5, <2>6, <2>7 DEF TakenFrom
<1>12. QED
  BY <1>8, <1>9

(* A value is taken: its text has not been read. *)
JustTaken(x, a, b, O, from, to) ==
    /\ TakenFrom(values, a, b, values') /\ values[a].parent = top
    /\ a \notin Given /\ Given' = Given \cup {a} /\ top' = a /\ Tip' = a /\ a # 0
    /\ Unread = 0 /\ Holder = top /\ top \in O \cup {0} /\ O \subseteq Given
    /\ flags \cap {"next", "done", "need_comma", "need_colon"} = {} /\ "seek_value" \in flags
    /\ Branch(O \cup {a}, Tip)' /\ NamesFit(values', O \cup {a})
    /\ Spans(x.tokens, values', Given', O \cup {a}, a, from, to)

(* Nothing of the text has changed, and one more value is not complete. *)
LEMMA TakenText ==
    ASSUME TreeInv, pc = "scan", first_pass = 0, AtValue, NEW b \in ValueStarts, Scanning(b),
           NEW type, NewValue(type), first_pass' = 0, "done" \notin flags', NEW a, a = alloc,
           NEW x \in LexStates, NEW O, NEW from, NEW to, Reading(x, O, from, to)
    PROVE  JustTaken(x, a, b, O, from, to)
<1>0. PassesInv /\ Inv
  BY DEF TreeInv, PassesInv
<1>1. TakenFrom(values, a, b, values') /\ TakeValue /\ FlagsFit(flags, TopType)
  BY <1>0, TakenIs
<1>2. /\ a \in 1 .. Len(values) /\ a \in Nat /\ a # 0 /\ Len(values) \in Nat
      /\ Parent(a) = top /\ a \notin Given /\ Tip = top
  BY <1>0, AllocIs
<1>3. PICK S : Growing(S) /\ \A n \in 1 .. Len(values) : Held(n)
  BY DEF TreeInv, TreeOf
<1>4. SameTree
  BY <1>0, <1>3, BlockIsHeld
<1>5. root' # 0 /\ top' = a /\ Given' = Given \cup {a}
  BY <1>0, <1>1, <1>3, <1>4, TakenGrows
<1>6. /\ flags \cap {"next", "string", "done", "need_comma", "need_colon"} = {} /\ "seek_value" \in flags
  BY DEF AtValue, Seeking, InJson, InString, IsDone, Scanning
<1>7. Unread = 0 /\ Holder = top
  <2>1. TopType # "string"
    BY <1>1, <1>6 DEF FlagsFit
  <2>2. Unread = 0
    BY <2>1 DEF Unread, TopType
  <2>3. QED
    BY <2>2 DEF Holder
<1>8. /\ Branch(O, top) /\ NamesFit(values, O) /\ Frontier(x, from, to)
      /\ Spans(x.tokens, values, Given, O, 0, from, to)
  BY <1>2, <1>7 DEF Reading
<1>9. /\ Chained(values, O) /\ O \subseteq Given /\ Given \subseteq 1 .. Len(values)
  BY <1>8 DEF Spans
<1>10. top \in O \cup {0} /\ \A n \in O : values[n].parent # top
  <2>1. CASE top = 0
    <3>1. O = {}
      BY <1>0, <1>8, <2>1, NoBranch
    <3>2. QED
      BY <2>1, <3>1
  <2>2. CASE top # 0
    BY <1>0, <1>8, <2>2, NothingInTip
  <2>3. QED
    BY <2>1, <2>2
<1>11. Tip' = a
  BY <1>5 DEF Tip
<1>12. Branch(O \cup {a}, Tip)'
  <2>0. SameParents /\ (root = 0 <=> Given = {}) /\ top \in Given \cup {0}
    BY <1>0, <1>4, PassZeroChain DEF SameTree, SameParents
  <2>1. root' = IF root = 0 THEN a ELSE root
    BY <1>1 DEF TakeValue
  <2>2. PICK P : P = O \cup {a}
    OBVIOUS
  <2>3. CASE top = 0
    <3>1. root = 0 /\ O = {}
      <4>1. O = {}
        BY <1>0, <1>8, <2>3, NoBranch
      <4>2. root = 0
        BY <1>3, <2>3 DEF Growing
      <4>3. QED
        BY <4>1, <4>2
    <3>2. root' = a /\ P = {a} /\ values'[a].parent = 0
      BY <1>2, <1>4, <2>1, <2>2, <2>3, <3>1 DEF SameTree, Parent
    <3>3. Branch(P, Tip)'
      BY <1>2, <1>4, <1>11, <3>2 DEF Branch, Parent, SameTree
    <3>4. QED
      BY <2>2, <3>3
  <2>4. CASE top # 0
    <3>1. Branch(P, a)
      BY <1>0, <1>2, <1>8, <2>2, <2>4, BranchDown
    <3>2. root' = root
      <4>1. Given # {}
        BY <2>0, <2>4
      <4>2. QED
        BY <2>0, <2>1, <4>1
    <3>3. Branch(P, a)'
      BY <2>0, <3>1, <3>2, BranchStays
    <3>4. Branch(P, Tip)'
      BY <1>11, <3>3
    <3>5. QED
      BY <2>2, <3>4
  <2>5. QED
    BY <2>3, <2>4
<1>13. /\ values' \in Seq(Records) /\ Len(values') = Len(values)
       /\ \A n \in 1 .. Len(values) : n # a => values'[n] = values[n]
       /\ values'[a].parent = top /\ values'[a].kids = <<>> /\ values[a].parent = top
  BY <1>1, <1>2 DEF TakenFrom, Parent
<1>14. \A n \in Given : n # a /\ n # 0 /\ values'[n] = values[n]
  <2>1. \A n \in Given : n # a /\ n \in 1 .. Len(values)
    BY <1>2, <1>9
  <2>2. \A n \in 1 .. Len(values) : n # 0
    BY <1>2
  <2>3. QED
    BY <1>13, <2>1, <2>2
<1>15. NamesFit(values', O \cup {a})
  <2>1. ASSUME NEW n \in O \cup {a}, NEW p, p = values'[n].parent, p # 0, values'[p].type = "object"
        PROVE  Len(values'[p].keys) = Len(values'[p].kids) + 1
    <3>1. p \in O
      <4>1. CASE n = a
        BY <1>10, <1>13, <2>1, <4>1
      <4>2. CASE n # a
        <5>1. n \in O /\ p = values[n].parent
          BY <1>9, <1>14, <2>1, <4>2
        <5>2. QED
          BY <1>9, <2>1, <5>1 DEF Chained
      <4>3. QED
        BY <4>1, <4>2
    <3>2. values'[p] = values[p]
      BY <1>9, <1>14, <3>1
    <3>3. Len(values[p].keys) = Len(values[p].kids) + 1
      <4>1. CASE n = a
        <5>1. p = top /\ top # 0 /\ values[top].type = "object"
          BY <1>13, <2>1, <3>2, <4>1
        <5>2. Ahead(x, top, from, to)
          BY <1>6, <1>7, <1>8, <5>1 DEF Frontier
        <5>3. Len(values[top].keys) = Len(values[top].kids) + 1
          BY <1>6, <5>1, <5>2 DEF Ahead, Named
        <5>4. QED
          BY <5>1, <5>3
      <4>2. CASE n # a
        <5>1. n \in O /\ p = values[n].parent
          BY <1>9, <1>14, <2>1, <4>2
        <5>2. QED
          BY <1>8, <2>1, <3>2, <5>1 DEF NamesFit
      <4>3. QED
        BY <4>1, <4>2
    <3>4. QED
      BY <3>2, <3>3
  <2>2. QED
    BY <2>1 DEF NamesFit
<1>16. Spans(x.tokens, values', Given \cup {a}, O \cup {a}, a, from, to)
  <2>1. Alike(values, values', Given, O)
    <3>1. values \in Seq(Records)
      BY <1>0, ChainIs
    <3>2. \A n \in Given : SameEntries(values[n], values'[n])
      BY <1>14 DEF SameEntries
    <3>3. QED
      BY <1>13, <1>14, <3>1, <3>2 DEF Alike
  <2>2. x.tokens \in Seq(Tokens)
    BY DEF LexStates
  <2>3. Spans(x.tokens, values', Given, O, 0, from, to)
    BY <1>8, <2>1, <2>2, LongerItself, SpansStay
  <2>4. /\ a \in 1 .. Len(values') /\ values'[a].parent \in O \cup {0}
        /\ \A n \in O : values'[n].parent # values'[a].parent
    <3>1. \A n \in O : values'[n].parent # top
      BY <1>9, <1>10, <1>14
    <3>2. QED
      BY <1>2, <1>10, <1>13, <3>1
  <2>5. QED
    BY <1>2, <1>13, <2>2, <2>3, <2>4, SpansTaken
<1>17. QED
  BY <1>1, <1>2, <1>5, <1>6, <1>7, <1>9, <1>10, <1>11, <1>12, <1>13, <1>15, <1>16 DEF JustTaken

(* Its first token has been read: it has its place. *)
Placed(T, token, vals, G, O, a) ==
    /\ T \in Seq(Tokens) /\ Len(T) \in 1 .. Len(T) /\ T[Len(T)] = token
    /\ \E from, to : from[a] = Len(T) /\ to[a] = Len(T) /\ Spans(T, vals, G, O, 0, from, to)

(* Its first token is the next entry of the value that it is in. *)
LEMMA PlacedText ==
    ASSUME Inv, first_pass = 0, NEW a, NEW b, NEW x \in LexStates, NEW O, NEW from, NEW to,
           Reading(x, O, from, to), JustTaken(x, a, b, O, from, to),
           NEW token \in Tokens, values'[a].type \in Containers => token = Opening(values'[a]),
           NEW T2, T2 = Append(WithComma(x), token)
    PROVE  Placed(T2, token, values', Given', O \cup {a}, a)
<1>1. /\ Unread = 0 /\ Holder = top /\ top \in O \cup {0} /\ O \subseteq Given /\ a # 0 /\ a \notin Given
      /\ flags \cap {"next", "done", "need_comma", "need_colon"} = {} /\ "seek_value" \in flags
      /\ values[a].parent = top /\ TakenFrom(values, a, b, values')
      /\ Spans(x.tokens, values', Given', O \cup {a}, a, from, to)
  BY DEF JustTaken
<1>2. PICK p, vals, G, P : p = top /\ vals = values' /\ G = Given' /\ P = O \cup {a}
  OBVIOUS
<1>3. /\ NextOf(T2, values, p, Len(T2), from, to) /\ Longer(x.tokens, T2) /\ T2 \in Seq(Tokens)
      /\ Len(T2) \in 1 .. Len(T2) /\ Len(T2) \in Nat /\ T2[Len(T2)] = token
  <2>1. p = Holder
    BY <1>1, <1>2
  <2>2. QED
    BY <1>1, <2>1, PlaceOfNext, ZenonT(60)
<1>4. /\ vals \in Seq(Records) /\ vals[a].parent = p /\ a \in 1 .. Len(vals)
      /\ \A n \in 1 .. Len(values) : n # a => vals[n] = values[n]
  BY <1>1, <1>2 DEF TakenFrom
<1>5. Spans(x.tokens, vals, G, P, a, from, to)
  BY <1>1, <1>2
<1>6. /\ from \in [1 .. Len(vals) -> Nat] /\ to \in [1 .. Len(vals) -> Nat] /\ P \subseteq G
      /\ G \subseteq 1 .. Len(vals)
  BY <1>5 DEF Spans
<1>7. NextOf(T2, vals, p, Len(T2), from, to)
  <2>1. CASE p = 0
    BY <1>3, <2>1 DEF NextOf
  <2>2. CASE p # 0
    <3>1. vals[p] = values[p]
      <4>1. Given \subseteq 1 .. Len(values)
        <5>1. Spans(x.tokens, values, Given, O, Unread, from, to)
          BY DEF Reading
        <5>2. QED
          BY <5>1 DEF Spans
      <4>2. p \in 1 .. Len(values) /\ p # a
        BY <1>1, <1>2, <2>2, <4>1
      <4>3. QED
        BY <1>4, <4>2
    <3>2. QED
      BY <1>3, <2>2, <3>1 DEF NextOf
  <2>3. QED
    BY <2>1, <2>2
<1>8. Spans(T2, vals, G, P, a, from, to)
  <2>1. Alike(vals, vals, G, P)
    BY <1>4, <1>6, AlikeItself
  <2>2. QED
    BY <1>3, <1>5, <2>1, SpansStay
<1>9. PICK f, from2, to2 : /\ f = Len(T2) /\ from2 = [from EXCEPT ![a] = f] /\ to2 = [to EXCEPT ![a] = f]
  OBVIOUS
<1>10. from2[a] = f /\ to2[a] = f
  BY <1>4, <1>6, <1>9
<1>11. f \in 1 .. Len(T2) /\ NextOf(T2, vals, vals[a].parent, f, from, to)
  BY <1>3, <1>4, <1>7, <1>9
<1>12. vals[a].type \in Containers => T2[f] = Opening(vals[a])
  BY <1>2, <1>3, <1>9
<1>13. Spans(T2, vals, G, P, 0, from2, to2)
  BY <1>1, <1>3, <1>4, <1>8, <1>9, <1>11, <1>12, SpansPlaced
<1>14. Placed(T2, token, vals, G, P, a)
  BY <1>3, <1>9, <1>10, <1>13 DEF Placed
<1>15. QED
  BY <1>2, <1>14

(* A value of one token is complete at once. *)
LEMMA SingleText ==
    ASSUME Inv, first_pass = 0, first_pass' = 0, NEW a, NEW b, NEW x \in LexStates, NEW O, NEW from, NEW to,
           Reading(x, O, from, to), JustTaken(x, a, b, O, from, to),
           values'[a].type \notin Containers, NEW token \in Tokens, token = Single(values'[a]),
           NEW y, y.tokens = Append(WithComma(x), token), ~y.comma, SameMode(y)',
           "next" \in flags', flags' \cap {"done", "need_colon"} = {}
    PROVE  \E P, from2, to2 : Reading(y, P, from2, to2)'
<1>1. PICK T2 : T2 = y.tokens
  OBVIOUS
<1>2. T2 = Append(WithComma(x), token)
  BY <1>1
<1>3. Placed(T2, token, values', Given', O \cup {a}, a)
  BY <1>2, PlacedText
<1>4. PICK from2, to2 : /\ from2[a] = Len(T2) /\ to2[a] = Len(T2)
                        /\ Spans(T2, values', Given', O \cup {a}, 0, from2, to2)
  BY <1>3 DEF Placed
<1>5. /\ top' = a /\ Tip' = a /\ a # 0 /\ Branch(O \cup {a}, Tip)' /\ NamesFit(values', O \cup {a})
  BY DEF JustTaken
<1>6. Unread' = 0
  BY DEF Unread
<1>7. WholeAt(T2, values', a, from2, to2)
  BY <1>3, <1>4 DEF WholeAt, Placed
<1>8. Frontier(y, from2, to2)'
  BY <1>1, <1>4, <1>5, <1>7 DEF Frontier
<1>9. PICK P : P = O \cup {a}
  OBVIOUS
<1>10. Branch(P, Tip)' /\ NamesFit(values', P) /\ Spans(T2, values', Given', P, 0, from2, to2)
  BY <1>4, <1>5, <1>9
<1>11. Reading(y, P, from2, to2)'
  BY <1>1, <1>6, <1>8, <1>10 DEF Reading
<1>12. QED
  BY <1>11

(* An array or object has begun. *)
LEMMA ContainerText ==
    ASSUME Inv, first_pass = 0, first_pass' = 0, NEW a, NEW b, NEW x \in LexStates, NEW O, NEW from, NEW to,
           Reading(x, O, from, to), JustTaken(x, a, b, O, from, to),
           values'[a].type \in Containers, NEW token \in Tokens, token = Opening(values'[a]),
           NEW y, y.tokens = Append(WithComma(x), token), ~y.comma, SameMode(y)',
           flags' \cap {"next", "done", "need_comma", "need_colon"} = {},
           values'[a].type = "object" => "seek_value" \notin flags'
    PROVE  \E P, from2, to2 : Reading(y, P, from2, to2)'
<1>1. PICK T2 : T2 = y.tokens
  OBVIOUS
<1>2. T2 = Append(WithComma(x), token)
  BY <1>1
<1>3. Placed(T2, token, values', Given', O \cup {a}, a)
  BY <1>2, PlacedText
<1>4. PICK from2, to2 : /\ from2[a] = Len(T2) /\ to2[a] = Len(T2)
                        /\ Spans(T2, values', Given', O \cup {a}, 0, from2, to2)
  BY <1>3 DEF Placed
<1>5. /\ top' = a /\ Tip' = a /\ a # 0 /\ Branch(O \cup {a}, Tip)' /\ NamesFit(values', O \cup {a})
      /\ TakenFrom(values, a, b, values')
  BY DEF JustTaken
<1>6. Unread' = 0 /\ Holder' = a
  <2>1. values'[a].type # "string"
    BY DEF Containers
  <2>2. Unread' = 0
    BY <1>5, <2>1 DEF Unread
  <2>3. QED
    BY <1>5, <2>2 DEF Holder
<1>7. PICK v, e : v = values'[a] /\ e = Behind(v, a, Len(v.kids), from2, to2)
  OBVIOUS
<1>8. v.kids = <<>> /\ v.keys = <<>> /\ e = Len(T2) /\ Len(v.keys) = Len(v.kids)
  <2>1. v.kids = <<>> /\ v.keys = <<>>
    BY <1>5, <1>7 DEF TakenFrom
  <2>2. Len(v.kids) = 0
    BY <2>1
  <2>3. QED
    BY <1>4, <1>7, <2>1, <2>2 DEF Behind
<1>9. Between(T2, y.comma, v, e)'
  BY <1>8 DEF Between
<1>10. Ahead(y, a, from2, to2)'
  BY <1>1, <1>6, <1>7, <1>9 DEF Ahead
<1>11. Frontier(y, from2, to2)'
  BY <1>5, <1>6, <1>10 DEF Frontier, InString
<1>12. PICK P : P = O \cup {a}
  OBVIOUS
<1>13. Branch(P, Tip)' /\ NamesFit(values', P) /\ Spans(T2, values', Given', P, 0, from2, to2)
  BY <1>4, <1>5, <1>12
<1>14. Reading(y, P, from2, to2)'
  BY <1>1, <1>6, <1>11, <1>13 DEF Reading
<1>15. QED
  BY <1>14

(* A string has begun: nothing of it has been read. *)
LEMMA QuoteText ==
    ASSUME Inv, first_pass = 0, first_pass' = 0, NEW a, NEW b, NEW x \in LexStates, NEW O, NEW from, NEW to,
           Reading(x, O, from, to), JustTaken(x, a, b, O, from, to),
           values'[a].type = "string", NEW y, y.tokens = x.tokens, y.comma = x.comma, SameMode(y)',
           flags' = (flags \ {"seek_value"}) \cup {"string"}
    PROVE  \E P, from2, to2 : Reading(y, P, from2, to2)'
<1>1. PICK h : h = top
  OBVIOUS
<1>2. /\ top' = a /\ Tip' = a /\ a # 0 /\ Branch(O \cup {a}, Tip)' /\ NamesFit(values', O \cup {a})
      /\ TakenFrom(values, a, b, values') /\ values[a].parent = h
      /\ Unread = 0 /\ Holder = h /\ h \in O \cup {0} /\ O \subseteq Given /\ a \notin Given
      /\ flags \cap {"next", "done", "need_comma", "need_colon"} = {} /\ "seek_value" \in flags
      /\ Spans(x.tokens, values', Given', O \cup {a}, a, from, to)
  BY <1>1 DEF JustTaken
<1>3. flags' \cap {"next", "done", "need_comma", "need_colon"} = {}
  BY <1>2
<1>4. Unread' = a /\ Holder' = h
  <2>1. Unread' = a
    BY <1>2, <1>3 DEF Unread
  <2>2. values'[a].parent = h
    BY <1>2 DEF TakenFrom
  <2>3. QED
    BY <1>2, <2>1, <2>2 DEF Holder, Parent
<1>5. Frontier(x, from, to) /\ Given \subseteq 1 .. Len(values)
  <2>1. Frontier(x, from, to) /\ Spans(x.tokens, values, Given, O, 0, from, to)
    BY <1>2 DEF Reading
  <2>2. QED
    BY <2>1 DEF Spans
<1>6. h = 0 => y.tokens = <<>> /\ ~y.comma
  BY <1>2, <1>5 DEF Frontier
<1>7. ASSUME h # 0
      PROVE  Ahead(y, h, from, to)'
  <2>1. Ahead(x, h, from, to)
    BY <1>2, <1>5, <1>7 DEF Frontier
  <2>2. values'[h] = values[h]
    <3>1. h \in 1 .. Len(values) /\ h # a
      BY <1>2, <1>5, <1>7
    <3>2. QED
      BY <1>2, <3>1 DEF TakenFrom
  <2>3. PICK v, e : v = values[h] /\ e = Behind(v, h, Len(v.kids), from, to)
    OBVIOUS
  <2>4. /\ v.type \in Containers
        /\ IF v.type = "object" THEN Named(x.tokens, x.comma, v, e) ELSE Between(x.tokens, x.comma, v, e)
    BY <1>2, <2>1, <2>3 DEF Ahead
  <2>5. Named(x.tokens, x.comma, v, e) => Named(y.tokens, y.comma, v, e)'
    BY <1>2, <1>3 DEF Named
  <2>6. Between(x.tokens, x.comma, v, e) => Between(y.tokens, y.comma, v, e)'
    BY <1>2, <1>3 DEF Between
  <2>7. QED
    BY <1>2, <1>4, <2>2, <2>3, <2>4, <2>5, <2>6 DEF Ahead
<1>8. Frontier(y, from, to)'
  BY <1>2, <1>3, <1>4, <1>6, <1>7 DEF Frontier, InString
<1>9. PICK P : P = O \cup {a}
  OBVIOUS
<1>10. Branch(P, Tip)' /\ NamesFit(values', P) /\ Spans(y.tokens, values', Given', P, a, from, to)
  BY <1>2, <1>9
<1>11. Reading(y, P, from, to)'
  BY <1>4, <1>8, <1>10 DEF Reading
<1>12. QED
  BY <1>11

(* What the character that starts a value leads to. *)
Opens(b, v, fl, gl) ==
    \/ b = Quote /\ v.type = "string" /\ gl = (fl \ {"seek_value"}) \cup {"string"}
    \/ b # Quote /\ v.type = "literal" /\ Mark(b) = Single(v) /\ gl = (fl \ {"seek_value"}) \cup {"next"}
    \/ /\ b # Quote /\ v.type \in Containers /\ Mark(b) = Opening(v)
       /\ gl \in {fl, fl \ {"seek_value"}} /\ (v.type = "object" => "seek_value" \notin gl)

(* What Left and TypeFits say of it, character by character. *)
LEMMA OpensIs ==
    ASSUME NEW b \in {"{", "[", Quote, Literal}, NEW v, TypeFits(b, v.type), NEW fl, NEW gl,
           Left("open", b, fl, gl)
    PROVE  Opens(b, v, fl, gl)
<1>1. CASE b = "{"
  <2>1. gl = fl \ {"seek_value"}
    BY <1>1 DEF Left
  <2>2. TypeOfStart(b) = "object"
    BY <1>1 DEF TypeOfStart, Quote, Literal
  <2>3. v.type = "object"
    BY <2>2 DEF TypeFits
  <2>4. Mark(b) = Opening(v)
    BY <1>1, <2>3 DEF Opening
  <2>5. b # Quote
    BY <1>1 DEF Quote
  <2>6. QED
    BY <2>1, <2>3, <2>4, <2>5 DEF Opens, Containers
<1>2. CASE b = "["
  <2>1. gl = fl
    BY <1>2 DEF Left
  <2>2. TypeOfStart(b) = "array"
    BY <1>2 DEF TypeOfStart, Quote, Literal
  <2>3. v.type = "array"
    BY <2>2 DEF TypeFits
  <2>4. Mark(b) = Opening(v)
    BY <1>2, <2>3 DEF Opening
  <2>5. b # Quote
    BY <1>2 DEF Quote
  <2>6. QED
    BY <2>1, <2>3, <2>4, <2>5 DEF Opens, Containers
<1>3. CASE b = Quote
  <2>1. gl = (fl \ {"seek_value"}) \cup {"string"}
    BY <1>3 DEF Left
  <2>2. TypeOfStart(b) = "string"
    BY <1>3 DEF TypeOfStart, Quote, Literal
  <2>3. v.type = "string"
    BY <2>2 DEF TypeFits
  <2>4. QED
    BY <1>3, <2>1, <2>3 DEF Opens
<1>4. CASE b = Literal
  <2>1. gl = (fl \ {"seek_value"}) \cup {"next"}
    BY <1>4 DEF Left
  <2>2. TypeOfStart(b) = "literal" /\ b # Quote
    BY <1>4 DEF TypeOfStart, Quote, Literal
  <2>3. v.type = "literal"
    BY <2>2 DEF TypeFits
  <2>4. Mark(b) = Single(v)
    BY <1>4, <2>3 DEF Single
  <2>5. QED
    BY <2>1, <2>2, <2>3, <2>4 DEF Opens
<1>5. QED
  BY <1>1, <1>2, <1>3, <1>4

(* The scanner is where a value starts. *)
LEMMA OpenAt ==
    ASSUME NEW k, NEW b, NEW x, NEW y, ReadsNext(k, b, x, y), k = "open"
    PROVE  /\ AtValue /\ b \in ValueStarts /\ b \in {"{", "[", Quote, Literal} /\ Scanning(b)
           /\ NewValue(TypeOfStart(b)) /\ first_pass' = 0 /\ Left("open", b, flags, flags')
<1>1. /\ "next" \notin flags /\ flags \cap {"string", "line_comment", "block_comment", "done"} = {}
      /\ "seek_value" \in flags /\ flags \cap {"need_comma", "need_colon"} = {}
  BY DEF ReadsNext, Meaning
<1>2. AtValue
  BY <1>1 DEF AtValue, Seeking, InJson, InString, InLineComment, InBlockComment, IsDone
<1>3. b \in {"{", "[", Quote, Literal}
  BY DEF ReadsNext, Meaning
<1>4. b \in ValueStarts
  BY <1>3 DEF ValueStarts
<1>5. Scanning(b)
  <2>1. pc = "scan" /\ text' = text /\ ptr \in 1 .. Len(text) /\ b = text[ptr] /\ text \in Seq(Chars)
    BY DEF ReadsNext
  <2>2. ptr <= Len(text)
    BY <2>1
  <2>3. QED
    BY <1>1, <2>1, <2>2 DEF Scanning, Readable
<1>6. NewValue(TypeOfStart(b)) /\ first_pass' = 0
  BY DEF ReadsNext, Tree
<1>7. Left(k, b, flags, flags')
  BY FlagsAre DEF ReadsNext
<1>8. QED
  BY <1>2, <1>3, <1>4, <1>5, <1>6, <1>7

(* A value other than a number starts. *)
LEMMA OpenText ==
    ASSUME TreeInv, NEW k, NEW b, NEW x, NEW y, ReadsNext(k, b, x, y), k = "open",
           NEW O, NEW from, NEW to, Reading(x, O, from, to)
    PROVE  \E P, from2, to2 : Reading(y, P, from2, to2)'
<1>1. PICK a, fl, gl, v : a = alloc /\ fl = flags /\ gl = flags' /\ v = values'[a]
  OBVIOUS
<1>2. AtValue /\ b \in ValueStarts /\ Scanning(b) /\ NewValue(TypeOfStart(b)) /\ first_pass' = 0
  BY OpenAt
<1>3. Inv /\ pc = "scan" /\ first_pass = 0 /\ x \in LexStates /\ b \in Chars
  BY DEF ReadsNext
<1>4. SameMode(y)' /\ LexedBy(k, b, string_length, x, y)
  <2>1. SameMode(x)
    BY DEF Reading
  <2>2. QED
    BY <2>1, LexOfSmall
<1>5. "done" \notin gl
  <2>1. "done" \notin FlagsAfter("open", b, flags)
    BY OpenFlags DEF ReadsNext
  <2>2. QED
    BY <1>1, <2>1 DEF ReadsNext
<1>6. JustTaken(x, a, b, O, from, to)
  <2>1. "done" \notin flags'
    BY <1>1, <1>5
  <2>2. PICK type : NewValue(type)
    BY <1>2
  <2>3. QED
    BY <1>1, <1>2, <1>3, <2>1, <2>2, TakenText
<1>7. TypeFits(b, v.type)
  <2>1. TakenFrom(values, a, b, values')
    BY <1>6 DEF JustTaken
  <2>2. QED
    BY <1>1, <2>1 DEF TakenFrom
<1>8. Opens(b, v, fl, gl)
  <2>1. b \in {"{", "[", Quote, Literal} /\ Left("open", b, fl, gl)
    BY <1>1, OpenAt
  <2>2. QED
    BY <1>7, <2>1, OpensIs
<1>9. /\ fl \cap {"next", "done", "need_comma", "need_colon"} = {} /\ "seek_value" \in fl
  BY <1>1, <1>6 DEF JustTaken
<1>10. /\ b = Quote => y.tokens = x.tokens /\ y.comma = x.comma
       /\ b # Quote => y.tokens = Append(WithComma(x), Mark(b)) /\ ~y.comma
  BY <1>4 DEF LexedBy
<1>11. Mark(b) \in Tokens
  BY <1>3, MarkTypes
<1>12. CASE b = Quote /\ v.type = "string" /\ gl = (fl \ {"seek_value"}) \cup {"string"}
  BY <1>1, <1>2, <1>3, <1>4, <1>6, <1>10, <1>12, QuoteText
<1>13. CASE b # Quote /\ v.type = "literal" /\ Mark(b) = Single(v) /\ gl = (fl \ {"seek_value"}) \cup {"next"}
  <2>1. v.type \notin Containers
    BY <1>13 DEF Containers
  <2>2. "next" \in gl /\ gl \cap {"done", "need_colon"} = {}
    BY <1>9, <1>13
  <2>3. QED
    BY <1>1, <1>2, <1>3, <1>4, <1>6, <1>10, <1>11, <1>13, <2>1, <2>2, SingleText
<1>14. CASE /\ b # Quote /\ v.type \in Containers /\ Mark(b) = Opening(v)
            /\ gl \in {fl, fl \ {"seek_value"}} /\ (v.type = "object" => "seek_value" \notin gl)
  <2>1. gl \cap {"next", "done", "need_comma", "need_colon"} = {}
    BY <1>9, <1>14
  <2>2. QED
    BY <1>1, <1>2, <1>3, <1>4, <1>6, <1>10, <1>11, <1>14, <2>1, ContainerText
<1>15. QED
  BY <1>8, <1>12, <1>13, <1>14 DEF Opens

(* In a number. *)
AtNumber(x, y) ==
    /\ y \in LexStates /\ y.mode = "out" /\ y.number = TRUE /\ y.bytes = 0 /\ y.comma = FALSE
    /\ y.tokens = Append(WithComma(x), Number)

(* A number is one token, at its first character. *)
LEMMA LexNumber ==
    ASSUME NEW x \in LexStates, NEW b \in NumberChars, x.mode = "out"
    PROVE  /\ ~x.number => AtNumber(x, LexChar(x, b))
           /\ x.number => LexChar(x, b) = x
<1>1. b \in Chars
  BY DEF Chars
<1>2. ASSUME ~x.number
      PROVE  AtNumber(x, LexChar(x, b))
  BY <1>1, <1>2, LexToken, ZenonT(60) DEF AtNumber
<1>3. ASSUME x.number
      PROVE  LexChar(x, b) = x
  <2>1. b \notin {Quote, Blank, Newline, NUL, LineComment, BlockComment, ","}
    BY DEF NumberChars, Digits, Signs, Blank, Newline, NUL, Quote, LineComment, BlockComment
  <2>2. QED
    BY <1>3, <2>1 DEF LexChar
<1>4. QED
  BY <1>2, <1>3

(* The lexer stays where it is until the number ends. *)
LEMMA LexOfNumber ==
    ASSUME NEW t \in Seq(Chars), NEW p \in Nat, NEW e \in Nat, 1 <= p, p < e, e <= Len(t),
           \A q \in p .. e - 1 : t[q] \in NumberChars,
           NEW x, x = Lexing(t)[p - 1], x.mode = "out", ~x.number, NEW y, y = Lexing(t)[e - 1]
    PROVE  x \in LexStates /\ AtNumber(x, y)
<1>1. PICK z : z = LexChar(x, t[p])
  OBVIOUS
<1>2. /\ Len(t) \in Nat /\ p \in 1 .. Len(t) /\ p - 1 \in 0 .. Len(t) /\ p \in p .. e - 1
      /\ e - 1 \in Nat /\ p <= e - 1
  <2>1. Len(t) \in Nat
    OBVIOUS
  <2>2. QED
    BY <2>1
<1>3. x \in LexStates /\ t[p] \in Chars /\ t[p] \in NumberChars
  BY <1>2, LexingType
<1>4. AtNumber(x, z)
  BY <1>1, <1>3, LexNumber
<1>5. Lexing(t)[p] = z
  BY <1>1, <1>2, LexingIs
<1> DEFINE Bad == {q \in Nat : p <= q /\ q < e /\ Lexing(t)[q] # z}
<1>6. Bad = {}
  <2> SUFFICES ASSUME Bad # {}
               PROVE  FALSE
    OBVIOUS
  <2>1. PICK q \in Bad : \A r \in Bad : q <= r
    BY Least
  <2>2. q # p
    BY <1>5, <2>1
  <2>3. /\ q \in 1 .. Len(t) /\ q \in p .. e - 1 /\ q - 1 \in Nat /\ p <= q - 1 /\ q - 1 < e
        /\ ~(q <= q - 1)
    BY <1>2, <2>1, <2>2
  <2>4. q - 1 \notin Bad
    BY <2>1, <2>3
  <2>5. Lexing(t)[q - 1] = z
    BY <2>3, <2>4
  <2>6. t[q] \in Chars /\ t[q] \in NumberChars
    BY <2>3
  <2>7. LexChar(z, t[q]) = z
    BY <1>4, <2>6, LexNumber, ZenonT(60) DEF AtNumber
  <2>8. Lexing(t)[q] = z
    BY <2>3, <2>5, <2>7, LexingIs
  <2>9. QED
    BY <2>1, <2>8
<1>7. e - 1 \notin Bad /\ e - 1 < e
  BY <1>2, <1>6
<1>8. y = z
  BY <1>2, <1>7
<1>9. QED
  BY <1>3, <1>4, <1>8

(* A number is skipped. *)
LEMMA NumberText ==
    ASSUME TreeInv, pc = "scan", first_pass = 0, SkipNumber,
           NEW O, NEW from, NEW to, Reading(Lex, O, from, to)
    PROVE  \E P, from2, to2 : Reading(Lex, P, from2, to2)'
<1>0. PassesInv /\ Inv /\ TypeOK /\ ScanOK /\ PassZero
  BY DEF TreeInv, PassesInv, Inv
<1>1. PICK b \in {"-"} \cup Digits :
        /\ Scanning(b) /\ AtValue /\ NewValue("integer")
        /\ ptr' = BehindNumber /\ flags' = Found \cup {"next", "reproc"}
        /\ UNCHANGED <<pc, first_pass>>
  BY DEF SkipNumber, BehindNumber
<1>2. PICK G, e, s : Final(G, e) /\ s \in G /\ Follows(s, e)
  BY <1>0 DEF PassZero
<1>3. b = text[ptr] /\ text' = text
  BY <1>0, <1>1, <1>2, Following
<1>4. PICK p, q, x, y, a : p = ptr /\ q = ptr' /\ x = Lex /\ y = Lex' /\ a = alloc
  OBVIOUS
<1>5. /\ text \in Seq(Chars) /\ Len(text) \in Nat /\ p \in Nat /\ 1 <= p
      /\ q \in p .. Len(text) /\ text[q] \notin Skipped
      /\ \A r \in p .. q - 1 : text[r] \in Skipped
  BY <1>0, <1>1, <1>4, Position, NumberEnds
<1>6. Skipped = NumberChars /\ b \in NumberChars /\ b \in ValueStarts
      /\ b \notin {Newline, NUL} /\ TypeOfStart(b) = "integer"
  BY <1>1 DEF Skipped, NumberChars, ValueStarts, Digits, Signs, Newline, NUL, TypeOfStart, Quote, Literal
<1>7. q \in Nat /\ p < q /\ q <= Len(text)
  <2>1. p # q
    BY <1>3, <1>4, <1>5, <1>6
  <2>2. QED
    BY <1>5, <2>1
<1>8. /\ flags \cap {"next", "string", "line_comment", "block_comment", "done", "need_comma",
                     "need_colon"} = {}
      /\ "seek_value" \in flags
  BY <1>1 DEF AtValue, Seeking, InJson, InString, InLineComment, InBlockComment, IsDone, Scanning
<1>9. /\ "next" \in flags' /\ "reproc" \in flags' /\ flags' \cap {"done", "need_colon", "string"} = {}
  BY <1>1, <1>8 DEF Found
<1>10. Read = p - 1 /\ Read' = q - 1
  BY <1>4, <1>8, <1>9 DEF Read
<1>11. x = Lexing(text)[p - 1] /\ y = Lexing(text)[q - 1]
  BY <1>3, <1>4, <1>10 DEF Lex
<1>12. x.mode = "out" /\ ~x.number
  <2>1. SameMode(x)
    BY <1>4 DEF Reading
  <2>2. Read + 1 = p
    BY <1>5, <1>10
  <2>3. text[Read + 1] = b /\ text[ptr] = b
    BY <1>3, <1>4, <2>2
  <2>4. ~x.number
    BY <1>6, <2>1, <2>3 DEF SameMode
  <2>5. x.mode = "out"
    BY <1>6, <1>8, <2>1, <2>3 DEF SameMode, InString, InLineComment, InBlockComment
  <2>6. QED
    BY <2>4, <2>5
<1>13. x \in LexStates /\ AtNumber(x, y)
  <2>1. \A r \in p .. q - 1 : text[r] \in NumberChars
    BY <1>5, <1>6
  <2>2. QED
    BY <1>5, <1>7, <1>11, <1>12, <2>1, LexOfNumber
<1>14. SameMode(y)'
  <2>1. Read' + 1 = q
    BY <1>7, <1>10
  <2>2. text'[Read' + 1] \notin NumberChars
    BY <1>3, <1>5, <1>6, <2>1
  <2>3. QED
    BY <1>9, <1>13, <2>2 DEF SameMode, InString, AtNumber
<1>15. JustTaken(x, a, b, O, from, to)
  <2>1. "done" \notin flags' /\ first_pass' = 0 /\ Reading(x, O, from, to)
    BY <1>1, <1>4, <1>9
  <2>2. PICK type : NewValue(type)
    BY <1>1
  <2>3. QED
    BY <1>1, <1>4, <1>6, <1>13, <2>1, <2>2, TakenText
<1>16. values'[a].type \in {"integer", "double"}
  <2>1. TypeFits(b, values'[a].type)
    BY <1>15 DEF JustTaken, TakenFrom
  <2>2. QED
    BY <1>6, <2>1 DEF TypeFits
<1>17. values'[a].type \notin Containers /\ Number = Single(values'[a])
  BY <1>16 DEF Containers, Single
<1>18. \E P, from2, to2 : Reading(y, P, from2, to2)'
  <2>1. Number \in Tokens /\ ~y.comma /\ Reading(x, O, from, to) /\ first_pass' = 0
        /\ flags' \cap {"done", "need_colon"} = {}
    BY <1>1, <1>4, <1>9, <1>13, MarkTypes DEF AtNumber
  <2>2. y.tokens = Append(WithComma(x), Number)
    BY <1>13 DEF AtNumber
  <2>3. QED
    BY <1>0, <1>9, <1>13, <1>14, <1>15, <1>17, <2>1, <2>2, SingleText
<1>19. QED
  BY <1>4, <1>18

(* flag_next: the character has been read before. *)
LEMMA FinishReads ==
    ASSUME PassesInv, first_pass = 0, FinishValue, NEW x, x = Lex, NEW O, NEW from, NEW to,
           Reading(x, O, from, to)
    PROVE  /\ Inv /\ pc = "scan" /\ first_pass' = 0 /\ pc' = "scan"
           /\ Lex' = x /\ SameMode(x)' /\ x \in LexStates
           /\ "next" \in flags /\ flags \cap {"done", "seek_value", "string", "need_colon"} = {}
           /\ "next" \notin flags' /\ "need_comma" \in flags'
           /\ flags' \cap {"string", "need_colon"} = {}
           /\ "done" \in flags' <=> Parent(top) = 0
           /\ "seek_value" \in flags' <=> Parent(top) # 0 /\ values[Parent(top)].type = "array"
<1>1. /\ Inv /\ PassZero /\ TypeOK /\ pc = "scan" /\ "next" \in flags /\ text' = text
      /\ first_pass' = 0 /\ pc' = "scan"
  BY DEF PassesInv, Inv, FinishValue, rest
<1>2. PICK G, e, s : Final(G, e) /\ s \in G /\ Follows(s, e)
  BY <1>1 DEF PassZero
<1>3. FlagsFit(flags, TopType) /\ ptr \in 1 .. Len(text)
  BY <1>1, <1>2, Following, PassZeroMode
<1>4. flags \cap {"done", "seek_value", "string", "line_comment", "block_comment"} = {}
  BY <1>1, <1>3 DEF FlagsFit
<1>5. "need_colon" \notin flags
  BY <1>1 DEF Reading, Frontier
<1>6. PICK gl : gl = flags'
  OBVIOUS
<1>7. gl = (flags \ {"next", "reproc"}) \cup {"need_comma"}
         \cup (IF Parent(top) = 0 THEN {"done"}
               ELSE IF values[Parent(top)].type = "array" THEN {"seek_value"} ELSE {})
  BY <1>6 DEF FinishValue, Parent
<1>8. /\ gl \cap {"next", "reproc", "string", "need_colon", "line_comment", "block_comment"} = {}
      /\ "need_comma" \in gl
      /\ "done" \in gl <=> Parent(top) = 0
      /\ "seek_value" \in gl <=> Parent(top) # 0 /\ values[Parent(top)].type = "array"
  BY <1>4, <1>5, <1>7
<1>9. ptr \in Nat /\ Read \in 0 .. Len(text) /\ text \in Seq(Chars)
  <2>1. ptr \in Nat /\ text \in Seq(Chars) /\ Len(text) \in Nat
    BY <1>1, Position
  <2>2. Read = ptr \/ Read = ptr - 1
    BY DEF Read
  <2>3. QED
    BY <1>3, <2>1, <2>2
<1>10. Read' = Read
  <2>1. ptr' = IF "reproc" \in flags THEN ptr ELSE ptr + 1
    BY DEF FinishValue
  <2>2. Read' = ptr' - 1
    BY <1>6, <1>8 DEF Read
  <2>3. Read = IF "reproc" \in flags THEN ptr - 1 ELSE ptr
    BY <1>1 DEF Read
  <2>4. QED
    BY <1>9, <2>1, <2>2, <2>3
<1>11. Lex' = x /\ x \in LexStates
  BY <1>1, <1>9, <1>10, LexingType DEF Lex
<1>12. SameMode(x)'
  <2>1. SameMode(x)
    BY DEF Reading
  <2>2. /\ x.number => x.mode = "out" /\ text[Read + 1] \notin NumberChars
        /\ x.bytes = 0 /\ x.mode = "out"
    BY <1>1, <1>4, <2>1 DEF SameMode, InString
  <2>3. QED
    BY <1>1, <1>6, <1>8, <1>10, <2>2 DEF SameMode, InString, InLineComment, InBlockComment
<1>13. QED
  BY <1>1, <1>4, <1>5, <1>6, <1>8, <1>11, <1>12

(* The document is complete. *)
LEMMA FinishedRoot ==
    ASSUME PassesInv, first_pass = 0, FinishValue, NEW x, x = Lex, NEW O, NEW from, NEW to,
           Reading(x, O, from, to), Parent(top) = 0
    PROVE  \E P, from2, to2 : Reading(Lex, P, from2, to2)'
<1>0. /\ Inv /\ pc = "scan" /\ first_pass' = 0 /\ Lex' = x /\ SameMode(x)' /\ x \in LexStates
      /\ "next" \in flags /\ "done" \notin flags /\ "next" \notin flags' /\ "done" \in flags'
  BY FinishReads
<1>1. UNCHANGED <<top, values, root, alloc>>
  BY DEF FinishValue, Parent
<1>2. PICK t, P : t = top /\ P = O \ {t}
  OBVIOUS
<1>3. Unread = 0 /\ Tip = t /\ Unread' = 0 /\ Tip' = 0 /\ Given' = Given
  BY <1>0, <1>1, <1>2 DEF Unread, Tip, Given
<1>4. /\ Branch(O, t) /\ NamesFit(values, O) /\ Spans(x.tokens, values, Given, O, 0, from, to)
      /\ Frontier(x, from, to)
  BY <1>3 DEF Reading
<1>5. ~x.comma /\ WholeAt(x.tokens, values, t, from, to) /\ to[t] = Len(x.tokens)
  BY <1>0, <1>2, <1>4 DEF Frontier
<1>6. t # 0
  <2>1. FlagsOK
    BY <1>0, TreeOfInv
  <2>2. "seek_value" \notin flags
    BY FinishReads
  <2>3. QED
    BY <1>0, <1>2, <2>1, <2>2 DEF FlagsOK
<1>7. t \in O /\ (\A n \in O : values[n].parent # t) /\ values[t].parent = 0 /\ t = root
  BY <1>0, <1>2, <1>4, <1>6, NothingInTip DEF Parent
<1>8. values \in Seq(Records) /\ x.tokens \in Seq(Tokens)
  BY <1>0, ChainIs DEF LexStates
<1>9. Spans(x.tokens, values, Given, P, 0, from, to)
  BY <1>2, <1>4, <1>5, <1>7, <1>8, SpansDone
<1>10. from[t] = 1
  <2>1. t # 0 /\ NextOf(x.tokens, values, values[t].parent, from[t], from, to)
    BY <1>4, <1>6, <1>7 DEF Spans
  <2>2. QED
    BY <1>7, <2>1 DEF NextOf
<1>11. Branch(P, 0)
  BY <1>0, <1>2, <1>4, <1>6, BranchUp
<1>12. Branch(P, Tip)'
  <2>1. SameParents /\ root' = root
    BY <1>1 DEF SameParents
  <2>2. Branch(P, 0)'
    BY <1>11, <2>1, BranchStays
  <2>3. QED
    BY <1>3, <2>2
<1>13. NamesFit(values', P)
  BY <1>1, <1>2, <1>4 DEF NamesFit
<1>14. Frontier(x, from, to)'
  BY <1>0, <1>1, <1>5, <1>7, <1>10 DEF Frontier
<1>15. Reading(x, P, from, to)'
  BY <1>0, <1>1, <1>3, <1>9, <1>12, <1>13, <1>14 DEF Reading
<1>16. QED
  BY <1>0, <1>15

(* An entry is complete: it goes into its parent, with everything in it. *)
LEMMA FinishedEntry ==
    ASSUME PassesInv, first_pass = 0, FinishValue, NEW x, x = Lex, NEW O, NEW from, NEW to,
           Reading(x, O, from, to), Parent(top) # 0
    PROVE  \E P, from2, to2 : Reading(Lex, P, from2, to2)'
<1>0. /\ Inv /\ pc = "scan" /\ first_pass' = 0 /\ Lex' = x /\ SameMode(x)' /\ x \in LexStates
      /\ "next" \in flags /\ "done" \notin flags
      /\ flags' \cap {"next", "done", "need_colon", "string"} = {} /\ "need_comma" \in flags'
      /\ ("seek_value" \in flags' => values[Parent(top)].type = "array")
  BY FinishReads
<1>1. PICK t, p, P, T : t = top /\ p = Parent(top) /\ P = O \ {t} /\ T = x.tokens
  OBVIOUS
<1>2. PICK q, v : q = values[p] /\ v = values'[p]
  OBVIOUS
<1>3. /\ t \in 1 .. Len(values) /\ p \in 1 .. Len(values) /\ p # 0 /\ t # 0 /\ top' = p
      /\ values \in Seq(Records) /\ T \in Seq(Tokens)
  <2>1. t \in 1 .. Len(values) /\ p \in 1 .. Len(values) /\ top' = p
    BY <1>0, <1>1, FinishedParent
  <2>2. values \in Seq(Records) /\ T \in Seq(Tokens)
    BY <1>0, <1>1, ChainIs DEF LexStates
  <2>3. p # 0 /\ t # 0
    BY <2>1
  <2>4. QED
    BY <2>1, <2>2, <2>3
<1>4. /\ q \in Records /\ q.length + 1 \in Nat /\ q.kids \in Seq(Nat) /\ t \in Nat /\ p \in Nat
      /\ values[t].parent = p
  BY <1>1, <1>2, <1>3, ParentBelow, RecordFields DEF Parent
<1> DEFINE kids == IF first_pass = 1 THEN q.kids ELSE Append(q.kids, t)
<1>5. kids = Append(q.kids, t) /\ kids \in Seq(Nat)
  BY <1>4, AppendProperties
<1> HIDE DEF kids
<1>6. PICK w : w = [q EXCEPT !.length = q.length + 1, !.kids = kids]
  BY SMTT(60)
<1>7. w \in Records /\ OneMore(q, w, t)
  BY <1>4, <1>5, <1>6 DEF Records, OneMore
<1>8. values' = [values EXCEPT ![p] = w]
  BY <1>1, <1>2, <1>3, <1>6, ZenonT(60) DEF FinishValue, Parent, kids
<1>9. /\ values' \in Seq(Records) /\ Len(values') = Len(values) /\ v = w
      /\ \A n \in 1 .. Len(values) : n # p => values'[n] = values[n]
  <2>1. Changed(values', values, p, w) /\ values' \in Seq(Records)
    BY <1>3, <1>7, <1>8, ExceptIs
  <2>2. QED
    BY <1>2, <1>3, <2>1 DEF Changed
<1>10. Unread = 0 /\ Tip = t
  BY <1>0, <1>1 DEF Unread, Tip
<1>11. /\ Branch(O, t) /\ NamesFit(values, O) /\ Spans(T, values, Given, O, 0, from, to)
       /\ Frontier(x, from, to)
  BY <1>1, <1>10 DEF Reading
<1>12. ~x.comma /\ WholeAt(T, values, t, from, to) /\ to[t] = Len(T)
  BY <1>0, <1>1, <1>11 DEF Frontier
<1>13. t \in O /\ (\A n \in O : values[n].parent # t) /\ O \subseteq 1 .. Len(values)
  BY <1>0, <1>3, <1>11, NothingInTip
<1>14. Spans(T, values', Given, P, 0, from, to)
  <2>1. OneMore(values[p], values'[p], t)
    BY <1>2, <1>7, <1>9
  <2>2. QED
    BY <1>1, <1>3, <1>4, <1>9, <1>11, <1>12, <1>13, <2>1, SpansJoined
<1>15. SameParents
  <2>1. \A n \in 1 .. Len(values) : values'[n].parent = values[n].parent
    BY <1>2, <1>7, <1>9 DEF OneMore
  <2>2. QED
    BY <1>9, <2>1 DEF SameParents
<1>16. Branch(P, p)'
  <2>1. Branch(P, p)
    BY <1>0, <1>1, <1>3, <1>11, BranchUp
  <2>2. root' = root
    BY DEF FinishValue
  <2>3. QED
    BY <1>15, <2>1, <2>2, BranchStays
<1>17. q.type \in Containers /\ v.type = q.type
  <2>1. values[p].type \in Containers
    BY <1>0, <1>1, <1>3, PassZeroChain
  <2>2. QED
    BY <1>2, <1>7, <1>9, <2>1 DEF OneMore
<1>18. Given' = Given /\ Tip' = p /\ Unread' = 0 /\ Holder' = p
  <2>1. alloc' = alloc
    BY DEF FinishValue
  <2>2. Given' = Given
    BY <1>0, <1>9, <2>1 DEF Given
  <2>3. Tip' = p
    BY <1>0, <1>3 DEF Tip
  <2>4. values'[p].type # "string"
    BY <1>2, <1>17 DEF Containers
  <2>5. Unread' = 0
    BY <1>3, <2>4 DEF Unread
  <2>6. QED
    BY <1>3, <2>2, <2>3, <2>5 DEF Holder
<1>19. Chained(values, O)
  BY <1>11 DEF Spans
<1>20. NamesFit(values', P)
  <2>1. ASSUME NEW n \in P, NEW r, r = values'[n].parent, r # 0, values'[r].type = "object"
        PROVE  Len(values'[r].keys) = Len(values'[r].kids) + 1
    <3>1. n \in O /\ n # t /\ r = values[n].parent
      BY <1>1, <1>13, <1>15, <2>1 DEF SameParents
    <3>2. r # p
      BY <1>4, <1>13, <1>19, <3>1 DEF Chained
    <3>3. r \in 1 .. Len(values)
      BY <1>13, <1>19, <2>1, <3>1 DEF Chained
    <3>4. values'[r] = values[r]
      BY <1>9, <3>2, <3>3
    <3>5. QED
      BY <1>11, <2>1, <3>1, <3>4 DEF NamesFit
  <2>2. QED
    BY <2>1 DEF NamesFit
<1>21. PICK e : e = Behind(v, p, Len(v.kids), from, to)
  OBVIOUS
<1>22. e = Len(T) /\ v.kids # <<>> /\ (v.type = "object" => Len(v.keys) = Len(v.kids))
  <2>1. Len(v.kids) = Len(q.kids) + 1 /\ e = to[t] /\ Len(q.kids) \in Nat
    <3>1. Len(q.kids) \in Nat
      BY <1>4, RecordFields
    <3>2. PutBehind(q, v, t, p, from, to)
      BY <1>4, <1>7, <1>9, OneMoreBehind
    <3>3. QED
      BY <1>21, <3>1, <3>2 DEF PutBehind
  <2>2. v.kids # <<>>
    <3>1. Len(v.kids) # 0
      BY <2>1
    <3>2. QED
      BY <3>1
  <2>3. v.type = "object" => Len(v.keys) = Len(q.kids) + 1
    <3>1. q.type = "object" => Len(q.keys) = Len(q.kids) + 1
      BY <1>2, <1>3, <1>4, <1>11, <1>13 DEF NamesFit
    <3>2. v.keys = q.keys
      BY <1>7, <1>9 DEF OneMore
    <3>3. QED
      BY <1>17, <3>1, <3>2
  <2>4. QED
    BY <1>12, <2>1, <2>2, <2>3
<1>23. Between(T, x.comma, v, e)'
  BY <1>0, <1>12, <1>22 DEF Between
<1>24. Ahead(x, p, from, to)'
  <2>1. "seek_value" \in flags' => v.type # "object"
    BY <1>0, <1>1, <1>2, <1>17
  <2>2. QED
    BY <1>1, <1>2, <1>17, <1>18, <1>21, <1>23, <2>1 DEF Ahead
<1>25. Frontier(x, from, to)'
  BY <1>0, <1>2, <1>3, <1>17, <1>18, <1>24 DEF Frontier, InString
<1>26. Branch(P, Tip)'
  BY <1>16, <1>18
<1>27. Reading(x, P, from, to)'
  BY <1>0, <1>1, <1>14, <1>18, <1>20, <1>25, <1>26 DEF Reading
<1>28. QED
  BY <1>0, <1>27

(* The bracket is the one that closes v. *)
LEMMA ClosesIs ==
    ASSUME NEW k, NEW b, NEW n, NEW x, NEW y, LexedBy(k, b, n, x, y), NEW v, NEW fl, NEW gl, Left(k, b, fl, gl),
           (k = "closearray" /\ v.type = "array") \/ (k = "closeobject" /\ v.type = "object")
    PROVE  /\ y.tokens = Append(x.tokens, Closing(v)) /\ ~y.comma
           /\ "next" \in gl /\ gl \subseteq fl \cup {"next"}
<1>1. CASE k = "closearray" /\ v.type = "array"
  <2>1. Closing(v) = Mark("]")
    BY <1>1 DEF Closing
  <2>2. y.tokens = Append(x.tokens, Mark("]")) /\ ~y.comma
    BY <1>1 DEF LexedBy
  <2>3. gl = (fl \ {"need_comma", "seek_value"}) \cup {"next"}
    BY <1>1 DEF Left
  <2>4. "next" \in gl /\ gl \subseteq fl \cup {"next"}
    BY <2>3
  <2>5. QED
    BY <2>1, <2>2, <2>4
<1>2. CASE k = "closeobject" /\ v.type = "object"
  <2>1. Closing(v) = Mark("}")
    BY <1>2 DEF Closing
  <2>2. y.tokens = Append(x.tokens, Mark("}")) /\ ~y.comma
    BY <1>2 DEF LexedBy
  <2>3. gl = (fl \ {"need_comma"}) \cup {"next"}
    BY <1>2 DEF Left
  <2>4. "next" \in gl /\ gl \subseteq fl \cup {"next"}
    BY <2>3
  <2>5. QED
    BY <2>1, <2>2, <2>4
<1>3. QED
  BY <1>1, <1>2

(* An array or object ends. *)
LEMMA CloseText ==
    ASSUME NEW k, NEW b, NEW x, NEW y, ReadsNext(k, b, x, y), k \in {"closearray", "closeobject"},
           NEW O, NEW from, NEW to, Reading(x, O, from, to)
    PROVE  \E P, from2, to2 : Reading(y, P, from2, to2)'
<1>0. /\ Inv /\ first_pass = 0 /\ UNCHANGED <<top, root, alloc, values, first_pass, text>> /\ x \in LexStates
  BY DEF ReadsNext, Tree, tree
<1>1. PICK t, v, T : t = top /\ v = values[t] /\ T = x.tokens
  OBVIOUS
<1>2. /\ flags \cap {"next", "done"} = {} /\ Unread = 0 /\ Holder = t /\ t # 0
      /\ (k = "closearray" /\ v.type = "array") \/ (k = "closeobject" /\ v.type = "object")
  BY <1>1, HolderIsTop
<1>3. v.type = "object" => "seek_value" \notin flags
  BY <1>2 DEF ReadsNext, Meaning
<1>4. SameMode(y)' /\ LexedBy(k, b, string_length, x, y)
  <2>1. SameMode(x)
    BY DEF Reading
  <2>2. QED
    BY <2>1, LexOfSmall
<1>5. /\ y.tokens = Append(T, Closing(v)) /\ ~y.comma
      /\ "next" \in flags' /\ flags' \subseteq flags \cup {"next"}
  <2>1. PICK fl, gl, n : fl = flags /\ gl = flags' /\ n = string_length
    OBVIOUS
  <2>2. Left(k, b, fl, gl) /\ LexedBy(k, b, n, x, y)
    BY <1>4, <2>1, FlagsAre DEF ReadsNext
  <2>3. /\ y.tokens = Append(x.tokens, Closing(v)) /\ ~y.comma
        /\ "next" \in gl /\ gl \subseteq fl \cup {"next"}
    BY <1>2, <2>2, ClosesIs
  <2>4. QED
    BY <1>1, <2>1, <2>3
<1>6. Tip = t /\ Tip' = t /\ Unread' = 0 /\ Given' = Given
  <2>1. "done" \notin flags /\ "done" \notin flags'
    BY <1>2, <1>5
  <2>2. Tip = t /\ Tip' = t
    BY <1>0, <1>1, <2>1 DEF Tip
  <2>3. Unread' = 0
    BY <1>5 DEF Unread
  <2>4. QED
    BY <1>0, <2>2, <2>3 DEF Given
<1>7. /\ Branch(O, t) /\ NamesFit(values, O) /\ Spans(T, values, Given, O, 0, from, to)
      /\ Frontier(x, from, to)
  BY <1>1, <1>2, <1>6 DEF Reading
<1>8. Ahead(x, t, from, to)
  BY <1>2, <1>7 DEF Frontier
<1>9. /\ v.type \in Containers /\ Between(T, x.comma, v, Behind(v, t, Len(v.kids), from, to))
  BY <1>1, <1>2, <1>3, <1>8 DEF Ahead
<1>10. Behind(v, t, Len(v.kids), from, to) = Len(T) /\ "need_colon" \notin flags
  BY <1>9 DEF Between
<1>11. t \in O /\ values \in Seq(Records) /\ T \in Seq(Tokens)
  BY <1>0, <1>1, <1>2, <1>7, NothingInTip, ChainIs DEF LexStates
<1>12. PICK T2, to2 : T2 = y.tokens /\ to2 = [to EXCEPT ![t] = Len(T2)]
  OBVIOUS
<1>13. /\ Spans(T2, values, Given, O, 0, from, to2)
       /\ WholeAt(T2, values, t, from, to2) /\ to2[t] = Len(T2)
  <2>1. T2 = Append(T, Closing(values[t])) /\ values[t].type \in Containers
    BY <1>1, <1>5, <1>9, <1>12
  <2>2. Behind(values[t], t, Len(values[t].kids), from, to) = Len(T)
    BY <1>1, <1>10
  <2>3. PICK vals, G : vals = values /\ G = Given
    OBVIOUS
  <2>4. /\ T \in Seq(Tokens) /\ vals \in Seq(Records) /\ t \in O /\ Spans(T, vals, G, O, 0, from, to)
        /\ T2 = Append(T, Closing(vals[t])) /\ vals[t].type \in Containers
        /\ Behind(vals[t], t, Len(vals[t].kids), from, to) = Len(T)
    BY <1>7, <1>11, <2>1, <2>2, <2>3
  <2>5. Closed(T2, vals, G, O, t, from, to2)
    BY <1>12, <2>4, SpansClosed
  <2>6. QED
    BY <2>3, <2>5 DEF Closed
<1>14. Branch(O, Tip)'
  <2>1. SameParents /\ root' = root
    BY <1>0 DEF SameParents
  <2>2. Branch(O, t)'
    BY <1>7, <2>1, BranchStays
  <2>3. QED
    BY <1>6, <2>2
<1>15. Frontier(y, from, to2)'
  <2>1. "need_colon" \notin flags' /\ "done" \notin flags'
    BY <1>2, <1>5, <1>10
  <2>2. QED
    BY <1>0, <1>1, <1>5, <1>12, <1>13, <2>1 DEF Frontier
<1>16. Reading(y, O, from, to2)'
  BY <1>0, <1>4, <1>6, <1>7, <1>12, <1>13, <1>14, <1>15 DEF Reading
<1>17. QED
  BY <1>16

(* The text up to the first character is empty, and the tree has nothing in it. *)
LEMMA FirstText ==
    ASSUME TreeInv, EndPass, first_pass = 1
    PROVE  \E P, from2, to2 : Reading(Lex, P, from2, to2)'
<1>0. PassesInv /\ Inv /\ pc = "scan" /\ TypeOK
  BY DEF TreeInv, PassesInv, Inv, EndPass, Scanning
<1>1. /\ first_pass' = 0 /\ flags' = {"seek_value"} /\ ptr' = 1 /\ string_length' = 0 /\ top' = 0
      /\ root' = 0 /\ alloc' = root /\ values' = values
  BY DEF EndPass
<1>2. root = (IF Len(values) = 0 THEN 0 ELSE 1) /\ values \in Seq(Records) /\ Len(values) \in Nat
  BY <1>0, ChainIs DEF TreeInv, TreeOf
<1>3. \A n \in 1 .. Len(values) : values[n].kids = <<>>
  BY <1>0, LeftEmpty
<1>4. Given' = {}
  <2>1. \A n \in 1 .. Len(values) : root # 0 /\ ~(n < root)
    BY <1>2
  <2>2. QED
    BY <1>1, <2>1 DEF Given
<1>5. text' \in Seq(Chars) /\ Len(text') \in Nat
  <2>1. Scanning(NUL)
    BY DEF EndPass
  <2>2. text' \in Seq(Chars)
    BY <1>0, <2>1, Reads
  <2>3. QED
    BY <2>2
<1>6. Lex' = LexStart
  <2>1. Read' = 0
    BY <1>1 DEF Read
  <2>2. Lexing(text')[0] = LexStart
    BY <1>5, LexingIs
  <2>3. QED
    BY <2>1, <2>2 DEF Lex
<1>7. PICK x : x = LexStart
  OBVIOUS
<1>8. x.mode = "out" /\ x.bytes = 0 /\ x.number = FALSE /\ x.comma = FALSE /\ x.tokens = <<>>
  BY <1>7 DEF LexStart
<1>9. SameMode(x)'
  BY <1>1, <1>8 DEF SameMode, InString, InLineComment, InBlockComment
<1>10. Unread' = 0 /\ Tip' = 0 /\ Holder' = 0
  <2>1. Unread' = 0
    BY <1>1 DEF Unread
  <2>2. Tip' = 0
    BY <1>1 DEF Tip
  <2>3. QED
    BY <1>1, <2>1, <2>2 DEF Holder
<1>11. PICK from, O : from = [n \in 1 .. Len(values) |-> 0] /\ O = {}
  OBVIOUS
<1>12. Spans(x.tokens, values', Given', O, 0, from, from)
  <2>1. from \in [1 .. Len(values') -> Nat]
    BY <1>1, <1>11
  <2>2. QED
    BY <1>4, <1>11, <2>1 DEF Spans, Chained
<1>13. Branch(O, Tip)' /\ NamesFit(values', O)
  BY <1>10, <1>11 DEF Branch, NamesFit
<1>14. Frontier(x, from, from)'
  BY <1>1, <1>8, <1>10 DEF Frontier, InString
<1>15. Reading(x, O, from, from)'
  BY <1>9, <1>10, <1>12, <1>13, <1>14 DEF Reading
<1>16. QED
  BY <1>6, <1>7, <1>15

(* The end of the text: there is nothing behind the document. *)
LEMMA LastText ==
    ASSUME TreeInv, EndPass, first_pass = 0, NEW O, NEW from, NEW to, Reading(Lex, O, from, to)
    PROVE  WholeText(Lexed, values, root, from, to)'
<1>0. /\ PassesInv /\ Inv /\ TypeOK /\ PassZero /\ pc = "scan" /\ IsDone /\ Scanning(NUL)
      /\ "next" \notin flags /\ "done" \in flags
  BY DEF TreeInv, PassesInv, Inv, EndPass, Scanning, IsDone
<1>1. UNCHANGED <<ptr, root, values>>
  BY DEF EndPass
<1>2. PICK G, e, s : Final(G, e) /\ s \in G /\ Follows(s, e)
  BY <1>0 DEF PassZero
<1>3. text' = text /\ ptr \in 1 .. Len(text)
  BY <1>0, <1>2, Following
<1>4. PICK x : x = Lex
  OBVIOUS
<1>5. /\ Tip = 0 /\ Unread = 0 /\ Branch(O, Tip) /\ Frontier(x, from, to)
      /\ Spans(x.tokens, values, Given, O, Unread, from, to)
  BY <1>0, <1>4 DEF Tip, Unread, Reading
<1>6. O = {}
  BY <1>0, <1>5, NoBranch
<1>7. ~x.comma /\ from[root] = 1 /\ to[root] = Len(x.tokens)
  BY <1>0, <1>5 DEF Frontier
<1>8. Lexed' = x.tokens
  <2>1. Read = ptr - 1
    BY <1>0 DEF Read
  <2>2. Lexed' = WithComma(x)
    BY <1>1, <1>3, <1>4, <2>1 DEF Lexed, Lex
  <2>3. QED
    BY <1>7, <2>2 DEF WithComma
<1>9. Given = 1 .. Len(values)
  BY <1>0, PassZeroChain
<1>10. root \in 1 .. Len(values)
  <2>1. root # 0
    BY <1>0 DEF TreeInv, TreeOf
  <2>2. root \in 0 .. Len(values) /\ Len(values) \in Nat
    BY <1>0, ChainIs, TreeOfInv DEF TreeOK
  <2>3. QED
    BY <2>1, <2>2
<1>11. \A n \in 1 .. Len(values) : values[n].type \in Containers => values[n].length = Len(values[n].kids)
  BY <1>0, <1>9, PassZeroChain
<1>12. Spans(x.tokens, values, 1 .. Len(values), {}, 0, from, to)
  BY <1>5, <1>6, <1>9
<1>13. QED
  BY <1>1, <1>7, <1>8, <1>10, <1>11, <1>12 DEF WholeText

(* A step of the scanner, outside of numbers. *)
LEMMA SmallText ==
    ASSUME TreeInv, first_pass = 0, NEW k, NEW b, Small(k, b),
           NEW O, NEW from, NEW to, Reading(Lex, O, from, to)
    PROVE  \E P, from2, to2 : Reading(Lex, P, from2, to2)'
<1>0. PassesInv /\ Inv /\ SameMode(Lex)
  BY DEF TreeInv, PassesInv, Reading
<1>1. PICK x, y : ReadsNext(k, b, x, y)
  BY <1>0, SmallReads
<1>2. x = Lex /\ y = Lex' /\ k \in MoveKinds \cup {"open", "closestring", "closename"}
  BY <1>1 DEF ReadsNext
<1>3. Reading(x, O, from, to)
  BY <1>2
<1>4. \E P, from2, to2 : Reading(y, P, from2, to2)'
  <2>1. CASE k \in Looking
    BY <1>0, <1>1, <1>3, <2>1, LookingText
  <2>2. CASE k \in {"comma", "colon"}
    BY <1>0, <1>1, <1>3, <2>2, SeparatorText
  <2>3. CASE k = "closename"
    BY <1>0, <1>1, <1>3, <2>3, NameText
  <2>4. CASE k = "closestring"
    <3>1. \E from2, to2 : Reading(y, O, from2, to2)'
      BY <1>0, <1>1, <1>3, <2>4, StringText
    <3>2. QED
      BY <3>1
  <2>5. CASE k = "open"
    BY <1>1, <1>3, <2>5, OpenText
  <2>6. CASE k \in {"closearray", "closeobject"}
    BY <1>1, <1>3, <2>6, CloseText
  <2>7. QED
    BY <1>2, <2>1, <2>2, <2>3, <2>4, <2>5, <2>6 DEF MoveKinds, Looking
<1>5. QED
  BY <1>2, <1>4

(* A complete value goes where it belongs. *)
LEMMA FinishText ==
    ASSUME TreeInv, first_pass = 0, FinishValue, NEW O, NEW from, NEW to, Reading(Lex, O, from, to)
    PROVE  \E P, from2, to2 : Reading(Lex, P, from2, to2)'
<1>1. PassesInv
  BY DEF TreeInv
<1>2. PICK x : x = Lex
  OBVIOUS
<1>3. Reading(x, O, from, to)
  BY <1>2
<1>4. CASE Parent(top) = 0
  BY <1>1, <1>2, <1>3, <1>4, FinishedRoot
<1>5. CASE Parent(top) # 0
  BY <1>1, <1>2, <1>3, <1>5, FinishedEntry
<1>6. QED
  BY <1>4, <1>5

(* Every step of pass 0. *)
LEMMA PassZeroText ==
    ASSUME TreeInv, TextOf, pc = "scan", first_pass = 0, Next
    PROVE  TextOf'
<1>0. PassesInv /\ Inv /\ PassZero
  BY DEF TreeInv, PassesInv
<1>1. PICK G, e, s : Final(G, e) /\ s \in G /\ Follows(s, e)
  BY <1>0 DEF PassZero
<1>2. /\ FlagsFit(flags, TopType) /\ (top # 0 \/ "string" \notin flags)
      /\ "next" \notin flags => ~InNumber
      /\ ~Reject
  BY <1>0, <1>1, PassZeroMode
<1>3. PICK O, from, to : Reading(Lex, O, from, to)
  BY DEF TextOf
<1>4. ASSUME pc' = "scan", \E P, from2, to2 : Reading(Lex, P, from2, to2)'
      PROVE  TextOf'
  BY <1>4 DEF TextOf
<1>5. CASE SmallActions
  <2>1. PICK k, b : Small(k, b)
    BY <1>2, <1>5, SmallSteps DEF SmallActions
  <2>2. pc' = "scan"
    BY <2>1 DEF Small
  <2>3. \E P, from2, to2 : Reading(Lex, P, from2, to2)'
    BY <1>3, <2>1, SmallText
  <2>4. QED
    BY <1>4, <2>2, <2>3
<1>6. CASE FinishValue
  <2>1. pc' = "scan"
    BY <1>6 DEF FinishValue, rest
  <2>2. \E P, from2, to2 : Reading(Lex, P, from2, to2)'
    BY <1>3, <1>6, FinishText
  <2>3. QED
    BY <1>4, <2>1, <2>2
<1>7. CASE SkipNumber
  <2>1. pc' = "scan"
    BY <1>7 DEF SkipNumber
  <2>2. \E P, from2, to2 : Reading(Lex, P, from2, to2)'
    BY <1>3, <1>7, NumberText
  <2>3. QED
    BY <1>4, <2>1, <2>2
<1>8. CASE EndPass
  <2>1. pc' = "returned"
    BY <1>8 DEF EndPass
  <2>2. WholeText(Lexed, values, root, from, to)'
    BY <1>3, <1>8, LastText
  <2>3. \E from2, to2 : WholeText(Lexed, values, root, from2, to2)'
    BY <2>2
  <2>4. QED
    BY <2>1, <2>3 DEF TextOf
<1>9. CASE StartNumber
  BY <1>9 DEF StartNumber
<1>10. CASE Digit \/ ExponentSign \/ Point \/ Exponent \/ EndNumber
  BY <1>2, <1>10 DEF Digit, ExponentSign, Point, Exponent, EndNumber, Scanning
<1>11. CASE AllocationFails \/ ReadPastEnd
  <2>1. pc' \notin {"scan", "returned"}
    BY <1>11 DEF AllocationFails, ReadPastEnd
  <2>2. QED
    BY <2>1 DEF TextOf
<1>12. CASE FreeChain \/ FreeDocument \/ Descend \/ Release \/ FreeDone
  BY <1>12 DEF FreeChain, FreeDocument, Descend, Release, FreeDone
<1>13. QED
  BY <1>2, <1>5, <1>6, <1>7, <1>8, <1>9, <1>10, <1>11, <1>12 DEF Next, SmallActions

(* json_parse returns at the end of pass 0 only. *)
LEMMA OnlyEndReturns ==
    ASSUME Next, pc = "scan", ~EndPass
    PROVE  pc' # "returned"
<1>1. SmallActions => pc' = pc
  BY DEF SmallActions, StringChar, StartEscape, Escape, CloseString, CloseName, StartLineComment,
     StartBlockComment, CommentChar, EndLineComment, EndBlockComment, SkipBlank, CloseArray,
     Comma, Colon, StartContainer, StartString, ReadLiteral, StartName, CloseObject, rest
<1>2. StartNumber \/ SkipNumber => pc' = pc
  BY DEF StartNumber, SkipNumber
<1>3. Digit \/ ExponentSign \/ Point \/ Exponent \/ EndNumber \/ FinishValue => pc' = pc
  BY DEF Digit, ExponentSign, Point, Exponent, EndNumber, FinishValue, rest
<1>4. AllocationFails \/ ReadPastEnd \/ Reject \/ FreeChain \/ FreeDocument \/ Descend \/ Release \/ FreeDone
        => pc' # "returned"
  BY DEF AllocationFails, ReadPastEnd, Reject, FreeChain, FreeDocument, Descend, Release, FreeDone
<1>5. QED
  BY <1>1, <1>2, <1>3, <1>4 DEF Next, SmallActions

(***************************************************************************)
(* What has been read has been written.                                    *)
(***************************************************************************)
TextInv == TreeInv /\ TextOf

(* Nothing has been read, and nothing returned. *)
LEMMA InitText == Init => TextInv
<1>1. Init => TextOf
  BY DEF Init, TextOf
<1>2. QED
  BY <1>1, InitTree DEF TextInv

(* Every step of the parser and of the release keeps it. *)
LEMMA StepText == TextInv /\ [Next]_vars => TextInv'
<1> SUFFICES ASSUME TextInv, [Next]_vars
             PROVE  TextInv'
  OBVIOUS
<1>0. TreeInv /\ TextOf /\ TreeInv' /\ Inv
  BY StepTree DEF TextInv, TreeInv, PassesInv
<1>1. TextOf'
  <2>1. CASE UNCHANGED vars
    <3>1. UNCHANGED <<pc, first_pass, text, ptr, flags, string_length, top, root, alloc, values>>
      BY <2>1 DEF vars, scanner, tree
    <3>2. ASSUME pc = "scan", first_pass = 0
          PROVE  \E P, from2, to2 : Reading(Lex, P, from2, to2)'
      <4>1. PICK O, from, to : Reading(Lex, O, from, to)
        BY <1>0, <3>2 DEF TextOf
      <4>2. Reading(Lex, O, from, to)'
        <5>1. PICK x : x = Lex
          OBVIOUS
        <5>2. Lex' = x
          BY <3>1, <5>1 DEF Lex, Read
        <5>3. Read' = Read /\ Unread' = Unread /\ Tip' = Tip /\ Given' = Given
          BY <3>1 DEF Read, Unread, Tip, Given
        <5>4. Holder' = Holder
          BY <3>1, <5>3 DEF Holder, Parent
        <5>5. InString' = InString /\ InLineComment' = InLineComment /\ InBlockComment' = InBlockComment
          BY <3>1 DEF InString, InLineComment, InBlockComment
        <5>6. SameMode(x)'
          BY <3>1, <4>1, <5>1, <5>3, <5>5 DEF Reading, SameMode
        <5>7. Branch(O, Tip)' /\ NamesFit(values, O)'
          <6>1. Branch(O, Tip)'
            <7>1. Branch(O, Tip)
              BY <4>1 DEF Reading
            <7>2. PICK t : t = Tip
              OBVIOUS
            <7>3. Branch(O, t)'
              BY <3>1, <7>1, <7>2 DEF Branch, Parent
            <7>4. QED
              BY <5>3, <7>2, <7>3
          <6>2. NamesFit(values, O)'
            BY <3>1, <4>1 DEF Reading, NamesFit
          <6>3. QED
            BY <6>1, <6>2
        <5>8. Spans(x.tokens, values, Given, O, Unread, from, to)'
          BY <3>1, <4>1, <5>1, <5>3 DEF Reading
        <5>9. Frontier(x, from, to)'
          <6>1. PICK h : h = Holder
            OBVIOUS
          <6>2. Ahead(x, h, from, to)' <=> Ahead(x, h, from, to)
            BY <3>1, <5>3 DEF Ahead, Between, Named
          <6>3. Frontier(x, from, to)
            BY <4>1, <5>1 DEF Reading
          <6>4. QED
            BY <3>1, <5>4, <5>5, <6>1, <6>2, <6>3 DEF Frontier
        <5>10. QED
          BY <5>2, <5>6, <5>7, <5>8, <5>9 DEF Reading
      <4>3. QED
        BY <4>2
    <3>3. Lexed' = Lexed
      BY <3>1 DEF Lexed
    <3>4. QED
      BY <1>0, <3>1, <3>2, <3>3 DEF TextOf
  <2>2. CASE Next
    <3>1. CASE pc # "scan"
      BY <2>2, <3>1, Leaving DEF TextOf
    <3>2. CASE pc = "scan" /\ first_pass = 0
      BY <1>0, <2>2, <3>2, PassZeroText
    <3>3. CASE pc = "scan" /\ first_pass # 0
      <4>1. first_pass = 1
        BY <1>0, <3>3 DEF Inv, ScanOK, TypeOK
      <4>2. CASE EndPass
        <5>1. pc' = "scan"
          BY <3>3, <4>1, <4>2 DEF EndPass
        <5>2. \E P, from2, to2 : Reading(Lex, P, from2, to2)'
          BY <1>0, <4>1, <4>2, FirstText
        <5>3. QED
          BY <5>1, <5>2 DEF TextOf
      <4>3. CASE ~EndPass
        <5>1. UNCHANGED first_pass /\ pc' # "returned"
          <6>1. UNCHANGED first_pass
            BY <2>2, <3>3, <4>3, Leaving
          <6>2. pc' # "returned"
            BY <2>2, <3>3, <4>3, OnlyEndReturns
          <6>3. QED
            BY <6>1, <6>2
        <5>2. QED
          BY <4>1, <5>1 DEF TextOf
      <4>4. QED
        BY <4>2, <4>3
    <3>4. QED
      BY <3>1, <3>2, <3>3
  <2>3. QED
    BY <2>1, <2>2
<1>2. QED
  BY <1>0, <1>1 DEF TextInv

(* While pass 0 runs, the tree it builds is written exactly where the text *)
(* it has read says; at the end, all of the text.                          *)
THEOREM TextInvariance == Spec => []TextInv
BY InitText, StepText, PTL DEF Spec

----------------------------------------------------------------------------
(***************************************************************************)
(* The tree written down: each value is the part of the text it came from. *)
(***************************************************************************)
(* A token by itself. *)
LEMMA OneToken ==
    ASSUME NEW T \in Seq(Tokens), NEW a \in 1 .. Len(T)
    PROVE  SubSeq(T, a, a) = <<T[a]>>
<1>1. Len(T) \in Nat /\ a \in Int /\ a + 1 \in Int /\ a < a + 1 /\ a \in a .. Len(T)
  <2>1. Len(T) \in Nat
    OBVIOUS
  <2>2. QED
    BY <2>1
<1>2. SubSeq(T, a, a) = <<T[a]>> \o SubSeq(T, a + 1, a)
  BY <1>1, SubSeqRecursiveFirst
<1>3. SubSeq(T, a + 1, a) = <<>>
  BY <1>1, SubSeqEmpty
<1>4. <<T[a]>> \in Seq(Tokens)
  OBVIOUS
<1>5. <<T[a]>> \o <<>> = <<T[a]>>
  BY <1>4, ConcatEmptySeq
<1>6. QED
  BY <1>2, <1>3, <1>5

(* Two parts behind one another. *)
LEMMA JoinedParts ==
    ASSUME NEW T \in Seq(Tokens), NEW a \in Nat, NEW b \in Nat, NEW c \in Nat,
           1 <= a, a <= b + 1, b <= c, c <= Len(T)
    PROVE  SubSeq(T, a, b) \o SubSeq(T, b + 1, c) = SubSeq(T, a, c)
<1>1. Len(T) \in Nat
  OBVIOUS
<1>2. a \in 1 .. Len(T) + 1 /\ b \in a - 1 .. Len(T) /\ c \in b .. Len(T)
  BY <1>1
<1>3. QED
  BY <1>2, ConcatAdjacentSubSeq

(* Two tokens. *)
LEMMA TwoTokens ==
    ASSUME NEW T \in Seq(Tokens), NEW a \in Nat, 1 <= a, a + 1 <= Len(T)
    PROVE  SubSeq(T, a, a + 1) = <<T[a], T[a + 1]>>
<1>1. Len(T) \in Nat
  OBVIOUS
<1>2. a \in 1 .. Len(T) /\ a + 1 \in 1 .. Len(T) /\ a + 1 \in Nat
  BY <1>1
<1> DEFINE s == SubSeq(T, a, a + 1)
           u == <<T[a], T[a + 1]>>
<1>3. \A i \in a .. a + 1 : T[i] \in Tokens
  <2>1. \A i \in a .. a + 1 : i \in 1 .. Len(T)
    BY <1>1
  <2>2. QED
    BY <2>1, ElementOfSeq
<1>4. s \in Seq(Tokens) /\ Len(s) = 2 /\ s[1] = T[a] /\ s[2] = T[a + 1]
  <2>1. a \in Int /\ a + 1 \in Int /\ a <= a + 1 /\ (a + 1) - a + 1 = 2
    OBVIOUS
  <2>2. s \in Seq(Tokens) /\ Len(s) = 2 /\ \A i \in 1 .. 2 : s[i] = T[a + i - 1]
    <3>1. s \in Seq(Tokens)
      BY <1>3, <2>1, SubSeqProperties
    <3>2. Len(s) = (a + 1) - a + 1
      BY <1>3, <2>1, SubSeqProperties
    <3>3. \A i \in 1 .. (a + 1) - a + 1 : s[i] = T[a + i - 1]
      BY <1>3, <2>1, SubSeqProperties
    <3>4. QED
      BY <2>1, <3>1, <3>2, <3>3
  <2>3. a + 1 - 1 = a /\ a + 2 - 1 = a + 1 /\ 1 \in 1 .. 2 /\ 2 \in 1 .. 2
    OBVIOUS
  <2> HIDE DEF s
  <2>4. s[1] = T[a + 1 - 1] /\ s[2] = T[a + 2 - 1]
    BY <2>2, <2>3
  <2>5. QED
    BY <2>2, <2>3, <2>4
<1>5. u \in Seq(Tokens) /\ Len(u) = 2 /\ u[1] = T[a] /\ u[2] = T[a + 1]
  <2>1. T[a] \in Tokens /\ T[a + 1] \in Tokens
    BY <1>2
  <2>2. QED
    BY <2>1
<1> HIDE DEF s, u
<1>6. \A i \in 1 .. Len(s) : s[i] = u[i]
  BY <1>4, <1>5
<1>7. s = u
  BY <1>4, <1>5, <1>6, SeqEqual
<1>8. QED
  BY <1>7 DEF s, u

(* What is in front of an entry: a comma, and the name of an entry of an object. *)
Front(v, i) ==
    (IF i = 1 THEN <<>> ELSE <<Mark(",")>>)
      \o (IF v.type = "object" THEN <<StringOf(v.keys[i]), Mark(":")>> ELSE <<>>)

(* It is what stands in the text between two entries. *)
LEMMA FrontText ==
    ASSUME NEW T \in Seq(Tokens), NEW v \in Records, NEW i \in Nat, NEW e \in Nat, NEW f \in Nat,
           1 <= e, f <= Len(T), PutAt(T, v, i, e, f)
    PROVE  e < f /\ Front(v, i) = SubSeq(T, e + 1, f - 1)
<1> DEFINE h == IF i = 1 THEN e ELSE e + 1
           C == IF i = 1 THEN <<>> ELSE <<Mark(",")>>
           N == IF v.type = "object" THEN <<StringOf(v.keys[i]), Mark(":")>> ELSE <<>>
<1>0. Len(T) \in Nat
  OBVIOUS
<1>1. h \in Nat /\ e <= h /\ h <= e + 1
  OBVIOUS
<1>2. i # 1 => T[e + 1] = Mark(",")
  BY DEF PutAt
<1>3. v.type = "object" => T[h + 1] = StringOf(v.keys[i]) /\ T[h + 2] = Mark(":") /\ f = h + 3
  BY DEF PutAt
<1>4. v.type # "object" => f = h + 1
  BY DEF PutAt
<1> HIDE DEF h
<1>5. h < f
  BY <1>1, <1>3, <1>4
<1>6. C = SubSeq(T, e + 1, h)
  <2>1. CASE i = 1
    <3>1. h = e /\ e + 1 \in Int /\ e \in Int /\ e < e + 1
      BY <2>1 DEF h
    <3>2. SubSeq(T, e + 1, e) = <<>>
      BY <3>1, SubSeqEmpty
    <3>3. QED
      BY <2>1, <3>1, <3>2
  <2>2. CASE i # 1
    <3>1. h = e + 1
      BY <2>2 DEF h
    <3>2. e + 1 \in 1 .. Len(T)
      BY <1>0, <1>1, <1>5, <3>1
    <3>3. SubSeq(T, e + 1, e + 1) = <<T[e + 1]>>
      BY <3>2, OneToken
    <3>4. QED
      BY <1>2, <2>2, <3>1, <3>3
  <2>3. QED
    BY <2>1, <2>2
<1>7. N = SubSeq(T, h + 1, f - 1)
  <2>1. CASE v.type = "object"
    <3>1. f - 1 = (h + 1) + 1 /\ h + 2 = (h + 1) + 1 /\ h + 1 \in Nat /\ 1 <= h + 1 /\ (h + 1) + 1 <= Len(T)
      BY <1>0, <1>1, <1>3, <2>1
    <3>2. SubSeq(T, h + 1, (h + 1) + 1) = <<T[h + 1], T[(h + 1) + 1]>>
      BY <3>1, TwoTokens
    <3>3. T[h + 1] = StringOf(v.keys[i]) /\ T[(h + 1) + 1] = Mark(":")
      BY <1>3, <2>1, <3>1
    <3>4. QED
      BY <2>1, <3>1, <3>2, <3>3
  <2>2. CASE v.type # "object"
    <3>1. f - 1 = h /\ h + 1 \in Int /\ h \in Int /\ h < h + 1
      BY <1>1, <1>4, <2>2
    <3>2. SubSeq(T, h + 1, h) = <<>>
      BY <3>1, SubSeqEmpty
    <3>3. QED
      BY <2>2, <3>1, <3>2
  <2>3. QED
    BY <2>1, <2>2
<1> HIDE DEF C, N
<1>8. C \o N = SubSeq(T, e + 1, f - 1)
  <2>1. e + 1 \in Nat /\ h \in Nat /\ f - 1 \in Nat /\ 1 <= e + 1 /\ e + 1 <= h + 1
        /\ h <= f - 1 /\ f - 1 <= Len(T)
    BY <1>0, <1>1, <1>5
  <2>2. SubSeq(T, e + 1, h) \o SubSeq(T, h + 1, f - 1) = SubSeq(T, e + 1, f - 1)
    BY <2>1, JoinedParts
  <2>3. QED
    BY <1>6, <1>7, <2>2
<1>9. e < f
  BY <1>1, <1>5
<1>10. Front(v, i) = SubSeq(T, e + 1, f - 1)
  BY <1>8 DEF C, N, Front
<1>11. QED
  BY <1>9, <1>10

(* An entry, when its value has been written. *)
LEMMA EntryText ==
    ASSUME NEW T \in Seq(Tokens), NEW v \in Records, NEW i \in Nat, NEW W,
           NEW e \in Nat, NEW f \in Nat, NEW g \in Nat,
           1 <= e, f <= g, g <= Len(T), PutAt(T, v, i, e, f),
           W[v.kids[i]] = SubSeq(T, f, g)
    PROVE  e < f /\ Entry(v, i, W) = SubSeq(T, e + 1, g)
<1>0. Len(T) \in Nat
  OBVIOUS
<1>1. e < f /\ Front(v, i) = SubSeq(T, e + 1, f - 1)
  <2>1. f <= Len(T)
    BY <1>0
  <2>2. QED
    BY <2>1, FrontText
<1>2. Entry(v, i, W) = Front(v, i) \o W[v.kids[i]]
  BY DEF Entry, Front
<1>3. SubSeq(T, e + 1, f - 1) \o SubSeq(T, (f - 1) + 1, g) = SubSeq(T, e + 1, g)
  <2>1. e + 1 \in Nat /\ f - 1 \in Nat /\ 1 <= e + 1 /\ e + 1 <= (f - 1) + 1 /\ f - 1 <= g
    BY <1>1
  <2>2. QED
    BY <2>1, JoinedParts
<1>4. (f - 1) + 1 = f
  OBVIOUS
<1>5. QED
  BY <1>1, <1>2, <1>3, <1>4

(* Entries are written one behind the other. *)
ListedUpTo(v, W, f) ==
    f = [i \in 0 .. v.length |-> IF i = 0 THEN <<>> ELSE f[i - 1] \o Entry(v, i, W)]

(* What has been built like the list of all entries is that list. *)
LEMMA ListedIs ==
    ASSUME NEW v, v.length \in Nat, NEW W, NEW F, ListedUpTo(v, W, F)
    PROVE  Listed(v, W) = F[v.length]
<1>1. \E f : ListedUpTo(v, W, f) /\ Listed(v, W) = f[v.length]
  BY DEF Listed, ListedUpTo
<1>2. PICK f : ListedUpTo(v, W, f) /\ Listed(v, W) = f[v.length]
  BY <1>1
<1> DEFINE Bad == {i \in Nat : i <= v.length /\ f[i] # F[i]}
<1>3. ASSUME Bad # {}
      PROVE  FALSE
  <2>1. PICK x \in Bad : \A y \in Bad : x <= y
    BY <1>3, Least
  <2>2. x \in Nat /\ x \in 0 .. v.length /\ f[x] # F[x]
    BY <2>1
  <2>3. /\ f[x] = IF x = 0 THEN <<>> ELSE f[x - 1] \o Entry(v, x, W)
        /\ F[x] = IF x = 0 THEN <<>> ELSE F[x - 1] \o Entry(v, x, W)
    <3>1. f[x] = IF x = 0 THEN <<>> ELSE f[x - 1] \o Entry(v, x, W)
      BY <1>2, <2>2 DEF ListedUpTo
    <3>2. F[x] = IF x = 0 THEN <<>> ELSE F[x - 1] \o Entry(v, x, W)
      BY <2>2 DEF ListedUpTo
    <3>3. QED
      BY <3>1, <3>2
  <2>4. CASE x = 0
    BY <2>2, <2>3, <2>4
  <2>5. CASE x # 0
    <3>1. x - 1 \in Nat /\ x - 1 <= v.length /\ ~(x <= x - 1)
      BY <2>2, <2>5
    <3>2. f[x - 1] = F[x - 1]
      BY <2>1, <3>1
    <3>3. QED
      BY <2>2, <2>3, <2>5, <3>2
  <2>6. QED
    BY <2>4, <2>5
<1>4. f[v.length] = F[v.length]
  BY <1>3
<1>5. QED
  BY <1>2, <1>4

(* W has written value c: it is a part of the text. *)
Copied(T, c, from, to, W) ==
    /\ from[c] <= to[c] /\ to[c] \in 1 .. Len(T)
    /\ W[c] = SubSeq(T, from[c], to[c])

(* W has written what is in value n. *)
EntriesCopied(T, vals, n, from, to, W) ==
    \A i \in 1 .. Len(vals[n].kids) :
        vals[n].kids[i] \in 1 .. Len(vals) /\ Copied(T, vals[n].kids[i], from, to, W)

(* The entries of v are the text behind a, up to e. *)
ListedTo(T, v, a, e, W) ==
    e \in Nat /\ a <= e /\ e <= Len(T) /\ Listed(v, W) = SubSeq(T, a + 1, e)

(* The next number is a number, and greater. *)
LEMMA NextNumber == \A a \in Nat : a \in Int /\ a + 1 \in Int /\ a < a + 1
OBVIOUS

(* If the entries of n have been written they are the text up to the last. *)
LEMMA ListedText ==
    ASSUME NEW T \in Seq(Tokens), NEW vals \in Seq(Records), NEW n \in 1 .. Len(vals), NEW W,
           NEW from \in [1 .. Len(vals) -> Nat], NEW to \in [1 .. Len(vals) -> Nat],
           Begun(T, vals, n, from, to), vals[n].length = Len(vals[n].kids),
           EntriesCopied(T, vals, n, from, to, W),
           NEW e, e = Behind(vals[n], n, Len(vals[n].kids), from, to)
    PROVE  ListedTo(T, vals[n], from[n], e, W)
<1> DEFINE v == vals[n]
           B(i) == Behind(v, n, i, from, to)
           k == Len(v.kids)
<1>1. v \in Records /\ v.kids \in Seq(Nat) /\ k \in Nat /\ Len(T) \in Nat
  <2>1. v \in Records
    BY ElementOfSeq
  <2>2. v.kids \in Seq(Nat)
    BY <2>1, RecordFields
  <2>3. k \in Nat
    BY <2>2, LenProperties
  <2>4. Len(T) \in Nat
    OBVIOUS
  <2>5. QED
    BY <2>1, <2>2, <2>3, <2>4
<1>2. from[n] \in 1 .. Len(T) /\ \A i \in 1 .. k : PutAt(T, v, i, B(i - 1), from[v.kids[i]])
  BY DEF Begun
<1>3. B(0) = from[n] /\ \A i \in 1 .. k : B(i) = to[v.kids[i]]
  <2>1. \A i \in 1 .. k : i # 0
    OBVIOUS
  <2>2. QED
    BY <2>1 DEF Behind
<1>4. \A i \in 1 .. k : /\ v.kids[i] \in 1 .. Len(vals) /\ from[v.kids[i]] \in Nat
                        /\ Copied(T, v.kids[i], from, to, W)
  BY DEF EntriesCopied
<1>5. e = B(k) /\ v.length = k
  OBVIOUS
<1> HIDE DEF B
<1>6. \A i \in 0 .. k : B(i) \in 1 .. Len(T)
  <2>1. ASSUME NEW i \in 0 .. k
        PROVE  B(i) \in 1 .. Len(T)
    <3>1. CASE i = 0
      BY <1>2, <1>3, <3>1
    <3>2. CASE i # 0
      <4>1. i \in 1 .. k
        BY <1>1, <3>2
      <4>2. QED
        BY <1>3, <1>4, <4>1 DEF Copied
    <3>3. QED
      BY <3>1, <3>2
  <2>2. QED
    BY <2>1
<1> HIDE DEF k, v
<1>0. k \in Nat /\ Len(T) \in Nat
  BY <1>1
<1>01. from[n] \in Nat /\ 1 <= from[n]
  BY <1>2
<1>7. ASSUME NEW i \in 1 .. k
      PROVE  B(i - 1) < B(i) /\ Entry(v, i, W) = SubSeq(T, B(i - 1) + 1, B(i))
  <2> DEFINE a == B(i - 1)
             f == from[v.kids[i]]
             g == to[v.kids[i]]
  <2>1. i - 1 \in 0 .. k /\ i \in Nat
    BY <1>1
  <2>2. a \in Nat /\ 1 <= a
    BY <1>1, <1>6, <2>1
  <2>3. f \in Nat /\ f <= g /\ g \in 1 .. Len(T) /\ W[v.kids[i]] = SubSeq(T, f, g)
    BY <1>4 DEF Copied
  <2>4. PutAt(T, v, i, a, f) /\ B(i) = g
    BY <1>2, <1>3
  <2> HIDE DEF a, f, g
  <2>5. g \in Nat /\ g <= Len(T)
    BY <1>1, <2>3
  <2>6. a < f /\ Entry(v, i, W) = SubSeq(T, a + 1, g)
    <3>1. v \in Records
      BY <1>1
    <3>2. i \in Nat /\ a \in Nat /\ 1 <= a
      BY <2>1, <2>2
    <3>3. PutAt(T, v, i, a, f) /\ W[v.kids[i]] = SubSeq(T, f, g) /\ f \in Nat /\ f <= g
      BY <2>3, <2>4
    <3>4. QED
      BY <2>5, <3>1, <3>2, <3>3, EntryText
  <2>7. a < g
    BY <2>2, <2>3, <2>5, <2>6
  <2>8. QED
    BY <2>4, <2>6, <2>7 DEF a
<1>8. \A i \in 0 .. k : from[n] <= B(i)
  <2> DEFINE Bad == {i \in Nat : i <= k /\ ~(from[n] <= B(i))}
  <2>1. ASSUME Bad # {}
        PROVE  FALSE
    <3>1. PICK x \in Bad : \A y \in Bad : x <= y
      BY <2>1, Least
    <3>2. x # 0
      BY <1>2, <1>3, <1>1, <3>1
    <3>3. x \in 1 .. k /\ x - 1 \in Nat /\ x - 1 <= k /\ ~(x <= x - 1) /\ x - 1 \in 0 .. k /\ x \in 0 .. k
      BY <1>1, <3>1, <3>2
    <3>4. from[n] <= B(x - 1)
      BY <3>1, <3>3
    <3>5. B(x - 1) < B(x)
      BY <1>7, <3>3
    <3>6. B(x - 1) \in 1 .. Len(T) /\ B(x) \in 1 .. Len(T)
      BY <1>6, <3>3
    <3>7. from[n] <= B(x)
      BY <1>1, <1>2, <3>4, <3>5, <3>6
    <3>8. QED
      BY <3>1, <3>7
  <2>2. Bad = {}
    BY <2>1
  <2>3. ASSUME NEW i \in 0 .. k
        PROVE  from[n] <= B(i)
    <3>1. i \in Nat /\ i <= k /\ i \notin Bad
      BY <1>0, <2>2
    <3>2. QED
      BY <3>1
  <2> HIDE DEF Bad
  <2>4. QED
    BY <2>3
<1> DEFINE F == [i \in 0 .. k |-> SubSeq(T, from[n] + 1, B(i))]
<1>9. ASSUME NEW i \in 0 .. k
      PROVE  F[i] = IF i = 0 THEN <<>> ELSE F[i - 1] \o Entry(v, i, W)
  <2>1. CASE i = 0
    <3>1. F[i] = SubSeq(T, from[n] + 1, from[n])
      BY <1>3, <2>1
    <3>2. from[n] + 1 \in Int /\ from[n] \in Int /\ from[n] < from[n] + 1
      BY <1>01, NextNumber, Zenon
    <3>3. SubSeq(T, from[n] + 1, from[n]) = <<>>
      BY <3>2, SubSeqEmpty
    <3>4. QED
      BY <2>1, <3>1, <3>3
  <2>2. CASE i # 0
    <3>1. i \in 1 .. k /\ i - 1 \in 0 .. k
      BY <1>1, <2>2
    <3>2. F[i] = SubSeq(T, from[n] + 1, B(i)) /\ F[i - 1] = SubSeq(T, from[n] + 1, B(i - 1))
      BY <3>1
    <3>3. Entry(v, i, W) = SubSeq(T, B(i - 1) + 1, B(i)) /\ B(i - 1) < B(i)
      BY <1>7, <3>1
    <3>4. B(i - 1) \in 1 .. Len(T) /\ B(i) \in 1 .. Len(T) /\ from[n] <= B(i - 1)
      BY <1>6, <1>8, <3>1
    <3>5. /\ from[n] + 1 \in Nat /\ B(i - 1) \in Nat /\ B(i) \in Nat /\ 1 <= from[n] + 1
          /\ from[n] + 1 <= B(i - 1) + 1 /\ B(i - 1) <= B(i) /\ B(i) <= Len(T)
      BY <1>0, <1>01, <3>3, <3>4
    <3>6. SubSeq(T, from[n] + 1, B(i - 1)) \o SubSeq(T, B(i - 1) + 1, B(i)) = SubSeq(T, from[n] + 1, B(i))
      BY <3>5, JoinedParts
    <3> HIDE DEF F
    <3>7. QED
      BY <2>2, <3>2, <3>3, <3>6
  <2>3. QED
    BY <2>1, <2>2
<1>10. F[k] = SubSeq(T, from[n] + 1, B(k))
  <2>1. k \in 0 .. k
    BY <1>0
  <2>2. QED
    BY <2>1
<1>11. F = [i \in 0 .. k |-> IF i = 0 THEN <<>> ELSE F[i - 1] \o Entry(v, i, W)]
  BY <1>9
<1> HIDE DEF F
<1>12. ListedUpTo(v, W, F)
  BY <1>5, <1>11 DEF ListedUpTo
<1>13. Listed(v, W) = F[k]
  <2>1. v.length \in Nat
    BY <1>1, <1>5
  <2>2. Listed(v, W) = F[v.length]
    BY <1>12, <2>1, ListedIs
  <2>3. QED
    BY <1>5, <2>2
<1>14. B(k) \in 1 .. Len(T) /\ from[n] <= B(k)
  BY <1>1, <1>6, <1>8
<1>15. e \in Nat /\ from[n] <= e /\ e <= Len(T)
  BY <1>1, <1>5, <1>14
<1>16. QED
  BY <1>5, <1>10, <1>13, <1>15 DEF v, ListedTo

(* A value is written with its brackets, or by one token. *)
LEMMA WrittenIs ==
    ASSUME NEW v, NEW W
    PROVE  /\ v.type \in Containers =>
                WrittenWith(v, W) = <<Opening(v)>> \o Listed(v, W) \o <<Closing(v)>>
           /\ v.type \notin Containers => WrittenWith(v, W) = <<Single(v)>>
<1>1. CASE v.type = "array"
  <2>1. WrittenWith(v, W) = <<Mark("[")>> \o Listed(v, W) \o <<Mark("]")>>
    BY <1>1 DEF WrittenWith
  <2>2. Opening(v) = Mark("[") /\ Closing(v) = Mark("]")
    BY <1>1 DEF Opening, Closing
  <2>3. v.type \in Containers
    BY <1>1 DEF Containers
  <2>4. QED
    BY <2>1, <2>2, <2>3
<1>2. CASE v.type = "object"
  <2>1. WrittenWith(v, W) = <<Mark("{")>> \o Listed(v, W) \o <<Mark("}")>>
    BY <1>2 DEF WrittenWith
  <2>2. Opening(v) = Mark("{") /\ Closing(v) = Mark("}")
    BY <1>2 DEF Opening, Closing
  <2>3. v.type \in Containers
    BY <1>2 DEF Containers
  <2>4. QED
    BY <2>1, <2>2, <2>3
<1>3. CASE v.type \notin {"array", "object"}
  <2>1. v.type \notin Containers
    BY <1>3 DEF Containers
  <2>2. WrittenWith(v, W) = <<Single(v)>>
    BY <1>3 DEF WrittenWith, Single
  <2>3. QED
    BY <2>1, <2>2
<1>4. QED
  BY <1>1, <1>2, <1>3

(* What a value and what is in it are written as. *)
LEMMA WrittenPart ==
    ASSUME NEW T \in Seq(Tokens), NEW vals \in Seq(Records), NEW n \in 1 .. Len(vals), NEW W,
           NEW from \in [1 .. Len(vals) -> Nat], NEW to \in [1 .. Len(vals) -> Nat],
           Begun(T, vals, n, from, to), WholeAt(T, vals, n, from, to),
           vals[n].type \in Containers => vals[n].length = Len(vals[n].kids),
           EntriesCopied(T, vals, n, from, to, W)
    PROVE  /\ from[n] <= to[n] /\ to[n] \in 1 .. Len(T)
           /\ WrittenWith(vals[n], W) = SubSeq(T, from[n], to[n])
<1>0. Len(T) \in Nat
  OBVIOUS
<1>1. from[n] \in 1 .. Len(T) /\ to[n] \in 1 .. Len(T)
  BY DEF Begun, WholeAt
<1>2. CASE vals[n].type \in Containers
  <2>0. PICK e : e = Behind(vals[n], n, Len(vals[n].kids), from, to)
    OBVIOUS
  <2>1. to[n] = e + 1 /\ T[to[n]] = Closing(vals[n])
    BY <1>2, <2>0 DEF WholeAt
  <2>2. T[from[n]] = Opening(vals[n])
    BY <1>2 DEF Begun
  <2>3. /\ e \in Nat /\ from[n] <= e /\ e <= Len(T)
        /\ Listed(vals[n], W) = SubSeq(T, from[n] + 1, e)
    <3>1. vals[n].length = Len(vals[n].kids)
      BY <1>2
    <3>2. ListedTo(T, vals[n], from[n], e, W)
      BY <2>0, <3>1, ListedText
    <3>3. QED
      BY <3>2 DEF ListedTo
  <2>4. from[n] <= to[n]
    BY <1>1, <2>1, <2>3
  <2>5. WrittenWith(vals[n], W)
          = <<Opening(vals[n])>> \o Listed(vals[n], W) \o <<Closing(vals[n])>>
    BY <1>2, WrittenIs
  <2>6. SubSeq(T, from[n], from[n]) = <<T[from[n]]>> /\ SubSeq(T, to[n], to[n]) = <<T[to[n]]>>
    BY <1>1, OneToken
  <2> DEFINE f == from[n]
             g == to[n]
  <2>7. /\ f \in Nat /\ g \in Nat /\ 1 <= f /\ f <= f + 1 /\ f <= e /\ e <= Len(T) /\ e <= g
        /\ g <= Len(T) /\ f <= e + 1 /\ g = e + 1
    BY <1>0, <1>1, <2>1, <2>3
  <2> HIDE DEF f, g
  <2>8. SubSeq(T, f, f) \o SubSeq(T, f + 1, e) = SubSeq(T, f, e)
    BY <2>3, <2>7, JoinedParts
  <2>9. SubSeq(T, f, e) \o SubSeq(T, e + 1, g) = SubSeq(T, f, g)
    BY <2>3, <2>7, JoinedParts
  <2>10. <<Opening(vals[n])>> = SubSeq(T, f, f) /\ <<Closing(vals[n])>> = SubSeq(T, e + 1, g)
         /\ Listed(vals[n], W) = SubSeq(T, f + 1, e)
    BY <2>1, <2>2, <2>3, <2>6 DEF f, g
  <2>11. WrittenWith(vals[n], W) = SubSeq(T, f, g)
    BY <2>5, <2>8, <2>9, <2>10
  <2>12. QED
    BY <1>1, <2>4, <2>11 DEF f, g
<1>3. CASE vals[n].type \notin Containers
  <2>1. to[n] = from[n] /\ T[to[n]] = Single(vals[n])
    BY <1>3 DEF WholeAt
  <2>2. WrittenWith(vals[n], W) = <<Single(vals[n])>>
    BY <1>3, WrittenIs
  <2>3. SubSeq(T, to[n], to[n]) = <<T[to[n]]>>
    BY <1>1, OneToken
  <2>4. from[n] <= to[n]
    BY <1>1, <2>1
  <2>5. WrittenWith(vals[n], W) = SubSeq(T, from[n], to[n])
    BY <2>1, <2>2, <2>3
  <2>6. QED
    BY <1>1, <2>4, <2>5
<1>4. QED
  BY <1>2, <1>3

(* Entries come after what they are in. *)
Ordered(vals) == \A n \in 1 .. Len(vals) : vals[n].parent < n

(* What writes every value is the text: by going from the last value to the first. *)
LEMMA AllCopied ==
    ASSUME NEW T \in Seq(Tokens), NEW vals \in Seq(Records), NEW r, NEW from, NEW to,
           WholeText(T, vals, r, from, to), Ordered(vals), NEW W,
           \A n \in 1 .. Len(vals) :
             EntriesCopied(T, vals, n, from, to, W) =>
                W[n] \in {WrittenWith(vals[n], W), SubSeq(T, from[n], to[n])}
    PROVE  \A n \in 1 .. Len(vals) : Copied(T, n, from, to, W)
<1>0. Len(vals) \in Nat /\ Len(T) \in Nat
  OBVIOUS
<1>1. from \in [1 .. Len(vals) -> Nat] /\ to \in [1 .. Len(vals) -> Nat]
  BY DEF WholeText, Spans
<1>2. ASSUME NEW n \in 1 .. Len(vals)
      PROVE  /\ Begun(T, vals, n, from, to) /\ WholeAt(T, vals, n, from, to)
             /\ vals[n].type \in Containers => vals[n].length = Len(vals[n].kids)
  BY DEF WholeText, Spans
<1>3. ASSUME NEW n \in 1 .. Len(vals), NEW i \in 1 .. Len(vals[n].kids)
      PROVE  /\ vals[n].kids[i] \in 1 .. Len(vals) /\ vals[vals[n].kids[i]].parent = n
             /\ n < vals[n].kids[i]
  <2>1. vals[n].kids[i] \in 1 .. Len(vals) /\ vals[vals[n].kids[i]].parent = n
    BY DEF WholeText, Spans
  <2>2. QED
    BY <2>1 DEF Ordered
<1> DEFINE Bad == {q \in Nat : q < Len(vals) /\ ~Copied(T, Len(vals) - q, from, to, W)}
<1>4. ASSUME Bad # {}
      PROVE  FALSE
  <2>1. PICK q \in Bad : \A y \in Bad : q <= y
    BY <1>4, Least
  <2> DEFINE n == Len(vals) - q
  <2>2. n \in 1 .. Len(vals) /\ ~Copied(T, n, from, to, W)
    BY <1>0, <2>1
  <2>3. ASSUME NEW m \in 1 .. Len(vals), n < m
        PROVE  Copied(T, m, from, to, W)
    <3>1. Len(vals) - m \in Nat /\ ~(q <= Len(vals) - m) /\ Len(vals) - m < Len(vals)
          /\ Len(vals) - (Len(vals) - m) = m
      BY <1>0, <2>1, <2>3
    <3>2. Len(vals) - m \notin Bad
      BY <2>1, <3>1
    <3>3. QED
      BY <3>1, <3>2
  <2> HIDE DEF Bad, n
  <2>4. EntriesCopied(T, vals, n, from, to, W)
    BY <1>3, <2>2, <2>3 DEF EntriesCopied
  <2>5. /\ from[n] <= to[n] /\ to[n] \in 1 .. Len(T)
        /\ WrittenWith(vals[n], W) = SubSeq(T, from[n], to[n])
    BY <1>1, <1>2, <2>2, <2>4, WrittenPart, ZenonT(60)
  <2>6. W[n] \in {WrittenWith(vals[n], W), SubSeq(T, from[n], to[n])}
    BY <2>2, <2>4
  <2>7. Copied(T, n, from, to, W)
    BY <2>5, <2>6 DEF Copied
  <2>8. QED
    BY <2>2, <2>7
<1>5. ASSUME NEW n \in 1 .. Len(vals)
      PROVE  Copied(T, n, from, to, W)
  <2>1. Len(vals) - n \in Nat /\ Len(vals) - n < Len(vals) /\ Len(vals) - (Len(vals) - n) = n
    BY <1>0
  <2>2. Len(vals) - n \notin Bad
    BY <1>4
  <2>3. QED
    BY <2>1, <2>2
<1>6. QED
  BY <1>5

(* Each value written down with those in it. *)
WrittenUp(vals, W) == W = [n \in 1 .. Len(vals) |-> WrittenWith(vals[n], W)]

(* The tree can be written down, and it is the text. *)
LEMMA TextWrites ==
    ASSUME NEW T \in Seq(Tokens), NEW vals \in Seq(Records), NEW r, NEW from, NEW to,
           WholeText(T, vals, r, from, to), Ordered(vals)
    PROVE  /\ \E W : WrittenUp(vals, W)
           /\ \A W : WrittenUp(vals, W) => W[r] = T
<1>1. from \in [1 .. Len(vals) -> Nat] /\ to \in [1 .. Len(vals) -> Nat]
  BY DEF WholeText, Spans
<1>2. ASSUME NEW n \in 1 .. Len(vals)
      PROVE  /\ Begun(T, vals, n, from, to) /\ WholeAt(T, vals, n, from, to)
             /\ vals[n].type \in Containers => vals[n].length = Len(vals[n].kids)
             /\ \A i \in 1 .. Len(vals[n].kids) : vals[n].kids[i] \in 1 .. Len(vals)
  BY DEF WholeText, Spans
<1>3. \E W : WrittenUp(vals, W)
  <2> DEFINE W == [n \in 1 .. Len(vals) |-> SubSeq(T, from[n], to[n])]
  <2>1. \A n \in 1 .. Len(vals) : W[n] = SubSeq(T, from[n], to[n])
    OBVIOUS
  <2>2. DOMAIN W = 1 .. Len(vals) /\ W = [n \in 1 .. Len(vals) |-> W[n]]
    OBVIOUS
  <2> HIDE DEF W
  <2>3. \A n \in 1 .. Len(vals) : Copied(T, n, from, to, W)
    <3>1. \A n \in 1 .. Len(vals) :
            EntriesCopied(T, vals, n, from, to, W) =>
                W[n] \in {WrittenWith(vals[n], W), SubSeq(T, from[n], to[n])}
      BY <2>1
    <3>2. QED
      BY <3>1, AllCopied
  <2>4. ASSUME NEW n \in 1 .. Len(vals)
        PROVE  W[n] = WrittenWith(vals[n], W)
    <3>1. EntriesCopied(T, vals, n, from, to, W)
      BY <1>2, <2>3 DEF EntriesCopied
    <3>2. WrittenWith(vals[n], W) = SubSeq(T, from[n], to[n])
      BY <1>1, <1>2, <3>1, WrittenPart, ZenonT(60)
    <3>3. QED
      BY <2>1, <3>2
  <2>5. W = [n \in 1 .. Len(vals) |-> WrittenWith(vals[n], W)]
    BY <2>2, <2>4
  <2>6. QED
    BY <2>5 DEF WrittenUp
<1>4. ASSUME NEW W, WrittenUp(vals, W)
      PROVE  W[r] = T
  <2>1. \A n \in 1 .. Len(vals) : W[n] = WrittenWith(vals[n], W)
    BY <1>4 DEF WrittenUp
  <2>2. \A n \in 1 .. Len(vals) :
          EntriesCopied(T, vals, n, from, to, W) =>
             W[n] \in {WrittenWith(vals[n], W), SubSeq(T, from[n], to[n])}
    BY <2>1
  <2>3. \A n \in 1 .. Len(vals) : Copied(T, n, from, to, W)
    BY <2>2, AllCopied
  <2>4. r \in 1 .. Len(vals) /\ from[r] = 1 /\ to[r] = Len(T)
    BY DEF WholeText
  <2>5. W[r] = SubSeq(T, 1, Len(T))
    BY <2>3, <2>4 DEF Copied
  <2>6. SubSeq(T, 1, Len(T)) = T
    BY SubSeqFull
  <2>7. QED
    BY <2>5, <2>6
<1>5. QED
  BY <1>3, <1>4

(* The tokens of the text up to where the scanner is. *)
LEMMA LexedType == TypeOK => Lexed \in Seq(Tokens)
<1> SUFFICES ASSUME TypeOK
             PROVE  Lexed \in Seq(Tokens)
  OBVIOUS
<1>1. text \in Seq(Chars) /\ ptr - 1 \in 0 .. Len(text)
  BY Position
<1>2. Lexing(text)[ptr - 1] \in LexStates
  BY <1>1, LexingType
<1>3. QED
  BY <1>2, WithCommaType DEF Lexed

(* So the tree, written down, is the text. *)
LEMMA TextIsResult == TextInv => ResultIsTheText
<1> SUFFICES ASSUME TextInv, pc = "returned"
             PROVE  Written[root] = Lexed
  BY DEF ResultIsTheText
<1>1. Inv /\ TypeOK /\ TextOf
  BY DEF TextInv, TreeInv, PassesInv, Inv
<1>2. PICK from, to : WholeText(Lexed, values, root, from, to)
  BY <1>1 DEF TextOf
<1>3. values \in Seq(Records) /\ Lexed \in Seq(Tokens)
  BY <1>1, ChainIs, LexedType
<1>4. Ordered(values)
  BY <1>1, ParentBelow DEF Ordered, Parent
<1>5. \E W : WrittenUp(values, W)
  BY <1>2, <1>3, <1>4, TextWrites
<1>6. WrittenUp(values, Written)
  BY <1>5 DEF Written, WrittenUp
<1>7. QED
  BY <1>2, <1>3, <1>4, <1>6, TextWrites

(* What json_parse returns is the text: every value, name and length of it *)
(* in its place, and nothing else.                                         *)
THEOREM ResultIsText == Spec => []ResultIsTheText
<1>1. TextInv => ResultIsTheText
  BY TextIsResult
<1>2. QED
  BY <1>1, TextInvariance, PTL
=============================================================================
