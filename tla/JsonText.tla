------------------------------ MODULE JsonText ------------------------------
(***************************************************************************)
(* What json_parse promises of its result: it is the text.  The text is    *)
(* taken apart character by character, and the tree is written down again, *)
(* each without a look at the other or at the passes of the parser.        *)
(***************************************************************************)
EXTENDS JsonParser

(***************************************************************************)
(* The text as the grammar sees it: a token for each number, literal and   *)
(* string (with its length in bytes), no blanks or comments.  The parser   *)
(* allows a comma behind the last entry: a comma is a token when the next  *)
(* one is there, and is none in front of a closing bracket.                *)
(***************************************************************************)
Mark(b) == <<b, 0>>
StringOf(bytes) == <<"string", bytes>>
Number == <<"number", 0>>

LexStart == [mode |-> "out", bytes |-> 0, number |-> FALSE, comma |-> FALSE, tokens |-> <<>>]

WithComma(state) == IF state.comma THEN Append(state.tokens, Mark(",")) ELSE state.tokens

Emit(state, token) ==
    [LexStart EXCEPT !.tokens =
        Append(IF token \in {Mark("]"), Mark("}")} THEN state.tokens ELSE WithComma(state), token)]

LexChar(state, b) ==
    CASE state.mode = "escape" ->
           [state EXCEPT !.mode = "in", !.bytes = @ + (IF b = Unicode THEN 3 ELSE 1)]
      [] state.mode = "in" /\ b = Quote -> Emit(state, StringOf(state.bytes))
      [] state.mode = "in" /\ b = Backslash -> [state EXCEPT !.mode = "escape"]
      [] state.mode = "in" /\ b \notin {Quote, Backslash} -> [state EXCEPT !.bytes = @ + 1]
      [] state.mode = "line" -> [state EXCEPT !.mode = IF b = Newline THEN "out" ELSE @]
      [] state.mode = "block" -> [state EXCEPT !.mode = IF b = EndComment THEN "out" ELSE @]
      [] state.mode = "out" /\ b \in {Blank, Newline, NUL} -> [state EXCEPT !.number = FALSE]
      [] state.mode = "out" /\ b = Quote -> [state EXCEPT !.mode = "in", !.number = FALSE]
      [] state.mode = "out" /\ b = LineComment -> [state EXCEPT !.mode = "line", !.number = FALSE]
      [] state.mode = "out" /\ b = BlockComment -> [state EXCEPT !.mode = "block", !.number = FALSE]
      [] state.mode = "out" /\ b = "," ->
           [state EXCEPT !.number = FALSE, !.comma = TRUE, !.tokens = WithComma(state)]
      [] state.mode = "out" /\ b \in NumberChars ->
           IF state.number THEN state ELSE [Emit(state, Number) EXCEPT !.number = TRUE]
      [] OTHER -> Emit(state, Mark(b))

(* The states of the lexer behind each character of t. *)
Lexing(t) ==
    LET lex[k \in 0 .. Len(t)] == IF k = 0 THEN LexStart ELSE LexChar(lex[k - 1], t[k])
    IN lex

(* The text up to the NUL that ends it. *)
Lexed == WithComma(Lexing(text)[ptr - 1])

----------------------------------------------------------------------------
(* A value, written down with those that W has written. *)
Entry(v, i, W) ==
    (IF i = 1 THEN <<>> ELSE <<Mark(",")>>)
      \o (IF v.type = "object" THEN <<StringOf(v.keys[i]), Mark(":")>> ELSE <<>>)
      \o W[v.kids[i]]

Listed(v, W) ==
    LET first[i \in 0 .. v.length] == IF i = 0 THEN <<>> ELSE first[i - 1] \o Entry(v, i, W)
    IN first[v.length]

WrittenWith(v, W) ==
    CASE v.type = "array" -> <<Mark("[")>> \o Listed(v, W) \o <<Mark("]")>>
      [] v.type = "object" -> <<Mark("{")>> \o Listed(v, W) \o <<Mark("}")>>
      [] v.type = "string" -> <<StringOf(v.length)>>
      [] v.type = "literal" -> <<Mark(Literal)>>
      [] OTHER -> <<Number>>

Written[n \in 1 .. Len(values)] == WrittenWith(values[n], Written)

(***************************************************************************)
(* What json_parse returns is the text: every value, name and length of it *)
(* in its place, and nothing else.  So no text is accepted that is not a   *)
(* document, but for the comma, and for what may look like a number.       *)
(***************************************************************************)
ResultIsTheText == pc = "returned" => Written[root] = Lexed
=============================================================================
