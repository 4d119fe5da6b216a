---------------------------- MODULE MCJsonParser ----------------------------
(***************************************************************************)
(* JsonParser for TLC: every text up to a length, and all documents of a   *)
(* reference grammar up to a depth.                                        *)
(***************************************************************************)
EXTENDS JsonText, SequencesExt

(* Texts are made up while they are read. *)
AnyText == {<<>>}

MCAlphabet == Chars \ {NUL}
WithoutComments == MCAlphabet \ {Newline, LineComment, BlockComment, EndComment, Slash}

----------------------------------------------------------------------------
(***************************************************************************)
(* Documents of the grammar, by depth: scalars, and arrays and objects of  *)
(* up to two entries, with a last comma or without; with blanks, newlines  *)
(* and comments, or none; and the example of README.md:61-70.              *)
(***************************************************************************)
Numbers == {<<"0">>, <<"-", "1", "0">>, <<"0", ".", "0", "1">>, <<"1", "e", "-", "0", "1">>,
            <<"1", ".", "1", "e", "0">>}
Strings == {<<Quote, Quote>>, <<Quote, Backslash, Quote, Other, Quote>>,
            <<Quote, Backslash, Unicode, Quote>>}
Scalars == Numbers \cup Strings \cup {<<Literal>>}

Lists(entries, open, close) ==
    {open \o close}
      \cup {open \o a \o last \o close : a \in entries, last \in {<<>>, <<",">>}}
      \cup {open \o a \o <<",">> \o b \o close : a \in entries, b \in entries}

Entries(kids) == {name \o <<":">> \o kid : name \in Strings, kid \in kids}

Nested(kids, named) ==
    Lists(kids, <<"[">>, <<"]">>) \cup Lists(Entries(named), <<"{">>, <<"}">>)

Small == {<<"0">>, <<Quote, Other, Quote>>}
Inner == Nested({<<"0">>}, {<<"0">>})
Documents ==
    Scalars \cup Nested(Scalars, Small)
      \cup Nested(Inner, {<<"[", "]">>, <<"[", "0", "]">>})

LineSkipped == <<LineComment, Other, EndComment, Newline, LineComment, Newline>>
BlockSkipped == <<BlockComment, Newline, EndComment, BlockComment, EndComment>>

Commented(t) == FlattenSeq([k \in DOMAIN t |->
    CASE t[k] \in {"[", "]", ","} -> <<Blank, t[k]>> \o LineSkipped
      [] t[k] \in {"{", "}", ":"} -> <<Newline, t[k]>> \o BlockSkipped
      [] OTHER -> <<t[k]>>])

ReadmeEntry ==
    <<LineComment, Other, Newline, Quote, Other, Quote, ":", Blank, Quote, Other, Other, Quote>>
ReadmeExample ==
    <<"{", Newline>> \o ReadmeEntry \o <<",", Newline>> \o ReadmeEntry
      \o <<",", Newline>> \o ReadmeEntry \o <<Newline, "}", Newline>>

MCDocuments ==
    {t \o <<NUL>> : t \in {ReadmeExample} \cup Documents \cup {Commented(t) : t \in Documents}}

(***************************************************************************)
(* The same arrays and objects, and the example, cut anywhere before the   *)
(* last bracket, as when a file is rewritten between stat and fread.       *)
(***************************************************************************)
CutsOf(t) == {SubSeq(t, 1, k) \o <<NUL>> : k \in 0 .. Len(t) - 1}

MCCuts ==
    UNION {CutsOf(t) : t \in {u \in Documents : u[1] \in {"[", "{"}}}
      \cup CutsOf(SubSeq(ReadmeExample, 1, Len(ReadmeExample) - 1))

MCTexts == MCDocuments \cup MCCuts

(* Every document of the grammar is parsed, unless memory runs out. *)
AcceptsDocuments == pc = "e_failed" => text \notin MCDocuments

(***************************************************************************)
(* No cut document is taken for a document, whatever is complete of it:    *)
(* what QtumContext assumes of the beginnings of a context file.           *)
(***************************************************************************)
CutsAreRefused == pc = "returned" => text \notin MCCuts
=============================================================================
