---------------------------- MODULE MCQtumContext ----------------------------
(* A small instance of QtumContext for TLC. *)
EXTENDS QtumContext, SequencesExt

CONSTANTS alice, bob, call1, call2

MCContent == {alice, bob, call1, call2}

Str(n, isHex, b) == [type |-> "string", length |-> n, hex |-> isHex, bytes |-> b]
NoString == [type |-> "other", length |-> 0, hex |-> FALSE, bytes |-> alice]
Entry(prefixOf, v) == [prefixOf |-> prefixOf, value |-> v]

(***************************************************************************)
(* 40 digits and, as the code divides by two, 41; one less; a bad digit;   *)
(* no string.  Names: whole, the empty one that is a prefix of all three,  *)
(* and one that is a prefix of none.                                       *)
(***************************************************************************)
MCItem ==
    {Entry({"address"}, Str(40, TRUE, alice)),
     Entry({"sender"}, Str(41, TRUE, bob)),
     Entry({"sender"}, Str(39, TRUE, bob)),
     Entry({"sender"}, Str(40, FALSE, bob)),
     Entry({"data"}, Str(2, TRUE, call1)),
     Entry({"data"}, Str(0, TRUE, call2)),
     Entry({"data"}, Str(2, FALSE, call2)),
     Entry(Field, Str(40, TRUE, bob)),
     Entry({}, NoString)}

Element ==
    {Entry({}, v) : v \in {Str(40, TRUE, alice), Str(41, TRUE, bob), Str(40, FALSE, bob),
                           Str(0, TRUE, call2), NoString}}

Object(items) == [type |-> "object", items |-> items]
Array(items) == [type |-> "array", items |-> items]

Good == Entry({}, Str(40, TRUE, alice))

MCDocument ==
    {Object(items) : items \in SeqOf(MCItem, 3)}
      \cup {Array(items) : items \in [1 .. 3 -> Element]}
      \cup {Array(<<Good, Good>>), Array(<<Good, Good, Good, Good>>),
            [type |-> "other", items |-> << >>]}

(* n bytes, of which at least the first m are needed for document d. *)
File(n, m, d) == [k \in 1 .. n |-> IF k < m THEN None ELSE d]

(***************************************************************************)
(* Every document has three bytes and a blank behind it.  While it is read *)
(* it may become shorter, longer, or another one of the same size; grow to *)
(* one that goes on behind the document with what is no JSON; or become a  *)
(* number, which is still a number when its end is not read.               *)
(***************************************************************************)
MCEdits ==
    {File(3, 3, Array(<<Good, Good, Good>>)),
     File(6, 5, Array(<<Good, Good, Good>>)),
     File(4, 4, Object(<<Entry({"sender"}, Str(40, TRUE, call1))>>)),
     File(4, 4, Array(<<Good, Good, Good>>)) \o <<None, None>>,
     File(5, 1, [type |-> "other", items |-> << >>])}

MCText ==
    {File(4, 3, d) : d \in MCDocument} \cup MCEdits
      \cup {File(4, 5, None), << >>}
=============================================================================
