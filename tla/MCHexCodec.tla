------------------------------ MODULE MCHexCodec ------------------------------
(***************************************************************************)
(* HexCodec for TLC: every single byte and character, and short sequences  *)
(* of those at the edges of the ranges that the code tells apart.          *)
(***************************************************************************)
EXTENDS HexCodec

EdgeBytes == {0, 9, 10, 15, 16, 127, 128, 160, 255}
MCBuffers ==
    {<<b>> : b \in Byte} \cup UNION {[1 .. n -> EdgeBytes] : n \in 0 .. 3}

(* On both sides of 0..9, A..F and a..f. *)
EdgeChars == {47, 48, 57, 58, 64, 65, 70, 71, 96, 97, 102, 103}
MCStrings ==
    {<<c, 48>> : c \in Byte} \cup {<<48, c>> : c \in Byte}
      \cup UNION {[1 .. n -> EdgeChars] : n \in 0 .. 2}
      \cup UNION {[1 .. n -> {48, 64, 70, 102}] : n \in 3 .. 5}
===============================================================================
