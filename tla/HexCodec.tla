------------------------------- MODULE HexCodec -------------------------------
(***************************************************************************)
(* The two loops of hex.c, one behind the other: bytesToHexString, which   *)
(* every contract prints with, and decodeHexString, which the context file *)
(* is read with.  Either bytes are encoded and the text decoded again, or  *)
(* a text is decoded and the bytes encoded again.                          *)
(*                                                                         *)
(* A character is its code.  The callers size the buffers: Len(text) \div  *)
(* 2 bytes to decode into, two characters and a NUL for each byte.         *)
(***************************************************************************)
EXTENDS Integers, Sequences

CONSTANTS Buffers,  \* byte buffers to encode
          Strings   \* texts to decode

Byte == 0 .. 255

ASSUME HexAssumption == Buffers \subseteq Seq(Byte) /\ Strings \subseteq Seq(Byte)

VARIABLES pc,      \* "encode", "decode", "done" or "bad" (decodeHexString returns 0)
          given,   \* what it began with: its kind, and the buffer or text
          i,       \* the loop variable, from 1
          bytes,   \* the byte buffer, as far as it is filled
          text     \* the text, as far as it is filled

vars == <<pc, given, i, bytes, text>>

Init ==
    /\ i = 1
    /\ \/ /\ given \in [kind: {"bytes"}, data: Buffers]
          /\ pc = "encode" /\ bytes = given.data /\ text = <<>>
       \/ /\ given \in [kind: {"text"}, data: Strings]
          /\ pc = "decode" /\ bytes = <<>> /\ text = given.data

----------------------------------------------------------------------------
ByteMap == <<48, 49, 50, 51, 52, 53, 54, 55, 56, 57, 97, 98, 99, 100, 101, 102>>
Star == 42

nibbleToCharUpTo14(nibble) == IF nibble < 15 THEN ByteMap[nibble + 1] ELSE Star

nibbleToChar(nibble) == IF nibble < 16 THEN ByteMap[nibble + 1] ELSE Star

(* The value of a digit; -1: c is no hex digit. *)
HEXUpToAt(c) ==
    IF c \in 48 .. 57 THEN c - 48
    ELSE IF c \in 97 .. 102 THEN c - 87
    ELSE IF c \in 64 .. 70 THEN c - 55 ELSE -1

HEX(c) ==
    IF c \in 48 .. 57 THEN c - 48
    ELSE IF c \in 97 .. 102 THEN c - 87
    ELSE IF c \in 65 .. 70 THEN c - 55 ELSE -1

----------------------------------------------------------------------------
Encode ==
    /\ pc = "encode" /\ i <= Len(bytes)
    /\ text' = Append(Append(text, nibbleToChar(bytes[i] \div 16)),
                      nibbleToChar(bytes[i] % 16))
    /\ i' = i + 1
    /\ UNCHANGED <<pc, given, bytes>>

(* The text is complete: it is decoded, if it was not what we began with. *)
Encoded ==
    /\ pc = "encode" /\ i > Len(bytes)
    /\ i' = 1
    /\ IF given.kind = "bytes" THEN pc' = "decode" /\ bytes' = <<>>
       ELSE pc' = "done" /\ UNCHANGED bytes
    /\ UNCHANGED <<given, text>>

First == HEX(text[2 * i - 1])
Second == HEX(text[2 * i])
Decoding == pc = "decode" /\ i <= Len(text) \div 2

DecodeSwapped ==
    /\ Decoding /\ First # -1 /\ Second # -1
    /\ bytes' = Append(bytes, First + Second * 16)
    /\ i' = i + 1
    /\ UNCHANGED <<pc, given, text>>

DecodeCheckingFirst ==
    /\ Decoding /\ First # -1
    /\ bytes' = Append(bytes, First * 16 + Second)
    /\ i' = i + 1
    /\ UNCHANGED <<pc, given, text>>

Decode ==
    /\ Decoding /\ First # -1 /\ Second # -1
    /\ bytes' = Append(bytes, First * 16 + Second)
    /\ i' = i + 1
    /\ UNCHANGED <<pc, given, text>>

(* The bytes that were decoded before stay in the caller's buffer. *)
NotHex ==
    /\ Decoding /\ (First = -1 \/ Second = -1)
    /\ pc' = "bad"
    /\ UNCHANGED <<given, i, bytes, text>>

Decoded ==
    /\ pc = "decode" /\ i > Len(text) \div 2
    /\ i' = 1
    /\ IF given.kind = "text" THEN pc' = "encode" /\ text' = <<>>
       ELSE pc' = "done" /\ UNCHANGED text
    /\ UNCHANGED <<given, bytes>>

Next == Encode \/ Encoded \/ Decode \/ NotHex \/ Decoded

Spec == Init /\ [][Next]_vars

----------------------------------------------------------------------------
(***************************************************************************)
(* hexStr of qtum.hpp, which C++ contracts print with: its bytes are plain *)
(* chars, which are signed, and become ints before they are masked.        *)
(***************************************************************************)
Signed(b) == IF b < 128 THEN b ELSE b - 256

hexStrMaskingSign(data) ==
    [k \in 1 .. 2 * Len(data) |->
        LET c == Signed(data[(k + 1) \div 2])
        IN ByteMap[(IF k % 2 = 1 THEN (c % 128) \div 16 ELSE c % 16) + 1]]

(* In 32 bits, c & 0xF0 is (c % 256) \div 16 * 16, for a negative c, too. *)
hexStr(data) ==
    [k \in 1 .. 2 * Len(data) |->
        LET c == Signed(data[(k + 1) \div 2])
        IN ByteMap[(IF k % 2 = 1 THEN (c % 256) \div 16 ELSE c % 16) + 1]]

----------------------------------------------------------------------------
TypeOK ==
    /\ pc \in {"encode", "decode", "done", "bad"}
    /\ given \in [kind: {"bytes"}, data: Buffers] \cup [kind: {"text"}, data: Strings]
    /\ i \in 1 .. Len(given.data) + 1
    /\ bytes \in Seq(Byte) /\ text \in Seq(Byte)

(***************************************************************************)
(* What a contract prints with bytesToHexString can be put into a context  *)
(* file: decodeHexString takes it, and gets the very bytes back.           *)
(***************************************************************************)
BytesSurvive ==
    given.kind = "bytes" => pc # "bad" /\ (pc = "done" => bytes = given.data)

(***************************************************************************)
(* A hex string of a context file is printed as it was written, but for    *)
(* the case of its letters and the digit that an odd length has too many,  *)
(* which decodeAddress and decodeHexData drop (qtum.c:99, 119).            *)
(***************************************************************************)
Lower(c) == IF c \in 65 .. 70 THEN c + 32 ELSE c

TextSurvives ==
    given.kind = "text" /\ pc = "done" =>
        text = [k \in 1 .. 2 * (Len(given.data) \div 2) |-> Lower(given.data[k])]

(***************************************************************************)
(* decodeHexString fails at the first pair with a character that is not a  *)
(* hex digit, and at no other; the pairs before it have been written.      *)
(***************************************************************************)
HexDigits == (48 .. 57) \cup (65 .. 70) \cup (97 .. 102)
IsHex(k) == {given.data[2 * k - 1], given.data[2 * k]} \subseteq HexDigits

RejectsAtFirstBadPair ==
    given.kind = "text" =>
        /\ pc = "bad" => ~IsHex(Len(bytes) + 1) /\ \A k \in 1 .. Len(bytes) : IsHex(k)
        /\ pc \in {"encode", "done"} => \A k \in 1 .. Len(given.data) \div 2 : IsHex(k)

(***************************************************************************)
(* C and C++ contracts print the same bytes in the same way, though one    *)
(* shifts unsigned bytes and the other masks signed ones.                  *)
(***************************************************************************)
BindingsPrintAlike ==
    given.kind = "bytes" /\ pc = "done" => hexStr(given.data) = text
=============================================================================
