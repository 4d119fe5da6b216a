------------------------------- MODULE HexProofs -------------------------------
(***************************************************************************)
(* The round trips of HexCodec, for all buffers and texts: bytes that are  *)
(* encoded are decoded again, and texts that are decoded are printed as    *)
(* they were, in lower case.                                               *)
(***************************************************************************)
EXTENDS HexCodec, TLAPS

Nibble == 0 .. 15

(***************************************************************************)
(* What the loops have done so far, relative to what was given.  Encoding: *)
(* the text is made of the two digits of each byte; decoding: every byte   *)
(* has the value of its two digits.                                        *)
(***************************************************************************)
Encodes(t, b, n) ==
    /\ Len(t) = 2 * n
    /\ \A k \in 1 .. n : /\ t[2 * k - 1] = nibbleToChar(b[k] \div 16)
                         /\ t[2 * k] = nibbleToChar(b[k] % 16)

Decodes(b, t, n) ==
    /\ Len(b) = n
    /\ \A k \in 1 .. n : /\ HEX(t[2 * k - 1]) # -1 /\ HEX(t[2 * k]) # -1
                         /\ b[k] = HEX(t[2 * k - 1]) * 16 + HEX(t[2 * k])

BytesInv ==
    /\ pc \in {"encode", "decode", "done"}
    /\ pc = "encode" => bytes = given.data /\ Encodes(text, given.data, i - 1)
    /\ pc \in {"decode", "done"} => Encodes(text, given.data, Len(given.data))
    /\ pc = "decode" => /\ Len(bytes) = i - 1
                        /\ \A k \in 1 .. i - 1 : bytes[k] = given.data[k]
    /\ pc = "done" => bytes = given.data

TextInv ==
    LET pairs == Len(given.data) \div 2 IN
    /\ pc \in {"decode", "bad"} =>
         text = given.data /\ Decodes(bytes, given.data, i - 1)
    /\ pc = "bad" =>
         /\ i \in 1 .. pairs
         /\ HEX(given.data[2 * i - 1]) = -1 \/ HEX(given.data[2 * i]) = -1
    /\ pc \in {"encode", "done"} => Decodes(bytes, given.data, pairs)
    /\ pc = "encode" => Encodes(text, bytes, i - 1)
    /\ pc = "done" => Encodes(text, bytes, pairs)

Inv ==
    /\ pc \in {"encode", "decode", "done", "bad"}
    /\ given \in [kind: {"bytes"}, data: Buffers] \cup [kind: {"text"}, data: Strings]
    /\ i \in Nat \ {0}
    /\ pc = "encode" => i <= Len(bytes) + 1
    /\ pc = "decode" => i <= Len(text) \div 2 + 1
    /\ pc = "done" => i = 1
    /\ bytes \in Seq(Byte) /\ text \in Seq(Byte)
    /\ given.kind = "bytes" => BytesInv
    /\ given.kind = "text" => TextInv

----------------------------------------------------------------------------
(* Every half of a byte has a digit, and HEX reads it back (hex.c:41, 8). *)
LEMMA DigitOfNibble ==
    ASSUME NEW n \in Nibble
    PROVE  nibbleToChar(n) \in Byte /\ HEX(nibbleToChar(n)) = n
  BY DEF Nibble, nibbleToChar, ByteMap, Star, HEX, Byte

(* HEX yields -1 or half a byte, and the latter is printed in lower case. *)
LEMMA NibbleOfDigit ==
    ASSUME NEW c \in Byte
    PROVE  /\ HEX(c) \in Nibble \cup {-1}
           /\ HEX(c) # -1 <=> c \in HexDigits
           /\ HEX(c) # -1 => nibbleToChar(HEX(c)) = Lower(c)
  <1>1. CASE c \in 48 .. 57
    BY <1>1 DEF Nibble, nibbleToChar, ByteMap, Star, HEX, Byte, HexDigits, Lower
  <1>2. CASE c \in 65 .. 70
    BY <1>2 DEF Nibble, nibbleToChar, ByteMap, Star, HEX, Byte, HexDigits, Lower
  <1>3. CASE c \in 97 .. 102
    BY <1>3 DEF Nibble, nibbleToChar, ByteMap, Star, HEX, Byte, HexDigits, Lower
  <1>4. CASE c \notin HexDigits
    BY <1>4 DEF Nibble, HEX, Byte, HexDigits
  <1> QED
    BY <1>1, <1>2, <1>3, <1>4 DEF HexDigits

(* A byte is its two halves, and two halves are a byte. *)
LEMMA HalvesOfByte ==
    ASSUME NEW b \in Byte
    PROVE  b \div 16 \in Nibble /\ b % 16 \in Nibble /\ b = (b \div 16) * 16 + (b % 16)
  BY DEF Byte, Nibble

(* Two half bytes make a byte, and are its quotient and its remainder. *)
LEMMA ByteOfHalves ==
    ASSUME NEW h \in Nibble, NEW l \in Nibble
    PROVE  /\ h * 16 + l \in Byte
           /\ (h * 16 + l) \div 16 = h /\ (h * 16 + l) % 16 = l
  BY DEF Byte, Nibble

----------------------------------------------------------------------------
(* One round of bytesToHexString adds the two digits of the next byte. *)
LEMMA EncodeOne ==
    ASSUME NEW t \in Seq(Byte), NEW b \in Seq(Byte), NEW n \in Nat,
           n < Len(b), Encodes(t, b, n)
    PROVE  LET t2 == Append(Append(t, nibbleToChar(b[n + 1] \div 16)),
                            nibbleToChar(b[n + 1] % 16))
           IN t2 \in Seq(Byte) /\ Encodes(t2, b, n + 1)
  <1> DEFINE h == nibbleToChar(b[n + 1] \div 16)
             l == nibbleToChar(b[n + 1] % 16)
             t2 == Append(Append(t, h), l)
  <1>1. b[n + 1] \in Byte
    OBVIOUS
  <1>2. h \in Byte /\ l \in Byte
    BY <1>1, HalvesOfByte, DigitOfNibble
  <1> HIDE DEF h, l
  <1>3. t2 \in Seq(Byte)
    BY <1>2
  <1>4. Len(t) = 2 * n
    BY DEF Encodes
  <1>5. /\ Len(t2) = 2 * n + 2 /\ t2[2 * n + 1] = h /\ t2[2 * n + 2] = l
        /\ \A k \in 1 .. 2 * n : t2[k] = t[k]
    BY <1>2, <1>4
  <1>6. ASSUME NEW k \in 1 .. n + 1
        PROVE  /\ t2[2 * k - 1] = nibbleToChar(b[k] \div 16)
               /\ t2[2 * k] = nibbleToChar(b[k] % 16)
    <2>1. CASE k = n + 1
      BY <2>1, <1>5 DEF h, l
    <2>2. CASE k # n + 1
      <3>1. k \in 1 .. n /\ 2 * k - 1 \in 1 .. 2 * n /\ 2 * k \in 1 .. 2 * n
        BY <2>2
      <3> QED
        BY <3>1, <1>5 DEF Encodes
    <2> QED
      BY <2>1, <2>2
  <1> HIDE DEF t2
  <1>7. Len(t2) = 2 * (n + 1)
    BY <1>5
  <1>8. Encodes(t2, b, n + 1)
    BY <1>6, <1>7 DEF Encodes
  <1> QED
    BY <1>3, <1>8 DEF t2, h, l

(* One round of decodeHexString adds the value of the next two digits. *)
LEMMA DecodeOne ==
    ASSUME NEW b \in Seq(Byte), NEW t \in Seq(Byte), NEW n \in Nat,
           n < Len(t) \div 2, Decodes(b, t, n),
           HEX(t[2 * (n + 1) - 1]) # -1, HEX(t[2 * (n + 1)]) # -1
    PROVE  LET b2 == Append(b, HEX(t[2 * (n + 1) - 1]) * 16 + HEX(t[2 * (n + 1)]))
           IN b2 \in Seq(Byte) /\ Decodes(b2, t, n + 1)
  <1> DEFINE h == HEX(t[2 * (n + 1) - 1])
             l == HEX(t[2 * (n + 1)])
             b2 == Append(b, h * 16 + l)
  <1>1. t[2 * (n + 1) - 1] \in Byte /\ t[2 * (n + 1)] \in Byte
    <2>1. 2 * (n + 1) \in 1 .. Len(t) /\ 2 * (n + 1) - 1 \in 1 .. Len(t)
      OBVIOUS
    <2> QED
      BY <2>1
  <1>2. h \in Nibble /\ l \in Nibble
    BY <1>1, NibbleOfDigit
  <1>3. h # -1 /\ l # -1
    OBVIOUS
  <1>4. h = HEX(t[2 * (n + 1) - 1]) /\ l = HEX(t[2 * (n + 1)])
    OBVIOUS
  <1> HIDE DEF h, l
  <1>5. h * 16 + l \in Byte
    BY <1>2, ByteOfHalves
  <1>6. b2 \in Seq(Byte) /\ Len(b) = n
    BY <1>5 DEF Decodes
  <1>7. /\ Len(b2) = n + 1 /\ b2[n + 1] = h * 16 + l
        /\ \A k \in 1 .. n : b2[k] = b[k]
    BY <1>5, <1>6
  <1> HIDE DEF b2
  <1>8. ASSUME NEW k \in 1 .. n + 1
        PROVE  /\ HEX(t[2 * k - 1]) # -1 /\ HEX(t[2 * k]) # -1
               /\ b2[k] = HEX(t[2 * k - 1]) * 16 + HEX(t[2 * k])
    <2>1. CASE k = n + 1
      BY <2>1, <1>3, <1>4, <1>7
    <2>2. CASE k \in 1 .. n
      BY <2>2, <1>7 DEF Decodes
    <2> QED
      BY <2>1, <2>2
  <1>9. Decodes(b2, t, n + 1)
    BY <1>7, <1>8 DEF Decodes
  <1> QED
    BY <1>6, <1>9 DEF b2, h, l

(* The digits of an encoded buffer are decoded to its bytes. *)
LEMMA DigitsOfByte ==
    ASSUME NEW t \in Seq(Byte), NEW b \in Seq(Byte), NEW n \in Nat, n <= Len(b),
           Encodes(t, b, n), NEW k \in 1 .. n
    PROVE  /\ HEX(t[2 * k - 1]) # -1 /\ HEX(t[2 * k]) # -1
           /\ HEX(t[2 * k - 1]) * 16 + HEX(t[2 * k]) = b[k]
  <1>1. b[k] \in Byte
    OBVIOUS
  <1>2. b[k] \div 16 \in Nibble /\ b[k] % 16 \in Nibble
    BY <1>1, HalvesOfByte
  <1>3. HEX(t[2 * k - 1]) = b[k] \div 16 /\ HEX(t[2 * k]) = b[k] % 16
    BY <1>2, DigitOfNibble DEF Encodes
  <1>4. b[k] = (b[k] \div 16) * 16 + (b[k] % 16)
    BY <1>1, HalvesOfByte
  <1>5. \A m \in Nibble : m # -1
    BY DEF Nibble
  <1> QED
    BY <1>2, <1>3, <1>4, <1>5

(* How many pairs a text has. *)
LEMMA Halved ==
    ASSUME NEW n \in Nat
    PROVE  n \div 2 \in Nat /\ 2 * (n \div 2) <= n /\ (2 * n) \div 2 = n
  OBVIOUS

(* The loop variable is within the bound for n digits when it is for m pairs. *)
LEMMA WithinPairs ==
    ASSUME NEW n \in Nat, NEW m \in Nat, 2 * m <= n, NEW j \in Nat \ {0},
           j <= m + 1 \/ j \in 1 .. m
    PROVE  j \in 1 .. n + 1
  OBVIOUS

(* An encoded buffer has as many pairs as it had bytes, and no bad one. *)
LEMMA PairsOfBuffer ==
    ASSUME NEW t \in Seq(Byte), NEW b \in Seq(Byte), Encodes(t, b, Len(b)),
           NEW k \in Nat \ {0}, k <= Len(t) \div 2
    PROVE  /\ Len(t) \div 2 = Len(b) /\ k \in 1 .. Len(b)
           /\ HEX(t[2 * k - 1]) # -1 /\ HEX(t[2 * k]) # -1
           /\ HEX(t[2 * k - 1]) * 16 + HEX(t[2 * k]) = b[k]
  <1>1. Len(t) = 2 * Len(b) /\ Len(b) \in Nat
    BY DEF Encodes
  <1>2. Len(t) \div 2 = Len(b)
    BY <1>1, Halved
  <1>3. k \in 1 .. Len(b)
    BY <1>1, <1>2
  <1>4. Len(b) <= Len(b)
    BY <1>1
  <1> QED
    BY ZenonT(60), <1>1, <1>2, <1>3, <1>4, DigitsOfByte

----------------------------------------------------------------------------
(* What is given is a sequence of bytes. *)
LEMMA GivenType ==
    ASSUME Inv
    PROVE  /\ given.data \in Seq(Byte) /\ Len(given.data) \in Nat
           /\ given.kind \in {"bytes", "text"}
  BY HexAssumption DEF Inv

(* The invariant holds before the first round of either loop. *)
LEMMA InitInv == Init => Inv
  <1> SUFFICES ASSUME Init PROVE Inv
    OBVIOUS
  <1>1. given.data \in Seq(Byte) /\ Len(given.data) \in Nat
    BY HexAssumption DEF Init
  <1>2. CASE given.kind = "bytes"
    <2>1. pc = "encode" /\ bytes = given.data /\ text = <<>> /\ i = 1
      BY <1>2 DEF Init
    <2>2. Encodes(text, given.data, i - 1)
      BY <2>1 DEF Encodes
    <2>3. BytesInv
      BY <2>1, <2>2 DEF BytesInv
    <2> QED
      BY <1>1, <1>2, <2>1, <2>3 DEF Init, Inv
  <1>3. CASE given.kind = "text"
    <2>1. pc = "decode" /\ bytes = <<>> /\ text = given.data /\ i = 1
      BY <1>3 DEF Init
    <2>2. Decodes(bytes, given.data, i - 1)
      BY <2>1 DEF Decodes
    <2>3. Len(text) \div 2 \in Nat
      BY <1>1, <2>1, Halved
    <2> QED
      BY <1>1, <1>3, <2>1, <2>2, <2>3 DEF Init, Inv, TextInv
  <1> QED
    BY <1>2, <1>3 DEF Init

(***************************************************************************)
(* A round of the encoding loop, on the way out with given bytes or on the *)
(* way back with the bytes of a given text.                                *)
(***************************************************************************)
LEMMA EncodeStep == Inv /\ Encode => Inv'
  <1> SUFFICES ASSUME Inv, Encode PROVE Inv'
    OBVIOUS
  <1> USE DEF Encode
  <1>1. /\ given.data \in Seq(Byte) /\ given.kind \in {"bytes", "text"}
        /\ i \in Nat \ {0} /\ bytes \in Seq(Byte) /\ text \in Seq(Byte) /\ pc = "encode"
    BY GivenType DEF Inv
  <1>2. Encodes(text, bytes, i - 1)
    BY <1>1 DEF Inv, BytesInv, TextInv
  <1>3. i - 1 \in Nat /\ i - 1 < Len(bytes) /\ (i - 1) + 1 = i
    BY <1>1
  <1>4. text' \in Seq(Byte) /\ Encodes(text', bytes, i)
    BY <1>1, <1>2, <1>3, EncodeOne
  <1>5. i' - 1 = i /\ i' \in Nat \ {0} /\ i' <= Len(bytes) + 1
    BY <1>1
  <1>6. CASE given.kind = "bytes"
    BY <1>1, <1>4, <1>5, <1>6 DEF Inv, BytesInv
  <1>7. CASE given.kind = "text"
    <2>1. TextInv'
      BY <1>1, <1>4, <1>5, <1>7 DEF Inv, TextInv
    <2> QED
      BY <1>1, <1>4, <1>5, <1>7, <2>1 DEF Inv
  <1> QED
    BY <1>1, <1>6, <1>7

(* The end of the encoding loop, of which decoding starts, or which is all. *)
LEMMA EncodedStep == Inv /\ Encoded => Inv'
  <1> SUFFICES ASSUME Inv, Encoded PROVE Inv'
    OBVIOUS
  <1> USE DEF Encoded
  <1>1. /\ given.data \in Seq(Byte) /\ given.kind \in {"bytes", "text"}
        /\ i \in Nat \ {0} /\ bytes \in Seq(Byte) /\ text \in Seq(Byte) /\ pc = "encode"
    BY GivenType DEF Inv
  <1>2. i - 1 = Len(bytes)
    BY <1>1 DEF Inv
  <1>3. Encodes(text, bytes, Len(bytes))
    BY <1>1, <1>2 DEF Inv, BytesInv, TextInv
  <1>4. CASE given.kind = "bytes"
    <2>1. bytes = given.data /\ pc' = "decode" /\ bytes' = <<>> /\ i' = 1
      BY <1>1, <1>4 DEF Inv, BytesInv
    <2>2. BytesInv'
      BY <1>3, <2>1 DEF BytesInv
    <2>3. Len(text) \div 2 \in Nat
      BY <1>1, Halved
    <2> QED
      BY <1>1, <1>4, <2>1, <2>2, <2>3 DEF Inv
  <1>5. CASE given.kind = "text"
    <2>1. pc' = "done" /\ bytes' = bytes /\ i' = 1
      BY <1>5
    <2>2. Len(bytes) = Len(given.data) \div 2
      BY <1>1, <1>5 DEF Inv, TextInv, Decodes
    <2>3. TextInv'
      BY <1>1, <1>3, <1>5, <2>1, <2>2 DEF Inv, TextInv
    <2> QED
      BY <1>1, <1>5, <2>1, <2>3 DEF Inv
  <1> QED
    BY <1>1, <1>4, <1>5

(***************************************************************************)
(* A round of the decoding loop.                                           *)
(***************************************************************************)
LEMMA DecodeStep == Inv /\ Decode => Inv'
  <1> SUFFICES ASSUME Inv, Decode PROVE Inv'
    OBVIOUS
  <1> USE DEF Decode, Decoding, First, Second
  <1>1. /\ given.data \in Seq(Byte) /\ given.kind \in {"bytes", "text"}
        /\ i \in Nat \ {0} /\ bytes \in Seq(Byte) /\ text \in Seq(Byte) /\ pc = "decode"
    BY GivenType DEF Inv
  <1>2. i - 1 \in Nat /\ i - 1 < Len(text) \div 2 /\ (i - 1) + 1 = i
    BY <1>1
  <1>3. i' - 1 = i /\ i' \in Nat \ {0} /\ i' <= Len(text) \div 2 + 1
    BY <1>1
  <1>4. CASE given.kind = "text"
    <2>1. text = given.data /\ Decodes(bytes, text, i - 1)
      BY <1>1, <1>4 DEF Inv, TextInv
    <2>2. bytes' \in Seq(Byte) /\ Decodes(bytes', text, i)
      BY ZenonT(60), <1>1, <1>2, <2>1, DecodeOne
    <2>3. TextInv'
      BY <1>1, <1>3, <1>4, <2>1, <2>2 DEF TextInv
    <2> QED
      BY <1>1, <1>3, <1>4, <2>2, <2>3 DEF Inv
  <1>5. CASE given.kind = "bytes"
    <2>1. /\ Encodes(text, given.data, Len(given.data))
          /\ Len(bytes) = i - 1 /\ \A k \in 1 .. i - 1 : bytes[k] = given.data[k]
      BY <1>1, <1>5 DEF Inv, BytesInv
    <2>2. i <= Len(text) \div 2
      OBVIOUS
    <2> HIDE DEF Decoding, First, Second
    <2>3. i \in 1 .. Len(given.data)
      BY <1>1, <2>1, <2>2, PairsOfBuffer
    <2>4. HEX(text[2 * i - 1]) * 16 + HEX(text[2 * i]) = given.data[i]
      BY <1>1, <2>1, <2>2, PairsOfBuffer
    <2>5. bytes' = Append(bytes, given.data[i]) /\ given.data[i] \in Byte
      BY <1>1, <2>3, <2>4 DEF First, Second
    <2>6. bytes' \in Seq(Byte) /\ Len(bytes') = i
      BY <1>1, <2>1, <2>5
    <2>7. \A k \in 1 .. i : bytes'[k] = given.data[k]
      BY <1>1, <2>1, <2>5
    <2>8. BytesInv'
      BY <1>1, <1>3, <2>1, <2>6, <2>7 DEF BytesInv
    <2> QED
      BY <1>1, <1>3, <1>5, <2>6, <2>8 DEF Inv
  <1> QED
    BY <1>1, <1>4, <1>5

(* The first bad pair; no pair of an encoded buffer is one. *)
LEMMA NotHexStep == Inv /\ NotHex => Inv'
  <1> SUFFICES ASSUME Inv, NotHex PROVE Inv'
    OBVIOUS
  <1>1. /\ given.data \in Seq(Byte) /\ given.kind \in {"bytes", "text"}
        /\ i \in Nat \ {0} /\ bytes \in Seq(Byte) /\ text \in Seq(Byte) /\ pc = "decode"
    BY GivenType DEF Inv, NotHex, Decoding
  <1>2. /\ pc' = "bad" /\ UNCHANGED <<given, i, bytes, text>>
        /\ i <= Len(text) \div 2
        /\ HEX(text[2 * i - 1]) = -1 \/ HEX(text[2 * i]) = -1
    BY DEF NotHex, Decoding, First, Second
  <1>3. CASE given.kind = "text"
    <2>1. text = given.data /\ Decodes(bytes, given.data, i - 1)
      BY <1>1, <1>3 DEF Inv, TextInv
    <2>2. Len(given.data) \in Nat
      BY GivenType
    <2>3. Len(given.data) \div 2 \in Nat
      BY <2>2, Halved
    <2>4. i <= Len(given.data) \div 2
      BY <1>2, <2>1
    <2>5. i \in 1 .. Len(given.data) \div 2
      <3>1. \A m \in Nat : i <= m => i \in 1 .. m
        BY <1>1
      <3> QED
        BY <2>3, <2>4, <3>1
    <2>6. TextInv'
      BY <1>1, <1>2, <2>1, <2>5 DEF TextInv
    <2> QED
      BY <1>1, <1>2, <1>3, <2>6 DEF Inv
  <1>4. CASE given.kind = "bytes"
    <2>1. Encodes(text, given.data, Len(given.data))
      BY <1>1, <1>4 DEF Inv, BytesInv
    <2> QED
      BY <1>1, <1>2, <2>1, PairsOfBuffer
  <1> QED
    BY <1>1, <1>3, <1>4

(* The end of the decoding loop. *)
LEMMA DecodedStep == Inv /\ Decoded => Inv'
  <1> SUFFICES ASSUME Inv, Decoded PROVE Inv'
    OBVIOUS
  <1> USE DEF Decoded
  <1>1. /\ given.data \in Seq(Byte) /\ given.kind \in {"bytes", "text"}
        /\ i \in Nat \ {0} /\ bytes \in Seq(Byte) /\ text \in Seq(Byte) /\ pc = "decode"
    BY GivenType DEF Inv
  <1>2. i - 1 = Len(text) \div 2
    BY <1>1 DEF Inv
  <1>3. CASE given.kind = "text"
    <2>1. Decodes(bytes, given.data, Len(given.data) \div 2)
      BY <1>1, <1>2, <1>3 DEF Inv, TextInv
    <2>2. pc' = "encode" /\ text' = <<>> /\ bytes' = bytes /\ i' = 1
      BY <1>3
    <2>3. Encodes(text', bytes, i' - 1)
      BY <2>2 DEF Encodes
    <2>4. TextInv'
      BY <2>1, <2>2, <2>3 DEF TextInv
    <2> QED
      BY <1>1, <1>3, <2>2, <2>4 DEF Inv
  <1>4. CASE given.kind = "bytes"
    <2>1. /\ Encodes(text, given.data, Len(given.data))
          /\ Len(bytes) = i - 1 /\ \A k \in 1 .. i - 1 : bytes[k] = given.data[k]
      BY <1>1, <1>4 DEF Inv, BytesInv
    <2>2. Len(bytes) = Len(given.data)
      BY <1>1, <1>2, <2>1, Halved DEF Encodes
    <2>3. bytes = given.data
      BY <1>1, <2>1, <2>2
    <2>4. pc' = "done" /\ UNCHANGED <<given, bytes, text>> /\ i' = 1
      BY <1>4
    <2>5. BytesInv'
      BY <2>1, <2>3, <2>4 DEF BytesInv
    <2> QED
      BY <1>1, <1>4, <2>4, <2>5 DEF Inv
  <1> QED
    BY <1>1, <1>3, <1>4

(* All that follows rests on this: the loops never lose what they have done. *)
THEOREM Invariance == Spec => []Inv
  <1>1. ASSUME Inv, UNCHANGED vars PROVE Inv'
    BY <1>1 DEF vars, Inv, BytesInv, TextInv
  <1>2. Inv /\ [Next]_vars => Inv'
    BY <1>1, EncodeStep, EncodedStep, DecodeStep, NotHexStep, DecodedStep DEF Next
  <1> QED
    BY InitInv, <1>2, PTL DEF Spec

----------------------------------------------------------------------------
(* Program counter, loop variable and buffers stay in their ranges (hex.c). *)
THEOREM TypeCorrect == Spec => []TypeOK
  <1>1. ASSUME Inv PROVE TypeOK
    <2> SUFFICES i \in 1 .. Len(given.data) + 1
      BY <1>1 DEF Inv, TypeOK
    <2>1. /\ given.data \in Seq(Byte) /\ Len(given.data) \in Nat
          /\ given.kind \in {"bytes", "text"}
      BY <1>1, GivenType
    <2>2. Len(given.data) \div 2 \in Nat /\ 2 * (Len(given.data) \div 2) <= Len(given.data)
      BY <2>1, Halved
    <2>3. pc \in {"encode", "decode", "done", "bad"} /\ i \in Nat \ {0}
      BY <1>1 DEF Inv
    <2>4. CASE pc = "encode"
      <3>1. Len(bytes) = Len(given.data) \/ Len(bytes) = Len(given.data) \div 2
        BY <1>1, <2>1, <2>4 DEF Inv, BytesInv, TextInv, Decodes
      <3>2. i <= Len(bytes) + 1
        BY <1>1, <2>4 DEF Inv
      <3> QED
        <4>1. CASE Len(bytes) = Len(given.data)
          <5>1. i <= Len(given.data) + 1
            BY <3>2, <4>1
          <5> QED
            BY <2>1, <2>3, <5>1
        <4>2. CASE Len(bytes) = Len(given.data) \div 2
          <5>1. i <= Len(given.data) \div 2 + 1
            BY <3>2, <4>2
          <5> QED
            BY <2>1, <2>2, <2>3, <5>1, WithinPairs
        <4> QED
          BY <3>1, <4>1, <4>2
    <2>5. CASE pc = "decode"
      <3>1. CASE given.kind = "bytes"
        <4>1. Len(text) = 2 * Len(given.data)
          BY <1>1, <2>5, <3>1 DEF Inv, BytesInv, Encodes
        <4>2. i <= Len(given.data) + 1
          BY <1>1, <2>1, <2>5, <4>1, Halved DEF Inv
        <4> QED
          BY <2>1, <2>3, <4>2
      <3>2. CASE given.kind = "text"
        <4>1. i <= Len(given.data) \div 2 + 1
          BY <1>1, <2>5, <3>2 DEF Inv, TextInv
        <4> QED
          BY <2>1, <2>2, <2>3, <4>1, WithinPairs
      <3> QED
        BY <2>1, <3>1, <3>2
    <2>6. CASE pc = "done"
      BY <1>1, <2>1, <2>6 DEF Inv
    <2>7. CASE pc = "bad"
      <3>1. i \in 1 .. Len(given.data) \div 2
        BY <1>1, <2>1, <2>7 DEF Inv, BytesInv, TextInv
      <3> QED
        BY <2>1, <2>2, <2>3, <3>1, WithinPairs
    <2> QED
      BY <2>3, <2>4, <2>5, <2>6, <2>7
  <1> QED
    BY Invariance, <1>1, PTL

(***************************************************************************)
(* Whatever bytesToHexString prints, decodeHexString decodes to the bytes  *)
(* it was made of: no pair is bad, and no bit is lost.                     *)
(***************************************************************************)
THEOREM BytesRoundTrip == Spec => []BytesSurvive
  <1>1. ASSUME Inv PROVE BytesSurvive
    BY <1>1 DEF Inv, BytesInv, BytesSurvive
  <1> QED
    BY Invariance, <1>1, PTL

(***************************************************************************)
(* Whatever decodeHexString takes is printed again as it was written, in   *)
(* lower case and without an odd last digit.                               *)
(***************************************************************************)
THEOREM TextRoundTrip == Spec => []TextSurvives
  <1>1. ASSUME Inv, given.kind = "text", pc = "done"
        PROVE  text = [k \in 1 .. 2 * (Len(given.data) \div 2) |-> Lower(given.data[k])]
    <2> DEFINE pairs == Len(given.data) \div 2
    <2>1. given.data \in Seq(Byte) /\ Len(given.data) \in Nat
      BY <1>1, GivenType
    <2>2. pairs \in Nat /\ 2 * pairs <= Len(given.data)
      BY <2>1, Halved
    <2>3. /\ Decodes(bytes, given.data, pairs) /\ Encodes(text, bytes, pairs)
          /\ text \in Seq(Byte)
      BY <1>1 DEF Inv, TextInv
    <2> HIDE DEF pairs
    <2>4. ASSUME NEW j \in 1 .. pairs
          PROVE  /\ text[2 * j - 1] = Lower(given.data[2 * j - 1])
                 /\ text[2 * j] = Lower(given.data[2 * j])
      <3> DEFINE c == given.data[2 * j - 1]
                 d == given.data[2 * j]
      <3>1. c \in Byte /\ d \in Byte
        <4>1. 2 * j - 1 \in 1 .. Len(given.data) /\ 2 * j \in 1 .. Len(given.data)
          BY <2>1, <2>2
        <4> QED
          BY <2>1, <4>1
      <3>2. HEX(c) # -1 /\ HEX(d) # -1 /\ bytes[j] = HEX(c) * 16 + HEX(d)
        BY <2>3 DEF Decodes
      <3>3. /\ text[2 * j - 1] = nibbleToChar(bytes[j] \div 16)
            /\ text[2 * j] = nibbleToChar(bytes[j] % 16)
        BY <2>3 DEF Encodes
      <3> HIDE DEF c, d
      <3>4. /\ HEX(c) \in Nibble /\ HEX(d) \in Nibble
            /\ nibbleToChar(HEX(c)) = Lower(c) /\ nibbleToChar(HEX(d)) = Lower(d)
        BY <3>1, <3>2, NibbleOfDigit
      <3>5. bytes[j] \div 16 = HEX(c) /\ bytes[j] % 16 = HEX(d)
        BY <3>2, <3>4, ByteOfHalves
      <3>6. text[2 * j - 1] = Lower(c) /\ text[2 * j] = Lower(d)
        BY <3>3, <3>4, <3>5
      <3> QED
        BY <3>6 DEF c, d
    <2>5. ASSUME NEW k \in 1 .. 2 * pairs PROVE text[k] = Lower(given.data[k])
      <3>1. \E j \in 1 .. pairs : k = 2 * j - 1 \/ k = 2 * j
        <4>1. (k + 1) \div 2 \in 1 .. pairs
          BY <2>2
        <4>2. k = 2 * ((k + 1) \div 2) - 1 \/ k = 2 * ((k + 1) \div 2)
          BY <2>2
        <4> QED
          BY <4>1, <4>2
      <3> QED
        BY <3>1, <2>4
    <2>6. Len(text) = 2 * pairs
      BY <2>3 DEF Encodes
    <2>7. text = [k \in 1 .. 2 * pairs |-> Lower(given.data[k])]
      BY <2>3, <2>5, <2>6
    <2> QED
      BY <2>7 DEF pairs
  <1>2. Inv => TextSurvives
    BY <1>1 DEF TextSurvives
  <1> QED
    BY Invariance, <1>2, PTL

(***************************************************************************)
(* decodeHexString stops at the first bad pair, and at no good one.        *)
(***************************************************************************)
THEOREM Rejection == Spec => []RejectsAtFirstBadPair
  <1>1. ASSUME Inv, given.kind = "text", NEW k \in Nat \ {0},
               k <= Len(given.data) \div 2
        PROVE  /\ given.data[2 * k - 1] \in Byte /\ given.data[2 * k] \in Byte
               /\ IsHex(k) <=> HEX(given.data[2 * k - 1]) # -1 /\ HEX(given.data[2 * k]) # -1
    <2>1. given.data \in Seq(Byte) /\ Len(given.data) \in Nat
      BY <1>1, GivenType
    <2>2. 2 * (Len(given.data) \div 2) <= Len(given.data) /\ Len(given.data) \div 2 \in Nat
      BY <2>1, Halved
    <2>3. 2 * k - 1 \in 1 .. Len(given.data) /\ 2 * k \in 1 .. Len(given.data)
      <3>1. \A m, n \in Nat : 2 * m <= n /\ k <= m =>
                2 * k - 1 \in 1 .. n /\ 2 * k \in 1 .. n
        BY <1>1
      <3> QED
        BY <1>1, <2>1, <2>2, <3>1
    <2>4. given.data[2 * k - 1] \in Byte /\ given.data[2 * k] \in Byte
      BY <2>1, <2>3
    <2> QED
      BY <2>4, NibbleOfDigit DEF IsHex
  <1>2. ASSUME Inv, given.kind = "text" PROVE RejectsAtFirstBadPair
    <2> DEFINE pairs == Len(given.data) \div 2
    <2>1. pairs \in Nat
      BY <1>2, GivenType, Halved
    <2>2. ASSUME pc = "bad"
          PROVE  ~IsHex(Len(bytes) + 1) /\ \A k \in 1 .. Len(bytes) : IsHex(k)
      <3>1. /\ i \in 1 .. pairs /\ Decodes(bytes, given.data, i - 1)
            /\ HEX(given.data[2 * i - 1]) = -1 \/ HEX(given.data[2 * i]) = -1
        BY <1>2, <2>2 DEF Inv, TextInv
      <3> HIDE DEF pairs
      <3>2. Len(bytes) + 1 = i
        BY <2>1, <3>1 DEF Decodes
      <3>3. i \in Nat \ {0} /\ i <= pairs
        BY <2>1, <3>1
      <3>4. ~IsHex(i)
        BY <1>1, <1>2, <3>1, <3>3 DEF pairs
      <3>5. ASSUME NEW k \in 1 .. Len(bytes) PROVE IsHex(k)
        <4>1. k \in 1 .. i - 1 /\ k \in Nat \ {0} /\ k <= pairs
          BY <2>1, <3>1, <3>2
        <4> QED
          BY <1>1, <1>2, <3>1, <4>1 DEF pairs, Decodes
      <3> QED
        BY <3>2, <3>4, <3>5
    <2>3. ASSUME pc \in {"encode", "done"}, NEW k \in 1 .. pairs PROVE IsHex(k)
      <3>1. Decodes(bytes, given.data, pairs)
        BY <1>2, <2>3 DEF Inv, TextInv
      <3>2. \A m \in Nat : k \in 1 .. m => k \in Nat \ {0} /\ k <= m
        OBVIOUS
      <3>3. k \in Nat \ {0} /\ k <= pairs
        BY <2>1, <2>3, <3>2
      <3> QED
        BY <1>1, <1>2, <2>3, <3>1, <3>3 DEF Decodes
    <2> QED
      BY <2>2, <2>3 DEF RejectsAtFirstBadPair
  <1>3. Inv => RejectsAtFirstBadPair
    BY <1>2 DEF RejectsAtFirstBadPair
  <1> QED
    BY Invariance, <1>3, PTL

----------------------------------------------------------------------------
(* A plain char has the two halves of the byte that it was made of. *)
LEMMA HalvesOfSigned ==
    ASSUME NEW b \in Byte
    PROVE  (Signed(b) % 256) \div 16 = b \div 16 /\ Signed(b) % 16 = b % 16
  <1>1. CASE b < 128
    BY <1>1 DEF Signed, Byte
  <1>2. CASE ~(b < 128)
    <2>1. Signed(b) = b - 256
      BY <1>2 DEF Signed
    <2>2. (b - 256) % 256 = b /\ (b - 256) % 16 = b % 16
      BY <1>2 DEF Byte
    <2> QED
      BY <2>1, <2>2
  <1> QED
    BY <1>1, <1>2

(***************************************************************************)
(* hexStr of qtum.hpp prints any buffer as bytesToHexString does, though   *)
(* its bytes have a sign.                                                  *)
(***************************************************************************)
THEOREM BindingsAgree == Spec => []BindingsPrintAlike
  <1>1. ASSUME Inv, given.kind = "bytes", pc = "done" PROVE hexStr(given.data) = text
    <2> DEFINE n == Len(given.data)
               Digit(k) == LET c == Signed(given.data[(k + 1) \div 2])
                           IN ByteMap[(IF k % 2 = 1 THEN (c % 256) \div 16 ELSE c % 16) + 1]
    <2>1. given.data \in Seq(Byte) /\ n \in Nat
      BY <1>1, GivenType
    <2>2. Encodes(text, given.data, n) /\ text \in Seq(Byte)
      BY <1>1 DEF Inv, BytesInv
    <2>3. ASSUME NEW k \in 1 .. 2 * n PROVE text[k] = Digit(k)
      <3> DEFINE j == (k + 1) \div 2
                 b == given.data[j]
      <3>1. j \in 1 .. n
        BY <2>1
      <3>2. b \in Byte
        BY <2>1, <3>1
      <3>3. b \div 16 \in Nibble /\ b % 16 \in Nibble
        BY <3>2, HalvesOfByte
      <3>4. /\ text[2 * j - 1] = ByteMap[(b \div 16) + 1]
            /\ text[2 * j] = ByteMap[(b % 16) + 1]
        <4> HIDE DEF j, b
        <4>1. text[2 * j - 1] = nibbleToChar(b \div 16) /\ text[2 * j] = nibbleToChar(b % 16)
          BY <2>2, <3>1 DEF Encodes, b
        <4>2. b \div 16 < 16 /\ b % 16 < 16
          BY <3>3 DEF Nibble
        <4> QED
          BY <4>1, <4>2 DEF nibbleToChar
      <3>5. CASE k % 2 = 1
        <4>1. k = 2 * j - 1
          BY <2>1, <3>5
        <4> QED
          BY <3>2, <3>4, <3>5, <4>1, HalvesOfSigned
      <3>6. CASE k % 2 # 1
        <4>1. k = 2 * j
          BY <2>1, <3>6
        <4> QED
          BY <3>2, <3>4, <3>6, <4>1, HalvesOfSigned
      <3> QED
        BY <3>5, <3>6
    <2>4. text = [k \in 1 .. 2 * n |-> Digit(k)]
      <3>1. Len(text) = 2 * n
        BY <2>2 DEF Encodes
      <3> HIDE DEF Digit
      <3> QED
        BY <2>1, <2>2, <2>3, <3>1
    <2> QED
      BY <2>4 DEF hexStr
  <1>2. Inv => BindingsPrintAlike
    BY <1>1 DEF BindingsPrintAlike
  <1> QED
    BY Invariance, <1>2, PTL
=============================================================================
