------------------------------ MODULE HexCodec ------------------------------
(***************************************************************************)
(* parse_hex and to_hex (utils.rs), which read the key callbacks are       *)
(* signed with and write the signature.  A text is a sequence of           *)
(* characters, a byte an element of 0..255.                                *)
(***************************************************************************)
EXTENDS Naturals, Sequences, SeqFilter

Chars == <<"0", "1", "2", "3", "4", "5", "6", "7",
           "8", "9", "a", "b", "c", "d", "e", "f">>

UpperChars == <<"0", "1", "2", "3", "4", "5", "6", "7",
                "8", "9", "A", "B", "C", "D", "E", "F">>

\* The characters filter_map lets through, and their values.
HexDigits == {Chars[v] : v \in 1..16} \cup {UpperChars[v] : v \in 1..16}
DigitValue(c) == CHOOSE v \in 0..15 : c \in {Chars[v + 1], UpperChars[v + 1]}

DigitsOf(text) == Keep(text, HexDigits)

\* Mutant: the low digit of a byte comes first.
ParseHexLowFirst(text) ==
  LET ds == DigitsOf(text) IN
    [k \in 1..(Len(ds) \div 2) |->
       DigitValue(ds[2 * k - 1]) + 16 * DigitValue(ds[2 * k])]

\* Mutant: a leading 0x is taken for what it is.
ParseHexPrefixed(text) ==
  LET prefixed == Len(text) >= 2 /\ text[1] = "0" /\ text[2] = "x"
      ds == DigitsOf(IF prefixed THEN Tail(Tail(text)) ELSE text) IN
    [k \in 1..(Len(ds) \div 2) |->
       16 * DigitValue(ds[2 * k - 1]) + DigitValue(ds[2 * k])]

\* Two digits make a byte, h << 4 | l; a digit without a second one is lost.
ParseHex(text) ==
  LET ds == DigitsOf(text) IN
    [k \in 1..(Len(ds) \div 2) |->
       16 * DigitValue(ds[2 * k - 1]) + DigitValue(ds[2 * k])]

ToHex(bytes) ==
  [k \in 1..(2 * Len(bytes)) |->
     LET byte == bytes[(k + 1) \div 2] IN
       Chars[1 + IF k % 2 = 1 THEN byte \div 16 ELSE byte % 16]]
=============================================================================
