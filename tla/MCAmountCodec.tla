--------------------------- MODULE MCAmountCodec ----------------------------
(***************************************************************************)
(* AmountCodec with one decimal digit per digit and a ten-bit integer.     *)
(***************************************************************************)
EXTENDS AmountCodec

\* Digits of a column: canonical (neither end is 0), up to four of them,
\* enough to exceed MaxValue before and after the correction.
Digits == {0, 1, 9}

CanonicalDigits ==
  {s \in UNION {[1..k -> Digits] : k \in 0..4} :
     s = <<>> \/ (s[1] # 0 /\ s[Len(s)] # 0)}

SmallNumerics ==
  [sign : {"positive", "negative"}, weight : -1..4, scale : {0, 1},
   digits : CanonicalDigits] \cup {[sign |-> "nan"]}
=============================================================================
