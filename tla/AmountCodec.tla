---------------------------- MODULE AmountCodec -----------------------------
(***************************************************************************)
(* Amounts as a database column of type NUMERIC and back: models/amount.rs,*)
(* u128_to_pg_decimal and pg_decimal_to_u128.                              *)
(*                                                                         *)
(* A PgNumeric is a sign, a weight, a scale and digits in base DigitBase   *)
(* (10000 in the code, 10^4), the first of which counts DigitBase^weight.  *)
(* The width of the integer and the base are parameters, so that TLC can   *)
(* see every value; arithmetic that the code checks is checked here, and   *)
(* arithmetic it does not check panics or wraps as the build profile says. *)
(***************************************************************************)
EXTENDS Integers, Sequences

CONSTANTS
  Decimals,  \* decimal digits in one digit of a PgNumeric: 4
  MaxValue,  \* u128::max_value()
  Numerics   \* the PgNumerics a column may hold

\* A recursive function in the place of ^, so that theorems can be stated
\* about it.
Pow10[n \in Nat] == IF n = 0 THEN 1 ELSE 10 * Pow10[n - 1]

DigitBase == Pow10[Decimals]

\* What a column of type NUMERIC can be read as (diesel's PgNumeric).
PgNumeric ==
  [sign : {"positive", "negative"}, weight : Int, scale : Nat,
   digits : Seq(0..(DigitBase - 1))] \cup {[sign |-> "nan"]}

\* One digit of a PgNumeric fits the integer: 10^4 < 2^128.
ASSUME AmountAssumption ==
  /\ Decimals \in Nat \ {0} /\ MaxValue \in Nat /\ DigitBase <= MaxValue
  /\ Numerics \subseteq PgNumeric

Err == [kind |-> "err"]
Panic == [kind |-> "panic"]
Ok(v) == [kind |-> "ok", value |-> v]

Profiles == {"debug", "release"}

VARIABLES
  profile,  \* build profile: overflow checks, or wrapping
  origin,   \* the value to store, or NoValue if the column was written elsewhere
  numeric,  \* the column
  outcome   \* what reading it returned

amountVars == <<profile, origin, numeric, outcome>>

NoValue == -1
NoNumeric == [sign |-> "none"]
NoOutcome == [kind |-> "none"]

-----------------------------------------------------------------------------
\* The digits of v, least significant first: the iterator ToBase10000, which
\* keeps the quotient that is left and stops when that is 0.
ToBase10000(v) ==
  LET left[i \in Nat] == IF i = 0 THEN v ELSE left[i - 1] \div DigitBase
      count == CHOOSE n \in 1..(v + 1) :
                 left[n] = 0 /\ \A i \in 1..(n - 1) : left[i] # 0
  IN  [i \in 1..count |-> left[i - 1] % DigitBase]

\* How many elements skip_while drops.
LeadingZeros(s) ==
  CHOOSE k \in 0..Len(s) :
    (\A i \in 1..k : s[i] = 0) /\ (k < Len(s) => s[k + 1] # 0)

Reversed(s) == [i \in 1..Len(s) |-> s[Len(s) + 1 - i]]

\* Mutant: the weight counts the digits that are left.
WeightOfRest(v) ==
  LET all == ToBase10000(v)
      digits == SubSeq(all, LeadingZeros(all) + 1, Len(all))
  IN  [sign |-> "positive", weight |-> Len(digits) - 1, scale |-> 0,
       digits |-> Reversed(digits)]

\* skip_while drops the zeros at the little end; the weight counts them.
U128ToPgDecimal(v) ==
  LET all == ToBase10000(v)
      digits == SubSeq(all, LeadingZeros(all) + 1, Len(all))
  IN  [sign |-> "positive", weight |-> Len(all) - 1, scale |-> 0,
       digits |-> Reversed(digits)]

\* checked_mul and checked_add: Err if the result does not fit.
Checked(v) == IF v <= MaxValue THEN Ok(v) ELSE Err

\* Mutant: the digits phase does not check.
DigitsWrapped(digits) ==
  LET result[i \in 0..Len(digits)] ==
        IF i = 0 THEN Ok(0)
        ELSE Ok((result[i - 1].value * DigitBase + digits[i]) % (MaxValue + 1))
  IN  result[Len(digits)]

\* The digits phase of the conversion: what the loop has after i digits.
DigitsValue(digits) ==
  LET result[i \in 0..Len(digits)] ==
        IF i = 0 THEN Ok(0)
        ELSE IF result[i - 1] = Err THEN Err
        ELSE Checked(result[i - 1].value * DigitBase + digits[i])
  IN  result[Len(digits)]

\* The correction phase: 10u128.pow(exp) is not checked, the product is.
Corrected(v, exp, p) ==
  IF Pow10[exp] <= MaxValue THEN Checked(v * Pow10[exp])
  ELSE IF p = "debug" THEN Panic
  ELSE Checked(v * (Pow10[exp] % (MaxValue + 1)))

CorrectionExp(n) == Decimals * (n.weight - Len(n.digits) + 1)

PgDecimalToU128(n, p) ==
  CASE n.sign # "positive" -> Err
    [] n.sign = "positive" /\ (n.scale # 0 \/ n.weight < 0) -> Err
    [] OTHER ->
         LET v == DigitsValue(n.digits)
         IN  IF v = Err \/ CorrectionExp(n) < 0 THEN Err
             ELSE Corrected(v.value, CorrectionExp(n), p)

-----------------------------------------------------------------------------
\* The inputs: an amount to store, or a column some other program wrote.
AmountInit ==
  /\ profile \in Profiles
  /\ \/ origin \in 0..MaxValue /\ numeric = NoNumeric
     \/ origin = NoValue /\ numeric \in Numerics
  /\ outcome = NoOutcome

\* to_sql.
Store ==
  /\ origin # NoValue /\ numeric = NoNumeric
  /\ numeric' = U128ToPgDecimal(origin)
  /\ UNCHANGED <<profile, origin, outcome>>

\* from_sql.
Load ==
  /\ numeric # NoNumeric /\ outcome = NoOutcome
  /\ outcome' = PgDecimalToU128(numeric, profile)
  /\ UNCHANGED <<profile, origin, numeric>>

AmountNext == Store \/ Load

AmountSpec == AmountInit /\ [][AmountNext]_amountVars

-----------------------------------------------------------------------------
\* What the i-th digit counts: DigitBase^(weight + 1 - i).
DigitPower(n, i) == Pow10[Decimals * (n.weight + 1 - i)]

\* The number a positive PgNumeric of scale 0 stands for, if it is whole.
ExactValue(n) ==
  LET sum[i \in 0..Len(n.digits)] ==
        IF i = 0 THEN 0
        ELSE sum[i - 1] + n.digits[i] * DigitPower(n, i)
  IN  sum[Len(n.digits)]

IsWhole(n) ==
  n.sign = "positive" /\ n.scale = 0 /\ n.weight >= 0 /\ CorrectionExp(n) >= 0

(***************************************************************************)
(* Every amount that is stored is read back unchanged, trailing zeros      *)
(* included, under both build profiles (models/amount.rs:94-139).          *)
(***************************************************************************)
RoundTrip ==
  (origin # NoValue /\ outcome # NoOutcome) => outcome = Ok(origin)

(***************************************************************************)
(* As long as the power of ten fits, a column is read exactly or not at    *)
(* all: a number that does not fit, is negative or has a fraction is an    *)
(* error, every other is returned as it is (models/amount.rs:101-129).     *)
(***************************************************************************)
ExactOrError ==
  (/\ origin = NoValue /\ outcome # NoOutcome
   /\ (numeric.sign = "positive" /\ CorrectionExp(numeric) >= 0) =>
        Pow10[CorrectionExp(numeric)] <= MaxValue) =>
    outcome = IF IsWhole(numeric) THEN Checked(ExactValue(numeric)) ELSE Err

(***************************************************************************)
(* A number too large for u128 is an error.  The code's own message for it *)
(* is "Overflow in Pgnumeric to u128 (correction phase)", amount.rs:128,   *)
(* and the test's error cases hold "u128::max_value + 1", amount.rs:231.   *)
(***************************************************************************)
OverflowIsAnError ==
  (/\ origin = NoValue /\ outcome # NoOutcome
   /\ IsWhole(numeric) /\ ExactValue(numeric) > MaxValue) => outcome = Err
=============================================================================
