-------------------------- MODULE AmountCodecProofs --------------------------
(***************************************************************************)
(* Amounts are read back as they were stored, and columns exactly or not   *)
(* at all, for any number of decimals in a digit and any width of the      *)
(* integer that holds one digit.                                           *)
(***************************************************************************)
EXTENDS AmountCodec, SequenceLemmas

-----------------------------------------------------------------------------
(* Powers of ten.                                                          *)

\* The recursive function exists, so Pow10 is what its equation says.
LEMMA Pow10Equation ==
  Pow10 = [n \in Nat |-> IF n = 0 THEN 1 ELSE 10 * Pow10[n - 1]]
<1> DEFINE IsPow10(f) == f = [n \in Nat |-> IF n = 0 THEN 1 ELSE 10 * f[n - 1]]
           G == [i \in Nat |-> [x \in Nat |-> 10 * x]]
<1>1. PICK f : FollowsAll(f, 1, G, Nat)
  <2>1. G \in [Nat -> [Nat -> Nat]] /\ 1 \in Nat
    OBVIOUS
  <2> HIDE DEF G
  <2> QED BY <2>1, FollowsAllExists
<1>2. ASSUME NEW n \in Nat PROVE f[n] = IF n = 0 THEN 1 ELSE 10 * f[n - 1]
  <2>1. CASE n = 0
    BY <1>1, <2>1 DEF FollowsAll
  <2>2. CASE n # 0
    <3> DEFINE k == n - 1
    <3>1. k \in Nat /\ k + 1 = n
      BY <2>2
    <3> HIDE DEF k
    <3>2. f[k + 1] = 10 * f[k]
      BY <1>1, <3>1 DEF FollowsAll
    <3> QED BY <2>2, <3>1, <3>2 DEF k
  <2> QED BY <2>1, <2>2
<1>3. IsPow10(f)
  <2>1. f = [n \in Nat |-> f[n]]
    BY <1>1 DEF FollowsAll
  <2> QED BY <1>2, <2>1
<1>4. Pow10 = CHOOSE g : IsPow10(g)
  BY DEF Pow10
<1> HIDE DEF IsPow10
<1>5. IsPow10(Pow10)
  BY <1>3, <1>4
<1> QED BY <1>5 DEF IsPow10

LEMMA Pow10Step ==
  /\ Pow10[0] = 1
  /\ \A n \in Nat : Pow10[n + 1] = 10 * Pow10[n]
<1>1. Pow10[0] = 1
  BY Pow10Equation
<1>2. ASSUME NEW n \in Nat PROVE Pow10[n + 1] = 10 * Pow10[n]
  <2> DEFINE m == n + 1
  <2>1. m \in Nat /\ m # 0 /\ m - 1 = n
    OBVIOUS
  <2> HIDE DEF m
  <2>2. Pow10[m] = 10 * Pow10[m - 1]
    BY <2>1, Pow10Equation
  <2> QED BY <2>1, <2>2 DEF m
<1> QED BY <1>1, <1>2

LEMMA Pow10Type == \A n \in Nat : Pow10[n] \in Nat /\ Pow10[n] >= 1
<1> DEFINE N == {n \in Nat : Pow10[n] \in Nat /\ Pow10[n] >= 1}
<1>1. 0 \in N
  BY Pow10Step
<1>2. ASSUME NEW n \in Nat, n \in N PROVE n + 1 \in N
  BY <1>2, Pow10Step
<1> HIDE DEF N
<1>3. Nat \subseteq N
  BY <1>1, <1>2, SetInduction
<1> QED BY <1>3 DEF N

\* Powers add up.
LEMMA Pow10Sum ==
  ASSUME NEW a \in Nat, NEW b \in Nat
  PROVE  Pow10[a + b] = Pow10[a] * Pow10[b]
<1> DEFINE N == {n \in Nat : Pow10[a + n] = Pow10[a] * Pow10[n]}
<1>1. 0 \in N
  BY Pow10Step, Pow10Type
<1>2. ASSUME NEW n \in Nat, n \in N PROVE n + 1 \in N
  <2> DEFINE x == Pow10[a]
             y == Pow10[n]
  <2>1. Pow10[(a + n) + 1] = 10 * Pow10[a + n] /\ Pow10[n + 1] = 10 * y
    BY Pow10Step
  <2>2. Pow10[a + n] = x * y /\ x \in Nat /\ y \in Nat
    BY <1>2, Pow10Type
  <2> HIDE DEF x, y
  <2>3. Pow10[(a + n) + 1] = x * Pow10[n + 1]
    BY <2>1, <2>2
  <2>4. (a + n) + 1 = a + (n + 1)
    OBVIOUS
  <2> QED BY <2>3, <2>4 DEF x
<1> HIDE DEF N
<1>3. Nat \subseteq N
  BY <1>1, <1>2, SetInduction
<1> QED BY <1>3 DEF N

\* One digit of a PgNumeric has at least two values.
LEMMA DigitBaseType == DigitBase \in Nat /\ DigitBase >= 10
<1>1. Decimals \in Nat /\ Decimals - 1 \in Nat /\ (Decimals - 1) + 1 = Decimals
  BY AmountAssumption
<1> DEFINE k == Decimals - 1
<1>2. Pow10[k + 1] = 10 * Pow10[k] /\ Pow10[k] \in Nat /\ Pow10[k] >= 1
  BY <1>1, Pow10Step, Pow10Type
<1> QED BY <1>1, <1>2 DEF DigitBase

\* The power of the i-th digit.
LEMMA BasePower ==
  /\ Pow10[Decimals * 0] = 1
  /\ \A k \in Nat : /\ Decimals * k \in Nat
                    /\ Pow10[Decimals * k] \in Nat /\ Pow10[Decimals * k] >= 1
                    /\ Pow10[Decimals * (k + 1)] = DigitBase * Pow10[Decimals * k]
<1>1. Decimals \in Nat /\ Decimals * 0 = 0
  BY AmountAssumption
<1>2. ASSUME NEW k \in Nat
      PROVE  /\ Decimals * k \in Nat
             /\ Pow10[Decimals * k] \in Nat /\ Pow10[Decimals * k] >= 1
             /\ Pow10[Decimals * (k + 1)] = DigitBase * Pow10[Decimals * k]
  <2> DEFINE e == Decimals * k
  <2>1. e \in Nat /\ Decimals * (k + 1) = Decimals + e
    BY <1>1
  <2> HIDE DEF e
  <2>2. Pow10[Decimals + e] = Pow10[Decimals] * Pow10[e]
    BY <1>1, <2>1, Pow10Sum
  <2> QED BY <2>1, <2>2, Pow10Type DEF DigitBase, e
<1> QED BY <1>1, <1>2, Pow10Step

-----------------------------------------------------------------------------
(* Storing.                                                                *)

\* Division by the base (ToBase10000::next).
LEMMA DivideByBase ==
  ASSUME NEW q \in Nat
  PROVE  /\ q \div DigitBase \in Nat /\ q % DigitBase \in 0..(DigitBase - 1)
         /\ q = (q \div DigitBase) * DigitBase + (q % DigitBase)
         /\ q \div DigitBase <= q
         /\ q > 0 => q \div DigitBase < q
<1> DEFINE b == DigitBase
           d == q \div b
           r == q % b
<1>1. b \in Nat /\ b >= 10
  BY DigitBaseType
<1> HIDE DEF b
<1>2. d \in Int /\ r \in 0..(b - 1) /\ q = d * b + r
  BY <1>1
<1> HIDE DEF d, r
<1>3. d >= 0
  <2> SUFFICES ASSUME d < 0 PROVE FALSE
    BY <1>2
  <2>1. d <= -1
    BY <1>2
  <2>2. d * b <= -b
    BY <1>1, <1>2, <2>1
  <2> QED BY <1>1, <1>2, <2>2
<1>4. d * b >= 10 * d
  BY <1>1, <1>2, <1>3
<1>5. d <= q /\ (q > 0 => d < q)
  BY <1>1, <1>2, <1>3, <1>4
<1> QED BY <1>2, <1>3, <1>5 DEF b, d, r

\* What the iterator is left with after i calls: v first, and nothing after n
\* of them.
IsLeft(left, n, v) ==
  /\ left \in [Nat -> Nat] /\ left[0] = v
  /\ \A i \in Nat : left[i + 1] = left[i] \div DigitBase
  /\ n \in 1..(v + 1) /\ left[n] = 0

LEMMA LeftExists ==
  ASSUME NEW v \in Nat
  PROVE  \E left, n : /\ IsLeft(left, n, v)
                      /\ ToBase10000(v) = [i \in 1..n |-> left[i - 1] % DigitBase]
<1> DEFINE IsQuotient(f) == f = [i \in Nat |-> IF i = 0 THEN v ELSE f[i - 1] \div DigitBase]
           left == CHOOSE f : IsQuotient(f)
           Stops(n) == left[n] = 0 /\ \A i \in 1..(n - 1) : left[i] # 0
           count == CHOOSE n \in 1..(v + 1) : Stops(n)
           G == [i \in Nat |-> [x \in Nat |-> x \div DigitBase]]
<1>1. PICK f : FollowsAll(f, v, G, Nat)
  <2>1. G \in [Nat -> [Nat -> Nat]]
    BY DivideByBase
  <2> HIDE DEF G
  <2> QED BY <2>1, FollowsAllExists
<1>2. ASSUME NEW i \in Nat PROVE f[i] = IF i = 0 THEN v ELSE f[i - 1] \div DigitBase
  <2>1. CASE i = 0
    BY <1>1, <2>1 DEF FollowsAll
  <2>2. CASE i # 0
    <3> DEFINE k == i - 1
    <3>1. k \in Nat /\ k + 1 = i
      BY <2>2
    <3> HIDE DEF k
    <3>2. f[k + 1] = f[k] \div DigitBase
      BY <1>1, <3>1 DEF FollowsAll
    <3> QED BY <2>2, <3>1, <3>2 DEF k
  <2> QED BY <2>1, <2>2
<1>3. IsQuotient(f)
  <2>1. f = [i \in Nat |-> f[i]]
    BY <1>1 DEF FollowsAll
  <2> QED BY <1>2, <2>1
<1>4. ToBase10000(v) = [i \in 1..count |-> left[i - 1] % DigitBase]
  BY DEF ToBase10000
<1> HIDE DEF IsQuotient, G
<1>5. IsQuotient(left)
  BY <1>3
<1> HIDE DEF left, count
<1>6. left[0] = v /\ \A i \in Nat : left[i + 1] = left[i] \div DigitBase
  <2>1. left = [i \in Nat |-> IF i = 0 THEN v ELSE left[i - 1] \div DigitBase]
    BY <1>5 DEF IsQuotient
  <2>2. ASSUME NEW i \in Nat PROVE left[i + 1] = left[i] \div DigitBase
    <3> DEFINE j == i + 1
    <3>1. j \in Nat /\ j # 0 /\ j - 1 = i
      OBVIOUS
    <3> HIDE DEF j
    <3>2. left[j] = left[j - 1] \div DigitBase
      BY <2>1, <3>1
    <3> QED BY <3>1, <3>2 DEF j
  <2> QED BY <2>1, <2>2
<1>7. left \in [Nat -> Nat] /\ \A i \in Nat : left[i] = 0 \/ left[i] + i <= v
  <2> DEFINE N == {i \in Nat : left[i] \in Nat /\ (left[i] = 0 \/ left[i] + i <= v)}
  <2>1. 0 \in N
    BY <1>6
  <2>2. ASSUME NEW i \in Nat, i \in N PROVE i + 1 \in N
    <3> DEFINE x == left[i]
               y == left[i + 1]
    <3>1. x \in Nat /\ (x = 0 \/ x + i <= v) /\ y = x \div DigitBase
      BY <1>6, <2>2
    <3> HIDE DEF x, y
    <3>2. y \in Nat /\ y <= x /\ (x > 0 => y < x)
      BY <3>1, DivideByBase
    <3>3. y \in Nat /\ (y = 0 \/ y + (i + 1) <= v)
      BY <3>1, <3>2
    <3> QED BY <3>3 DEF y
  <2> HIDE DEF N
  <2>3. Nat \subseteq N
    BY <2>1, <2>2, SetInduction
  <2>4. left = [i \in Nat |-> left[i]]
    BY <1>5 DEF IsQuotient
  <2> QED BY <2>3, <2>4 DEF N
<1>8. \E n \in 1..(v + 1) : Stops(n)
  <2> DEFINE S == {n \in Nat : n > 0 /\ left[n] = 0}
  <2>1. v + 1 \in S
    BY <1>7
  <2>2. S \subseteq Nat
    OBVIOUS
  <2> HIDE DEF S
  <2>3. PICK n \in S : \A m \in Nat : m < n => m \notin S
    BY <2>1, <2>2, LeastNumber
  <2>4. n \in Nat /\ n > 0 /\ left[n] = 0
    BY DEF S
  <2>5. n <= v + 1
    BY <2>1, <2>3, <2>4
  <2>6. \A i \in 1..(n - 1) : left[i] # 0
    BY <2>3, <2>4 DEF S
  <2> QED BY <2>4, <2>5, <2>6
<1>9. count \in 1..(v + 1) /\ Stops(count)
  <2> HIDE DEF Stops
  <2> QED BY <1>8 DEF count
<1>10. IsLeft(left, count, v)
  BY <1>6, <1>7, <1>9 DEF IsLeft
<1> QED BY <1>4, <1>10

\* skip_while stops before the first digit that is not 0, or at the end.
LEMMA LeadingZerosFacts ==
  ASSUME NEW D, NEW s \in Seq(D)
  PROVE  /\ LeadingZeros(s) \in 0..Len(s)
         /\ \A i \in 1..LeadingZeros(s) : s[i] = 0
         /\ LeadingZeros(s) < Len(s) => s[LeadingZeros(s) + 1] # 0
<1> DEFINE IsCount(k) == (\A i \in 1..k : s[i] = 0) /\ (k < Len(s) => s[k + 1] # 0)
           S == {k \in Nat : k < Len(s) => s[k + 1] # 0}
<1>1. Len(s) \in Nat /\ Len(s) \in S /\ S \subseteq Nat
  BY LenProperties
<1> HIDE DEF S
<1>2. PICK k \in S : \A m \in Nat : m < k => m \notin S
  BY <1>1, LeastNumber
<1>3. k \in Nat /\ k <= Len(s) /\ (k < Len(s) => s[k + 1] # 0)
  BY <1>1, <1>2 DEF S
<1>4. ASSUME NEW i \in 1..k PROVE s[i] = 0
  <2> DEFINE m == i - 1
  <2>1. m \in Nat /\ m < k /\ m < Len(s) /\ m + 1 = i
    BY <1>3
  <2> HIDE DEF m
  <2>2. m \notin S
    BY <1>2, <2>1
  <2> QED BY <2>1, <2>2 DEF S
<1>5. k \in 0..Len(s) /\ IsCount(k)
  BY <1>1, <1>3, <1>4
<1>6. LeadingZeros(s) = CHOOSE n \in 0..Len(s) : IsCount(n)
  BY DEF LeadingZeros
<1> HIDE DEF IsCount
<1>7. LeadingZeros(s) \in 0..Len(s) /\ IsCount(LeadingZeros(s))
  BY <1>5, <1>6
<1> QED BY <1>7 DEF IsCount

\* A column holds the digits of the quotients of v, from the last one down to
\* the first that is not 0.
IsStored(column, left, n, z, v) ==
  /\ IsLeft(left, n, v) /\ z \in 0..n
  /\ \A i \in 1..z : left[i - 1] % DigitBase = 0
  /\ column = [sign |-> "positive", weight |-> n - 1, scale |-> 0,
               digits |-> [j \in 1..(n - z) |-> left[n - j] % DigitBase]]

LEMMA StoredAmount ==
  ASSUME NEW v \in Nat
  PROVE  \E left, n, z : IsStored(U128ToPgDecimal(v), left, n, z, v)
<1>1. PICK left, n :
        /\ IsLeft(left, n, v)
        /\ ToBase10000(v) = [i \in 1..n |-> left[i - 1] % DigitBase]
  BY LeftExists
<1> DEFINE D == 0..(DigitBase - 1)
           all == ToBase10000(v)
           z == LeadingZeros(all)
           digits == SubSeq(all, z + 1, Len(all))
<1>2. left \in [Nat -> Nat] /\ n \in Nat /\ n >= 1
  <2>1. IsLeft(left, n, v)
    BY <1>1
  <2> QED BY ONLY v \in Nat, <2>1 DEF IsLeft
<1>3. all \in Seq(D) /\ Len(all) = n /\ \A i \in 1..n : all[i] = left[i - 1] % DigitBase
  <2>1. ASSUME NEW i \in 1..n PROVE left[i - 1] % DigitBase \in D
    <3>1. left[i - 1] \in Nat
      BY <1>2
    <3> QED BY <3>1, DivideByBase
  <2> QED BY <1>1, <1>2, <2>1
<1> HIDE DEF all, D
<1>4. z \in 0..n /\ \A i \in 1..z : all[i] = 0
  BY <1>3, LeadingZerosFacts
<1> HIDE DEF z
<1>5. /\ digits \in Seq(D) /\ Len(digits) = n - z
      /\ \A j \in 1..(n - z) : digits[j] = all[z + j]
  <2>1. z + 1 \in 1..(Len(all) + 1) /\ n \in (z + 1 - 1)..Len(all)
    BY <1>2, <1>3, <1>4
  <2>2. /\ digits \in Seq(D) /\ Len(digits) = n - (z + 1) + 1
        /\ \A j \in 1..(n - (z + 1) + 1) : digits[j] = all[(z + 1) + j - 1]
    BY <1>3, <2>1, SubSeqProperties
  <2> HIDE DEF digits
  <2>3. n - (z + 1) + 1 = n - z /\ \A j \in 1..(n - z) : (z + 1) + j - 1 = z + j
    BY <1>2, <1>4
  <2> QED BY <2>2, <2>3
<1> HIDE DEF digits
<1>6. ASSUME NEW j \in 1..(n - z) PROVE digits[(n - z) + 1 - j] = left[n - j] % DigitBase
  <2> DEFINE k == (n - z) + 1 - j
  <2>1. k \in 1..(n - z) /\ z + k \in 1..n /\ (z + k) - 1 = n - j
    BY <1>2, <1>4
  <2> HIDE DEF k
  <2>2. digits[k] = all[z + k] /\ all[z + k] = left[(z + k) - 1] % DigitBase
    BY <1>3, <1>5, <2>1
  <2> QED BY <2>1, <2>2 DEF k
<1>7. Reversed(digits) = [j \in 1..(n - z) |-> left[n - j] % DigitBase]
  BY <1>5, <1>6 DEF Reversed
<1>8. ASSUME NEW i \in 1..z PROVE left[i - 1] % DigitBase = 0
  <2>1. i \in 1..n
    BY <1>2, <1>4
  <2> QED BY <1>3, <1>4, <2>1
<1>9. U128ToPgDecimal(v) = [sign |-> "positive", weight |-> n - 1, scale |-> 0,
                            digits |-> Reversed(digits)]
  BY <1>3 DEF U128ToPgDecimal, all, z, digits
<1>10. IsStored(U128ToPgDecimal(v), left, n, z, v)
  BY <1>1, <1>4, <1>7, <1>8, <1>9 DEF IsStored
<1> QED BY <1>10

-----------------------------------------------------------------------------
(* Reading.                                                                *)

\* h[i] is the number the first i digits make, whether it fits or not.
IsHorner(h, digits, m) ==
  /\ h \in [0..m -> Nat] /\ h[0] = 0
  /\ \A i \in Nat : i < m => /\ digits[i + 1] \in Nat
                             /\ h[i + 1] = h[i] * DigitBase + digits[i + 1]

LEMMA CheckedFacts ==
  /\ \A x : Ok(x).value = x /\ Ok(x) # Err
  /\ \A x \in Nat : /\ x <= MaxValue => Checked(x) = Ok(x)
                    /\ x > MaxValue => Checked(x) = Err
<1>1. ASSUME NEW x PROVE Ok(x).value = x /\ Ok(x).kind = "ok" /\ Err.kind = "err"
  BY DEF Ok, Err
<1>2. \A x : Ok(x) # Err
  BY <1>1
<1>3. MaxValue \in Nat
  BY AmountAssumption
<1> QED BY <1>1, <1>2, <1>3 DEF Checked

\* The checks of the digits phase amount to one at the end: what does not fit
\* never fits again.
LEMMA DigitsAreExact ==
  ASSUME NEW digits, NEW m \in Nat, Len(digits) = m, NEW h, IsHorner(h, digits, m)
  PROVE  DigitsValue(digits) = Checked(h[m])
<1> DEFINE IsResult(f) ==
             f = [i \in 0..m |-> IF i = 0 THEN Ok(0)
                                 ELSE IF f[i - 1] = Err THEN Err
                                 ELSE Checked(f[i - 1].value * DigitBase + digits[i])]
           g == [i \in 0..m |-> Checked(h[i])]
           result == CHOOSE f : IsResult(f)
<1>1. MaxValue \in Nat /\ DigitBase \in Nat /\ DigitBase >= 1
  BY AmountAssumption, DigitBaseType
<1>2. Checked(0) = Ok(0)
  BY <1>1, CheckedFacts
<1>3. ASSUME NEW i \in Nat, i < m
      PROVE  /\ Checked(h[i]) = Err => Checked(h[i + 1]) = Err
             /\ Checked(h[i]) # Err =>
                  Checked(h[i + 1]) = Checked(Checked(h[i]).value * DigitBase + digits[i + 1])
  <2> DEFINE x == h[i]
             y == h[i + 1]
             d == digits[i + 1]
  <2>1. x \in Nat /\ y \in Nat /\ d \in Nat /\ y = x * DigitBase + d
    BY <1>3 DEF IsHorner
  <2> HIDE DEF x, y, d
  <2>2. x * DigitBase >= x
    BY <1>1, <2>1
  <2>3. y >= x
    BY <1>1, <2>1, <2>2
  <2>4. CASE x > MaxValue
    <3>1. y > MaxValue
      BY <1>1, <2>1, <2>3, <2>4
    <3> QED BY <2>1, <2>4, <3>1, CheckedFacts DEF x, y
  <2>5. CASE x <= MaxValue
    <3>1. Checked(x) = Ok(x) /\ Checked(x) # Err /\ Checked(x).value = x
      BY <2>1, <2>5, CheckedFacts
    <3> QED BY <2>1, <3>1 DEF x, y, d
  <2> QED BY <1>1, <2>1, <2>4, <2>5
<1>4. ASSUME NEW i \in 0..m
      PROVE  g[i] = IF i = 0 THEN Ok(0)
                    ELSE IF g[i - 1] = Err THEN Err
                    ELSE Checked(g[i - 1].value * DigitBase + digits[i])
  <2>1. CASE i = 0
    BY <1>2, <2>1 DEF IsHorner
  <2>2. CASE i # 0
    <3> DEFINE k == i - 1
    <3>1. k \in Nat /\ k < m /\ k + 1 = i /\ k \in 0..m
      BY <2>2
    <3>2. g[i] = Checked(h[i]) /\ g[k] = Checked(h[k])
      BY <3>1
    <3> HIDE DEF k, g
    <3> QED BY <1>3, <2>2, <3>1, <3>2 DEF k
  <2> QED BY <2>1, <2>2
<1>5. IsResult(g)
  <2>1. g = [i \in 0..m |-> g[i]]
    OBVIOUS
  <2> HIDE DEF g
  <2> QED BY <1>4, <2>1
<1>6. DigitsValue(digits) = result[m]
  BY DEF DigitsValue
<1> HIDE DEF IsResult, g
<1>7. IsResult(result)
  BY <1>5
<1> HIDE DEF result
<1>8. \A i \in Nat : i <= m => result[i] = Checked(h[i])
  <2> DEFINE N == {i \in Nat : i <= m => result[i] = Checked(h[i])}
  <2>1. 0 \in N
    BY <1>2, <1>7 DEF IsResult, IsHorner
  <2>2. ASSUME NEW k \in Nat, k \in N PROVE k + 1 \in N
    <3> SUFFICES ASSUME k + 1 <= m PROVE result[k + 1] = Checked(h[k + 1])
      OBVIOUS
    <3> DEFINE j == k + 1
    <3>1. j \in 0..m /\ j # 0 /\ j - 1 = k /\ k < m
      OBVIOUS
    <3>2. result[k] = Checked(h[k])
      BY <2>2
    <3> HIDE DEF j
    <3>3. result[j] = IF result[k] = Err THEN Err
                      ELSE Checked(result[k].value * DigitBase + digits[j])
      BY <1>7, <3>1 DEF IsResult
    <3> QED BY <1>3, <3>1, <3>2, <3>3 DEF j
  <2> HIDE DEF N
  <2>3. Nat \subseteq N
    BY <2>1, <2>2, SetInduction
  <2> QED BY <2>3 DEF N
<1> QED BY <1>6, <1>8

\* Each digit counts DigitBase times what the next one does.
LEMMA DigitPowers ==
  ASSUME NEW n, n.weight \in Int, NEW i \in Nat, i <= n.weight + 1
  PROVE  /\ DigitPower(n, i) \in Nat /\ DigitPower(n, i) >= 1
         /\ i + 1 <= n.weight + 1 => DigitPower(n, i) = DigitBase * DigitPower(n, i + 1)
<1> DEFINE a == n.weight + 1 - i
           b == n.weight + 1 - (i + 1)
<1>1. a \in Nat /\ b \in Int /\ a = b + 1 /\ (i + 1 <= n.weight + 1 => b \in Nat)
  OBVIOUS
<1>2. DigitPower(n, i) = Pow10[Decimals * a] /\ DigitPower(n, i + 1) = Pow10[Decimals * b]
  BY DEF DigitPower
<1> HIDE DEF a, b
<1>3. b \in Nat => Pow10[Decimals * (b + 1)] = DigitBase * Pow10[Decimals * b]
  BY BasePower
<1> QED BY <1>1, <1>2, <1>3, BasePower

\* What the digits stand for is what the loop makes of them, times the power
\* of ten that is left.
LEMMA SumIsExact ==
  ASSUME NEW n, NEW m \in Nat, Len(n.digits) = m, n.weight \in Int, m <= n.weight + 1,
         NEW h, IsHorner(h, n.digits, m)
  PROVE  ExactValue(n) = h[m] * DigitPower(n, m)
<1> DEFINE w == n.weight + 1
           digits == n.digits
           p(i) == DigitPower(n, i)
           IsSum(f) ==
             f = [i \in 0..Len(digits) |-> IF i = 0 THEN 0 ELSE f[i - 1] + digits[i] * p(i)]
           g == [i \in 0..m |-> h[i] * p(i)]
           sum == CHOOSE f : IsSum(f)
<1>1. w \in Nat /\ m <= w /\ Len(digits) = m /\ DigitBase \in Nat
  BY DigitBaseType
<1>2. ASSUME NEW i \in Nat, i < m
      PROVE  h[i + 1] * p(i + 1) = h[i] * p(i) + digits[i + 1] * p(i + 1)
  <2> DEFINE x == h[i]
             d == digits[i + 1]
             q == p(i + 1)
  <2>1. x \in Nat /\ d \in Nat /\ h[i + 1] = x * DigitBase + d
    BY <1>2 DEF IsHorner
  <2>2. q \in Nat /\ p(i) = DigitBase * q
    <3>1. i + 1 \in Nat /\ i <= w /\ i + 1 <= w
      BY <1>1, <1>2
    <3> QED BY <3>1, DigitPowers
  <2> HIDE DEF x, d, q, p
  <2>3. (x * DigitBase + d) * q = x * (DigitBase * q) + d * q
    BY <1>1, <2>1, <2>2
  <2> QED BY <2>1, <2>2, <2>3 DEF x, d, q
<1>3. ASSUME NEW i \in 0..m PROVE h[i] * p(i) \in Nat
  <2>1. i \in Nat /\ i <= w /\ h[i] \in Nat
    BY <1>1 DEF IsHorner
  <2>2. p(i) \in Nat
    BY <2>1, DigitPowers
  <2> HIDE DEF p
  <2> QED BY <2>1, <2>2
<1>4. h[0] * p(0) = 0
  <2>1. p(0) \in Nat
    BY <1>1, DigitPowers
  <2> HIDE DEF p
  <2> QED BY <2>1 DEF IsHorner
<1>5. IsSum(g)
  <2>1. ASSUME NEW i \in 0..m
        PROVE  g[i] = IF i = 0 THEN 0 ELSE g[i - 1] + digits[i] * p(i)
    <3> HIDE DEF p
    <3>1. CASE i = 0
      BY <1>4, <3>1
    <3>2. CASE i # 0
      <4> DEFINE k == i - 1
      <4>1. k \in Nat /\ k < m /\ k + 1 = i /\ k \in 0..m
        BY <3>2
      <4>2. g[i] = h[i] * p(i) /\ g[k] = h[k] * p(k)
        BY <4>1
      <4> HIDE DEF k, g, digits
      <4>3. h[k + 1] * p(k + 1) = h[k] * p(k) + digits[k + 1] * p(k + 1)
        BY <1>2, <4>1
      <4> QED BY <3>2, <4>1, <4>2, <4>3 DEF k
    <3> QED BY <3>1, <3>2
  <2>2. g = [i \in 0..m |-> g[i]]
    OBVIOUS
  <2> HIDE DEF g, p, digits
  <2> QED BY <1>1, <2>1, <2>2
<1>6. ExactValue(n) = sum[Len(digits)]
  BY DEF ExactValue
<1> HIDE DEF IsSum, g, p
<1>7. IsSum(sum)
  BY <1>5
<1> HIDE DEF sum, w, digits
<1>8. \A i \in Nat : i <= m => sum[i] = h[i] * p(i)
  <2> DEFINE N == {i \in Nat : i <= m => sum[i] = h[i] * p(i)}
  <2>1. 0 \in N
    BY <1>1, <1>4, <1>7 DEF IsSum
  <2>2. ASSUME NEW k \in Nat, k \in N PROVE k + 1 \in N
    <3> SUFFICES ASSUME k + 1 <= m PROVE sum[k + 1] = h[k + 1] * p(k + 1)
      OBVIOUS
    <3> DEFINE j == k + 1
    <3>1. j \in 0..m /\ j # 0 /\ j - 1 = k /\ k < m
      OBVIOUS
    <3>2. sum[k] = h[k] * p(k)
      BY <2>2
    <3> HIDE DEF j
    <3>3. sum[j] = sum[k] + digits[j] * p(j)
      BY <1>1, <1>7, <3>1 DEF IsSum
    <3>4. h[j] * p(j) = h[k] * p(k) + digits[j] * p(j)
      BY <1>2, <3>1 DEF j
    <3> QED BY <3>2, <3>3, <3>4 DEF j
  <2> HIDE DEF N
  <2>3. Nat \subseteq N
    BY <2>1, <2>2, SetInduction
  <2> QED BY <2>3 DEF N
<1>9. ExactValue(n) = h[m] * p(m)
  BY <1>1, <1>6, <1>8
<1> QED BY <1>9 DEF p, w

(***************************************************************************)
(* Every amount is read back as it was stored: trailing zeros and 0 itself *)
(* included, with overflow checks or without (amount.rs:94-139).           *)
(***************************************************************************)
THEOREM AmountRoundTrip ==
  ASSUME NEW v \in 0..MaxValue, NEW p
  PROVE  PgDecimalToU128(U128ToPgDecimal(v), p) = Ok(v)
<1> DEFINE column == U128ToPgDecimal(v)
<1>1. v \in Nat /\ v <= MaxValue /\ MaxValue \in Nat /\ DigitBase <= MaxValue
  BY AmountAssumption
<1>2. PICK left, n, z : IsStored(column, left, n, z, v)
  BY <1>1, StoredAmount
<1> HIDE DEF column
<1> DEFINE m == n - z
           digits == column.digits
           h == [j \in 0..m |-> left[n - j]]
<1>3. /\ left \in [Nat -> Nat] /\ left[0] = v /\ left[n] = 0
      /\ n \in Nat /\ n >= 1 /\ n <= v + 1 /\ z \in Nat /\ z <= n
      /\ \A i \in Nat : left[i + 1] = left[i] \div DigitBase
  <2>1. IsLeft(left, n, v) /\ z \in 0..n
    BY <1>2 DEF IsStored
  <2> QED BY ONLY <1>1, <2>1 DEF IsLeft
<1>4. /\ column.sign = "positive" /\ column.scale = 0 /\ column.weight = n - 1
      /\ digits = [j \in 1..m |-> left[n - j] % DigitBase]
  BY <1>2 DEF IsStored
<1>5. ASSUME NEW i \in Nat
      PROVE  /\ left[i] \in Nat /\ left[i + 1] \in Nat /\ left[i + 1] <= left[i]
             /\ left[i] % DigitBase \in Nat
             /\ left[i] = left[i + 1] * DigitBase + (left[i] % DigitBase)
  <2> DEFINE a == left[i]
             b == left[i + 1]
  <2>1. a \in Nat /\ b = a \div DigitBase
    BY <1>3
  <2> HIDE DEF a, b
  <2>2. b \in Nat /\ b <= a /\ a % DigitBase \in Nat /\ a = b * DigitBase + (a % DigitBase)
    BY <2>1, DivideByBase, DigitBaseType
  <2> QED BY <2>1, <2>2 DEF a, b
<1>6. m \in Nat /\ Len(digits) = m
  BY <1>3, <1>4
<1> HIDE DEF digits, m
<1>7. IsHorner(h, digits, m)
  <2>1. ASSUME NEW j \in 0..m PROVE left[n - j] \in Nat
    <3>1. n - j \in Nat
      BY <1>3 DEF m
    <3> QED BY <1>3, <3>1
  <2>2. h \in [0..m -> Nat] /\ h[0] = 0
    BY <1>3, <1>6, <2>1
  <2>3. ASSUME NEW i \in Nat, i < m
        PROVE  digits[i + 1] \in Nat /\ h[i + 1] = h[i] * DigitBase + digits[i + 1]
    <3> DEFINE k == n - (i + 1)
    <3>1. k \in Nat /\ n - i = k + 1 /\ i + 1 \in 1..m /\ i + 1 \in 0..m /\ i \in 0..m
      BY <1>3, <1>6, <2>3 DEF m
    <3>2. h[i + 1] = left[k] /\ h[i] = left[k + 1] /\ digits[i + 1] = left[k] % DigitBase
      BY <1>4, <3>1
    <3> HIDE DEF k
    <3> QED BY <1>5, <3>1, <3>2
  <2> HIDE DEF h
  <2> QED BY <2>2, <2>3 DEF IsHorner
<1>8. h[m] = left[z]
  BY <1>3, <1>6 DEF m
<1> HIDE DEF h
<1>9. \A i \in Nat : left[i] <= v
  <2> DEFINE N == {i \in Nat : left[i] <= v}
  <2>1. 0 \in N
    BY <1>1, <1>3
  <2>2. ASSUME NEW i \in Nat, i \in N PROVE i + 1 \in N
    BY <1>1, <1>5, <2>2
  <2> HIDE DEF N
  <2>3. Nat \subseteq N
    BY <2>1, <2>2, SetInduction
  <2> QED BY <2>3 DEF N
<1>10. left[z] * Pow10[Decimals * z] = v
  <2> DEFINE N == {i \in Nat : i <= z => left[i] * Pow10[Decimals * i] = v}
  <2>1. 0 \in N
    BY <1>1, <1>3, BasePower
  <2>2. ASSUME NEW i \in Nat, i \in N PROVE i + 1 \in N
    <3> SUFFICES ASSUME i + 1 <= z
                 PROVE  left[i + 1] * Pow10[Decimals * (i + 1)] = v
      OBVIOUS
    <3> DEFINE x == left[i]
               y == left[i + 1]
               q == Pow10[Decimals * i]
    <3>1. x * q = v
      BY <1>3, <2>2
    <3>2. left[(i + 1) - 1] % DigitBase = 0
      <4>1. i + 1 \in 1..z
        BY <1>3
      <4> QED BY <1>2, <4>1 DEF IsStored
    <3>3. x % DigitBase = 0
      BY <3>2
    <3>4. x \in Nat /\ y \in Nat /\ x = y * DigitBase
      BY <1>5, <3>3, DigitBaseType
    <3>5. q \in Nat /\ Pow10[Decimals * (i + 1)] = DigitBase * q
      BY BasePower
    <3> HIDE DEF x, y, q
    <3>6. y * (DigitBase * q) = v
      BY <3>1, <3>4, <3>5, DigitBaseType
    <3> QED BY <3>5, <3>6 DEF y
  <2> HIDE DEF N
  <2>3. Nat \subseteq N
    BY <2>1, <2>2, SetInduction
  <2> QED BY <1>3, <2>3 DEF N
<1> DEFINE x == left[z]
           q == Pow10[Decimals * z]
<1>11. x \in Nat /\ x <= v /\ q \in Nat /\ q >= 1 /\ x * q = v
  BY <1>3, <1>5, <1>9, <1>10, BasePower
<1>12. DigitsValue(digits) = Ok(x) /\ Ok(x) # Err /\ Ok(x).value = x
  <2>1. DigitsValue(digits) = Checked(x)
    BY <1>6, <1>7, <1>8, DigitsAreExact
  <2> QED BY <1>1, <1>11, <2>1, CheckedFacts
<1>13. CorrectionExp(column) = Decimals * z /\ Decimals * z \in Nat
  <2>1. Len(column.digits) = n - z
    BY <1>6 DEF digits, m
  <2>2. column.weight - Len(column.digits) + 1 = z
    BY <1>3, <1>4, <2>1
  <2> QED BY <1>3, <2>2, BasePower DEF CorrectionExp
<1>14. q <= MaxValue
  <2>1. CASE v = 0
    <3>1. n = 1 /\ z \in 0..1
      BY <1>3, <2>1
    <3>2. q = 1 \/ q = DigitBase
      <4>1. Decimals * 0 = 0 /\ Decimals * 1 = Decimals
        BY AmountAssumption
      <4>2. Decimals * z = 0 \/ Decimals * z = Decimals
        BY <3>1, <4>1
      <4> QED BY <4>2, Pow10Step DEF DigitBase
    <3> QED BY <1>1, <3>2, DigitBaseType
  <2>2. CASE v # 0
    <3> HIDE DEF x, q
    <3>1. x >= 1
      BY <1>1, <1>11, <2>2
    <3>2. x * q >= q
      BY <1>11, <3>1
    <3> QED BY <1>1, <1>11, <3>2
  <2> QED BY <2>1, <2>2
<1>15. Corrected(x, Decimals * z, p) = Ok(v)
  <2>1. Corrected(x, Decimals * z, p) = Checked(x * q)
    BY <1>14 DEF Corrected
  <2> QED BY <1>1, <1>11, <2>1, CheckedFacts
<1> HIDE DEF x, q
<1>16. PgDecimalToU128(column, p) = Corrected(DigitsValue(digits).value, CorrectionExp(column), p)
  <2>1. ~(column.weight < 0) /\ ~(CorrectionExp(column) < 0)
    BY <1>3, <1>4, <1>13
  <2>2. DigitsValue(column.digits) # Err
    BY <1>12 DEF digits
  <2> QED BY <1>4, <2>1, <2>2 DEF PgDecimalToU128, digits
<1> QED BY <1>12, <1>13, <1>15, <1>16 DEF column

\* There is such a number for any digits.
LEMMA HornerExists ==
  ASSUME NEW digits \in Seq(Nat)
  PROVE  \E h : IsHorner(h, digits, Len(digits))
<1> DEFINE m == Len(digits)
           next(i, x) == IF i \in 1..m THEN x * DigitBase + digits[i] ELSE 0
           G == [i \in Nat |-> [x \in Nat |-> next(i, x)]]
<1>1. m \in Nat /\ DigitBase \in Nat
  BY DigitBaseType
<1>2. ASSUME NEW i \in Nat, NEW x \in Nat PROVE next(i, x) \in Nat
  <2>1. CASE i \in 1..m
    <3>1. digits[i] \in Nat
      BY <2>1, ElementOfSeq
    <3>2. x * DigitBase \in Nat
      BY <1>1
    <3> QED BY <2>1, <3>1, <3>2
  <2>2. CASE i \notin 1..m
    BY <2>2
  <2> QED BY <2>1, <2>2
<1>3. \A i \in 1..m : digits[i] \in Nat
  BY ElementOfSeq
<1>4. PICK h : Follows(h, 0, G, Nat, m)
  <2> HIDE DEF next
  <2>1. G \in [Nat -> [Nat -> Nat]] /\ 0 \in Nat
    BY <1>2
  <2> HIDE DEF G, m
  <2> QED BY <1>1, <2>1, FollowsExists
<1>5. ASSUME NEW i \in Nat, i < m
      PROVE  digits[i + 1] \in Nat /\ h[i + 1] = h[i] * DigitBase + digits[i + 1]
  <2> DEFINE j == i + 1
             x == h[i]
  <2>1. j \in 1..m /\ j \in Nat /\ i \in 0..m
    BY <1>1, <1>5
  <2>2. x \in Nat
    BY <1>4, <2>1 DEF Follows
  <2>3. h[j] = G[j][x]
    BY <1>4, <1>5 DEF Follows
  <2> HIDE DEF j, x, m, next
  <2>4. G[j][x] = next(j, x)
    BY <2>1, <2>2
  <2>5. next(j, x) = x * DigitBase + digits[j]
    BY <2>1 DEF next
  <2> QED BY <1>3, <2>1, <2>3, <2>4, <2>5 DEF j, x
<1> HIDE DEF G, m
<1>6. IsHorner(h, digits, m)
  BY <1>4, <1>5 DEF IsHorner, Follows
<1> QED BY <1>6 DEF m

(***************************************************************************)
(* A column is read exactly or not at all: a number that does not fit, is  *)
(* negative or has a fraction is an error, every other is returned as it   *)
(* is, as long as the power of ten of the correction fits                  *)
(* (amount.rs:94-130).                                                     *)
(***************************************************************************)
THEOREM ColumnReadExactly ==
  ASSUME NEW n \in Numerics, NEW p,
         (n.sign = "positive" /\ CorrectionExp(n) >= 0) =>
           Pow10[CorrectionExp(n)] <= MaxValue
  PROVE  PgDecimalToU128(n, p) = IF IsWhole(n) THEN Checked(ExactValue(n)) ELSE Err
<1>1. n \in PgNumeric /\ MaxValue \in Nat /\ Decimals \in Nat /\ Decimals >= 1
  BY AmountAssumption
<1>2. CASE n.sign # "positive"
  BY <1>2 DEF PgDecimalToU128, IsWhole
<1>3. CASE n.sign = "positive" /\ (n.scale # 0 \/ n.weight < 0)
  <2>1. n.weight \in Int
    BY <1>1, <1>3 DEF PgNumeric
  <2>2. ~IsWhole(n)
    BY <1>3, <2>1 DEF IsWhole
  <2> QED BY <1>3, <2>2 DEF PgDecimalToU128
<1>4. CASE n.sign = "positive" /\ ~(n.scale # 0 \/ n.weight < 0)
  <2> DEFINE digits == n.digits
             m == Len(digits)
             e == CorrectionExp(n)
             k == n.weight - m + 1
  <2>1. n.weight \in Int /\ n.scale = 0 /\ n.weight >= 0 /\ digits \in Seq(0..(DigitBase - 1))
    BY <1>1, <1>4 DEF PgNumeric
  <2>2. digits \in Seq(Nat) /\ m \in Nat
    <3>1. 0..(DigitBase - 1) \subseteq Nat
      BY DigitBaseType
    <3> HIDE DEF digits
    <3>2. m \in Nat /\ digits = [i \in 1..m |-> digits[i]]
      BY <2>1, LenProperties
    <3>3. \A i \in 1..m : digits[i] \in Nat
      BY <2>1, <3>1, ElementOfSeq
    <3> QED BY <3>2, <3>3
  <2>3. PICK h : IsHorner(h, digits, m)
    BY <2>2, HornerExists
  <2>4. DigitsValue(digits) = Checked(h[m])
    <3> HIDE DEF digits
    <3> QED BY <2>2, <2>3, DigitsAreExact
  <2>5. h[m] \in Nat
    <3> HIDE DEF m
    <3> QED BY <2>2, <2>3 DEF IsHorner
  <2>6. k \in Int /\ e = Decimals * k /\ n.weight + 1 - m = k
    <3> HIDE DEF digits
    <3> QED BY <2>1, <2>2 DEF CorrectionExp, digits
  <2>7. IsWhole(n) <=> e >= 0
    BY <1>4, <2>1 DEF IsWhole
  <2>8. PgDecimalToU128(n, p) =
          IF DigitsValue(digits) = Err \/ e < 0 THEN Err
          ELSE Corrected(DigitsValue(digits).value, e, p)
    BY <1>4 DEF PgDecimalToU128
  <2>9. e \in Int
    <3> HIDE DEF e, k
    <3> QED BY <1>1, <2>6
  <2>10. CASE e < 0
    <3> HIDE DEF e, digits
    <3> QED BY <2>7, <2>8, <2>9, <2>10
  <2>11. CASE e >= 0
    <3>1. k >= 0
      <4> HIDE DEF e, k
      <4>1. ASSUME k < 0 PROVE FALSE
        <5>1. Decimals * k < 0
          BY <1>1, <2>6, <4>1
        <5> QED BY <2>6, <2>9, <2>11, <5>1
      <4> QED BY <2>6, <4>1
    <3>2. m <= n.weight + 1
      <4> HIDE DEF m
      <4> QED BY <2>1, <2>2, <2>6, <3>1
    <3>3. ExactValue(n) = h[m] * DigitPower(n, m)
      <4> HIDE DEF m
      <4> QED BY <2>1, <2>2, <2>3, <3>2, SumIsExact DEF m
    <3> DEFINE x == h[m]
               q == DigitPower(n, m)
    <3>4. q \in Nat /\ q >= 1
      BY <2>1, <2>2, <3>2, DigitPowers
    <3>5. q = Pow10[e]
      BY <2>6 DEF DigitPower
    <3>6. q <= MaxValue
      BY <1>4, <2>11, <3>5
    <3>7. DigitsValue(digits) = Checked(x) /\ x \in Nat /\ ExactValue(n) = x * q
      BY <2>4, <2>5, <3>3
    <3>8. Corrected(x, e, p) = Checked(x * q)
      BY <3>5, <3>6 DEF Corrected
    <3> HIDE DEF x, q, e, digits
    <3>9. x * q \in Nat /\ x * q >= x
      BY <3>4, <3>7
    <3>10. CASE x <= MaxValue
      <4>1. DigitsValue(digits) = Ok(x) /\ Ok(x) # Err /\ Ok(x).value = x
        BY <3>7, <3>10, CheckedFacts
      <4> QED BY <2>7, <2>8, <2>9, <2>11, <3>7, <3>8, <4>1
    <3>11. CASE x > MaxValue
      <4>1. DigitsValue(digits) = Err /\ Checked(x * q) = Err
        <5>1. x * q > MaxValue
          BY <1>1, <3>7, <3>9, <3>11
        <5> QED BY <3>7, <3>9, <3>11, <5>1, CheckedFacts
      <4> QED BY <2>7, <2>8, <2>11, <3>7, <4>1
    <3> QED BY <1>1, <3>7, <3>10, <3>11
  <2> HIDE DEF e
  <2> QED BY <2>9, <2>10, <2>11
<1> QED BY <1>2, <1>3, <1>4

-----------------------------------------------------------------------------
(* The two directions together.                                            *)

\* What is in the column, and what reading it returned.
AmountInv ==
  /\ origin \in 0..MaxValue \/ origin = NoValue
  /\ origin = NoValue => numeric \in Numerics
  /\ origin # NoValue => numeric \in {NoNumeric, U128ToPgDecimal(origin)}
  /\ outcome # NoOutcome =>
       numeric # NoNumeric /\ outcome = PgDecimalToU128(numeric, profile)

LEMMA AmountInitInv == AmountInit => AmountInv
<1>1. \A v \in 0..MaxValue : v # NoValue
  BY DEF NoValue
<1> QED BY <1>1 DEF AmountInit, AmountInv

LEMMA AmountStep == AmountInv /\ [AmountNext]_amountVars => AmountInv'
<1> SUFFICES ASSUME AmountInv, [AmountNext]_amountVars PROVE AmountInv'
  OBVIOUS
<1>1. CASE Store
  <2>1. outcome = NoOutcome
    BY <1>1 DEF AmountInv, Store
  <2> QED BY <1>1, <2>1 DEF AmountInv, Store
<1>2. CASE Load
  BY <1>2 DEF AmountInv, Load
<1>3. CASE UNCHANGED amountVars
  BY <1>3 DEF AmountInv, amountVars
<1> QED BY <1>1, <1>2, <1>3 DEF AmountNext

THEOREM AmountInvariant == AmountSpec => []AmountInv
<1> QED BY AmountInitInv, AmountStep, PTL DEF AmountSpec

(***************************************************************************)
(* Every amount that is stored is read back unchanged, under both build    *)
(* profiles, for any integer that holds one digit (models/amount.rs).      *)
(***************************************************************************)
THEOREM RoundTripAlways == AmountSpec => []RoundTrip
<1>1. AmountInv => RoundTrip
  <2> SUFFICES ASSUME AmountInv, origin # NoValue, outcome # NoOutcome
               PROVE  outcome = Ok(origin)
    BY DEF RoundTrip
  <2>1. origin \in 0..MaxValue /\ numeric = U128ToPgDecimal(origin)
    BY DEF AmountInv
  <2> QED BY <2>1, AmountRoundTrip DEF AmountInv
<1> QED BY <1>1, AmountInvariant, PTL

(***************************************************************************)
(* Whatever is in a column, it is read exactly or refused, as long as the  *)
(* power of ten fits (models/amount.rs).                                   *)
(***************************************************************************)
THEOREM ExactOrErrorAlways == AmountSpec => []ExactOrError
<1>1. AmountInv => ExactOrError
  <2> SUFFICES ASSUME AmountInv, origin = NoValue, outcome # NoOutcome,
                      (numeric.sign = "positive" /\ CorrectionExp(numeric) >= 0) =>
                        Pow10[CorrectionExp(numeric)] <= MaxValue
               PROVE  outcome = IF IsWhole(numeric) THEN Checked(ExactValue(numeric))
                                ELSE Err
    BY DEF ExactOrError
  <2>1. numeric \in Numerics /\ outcome = PgDecimalToU128(numeric, profile)
    BY DEF AmountInv
  <2> QED BY <2>1, ColumnReadExactly
<1> QED BY <1>1, AmountInvariant, PTL

(***************************************************************************)
(* With overflow checks no column is ever read as another number, however  *)
(* large its power of ten: the error the code has a message for is then a  *)
(* panic, but never a wrong amount (amount.rs:124-129).  Without them this *)
(* fails, for the power is then wrapped.                                   *)
(***************************************************************************)
THEOREM CheckedBuildIsNeverWrong ==
  AmountSpec => [](/\ profile = "debug" /\ origin = NoValue /\ outcome # NoOutcome
                   /\ outcome.kind = "ok"
                   => IsWhole(numeric) /\ outcome = Ok(ExactValue(numeric)))
<1>1. ASSUME AmountInv, profile = "debug", origin = NoValue, outcome # NoOutcome,
             outcome.kind = "ok"
      PROVE  IsWhole(numeric) /\ outcome = Ok(ExactValue(numeric))
  <2>1. numeric \in Numerics /\ outcome = PgDecimalToU128(numeric, "debug")
    BY <1>1 DEF AmountInv
  <2>2. Err.kind # "ok" /\ Panic.kind # "ok"
    BY DEF Err, Panic
  <2>3. CASE /\ numeric.sign = "positive" /\ CorrectionExp(numeric) >= 0
             /\ ~(Pow10[CorrectionExp(numeric)] <= MaxValue)
    <3>1. \A v : Corrected(v, CorrectionExp(numeric), "debug") = Panic
      BY <2>3 DEF Corrected
    <3>2. outcome \in {Err, Panic}
      BY <2>1, <3>1 DEF PgDecimalToU128
    <3> QED BY <1>1, <2>2, <3>2
  <2>4. CASE ~(/\ numeric.sign = "positive" /\ CorrectionExp(numeric) >= 0
               /\ ~(Pow10[CorrectionExp(numeric)] <= MaxValue))
    <3>1. outcome = IF IsWhole(numeric) THEN Checked(ExactValue(numeric)) ELSE Err
      BY <2>1, <2>4, ColumnReadExactly
    <3> QED BY <1>1, <2>2, <3>1 DEF Checked
  <2> QED BY <2>3, <2>4
<1> QED BY <1>1, AmountInvariant, PTL
=============================================================================
