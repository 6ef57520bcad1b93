--------------------------- MODULE SequenceLemmas ---------------------------
(***************************************************************************)
(* Induction over Nat and over sequences, with a set in the place of the   *)
(* predicate, what SeqFilter keeps of any sequence, and that recursive     *)
(* functions exist.                                                        *)
(***************************************************************************)
EXTENDS SeqFilter, SequenceTheorems, WellFoundedInduction, TLAPS

\* Induction: else the least number that is missing would have a predecessor.
LEMMA SetInduction ==
  ASSUME NEW S, 0 \in S, \A n \in Nat : n \in S => n + 1 \in S
  PROVE  Nat \subseteq S
<1> DEFINE T == Nat \ S
           R == OpToRel(<, Nat)
<1> SUFFICES ASSUME T # {} PROVE FALSE
  OBVIOUS
<1>1. IsWellFoundedOn(R, Nat)
  BY NatLessThanWellFounded
<1>2. T \subseteq Nat
  OBVIOUS
<1> HIDE DEF T, R
<1>3. PICK x \in T : \A y \in T : ~(<<y, x>> \in R)
  BY <1>1, <1>2, WFMin, Zenon
<1>4. x \in Nat /\ x \notin S
  BY DEF T
<1>5. x # 0
  BY <1>4
<1>6. x - 1 \in Nat /\ (x - 1) + 1 = x /\ x - 1 < x
  BY <1>4, <1>5
<1>7. x - 1 \in T
  BY <1>4, <1>6 DEF T
<1>8. <<x - 1, x>> \in R
  BY <1>4, <1>6 DEF R, OpToRel
<1> QED BY <1>3, <1>7, <1>8

\* A set of numbers has a least one.
LEMMA LeastNumber ==
  ASSUME NEW S, S \subseteq Nat, S # {}
  PROVE  \E n \in S : \A m \in Nat : m < n => m \notin S
<1> DEFINE R == OpToRel(<, Nat)
<1>1. IsWellFoundedOn(R, Nat)
  BY NatLessThanWellFounded
<1> HIDE DEF R
<1>2. PICK n \in S : \A m \in S : ~(<<m, n>> \in R)
  BY <1>1, WFMin, Zenon
<1>3. ASSUME NEW m \in Nat, m < n, m \in S PROVE FALSE
  <2>1. <<m, n>> \in R
    BY <1>3 DEF R, OpToRel
  <2> QED BY <1>2, <1>3, <2>1
<1> QED BY <1>2, <1>3

\* Induction on the length of a sequence.
LEMMA SeqInduction ==
  ASSUME NEW D, NEW P, <<>> \in P,
         \A s \in Seq(D), c \in D : s \in P => Append(s, c) \in P
  PROVE  Seq(D) \subseteq P
<1> DEFINE N == {n \in Nat : \A s \in Seq(D) : Len(s) = n => s \in P}
<1>1. 0 \in N
  <2>1. ASSUME NEW s \in Seq(D), Len(s) = 0 PROVE s \in P
    <3>1. s = <<>>
      BY <2>1, EmptySeq
    <3> QED BY <3>1
  <2> QED BY <2>1
<1>2. ASSUME NEW n \in Nat, n \in N PROVE n + 1 \in N
  <2>1. ASSUME NEW s \in Seq(D), Len(s) = n + 1 PROVE s \in P
    <3>1. s # <<>>
      BY <2>1
    <3>2. PICK t \in Seq(D), c \in D : s = Append(t, c)
      BY <3>1, SequenceEmptyOrAppend
    <3>3. Len(t) = n
      BY <2>1, <3>2, AppendProperties
    <3>4. t \in P
      BY <1>2, <3>3
    <3> QED BY <3>2, <3>4
  <2> QED BY <2>1
<1> HIDE DEF N
<1>3. Nat \subseteq N
  BY <1>1, <1>2, SetInduction
<1> QED BY <1>3, LenProperties DEF N

-----------------------------------------------------------------------------
\* f is the function Keep chooses, on the first n elements of s.
IsKept(f, s, S, n) ==
  f = [i \in 0..n |-> IF i = 0 THEN <<>>
                      ELSE IF s[i] \in S THEN Append(f[i - 1], s[i])
                      ELSE f[i - 1]]

\* Its equation at a successor.
LEMMA KeptStep ==
  ASSUME NEW s, NEW S, NEW n \in Nat, NEW f, IsKept(f, s, S, n), NEW k \in Nat, k + 1 <= n
  PROVE  f[k + 1] = IF s[k + 1] \in S THEN Append(f[k], s[k + 1]) ELSE f[k]
<1>1. k + 1 \in 0..n /\ k + 1 # 0 /\ (k + 1) - 1 = k
  OBVIOUS
<1> DEFINE j == k + 1
<1>2. j \in 0..n /\ j # 0 /\ j - 1 = k
  BY <1>1
<1> HIDE DEF j
<1>3. f[j] = IF j = 0 THEN <<>>
             ELSE IF s[j] \in S THEN Append(f[j - 1], s[j]) ELSE f[j - 1]
  BY <1>2 DEF IsKept
<1>4. f[j] = IF s[j] \in S THEN Append(f[k], s[j]) ELSE f[k]
  BY <1>2, <1>3
<1> QED BY <1>4 DEF j

\* There is such a function, for every length.
LEMMA KeptExists ==
  ASSUME NEW s, NEW S, NEW n \in Nat
  PROVE  \E f : IsKept(f, s, S, n)
<1> DEFINE N == {k \in Nat : \E f : IsKept(f, s, S, k)}
<1>1. 0 \in N
  <2> DEFINE f == [i \in 0..0 |-> <<>>]
  <2>1. IsKept(f, s, S, 0)
    BY DEF IsKept
  <2> QED BY <2>1
<1>2. ASSUME NEW k \in Nat, k \in N PROVE k + 1 \in N
  <2>1. PICK f : IsKept(f, s, S, k)
    BY <1>2
  <2> DEFINE next == IF s[k + 1] \in S THEN Append(f[k], s[k + 1]) ELSE f[k]
             g == [i \in 0..(k + 1) |-> IF i = k + 1 THEN next ELSE f[i]]
  <2>2. ASSUME NEW i \in 0..(k + 1)
        PROVE  g[i] = IF i = 0 THEN <<>>
                      ELSE IF s[i] \in S THEN Append(g[i - 1], s[i]) ELSE g[i - 1]
    <3>1. CASE i = k + 1
      <4>1. g[i] = next /\ g[i - 1] = f[k] /\ i # 0
        BY <3>1
      <4> QED BY <4>1, <3>1
    <3>2. CASE i \in 0..k
      <4>1. g[i] = f[i] /\ (i # 0 => g[i - 1] = f[i - 1])
        BY <3>2
      <4>2. f[i] = IF i = 0 THEN <<>>
                   ELSE IF s[i] \in S THEN Append(f[i - 1], s[i]) ELSE f[i - 1]
        BY <2>1, <3>2 DEF IsKept
      <4> QED BY <4>1, <4>2
    <3> QED BY <3>1, <3>2
  <2>3. g = [i \in 0..(k + 1) |-> g[i]]
    OBVIOUS
  <2> HIDE DEF g
  <2>4. IsKept(g, s, S, k + 1)
    BY <2>2, <2>3 DEF IsKept
  <2> QED BY <2>4
<1> HIDE DEF N
<1>3. Nat \subseteq N
  BY <1>1, <1>2, SetInduction
<1> QED BY <1>3 DEF N

\* Hence Keep is the value of one.
LEMMA KeepIsKept ==
  ASSUME NEW D, NEW s \in Seq(D), NEW S
  PROVE  \E f : IsKept(f, s, S, Len(s)) /\ Keep(s, S) = f[Len(s)]
<1> DEFINE kept == CHOOSE f : IsKept(f, s, S, Len(s))
<1>1. IsKept(kept, s, S, Len(s))
  BY KeptExists, LenProperties
<1>2. Keep(s, S) = kept[Len(s)]
  BY DEF Keep, IsKept
<1> HIDE DEF kept
<1> QED BY <1>1, <1>2

\* The two cases of the filter (Iterator::filter_map).
LEMMA KeepEmpty == ASSUME NEW S PROVE Keep(<<>>, S) = <<>>
<1>1. <<>> \in Seq({}) /\ Len(<<>>) = 0
  BY EmptySeq
<1>2. PICK f : IsKept(f, <<>>, S, 0) /\ Keep(<<>>, S) = f[0]
  BY <1>1, KeepIsKept
<1> QED BY <1>2 DEF IsKept

\* What is kept of a prefix does not depend on what comes after it.
LEMMA KeptOfPrefix ==
  ASSUME NEW s, NEW t, NEW S, NEW n \in Nat, NEW m \in Nat, n <= m,
         \A i \in 1..n : s[i] = t[i],
         NEW f, IsKept(f, s, S, n), NEW g, IsKept(g, t, S, m)
  PROVE  f[n] = g[n]
<1> DEFINE N == {k \in Nat : k <= n => f[k] = g[k]}
<1>1. 0 \in N
  BY DEF IsKept
<1>2. ASSUME NEW k \in Nat, k \in N PROVE k + 1 \in N
  <2> SUFFICES ASSUME k + 1 <= n PROVE f[k + 1] = g[k + 1]
    OBVIOUS
  <2>1. f[k] = g[k] /\ s[k + 1] = t[k + 1]
    BY <1>2
  <2>2. f[k + 1] = IF s[k + 1] \in S THEN Append(f[k], s[k + 1]) ELSE f[k]
    BY KeptStep
  <2>3. g[k + 1] = IF t[k + 1] \in S THEN Append(g[k], t[k + 1]) ELSE g[k]
    BY KeptStep
  <2> QED BY <2>1, <2>2, <2>3
<1> HIDE DEF N
<1>3. Nat \subseteq N
  BY <1>1, <1>2, SetInduction
<1> QED BY <1>3 DEF N

\* The element that comes last is kept last, or not at all.
LEMMA KeepAppend ==
  ASSUME NEW D, NEW s \in Seq(D), NEW c \in D, NEW S
  PROVE  Keep(Append(s, c), S) = IF c \in S THEN Append(Keep(s, S), c) ELSE Keep(s, S)
<1> DEFINE t == Append(s, c)
           n == Len(s)
<1>1. /\ n \in Nat /\ t \in Seq(D) /\ Len(t) = n + 1 /\ t[n + 1] = c
      /\ \A i \in 1..n : s[i] = t[i]
  BY AppendProperties, LenProperties
<1>2. PICK f : IsKept(f, s, S, n) /\ Keep(s, S) = f[n]
  BY KeepIsKept
<1>3. PICK g : IsKept(g, t, S, n + 1) /\ Keep(t, S) = g[n + 1]
  BY <1>1, KeepIsKept
<1> HIDE DEF t, n
<1>4. f[n] = g[n]
  BY <1>1, <1>2, <1>3, KeptOfPrefix
<1>5. g[n + 1] = IF t[n + 1] \in S THEN Append(g[n], t[n + 1]) ELSE g[n]
  BY <1>1, <1>3, KeptStep
<1> QED BY <1>1, <1>2, <1>3, <1>4, <1>5 DEF t

\* Nothing else is kept.
LEMMA KeepType ==
  ASSUME NEW D, NEW s \in Seq(D), NEW S
  PROVE  Keep(s, S) \in Seq(D \cap S)
<1> DEFINE P == {r \in Seq(D) : Keep(r, S) \in Seq(D \cap S)}
<1>1. <<>> \in P
  BY KeepEmpty, EmptySeq
<1>2. ASSUME NEW r \in Seq(D), NEW c \in D, r \in P PROVE Append(r, c) \in P
  <2>1. Append(r, c) \in Seq(D) /\ Keep(r, S) \in Seq(D \cap S)
    BY <1>2, AppendProperties
  <2>2. CASE c \in S
    <3>1. Keep(Append(r, c), S) = Append(Keep(r, S), c)
      BY <2>2, KeepAppend
    <3> DEFINE q == Keep(r, S)
    <3> HIDE DEF q
    <3>2. q \in Seq(D \cap S)
      BY <2>1 DEF q
    <3>3. Append(q, c) \in Seq(D \cap S)
      BY <2>2, <3>2, AppendProperties
    <3> QED BY <2>1, <3>1, <3>3 DEF q
  <2>3. CASE c \notin S
    BY <2>1, <2>3, KeepAppend
  <2> QED BY <2>2, <2>3
<1> HIDE DEF P
<1>3. Seq(D) \subseteq P
  BY <1>1, <1>2, SeqInduction
<1> QED BY <1>3 DEF P

\* Where there is nothing to skip, nothing is skipped.
LEMMA KeepAll ==
  ASSUME NEW S, NEW s \in Seq(S)
  PROVE  Keep(s, S) = s
<1> DEFINE P == {r \in Seq(S) : Keep(r, S) = r}
<1>1. <<>> \in P
  BY KeepEmpty, EmptySeq
<1>2. ASSUME NEW r \in Seq(S), NEW c \in S, r \in P PROVE Append(r, c) \in P
  BY <1>2, KeepAppend, AppendProperties
<1> HIDE DEF P
<1>3. Seq(S) \subseteq P
  BY <1>1, <1>2, SeqInduction
<1> QED BY <1>3 DEF P

\* Two texts are filtered one after the other.
LEMMA KeepConcat ==
  ASSUME NEW D, NEW s \in Seq(D), NEW t \in Seq(D), NEW S
  PROVE  Keep(s \o t, S) = Keep(s, S) \o Keep(t, S)
<1> DEFINE P == {r \in Seq(D) : Keep(s \o r, S) = Keep(s, S) \o Keep(r, S)}
<1>1. <<>> \in P
  <2>1. Keep(s, S) \in Seq(D \cap S)
    BY KeepType
  <2>2. Keep(s, S) \o <<>> = Keep(s, S) /\ s \o <<>> = s
    BY <2>1, ConcatEmptySeq
  <2> QED BY <2>2, KeepEmpty, EmptySeq
<1>2. ASSUME NEW r \in Seq(D), NEW c \in D, r \in P PROVE Append(r, c) \in P
  <2>1. /\ Append(r, c) \in Seq(D) /\ Append(r, c) = r \o <<c>>
        /\ s \o r \in Seq(D) /\ Append(s \o r, c) = (s \o r) \o <<c>>
        /\ Keep(s \o r, S) = Keep(s, S) \o Keep(r, S)
    BY <1>2, AppendProperties, AppendIsConcat, ConcatProperties
  <2>2. s \o Append(r, c) = Append(s \o r, c)
    <3>1. <<c>> \in Seq(D)
      OBVIOUS
    <3> QED BY <2>1, <3>1, ConcatAssociative
  <2>3. Keep(s, S) \in Seq(D \cap S) /\ Keep(r, S) \in Seq(D \cap S)
    BY KeepType
  <2> DEFINE a == Keep(s, S)
             b == Keep(r, S)
             q == s \o r
  <2>4. Keep(Append(q, c), S) = IF c \in S THEN Append(Keep(q, S), c) ELSE Keep(q, S)
    <3> HIDE DEF q
    <3>1. q \in Seq(D)
      BY <2>1 DEF q
    <3> QED BY <3>1, KeepAppend
  <2>5. Keep(Append(r, c), S) = IF c \in S THEN Append(b, c) ELSE b
    BY KeepAppend
  <2>6. Keep(q, S) = a \o b
    BY <2>1
  <2>7. c \in S => Append(a \o b, c) = a \o Append(b, c)
    <3> SUFFICES ASSUME c \in S PROVE Append(a \o b, c) = a \o Append(b, c)
      OBVIOUS
    <3> HIDE DEF a, b
    <3>1. a \in Seq(D \cap S) /\ b \in Seq(D \cap S) /\ c \in D \cap S
      BY <2>3 DEF a, b
    <3>2. <<c>> \in Seq(D \cap S) /\ a \o b \in Seq(D \cap S)
      BY <3>1, ConcatProperties
    <3>3. Append(a \o b, c) = (a \o b) \o <<c>> /\ Append(b, c) = b \o <<c>>
      BY <3>1, <3>2, AppendIsConcat
    <3>4. (a \o b) \o <<c>> = a \o (b \o <<c>>)
      BY <3>1, <3>2, ConcatAssociative
    <3> QED BY <3>3, <3>4
  <2>8. Keep(s \o Append(r, c), S) = Keep(Append(q, c), S)
    BY <2>2
  <2> HIDE DEF a, b, q
  <2>9. Keep(s \o Append(r, c), S) = a \o Keep(Append(r, c), S)
    BY <2>4, <2>5, <2>6, <2>7, <2>8
  <2> QED BY <2>1, <2>9 DEF a
<1> HIDE DEF P
<1>3. Seq(D) \subseteq P
  BY <1>1, <1>2, SeqInduction
<1> QED BY <1>3 DEF P

\* Where there is nothing to keep, nothing is kept.
LEMMA KeepNone ==
  ASSUME NEW D, NEW s \in Seq(D), NEW S, D \cap S = {}
  PROVE  Keep(s, S) = <<>>
<1>1. Keep(s, S) \in Seq({})
  BY KeepType
<1>2. ASSUME NEW r \in Seq({}) PROVE r = <<>>
  <2>1. ASSUME Len(r) # 0 PROVE FALSE
    <3>1. 1 \in 1..Len(r)
      BY <2>1
    <3> QED BY <3>1, ElementOfSeq
  <2> QED BY <2>1
<1> QED BY <1>1, <1>2

-----------------------------------------------------------------------------
(* Recursive functions: with a function in the place of the operator, there *)
(* is one for every step.                                                   *)

\* g follows the step G from a, on 0..n.
Follows(g, a, G, V, n) ==
  /\ g \in [0..n -> V] /\ g[0] = a
  /\ \A k \in Nat : k < n => g[k + 1] = G[k + 1][g[k]]

\* There is such a function.
LEMMA FollowsExists ==
  ASSUME NEW V, NEW a \in V, NEW G \in [Nat -> [V -> V]], NEW n \in Nat
  PROVE  \E g : Follows(g, a, G, V, n)
<1> DEFINE N == {k \in Nat : \E g : Follows(g, a, G, V, k)}
<1>1. 0 \in N
  <2> DEFINE g == [i \in 0..0 |-> a]
  <2>1. Follows(g, a, G, V, 0)
    BY DEF Follows
  <2> QED BY <2>1
<1>2. ASSUME NEW k \in Nat, k \in N PROVE k + 1 \in N
  <2>1. PICK g : Follows(g, a, G, V, k)
    BY <1>2
  <2> DEFINE next == G[k + 1][g[k]]
             h == [i \in 0..(k + 1) |-> IF i = k + 1 THEN next ELSE g[i]]
  <2>2. next \in V
    <3>1. g[k] \in V /\ k + 1 \in Nat
      BY <2>1 DEF Follows
    <3> QED BY <3>1
  <2>3. h \in [0..(k + 1) -> V] /\ h[0] = a
    <3> HIDE DEF next
    <3>1. ASSUME NEW i \in 0..(k + 1) PROVE (IF i = k + 1 THEN next ELSE g[i]) \in V
      BY <2>1, <2>2 DEF Follows
    <3> QED BY <2>1, <3>1 DEF Follows
  <2>4. ASSUME NEW i \in Nat, i < k + 1 PROVE h[i + 1] = G[i + 1][h[i]]
    <3>1. h[i] = g[i]
      BY <2>4
    <3>2. CASE i < k
      <4>1. h[i + 1] = g[i + 1]
        BY <3>2
      <4> QED BY <2>1, <3>1, <3>2, <4>1 DEF Follows
    <3>3. CASE i = k
      <4>1. h[i + 1] = next
        BY <3>3
      <4> QED BY <3>1, <3>3, <4>1
    <3> QED BY <2>4, <3>2, <3>3
  <2> HIDE DEF h
  <2>5. Follows(h, a, G, V, k + 1)
    BY <2>3, <2>4 DEF Follows
  <2> QED BY <2>5
<1> HIDE DEF N
<1>3. Nat \subseteq N
  BY <1>1, <1>2, SetInduction
<1> QED BY <1>3 DEF N

\* Two of them agree.
LEMMA FollowsAgree ==
  ASSUME NEW V, NEW a \in V, NEW G \in [Nat -> [V -> V]], NEW n \in Nat, NEW m \in Nat, n <= m,
         NEW g, Follows(g, a, G, V, n), NEW h, Follows(h, a, G, V, m)
  PROVE  g[n] = h[n]
<1> DEFINE N == {k \in Nat : k <= n => g[k] = h[k]}
<1>1. 0 \in N
  BY DEF Follows
<1>2. ASSUME NEW k \in Nat, k \in N PROVE k + 1 \in N
  <2> SUFFICES ASSUME k + 1 <= n PROVE g[k + 1] = h[k + 1]
    OBVIOUS
  <2>1. g[k] = h[k] /\ k < n /\ k < m
    BY <1>2
  <2>2. g[k + 1] = G[k + 1][g[k]] /\ h[k + 1] = G[k + 1][h[k]]
    BY <2>1 DEF Follows
  <2> QED BY <2>1, <2>2
<1> HIDE DEF N
<1>3. Nat \subseteq N
  BY <1>1, <1>2, SetInduction
<1> QED BY <1>3 DEF N

\* f follows it on Nat.
FollowsAll(f, a, G, V) ==
  f \in [Nat -> V] /\ f[0] = a /\ \A n \in Nat : f[n + 1] = G[n + 1][f[n]]

\* There is such a function, too.
LEMMA FollowsAllExists ==
  ASSUME NEW V, NEW a \in V, NEW G \in [Nat -> [V -> V]]
  PROVE  \E f : FollowsAll(f, a, G, V)
<1> DEFINE g(n) == CHOOSE h : Follows(h, a, G, V, n)
           f == [n \in Nat |-> g(n)[n]]
<1>1. \A n \in Nat : Follows(g(n), a, G, V, n)
  BY FollowsExists
<1> HIDE DEF g
<1>2. ASSUME NEW n \in Nat PROVE g(n)[n] \in V
  <2>1. g(n) \in [0..n -> V] /\ n \in 0..n
    BY <1>1 DEF Follows
  <2> QED BY <2>1
<1>3. f \in [Nat -> V]
  BY <1>2
<1>4. f[0] = a
  <2>1. g(0)[0] = a
    BY <1>1 DEF Follows
  <2> QED BY <2>1
<1>5. ASSUME NEW n \in Nat PROVE f[n + 1] = G[n + 1][f[n]]
  <2> DEFINE m == n + 1
  <2>1. m \in Nat /\ n <= m
    OBVIOUS
  <2>2. f[m] = g(m)[m] /\ f[n] = g(n)[n]
    BY <2>1
  <2>3. g(m)[n + 1] = G[n + 1][g(m)[n]]
    <3>1. Follows(g(m), a, G, V, m) /\ n < m
      BY <1>1, <2>1
    <3> QED BY <3>1 DEF Follows
  <2>4. g(n)[n] = g(m)[n]
    <3>1. Follows(g(m), a, G, V, m) /\ Follows(g(n), a, G, V, n)
      BY <1>1, <2>1
    <3> HIDE DEF m
    <3> QED BY <2>1, <3>1, FollowsAgree
  <2> QED BY <2>2, <2>3, <2>4
<1> HIDE DEF f
<1> QED BY <1>3, <1>4, <1>5 DEF FollowsAll
=============================================================================
