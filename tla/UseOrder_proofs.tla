--------------------------- MODULE UseOrder_proofs ---------------------------
(***************************************************************************)
(* Facts about orders of use, for keys of any kind: what a move to the     *)
(* end, a key that goes and a cut to the latest n keep, and that two       *)
(* orders that agree at their ends still do when both follow one use.      *)
(***************************************************************************)
EXTENDS UseOrder, SequenceTheorems, WellFoundedInduction, TLAPS

-----------------------------------------------------------------------------
(***************************************************************************)
(* Numbers.                                                                *)
(***************************************************************************)
LEMMA Least ==
    ASSUME NEW T, T \subseteq Nat, T # {}
    PROVE  Min(T) \in T /\ \A y \in T : Min(T) <= y
  <1> DEFINE R == {ss \in Nat \X Nat : ss[1] < ss[2]}
  <1>1. IsWellFoundedOn(R, Nat)
    BY NatLessThanWellFounded DEF OpToRel
  <1> HIDE DEF R
  <1>2. PICK x \in T : \A y \in T : <<y, x>> \notin R
    BY <1>1, WFMin
  <1>3. \A y \in T : x <= y
    <2> SUFFICES ASSUME NEW y \in T PROVE x <= y
      OBVIOUS
    <2>1. <<y, x>> \notin R /\ x \in Nat /\ y \in Nat
      BY <1>2
    <2>2. ~(y < x)
      BY <2>1 DEF R
    <2> QED BY <2>1, <2>2
  <1> QED BY <1>3 DEF Min

LEMMA MinMaxOfTwo ==
    ASSUME NEW a \in Int, NEW b \in Int
    PROVE  /\ Min({a, b}) = IF a <= b THEN a ELSE b
           /\ Max({a, b}) = IF a <= b THEN b ELSE a
  BY DEF Min, Max

-----------------------------------------------------------------------------
(***************************************************************************)
(* Sequences seen from their ends: s agrees with the end of t.             *)
(***************************************************************************)
EndsLike(s, t) ==
    \A k \in 0..(Len(s) - 1) : k < Len(t) /\ s[Len(s) - k] = t[Len(t) - k]

LEMMA SuffixFromEnd ==
    ASSUME NEW S, NEW s \in Seq(S), NEW t \in Seq(S), EndsLike(s, t)
    PROVE  IsSuffix(s, t)
  <1> DEFINE n == Len(s)
             m == Len(t)
             r == Reverse(s)
             q == Reverse(t)
  <1>1. n \in Nat /\ m \in Nat /\ DOMAIN s = 1..n /\ DOMAIN t = 1..m
    BY LenProperties
  <1>2. n <= m
    <2>1. CASE n = 0
      BY <1>1, <2>1
    <2>2. CASE n > 0
      <3>1. n - 1 \in 0..(Len(s) - 1)
        BY <1>1, <2>2
      <3>2. n - 1 < m
        BY <3>1 DEF EndsLike
      <3> QED BY <1>1, <3>2
    <2> QED BY <1>1, <2>1, <2>2
  <1>3. /\ r = [i \in 1..n |-> s[(n - i) + 1]]
        /\ q = [i \in 1..m |-> t[(m - i) + 1]]
    BY DEF Reverse
  <1>4. \A k \in 0..(n - 1) : s[n - k] = t[m - k]
    BY DEF EndsLike
  <1> HIDE DEF n, m, r, q
  <1>5. Len(r) = n /\ Len(q) = m
    BY <1>1, <1>3
  <1>6. ASSUME NEW i \in 1..n PROVE r[i] \in S /\ q[i] \in S /\ r[i] = q[i]
    <2>1. i - 1 \in 0..(n - 1) /\ n - (i - 1) = (n - i) + 1 /\ m - (i - 1) = (m - i) + 1
          /\ (n - i) + 1 \in 1..n /\ i \in 1..m
      BY <1>1, <1>2
    <2>2. s[(n - i) + 1] = t[(m - i) + 1]
      BY <1>4, <2>1
    <2>3. s[(n - i) + 1] \in S
      BY <1>1, <2>1, ElementOfSeq DEF n
    <2> QED BY <1>3, <2>1, <2>2, <2>3
  <1>7. /\ SubSeq(r, 1, n) \in Seq(S) /\ Len(SubSeq(r, 1, n)) = n
        /\ \A i \in 1..n : SubSeq(r, 1, n)[i] = r[i]
    <2>1. /\ SubSeq(r, 1, n) \in Seq(S)
          /\ Len(SubSeq(r, 1, n)) = IF 1 <= n THEN n - 1 + 1 ELSE 0
          /\ \A i \in 1..(n - 1 + 1) : SubSeq(r, 1, n)[i] = r[1 + i - 1]
      BY <1>1, <1>6, SubSeqProperties
    <2> QED BY <1>1, <2>1
  <1>8. /\ SubSeq(q, 1, n) \in Seq(S) /\ Len(SubSeq(q, 1, n)) = n
        /\ \A i \in 1..n : SubSeq(q, 1, n)[i] = q[i]
    <2>1. /\ SubSeq(q, 1, n) \in Seq(S)
          /\ Len(SubSeq(q, 1, n)) = IF 1 <= n THEN n - 1 + 1 ELSE 0
          /\ \A i \in 1..(n - 1 + 1) : SubSeq(q, 1, n)[i] = q[1 + i - 1]
      BY <1>1, <1>6, SubSeqProperties
    <2> QED BY <1>1, <2>1
  <1>9. SubSeq(r, 1, n) = SubSeq(q, 1, n)
    BY <1>6, <1>7, <1>8, SeqEqual
  <1> QED BY <1>2, <1>5, <1>9 DEF IsSuffix, IsPrefix, r, q

\* Another element at the end.
LEMMA AppendAtEnd ==
    ASSUME NEW S, NEW s \in Seq(S), NEW e \in S
    PROVE  /\ Append(s, e) \in Seq(S) /\ Len(Append(s, e)) = Len(s) + 1
           /\ Append(s, e)[(Len(s) + 1) - 0] = e
           /\ \A k \in 1..Len(s) : Append(s, e)[(Len(s) + 1) - k] = s[Len(s) - (k - 1)]
  <1>1. /\ Append(s, e) \in Seq(S) /\ Len(s) \in Nat /\ Len(Append(s, e)) = Len(s) + 1
        /\ \A i \in 1..Len(s) : Append(s, e)[i] = s[i]
        /\ Append(s, e)[Len(s) + 1] = e
    BY AppendProperties, LenProperties
  <1>2. ASSUME NEW k \in 1..Len(s)
        PROVE  Append(s, e)[(Len(s) + 1) - k] = s[Len(s) - (k - 1)]
    <2>1. (Len(s) + 1) - k = Len(s) - (k - 1) /\ Len(s) - (k - 1) \in 1..Len(s)
      BY <1>1
    <2> QED BY <1>1, <2>1
  <1>3. (Len(s) + 1) - 0 = Len(s) + 1
    BY <1>1
  <1> QED BY <1>1, <1>2, <1>3

\* The part of s from place i on.
LEMMA FromPlace ==
    ASSUME NEW S, NEW s \in Seq(S), NEW i \in 1..(Len(s) + 1)
    PROVE  LET r == SubSeq(s, i, Len(s))
           IN /\ r \in Seq(S) /\ Len(r) = (Len(s) - i) + 1
              /\ \A j \in 1..Len(r) : r[j] = s[(i + j) - 1]
              /\ \A k \in 0..(Len(r) - 1) : r[Len(r) - k] = s[Len(s) - k]
  <1> DEFINE n == Len(s)
             r == SubSeq(s, i, n)
  <1>1. n \in Nat /\ i \in Int /\ \A j \in i..n : s[j] \in S
    BY LenProperties, ElementOfSeq
  <1>2. /\ r \in Seq(S)
        /\ Len(r) = IF i <= n THEN n - i + 1 ELSE 0
        /\ \A j \in 1..(n - i + 1) : r[j] = s[i + j - 1]
    BY <1>1, SubSeqProperties
  <1> HIDE DEF n, r
  <1>3. Len(r) = (n - i) + 1
    BY <1>1, <1>2 DEF n
  <1>4. ASSUME NEW j \in 1..Len(r) PROVE r[j] = s[(i + j) - 1]
    <2>1. j \in 1..(n - i + 1) /\ i + j - 1 = (i + j) - 1
      BY <1>1, <1>3
    <2> QED BY <1>2, <2>1
  <1>5. ASSUME NEW k \in 0..(Len(r) - 1) PROVE r[Len(r) - k] = s[n - k]
    <2>1. Len(r) - k \in 1..Len(r) /\ (i + (Len(r) - k)) - 1 = n - k
      BY <1>1, <1>3
    <2> QED BY <1>4, <2>1
  <1> QED BY <1>2, <1>3, <1>4, <1>5 DEF n, r

\* Two lists of one length that agree at their ends are the same.
LEMMA SameEnds ==
    ASSUME NEW S, NEW s \in Seq(S), NEW t \in Seq(S), Len(s) = Len(t),
           EndsLike(s, t)
    PROVE  s = t
  <1> DEFINE n == Len(s)
  <1>1. /\ n \in Nat /\ s = [i \in 1..n |-> s[i]] /\ t = [i \in 1..n |-> t[i]]
    BY LenProperties
  <1>2. ASSUME NEW i \in 1..n
        PROVE  s[i] = t[i]
    <2>1. n - i \in 0..(n - 1) /\ n - (n - i) = i
      BY <1>1
    <2> QED BY <2>1 DEF EndsLike
  <1> QED BY <1>1, <1>2

LEMMA EndsTransitive ==
    ASSUME NEW S, NEW s \in Seq(S), NEW t \in Seq(S), NEW u,
           EndsLike(s, t), EndsLike(t, u)
    PROVE  EndsLike(s, u)
  <1>1. Len(s) \in Nat /\ Len(t) \in Nat
    BY LenProperties
  <1>2. ASSUME NEW k \in 0..(Len(s) - 1)
        PROVE  k < Len(u) /\ s[Len(s) - k] = u[Len(u) - k]
    <2>1. k < Len(t) /\ s[Len(s) - k] = t[Len(t) - k]
      BY DEF EndsLike
    <2>2. k \in 0..(Len(t) - 1)
      BY <1>1, <2>1
    <2> QED BY <2>1, <2>2 DEF EndsLike
  <1> QED BY <1>2 DEF EndsLike

\* Elements, and that they differ, told by how far they are from the end.
LEMMA FromTheEnd ==
    ASSUME NEW S, NEW s \in Seq(S)
    PROVE  /\ Len(s) \in Nat
           /\ \A x : Contains(s, x) <=> \E k \in 0..(Len(s) - 1) : s[Len(s) - k] = x
           /\ IsInjective(s) <=> \A j, k \in 0..(Len(s) - 1) :
                                    s[Len(s) - j] = s[Len(s) - k] => j = k
  <1> DEFINE n == Len(s)
  <1>1. n \in Nat /\ DOMAIN s = 1..n
    BY LenProperties
  <1>2. ASSUME NEW x
        PROVE  (\E i \in 1..n : s[i] = x) <=> \E k \in 0..(n - 1) : s[n - k] = x
    <2>1. ASSUME NEW i \in 1..n, s[i] = x
          PROVE  \E k \in 0..(n - 1) : s[n - k] = x
      <3>1. n - i \in 0..(n - 1) /\ n - (n - i) = i
        BY <1>1
      <3>2. s[n - (n - i)] = x
        BY <2>1, <3>1
      <3> QED BY <3>1, <3>2
    <2>2. ASSUME NEW k \in 0..(n - 1), s[n - k] = x
          PROVE  \E i \in 1..n : s[i] = x
      <3>1. n - k \in 1..n
        BY <1>1
      <3> QED BY <2>2, <3>1
    <2> QED BY <2>1, <2>2
  <1>3. ASSUME IsInjective(s), NEW j \in 0..(n - 1), NEW k \in 0..(n - 1),
               s[n - j] = s[n - k]
        PROVE  j = k
    <2>1. n - j \in 1..n /\ n - k \in 1..n
      BY <1>1
    <2>2. n - j = n - k
      BY <1>1, <1>3, <2>1 DEF IsInjective
    <2> QED BY <1>1, <2>2
  <1>4. ASSUME \A j, k \in 0..(n - 1) : s[n - j] = s[n - k] => j = k,
               NEW i \in 1..n, NEW l \in 1..n, s[i] = s[l]
        PROVE  i = l
    <2>1. /\ n - i \in 0..(n - 1) /\ n - (n - i) = i
          /\ n - l \in 0..(n - 1) /\ n - (n - l) = l
      BY <1>1
    <2>2. s[n - (n - i)] = s[n - (n - l)]
      BY <1>4, <2>1
    <2>3. n - i = n - l
      BY <1>4, <2>1, <2>2
    <2> QED BY <1>1, <2>3
  <1> QED BY <1>1, <1>2, <1>3, <1>4 DEF Contains, IsInjective

\* What s holds t holds, and if t holds it once so does s.
LEMMA EndsKeep ==
    ASSUME NEW S, NEW s \in Seq(S), NEW t \in Seq(S), EndsLike(s, t)
    PROVE  /\ Len(s) <= Len(t)
           /\ \A x : Contains(s, x) => Contains(t, x)
           /\ IsInjective(t) => IsInjective(s)
  <1> DEFINE n == Len(s)
             m == Len(t)
  <1>1. n \in Nat /\ m \in Nat
    BY LenProperties
  <1>2. \A k \in 0..(n - 1) : k \in 0..(m - 1) /\ s[n - k] = t[m - k]
    <2> SUFFICES ASSUME NEW k \in 0..(n - 1) PROVE k \in 0..(m - 1) /\ s[n - k] = t[m - k]
      OBVIOUS
    <2>1. k < m /\ s[n - k] = t[m - k]
      BY DEF EndsLike
    <2> QED BY <1>1, <2>1
  <1>3. n <= m
    <2>1. CASE n = 0
      BY <1>1, <2>1
    <2>2. CASE n # 0
      <3>1. n - 1 \in 0..(n - 1)
        BY <1>1, <2>2
      <3>2. n - 1 \in 0..(m - 1)
        BY <1>2, <3>1
      <3> QED BY <1>1, <3>2
    <2> QED BY <2>1, <2>2
  <1> HIDE DEF n, m
  <1>4. ASSUME NEW x, \E k \in 0..(n - 1) : s[n - k] = x
        PROVE  \E k \in 0..(m - 1) : t[m - k] = x
    BY <1>2, <1>4
  <1>5. ASSUME \A j, k \in 0..(m - 1) : t[m - j] = t[m - k] => j = k
        PROVE  \A j, k \in 0..(n - 1) : s[n - j] = s[n - k] => j = k
    BY <1>2, <1>5
  <1>6. /\ \A x : Contains(s, x) <=> \E k \in 0..(n - 1) : s[n - k] = x
        /\ \A x : Contains(t, x) <=> \E k \in 0..(m - 1) : t[m - k] = x
        /\ IsInjective(s) <=> \A j, k \in 0..(n - 1) : s[n - j] = s[n - k] => j = k
        /\ IsInjective(t) <=> \A j, k \in 0..(m - 1) : t[m - j] = t[m - k] => j = k
    BY FromTheEnd DEF n, m
  <1>7. n <= m /\ Len(s) = n /\ Len(t) = m
    BY <1>3 DEF n, m
  <1> QED BY <1>4, <1>5, <1>6, <1>7

-----------------------------------------------------------------------------
(***************************************************************************)
(* Keys that go.                                                           *)
(***************************************************************************)
\* Without the least recently used key.
LEMMA TailEnds ==
    ASSUME NEW S, NEW s \in Seq(S), Len(s) > 0
    PROVE  Tail(s) \in Seq(S) /\ Len(Tail(s)) = Len(s) - 1 /\ EndsLike(Tail(s), s)
  <1> DEFINE t == Tail(s)
             n == Len(s)
  <1>1. n \in Nat /\ s # <<>>
    BY LenProperties
  <1>2. /\ t \in Seq(S) /\ Len(t) = n - 1
        /\ \A i \in 1..Len(t) : t[i] = s[i + 1]
    BY <1>1, HeadTailProperties
  <1> HIDE DEF t, n
  <1>3. ASSUME NEW k \in 0..(Len(t) - 1) PROVE k < n /\ t[Len(t) - k] = s[n - k]
    <2>1. Len(t) - k \in 1..Len(t) /\ (Len(t) - k) + 1 = n - k /\ k < n
      BY <1>1, <1>2
    <2> QED BY <1>2, <2>1
  <1> QED BY <1>2, <1>3 DEF EndsLike, t, n

LEMMA LatestFacts ==
    ASSUME NEW S, NEW s \in Seq(S), NEW m \in Nat
    PROVE  LET r == Latest(s, m)
           IN /\ r \in Seq(S)
              /\ Len(r) = IF Len(s) <= m THEN Len(s) ELSE m
              /\ EndsLike(r, s)
  <1> DEFINE n == Len(s)
             f == n - m + 1
             i == Max({1, f})
  <1>1. n \in Nat /\ f \in Int
    BY LenProperties
  <1>2. Latest(s, m) = SubSeq(s, i, n)
    BY DEF Latest
  <1>3. i = IF 1 <= f THEN f ELSE 1
    <2> HIDE DEF f
    <2>1. \A a \in Int : Max({a, f}) = IF a <= f THEN f ELSE a
      BY <1>1, MinMaxOfTwo
    <2>2. 1 \in Int
      OBVIOUS
    <2> QED BY ONLY <2>1, <2>2, Zenon
  <1> HIDE DEF i, n
  <1>4. \/ n <= m /\ i = 1
        \/ n > m /\ i = f
    BY <1>1, <1>3
  <1>5. i \in 1..(n + 1) /\ (n - i) + 1 = IF n <= m THEN n ELSE m
    BY <1>1, <1>4
  <1> HIDE DEF f
  <1> DEFINE r == SubSeq(s, i, n)
  <1>6. /\ r \in Seq(S) /\ Len(r) = (n - i) + 1
        /\ \A k \in 0..(Len(r) - 1) : r[Len(r) - k] = s[n - k]
    BY <1>5, FromPlace DEF n
  <1> HIDE DEF r
  <1>7. EndsLike(r, s)
    <2>1. \A k \in 0..(Len(r) - 1) : k < n
      BY <1>1, <1>5, <1>6
    <2> QED BY <1>6, <2>1 DEF EndsLike, n
  <1> QED BY <1>2, <1>5, <1>6, <1>7 DEF n, r

\* s without k, which was e places from the end.
Without(s, r, k, e) ==
    /\ e \in 0..(Len(s) - 1) /\ s[Len(s) - e] = k
    /\ Len(r) = Len(s) - 1
    /\ \A d \in 0..(Len(r) - 1) :
          r[Len(r) - d] = IF d < e THEN s[Len(s) - d] ELSE s[Len(s) - (d + 1)]

LEMMA RemovedFacts ==
    ASSUME NEW S, NEW s \in Seq(S), NEW k, Contains(s, k)
    PROVE  Drop(s, k) \in Seq(S) /\ \E e \in 0..(Len(s) - 1) : Without(s, Drop(s, k), k, e)
  <1> DEFINE r == Drop(s, k)
             n == Len(s)
             p == CHOOSE i \in DOMAIN s : s[i] = k
             front == SubSeq(s, 1, p - 1)
             back  == SubSeq(s, p + 1, n)
  <1>1. n \in Nat /\ DOMAIN s = 1..n /\ \A i \in 1..n : s[i] \in S
    BY LenProperties, ElementOfSeq
  <1>2. p \in 1..n /\ s[p] = k
    BY <1>1 DEF Contains
  <1>3. r = front \o back
    BY DEF Drop, RemoveAt
  <1> HIDE DEF p, n, r
  <1>4. /\ front \in Seq(S) /\ Len(front) = p - 1
        /\ \A i \in 1..(p - 1) : front[i] = s[i]
    <2>1. \A i \in 1..(p - 1) : s[i] \in S
      BY <1>1, <1>2
    <2>2. /\ front \in Seq(S)
          /\ Len(front) = IF 1 <= p - 1 THEN p - 1 - 1 + 1 ELSE 0
          /\ \A i \in 1..(p - 1 - 1 + 1) : front[i] = s[1 + i - 1]
      BY <1>2, <2>1, SubSeqProperties
    <2> HIDE DEF front
    <2> QED BY <1>2, <2>2
  <1>5. /\ back \in Seq(S) /\ Len(back) = n - p
        /\ \A d \in 0..(Len(back) - 1) : back[Len(back) - d] = s[n - d]
    <2>1. p + 1 \in 1..(n + 1) /\ (n - (p + 1)) + 1 = n - p
      BY <1>1, <1>2
    <2>2. /\ back \in Seq(S) /\ Len(back) = (n - (p + 1)) + 1
          /\ \A d \in 0..(Len(back) - 1) : back[Len(back) - d] = s[n - d]
      BY <2>1, FromPlace DEF n
    <2> QED BY <2>1, <2>2
  <1> HIDE DEF front, back
  <1>6. /\ r \in Seq(S) /\ Len(r) = Len(front) + Len(back)
        /\ \A i \in 1..(Len(front) + Len(back)) :
              r[i] = IF i <= Len(front) THEN front[i] ELSE back[i - Len(front)]
    BY <1>3, <1>4, <1>5, ConcatProperties
  <1>7. Len(r) = n - 1
    BY <1>1, <1>2, <1>4, <1>5, <1>6
  <1>8. n - p \in 0..(n - 1) /\ n - (n - p) = p
    BY <1>1, <1>2
  <1>9. ASSUME NEW d \in 0..(Len(r) - 1)
        PROVE  r[Len(r) - d] = IF d < n - p THEN s[n - d] ELSE s[n - (d + 1)]
    <2>1. (n - 1) - d \in 1..(Len(front) + Len(back))
      BY <1>1, <1>6, <1>7
    <2>2. CASE d < n - p
      <3>1. /\ ~((n - 1) - d <= Len(front)) /\ d \in 0..(Len(back) - 1)
            /\ ((n - 1) - d) - Len(front) = Len(back) - d
        BY <1>1, <1>2, <1>4, <1>5, <1>7, <2>2
      <3>2. r[(n - 1) - d] = back[Len(back) - d]
        BY <1>6, <2>1, <3>1
      <3>3. r[(n - 1) - d] = s[n - d]
        BY <1>5, <3>1, <3>2
      <3> QED BY <1>7, <2>2, <3>3
    <2>3. CASE ~(d < n - p)
      <3>1. (n - 1) - d <= Len(front) /\ (n - 1) - d \in 1..(p - 1) /\ (n - 1) - d = n - (d + 1)
        BY <1>1, <1>2, <1>4, <1>7, <2>3
      <3>2. r[(n - 1) - d] = front[(n - 1) - d]
        BY <1>6, <2>1, <3>1
      <3>3. r[(n - 1) - d] = s[n - (d + 1)]
        BY <1>4, <3>1, <3>2
      <3> QED BY <1>7, <2>3, <3>3
    <2> QED BY <2>2, <2>3
  <1>10. Without(s, r, k, n - p)
    BY <1>2, <1>7, <1>8, <1>9 DEF Without, n
  <1> QED BY <1>6, <1>8, <1>10 DEF r, n

LEMMA DropFacts ==
    ASSUME NEW S, NEW s \in Seq(S), IsInjective(s), NEW k
    PROVE  LET r == Drop(s, k)
           IN /\ r \in Seq(S) /\ IsInjective(r)
              /\ Len(r) = IF Contains(s, k) THEN Len(s) - 1 ELSE Len(s)
              /\ \A x : Contains(r, x) <=> x # k /\ Contains(s, x)
  <1> DEFINE r == Drop(s, k)
             n == Len(s)
  <1>1. CASE ~Contains(s, k)
    <2>1. r = s
      BY <1>1 DEF Drop
    <2> QED BY <1>1, <2>1
  <1>2. CASE Contains(s, k)
    <2>1. PICK e \in 0..(n - 1) : Without(s, r, k, e)
      BY <1>2, RemovedFacts
    <2>2. /\ n \in Nat
          /\ \A x : Contains(s, x) <=> \E d \in 0..(n - 1) : s[n - d] = x
          /\ \A i, j \in 0..(n - 1) : s[n - i] = s[n - j] => i = j
      BY FromTheEnd
    <2>3. r \in Seq(S)
      BY <1>2, RemovedFacts
    <2> HIDE DEF r, n
    <2> DEFINE m == Len(r)
               at(d) == IF d < e THEN d ELSE d + 1
    <2>4. m = n - 1 /\ s[n - e] = k /\ \A d \in 0..(m - 1) : r[m - d] = s[n - at(d)]
      BY <2>1 DEF Without, n
    <2>5. /\ \A d \in 0..(m - 1) : at(d) \in 0..(n - 1) /\ at(d) # e
          /\ \A i, j \in 0..(m - 1) : at(i) = at(j) => i = j
      BY <2>2, <2>4
    <2>6. ASSUME NEW c \in 0..(n - 1), c # e
          PROVE  \E d \in 0..(m - 1) : at(d) = c
      <3>1. CASE c < e
        <4>1. c \in 0..(m - 1) /\ at(c) = c
          BY <2>2, <2>4, <3>1
        <4> QED BY <4>1
      <3>2. CASE c > e
        <4>1. c - 1 \in 0..(m - 1) /\ at(c - 1) = c
          BY <2>2, <2>4, <3>2
        <4> QED BY <4>1
      <3>3. c < e \/ c > e
        BY <2>2, <2>6
      <3> QED BY <3>1, <3>2, <3>3
    <2> HIDE DEF at, m
    <2>7. /\ \A x : Contains(r, x) <=> \E d \in 0..(m - 1) : r[m - d] = x
          /\ IsInjective(r) <=> \A i, j \in 0..(m - 1) : r[m - i] = r[m - j] => i = j
      BY <2>3, FromTheEnd DEF m
    <2>8. IsInjective(r)
      <3> SUFFICES ASSUME NEW i \in 0..(m - 1), NEW j \in 0..(m - 1), r[m - i] = r[m - j]
                   PROVE  i = j
        BY <2>7
      <3>1. s[n - at(i)] = s[n - at(j)]
        BY <2>4
      <3>2. at(i) = at(j)
        BY <2>2, <2>5, <3>1
      <3> QED BY <2>5, <3>2
    <2>9. ASSUME NEW x
          PROVE  Contains(r, x) <=> x # k /\ Contains(s, x)
      <3>1. ASSUME NEW d \in 0..(m - 1), r[m - d] = x
            PROVE  x # k /\ \E c \in 0..(n - 1) : s[n - c] = x
        <4>1. s[n - at(d)] = x /\ at(d) \in 0..(n - 1) /\ at(d) # e
          BY <2>4, <2>5, <3>1
        <4>2. x # k
          BY <2>2, <2>4, <4>1
        <4> QED BY <4>1, <4>2
      <3>2. ASSUME NEW c \in 0..(n - 1), s[n - c] = x, x # k
            PROVE  \E d \in 0..(m - 1) : r[m - d] = x
        <4>1. c # e
          BY <2>4, <3>2
        <4>2. PICK d \in 0..(m - 1) : at(d) = c
          BY <2>6, <4>1
        <4> QED BY <2>4, <3>2, <4>2
      <3> QED BY <2>2, <2>7, <3>1, <3>2
    <2> QED BY <1>2, <2>3, <2>4, <2>8, <2>9 DEF r, n, m
  <1> QED BY <1>1, <1>2

\* The same key goes from both.
LEMMA DropEnds ==
    ASSUME NEW S, NEW s \in Seq(S), NEW t \in Seq(S), IsInjective(t), EndsLike(s, t), NEW k
    PROVE  EndsLike(Drop(s, k), Drop(t, k))
  <1> DEFINE n == Len(s)
             m == Len(t)
             r == Drop(s, k)
             q == Drop(t, k)
  <1>1. /\ n \in Nat /\ m \in Nat
        /\ \A x : Contains(s, x) <=> \E d \in 0..(n - 1) : s[n - d] = x
        /\ \A x : Contains(t, x) <=> \E d \in 0..(m - 1) : t[m - d] = x
        /\ \A i, j \in 0..(m - 1) : t[m - i] = t[m - j] => i = j
    BY FromTheEnd
  <1>2. n <= m /\ \A d \in 0..(n - 1) : s[n - d] = t[m - d]
    BY EndsKeep DEF EndsLike
  <1>3. CASE ~Contains(t, k)
    <2>1. ~Contains(s, k)
      BY <1>3, EndsKeep
    <2> QED BY <1>3, <2>1 DEF Drop
  <1>4. CASE Contains(t, k)
    <2>1. PICK f \in 0..(m - 1) : Without(t, q, k, f)
      BY <1>4, RemovedFacts
    <2>2. /\ t[m - f] = k /\ Len(q) = m - 1
          /\ \A d \in 0..(m - 2) : q[(m - 1) - d] = IF d < f THEN t[m - d] ELSE t[m - (d + 1)]
      <3>1. (m - 1) - 1 = m - 2
        BY <1>1
      <3> QED BY <2>1, <3>1 DEF Without
    <2>3. CASE Contains(s, k)
      <3>1. PICK e \in 0..(n - 1) : Without(s, r, k, e)
        BY <2>3, RemovedFacts
      <3>2. /\ s[n - e] = k /\ Len(r) = n - 1
            /\ \A d \in 0..(n - 2) : r[(n - 1) - d] = IF d < e THEN s[n - d] ELSE s[n - (d + 1)]
        <4>1. (n - 1) - 1 = n - 2
          BY <1>1
        <4> QED BY <3>1, <4>1 DEF Without
      <3> HIDE DEF r, q, n, m
      <3>3. e = f
        <4>1. e \in 0..(m - 1) /\ t[m - e] = k
          BY <1>1, <1>2, <3>2
        <4> QED BY <1>1, <2>2, <4>1
      <3>4. ASSUME NEW d \in 0..(n - 2)
            PROVE  d < m - 1 /\ r[(n - 1) - d] = q[(m - 1) - d]
        <4>1. d \in 0..(n - 1) /\ d + 1 \in 0..(n - 1) /\ d \in 0..(m - 2) /\ d < m - 1
          BY <1>1, <1>2
        <4>2. s[n - d] = t[m - d] /\ s[n - (d + 1)] = t[m - (d + 1)]
          BY <1>2, <4>1
        <4> QED BY <2>2, <3>2, <3>3, <4>1, <4>2
      <3>5. (n - 1) - 1 = n - 2
        BY <1>1
      <3> QED BY <2>2, <3>2, <3>4, <3>5 DEF EndsLike, r, q
    <2>4. CASE ~Contains(s, k)
      <3>1. r = s
        BY <2>4 DEF Drop
      <3> HIDE DEF r, q, n, m
      <3>2. f >= n
        <4> SUFFICES ASSUME f < n PROVE FALSE
          BY <1>1
        <4>1. f \in 0..(n - 1)
          BY <1>1
        <4>2. s[n - f] = k
          BY <1>2, <2>2, <4>1
        <4> QED BY <1>1, <2>4, <4>1, <4>2
      <3>3. ASSUME NEW d \in 0..(n - 1)
            PROVE  d < m - 1 /\ s[n - d] = q[(m - 1) - d]
        <4>1. d < f /\ d \in 0..(m - 2) /\ d < m - 1
          BY <1>1, <3>2
        <4> QED BY <1>2, <2>2, <4>1
      <3> QED BY <2>2, <3>1, <3>3 DEF EndsLike, r, q, n
    <2> QED BY <2>3, <2>4
  <1> QED BY <1>3, <1>4

-----------------------------------------------------------------------------
(***************************************************************************)
(* A key that is used.                                                     *)
(***************************************************************************)
LEMMA AppendNew ==
    ASSUME NEW S, NEW s \in Seq(S), IsInjective(s), NEW k \in S, ~Contains(s, k)
    PROVE  LET r == Append(s, k)
           IN /\ r \in Seq(S) /\ IsInjective(r) /\ Len(r) = Len(s) + 1
              /\ \A x : Contains(r, x) <=> x = k \/ Contains(s, x)
  <1> DEFINE r == Append(s, k)
             n == Len(s)
  <1>1. n \in Nat /\ DOMAIN s = 1..n
    BY LenProperties
  <1>2. /\ r \in Seq(S) /\ Len(r) = n + 1 /\ DOMAIN r = 1..(n + 1)
        /\ \A i \in 1..n : r[i] = s[i]
        /\ r[n + 1] = k
    BY AppendProperties, LenProperties
  <1>3. \A i \in 1..n : s[i] # k
    BY DEF Contains
  <1>4. \A x : Contains(s, x) <=> \E i \in 1..n : s[i] = x
    BY DEF Contains
  <1>5. \A x : Contains(r, x) <=> \E i \in 1..(n + 1) : r[i] = x
    BY <1>2 DEF Contains
  <1> HIDE DEF r, n
  <1>6. /\ \A i \in 1..(n + 1) : i = n + 1 \/ i \in 1..n
        /\ n + 1 \in 1..(n + 1) /\ \A i \in 1..n : i \in 1..(n + 1)
    BY <1>1
  <1>7. IsInjective(r)
    <2> SUFFICES ASSUME NEW i \in 1..(n + 1), NEW j \in 1..(n + 1), r[i] = r[j]
                 PROVE  i = j
      BY <1>2 DEF IsInjective
    <2>1. CASE i \in 1..n /\ j \in 1..n
      BY <1>1, <1>2, <2>1 DEF IsInjective
    <2>2. CASE i = n + 1 /\ j = n + 1
      BY <2>2
    <2>3. ~(i \in 1..n /\ j = n + 1) /\ ~(i = n + 1 /\ j \in 1..n)
      BY <1>2, <1>3
    <2> QED BY <1>6, <2>1, <2>2, <2>3
  <1>8. \A x : Contains(r, x) <=> x = k \/ Contains(s, x)
    BY <1>2, <1>4, <1>5, <1>6
  <1> QED BY <1>2, <1>7, <1>8 DEF r, n

LEMMA MoveFacts ==
    ASSUME NEW S, NEW s \in Seq(S), IsInjective(s), NEW k \in S
    PROVE  LET r == MoveToEnd(s, k)
           IN /\ r \in Seq(S) /\ IsInjective(r)
              /\ Len(r) = IF Contains(s, k) THEN Len(s) ELSE Len(s) + 1
              /\ \A x : Contains(r, x) <=> x = k \/ Contains(s, x)
  <1> DEFINE rest == Drop(s, k)
  <1>1. /\ rest \in Seq(S) /\ IsInjective(rest) /\ Len(s) \in Nat
        /\ Len(rest) = IF Contains(s, k) THEN Len(s) - 1 ELSE Len(s)
        /\ \A x : Contains(rest, x) <=> x # k /\ Contains(s, x)
    BY DropFacts, LenProperties
  <1> HIDE DEF rest
  <1>2. ~Contains(rest, k)
    BY <1>1
  <1>3. /\ Append(rest, k) \in Seq(S) /\ IsInjective(Append(rest, k))
        /\ Len(Append(rest, k)) = Len(rest) + 1
        /\ \A x : Contains(Append(rest, k), x) <=> x = k \/ Contains(rest, x)
    BY <1>1, <1>2, AppendNew
  <1>4. MoveToEnd(s, k) = Append(rest, k)
    BY DEF MoveToEnd, rest
  <1> QED BY <1>1, <1>3, <1>4

\* The same key is used in both.
LEMMA MoveEnds ==
    ASSUME NEW S, NEW s \in Seq(S), NEW t \in Seq(S), IsInjective(s), IsInjective(t),
           EndsLike(s, t), NEW k \in S
    PROVE  EndsLike(MoveToEnd(s, k), MoveToEnd(t, k))
  <1> DEFINE a == Drop(s, k)
             b == Drop(t, k)
  <1>1. a \in Seq(S) /\ b \in Seq(S) /\ EndsLike(a, b)
    BY DropFacts, DropEnds
  <1>2. MoveToEnd(s, k) = Append(a, k) /\ MoveToEnd(t, k) = Append(b, k)
    BY DEF MoveToEnd
  <1> HIDE DEF a, b
  <1>3. /\ Len(a) \in Nat /\ Len(b) \in Nat
        /\ Len(Append(a, k)) = Len(a) + 1 /\ Append(a, k)[(Len(a) + 1) - 0] = k
        /\ \A d \in 1..Len(a) : Append(a, k)[(Len(a) + 1) - d] = a[Len(a) - (d - 1)]
        /\ Len(Append(b, k)) = Len(b) + 1 /\ Append(b, k)[(Len(b) + 1) - 0] = k
        /\ \A d \in 1..Len(b) : Append(b, k)[(Len(b) + 1) - d] = b[Len(b) - (d - 1)]
    BY <1>1, AppendAtEnd, LenProperties
  <1>4. ASSUME NEW d \in 0..Len(a)
        PROVE  /\ d < Len(b) + 1
               /\ Append(a, k)[(Len(a) + 1) - d] = Append(b, k)[(Len(b) + 1) - d]
    <2>1. CASE d = 0
      BY <1>3, <2>1
    <2>2. CASE d # 0
      <3>1. d \in 1..Len(a) /\ d - 1 \in 0..(Len(a) - 1)
        BY <1>3, <2>2
      <3>2. d - 1 < Len(b) /\ a[Len(a) - (d - 1)] = b[Len(b) - (d - 1)]
        BY <1>1, <3>1 DEF EndsLike
      <3>3. d \in 1..Len(b) /\ d < Len(b) + 1
        BY <1>3, <3>1, <3>2
      <3> QED BY <1>3, <3>1, <3>2, <3>3
    <2> QED BY <2>1, <2>2
  <1>5. (Len(a) + 1) - 1 = Len(a)
    BY <1>3
  <1> QED BY <1>2, <1>3, <1>4, <1>5 DEF EndsLike

=============================================================================
