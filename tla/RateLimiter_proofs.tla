------------------------- MODULE RateLimiter_proofs -------------------------
(***************************************************************************)
(* Theorems about RateLimiter as RateLimiterHistory observes it, for any   *)
(* clients, limit, window, resolution of the clock and room for clients.   *)
(***************************************************************************)
EXTENDS RateLimiterHistory, UseOrder_proofs

LEMMA Settings ==
    /\ Allowed \in Nat \ {0} /\ Window \in Nat /\ MaxTracked \in Nat \ {0}
  BY RateLimitConfig DEF Allowed, Window

-----------------------------------------------------------------------------
(***************************************************************************)
(* Buckets.                                                                *)
(***************************************************************************)
Ages == 0..(Window + 1)

Falling(s) == \A i, j \in DOMAIN s : i < j => s[j] <= s[i]

\* What b has in the window is the latest part of a.
Remembers(b, a) ==
    \A k \in 0..(Len(b) - 1) :
        b[Len(b) - k] <= Window => k < Len(a) /\ a[Len(a) - k] = b[Len(b) - k]

LEMMA RecentFacts ==
    ASSUME NEW s \in Seq(Ages)
    PROVE  LET r == Recent(s)
           IN /\ r \in Seq(Ages) /\ Len(r) <= Len(s)
              /\ \A k \in 0..(Len(r) - 1) : r[Len(r) - k] = s[Len(s) - k]
              /\ \A k \in 0..(Len(s) - 1) : s[Len(s) - k] <= Window => k < Len(r)
              /\ Falling(s) => Falling(r) /\ \A j \in 1..Len(r) : r[j] <= Window
  <1> DEFINE n    == Len(s)
             live == {i \in 1..n : s[i] <= Window}
             r    == Recent(s)
  <1>1. n \in Nat /\ DOMAIN s = 1..n /\ \A i \in 1..n : s[i] \in Ages
    BY LenProperties, ElementOfSeq
  <1>2. \A i \in 1..n : s[i] \in Int /\ Window \in Nat
    BY <1>1, Settings DEF Ages
  <1>3. r = IF live = {} THEN <<>> ELSE SubSeq(s, Min(live), n)
    BY DEF Recent
  <1>4. CASE live = {}
    <2>1. r = <<>> /\ Len(r) = 0 /\ DOMAIN r = {}
      BY <1>3, <1>4
    <2> HIDE DEF r
    <2>2. ASSUME NEW k \in 0..(n - 1) PROVE ~(s[n - k] <= Window)
      <3>1. n - k \in 1..n
        BY <1>1
      <3> QED BY <1>4, <3>1
    <2>3. r \in Seq(Ages) /\ Falling(r)
      BY <2>1 DEF Falling
    <2> HIDE DEF live
    <2> QED BY <1>1, <2>1, <2>2, <2>3 DEF r
  <1>5. CASE live # {}
    <2> DEFINE i == Min(live)
    <2>1. i \in live /\ \A j \in live : i <= j
      <3>1. live \subseteq Nat
        BY <1>1
      <3> HIDE DEF live
      <3> QED BY <1>5, <3>1, Least
    <2>2. r = SubSeq(s, i, n)
      BY <1>3, <1>5
    <2> HIDE DEF i, r
    <2>3. i \in 1..n /\ s[i] <= Window
      BY <2>1
    <2>4. /\ r \in Seq(Ages) /\ Len(r) = (n - i) + 1
          /\ \A j \in 1..Len(r) : r[j] = s[(i + j) - 1]
          /\ \A k \in 0..(Len(r) - 1) : r[Len(r) - k] = s[n - k]
      BY <1>1, <2>2, <2>3, FromPlace
    <2>5. ASSUME NEW k \in 0..(n - 1), s[n - k] <= Window
          PROVE  k < Len(r)
      <3>1. n - k \in live
        BY <1>1, <2>5
      <3>2. i <= n - k
        BY <2>1, <3>1
      <3> QED BY <1>1, <2>3, <2>4, <3>2
    <2>6. ASSUME Falling(s)
          PROVE  Falling(r) /\ \A j \in 1..Len(r) : r[j] <= Window
      <3>1. DOMAIN r = 1..Len(r)
        BY <2>4, LenProperties
      <3>2. \A j \in 1..Len(r) : (i + j) - 1 \in 1..n
        BY <1>1, <2>3, <2>4
      <3>3. ASSUME NEW j \in 1..Len(r) PROVE r[j] <= Window
        <4>1. CASE j = 1
          BY <2>3, <2>4, <4>1
        <4>2. CASE j # 1
          <5>1. (i + j) - 1 \in 1..n /\ i < (i + j) - 1
            BY <2>3, <3>2, <4>2
          <5>2. s[(i + j) - 1] <= s[i]
            BY <1>1, <2>3, <2>6, <5>1 DEF Falling
          <5> QED BY <1>2, <2>3, <2>4, <5>1, <5>2
        <4> QED BY <4>1, <4>2
      <3>4. ASSUME NEW j \in 1..Len(r), NEW l \in 1..Len(r), j < l
            PROVE  r[l] <= r[j]
        <4>1. (i + j) - 1 \in 1..n /\ (i + l) - 1 \in 1..n
          BY <3>2
        <4>2. (i + j) - 1 < (i + l) - 1
          BY <2>3, <3>4
        <4> QED BY <1>1, <2>4, <2>6, <4>1, <4>2 DEF Falling
      <3> QED BY <3>1, <3>3, <3>4 DEF Falling
    <2>7. Len(r) <= n
      BY <1>1, <2>3, <2>4
    <2> QED BY <2>4, <2>5, <2>6, <2>7 DEF r
  <1> QED BY <1>4, <1>5

LEMMA OlderFacts ==
    ASSUME NEW s \in Seq(Ages)
    PROVE  LET r == Older(s)
           IN /\ r \in Seq(Ages) /\ Len(r) = Len(s)
              /\ \A i \in 1..Len(s) :
                    r[i] = IF s[i] <= Window THEN s[i] + 1 ELSE Window + 1
              /\ Falling(s) => Falling(r)
  <1> DEFINE n == Len(s)
             r == Older(s)
  <1>1. n \in Nat /\ DOMAIN s = 1..n /\ Window \in Nat
        /\ \A i \in 1..n : s[i] \in Ages /\ s[i] \in Nat
    BY LenProperties, ElementOfSeq, Settings DEF Ages
  <1>2. r = [i \in 1..n |-> Min({s[i] + 1, Window + 1})]
    BY DEF Older
  <1> HIDE DEF r, n
  <1>3. ASSUME NEW i \in 1..n
        PROVE  r[i] = (IF s[i] <= Window THEN s[i] + 1 ELSE Window + 1) /\ r[i] \in Ages
    <2>1. s[i] + 1 \in Int /\ Window + 1 \in Int
      BY <1>1
    <2>2. r[i] = Min({s[i] + 1, Window + 1})
      BY <1>2
    <2>3. r[i] = IF s[i] + 1 <= Window + 1 THEN s[i] + 1 ELSE Window + 1
      BY <2>1, <2>2, MinMaxOfTwo
    <2> QED BY <1>1, <2>3 DEF Ages
  <1>4. r \in Seq(Ages) /\ Len(r) = n
    <2>1. r \in [1..n -> Ages]
      BY <1>2, <1>3
    <2> QED BY <1>1, <2>1, SeqDef, LenProperties
  <1>5. DOMAIN r = 1..n
    BY <1>2
  <1>6. ASSUME Falling(s) PROVE Falling(r)
    <2> SUFFICES ASSUME NEW i \in 1..n, NEW j \in 1..n, i < j PROVE r[j] <= r[i]
      BY <1>5 DEF Falling
    <2>1. s[j] <= s[i]
      BY <1>1, <1>6 DEF Falling
    <2>2. s[i] \in Nat /\ s[j] \in Nat
      BY <1>1
    <2> QED BY <1>1, <1>3, <2>1, <2>2
  <1> QED BY <1>3, <1>4, <1>6 DEF r, n

-----------------------------------------------------------------------------
(***************************************************************************)
(* The invariant of buckets and admissions, and its steps.                 *)
(***************************************************************************)
BucketInv ==
    /\ bucket \in [Clients -> Seq(Ages)]
    /\ admitted \in [Clients -> Seq(Ages)]
    /\ \A c \in Clients :
          /\ Falling(bucket[c])
          /\ Len(bucket[c]) <= Allowed
          /\ Remembers(bucket[c], admitted[c])

\* An empty bucket remembers nothing wrong.
LEMMA EmptyBucket ==
    ASSUME NEW a
    PROVE  /\ <<>> \in Seq(Ages) /\ Falling(<<>>) /\ Len(<<>>) <= Allowed
           /\ Remembers(<<>>, a)
  BY Settings DEF Falling, Remembers

LEMMA BucketInvInit == HistoryInit => BucketInv
  BY EmptyBucket DEF HistoryInit, Init, BucketInv

\* Time passes for one client.
LEMMA RemembersOlder ==
    ASSUME NEW b \in Seq(Ages), NEW a \in Seq(Ages), Remembers(b, a)
    PROVE  Remembers(Older(b), Recent(Older(a)))
  <1> DEFINE bb == Older(b)
             aa == Older(a)
             r  == Recent(aa)
  <1>1. /\ bb \in Seq(Ages) /\ Len(bb) = Len(b) /\ aa \in Seq(Ages) /\ Len(aa) = Len(a)
        /\ \A i \in 1..Len(b) : bb[i] = IF b[i] <= Window THEN b[i] + 1 ELSE Window + 1
        /\ \A i \in 1..Len(a) : aa[i] = IF a[i] <= Window THEN a[i] + 1 ELSE Window + 1
    BY OlderFacts
  <1> HIDE DEF bb, aa
  <1>2. /\ \A k \in 0..(Len(r) - 1) : r[Len(r) - k] = aa[Len(aa) - k]
        /\ \A k \in 0..(Len(aa) - 1) : aa[Len(aa) - k] <= Window => k < Len(r)
        /\ Len(r) \in Nat
    BY <1>1, RecentFacts, LenProperties
  <1> HIDE DEF r
  <1>3. Len(b) \in Nat /\ Len(a) \in Nat /\ Window \in Nat
        /\ \A i \in 1..Len(b) : b[i] \in Nat
    BY Settings, LenProperties, ElementOfSeq DEF Ages
  <1> SUFFICES ASSUME NEW k \in 0..(Len(b) - 1), bb[Len(b) - k] <= Window
               PROVE  k < Len(r) /\ r[Len(r) - k] = bb[Len(b) - k]
    BY <1>1 DEF Remembers, bb, aa, r
  <1>4. Len(b) - k \in 1..Len(b)
    BY <1>3
  <1>5. b[Len(b) - k] <= Window /\ bb[Len(b) - k] = b[Len(b) - k] + 1
    <2>1. bb[Len(b) - k] = IF b[Len(b) - k] <= Window THEN b[Len(b) - k] + 1
                           ELSE Window + 1
      BY <1>1, <1>4
    <2>2. ~(Window + 1 <= Window)
      BY <1>3
    <2> QED BY <2>1, <2>2
  <1>6. k < Len(a) /\ a[Len(a) - k] = b[Len(b) - k]
    BY <1>5 DEF Remembers
  <1>7. Len(a) - k \in 1..Len(a) /\ k \in 0..(Len(aa) - 1)
    BY <1>1, <1>3, <1>6
  <1>8. aa[Len(aa) - k] = bb[Len(b) - k]
    BY <1>1, <1>5, <1>6, <1>7
  <1>9. k < Len(r)
    BY <1>2, <1>7, <1>8
  <1>10. k \in 0..(Len(r) - 1)
    BY <1>2, <1>9
  <1> QED BY <1>2, <1>8, <1>9, <1>10

LEMMA TickBuckets ==
    ASSUME BucketInv, ObservedTick
    PROVE  BucketInv'
  <1>1. /\ bucket' = [c \in Clients |-> Older(bucket[c])]
        /\ admitted' = [c \in Clients |-> Recent(Older(admitted[c]))]
    BY DEF ObservedTick, Tick
  <1>2. ASSUME NEW c \in Clients
        PROVE  /\ bucket'[c] \in Seq(Ages) /\ admitted'[c] \in Seq(Ages)
               /\ Falling(bucket'[c]) /\ Len(bucket'[c]) <= Allowed
               /\ Remembers(bucket'[c], admitted'[c])
    <2>1. /\ bucket[c] \in Seq(Ages) /\ admitted[c] \in Seq(Ages) /\ Falling(bucket[c])
          /\ Len(bucket[c]) <= Allowed /\ Remembers(bucket[c], admitted[c])
      BY DEF BucketInv
    <2>2. bucket'[c] = Older(bucket[c]) /\ admitted'[c] = Recent(Older(admitted[c]))
      BY <1>1
    <2>3. /\ Older(bucket[c]) \in Seq(Ages) /\ Len(Older(bucket[c])) = Len(bucket[c])
          /\ Falling(Older(bucket[c])) /\ Older(admitted[c]) \in Seq(Ages)
      BY <2>1, OlderFacts
    <2>4. Recent(Older(admitted[c])) \in Seq(Ages)
      BY <2>3, RecentFacts
    <2> QED BY <2>1, <2>2, <2>3, <2>4, RemembersOlder
  <1>3. /\ bucket' \in [Clients -> Seq(Ages)]
        /\ admitted' \in [Clients -> Seq(Ages)]
    BY <1>1, <1>2
  <1>4. Ages' = Ages /\ Allowed' = Allowed
    BY DEF Ages, Allowed, Window
  <1> QED BY <1>2, <1>3, <1>4 DEF BucketInv, Falling, Remembers, Window

\* Zero, the age of a request that was just admitted, at the end of a bucket.
LEMMA AppendZero ==
    ASSUME NEW s \in Seq(Ages), Falling(s)
    PROVE  Append(s, 0) \in Seq(Ages) /\ Falling(Append(s, 0))
  <1> DEFINE n == Len(s)
             r == Append(s, 0)
  <1>1. 0 \in Ages /\ n \in Nat /\ DOMAIN s = 1..n /\ \A i \in 1..n : s[i] \in Nat
    BY Settings, LenProperties, ElementOfSeq DEF Ages
  <1>2. /\ r \in Seq(Ages) /\ Len(r) = n + 1 /\ DOMAIN r = 1..(n + 1)
        /\ \A i \in 1..n : r[i] = s[i]
        /\ r[n + 1] = 0
    BY <1>1, AppendProperties, LenProperties
  <1> HIDE DEF n, r
  <1>3. ASSUME NEW i \in 1..(n + 1), NEW j \in 1..(n + 1), i < j PROVE r[j] <= r[i]
    <2>1. i \in 1..n
      BY <1>1, <1>3
    <2>2. CASE j = n + 1
      BY <1>1, <1>2, <2>1, <2>2
    <2>3. CASE j # n + 1
      <3>1. j \in 1..n
        BY <1>1, <2>3
      <3> QED BY <1>1, <1>2, <1>3, <2>1, <3>1 DEF Falling
    <2> QED BY <2>2, <2>3
  <1> QED BY <1>2, <1>3 DEF Falling, r

LEMMA RemembersRecent ==
    ASSUME NEW b \in Seq(Ages), NEW a \in Seq(Ages), Remembers(b, a)
    PROVE  Remembers(Recent(b), a)
  <1> DEFINE r == Recent(b)
  <1>1. /\ \A k \in 0..(Len(r) - 1) : r[Len(r) - k] = b[Len(b) - k]
        /\ Len(r) <= Len(b) /\ Len(r) \in Nat /\ Len(b) \in Nat
    BY RecentFacts, LenProperties
  <1> HIDE DEF r
  <1>2. \A k \in 0..(Len(r) - 1) : k \in 0..(Len(b) - 1)
    BY <1>1
  <1> QED BY <1>1, <1>2 DEF Remembers, r

LEMMA RemembersAdmitted ==
    ASSUME NEW b \in Seq(Ages), NEW a \in Seq(Ages), Remembers(b, a),
           Len(Recent(b)) < Allowed
    PROVE  Remembers(Append(Recent(b), 0), Latest(Append(a, 0), Allowed))
  <1> DEFINE rec == Recent(b)
             bb  == Append(rec, 0)
             aa  == Append(a, 0)
             r   == Latest(aa, Allowed)
  <1>1. rec \in Seq(Ages) /\ Remembers(rec, a) /\ Len(rec) \in Nat /\ Len(a) \in Nat
        /\ 0 \in Ages /\ Allowed \in Nat \ {0} /\ Len(rec) < Allowed
    BY RecentFacts, RemembersRecent, LenProperties, Settings DEF Ages
  <1> HIDE DEF rec
  <1>2. /\ Len(bb) = Len(rec) + 1 /\ bb[(Len(rec) + 1) - 0] = 0
        /\ \A k \in 1..Len(rec) : bb[(Len(rec) + 1) - k] = rec[Len(rec) - (k - 1)]
    BY <1>1, AppendAtEnd
  <1>3. /\ aa \in Seq(Ages) /\ Len(aa) = Len(a) + 1 /\ aa[(Len(a) + 1) - 0] = 0
        /\ \A k \in 1..Len(a) : aa[(Len(a) + 1) - k] = a[Len(a) - (k - 1)]
    BY <1>1, AppendAtEnd
  <1> HIDE DEF bb, aa
  <1>4. /\ Len(r) = IF Len(aa) <= Allowed THEN Len(aa) ELSE Allowed
        /\ \A k \in 0..(Len(r) - 1) : r[Len(r) - k] = aa[Len(aa) - k]
    BY <1>1, <1>3, LatestFacts DEF EndsLike
  <1> HIDE DEF r
  <1>5. Len(r) \in Nat /\ \A k \in Nat : k < Len(a) + 1 /\ k < Allowed => k \in 0..(Len(r) - 1)
    BY <1>1, <1>3, <1>4
  <1> SUFFICES ASSUME NEW k \in 0..(Len(bb) - 1), bb[Len(bb) - k] <= Window
               PROVE  k < Len(r) /\ r[Len(r) - k] = bb[Len(bb) - k]
    BY DEF Remembers, bb, aa, r, rec
  <1>6. CASE k = 0
    <2>1. 0 \in 0..(Len(r) - 1)
      BY <1>1, <1>5
    <2> QED BY <1>2, <1>3, <1>4, <1>5, <1>6, <2>1
  <1>7. CASE k # 0
    <2>1. k \in 1..Len(rec) /\ k - 1 \in 0..(Len(rec) - 1)
      BY <1>1, <1>2, <1>7
    <2>2. bb[Len(bb) - k] = rec[Len(rec) - (k - 1)]
      BY <1>2, <2>1
    <2>3. k - 1 < Len(a) /\ a[Len(a) - (k - 1)] = rec[Len(rec) - (k - 1)]
      BY <1>1, <2>1, <2>2 DEF Remembers
    <2>4. k \in 1..Len(a) /\ k \in 0..(Len(r) - 1)
      BY <1>1, <1>5, <2>1, <2>3
    <2>5. aa[Len(aa) - k] = a[Len(a) - (k - 1)]
      BY <1>3, <2>4
    <2> QED BY <1>4, <1>5, <2>2, <2>3, <2>4, <2>5
  <1> QED BY <1>6, <1>7

LEMMA RequestBuckets ==
    ASSUME BucketInv, NEW c \in Clients, ObservedRequest(c)
    PROVE  BucketInv'
  <1> DEFINE b   == bucket[c]
             rec == Recent(b)
  <1>1. /\ b \in Seq(Ages) /\ Falling(b) /\ Len(b) <= Allowed /\ Remembers(b, admitted[c])
        /\ bucket \in [Clients -> Seq(Ages)] /\ admitted \in [Clients -> Seq(Ages)]
    BY DEF BucketInv
  <1>2. /\ rec \in Seq(Ages) /\ Falling(rec) /\ Len(rec) <= Len(b)
        /\ Len(rec) \in Nat /\ Len(b) \in Nat /\ Allowed \in Nat \ {0}
    BY <1>1, RecentFacts, LenProperties, Settings
  <1>3. ASSUME NEW d \in Clients, d # c
        PROVE  /\ bucket'[d] = IF Contains(order', d) THEN bucket[d] ELSE <<>>
               /\ admitted'[d] = admitted[d]
    BY <1>1, <1>3 DEF ObservedRequest, Request
  <1>4. \/ /\ Len(rec) >= Allowed /\ bucket'[c] = rec /\ admitted'[c] = admitted[c]
        \/ /\ Len(rec) < Allowed /\ bucket'[c] = Append(rec, 0)
           /\ admitted'[c] = Latest(Append(admitted[c], 0), Allowed)
    BY <1>1 DEF ObservedRequest, Request, Answer
  <1>5. DOMAIN bucket' = Clients /\ DOMAIN admitted' = Clients
        /\ bucket' = [d \in Clients |-> bucket'[d]]
        /\ admitted' = [d \in Clients |-> admitted'[d]]
    BY <1>1 DEF ObservedRequest, Request
  <1> HIDE DEF b, rec
  <1>6. /\ bucket'[c] \in Seq(Ages) /\ admitted'[c] \in Seq(Ages)
        /\ Falling(bucket'[c]) /\ Len(bucket'[c]) <= Allowed
        /\ Remembers(bucket'[c], admitted'[c])
    <2>1. admitted[c] \in Seq(Ages)
      BY <1>1
    <2>2. CASE bucket'[c] = rec /\ admitted'[c] = admitted[c]
      <3>1. Remembers(rec, admitted[c])
        BY <1>1, <2>1, RemembersRecent DEF rec
      <3>2. Len(rec) <= Allowed
        BY <1>1, <1>2
      <3> QED BY <1>2, <2>1, <2>2, <3>1, <3>2
    <2>3. CASE /\ Len(rec) < Allowed /\ bucket'[c] = Append(rec, 0)
               /\ admitted'[c] = Latest(Append(admitted[c], 0), Allowed)
      <3>1. Append(rec, 0) \in Seq(Ages) /\ Falling(Append(rec, 0))
        BY <1>2, AppendZero
      <3>2. Len(Append(rec, 0)) <= Allowed
        BY <1>2, <2>3, LenProperties
      <3>3. 0 \in Ages /\ Append(admitted[c], 0) \in Seq(Ages)
        BY <2>1, AppendProperties, Settings DEF Ages
      <3>4. Latest(Append(admitted[c], 0), Allowed) \in Seq(Ages)
        BY <1>2, <3>3, LatestFacts
      <3>5. Remembers(Append(rec, 0), Latest(Append(admitted[c], 0), Allowed))
        BY <1>1, <2>1, <2>3, RemembersAdmitted DEF rec
      <3> QED BY <2>3, <3>1, <3>2, <3>4, <3>5
    <2> QED BY <1>4, <2>2, <2>3
  <1>7. ASSUME NEW d \in Clients
        PROVE  /\ bucket'[d] \in Seq(Ages) /\ admitted'[d] \in Seq(Ages)
               /\ Falling(bucket'[d]) /\ Len(bucket'[d]) <= Allowed
               /\ Remembers(bucket'[d], admitted'[d])
    <2>1. CASE d = c
      BY <1>6, <2>1
    <2>2. CASE d # c
      <3>1. /\ bucket[d] \in Seq(Ages) /\ admitted[d] \in Seq(Ages)
            /\ Falling(bucket[d]) /\ Len(bucket[d]) <= Allowed
            /\ Remembers(bucket[d], admitted[d])
        BY DEF BucketInv
      <3> QED BY <1>3, <2>2, <3>1, EmptyBucket
    <2> QED BY <2>1, <2>2
  <1>8. /\ bucket' \in [Clients -> Seq(Ages)]
        /\ admitted' \in [Clients -> Seq(Ages)]
    BY <1>5, <1>7
  <1>9. Ages' = Ages /\ Allowed' = Allowed /\ Window' = Window
    BY DEF Ages, Allowed, Window
  <1> QED BY <1>7, <1>8, <1>9 DEF BucketInv, Falling, Remembers

LEMMA NeverOvercountsInv == BucketInv => NeverOvercounts
  <1> SUFFICES ASSUME BucketInv, NEW c \in Clients
               PROVE  IsSuffix(Recent(bucket[c]), admitted[c])
    BY DEF NeverOvercounts
  <1> DEFINE r == Recent(bucket[c])
             a == admitted[c]
  <1>1. bucket[c] \in Seq(Ages) /\ a \in Seq(Ages) /\ Falling(bucket[c])
        /\ Remembers(bucket[c], a)
    BY DEF BucketInv
  <1>2. r \in Seq(Ages) /\ \A j \in 1..Len(r) : r[j] <= Window
    BY <1>1, RecentFacts
  <1>3. Remembers(r, a)
    BY <1>1, RemembersRecent
  <1> HIDE DEF r, a
  <1>4. EndsLike(r, a)
    <2> SUFFICES ASSUME NEW k \in 0..(Len(r) - 1)
                 PROVE  k < Len(a) /\ r[Len(r) - k] = a[Len(a) - k]
      BY DEF EndsLike
    <2>1. Len(r) - k \in 1..Len(r)
      BY <1>2, LenProperties
    <2> QED BY <1>2, <1>3, <2>1 DEF Remembers
  <1> QED BY <1>1, <1>2, <1>4, SuffixFromEnd DEF r, a

-----------------------------------------------------------------------------
(***************************************************************************)
(* The invariant of the keys, and its steps.                               *)
(***************************************************************************)
\* The keys are the MaxTracked seen most recently.
MostRecent ==
    /\ Len(order) = IF Len(seen) <= MaxTracked THEN Len(seen) ELSE MaxTracked
    /\ EndsLike(order, seen)

OrderInv ==
    /\ order \in Seq(Clients) /\ IsInjective(order)
    /\ seen \in Seq(Clients) /\ IsInjective(seen)
    /\ MostRecent
    /\ \A c \in Clients : ~Contains(order, c) => bucket[c] = <<>>

LEMMA OrderInvInit == HistoryInit => OrderInv
  <1>1. <<>> \in Seq(Clients) /\ IsInjective(<<>>) /\ Len(<<>>) = 0 /\ EndsLike(<<>>, <<>>)
    BY DEF IsInjective, EndsLike
  <1> QED BY <1>1, Settings DEF HistoryInit, Init, OrderInv, MostRecent

LEMMA RequestOrder ==
    ASSUME OrderInv, BucketInv, NEW c \in Clients, ObservedRequest(c)
    PROVE  OrderInv'
  <1> DEFINE n    == Len(order)
             m    == Len(seen)
             room == IF ~Contains(order, c) /\ n >= MaxTracked THEN Tail(order) ELSE order
  <1>1. order' = MoveToEnd(room, c) /\ seen' = MoveToEnd(seen, c)
    BY DEF ObservedRequest, Request, Touch
  <1>2. /\ order \in Seq(Clients) /\ IsInjective(order)
        /\ seen \in Seq(Clients) /\ IsInjective(seen)
        /\ n \in Nat /\ m \in Nat /\ MaxTracked \in Nat \ {0}
        /\ n = IF m <= MaxTracked THEN m ELSE MaxTracked
        /\ EndsLike(order, seen)
    BY LenProperties, Settings DEF OrderInv, MostRecent
  <1>3. /\ room \in Seq(Clients) /\ EndsLike(room, seen) /\ IsInjective(room)
        /\ Len(room) = IF ~Contains(order, c) /\ n >= MaxTracked THEN n - 1 ELSE n
        /\ Contains(room, c) <=> Contains(order, c)
    <2>1. CASE ~Contains(order, c) /\ n >= MaxTracked
      <3>1. n > 0 /\ room = Tail(order)
        BY <1>2, <2>1
      <3> HIDE DEF room
      <3>2. room \in Seq(Clients) /\ Len(room) = n - 1 /\ EndsLike(room, order)
        BY <1>2, <3>1, TailEnds
      <3>3. IsInjective(room) /\ ~Contains(room, c)
        BY <1>2, <2>1, <3>2, EndsKeep
      <3> QED BY <1>2, <2>1, <3>2, <3>3, EndsTransitive
    <2>2. CASE ~(~Contains(order, c) /\ n >= MaxTracked)
      BY <1>2, <2>2
    <2> QED BY <2>1, <2>2
  <1> HIDE DEF room
  <1>4. /\ order' \in Seq(Clients) /\ IsInjective(order')
        /\ Len(order') = IF Contains(order, c) THEN Len(room) ELSE Len(room) + 1
        /\ Contains(order', c)
    BY <1>1, <1>3, MoveFacts
  <1>5. /\ seen' \in Seq(Clients) /\ IsInjective(seen')
        /\ Len(seen') = IF Contains(seen, c) THEN m ELSE m + 1
    BY <1>1, <1>2, MoveFacts
  <1>6. EndsLike(order', seen')
    BY <1>1, <1>2, <1>3, MoveEnds
  <1>7. Len(order') = IF Len(seen') <= MaxTracked THEN Len(seen') ELSE MaxTracked
    <2>1. Contains(order, c) => Contains(seen, c)
      BY <1>2, EndsKeep
    <2>2. n = m => order = seen
      BY <1>2, SameEnds
    <2> HIDE DEF n, m
    <2> QED BY <1>2, <1>3, <1>4, <1>5, <2>1, <2>2
  <1>8. ASSUME NEW d \in Clients, ~Contains(order', d) PROVE bucket'[d] = <<>>
    <2>1. d # c
      BY <1>4, <1>8
    <2> QED BY <1>8, <2>1 DEF BucketInv, ObservedRequest, Request
  <1>9. MostRecent'
    BY <1>6, <1>7 DEF MostRecent, EndsLike
  <1> QED BY <1>4, <1>5, <1>8, <1>9 DEF OrderInv, Contains, IsInjective

LEMMA TickOrder ==
    ASSUME OrderInv, ObservedTick
    PROVE  OrderInv'
  <1>1. order' = order /\ seen' = seen /\ bucket' = [c \in Clients |-> Older(bucket[c])]
    BY DEF ObservedTick, Tick
  <1>2. Older(<<>>) = <<>>
    BY DEF Older
  <1>3. \A c \in Clients : ~Contains(order, c) => bucket'[c] = <<>>
    BY <1>1, <1>2 DEF OrderInv
  <1> QED BY <1>1, <1>3 DEF OrderInv, MostRecent, EndsLike, Contains, IsInjective

-----------------------------------------------------------------------------
(***************************************************************************)
(* Theorems.                                                               *)
(***************************************************************************)
LimiterInv == BucketInv /\ OrderInv

LEMMA LimiterInvStep == LimiterInv /\ [HistoryNext]_vars => LimiterInv'
  <1> SUFFICES ASSUME LimiterInv, [HistoryNext]_vars PROVE LimiterInv'
    OBVIOUS
  <1>1. CASE UNCHANGED vars
    <2>1. /\ order' = order /\ bucket' = bucket /\ seen' = seen /\ admitted' = admitted
      BY <1>1 DEF vars, limiterVars, historyVars
    <2>2. BucketInv'
      BY <2>1 DEF LimiterInv, BucketInv, Ages, Allowed, Window, Falling, Remembers
    <2>3. OrderInv'
      BY <2>1 DEF LimiterInv, OrderInv, MostRecent, EndsLike, Contains, IsInjective
    <2> QED BY <2>2, <2>3 DEF LimiterInv
  <1>2. CASE ObservedTick
    BY <1>2, TickBuckets, TickOrder DEF LimiterInv
  <1>3. CASE \E c \in Clients : ObservedRequest(c)
    BY <1>3, RequestBuckets, RequestOrder DEF LimiterInv
  <1> QED BY <1>1, <1>2, <1>3 DEF HistoryNext

LEMMA LimiterAlways == HistorySpec => []LimiterInv
  <1>1. HistoryInit => LimiterInv
    BY BucketInvInit, OrderInvInit DEF LimiterInv
  <1> QED BY <1>1, LimiterInvStep, PTL DEF HistorySpec

\* The limiter's memory stays bounded, for any number of clients: MaxTracked
\* clients, Allowed requests for each (dispatch).
THEOREM MemoryBounded == HistorySpec => []TypeOK
  <1>1. LimiterInv => TypeOK
    <2> SUFFICES ASSUME LimiterInv PROVE TypeOK
      OBVIOUS
    <2>1. Len(order) <= MaxTracked
      BY Settings, LenProperties DEF LimiterInv, OrderInv, MostRecent
    <2> QED BY <2>1 DEF LimiterInv, OrderInv, BucketInv, TypeOK, Ages
  <1> QED BY <1>1, LimiterAlways, PTL

\* The clients tracked are those seen last (lines 40-46 of dispatch).
THEOREM KeepsLatest == HistorySpec => []KeepsMostRecent
  <1>1. LimiterInv => KeepsMostRecent
    <2> SUFFICES ASSUME LimiterInv PROVE KeepsMostRecent
      OBVIOUS
    <2>1. /\ order \in Seq(Clients) /\ seen \in Seq(Clients) /\ EndsLike(order, seen)
          /\ Len(order) = IF Len(seen) <= MaxTracked THEN Len(seen) ELSE MaxTracked
          /\ Len(seen) \in Int /\ MaxTracked \in Int
      BY Settings, LenProperties DEF LimiterInv, OrderInv, MostRecent
    <2>2. Min({Len(seen), MaxTracked}) = IF Len(seen) <= MaxTracked THEN Len(seen)
                                         ELSE MaxTracked
      BY <2>1, MinMaxOfTwo
    <2>3. IsSuffix(order, seen)
      BY <2>1, SuffixFromEnd
    <2> QED BY <2>1, <2>2, <2>3 DEF KeepsMostRecent
  <1> QED BY <1>1, LimiterAlways, PTL

\* No client is refused a request it was entitled to, whoever is evicted
\* (dispatch).
THEOREM OnlyForgives == HistorySpec => []NeverOvercounts
  <1>1. LimiterInv => NeverOvercounts
    BY NeverOvercountsInv DEF LimiterInv
  <1> QED BY <1>1, LimiterAlways, PTL

-----------------------------------------------------------------------------
(***************************************************************************)
(* Until the first eviction: SlidingWindow.                                *)
(***************************************************************************)

\* What is within the window stays.
LEMMA RecentKeeps ==
    ASSUME NEW s \in Seq(Ages), \A i \in DOMAIN s : s[i] <= Window
    PROVE  Recent(s) = s
  <1> DEFINE r == Recent(s)
             n == Len(s)
             m == Len(r)
  <1>1. /\ n \in Nat /\ DOMAIN s = 1..n /\ s = [i \in 1..n |-> s[i]]
        /\ m \in Nat /\ DOMAIN r = 1..m /\ r = [i \in 1..m |-> r[i]]
        /\ m <= n
        /\ \A k \in 0..(m - 1) : r[m - k] = s[n - k]
        /\ \A k \in 0..(n - 1) : s[n - k] <= Window => k < m
    BY RecentFacts, LenProperties
  <1> HIDE DEF r, n, m
  <1>2. m = n
    <2>1. n > 0 => n - 1 < m
      <3> SUFFICES ASSUME n > 0 PROVE n - 1 < m
        OBVIOUS
      <3>1. n - 1 \in 0..(n - 1) /\ n - (n - 1) = 1 /\ 1 \in DOMAIN s
        BY <1>1
      <3> QED BY <1>1, <3>1
    <2> QED BY <1>1, <2>1
  <1>3. ASSUME NEW i \in 1..n
        PROVE  r[i] = s[i]
    <2>1. n - i \in 0..(m - 1) /\ n - (n - i) = i
      BY <1>1, <1>2
    <2> QED BY <1>1, <1>2, <2>1
  <1>4. r = s
    BY <1>1, <1>2, <1>3
  <1> QED BY <1>4 DEF r

\* A tick makes the same of a bucket as of what SlidingWindow keeps.
LEMMA AgeBucket ==
    ASSUME NEW b \in Seq(Ages), Falling(b)
    PROVE  LET r == Recent(b)
               q == Recent(Older(b))
           IN \E k \in 0..Len(r) :
                 /\ \A i \in 1..Len(r) : r[i] = Window <=> i <= k
                 /\ q = [i \in 1..(Len(r) - k) |-> r[i + k] + 1]
  <1> DEFINE r == Recent(b)
             o == Older(b)
             q == Recent(o)
             n == Len(b)
             m == Len(r)
             l == Len(q)
             k == m - l
  <1>1. /\ n \in Nat /\ Window \in Nat /\ \A i \in 1..n : b[i] \in Ages
        /\ o \in Seq(Ages) /\ Len(o) = n /\ Falling(o)
        /\ \A i \in 1..n : o[i] = IF b[i] <= Window THEN b[i] + 1 ELSE Window + 1
    BY OlderFacts, LenProperties, ElementOfSeq, Settings
  <1>2. /\ r \in Seq(Ages) /\ m \in Nat /\ m <= n
        /\ \A j \in 0..(m - 1) : r[m - j] = b[n - j]
        /\ \A j \in 0..(n - 1) : b[n - j] <= Window => j < m
        /\ \A i \in 1..m : r[i] <= Window
    BY RecentFacts, LenProperties
  <1>3. /\ q \in Seq(Ages) /\ l \in Nat /\ l <= n
        /\ q = [i \in 1..l |-> q[i]]
        /\ \A j \in 0..(l - 1) : q[l - j] = o[n - j]
        /\ \A j \in 0..(n - 1) : o[n - j] <= Window => j < l
        /\ \A i \in 1..l : q[i] <= Window
    BY <1>1, RecentFacts, LenProperties
  <1> HIDE DEF r, o, q, n, m, l
  <1>4. ASSUME NEW j \in 0..(n - 1)
        PROVE  /\ n - j \in 1..n /\ b[n - j] \in Nat
               /\ j < m <=> b[n - j] <= Window
               /\ j < l <=> b[n - j] + 1 <= Window
    <2>1. n - j \in 1..n /\ b[n - j] \in Nat
      BY <1>1 DEF Ages
    <2>2. j < m => b[n - j] <= Window
      <3> SUFFICES ASSUME j < m PROVE b[n - j] <= Window
        OBVIOUS
      <3>1. j \in 0..(m - 1) /\ m - j \in 1..m
        BY <1>2
      <3> QED BY <1>2, <3>1
    <2>3. j < l => o[n - j] <= Window
      <3> SUFFICES ASSUME j < l PROVE o[n - j] <= Window
        OBVIOUS
      <3>1. j \in 0..(l - 1) /\ l - j \in 1..l
        BY <1>3
      <3> QED BY <1>3, <3>1
    <2>4. o[n - j] <= Window <=> b[n - j] + 1 <= Window
      BY <1>1, <2>1
    <2> QED BY <1>2, <1>3, <2>1, <2>2, <2>3, <2>4
  <1>5. l <= m
    <2> SUFFICES ASSUME l > 0 PROVE l - 1 < m
      BY <1>2, <1>3
    <2>1. l - 1 \in 0..(n - 1) /\ l - 1 < l
      BY <1>1, <1>3
    <2> QED BY <1>1, <1>4, <2>1
  <1>6. k \in 0..m
    BY <1>2, <1>3, <1>5
  <1>7. ASSUME NEW i \in 1..m
        PROVE  /\ r[i] = b[n - (m - i)] /\ r[i] \in Nat
               /\ r[i] + 1 <= Window <=> m - i < l
    <2>1. m - i \in 0..(m - 1) /\ m - i \in 0..(n - 1) /\ m - (m - i) = i
      BY <1>1, <1>2
    <2> QED BY <1>2, <1>4, <2>1
  <1>8. ASSUME NEW i \in 1..m
        PROVE  r[i] = Window <=> i <= k
    <2>1. r[i] + 1 <= Window <=> ~(i <= k)
      BY <1>2, <1>3, <1>7
    <2>2. r[i] <= Window /\ r[i] \in Nat
      BY <1>2, <1>7
    <2> QED BY <1>1, <2>1, <2>2
  <1>9. ASSUME NEW i \in 1..l
        PROVE  q[i] = r[i + k] + 1
    <2>1. /\ l - i \in 0..(l - 1) /\ l - i \in 0..(n - 1) /\ l - (l - i) = i
          /\ i + k \in 1..m /\ m - (i + k) = l - i
      BY <1>1, <1>2, <1>3, <1>5
    <2>2. q[i] = o[n - (l - i)]
      BY <1>3, <2>1
    <2>3. b[n - (l - i)] + 1 <= Window /\ n - (l - i) \in 1..n /\ b[n - (l - i)] \in Nat
      BY <1>3, <1>4, <2>1
    <2>4. o[n - (l - i)] = b[n - (l - i)] + 1
      BY <1>1, <2>3
    <2> QED BY <1>7, <2>1, <2>2, <2>4
  <1>10. m - k = l
    BY <1>2, <1>3
  <1>11. q = [i \in 1..(m - k) |-> r[i + k] + 1]
    BY <1>3, <1>9, <1>10
  <1> HIDE DEF k
  <1> QED BY <1>6, <1>8, <1>11 DEF r, q, o, m

\* As long as nobody was evicted a request evicts nobody.
LEMMA NobodyEvicted ==
    ASSUME LimiterInv, LimiterInv', NEW c \in Clients, ObservedRequest(c),
           Len(seen') <= MaxTracked, NEW d \in Clients
    PROVE  ~Contains(order', d) => bucket[d] = <<>>
  <1>1. /\ order \in Seq(Clients) /\ seen \in Seq(Clients) /\ IsInjective(seen)
        /\ order' \in Seq(Clients) /\ seen' \in Seq(Clients)
        /\ EndsLike(order, seen) /\ EndsLike(order', seen')
        /\ Len(order) = IF Len(seen) <= MaxTracked THEN Len(seen) ELSE MaxTracked
        /\ Len(order') = IF Len(seen') <= MaxTracked THEN Len(seen') ELSE MaxTracked
    BY DEF LimiterInv, OrderInv, MostRecent, EndsLike
  <1>2. seen' = MoveToEnd(seen, c)
    BY DEF ObservedRequest
  <1>3. Len(seen) <= Len(seen') /\ Len(seen) \in Nat /\ Len(seen') \in Nat
    BY <1>1, <1>2, MoveFacts, LenProperties
  <1>4. order = seen /\ order' = seen'
    BY <1>1, <1>3, SameEnds, Settings
  <1>5. Contains(seen, d) => Contains(seen', d)
    BY <1>1, <1>2, MoveFacts
  <1> QED BY <1>4, <1>5 DEF LimiterInv, OrderInv

\* Time passes in both.
LEMMA TickExact ==
    ASSUME LimiterInv, ObservedTick
    PROVE  Exact!Tick
  <1>1. /\ bucket' = [c \in Clients |-> Older(bucket[c])] /\ answer' = answer
        /\ \A c \in Clients : bucket[c] \in Seq(Ages) /\ Falling(bucket[c])
    BY DEF ObservedTick, Tick, LimiterInv, BucketInv
  <1>2. ASSUME NEW c \in Clients
        PROVE  Exact!Age(c)
    <2>1. bucket'[c] = Older(bucket[c])
      BY <1>1
    <2>2. \E k \in 0..Len(Recent(bucket[c])) :
             /\ \A i \in 1..Len(Recent(bucket[c])) :
                   Recent(bucket[c])[i] = Window <=> i <= k
             /\ Recent(bucket'[c]) = [i \in 1..(Len(Recent(bucket[c])) - k) |->
                                        Recent(bucket[c])[i + k] + 1]
      BY <1>1, <2>1, AgeBucket
    <2>3. (Recent(bucket[c]))' = Recent(bucket'[c])
      BY DEF Recent, Window
    <2> QED BY <2>2, <2>3 DEF Exact!Age
  <1> QED BY <1>1, <1>2 DEF Exact!Tick

\* A request is admitted or refused in both.
LEMMA RequestExact ==
    ASSUME LimiterInv, LimiterInv', NEW c \in Clients, ObservedRequest(c),
           Len(seen') <= MaxTracked
    PROVE  Exact!Admit(c) \/ Exact!Refuse(c)
  <1> DEFINE rec == Recent(bucket[c])
             now == [d \in Clients |-> Recent(bucket[d])]
             new == [d \in Clients |-> Recent(bucket'[d])]
  <1>1. /\ bucket[c] \in Seq(Ages) /\ Falling(bucket[c]) /\ Len(bucket[c]) <= Allowed
        /\ bucket \in [Clients -> Seq(Ages)] /\ Allowed \in Nat
    BY Settings DEF LimiterInv, BucketInv
  <1>2. /\ rec \in Seq(Ages) /\ Falling(rec) /\ Len(rec) <= Allowed /\ Len(rec) \in Nat
        /\ \A j \in 1..Len(rec) : rec[j] <= Window
    BY <1>1, RecentFacts, LenProperties
  <1>3. ASSUME NEW d \in Clients, d # c
        PROVE  bucket'[d] = bucket[d]
    <2>1. bucket'[d] = IF Contains(order', d) THEN bucket[d] ELSE <<>>
      BY <1>3 DEF ObservedRequest, Request
    <2> QED BY <2>1, NobodyEvicted
  <1>4. new = [d \in Clients |-> Recent(bucket[d])']
    BY DEF Recent, Window
  <1>5. CASE Len(rec) >= Allowed
    <2>1. bucket'[c] = rec /\ answer'.client = c /\ answer'.allowed = FALSE
      BY <1>1, <1>5 DEF ObservedRequest, Request, Answer
    <2>2. Recent(bucket'[c]) = rec
      BY <1>2, <2>1, RecentKeeps
    <2>3. new = now
      BY <1>3, <2>2
    <2>4. Len(now[c]) = Allowed
      BY <1>1, <1>2, <1>5
    <2> QED BY <1>4, <2>1, <2>3, <2>4 DEF Exact!Refuse
  <1>6. CASE Len(rec) < Allowed
    <2>1. bucket'[c] = Append(rec, 0) /\ answer'.client = c /\ answer'.allowed = TRUE
      BY <1>1, <1>6 DEF ObservedRequest, Request, Answer
    <2>2. Append(rec, 0) \in Seq(Ages)
      BY <1>2, AppendZero
    <2>3. ASSUME NEW j \in DOMAIN Append(rec, 0)
          PROVE  Append(rec, 0)[j] <= Window
      BY <1>2, Settings, AppendProperties, LenProperties
    <2>4. Recent(bucket'[c]) = Append(rec, 0)
      BY <2>1, <2>2, <2>3, RecentKeeps
    <2>5. new = [now EXCEPT ![c] = Append(now[c], 0)]
      BY <1>3, <2>4
    <2>6. Len(now[c]) < Allowed
      BY <1>6
    <2> QED BY <1>4, <2>1, <2>5, <2>6 DEF Exact!Admit
  <1> QED BY <1>1, <1>2, <1>5, <1>6

\* Until more clients came than are tracked, dispatch is an exact sliding window
\* for each of them, however late it prunes a bucket.
THEOREM ExactWhileRoom == HistorySpec => ExactUntilEviction
  <1>1. HistoryInit => Exact!Init
    <2> SUFFICES ASSUME HistoryInit PROVE Exact!Init
      OBVIOUS
    <2>1. Recent(<<>>) = <<>>
      <3>1. <<>> \in Seq(Ages) /\ DOMAIN <<>> = {}
        OBVIOUS
      <3> QED BY <3>1, RecentKeeps
    <2> QED BY <2>1 DEF HistoryInit, Init, Exact!Init
  <1>2. LimiterInv /\ LimiterInv' /\ [HistoryNext]_vars
           => [Len(seen') <= MaxTracked => Exact!Next]_(Exact!windowVars)
    <2> SUFFICES ASSUME LimiterInv, LimiterInv', [HistoryNext]_vars,
                        Len(seen') <= MaxTracked
                 PROVE  Exact!Next \/ UNCHANGED Exact!windowVars
      OBVIOUS
    <2>1. CASE UNCHANGED vars
      BY <2>1 DEF vars, limiterVars, Exact!windowVars, Recent, Window
    <2>2. CASE ObservedTick
      BY <2>2, TickExact DEF Exact!Next
    <2>3. ASSUME NEW c \in Clients, ObservedRequest(c)
          PROVE  Exact!Next
      BY <2>3, RequestExact DEF Exact!Next
    <2> QED BY <2>1, <2>2, <2>3 DEF HistoryNext
  <1> QED BY <1>1, <1>2, LimiterAlways, PTL DEF HistorySpec, ExactUntilEviction

-----------------------------------------------------------------------------
(***************************************************************************)
(* Retry-After.                                                            *)
(***************************************************************************)
\* Of a client that was refused and has not come again, the oldest request is
\* out of the window by the end of the advice and a second.
AdviceInv ==
    /\ advice \in [Clients -> Nat \union {None}]
    /\ \A c \in Clients :
          advice[c] # None /\ Len(bucket[c]) > 0 => bucket[c][1] + advice[c] > Window

\* Rounded down, but by less than a second.
LEMMA RoundedDown ==
    ASSUME NEW a \in Nat, NEW t \in Nat \ {0}
    PROVE  a \div t \in Nat /\ a < (a \div t + 1) * t
  BY Z3

LEMMA LongerIsLater ==
    ASSUME NEW q \in Nat, NEW m \in Nat, q <= m, NEW t \in Nat
    PROVE  q * t <= m * t /\ m * t \in Nat
  BY Z3

LEMMA AdviceFacts ==
    ASSUME NEW oldest \in 0..Window
    PROVE  /\ (RetryAfter(oldest) + 1) * TicksPerSecond \in Nat
           /\ oldest + (RetryAfter(oldest) + 1) * TicksPerSecond > Window
  <1> DEFINE t == TicksPerSecond
             left == Window - oldest
             q == left \div t
             m == RetryAfter(oldest)
  <1>1. left \in Nat /\ t \in Nat \ {0} /\ Window \in Nat /\ oldest \in Nat
    BY Settings, RateLimitConfig
  <1>2. q \in Nat /\ left < (q + 1) * t
    BY <1>1, RoundedDown
  <1>3. m \in Nat /\ q <= m
    <2>1. Max({1, q}) = IF 1 <= q THEN q ELSE 1
      <3>1. 1 \in Int /\ q \in Int
        BY <1>2
      <3> HIDE DEF q
      <3> QED BY <3>1, MinMaxOfTwo
    <2>2. m = Max({1, q})
      BY DEF RetryAfter
    <2> HIDE DEF m, q
    <2> QED BY <1>2, <2>1, <2>2
  <1> HIDE DEF m, q
  <1>4. (q + 1) * t <= (m + 1) * t /\ (m + 1) * t \in Nat
    BY <1>1, <1>2, <1>3, LongerIsLater
  <1>5. (q + 1) * t \in Nat
    BY <1>1, <1>2, LongerIsLater
  <1> DEFINE x == (q + 1) * t
             y == (m + 1) * t
  <1>6. x <= y /\ y \in Nat /\ x \in Nat /\ left < x
    BY <1>2, <1>4, <1>5
  <1> HIDE DEF x, y
  <1>7. y \in Nat /\ oldest + y > Window
    BY <1>1, <1>6
  <1> QED BY <1>7 DEF y, m

LEMMA AdviceInvInit == HistoryInit => AdviceInv
  <1>1. Len(<<>>) = 0
    OBVIOUS
  <1> QED BY <1>1 DEF HistoryInit, Init, AdviceInv

LEMMA TickAdvice ==
    ASSUME BucketInv, AdviceInv, ObservedTick
    PROVE  AdviceInv'
  <1>1. /\ bucket' = [c \in Clients |-> Older(bucket[c])]
        /\ advice' = [c \in Clients |-> IF advice[c] > 0 THEN advice[c] - 1 ELSE advice[c]]
        /\ advice \in [Clients -> Nat \union {None}]
    BY DEF ObservedTick, Tick, AdviceInv
  <1>2. ASSUME NEW c \in Clients
        PROVE  /\ advice'[c] \in Nat \union {None}
               /\ advice'[c] # None /\ Len(bucket'[c]) > 0 =>
                     bucket'[c][1] + advice'[c] > Window
    <2> DEFINE b == bucket[c]
               a == advice[c]
    <2>1. /\ b \in Seq(Ages) /\ Len(b) \in Nat /\ a \in Nat \union {None} /\ Window \in Nat
          /\ a # None /\ Len(b) > 0 => b[1] + a > Window
          /\ \A i \in 1..Len(b) : b[i] \in Nat
      BY LenProperties, ElementOfSeq, Settings DEF BucketInv, AdviceInv, Ages
    <2>2. /\ Len(Older(b)) = Len(b)
          /\ \A i \in 1..Len(b) : Older(b)[i] = IF b[i] <= Window THEN b[i] + 1
                                                ELSE Window + 1
      BY <2>1, OlderFacts
    <2>3. bucket'[c] = Older(b) /\ advice'[c] = IF a > 0 THEN a - 1 ELSE a
      BY <1>1
    <2>4. None = -1
      BY DEF None
    <2> HIDE DEF a, b
    <2>5. advice'[c] \in Nat \union {None} /\ (advice'[c] # None => a # None)
      BY <2>1, <2>3, <2>4
    <2>6. ASSUME a # None, Len(b) > 0
          PROVE  Older(b)[1] + advice'[c] > Window
      <3>1. 1 \in 1..Len(b) /\ b[1] \in Nat /\ b[1] + a > Window /\ a \in Nat
        BY <2>1, <2>6
      <3>2. Older(b)[1] = IF b[1] <= Window THEN b[1] + 1 ELSE Window + 1
        BY <2>2, <3>1
      <3> QED BY <2>1, <2>3, <3>1, <3>2
    <2> QED BY <2>2, <2>3, <2>5, <2>6
  <1>3. advice' \in [Clients -> Nat \union {None}]
    BY <1>1, <1>2
  <1> QED BY <1>2, <1>3 DEF AdviceInv, Window, None

LEMMA RequestAdvice ==
    ASSUME BucketInv, AdviceInv, NEW c \in Clients, ObservedRequest(c)
    PROVE  AdviceInv' /\ (advice[c] = 0 => answer'.allowed)
  <1> DEFINE b == bucket[c]
             rec == Recent(b)
  <1>1. /\ b \in Seq(Ages) /\ Falling(b) /\ Len(b) <= Allowed /\ Len(b) \in Nat
        /\ advice \in [Clients -> Nat \union {None}] /\ Allowed \in Nat \ {0}
        /\ bucket \in [Clients -> Seq(Ages)] /\ Window \in Nat
    BY LenProperties, Settings DEF BucketInv, AdviceInv
  <1>2. /\ rec \in Seq(Ages) /\ Len(rec) \in Nat /\ Len(rec) <= Len(b)
        /\ \A j \in 1..Len(rec) : rec[j] <= Window /\ rec[j] \in Nat
        /\ \A k \in 0..(Len(rec) - 1) : rec[Len(rec) - k] = b[Len(b) - k]
    <2>1. rec \in Seq(Ages)
      BY <1>1, RecentFacts
    <2>2. \A j \in 1..Len(rec) : rec[j] \in Nat
      BY <2>1, ElementOfSeq, Settings DEF Ages
    <2> QED BY <1>1, <2>1, <2>2, RecentFacts, LenProperties
  <1>3. \/ /\ Len(rec) >= Allowed /\ bucket'[c] = rec
           /\ answer' = Answer(c, FALSE, RetryAfter(rec[1]))
        \/ Len(rec) < Allowed /\ answer' = Answer(c, TRUE, NoRetry)
    BY <1>1 DEF ObservedRequest, Request
  <1>4. advice' = [advice EXCEPT ![c] =
                     IF answer'.allowed THEN None
                     ELSE (answer'.retryAfter + 1) * TicksPerSecond]
    BY DEF ObservedRequest
  <1>5. ASSUME NEW d \in Clients, d # c
        PROVE  bucket'[d] = IF Contains(order', d) THEN bucket[d] ELSE <<>>
    BY <1>1, <1>5 DEF ObservedRequest, Request
  <1> HIDE DEF rec, b
  <1>6. ASSUME Len(rec) >= Allowed
        PROVE  1 \in 1..Len(rec) /\ rec[1] \in 0..Window
    <2>1. 1 \in 1..Len(rec)
      BY <1>1, <1>2, <1>6
    <2> QED BY <1>1, <1>2, <2>1
  <1>7. /\ advice'[c] \in Nat \union {None}
        /\ advice'[c] # None /\ Len(bucket'[c]) > 0 => bucket'[c][1] + advice'[c] > Window
    <2>1. CASE answer' = Answer(c, TRUE, NoRetry)
      <3>1. answer'.allowed
        BY <2>1 DEF Answer
      <3> QED BY <1>1, <1>4, <3>1
    <2>2. CASE /\ Len(rec) >= Allowed /\ bucket'[c] = rec
               /\ answer' = Answer(c, FALSE, RetryAfter(rec[1]))
      <3>1. ~answer'.allowed /\ answer'.retryAfter = RetryAfter(rec[1])
        BY <2>2 DEF Answer
      <3>2. advice'[c] = (RetryAfter(rec[1]) + 1) * TicksPerSecond
        BY <1>1, <1>4, <3>1
      <3>3. /\ (RetryAfter(rec[1]) + 1) * TicksPerSecond \in Nat
            /\ rec[1] + (RetryAfter(rec[1]) + 1) * TicksPerSecond > Window
        BY <1>6, <2>2, AdviceFacts
      <3> QED BY <2>2, <3>2, <3>3
    <2> QED BY <1>3, <2>1, <2>2
  <1>8. ASSUME NEW d \in Clients
        PROVE  /\ advice'[d] \in Nat \union {None}
               /\ advice'[d] # None /\ Len(bucket'[d]) > 0 =>
                     bucket'[d][1] + advice'[d] > Window
    <2>1. CASE d = c
      BY <1>7, <2>1
    <2>2. CASE d # c
      <3>1. advice'[d] = advice[d]
        BY <1>1, <1>4, <2>2
      <3>2. bucket'[d] = bucket[d] \/ bucket'[d] = <<>>
        BY <1>5, <2>2
      <3>3. Len(<<>>) = 0
        OBVIOUS
      <3> QED BY <3>1, <3>2, <3>3 DEF AdviceInv
    <2> QED BY <2>1, <2>2
  <1>9. advice' \in [Clients -> Nat \union {None}]
    BY <1>1, <1>4, <1>8
  <1>10. AdviceInv'
    BY <1>8, <1>9 DEF AdviceInv, Window, None
  <1>11. ASSUME advice[c] = 0, Len(rec) >= Allowed
         PROVE  FALSE
    <2>1. Len(rec) = Len(b) /\ Len(b) > 0
      BY <1>1, <1>2, <1>11
    <2>2. b[1] + 0 > Window
      BY <1>11, <2>1 DEF AdviceInv, None, b
    <2>3. rec[1] = b[1]
      <3>1. Len(rec) - 1 \in 0..(Len(rec) - 1) /\ Len(rec) - (Len(rec) - 1) = 1
        BY <1>2, <2>1
      <3>2. rec[Len(rec) - (Len(rec) - 1)] = b[Len(b) - (Len(rec) - 1)]
        BY <1>2, <3>1
      <3> QED BY <2>1, <3>1, <3>2
    <2> QED BY <1>1, <1>6, <1>11, <2>2, <2>3
  <1>12. advice[c] = 0 => answer'.allowed
    BY <1>3, <1>11 DEF Answer
  <1> QED BY <1>10, <1>12

\* A refused client that stays away for a second longer than Retry-After told it
\* is admitted, whatever the others did meanwhile (lines 48-62 of dispatch).
THEOREM NeverASecondShort == HistorySpec => SecondLaterSuffices
  <1>1. HistoryInit => AdviceInv
    BY AdviceInvInit
  <1>2. LimiterInv /\ AdviceInv /\ [HistoryNext]_vars
           => /\ AdviceInv'
              /\ [\A c \in Clients :
                    advice[c] = 0 /\ ObservedRequest(c) => answer'.allowed]_vars
    <2> SUFFICES ASSUME LimiterInv, AdviceInv, [HistoryNext]_vars
                 PROVE  /\ AdviceInv'
                        /\ \A c \in Clients :
                              advice[c] = 0 /\ ObservedRequest(c) => answer'.allowed
      OBVIOUS
    <2>1. BucketInv
      BY DEF LimiterInv
    <2>2. \A c \in Clients : advice[c] = 0 /\ ObservedRequest(c) => answer'.allowed
      BY <2>1, RequestAdvice
    <2>3. CASE UNCHANGED vars
      <3>1. bucket' = bucket /\ advice' = advice
        BY <2>3 DEF vars, limiterVars, historyVars
      <3> QED BY <2>2, <3>1 DEF AdviceInv, Window, None
    <2>4. CASE ObservedTick
      BY <2>1, <2>2, <2>4, TickAdvice
    <2>5. CASE \E c \in Clients : ObservedRequest(c)
      BY <2>1, <2>2, <2>5, RequestAdvice
    <2> QED BY <2>3, <2>4, <2>5 DEF HistoryNext
  <1> QED BY <1>1, <1>2, LimiterAlways, PTL DEF HistorySpec, SecondLaterSuffices

=============================================================================
