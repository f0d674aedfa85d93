------------------------ MODULE RateAdmission_proofs ------------------------
(***************************************************************************)
(* For every set of tokens, every pair of limits and spans and every run   *)
(* of the clock: the deques of admit enforce a true sliding window, and a  *)
(* refused request was refused for requests really admitted.               *)
(***************************************************************************)
EXTENDS RateAdmission, FiniteSetTheorems, SequenceTheorems,
        WellFoundedInduction, TLAPS

\* The history is in clock order and never ahead of the clock.
Sorted(times) == \A i, j \in DOMAIN times : i <= j => times[i] <= times[j]
Past(times, t) == \A i \in DOMAIN times : times[i] <= t

HistoryInOrder ==
  /\ \A l \in Label : Sorted(granted[l]) /\ Past(granted[l], now)
  /\ \A l \in Label : verdict[l].at <= now

\* The inductive invariant.  The rates do not follow from themselves: a grant
\* looks at the deques only, so what ties the deques to the whole history
\* (DequesHoldHistory), and the order of that history, must be carried along.
IInv ==
  /\ TypeOK
  /\ HistoryInOrder
  /\ DequesHoldHistory
  /\ MinuteRate
  /\ DayRate
  /\ RefusalDeserved

LEMMA MinNat ==
  ASSUME NEW S \in SUBSET Nat, S # {}
  PROVE  Min(S) \in S /\ \A y \in S : Min(S) <= y
<1> DEFINE Less == {p \in Nat \X Nat : p[1] < p[2]}
<1>1. OpToRel(<, Nat) = Less
  BY Zenon DEF OpToRel
<1>2. IsWellFoundedOn(Less, Nat)
  BY <1>1, NatLessThanWellFounded, Zenon
<1>a. \A a, b \in Nat : a < b => <<a, b>> \in Less
  <2> SUFFICES ASSUME NEW a \in Nat, NEW b \in Nat, a < b
               PROVE  <<a, b>> \in Less
    OBVIOUS
  <2>1. <<a, b>> \in Nat \X Nat /\ <<a, b>>[1] = a /\ <<a, b>>[2] = b
    OBVIOUS
  <2> QED
    BY <2>1
<1> HIDE DEF Less
<1>3. PICK x \in S : \A y \in S : ~ (<<y, x>> \in Less)
  BY <1>2, WFMin
<1>4. \A y \in S : x <= y
  <2> SUFFICES ASSUME NEW y \in S PROVE x <= y
    OBVIOUS
  <2>1. x \in Nat /\ y \in Nat
    OBVIOUS
  <2>2. y < x => <<y, x>> \in Less
    BY <2>1, <1>a
  <2>3. ~ (<<y, x>> \in Less)
    BY <1>3
  <2>4. ~ (y < x)
    BY <2>2, <2>3
  <2> QED
    BY <2>1, <2>4
<1> QED
  BY <1>4 DEF Min

LEMMA SuffixFacts ==
  ASSUME NEW w \in Seq(Nat), NEW m \in 1..Len(w)
  PROVE  LET v == SubSeq(w, m, Len(w))
         IN  /\ v \in Seq(Nat)
             /\ Len(v) = Len(w) - m + 1
             /\ \A i \in 1..Len(v) : v[i] = w[m + i - 1]
  OBVIOUS

\* What pruning returns: the tail of the history that starts at its first entry
\* newer than the cutoff.
LEMMA PruneIsTail ==
  ASSUME NEW times \in Seq(Nat), NEW w \in Seq(Nat),
         NEW c0 \in Int, NEW c \in Int,
         c0 <= c, Sorted(times), TailOf(w, times, c0)
  PROVE  /\ Prune(w, c) \in Seq(Nat)
         /\ \E k \in 0..Len(times) :
              /\ Len(Prune(w, c)) = Len(times) - k
              /\ \A i \in 1..Len(Prune(w, c)) : Prune(w, c)[i] = times[k + i]
              /\ \A i \in 1..k : times[i] <= c
              /\ \A i \in (k+1)..Len(times) : times[i] > c
<1> DEFINE n == Len(times)
           fresh == {i \in DOMAIN w : w[i] > c}
<1>0. /\ n \in Nat /\ DOMAIN times = 1..n /\ \A i \in 1..n : times[i] \in Nat
      /\ DOMAIN w = 1..Len(w)
  OBVIOUS
<1>1. PICK k0 \in 0..n : /\ Len(w) = n - k0
                         /\ \A i \in 1..Len(w) : w[i] = times[k0 + i]
                         /\ \A i \in 1..k0 : times[i] <= c0
  BY <1>0 DEF TailOf
<1> HIDE DEF n, fresh
<1>3. CASE fresh = {}
  <2>1. Prune(w, c) = <<>>
    BY <1>3 DEF Prune, fresh
  <2>2. \A i \in 1..n : times[i] <= c
    <3> SUFFICES ASSUME NEW i \in 1..n PROVE times[i] <= c
      OBVIOUS
    <3>1. CASE i <= k0
      BY <3>1, <1>0, <1>1
    <3>2. CASE i > k0
      <4>1. i - k0 \in DOMAIN w /\ w[i - k0] = times[i]
        BY <3>2, <1>0, <1>1
      <4>2. ~ (w[i - k0] > c)
        BY <4>1, <1>3 DEF fresh
      <4> QED
        BY <4>1, <4>2, <1>0
    <3> QED
      BY <3>1, <3>2, <1>0
  <2>3. Len(Prune(w, c)) = n - n /\ Prune(w, c) \in Seq(Nat)
    BY <2>1, <1>0
  <2>4. \A i \in (n+1)..n : times[i] > c
    BY <1>0
  <2>5. \A i \in 1..Len(Prune(w, c)) : Prune(w, c)[i] = times[n + i]
    BY <2>3, <1>0
  <2>6. n \in 0..n
    BY <1>0
  <2> HIDE DEF n
  <2>7. \E k \in 0..n :
          /\ Len(Prune(w, c)) = n - k
          /\ \A i \in 1..Len(Prune(w, c)) : Prune(w, c)[i] = times[k + i]
          /\ \A i \in 1..k : times[i] <= c
          /\ \A i \in (k+1)..n : times[i] > c
    <3> WITNESS n \in 0..n
    <3> QED
      BY <2>2, <2>3, <2>4, <2>5
  <2> QED
    BY <2>3, <2>7 DEF n
<1>4. CASE fresh # {}
  <2> DEFINE m == Min(fresh)
             k == k0 + m - 1
  <2>1. fresh \in SUBSET Nat
    BY <1>0 DEF fresh
  <2>2. m \in fresh /\ \A y \in fresh : m <= y
    BY <2>1, <1>4, MinNat
  <2>3. m \in 1..Len(w) /\ w[m] > c
    BY <2>2, <1>0 DEF fresh
  <2>4. Prune(w, c) = SubSeq(w, m, Len(w))
    BY <1>4 DEF Prune, fresh
  <2> HIDE DEF m
  <2>5. /\ Prune(w, c) \in Seq(Nat)
        /\ Len(Prune(w, c)) = Len(w) - m + 1
        /\ \A i \in 1..Len(Prune(w, c)) : Prune(w, c)[i] = w[m + i - 1]
    BY <2>3, <2>4, SuffixFacts, SMTT(20)
  <2>6. k \in 0..n /\ Len(Prune(w, c)) = n - k
    BY <2>3, <2>5, <1>0, <1>1
  <2>7. \A i \in 1..Len(Prune(w, c)) : Prune(w, c)[i] = times[k + i]
    <3> SUFFICES ASSUME NEW i \in 1..Len(Prune(w, c))
                 PROVE  Prune(w, c)[i] = times[k + i]
      OBVIOUS
    <3>1. m + i - 1 \in 1..Len(w) /\ k0 + (m + i - 1) = k + i
      BY <2>3, <2>6, <2>5, <1>0
    <3> QED
      BY <3>1, <2>5, <1>1
  <2>8. \A i \in 1..k : times[i] <= c
    <3> SUFFICES ASSUME NEW i \in 1..k PROVE times[i] <= c
      OBVIOUS
    <3>1. CASE i <= k0
      BY <3>1, <2>6, <1>0, <1>1
    <3>2. CASE i > k0
      <4>1. i - k0 \in 1..Len(w) /\ w[i - k0] = times[i] /\ i - k0 < m
        BY <3>2, <2>3, <2>6, <1>0, <1>1
      <4>2. i - k0 \notin fresh
        BY <4>1, <2>1, <2>2, <2>3, <1>0
      <4>3. times[i] \in Nat
        BY <2>6, <1>0
      <4> QED
        BY <4>1, <4>2, <4>3, <1>0 DEF fresh
    <3> QED
      BY <3>1, <3>2, <2>6, <1>0
  <2>9. \A i \in (k+1)..n : times[i] > c
    <3> SUFFICES ASSUME NEW i \in (k+1)..n PROVE times[i] > c
      OBVIOUS
    <3>1. k0 + m \in 1..n /\ i \in 1..n /\ k0 + m <= i
      BY <2>3, <1>0, <1>1
    <3>2. times[k0 + m] > c
      BY <2>3, <1>1
    <3>3. times[k0 + m] <= times[i]
      BY <3>1, <1>0 DEF Sorted
    <3> QED
      BY <3>1, <3>2, <3>3, <1>0
  <2> HIDE DEF k
  <2> QED
    BY <2>5, <2>6, <2>7, <2>8, <2>9 DEF n
<1> QED
  BY <1>3, <1>4

\* A grant appends the same stamp to the history and to what pruning left.
LEMMA GrantKeepsTail ==
  ASSUME NEW times \in Seq(Nat), NEW w \in Seq(Nat),
         NEW c0 \in Int, NEW c \in Int, NEW t \in Nat,
         c0 <= c, Sorted(times), TailOf(w, times, c0)
  PROVE  TailOf(Append(Prune(w, c), t), Append(times, t), c)
<1> DEFINE n == Len(times)
           v == Prune(w, c)
           v2 == Append(v, t)
           times2 == Append(times, t)
<1>1. v \in Seq(Nat)
  BY PruneIsTail
<1>2. PICK k \in 0..n : /\ Len(v) = n - k
                        /\ \A i \in 1..Len(v) : v[i] = times[k + i]
                        /\ \A i \in 1..k : times[i] <= c
  BY PruneIsTail
<1>3. /\ Len(v2) = Len(v) + 1 /\ DOMAIN v2 = 1..(Len(v) + 1)
      /\ \A i \in 1..(Len(v) + 1) : v2[i] = IF i <= Len(v) THEN v[i] ELSE t
  BY <1>1
<1>4. /\ Len(times2) = n + 1 /\ n \in Nat
      /\ \A i \in 1..(n + 1) : times2[i] = IF i <= n THEN times[i] ELSE t
  OBVIOUS
<1> HIDE DEF n, v, v2, times2
<1>5. \A i \in 1..(Len(v) + 1) : v2[i] = times2[k + i]
  <2> SUFFICES ASSUME NEW i \in 1..(Len(v) + 1) PROVE v2[i] = times2[k + i]
    OBVIOUS
  <2>1. k + i \in 1..(n + 1) /\ (i <= Len(v) <=> k + i <= n)
    BY <1>2, <1>4
  <2>2. i <= Len(v) => v[i] = times[k + i]
    BY <1>2, <1>4
  <2> QED
    BY <2>1, <2>2, <1>3, <1>4
<1>6. \A i \in 1..k : times2[i] <= c
  BY <1>2, <1>4
<1>7. k \in 0..Len(times2) /\ Len(v2) = Len(times2) - k
  BY <1>2, <1>3, <1>4
<1>8. TailOf(v2, times2, c)
  BY <1>3, <1>5, <1>6, <1>7 DEF TailOf
<1> QED
  BY <1>8 DEF v, v2, times2

\* ... and a refusal leaves a tail as well.
LEMMA PruneKeepsTail ==
  ASSUME NEW times \in Seq(Nat), NEW w \in Seq(Nat),
         NEW c0 \in Int, NEW c \in Int,
         c0 <= c, Sorted(times), TailOf(w, times, c0)
  PROVE  TailOf(Prune(w, c), times, c)
<1> DEFINE v == Prune(w, c)
<1>1. v \in Seq(Nat) /\ DOMAIN v = 1..Len(v)
  BY PruneIsTail
<1>2. PICK k \in 0..Len(times) : /\ Len(v) = Len(times) - k
                                 /\ \A i \in 1..Len(v) : v[i] = times[k + i]
                                 /\ \A i \in 1..k : times[i] <= c
  BY PruneIsTail
<1> HIDE DEF v
<1>3. TailOf(v, times, c)
  BY <1>1, <1>2 DEF TailOf
<1> QED
  BY <1>3 DEF v

\* An entry that is in place stays in place as the cutoff moves on.
LEMMA LaterTail ==
  ASSUME NEW times \in Seq(Nat), NEW w, NEW c0 \in Int, NEW c \in Int,
         c0 <= c, TailOf(w, times, c0)
  PROVE  TailOf(w, times, c)
<1>1. PICK k \in 0..Len(times) :
        /\ Len(w) = Len(times) - k
        /\ \A i \in DOMAIN w : w[i] = times[k + i]
        /\ \A i \in 1..k : times[i] <= c0
  BY DEF TailOf
<1>2. \A i \in 1..k : times[i] <= c
  BY <1>1
<1> QED
  BY <1>1, <1>2 DEF TailOf

\* The heart of the sliding window: when fewer than limit entries of an ordered
\* history are fresh, one more admission keeps the rate.
LEMMA GrantKeepsSpacing ==
  ASSUME NEW times \in Seq(Nat), NEW w \in Seq(Nat),
         NEW span \in Nat, NEW limit \in Nat \ {0}, NEW t \in Nat, NEW c0 \in Int,
         c0 <= t - span, Sorted(times), TailOf(w, times, c0),
         Len(Prune(w, t - span)) < limit,
         Spaced(times, limit, span)
  PROVE  Spaced(Append(times, t), limit, span)
<1> DEFINE n == Len(times)
           v == Prune(w, t - span)
           times2 == Append(times, t)
<1>0. t - span \in Int
  OBVIOUS
<1>1. PICK k \in 0..n : Len(v) = n - k /\ \A i \in 1..k : times[i] <= t - span
  BY <1>0, PruneIsTail
<1>2. /\ Len(times2) = n + 1 /\ n \in Nat
      /\ DOMAIN times2 = 1..(n + 1) /\ DOMAIN times = 1..n
      /\ \A i \in 1..(n + 1) : times2[i] = IF i <= n THEN times[i] ELSE t
      /\ \A i \in 1..n : times[i] \in Nat
  OBVIOUS
<1>2a. n - k < limit
  BY <1>1
<1> HIDE DEF n, v, times2
<1>3. SUFFICES ASSUME NEW i \in 1..(n + 1), i + limit \in 1..(n + 1)
               PROVE  times2[i + limit] - times2[i] >= span
  BY <1>2 DEF Spaced, times2
<1>4. CASE i + limit <= n
  <2>1. i \in 1..n /\ i + limit \in 1..n
    BY <1>4, <1>2, <1>3
  <2>2. times[i + limit] - times[i] >= span
    BY <2>1, <1>2 DEF Spaced
  <2> QED
    BY <2>1, <2>2, <1>2
<1>5. CASE i + limit = n + 1
  <2>1. i \in 1..k /\ i <= n
    BY <1>5, <1>2a, <1>2, <1>1
  <2>2. times2[i] = times[i] /\ times2[i + limit] = t
    BY <2>1, <1>5, <1>2, <1>3
  <2>3. times[i] <= t - span /\ times[i] \in Nat
    BY <2>1, <1>1, <1>2
  <2> QED
    BY <2>2, <2>3
<1> QED
  BY <1>4, <1>5, <1>3, <1>2

\* Counting: entries newer than the cutoff and not ahead of the clock.
Within(times, from, to) == {i \in DOMAIN times : from < times[i] /\ times[i] <= to}

LEMMA WithinFinite ==
  ASSUME NEW times \in Seq(Nat), NEW from, NEW to
  PROVE  IsFiniteSet(Within(times, from, to))
<1>1. IsFiniteSet(1..Len(times)) /\ DOMAIN times = 1..Len(times)
  BY FS_Interval
<1>2. Within(times, from, to) \in SUBSET (1..Len(times))
  BY <1>1 DEF Within
<1> QED
  BY <1>1, <1>2, FS_Subset

\* A deque that is still full after pruning proves that many recent admissions.
LEMMA FullMeansUsed ==
  ASSUME NEW times \in Seq(Nat), NEW w \in Seq(Nat),
         NEW span \in Nat, NEW limit \in Nat, NEW t \in Nat,
         Sorted(times), Past(times, t), TailOf(w, times, t - span),
         Len(Prune(w, t - span)) >= limit
  PROVE  Cardinality(Within(times, t - span, t)) >= limit
<1> DEFINE n == Len(times)
           recent == Within(times, t - span, t)
<1>0. t - span \in Int /\ t - span <= t - span
  OBVIOUS
<1>1. PICK k \in 0..n : /\ Len(Prune(w, t - span)) = n - k
                        /\ \A i \in (k+1)..n : times[i] > t - span
  BY <1>0, PruneIsTail
<1>2. n \in Nat /\ DOMAIN times = 1..n /\ \A i \in 1..n : times[i] \in Nat
  OBVIOUS
<1>3. (k+1)..n \in SUBSET recent
  BY <1>1, <1>2 DEF Within, Past
<1>4. IsFiniteSet(recent)
  BY WithinFinite
<1> HIDE DEF n, recent
<1>5. Cardinality((k+1)..n) = n - k
  <2>1. k + 1 \in Int /\ n \in Int
    BY <1>2
  <2>2. Cardinality((k+1)..n) = IF k + 1 > n THEN 0 ELSE n - (k + 1) + 1
    BY <2>1, FS_Interval
  <2> QED
    BY <2>2, <1>2
<1>6. Cardinality((k+1)..n) <= Cardinality(recent)
  BY <1>3, <1>4, FS_Subset
<1>7. Cardinality(recent) \in Nat
  BY <1>4, FS_CardinalityType
<1>8. Cardinality(recent) >= limit
  BY <1>1, <1>2, <1>5, <1>6, <1>7
<1> QED
  BY <1>8 DEF recent

LEMMA InitIInv == Init => IInv
<1> SUFFICES ASSUME Init PROVE IInv
  OBVIOUS
<1>1. \A l \in Label : granted[l] = <<>> /\ minute[l] = <<>> /\ day[l] = <<>>
  BY DEF Init
<1>2. TypeOK
  BY DEF Init, TypeOK, Reason
<1>3. HistoryInOrder
  BY <1>1 DEF Init, HistoryInOrder, Sorted, Past
<1>4. DequesHoldHistory
  <2>1. \A c : TailOf(<<>>, <<>>, c)
    BY DEF TailOf
  <2> QED
    BY <1>1, <2>1 DEF DequesHoldHistory
<1>5. MinuteRate /\ DayRate
  BY <1>1 DEF MinuteRate, DayRate, Spaced
<1>6. RefusalDeserved
  BY DEF Init, RefusalDeserved
<1> QED
  BY <1>2, <1>3, <1>4, <1>5, <1>6 DEF IInv

LEMMA AppendInOrder ==
  ASSUME NEW times \in Seq(Nat), NEW t \in Nat, Sorted(times), Past(times, t)
  PROVE  Sorted(Append(times, t)) /\ Past(Append(times, t), t)
<1> DEFINE n == Len(times)
           times2 == Append(times, t)
<1>1. /\ n \in Nat /\ DOMAIN times = 1..n /\ DOMAIN times2 = 1..(n + 1)
      /\ \A i \in 1..(n + 1) : times2[i] = IF i <= n THEN times[i] ELSE t
      /\ \A i \in 1..n : times[i] \in Nat /\ times[i] <= t
  BY DEF Past
<1> HIDE DEF n, times2
<1>2. \A i \in 1..(n + 1) : times2[i] <= t
  BY <1>1
<1>3. ASSUME NEW i \in 1..(n + 1), NEW j \in 1..(n + 1), i <= j
      PROVE  times2[i] <= times2[j]
  <2>1. CASE j <= n
    <3>1. i \in 1..n /\ j \in 1..n
      BY <2>1, <1>1, <1>3
    <3>2. times[i] <= times[j]
      BY <3>1, <1>1, <1>3 DEF Sorted
    <3> QED
      BY <3>1, <3>2, <1>1
  <2>2. CASE j = n + 1
    BY <2>2, <1>1, <1>2
  <2> QED
    BY <2>1, <2>2, <1>1
<1>4. Sorted(times2) /\ Past(times2, t)
  BY <1>1, <1>2, <1>3 DEF Sorted, Past
<1> QED
  BY <1>4 DEF times2

\* What the invariant says of one label, in the form the lemmas above ask for.
LEMMA OfLabel ==
  ASSUME IInv, NEW l \in Label
  PROVE  /\ granted[l] \in Seq(Nat) /\ minute[l] \in Seq(Nat) /\ day[l] \in Seq(Nat)
         /\ Sorted(granted[l]) /\ Past(granted[l], now) /\ now \in Nat
         /\ now - MinuteSpan \in Int /\ now - DaySpan \in Int
         /\ TailOf(minute[l], granted[l], now - MinuteSpan)
         /\ TailOf(day[l], granted[l], now - DaySpan)
         /\ FreshMinute(l) \in Seq(Nat) /\ FreshDay(l) \in Seq(Nat)
<1>1. /\ granted[l] \in Seq(Nat) /\ minute[l] \in Seq(Nat) /\ day[l] \in Seq(Nat)
      /\ Sorted(granted[l]) /\ Past(granted[l], now) /\ now \in Nat
      /\ now - MinuteSpan \in Int /\ now - DaySpan \in Int
      /\ TailOf(minute[l], granted[l], now - MinuteSpan)
      /\ TailOf(day[l], granted[l], now - DaySpan)
  BY LimitsAssumption DEF IInv, TypeOK, HistoryInOrder, DequesHoldHistory
<1>2. Prune(minute[l], now - MinuteSpan) \in Seq(Nat)
  BY <1>1, PruneIsTail, SMTT(30)
<1>3. Prune(day[l], now - DaySpan) \in Seq(Nat)
  BY <1>1, PruneIsTail
<1> QED
  BY <1>1, <1>2, <1>3 DEF FreshMinute, FreshDay

LEMMA TickIInv == IInv /\ Tick => IInv'
<1> SUFFICES ASSUME IInv, Tick PROVE IInv'
  OBVIOUS
<1>0. now \in Nat /\ now' = now + 1 /\ UNCHANGED <<minute, day, granted, verdict>>
  BY DEF IInv, TypeOK, Tick
<1>1. TypeOK'
  BY <1>0 DEF IInv, TypeOK
<1>2. HistoryInOrder'
  <2>1. \A l \in Label : Past(granted[l], now)'
    <3> SUFFICES ASSUME NEW l \in Label, NEW i \in DOMAIN granted[l]
                 PROVE  granted[l][i] <= now + 1
      BY <1>0 DEF Past
    <3>1. granted[l][i] <= now /\ granted[l][i] \in Nat
      BY OfLabel DEF Past
    <3> QED
      BY <3>1, <1>0
  <2>2. \A l \in Label : verdict[l].at <= now + 1
    BY <1>0 DEF IInv, HistoryInOrder, TypeOK
  <2> QED
    BY <2>1, <2>2, <1>0 DEF IInv, HistoryInOrder
<1>3. DequesHoldHistory'
  <2> SUFFICES ASSUME NEW l \in Label
               PROVE  /\ TailOf(minute'[l], granted'[l], now' - MinuteSpan)
                      /\ TailOf(day'[l], granted'[l], now' - DaySpan)
    BY DEF DequesHoldHistory
  <2>1. /\ now - MinuteSpan <= now' - MinuteSpan /\ now' - MinuteSpan \in Int
        /\ now - DaySpan <= now' - DaySpan /\ now' - DaySpan \in Int
    BY <1>0, LimitsAssumption
  <2>2. TailOf(minute[l], granted[l], now' - MinuteSpan)
    BY <2>1, OfLabel, LaterTail
  <2>3. TailOf(day[l], granted[l], now' - DaySpan)
    BY <2>1, OfLabel, LaterTail
  <2>4. minute' = minute /\ granted' = granted /\ day' = day
    BY <1>0
  <2> QED
    BY <2>2, <2>3, <2>4
<1>4. MinuteRate' /\ DayRate' /\ RefusalDeserved'
  BY <1>0 DEF IInv, MinuteRate, DayRate, RefusalDeserved, GrantsIn
<1> QED
  BY <1>1, <1>2, <1>3, <1>4 DEF IInv

LEMMA GrantIInv ==
  ASSUME IInv, NEW l \in Label, Grant(l)
  PROVE  IInv'
<1> DEFINE g2 == Append(granted[l], now)
           m2 == Append(FreshMinute(l), now)
           d2 == Append(FreshDay(l), now)
<1>1. /\ granted' = [granted EXCEPT ![l] = g2]
      /\ minute' = [minute EXCEPT ![l] = m2]
      /\ day' = [day EXCEPT ![l] = d2]
      /\ verdict' = [verdict EXCEPT ![l] = [reason |-> "ok", at |-> now]]
      /\ now' = now
      /\ Len(FreshMinute(l)) < PerMin /\ Len(FreshDay(l)) < PerDay
  BY DEF Grant, Answer
<1>2. /\ granted \in [Label -> Seq(Nat)] /\ minute \in [Label -> Seq(Nat)]
      /\ day \in [Label -> Seq(Nat)] /\ verdict \in [Label -> [reason : Reason, at : Nat]]
  BY DEF IInv, TypeOK
<1>3. /\ g2 \in Seq(Nat) /\ m2 \in Seq(Nat) /\ d2 \in Seq(Nat)
      /\ Sorted(g2) /\ Past(g2, now)
  BY OfLabel, AppendInOrder
<1>4. TailOf(m2, g2, now - MinuteSpan)
  BY OfLabel, GrantKeepsTail DEF FreshMinute
<1>5. TailOf(d2, g2, now - DaySpan)
  BY OfLabel, GrantKeepsTail DEF FreshDay
<1>6. Spaced(g2, PerMin, MinuteSpan)
  <2>1. Len(Prune(minute[l], now - MinuteSpan)) < PerMin
    BY <1>1 DEF FreshMinute
  <2>2. Spaced(granted[l], PerMin, MinuteSpan) /\ MinuteSpan \in Nat /\ PerMin \in Nat \ {0}
    BY LimitsAssumption DEF IInv, MinuteRate
  <2> QED
    BY <2>1, <2>2, OfLabel, GrantKeepsSpacing, SMTT(20)
<1>7. Spaced(g2, PerDay, DaySpan)
  <2>1. Len(Prune(day[l], now - DaySpan)) < PerDay
    BY <1>1 DEF FreshDay
  <2>2. Spaced(granted[l], PerDay, DaySpan) /\ DaySpan \in Nat /\ PerDay \in Nat \ {0}
    BY LimitsAssumption DEF IInv, DayRate
  <2> QED
    BY <2>1, <2>2, OfLabel, GrantKeepsSpacing, SMTT(20)
<1> HIDE DEF g2, m2, d2
<1>8. \A k \in Label : granted'[k] = IF k = l THEN g2 ELSE granted[k]
  BY <1>1, <1>2
<1>9. \A k \in Label : minute'[k] = IF k = l THEN m2 ELSE minute[k]
  BY <1>1, <1>2
<1>10. \A k \in Label : day'[k] = IF k = l THEN d2 ELSE day[k]
  BY <1>1, <1>2
<1>11. TypeOK'
  BY <1>1, <1>2, <1>3 DEF IInv, TypeOK, Reason
<1>12. HistoryInOrder'
  <2>1. \A k \in Label : Sorted(granted'[k]) /\ Past(granted'[k], now)
    BY <1>3, <1>8 DEF IInv, HistoryInOrder
  <2>2. \A k \in Label : verdict'[k].at <= now
    BY <1>1, <1>2, OfLabel DEF IInv, HistoryInOrder
  <2> QED
    BY <2>1, <2>2, <1>1 DEF HistoryInOrder
<1>13. DequesHoldHistory'
  <2> SUFFICES ASSUME NEW k \in Label
               PROVE  /\ TailOf(minute'[k], granted'[k], now' - MinuteSpan)
                      /\ TailOf(day'[k], granted'[k], now' - DaySpan)
    BY DEF DequesHoldHistory
  <2>1. CASE k = l
    BY <2>1, <1>1, <1>4, <1>5, <1>8, <1>9, <1>10
  <2>2. CASE k # l
    BY <2>2, <1>1, <1>8, <1>9, <1>10 DEF IInv, DequesHoldHistory
  <2> QED
    BY <2>1, <2>2
<1>14. MinuteRate'
  BY <1>6, <1>8 DEF IInv, MinuteRate
<1>15. DayRate'
  BY <1>7, <1>8 DEF IInv, DayRate
<1>16. RefusalDeserved'
  <2> SUFFICES ASSUME NEW k \in Label
               PROVE  LET v == verdict'[k]
                      IN  /\ v.reason = "per_min" => Cardinality(
                               Within(granted'[k], v.at - MinuteSpan, v.at)) >= PerMin
                          /\ v.reason = "per_day" => Cardinality(
                               Within(granted'[k], v.at - DaySpan, v.at)) >= PerDay
    BY DEF RefusalDeserved, GrantsIn, Within
  <2>1. CASE k = l
    BY <2>1, <1>1, <1>2
  <2>2. CASE k # l
    BY <2>2, <1>1, <1>2, <1>8 DEF IInv, RefusalDeserved, GrantsIn, Within
  <2> QED
    BY <2>1, <2>2
<1> QED
  BY <1>11, <1>12, <1>13, <1>14, <1>15, <1>16 DEF IInv

\* A refusal keeps every part of the invariant but the one about refusals.
LEMMA KeepPrunedIInv ==
  ASSUME IInv, NEW l \in Label, KeepPruned(l),
         NEW reason \in Reason, Answer(l, reason), RefusalDeserved'
  PROVE  IInv'
<1>1. /\ minute' = [minute EXCEPT ![l] = FreshMinute(l)]
      /\ day' = [day EXCEPT ![l] = FreshDay(l)]
      /\ verdict' = [verdict EXCEPT ![l] = [reason |-> reason, at |-> now]]
      /\ now' = now /\ granted' = granted
  BY DEF KeepPruned, Answer
<1>2. /\ minute \in [Label -> Seq(Nat)] /\ day \in [Label -> Seq(Nat)]
      /\ verdict \in [Label -> [reason : Reason, at : Nat]]
  BY DEF IInv, TypeOK
<1>3. TypeOK'
  BY <1>1, <1>2, OfLabel DEF IInv, TypeOK
<1>4. HistoryInOrder'
  <2>1. \A k \in Label : verdict'[k].at <= now
    BY <1>1, <1>2, OfLabel DEF IInv, HistoryInOrder
  <2> QED
    BY <2>1, <1>1 DEF IInv, HistoryInOrder
<1>5. TailOf(FreshMinute(l), granted[l], now - MinuteSpan)
  BY OfLabel, PruneKeepsTail DEF FreshMinute
<1>6. TailOf(FreshDay(l), granted[l], now - DaySpan)
  BY OfLabel, PruneKeepsTail DEF FreshDay
<1>7. DequesHoldHistory'
  <2> SUFFICES ASSUME NEW k \in Label
               PROVE  /\ TailOf(minute'[k], granted'[k], now' - MinuteSpan)
                      /\ TailOf(day'[k], granted'[k], now' - DaySpan)
    BY DEF DequesHoldHistory
  <2>1. CASE k = l
    BY <2>1, <1>1, <1>2, <1>5, <1>6
  <2>2. CASE k # l
    BY <2>2, <1>1, <1>2 DEF IInv, DequesHoldHistory
  <2> QED
    BY <2>1, <2>2
<1>8. MinuteRate' /\ DayRate'
  BY <1>1 DEF IInv, MinuteRate, DayRate
<1> QED
  BY <1>3, <1>4, <1>7, <1>8 DEF IInv

LEMMA DenyPerMinIInv ==
  ASSUME IInv, NEW l \in Label, DenyPerMin(l)
  PROVE  IInv'
<1>1. /\ verdict' = [verdict EXCEPT ![l] = [reason |-> "per_min", at |-> now]]
      /\ granted' = granted
      /\ Len(Prune(minute[l], now - MinuteSpan)) >= PerMin
  BY DEF DenyPerMin, KeepPruned, Answer, FreshMinute
<1>2. verdict \in [Label -> [reason : Reason, at : Nat]]
  BY DEF IInv, TypeOK
<1>3. Cardinality(Within(granted[l], now - MinuteSpan, now)) >= PerMin
  <2>1. MinuteSpan \in Nat /\ PerMin \in Nat
    BY LimitsAssumption
  <2> QED
    BY <1>1, <2>1, OfLabel, FullMeansUsed
<1>4. RefusalDeserved'
  <2> SUFFICES ASSUME NEW k \in Label
               PROVE  LET v == verdict'[k]
                      IN  /\ v.reason = "per_min" => Cardinality(
                               Within(granted'[k], v.at - MinuteSpan, v.at)) >= PerMin
                          /\ v.reason = "per_day" => Cardinality(
                               Within(granted'[k], v.at - DaySpan, v.at)) >= PerDay
    BY DEF RefusalDeserved, GrantsIn, Within
  <2>1. CASE k = l
    BY <2>1, <1>1, <1>2, <1>3
  <2>2. CASE k # l
    BY <2>2, <1>1, <1>2 DEF IInv, RefusalDeserved, GrantsIn, Within
  <2> QED
    BY <2>1, <2>2
<1>5. KeepPruned(l) /\ Answer(l, "per_min") /\ "per_min" \in Reason
  BY DEF DenyPerMin, Reason
<1> QED
  BY <1>4, <1>5, KeepPrunedIInv

LEMMA DenyPerDayIInv ==
  ASSUME IInv, NEW l \in Label, DenyPerDay(l)
  PROVE  IInv'
<1>1. /\ verdict' = [verdict EXCEPT ![l] = [reason |-> "per_day", at |-> now]]
      /\ granted' = granted
      /\ Len(Prune(day[l], now - DaySpan)) >= PerDay
  BY DEF DenyPerDay, KeepPruned, Answer, FreshDay
<1>2. verdict \in [Label -> [reason : Reason, at : Nat]]
  BY DEF IInv, TypeOK
<1>3. Cardinality(Within(granted[l], now - DaySpan, now)) >= PerDay
  <2>1. DaySpan \in Nat /\ PerDay \in Nat
    BY LimitsAssumption
  <2> QED
    BY <1>1, <2>1, OfLabel, FullMeansUsed
<1>4. RefusalDeserved'
  <2> SUFFICES ASSUME NEW k \in Label
               PROVE  LET v == verdict'[k]
                      IN  /\ v.reason = "per_min" => Cardinality(
                               Within(granted'[k], v.at - MinuteSpan, v.at)) >= PerMin
                          /\ v.reason = "per_day" => Cardinality(
                               Within(granted'[k], v.at - DaySpan, v.at)) >= PerDay
    BY DEF RefusalDeserved, GrantsIn, Within
  <2>1. CASE k = l
    BY <2>1, <1>1, <1>2, <1>3
  <2>2. CASE k # l
    BY <2>2, <1>1, <1>2 DEF IInv, RefusalDeserved, GrantsIn, Within
  <2> QED
    BY <2>1, <2>2
<1>5. KeepPruned(l) /\ Answer(l, "per_day") /\ "per_day" \in Reason
  BY DEF DenyPerDay, Reason
<1> QED
  BY <1>4, <1>5, KeepPrunedIInv

LEMMA NextIInv == IInv /\ [Next]_vars => IInv'
<1> SUFFICES ASSUME IInv, [Next]_vars PROVE IInv'
  OBVIOUS
<1>1. CASE UNCHANGED vars
  BY <1>1 DEF vars, IInv, TypeOK, HistoryInOrder, DequesHoldHistory, MinuteRate,
              DayRate, RefusalDeserved, GrantsIn
<1> QED
  BY <1>1, TickIInv, GrantIInv, DenyPerMinIInv, DenyPerDayIInv DEF Next

LEMMA Inductive == Spec => []IInv
  BY InitIInv, NextIInv, PTL DEF Spec

\* The deques and the history hold clock readings throughout.
THEOREM AdmissionTypes == Spec => []TypeOK
<1>1. IInv => TypeOK
  BY DEF IInv
<1> QED
  BY <1>1, Inductive, PTL

\* The sliding window per minute: any PerMin + 1 consecutive admissions of a
\* token take at least MinuteSpan, for every limit and span.
THEOREM MinuteWindow == Spec => []MinuteRate
<1>1. IInv => MinuteRate
  BY DEF IInv
<1> QED
  BY <1>1, Inductive, PTL

\* The same for the daily quota.
THEOREM DayWindow == Spec => []DayRate
<1>1. IInv => DayRate
  BY DEF IInv
<1> QED
  BY <1>1, Inductive, PTL

\* Pruning forgets exactly what no longer counts.
THEOREM DequesExact == Spec => []DequesHoldHistory
<1>1. IInv => DequesHoldHistory
  BY DEF IInv
<1> QED
  BY <1>1, Inductive, PTL

\* A token is refused only for requests of its own that really were admitted
\* within the span.
THEOREM RefusalsDeserved == Spec => []RefusalDeserved
<1>1. IInv => RefusalDeserved
  BY DEF IInv
<1> QED
  BY <1>1, Inductive, PTL
=============================================================================
