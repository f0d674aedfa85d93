-------------------------- MODULE SearchSweep_proofs ------------------------
(***************************************************************************)
(* For any nodes, rows, orders, page sizes and limits, and whichever node  *)
(* serves which page: a sweep costs no more fetches than it may, marks as  *)
(* truncated only what lacks rows, and is complete when the nodes agree.   *)
(***************************************************************************)
EXTENDS SearchSweep, FiniteSetTheorems, SequenceTheorems, TLAPS

\* A node lists each report once: reportId is the key of the site's index.
ListedOnce ==
  \A order \in Orders : \A i, j \in 1..Len(order) :
    order[i] = order[j] /\ order[i] # NoId => i = j

(***************************************************************************)
(* The invariant.                                                          *)
(***************************************************************************)
SweepTypes ==
  /\ holds \in [Node -> Orders] /\ repeats \in SUBSET Node
  /\ budget \in Nat \cup {Unlimited}
  /\ seen \in Seq(Row) /\ IsInjective(seen)
  /\ total \in Nat /\ noGain \in Nat /\ offset \in Nat /\ fetches \in Nat
  /\ truncated \in BOOLEAN
  /\ pc \in {"sweep", "done", "failed"}

\* The counters of a sweep that goes on, and how far over the budget it may be.
Counts ==
  /\ offset = fetches * PageSize
  /\ fetches = 0 => total = 0
  /\ noGain <= MaxNoGain
  /\ pc = "sweep" => noGain < MaxNoGain
  /\ pc = "sweep" /\ fetches # 0 => offset < total
  /\ fetches > 1 => offset - PageSize < total
  /\ budget # Unlimited => /\ budget >= Probes
                           /\ fetches <= budget + MaxNoGain - 1
                           /\ pc = "sweep" => fetches < budget + noGain

\* A total is a node's.
Totals ==
  /\ total # 0 => \E n \in Node : total = Len(holds[n])
  /\ truncated => pc = "done" /\ Len(seen) < total

SweepInv == SweepTypes /\ Counts /\ Totals

\* What nodes that agree have served.
Prefix ==
  Agree => \A n \in Node :
    /\ \A i \in 1..Len(seen) : i <= Len(holds[n]) /\ seen[i] = holds[n][i]
    /\ fetches # 0 => total = Len(holds[n])
    /\ Len(seen) = IF offset <= Len(holds[n]) THEN offset ELSE Len(holds[n])
    /\ pc = "done" /\ ~truncated => Len(seen) = Len(holds[n])

(***************************************************************************)
(* Numbers.                                                                *)
(***************************************************************************)

LEMMA Numbers ==
  /\ PageSize \in Nat \ {0} /\ Probes \in Nat \ {0} /\ MaxNoGain \in Nat \ {0}
  /\ Unlimited \notin Nat /\ Budgets \subseteq Nat \cup {Unlimited}
  /\ NoId \notin Row /\ Orders \subseteq Seq(Row \cup {NoId})
BY SweepAssumption

LEMMA MaxPair ==
  ASSUME NEW a \in Int, NEW b \in Int
  PROVE  Max({a, b}) = IF a >= b THEN a ELSE b
BY DEF Max

LEMMA MinPair ==
  ASSUME NEW a \in Int, NEW b \in Int
  PROVE  Min({a, b}) = IF a <= b THEN a ELSE b
BY DEF Min

\* A set of numbers that is closed under successor has all of them: otherwise the
\* successor maps a finite set into a smaller one.
LEMMA Succession ==
  ASSUME NEW T \in SUBSET Nat, 0 \in T, \A n \in T : n + 1 \in T
  PROVE  T = Nat
<1> SUFFICES ASSUME NEW n \in Nat \ T PROVE FALSE
  OBVIOUS
<1> DEFINE A == T \cap (0..n)
           B == A \ {0}
           f == [x \in A |-> x + 1]
<1>1. /\ 0 \in A /\ A \subseteq 0..n
      /\ \A x \in A : x + 1 \in B
  OBVIOUS
<1>2. f \in [A -> B] /\ \A x, y \in A : f[x] = f[y] => x = y
  BY <1>1
<1> HIDE DEF A, f
<1>3. IsFiniteSet(A) /\ Cardinality(A) \in Nat
  <2>1. IsFiniteSet(0..n)
    BY FS_Interval
  <2> QED
    BY <1>1, <2>1, FS_Subset, FS_CardinalityType
<1>4. IsFiniteSet(B) /\ Cardinality(B) = Cardinality(A) - 1
  BY <1>1, <1>3, FS_RemoveElement
<1> HIDE DEF B
<1>5. \E x, y \in A : x # y /\ f[x] = f[y]
  BY <1>2, <1>3, <1>4, FS_PigeonHole
<1> QED
  BY <1>2, <1>5

(***************************************************************************)
(* Collect folds one row after the other into what has been seen.          *)
(***************************************************************************)
Take(got, r) == IF r = NoId \/ r \in Range(got) THEN got ELSE Append(got, r)

\* The fold of the first k rows, over the sets of their places.
FoldsTo(rows, k, g) ==
  g = [s \in SUBSET (1..k) |->
         IF s = {} THEN seen ELSE Take(g[s \ {Max(s)}], rows[Max(s)])]

LEMMA LastPlace ==
  ASSUME NEW k \in Nat, NEW s \in SUBSET (1..(k + 1)), k + 1 \in s
  PROVE  Max(s) = k + 1
<1>1. \A y \in s : y \in Int /\ k + 1 >= y /\ y <= k + 1
  OBVIOUS
<1>2. \E x \in s : \A y \in s : x >= y
  BY <1>1
<1>3. Max(s) \in s /\ \A y \in s : Max(s) >= y
  BY <1>2 DEF Max
<1>4. Max(s) >= k + 1 /\ Max(s) <= k + 1 /\ Max(s) \in Int
  BY <1>1, <1>3
<1> QED
  BY <1>4

LEMMA FoldExists ==
  ASSUME NEW rows
  PROVE  \A k \in Nat : \E g : FoldsTo(rows, k, g)
<1> DEFINE T == {k \in Nat : \E g : FoldsTo(rows, k, g)}
<1>1. 0 \in T
  <2> DEFINE g == [s \in {{}} |-> seen]
  <2>1. SUBSET (1..0) = {{}}
    OBVIOUS
  <2>2. g = [s \in SUBSET (1..0) |->
               IF s = {} THEN seen ELSE Take(g[s \ {Max(s)}], rows[Max(s)])]
    BY <2>1
  <2> QED
    BY <2>2 DEF FoldsTo
<1>2. ASSUME NEW k \in T
      PROVE  k + 1 \in T
  <2>1. PICK g : FoldsTo(rows, k, g)
    OBVIOUS
  <2> DEFINE h == [s \in SUBSET (1..(k + 1)) |->
                     IF k + 1 \in s THEN Take(g[s \ {k + 1}], rows[k + 1]) ELSE g[s]]
  <2>2. ASSUME NEW s \in SUBSET (1..(k + 1))
        PROVE  h[s] = IF s = {} THEN seen ELSE Take(h[s \ {Max(s)}], rows[Max(s)])
    <3>1. CASE k + 1 \in s
      <4>1. Max(s) = k + 1
        BY <3>1, LastPlace
      <4>2. s \ {k + 1} \in SUBSET (1..(k + 1)) /\ k + 1 \notin s \ {k + 1}
        OBVIOUS
      <4>3. h[s \ {k + 1}] = g[s \ {k + 1}]
        BY <4>2
      <4> QED
        BY <3>1, <4>1, <4>3
    <3>2. CASE k + 1 \notin s
      <4>1. s \in SUBSET (1..k)
        BY <3>2
      <4>2. s \ {Max(s)} \in SUBSET (1..(k + 1)) /\ k + 1 \notin s \ {Max(s)}
        BY <3>2
      <4>3. h[s \ {Max(s)}] = g[s \ {Max(s)}] /\ h[s] = g[s]
        BY <3>2, <4>2
      <4>4. g[s] = IF s = {} THEN seen ELSE Take(g[s \ {Max(s)}], rows[Max(s)])
        BY <2>1, <4>1 DEF FoldsTo
      <4> QED
        BY <4>3, <4>4
    <3> QED
      BY <3>1, <3>2
  <2>3. h = [s \in SUBSET (1..(k + 1)) |-> h[s]]
    OBVIOUS
  <2> HIDE DEF h
  <2>4. FoldsTo(rows, k + 1, h)
    BY <2>2, <2>3 DEF FoldsTo
  <2> QED
    BY <2>4
<1> HIDE DEF T
<1>3. T \in SUBSET Nat
  BY DEF T
<1>4. T = Nat
  BY <1>1, <1>2, <1>3, Succession
<1> QED
  BY <1>4 DEF T

\* What has been seen after each of the rows.
LEMMA CollectSteps ==
  ASSUME NEW rows \in Seq(Row \cup {NoId})
  PROVE  \E got : /\ got[0] = seen /\ got[Len(rows)] = Collect(rows)
                  /\ \A i \in 1..Len(rows) : got[i] = Take(got[i - 1], rows[i])
<1> DEFINE n == Len(rows)
           iter == CHOOSE g : g = [s \in SUBSET (1..n) |->
                     IF s = {} THEN seen ELSE Take(g[s \ {Max(s)}], rows[Max(s)])]
           got == [i \in 0..n |-> iter[1..i]]
<1>1. DOMAIN rows = 1..n /\ n \in Nat
  BY LenProperties
<1>2. Collect(rows) = iter[1..n]
  BY <1>1 DEF Collect, FoldLeft, MapThenFoldSet, Take
<1>3. \E g : FoldsTo(rows, n, g)
  BY <1>1, FoldExists
<1>4. FoldsTo(rows, n, iter)
  BY <1>3 DEF FoldsTo
<1> HIDE DEF iter, n
<1>5. iter[{}] = seen
  BY <1>4 DEF FoldsTo
<1>6. ASSUME NEW i \in 1..n
      PROVE  iter[1..i] = Take(iter[1..(i - 1)], rows[i])
  <2>1. i \in Nat \ {0} /\ i <= n /\ n \in Nat
    BY <1>1
  <2>2. 1..i \in SUBSET (1..n) /\ i \in 1..i /\ (1..i) \ {i} = 1..(i - 1)
    BY <2>1
  <2>3. Max(1..i) = i
    <3>1. i - 1 \in Nat /\ (i - 1) + 1 = i
      BY <2>1
    <3> QED
      BY <2>2, <3>1, LastPlace
  <2>4. iter[1..i] = Take(iter[(1..i) \ {Max(1..i)}], rows[Max(1..i)])
    BY <1>4, <2>2 DEF FoldsTo
  <2> QED
    BY <2>2, <2>3, <2>4
<1>7. got[0] = seen
  BY <1>1, <1>5
<1>8. got[n] = Collect(rows)
  BY <1>1, <1>2
<1>9. \A i \in 1..n : got[i] = Take(got[i - 1], rows[i])
  BY <1>1, <1>6
<1> HIDE DEF got
<1> QED
  BY <1>7, <1>8, <1>9 DEF n

LEMMA TakeFacts ==
  ASSUME NEW got \in Seq(Row), NEW r \in Row \cup {NoId}
  PROVE  /\ Take(got, r) \in Seq(Row) /\ Len(got) <= Len(Take(got, r))
         /\ IsInjective(got) => IsInjective(Take(got, r))
         /\ r # NoId /\ r \notin Range(got) => Take(got, r) = Append(got, r)
<1>1. Len(got) \in Nat /\ DOMAIN got = 1..Len(got)
  BY LenProperties
<1>2. CASE r = NoId \/ r \in Range(got)
  <2>1. Take(got, r) = got
    BY <1>2 DEF Take
  <2>2. IsInjective(got) => IsInjective(Take(got, r))
    BY <2>1
  <2>3. Take(got, r) \in Seq(Row)
    BY <2>1
  <2>4. Len(got) <= Len(Take(got, r))
    BY <1>1, <2>1
  <2> QED
    BY <1>2, <2>2, <2>3, <2>4
<1>3. CASE ~(r = NoId \/ r \in Range(got))
  <2> DEFINE more == Append(got, r)
  <2>1. Take(got, r) = more /\ r \in Row
    BY <1>3 DEF Take
  <2>2. /\ more \in Seq(Row) /\ Len(more) = Len(got) + 1
        /\ \A i \in 1..Len(got) : more[i] = got[i]
        /\ more[Len(got) + 1] = r
    BY <2>1, AppendProperties
  <2> HIDE DEF more
  <2>3. DOMAIN more = 1..(Len(got) + 1)
    BY <2>2, LenProperties
  <2>4. \A i \in 1..Len(got) : got[i] # r
    BY <1>1, <1>3 DEF Range
  <2>5. ASSUME IsInjective(got), NEW i \in DOMAIN more, NEW j \in DOMAIN more, more[i] = more[j]
        PROVE  i = j
    BY <1>1, <2>2, <2>3, <2>4, <2>5 DEF IsInjective
  <2>6. IsInjective(got) => IsInjective(more)
    BY <2>5 DEF IsInjective
  <2>7. Len(got) <= Len(more)
    BY <1>1, <2>2
  <2>8. more = Append(got, r)
    BY DEF more
  <2> QED
    BY <2>1, <2>2, <2>6, <2>7, <2>8
<1> QED
  BY <1>2, <1>3

\* Collecting keeps what has been seen and takes no report twice.
LEMMA CollectFacts ==
  ASSUME seen \in Seq(Row), IsInjective(seen), NEW rows \in Seq(Row \cup {NoId})
  PROVE  /\ Collect(rows) \in Seq(Row) /\ IsInjective(Collect(rows))
         /\ Len(seen) <= Len(Collect(rows))
<1> DEFINE P(g) == g \in Seq(Row) /\ IsInjective(g) /\ Len(seen) <= Len(g)
<1>1. PICK got : /\ got[0] = seen /\ got[Len(rows)] = Collect(rows)
                 /\ \A i \in 1..Len(rows) : got[i] = Take(got[i - 1], rows[i])
  BY CollectSteps
<1> DEFINE T == {i \in Nat : i <= Len(rows) => P(got[i])}
<1>2. Len(rows) \in Nat /\ Len(seen) \in Nat /\ \A i \in 1..Len(rows) : rows[i] \in Row \cup {NoId}
  BY LenProperties, ElementOfSeq
<1>3. 0 \in T
  BY <1>1, <1>2
<1>4. ASSUME NEW i \in T
      PROVE  i + 1 \in T
  <2> SUFFICES ASSUME i + 1 <= Len(rows)
               PROVE  P(got[i + 1])
    BY <1>2
  <2> DEFINE g == got[i]
             h == got[i + 1]
             r == rows[i + 1]
  <2>1. P(g) /\ i \in Nat /\ i + 1 \in 1..Len(rows) /\ (i + 1) - 1 = i
    BY <1>2, <1>4
  <2>2. h = Take(g, r) /\ r \in Row \cup {NoId}
    BY <1>1, <1>2, <2>1
  <2> HIDE DEF g, h, r
  <2>3. /\ h \in Seq(Row) /\ IsInjective(h) /\ Len(g) <= Len(h)
    BY <2>1, <2>2, TakeFacts
  <2>4. Len(g) \in Nat /\ Len(h) \in Nat
    BY <2>1, <2>3, LenProperties
  <2>5. P(h)
    BY <1>2, <2>1, <2>3, <2>4
  <2> QED
    BY <2>5 DEF h
<1> HIDE DEF T
<1>5. T \in SUBSET Nat
  BY DEF T
<1>6. T = Nat
  BY <1>3, <1>4, <1>5, Succession
<1>7. P(got[Len(rows)])
  BY <1>2, <1>6 DEF T
<1> QED
  BY <1>1, <1>7

\* Rows that are all new are appended in their order.
LEMMA CollectNew ==
  ASSUME seen \in Seq(Row), NEW rows \in Seq(Row), IsInjective(rows),
         \A i \in 1..Len(rows) : rows[i] \notin Range(seen)
  PROVE  /\ Collect(rows) \in Seq(Row) /\ Len(Collect(rows)) = Len(seen) + Len(rows)
         /\ \A j \in 1..Len(seen) : Collect(rows)[j] = seen[j]
         /\ \A j \in 1..Len(rows) : Collect(rows)[Len(seen) + j] = rows[j]
<1> DEFINE P(g, i) == /\ g \in Seq(Row) /\ Len(g) = Len(seen) + i
                      /\ \A j \in 1..Len(seen) : g[j] = seen[j]
                      /\ \A j \in 1..i : g[Len(seen) + j] = rows[j]
<1>1. rows \in Seq(Row \cup {NoId})
  BY LenProperties
<1>2. PICK got : /\ got[0] = seen /\ got[Len(rows)] = Collect(rows)
                 /\ \A i \in 1..Len(rows) : got[i] = Take(got[i - 1], rows[i])
  BY <1>1, CollectSteps
<1> DEFINE T == {i \in Nat : i <= Len(rows) => P(got[i], i)}
<1>3. /\ Len(rows) \in Nat /\ Len(seen) \in Nat /\ DOMAIN seen = 1..Len(seen)
      /\ DOMAIN rows = 1..Len(rows)
      /\ \A i \in 1..Len(rows) : rows[i] \in Row
  BY LenProperties, ElementOfSeq
<1>4. 0 \in T
  BY <1>2, <1>3
<1>5. ASSUME NEW i \in T
      PROVE  i + 1 \in T
  <2> SUFFICES ASSUME i + 1 <= Len(rows)
               PROVE  P(got[i + 1], i + 1)
    BY <1>3
  <2> DEFINE g == got[i]
             r == rows[i + 1]
             h == got[i + 1]
  <2>1. P(g, i) /\ i \in Nat /\ i + 1 \in 1..Len(rows) /\ (i + 1) - 1 = i
    BY <1>3, <1>5
  <2>2. h = Take(g, r) /\ r \in Row /\ r # NoId
    BY <1>2, <1>3, <2>1, Numbers
  <2>3. r \notin Range(seen) /\ \A j \in 1..i : rows[j] # r
    <3>1. \A j \in 1..i : j \in DOMAIN rows /\ i + 1 \in DOMAIN rows /\ j # i + 1
      BY <1>3, <2>1
    <3> QED
      BY <2>1, <3>1 DEF IsInjective
  <2> HIDE DEF g, r, h
  <2>4. r \notin Range(g)
    <3> SUFFICES ASSUME NEW m \in 1..Len(g)
                 PROVE  g[m] # r
      BY <2>1, LenProperties DEF Range
    <3>1. CASE m \in 1..Len(seen)
      BY <1>3, <2>1, <2>3, <3>1 DEF Range
    <3>2. CASE m \notin 1..Len(seen)
      <4>1. m - Len(seen) \in 1..i /\ Len(seen) + (m - Len(seen)) = m
        BY <1>3, <2>1, <3>2
      <4> QED
        BY <2>1, <2>3, <4>1
    <3> QED
      BY <3>1, <3>2
  <2>5. h = Append(g, r)
    BY <2>1, <2>2, <2>4, TakeFacts
  <2>6. /\ h \in Seq(Row) /\ Len(h) = Len(g) + 1
        /\ \A j \in 1..Len(g) : h[j] = g[j]
        /\ h[Len(g) + 1] = r
    <3>1. /\ Append(g, r) \in Seq(Row) /\ Len(Append(g, r)) = Len(g) + 1
          /\ \A j \in 1..Len(g) : Append(g, r)[j] = g[j]
          /\ Append(g, r)[Len(g) + 1] = r
      BY <2>1, <2>2, AppendProperties
    <3> QED
      BY <2>5, <3>1
  <2>7. \A j \in 1..Len(seen) : h[j] = seen[j]
    BY <1>3, <2>1, <2>6
  <2>8. \A j \in 1..i : h[Len(seen) + j] = rows[j]
    BY <1>3, <2>1, <2>6
  <2>9. h[Len(seen) + (i + 1)] = rows[i + 1]
    BY <1>3, <2>1, <2>6 DEF r
  <2>10. \A j \in 1..(i + 1) : h[Len(seen) + j] = rows[j]
    <3>1. \A j \in 1..(i + 1) : j \in 1..i \/ j = i + 1
      BY <2>1
    <3> QED
      BY <2>8, <2>9, <3>1
  <2>11. Len(h) = Len(seen) + (i + 1)
    BY <1>3, <2>1, <2>6
  <2> QED
    BY <2>6, <2>7, <2>10, <2>11 DEF h
<1> HIDE DEF T
<1>6. T \in SUBSET Nat
  BY DEF T
<1>7. T = Nat
  BY <1>4, <1>5, <1>6, Succession
<1>8. P(got[Len(rows)], Len(rows))
  BY <1>3, <1>7 DEF T
<1> QED
  BY <1>2, <1>8

(***************************************************************************)
(* The page a node serves.                                                 *)
(***************************************************************************)

LEMMA OrderFacts ==
  ASSUME SweepTypes, NEW n \in Node
  PROVE  /\ holds[n] \in Seq(Row \cup {NoId}) /\ Len(holds[n]) \in Nat
         /\ DOMAIN holds[n] = 1..Len(holds[n])
         /\ \A i \in 1..Len(holds[n]) : holds[n][i] \in Row \cup {NoId}
<1>1. holds[n] \in Seq(Row \cup {NoId})
  BY Numbers DEF SweepTypes
<1> QED
  BY <1>1, LenProperties, ElementOfSeq

LEMMA PageFacts ==
  ASSUME SweepTypes, NEW n \in Node
  PROVE  LET from == IF n \in repeats THEN 0 ELSE offset
             left == Len(holds[n]) - from
             size == IF left <= 0 THEN 0 ELSE IF left <= PageSize THEN left ELSE PageSize
         IN  /\ Page(n) \in Seq(Row \cup {NoId})
             /\ Len(Page(n)) = size
             /\ \A i \in 1..size : /\ from + i \in 1..Len(holds[n])
                                   /\ Page(n)[i] = holds[n][from + i]
<1> DEFINE from == IF n \in repeats THEN 0 ELSE offset
           left == Len(holds[n]) - from
           size == IF left <= 0 THEN 0 ELSE IF left <= PageSize THEN left ELSE PageSize
           to == Min({from + PageSize, Len(holds[n])})
<1>1. from \in Nat /\ Len(holds[n]) \in Nat /\ PageSize \in Nat \ {0}
  BY OrderFacts, Numbers DEF SweepTypes
<1>2. Page(n) = SubSeq(holds[n], from + 1, to)
  BY DEF Page
<1> HIDE DEF from
<1>3. to = IF from + PageSize <= Len(holds[n]) THEN from + PageSize ELSE Len(holds[n])
  BY <1>1, MinPair
<1>4. to \in Nat /\ from + 1 \in Nat /\ size \in Nat
  BY <1>1, <1>3
<1>5. /\ \A i \in (from + 1)..to : i \in 1..Len(holds[n])
      /\ (IF from + 1 <= to THEN to - (from + 1) + 1 ELSE 0) = size
      /\ \A i \in 1..size : from + i \in 1..Len(holds[n]) /\ i \in 1..(to - (from + 1) + 1)
                            /\ from + 1 + i - 1 = from + i
  <2>1. to \in Nat /\ to <= Len(holds[n]) /\ from + 1 >= 1
    BY <1>1, <1>3
  <2>2. size = IF from + 1 <= to THEN to - from ELSE 0
    BY <1>1, <1>3
  <2> HIDE DEF to, size
  <2>3. \A i \in (from + 1)..to : i \in 1..Len(holds[n])
    BY <1>1, <2>1
  <2>4. \A i \in 1..size : from + i \in 1..Len(holds[n]) /\ i \in 1..(to - (from + 1) + 1)
                          /\ from + 1 + i - 1 = from + i
    <3> TAKE i \in 1..size
    <3>1. i \in Nat /\ i >= 1 /\ from + 1 <= to /\ i <= to - from
      BY <1>1, <2>1, <2>2
    <3> QED
      BY <1>1, <2>1, <3>1
  <2> QED
    BY <1>1, <2>1, <2>2, <2>3, <2>4
<1>6. \A i \in (from + 1)..to : holds[n][i] \in Row \cup {NoId}
  BY <1>5, OrderFacts
<1> HIDE DEF to, size
<1>7. /\ Page(n) \in Seq(Row \cup {NoId})
      /\ Len(Page(n)) = size
      /\ \A i \in 1..(to - (from + 1) + 1) : Page(n)[i] = holds[n][from + 1 + i - 1]
  <2>1. from + 1 \in Int /\ to \in Int
    BY <1>4
  <2>2. /\ SubSeq(holds[n], from + 1, to) \in Seq(Row \cup {NoId})
        /\ Len(SubSeq(holds[n], from + 1, to)) = IF from + 1 <= to THEN to - (from + 1) + 1 ELSE 0
        /\ \A i \in 1..(to - (from + 1) + 1) :
             SubSeq(holds[n], from + 1, to)[i] = holds[n][from + 1 + i - 1]
    BY <1>6, <2>1, SubSeqProperties
  <2> QED
    BY <1>2, <1>5, <2>2
<1>8. \A i \in 1..size : from + i \in 1..Len(holds[n]) /\ Page(n)[i] = holds[n][from + i]
  BY <1>5, <1>7
<1> QED
  BY <1>7, <1>8 DEF size, from

LEMMA HighestFacts ==
  ASSUME SweepTypes, NEW n \in Node
  PROVE  /\ Highest(n) \in Nat /\ Highest(n) >= total
         /\ Highest(n) \in {total, Len(holds[n])}
         /\ Len(Page(n)) # 0 => Highest(n) >= Len(holds[n])
<1>1. total \in Nat /\ Len(holds[n]) \in Nat
  BY OrderFacts DEF SweepTypes
<1>2. Max({total, Len(holds[n])}) = IF total >= Len(holds[n]) THEN total ELSE Len(holds[n])
  BY <1>1, MaxPair
<1>3. Page(n) = <<>> => Len(Page(n)) = 0
  OBVIOUS
<1> QED
  BY <1>1, <1>2, <1>3 DEF Highest

(***************************************************************************)
(* A fetch.                                                                *)
(***************************************************************************)

LEMMA FetchTypes ==
  ASSUME SweepInv, NEW n \in Node, Fetch(n)
  PROVE  SweepTypes' /\ Len(seen) \in Nat /\ Len(seen') \in Nat /\ Len(seen) <= Len(seen')
<1>1. SweepTypes
  BY DEF SweepInv
<1>2. /\ seen' \in Seq(Row) /\ IsInjective(seen') /\ Len(seen) <= Len(seen')
  BY <1>1, CollectFacts, PageFacts DEF Fetch, SweepTypes
<1>3. Len(seen) \in Nat /\ Len(seen') \in Nat
  BY <1>1, <1>2, LenProperties DEF SweepTypes
<1>4. total' \in Nat
  BY <1>1, HighestFacts DEF Fetch
<1>5. noGain' \in Nat /\ offset' \in Nat /\ fetches' \in Nat
  BY <1>1, Numbers DEF Fetch, NoGainAfter, SweepTypes
<1> QED
  BY <1>1, <1>2, <1>3, <1>4, <1>5 DEF SweepTypes, Fetch, caller

\* The rules after a page.
LEMMA RuleFacts ==
  ASSUME SweepInv, NEW n \in Node, Fetch(n)
  PROVE  /\ pc = "sweep" /\ pc' \in {"sweep", "done"}
         /\ offset' = offset + PageSize /\ fetches' = fetches + 1
         /\ noGain' = IF Len(seen') > Len(seen) THEN 0 ELSE noGain + 1
         /\ AllSeen <=> fetches' >= Probes /\ Len(seen') >= total'
         /\ PastTheEnd <=> offset' >= total' /\ offset' >= PageSize
         /\ OverBudget <=> /\ budget # Unlimited /\ fetches' >= budget
                           /\ noGain' = 0 /\ Len(seen') < total'
         /\ truncated' = (~AllSeen /\ ~PastTheEnd /\ OverBudget)
         /\ pc' = "sweep" <=> ~(AllSeen \/ PastTheEnd \/ OverBudget \/ noGain' >= MaxNoGain)
         /\ UNCHANGED <<holds, repeats, budget>>
<1>1. total' \in Nat /\ offset' \in Nat
  BY FetchTypes DEF SweepTypes
<1>2. Max({total', PageSize}) = IF total' >= PageSize THEN total' ELSE PageSize
  BY <1>1, MaxPair, Numbers
<1>3. PastTheEnd <=> offset' >= total' /\ offset' >= PageSize
  BY <1>1, <1>2, Numbers DEF PastTheEnd
<1> QED
  BY <1>3 DEF Fetch, NoGainAfter, AllSeen, OverBudget, caller

LEMMA Multiples ==
  ASSUME NEW k \in Nat
  PROVE  /\ (k + 1) * PageSize = k * PageSize + PageSize
         /\ k # 0 => k * PageSize >= PageSize
<1>1. PageSize \in Nat \ {0} /\ k * PageSize \in Nat
  BY Numbers
<1>2. (k + 1) * PageSize = k * PageSize + PageSize
  BY Numbers
<1>3. ASSUME k # 0
      PROVE  k * PageSize >= PageSize
  <2>1. k - 1 \in Nat /\ k = (k - 1) + 1
    BY <1>3
  <2>2. (k - 1) * PageSize \in Nat /\ k * PageSize = (k - 1) * PageSize + PageSize
    BY <1>1, <2>1
  <2> QED
    BY <1>1, <2>2
<1> QED
  BY <1>2, <1>3

LEMMA CountsStep ==
  ASSUME SweepInv, NEW n \in Node, Fetch(n)
  PROVE  Counts'
<1>1. /\ SweepTypes /\ Counts /\ SweepTypes'
      /\ Len(seen) \in Nat /\ Len(seen') \in Nat /\ Len(seen) <= Len(seen')
  BY FetchTypes DEF SweepInv
<1>2. /\ fetches \in Nat /\ fetches' \in Nat /\ offset \in Nat /\ offset' \in Nat /\ total \in Nat
      /\ total' \in Nat /\ noGain \in Nat /\ noGain' \in Nat /\ budget \in Nat \cup {Unlimited}
  BY <1>1 DEF SweepTypes
<1>3. total' >= total
  BY <1>1, HighestFacts DEF Fetch
<1>4. /\ pc = "sweep" /\ pc' \in {"sweep", "done"}
      /\ offset' = offset + PageSize /\ fetches' = fetches + 1 /\ budget' = budget
      /\ noGain' \in {0, noGain + 1}
      /\ pc' = "sweep" => ~AllSeen /\ ~PastTheEnd /\ ~OverBudget /\ noGain' < MaxNoGain
  BY <1>2, RuleFacts, Numbers
<1>5. offset' = fetches' * PageSize /\ offset' >= PageSize
  <2>1. offset = fetches * PageSize
    BY <1>1 DEF Counts
  <2>2. fetches' * PageSize = fetches * PageSize + PageSize
    BY <1>2, <1>4, Multiples
  <2> QED
    BY <1>2, <1>4, <2>1, <2>2, Numbers
<1>6. noGain' <= MaxNoGain
  BY <1>1, <1>2, <1>4, Numbers DEF Counts
<1>7. pc' = "sweep" => offset' < total'
  BY <1>2, <1>4, <1>5, RuleFacts
<1>8. fetches' > 1 => offset' - PageSize < total'
  BY <1>1, <1>2, <1>3, <1>4, Numbers DEF Counts
<1>9. ASSUME budget # Unlimited
      PROVE  /\ budget' >= Probes
             /\ fetches' <= budget' + MaxNoGain - 1
             /\ pc' = "sweep" => fetches' < budget' + noGain'
  <2>1. budget \in Nat /\ budget >= Probes /\ fetches < budget + noGain /\ noGain < MaxNoGain
    BY <1>1, <1>2, <1>4, <1>9 DEF Counts
  <2>2. fetches' <= budget' + MaxNoGain - 1
    BY <1>2, <1>4, <2>1, Numbers
  <2>3. pc' = "sweep" /\ fetches' >= budget => noGain' # 0
    <3> SUFFICES ASSUME pc' = "sweep", fetches' >= budget, noGain' = 0
                 PROVE  FALSE
      OBVIOUS
    <3>1. Len(seen') >= total'
      BY <1>1, <1>2, <1>4, <1>9, RuleFacts
    <3>2. fetches' >= Probes
      BY <1>2, <2>1, Numbers
    <3> QED
      BY <1>4, <3>1, <3>2, RuleFacts
  <2>4. pc' = "sweep" => fetches' < budget' + noGain'
    <3>1. CASE noGain' = 0
      BY <1>2, <1>4, <2>1, <2>3, <3>1
    <3>2. CASE noGain' = noGain + 1
      BY <1>2, <1>4, <2>1, <3>2
    <3> QED
      BY <1>4, <3>1, <3>2
  <2>5. budget' >= Probes
    BY <1>4, <2>1
  <2> QED
    BY <2>2, <2>4, <2>5
<1>10. fetches' # 0
  BY <1>2, <1>4
<1>11. budget' # Unlimited => budget # Unlimited
  BY <1>4
<1>12. pc' = "sweep" => noGain' < MaxNoGain
  BY <1>4
<1> QED
  BY <1>5, <1>6, <1>7, <1>8, <1>9, <1>10, <1>11, <1>12 DEF Counts

LEMMA TotalsStep ==
  ASSUME SweepInv, NEW n \in Node, Fetch(n)
  PROVE  Totals'
<1>1. SweepTypes /\ Totals
  BY DEF SweepInv
<1>2. total' \in {total, Len(holds[n])} /\ holds' = holds
  BY <1>1, HighestFacts, RuleFacts DEF Fetch
<1>3. total' # 0 => \E m \in Node : total' = Len(holds'[m])
  BY <1>1, <1>2 DEF Totals
<1>4. truncated' => pc' = "done" /\ Len(seen') < total'
  BY RuleFacts
<1> QED
  BY <1>3, <1>4 DEF Totals

\* A page of a node that agrees with the others is the next part of its order.
LEMMA PrefixStep ==
  ASSUME ListedOnce, SweepInv, Prefix, NEW m \in Node, Fetch(m)
  PROVE  Prefix'
<1> SUFFICES ASSUME Agree
             PROVE  \A n \in Node :
                      /\ \A i \in 1..Len(seen') : i <= Len(holds[n]) /\ seen'[i] = holds[n][i]
                      /\ total' = Len(holds[n])
                      /\ Len(seen') = IF offset' <= Len(holds[n]) THEN offset' ELSE Len(holds[n])
                      /\ pc' = "done" /\ ~truncated' => Len(seen') = Len(holds[n])
  BY RuleFacts DEF Prefix, Agree
<1> DEFINE order == holds[m]
           last == Len(order)
           rows == Page(m)
           left == last - offset
           size == IF left <= 0 THEN 0 ELSE IF left <= PageSize THEN left ELSE PageSize
<1>1. /\ SweepTypes /\ Counts /\ SweepTypes' /\ Prefix
      /\ Len(seen) \in Nat /\ Len(seen') \in Nat
  BY FetchTypes DEF SweepInv
<1>2. /\ order \in Orders /\ last \in Nat /\ offset \in Nat /\ total \in Nat /\ seen \in Seq(Row)
      /\ fetches \in Nat /\ PageSize \in Nat \ {0} /\ DOMAIN order = 1..last
      /\ \A i \in 1..last : order[i] \in Row
  <2>1. \A i \in 1..last : order[i] # NoId
    BY <1>1, OrderFacts DEF Agree, Range
  <2> QED
    BY <1>1, <2>1, OrderFacts, Numbers DEF SweepTypes
<1>3. /\ \A i \in 1..Len(seen) : i <= last /\ seen[i] = order[i]
      /\ fetches # 0 => total = last
      /\ Len(seen) = IF offset <= last THEN offset ELSE last
  BY <1>1 DEF Prefix
<1>4. /\ rows \in Seq(Row \cup {NoId}) /\ Len(rows) = size
      /\ \A i \in 1..size : offset + i \in 1..last /\ rows[i] = order[offset + i]
  BY <1>1, PageFacts DEF Agree
<1>5. \A i, j \in 1..last : order[i] = order[j] => i = j
  BY <1>2, Numbers DEF ListedOnce
<1>6. /\ seen' = Collect(rows) /\ total' = Highest(m)
      /\ (size # 0 => total' >= last) /\ total' \in {total, last}
  BY <1>1, <1>4, HighestFacts DEF Fetch
<1> HIDE DEF order, last, rows
<1>7. size \in Nat /\ (size # 0 => Len(seen) = offset)
  BY <1>2, <1>3
<1> HIDE DEF size
<1>8. rows \in Seq(Row)
  <2>1. \A i \in 1..Len(rows) : rows[i] \in Row
    BY <1>2, <1>4
  <2>2. rows \in [1..Len(rows) -> Row] /\ Len(rows) \in Nat
    BY <1>4, <2>1, LenProperties
  <2> QED
    BY <2>2
<1>9. IsInjective(rows)
  <2>1. DOMAIN rows = 1..size
    BY <1>4, <1>8, LenProperties
  <2>2. ASSUME NEW i \in 1..size, NEW j \in 1..size, rows[i] = rows[j]
        PROVE  i = j
    <3>1. offset + i = offset + j
      BY <1>4, <1>5, <2>2
    <3> QED
      BY <1>2, <1>7, <3>1
  <2> QED
    BY <2>1, <2>2 DEF IsInjective
<1>10. ASSUME NEW i \in 1..Len(rows)
       PROVE  rows[i] \notin Range(seen)
  <2>1. i \in 1..size /\ Len(seen) = offset /\ DOMAIN seen = 1..offset
    BY <1>2, <1>4, <1>7, LenProperties
  <2>2. ASSUME NEW j \in 1..offset
        PROVE  seen[j] # rows[i]
    <3>1. seen[j] = order[j] /\ j \in 1..last /\ rows[i] = order[offset + i]
          /\ offset + i \in 1..last /\ j # offset + i
      BY <1>2, <1>3, <1>4, <1>7, <2>1
    <3> QED
      BY <1>5, <3>1
  <2> QED
    BY <2>1, <2>2 DEF Range
<1>11. /\ Len(seen') = Len(seen) + size
       /\ \A j \in 1..Len(seen) : seen'[j] = seen[j]
       /\ \A j \in 1..size : seen'[Len(seen) + j] = rows[j]
  BY <1>2, <1>4, <1>6, <1>8, <1>9, <1>10, CollectNew
<1>12. Len(seen') = IF offset + PageSize <= last THEN offset + PageSize ELSE last
  BY <1>2, <1>3, <1>11 DEF size
<1>13. ASSUME NEW i \in 1..Len(seen')
       PROVE  i <= last /\ seen'[i] = order[i]
  <2>1. CASE i <= Len(seen)
    <3>1. i \in 1..Len(seen)
      BY <1>1, <2>1
    <3> QED
      BY <1>3, <1>11, <3>1
  <2>2. CASE ~(i <= Len(seen))
    <3>1. /\ i - Len(seen) \in 1..size /\ Len(seen) + (i - Len(seen)) = i /\ Len(seen) = offset
      BY <1>1, <1>7, <1>11, <2>2
    <3>2. seen'[i] = rows[i - Len(seen)] /\ rows[i - Len(seen)] = order[i] /\ i \in 1..last
      BY <1>4, <1>11, <3>1
    <3> QED
      BY <1>2, <3>2
  <2> QED
    BY <2>1, <2>2
<1>14. total' = last
  <2>1. CASE fetches # 0
    BY <1>3, <1>6, <2>1
  <2>2. CASE fetches = 0
    <3>1. offset = 0 /\ total = 0
      BY <1>1, <2>2, Numbers DEF Counts
    <3>2. size = 0 => last = 0
      BY <1>2, <3>1 DEF size
    <3> QED
      BY <1>2, <1>6, <3>1, <3>2
  <2> QED
    BY <2>1, <2>2
<1>15. pc' = "done" /\ ~truncated' => Len(seen') = last
  <2> SUFFICES ASSUME pc' = "done", ~truncated'
               PROVE  Len(seen') = last
    OBVIOUS
  <2>1. AllSeen \/ PastTheEnd \/ noGain' >= MaxNoGain
    BY RuleFacts
  <2>2. CASE AllSeen
    BY <1>2, <1>12, <1>14, <2>2, RuleFacts, Numbers
  <2>3. CASE PastTheEnd
    BY <1>2, <1>12, <1>14, <2>3, RuleFacts, Numbers
  <2>4. CASE noGain' >= MaxNoGain
    <3>1. noGain' # 0
      BY <2>4, Numbers
    <3>2. size = 0
      BY <1>1, <1>7, <1>11, <3>1, RuleFacts
    <3>3. left <= 0
      BY <1>2, <3>2 DEF size
    <3> QED
      BY <1>2, <1>3, <1>11, <3>2, <3>3
  <2> QED
    BY <2>1, <2>2, <2>3, <2>4
<1>16. offset' = offset + PageSize
  BY RuleFacts
<1>17. \A n \in Node : holds[n] = order
  BY DEF Agree, order
<1> QED
  BY <1>12, <1>13, <1>14, <1>15, <1>16, <1>17 DEF last

(***************************************************************************)
(* The invariant holds.                                                    *)
(***************************************************************************)

LEMMA RaisedFacts ==
  ASSUME NEW cold \in Budgets
  PROVE  /\ RaisedBudget(cold) \in Nat \cup {Unlimited}
         /\ RaisedBudget(cold) # Unlimited => RaisedBudget(cold) >= Probes
<1>1. CASE cold = Unlimited
  BY <1>1 DEF RaisedBudget
<1>2. CASE cold # Unlimited
  <2>1. cold \in Nat /\ Probes \in Nat
    BY <1>2, Numbers
  <2>2. Max({cold, Probes}) = IF cold >= Probes THEN cold ELSE Probes
    BY <2>1, MaxPair
  <2> QED
    BY <1>2, <2>1, <2>2 DEF RaisedBudget
<1> QED
  BY <1>1, <1>2

LEMMA SweepInit == Init => SweepInv /\ Prefix
<1> SUFFICES ASSUME Init
             PROVE  SweepInv /\ Prefix
  OBVIOUS
<1>1. /\ seen = <<>> /\ total = 0 /\ noGain = 0 /\ offset = 0 /\ fetches = 0
      /\ truncated = FALSE /\ pc = "sweep"
      /\ holds \in [Node -> Orders] /\ repeats \in SUBSET Node
  BY DEF Init
<1>2. seen \in Seq(Row) /\ Len(seen) = 0 /\ IsInjective(seen)
  BY <1>1 DEF IsInjective
<1>3. /\ budget \in Nat \cup {Unlimited}
      /\ budget # Unlimited => budget >= Probes
  <2>1. PICK cold \in Budgets : budget = RaisedBudget(cold)
    BY DEF Init
  <2> QED
    BY <2>1, RaisedFacts
<1>4. SweepTypes
  BY <1>1, <1>2, <1>3 DEF SweepTypes
<1>5. Counts
  <2>1. budget # Unlimited => /\ fetches <= budget + MaxNoGain - 1
                              /\ fetches < budget + noGain
    BY <1>1, <1>3, Numbers
  <2>2. offset = fetches * PageSize /\ noGain < MaxNoGain /\ noGain <= MaxNoGain
    BY <1>1, Numbers
  <2> QED
    BY <1>1, <1>3, <2>1, <2>2 DEF Counts
<1>6. Totals
  BY <1>1 DEF Totals
<1>7. Prefix
  <2> SUFFICES ASSUME NEW n \in Node
               PROVE  /\ \A i \in 1..Len(seen) : i <= Len(holds[n]) /\ seen[i] = holds[n][i]
                      /\ fetches # 0 => total = Len(holds[n])
                      /\ Len(seen) = IF offset <= Len(holds[n]) THEN offset ELSE Len(holds[n])
                      /\ pc = "done" /\ ~truncated => Len(seen) = Len(holds[n])
    BY DEF Prefix
  <2>1. Len(holds[n]) \in Nat
    BY <1>4, OrderFacts
  <2> QED
    BY <1>1, <1>2, <2>1
<1> QED
  BY <1>4, <1>5, <1>6, <1>7 DEF SweepInv

\* An error leaves the rows and the counters where they were.
LEMMA FailStep ==
  ASSUME SweepInv, Fail
  PROVE  SweepInv' /\ (Prefix => Prefix')
<1>1. /\ UNCHANGED <<holds, repeats, budget, seen, total, noGain, offset, fetches, truncated>>
      /\ pc = "sweep" /\ pc' = "failed"
  BY DEF Fail, caller
<1>2. SweepTypes'
  BY <1>1 DEF SweepInv, SweepTypes
<1>3. Counts'
  BY <1>1 DEF SweepInv, Counts
<1>4. Totals'
  BY <1>1 DEF SweepInv, Totals
<1>5. Prefix => Prefix'
  BY <1>1 DEF Prefix, Agree
<1> QED
  BY <1>2, <1>3, <1>4, <1>5 DEF SweepInv

LEMMA SweepIdle ==
  ASSUME SweepInv, UNCHANGED vars
  PROVE  SweepInv' /\ (Prefix => Prefix')
BY DEF vars, SweepInv, SweepTypes, Counts, Totals, Prefix, Agree

LEMMA SweepStep == SweepInv /\ [Next]_vars => SweepInv'
<1> SUFFICES ASSUME SweepInv, [Next]_vars
             PROVE  SweepInv'
  OBVIOUS
<1>1. CASE Fail
  BY <1>1, FailStep
<1>2. ASSUME NEW n \in Node, Fetch(n)
      PROVE  SweepInv'
  BY <1>2, FetchTypes, CountsStep, TotalsStep DEF SweepInv
<1>3. CASE UNCHANGED vars
  BY <1>3, SweepIdle
<1> QED
  BY <1>1, <1>2, <1>3 DEF Next

LEMMA PrefixKept ==
  ASSUME ListedOnce
  PROVE  SweepInv /\ Prefix /\ [Next]_vars => Prefix'
<1> SUFFICES ASSUME SweepInv, Prefix, [Next]_vars
             PROVE  Prefix'
  OBVIOUS
<1>1. CASE Fail
  BY <1>1, FailStep
<1>2. ASSUME NEW n \in Node, Fetch(n)
      PROVE  Prefix'
  BY <1>2, PrefixStep
<1>3. CASE UNCHANGED vars
  BY <1>3, SweepIdle
<1> QED
  BY <1>1, <1>2, <1>3 DEF Next

LEMMA SweepInvariance == Spec => []SweepInv
BY SweepInit, SweepStep, PTL DEF Spec

(***************************************************************************)
(* What a sweep promises.                                                  *)
(***************************************************************************)
\* The locals of _sweep stay well formed, and no report is collected twice.
THEOREM TypeCorrect == Spec => []TypeOK
<1>1. SweepInv => TypeOK
  <2> SUFFICES ASSUME SweepInv
               PROVE  TypeOK
    OBVIOUS
  <2>1. SweepTypes /\ offset = fetches * PageSize /\ noGain <= MaxNoGain
    BY DEF SweepInv, Counts
  <2>2. noGain \in 0..MaxNoGain
    BY <2>1, Numbers DEF SweepTypes
  <2> QED
    BY <2>1, <2>2 DEF SweepTypes, TypeOK
<1> QED
  BY <1>1, SweepInvariance, PTL

\* What a cold search may cost, however the balancer alternates nodes that disagree
\* or repeat their first page: _sweep overruns its budget by fewer pages than end a
\* sweep that gains nothing, and asks for none behind the largest total.
THEOREM CostIsBounded == Spec => []FetchesBounded
<1>1. SweepInv => FetchesBounded
  BY DEF SweepInv, Counts, FetchesBounded
<1> QED
  BY <1>1, SweepInvariance, PTL

\* Fewer rows than a node lists leave out one of them.
LEMMA SomethingLeft ==
  ASSUME ListedOnce, SweepTypes, NEW n \in Node, Len(seen) < Len(holds[n])
  PROVE  Range(holds[n]) \ Range(seen) # {}
<1> DEFINE order == holds[n]
           place == [i \in 1..Len(order) |-> CHOOSE j \in 1..Len(seen) : seen[j] = order[i]]
<1> SUFFICES ASSUME Range(order) \subseteq Range(seen)
             PROVE  FALSE
  OBVIOUS
<1>1. /\ Len(order) \in Nat /\ DOMAIN order = 1..Len(order) /\ order \in Orders
      /\ Len(seen) \in Nat /\ DOMAIN seen = 1..Len(seen)
      /\ \A j \in 1..Len(seen) : seen[j] \in Row
  BY OrderFacts, LenProperties, ElementOfSeq DEF SweepTypes
<1> HIDE DEF order
<1>2. ASSUME NEW i \in 1..Len(order)
      PROVE  \E j \in 1..Len(seen) : seen[j] = order[i]
  BY <1>1 DEF Range
<1>3. ASSUME NEW i \in 1..Len(order)
      PROVE  place[i] \in 1..Len(seen) /\ seen[place[i]] = order[i] /\ order[i] # NoId
  <2>1. place[i] \in 1..Len(seen) /\ seen[place[i]] = order[i]
    BY <1>2
  <2> QED
    BY <1>1, <2>1, Numbers
<1>4. place \in [1..Len(order) -> 1..Len(seen)]
  <2>1. place = [i \in 1..Len(order) |-> place[i]]
    OBVIOUS
  <2> HIDE DEF place
  <2> QED
    BY <1>3, <2>1
<1> HIDE DEF place
<1>5. \A i, k \in 1..Len(order) : place[i] = place[k] => i = k
  BY <1>1, <1>3 DEF ListedOnce
<1>6. /\ IsFiniteSet(1..Len(order)) /\ Cardinality(1..Len(order)) = Len(order)
      /\ IsFiniteSet(1..Len(seen)) /\ Cardinality(1..Len(seen)) = Len(seen)
  <2>1. ASSUME NEW k \in Nat
        PROVE  IsFiniteSet(1..k) /\ Cardinality(1..k) = k
    <3>1. 1 \in Int /\ k \in Int
      OBVIOUS
    <3>2. IsFiniteSet(1..k) /\ Cardinality(1..k) = IF 1 > k THEN 0 ELSE k - 1 + 1
      BY <3>1, FS_Interval, Zenon
    <3> QED
      BY <3>2
  <2> QED
    BY <1>1, <2>1
<1>7. Len(seen) < Len(order)
  BY DEF order
<1>8. \E i, k \in 1..Len(order) : i # k /\ place[i] = place[k]
  BY <1>4, <1>6, <1>7, FS_PigeonHole
<1> QED
  BY <1>5, <1>8

\* A result that _sweep marks as truncated, and the route renders as bounded
\* (providers.py:169), lacks a report that some node holds.
THEOREM TruncationIsHonest ==
  ASSUME ListedOnce
  PROVE  Spec => []TruncatedLeavesRows
<1>1. SweepInv => TruncatedLeavesRows
  <2> SUFFICES ASSUME SweepInv, truncated
               PROVE  \E n \in Node : Range(holds[n]) \ Range(seen) # {}
    BY DEF TruncatedLeavesRows
  <2>1. SweepTypes /\ Len(seen) < total /\ total \in Nat /\ Len(seen) \in Nat
    BY LenProperties DEF SweepInv, SweepTypes, Totals
  <2>2. PICK n \in Node : total = Len(holds[n])
    BY <2>1 DEF SweepInv, Totals
  <2> QED
    BY <2>1, <2>2, SomethingLeft
<1> QED
  BY <1>1, SweepInvariance, PTL

\* When the nodes agree, a result that _sweep returns without the mark is the whole
\* list in the site's order, whichever nodes the balancer chose.
THEOREM AgreementIsComplete ==
  ASSUME ListedOnce
  PROVE  Spec => []CompleteWhenNodesAgree
<1>1. SweepInv /\ Prefix => CompleteWhenNodesAgree
  <2> SUFFICES ASSUME SweepInv, Prefix, pc = "done", ~truncated, Agree, NEW n \in Node
               PROVE  seen = holds[n]
    BY DEF CompleteWhenNodesAgree
  <2>1. /\ Len(seen) = Len(holds[n])
        /\ \A i \in 1..Len(seen) : seen[i] = holds[n][i]
    BY DEF Prefix
  <2>2. seen \in Seq(Row \cup {NoId}) /\ holds[n] \in Seq(Row \cup {NoId})
    BY OrderFacts DEF SweepInv, SweepTypes
  <2> QED
    BY <2>1, <2>2, SeqEqual
<1>2. Init => Prefix
  BY SweepInit
<1>3. SweepInv /\ Prefix /\ [Next]_vars => Prefix'
  BY PrefixKept
<1>4. Spec => [](SweepInv /\ Prefix)
  BY <1>2, <1>3, SweepInvariance, PTL DEF Spec
<1> QED
  BY <1>1, <1>4, PTL
=============================================================================
