------------------------- MODULE GatewayPages_proofs ------------------------
(***************************************************************************)
(* Proofs about GatewayPages, for every index that the crawl can build,    *)
(* every URL that a client may begin with and every sweep: what each link  *)
(* leads to, what the numbers beside links count, what the ladder reaches  *)
(* and which hits a search page keeps.  The lemmas go from sequences and   *)
(* orders over the tables and the addresses to the links of each page; the *)
(* last part has the invariant, one lemma for each action, and the         *)
(* theorems.                                                               *)
(***************************************************************************)
EXTENDS GatewayPages, FiniteSetTheorems, SequenceTheorems, TLAPS
(***************************************************************************)
(* Sets in order, and parts of sequences.                                  *)
(***************************************************************************)
TotalOn(order, S) ==
  /\ \A x \in S : <<x, x>> \notin order
  /\ \A x, y, z \in S : <<x, y>> \in order /\ <<y, z>> \in order => <<x, z>> \in order
  /\ \A x, y \in S : x # y => <<x, y>> \in order \/ <<y, x>> \in order

Before(S, order, x) == {y \in S : <<y, x>> \in order}

LEMMA MaxPair ==
  ASSUME NEW a \in Int, NEW b \in Int
  PROVE  Max({a, b}) = IF a >= b THEN a ELSE b
BY DEF Max

LEMMA MinPair ==
  ASSUME NEW a \in Int, NEW b \in Int
  PROVE  Min({a, b}) = IF a <= b THEN a ELSE b
BY DEF Min

\* A set of numbers that is closed under successor has all of them: otherwise the
\* successor maps a finite set into a smaller one.
LEMMA Succession ==
  ASSUME NEW T \in SUBSET Nat, 0 \in T, \A n \in T : n + 1 \in T
  PROVE  T = Nat
<1> SUFFICES ASSUME NEW n \in Nat \ T PROVE FALSE
  OBVIOUS
<1> DEFINE A == T \cap (0..n)
           B == A \ {0}
           f == [x \in A |-> x + 1]
<1>1. /\ 0 \in A /\ A \subseteq 0..n
      /\ \A x \in A : x + 1 \in B
  OBVIOUS
<1>2. f \in [A -> B] /\ \A x, y \in A : f[x] = f[y] => x = y
  BY <1>1
<1> HIDE DEF A, f
<1>3. IsFiniteSet(A) /\ Cardinality(A) \in Nat
  <2>1. IsFiniteSet(0..n)
    BY FS_Interval
  <2> QED
    BY <1>1, <2>1, FS_Subset, FS_CardinalityType
<1>4. IsFiniteSet(B) /\ Cardinality(B) = Cardinality(A) - 1
  BY <1>1, <1>3, FS_RemoveElement
<1> HIDE DEF B
<1>5. \E x, y \in A : x # y /\ f[x] = f[y]
  BY <1>2, <1>3, <1>4, FS_PigeonHole
<1> QED
  BY <1>2, <1>5

\* In a total order of a finite set each place from the first to the last has the one
\* element that as many come before.
LEMMA Places ==
  ASSUME NEW S, IsFiniteSet(S), NEW order, TotalOn(order, S)
  PROVE  /\ Cardinality(S) \in Nat
         /\ \A x \in S : Cardinality(Before(S, order, x)) \in 0..Cardinality(S) - 1
         /\ \A x, y \in S : <<x, y>> \in order =>
              Cardinality(Before(S, order, x)) < Cardinality(Before(S, order, y))
         /\ \A k \in 1..Cardinality(S) : \E x \in S : Cardinality(Before(S, order, x)) = k - 1
<1> DEFINE n == Cardinality(S)
           B(x) == Before(S, order, x)
           place == [x \in S |-> Cardinality(B(x))]
<1>1. n \in Nat
  BY FS_CardinalityType
<1>2. \A x \in S : IsFiniteSet(B(x)) /\ Cardinality(B(x)) \in Nat
  BY FS_Subset, FS_CardinalityType DEF Before
<1>3. ASSUME NEW x \in S
      PROVE  Cardinality(B(x)) \in 0..n - 1
  <2>1. B(x) \subseteq S \ {x}
    BY DEF Before, TotalOn
  <2>2. IsFiniteSet(S \ {x}) /\ Cardinality(S \ {x}) = n - 1
    BY FS_RemoveElement
  <2>3. Cardinality(B(x)) <= n - 1
    BY <2>1, <2>2, FS_Subset
  <2> QED
    BY <1>1, <1>2, <2>3
<1>4. ASSUME NEW x \in S, NEW y \in S, <<x, y>> \in order
      PROVE  Cardinality(B(x)) < Cardinality(B(y))
  <2>1. B(x) \cup {x} \subseteq B(y) /\ x \notin B(x)
    BY <1>4 DEF Before, TotalOn
  <2>2. IsFiniteSet(B(x) \cup {x}) /\ Cardinality(B(x) \cup {x}) = Cardinality(B(x)) + 1
    BY <1>2, <2>1, FS_AddElement
  <2>3. Cardinality(B(x) \cup {x}) <= Cardinality(B(y))
    BY <1>2, <2>1, FS_Subset
  <2> QED
    BY <1>2, <2>2, <2>3
<1>5. place \in Injection(S, 0..n - 1)
  <2>1. place \in [S -> 0..n - 1]
    BY <1>3
  <2>2. ASSUME NEW x \in S, NEW y \in S, x # y
        PROVE  place[x] # place[y]
    <3>1. Cardinality(B(x)) < Cardinality(B(y)) \/ Cardinality(B(y)) < Cardinality(B(x))
      BY <1>4, <2>2 DEF TotalOn
    <3>2. Cardinality(B(x)) \in Nat /\ Cardinality(B(y)) \in Nat
      BY <1>2
    <3> QED
      BY <3>1, <3>2
  <2> QED
    BY <2>1, <2>2 DEF Injection, IsInjective
<1>6. IsFiniteSet(0..n - 1) /\ Cardinality(0..n - 1) = n
  <2>1. 0 \in Int /\ n - 1 \in Int
    BY <1>1
  <2>2. IsFiniteSet(0..n - 1)
        /\ Cardinality(0..n - 1) = IF 0 > n - 1 THEN 0 ELSE (n - 1) - 0 + 1
    BY <2>1, FS_Interval, Zenon
  <2> QED
    BY <1>1, <2>2
<1>7. place \in Surjection(S, 0..n - 1)
  BY <1>5, <1>6, FS_Injection
<1>8. ASSUME NEW k \in 1..n
      PROVE  \E x \in S : Cardinality(B(x)) = k - 1
  <2>1. k - 1 \in 0..n - 1
    BY <1>1
  <2>2. \E x \in S : place[x] = k - 1
    BY <1>7, <2>1 DEF Surjection
  <2> QED
    BY <2>2
<1> QED
  BY <1>1, <1>3, <1>4, <1>8

LEMMA InOrderFacts ==
  ASSUME NEW S, IsFiniteSet(S), NEW order, TotalOn(order, S)
  PROVE  /\ Cardinality(S) \in Nat
         /\ InOrder(S, order) \in [1..Cardinality(S) -> S]
         /\ \A x \in S : \E k \in 1..Cardinality(S) : InOrder(S, order)[k] = x
         /\ \A i, j \in 1..Cardinality(S) :
              i < j => <<InOrder(S, order)[i], InOrder(S, order)[j]>> \in order
<1> DEFINE n == Cardinality(S)
           s == InOrder(S, order)
           place(x) == Cardinality(Before(S, order, x))
<1>1. /\ n \in Nat
      /\ \A x \in S : place(x) \in 0..n - 1
      /\ \A x, y \in S : <<x, y>> \in order => place(x) < place(y)
      /\ \A k \in 1..n : \E x \in S : place(x) = k - 1
  BY Places
<1>2. s = [k \in 1..n |-> CHOOSE x \in S : place(x) = k - 1]
  BY DEF InOrder, Before
<1>3. \A k \in 1..n : s[k] \in S /\ place(s[k]) = k - 1
  BY <1>1, <1>2
<1> HIDE DEF s, place, n
<1>4. ASSUME NEW x \in S, NEW y \in S, x # y
      PROVE  place(x) # place(y)
  <2>1. place(x) < place(y) \/ place(y) < place(x)
    BY <1>1, <1>4 DEF TotalOn
  <2> QED
    BY <1>1, <2>1
<1>5. \A x \in S : place(x) + 1 \in 1..n /\ s[place(x) + 1] = x
  BY <1>1, <1>3, <1>4
<1>6. ASSUME NEW i \in 1..n, NEW j \in 1..n, i < j
      PROVE  <<s[i], s[j]>> \in order
  <2>1. s[i] \in S /\ s[j] \in S /\ place(s[i]) < place(s[j])
    BY <1>1, <1>3, <1>6
  <2>2. ~(place(s[j]) < place(s[i])) /\ s[i] # s[j]
    BY <1>1, <2>1
  <2> QED
    BY <1>1, <2>1, <2>2 DEF TotalOn
<1>7. s \in [1..n -> S]
  BY <1>2, <1>3
<1> QED
  BY <1>1, <1>5, <1>6, <1>7 DEF s, n

LEMMA UpwardsTotal ==
  ASSUME NEW S \in SUBSET Int
  PROVE  TotalOn(Upwards, S)
BY DEF TotalOn, Upwards

\* A non-empty set of numbers has a least one.
LEMMA Least ==
  ASSUME NEW D \in SUBSET Nat, D # {}
  PROVE  \E n \in D : \A m \in D : n <= m
<1> SUFFICES ASSUME \A n \in D : \E m \in D : m < n
             PROVE  FALSE
  OBVIOUS
<1> DEFINE T == {n \in Nat : \A m \in 0..n : m \notin D}
<1>1. 0 \in T
  OBVIOUS
<1>2. ASSUME NEW n \in T
      PROVE  n + 1 \in T
  <2>1. \A m \in 0..n + 1 : m \in 0..n \/ m = n + 1
    OBVIOUS
  <2>2. n + 1 \notin D
    OBVIOUS
  <2> QED
    BY <2>1, <2>2
<1>3. T = Nat
  <2> HIDE DEF T
  <2>1. T \subseteq Nat
    BY DEF T
  <2> QED
    BY <1>1, <1>2, <2>1, Succession
<1>4. PICK n \in D : TRUE
  OBVIOUS
<1> QED
  BY <1>3, <1>4

LEMMA BeginningOf ==
  ASSUME NEW A, NEW s \in Seq(A), NEW n \in 0..Len(s)
  PROVE  /\ SubSeq(s, 1, n) \in Seq(A) /\ Len(SubSeq(s, 1, n)) = n
         /\ \A i \in 1..n : SubSeq(s, 1, n)[i] = s[i]
<1>1. \A i \in 1..n : s[i] \in A
  OBVIOUS
<1> QED
  BY <1>1, SubSeqProperties

LEMMA SameBeginning ==
  ASSUME NEW A, NEW s \in Seq(A), NEW t \in Seq(A), NEW n \in 0..Len(s), n \in 0..Len(t)
  PROVE  SubSeq(s, 1, n) = SubSeq(t, 1, n) <=> \A i \in 1..n : s[i] = t[i]
<1> DEFINE u == SubSeq(s, 1, n)
           v == SubSeq(t, 1, n)
<1>1. /\ u \in Seq(A) /\ Len(u) = n /\ \A i \in 1..n : u[i] = s[i]
      /\ v \in Seq(A) /\ Len(v) = n /\ \A i \in 1..n : v[i] = t[i]
  BY BeginningOf
<1> HIDE DEF u, v
<1>2. u = v <=> \A i \in 1..n : u[i] = v[i]
  BY <1>1, SeqEqual
<1> QED
  BY <1>1, <1>2 DEF u, v

\* What Lexical says, place by place.
LessAt(s, t, order, i) ==
  /\ i \in 1..Len(t) /\ i <= Len(s) + 1
  /\ \A j \in 1..i - 1 : s[j] = t[j]
  /\ i = Len(s) + 1 \/ <<s[i], t[i]>> \in order

LEMMA LexicalAt ==
  ASSUME NEW A, NEW order, NEW s \in Seq(A), NEW t \in Seq(A)
  PROVE  Lexical(s, t, order) <=> \E i \in Int : LessAt(s, t, order, i)
<1>1. ASSUME NEW i \in 1..Len(t), i <= Len(s) + 1
      PROVE  SubSeq(s, 1, i - 1) = SubSeq(t, 1, i - 1)
               <=> \A j \in 1..i - 1 : s[j] = t[j]
  <2>1. i - 1 \in 0..Len(s) /\ i - 1 \in 0..Len(t)
    BY <1>1
  <2> QED
    BY <2>1, SameBeginning
<1>2. ASSUME Lexical(s, t, order)
      PROVE  \E i \in Int : LessAt(s, t, order, i)
  <2>1. PICK i \in 1..Len(t) :
          /\ i <= Len(s) + 1 /\ SubSeq(s, 1, i - 1) = SubSeq(t, 1, i - 1)
          /\ i = Len(s) + 1 \/ <<s[i], t[i]>> \in order
    BY <1>2 DEF Lexical
  <2>2. LessAt(s, t, order, i) /\ i \in Int
    BY <1>1, <2>1 DEF LessAt
  <2> QED
    BY <2>2
<1>3. ASSUME NEW i \in Int, LessAt(s, t, order, i)
      PROVE  Lexical(s, t, order)
  BY <1>1, <1>3 DEF Lexical, LessAt
<1> QED
  BY <1>2, <1>3

\* The texts over an order are in order.
LEMMA LexicalTotal ==
  ASSUME NEW A, NEW order, TotalOn(order, A)
  PROVE  /\ \A s \in Seq(A) : ~Lexical(s, s, order)
         /\ \A s, t, u \in Seq(A) :
              Lexical(s, t, order) /\ Lexical(t, u, order) => Lexical(s, u, order)
         /\ \A s, t \in Seq(A) : s # t => Lexical(s, t, order) \/ Lexical(t, s, order)
<1> DEFINE Less(s, t, i) == LessAt(s, t, order, i)
<1>1. \A s, t \in Seq(A) : Lexical(s, t, order) <=> \E i \in Int : Less(s, t, i)
  BY LexicalAt
<1>2. \A s \in Seq(A) : /\ Len(s) \in Nat
                        /\ \A i \in 1..Len(s) : s[i] \in A
  OBVIOUS
<1>3. ASSUME NEW s \in Seq(A)
      PROVE  ~Lexical(s, s, order)
  <2> SUFFICES ASSUME NEW i \in Int, Less(s, s, i) PROVE FALSE
    BY <1>1
  <2> QED
    BY <1>2 DEF TotalOn, LessAt
<1>4. ASSUME NEW s \in Seq(A), NEW t \in Seq(A), NEW u \in Seq(A),
             Lexical(s, t, order), Lexical(t, u, order)
      PROVE  Lexical(s, u, order)
  <2>1. PICK i \in Int : Less(s, t, i)
    BY <1>1, <1>4
  <2>2. PICK j \in Int : Less(t, u, j)
    BY <1>1, <1>4
  <2>3. CASE i < j
    <3>1. t[i] = u[i] /\ \A k \in 1..i - 1 : s[k] = u[k]
      BY <2>1, <2>2, <2>3 DEF LessAt
    <3>2. Less(s, u, i)
      BY <1>2, <2>1, <2>2, <2>3, <3>1 DEF LessAt
    <3> QED
      BY <1>1, <3>2
  <2>4. CASE j < i
    <3>1. s[j] = t[j] /\ \A k \in 1..j - 1 : s[k] = u[k]
      BY <2>1, <2>2, <2>4 DEF LessAt
    <3>2. Less(s, u, j)
      BY <1>2, <2>1, <2>2, <2>4, <3>1 DEF LessAt
    <3> QED
      BY <1>1, <3>2
  <2>5. CASE i = j
    <3>1. \A k \in 1..i - 1 : s[k] = u[k]
      BY <2>1, <2>2, <2>5 DEF LessAt
    <3>2. i = Len(s) + 1 \/ <<s[i], u[i]>> \in order
      <4> SUFFICES ASSUME i # Len(s) + 1 PROVE <<s[i], u[i]>> \in order
        OBVIOUS
      <4>1. i \in 1..Len(s) /\ i \in 1..Len(t) /\ i \in 1..Len(u)
        BY <1>2, <2>1, <2>2, <2>5 DEF LessAt
      <4>2. s[i] \in A /\ t[i] \in A /\ u[i] \in A
        BY <1>2, <4>1
      <4>3. <<s[i], t[i]>> \in order /\ <<t[i], u[i]>> \in order
        BY <1>2, <2>1, <2>2, <2>5, <4>1 DEF LessAt
      <4> QED
        BY <4>2, <4>3 DEF TotalOn
    <3>3. Less(s, u, i)
      BY <1>2, <2>1, <2>2, <2>5, <3>1, <3>2 DEF LessAt
    <3> QED
      BY <1>1, <3>3
  <2> QED
    BY <2>3, <2>4, <2>5
<1>5. ASSUME NEW s \in Seq(A), NEW t \in Seq(A), s # t
      PROVE  Lexical(s, t, order) \/ Lexical(t, s, order)
  <2> DEFINE D == {i \in Nat \ {0} : i > Len(s) \/ i > Len(t) \/ s[i] # t[i]}
  <2>1. Len(s) + 1 \in D /\ D \subseteq Nat
    BY <1>2
  <2>2. PICK i \in D : \A j \in D : i <= j
    <3> HIDE DEF D
    <3> QED
      BY <2>1, Least
  <2>3. /\ i \in Nat \ {0} /\ i <= Len(s) + 1 /\ i <= Len(t) + 1
        /\ \A j \in 1..i - 1 : s[j] = t[j]
    <3>1. Len(t) + 1 \in D
      BY <1>2
    <3>2. \A j \in 1..i - 1 : j \notin D
      BY <2>2
    <3> QED
      BY <1>2, <2>1, <2>2, <3>1, <3>2 DEF LessAt
  <2>4. CASE i <= Len(s) /\ i <= Len(t)
    <3>1. s[i] # t[i] /\ s[i] \in A /\ t[i] \in A
      BY <1>2, <2>2, <2>4
    <3>2. <<s[i], t[i]>> \in order \/ <<t[i], s[i]>> \in order
      BY <3>1 DEF TotalOn
    <3>3. \A j \in 1..i - 1 : t[j] = s[j]
      BY <2>3
    <3>4. Less(s, t, i) \/ Less(t, s, i)
      BY <1>2, <2>3, <2>4, <3>2, <3>3 DEF LessAt
    <3> QED
      BY <1>1, <2>3, <3>4
  <2>5. CASE i = Len(s) + 1 /\ i <= Len(t)
    <3>1. Less(s, t, i)
      BY <1>2, <2>3, <2>5 DEF LessAt
    <3> QED
      BY <1>1, <2>3, <3>1
  <2>6. CASE i = Len(t) + 1 /\ i <= Len(s)
    <3>1. Less(t, s, i)
      BY <1>2, <2>3, <2>6 DEF LessAt
    <3> QED
      BY <1>1, <2>3, <3>1
  <2>7. CASE i = Len(t) + 1 /\ i = Len(s) + 1
    <3>1. Len(s) = Len(t) /\ \A j \in 1..Len(s) : s[j] = t[j]
      BY <1>2, <2>3, <2>7 DEF LessAt
    <3> QED
      BY <1>5, <3>1, SeqEqual
  <2> QED
    BY <1>2, <2>3, <2>4, <2>5, <2>6, <2>7 DEF LessAt
<1> QED
  BY <1>3, <1>4, <1>5

\* The places of a sequence, counted, are in the order of the sequence.
LEMMA AtFacts ==
  ASSUME NEW A, NEW s \in Seq(A), NEW P \in SUBSET DOMAIN s
  PROVE  /\ At(s, P) \in Seq(A)
         /\ Len(At(s, P)) = Cardinality(P) /\ Cardinality(P) \in Nat
         /\ \E e \in [1..Cardinality(P) -> P] :
              /\ \A k \in 1..Cardinality(P) : At(s, P)[k] = s[e[k]]
              /\ \A p \in P : \E k \in 1..Cardinality(P) : e[k] = p
              /\ \A j, k \in 1..Cardinality(P) : j < k => e[j] < e[k]
<1> DEFINE n == Cardinality(P)
           e == InOrder(P, Upwards)
<1>1. DOMAIN s = 1..Len(s) /\ Len(s) \in Nat
  OBVIOUS
<1>2. IsFiniteSet(P)
  <2>1. IsFiniteSet(1..Len(s))
    BY <1>1, FS_Interval
  <2> QED
    BY <1>1, <2>1, FS_Subset
<1>3. TotalOn(Upwards, P)
  <2>1. P \in SUBSET Int
    BY <1>1
  <2> QED
    BY <2>1, UpwardsTotal
<1>4. /\ n \in Nat /\ e \in [1..n -> P]
      /\ \A p \in P : \E k \in 1..n : e[k] = p
      /\ \A j, k \in 1..n : j < k => <<e[j], e[k]>> \in Upwards
  BY <1>2, <1>3, InOrderFacts
<1>5. At(s, P) = [k \in 1..n |-> s[e[k]]]
  BY <1>4 DEF At
<1> HIDE DEF n, e
<1>6. \A k \in 1..n : s[e[k]] \in A
  BY <1>1, <1>4
<1>7. At(s, P) \in Seq(A) /\ Len(At(s, P)) = n
  BY <1>4, <1>5, <1>6
<1>8. \A j, k \in 1..n : j < k => e[j] < e[k]
  BY <1>4 DEF Upwards
<1> QED
  BY <1>4, <1>5, <1>7, <1>8 DEF n

LEMMA AtRange ==
  ASSUME NEW A, NEW s \in Seq(A), NEW P \in SUBSET DOMAIN s
  PROVE  Range(At(s, P)) = {s[i] : i \in P}
<1>1. PICK e \in [1..Cardinality(P) -> P] :
        /\ \A k \in 1..Cardinality(P) : At(s, P)[k] = s[e[k]]
        /\ \A p \in P : \E k \in 1..Cardinality(P) : e[k] = p
  BY AtFacts
<1>2. DOMAIN At(s, P) = 1..Cardinality(P)
  BY AtFacts
<1> QED
  BY <1>1, <1>2 DEF Range

LEMMA AmongFacts ==
  ASSUME NEW A, NEW s \in Seq(A), NEW S
  PROVE  Among(s, S) \in Seq(A) /\ Range(Among(s, S)) = Range(s) \cap S
<1> DEFINE P == {i \in DOMAIN s : s[i] \in S}
<1>1. P \in SUBSET DOMAIN s
  OBVIOUS
<1>2. {s[i] : i \in P} = Range(s) \cap S
  BY DEF Range
<1> HIDE DEF P
<1>3. At(s, P) \in Seq(A) /\ Range(At(s, P)) = {s[i] : i \in P}
  BY <1>1, AtFacts, AtRange
<1> QED
  BY <1>2, <1>3 DEF Among, P

(***************************************************************************)
(* The index.                                                              *)
(***************************************************************************)
\* A term has the norm of its surface, and no other term of the index has it.
TermType(t) == t.surface \in Surface /\ t.norm = t.surface.words /\ t.count \in Nat

TermsType(terms) ==
  /\ IsFiniteSet(terms)
  /\ \A t \in terms : TermType(t)
  /\ \A s, t \in terms : s.norm = t.norm => s = t

\* A link id names one report of the index, and not the report that it has not.
ReportsType(reports) ==
  /\ reports \in Seq(Rows)
  /\ \A i \in DOMAIN reports :
       /\ reports[i].link # Unindexed.link
       /\ \A j \in DOMAIN reports : reports[i].link = reports[j].link => i = j

IndexType(ix) == ReportsType(ix.reports) /\ TermsType(ix.terms)

LEMMA Parameters ==
  /\ Letter \subseteq Nat \ {0} /\ FacetLetter \subseteq Letter
  /\ MinTermLen \in Nat \ {0} /\ Depth \in Nat \ {0} /\ DaysPerYear \in Nat \ {0}
  /\ FatThreshold \in Nat /\ EntryPrefix \in Nat \ {0} /\ EntryPrefix <= Depth
  /\ MaxLimit \in Nat \ {0} /\ PageWindow \in Nat \ {0} /\ RelatedN \in Nat \ {0}
  /\ DidYouMeanN \in Nat \ {0} /\ Offers \subseteq Nat \ {0}
  /\ TermCap \in Nat \ {0} /\ TruncateAt \in Nat \ {0} /\ CommonN \in Nat \ {0}
  /\ RecentN \in Nat \ {0} /\ TitleTermsN \in Nat \ {0} /\ MaxRows \in Nat \ {0}
  /\ Nothing \notin Int /\ Wrong \notin Int /\ Wrong \notin STRING /\ Wrong # Nothing
  /\ Typed \subseteq Address /\ Nothing \notin Address
BY IndexAssumption, AddressAssumption, SearchAssumption, PagesAssumption

LEMMA SurfaceFields ==
  ASSUME NEW s \in Surface
  PROVE  s.words \in Seq(Word) /\ s.dress \in Nat
BY DEF Surface

LEMMA WordFacts ==
  ASSUME NEW w \in Word
  PROVE  /\ w \in Seq(Letter) /\ w \in Seq(Int) /\ w \in Seq(Nat)
         /\ Len(w) \in Nat \ {0} /\ \A i \in 1..Len(w) : w[i] \in Letter
<1>1. w \in Seq(Letter) /\ w # <<>>
  BY DEF Word
<1>2. Letter \subseteq Int /\ Letter \subseteq Nat
  BY Parameters
<1>3. w \in Seq(Int) /\ w \in Seq(Nat)
  BY <1>1, <1>2, SeqMonotonic
<1> QED
  BY <1>1, <1>3

LEMMA WordsAreTexts == Word \subseteq Seq(Int)
BY WordFacts

LEMMA TextsOrdered == TotalOn(TextOrder, Seq(Int))
<1>1. TotalOn(Upwards, Int)
  BY UpwardsTotal
<1>2. /\ \A s \in Seq(Int) : ~TextBefore(s, s)
      /\ \A s, t, u \in Seq(Int) : TextBefore(s, t) /\ TextBefore(t, u) => TextBefore(s, u)
      /\ \A s, t \in Seq(Int) : s # t => TextBefore(s, t) \/ TextBefore(t, s)
  BY <1>1, LexicalTotal DEF TextBefore
<1>3. \A s, t \in Seq(Int) : <<s, t>> \in TextOrder <=> TextBefore(s, t)
  BY DEF TextOrder
<1> QED
  BY <1>2, <1>3 DEF TotalOn

LEMMA SurfacesOrdered ==
  /\ \A s \in Surface : ~SurfaceBefore(s, s)
  /\ \A s, t, u \in Surface :
       SurfaceBefore(s, t) /\ SurfaceBefore(t, u) => SurfaceBefore(s, u)
  /\ \A s, t \in Surface : s.words # t.words => SurfaceBefore(s, t) \/ SurfaceBefore(t, s)
<1> DEFINE L(s, t) == Lexical(s, t, TextOrder)
<1>1. TotalOn(TextOrder, Word)
  BY TextsOrdered, WordsAreTexts DEF TotalOn
<1>2. /\ \A s \in Seq(Word) : ~L(s, s)
      /\ \A s, t, u \in Seq(Word) : L(s, t) /\ L(t, u) => L(s, u)
      /\ \A s, t \in Seq(Word) : s # t => L(s, t) \/ L(t, s)
  BY <1>1, LexicalTotal
<1>3. \A s, t \in Surface :
        SurfaceBefore(s, t) <=> L(s.words, t.words) \/ (s.words = t.words /\ s.dress < t.dress)
  BY DEF SurfaceBefore
<1> HIDE DEF L
<1>4. \A s \in Surface : ~SurfaceBefore(s, s)
  BY <1>2, <1>3, SurfaceFields
<1>5. ASSUME NEW s \in Surface, NEW t \in Surface, NEW u \in Surface,
             SurfaceBefore(s, t), SurfaceBefore(t, u)
      PROVE  SurfaceBefore(s, u)
  BY <1>2, <1>3, <1>5, SurfaceFields
<1>6. \A s, t \in Surface : s.words # t.words => SurfaceBefore(s, t) \/ SurfaceBefore(t, s)
  BY <1>2, <1>3, SurfaceFields
<1> QED
  BY <1>4, <1>5, <1>6

\* The terms by count are the terms.
LEMMA ByCountFacts ==
  ASSUME NEW terms, TermsType(terms)
  PROVE  /\ ByCount(terms) \in Seq(terms) /\ Len(ByCount(terms)) = Cardinality(terms)
         /\ Range(ByCount(terms)) = terms /\ Cardinality(terms) \in Nat
<1> DEFINE first(s, t) == \/ s.count > t.count
                          \/ s.count = t.count /\ SurfaceBefore(s.surface, t.surface)
           order == {p \in terms \X terms : first(p[1], p[2])}
<1>1. \A s, t \in terms : <<s, t>> \in order <=> first(s, t)
  OBVIOUS
<1>2. \A t \in terms : t.surface \in Surface /\ t.norm = t.surface.words /\ t.count \in Nat
  BY DEF TermsType, TermType
<1>3. \A t \in terms : ~first(t, t)
  BY <1>2, SurfacesOrdered
<1>4. ASSUME NEW s \in terms, NEW t \in terms, NEW u \in terms, first(s, t), first(t, u)
      PROVE  first(s, u)
  <2>1. SurfaceBefore(s.surface, t.surface) /\ SurfaceBefore(t.surface, u.surface)
          => SurfaceBefore(s.surface, u.surface)
    BY <1>2, SurfacesOrdered
  <2> QED
    BY <1>2, <1>4, <2>1
<1>5. ASSUME NEW s \in terms, NEW t \in terms, s # t
      PROVE  first(s, t) \/ first(t, s)
  <2>1. s.surface.words # t.surface.words
    BY <1>2, <1>5 DEF TermsType
  <2>2. SurfaceBefore(s.surface, t.surface) \/ SurfaceBefore(t.surface, s.surface)
    BY <1>2, <2>1, SurfacesOrdered
  <2> QED
    BY <1>2, <2>2
<1> HIDE DEF first, order
<1>6. TotalOn(order, terms)
  BY <1>1, <1>3, <1>4, <1>5 DEF TotalOn
<1>7. /\ Cardinality(terms) \in Nat
      /\ InOrder(terms, order) \in [1..Cardinality(terms) -> terms]
      /\ \A t \in terms : \E k \in 1..Cardinality(terms) : InOrder(terms, order)[k] = t
  BY <1>6, InOrderFacts DEF TermsType
<1>8. ByCount(terms) = InOrder(terms, order)
  BY DEF ByCount, order, first
<1>9. Range(InOrder(terms, order)) = terms
  BY <1>7 DEF Range
<1> QED
  BY <1>7, <1>8, <1>9

LEMMA MinFacts ==
  ASSUME NEW D \in SUBSET Nat, D # {}
  PROVE  Min(D) \in D /\ \A m \in D : Min(D) <= m
BY Least DEF Min

LEMMA FiniteImage ==
  ASSUME NEW S, IsFiniteSet(S), NEW T, NEW f \in [S -> T]
  PROVE  IsFiniteSet(Range(f))
<1>1. f \in Surjection(S, Range(f))
  BY DEF Surjection, Range
<1> QED
  BY <1>1, FS_Surjection

\* The rows of a term are the beginnings of its words.
LEMMA PrefixRowsAre ==
  ASSUME NEW t, TermType(t), NEW p
  PROVE  p \in PrefixRows(t) <=>
           \E w \in Range(t.norm) \ Stopword, n \in 1..Depth :
             w \in Word /\ n <= Len(w) /\ p = SubSeq(w, 1, n)
<1>1. \A w \in Range(t.norm) : w \in Word
  <2>1. t.norm \in Seq(Word)
    BY SurfaceFields DEF TermType
  <2> QED
    BY <2>1 DEF Range
<1>2. ASSUME NEW w \in Word
      PROVE  Min({Depth, Len(w)}) = IF Depth <= Len(w) THEN Depth ELSE Len(w)
  BY Parameters, WordFacts, MinPair
<1>3. \A w \in Word, n \in Int :
        n \in 1..Min({Depth, Len(w)}) <=> n \in 1..Depth /\ n <= Len(w)
  BY <1>2, Parameters, WordFacts
<1>4. p \in PrefixRows(t) <=>
        \E w \in Range(t.norm) \ Stopword : \E n \in 1..Min({Depth, Len(w)}) :
          p = SubSeq(w, 1, n)
  <2> DEFINE W == Range(t.norm) \ Stopword
             F(w) == {SubSeq(w, 1, n) : n \in 1..Min({Depth, Len(w)})}
  <2>1. PrefixRows(t) = UNION {F(w) : w \in W}
    BY DEF PrefixRows
  <2>2. \A w \in W : p \in F(w) <=> \E n \in 1..Min({Depth, Len(w)}) : p = SubSeq(w, 1, n)
    OBVIOUS
  <2> HIDE DEF F, W
  <2>3. p \in UNION {F(w) : w \in W} <=> \E w \in W : p \in F(w)
    OBVIOUS
  <2> QED
    BY <2>1, <2>2, <2>3 DEF W
<1>5. ASSUME NEW w \in Range(t.norm) \ Stopword, NEW n \in Int
      PROVE  n \in 1..Min({Depth, Len(w)}) <=> w \in Word /\ n \in 1..Depth /\ n <= Len(w)
  BY <1>1, <1>3
<1>6. ASSUME NEW w \in Range(t.norm) \ Stopword
      PROVE  (\E n \in 1..Min({Depth, Len(w)}) : p = SubSeq(w, 1, n))
               <=> \E n \in 1..Depth : w \in Word /\ n <= Len(w) /\ p = SubSeq(w, 1, n)
  BY <1>5
<1> QED
  BY <1>4, <1>6, Zenon

LEMMA BeginningOfWord ==
  ASSUME NEW w \in Word, NEW n \in 1..Len(w)
  PROVE  /\ SubSeq(w, 1, n) \in Word /\ Len(SubSeq(w, 1, n)) = n
         /\ \A i \in 1..n : SubSeq(w, 1, n)[i] = w[i]
<1>1. /\ SubSeq(w, 1, n) \in Seq(Letter) /\ Len(SubSeq(w, 1, n)) = n
      /\ \A i \in 1..n : SubSeq(w, 1, n)[i] = w[i]
  BY WordFacts, BeginningOf
<1>2. SubSeq(w, 1, n) # <<>>
  BY <1>1
<1> QED
  BY <1>1, <1>2 DEF Word

LEMMA PrefixRowType ==
  ASSUME NEW t, TermType(t), NEW p \in PrefixRows(t)
  PROVE  p \in Word /\ Len(p) \in 1..Depth
<1>1. PICK w \in Word, n \in 1..Depth : n <= Len(w) /\ p = SubSeq(w, 1, n)
  BY PrefixRowsAre
<1>2. n \in 1..Len(w)
  BY <1>1, WordFacts, Parameters
<1> QED
  BY <1>1, <1>2, BeginningOfWord

\* What a row begins with is a row.
LEMMA PrefixRowsClosed ==
  ASSUME NEW t, TermType(t), NEW c \in PrefixRows(t), NEW p \in Seq(Nat), Len(p) >= 1,
         IsPrefix(p, c)
  PROVE  p \in PrefixRows(t)
<1>1. PICK w \in Range(t.norm) \ Stopword, n \in 1..Depth :
        w \in Word /\ n <= Len(w) /\ c = SubSeq(w, 1, n)
  BY PrefixRowsAre
<1>2. n \in 1..Len(w)
  BY <1>1, WordFacts, Parameters
<1>3. Len(c) = n /\ c \in Seq(Nat) /\ \A i \in 1..n : c[i] = w[i]
  BY <1>1, <1>2, BeginningOfWord, WordFacts
<1>4. Len(p) \in 1..n /\ SubSeq(p, 1, Len(p)) = SubSeq(c, 1, Len(p))
  BY <1>2, <1>3 DEF IsPrefix
<1>5. p = SubSeq(c, 1, Len(p))
  BY <1>4, SubSeqFull
<1>6. Len(p) \in 1..Depth /\ Len(p) \in 1..Len(w)
  BY <1>2, <1>4, Parameters, WordFacts
<1>7. SubSeq(c, 1, Len(p)) = SubSeq(w, 1, Len(p))
  <2>1. w \in Seq(Nat) /\ Len(p) \in 0..Len(w) /\ Len(p) \in 0..Len(c)
    BY <1>1, <1>3, <1>4, <1>6, WordFacts
  <2>2. \A i \in 1..Len(p) : c[i] = w[i]
    BY <1>3, <1>4
  <2> QED
    BY <1>3, <2>1, <2>2, SameBeginning
<1>8. Len(p) <= Len(w) /\ p = SubSeq(w, 1, Len(p))
  BY <1>5, <1>6, <1>7
<1> QED
  BY <1>1, <1>6, <1>8, PrefixRowsAre

\* The terms at a prefix that are found at a longer one are all that are there.
LEMMA ReachedBelow ==
  ASSUME NEW terms, \A t \in terms : TermType(t),
         NEW p \in Seq(Nat), Len(p) >= 1, NEW c, IsPrefix(p, c)
  PROVE  Reached(Reached(terms, p), c) = Reached(terms, c)
BY PrefixRowsClosed DEF Reached

LEMMA ReachedType ==
  ASSUME NEW terms, TermsType(terms), NEW p
  PROVE  TermsType(Reached(terms, p))
<1>1. Reached(terms, p) \subseteq terms
  BY DEF Reached
<1> QED
  BY <1>1, FS_Subset DEF TermsType

LEMMA PrefixRowsFinite ==
  ASSUME NEW t, TermType(t)
  PROVE  IsFiniteSet(PrefixRows(t))
<1> DEFINE rows == [p \in Range(t.norm) \X (1..Depth) |-> SubSeq(p[1], 1, p[2])]
<1>1. IsFiniteSet(Range(t.norm))
  <2>1. t.norm \in Seq(Word)
    BY SurfaceFields DEF TermType
  <2>2. DOMAIN t.norm = 1..Len(t.norm) /\ Len(t.norm) \in Nat
    BY <2>1
  <2>3. IsFiniteSet(1..Len(t.norm))
    BY <2>2, FS_Interval
  <2>4. t.norm \in [1..Len(t.norm) -> Word]
    BY <2>1
  <2> QED
    BY <2>3, <2>4, FiniteImage
<1>2. IsFiniteSet(1..Depth)
  BY Parameters, FS_Interval
<1>3. IsFiniteSet(Range(rows))
  <2>1. IsFiniteSet(Range(t.norm) \X (1..Depth))
    BY <1>1, <1>2, FS_Product
  <2>2. rows \in [Range(t.norm) \X (1..Depth) -> Range(rows)]
    BY DEF Range
  <2> QED
    BY <2>1, <2>2, FiniteImage
<1>4. PrefixRows(t) \subseteq Range(rows)
  <2> SUFFICES ASSUME NEW p \in PrefixRows(t) PROVE p \in Range(rows)
    OBVIOUS
  <2>1. PICK w \in Range(t.norm), n \in 1..Depth : p = SubSeq(w, 1, n)
    BY PrefixRowsAre
  <2>2. <<w, n>> \in DOMAIN rows /\ rows[<<w, n>>] = p
    BY <2>1
  <2> QED
    BY <2>2 DEF Range
<1> QED
  BY <1>3, <1>4, FS_Subset

LEMMA ExtensionsFacts ==
  ASSUME NEW terms, IsFiniteSet(terms), \A t \in terms : TermType(t), NEW prefix
  PROVE  /\ IsFiniteSet(Extensions(terms, prefix))
         /\ \A c \in Extensions(terms, prefix) :
              /\ c \in Word /\ Len(c) \in 1..Depth
              /\ Len(c) = Len(prefix) + 1 /\ IsPrefix(prefix, c)
              /\ \E t \in terms : c \in PrefixRows(t)
<1> DEFINE rows == [t \in terms |-> PrefixRows(t)]
<1>1. IsFiniteSet(Range(rows))
  <2>1. rows \in [terms -> Range(rows)]
    BY DEF Range
  <2> HIDE DEF rows
  <2> QED
    BY <2>1, FiniteImage
<1>2. \A R \in Range(rows) : IsFiniteSet(R)
  BY PrefixRowsFinite DEF Range
<1>3. IsFiniteSet(UNION Range(rows))
  BY <1>1, <1>2, FS_UNION
<1>4. Extensions(terms, prefix) \subseteq UNION Range(rows)
  BY DEF Extensions, Range
<1>5. IsFiniteSet(Extensions(terms, prefix))
  BY <1>3, <1>4, FS_Subset
<1>6. ASSUME NEW c \in Extensions(terms, prefix)
      PROVE  /\ Len(c) = Len(prefix) + 1 /\ IsPrefix(prefix, c)
             /\ \E t \in terms : c \in PrefixRows(t)
  BY DEF Extensions
<1> QED
  BY <1>5, <1>6, PrefixRowType

\* The largest extension is one.
LEMMA RankedFacts ==
  ASSUME NEW terms, IsFiniteSet(terms), \A t \in terms : TermType(t), NEW prefix,
         Ranked(terms, prefix) # <<>>
  PROVE  Ranked(terms, prefix)[1] \in Extensions(terms, prefix)
<1> DEFINE found == Extensions(terms, prefix)
           n(c) == CountWith(terms, c)
           first(b, c) == n(b) > n(c) \/ (n(b) = n(c) /\ TextBefore(b, c))
           order == {p \in found \X found : first(p[1], p[2])}
<1>1. IsFiniteSet(found) /\ \A c \in found : c \in Seq(Int)
  BY ExtensionsFacts, WordFacts
<1>2. \A c \in found : n(c) \in Nat
  BY FS_Subset, FS_CardinalityType DEF CountWith
<1>3. \A b, c \in found : <<b, c>> \in order <=> first(b, c)
  OBVIOUS
<1>4. /\ \A c \in Seq(Int) : ~TextBefore(c, c)
      /\ \A b, c, d \in Seq(Int) : TextBefore(b, c) /\ TextBefore(c, d) => TextBefore(b, d)
      /\ \A b, c \in Seq(Int) : b # c => TextBefore(b, c) \/ TextBefore(c, b)
  BY TextsOrdered DEF TotalOn, TextOrder
<1> HIDE DEF found, n
<1>5. TotalOn(order, found)
  <2>1. \A c \in found : ~first(c, c)
    BY <1>1, <1>2, <1>4
  <2>2. ASSUME NEW b \in found, NEW c \in found, NEW d \in found, first(b, c), first(c, d)
        PROVE  first(b, d)
    BY <1>1, <1>2, <1>4, <2>2
  <2>3. \A b, c \in found : b # c => first(b, c) \/ first(c, b)
    BY <1>1, <1>2, <1>4
  <2> HIDE DEF first, order
  <2> QED
    BY <1>3, <2>1, <2>2, <2>3 DEF TotalOn
<1>6. Ranked(terms, prefix) = InOrder(found, order)
  BY DEF Ranked, found, n
<1>7. /\ Cardinality(found) \in Nat
      /\ InOrder(found, order) \in [1..Cardinality(found) -> found]
  BY <1>1, <1>5, InOrderFacts
<1>8. Cardinality(found) # 0
  <2> SUFFICES ASSUME Cardinality(found) = 0 PROVE FALSE
    OBVIOUS
  <2>1. found = {}
    BY <1>1, FS_EmptySet
  <2>2. InOrder(found, order) = <<>>
    BY <1>7, <2>1
  <2> QED
    BY <1>6, <2>2
<1> QED
  BY <1>6, <1>7, <1>8 DEF found

LEMMA UntitledType == Untitled \in Surface
<1>1. <<>> \in Seq(Word) /\ 0 \in Nat
  OBVIOUS
<1> QED
  BY <1>1 DEF Untitled, Text, Surface

LEMMA BillNameType ==
  ASSUME NEW title \in Surface
  PROVE  BillName(title) \in Surface
<1> DEFINE at == {i \in 2..Len(title.words) : title.words[i] = BillWord}
           last == Min(at) - 1
           cut == IF last > 1 /\ title.words[last] = Amendment THEN last - 1 ELSE last
<1>1. title.words \in Seq(Word) /\ title.dress \in Nat /\ Len(title.words) \in Nat
  BY SurfaceFields
<1>2. CASE at = {}
  BY <1>2, UntitledType DEF BillName
<1>3. CASE at # {}
  <2>1. at \in SUBSET Nat
    BY <1>1
  <2>2. Min(at) \in at
    BY <1>3, <2>1, MinFacts
  <2>3. cut \in 0..Len(title.words)
    BY <1>1, <2>2
  <2>4. SubSeq(title.words, 1, cut) \in Seq(Word)
    BY <1>1, <2>3, BeginningOf
  <2>5. BillName(title) = [title EXCEPT !.words = SubSeq(@, 1, cut)]
    BY <1>3 DEF BillName
  <2> HIDE DEF cut
  <2> QED
    BY <2>4, <2>5 DEF Surface
<1> QED
  BY <1>2, <1>3

LEMMA TopicTitleType ==
  ASSUME NEW title \in Surface
  PROVE  TopicTitle(title) \in Surface
<1> DEFINE kept == {i \in DOMAIN title.words : title.words[i] \notin Noise}
           rest == SubSeq(title.words, Min(kept), Len(title.words))
<1>1. title.words \in Seq(Word) /\ title.dress \in Nat /\ Len(title.words) \in Nat
      /\ DOMAIN title.words = 1..Len(title.words)
  BY SurfaceFields
<1>2. CASE kept = {}
  BY <1>2, UntitledType DEF TopicTitle
<1>3. CASE kept # {}
  <2>1. kept \in SUBSET Nat
    BY <1>1
  <2>2. Min(kept) \in kept
    BY <1>3, <2>1, MinFacts
  <2>3. Min(kept) \in 1..Len(title.words)
    BY <1>1, <2>2
  <2> HIDE DEF kept
  <2>6. Min(kept) \in Int /\ \A i \in Min(kept)..Len(title.words) : title.words[i] \in Word
    BY <1>1, <2>3
  <2>4. rest \in Seq(Word)
    BY <1>1, <2>6, SubSeqProperties
  <2>5. TopicTitle(title) = [title EXCEPT !.words = rest]
    BY <1>3 DEF TopicTitle, kept
  <2> HIDE DEF rest
  <2> QED
    BY <2>4, <2>5 DEF Surface
<1> QED
  BY <1>2, <1>3

LEMMA MentionsFacts ==
  ASSUME NEW rows \in Seq(Rows)
  PROVE  IsFiniteSet(Mentions(rows)) /\ \A m \in Mentions(rows) : m.surface \in Surface
<1> DEFINE surfaces(row) == <<BillName(row.title), TopicTitle(row.title), row.speaker, row.type>>
           I == DOMAIN rows
           K == DOMAIN Kinds
           P == I \X K
           mention(i, k) == [row |-> i, rank |-> k, surface |-> surfaces(rows[i])[k]]
           f == [p \in P |-> mention(p[1], p[2])]
           all == {mention(i, k) : i \in I, k \in K}
<1>1. Mentions(rows) \subseteq all
  BY DEF Mentions
<1>2. ASSUME NEW i \in I, NEW k \in K
      PROVE  surfaces(rows[i])[k] \in Surface
  <2>1. rows[i] \in Rows
    OBVIOUS
  <2>2. rows[i].title \in Surface /\ rows[i].type \in Surface /\ rows[i].speaker \in Surface
    BY <2>1 DEF Rows
  <2>3. k \in 1..4
    BY DEF Kinds
  <2>4. k = 1 \/ k = 2 \/ k = 3 \/ k = 4
    BY <2>3
  <2> QED
    BY <2>2, <2>4, BillNameType, TopicTitleType
<1>3. IsFiniteSet(P)
  <2>1. I = 1..Len(rows) /\ Len(rows) \in Int /\ K = 1..4
    BY DEF Kinds
  <2> HIDE DEF I, K
  <2>2. IsFiniteSet(1..Len(rows)) /\ IsFiniteSet(1..4)
    <3>1. \A n \in Int : IsFiniteSet(1..n)
      BY FS_Interval
    <3>2. 4 \in Int
      OBVIOUS
    <3> QED
      BY <2>1, <3>1, <3>2, Zenon
  <2>3. IsFiniteSet(I) /\ IsFiniteSet(K)
    BY <2>1, <2>2
  <2> QED
    BY <2>3, FS_Product
<1> HIDE DEF surfaces, I, K
<1>4. all \subseteq Range(f)
  <2>1. ASSUME NEW i \in I, NEW k \in K
        PROVE  mention(i, k) \in Range(f)
    <3> DEFINE p == <<i, k>>
    <3>1. p \in P /\ p[1] = i /\ p[2] = k
      OBVIOUS
    <3> HIDE DEF p, mention, P
    <3>2. p \in DOMAIN f /\ f[p] = mention(p[1], p[2])
      BY <3>1
    <3> QED
      BY <3>1, <3>2 DEF Range
  <2> HIDE DEF mention, f
  <2> QED
    BY <2>1
<1>5. IsFiniteSet(Range(f))
  <2>1. f \in [P -> Range(f)]
    BY DEF Range
  <2> HIDE DEF f, P
  <2> QED
    BY <1>3, <2>1, FiniteImage
<1>6. \A m \in all : m.surface \in Surface
  BY <1>2
<1> HIDE DEF all
<1> QED
  BY <1>1, <1>4, <1>5, <1>6, FS_Subset

\* The surface of a term is one of those that are mentioned.
LEMMA TermFacts ==
  ASSUME NEW mentions, IsFiniteSet(mentions), mentions # {}, NEW norm,
         \A m \in mentions : m.surface \in Surface /\ Norm(m.surface) = norm
  PROVE  TermType(Term(norm, mentions)) /\ Term(norm, mentions).norm = norm
<1> DEFINE N == Cardinality(mentions)
           times(s) == Cardinality({m \in mentions : m.surface = s})
           surfaces == {m.surface : m \in mentions}
           beats(s, t) == times(s) > times(t) \/ (times(s) = times(t) /\ s.dress <= t.dress)
           best == CHOOSE s \in surfaces : \A t \in surfaces : beats(s, t)
<1>1. N \in Nat
  BY FS_CardinalityType
<1>2. ASSUME NEW s
      PROVE  times(s) \in Nat /\ times(s) <= N
  <2>1. {m \in mentions : m.surface = s} \subseteq mentions
    OBVIOUS
  <2> QED
    BY <2>1, FS_Subset, FS_CardinalityType
<1>3. surfaces # {} /\ \A s \in surfaces : s \in Surface /\ Norm(s) = norm /\ s.dress \in Nat
  BY SurfaceFields
<1> HIDE DEF N, times, surfaces
<1>4. PICK s \in surfaces : \A t \in surfaces : beats(s, t)
  <2> DEFINE fewer == {N - times(t) : t \in surfaces}
  <2>1. fewer \in SUBSET Nat /\ fewer # {}
    BY <1>1, <1>2, <1>3
  <2>2. PICK a \in surfaces : \A t \in surfaces : N - times(a) <= N - times(t)
    <3>1. PICK d \in fewer : \A e \in fewer : d <= e
      <4> HIDE DEF fewer
      <4> QED
        BY <2>1, Least
    <3> QED
      BY <3>1
  <2>3. \A t \in surfaces : times(t) <= times(a)
    BY <1>1, <1>2, <2>2
  <2> DEFINE dresses == {t.dress : t \in {t \in surfaces : times(t) = times(a)}}
  <2>4. dresses \in SUBSET Nat /\ dresses # {}
    BY <1>3
  <2>5. PICK b \in surfaces :
          times(b) = times(a) /\ \A t \in surfaces : times(t) = times(a) => b.dress <= t.dress
    <3>1. PICK d \in dresses : \A e \in dresses : d <= e
      <4> HIDE DEF dresses
      <4> QED
        BY <2>4, Least
    <3> QED
      BY <3>1
  <2>6. \A t \in surfaces : beats(b, t)
    BY <1>2, <2>3, <2>5
  <2> QED
    BY <2>6
<1>5. best \in surfaces
  BY <1>4
<1>6. Term(norm, mentions) =
        [norm |-> norm, count |-> N, kind |-> Kinds[Min({m.rank : m \in mentions})],
         surface |-> best]
  BY DEF Term, N, times, surfaces
<1> HIDE DEF best
<1>7. best \in Surface /\ best.words = norm
  BY <1>3, <1>5 DEF Norm
<1> QED
  BY <1>1, <1>6, <1>7 DEF TermType

LEMMA TermsAreTyped ==
  ASSUME NEW rows \in Seq(Rows)
  PROVE  TermsType(ExtractTerms(rows))
<1> DEFINE all == Mentions(rows)
           norms == {Norm(m.surface) : m \in all}
           of(n) == {m \in all : Norm(m.surface) = n}
           f == [n \in norms |-> Term(n, of(n))]
           g == [m \in all |-> Norm(m.surface)]
<1>1. IsFiniteSet(all) /\ \A m \in all : m.surface \in Surface
  BY MentionsFacts
<1> HIDE DEF all
<1>2. ASSUME NEW n \in norms
      PROVE  TermType(f[n]) /\ f[n].norm = n
  <2>1. IsFiniteSet(of(n)) /\ of(n) # {}
    BY <1>1, FS_Subset
  <2>2. \A m \in of(n) : m.surface \in Surface /\ Norm(m.surface) = n
    BY <1>1
  <2> HIDE DEF of
  <2> QED
    BY <2>1, <2>2, TermFacts
<1>3. ExtractTerms(rows) = Range(f)
  BY DEF ExtractTerms, Range, all
<1>4. IsFiniteSet(norms)
  <2>1. g \in [all -> Range(g)] /\ norms = Range(g)
    BY DEF Range
  <2> HIDE DEF g, norms
  <2> QED
    BY <1>1, <2>1, FiniteImage
<1>5. IsFiniteSet(Range(f))
  <2>1. f \in [norms -> Range(f)]
    BY DEF Range
  <2> HIDE DEF f, norms
  <2> QED
    BY <1>4, <2>1, FiniteImage
<1>6. \A t \in Range(f) : \E n \in norms : t = f[n]
  BY DEF Range
<1> HIDE DEF f, norms
<1>7. \A t \in Range(f) : TermType(t)
  BY <1>2, <1>6
<1>8. \A s, t \in Range(f) : s.norm = t.norm => s = t
  BY <1>2, <1>6
<1> QED
  BY <1>3, <1>5, <1>7, <1>8 DEF TermsType

LEMMA ReportsAreTyped ==
  ASSUME NEW rows \in Corpora
  PROVE  ReportsType(StoredReports(rows))
<1> DEFINE last(i) == \A j \in DOMAIN rows : rows[j].id = rows[i].id => j <= i
           places == {i \in DOMAIN rows : last(i)}
           stored == {rows[i] : i \in places}
           order == {p \in stored \X stored : p[1].id < p[2].id}
           n == Cardinality(stored)
           s == InOrder(stored, order)
<1>1. /\ rows \in Seq(Rows) /\ DOMAIN rows = 1..Len(rows) /\ Len(rows) \in Nat
      /\ \A i \in DOMAIN rows : rows[i].id \in Nat /\ rows[i] \in Rows
  <2>1. rows \in Seq(Rows)
    BY PagesAssumption
  <2>2. \A i \in DOMAIN rows : rows[i] \in Rows
    BY <2>1
  <2>3. \A row \in Rows : row.id \in Nat
    BY DEF Rows
  <2> QED
    BY <2>1, <2>2, <2>3
<1>2. \A i, j \in places : rows[i].id = rows[j].id => i = j
  BY <1>1
<1>3. IsFiniteSet(stored)
  <2> DEFINE f == [i \in places |-> rows[i]]
  <2>1. IsFiniteSet(places)
    <3>1. IsFiniteSet(DOMAIN rows)
      BY <1>1, FS_Interval
    <3> QED
      BY <3>1, FS_Subset
  <2>2. f \in [places -> Range(f)] /\ stored = Range(f)
    BY DEF Range
  <2> HIDE DEF f, places, stored
  <2> QED
    BY <2>1, <2>2, FiniteImage
<1>4. \A r \in stored : \E i \in places : r = rows[i]
  OBVIOUS
<1>5. /\ stored \subseteq Rows /\ \A r \in stored : r.id \in Nat
      /\ \A q, r \in stored : q.id = r.id => q = r
      /\ \A q, r \in stored : q.link = r.link => q = r
      /\ \A r \in stored : r.link # Unindexed.link
  <2>1. \A i \in places :
          /\ i \in DOMAIN rows /\ rows[i].link # Unindexed.link
          /\ \A j \in places : rows[i].link = rows[j].link => rows[i].id = rows[j].id
    BY LinkAssumption
  <2> HIDE DEF places, stored
  <2>2. \A q, r \in stored : q.id = r.id => q = r
    BY <1>2, <1>4
  <2>3. \A q, r \in stored : q.link = r.link => q = r
    BY <1>2, <1>4, <2>1
  <2>4. \A r \in stored : r \in Rows /\ r.id \in Nat /\ r.link # Unindexed.link
    BY <1>1, <1>4, <2>1
  <2> QED
    BY <2>2, <2>3, <2>4
<1> HIDE DEF stored
<1>6. TotalOn(order, stored)
  <2>1. \A q, r \in stored : <<q, r>> \in order <=> q.id < r.id
    OBVIOUS
  <2> HIDE DEF order
  <2> QED
    BY <1>5, <2>1 DEF TotalOn
<1>7. /\ n \in Nat /\ s \in [1..n -> stored]
      /\ \A i, j \in 1..n : i < j => <<s[i], s[j]>> \in order
  BY <1>3, <1>6, InOrderFacts
<1>8. StoredReports(rows) = s
  BY DEF StoredReports, stored
<1> HIDE DEF n, s
<1>9. s \in Seq(Rows) /\ DOMAIN s = 1..n
  BY <1>5, <1>7
<1>10. ASSUME NEW i \in 1..n, NEW j \in 1..n, s[i].link = s[j].link
       PROVE  i = j
  <2>1. s[i] = s[j] /\ s[i] \in stored
    BY <1>5, <1>7, <1>10
  <2>2. i < j => s[i].id < s[j].id
    BY <1>7
  <2>3. j < i => s[j].id < s[i].id
    BY <1>7
  <2> QED
    BY <1>5, <1>7, <2>1, <2>2, <2>3
<1> QED
  BY <1>5, <1>7, <1>8, <1>9, <1>10 DEF ReportsType

LEMMA IndexIsTyped ==
  ASSUME NEW rows \in Corpora
  PROVE  IndexType(BuildIndex(rows))
<1>1. rows \in Seq(Rows)
  BY PagesAssumption
<1> QED
  BY <1>1, TermsAreTyped, ReportsAreTyped DEF BuildIndex, IndexType

(***************************************************************************)
(* Addresses.                                                              *)
(***************************************************************************)
Format == Formats \cup {Wrong}
Day == Nat \cup {Wrong}
Number == Nat \cup {Nothing, Wrong}

\* The fields of an address, by its route.
LEMMA AddressForms ==
  ASSUME NEW a \in Address
  PROVE  /\ a.format \in Format
         /\ \/ a.route \in {"launcher", "years"} /\ DOMAIN a = {"route", "format"}
            \/ /\ a.route = "nav" /\ DOMAIN a = {"route", "prefix", "format"}
               /\ a.prefix \in Seq(Nat)
            \/ /\ a.route = "year" /\ DOMAIN a = {"route", "year", "format"}
               /\ a.year \in Day
            \/ /\ a.route = "letters" /\ DOMAIN a = {"route", "kind", "format"}
               /\ a.kind \in {"speaker", "bill"}
            \/ /\ a.route = "letter" /\ DOMAIN a = {"route", "kind", "letter", "format"}
               /\ a.kind \in {"speaker", "bill"} /\ a.letter \in Nat
            \/ /\ a.route = "date" /\ DOMAIN a = {"route", "day", "format"}
               /\ a.day \in Day
            \/ /\ a.route = "report" /\ DOMAIN a = {"route", "link", "format"}
               /\ a.link \in STRING
            \/ /\ a.route = "search"
               /\ DOMAIN a =
                    {"route", "q", "from", "to", "speaker", "page", "limit", "format"}
               /\ a.q \in Surface /\ a.from \in Number /\ a.to \in Number
               /\ a.speaker \in Surface \cup {Nothing}
               /\ a.page \in Number /\ a.limit \in Number
BY DEF Address, Format, Day, Number

LEMMA FaultsOf ==
  ASSUME NEW a \in Address
  PROVE  /\ "format" \in Faults(a) <=> a.format \notin Formats
         /\ "prefix" \in Faults(a) <=> a.route = "nav" /\ ~IsPrefixShape(a.prefix)
         /\ "letter" \in Faults(a) <=> a.route = "letter" /\ a.letter \notin FacetLetter
         /\ "q" \in Faults(a) <=> a.route = "search" /\ Len(a.q.words) > MaxQuery
         /\ "page" \in Faults(a) <=> a.route = "search" /\ a.page \in {Wrong, 0}
         /\ "link" \in Faults(a) <=> a.route = "report" /\ a.link \in BadId
         /\ "year" \in Faults(a) <=> a.route = "year" /\ a.year = Wrong
         /\ "day" \in Faults(a) <=> a.route = "date" /\ a.day = Wrong
         /\ "from" \in Faults(a) <=> a.route = "search" /\ a.from = Wrong
         /\ "to" \in Faults(a) <=> a.route = "search" /\ a.to = Wrong
         /\ "limit" \in Faults(a) <=> a.route = "search" /\ a.limit = Wrong
         /\ Faults(a) \subseteq {"format", "prefix", "letter", "q", "page", "link", "year",
                                 "day", "from", "to", "limit"}
<1>1. \A field : field \in Faults(a) <=> field \in DOMAIN a /\ IsFault(a, field)
  BY DEF Faults
<1>2. /\ "format" \in DOMAIN a
      /\ "prefix" \in DOMAIN a <=> a.route = "nav"
      /\ "letter" \in DOMAIN a <=> a.route = "letter"
      /\ "q" \in DOMAIN a <=> a.route = "search"
      /\ "page" \in DOMAIN a <=> a.route = "search"
      /\ "link" \in DOMAIN a <=> a.route = "report"
      /\ "year" \in DOMAIN a <=> a.route = "year"
      /\ "day" \in DOMAIN a <=> a.route = "date"
      /\ "from" \in DOMAIN a <=> a.route = "search"
      /\ "to" \in DOMAIN a <=> a.route = "search"
      /\ "limit" \in DOMAIN a <=> a.route = "search"
      /\ DOMAIN a \subseteq {"route", "kind", "speaker", "format", "prefix", "letter", "q",
                             "page", "link", "year", "day", "from", "to", "limit"}
  BY AddressForms
<1>3. /\ IsFault(a, "format") <=> a.format \notin Formats
      /\ IsFault(a, "prefix") <=> ~IsPrefixShape(a.prefix)
      /\ IsFault(a, "letter") <=> a.letter \notin FacetLetter
      /\ IsFault(a, "q") <=> Len(a.q.words) > MaxQuery
      /\ IsFault(a, "page") <=> a.page \in {Wrong, 0}
      /\ IsFault(a, "link") <=> a.link \in BadId
      /\ IsFault(a, "year") <=> a.year = Wrong
      /\ IsFault(a, "day") <=> a.day = Wrong
      /\ IsFault(a, "from") <=> a.from = Wrong
      /\ IsFault(a, "to") <=> a.to = Wrong
      /\ IsFault(a, "limit") <=> a.limit = Wrong
      /\ ~IsFault(a, "route") /\ ~IsFault(a, "kind") /\ ~IsFault(a, "speaker")
  BY DEF IsFault
<1> QED
  BY <1>1, <1>2, <1>3

\* What a link may lead to: an address that is refused for no more than a query that is
\* too long or an id that the gateway does not take, and a report that is there.
Leads(a) ==
  /\ a \in Address /\ Faults(a) \in {{}, {"q"}, {"link"}}
  /\ a.route = "report" => \E row \in Range(Held) : row.link = a.link

\* The entries of the page at an address.
SizeOf(a) ==
  CASE a.route = "nav" -> Cardinality(Reached(index.terms, a.prefix))
    [] a.route = "year" -> Cardinality(SittingsInYear(index, a.year))
    [] a.route = "letter" -> Cardinality(TermsOfKind(index, a.kind, a.letter))
    [] OTHER -> Nothing

Sound(link) ==
  /\ link.to \in Address
  /\ link.kind = "correction" \/ Leads(link.to)
  /\ link.says # Nothing /\ link.kind # "letter" => link.says = SizeOf(link.to)

Ordinary(links) == \A link \in links : Sound(link) /\ link.kind # "correction"

LEMMA PlainOrdinary ==
  ASSUME NEW A, \A a \in A : Leads(a)
  PROVE  Ordinary(Links(A))
BY DEF Links, Plain, Link, Sound, Ordinary, Leads

LEMMA BarTypes ==
  ASSUME NEW f \in Format
  PROVE  /\ Launcher(f) \in Address /\ YearIndex(f) \in Address
         /\ \A kind \in {"speaker", "bill"} : LetterIndex(kind, f) \in Address
BY DEF Launcher, YearIndex, LetterIndex, Address, Format

LEMMA FormatsAre == Formats \subseteq Format /\ "html" \in Formats
BY DEF Format, Formats

LEMMA BarLeads ==
  /\ Leads(Launcher("html")) /\ Leads(YearIndex("html"))
  /\ \A kind \in {"speaker", "bill"} : Leads(LetterIndex(kind, "html"))
<1>1. ASSUME NEW a \in {Launcher("html"), YearIndex("html"), LetterIndex("speaker", "html"),
                        LetterIndex("bill", "html")}
      PROVE  Leads(a)
  <2>1. a \in Address
    BY BarTypes, FormatsAre
  <2>2. a.route \in {"launcher", "years", "letters"} /\ a.format \in Formats
    BY FormatsAre DEF Launcher, YearIndex, LetterIndex
  <2>3. Faults(a) = {}
    BY <2>1, <2>2, FaultsOf
  <2> QED
    BY <2>1, <2>2, <2>3 DEF Leads
<1> QED
  BY <1>1

LEMMA NavBarOrdinary == Ordinary(NavBar)
BY BarLeads, PlainOrdinary DEF NavBar

\* A beginning of a word, as the address of its page.
LEMMA NavLeads ==
  ASSUME NEW p \in Word, Len(p) \in 1..Depth
  PROVE  Leads(Nav(p, "html"))
<1> DEFINE a == Nav(p, "html")
<1>1. a \in Address
  BY WordFacts, FormatsAre DEF Nav, Address
<1>2. a.route = "nav" /\ a.format \in Formats /\ a.prefix = p
  BY FormatsAre DEF Nav
<1>3. IsPrefixShape(p)
  BY WordFacts DEF IsPrefixShape, Range
<1> HIDE DEF a
<1>4. Faults(a) = {}
  BY <1>1, <1>2, <1>3, FaultsOf
<1> QED
  BY <1>1, <1>2, <1>4 DEF Leads, a

LEMMA YearLeads ==
  ASSUME NEW y \in Nat
  PROVE  Leads(YearPage(y, "html"))
<1> DEFINE a == YearPage(y, "html")
<1>1. a \in Address
  BY FormatsAre DEF YearPage, Address
<1>2. a.route = "year" /\ a.format \in Formats /\ a.year = y /\ y # Wrong
  BY FormatsAre, Parameters DEF YearPage
<1> HIDE DEF a
<1>3. Faults(a) = {}
  BY <1>1, <1>2, FaultsOf
<1> QED
  BY <1>1, <1>2, <1>3 DEF Leads, a

LEMMA DateLeads ==
  ASSUME NEW d \in Nat
  PROVE  Leads(DatePage(d, "html"))
<1> DEFINE a == DatePage(d, "html")
<1>1. a \in Address
  BY FormatsAre DEF DatePage, Address
<1>2. a.route = "date" /\ a.format \in Formats /\ a.day = d /\ d # Wrong
  BY FormatsAre, Parameters DEF DatePage
<1> HIDE DEF a
<1>3. Faults(a) = {}
  BY <1>1, <1>2, FaultsOf
<1> QED
  BY <1>1, <1>2, <1>3 DEF Leads, a

LEMMA LetterLeads ==
  ASSUME NEW kind \in {"speaker", "bill"}, NEW c \in FacetLetter
  PROVE  Leads(LetterPage(kind, c, "html"))
<1> DEFINE a == LetterPage(kind, c, "html")
<1>1. a \in Address
  BY FormatsAre, Parameters DEF LetterPage, Address
<1>2. a.route = "letter" /\ a.format \in Formats /\ a.letter = c
  BY FormatsAre DEF LetterPage
<1> HIDE DEF a
<1>3. Faults(a) = {}
  BY <1>1, <1>2, FaultsOf
<1> QED
  BY <1>1, <1>2, <1>3 DEF Leads, a

LEMMA ReportLeads ==
  ASSUME NEW row \in Range(Held), row.link \in STRING
  PROVE  Leads(ReportPage(row.link, "html"))
<1> DEFINE a == ReportPage(row.link, "html")
<1>1. a \in Address
  BY FormatsAre DEF ReportPage, Address
<1>2. a.route = "report" /\ a.format \in Formats /\ a.link = row.link
  BY FormatsAre DEF ReportPage
<1> HIDE DEF a
<1>3. Faults(a) \in {{}, {"link"}}
  BY <1>1, <1>2, FaultsOf
<1> QED
  BY <1>1, <1>2, <1>3 DEF Leads, a

\* A search as the pages link to it.
SearchFor(q, from, to, speaker, page_, limit) ==
  [route |-> "search", q |-> q, from |-> from, to |-> to, speaker |-> speaker,
   page |-> page_, limit |-> limit, format |-> "html"]

LEMMA SearchLeads ==
  ASSUME NEW q \in Surface, NEW from \in Nat \cup {Nothing}, NEW to \in Nat \cup {Nothing},
         NEW speaker \in Surface \cup {Nothing}, NEW n \in (Nat \ {0}) \cup {Nothing},
         NEW limit \in Nat \cup {Nothing}
  PROVE  Leads(SearchFor(q, from, to, speaker, n, limit))
<1> DEFINE a == SearchFor(q, from, to, speaker, n, limit)
<1>1. a \in Address
  BY FormatsAre DEF SearchFor, Address
<1>2. /\ a.route = "search" /\ a.format \in Formats /\ a.page = n /\ a.limit = limit
      /\ a.from = from /\ a.to = to
  BY FormatsAre DEF SearchFor
<1>3. n \notin {Wrong, 0} /\ from # Wrong /\ to # Wrong /\ limit # Wrong
  BY Parameters
<1> HIDE DEF a
<1>4. Faults(a) \in {{}, {"q"}}
  BY <1>1, <1>2, <1>3, FaultsOf
<1> QED
  BY <1>1, <1>2, <1>4 DEF Leads, a

LEMMA PlainSearchLeads ==
  ASSUME NEW q \in Surface
  PROVE  Leads(Search(q))
<1>1. Search(q) = SearchFor(q, Nothing, Nothing, Nothing, Nothing, Nothing)
  BY DEF Search, SearchFor
<1>2. Leads(SearchFor(q, Nothing, Nothing, Nothing, Nothing, Nothing))
  BY SearchLeads
<1> QED
  BY <1>1, <1>2

LEMMA MemberLeads ==
  ASSUME NEW s \in Surface
  PROVE  Leads([Search(Untitled) EXCEPT !.speaker = s])
<1>1. [Search(Untitled) EXCEPT !.speaker = s]
        = SearchFor(Untitled, Nothing, Nothing, s, Nothing, Nothing)
  BY DEF Search, SearchFor
<1>2. Leads(SearchFor(Untitled, Nothing, Nothing, s, Nothing, Nothing))
  <2>1. Nothing \in Nat \cup {Nothing} /\ Nothing \in (Nat \ {0}) \cup {Nothing}
    OBVIOUS
  <2> QED
    BY <2>1, SearchLeads, UntitledType
<1> QED
  BY <1>1, <1>2

\* The page in another format.
LEMMA SiblingsOrdinary ==
  ASSUME NEW a, Leads(a), a.format \in Formats, NEW formats \in SUBSET Formats
  PROVE  Ordinary(Siblings(a, formats))
<1>1. ASSUME NEW f \in formats
      PROVE  Leads([a EXCEPT !.format = f])
  <2> DEFINE b == [a EXCEPT !.format = f]
  <2>1. a \in Address /\ "format" \in DOMAIN a /\ f \in Formats
    BY AddressForms DEF Leads
  <2>2. b \in Address
    BY <2>1 DEF Address, Formats
  <2>3. /\ DOMAIN b = DOMAIN a /\ b.format = f
        /\ \A field \in DOMAIN a \ {"format"} : b[field] = a[field]
    BY <2>1
  <2>4. \A field \in DOMAIN a \ {"format"} : IsFault(b, field) <=> IsFault(a, field)
    BY <2>3 DEF IsFault
  <2>5. ~IsFault(b, "format") /\ ~IsFault(a, "format")
    BY <2>1, <2>3 DEF IsFault
  <2>6. Faults(b) = Faults(a)
    BY <2>3, <2>4, <2>5 DEF Faults
  <2>7. b.route = a.route /\ (a.route = "report" => b.link = a.link)
    BY <2>1, <2>3, AddressForms
  <2> QED
    BY <2>2, <2>6, <2>7 DEF Leads
<1> QED
  BY <1>1, PlainOrdinary DEF Siblings

\* A corrected form is an address with fewer faults.
LEMMA WithoutFacts ==
  ASSUME NEW a \in Address, a.route = "search", NEW field \in {"page", "from", "to"}
  PROVE  LET c == Without(a, field)
         IN  /\ c \in Address /\ field \notin Faults(c)
             /\ Faults(c) \subseteq Faults(a) \ {"page", "limit", "format"}
<1> DEFINE c == Without(a, field)
           kept == {"q", "from", "to"} \ {field}
<1>1. /\ DOMAIN a = {"route", "q", "from", "to", "speaker", "page", "limit", "format"}
      /\ a.q \in Surface /\ a.from \in Number /\ a.to \in Number
      /\ a.speaker \in Surface \cup {Nothing} /\ a.page \in Number /\ a.limit \in Number
  BY AddressForms
<1>2. /\ DOMAIN c = DOMAIN a /\ c.route = "search" /\ c.speaker = a.speaker
      /\ c.page = Nothing /\ c.limit = Nothing /\ c.format = "html"
      /\ c[field] = Nothing /\ \A g \in kept : c[g] = a[g]
  BY <1>1 DEF Without
<1>3. c \in [route : {"search"}, q : Surface, from : Number, to : Number,
             speaker : Surface \cup {Nothing}, page : Number, limit : Number,
             format : Format]
  <2>1. Nothing \in Number /\ "html" \in Format
    BY FormatsAre DEF Number
  <2>2. CASE field = "page"
    BY <1>1, <2>1, <2>2 DEF Without, Address
  <2>3. CASE field = "from"
    BY <1>1, <2>1, <2>3 DEF Without, Address
  <2>4. CASE field = "to"
    BY <1>1, <2>1, <2>4 DEF Without, Address
  <2> QED
    BY <2>2, <2>3, <2>4
<1>4. c \in Address
  BY <1>3 DEF Address, Number, Format
<1> HIDE DEF c
<1>5. /\ "page" \notin Faults(c) /\ "limit" \notin Faults(c) /\ "format" \notin Faults(c)
      /\ field \notin Faults(c)
  BY <1>2, <1>4, Parameters, FormatsAre, FaultsOf
<1>6. Faults(c) \subseteq Faults(a)
  <2>1. Faults(c) \subseteq {"q", "from", "to"}
    BY <1>2, <1>4, <1>5, FaultsOf
  <2>2. c.q = a.q
    BY <1>2
  <2>3. "q" \in Faults(c) => "q" \in Faults(a)
    BY <1>2, <1>4, <2>2, FaultsOf
  <2>4. "from" \in Faults(c) => "from" \in Faults(a)
    <3>1. CASE field = "from"
      BY <1>5, <3>1
    <3>2. CASE field # "from"
      <4>1. c.from = a.from
        BY <1>2, <3>2
      <4> QED
        BY <1>2, <1>4, <4>1, FaultsOf
    <3> QED
      BY <3>1, <3>2
  <2>5. "to" \in Faults(c) => "to" \in Faults(a)
    <3>1. CASE field = "to"
      BY <1>5, <3>1
    <3>2. CASE field # "to"
      <4>1. c.to = a.to
        BY <1>2, <3>2
      <4> QED
        BY <1>2, <1>4, <4>1, FaultsOf
    <3> QED
      BY <3>1, <3>2
  <2> QED
    BY <2>1, <2>3, <2>4, <2>5
<1> QED
  BY <1>4, <1>5, <1>6 DEF c

LEMMA CorrectionFacts ==
  ASSUME NEW a \in Address, Faults(a) # {}, CorrectedForm(a) # Nothing
  PROVE  /\ CorrectedForm(a) \in Address
         /\ Faults(CorrectedForm(a)) \subseteq Faults(a)
         /\ Faults(CorrectedForm(a)) # Faults(a)
<1> DEFINE c == CorrectedForm(a)
           ladder == /\ a.route = "nav" /\ Range(a.prefix) \subseteq Letter
                     /\ Len(a.prefix) > Depth
           year == a.route = "year" /\ a.year = Wrong
           letter == a.route = "letter" /\ a.letter \notin Letter
           format == a.route = "search" /\ SearchFault(a) = "format"
           without == a.route = "search" /\ SearchFault(a) \in {"page", "from", "to"}
           date == a.route = "date" /\ a.format \notin Formats
<1>1. /\ ladder => c = Nav(SubSeq(a.prefix, 1, Depth), "html")
      /\ year => c = YearIndex("html")
      /\ letter => c = LetterIndex(a.kind, "html")
      /\ format => c = Search(a.q)
      /\ without => c = Without(a, SearchFault(a))
      /\ date => c = Launcher("html")
      /\ ladder \/ year \/ letter \/ format \/ without \/ date
  BY DEF CorrectedForm
<1> HIDE DEF c
<1>2. CASE ladder
  <2> DEFINE p == SubSeq(a.prefix, 1, Depth)
  <2>1. a.prefix \in Seq(Letter) /\ Depth \in 0..Len(a.prefix)
    <3>1. a.prefix \in Seq(Nat)
      BY <1>2, AddressForms
    <3>2. \A i \in 1..Len(a.prefix) : a.prefix[i] \in Letter
      BY <1>2, <3>1 DEF Range
    <3> QED
      BY <1>2, <3>1, <3>2, Parameters
  <2>2. p \in Seq(Letter) /\ Len(p) = Depth
    BY <2>1, BeginningOf
  <2>3. c = Nav(p, "html")
    BY <1>1, <1>2
  <2> HIDE DEF p
  <2>4. p # <<>> /\ Len(p) \in 1..Depth
    BY <2>2, Parameters
  <2>5. p \in Word
    BY <2>2, <2>4 DEF Word
  <2>6. Leads(c)
    BY <2>3, <2>4, <2>5, NavLeads
  <2>7. c.route = "nav" /\ c.prefix = p /\ c.format = "html"
    BY <2>3 DEF Nav
  <2>8. IsPrefixShape(p)
    BY <2>4, <2>5, WordFacts DEF IsPrefixShape, Range
  <2>9. Faults(c) = {}
    BY <2>6, <2>7, <2>8, FormatsAre, FaultsOf DEF Leads
  <2> QED
    BY <2>6, <2>9 DEF Leads, c
<1>3. CASE year
  <2>1. Leads(c) /\ c.route = "years"
    BY <1>1, <1>3, BarLeads DEF YearIndex
  <2>2. Faults(c) = {}
    BY <2>1, FaultsOf DEF Leads
  <2> QED
    BY <2>1, <2>2 DEF Leads, c
<1>4. CASE letter
  <2>1. a.kind \in {"speaker", "bill"}
    BY <1>4, AddressForms
  <2>2. Leads(c) /\ c.route = "letters"
    BY <1>1, <1>4, <2>1, BarLeads DEF LetterIndex
  <2>3. Faults(c) = {}
    BY <2>2, FaultsOf DEF Leads
  <2> QED
    BY <2>2, <2>3 DEF Leads, c
<1>5. CASE format
  <2>1. a.q \in Surface
    BY <1>5, AddressForms
  <2>2. Leads(c) /\ c.route = "search" /\ c.q = a.q
    BY <1>1, <1>5, <2>1, PlainSearchLeads DEF Search
  <2>3. "q" \notin Faults(a)
    BY <1>5 DEF SearchFault
  <2>4. Faults(c) = {}
    BY <1>5, <2>2, <2>3, FaultsOf DEF Leads
  <2> QED
    BY <2>2, <2>4 DEF Leads, c
<1>6. CASE without
  <2> DEFINE f == SearchFault(a)
  <2>1. /\ c \in Address /\ f \notin Faults(c)
        /\ Faults(c) \subseteq Faults(a) \ {"page", "limit", "format"}
    BY <1>1, <1>6, WithoutFacts
  <2>2. f \in Faults(a)
    <3>1. f = "page" => "page" \in Faults(a)
      BY <1>6, FaultsOf DEF SearchFault
    <3>2. f = "from" => "from" \in Faults(a)
      BY <1>6, FaultsOf DEF SearchFault
    <3>3. f = "to" => "to" \in Faults(a)
      <4> SUFFICES ASSUME f = "to" PROVE "to" \in Faults(a)
        OBVIOUS
      <4>1. /\ Wrong \notin {a.page, a.limit} /\ "q" \notin Faults(a) /\ a.page # 0
            /\ "format" \notin Faults(a) /\ a.from # Wrong
        BY DEF SearchFault
      <4> QED
        BY <1>6, <4>1, FaultsOf
    <3> QED
      BY <1>6, <3>1, <3>2, <3>3
  <2> QED
    BY <2>1, <2>2 DEF c
<1>7. CASE date
  <2>1. Leads(c) /\ c.route = "launcher"
    BY <1>1, <1>7, BarLeads DEF Launcher
  <2>2. Faults(c) = {}
    BY <2>1, FaultsOf DEF Leads
  <2> QED
    BY <2>1, <2>2 DEF Leads, c
<1> QED
  BY <1>1, <1>2, <1>3, <1>4, <1>5, <1>6, <1>7

(***************************************************************************)
(* The links of the pages.                                                 *)
(***************************************************************************)
LEMMA HeldFacts ==
  ASSUME IndexType(index)
  PROVE  /\ Held \in Seq(Rows) /\ Range(Held) \subseteq Rows
         /\ Range(index.reports) \subseteq Range(Held) /\ Range(index.reports) \subseteq Rows
         /\ \A i, j \in 1..Len(Held) : Held[i].link = Held[j].link => i = j
<1> DEFINE rows == index.reports
<1>1. /\ rows \in Seq(Rows) /\ DOMAIN rows = 1..Len(rows) /\ Len(rows) \in Nat
      /\ \A i \in 1..Len(rows) : rows[i].link # Unindexed.link
      /\ \A i, j \in 1..Len(rows) : rows[i].link = rows[j].link => i = j
  BY DEF IndexType, ReportsType
<1> HIDE DEF rows
<1>2. <<Unindexed>> \in Seq(Rows) /\ Len(<<Unindexed>>) = 1
  BY PagesAssumption
<1>3. /\ Held \in Seq(Rows) /\ Len(Held) = Len(rows) + 1
      /\ \A i \in 1..Len(rows) + 1 : Held[i] = IF i = 1 THEN Unindexed ELSE rows[i - 1]
  BY <1>1, <1>2 DEF Held, rows
<1>4. Range(Held) \subseteq Rows /\ Range(rows) \subseteq Rows
  BY <1>1, <1>3, RangeOfSeq
<1>5. ASSUME NEW r \in Range(rows)
      PROVE  r \in Range(Held)
  <2>1. PICK i \in 1..Len(rows) : r = rows[i]
    BY <1>1 DEF Range
  <2>2. i + 1 \in 1..Len(Held) /\ Held[i + 1] = r /\ DOMAIN Held = 1..Len(Held)
    BY <1>1, <1>3, <2>1
  <2> QED
    BY <2>2 DEF Range
<1>6. ASSUME NEW i \in 1..Len(Held), NEW j \in 1..Len(Held), Held[i].link = Held[j].link
      PROVE  i = j
  <2>1. CASE i = 1 /\ j = 1
    BY <2>1
  <2>2. CASE i = 1 /\ j # 1
    <3>1. j - 1 \in 1..Len(rows) /\ Held[i] = Unindexed /\ Held[j] = rows[j - 1]
      BY <1>1, <1>3, <2>2
    <3> QED
      BY <1>1, <1>6, <3>1
  <2>3. CASE i # 1 /\ j = 1
    <3>1. i - 1 \in 1..Len(rows) /\ Held[j] = Unindexed /\ Held[i] = rows[i - 1]
      BY <1>1, <1>3, <2>3
    <3> QED
      BY <1>1, <1>6, <3>1
  <2>4. CASE i # 1 /\ j # 1
    <3>1. /\ i - 1 \in 1..Len(rows) /\ Held[i] = rows[i - 1]
          /\ j - 1 \in 1..Len(rows) /\ Held[j] = rows[j - 1]
      BY <1>1, <1>3, <2>4
    <3>2. i - 1 = j - 1
      BY <1>1, <1>6, <3>1
    <3> QED
      BY <3>2
  <2> QED
    BY <2>1, <2>2, <2>3, <2>4
<1> QED
  BY <1>3, <1>4, <1>5, <1>6 DEF rows

LEMMA DaysFacts ==
  ASSUME IndexType(index)
  PROVE  /\ Days(index) \subseteq Nat /\ YearsOf(index) \subseteq Nat
         /\ \A d \in Nat : Year(d) \in Nat
<1>1. \A r \in Rows : r.day \in Nat
  BY DEF Rows
<1>2. \A d \in Nat : Year(d) \in Nat
  BY Parameters DEF Year
<1> QED
  BY <1>1, <1>2, HeldFacts DEF Days, YearsOf

LEMMA OrdinaryTogether ==
  ASSUME NEW links, NEW more, Ordinary(links), Ordinary(more)
  PROVE  Ordinary(links \cup more)
BY DEF Ordinary

\* A page that is asked for without a fault, and the frame that it has.
Fine == here \in Address /\ Faults(here) = {} /\ IndexType(index)

LEMMA FineFormat ==
  ASSUME Fine
  PROVE  here.format \in Formats
BY FaultsOf DEF Fine

LEMMA FramedOrdinary ==
  ASSUME Leads(here), Fine, NEW links, NEW more, Ordinary(links), Ordinary(more),
         NEW formats \in SUBSET Formats
  PROVE  Ordinary(Framed(links, more, formats))
<1>1. Ordinary(NavBar) /\ Ordinary(Siblings(here, formats))
  BY NavBarOrdinary, FineFormat, SiblingsOrdinary
<1> QED
  BY <1>1, OrdinaryTogether DEF Framed

LEMMA FineLeads ==
  ASSUME Fine, here.route # "report"
  PROVE  Leads(here)
BY DEF Fine, Leads

LEMMA TermSurfaces ==
  ASSUME IndexType(index)
  PROVE  \A t \in index.terms : t.surface \in Surface
BY DEF IndexType, TermsType, TermType

LEMMA LauncherOrdinary ==
  ASSUME Fine
  PROVE  Ordinary(LauncherLinks)
<1> DEFINE facets == Links({YearIndex("html"), LetterIndex("speaker", "html"),
                            LetterIndex("bill", "html")})
           letters == {Link("letter", Nav(<<c>>, "html"), LetterCounts(index)[c]) : c \in Letter}
           terms == Links({Search(t.surface) : t \in Range(CommonTerms(index, CommonN))})
           dates == Links({DatePage(d, "html") : d \in RecentSittings(index, RecentN)})
<1>1. Ordinary(facets)
  BY BarLeads, PlainOrdinary
<1>2. Ordinary(letters)
  <2>1. ASSUME NEW c \in Letter
        PROVE  Leads(Nav(<<c>>, "html"))
    <3>1. <<c>> \in Word /\ Len(<<c>>) \in 1..Depth
      BY Parameters DEF Word
    <3> QED
      BY <3>1, NavLeads
  <2>2. ASSUME NEW to, NEW says, Leads(to)
        PROVE  Sound(Link("letter", to, says)) /\ Link("letter", to, says).kind # "correction"
    BY <2>2 DEF Sound, Link, Leads
  <2>3. \A link \in letters : \E c \in Letter :
          link = Link("letter", Nav(<<c>>, "html"), LetterCounts(index)[c])
    OBVIOUS
  <2> HIDE DEF letters
  <2>4. ASSUME NEW link \in letters
        PROVE  Sound(link) /\ link.kind # "correction"
    <3>1. PICK c \in Letter : link = Link("letter", Nav(<<c>>, "html"), LetterCounts(index)[c])
      BY <2>3
    <3>2. Leads(Nav(<<c>>, "html"))
      BY <2>1
    <3> QED
      BY <2>2, <3>1, <3>2
  <2> QED
    BY <2>4 DEF Ordinary
<1>3. Ordinary(terms)
  <2> DEFINE s == ByCount(index.terms)
             n == Cardinality(index.terms)
             m == Min({CommonN, n})
  <2>1. s \in Seq(index.terms) /\ Len(s) = n /\ n \in Nat
    BY ByCountFacts DEF Fine, IndexType
  <2>2. m \in 0..n
    BY <2>1, MinPair, Parameters
  <2>3. CommonTerms(index, CommonN) = SubSeq(s, 1, m)
    BY DEF CommonTerms
  <2> HIDE DEF s, n, m
  <2>4. SubSeq(s, 1, m) \in Seq(index.terms)
    BY <2>1, <2>2, BeginningOf
  <2>5. Range(CommonTerms(index, CommonN)) \subseteq index.terms
    BY <2>3, <2>4, RangeOfSeq
  <2>6. \A t \in Range(CommonTerms(index, CommonN)) : Leads(Search(t.surface))
    BY <2>5, TermSurfaces, PlainSearchLeads DEF Fine
  <2> QED
    BY <2>6, PlainOrdinary
<1>4. Ordinary(dates)
  <2>1. RecentSittings(index, RecentN) \subseteq Nat
    BY DaysFacts DEF RecentSittings, Fine
  <2>2. \A d \in RecentSittings(index, RecentN) : Leads(DatePage(d, "html"))
    BY <2>1, DateLeads
  <2> QED
    BY <2>2, PlainOrdinary
<1>5. LauncherLinks \subseteq facets \cup letters \cup terms \cup dates
  BY DEF LauncherLinks, Links
<1> QED
  BY <1>1, <1>2, <1>3, <1>4, <1>5 DEF Ordinary

\* The number at a branch of the ladder is the number of terms that are reached there.
LEMMA ChildrenFacts ==
  ASSUME NEW terms, TermsType(terms), NEW prefix \in Seq(Nat), Len(prefix) >= 1,
         NEW c \in Children(terms, prefix)
  PROVE  /\ c.child \in Word /\ Len(c.child) \in 1..Depth
         /\ c.n = Cardinality(Reached(terms, c.child))
         /\ c.skip # Nothing =>
              /\ c.skip \in Word /\ Len(c.skip) \in 1..Depth
              /\ c.skipN = Cardinality(Reached(terms, c.skip))
<1> DEFINE at == Reached(terms, prefix)
           below(x) == Reached(at, x)
           fat(x) == CountWith(at, x) > FatThreshold /\ Ranked(below(x), x) # <<>>
           skip(x) == IF fat(x) THEN Ranked(below(x), x)[1] ELSE Nothing
<1>1. PICK x \in Extensions(at, prefix) :
        c = [child |-> x, n |-> CountWith(at, x), skip |-> skip(x),
             skipN |-> IF fat(x) THEN CountWith(below(x), skip(x)) ELSE 0]
  BY DEF Children
<1>2. TermsType(at) /\ TermsType(below(x))
  BY ReachedType
<1>3. x \in Word /\ Len(x) \in 1..Depth /\ IsPrefix(prefix, x)
  BY <1>2, ExtensionsFacts DEF TermsType
<1>4. Reached(at, x) = Reached(terms, x)
  BY <1>3, ReachedBelow DEF TermsType
<1>5. c.n = Cardinality(Reached(terms, x))
  BY <1>1, <1>4 DEF CountWith, Reached
<1>6. ASSUME c.skip # Nothing
      PROVE  /\ c.skip \in Word /\ Len(c.skip) \in 1..Depth
             /\ c.skipN = Cardinality(Reached(terms, c.skip))
  <2>1. fat(x) /\ c.skip = Ranked(below(x), x)[1] /\ c.skipN = CountWith(below(x), c.skip)
    BY <1>1, <1>6
  <2> HIDE DEF below, at
  <2>2. c.skip \in Extensions(below(x), x)
    BY <1>2, <2>1, RankedFacts DEF TermsType
  <2>3. c.skip \in Word /\ Len(c.skip) \in 1..Depth /\ IsPrefix(x, c.skip)
    BY <1>2, <2>2, ExtensionsFacts DEF TermsType
  <2>4. Reached(Reached(terms, x), c.skip) = Reached(terms, c.skip)
    BY <1>3, <2>3, ReachedBelow, WordFacts DEF TermsType
  <2>5. c.skipN = Cardinality(Reached(below(x), c.skip))
    BY <2>1 DEF CountWith, Reached
  <2> QED
    BY <1>4, <2>3, <2>4, <2>5 DEF below
<1> QED
  BY <1>1, <1>3, <1>5, <1>6

LEMMA NavLinkSound ==
  ASSUME NEW p \in Word, Len(p) \in 1..Depth, NEW kind \in {"child", "skip"}
  PROVE  Ordinary({Link(kind, Nav(p, "html"), Cardinality(Reached(index.terms, p)))})
<1> DEFINE a == Nav(p, "html")
<1>1. Leads(a) /\ a.route = "nav" /\ a.prefix = p
  BY NavLeads DEF Nav
<1>2. SizeOf(a) = Cardinality(Reached(index.terms, p))
  BY <1>1 DEF SizeOf
<1> QED
  BY <1>1, <1>2 DEF Ordinary, Sound, Link, Leads

\* The terms that a page of the ladder lists.
Cut == IsCut(here.prefix, Len(TermsForPrefix(index, here.prefix)))
Listed ==
  LET terms == TermsForPrefix(index, here.prefix)
  IN  Range(IF Cut THEN SubSeq(terms, 1, TruncateAt) ELSE terms)
Branches ==
  IF Len(here.prefix) >= Depth THEN {} ELSE ChildrenForPrefix(index, here.prefix)

LEMMA FineNav ==
  ASSUME Fine, here.route = "nav"
  PROVE  here.prefix \in Word /\ Len(here.prefix) \in 1..Depth /\ here.prefix \in Seq(Nat)
<1>1. here.prefix \in Seq(Nat) /\ IsPrefixShape(here.prefix)
  BY AddressForms, FaultsOf DEF Fine
<1>2. \A i \in 1..Len(here.prefix) : here.prefix[i] \in Letter
  BY <1>1 DEF IsPrefixShape, Range
<1>3. here.prefix \in Seq(Letter)
  BY <1>1, <1>2
<1> QED
  BY <1>1, <1>3 DEF IsPrefixShape, Word

LEMMA ListedFacts ==
  ASSUME Fine, here.route = "nav"
  PROVE  LET at == Reached(index.terms, here.prefix)
         IN  /\ Len(TermsForPrefix(index, here.prefix)) = Cardinality(at)
             /\ Listed \subseteq at /\ (~Cut => Listed = at)
<1> DEFINE at == Reached(index.terms, here.prefix)
           s == TermsForPrefix(index, here.prefix)
<1>1. TermsType(at)
  BY ReachedType DEF Fine, IndexType
<1>2. s \in Seq(at) /\ Len(s) = Cardinality(at) /\ Range(s) = at
  BY <1>1, ByCountFacts DEF TermsForPrefix
<1> HIDE DEF s, at
<1>3. Cut => Len(s) > TermCap
  BY DEF Cut, IsCut, s
<1>4. TruncateAt <= TermCap
  BY PagesAssumption
<1>5. CASE Cut
  <2>1. TruncateAt \in 0..Len(s)
    BY <1>2, <1>3, <1>4, <1>5, Parameters
  <2>2. SubSeq(s, 1, TruncateAt) \in Seq(at)
    BY <1>2, <2>1, BeginningOf
  <2>3. Listed = Range(SubSeq(s, 1, TruncateAt))
    BY <1>5 DEF Listed, s
  <2> QED
    BY <1>2, <1>5, <2>2, <2>3, RangeOfSeq DEF s, at
<1>6. CASE ~Cut
  BY <1>2, <1>6 DEF Listed, s, at
<1> QED
  BY <1>5, <1>6

LEMMA BranchesFacts ==
  ASSUME Fine, here.route = "nav", NEW c \in Branches
  PROVE  /\ c.child \in Word /\ Len(c.child) \in 1..Depth
         /\ c.n = Cardinality(Reached(index.terms, c.child))
         /\ c.skip # Nothing =>
              /\ c.skip \in Word /\ Len(c.skip) \in 1..Depth
              /\ c.skipN = Cardinality(Reached(index.terms, c.skip))
<1>1. c \in Children(index.terms, here.prefix)
  BY DEF Branches, ChildrenForPrefix
<1>2. here.prefix \in Seq(Nat) /\ Len(here.prefix) >= 1
  BY FineNav
<1> QED
  BY <1>1, <1>2, ChildrenFacts DEF Fine, IndexType

LEMMA NavLinksOrdinary ==
  ASSUME Fine, here.route = "nav"
  PROVE  Ordinary(NavLinks(Listed, Branches))
<1> DEFINE terms == Links({Search(t.surface) : t \in Listed})
           down == {Link("child", Nav(c.child, "html"), c.n) : c \in Branches}
<1>1. Ordinary(terms)
  <2>1. \A t \in Listed : t \in index.terms
    BY ListedFacts DEF Reached
  <2>2. \A t \in Listed : Leads(Search(t.surface))
    BY <2>1, TermSurfaces, PlainSearchLeads DEF Fine
  <2> QED
    BY <2>2, PlainOrdinary
<1>2. ASSUME NEW c \in Branches
      PROVE  Ordinary({Link("child", Nav(c.child, "html"), c.n)})
  BY BranchesFacts, NavLinkSound
<1>3. Ordinary(down)
  BY <1>2 DEF Ordinary
<1> QED
  BY <1>1, <1>3, OrdinaryTogether DEF NavLinks

LEMMA NavMoreOrdinary ==
  ASSUME Fine, here.route = "nav"
  PROVE  Ordinary(NavMore(here.prefix, Branches))
<1> DEFINE fat == {c \in Branches : c.skip # Nothing}
           skips == {Link("skip", Nav(c.skip, "html"), c.skipN) : c \in fat}
           up == IF Len(here.prefix) = 1 THEN {} ELSE {Nav(Front(here.prefix), "html")}
<1>1. ASSUME NEW c \in fat
      PROVE  Ordinary({Link("skip", Nav(c.skip, "html"), c.skipN)})
  BY BranchesFacts, NavLinkSound
<1>2. Ordinary(skips)
  BY <1>1 DEF Ordinary
<1>3. \A a \in {Launcher("html")} \cup up : Leads(a)
  <2>1. ASSUME Len(here.prefix) # 1
        PROVE  Leads(Nav(Front(here.prefix), "html"))
    <3>1. Len(here.prefix) - 1 \in 1..Len(here.prefix) /\ Len(here.prefix) - 1 \in 1..Depth
      <4> DEFINE n == Len(here.prefix)
      <4>1. n \in 1..Depth /\ Depth \in Nat /\ n # 1
        BY <2>1, FineNav, Parameters
      <4> HIDE DEF n
      <4>2. n - 1 \in 1..n /\ n - 1 \in 1..Depth
        BY <4>1
      <4> QED
        BY <4>2 DEF n
    <3>2. Front(here.prefix) \in Word /\ Len(Front(here.prefix)) \in 1..Depth
      BY <3>1, FineNav, BeginningOfWord DEF Front
    <3> QED
      BY <3>2, NavLeads
  <2> QED
    BY <2>1, BarLeads
<1>4. Ordinary(Links({Launcher("html")} \cup up))
  BY <1>3, PlainOrdinary
<1> HIDE DEF skips, up
<1>5. NavMore(here.prefix, Branches) = skips \cup Links({Launcher("html")} \cup up)
  BY DEF NavMore, skips, fat, up
<1> QED
  BY <1>2, <1>4, <1>5, OrdinaryTogether

(***************************************************************************)
(* The facets.                                                             *)
(***************************************************************************)
\* A set has as many elements as the distinct things that are made of them.
LEMMA SameSize ==
  ASSUME NEW S, IsFiniteSet(S), NEW T, NEW f \in [S -> T],
         \A x, y \in S : f[x] = f[y] => x = y
  PROVE  Cardinality(Range(f)) = Cardinality(S)
<1>1. f \in Surjection(S, Range(f)) /\ f \in Injection(S, Range(f))
  BY DEF Surjection, Injection, IsInjective, Range
<1> QED
  BY <1>1, FS_Surjection

LEMMA LinksSize ==
  ASSUME NEW A, IsFiniteSet(A)
  PROVE  Cardinality(Links(A)) = Cardinality(A)
<1> DEFINE f == [a \in A |-> Plain(a)]
<1>1. f \in [A -> Range(f)] /\ Range(f) = Links(A)
  BY DEF Range, Links
<1>2. \A x, y \in A : f[x] = f[y] => x = y
  BY DEF Plain, Link
<1> HIDE DEF f
<1> QED
  BY <1>1, <1>2, SameSize

LEMMA DaysFinite ==
  ASSUME IndexType(index)
  PROVE  IsFiniteSet(Days(index))
<1> DEFINE rows == index.reports
           days == [i \in 1..Len(rows) |-> rows[i].day]
<1>1. rows \in Seq(Rows) /\ Len(rows) \in Nat /\ DOMAIN rows = 1..Len(rows)
  BY DEF IndexType, ReportsType
<1>2. IsFiniteSet(1..Len(rows))
  BY <1>1, FS_Interval
<1>3. days \in [1..Len(rows) -> Range(days)]
  BY DEF Range
<1>4. Days(index) = Range(days)
  BY <1>1 DEF Days, Range
<1> HIDE DEF days, rows
<1> QED
  BY <1>2, <1>3, <1>4, FiniteImage

LEMMA YearsOrdinary ==
  ASSUME Fine
  PROVE  Ordinary({Link("plain", YearPage(y, "html"), Cardinality(SittingsInYear(index, y))) :
                     y \in YearsOf(index)})
<1>1. ASSUME NEW y \in YearsOf(index)
      PROVE  LET link == Link("plain", YearPage(y, "html"), Cardinality(SittingsInYear(index, y)))
             IN  Sound(link) /\ link.kind # "correction"
  <2> DEFINE a == YearPage(y, "html")
  <2>1. y \in Nat
    BY DaysFacts DEF Fine
  <2>2. Leads(a) /\ a.route = "year" /\ a.year = y
    BY <2>1, YearLeads DEF YearPage
  <2>3. SizeOf(a) = Cardinality(SittingsInYear(index, y))
    BY <2>2 DEF SizeOf
  <2> HIDE DEF a
  <2>4. LET link == Link("plain", a, Cardinality(SittingsInYear(index, y)))
        IN  Sound(link) /\ link.kind # "correction"
    BY <2>2, <2>3 DEF Sound, Link, Leads
  <2> QED
    BY <2>4 DEF a
<1> QED
  BY <1>1 DEF Ordinary

LEMMA YearOrdinary ==
  ASSUME Fine, here.route = "year"
  PROVE  LET entries == Links({DatePage(d, "html") : d \in SittingsInYear(index, here.year)})
         IN  Ordinary(entries) /\ Cardinality(entries) = SizeOf(here)
<1> DEFINE days == SittingsInYear(index, here.year)
           pages == {DatePage(d, "html") : d \in days}
           f == [d \in days |-> DatePage(d, "html")]
<1>1. days \subseteq Days(index) /\ days \subseteq Nat
  BY DaysFacts DEF SittingsInYear, Fine
<1>2. IsFiniteSet(days)
  BY <1>1, DaysFinite, FS_Subset DEF Fine
<1>3. \A d \in days : Leads(DatePage(d, "html"))
  BY <1>1, DateLeads
<1> HIDE DEF days
<1>4. IsFiniteSet(pages) /\ Cardinality(pages) = Cardinality(days)
  <2>1. f \in [days -> Range(f)] /\ Range(f) = pages
    BY DEF Range
  <2>2. \A x, y \in days : f[x] = f[y] => x = y
    BY DEF DatePage
  <2> HIDE DEF f, pages
  <2> QED
    BY <1>2, <2>1, <2>2, SameSize, FiniteImage
<1>5. Ordinary(Links(pages))
  BY <1>3, PlainOrdinary
<1>6. Cardinality(Links(pages)) = Cardinality(days)
  BY <1>4, LinksSize
<1>7. SizeOf(here) = Cardinality(days)
  BY DEF SizeOf, days
<1> QED
  BY <1>5, <1>6, <1>7 DEF days

LEMMA LettersOrdinary ==
  ASSUME NEW kind \in {"speaker", "bill"}
  PROVE  Ordinary({Link("plain", LetterPage(kind, c, "html"),
                        Cardinality(TermsOfKind(index, kind, c))) : c \in FacetLetter})
<1>1. ASSUME NEW c \in FacetLetter
      PROVE  LET link == Link("plain", LetterPage(kind, c, "html"),
                              Cardinality(TermsOfKind(index, kind, c)))
             IN  Sound(link) /\ link.kind # "correction"
  <2> DEFINE a == LetterPage(kind, c, "html")
  <2>1. Leads(a) /\ a.route = "letter" /\ a.kind = kind /\ a.letter = c
    BY LetterLeads DEF LetterPage
  <2>2. SizeOf(a) = Cardinality(TermsOfKind(index, kind, c))
    BY <2>1 DEF SizeOf
  <2> HIDE DEF a
  <2>3. LET link == Link("plain", a, Cardinality(TermsOfKind(index, kind, c)))
        IN  Sound(link) /\ link.kind # "correction"
    BY <2>1, <2>2 DEF Sound, Link, Leads
  <2> QED
    BY <2>3 DEF a
<1> QED
  BY <1>1 DEF Ordinary

\* The members or the bills of a letter: each has a search of its own.
LEMMA OfKindFacts ==
  ASSUME IndexType(index), NEW kind, NEW letter
  PROVE  LET terms == TermsOfKind(index, kind, letter)
         IN  /\ IsFiniteSet(terms) /\ \A t \in terms : t.surface \in Surface
             /\ \A s, t \in terms : s.surface = t.surface => s = t
<1>1. TermsOfKind(index, kind, letter) \subseteq index.terms
  BY DEF TermsOfKind
<1> QED
  BY <1>1, FS_Subset DEF IndexType, TermsType, TermType

LEMMA MemberOrdinary ==
  ASSUME Fine, here.route = "letter", here.kind = "speaker"
  PROVE  LET entries == Links({[Search(Untitled) EXCEPT !.speaker = t.surface] :
                                 t \in TermsOfKind(index, "speaker", here.letter)})
         IN  Ordinary(entries) /\ Cardinality(entries) = SizeOf(here)
<1> DEFINE terms == TermsOfKind(index, "speaker", here.letter)
           to(t) == [Search(Untitled) EXCEPT !.speaker = t.surface]
           pages == {to(t) : t \in terms}
           f == [t \in terms |-> to(t)]
<1>1. /\ IsFiniteSet(terms) /\ \A t \in terms : t.surface \in Surface
      /\ \A s, t \in terms : s.surface = t.surface => s = t
  BY OfKindFacts DEF Fine
<1> HIDE DEF terms
<1>2. \A t \in terms : Leads(to(t))
  BY <1>1, MemberLeads
<1>3. IsFiniteSet(pages) /\ Cardinality(pages) = Cardinality(terms)
  <2>1. f \in [terms -> Range(f)] /\ Range(f) = pages
    BY DEF Range
  <2>2. \A t \in terms : to(t).speaker = t.surface
    BY DEF Search
  <2> HIDE DEF to
  <2>3. \A x, y \in terms : f[x] = f[y] => x = y
    BY <1>1, <2>2
  <2> HIDE DEF f, pages
  <2> QED
    BY <1>1, <2>1, <2>3, SameSize, FiniteImage
<1> HIDE DEF to
<1>4. Ordinary(Links(pages))
  BY <1>2, PlainOrdinary
<1>5. Cardinality(Links(pages)) = Cardinality(terms)
  BY <1>3, LinksSize
<1>6. SizeOf(here) = Cardinality(terms)
  BY DEF SizeOf, terms
<1> QED
  BY <1>4, <1>5, <1>6 DEF terms, to

LEMMA BillOrdinary ==
  ASSUME Fine, here.route = "letter", here.kind = "bill"
  PROVE  LET entries == Links({Search(t.surface) :
                                 t \in TermsOfKind(index, "bill", here.letter)})
         IN  Ordinary(entries) /\ Cardinality(entries) = SizeOf(here)
<1> DEFINE terms == TermsOfKind(index, "bill", here.letter)
           pages == {Search(t.surface) : t \in terms}
           f == [t \in terms |-> Search(t.surface)]
<1>1. /\ IsFiniteSet(terms) /\ \A t \in terms : t.surface \in Surface
      /\ \A s, t \in terms : s.surface = t.surface => s = t
  BY OfKindFacts DEF Fine
<1> HIDE DEF terms
<1>2. \A t \in terms : Leads(Search(t.surface))
  BY <1>1, PlainSearchLeads
<1>3. IsFiniteSet(pages) /\ Cardinality(pages) = Cardinality(terms)
  <2>1. f \in [terms -> Range(f)] /\ Range(f) = pages
    BY DEF Range
  <2>2. \A t \in terms : Search(t.surface).q = t.surface
    BY DEF Search
  <2>3. \A x, y \in terms : f[x] = f[y] => x = y
    BY <1>1, <2>2
  <2> HIDE DEF f, pages
  <2> QED
    BY <1>1, <2>1, <2>3, SameSize, FiniteImage
<1>4. Ordinary(Links(pages))
  BY <1>2, PlainOrdinary
<1>5. Cardinality(Links(pages)) = Cardinality(terms)
  BY <1>3, LinksSize
<1>6. SizeOf(here) = Cardinality(terms)
  BY DEF SizeOf, terms
<1> QED
  BY <1>4, <1>5, <1>6 DEF terms

(***************************************************************************)
(* The pages of a sitting and of a report.                                 *)
(***************************************************************************)
LEMMA ReportsOrdinary ==
  ASSUME IndexType(index), NEW hits,
         \A h \in Range(hits) : \E row \in Range(Held) : h.link = row.link
  PROVE  Ordinary(Reports(hits))
<1>1. ASSUME NEW h \in Range(hits)
      PROVE  Leads(ReportPage(h.link, "html"))
  <2>1. PICK row \in Range(Held) : h.link = row.link
    OBVIOUS
  <2>2. row.link \in STRING
    BY HeldFacts DEF Rows
  <2> QED
    BY <2>1, <2>2, ReportLeads
<1> QED
  BY <1>1, PlainOrdinary DEF Reports

LEMMA MaxFacts ==
  ASSUME NEW D \in SUBSET Nat, IsFiniteSet(D), D # {}
  PROVE  Max(D) \in D /\ \A m \in D : m <= Max(D)
<1> DEFINE n == Cardinality(D)
           s == InOrder(D, Upwards)
<1>1. TotalOn(Upwards, D)
  <2>1. D \in SUBSET Int
    OBVIOUS
  <2> QED
    BY <2>1, UpwardsTotal
<1>2. /\ n \in Nat /\ s \in [1..n -> D]
      /\ \A x \in D : \E k \in 1..n : s[k] = x
      /\ \A i, j \in 1..n : i < j => <<s[i], s[j]>> \in Upwards
  BY <1>1, InOrderFacts
<1> HIDE DEF n, s
<1>3. \A i, j \in 1..n : i < j => s[i] < s[j]
  BY <1>2 DEF Upwards
<1>4. n # 0
  <2>1. PICK x \in D : TRUE
    OBVIOUS
  <2>2. \E k \in 1..n : s[k] = x
    BY <1>2, <2>1
  <2> QED
    BY <1>2, <2>2
<1>5. n \in 1..n /\ s[n] \in D
  BY <1>2, <1>4
<1>6. ASSUME NEW x \in D
      PROVE  s[n] >= x
  <2>1. PICK k \in 1..n : s[k] = x
    BY <1>2
  <2>2. k = n \/ k < n
    BY <1>2
  <2>3. s[n] \in Nat /\ x \in Nat
    BY <1>5
  <2> QED
    BY <1>3, <1>5, <2>1, <2>2, <2>3
<1>7. \E x \in D : \A y \in D : x >= y
  BY <1>5, <1>6
<1> QED
  BY <1>7 DEF Max

LEMMA AroundFacts ==
  ASSUME IndexType(index), NEW day \in Nat
  PROVE  /\ Previous(index, day) \in Days(index) \cup {Nothing}
         /\ Following(index, day) \in Days(index) \cup {Nothing}
<1> DEFINE before == {d \in Days(index) : d < day}
           after == {d \in Days(index) : d > day}
<1>1. /\ before \subseteq Days(index) /\ before \in SUBSET Nat /\ IsFiniteSet(before)
      /\ after \subseteq Days(index) /\ after \in SUBSET Nat
  <2>1. before \subseteq Days(index) /\ after \subseteq Days(index)
    OBVIOUS
  <2> QED
    BY <2>1, DaysFacts, DaysFinite, FS_Subset
<1>2. Previous(index, day) = IF before = {} THEN Nothing ELSE Max(before)
  BY DEF Previous
<1>3. Following(index, day) = IF after = {} THEN Nothing ELSE Min(after)
  BY DEF Following
<1> HIDE DEF before, after
<1>4. before # {} => Max(before) \in before
  BY <1>1, MaxFacts
<1>5. after # {} => Min(after) \in after
  BY <1>1, MinFacts
<1> QED
  BY <1>1, <1>2, <1>3, <1>4, <1>5

LEMMA DateOrdinary ==
  ASSUME Fine, here.route = "date"
  PROVE  LET hits == Among(Held, {r \in Range(Held) : r.day = here.day})
             around == {Previous(index, here.day), Following(index, here.day)} \ {Nothing}
             more == Links({DatePage(d, "html") : d \in around}
                             \cup {YearPage(Year(here.day), "html")})
         IN  Ordinary(Reports(hits)) /\ Ordinary(more)
<1> DEFINE at == {r \in Range(Held) : r.day = here.day}
           hits == Among(Held, at)
           around == {Previous(index, here.day), Following(index, here.day)} \ {Nothing}
           pages == {DatePage(d, "html") : d \in around} \cup {YearPage(Year(here.day), "html")}
<1>1. here.day \in Nat
  BY AddressForms, FaultsOf DEF Fine, Day
<1>2. Ordinary(Reports(hits))
  <2>1. Range(hits) = Range(Held) \cap at
    <3> HIDE DEF at
    <3> QED
      BY HeldFacts, AmongFacts DEF Fine
  <2> HIDE DEF hits
  <2> QED
    BY <2>1, ReportsOrdinary DEF Fine
<1>3. \A a \in pages : Leads(a)
  <2>1. around \subseteq Nat
    BY <1>1, AroundFacts, DaysFacts DEF Fine
  <2>2. Year(here.day) \in Nat
    BY <1>1, DaysFacts DEF Fine
  <2> QED
    BY <2>1, <2>2, DateLeads, YearLeads
<1>4. Ordinary(Links(pages))
  BY <1>3, PlainOrdinary
<1> QED
  BY <1>2, <1>4

LEMMA QueryWordsFacts ==
  ASSUME NEW q \in Surface
  PROVE  QueryWords(q) \in Seq(Word)
<1> DEFINE asked == Range(q.words) \ Stopword
<1>1. q.words \in Seq(Word)
  BY SurfaceFields
<1> HIDE DEF asked
<1>2. Among(q.words, asked) \in Seq(Word)
  BY <1>1, AmongFacts
<1> QED
  BY <1>2 DEF QueryWords, Norm, asked

LEMMA OneWord ==
  ASSUME NEW w \in Word
  PROVE  Text(<<w>>) \in Surface
<1>1. <<w>> \in Seq(Word) /\ 0 \in Nat
  OBVIOUS
<1> QED
  BY <1>1 DEF Text, Surface

LEMMA TermsAmong ==
  ASSUME IndexType(index), NEW S
  PROVE  /\ Among(TermsByNorm(index), S) \in Seq(index.terms)
         /\ Range(Among(TermsByNorm(index), S)) = index.terms \cap S
<1>1. TermsByNorm(index) \in Seq(index.terms) /\ Range(TermsByNorm(index)) = index.terms
  BY ByCountFacts DEF TermsByNorm, IndexType
<1> QED
  BY <1>1, AmongFacts

LEMMA ReportOrdinary ==
  ASSUME Fine, NEW row \in Range(Held)
  PROVE  Ordinary(ReportLinks(row)) /\ Ordinary(ReportNav(row))
<1> DEFINE on == {r \in Range(index.reports) : r.day = row.day}
           sitting == ReportsForSitting(index, row.day)
           at == {i \in DOMAIN sitting : sitting[i].link = row.link}
           beside == {i \in DOMAIN sitting : {i - 1, i + 1} \cap at # {}}
           words == QueryWords(row.title)
           term(w) == Among(TermsByNorm(index), {t \in index.terms : w \in Range(t.norm)})
           topic(w) == IF term(w) = <<>> THEN Text(<<w>>) ELSE term(w)[1].surface
           m == Min({TitleTermsN, Len(words)})
           near == {ReportPage(sitting[i].link, "html") : i \in beside}
           topics == {Search(topic(words[i])) : i \in 1..m}
<1>1. row \in Rows /\ row.day \in Nat /\ row.title \in Surface
  BY HeldFacts DEF Fine, Rows
<1>2. Ordinary(ReportLinks(row))
  <2>1. \A a \in {DatePage(row.day, "html")} : Leads(a)
    BY <1>1, DateLeads
  <2>2. Ordinary(Links({DatePage(row.day, "html")}))
    BY <2>1, PlainOrdinary
  <2>3. Ordinary({})
    BY DEF Ordinary
  <2> QED
    BY <2>2, <2>3 DEF ReportLinks
<1>3. \A a \in near : Leads(a)
  <2>1. sitting \in Seq(Rows) /\ Range(sitting) = Range(index.reports) \cap on
    <3>1. index.reports \in Seq(Rows)
      BY DEF Fine, IndexType, ReportsType
    <3> HIDE DEF on
    <3>2. Among(index.reports, on) \in Seq(Rows)
          /\ Range(Among(index.reports, on)) = Range(index.reports) \cap on
      BY <3>1, AmongFacts
    <3> QED
      BY <3>2 DEF ReportsForSitting, on
  <2> HIDE DEF sitting
  <2>2. ASSUME NEW i \in DOMAIN sitting
        PROVE  Leads(ReportPage(sitting[i].link, "html"))
    <3>1. sitting[i] \in Range(Held) /\ sitting[i] \in Rows
      BY <2>1, HeldFacts DEF Range, Fine
    <3>2. sitting[i].link \in STRING
      BY <3>1 DEF Rows
    <3> QED
      BY <3>1, <3>2, ReportLeads
  <2> QED
    BY <2>2
<1>4. \A a \in topics : Leads(a)
  <2>1. words \in Seq(Word)
    BY <1>1, QueryWordsFacts
  <2> HIDE DEF words
  <2>2. 1..m \subseteq 1..Len(words)
    BY <2>1, MinPair, Parameters
  <2>3. ASSUME NEW w \in Word
        PROVE  topic(w) \in Surface
    <3>1. CASE term(w) = <<>>
      BY <3>1, OneWord
    <3>2. CASE term(w) # <<>>
      <4>1. term(w) \in Seq(index.terms)
        BY TermsAmong DEF Fine
      <4>2. term(w)[1] \in index.terms
        <5> HIDE DEF term
        <5> QED
          BY <3>2, <4>1
      <4> QED
        BY <3>2, <4>2, TermSurfaces DEF Fine
    <3> QED
      BY <3>1, <3>2
  <2> HIDE DEF m, topic
  <2>4. \A i \in 1..m : words[i] \in Word
    BY <2>1, <2>2
  <2> QED
    BY <2>3, <2>4, PlainSearchLeads
<1> HIDE DEF near, topics
<1>5. Ordinary(Links(near \cup topics))
  BY <1>3, <1>4, PlainOrdinary
<1>6. ReportNav(row) = IF at = {} THEN {} ELSE Links(near \cup topics)
  BY DEF ReportNav, near, topics
<1>7. Ordinary({})
  BY DEF Ordinary
<1> QED
  BY <1>2, <1>5, <1>6, <1>7

(***************************************************************************)
(* The hits of a search.                                                   *)
(***************************************************************************)
Hits == {Hit(row) : row \in Range(Held)}

LinksDiffer(hits) == \A i, j \in 1..Len(hits) : hits[i].link = hits[j].link => i = j

LEMMA ApartAt ==
  ASSUME NEW A, NEW s \in Seq(A), NEW P \in SUBSET DOMAIN s,
         \A i, j \in P : j < i => s[j].link # s[i].link
  PROVE  LinksDiffer(At(s, P))
<1>1. PICK e \in [1..Cardinality(P) -> P] :
        /\ \A k \in 1..Cardinality(P) : At(s, P)[k] = s[e[k]]
        /\ \A j, k \in 1..Cardinality(P) : j < k => e[j] < e[k]
  BY AtFacts
<1>2. Len(At(s, P)) = Cardinality(P) /\ Cardinality(P) \in Nat
  BY AtFacts
<1> DEFINE n == Cardinality(P)
           t == At(s, P)
<1> HIDE DEF n, t
<1>3. ASSUME NEW i \in 1..n, NEW j \in 1..n, i < j
      PROVE  t[i].link # t[j].link
  <2>1. e[i] \in P /\ e[j] \in P /\ e[i] < e[j]
    BY <1>1, <1>3 DEF n
  <2>2. s[e[i]].link # s[e[j]].link
    BY <2>1
  <2> QED
    BY <1>1, <2>2 DEF n, t
<1>4. ASSUME NEW i \in 1..n, NEW j \in 1..n, t[i].link = t[j].link
      PROVE  i = j
  BY <1>3, <1>4
<1> QED
  BY <1>2, <1>4 DEF LinksDiffer, n, t

\* The hits that are new are not those that are there, nor twice.
LEMMA NewFacts ==
  ASSUME NEW A, NEW hits \in Seq(A), NEW more \in Seq(A)
  PROVE  /\ New(hits, more) \in Seq(A) /\ LinksDiffer(New(hits, more))
         /\ \A g \in Range(hits), h \in Range(New(hits, more)) : g.link # h.link
<1> DEFINE P == {i \in DOMAIN more :
                   /\ \A h \in Range(hits) : h.link # more[i].link
                   /\ \A j \in 1..i - 1 : more[j].link # more[i].link}
<1>1. P \in SUBSET DOMAIN more
  OBVIOUS
<1>2. New(hits, more) = At(more, P)
  BY DEF New
<1>3. \A i \in P, g \in Range(hits) : g.link # more[i].link
  OBVIOUS
<1>4. \A i, j \in P : j < i => more[j].link # more[i].link
  OBVIOUS
<1> HIDE DEF P
<1>5. At(more, P) \in Seq(A) /\ Range(At(more, P)) = {more[i] : i \in P}
  BY <1>1, AtFacts, AtRange
<1>6. LinksDiffer(At(more, P))
  BY <1>1, <1>4, ApartAt
<1> QED
  BY <1>2, <1>3, <1>5, <1>6

LEMMA TogetherDiffer ==
  ASSUME NEW A, NEW s \in Seq(A), NEW t \in Seq(A), LinksDiffer(s), LinksDiffer(t),
         \A g \in Range(s), h \in Range(t) : g.link # h.link
  PROVE  LinksDiffer(s \o t)
<1>0. \A i \in 1..Len(s), j \in 1..Len(t) : s[i].link # t[j].link
  <2>1. /\ \A i \in 1..Len(s) : s[i] \in Range(s)
        /\ \A j \in 1..Len(t) : t[j] \in Range(t)
    BY DEF Range
  <2> QED
    BY <2>1
<1>1. /\ Len(s) \in Nat /\ Len(t) \in Nat /\ Len(s \o t) = Len(s) + Len(t)
      /\ \A i \in 1..Len(s) + Len(t) : (s \o t)[i] = IF i <= Len(s) THEN s[i] ELSE t[i - Len(s)]
  BY ConcatProperties
<1>2. ASSUME NEW i \in 1..Len(s) + Len(t), NEW j \in 1..Len(s) + Len(t),
             (s \o t)[i].link = (s \o t)[j].link
      PROVE  i = j
  <2>1. CASE i <= Len(s) /\ j <= Len(s)
    BY <1>1, <1>2, <2>1 DEF LinksDiffer
  <2>2. CASE i <= Len(s) /\ j > Len(s)
    <3>1. i \in 1..Len(s) /\ j - Len(s) \in 1..Len(t)
      BY <1>1, <2>2
    <3> QED
      BY <1>0, <1>1, <1>2, <2>2, <3>1
  <2>3. CASE i > Len(s) /\ j <= Len(s)
    <3>1. j \in 1..Len(s) /\ i - Len(s) \in 1..Len(t)
      BY <1>1, <2>3
    <3> QED
      BY <1>0, <1>1, <1>2, <2>3, <3>1
  <2>4. CASE i > Len(s) /\ j > Len(s)
    <3>1. i - Len(s) \in 1..Len(t) /\ j - Len(s) \in 1..Len(t)
      BY <1>1, <2>4
    <3>2. i - Len(s) = j - Len(s)
      BY <1>1, <1>2, <2>4, <3>1 DEF LinksDiffer
    <3> QED
      BY <3>2
  <2> QED
    BY <1>1, <2>1, <2>2, <2>3, <2>4
<1> QED
  BY <1>1, <1>2 DEF LinksDiffer

\* The places from one to another, in order.
LEMMA InOrderInterval ==
  ASSUME NEW lo \in Nat, NEW n \in Nat
  PROVE  InOrder(lo + 1..lo + n, Upwards) = [k \in 1..n |-> lo + k]
<1> DEFINE S == lo + 1..lo + n
           s == InOrder(S, Upwards)
<1>1. lo + 1 \in Int /\ lo + n \in Int
  OBVIOUS
<1>2. IsFiniteSet(S) /\ Cardinality(S) = n
  <2>1. IsFiniteSet(S) /\ Cardinality(S) = IF lo + 1 > lo + n THEN 0 ELSE (lo + n) - (lo + 1) + 1
    BY <1>1, FS_Interval, Zenon
  <2> QED
    BY <2>1
<1>3. ASSUME NEW x \in S
      PROVE  Cardinality({y \in S : <<y, x>> \in Upwards}) = x - lo - 1
  <2>1. {y \in S : <<y, x>> \in Upwards} = lo + 1..x - 1
    BY DEF Upwards
  <2>2. lo + 1 \in Int /\ x - 1 \in Int
    OBVIOUS
  <2>3. Cardinality(lo + 1..x - 1) = IF lo + 1 > x - 1 THEN 0 ELSE (x - 1) - (lo + 1) + 1
    BY <2>2, FS_Interval, Zenon
  <2>4. x \in lo + 1..lo + n
    OBVIOUS
  <2> HIDE DEF S
  <2>5. Cardinality({y \in S : <<y, x>> \in Upwards})
          = IF lo + 1 > x - 1 THEN 0 ELSE (x - 1) - (lo + 1) + 1
    BY <2>1, <2>3
  <2> QED
    BY <2>4, <2>5
<1>4. s = [k \in 1..n |->
             CHOOSE x \in S : Cardinality({y \in S : <<y, x>> \in Upwards}) = k - 1]
  BY <1>2 DEF InOrder
<1>5. ASSUME NEW k \in 1..n
      PROVE  (CHOOSE x \in S : Cardinality({y \in S : <<y, x>> \in Upwards}) = k - 1) = lo + k
  <2> DEFINE P(x) == Cardinality({y \in S : <<y, x>> \in Upwards}) = k - 1
  <2>1. \A x \in S : P(x) <=> x - lo - 1 = k - 1
    BY <1>3
  <2> HIDE DEF P
  <2>2. \A x \in S : P(x) <=> x = lo + k
    BY <2>1
  <2>3. lo + k \in S
    OBVIOUS
  <2> HIDE DEF S
  <2>4. (CHOOSE x \in S : P(x)) = lo + k
    BY <2>2, <2>3
  <2> QED
    BY <2>4 DEF P
<1> QED
  BY <1>4, <1>5

\* One sequence stands whole in another, and nothing that surrounds it is in it.
Around(s, t) ==
  \E lo \in Nat :
    /\ lo + Len(s) <= Len(t) /\ \A i \in 1..Len(s) : t[lo + i] = s[i]
    /\ \A i \in 1..Len(t) : t[i] \in Range(s) => i \in lo + 1..lo + Len(s)

\* What stands in the middle is found there again.
LEMMA MiddleKept ==
  ASSUME NEW A, NEW s \in Seq(A), NEW t \in Seq(A), Around(s, t)
  PROVE  Among(t, Range(s)) = s
<1> DEFINE n == Len(s)
           P == {i \in DOMAIN t : t[i] \in Range(s)}
<1>1. n \in Nat /\ Len(t) \in Nat /\ DOMAIN t = 1..Len(t) /\ s = [k \in 1..n |-> s[k]]
  OBVIOUS
<1>2. \A i \in 1..n : s[i] \in Range(s)
  BY DEF Range
<1> HIDE DEF n
<1>3. PICK lo \in Nat :
        /\ lo + n <= Len(t) /\ \A i \in 1..n : t[lo + i] = s[i]
        /\ \A i \in 1..Len(t) : t[i] \in Range(s) => i \in lo + 1..lo + n
  BY DEF Around, n
<1>4. P = lo + 1..lo + n
  <2>1. ASSUME NEW i \in lo + 1..lo + n
        PROVE  i \in 1..Len(t) /\ t[i] \in Range(s)
    <3>1. i - lo \in 1..n /\ lo + (i - lo) = i
      BY <1>1
    <3>2. t[i] = s[i - lo]
      BY <1>3, <3>1
    <3> QED
      BY <1>1, <1>2, <1>3, <3>1, <3>2
  <2> QED
    BY <1>1, <1>3, <2>1
<1>5. Among(t, Range(s)) = [k \in 1..n |-> t[lo + k]]
  <2>1. InOrder(P, Upwards) = [k \in 1..n |-> lo + k]
    BY <1>1, <1>4, InOrderInterval
  <2>2. Among(t, Range(s)) = At(t, P)
    BY DEF Among
  <2> HIDE DEF P
  <2> DEFINE order == [k \in 1..n |-> lo + k]
  <2>3. DOMAIN order = 1..n /\ \A k \in 1..n : order[k] = lo + k
    OBVIOUS
  <2>4. InOrder(P, Upwards) = order
    BY <2>1
  <2> HIDE DEF order
  <2>5. At(t, P) = [k \in DOMAIN order |-> t[order[k]]]
    BY <2>4 DEF At
  <2>6. At(t, P) = [k \in 1..n |-> t[lo + k]]
    BY <2>3, <2>5
  <2> QED
    BY <2>2, <2>6
<1> QED
  BY <1>1, <1>3, <1>5

LEMMA AroundMore ==
  ASSUME NEW A, NEW s \in Seq(A), NEW t \in Seq(A), NEW more \in Seq(A), Around(s, t)
  PROVE  /\ Range(s) \subseteq Range(t)
         /\ Range(more) \cap Range(s) = {} => Around(s, t \o more) /\ Around(s, more \o t)
<1> DEFINE n == Len(s)
<1>1. n \in Nat /\ Len(t) \in Nat /\ Len(more) \in Nat
  OBVIOUS
<1>2. /\ DOMAIN s = 1..n /\ DOMAIN t = 1..Len(t)
      /\ \A i \in 1..Len(more) : more[i] \in Range(more)
  BY DEF Range
<1>3. PICK lo \in Nat :
        /\ lo + n <= Len(t) /\ \A i \in 1..n : t[lo + i] = s[i]
        /\ \A i \in 1..Len(t) : t[i] \in Range(s) => i \in lo + 1..lo + n
  BY DEF Around
<1>4. Range(s) \subseteq Range(t)
  <2>1. ASSUME NEW i \in 1..n
        PROVE  s[i] \in Range(t)
    <3>1. lo + i \in 1..Len(t) /\ t[lo + i] = s[i]
      BY <1>1, <1>3
    <3> QED
      BY <1>2, <3>1 DEF Range
  <2> QED
    BY <1>2, <2>1 DEF Range
<1> HIDE DEF n
<1>5. ASSUME Range(more) \cap Range(s) = {}
      PROVE  Around(s, t \o more)
  <2> DEFINE u == t \o more
  <2>1. /\ Len(u) = Len(t) + Len(more)
        /\ \A i \in 1..Len(t) + Len(more) :
             u[i] = IF i <= Len(t) THEN t[i] ELSE more[i - Len(t)]
    BY ConcatProperties
  <2> HIDE DEF u
  <2>2. lo + n <= Len(u) /\ \A i \in 1..n : u[lo + i] = s[i]
    <3>1. ASSUME NEW i \in 1..n
          PROVE  u[lo + i] = s[i]
      <4>1. lo + i \in 1..Len(t) + Len(more) /\ lo + i <= Len(t)
        BY <1>1, <1>3
      <4> QED
        BY <1>3, <2>1, <4>1
    <3> QED
      BY <1>1, <1>3, <2>1, <3>1
  <2>3. ASSUME NEW i \in 1..Len(u), u[i] \in Range(s)
        PROVE  i \in lo + 1..lo + n
    <3>1. CASE i <= Len(t)
      BY <1>1, <1>3, <2>1, <2>3, <3>1
    <3>2. CASE i > Len(t)
      <4>1. i - Len(t) \in 1..Len(more) /\ u[i] = more[i - Len(t)]
        BY <1>1, <2>1, <3>2
      <4> QED
        BY <1>2, <1>5, <2>3, <4>1
    <3> QED
      BY <1>1, <2>1, <3>1, <3>2
  <2> QED
    BY <1>3, <2>2, <2>3 DEF Around, n, u
<1>6. ASSUME Range(more) \cap Range(s) = {}
      PROVE  Around(s, more \o t)
  <2> DEFINE u == more \o t
             from == Len(more) + lo
  <2>1. /\ Len(u) = Len(more) + Len(t)
        /\ \A i \in 1..Len(more) + Len(t) :
             u[i] = IF i <= Len(more) THEN more[i] ELSE t[i - Len(more)]
    BY ConcatProperties
  <2> HIDE DEF u
  <2>2. from + n <= Len(u) /\ from \in Nat
    BY <1>1, <1>3, <2>1
  <2>3. ASSUME NEW i \in 1..n
        PROVE  u[from + i] = s[i]
    <3>1. /\ from + i \in 1..Len(more) + Len(t) /\ ~(from + i <= Len(more))
          /\ (from + i) - Len(more) = lo + i
      BY <1>1, <1>3, <2>1
    <3> QED
      BY <1>3, <2>1, <3>1
  <2>4. ASSUME NEW i \in 1..Len(u), u[i] \in Range(s)
        PROVE  i \in from + 1..from + n
    <3>1. CASE i <= Len(more)
      <4>1. i \in 1..Len(more) /\ u[i] = more[i]
        BY <1>1, <2>1, <3>1
      <4> QED
        BY <1>2, <1>6, <2>4, <4>1
    <3>2. CASE i > Len(more)
      <4>1. i - Len(more) \in 1..Len(t) /\ u[i] = t[i - Len(more)]
        BY <1>1, <2>1, <3>2
      <4>2. i - Len(more) \in lo + 1..lo + n
        BY <1>3, <2>4, <4>1
      <4> QED
        BY <1>1, <4>2
    <3> QED
      BY <1>1, <2>1, <3>1, <3>2
  <2> HIDE DEF from
  <2> QED
    BY <2>2, <2>3, <2>4 DEF Around, n, u
<1> QED
  BY <1>4, <1>5, <1>6


(***************************************************************************)
(* A search page: a slice of the sweep, what Pair adds to it and what the  *)
(* index does.                                                             *)
(***************************************************************************)
SearchPage == [hits : Seq(Hits), total : Nat, collected : Nat, truncated : BOOLEAN]

LEMMA AroundItself ==
  ASSUME NEW s \in Seq(Hits)
  PROVE  Around(s, s)
<1>1. Len(s) \in Nat /\ 0 \in Nat /\ 0 + Len(s) <= Len(s)
  OBVIOUS
<1>2. \A i \in 1..Len(s) : s[0 + i] = s[i] /\ i \in 0 + 1..0 + Len(s)
  OBVIOUS
<1> QED
  BY <1>1, <1>2 DEF Around

\* The slice is on the page whole, and no report is there twice.
Kept(slice, hits) ==
  hits \in Seq(Hits) /\ LinksDiffer(hits) /\ Around(slice, hits)

LEMMA KeptMore ==
  ASSUME NEW slice \in Seq(Hits), NEW hits, Kept(slice, hits),
         NEW more \in Seq(Hits), LinksDiffer(more),
         \A g \in Range(hits), h \in Range(more) : g.link # h.link
  PROVE  Kept(slice, hits \o more) /\ Kept(slice, more \o hits)
<1>1. hits \in Seq(Hits) /\ LinksDiffer(hits) /\ Around(slice, hits)
  BY DEF Kept
<1>2. Range(more) \cap Range(slice) = {}
  BY <1>1, AroundMore
<1>3. Around(slice, hits \o more) /\ Around(slice, more \o hits)
  BY <1>1, <1>2, AroundMore
<1>4. LinksDiffer(hits \o more) /\ LinksDiffer(more \o hits)
  BY <1>1, TogetherDiffer
<1>5. hits \o more \in Seq(Hits) /\ more \o hits \in Seq(Hits)
  BY <1>1, ConcatProperties
<1> QED
  BY <1>3, <1>4, <1>5 DEF Kept

LEMMA FineSearch ==
  ASSUME Fine, here.route = "search"
  PROVE  /\ here.q \in Surface
         /\ here.from \in Nat \cup {Nothing} /\ here.to \in Nat \cup {Nothing}
         /\ here.speaker \in Surface \cup {Nothing}
         /\ here.page \in (Nat \ {0}) \cup {Nothing} /\ here.limit \in Nat \cup {Nothing}
         /\ PageNo(here) \in Nat \ {0} /\ LimitOf(here) \in Nat \ {0}
<1>1. /\ here.q \in Surface
      /\ here.from \in Nat \cup {Nothing} /\ here.to \in Nat \cup {Nothing}
      /\ here.speaker \in Surface \cup {Nothing}
      /\ here.page \in (Nat \ {0}) \cup {Nothing} /\ here.limit \in Nat \cup {Nothing}
  BY AddressForms, FaultsOf DEF Fine, Number
<1>2. PageNo(here) \in Nat \ {0}
  BY <1>1 DEF PageNo
<1>3. LimitOf(here) \in Nat \ {0}
  <2>1. MaxLimit \in Nat \ {0}
    BY Parameters
  <2>2. ASSUME NEW n \in Nat
        PROVE  Max({1, Min({n, MaxLimit})}) \in Nat \ {0}
    <3>1. Min({n, MaxLimit}) \in Nat
      BY <2>1, MinPair
    <3> QED
      BY <3>1, MaxPair
  <2> QED
    BY <1>1, <2>1, <2>2 DEF LimitOf
<1> QED
  BY <1>1, <1>2, <1>3

LEMMA SweepFacts ==
  ASSUME IndexType(index), NEW sweep \in Sweeps
  PROVE  /\ sweep.rows \in Seq(Hits) /\ LinksDiffer(sweep.rows)
         /\ sweep.total \in Nat /\ sweep.truncated \in BOOLEAN
<1>1. /\ sweep.rows \in {[i \in 1..n |-> Hit(Held[i])] : n \in 0..Min({MaxRows, Len(Held)})}
      /\ sweep.total \in 0..MaxRows + 1 /\ sweep.truncated \in BOOLEAN
  BY DEF Sweeps
<1>8. PICK n \in 0..Min({MaxRows, Len(Held)}) : sweep.rows = [i \in 1..n |-> Hit(Held[i])]
  BY <1>1
<1>2. /\ Held \in Seq(Rows) /\ Len(Held) \in Nat /\ DOMAIN Held = 1..Len(Held)
      /\ \A i, j \in 1..Len(Held) : Held[i].link = Held[j].link => i = j
  BY HeldFacts
<1>3. n \in Nat /\ n <= Len(Held)
  <2>1. MaxRows \in Nat
    BY Parameters
  <2>2. Min({MaxRows, Len(Held)}) \in Nat /\ Min({MaxRows, Len(Held)}) <= Len(Held)
    BY <1>2, <2>1, MinPair
  <2> QED
    BY <2>2
<1> DEFINE rows == [i \in 1..n |-> Hit(Held[i])]
<1>4. \A i \in 1..n : Hit(Held[i]) \in Hits /\ Hit(Held[i]).link = Held[i].link
  <2>1. \A i \in 1..n : Held[i] \in Range(Held)
    BY <1>2, <1>3 DEF Range
  <2> QED
    BY <2>1 DEF Hits, Hit
<1>5. rows \in Seq(Hits) /\ Len(rows) = n
  BY <1>3, <1>4
<1>6. LinksDiffer(rows)
  BY <1>2, <1>3, <1>4, <1>5 DEF LinksDiffer
<1>7. sweep.total \in Nat
  BY <1>1, Parameters
<1> QED
  BY <1>1, <1>5, <1>6, <1>7, <1>8

\* The rows of the index, as hits.
LEMMA BoostHits ==
  ASSUME IndexType(index), NEW terms
  PROVE  LET rows == ReportsForTerms(index, terms)
         IN  [i \in DOMAIN rows |-> Hit(rows[i])] \in Seq(Hits)
<1> DEFINE rows == ReportsForTerms(index, terms)
           found == {r \in Range(index.reports) : \E t \in terms : t.surface = r.title}
<1>1. index.reports \in Seq(Rows) /\ rows = Among(index.reports, found)
  BY DEF IndexType, ReportsType, ReportsForTerms
<1>2. found \subseteq Range(Held)
  BY HeldFacts
<1> HIDE DEF rows, found
<1>3. rows \in Seq(Rows) /\ Range(rows) \subseteq Range(Held)
  BY <1>1, <1>2, AmongFacts
<1>4. DOMAIN rows = 1..Len(rows) /\ Len(rows) \in Nat
  BY <1>3
<1>5. \A i \in 1..Len(rows) : Hit(rows[i]) \in Hits
  <2>1. \A i \in 1..Len(rows) : rows[i] \in Range(Held)
    BY <1>3, <1>4 DEF Range
  <2> QED
    BY <2>1 DEF Hits
<1>6. [i \in 1..Len(rows) |-> Hit(rows[i])] \in Seq(Hits)
  BY <1>4, <1>5
<1> QED
  BY <1>4, <1>6 DEF rows

LEMMA SliceFacts ==
  ASSUME Fine, here.route = "search", NEW sweep \in Sweeps
  PROVE  LET sliced == SelectPage(here, sweep)
         IN  /\ sliced \in SearchPage /\ LinksDiffer(sliced.hits)
             /\ sliced.total = sweep.total /\ sliced.collected = Len(sweep.rows)
             /\ sliced.truncated = sweep.truncated
             /\ sliced.hits # <<>> => (PageNo(here) - 1) * LimitOf(here) < Len(sweep.rows)
<1> DEFINE rows == sweep.rows
           start == (PageNo(here) - 1) * LimitOf(here)
           end == Min({start + LimitOf(here), Len(rows)})
           hits == SubSeq(rows, start + 1, end)
<1>1. /\ rows \in Seq(Hits) /\ LinksDiffer(rows) /\ Len(rows) \in Nat
      /\ sweep.total \in Nat /\ sweep.truncated \in BOOLEAN
  BY SweepFacts DEF Fine
<1>2. PageNo(here) \in Nat \ {0} /\ LimitOf(here) \in Nat \ {0}
  BY FineSearch
<1>3. start \in Nat
  BY <1>2
<1>4. SelectPage(here, sweep) =
        [hits |-> hits, total |-> sweep.total, collected |-> Len(rows),
         truncated |-> sweep.truncated]
  BY DEF SelectPage
<1> HIDE DEF start, rows
<1>5. end \in Nat /\ end <= Len(rows)
  <2>1. start + LimitOf(here) \in Int /\ Len(rows) \in Int
    BY <1>1, <1>2, <1>3
  <2> QED
    BY <1>1, <1>2, <1>3, <2>1, MinPair
<1> HIDE DEF end
<1>6. \A i \in start + 1..end : rows[i] \in Hits
  BY <1>1, <1>3, <1>5
<1>7. /\ hits \in Seq(Hits) /\ Len(hits) = IF start + 1 <= end THEN end - (start + 1) + 1 ELSE 0
      /\ \A i \in 1..end - (start + 1) + 1 : hits[i] = rows[(start + 1) + i - 1]
  <2>1. start + 1 \in Int /\ end \in Int
    BY <1>3, <1>5
  <2> QED
    BY <1>6, <2>1, SubSeqProperties
<1> HIDE DEF hits
<1>8. LinksDiffer(hits)
  <2>1. ASSUME NEW i \in 1..Len(hits), NEW j \in 1..Len(hits), hits[i].link = hits[j].link
        PROVE  i = j
    <3>1. /\ start + i \in 1..Len(rows) /\ hits[i] = rows[start + i]
          /\ start + j \in 1..Len(rows) /\ hits[j] = rows[start + j]
      BY <1>1, <1>3, <1>5, <1>7
    <3>2. start + i = start + j
      BY <1>1, <2>1, <3>1 DEF LinksDiffer
    <3> QED
      BY <1>3, <3>2
  <2> QED
    BY <2>1 DEF LinksDiffer
<1>9. hits # <<>> => start < Len(rows)
  BY <1>1, <1>3, <1>5, <1>7
<1> QED
  BY <1>1, <1>4, <1>7, <1>8, <1>9 DEF SearchPage, start, rows

\* `merge_pair` and `apply_exact_term_boost` keep the slice; a page that they have added
\* to is not marked as truncated.
Searched(sweep, slice, p) ==
  /\ p \in SearchPage /\ Kept(slice, p.hits)
  /\ p.collected = Len(sweep.rows) /\ p.total >= sweep.total
  /\ p.truncated => p.hits = slice /\ p.total = sweep.total

LEMMA MergeKeeps ==
  ASSUME IndexType(index), NEW sweep, sweep.total \in Nat, NEW slice \in Seq(Hits),
         NEW p, Searched(sweep, slice, p), NEW pair \in {<<>>, <<Hit(Unindexed)>>}
  PROVE  Searched(sweep, slice, MergePair(p, pair))
<1>1. pair \in Seq(Hits)
  <2>1. Unindexed \in Range(Held)
    <3>1. 1 \in DOMAIN Held /\ Held[1] = Unindexed
      <4>1. <<Unindexed>> \in Seq(Rows) /\ index.reports \in Seq(Rows)
        BY PagesAssumption DEF IndexType, ReportsType
      <4> QED
        BY <4>1 DEF Held
    <3> QED
      BY <3>1 DEF Range
  <2>2. Hit(Unindexed) \in Hits
    BY <2>1 DEF Hits
  <2>3. \A h \in Hits : <<h>> \in Seq(Hits)
    OBVIOUS
  <2>4. <<>> \in Seq(Hits)
    OBVIOUS
  <2> QED
    BY <2>2, <2>3, <2>4, Zenon
<1> DEFINE more == New(p.hits, pair)
           q == [p EXCEPT !.hits = @ \o more, !.total = @ + Len(more), !.truncated = FALSE]
<1>2. p.hits \in Seq(Hits) /\ p.total \in Nat /\ p \in SearchPage
  BY DEF Searched, SearchPage
<1>3. /\ more \in Seq(Hits) /\ LinksDiffer(more)
      /\ \A g \in Range(p.hits), h \in Range(more) : g.link # h.link
  BY <1>1, <1>2, NewFacts
<1>4. MergePair(p, pair) = IF pair = <<>> THEN p ELSE q
  BY DEF MergePair
<1> HIDE DEF more
<1>5. Kept(slice, p.hits \o more)
  BY <1>3, KeptMore DEF Searched
<1>6. Len(more) \in Nat /\ p.total + Len(more) \in Nat /\ p.total + Len(more) >= p.total
      /\ p.hits \o more \in Seq(Hits)
  BY <1>2, <1>3
<1>7. /\ q \in SearchPage /\ q.hits = p.hits \o more /\ q.total = p.total + Len(more)
      /\ q.truncated = FALSE /\ q.collected = p.collected
  BY <1>2, <1>6 DEF SearchPage
<1> HIDE DEF q
<1>8. Searched(sweep, slice, q)
  BY <1>2, <1>5, <1>6, <1>7 DEF Searched
<1> QED
  BY <1>4, <1>8

LEMMA BoostKeeps ==
  ASSUME IndexType(index), NEW sweep, sweep.total \in Nat, NEW slice \in Seq(Hits),
         NEW p, Searched(sweep, slice, p), NEW q
  PROVE  Searched(sweep, slice, Boost(index, q, p))
<1> DEFINE rows == ReportsForTerms(index, Boosted(index, q))
           hits == [i \in DOMAIN rows |-> Hit(rows[i])]
           added == New(p.hits, hits)
           all == IF ExactTerm(index, q) # {} THEN added \o p.hits ELSE p.hits \o added
           r == [p EXCEPT !.truncated = FALSE, !.hits = all]
<1>1. hits \in Seq(Hits)
  BY BoostHits
<1>2. p.hits \in Seq(Hits) /\ p.total \in Nat /\ p \in SearchPage
  BY DEF Searched, SearchPage
<1>3. Boost(index, q, p) = IF added = <<>> THEN p ELSE r
  BY DEF Boost
<1> HIDE DEF hits
<1>4. /\ added \in Seq(Hits) /\ LinksDiffer(added)
      /\ \A g \in Range(p.hits), h \in Range(added) : g.link # h.link
  BY <1>1, <1>2, NewFacts
<1> HIDE DEF added
<1>5. Kept(slice, all)
  BY <1>4, KeptMore DEF Searched
<1>6. all \in Seq(Hits)
  BY <1>5 DEF Kept
<1> HIDE DEF all
<1>7. /\ r \in SearchPage /\ r.hits = all /\ r.total = p.total
      /\ r.truncated = FALSE /\ r.collected = p.collected
  BY <1>2, <1>6 DEF SearchPage
<1> HIDE DEF r
<1>8. Searched(sweep, slice, r)
  BY <1>5, <1>7 DEF Searched
<1> QED
  BY <1>3, <1>8

LEMMA SearchFacts ==
  ASSUME Fine, here.route = "search", NEW sweep \in Sweeps,
         NEW pair \in {<<>>, <<Hit(Unindexed)>>}
  PROVE  LET sliced == SelectPage(here, sweep)
             p == Boost(index, here.q, MergePair(sliced, pair))
         IN  /\ sliced.hits \in Seq(Hits) /\ Searched(sweep, sliced.hits, p)
             /\ p.truncated => sweep.truncated
             /\ sliced.hits # <<>> => (PageNo(here) - 1) * LimitOf(here) < Len(sweep.rows)
<1> DEFINE sliced == SelectPage(here, sweep)
           merged == MergePair(sliced, pair)
<1>1. /\ sliced \in SearchPage /\ LinksDiffer(sliced.hits)
      /\ sliced.total = sweep.total /\ sliced.collected = Len(sweep.rows)
      /\ sliced.truncated = sweep.truncated
      /\ sliced.hits # <<>> => (PageNo(here) - 1) * LimitOf(here) < Len(sweep.rows)
  BY SliceFacts
<1>2. IndexType(index) /\ sweep.total \in Nat
  BY SweepFacts DEF Fine
<1>3. merged.truncated => sliced.truncated
  BY DEF MergePair
<1>4. Boost(index, here.q, merged).truncated => merged.truncated
  BY DEF Boost
<1> HIDE DEF sliced
<1>5. sliced.hits \in Seq(Hits) /\ Searched(sweep, sliced.hits, sliced)
  BY <1>1, <1>2, AroundItself DEF Searched, SearchPage, Kept
<1>6. Searched(sweep, sliced.hits, merged)
  BY <1>2, <1>5, MergeKeeps
<1> HIDE DEF merged
<1>7. Searched(sweep, sliced.hits, Boost(index, here.q, merged))
  BY <1>2, <1>5, <1>6, BoostKeeps
<1> QED
  BY <1>1, <1>3, <1>4, <1>5, <1>7 DEF sliced, merged

(***************************************************************************)
(* Recovery: the suggestions are terms of the index.                       *)
(***************************************************************************)
\* The defining equation of `flatten` has a solution, built one place at a time; so what
\* CHOOSE takes is one, and each of its values is a sequence.
LEMMA FlattenType ==
  ASSUME NEW A, NEW s \in Seq(Seq(A))
  PROVE  FlattenSeq(s) \in Seq(A)
<1> DEFINE n == Len(s)
           Step(f, k) == [i \in 1..k |-> IF i = 1 THEN s[i] ELSE f[i - 1] \o s[i]]
           g == CHOOSE g : g = Step(g, n)
<1>1. n \in Nat /\ \A i \in 1..n : s[i] \in Seq(A)
  OBVIOUS
<1>2. FlattenSeq(s) = IF n = 0 THEN s ELSE g[n]
  BY DEF FlattenSeq
<1>3. n = 0 => s \in Seq(A)
  OBVIOUS
<1> HIDE DEF n
<1>4. \E f : f = Step(f, n)
  <2> DEFINE Built(k) == \E f : f = Step(f, k)
             T == {k \in Nat : k > n \/ Built(k)}
  <2>1. 0 \in T
    <3>1. <<>> = Step(<<>>, 0)
      OBVIOUS
    <3>2. Built(0)
      BY <3>1
    <3> HIDE DEF Built
    <3> QED
      BY <3>2
  <2>2. ASSUME NEW k \in Nat, k \in T
        PROVE  k + 1 \in T
    <3> HIDE DEF Built
    <3>1. CASE k + 1 > n
      BY <3>1
    <3>2. CASE k + 1 <= n
      <4>4. Built(k)
        BY <1>1, <2>2, <3>2
      <4>1. PICK f : f = Step(f, k)
        BY <4>4 DEF Built
      <4> DEFINE h == [i \in 1..k + 1 |->
                         IF i <= k THEN f[i] ELSE IF k = 0 THEN s[i] ELSE f[k] \o s[i]]
      <4>2. ASSUME NEW i \in 1..k + 1
            PROVE  h[i] = IF i = 1 THEN s[i] ELSE h[i - 1] \o s[i]
        <5>1. CASE i <= k
          <6>1. i \in 1..k /\ h[i] = f[i]
            BY <5>1
          <6>2. f[i] = IF i = 1 THEN s[i] ELSE f[i - 1] \o s[i]
            BY <4>1, <6>1
          <6>3. i # 1 => h[i - 1] = f[i - 1]
            BY <5>1
          <6> QED
            BY <6>1, <6>2, <6>3
        <5>2. CASE i = k + 1
          <6>1. h[i] = IF k = 0 THEN s[i] ELSE f[k] \o s[i]
            BY <5>2
          <6>2. k # 0 => h[i - 1] = f[k]
            BY <5>2
          <6>3. k = 0 <=> i = 1
            BY <5>2
          <6> QED
            BY <5>2, <6>1, <6>2, <6>3
        <5> QED
          BY <5>1, <5>2
      <4>3. h = Step(h, k + 1)
        <5> HIDE DEF h
        <5>1. h = [i \in 1..k + 1 |-> h[i]]
          BY DEF h
        <5> QED
          BY <4>2, <5>1
      <4>5. Built(k + 1)
        <5> HIDE DEF h, Step
        <5> QED
          BY <4>3 DEF Built
      <4> QED
        BY <4>5
    <3> QED
      BY <1>1, <3>1, <3>2
  <2> HIDE DEF Step, Built
  <2>3. T \in SUBSET Nat
    OBVIOUS
  <2> HIDE DEF T
  <2>4. T = Nat
    BY <2>1, <2>2, <2>3, Succession
  <2>5. n \in T
    BY <1>1, <2>4
  <2>6. Built(n)
    BY <1>1, <2>5 DEF T
  <2> QED
    BY <2>6 DEF Built
<1>5. g = Step(g, n)
  <2> HIDE DEF Step
  <2> QED
    BY <1>4
<1> HIDE DEF g
<1>6. \A i \in 1..n : g[i] = IF i = 1 THEN s[i] ELSE g[i - 1] \o s[i]
  BY <1>5
<1>7. n # 0 => g[n] \in Seq(A)
  <2> DEFINE T == {k \in Nat : k \in 1..n => g[k] \in Seq(A)}
  <2>1. 0 \in T
    OBVIOUS
  <2>2. ASSUME NEW k \in Nat, k \in T
        PROVE  k + 1 \in T
    <3>1. CASE k + 1 \in 1..n /\ k = 0
      BY <1>1, <1>6, <3>1
    <3>2. CASE k + 1 \in 1..n /\ k # 0
      <4>1. k \in 1..n /\ (k + 1) - 1 = k /\ k + 1 # 1
        BY <1>1, <3>2
      <4>2. g[k + 1] = g[k] \o s[k + 1]
        BY <1>6, <3>2, <4>1
      <4>3. g[k] \in Seq(A) /\ s[k + 1] \in Seq(A)
        BY <1>1, <2>2, <3>2, <4>1
      <4>4. g[k + 1] \in Seq(A)
        BY <4>2, <4>3, ConcatProperties
      <4> QED
        BY <4>4
    <3> QED
      BY <3>1, <3>2
  <2>3. T = Nat
    <3>1. T \in SUBSET Nat
      OBVIOUS
    <3> HIDE DEF T
    <3> QED
      BY <2>1, <2>2, <3>1, Succession
  <2>4. n \in T
    BY <1>1, <2>3
  <2> QED
    BY <1>1, <2>4
<1> QED
  BY <1>2, <1>3, <1>7

LEMMA CharactersType ==
  ASSUME NEW norm \in Seq(Word)
  PROVE  Characters(norm) \in Seq(Int)
<1> DEFINE s == [i \in DOMAIN norm |-> norm[i] \o <<0>>]
<1>1. \A i \in 1..Len(norm) : norm[i] \in Seq(Int)
  BY WordsAreTexts
<1>2. \A w \in Seq(Int) : w \o <<0>> \in Seq(Int)
  OBVIOUS
<1>3. DOMAIN norm = 1..Len(norm) /\ Len(norm) \in Nat
  OBVIOUS
<1>4. s \in Seq(Seq(Int))
  BY <1>1, <1>2, <1>3
<1> HIDE DEF s
<1>5. FlattenSeq(s) \in Seq(Int)
  BY <1>4, FlattenType
<1> QED
  BY <1>5 DEF Characters, s

LEMMA GramsFinite ==
  ASSUME NEW words \in Seq(Word)
  PROVE  IsFiniteSet(Grams(words))
<1> DEFINE all == Characters(words)
           text == SubSeq(all, 1, Len(all) - 1)
           n == Len(text)
           f == [i \in 1..n - 2 |-> SubSeq(text, i, i + 2)]
<1>1. all \in Seq(Int)
  BY CharactersType
<1> HIDE DEF all
<1>2. n \in Nat
  <2>1. Len(all) \in Nat /\ \A i \in 1..Len(all) - 1 : all[i] \in Int
    BY <1>1
  <2>2. Len(text) = IF 1 <= Len(all) - 1 THEN (Len(all) - 1) - 1 + 1 ELSE 0
    BY <2>1, SubSeqProperties
  <2> QED
    BY <2>1, <2>2
<1>3. Grams(words) = {SubSeq(text, i, i + 2) : i \in 1..n - 2}
  BY DEF Grams, Front, all
<1> HIDE DEF n, text
<1>4. IsFiniteSet(1..n - 2)
  <2>1. 1 \in Int /\ n - 2 \in Int
    BY <1>2
  <2> QED
    BY <2>1, FS_Interval
<1>5. f \in [1..n - 2 -> Range(f)] /\ Range(f) = Grams(words)
  BY <1>3 DEF Range
<1> HIDE DEF f
<1> QED
  BY <1>4, <1>5, FiniteImage

LEMMA SuggestionsFacts ==
  ASSUME IndexType(index), NEW q \in Surface
  PROVE  Range(Suggestions(index, q)) \subseteq index.terms
<1> DEFINE words == QueryWords(q)
           near == {t \in index.terms : t.norm # Norm(q) /\ InBand(t.norm, Range(words))}
           shared(t) == Cardinality(Grams(words) \cap Grams(t.norm))
           key(t) == <<Tier(t.norm, Range(words)), -shared(t), -t.count>>
           before(s, t) == \/ TextBefore(key(s), key(t))
                           \/ key(s) = key(t) /\ SurfaceBefore(s.surface, t.surface)
           order == {p \in near \X near : before(p[1], p[2])}
           ranked == InOrder(near, order)
           n == Min({DidYouMeanN, Len(ranked)})
<1>1. /\ IsFiniteSet(index.terms) /\ words \in Seq(Word)
      /\ \A t \in near : t.surface \in Surface /\ t.norm = t.surface.words /\ t.count \in Nat
      /\ \A s, t \in near : s.norm = t.norm => s = t
  BY QueryWordsFacts DEF IndexType, TermsType, TermType
<1>2. near \subseteq index.terms
  OBVIOUS
<1>3. IsFiniteSet(near)
  BY <1>1, <1>2, FS_Subset
<1>4. Suggestions(index, q) = IF words = <<>> THEN <<>> ELSE SubSeq(ranked, 1, n)
  BY DEF Suggestions
<1>5. \A s, t \in near : <<s, t>> \in order <=> before(s, t)
  OBVIOUS
<1> HIDE DEF words, near
<1>6. ASSUME NEW t \in near
      PROVE  key(t) \in Seq(Int)
  <2>1. shared(t) \in Nat
    <3>1. IsFiniteSet(Grams(words))
      BY <1>1, GramsFinite
    <3>2. IsFiniteSet(Grams(words) \cap Grams(t.norm))
      BY <3>1, FS_Intersection
    <3> QED
      BY <3>2, FS_CardinalityType
  <2>2. Tier(t.norm, Range(words)) \in Int
    BY DEF Tier
  <2> HIDE DEF shared
  <2>3. -shared(t) \in Int /\ -t.count \in Int
    BY <1>1, <2>1
  <2> QED
    BY <2>2, <2>3
<1> HIDE DEF key
<1>7. /\ \A c \in Seq(Int) : ~TextBefore(c, c)
      /\ \A b, c, d \in Seq(Int) : TextBefore(b, c) /\ TextBefore(c, d) => TextBefore(b, d)
      /\ \A b, c \in Seq(Int) : b # c => TextBefore(b, c) \/ TextBefore(c, b)
  BY TextsOrdered DEF TotalOn, TextOrder
<1>8. \A t \in near : ~before(t, t)
  BY <1>1, <1>6, <1>7, SurfacesOrdered
<1>9. ASSUME NEW s \in near, NEW t \in near, NEW u \in near, before(s, t), before(t, u)
      PROVE  before(s, u)
  <2>1. SurfaceBefore(s.surface, t.surface) /\ SurfaceBefore(t.surface, u.surface)
          => SurfaceBefore(s.surface, u.surface)
    BY <1>1, SurfacesOrdered
  <2>2. TextBefore(key(s), key(t)) /\ TextBefore(key(t), key(u)) => TextBefore(key(s), key(u))
    BY <1>6, <1>7
  <2> QED
    BY <1>9, <2>1, <2>2
<1>10. ASSUME NEW s \in near, NEW t \in near, s # t
       PROVE  before(s, t) \/ before(t, s)
  <2>1. SurfaceBefore(s.surface, t.surface) \/ SurfaceBefore(t.surface, s.surface)
    BY <1>1, <1>10, SurfacesOrdered
  <2>2. key(s) # key(t) => TextBefore(key(s), key(t)) \/ TextBefore(key(t), key(s))
    BY <1>6, <1>7
  <2> QED
    BY <2>1, <2>2
<1> HIDE DEF before, order
<1>11. TotalOn(order, near)
  BY <1>5, <1>8, <1>9, <1>10 DEF TotalOn
<1>12. Cardinality(near) \in Nat /\ ranked \in [1..Cardinality(near) -> near]
  BY <1>3, <1>11, InOrderFacts
<1> HIDE DEF ranked
<1>13. ranked \in Seq(index.terms) /\ Len(ranked) \in Nat
  BY <1>2, <1>12
<1>14. n \in 0..Len(ranked)
  BY <1>13, MinPair, Parameters
<1> HIDE DEF n
<1>15. SubSeq(ranked, 1, n) \in Seq(index.terms)
  BY <1>13, <1>14, BeginningOf
<1>16. \A s \in Seq(index.terms) : Range(s) \subseteq index.terms
  BY DEF Range
<1>17. <<>> \in Seq(index.terms)
  OBVIOUS
<1> QED
  BY <1>4, <1>15, <1>16, <1>17

(***************************************************************************)
(* The links of a search page.                                             *)
(***************************************************************************)
LEMMA AgainIs ==
  ASSUME NEW a, NEW q
  PROVE  /\ Again(a, q) = SearchFor(q, a.from, a.to, a.speaker, Nothing, Nothing)
         /\ Search(q) = SearchFor(q, Nothing, Nothing, Nothing, Nothing, Nothing)
<1> DEFINE b == Search(q)
           c == [b EXCEPT !.from = a.from, !.to = a.to]
<1>1. b = SearchFor(q, Nothing, Nothing, Nothing, Nothing, Nothing)
  BY DEF Search, SearchFor
<1>2. Again(a, q) = [b EXCEPT !.from = a.from, !.to = a.to, !.speaker = a.speaker]
  BY DEF Again
<1> HIDE DEF b
<1>3. c = SearchFor(q, a.from, a.to, Nothing, Nothing, Nothing)
  <2>1. [b EXCEPT !.from = a.from] = SearchFor(q, a.from, Nothing, Nothing, Nothing, Nothing)
    BY <1>1 DEF SearchFor
  <2>2. [SearchFor(q, a.from, Nothing, Nothing, Nothing, Nothing) EXCEPT !.to = a.to]
         = SearchFor(q, a.from, a.to, Nothing, Nothing, Nothing)
    BY DEF SearchFor
  <2>3. [b EXCEPT !.from = a.from, !.to = a.to]
         = [[b EXCEPT !.from = a.from] EXCEPT !.to = a.to]
    OBVIOUS
  <2> QED
    BY <2>1, <2>2, <2>3
<1>4. Again(a, q) = [c EXCEPT !.speaker = a.speaker]
  BY <1>2
<1> HIDE DEF c
<1>5. [c EXCEPT !.speaker = a.speaker]
        = SearchFor(q, a.from, a.to, a.speaker, Nothing, Nothing)
  BY <1>3 DEF SearchFor
<1> QED
  BY <1>1, <1>4, <1>5 DEF b

\* Any filters, and then the page and the limit.
LEMMA AgainLeads ==
  ASSUME Fine, here.route = "search", NEW q \in Surface
  PROVE  /\ Leads(Again(here, q))
         /\ \A from, to \in Nat : Leads([Again(here, q) EXCEPT !.from = from, !.to = to])
         /\ \A speaker \in Surface : Leads([Again(here, q) EXCEPT !.speaker = speaker])
         /\ \A n \in (Nat \ {0}) \cup {Nothing}, limit \in Nat :
              /\ Leads([Again(here, q) EXCEPT !.page = n, !.limit = limit])
              /\ Leads([Search(q) EXCEPT !.page = n, !.limit = limit])
<1> DEFINE from == here.from
           to == here.to
           speaker == here.speaker
           b == Again(here, q)
           c == Search(q)
<1>1. /\ from \in Nat \cup {Nothing} /\ to \in Nat \cup {Nothing}
      /\ speaker \in Surface \cup {Nothing}
      /\ Nothing \in Nat \cup {Nothing} /\ Nothing \in (Nat \ {0}) \cup {Nothing}
      /\ Nothing \in Surface \cup {Nothing}
  BY FineSearch
<1>2. /\ b = SearchFor(q, from, to, speaker, Nothing, Nothing)
      /\ c = SearchFor(q, Nothing, Nothing, Nothing, Nothing, Nothing)
  BY AgainIs
<1> HIDE DEF from, to, speaker, b, c
<1>3. Leads(b)
  BY <1>1, <1>2, SearchLeads
<1>4. ASSUME NEW f \in Nat, NEW t \in Nat
      PROVE  Leads([b EXCEPT !.from = f, !.to = t])
  <2>1. f \in Nat \cup {Nothing} /\ t \in Nat \cup {Nothing}
    OBVIOUS
  <2>2. Leads(SearchFor(q, f, t, speaker, Nothing, Nothing))
    BY <1>1, <2>1, SearchLeads
  <2>3. [b EXCEPT !.from = f, !.to = t] = SearchFor(q, f, t, speaker, Nothing, Nothing)
    <3>1. [b EXCEPT !.from = f] = SearchFor(q, f, to, speaker, Nothing, Nothing)
      BY <1>2 DEF SearchFor
    <3>2. [SearchFor(q, f, to, speaker, Nothing, Nothing) EXCEPT !.to = t]
           = SearchFor(q, f, t, speaker, Nothing, Nothing)
      BY DEF SearchFor
    <3>3. [b EXCEPT !.from = f, !.to = t]
           = [[b EXCEPT !.from = f] EXCEPT !.to = t]
      OBVIOUS
    <3> QED
      BY <3>1, <3>2, <3>3
  <2> QED
    BY <2>2, <2>3
<1>5. ASSUME NEW s \in Surface
      PROVE  Leads([b EXCEPT !.speaker = s])
  <2>1. s \in Surface \cup {Nothing}
    OBVIOUS
  <2>2. Leads(SearchFor(q, from, to, s, Nothing, Nothing))
    BY <1>1, <2>1, SearchLeads
  <2>3. [b EXCEPT !.speaker = s] = SearchFor(q, from, to, s, Nothing, Nothing)
    BY <1>2 DEF SearchFor
  <2> QED
    BY <2>2, <2>3
<1>6. ASSUME NEW n \in (Nat \ {0}) \cup {Nothing}, NEW limit \in Nat
      PROVE  /\ Leads([b EXCEPT !.page = n, !.limit = limit])
             /\ Leads([c EXCEPT !.page = n, !.limit = limit])
  <2>1. limit \in Nat \cup {Nothing}
    OBVIOUS
  <2>2. /\ Leads(SearchFor(q, from, to, speaker, n, limit))
        /\ Leads(SearchFor(q, Nothing, Nothing, Nothing, n, limit))
    BY <1>1, <2>1, SearchLeads
  <2>3. [b EXCEPT !.page = n, !.limit = limit] = SearchFor(q, from, to, speaker, n, limit)
    <3>1. [b EXCEPT !.page = n] = SearchFor(q, from, to, speaker, n, Nothing)
      BY <1>2 DEF SearchFor
    <3>2. [SearchFor(q, from, to, speaker, n, Nothing) EXCEPT !.limit = limit]
           = SearchFor(q, from, to, speaker, n, limit)
      BY DEF SearchFor
    <3>3. [b EXCEPT !.page = n, !.limit = limit]
           = [[b EXCEPT !.page = n] EXCEPT !.limit = limit]
      OBVIOUS
    <3> QED
      BY <3>1, <3>2, <3>3
  <2>4. [c EXCEPT !.page = n, !.limit = limit]
          = SearchFor(q, Nothing, Nothing, Nothing, n, limit)
    <3>1. [c EXCEPT !.page = n] = SearchFor(q, Nothing, Nothing, Nothing, n, Nothing)
      BY <1>2 DEF SearchFor
    <3>2. [SearchFor(q, Nothing, Nothing, Nothing, n, Nothing) EXCEPT !.limit = limit]
           = SearchFor(q, Nothing, Nothing, Nothing, n, limit)
      BY DEF SearchFor
    <3>3. [c EXCEPT !.page = n, !.limit = limit]
           = [[c EXCEPT !.page = n] EXCEPT !.limit = limit]
      OBVIOUS
    <3> QED
      BY <3>1, <3>2, <3>3
  <2> QED
    BY <2>2, <2>3, <2>4
<1> QED
  BY <1>3, <1>4, <1>5, <1>6 DEF b, c

LEMMA RecoveryOrdinary ==
  ASSUME Fine, here.route = "search"
  PROVE  Ordinary(Recovery(index, here))
<1> DEFINE words == Range(QueryWords(here.q))
           known == UNION {Range(t.norm) : t \in index.terms}
           broader == IF Len(QueryWords(here.q)) > 1 THEN words \cap known ELSE {}
           offered == {Again(here, t.surface) : t \in Range(Suggestions(index, here.q))}
           single == {Again(here, Text(<<w>>)) : w \in broader}
           entries == {Nav(EntryOf(w), "html") : w \in words}
<1>1. here.q \in Surface /\ IndexType(index)
  BY FineSearch DEF Fine
<1>2. \A w \in words : w \in Word
  BY <1>1, QueryWordsFacts DEF Range
<1>3. \A w \in broader : w \in Word
  BY <1>2
<1>4. \A a \in offered : Leads(a)
  <2>1. \A t \in Range(Suggestions(index, here.q)) : t.surface \in Surface
    BY <1>1, SuggestionsFacts, TermSurfaces
  <2> QED
    BY <2>1, AgainLeads
<1> HIDE DEF words, broader
<1>5. \A a \in single : Leads(a)
  BY <1>3, OneWord, AgainLeads
<1>6. \A a \in entries : Leads(a)
  <2>1. ASSUME NEW w \in Word
        PROVE  EntryOf(w) \in Word /\ Len(EntryOf(w)) \in 1..Depth
    <3> DEFINE n == Min({EntryPrefix, Len(w)})
    <3>1. n \in 1..Len(w) /\ n \in 1..Depth
      BY MinPair, Parameters, WordFacts
    <3> HIDE DEF n
    <3>2. SubSeq(w, 1, n) \in Word /\ Len(SubSeq(w, 1, n)) = n
      BY <3>1, BeginningOfWord
    <3> QED
      BY <3>1, <3>2 DEF EntryOf, n
  <2> QED
    BY <1>2, <2>1, NavLeads
<1>7. Recovery(index, here) = Links(offered \cup single \cup entries)
  BY DEF Recovery, words, broader
<1> HIDE DEF offered, single, entries
<1> QED
  BY <1>4, <1>5, <1>6, <1>7, PlainOrdinary

LEMMA LimitLinksOrdinary ==
  ASSUME Fine, here.route = "search", NEW n \in Nat \ {0}
  PROVE  Ordinary(LimitLinks(here, n))
<1>1. here.q \in Surface
  BY FineSearch
<1>2. ASSUME NEW limit \in Offers, NEW k \in {Nothing, n}
      PROVE  Leads([Again(here, here.q) EXCEPT !.page = k, !.limit = limit])
  <2>1. limit \in Nat /\ k \in (Nat \ {0}) \cup {Nothing}
    BY Parameters
  <2> QED
    BY <1>1, <2>1, AgainLeads
<1> DEFINE links == {[Again(here, here.q) EXCEPT
                        !.page = IF limit = LimitOf(here) \/ n = 1 THEN Nothing ELSE n,
                        !.limit = limit] : limit \in Offers}
<1>3. \A a \in links : Leads(a)
  BY <1>2
<1>4. LimitLinks(here, n) = Links(links)
  BY DEF LimitLinks
<1> HIDE DEF links
<1> QED
  BY <1>3, <1>4, PlainOrdinary

LEMMA RefineByDateOrdinary ==
  ASSUME Fine, here.route = "search", NEW hits \in Seq(Hits)
  PROVE  Ordinary(RefineByDate(index, here, hits))
<1> DEFINE years == {Year(h.day) : h \in Range(hits)} \cup YearsOf(index)
           span(first, last) ==
             [Again(here, here.q) EXCEPT !.from = first * DaysPerYear,
                                         !.to = last * DaysPerYear + DaysPerYear - 1]
           single == {span(y, y) : y \in years}
           decades == {span(Decade(y), Decade(y) + 9) : y \in years}
<1>1. here.q \in Surface
  BY FineSearch
<1>2. years \subseteq Nat
  <2>1. \A h \in Range(hits) : h.day \in Nat
    <3>1. \A h \in Hits : h.day \in Nat
      BY HeldFacts DEF Hits, Hit, Rows, Fine
    <3> QED
      BY <3>1 DEF Range
  <2> QED
    BY <2>1, DaysFacts DEF Fine
<1>3. ASSUME NEW first \in Nat, NEW last \in Nat
      PROVE  Leads(span(first, last))
  <2>1. first * DaysPerYear \in Nat /\ last * DaysPerYear + DaysPerYear - 1 \in Nat
    <3>1. DaysPerYear \in Nat /\ DaysPerYear - 1 \in Nat
      BY Parameters
    <3>2. first * DaysPerYear \in Nat /\ last * DaysPerYear \in Nat
      BY <3>1
    <3> QED
      BY <3>1, <3>2
  <2> QED
    BY <1>1, <2>1, AgainLeads
<1>4. \A y \in Nat : Decade(y) \in Nat /\ Decade(y) + 9 \in Nat
  BY DEF Decade
<1> HIDE DEF years, span
<1>5. \A a \in single : Leads(a)
  BY <1>2, <1>3
<1>6. \A a \in decades : Leads(a)
  BY <1>2, <1>3, <1>4
<1>7. RefineByDate(index, here, hits) = Links(single \cup decades)
  BY DEF RefineByDate, years, span
<1> HIDE DEF single, decades
<1> QED
  BY <1>5, <1>6, <1>7, PlainOrdinary

LEMMA RefineBySpeakerOrdinary ==
  ASSUME Fine, here.route = "search", NEW hits \in Seq(Hits)
  PROVE  Ordinary(RefineBySpeaker(here, hits))
<1> DEFINE speakers == {h.speaker : h \in Range(hits)} \ {Untitled}
           links == {[Again(here, here.q) EXCEPT !.speaker = s] : s \in speakers}
<1>1. here.q \in Surface
  BY FineSearch
<1>2. speakers \subseteq Surface
  <2>1. \A h \in Hits : h.speaker \in Surface
    BY HeldFacts DEF Hits, Hit, Rows, Fine
  <2> QED
    BY <2>1 DEF Range
<1> HIDE DEF speakers
<1>3. \A a \in links : Leads(a)
  BY <1>1, <1>2, AgainLeads
<1>4. RefineBySpeaker(here, hits) = Links(links)
  BY DEF RefineBySpeaker, speakers
<1> HIDE DEF links
<1> QED
  BY <1>3, <1>4, PlainOrdinary

LEMMA RelatedOrdinary ==
  ASSUME Fine, here.route = "search"
  PROVE  Ordinary(Related(index, here.q))
<1> DEFINE words == Range(QueryWords(here.q))
           some == {t \in index.terms : Range(t.norm) \cap words # {}}
           all == {t \in some : words \subseteq Range(t.norm)}
           ranked == Among(TermsByNorm(index), all) \o Among(TermsByNorm(index), some \ all)
           n == Min({RelatedN, Len(ranked)})
           links == {Search(ranked[i].surface) : i \in 1..n}
<1>1. Related(index, here.q) = Links(links)
  BY DEF Related
<1> HIDE DEF some, all
<1>2. /\ Among(TermsByNorm(index), all) \in Seq(index.terms)
      /\ Among(TermsByNorm(index), some \ all) \in Seq(index.terms)
  BY TermsAmong DEF Fine
<1>3. ranked \in Seq(index.terms) /\ Len(ranked) \in Nat
  BY <1>2
<1> HIDE DEF ranked
<1>4. n <= Len(ranked) /\ n \in Nat
  BY <1>3, MinPair, Parameters
<1> HIDE DEF n
<1>5. \A i \in 1..n : ranked[i] \in index.terms
  BY <1>3, <1>4
<1>6. \A i \in 1..n : Leads(Search(ranked[i].surface))
  BY <1>5, TermSurfaces, PlainSearchLeads DEF Fine
<1>7. \A a \in links : Leads(a)
  BY <1>6
<1> HIDE DEF links
<1> QED
  BY <1>1, <1>7, PlainOrdinary

\* The numbers of the pages that are linked.
PageNumbers(total) ==
  LET pages == Pages(total, LimitOf(here))
      n == PageNo(here)
      from == Max({1, n - PageWindow \div 2})
      end == Min({pages, from + PageWindow - 1})
      start == Max({1, end - PageWindow + 1})
  IN  {k \in (start..end) \cup {n - 1, n + 1} :
         k \in start..end \/ (k = n - 1 /\ n > 1) \/ (k = n + 1 /\ n < pages)}

PageLink(k) ==
  Link("page", [Again(here, here.q) EXCEPT !.page = IF k = 1 THEN Nothing ELSE k,
                                           !.limit = LimitOf(here)], Nothing)

LEMMA PaginationIs ==
  ASSUME NEW total
  PROVE  Pagination(here, total) =
           IF Pages(total, LimitOf(here)) = 1 THEN {} ELSE {PageLink(k) : k \in PageNumbers(total)}
BY DEF Pagination, PageNumbers, PageLink

\* A page that is linked is one that there is; and the next page is linked, while there
\* is one.
LEMMA PageNumbersFacts ==
  ASSUME Fine, here.route = "search", NEW total \in Nat
  PROVE  LET pages == Pages(total, LimitOf(here))
         IN  /\ pages \in Nat \ {0} /\ PageNumbers(total) \subseteq Nat \ {0}
             /\ \A k \in PageNumbers(total) : k <= pages \/ k < PageNo(here)
             /\ PageNo(here) < pages => PageNo(here) + 1 \in PageNumbers(total)
<1> DEFINE limit == LimitOf(here)
           n == PageNo(here)
           pages == Pages(total, limit)
           from == Max({1, n - PageWindow \div 2})
           end == Min({pages, from + PageWindow - 1})
           start == Max({1, end - PageWindow + 1})
<1>1. limit \in Nat \ {0} /\ n \in Nat \ {0} /\ PageWindow \in Nat \ {0}
  BY FineSearch, Parameters
<1> HIDE DEF limit, n
<1>2. pages \in Nat \ {0}
  <2>1. (total + limit - 1) \div limit \in Int
    BY <1>1
  <2> QED
    BY <2>1, MaxPair DEF Pages
<1> HIDE DEF pages
<1>3. from \in Int /\ from >= 1
  <2>1. n - PageWindow \div 2 \in Int
    BY <1>1
  <2> QED
    BY <2>1, MaxPair
<1> HIDE DEF from
<1>4. end \in Int /\ end <= pages
  <2>1. from + PageWindow - 1 \in Int
    BY <1>1, <1>3
  <2> QED
    BY <1>2, <2>1, MinPair
<1> HIDE DEF end
<1>5. start \in Int /\ start >= 1
  <2>1. end - PageWindow + 1 \in Int
    BY <1>1, <1>4
  <2> QED
    BY <2>1, MaxPair
<1> HIDE DEF start
<1>6. PageNumbers(total) =
        {k \in (start..end) \cup {n - 1, n + 1} :
           k \in start..end \/ (k = n - 1 /\ n > 1) \/ (k = n + 1 /\ n < pages)}
  BY DEF PageNumbers, start, end, from, pages, n, limit
<1>7. /\ PageNumbers(total) \subseteq Nat \ {0}
      /\ \A k \in PageNumbers(total) : k <= pages \/ k < n
      /\ n < pages => n + 1 \in PageNumbers(total)
  BY <1>1, <1>2, <1>4, <1>5, <1>6
<1> QED
  BY <1>2, <1>7 DEF pages, n, limit

LEMMA PaginationOrdinary ==
  ASSUME Fine, here.route = "search", NEW total \in Nat
  PROVE  Ordinary(Pagination(here, total))
<1>1. here.q \in Surface /\ LimitOf(here) \in Nat
  BY FineSearch
<1>2. ASSUME NEW k \in Nat \ {0}
      PROVE  Sound(PageLink(k)) /\ PageLink(k).kind # "correction"
  <2> DEFINE a == [Again(here, here.q) EXCEPT !.page = IF k = 1 THEN Nothing ELSE k,
                                              !.limit = LimitOf(here)]
  <2>1. (IF k = 1 THEN Nothing ELSE k) \in (Nat \ {0}) \cup {Nothing}
    OBVIOUS
  <2>2. Leads(a)
    BY <1>1, <2>1, AgainLeads
  <2>3. PageLink(k) = Link("page", a, Nothing)
    BY DEF PageLink
  <2> HIDE DEF a
  <2> QED
    BY <2>2, <2>3 DEF Link, Sound, Leads
<1>3. \A k \in PageNumbers(total) : k \in Nat \ {0}
  BY PageNumbersFacts
<1> QED
  BY <1>2, <1>3, PaginationIs DEF Ordinary

LEMMA SearchSiblingsOrdinary ==
  ASSUME Fine, here.route = "search"
  PROVE  Ordinary(SearchSiblings)
<1> DEFINE a == [Search(here.q) EXCEPT !.page = IF PageNo(here) = 1 THEN Nothing ELSE here.page,
                                       !.limit = LimitOf(here)]
<1>1. here.q \in Surface /\ LimitOf(here) \in Nat /\ here.page \in (Nat \ {0}) \cup {Nothing}
  BY FineSearch
<1>2. (IF PageNo(here) = 1 THEN Nothing ELSE here.page) \in (Nat \ {0}) \cup {Nothing}
  BY <1>1
<1>3. Leads(a)
  BY <1>1, <1>2, AgainLeads
<1>4. a.format \in Formats
  BY DEF Search, Formats
<1>5. {"json", "text"} \in SUBSET Formats
  BY DEF Formats
<1> HIDE DEF a
<1>6. Ordinary(Siblings(a, {"json", "text"}))
  BY <1>3, <1>4, <1>5, SiblingsOrdinary
<1> QED
  BY <1>6 DEF SearchSiblings, a

LEMMA SearchLinksOrdinary ==
  ASSUME Fine, here.route = "search", NEW p \in SearchPage
  PROVE  Ordinary(SearchLinks(index, here, p))
<1>1. /\ p.hits \in Seq(Hits) /\ p.total \in Nat /\ p.collected \in Nat
      /\ PageNo(here) \in Nat \ {0} /\ 1 \in Nat \ {0}
  BY FineSearch DEF SearchPage
<1> DEFINE total == IF p.truncated /\ p.collected > 0 THEN p.collected ELSE p.total
<1>2. total \in Nat
  BY <1>1
<1>3. SearchLinks(index, here, p) =
        IF p.hits = <<>> THEN Recovery(index, here) \cup LimitLinks(here, 1)
        ELSE RefineByDate(index, here, p.hits) \cup RefineBySpeaker(here, p.hits)
               \cup Related(index, here.q) \cup LimitLinks(here, PageNo(here))
               \cup Pagination(here, total)
  BY DEF SearchLinks
<1> HIDE DEF total
<1>4. /\ Ordinary(Recovery(index, here)) /\ Ordinary(LimitLinks(here, 1))
      /\ Ordinary(RefineByDate(index, here, p.hits))
      /\ Ordinary(RefineBySpeaker(here, p.hits))
      /\ Ordinary(Related(index, here.q)) /\ Ordinary(LimitLinks(here, PageNo(here)))
      /\ Ordinary(Pagination(here, total))
  BY <1>1, <1>2, RecoveryOrdinary, LimitLinksOrdinary, RefineByDateOrdinary,
     RefineBySpeakerOrdinary, RelatedOrdinary, PaginationOrdinary
<1> QED
  BY <1>3, <1>4 DEF Ordinary

(***************************************************************************)
(* What a term that is cut off is reached by, and what a page number leads *)
(* to.                                                                     *)
(***************************************************************************)
LEMMA LadderGoesOn ==
  ASSUME Fine, here.route = "nav", Cut, NEW t \in Reached(index.terms, here.prefix),
         NEW w \in Range(t.norm) \ Stopword, IsPrefix(here.prefix, w), w # here.prefix
  PROVE  \E link \in NavLinks(Listed, Branches) :
           link.kind = "child" /\ link.to.prefix \in PrefixRows(t)
<1> DEFINE p == here.prefix
           n == Len(p) + 1
           child == SubSeq(w, 1, n)
<1>1. p \in Word /\ Len(p) \in 1..Depth /\ p \in Seq(Nat) /\ Len(p) < Depth
  BY FineNav DEF Cut, IsCut
<1>2. t \in index.terms /\ TermType(t) /\ t.norm \in Seq(Word)
  BY SurfaceFields DEF Reached, Fine, IndexType, TermsType, TermType
<1>3. w \in Word /\ w \in Seq(Nat) /\ Len(w) \in Nat
  BY <1>2, WordFacts DEF Range
<1>4. /\ Len(p) <= Len(w) /\ SubSeq(p, 1, Len(p)) = SubSeq(w, 1, Len(p))
      /\ p = SubSeq(p, 1, Len(p))
  BY <1>1, <1>3, SubSeqFull DEF IsPrefix
<1> HIDE DEF p
<1>5. Len(w) # Len(p)
  <2>1. Len(w) = Len(p) => SubSeq(w, 1, Len(p)) = w
    BY <1>3, SubSeqFull
  <2> QED
    BY <1>4, <2>1 DEF p
<1>6. n \in 1..Depth /\ n \in 1..Len(w) /\ n <= Len(w) /\ Len(p) \in 0..n
  BY <1>1, <1>3, <1>4, <1>5, Parameters
<1>7. child \in Word /\ Len(child) = n /\ \A i \in 1..n : child[i] = w[i]
  BY <1>3, <1>6, BeginningOfWord
<1>8. child \in PrefixRows(t)
  BY <1>2, <1>3, <1>6, PrefixRowsAre
<1> HIDE DEF child, n
<1>9. SubSeq(child, 1, Len(p)) = SubSeq(w, 1, Len(p))
  <2>1. child \in Seq(Nat) /\ Len(p) \in 0..Len(child) /\ Len(p) \in 0..Len(w)
    BY <1>1, <1>3, <1>4, <1>6, <1>7, WordFacts
  <2>2. \A i \in 1..Len(p) : child[i] = w[i]
    BY <1>1, <1>6, <1>7
  <2> QED
    BY <1>3, <2>1, <2>2, SameBeginning
<1>10. IsPrefix(p, child)
  BY <1>1, <1>4, <1>6, <1>7, <1>9 DEF IsPrefix
<1>11. child \in Extensions(Reached(index.terms, p), p)
  <2>1. child \in UNION {PrefixRows(u) : u \in Reached(index.terms, p)}
    BY <1>8 DEF p
  <2> QED
    BY <1>7, <1>10, <2>1 DEF Extensions, n
<1>12. PICK c \in Branches : c.child = child
  <2> DEFINE at == Reached(index.terms, p)
             below(x) == Reached(at, x)
             fat(x) == CountWith(at, x) > FatThreshold /\ Ranked(below(x), x) # <<>>
             skip(x) == IF fat(x) THEN Ranked(below(x), x)[1] ELSE Nothing
             make(x) == [child |-> x, n |-> CountWith(at, x), skip |-> skip(x),
                         skipN |-> IF fat(x) THEN CountWith(below(x), skip(x)) ELSE 0]
  <2>1. Children(index.terms, p) = {make(x) : x \in Extensions(at, p)}
    BY DEF Children
  <2>2. make(child).child = child
    OBVIOUS
  <2> HIDE DEF make
  <2>3. make(child) \in Children(index.terms, p)
    BY <1>11, <2>1
  <2>4. Branches = Children(index.terms, p)
    <3>1. Len(p) \in Nat /\ Depth \in Nat /\ ~(Len(p) >= Depth)
      BY <1>1, Parameters
    <3> QED
      BY <3>1 DEF Branches, ChildrenForPrefix, p
  <2> QED
    BY <2>2, <2>3, <2>4
<1>13. Link("child", Nav(c.child, "html"), c.n) \in NavLinks(Listed, Branches)
  BY DEF NavLinks
<1> QED
  BY <1>8, <1>12, <1>13 DEF Link, Nav

LEMMA Rounding ==
  ASSUME NEW m \in Nat, NEW limit \in Nat \ {0}
  PROVE  LET up == (m + limit - 1) \div limit
         IN  up \in Nat /\ up * limit >= m /\ up * limit <= m + limit - 1
<1> DEFINE a == m + limit - 1
           up == a \div limit
           rest == a % limit
<1>1. a \in Nat
  OBVIOUS
<1> HIDE DEF a
<1>2. up \in Nat /\ rest \in 0..limit - 1 /\ a = limit * up + rest
  BY <1>1
<1> HIDE DEF up, rest
<1>3. limit * up = up * limit /\ up * limit \in Nat
  BY <1>2
<1> DEFINE product == up * limit
<1>4. product \in Nat /\ a = product + rest
  BY <1>2, <1>3
<1> HIDE DEF product
<1>5. product >= m /\ product <= m + limit - 1
  BY <1>2, <1>4 DEF a
<1> QED
  BY <1>2, <1>5 DEF product, up, a

LEMMA Grows ==
  ASSUME NEW a \in Int, NEW b \in Int, NEW c \in Nat, a <= b
  PROVE  a * c <= b * c
OBVIOUS

\* A page begins among the rows exactly if it is no further than the last one.
LEMMA PagesFacts ==
  ASSUME NEW total \in Nat, NEW limit \in Nat \ {0}, NEW n \in Nat \ {0}
  PROVE  /\ n * limit < total => n < Pages(total, limit)
         /\ total > 0 /\ n <= Pages(total, limit) => (n - 1) * limit < total
<1> DEFINE up == (total + limit - 1) \div limit
<1>1. up \in Nat /\ up * limit >= total /\ up * limit <= total + limit - 1
  BY Rounding
<1> HIDE DEF up
<1>2. Pages(total, limit) = IF 1 >= up THEN 1 ELSE up
  BY <1>1, MaxPair DEF Pages, up
<1>3. ASSUME n * limit < total
      PROVE  n < up
  <2> SUFFICES ASSUME up <= n PROVE FALSE
    BY <1>1
  <2>1. up * limit <= n * limit
    BY <1>1, Grows
  <2>2. up * limit \in Nat /\ n * limit \in Nat
    BY <1>1
  <2> QED
    BY <1>1, <1>3, <2>1, <2>2
<1>4. ASSUME total > 0, n <= up
      PROVE  (n - 1) * limit < total
  <2>1. n * limit <= up * limit
    BY <1>1, <1>4, Grows
  <2>2. (n - 1) * limit = n * limit - limit /\ n * limit \in Nat /\ up * limit \in Nat
    BY <1>1
  <2> QED
    BY <1>1, <2>1, <2>2
<1>5. up = 0 => total = 0
  BY <1>1
<1> QED
  BY <1>1, <1>2, <1>3, <1>4, <1>5

\* The page links of a search page with hits.
LEMMA PageLinksFacts ==
  ASSUME Fine, here.route = "search", NEW sweep \in Sweeps,
         NEW p, NEW slice, Searched(sweep, slice, p), p.hits # <<>>,
         slice # <<>> => (PageNo(here) - 1) * LimitOf(here) < Len(sweep.rows),
         p.truncated => sweep.truncated,
         NEW links, NEW more, links = more \cup SearchLinks(index, here, p),
         \A link \in more : link.kind # "page"
  PROVE  LET n == Len(sweep.rows)
             numbers == {PageNo(link.to) : link \in {l \in links : l.kind = "page"}}
         IN  /\ sweep.total >= n /\ PageNo(here) * LimitOf(here) < n =>
                  PageNo(here) + 1 \in numbers
             /\ p.truncated => \A k \in numbers : (k - 1) * LimitOf(here) < n
<1> DEFINE n == Len(sweep.rows)
           numbers == {PageNo(link.to) : link \in {l \in links : l.kind = "page"}}
           total == IF p.truncated /\ p.collected > 0 THEN p.collected ELSE p.total
           limit == LimitOf(here)
           at == PageNo(here)
           pages == Pages(total, limit)
<1>1. /\ n \in Nat /\ sweep.total \in Nat /\ p.total \in Nat /\ p.collected = n
      /\ p.total >= sweep.total /\ p.truncated \in BOOLEAN
      /\ p.truncated => p.hits = slice /\ p.total = sweep.total
  BY SweepFacts DEF Fine, Searched, SearchPage
<1>2. limit \in Nat \ {0} /\ at \in Nat \ {0} /\ total \in Nat
  BY <1>1, FineSearch
<1>3. {l \in links : l.kind = "page"} = Pagination(here, total)
  <2>1. /\ \A l \in RefineByDate(index, here, p.hits) : l.kind = "plain"
        /\ \A l \in RefineBySpeaker(here, p.hits) : l.kind = "plain"
        /\ \A l \in Related(index, here.q) : l.kind = "plain"
        /\ \A l \in LimitLinks(here, PageNo(here)) : l.kind = "plain"
    <3>1. \A A : \A l \in Links(A) : l.kind = "plain"
      BY DEF Links, Plain, Link
    <3> QED
      BY <3>1 DEF RefineByDate, RefineBySpeaker, Related, LimitLinks
  <2>2. \A l \in Pagination(here, total) : l.kind = "page"
    <3>1. \A k : PageLink(k).kind = "page"
      BY DEF PageLink, Link
    <3> QED
      BY <3>1, PaginationIs
  <2>3. SearchLinks(index, here, p) =
          RefineByDate(index, here, p.hits) \cup RefineBySpeaker(here, p.hits)
            \cup Related(index, here.q) \cup LimitLinks(here, PageNo(here))
            \cup Pagination(here, total)
    BY DEF SearchLinks
  <2> HIDE DEF total
  <2> QED
    BY <2>1, <2>2, <2>3
<1> HIDE DEF total, limit, at
<1>4. /\ pages \in Nat \ {0} /\ PageNumbers(total) \subseteq Nat \ {0}
      /\ \A k \in PageNumbers(total) : k <= pages \/ k < at
      /\ at < pages => at + 1 \in PageNumbers(total)
  BY <1>2, PageNumbersFacts DEF at, limit
<1>5. numbers = IF pages = 1 THEN {} ELSE PageNumbers(total)
  <2>1. Pagination(here, total) = IF pages = 1 THEN {} ELSE {PageLink(k) : k \in PageNumbers(total)}
    BY PaginationIs DEF limit
  <2>2. \A k \in Nat \ {0} : PageNo(PageLink(k).to) = k
    <3>1. ASSUME NEW k \in Nat \ {0}
          PROVE  PageLink(k).to.page = IF k = 1 THEN Nothing ELSE k
      BY DEF PageLink, Link, Again, Search
    <3>2. \A k \in Nat : k # Nothing
      BY Parameters
    <3> QED
      BY <3>1, <3>2 DEF PageNo
  <2>3. numbers = {PageNo(link.to) : link \in Pagination(here, total)}
    BY <1>3
  <2> HIDE DEF numbers, pages
  <2>4. CASE pages = 1
    BY <2>1, <2>3, <2>4
  <2>5. CASE pages # 1
    <3>1. Pagination(here, total) = {PageLink(k) : k \in PageNumbers(total)}
      BY <2>1, <2>5
    <3>2. numbers = {PageNo(PageLink(k).to) : k \in PageNumbers(total)}
      BY <2>3, <3>1
    <3> QED
      BY <1>4, <2>2, <2>5, <3>2
  <2> QED
    BY <2>4, <2>5
<1> HIDE DEF numbers, pages
<1>6. ASSUME sweep.total >= n, at * limit < n
      PROVE  at + 1 \in numbers
  <2>1. total >= n
    BY <1>1, <1>6 DEF total
  <2>2. at * limit \in Nat
    BY <1>2
  <2>3. at * limit < total
    BY <1>1, <1>2, <1>6, <2>1, <2>2
  <2>4. at < pages
    BY <1>2, <2>3, PagesFacts DEF pages
  <2> QED
    BY <1>2, <1>4, <1>5, <2>4
<1>7. ASSUME p.truncated, NEW k \in numbers
      PROVE  (k - 1) * limit < n
  <2>1. (at - 1) * limit < n /\ (at - 1) * limit \in Nat
    BY <1>1, <1>2, <1>7 DEF at, limit
  <2>2. n > 0 /\ total = n
    BY <1>1, <1>7, <2>1 DEF total
  <2>3. k \in PageNumbers(total)
    BY <1>5, <1>7
  <2>4. k \in Nat \ {0}
    BY <1>4, <2>3
  <2>5. CASE k <= pages
    BY <1>1, <1>2, <2>2, <2>4, <2>5, PagesFacts DEF pages
  <2>6. CASE k < at
    <3>1. (k - 1) * limit <= (at - 1) * limit
      BY <1>2, <2>4, <2>6, Grows
    <3>2. (k - 1) * limit \in Int
      BY <1>2, <2>4
    <3> QED
      BY <1>1, <2>1, <3>1, <3>2
  <2> QED
    BY <1>4, <2>3, <2>5, <2>6
<1> QED
  BY <1>6, <1>7 DEF n, numbers, limit, at

(***************************************************************************)
(* The inductive invariant.                                                *)
(***************************************************************************)
\* A page that was asked for, and the link that was followed to it.
Arrived ==
  /\ here = Nothing => page = Waiting /\ via = Nothing
  /\ here # Nothing => here \in Address
  /\ via # Nothing => via.to = here /\ Sound(via)

\* What the status, the size and the links of a page tell.
Answered ==
  /\ \A link \in page.links : Sound(link)
  /\ page.status \in {Nothing, 200, 404, 422, 429, 502}
  /\ page.status = 200 => Faults(here) = {} /\ SizeOf(here) \in {Nothing, page.size}
  /\ page.status = 422 => Faults(here) # {}
  /\ page.status = 404 => here.route = "report" /\ \A row \in Range(Held) : row.link # here.link

PagesInv ==
  /\ IndexType(index)
  /\ Arrived /\ Answered
  /\ CorrectionsConverge /\ LadderComplete /\ UpstreamHitsKept /\ PagesReachRows

LEMMA Statuses ==
  /\ Nothing \notin {200, 404, 422, 429, 502}
  /\ Nothing \notin Address
BY Parameters

\* A page without hits keeps them all.
LEMMA NothingToKeep ==
  ASSUME NEW p, p.hits = <<>>, p.slice = <<>>
  PROVE  /\ Among(p.hits, Range(p.slice)) = p.slice
         /\ IsInjective([i \in DOMAIN p.hits |-> p.hits[i].link])
<1>1. Among(<<>>, Range(<<>>)) = <<>>
  <2>1. <<>> \in Seq(Hits)
    OBVIOUS
  <2> QED
    BY <2>1, AroundItself, MiddleKept
<1>2. DOMAIN p.hits = {}
  OBVIOUS
<1> QED
  BY <1>1, <1>2 DEF IsInjective

LEMMA NothingKept ==
  ASSUME page'.hits = <<>>, page'.slice = <<>>
  PROVE  UpstreamHitsKept'
<1>1. /\ Among(page'.hits, Range(page'.slice)) = page'.slice
      /\ IsInjective([i \in DOMAIN page'.hits |-> page'.hits[i].link])
  BY NothingToKeep
<1> QED
  BY <1>1 DEF UpstreamHitsKept

\* No page is served yet.
LEMMA WaitingHolds ==
  ASSUME page' = Waiting
  PROVE  Answered' /\ CorrectionsConverge' /\ LadderComplete' /\ UpstreamHitsKept'
           /\ PagesReachRows'
<1>1. /\ page'.status = Nothing /\ page'.links = {}
      /\ page'.hits = <<>> /\ page'.slice = <<>>
  BY DEF Waiting, Page
<1>2. UpstreamHitsKept'
  BY <1>1, NothingKept
<1> QED
  BY <1>1, <1>2, Statuses DEF Answered, CorrectionsConverge, LadderComplete, PagesReachRows

\* What does not depend on the page stays while one is served.
LEMMA Unmoved ==
  ASSUME PagesInv, UNCHANGED <<index, here, via>>
  PROVE  /\ IndexType(index)' /\ \A link : Sound(link)' <=> Sound(link)
         /\ SizeOf(here)' = SizeOf(here) /\ Range(Held)' = Range(Held)
         /\ here # Nothing => Arrived'
<1>1. Held' = Held
  BY DEF Held
<1>2. IndexType(index)'
  BY DEF PagesInv, IndexType
<1>3. \A link : Sound(link)' <=> Sound(link)
  BY <1>1 DEF Sound, Leads, SizeOf
<1>4. SizeOf(here)' = SizeOf(here)
  BY DEF SizeOf
<1>5. here # Nothing => Arrived'
  BY <1>3 DEF PagesInv, Arrived
<1> QED
  BY <1>1, <1>2, <1>3, <1>4, <1>5

\* A page that neither the ladder nor the search makes.
LEMMA ServePlain ==
  ASSUME PagesInv, here # Nothing, NEW status, NEW size, NEW links,
         Serve(Page(status, size, links)),
         \A link \in links : Sound(link),
         \A link \in links : link.kind = "correction" =>
           Faults(link.to) \subseteq Faults(here) /\ Faults(link.to) # Faults(here),
         status \in {200, 404, 422, 429, 502},
         status = 200 => /\ Faults(here) = {} /\ SizeOf(here) \in {Nothing, size}
                         /\ here.route \notin {"nav", "search"},
         status = 422 => Faults(here) # {},
         status = 404 => here.route = "report" /\ \A row \in Range(Held) : row.link # here.link
  PROVE  PagesInv'
<1>1. /\ page' = Page(status, size, links) /\ here' = here
      /\ UNCHANGED <<index, here, via>>
  BY DEF Serve
<1>2. /\ page'.status = status /\ page'.size = size /\ page'.links = links
      /\ page'.hits = <<>> /\ page'.slice = <<>>
  BY <1>1 DEF Page
<1>3. Answered'
  <2>1. \A link \in page'.links : Sound(link)'
    BY <1>1, <1>2, Unmoved
  <2>2. Range(Held)' = Range(Held) /\ SizeOf(here)' = SizeOf(here)
    BY <1>1, Unmoved
  <2> QED
    BY <1>1, <1>2, <2>1, <2>2 DEF Answered
<1>4. CorrectionsConverge'
  BY <1>1, <1>2 DEF CorrectionsConverge
<1>5. LadderComplete' /\ PagesReachRows'
  BY <1>1, <1>2 DEF LadderComplete, PagesReachRows
<1>6. UpstreamHitsKept'
  BY <1>2, NothingKept
<1>7. IndexType(index)' /\ Arrived'
  BY <1>1, Unmoved
<1> QED
  BY <1>3, <1>4, <1>5, <1>6, <1>7 DEF PagesInv

LEMMA ServeOrdinary ==
  ASSUME PagesInv, Fine, here # Nothing, here.route \notin {"nav", "search"},
         NEW size, SizeOf(here) \in {Nothing, size}, NEW links, Ordinary(links),
         Serve(Page(200, size, links))
  PROVE  PagesInv'
BY ServePlain DEF Ordinary, Fine

\* An error page has the bar and the correction.
LEMMA ServeError ==
  ASSUME PagesInv, here # Nothing, NEW status \in {404, 422, 429, 502}, NEW correction,
         Serve(ErrorPage(status, correction)),
         \A a \in correction : /\ a \in Address
                               /\ Faults(a) \subseteq Faults(here) /\ Faults(a) # Faults(here),
         status = 422 => Faults(here) # {},
         status = 404 => here.route = "report" /\ \A row \in Range(Held) : row.link # here.link
  PROVE  PagesInv'
<1> DEFINE links == IF ErrorFormat(here) # "html" THEN {}
                    ELSE NavBar \cup {Link("correction", a, Nothing) : a \in correction}
<1>1. ErrorPage(status, correction) = Page(status, 0, links)
  BY DEF ErrorPage
<1>2. ASSUME NEW link \in links
      PROVE  /\ Sound(link)
             /\ link.kind = "correction" =>
                  Faults(link.to) \subseteq Faults(here) /\ Faults(link.to) # Faults(here)
  <2>1. CASE link \in NavBar
    BY <2>1, NavBarOrdinary DEF Ordinary
  <2>2. ASSUME NEW a \in correction, link = Link("correction", a, Nothing)
        PROVE  /\ Sound(link)
               /\ Faults(link.to) \subseteq Faults(here) /\ Faults(link.to) # Faults(here)
    <3>1. link.kind = "correction" /\ link.to = a /\ link.says = Nothing
      BY <2>2 DEF Link
    <3> QED
      BY <3>1 DEF Sound
  <2> QED
    BY <2>1, <2>2
<1> HIDE DEF links
<1>3. Serve(Page(status, 0, links))
  BY <1>1
<1> QED
  BY <1>2, <1>3, ServePlain

LEMMA ServeFacetHolds ==
  ASSUME PagesInv, Fine, here # Nothing, here.route \in {"years", "year", "letters", "letter"},
         NEW entries, Ordinary(entries), SizeOf(here) \in {Nothing, Cardinality(entries)},
         NEW back, \A a \in back : Leads(a), ServeFacet(entries, back)
  PROVE  PagesInv'
<1>1. Leads(here)
  BY FineLeads
<1>2. Ordinary(Links(back \cup {Launcher("html")}))
  <2>1. \A a \in back \cup {Launcher("html")} : Leads(a)
    BY BarLeads
  <2> QED
    BY <2>1, PlainOrdinary
<1> DEFINE links == Framed(entries, Links(back \cup {Launcher("html")}), {"json", "text"})
           size == Cardinality(entries)
<1>3. Ordinary(links)
  <2>1. {"json", "text"} \in SUBSET Formats
    BY DEF Formats
  <2> QED
    BY <1>1, <1>2, <2>1, FramedOrdinary
<1>4. Serve(Page(200, size, links))
  BY DEF ServeFacet
<1> HIDE DEF links, size
<1>5. SizeOf(here) \in {Nothing, size}
  BY DEF size
<1> QED
  BY <1>3, <1>4, <1>5, ServeOrdinary

\* An accepted request.
LEMMA AcceptedFine ==
  ASSUME PagesInv, NEW route, Accepted(route)
  PROVE  Fine /\ here # Nothing /\ here.route = route
BY DEF PagesInv, Arrived, Accepted, Asked, Fine

(***************************************************************************)
(* The actions.                                                            *)
(***************************************************************************)
LEMMA InitHolds == Init => PagesInv
<1> SUFFICES ASSUME Init PROVE PagesInv
  OBVIOUS
<1>1. PICK rows \in Corpora : index = BuildIndex(rows)
  BY DEF Init
<1>2. IndexType(index)
  BY <1>1, IndexIsTyped
<1>3. Arrived
  BY DEF Init, Arrived
<1>4. /\ page = Waiting /\ page.status = Nothing /\ page.links = {}
      /\ page.hits = <<>> /\ page.slice = <<>>
  BY DEF Init, Waiting, Page
<1>5. Answered /\ CorrectionsConverge /\ LadderComplete /\ PagesReachRows
  BY <1>4, Statuses DEF Answered, CorrectionsConverge, LadderComplete, PagesReachRows
<1>6. UpstreamHitsKept
  BY <1>4, NothingToKeep DEF UpstreamHitsKept
<1> QED
  BY <1>2, <1>3, <1>5, <1>6 DEF PagesInv

\* A client that begins, follows a link or begins anew waits for its page.
LEMMA ClientHolds ==
  ASSUME PagesInv, \/ \E a \in Typed : Type(a)
                   \/ \E link \in page.links : Follow(link)
                   \/ Leave
  PROVE  PagesInv'
<1>1. index' = index /\ page' = Waiting
  BY DEF PagesInv, Arrived, Type, Follow, Leave
<1>2. IndexType(index)'
  BY <1>1 DEF PagesInv, IndexType
<1>3. \A link : Sound(link)' <=> Sound(link)
  BY <1>1 DEF Sound, Leads, SizeOf, Held
<1>4. Arrived'
  <2>1. ASSUME NEW a \in Typed, Type(a)
        PROVE  Arrived'
    <3>1. here' = a /\ via' = Nothing /\ a \in Address
      BY <2>1, Parameters DEF Type, PagesInv, Arrived
    <3> QED
      BY <3>1, Statuses DEF Arrived
  <2>2. ASSUME NEW link \in page.links, Follow(link)
        PROVE  Arrived'
    <3>1. here' = link.to /\ via' = link /\ Sound(link)
      BY <2>2 DEF Follow, PagesInv, Answered
    <3>2. link.to \in Address
      BY <3>1 DEF Sound
    <3> QED
      BY <1>3, <3>1, <3>2, Statuses DEF Arrived
  <2>3. ASSUME Leave
        PROVE  Arrived'
    BY <2>3 DEF Leave, Arrived
  <2> QED
    BY <2>1, <2>2, <2>3
<1> QED
  BY <1>1, <1>2, <1>4, WaitingHolds DEF PagesInv

\* A page of the wrong URL, of a request that fails upstream and of a report that is
\* not there.
LEMMA RefuseHolds ==
  ASSUME PagesInv, Refuse
  PROVE  PagesInv'
<1>1. /\ here # Nothing /\ Faults(here) # {} /\ here \in Address
      /\ Serve(ErrorPage(422, {CorrectedForm(here)} \ {Nothing}))
  BY DEF Refuse, PagesInv, Arrived
<1>2. \A a \in {CorrectedForm(here)} \ {Nothing} :
        /\ a \in Address
        /\ Faults(a) \subseteq Faults(here) /\ Faults(a) # Faults(here)
  BY <1>1, CorrectionFacts
<1> QED
  BY <1>1, <1>2, ServeError

LEMMA FailHolds ==
  ASSUME PagesInv, FailUpstream \/ MissReport
  PROVE  PagesInv'
<1>1. CASE FailUpstream
  <2>1. PICK status \in {429, 502} : Serve(ErrorPage(status, {}))
    BY <1>1 DEF FailUpstream
  <2>2. here # Nothing
    BY <1>1 DEF FailUpstream, Accepted, Asked
  <2>3. status \in {404, 422, 429, 502} /\ status # 422 /\ status # 404
    OBVIOUS
  <2> QED
    BY <2>1, <2>2, <2>3, ServeError
<1>2. CASE MissReport
  <2>1. /\ here # Nothing /\ here.route = "report" /\ Serve(ErrorPage(404, {}))
        /\ \A row \in Range(Held) : row.link # here.link
    BY <1>2 DEF MissReport, Accepted, Asked
  <2> QED
    BY <2>1, ServeError
<1> QED
  BY <1>1, <1>2

LEMMA LauncherHolds ==
  ASSUME PagesInv, ServeLauncher
  PROVE  PagesInv'
<1> DEFINE size == Cardinality(index.terms)
           links == Framed(LauncherLinks, {}, {"json"})
<1>1. Fine /\ here # Nothing /\ here.route = "launcher"
  BY AcceptedFine DEF ServeLauncher
<1>2. Ordinary(links)
  <2>1. Leads(here) /\ Ordinary(LauncherLinks) /\ Ordinary({})
    BY <1>1, FineLeads, LauncherOrdinary DEF Ordinary
  <2>2. {"json"} \in SUBSET Formats
    BY DEF Formats
  <2> QED
    BY <1>1, <2>1, <2>2, FramedOrdinary
<1>3. SizeOf(here) = Nothing
  BY <1>1 DEF SizeOf
<1>4. Serve(Page(200, size, links))
  BY DEF ServeLauncher
<1> HIDE DEF size, links
<1> QED
  BY <1>1, <1>2, <1>3, <1>4, ServeOrdinary

LEMMA YearsHold ==
  ASSUME PagesInv, ServeYears
  PROVE  PagesInv'
<1> DEFINE entries == {Link("plain", YearPage(y, "html"), Cardinality(SittingsInYear(index, y))) :
                         y \in YearsOf(index)}
<1>1. Fine /\ here # Nothing /\ here.route = "years"
  BY AcceptedFine DEF ServeYears
<1>2. Ordinary(entries) /\ ServeFacet(entries, {})
  BY <1>1, YearsOrdinary DEF ServeYears
<1>3. SizeOf(here) = Nothing
  BY <1>1 DEF SizeOf
<1> HIDE DEF entries
<1> QED
  BY <1>1, <1>2, <1>3, ServeFacetHolds

LEMMA YearHolds ==
  ASSUME PagesInv, ServeYear
  PROVE  PagesInv'
<1> DEFINE entries == Links({DatePage(d, "html") : d \in SittingsInYear(index, here.year)})
           back == {YearIndex("html")}
<1>1. Fine /\ here # Nothing /\ here.route = "year"
  BY AcceptedFine DEF ServeYear
<1>2. Ordinary(entries) /\ Cardinality(entries) = SizeOf(here) /\ \A a \in back : Leads(a)
  BY <1>1, YearOrdinary, BarLeads
<1>3. ServeFacet(entries, back)
  BY DEF ServeYear
<1> HIDE DEF entries, back
<1> QED
  BY <1>1, <1>2, <1>3, ServeFacetHolds

LEMMA LettersHold ==
  ASSUME PagesInv, NEW kind \in {"speaker", "bill"}, ServeLetters(kind)
  PROVE  PagesInv'
<1> DEFINE entries == {Link("plain", LetterPage(kind, c, "html"),
                            Cardinality(TermsOfKind(index, kind, c))) : c \in FacetLetter}
<1>1. Fine /\ here # Nothing /\ here.route = "letters"
  BY AcceptedFine DEF ServeLetters
<1>2. Ordinary(entries) /\ ServeFacet(entries, {})
  BY LettersOrdinary DEF ServeLetters
<1>3. SizeOf(here) = Nothing
  BY <1>1 DEF SizeOf
<1> HIDE DEF entries
<1> QED
  BY <1>1, <1>2, <1>3, ServeFacetHolds

LEMMA MemberHolds ==
  ASSUME PagesInv, ServeMember
  PROVE  PagesInv'
<1> DEFINE entries == Links({[Search(Untitled) EXCEPT !.speaker = t.surface] :
                               t \in TermsOfKind(index, "speaker", here.letter)})
           back == {LetterIndex("speaker", "html")}
<1>1. Accepted("letter") /\ here.kind = "speaker" /\ ServeFacet(entries, back)
  BY DEF ServeMember, ServeLetter
<1>2. Fine /\ here # Nothing /\ here.route = "letter"
  BY <1>1, AcceptedFine
<1>3. Ordinary(entries) /\ Cardinality(entries) = SizeOf(here) /\ \A a \in back : Leads(a)
  BY <1>1, <1>2, MemberOrdinary, BarLeads
<1> HIDE DEF entries, back
<1> QED
  BY <1>1, <1>2, <1>3, ServeFacetHolds

LEMMA BillHolds ==
  ASSUME PagesInv, ServeBill
  PROVE  PagesInv'
<1> DEFINE entries == Links({Search(t.surface) :
                               t \in TermsOfKind(index, "bill", here.letter)})
           back == {LetterIndex("bill", "html")}
<1>1. Accepted("letter") /\ here.kind = "bill" /\ ServeFacet(entries, back)
  BY DEF ServeBill, ServeLetter
<1>2. Fine /\ here # Nothing /\ here.route = "letter"
  BY <1>1, AcceptedFine
<1>3. Ordinary(entries) /\ Cardinality(entries) = SizeOf(here) /\ \A a \in back : Leads(a)
  BY <1>1, <1>2, BillOrdinary, BarLeads
<1> HIDE DEF entries, back
<1> QED
  BY <1>1, <1>2, <1>3, ServeFacetHolds

LEMMA DateHolds ==
  ASSUME PagesInv, ServeDate
  PROVE  PagesInv'
<1> DEFINE hits == Among(Held, {r \in Range(Held) : r.day = here.day})
           around == {Previous(index, here.day), Following(index, here.day)} \ {Nothing}
           more == Links({DatePage(d, "html") : d \in around}
                           \cup {YearPage(Year(here.day), "html")})
           links == Framed(Reports(hits), more, {"json", "text"})
           size == Len(hits)
<1>1. Fine /\ here # Nothing /\ here.route = "date"
  BY AcceptedFine DEF ServeDate
<1>2. Ordinary(links)
  <2>1. Leads(here) /\ Ordinary(Reports(hits)) /\ Ordinary(more)
    BY <1>1, FineLeads, DateOrdinary
  <2>2. {"json", "text"} \in SUBSET Formats
    BY DEF Formats
  <2> HIDE DEF hits, more
  <2> QED
    BY <1>1, <2>1, <2>2, FramedOrdinary
<1>3. SizeOf(here) = Nothing
  BY <1>1 DEF SizeOf
<1>4. Serve(Page(200, size, links))
  BY DEF ServeDate
<1> HIDE DEF links, size
<1> QED
  BY <1>1, <1>2, <1>3, <1>4, ServeOrdinary

LEMMA ReportHolds ==
  ASSUME PagesInv, ServeReport
  PROVE  PagesInv'
<1>1. Fine /\ here # Nothing /\ here.route = "report"
  BY AcceptedFine DEF ServeReport
<1>2. PICK row \in Range(Held) :
        /\ row.link = here.link
        /\ Serve(Page(200, 1, Framed(ReportLinks(row), ReportNav(row), {"json", "text"})))
  BY DEF ServeReport
<1> DEFINE links == Framed(ReportLinks(row), ReportNav(row), {"json", "text"})
<1>3. Ordinary(links)
  <2>1. Ordinary(ReportLinks(row)) /\ Ordinary(ReportNav(row))
    BY <1>1, ReportOrdinary
  <2>2. Leads(here)
    BY <1>1, <1>2 DEF Leads, Fine
  <2>3. {"json", "text"} \in SUBSET Formats
    BY DEF Formats
  <2> QED
    BY <1>1, <2>1, <2>2, <2>3, FramedOrdinary
<1>4. SizeOf(here) = Nothing
  BY <1>1 DEF SizeOf
<1>5. Serve(Page(200, 1, links))
  BY <1>2
<1> HIDE DEF links
<1> QED
  BY <1>1, <1>3, <1>4, <1>5, ServeOrdinary

\* A page of the ladder: what it cuts off, its branches lead to.
LEMMA NavHolds ==
  ASSUME PagesInv, ServeNav
  PROVE  PagesInv'
<1> DEFINE size == Len(TermsForPrefix(index, here.prefix))
           links == Framed(NavLinks(Listed, Branches), NavMore(here.prefix, Branches),
                           {"json", "text"})
           norms == {t.norm : t \in Listed}
           p == [Page(200, size, links) EXCEPT !.listed = norms, !.cut = Cut]
<1>1. Fine /\ here # Nothing /\ here.route = "nav"
  BY AcceptedFine DEF ServeNav
<1>2. Serve(p)
  BY DEF ServeNav, Listed, Branches, Cut
<1>3. Ordinary(links)
  <2>1. Leads(here)
    BY <1>1, FineLeads
  <2>2. Ordinary(NavLinks(Listed, Branches)) /\ Ordinary(NavMore(here.prefix, Branches))
    BY <1>1, NavLinksOrdinary, NavMoreOrdinary
  <2>3. {"json", "text"} \in SUBSET Formats
    BY DEF Formats
  <2> QED
    BY <1>1, <2>1, <2>2, <2>3, FramedOrdinary
<1>4. NavLinks(Listed, Branches) \subseteq links
  BY DEF Framed
<1>5. SizeOf(here) = size
  BY <1>1, ListedFacts DEF SizeOf
<1> HIDE DEF links, size
<1>6. /\ UNCHANGED <<index, here, via>>
      /\ page'.status = 200 /\ page'.size = size /\ page'.links = links
      /\ page'.listed = norms /\ page'.cut = Cut
      /\ page'.hits = <<>> /\ page'.slice = <<>>
  BY <1>2 DEF Serve, Page
<1> HIDE DEF p
<1>7. Answered'
  <2>1. \A link \in page'.links : Sound(link)'
    BY <1>3, <1>6, Unmoved DEF Ordinary
  <2>2. SizeOf(here)' = SizeOf(here)
    BY <1>6, Unmoved
  <2> QED
    BY <1>1, <1>5, <1>6, <2>1, <2>2, Statuses DEF Answered, Fine
<1>8. CorrectionsConverge'
  BY <1>3, <1>6 DEF CorrectionsConverge, Ordinary
<1>9. LadderComplete'
  <2>1. ASSUME NEW t \in Reached(index.terms, here.prefix), ~Cut
        PROVE  t.norm \in norms
    BY <1>1, <2>1, ListedFacts
  <2>2. ASSUME NEW t \in Reached(index.terms, here.prefix), Cut,
               NEW w \in Range(t.norm) \ Stopword, IsPrefix(here.prefix, w), w # here.prefix
        PROVE  \E link \in links : link.kind = "child" /\ link.to.prefix \in PrefixRows(t)
    BY <1>1, <1>4, <2>2, LadderGoesOn
  <2>3. Cut => Len(here.prefix) < Depth
    BY DEF Cut, IsCut
  <2> HIDE DEF norms
  <2>4. ASSUME NEW t \in Reached(index.terms, here.prefix)
        PROVE  \/ t.norm \in norms
               \/ \E link \in links : link.kind = "child" /\ link.to.prefix \in PrefixRows(t)
               \/ /\ Cut /\ Len(here.prefix) < Depth
                  /\ \A w \in Range(t.norm) \ Stopword : IsPrefix(here.prefix, w) => w = here.prefix
    BY <2>1, <2>2, <2>3
  <2> QED
    BY <1>6, <2>4 DEF LadderComplete
<1>10. UpstreamHitsKept' /\ PagesReachRows'
  BY <1>1, <1>6, NothingKept DEF PagesReachRows
<1>11. IndexType(index)' /\ Arrived'
  BY <1>1, <1>6, Unmoved
<1> QED
  BY <1>7, <1>8, <1>9, <1>10, <1>11 DEF PagesInv

\* A page of a search.
LEMMA SearchHolds ==
  ASSUME PagesInv, ServeSearch
  PROVE  PagesInv'
<1>1. Fine /\ here # Nothing /\ here.route = "search"
  BY AcceptedFine DEF ServeSearch
<1>2. PICK sweep \in {s \in Sweeps : IsSweep(s)}, pair \in {<<>>, <<Hit(Unindexed)>>} :
        LET sliced == SelectPage(here, sweep)
            p == Boost(index, here.q, MergePair(sliced, pair))
            html == SearchLinks(index, here, p) \cup SearchSiblings \cup NavBar
        IN  Serve([Page(200, Len(p.hits),
                        Reports(p.hits) \cup (IF here.format = "html" THEN html ELSE {}))
                     EXCEPT !.sweep = [sweep EXCEPT !.truncated = p.truncated],
                            !.slice = sliced.hits, !.hits = p.hits])
  BY DEF ServeSearch
<1> DEFINE slice == SelectPage(here, sweep).hits
           p == Boost(index, here.q, MergePair(SelectPage(here, sweep), pair))
           html == SearchLinks(index, here, p) \cup SearchSiblings \cup NavBar
           links == Reports(p.hits) \cup (IF here.format = "html" THEN html ELSE {})
           size == Len(p.hits)
           swept == [sweep EXCEPT !.truncated = p.truncated]
<1>3. Serve([Page(200, size, links) EXCEPT !.sweep = swept, !.slice = slice, !.hits = p.hits])
  BY <1>2
<1>4. /\ slice \in Seq(Hits) /\ Searched(sweep, slice, p)
      /\ p.truncated => sweep.truncated
      /\ slice # <<>> => (PageNo(here) - 1) * LimitOf(here) < Len(sweep.rows)
  BY <1>1, SearchFacts
<1> HIDE DEF p, slice
<1>5. p \in SearchPage /\ p.hits \in Seq(Hits) /\ LinksDiffer(p.hits) /\ Around(slice, p.hits)
  BY <1>4 DEF Searched, Kept
<1>6. Ordinary(links)
  <2>1. Ordinary(Reports(p.hits))
    <3>1. ASSUME NEW h \in Range(p.hits)
          PROVE  \E row \in Range(Held) : h.link = row.link
      <4>1. h \in Hits
        BY <1>5, RangeOfSeq
      <4> QED
        BY <4>1 DEF Hits, Hit
    <3> QED
      BY <1>1, <3>1, ReportsOrdinary DEF Fine
  <2>2. Ordinary(SearchLinks(index, here, p)) /\ Ordinary(SearchSiblings) /\ Ordinary(NavBar)
    BY <1>1, <1>5, SearchLinksOrdinary, SearchSiblingsOrdinary, NavBarOrdinary
  <2> QED
    BY <2>1, <2>2 DEF Ordinary
<1>7. ASSUME here.format = "html", p.hits # <<>>
      PROVE  LET n == Len(sweep.rows)
                 numbers == {PageNo(link.to) : link \in {l \in links : l.kind = "page"}}
             IN  /\ sweep.total >= n /\ PageNo(here) * LimitOf(here) < n =>
                      PageNo(here) + 1 \in numbers
                 /\ p.truncated => \A k \in numbers : (k - 1) * LimitOf(here) < n
  <2> DEFINE more == Reports(p.hits) \cup SearchSiblings \cup NavBar
  <2>1. links = more \cup SearchLinks(index, here, p)
    BY <1>7
  <2>2. \A link \in more : link.kind # "page"
    <3>1. \A A : \A link \in Links(A) : link.kind = "plain"
      BY DEF Links, Plain, Link
    <3> QED
      BY <3>1 DEF Reports, SearchSiblings, Siblings, NavBar
  <2> HIDE DEF links, more
  <2> QED
    BY <1>1, <1>2, <1>4, <1>7, <2>1, <2>2, PageLinksFacts
<1> HIDE DEF links, size, swept
<1>8. /\ UNCHANGED <<index, here, via>>
      /\ page'.status = 200 /\ page'.size = size /\ page'.links = links
      /\ page'.hits = p.hits /\ page'.slice = slice /\ page'.sweep = swept
  BY <1>3 DEF Serve, Page
<1>9. swept.rows = sweep.rows /\ swept.total = sweep.total /\ swept.truncated = p.truncated
  BY <1>2 DEF swept, Sweeps
<1>10. Answered'
  <2>1. \A link \in page'.links : Sound(link)'
    BY <1>6, <1>8, Unmoved DEF Ordinary
  <2>2. SizeOf(here)' = Nothing
    <3>1. SizeOf(here) = Nothing
      BY <1>1 DEF SizeOf
    <3> QED
      BY <1>8, <3>1, Unmoved
  <2> QED
    BY <1>1, <1>8, <2>1, <2>2, Statuses DEF Answered, Fine
<1>11. CorrectionsConverge'
  BY <1>6, <1>8 DEF CorrectionsConverge, Ordinary
<1>12. LadderComplete'
  BY <1>1, <1>8 DEF LadderComplete
<1>13. UpstreamHitsKept'
  <2>1. Among(p.hits, Range(slice)) = slice
    BY <1>4, <1>5, MiddleKept
  <2>2. IsInjective([i \in DOMAIN p.hits |-> p.hits[i].link])
    <3>1. DOMAIN p.hits = 1..Len(p.hits)
      BY <1>5
    <3> QED
      BY <1>5, <3>1 DEF IsInjective, LinksDiffer
  <2> QED
    BY <1>8, <2>1, <2>2 DEF UpstreamHitsKept
<1>14. PagesReachRows'
  <2>1. PageNo(here)' = PageNo(here) /\ LimitOf(here)' = LimitOf(here)
    BY <1>8 DEF PageNo, LimitOf
  <2> QED
    BY <1>7, <1>8, <1>9, <2>1 DEF PagesReachRows
<1>15. IndexType(index)' /\ Arrived'
  BY <1>1, <1>8, Unmoved
<1> QED
  BY <1>10, <1>11, <1>12, <1>13, <1>14, <1>15 DEF PagesInv

LEMMA StepHolds == PagesInv /\ [Next]_vars => PagesInv'
<1> SUFFICES ASSUME PagesInv, [Next]_vars PROVE PagesInv'
  OBVIOUS
<1>1. CASE (\E a \in Typed : Type(a)) \/ (\E link \in page.links : Follow(link)) \/ Leave
  BY <1>1, ClientHolds
<1>2. CASE Refuse
  BY <1>2, RefuseHolds
<1>3. CASE ServeLauncher
  BY <1>3, LauncherHolds
<1>4. CASE ServeNav
  BY <1>4, NavHolds
<1>5. CASE ServeYears
  BY <1>5, YearsHold
<1>6. CASE ServeYear
  BY <1>6, YearHolds
<1>7. CASE ServeMembers \/ ServeBills
  BY <1>7, LettersHold DEF ServeMembers, ServeBills
<1>8. CASE ServeMember
  BY <1>8, MemberHolds
<1>9. CASE ServeBill
  BY <1>9, BillHolds
<1>10. CASE ServeSearch
  BY <1>10, SearchHolds
<1>11. CASE ServeDate
  BY <1>11, DateHolds
<1>12. CASE ServeReport
  BY <1>12, ReportHolds
<1>13. CASE MissReport \/ FailUpstream
  BY <1>13, FailHolds
<1>14. CASE UNCHANGED vars
  <2>1. UNCHANGED <<index, here, via>> /\ page' = page
    BY <1>14 DEF vars
  <2>2. \A link : Sound(link)' <=> Sound(link)
    BY <2>1, Unmoved
  <2>3. IndexType(index)' /\ SizeOf(here)' = SizeOf(here) /\ Range(Held)' = Range(Held)
    BY <2>1, Unmoved
  <2>4. Arrived'
    BY <2>1, <2>2 DEF PagesInv, Arrived
  <2>5. Answered'
    BY <2>1, <2>2, <2>3 DEF PagesInv, Answered
  <2>6. CorrectionsConverge' /\ LadderComplete' /\ UpstreamHitsKept' /\ PagesReachRows'
    BY <2>1 DEF PagesInv, CorrectionsConverge, LadderComplete, UpstreamHitsKept, PagesReachRows
  <2> QED
    BY <2>3, <2>4, <2>5, <2>6 DEF PagesInv
<1> QED
  BY <1>1, <1>2, <1>3, <1>4, <1>5, <1>6, <1>7, <1>8, <1>9, <1>10, <1>11, <1>12, <1>13, <1>14
     DEF Next

\* What is true of every page: the index is typed and names each report once, the link
\* that led to the page and every link on the page are sound, the status tells what is
\* wrong with the address, and the size is that of the entries behind it.
THEOREM PagesInvariant == Spec => []PagesInv
BY InitHolds, StepHolds, PTL DEF Spec

\* A link that a page shows leads to a 404 or a 422 only for a report whose id the
\* gateway refuses (`report_handler.py`) or a topic that is longer than a query may be,
\* on every index that the crawl can build and from every URL that a client may type.
THEOREM LinksLead == Spec => []NoLinkFails
<1>1. PagesInv => NoLinkFails
  <2> SUFFICES ASSUME PagesInv, page.status \in {404, 422}, via # Nothing,
                      via.kind # "correction"
               PROVE  Faults(here) \in {{"link"}, {"q"}}
    BY DEF NoLinkFails
  <2>1. Leads(here)
    BY DEF PagesInv, Arrived, Sound
  <2>2. page.status # 404
    BY <2>1 DEF PagesInv, Answered, Leads
  <2>3. Faults(here) # {}
    BY <2>2 DEF PagesInv, Answered
  <2> QED
    BY <2>1, <2>3 DEF Leads
<1> QED
  BY <1>1, PagesInvariant, PTL

\* `corrected_form_for_422`: the address that a 422 page offers has fewer faults than
\* the one it corrects, and no other.
THEOREM CorrectionsLeadOn == Spec => []CorrectionsConverge
<1>1. PagesInv => CorrectionsConverge
  BY DEF PagesInv
<1> QED
  BY <1>1, PagesInvariant, PTL

\* The number beside a link of the ladder, of the years, of the members and of the bills
\* (`_materialise_children`, `queries.py`) is the number of entries of the page behind
\* it: COUNT(DISTINCT) over the rows of an extension counts what the list of the
\* extension holds, and no two terms or sittings share a link.
THEOREM CountsTrue == Spec => []CountsMatchPages
<1>1. PagesInv => CountsMatchPages
  BY DEF PagesInv, Arrived, Answered, Sound, CountsMatchPages
<1> QED
  BY <1>1, PagesInvariant, PTL

\* `_assemble_nav`: a term that a page of the ladder cuts off is reached by one of its
\* branches, unless each of its words with the prefix is the prefix itself.
THEOREM LadderHolds == Spec => []LadderComplete
<1>1. PagesInv => LadderComplete
  BY DEF PagesInv
<1> QED
  BY <1>1, PagesInvariant, PTL

\* `merge_pair` and `apply_exact_term_boost` only put reports around those that the
\* nodes gave, each report once.
THEOREM UpstreamHitsStay == Spec => []UpstreamHitsKept
<1>1. PagesInv => UpstreamHitsKept
  BY DEF PagesInv
<1> QED
  BY <1>1, PagesInvariant, PTL

\* `build_pagination`: a next page while rows are left, and no page beyond the rows of
\* a search that is marked as truncated.
THEOREM PageLinksReach == Spec => []PagesReachRows
<1>1. PagesInv => PagesReachRows
  BY DEF PagesInv
<1> QED
  BY <1>1, PagesInvariant, PTL
=============================================================================
