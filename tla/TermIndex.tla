------------------------------ MODULE TermIndex -----------------------------
(***************************************************************************)
(* TermIndex: what the crawl makes of the reports of the site, and what    *)
(* the server reads from it (src/hansard_gateway/index/extract.py,         *)
(* build.py, queries.py).                                                  *)
(*                                                                         *)
(* A letter is a number, a word a sequence of letters, and a normalised    *)
(* text (`norm`) a sequence of words.  A surface, the text as it was       *)
(* written, is its normalised form with a number for what `norm` drops: of *)
(* two surfaces that differ only in that, the larger number is the longer  *)
(* text.                                                                   *)
(***************************************************************************)
EXTENDS Integers, SequencesExt, Orders

CONSTANTS Letter,        \* the characters of ALPHABET, as numbers from 1
          Stopword,      \* STOPWORDS
          BillWord,      \* "bill"
          Amendment,     \* "(Amendment)" or "(Amendment No. n)" in a title
          Noise,         \* "Head B", "Question No. 123"
          MinTermLen,    \* MIN_TERM_LEN
          Depth,         \* ladder_depth
          FatThreshold,  \* fat_branch_threshold
          DaysPerYear,   \* days are numbers: how many of them to a year
          Nothing        \* no value

ASSUME IndexAssumption ==
  /\ Letter \subseteq Nat \ {0}
  /\ \A n \in {MinTermLen, Depth, DaysPerYear} : n \in Nat \ {0}
  /\ FatThreshold \in Nat
  /\ Nothing \notin Int

Word == Seq(Letter) \ {<<>>}
Surface == [words : Seq(Word), dress : Nat]
Rows ==
  [id : Nat, link : STRING, day : Nat, title : Surface, type : Surface, speaker : Surface]

Text(words) == [words |-> words, dress |-> 0]
Untitled == Text(<<>>)

\* `norm`
Norm(surface) == surface.words

(***************************************************************************)
(* Order.  Text is compared character by character, and a space comes      *)
(* before every letter: so texts are compared word by word.                *)
(***************************************************************************)
Characters(norm) == FlattenSeq([i \in DOMAIN norm |-> norm[i] \o <<0>>])

TextBefore(s, t) == Lexical(s, t, Upwards)
TextOrder == {p \in Seq(Int) \X Seq(Int) : TextBefore(p[1], p[2])}

SurfaceBefore(s, t) ==
  \/ Lexical(s.words, t.words, TextOrder)
  \/ s.words = t.words /\ s.dress < t.dress

\* ORDER BY doc_count DESC, surface ASC (or norm ASC)
ByCount(terms) ==
  InOrder(terms, {p \in terms \X terms :
    \/ p[1].count > p[2].count
    \/ p[1].count = p[2].count /\ SurfaceBefore(p[1].surface, p[2].surface)})

(***************************************************************************)
(* `extract_terms`.  A row is a report: its id and link id, its day, and   *)
(* the surfaces of its title, its type and its speaker, Untitled for none. *)
(***************************************************************************)
\* `bill_name`: what stands before the word "Bill", less an "(Amendment)".
BillName(title) ==
  LET at == {i \in 2..Len(title.words) : title.words[i] = BillWord}
      last == Min(at) - 1
      cut == IF last > 1 /\ title.words[last] = Amendment THEN last - 1 ELSE last
  IN  IF at = {} THEN Untitled ELSE [title EXCEPT !.words = SubSeq(@, 1, cut)]

\* `topic_title`: the title without the noise it begins with.
TopicTitle(title) ==
  LET kept == {i \in DOMAIN title.words : title.words[i] \notin Noise}
  IN  IF kept = {} THEN Untitled
      ELSE [title EXCEPT !.words = SubSeq(@, Min(kept), Len(@))]

\* `KIND_RANK`
Kinds == <<"bill", "topic", "speaker", "type">>

\* What the rows mention, each row with its four surfaces.
Mentions(rows) ==
  LET surfaces(row) == <<BillName(row.title), TopicTitle(row.title), row.speaker, row.type>>
      all == {[row |-> i, rank |-> k, surface |-> surfaces(rows[i])[k]] :
                i \in DOMAIN rows, k \in DOMAIN Kinds}
  IN  {m \in all : Len(Characters(Norm(m.surface))) > MinTermLen}

\* The term of the mentions with one norm: the strongest kind, and the surface that
\* is the most frequent or, of two as frequent, the shorter.
Term(norm, mentions) ==
  LET times(s) == Cardinality({m \in mentions : m.surface = s})
      surfaces == {m.surface : m \in mentions}
      beats(s, t) == times(s) > times(t) \/ (times(s) = times(t) /\ s.dress <= t.dress)
  IN  [norm |-> norm, count |-> Cardinality(mentions),
       kind |-> Kinds[Min({m.rank : m \in mentions})],
       surface |-> CHOOSE s \in surfaces : \A t \in surfaces : beats(s, t)]

ExtractTerms(rows) ==
  LET all == Mentions(rows)
  IN  {Term(n, {m \in all : Norm(m.surface) = n}) : n \in {Norm(m.surface) : m \in all}}

(***************************************************************************)
(* `build_index`.                                                          *)
(***************************************************************************)
\* `_insert_reports`: of two rows with one id the later stays; in order of the id.
StoredReports(rows) ==
  LET last(i) == \A j \in DOMAIN rows : rows[j].id = rows[i].id => j <= i
      stored == {rows[i] : i \in {i \in DOMAIN rows : last(i)}}
  IN  InOrder(stored, {p \in stored \X stored : p[1].id < p[2].id})

\* `_insert_prefixes`: the rows of term_prefix for one term.
PrefixRows(term) ==
  UNION {{SubSeq(w, 1, n) : n \in 1..Min({Depth, Len(w)})} :
           w \in Range(term.norm) \ Stopword}

\* The terms reachable at a prefix.
Reached(terms, prefix) == {t \in terms : prefix \in PrefixRows(t)}

\* One letter longer, and found among the words of these terms.
Extensions(terms, prefix) ==
  {p \in UNION {PrefixRows(t) : t \in terms} :
     Len(p) = Len(prefix) + 1 /\ IsPrefix(prefix, p)}

\* Mutant of CountWith: a term counts once for each of its words.
CountWithPerWord(terms, prefix) ==
  Cardinality({p \in terms \X (1..3) :
                 p[2] \in DOMAIN p[1].norm /\ IsPrefix(prefix, p[1].norm[p[2]])})

\* COUNT(DISTINCT term_id)
CountWith(terms, prefix) == Cardinality({t \in terms : prefix \in PrefixRows(t)})

\* The extensions of a prefix, the one with most terms first.
Ranked(terms, prefix) ==
  LET found == Extensions(terms, prefix)
  IN  InOrder(found, {p \in found \X found :
        \/ CountWith(terms, p[1]) > CountWith(terms, p[2])
        \/ CountWith(terms, p[1]) = CountWith(terms, p[2]) /\ TextBefore(p[1], p[2])})

\* `_materialise_children`: a fat branch also stores its own largest branch, and
\* how many of its terms that one has.
Children(terms, prefix) ==
  LET here == Reached(terms, prefix)
      below(c) == Reached(here, c)
      fat(c) == CountWith(here, c) > FatThreshold /\ Ranked(below(c), c) # <<>>
      skip(c) == IF fat(c) THEN Ranked(below(c), c)[1] ELSE Nothing
  IN  {[child |-> c, n |-> CountWith(here, c), skip |-> skip(c),
        skipN |-> IF fat(c) THEN CountWith(below(c), skip(c)) ELSE 0] :
         c \in Extensions(here, prefix)}

BuildIndex(rows) == [reports |-> StoredReports(rows), terms |-> ExtractTerms(rows)]

(***************************************************************************)
(* The queries.                                                            *)
(***************************************************************************)
Year(day) == day \div DaysPerYear
Days(ix) == {r.day : r \in Range(ix.reports)}

\* The first letter of a surface or a norm; a term has one.
Initial(norm) == norm[1][1]

TermsForPrefix(ix, prefix) == ByCount(Reached(ix.terms, prefix))
ChildrenForPrefix(ix, prefix) == Children(ix.terms, prefix)
LetterCounts(ix) ==
  [c \in Letter |-> Cardinality({t \in ix.terms : Initial(t.norm) = c})]
TermsByNorm(ix) == ByCount(ix.terms)
CommonTerms(ix, n) == SubSeq(ByCount(ix.terms), 1, Min({n, Cardinality(ix.terms)}))
RecentSittings(ix, n) == {d \in Days(ix) : Cardinality({e \in Days(ix) : e > d}) < n}
YearsOf(ix) == {Year(d) : d \in Days(ix)}
SittingsInYear(ix, year) == {d \in Days(ix) : Year(d) = year}

Previous(ix, day) ==
  LET before == {d \in Days(ix) : d < day} IN IF before = {} THEN Nothing ELSE Max(before)
Following(ix, day) ==
  LET after == {d \in Days(ix) : d > day} IN IF after = {} THEN Nothing ELSE Min(after)

ReportsForSitting(ix, day) == Among(ix.reports, {r \in Range(ix.reports) : r.day = day})

TermByNorm(ix, norm) == {t \in ix.terms : t.norm = norm}

\* `reports_for_norm`: the surface of a term is looked for in the titles.
ReportsForTerms(ix, terms) ==
  Among(ix.reports, {r \in Range(ix.reports) : \E t \in terms : t.surface = r.title})

\* `members_letter`, `bills_letter`
TermsOfKind(ix, kind, letter) ==
  {t \in ix.terms : t.kind = kind /\ Initial(Norm(t.surface)) = letter}
=============================================================================
