----------------------------- MODULE SearchPages ----------------------------
(***************************************************************************)
(* SearchPages: from the rows of a sweep to the hits and the links of a    *)
(* search page (src/hansard_gateway/search/providers.py, boost.py,         *)
(* render/links.py, recovery_links.py, did_you_mean.py).                   *)
(***************************************************************************)
EXTENDS Addresses

CONSTANTS MaxLimit,      \* search_max_limit
          Offers,        \* _LIMIT_OFFERS
          PageWindow,    \* _PAGE_WINDOW
          RelatedN,      \* _RELATED_TERMS_N
          DidYouMeanN,   \* did_you_mean_n
          EntryPrefix    \* _LADDER_ENTRY_PREFIX_LEN

ASSUME SearchAssumption ==
  /\ \A n \in {MaxLimit, PageWindow, RelatedN, DidYouMeanN, EntryPrefix} : n \in Nat \ {0}
  /\ Offers \subseteq Nat \ {0} /\ EntryPrefix <= Depth

LimitOf(a) == IF a.limit = Nothing THEN MaxLimit ELSE Max({1, Min({a.limit, MaxLimit})})

QueryWords(q) == Among(Norm(q), Range(Norm(q)) \ Stopword)

(***************************************************************************)
(* The hits.  A hit has a link id, a day and a speaker, and a row of the   *)
(* index makes one as it is.                                               *)
(***************************************************************************)
Hit(row) == [link |-> row.link, day |-> row.day, speaker |-> row.speaker]

\* The hits that are not there yet, each report once.
New(hits, more) ==
  At(more, {i \in DOMAIN more : /\ \A h \in Range(hits) : h.link # more[i].link
                               /\ \A j \in 1..i - 1 : more[j].link # more[i].link})

\* `select_page`: one page of a sweep [rows, total, truncated].
SelectPage(a, sweep) ==
  LET start == (PageNo(a) - 1) * LimitOf(a)
  IN  [hits |-> SubSeq(sweep.rows, start + 1, Min({start + LimitOf(a), Len(sweep.rows)})),
       total |-> sweep.total, collected |-> Len(sweep.rows), truncated |-> sweep.truncated]

\* `merge_pair`, when Pair has hits.  A page that is built anew has the default for
\* `truncated`.
MergePair(page, pair) ==
  IF pair = <<>> THEN page
  ELSE [page EXCEPT !.hits = @ \o New(@, pair), !.total = @ + Len(New(page.hits, pair)),
                    !.truncated = FALSE]

\* The term of the query, or the one term that begins with its words.
ExactTerm(ix, q) == TermByNorm(ix, Norm(q))
PrefixTerms(ix, q) == {t \in ix.terms : IsPrefix(Norm(q), t.norm)}
Boosted(ix, q) ==
  IF Norm(q) = <<>> THEN {}
  ELSE IF ExactTerm(ix, q) # {} THEN ExactTerm(ix, q)
  ELSE IF Cardinality(PrefixTerms(ix, q)) = 1 THEN PrefixTerms(ix, q) ELSE {}

\* Mutant of Boost: the reports of the index stand for the hits.
BoostReplaces(ix, q, page) ==
  LET rows == ReportsForTerms(ix, ExactTerm(ix, q))
  IN  IF rows = <<>> THEN page
      ELSE [page EXCEPT !.hits = [i \in DOMAIN rows |-> Hit(rows[i])]]

\* `apply_exact_term_boost`: the reports of the term come first, or last when the
\* query only begins it.
Boost(ix, q, page) ==
  LET rows == ReportsForTerms(ix, Boosted(ix, q))
      hits == [i \in DOMAIN rows |-> Hit(rows[i])]
      added == New(page.hits, hits)
  IN  IF added = <<>> THEN page
      ELSE [page EXCEPT !.truncated = FALSE,
                        !.hits = IF ExactTerm(ix, q) # {} THEN added \o @ ELSE @ \o added]

(***************************************************************************)
(* The links around the hits.                                              *)
(***************************************************************************)
\* The search again, with the filters of the address and no page or limit.
Again(a, q) ==
  [Search(q) EXCEPT !.from = a.from, !.to = a.to, !.speaker = a.speaker]

Decade(year) == year - (year % 10)

RefineByDate(ix, a, hits) ==
  LET years == {Year(h.day) : h \in Range(hits)} \cup YearsOf(ix)
      span(first, last) ==
        [Again(a, a.q) EXCEPT !.from = first * DaysPerYear,
                              !.to = last * DaysPerYear + DaysPerYear - 1]
  IN  Links({span(y, y) : y \in years}
              \cup {span(Decade(y), Decade(y) + 9) : y \in years})

\* The most frequent speakers come first, and there are never too many here.
RefineBySpeaker(a, hits) ==
  Links({[Again(a, a.q) EXCEPT !.speaker = s] :
           s \in {h.speaker : h \in Range(hits)} \ {Untitled}})

\* `build_related_terms`: the terms with all the words before those with some.
Related(ix, q) ==
  LET words == Range(QueryWords(q))
      some == {t \in ix.terms : Range(t.norm) \cap words # {}}
      all == {t \in some : words \subseteq Range(t.norm)}
      ranked == Among(TermsByNorm(ix), all) \o Among(TermsByNorm(ix), some \ all)
  IN  Links({Search(ranked[i].surface) : i \in 1..Min({RelatedN, Len(ranked)})})

\* Mutant of Pages: the last page is dropped when it is not full.
PagesFull(total, limit) == Max({1, total \div limit})

Pages(total, limit) == Max({1, (total + limit - 1) \div limit})

\* `build_pagination`: the window around the page, and the pages before and after.
Pagination(a, total) ==
  LET pages == Pages(total, LimitOf(a))
      n == PageNo(a)
      from == Max({1, n - PageWindow \div 2})
      end == Min({pages, from + PageWindow - 1})
      start == Max({1, end - PageWindow + 1})
      numbers == {k \in (start..end) \cup {n - 1, n + 1} :
                    k \in start..end \/ (k = n - 1 /\ n > 1) \/ (k = n + 1 /\ n < pages)}
  IN  IF pages = 1 THEN {}
      ELSE {Link("page", [Again(a, a.q) EXCEPT !.page = IF k = 1 THEN Nothing ELSE k,
                                               !.limit = LimitOf(a)], Nothing) :
              k \in numbers}

\* `build_limit_links`
LimitLinks(a, page) ==
  Links({[Again(a, a.q) EXCEPT
            !.page = IF n = LimitOf(a) \/ page = 1 THEN Nothing ELSE page,
            !.limit = n] : n \in Offers})

(***************************************************************************)
(* Recovery from a search without hits.                                    *)
(***************************************************************************)
\* `osa_distance`, 3 for everything above 2.
Distance(a, b) ==
  LET d[i \in 0..Len(a), j \in 0..Len(b)] ==
        IF i = 0 THEN j ELSE IF j = 0 THEN i
        ELSE Min({d[i - 1, j] + 1, d[i, j - 1] + 1,
                  d[i - 1, j - 1] + (IF a[i] = b[j] THEN 0 ELSE 1)}
                 \cup (IF i > 1 /\ j > 1 /\ a[i] = b[j - 1] /\ a[i - 1] = b[j]
                       THEN {d[i - 2, j - 2] + 1} ELSE {}))
      gaveUp == \E i \in 1..Len(a) : \A j \in 0..Len(b) : d[i, j] > 2
  IN  IF Len(a) - Len(b) \notin -2..2 \/ gaveUp THEN 3 ELSE Min({3, d[Len(a), Len(b)]})

\* Mutant of InBand: the word is compared with the whole term.
InBandWhole(norm, words) ==
  \E w \in words : Len(w) - (Len(Characters(norm)) - 1) \in -2..2

\* `_in_band`
InBand(norm, words) == \E w \in words, v \in Range(norm) : Len(w) - Len(v) \in -2..2

\* `_rank_tier`
Tier(norm, words) ==
  IF Range(norm) \cap words # {} THEN 0
  ELSE IF \E w \in words, v \in Range(norm) : Distance(w, v) <= 2 THEN 1 ELSE 2

\* The three-character pieces of the words with single spaces between them.
Grams(words) ==
  LET text == Front(Characters(words))
  IN  {SubSeq(text, i, i + 2) : i \in 1..Len(text) - 2}

\* `suggest_terms`: by tier, then the pieces shared, the reports, the surface.
Suggestions(ix, q) ==
  LET words == QueryWords(q)
      near == {t \in ix.terms : t.norm # Norm(q) /\ InBand(t.norm, Range(words))}
      key(t) == <<Tier(t.norm, Range(words)),
                  -Cardinality(Grams(words) \cap Grams(t.norm)), -t.count>>
      before(s, t) == \/ TextBefore(key(s), key(t))
                      \/ key(s) = key(t) /\ SurfaceBefore(s.surface, t.surface)
      ranked == InOrder(near, {p \in near \X near : before(p[1], p[2])})
  IN  IF words = <<>> THEN <<>> ELSE SubSeq(ranked, 1, Min({DidYouMeanN, Len(ranked)}))

\* Mutant of EntryOf: the whole word is the prefix.
EntryOfWhole(word) == word

\* Where the ladder is entered for a word.
EntryOf(word) == SubSeq(word, 1, Min({EntryPrefix, Len(word)}))

\* `build_zero_result_recovery`
Recovery(ix, a) ==
  LET words == Range(QueryWords(a.q))
      known == UNION {Range(t.norm) : t \in ix.terms}
      broader == IF Len(QueryWords(a.q)) > 1 THEN words \cap known ELSE {}
  IN  Links({Again(a, t.surface) : t \in Range(Suggestions(ix, a.q))}
              \cup {Again(a, Text(<<w>>)) : w \in broader}
              \cup {Nav(EntryOf(w), "html") : w \in words})

\* `search_refine`; only a page that says that it is truncated is paged by what was
\* collected.
SearchLinks(ix, a, page) ==
  IF page.hits = <<>> THEN Recovery(ix, a) \cup LimitLinks(a, 1)
  ELSE RefineByDate(ix, a, page.hits) \cup RefineBySpeaker(a, page.hits)
         \cup Related(ix, a.q) \cup LimitLinks(a, PageNo(a))
         \cup Pagination(a, IF page.truncated /\ page.collected > 0
                            THEN page.collected ELSE page.total)
=============================================================================
