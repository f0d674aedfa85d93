---------------------------- MODULE GatewayPages ----------------------------
(***************************************************************************)
(* GatewayPages: a client that can only follow links (it may type one URL  *)
(* to begin with) over the pages that the gateway makes from its index and *)
(* from what SPRS and Pair answer                                          *)
(* (src/hansard_gateway/nav_routes.py, facet_routes.py, search_routes.py,  *)
(* report_handler.py, render/__init__.py, pages.py, formats.py and the     *)
(* templates).  A page is known by the links on it and by what the         *)
(* properties need of its data; links of a page have no order here.        *)
(***************************************************************************)
EXTENDS SearchPages

CONSTANTS Corpora,      \* what the crawl may have found: sequences of rows
          Unindexed,    \* a row that SPRS has and the index has not
          MaxRows,      \* bound of the model: the rows of a sweep
          Typed,        \* the URLs that a client may begin with
          TermCap,      \* ladder_term_cap
          TruncateAt,   \* ladder_truncate_at
          CommonN,      \* common_topics_n
          RecentN,      \* recent_sittings_n
          TitleTermsN   \* _TITLE_TERMS_N

ASSUME PagesAssumption ==
  /\ \A n \in {TermCap, TruncateAt, CommonN, RecentN, TitleTermsN, MaxRows} : n \in Nat \ {0}
  /\ TruncateAt <= TermCap
  /\ Typed \subseteq Address /\ Nothing \notin Address
  /\ Corpora \subseteq Seq(Rows) /\ Unindexed \in Rows

\* A link id names one report.
ASSUME LinkAssumption ==
  \A rows \in Corpora : \A i \in DOMAIN rows :
    /\ rows[i].link # Unindexed.link
    /\ \A j \in DOMAIN rows : rows[i].link = rows[j].link => rows[i].id = rows[j].id

VARIABLES index,   \* the tables of the index
          here,    \* the address asked for, Nothing before
          via,     \* the link that led here, Nothing if it was typed
          page     \* the page, Waiting until it is served

vars == <<index, here, via, page>>

\* The entries that a page stands for (those it lists and those it cuts off), the
\* norms it lists, and for a search the sweep, its slice and the hits rendered.
Page(status, size, links) ==
  [status |-> status, size |-> size, links |-> links, listed |-> {}, cut |-> FALSE,
   sweep |-> Nothing, slice |-> <<>>, hits |-> <<>>]
Waiting == Page(Nothing, 0, {})

\* An HTML page has the bar and its siblings around the links that all formats have.
Framed(links, more, formats) ==
  IF here.format # "html" THEN links
  ELSE links \cup more \cup NavBar \cup Siblings(here, formats)

Init ==
  /\ index \in {BuildIndex(rows) : rows \in Corpora}
  /\ here = Nothing /\ via = Nothing
  /\ page = Waiting

Type(a) ==
  /\ here = Nothing
  /\ here' = a
  /\ UNCHANGED <<index, via, page>>

Follow(link) ==
  /\ here' = link.to
  /\ via' = link
  /\ page' = Waiting
  /\ UNCHANGED index

\* The client begins anew.
Leave ==
  /\ page # Waiting
  /\ here' = Nothing /\ via' = Nothing
  /\ page' = Waiting
  /\ UNCHANGED index

Asked(route) == here # Nothing /\ page = Waiting /\ here.route = route
Serve(p) == page' = p /\ UNCHANGED <<index, here, via>>

\* `build_error_response`: only the HTML page has links.
ErrorPage(status, correction) ==
  Page(status, 0, IF ErrorFormat(here) # "html" THEN {}
                  ELSE NavBar \cup {Link("correction", a, Nothing) : a \in correction})

Refuse ==
  /\ here # Nothing /\ page = Waiting
  /\ Faults(here) # {}
  /\ Serve(ErrorPage(422, {CorrectedForm(here)} \ {Nothing}))

Accepted(route) == Asked(route) /\ Faults(here) = {}

(***************************************************************************)
(* The pages that are made from the index alone.                           *)
(***************************************************************************)
\* `_launcher_json`, `_launcher_text`; the text lists topics and sittings without
\* their URLs.
LauncherLinks ==
  LET facets == Links({YearIndex("html"), LetterIndex("speaker", "html"),
                       LetterIndex("bill", "html")})
      letters == {Link("letter", Nav(<<c>>, "html"), LetterCounts(index)[c]) : c \in Letter}
      topics == Links({Search(t.surface) : t \in Range(CommonTerms(index, CommonN))}
                        \cup {DatePage(d, "html") : d \in RecentSittings(index, RecentN)})
  IN  IF here.format = "text" THEN facets ELSE facets \cup letters \cup topics

\* `launcher_handler`
ServeLauncher ==
  /\ Accepted("launcher")
  /\ Serve(Page(200, Cardinality(index.terms), Framed(LauncherLinks, {}, {"json"})))

\* Mutant of IsCut: the cap holds at the last level too.
IsCutEverywhere(prefix, n) == n > TermCap

\* `_assemble_nav`: a list is cut when it is over the cap, but never at the depth
\* where nothing is below it.
IsCut(prefix, n) == Len(prefix) < Depth /\ n > TermCap

\* `_nav_json`, `_nav_text`
NavLinks(listed, children) ==
  Links({Search(t.surface) : t \in listed})
    \cup {Link("child", Nav(c.child, "html"), c.n) : c \in children}

\* `render_nav`: only the HTML page has the skip levels, and the ways up.
NavMore(prefix, children) ==
  {Link("skip", Nav(c.skip, "html"), c.skipN) : c \in {c \in children : c.skip # Nothing}}
    \cup Links({Launcher("html")}
                 \cup IF Len(prefix) = 1 THEN {} ELSE {Nav(Front(prefix), "html")})

\* `nav_ladder`
ServeNav ==
  /\ Accepted("nav")
  /\ LET prefix == here.prefix
         terms == TermsForPrefix(index, prefix)
         cut == IsCut(prefix, Len(terms))
         listed == Range(IF cut THEN SubSeq(terms, 1, TruncateAt) ELSE terms)
         children == IF Len(prefix) >= Depth THEN {} ELSE ChildrenForPrefix(index, prefix)
     IN  Serve([Page(200, Len(terms),
                     Framed(NavLinks(listed, children), NavMore(prefix, children),
                            {"json", "text"}))
                  EXCEPT !.listed = {t.norm : t \in listed}, !.cut = cut])

\* `_dispatch`: the entries, and on the HTML page the ways back.
ServeFacet(entries, back) ==
  Serve(Page(200, Cardinality(entries),
             Framed(entries, Links(back \cup {Launcher("html")}), {"json", "text"})))

ServeYears ==
  /\ Accepted("years")
  /\ ServeFacet({Link("plain", YearPage(y, "html"), Cardinality(SittingsInYear(index, y))) :
                   y \in YearsOf(index)}, {})

ServeYear ==
  /\ Accepted("year")
  /\ ServeFacet(Links({DatePage(d, "html") : d \in SittingsInYear(index, here.year)}),
                {YearIndex("html")})

\* The grid of letters, each with the length of its page.
ServeLetters(kind) ==
  /\ Accepted("letters") /\ here.kind = kind
  /\ ServeFacet({Link("plain", LetterPage(kind, c, "html"),
                      Cardinality(TermsOfKind(index, kind, c))) : c \in FacetLetter}, {})
ServeMembers == ServeLetters("speaker")
ServeBills == ServeLetters("bill")

ServeLetter(kind, found(_)) ==
  /\ Accepted("letter") /\ here.kind = kind
  /\ ServeFacet(Links({found(t) : t \in TermsOfKind(index, kind, here.letter)}),
                {LetterIndex(kind, "html")})

\* A member is searched for by name, a bill by its words.
ServeMember == ServeLetter("speaker", LAMBDA t : [Search(Untitled) EXCEPT !.speaker = t.surface])
ServeBill == ServeLetter("bill", LAMBDA t : Search(t.surface))

(***************************************************************************)
(* The pages that need SPRS.                                               *)
(***************************************************************************)
\* What SPRS holds, in the order of some node; what a sweep brings of it, with the
\* total that the nodes stated, which may be anything near it.
Held == <<Unindexed>> \o index.reports
Sweeps ==
  [rows : {[i \in 1..n |-> Hit(Held[i])] : n \in 0..Min({MaxRows, Len(Held)})},
   total : 0..MaxRows + 1, truncated : BOOLEAN]
IsSweep(s) ==
  LET n == Len(s.rows)
  IN  /\ s.total \in n - 1..n + 1 /\ (n = 0 => s.total = 0)
      /\ s.truncated => s.total > n

\* The gate or SPRS fails the request.
FailUpstream ==
  /\ \E route \in {"search", "date", "report"} : Accepted(route)
  /\ \E status \in {429, 502} : Serve(ErrorPage(status, {}))

Reports(hits) == Links({ReportPage(h.link, "html") : h \in Range(hits)})

\* `render_search`: the address that its siblings are made of has neither the dates
\* nor the speaker.
SearchSiblings ==
  Siblings([Search(here.q) EXCEPT !.page = IF PageNo(here) = 1 THEN Nothing ELSE here.page,
                                  !.limit = LimitOf(here)], {"json", "text"})

\* The search without a cached sweep; the pages of the cache are SearchRoute's.
ServeSearch ==
  /\ Accepted("search")
  /\ \E sweep \in {s \in Sweeps : IsSweep(s)}, pair \in {<<>>, <<Hit(Unindexed)>>} :
       LET sliced == SelectPage(here, sweep)
           p == Boost(index, here.q, MergePair(sliced, pair))
           html == SearchLinks(index, here, p) \cup SearchSiblings \cup NavBar
       IN  Serve([Page(200, Len(p.hits),
                       Reports(p.hits) \cup (IF here.format = "html" THEN html ELSE {}))
                    EXCEPT !.sweep = [sweep EXCEPT !.truncated = p.truncated],
                           !.slice = sliced.hits, !.hits = p.hits])

\* `date_toc`
ServeDate ==
  /\ Accepted("date")
  /\ LET hits == Among(Held, {r \in Range(Held) : r.day = here.day})
         around == {Previous(index, here.day), Following(index, here.day)} \ {Nothing}
         more == Links({DatePage(d, "html") : d \in around}
                         \cup {YearPage(Year(here.day), "html")})
     IN  Serve(Page(200, Len(hits), Framed(Reports(hits), more, {"json", "text"})))

\* `build_report_nav`: the neighbours in the sitting, and a search for each of the
\* first words of the title.
ReportNav(row) ==
  LET sitting == ReportsForSitting(index, row.day)
      at == {i \in DOMAIN sitting : sitting[i].link = row.link}
      beside == {i \in DOMAIN sitting : {i - 1, i + 1} \cap at # {}}
      words == QueryWords(row.title)
      term(w) == Among(TermsByNorm(index), {t \in index.terms : w \in Range(t.norm)})
      topic(w) == IF term(w) = <<>> THEN Text(<<w>>) ELSE term(w)[1].surface
  IN  IF at = {} THEN {}
      ELSE Links({ReportPage(sitting[i].link, "html") : i \in beside}
                   \cup {Search(topic(words[i])) : i \in 1..Min({TitleTermsN, Len(words)})})

\* `render_report_format`: the JSON names the sitting, the text no page at all.
ReportLinks(row) == IF here.format = "text" THEN {} ELSE Links({DatePage(row.day, "html")})

\* `report`, for a report that SPRS has.
ServeReport ==
  /\ Accepted("report")
  /\ \E row \in Range(Held) :
       /\ row.link = here.link
       /\ Serve(Page(200, 1, Framed(ReportLinks(row), ReportNav(row), {"json", "text"})))

\* SPRS does not have it.
MissReport ==
  /\ Accepted("report")
  /\ \A row \in Range(Held) : row.link # here.link
  /\ Serve(ErrorPage(404, {}))

Next ==
  \/ \E a \in Typed : Type(a)
  \/ \E link \in page.links : Follow(link)
  \/ Leave \/ Refuse
  \/ ServeLauncher \/ ServeNav \/ ServeYears \/ ServeYear
  \/ ServeMembers \/ ServeMember \/ ServeBills \/ ServeBill
  \/ ServeSearch \/ ServeDate \/ ServeReport \/ MissReport \/ FailUpstream

Spec == Init /\ [][Next]_vars

(***************************************************************************)
(* Properties.                                                             *)
(***************************************************************************)
\* templates/launcher.html: "Move only by following the links on this page".  A link
\* never leads to a 404 or a 422, except one for a report whose id the site gave but
\* the gateway refuses, and one for a topic that is longer than a query may be.
NoLinkFails ==
  page.status \in {404, 422} /\ via # Nothing /\ via.kind # "correction" =>
    Faults(here) \in {{"link"}, {"q"}}

\* `corrected_form_for_422`: a corrected form has fewer faults than what it corrects,
\* and no new one, so that a client who follows it gets to a page.
CorrectionsConverge ==
  \A link \in page.links :
    link.kind = "correction" => /\ Faults(link.to) \subseteq Faults(here)
                                /\ Faults(link.to) # Faults(here)

\* recovery_links.py, `corrected_form_for_422`: "search: a bad page/limit -> the same
\* search with the offending parameter dropped".  It is False of the code for one that
\* is no number: the error page has no correction.
BadNumbersCorrected ==
  /\ page.status = 422 /\ here.route = "search" /\ here.format = "html"
  /\ Wrong \in {here.page, here.limit}
  => \E link \in page.links : link.kind = "correction"

\* build.py, `_materialise_children`, and queries.py: the number beside a link of the
\* ladder, of the years, of the members or of the bills is the number of entries that
\* the page behind it stands for.  (The launcher counts the terms that begin with a
\* letter, and its links lead to those with any word that does.)
CountsMatchPages ==
  page.status = 200 /\ via # Nothing /\ via.says # Nothing /\ via.kind # "letter" =>
    page.size = via.says

\* `_assemble_nav`: no term falls out of the ladder.  One that a page cuts off is
\* reached by a link of that page, unless the words that bring it there are no longer
\* than the prefix itself; and the last level cuts nothing off.
LadderComplete ==
  page.status = 200 /\ here.route = "nav" =>
    \A t \in Reached(index.terms, here.prefix) :
      \/ t.norm \in page.listed
      \/ \E link \in page.links : link.kind = "child" /\ link.to.prefix \in PrefixRows(t)
      \/ /\ page.cut /\ Len(here.prefix) < Depth
         /\ \A w \in Range(t.norm) \ Stopword : IsPrefix(here.prefix, w) => w = here.prefix

\* `merge_pair`, `apply_exact_term_boost`: "The boost never DROPS upstream hits".  The
\* slice of the sweep is on the page, in its order, and no report is there twice.
UpstreamHitsKept ==
  /\ Among(page.hits, Range(page.slice)) = page.slice
  /\ IsInjective([i \in DOMAIN page.hits |-> page.hits[i].link])

\* `search_refine`, `build_pagination`: while rows are left, a page leads to the next
\* one, unless the nodes stated a total below what they gave; and on a page that is
\* marked as truncated every page link leads to rows.
PagesReachRows ==
  page.status = 200 /\ here.route = "search" /\ here.format = "html" /\ page.hits # <<>> =>
    LET n == Len(page.sweep.rows)
        numbers == {PageNo(link.to) : link \in {l \in page.links : l.kind = "page"}}
    IN  /\ page.sweep.total >= n /\ PageNo(here) * LimitOf(here) < n =>
             PageNo(here) + 1 \in numbers
        /\ page.sweep.truncated => \A k \in numbers : (k - 1) * LimitOf(here) < n

\* One edit of a word, and a swap of two neighbours is one.
OneEdit(v) ==
  LET cut(i, with, j) == SubSeq(v, 1, i) \o with \o SubSeq(v, j, Len(v))
  IN  UNION {{cut(i - 1, <<>>, i + 1), cut(i - 1, <<c>>, i + 1), cut(i - 1, <<c>>, i),
              cut(i, <<c>>, i + 1)} : i \in DOMAIN v, c \in Letter}
        \cup {cut(i - 1, <<v[i + 1], v[i]>>, i + 2) : i \in 1..Len(v) - 1}

\* `suggest_terms`: after a search without hits, a term with a word one edit away from
\* a word of the query is offered, and only a term that shares a word or has one within
\* two edits may be offered in its place.
TypoFindsTerm ==
  page.status = 200 /\ here.route = "search" /\ here.format = "html" /\ page.hits = <<>> =>
    LET words == Range(QueryWords(here.q))
        once == UNION {OneEdit(w) : w \in words}
        twice == UNION {OneEdit(w) : w \in once}
        offered == {t \in index.terms : Plain(Again(here, t.surface)) \in page.links}
        close == {t \in offered : Range(t.norm) \cap twice # {}}
    IN  \A t \in index.terms \ offered :
          Range(t.norm) \cap once # {} /\ t.norm # Norm(here.q) =>
            Cardinality(close) >= DidYouMeanN
=============================================================================
