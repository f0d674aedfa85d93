------------------------------ MODULE Addresses -----------------------------
(***************************************************************************)
(* Addresses: the URLs of the gateway, what its routes refuse in them, and *)
(* the corrected form that an error page offers                            *)
(* (src/hansard_gateway/render/urls.py, recovery_links.py,                 *)
(* validation_errors.py, and the guards of the route handlers).  The token *)
(* is the one of the request in every URL, and is left out.                *)
(***************************************************************************)
EXTENDS TermIndex

CONSTANTS Wrong,         \* a value that does not parse: a day, a number, a format
          FacetLetter,   \* a-z, as against the digits
          MaxQuery,      \* search_max_query_len, in words
          BadId          \* the link ids that `validate_report_id` refuses

ASSUME AddressAssumption ==
  /\ Wrong \notin Int \cup STRING \cup {Nothing}
  /\ FacetLetter \subseteq Letter

Formats == {"html", "json", "text"}

Launcher(f) == [route |-> "launcher", format |-> f]
Nav(prefix, f) == [route |-> "nav", prefix |-> prefix, format |-> f]
YearIndex(f) == [route |-> "years", format |-> f]
YearPage(year, f) == [route |-> "year", year |-> year, format |-> f]
\* /members and /bills: the kind is "speaker" or "bill".
LetterIndex(kind, f) == [route |-> "letters", kind |-> kind, format |-> f]
LetterPage(kind, letter, f) ==
  [route |-> "letter", kind |-> kind, letter |-> letter, format |-> f]
DatePage(day, f) == [route |-> "date", day |-> day, format |-> f]
ReportPage(link, f) == [route |-> "report", link |-> link, format |-> f]

\* A search without filters: a parameter that the URL does not have is Nothing.
Search(q) ==
  [route |-> "search", q |-> q, from |-> Nothing, to |-> Nothing, speaker |-> Nothing,
   page |-> Nothing, limit |-> Nothing, format |-> "html"]

\* What a client may ask for.
Address ==
  LET form == Formats \cup {Wrong}
      day == Nat \cup {Wrong}
      number == Nat \cup {Nothing, Wrong}
      kind == {"speaker", "bill"}
  IN  [route : {"launcher", "years"}, format : form]
        \cup [route : {"nav"}, prefix : Seq(Nat), format : form]
        \cup [route : {"year"}, year : day, format : form]
        \cup [route : {"letters"}, kind : kind, format : form]
        \cup [route : {"letter"}, kind : kind, letter : Nat, format : form]
        \cup [route : {"date"}, day : day, format : form]
        \cup [route : {"report"}, link : STRING, format : form]
        \cup [route : {"search"}, q : Surface, from : number, to : number,
              speaker : Surface \cup {Nothing}, page : number, limit : number,
              format : form]

PageNo(a) == IF a.page = Nothing THEN 1 ELSE a.page

(***************************************************************************)
(* The guards.  A page or a limit that is no number is refused before the  *)
(* handler runs (`validation_error_response`), the rest by the handlers.   *)
(***************************************************************************)
\* `_PREFIX_RE`, whose length is the depth of the ladder.
IsPrefixShape(p) == Len(p) \in 1..Depth /\ Range(p) \subseteq Letter

IsFault(a, field) ==
  CASE field = "format" -> a.format \notin Formats
    [] field = "prefix" -> ~IsPrefixShape(a.prefix)
    [] field = "letter" -> a.letter \notin FacetLetter
    [] field = "q"      -> Len(a.q.words) > MaxQuery
    [] field = "page"   -> a.page \in {Wrong, 0}
    [] field = "link"   -> a.link \in BadId
    [] field \in {"year", "day", "from", "to", "limit"} -> a[field] = Wrong
    [] OTHER -> FALSE

Faults(a) == {field \in DOMAIN a : IsFault(a, field)}

Without(a, field) ==
  [a EXCEPT ![field] = Nothing, !.page = Nothing, !.limit = Nothing, !.format = "html"]

\* A search is refused for the first of these that is wrong.  Of a page or a limit that
\* is no number the error handler does not learn which one it is: the location that
\* FastAPI gives has two parts, and it looks for a third.
SearchFault(a) ==
  IF Wrong \in {a.page, a.limit} THEN "number"
  ELSE IF "q" \in Faults(a) THEN "q"
  ELSE IF a.page = 0 THEN "page"
  ELSE IF "format" \in Faults(a) THEN "format"
  ELSE IF a.from = Wrong THEN "from" ELSE "to"

\* Mutant of CorrectedForm: the prefix is cut to one letter too many.
CorrectedFormLong(a) ==
  CASE a.route = "nav" /\ Range(a.prefix) \subseteq Letter /\ Len(a.prefix) > Depth ->
         Nav(SubSeq(a.prefix, 1, Depth + 1), "html")
    [] OTHER -> Nothing

\* `corrected_form_for_422`; Nothing when no form can be inferred.
CorrectedForm(a) ==
  CASE a.route = "nav" /\ Range(a.prefix) \subseteq Letter /\ Len(a.prefix) > Depth ->
         Nav(SubSeq(a.prefix, 1, Depth), "html")
    [] a.route = "year" /\ a.year = Wrong -> YearIndex("html")
    [] a.route = "letter" /\ a.letter \notin Letter -> LetterIndex(a.kind, "html")
    [] a.route = "search" /\ SearchFault(a) = "format" -> Search(a.q)
    [] a.route = "search" /\ SearchFault(a) \in {"page", "from", "to"} ->
         Without(a, SearchFault(a))
    [] a.route = "date" /\ a.format \notin Formats -> Launcher("html")
    [] OTHER -> Nothing

\* The format of the error page.  The search hands a format on before it has looked
\* at it, and `build_error_response` takes what it does not know for text.
ErrorFormat(a) ==
  IF a.format \in Formats THEN a.format
  ELSE IF a.route = "search" /\ SearchFault(a) \in {"q", "page"} THEN "text"
  ELSE "html"

(***************************************************************************)
(* Links.  `says` is the number printed beside a link, Nothing for none.   *)
(***************************************************************************)
Link(kind, to, says) == [kind |-> kind, to |-> to, says |-> says]
Plain(to) == Link("plain", to, Nothing)
Links(addresses) == {Plain(a) : a \in addresses}

\* The bar on every HTML page that is served to a valid token.
NavBar ==
  Links({Launcher("html"), YearIndex("html"), LetterIndex("speaker", "html"),
         LetterIndex("bill", "html")})

\* `abs_format_sibling`
Siblings(a, formats) == Links({[a EXCEPT !.format = f] : f \in formats})
=============================================================================
