----------------------------- MODULE SearchRoute ----------------------------
(***************************************************************************)
(* SearchRoute: concurrent requests for /search and /date over the one     *)
(* content cache of the process (src/hansard_gateway/search_routes.py,     *)
(* sprs/cache.py, search/providers.py, search/boost.py).  A handler runs   *)
(* without interruption between its awaits: the admission, the sweep and   *)
(* the Pair request.  A sweep is known by what was asked for, when it      *)
(* ended, when it was stored and whether the cold budget cut it off; the   *)
(* parameter format only chooses how a page is written down.               *)
(***************************************************************************)
EXTENDS Naturals, FiniteSets

CONSTANTS Task,       \* the requests that may be served at one time
          Query,      \* the keyword, dates and limit of a search
          Sitting,    \* the days of /date
          Speaker,    \* the values of the parameter speaker, none among them
          NoSpeaker,
          PageNo,     \* the pages that clients ask for
          TTL,        \* cache_ttl_s
          CacheMax,   \* cache_maxsize
          MaxNow      \* bound on the clock

ASSUME RouteAssumption ==
  /\ Query \cap Sitting = {}
  /\ NoSpeaker \in Speaker
  /\ PageNo \subseteq Nat \ {0} /\ 1 \in PageNo
  /\ \A n \in {TTL, CacheMax} : n \in Nat \ {0}
  /\ MaxNow \in Nat

VARIABLES now,     \* the timer of the cache
          cache,   \* ReportCache: the unexpired entries, by key
          pc,      \* task -> where its handler is
          req,     \* task -> its request
          sweep,   \* task -> the sweep its handler works with
          answer   \* task -> what the client gets

vars == <<now, cache, pc, req, sweep, answer>>

Request == [key : Query, speaker : Speaker, page : PageNo]
             \cup [key : Sitting, speaker : {NoSpeaker}, page : {1}]
NoRequest == [key |-> "none"]

\* (rows, total, budget_truncated).  The rows are as old as the end of the sweep; the
\* cache counts from the moment of storing, which is after the Pair request.
Sweep == [key : Query \cup Sitting, speaker : Speaker, swept : 0..MaxNow,
          stored : 0..MaxNow, truncated : BOOLEAN]
NoSweep == [key |-> "none"]

\* A SearchPage, as html, json and text show it.  The notes that html adds are a
\* function of the page and its slice, and left out.
Page == [kind : {"page"}, no : PageNo, sweep : Sweep, truncated : BOOLEAN]
Reply(kind) == [kind |-> kind]

\* search_key: the speaker is no part of it.
SweepKey(r) == <<r.key>>

\* Mutant of PageKey: the memo is kept for the sweep, not for the page.
PageKeyOfSweep(r) == <<r.key, "page">>

\* search_page_key
PageKey(r) == <<r.key, r.page>>

Entry(value) == [value |-> value, expires |-> now + TTL]

\* Mutant of Put: an entry is dropped only when the cache is over its bound.
PutOver(c, key, value) ==
  LET others == DOMAIN c \ {key}
      kept == IF Cardinality(others) <= CacheMax THEN {others}
              ELSE {others \ {old} : old \in others}
  IN  {[k \in rest \cup {key} |-> IF k = key THEN Entry(value) ELSE c[k]] : rest \in kept}

\* TTLCache: a full cache loses another entry, by the order of their use, which is
\* left open here.
Put(c, key, value) ==
  LET others == DOMAIN c \ {key}
      kept == IF Cardinality(others) < CacheMax THEN {others}
              ELSE {others \ {old} : old \in others}
  IN  {[k \in rest \cup {key} |-> IF k = key THEN Entry(value) ELSE c[k]] : rest \in kept}

Init ==
  /\ now = 0
  /\ cache = [k \in {} |-> NoSweep]
  /\ pc = [t \in Task |-> "idle"]
  /\ req = [t \in Task |-> NoRequest]
  /\ sweep = [t \in Task |-> NoSweep]
  /\ answer = [t \in Task |-> Reply("none")]

\* The timer moves, and entries expire.
Tick ==
  /\ now < MaxNow
  /\ now' = now + 1
  /\ cache' = [k \in {k \in DOMAIN cache : now' < cache[k].expires} |-> cache[k]]
  /\ UNCHANGED <<pc, req, sweep, answer>>

Respond(t, what) ==
  /\ pc' = [pc EXCEPT ![t] = "answered"]
  /\ answer' = [answer EXCEPT ![t] = what]

\* select_page, merge_pair and apply_exact_term_boost: the page that either of the
\* last two makes anew is no longer marked as truncated.
Rendered(s, no, changed) ==
  [kind |-> "page", no |-> no, sweep |-> s, truncated |-> s.truncated /\ ~changed]

\* The gate refuses the request.
Refuse(t, r) ==
  /\ pc[t] = "idle"
  /\ req' = [req EXCEPT ![t] = r]
  /\ Respond(t, Reply("refused"))
  /\ UNCHANGED <<now, cache, sweep>>

\* Mutant of MemoHit: a page that is served lives on.
MemoHitRenews(t, r) ==
  /\ pc[t] = "idle"
  /\ r.key \in Query /\ PageKey(r) \in DOMAIN cache
  /\ req' = [req EXCEPT ![t] = r]
  /\ Respond(t, cache[PageKey(r)].value)
  /\ cache' = [cache EXCEPT ![PageKey(r)].expires = now + TTL]
  /\ UNCHANGED <<now, sweep>>

\* The page memo has the page.
MemoHit(t, r) ==
  /\ pc[t] = "idle"
  /\ r.key \in Query /\ PageKey(r) \in DOMAIN cache
  /\ req' = [req EXCEPT ![t] = r]
  /\ Respond(t, cache[PageKey(r)].value)
  /\ UNCHANGED <<now, cache, sweep>>

\* The page is sliced from the cached sweep and memoised.
Warm(t, r) ==
  /\ pc[t] = "idle"
  /\ r.key \in Query /\ PageKey(r) \notin DOMAIN cache /\ SweepKey(r) \in DOMAIN cache
  /\ req' = [req EXCEPT ![t] = r]
  /\ \E boosted \in BOOLEAN :
       LET page == Rendered(cache[SweepKey(r)].value, r.page, boosted)
       IN  /\ cache' \in Put(cache, PageKey(r), page)
           /\ Respond(t, page)
  /\ UNCHANGED <<now, sweep>>

\* /date with the hits of the day in the cache.
DateHit(t, r) ==
  /\ pc[t] = "idle"
  /\ r.key \in Sitting /\ SweepKey(r) \in DOMAIN cache
  /\ req' = [req EXCEPT ![t] = r]
  /\ Respond(t, Rendered(cache[SweepKey(r)].value, 1, FALSE))
  /\ UNCHANGED <<now, cache, sweep>>

\* Nothing is cached: the handler waits for a sweep.
Cold(t, r) ==
  /\ pc[t] = "idle"
  /\ SweepKey(r) \notin DOMAIN cache
  /\ r.key \in Query => PageKey(r) \notin DOMAIN cache
  /\ req' = [req EXCEPT ![t] = r]
  /\ pc' = [pc EXCEPT ![t] = "sweep"]
  /\ UNCHANGED <<now, cache, sweep, answer>>

Swept(t, truncated) ==
  [key |-> req[t].key, speaker |-> req[t].speaker, swept |-> now, stored |-> now,
   truncated |-> truncated]

\* The sweep of a search is over; the Pair request is next.
SearchSwept(t, truncated) ==
  /\ pc[t] = "sweep" /\ req[t].key \in Query
  /\ sweep' = [sweep EXCEPT ![t] = Swept(t, truncated)]
  /\ pc' = [pc EXCEPT ![t] = "pair"]
  /\ UNCHANGED <<now, cache, req, answer>>

\* The sweep of a day has no budget; its hits are cached as they are.
DateSwept(t) ==
  /\ pc[t] = "sweep" /\ req[t].key \in Sitting
  /\ LET s == Swept(t, FALSE)
     IN  /\ cache' \in Put(cache, SweepKey(req[t]), s)
         /\ Respond(t, Rendered(s, 1, FALSE))
  /\ UNCHANGED <<now, req, sweep>>

\* UpstreamError, or any other exception: nothing is cached.
SweepFails(t) ==
  /\ pc[t] = "sweep"
  /\ Respond(t, Reply("failed"))
  /\ UNCHANGED <<now, cache, req, sweep>>

\* Mutant of PairReturns: a sweep that is in the cache by now stays there.
PairReturnsSetDefault(t, changed) ==
  /\ pc[t] = "pair"
  /\ LET r == req[t]
         s == [sweep[t] EXCEPT !.stored = now]
         page == Rendered(s, r.page, changed)
         kept == IF SweepKey(r) \in DOMAIN cache THEN {cache} ELSE Put(cache, SweepKey(r), s)
     IN  /\ \E c \in kept : cache' \in Put(c, PageKey(r), page)
         /\ Respond(t, page)
  /\ sweep' = [sweep EXCEPT ![t] = NoSweep]
  /\ UNCHANGED <<now, req>>

\* Pair answers or is unavailable: the sweep and the page are cached, over what
\* other requests have cached meanwhile, a later sweep included.
PairReturns(t, changed) ==
  /\ pc[t] = "pair"
  /\ LET r == req[t]
         s == [sweep[t] EXCEPT !.stored = now]
         page == Rendered(s, r.page, changed)
     IN  /\ \E c \in Put(cache, SweepKey(r), s) : cache' \in Put(c, PageKey(r), page)
         /\ Respond(t, page)
  /\ sweep' = [sweep EXCEPT ![t] = NoSweep]
  /\ UNCHANGED <<now, req>>

\* Pair answers with JSON that is no object: data.get raises, and the sweep is lost.
PairCrashes(t) ==
  /\ pc[t] = "pair"
  /\ Respond(t, Reply("failed"))
  /\ sweep' = [sweep EXCEPT ![t] = NoSweep]
  /\ UNCHANGED <<now, cache, req>>

\* The response is sent; the task of the model serves another request.
Done(t) ==
  /\ pc[t] = "answered"
  /\ pc' = [pc EXCEPT ![t] = "idle"]
  /\ req' = [req EXCEPT ![t] = NoRequest]
  /\ answer' = [answer EXCEPT ![t] = Reply("none")]
  /\ UNCHANGED <<now, cache, sweep>>

Receive(t) ==
  \E r \in Request :
    Refuse(t, r) \/ MemoHit(t, r) \/ Warm(t, r) \/ DateHit(t, r) \/ Cold(t, r)

Resume(t) ==
  \/ DateSwept(t)
  \/ \E truncated \in BOOLEAN : SearchSwept(t, truncated)
  \/ \E changed \in BOOLEAN : PairReturns(t, changed)
  \/ SweepFails(t) \/ PairCrashes(t)

Next == Tick \/ \E t \in Task : Receive(t) \/ Resume(t) \/ Done(t)

Spec == Init /\ [][Next]_vars
-----------------------------------------------------------------------------
\* The handlers' locals are well formed and the cache keeps its bound.
TypeOK ==
  /\ now \in 0..MaxNow
  /\ Cardinality(DOMAIN cache) <= CacheMax
  /\ \A k \in DOMAIN cache :
       cache[k].value \in Sweep \cup Page /\ cache[k].expires \in (now + 1)..(now + TTL)
  /\ pc \in [Task -> {"idle", "sweep", "pair", "answered"}]
  /\ req \in [Task -> Request \cup {NoRequest}]
  /\ sweep \in [Task -> Sweep \cup {NoSweep}]
  /\ answer \in [Task -> Page \cup {Reply("none"), Reply("refused"), Reply("failed")}]

Shown == {t \in Task : answer[t].kind = "page"}

\* Whichever of the caches a page comes from, it is the page that was asked for,
\* of a sweep for the query that was asked for.
AnswerIsOwnSlice ==
  \A t \in Shown : answer[t].no = req[t].page /\ answer[t].sweep.key = req[t].key

\* A memo is made from a cached sweep late in its life and then lives as long
\* again: a page is served for nearly twice cache_ttl_s after its sweep was stored,
\* and never longer.
AgeBounded ==
  [][\A t \in Task :
       pc'[t] = "answered" /\ pc[t] # "answered" /\ answer'[t].kind = "page" =>
         answer'[t].sweep.stored + 2 * (TTL - 1) >= now]_vars

\* A query and the memo of one of its pages that are both in the cache.
Beside(m, s) == m # s /\ s = <<m[1]>>

\* However requests for one query overlap, the sweep that pages are sliced from next
\* is the one stored last: no memo is of a sweep that was stored after it.  It need not
\* be the one swept last, because a handler stores its sweep only when Pair has
\* answered; but what it then replaces was swept and stored during that wait.
LastStoredServes ==
  \A m, s \in DOMAIN cache : Beside(m, s) =>
    LET memo == cache[m].value.sweep  next == cache[s].value
    IN  /\ memo.stored <= next.stored
        /\ memo.swept > next.swept => memo.stored \in next.swept..next.stored

\* The claim that page N is a slice of the same sweep, which is cached once and answers
\* every page (sprs/cache.py:53), in its weakest form: what pages are sliced from is no
\* earlier sweep than a page that is still shown.  It is not true of the code: two
\* overlapping requests for one query both sweep, and the one whose Pair answer comes
\* late replaces the later sweep of the other.
PagesOfOneSweep ==
  \A m, s \in DOMAIN cache : Beside(m, s) =>
    cache[m].value.sweep.swept <= cache[s].value.swept

\* The claim that SearchPage.truncated is True when the sweep was bounded to the cold
\* page budget (models.py:81).  It is not true of the code: the page that merge_pair or
\* the boost makes has the default, so json calls a result complete that is not.
TruncatedMarkKept == \A t \in Shown : answer[t].truncated = answer[t].sweep.truncated

\* The claim that speaker=NAME is a parameter of the search
\* (docs/chat-instructions.md:43) that filters it (search_routes.py:67): the rows
\* shown were searched for the speaker that was asked for.
SpeakerKept == \A t \in Shown : answer[t].sweep.speaker = req[t].speaker
=============================================================================
