-------------------------- MODULE SearchRoute_proofs ------------------------
(***************************************************************************)
(* For any requests, sweeps, pages, lifetimes and cache sizes, and however *)
(* the handlers interleave: a page answers its own request, pages are      *)
(* sliced from the sweep stored last, and none is served for longer than   *)
(* twice cache_ttl_s.                                                      *)
(***************************************************************************)
EXTENDS SearchRoute, FiniteSetTheorems, TLAPS

(***************************************************************************)
(* The invariant.                                                          *)
(***************************************************************************)
\* A sweep is stored when it has ended, or later.
StoredAfter(s) == s.swept <= s.stored

\* A sweep for a key that is in the cache, and how long it stays.
SweepEntry(key, entry) ==
  /\ entry.value \in Sweep /\ entry.value.key = key
  /\ StoredAfter(entry.value)
  /\ entry.value.stored <= now
  /\ entry.expires \in (now + 1)..(now + TTL)
  /\ entry.expires <= entry.value.stored + TTL

\* A page of a query, sliced from a sweep for it.
PageOf(page, key, no) ==
  /\ page \in Page /\ page.no = no
  /\ page.sweep.key = key
  /\ StoredAfter(page.sweep)
  /\ page.sweep.stored <= now

\* A memo was made while its sweep was in the cache.
PageEntry(key, no, entry) ==
  /\ PageOf(entry.value, key, no)
  /\ entry.expires \in (now + 1)..(now + TTL)
  /\ entry.expires < entry.value.sweep.stored + 2 * TTL

SweepKeys == {<<key>> : key \in Query \cup Sitting}
PageKeys == {<<key, no>> : key \in Query, no \in PageNo}

CacheSound(c) ==
  /\ IsFiniteSet(DOMAIN c) /\ Cardinality(DOMAIN c) <= CacheMax
  /\ DOMAIN c \subseteq SweepKeys \cup PageKeys
  /\ \A key \in Query \cup Sitting :
       <<key>> \in DOMAIN c => SweepEntry(key, c[<<key>>])
  /\ \A key \in Query, no \in PageNo :
       <<key, no>> \in DOMAIN c => PageEntry(key, no, c[<<key, no>>])
  /\ \A key \in Query, no \in PageNo :
       {<<key>>, <<key, no>>} \subseteq DOMAIN c =>
         c[<<key, no>>].value.sweep.stored <= c[<<key>>].value.stored

Refusals == {Reply("none"), Reply("refused"), Reply("failed")}

HandlerSound(t) ==
  /\ pc[t] # "idle" => req[t] \in Request
  /\ pc[t] = "pair" => /\ req[t].key \in Query
                       /\ sweep[t] \in Sweep /\ sweep[t].key = req[t].key
                       /\ StoredAfter(sweep[t]) /\ sweep[t].stored <= now
  /\ \/ answer[t] \in Refusals
     \/ pc[t] = "answered" /\ PageOf(answer[t], req[t].key, req[t].page)

HandlerTypes ==
  /\ now \in 0..MaxNow
  /\ pc \in [Task -> {"idle", "sweep", "pair", "answered"}]
  /\ req \in [Task -> Request \cup {NoRequest}]
  /\ sweep \in [Task -> Sweep \cup {NoSweep}]
  /\ answer \in [Task -> Page \cup Refusals]

RouteInv == HandlerTypes /\ CacheSound(cache) /\ \A t \in Task : HandlerSound(t)

(***************************************************************************)
(* Requests, sweeps, pages and keys.                                       *)
(***************************************************************************)

LEMMA Numbers ==
  /\ TTL \in Nat \ {0} /\ CacheMax \in Nat \ {0} /\ MaxNow \in Nat
  /\ PageNo \subseteq Nat \ {0} /\ 1 \in PageNo
BY RouteAssumption

LEMMA RequestFacts ==
  ASSUME NEW r \in Request
  PROVE  /\ r.key \in Query \cup Sitting /\ r.speaker \in Speaker /\ r.page \in PageNo
         /\ r.key \in Sitting => r.page = 1
BY RouteAssumption DEF Request

LEMMA SweepFacts ==
  ASSUME NEW s \in Sweep
  PROVE  /\ s.key \in Query \cup Sitting /\ s.stored \in 0..MaxNow /\ s.swept \in 0..MaxNow
         /\ s.truncated \in BOOLEAN
         /\ \A n \in 0..MaxNow :
              LET later == [s EXCEPT !.stored = n]
              IN  /\ later \in Sweep /\ later.key = s.key /\ later.swept = s.swept
                  /\ later.truncated = s.truncated /\ later.stored = n
BY Numbers DEF Sweep

LEMMA SweptFacts ==
  ASSUME HandlerTypes, NEW t \in Task, req[t] \in Request, NEW cut \in BOOLEAN
  PROVE  LET s == Swept(t, cut)
         IN  /\ s \in Sweep /\ s.key = req[t].key /\ s.stored = now /\ s.swept = now
             /\ s.truncated = cut /\ StoredAfter(s)
<1> DEFINE s == Swept(t, cut)
<1>1. /\ s \in Sweep /\ s.key = req[t].key /\ s.stored = now /\ s.swept = now
      /\ s.truncated = cut
  BY RequestFacts DEF Swept, Sweep, HandlerTypes
<1>2. now \in Nat
  BY DEF HandlerTypes
<1> HIDE DEF s
<1>3. StoredAfter(s)
  BY <1>1, <1>2 DEF StoredAfter
<1> QED
  BY <1>1, <1>3 DEF s

\* A sweep that has waited for Pair is stored now.
LEMMA StoredNow ==
  ASSUME HandlerTypes, NEW s \in Sweep, StoredAfter(s), s.stored <= now
  PROVE  LET later == [s EXCEPT !.stored = now]
         IN  /\ later \in Sweep /\ later.key = s.key /\ later.stored = now
             /\ StoredAfter(later)
<1> DEFINE later == [s EXCEPT !.stored = now]
<1>1. later \in Sweep /\ later.key = s.key /\ later.stored = now /\ later.swept = s.swept
  BY SweepFacts DEF HandlerTypes
<1>2. s.swept \in Nat /\ s.stored \in Nat /\ now \in Nat
  BY SweepFacts DEF HandlerTypes
<1> HIDE DEF later
<1>3. StoredAfter(later)
  BY <1>1, <1>2 DEF StoredAfter
<1> QED
  BY <1>1, <1>3 DEF later

LEMMA PageFacts ==
  /\ \A page \in Page : /\ page.kind = "page" /\ page.sweep \in Sweep /\ page.no \in PageNo
                        /\ page.truncated \in BOOLEAN
  /\ \A reply \in Refusals : reply.kind # "page"
BY DEF Page, Refusals, Reply

LEMMA RenderedFacts ==
  ASSUME NEW s \in Sweep, StoredAfter(s), s.stored <= now, NEW no \in PageNo,
         NEW changed \in BOOLEAN
  PROVE  LET page == Rendered(s, no, changed)
         IN  PageOf(page, s.key, no) /\ page.sweep = s
<1>1. (s.truncated /\ ~changed) \in BOOLEAN
  OBVIOUS
<1> QED
  BY <1>1 DEF Rendered, Page, PageOf

LEMMA Keys ==
  /\ \A a, b, n : <<a>> # <<b, n>>
  /\ \A a, b : <<a>> = <<b>> => a = b
  /\ \A a, b, m, n : <<a, m>> = <<b, n>> => a = b /\ m = n
OBVIOUS

(***************************************************************************)
(* The cache.                                                              *)
(***************************************************************************)
\* TTLCache: a write keeps the bound and changes one entry.
LEMMA PutFacts ==
  ASSUME NEW c, IsFiniteSet(DOMAIN c), Cardinality(DOMAIN c) <= CacheMax,
         NEW key, NEW value, NEW d \in Put(c, key, value)
  PROVE  /\ IsFiniteSet(DOMAIN d) /\ Cardinality(DOMAIN d) <= CacheMax
         /\ key \in DOMAIN d /\ d[key] = Entry(value)
         /\ \A k \in DOMAIN d \ {key} : k \in DOMAIN c /\ d[k] = c[k]
<1> DEFINE others == DOMAIN c \ {key}
           kept == IF Cardinality(others) < CacheMax THEN {others}
                   ELSE {others \ {old} : old \in others}
<1>1. PICK rest \in kept :
        d = [k \in rest \cup {key} |-> IF k = key THEN Entry(value) ELSE c[k]]
  BY DEF Put
<1>2. /\ IsFiniteSet(others) /\ Cardinality(others) \in Nat /\ Cardinality(others) <= CacheMax
      /\ key \notin others
  <2>1. IsFiniteSet(others) /\ Cardinality(others) <= Cardinality(DOMAIN c)
    BY FS_Subset
  <2> QED
    BY <2>1, Numbers, FS_CardinalityType
<1>3. /\ rest \subseteq others /\ key \notin others /\ IsFiniteSet(rest) /\ Cardinality(rest) \in Nat
      /\ Cardinality(rest) < CacheMax
  <2>1. CASE rest = others /\ Cardinality(others) < CacheMax
    BY <1>2, <2>1
  <2>2. CASE \E old \in others : rest = others \ {old}
    <3>1. PICK old \in others : rest = others \ {old}
      BY <2>2
    <3>2. IsFiniteSet(rest) /\ Cardinality(rest) = Cardinality(others) - 1
      BY <1>2, <3>1, FS_RemoveElement
    <3>3. Cardinality(rest) \in Nat
      BY <3>2, FS_CardinalityType
    <3> HIDE DEF others
    <3> QED
      BY <1>2, <3>1, <3>2, <3>3, Numbers
  <2> QED
    BY <2>1, <2>2
<1>4. DOMAIN d = rest \cup {key}
  BY <1>1
<1> HIDE DEF others, kept
<1>5. IsFiniteSet(DOMAIN d) /\ Cardinality(DOMAIN d) = Cardinality(rest) + 1
  BY <1>3, <1>4, FS_AddElement
<1>6. Cardinality(DOMAIN d) <= CacheMax
  BY <1>3, <1>5, Numbers
<1>7. \A k \in DOMAIN d \ {key} : k \in DOMAIN c /\ d[k] = c[k]
  BY <1>1, <1>3, <1>4 DEF others
<1> QED
  BY <1>1, <1>4, <1>5, <1>6, <1>7

LEMMA EntryFacts ==
  ASSUME NEW value, now \in Nat
  PROVE  Entry(value).value = value /\ Entry(value).expires = now + TTL
         /\ now + TTL \in (now + 1)..(now + TTL)
BY Numbers DEF Entry
\* cache.put of a sweep that is over now: no memo of its query is newer.
LEMMA StoreSweep ==
  ASSUME HandlerTypes, NEW c, CacheSound(c), NEW key \in Query \cup Sitting, NEW s \in Sweep,
         s.key = key, s.stored = now, StoredAfter(s), NEW d \in Put(c, <<key>>, s)
  PROVE  CacheSound(d) /\ <<key>> \in DOMAIN d /\ d[<<key>>].value = s
<1>1. now \in Nat
  BY DEF HandlerTypes
<1>2. /\ IsFiniteSet(DOMAIN d) /\ Cardinality(DOMAIN d) <= CacheMax
      /\ <<key>> \in DOMAIN d /\ d[<<key>>] = Entry(s)
      /\ \A k \in DOMAIN d \ {<<key>>} : k \in DOMAIN c /\ d[k] = c[k]
  BY PutFacts DEF CacheSound
<1>3. SweepEntry(key, Entry(s)) /\ Entry(s).value = s
  BY <1>1, EntryFacts, Numbers DEF SweepEntry
<1>4. DOMAIN d \subseteq SweepKeys \cup PageKeys
  BY <1>2 DEF CacheSound, SweepKeys
<1>5. ASSUME NEW k \in Query \cup Sitting, <<k>> \in DOMAIN d
      PROVE  SweepEntry(k, d[<<k>>])
  <2>1. CASE k = key
    BY <1>2, <1>3, <2>1
  <2>2. CASE k # key
    <3>1. <<k>> \in DOMAIN d \ {<<key>>}
      BY <1>5, <2>2
    <3> QED
      BY <1>2, <3>1 DEF CacheSound
  <2> QED
    BY <2>1, <2>2
<1>6. ASSUME NEW k \in Query, NEW no \in PageNo, <<k, no>> \in DOMAIN d
      PROVE  /\ d[<<k, no>>] = c[<<k, no>>] /\ <<k, no>> \in DOMAIN c
             /\ PageEntry(k, no, d[<<k, no>>])
  <2>1. <<k, no>> \in DOMAIN d \ {<<key>>}
    BY <1>6, Keys
  <2> QED
    BY <1>2, <2>1 DEF CacheSound
<1>7. ASSUME NEW k \in Query, NEW no \in PageNo, <<k>> \in DOMAIN d, <<k, no>> \in DOMAIN d
      PROVE  d[<<k, no>>].value.sweep.stored <= d[<<k>>].value.stored
  <2>1. CASE k = key
    BY <1>2, <1>3, <1>6, <1>7, <2>1 DEF PageEntry, PageOf
  <2>2. CASE k # key
    <3>1. <<k>> \in DOMAIN d \ {<<key>>}
      BY <1>7, <2>2
    <3>2. <<k>> \in DOMAIN c /\ d[<<k>>] = c[<<k>>]
      BY <1>2, <3>1
    <3>3. <<k, no>> \in DOMAIN c /\ d[<<k, no>>] = c[<<k, no>>]
      BY <1>6, <1>7
    <3> QED
      BY <3>2, <3>3 DEF CacheSound
  <2> QED
    BY <2>1, <2>2
<1> QED
  BY <1>2, <1>3, <1>4, <1>5, <1>6, <1>7 DEF CacheSound

\* cache.put of a page that is sliced from the cached sweep, or stored with it.
LEMMA StorePage ==
  ASSUME HandlerTypes, NEW c, CacheSound(c), NEW key \in Query, NEW no \in PageNo, NEW page,
         PageOf(page, key, no), now < page.sweep.stored + TTL,
         <<key>> \in DOMAIN c => page.sweep.stored <= c[<<key>>].value.stored,
         NEW d \in Put(c, <<key, no>>, page)
  PROVE  CacheSound(d)
<1>1. now \in Nat /\ page.sweep.stored \in Nat
  BY PageFacts, SweepFacts DEF HandlerTypes, PageOf
<1>2. /\ IsFiniteSet(DOMAIN d) /\ Cardinality(DOMAIN d) <= CacheMax
      /\ d[<<key, no>>] = Entry(page)
      /\ \A k \in DOMAIN d \ {<<key, no>>} : k \in DOMAIN c /\ d[k] = c[k]
  BY PutFacts DEF CacheSound
<1>3. PageEntry(key, no, Entry(page)) /\ Entry(page).value = page
  BY <1>1, EntryFacts, Numbers DEF PageEntry
<1>4. DOMAIN d \subseteq SweepKeys \cup PageKeys
  BY <1>2 DEF CacheSound, PageKeys
<1>5. ASSUME NEW k \in Query \cup Sitting, <<k>> \in DOMAIN d
      PROVE  <<k>> \in DOMAIN c /\ d[<<k>>] = c[<<k>>] /\ SweepEntry(k, d[<<k>>])
  <2>1. <<k>> \in DOMAIN d \ {<<key, no>>}
    BY <1>5, Keys
  <2> QED
    BY <1>2, <2>1 DEF CacheSound
<1>6. ASSUME NEW k \in Query, NEW n \in PageNo, <<k, n>> \in DOMAIN d
      PROVE  /\ PageEntry(k, n, d[<<k, n>>])
             /\ <<k>> \in DOMAIN d => d[<<k, n>>].value.sweep.stored <= d[<<k>>].value.stored
  <2>1. CASE k = key /\ n = no
    BY <1>2, <1>3, <1>5, <2>1
  <2>2. CASE ~(k = key /\ n = no)
    <3>1. <<k, n>> \in DOMAIN d \ {<<key, no>>}
      BY <1>6, <2>2
    <3>2. <<k, n>> \in DOMAIN c /\ d[<<k, n>>] = c[<<k, n>>]
      BY <1>2, <3>1
    <3> QED
      BY <1>5, <3>2 DEF CacheSound
  <2> QED
    BY <2>1, <2>2
<1> QED
  BY <1>2, <1>4, <1>5, <1>6 DEF CacheSound

(***************************************************************************)
(* The steps.                                                              *)
(***************************************************************************)

LEMMA RespondFacts ==
  ASSUME HandlerTypes, NEW t \in Task, NEW what \in Page \cup Refusals, Respond(t, what)
  PROVE  /\ pc' \in [Task -> {"idle", "sweep", "pair", "answered"}]
         /\ answer' \in [Task -> Page \cup Refusals]
         /\ pc'[t] = "answered" /\ answer'[t] = what
         /\ \A u \in Task \ {t} : pc'[u] = pc[u] /\ answer'[u] = answer[u]
BY DEF HandlerTypes, Respond

LEMMA ReceivedFacts ==
  ASSUME HandlerTypes, NEW t \in Task, NEW r \in Request \cup {NoRequest},
         req' = [req EXCEPT ![t] = r]
  PROVE  /\ req' \in [Task -> Request \cup {NoRequest}] /\ req'[t] = r
         /\ \A u \in Task \ {t} : req'[u] = req[u]
BY DEF HandlerTypes

LEMMA SweepOfFacts ==
  ASSUME HandlerTypes, NEW t \in Task, NEW s \in Sweep \cup {NoSweep},
         sweep' = [sweep EXCEPT ![t] = s]
  PROVE  /\ sweep' \in [Task -> Sweep \cup {NoSweep}] /\ sweep'[t] = s
         /\ \A u \in Task \ {t} : sweep'[u] = sweep[u]
BY DEF HandlerTypes

\* A step of one handler leaves the others where they are.
LEMMA OthersSound ==
  ASSUME RouteInv, NEW t \in Task, now' = now, HandlerTypes', CacheSound(cache)', HandlerSound(t)',
         \A u \in Task \ {t} : /\ pc'[u] = pc[u] /\ req'[u] = req[u]
                               /\ sweep'[u] = sweep[u] /\ answer'[u] = answer[u]
  PROVE  RouteInv'
<1>1. ASSUME NEW u \in Task, u # t
      PROVE  HandlerSound(u)'
  BY <1>1 DEF RouteInv, HandlerSound, PageOf, StoredAfter, Refusals, Reply
<1> QED
  BY <1>1 DEF RouteInv

LEMMA TickStep ==
  ASSUME RouteInv, Tick
  PROVE  RouteInv'
<1>1. /\ now \in Nat /\ now' = now + 1 /\ now' \in 0..MaxNow
      /\ UNCHANGED <<pc, req, sweep, answer>>
      /\ HandlerTypes /\ CacheSound(cache)
  BY Numbers DEF RouteInv, HandlerTypes, Tick
<1>2. /\ DOMAIN cache' = {k \in DOMAIN cache : now' < cache[k].expires}
      /\ \A k \in DOMAIN cache' : cache'[k] = cache[k]
  BY DEF Tick
<1>3. IsFiniteSet(DOMAIN cache') /\ Cardinality(DOMAIN cache') <= CacheMax
  <2>1. /\ IsFiniteSet(DOMAIN cache) /\ Cardinality(DOMAIN cache) \in Nat
        /\ Cardinality(DOMAIN cache) <= CacheMax
    BY <1>1, FS_CardinalityType DEF CacheSound
  <2>2. IsFiniteSet(DOMAIN cache') /\ Cardinality(DOMAIN cache') <= Cardinality(DOMAIN cache)
    BY <1>2, <2>1, FS_Subset
  <2>3. Cardinality(DOMAIN cache') \in Nat
    BY <2>2, FS_CardinalityType
  <2> QED
    BY <2>1, <2>2, <2>3, Numbers
<1>4. ASSUME NEW page, NEW key, NEW no, PageOf(page, key, no)
      PROVE  PageOf(page, key, no)'
  <2>1. page.sweep.stored \in Nat
    BY <1>4, PageFacts, SweepFacts DEF PageOf
  <2> QED
    BY <1>1, <1>4, <2>1 DEF PageOf, StoredAfter
<1>5. ASSUME NEW key \in Query \cup Sitting, <<key>> \in DOMAIN cache'
      PROVE  SweepEntry(key, cache[<<key>>])'
  <2>1. SweepEntry(key, cache[<<key>>]) /\ now' < cache[<<key>>].expires
        /\ cache'[<<key>>] = cache[<<key>>]
    BY <1>1, <1>2, <1>5 DEF CacheSound
  <2>2. cache[<<key>>].value.stored \in Nat /\ cache[<<key>>].expires \in Nat
    BY <1>1, <2>1, SweepFacts, Numbers DEF SweepEntry
  <2> QED
    BY <1>1, <2>1, <2>2, Numbers DEF SweepEntry, StoredAfter
<1>6. ASSUME NEW key \in Query, NEW no \in PageNo, <<key, no>> \in DOMAIN cache'
      PROVE  PageEntry(key, no, cache[<<key, no>>])'
  <2>1. PageEntry(key, no, cache[<<key, no>>]) /\ now' < cache[<<key, no>>].expires
        /\ cache'[<<key, no>>] = cache[<<key, no>>]
    BY <1>1, <1>2, <1>6 DEF CacheSound
  <2>2. PageOf(cache[<<key, no>>].value, key, no)'
    BY <1>4, <2>1 DEF PageEntry
  <2> QED
    BY <1>1, <2>1, <2>2, Numbers DEF PageEntry
<1>7. CacheSound(cache)'
  BY <1>1, <1>2, <1>3, <1>5, <1>6 DEF CacheSound, SweepKeys, PageKeys
<1>8. ASSUME NEW t \in Task
      PROVE  HandlerSound(t)'
  <2>1. HandlerSound(t)
    BY DEF RouteInv
  <2>2. pc[t] = "pair" => sweep[t].stored <= now'
    BY <1>1, <2>1, SweepFacts DEF HandlerSound
  <2>3. ASSUME PageOf(answer[t], req[t].key, req[t].page)
        PROVE  PageOf(answer[t], req[t].key, req[t].page)'
    <3>1. answer[t].sweep.stored \in Nat
      BY <2>3, PageFacts, SweepFacts DEF PageOf
    <3> QED
      BY <1>1, <2>3, <3>1 DEF PageOf, StoredAfter
  <2> QED
    BY <1>1, <2>1, <2>2, <2>3 DEF HandlerSound, StoredAfter, Refusals, Reply
<1>9. HandlerTypes'
  BY <1>1 DEF HandlerTypes, Refusals, Reply
<1> QED
  BY <1>7, <1>8, <1>9 DEF RouteInv

LEMMA RepliesFacts ==
  /\ Reply("none") \in Refusals /\ Reply("refused") \in Refusals /\ Reply("failed") \in Refusals
  /\ Refusals' = Refusals
BY DEF Refusals, Reply

\* The cache is not touched, and the client gets what has been found, or no page.
LEMMA AnswerStep ==
  ASSUME RouteInv, NEW t \in Task, NEW r \in Request, NEW what,
         Respond(t, what), req' = [req EXCEPT ![t] = r],
         what \in Refusals \/ PageOf(what, r.key, r.page),
         sweep' \in {sweep, [sweep EXCEPT ![t] = NoSweep]}, UNCHANGED now, CacheSound(cache)'
  PROVE  RouteInv'
<1>1. HandlerTypes /\ what \in Page \cup Refusals
  BY DEF RouteInv, PageOf
<1>2. /\ pc' \in [Task -> {"idle", "sweep", "pair", "answered"}]
      /\ answer' \in [Task -> Page \cup Refusals]
      /\ pc'[t] = "answered" /\ answer'[t] = what
      /\ \A u \in Task \ {t} : pc'[u] = pc[u] /\ answer'[u] = answer[u]
  BY <1>1, RespondFacts
<1>3. /\ req' \in [Task -> Request \cup {NoRequest}] /\ req'[t] = r
      /\ \A u \in Task \ {t} : req'[u] = req[u]
  BY <1>1, ReceivedFacts
<1>4. /\ sweep' \in [Task -> Sweep \cup {NoSweep}]
      /\ \A u \in Task \ {t} : sweep'[u] = sweep[u]
  BY <1>1 DEF HandlerTypes
<1>5. HandlerTypes'
  BY <1>1, <1>2, <1>3, <1>4, RepliesFacts DEF HandlerTypes
<1>6. HandlerSound(t)'
  BY <1>2, <1>3, RepliesFacts DEF HandlerSound, PageOf, StoredAfter
<1> QED
  BY <1>2, <1>3, <1>4, <1>5, <1>6, OthersSound

LEMMA CacheUntouched ==
  ASSUME RouteInv, UNCHANGED <<now, cache>>
  PROVE  CacheSound(cache)'
BY DEF RouteInv, CacheSound, SweepEntry, PageEntry, PageOf, StoredAfter, SweepKeys, PageKeys

LEMMA HitSteps ==
  ASSUME RouteInv, NEW t \in Task, NEW r \in Request,
         Refuse(t, r) \/ MemoHit(t, r) \/ DateHit(t, r)
  PROVE  RouteInv'
<1>1. /\ req' = [req EXCEPT ![t] = r] /\ UNCHANGED <<now, sweep>> /\ CacheSound(cache)'
      /\ r.key \in Query \cup Sitting /\ r.page \in PageNo
  BY CacheUntouched, RequestFacts DEF Refuse, MemoHit, DateHit
<1>2. CASE Refuse(t, r)
  BY <1>1, <1>2, AnswerStep, RepliesFacts DEF Refuse
<1>3. CASE MemoHit(t, r)
  <2>1. r.key \in Query /\ <<r.key, r.page>> \in DOMAIN cache
        /\ Respond(t, cache[<<r.key, r.page>>].value)
    BY <1>3 DEF MemoHit, PageKey
  <2>2. PageOf(cache[<<r.key, r.page>>].value, r.key, r.page)
    BY <1>1, <2>1 DEF RouteInv, CacheSound, PageEntry
  <2> QED
    BY <1>1, <2>1, <2>2, AnswerStep
<1>4. CASE DateHit(t, r)
  <2> DEFINE s == cache[<<r.key>>].value
  <2>1. r.key \in Sitting /\ <<r.key>> \in DOMAIN cache /\ Respond(t, Rendered(s, 1, FALSE))
        /\ r.page = 1
    BY <1>4, RequestFacts DEF DateHit, SweepKey
  <2>2. s \in Sweep /\ s.key = r.key /\ StoredAfter(s) /\ s.stored <= now
    BY <1>1, <2>1 DEF RouteInv, CacheSound, SweepEntry
  <2> HIDE DEF s
  <2>3. PageOf(Rendered(s, 1, FALSE), r.key, r.page)
    BY <1>1, <2>1, <2>2, RenderedFacts
  <2> QED
    BY <1>1, <2>1, <2>3, AnswerStep
<1> QED
  BY <1>2, <1>3, <1>4

LEMMA WarmStep ==
  ASSUME RouteInv, NEW t \in Task, NEW r \in Request, Warm(t, r)
  PROVE  RouteInv'
<1> DEFINE s == cache[<<r.key>>].value
<1>1. PICK boosted \in BOOLEAN :
        /\ cache' \in Put(cache, <<r.key, r.page>>, Rendered(s, r.page, boosted))
        /\ Respond(t, Rendered(s, r.page, boosted))
  BY DEF Warm, PageKey, SweepKey
<1> DEFINE page == Rendered(s, r.page, boosted)
<1>2. /\ r.key \in Query /\ r.page \in PageNo /\ <<r.key>> \in DOMAIN cache
      /\ req' = [req EXCEPT ![t] = r] /\ UNCHANGED <<now, sweep>>
      /\ HandlerTypes /\ CacheSound(cache)
  BY RequestFacts DEF Warm, SweepKey, RouteInv
<1>3. SweepEntry(r.key, cache[<<r.key>>])
  BY <1>2 DEF CacheSound
<1>4. /\ s \in Sweep /\ s.key = r.key /\ StoredAfter(s) /\ s.stored <= now
      /\ now < s.stored + TTL
  <2>1. s \in Sweep /\ s.stored \in Nat /\ now \in Nat
    BY <1>2, <1>3, SweepFacts DEF SweepEntry, HandlerTypes
  <2> QED
    BY <1>3, <2>1, Numbers DEF SweepEntry
<1>5. /\ cache' \in Put(cache, <<r.key, r.page>>, page) /\ Respond(t, page)
      /\ s = cache[<<r.key>>].value
  BY <1>1
<1> HIDE DEF s
<1>6. PageOf(page, r.key, r.page) /\ page.sweep = s
  BY <1>2, <1>4, RenderedFacts
<1> HIDE DEF page
<1>7. s.stored <= s.stored
  BY <1>4, SweepFacts
<1>8. CacheSound(cache')
  BY <1>2, <1>4, <1>5, <1>6, <1>7, StorePage
<1>9. CacheSound(cache)'
  BY <1>2, <1>8 DEF CacheSound, SweepEntry, PageEntry, PageOf, StoredAfter, SweepKeys, PageKeys
<1> QED
  BY <1>2, <1>5, <1>6, <1>9, AnswerStep

LEMMA ColdStep ==
  ASSUME RouteInv, NEW t \in Task, NEW r \in Request, Cold(t, r)
  PROVE  RouteInv'
<1>1. /\ HandlerTypes /\ CacheSound(cache)' /\ UNCHANGED <<now, sweep, answer>>
      /\ pc[t] = "idle" /\ pc' = [pc EXCEPT ![t] = "sweep"] /\ req' = [req EXCEPT ![t] = r]
  BY CacheUntouched DEF Cold, RouteInv
<1>2. /\ req' \in [Task -> Request \cup {NoRequest}] /\ req'[t] = r
      /\ \A u \in Task \ {t} : req'[u] = req[u]
  BY <1>1, ReceivedFacts
<1>3. /\ pc' \in [Task -> {"idle", "sweep", "pair", "answered"}] /\ pc'[t] = "sweep"
      /\ \A u \in Task \ {t} : pc'[u] = pc[u]
  BY <1>1 DEF HandlerTypes
<1>4. HandlerTypes'
  BY <1>1, <1>2, <1>3, RepliesFacts DEF HandlerTypes
<1>5. answer[t] \in Refusals
  BY <1>1 DEF RouteInv, HandlerSound
<1>6. HandlerSound(t)'
  BY <1>1, <1>2, <1>3, <1>5, RepliesFacts DEF HandlerSound
<1> QED
  BY <1>1, <1>2, <1>3, <1>4, <1>6, OthersSound

LEMMA SearchSweptStep ==
  ASSUME RouteInv, NEW t \in Task, NEW cut \in BOOLEAN,
         SearchSwept(t, cut)
  PROVE  RouteInv'
<1> DEFINE s == Swept(t, cut)
<1>1. /\ HandlerTypes /\ CacheSound(cache)' /\ UNCHANGED <<now, req, answer>>
      /\ pc[t] = "sweep" /\ req[t].key \in Query
      /\ pc' = [pc EXCEPT ![t] = "pair"] /\ sweep' = [sweep EXCEPT ![t] = s]
  BY CacheUntouched DEF SearchSwept, RouteInv
<1>2. req[t] \in Request /\ answer[t] \in Refusals
  BY <1>1 DEF RouteInv, HandlerSound
<1>3. /\ s \in Sweep /\ s.key = req[t].key /\ StoredAfter(s)
      /\ s.stored = now /\ now \in Nat
  BY <1>1, <1>2, SweptFacts DEF HandlerTypes
<1> HIDE DEF s
<1>4. /\ sweep' \in [Task -> Sweep \cup {NoSweep}] /\ sweep'[t] = s
      /\ \A u \in Task \ {t} : sweep'[u] = sweep[u]
  BY <1>1, <1>3, SweepOfFacts
<1>5. /\ pc' \in [Task -> {"idle", "sweep", "pair", "answered"}] /\ pc'[t] = "pair"
      /\ \A u \in Task \ {t} : pc'[u] = pc[u]
  BY <1>1 DEF HandlerTypes
<1>6. HandlerTypes'
  BY <1>1, <1>4, <1>5, RepliesFacts DEF HandlerTypes
<1>7. HandlerSound(t)'
  BY <1>1, <1>2, <1>3, <1>4, <1>5, RepliesFacts DEF HandlerSound, StoredAfter
<1> QED
  BY <1>1, <1>4, <1>5, <1>6, <1>7, OthersSound

LEMMA CachePrimed ==
  ASSUME now' = now, CacheSound(cache')
  PROVE  CacheSound(cache)'
BY DEF CacheSound, SweepEntry, PageEntry, PageOf, StoredAfter, SweepKeys, PageKeys

LEMMA SameRequest ==
  ASSUME HandlerTypes, NEW t \in Task, UNCHANGED req
  PROVE  req' = [req EXCEPT ![t] = req[t]]
BY DEF HandlerTypes

LEMMA DateSweptStep ==
  ASSUME RouteInv, NEW t \in Task, DateSwept(t)
  PROVE  RouteInv'
<1> DEFINE s == Swept(t, FALSE)
<1>1. /\ HandlerTypes /\ CacheSound(cache) /\ UNCHANGED <<now, req, sweep>>
      /\ pc[t] = "sweep" /\ req[t].key \in Sitting
      /\ cache' \in Put(cache, <<req[t].key>>, s) /\ Respond(t, Rendered(s, 1, FALSE))
  BY DEF DateSwept, RouteInv, SweepKey
<1>2. req[t] \in Request
  BY <1>1 DEF RouteInv, HandlerSound
<1>3. req[t].page = 1 /\ 1 \in PageNo /\ req[t].key \in Query \cup Sitting /\ now \in Nat
  BY <1>1, <1>2, RequestFacts, Numbers DEF HandlerTypes
<1>4. s \in Sweep /\ s.key = req[t].key /\ s.stored = now /\ StoredAfter(s)
  BY <1>1, <1>2, SweptFacts
<1> HIDE DEF s
<1>5. CacheSound(cache)'
  BY <1>1, <1>3, <1>4, StoreSweep, CachePrimed
<1>6. PageOf(Rendered(s, 1, FALSE), req[t].key, req[t].page)
  <2>1. s.stored <= now
    BY <1>3, <1>4
  <2> QED
    BY <1>3, <1>4, <2>1, RenderedFacts
<1> QED
  BY <1>1, <1>2, <1>5, <1>6, SameRequest, AnswerStep

LEMMA FailSteps ==
  ASSUME RouteInv, NEW t \in Task, SweepFails(t) \/ PairCrashes(t)
  PROVE  RouteInv'
<1>1. /\ HandlerTypes /\ CacheSound(cache)' /\ UNCHANGED <<now, req>>
      /\ sweep' \in {sweep, [sweep EXCEPT ![t] = NoSweep]}
      /\ pc[t] \in {"sweep", "pair"} /\ Respond(t, Reply("failed"))
  BY CacheUntouched DEF SweepFails, PairCrashes, RouteInv
<1>2. req[t] \in Request
  BY <1>1 DEF RouteInv, HandlerSound
<1> QED
  BY <1>1, <1>2, SameRequest, AnswerStep, RepliesFacts

LEMMA PairReturnsStep ==
  ASSUME RouteInv, NEW t \in Task, NEW changed \in BOOLEAN, PairReturns(t, changed)
  PROVE  RouteInv'
<1> DEFINE r == req[t]
           s == [sweep[t] EXCEPT !.stored = now]
           page == Rendered(s, r.page, changed)
<1>1. PICK c \in Put(cache, <<r.key>>, s) : cache' \in Put(c, <<r.key, r.page>>, page)
  BY DEF PairReturns, SweepKey, PageKey
<1>2. /\ HandlerTypes /\ CacheSound(cache) /\ UNCHANGED <<now, req>>
      /\ pc[t] = "pair" /\ Respond(t, page)
      /\ sweep' = [sweep EXCEPT ![t] = NoSweep]
  BY DEF PairReturns, RouteInv
<1>3. /\ r \in Request /\ r.key \in Query
      /\ sweep[t] \in Sweep /\ sweep[t].key = r.key /\ StoredAfter(sweep[t])
      /\ sweep[t].stored <= now
  BY <1>2 DEF RouteInv, HandlerSound
<1>4. /\ s \in Sweep /\ s.key = r.key /\ s.stored = now /\ StoredAfter(s)
      /\ now \in Nat /\ r.page \in PageNo
  BY <1>2, <1>3, StoredNow, RequestFacts DEF HandlerTypes
<1> HIDE DEF r, s
<1>5. PageOf(page, r.key, r.page) /\ page.sweep = s
  <2>1. s.stored <= now
    BY <1>4
  <2> QED
    BY <1>4, <2>1, RenderedFacts
<1> HIDE DEF page
<1>6. CacheSound(c) /\ <<r.key>> \in DOMAIN c /\ c[<<r.key>>].value = s
  BY <1>1, <1>2, <1>3, <1>4, StoreSweep
<1>7. now < page.sweep.stored + TTL /\ page.sweep.stored <= c[<<r.key>>].value.stored
  BY <1>4, <1>5, <1>6, Numbers
<1>8. CacheSound(cache)'
  BY <1>1, <1>2, <1>3, <1>4, <1>5, <1>6, <1>7, StorePage, CachePrimed
<1>9. req' = [req EXCEPT ![t] = r]
  BY <1>2, SameRequest DEF r
<1> QED
  BY <1>2, <1>3, <1>5, <1>8, <1>9, AnswerStep

LEMMA DoneStep ==
  ASSUME RouteInv, NEW t \in Task, Done(t)
  PROVE  RouteInv'
<1>1. /\ HandlerTypes /\ CacheSound(cache)' /\ UNCHANGED <<now, sweep>>
      /\ pc' = [pc EXCEPT ![t] = "idle"] /\ req' = [req EXCEPT ![t] = NoRequest]
      /\ answer' = [answer EXCEPT ![t] = Reply("none")]
  BY CacheUntouched DEF Done, RouteInv
<1>2. /\ req' \in [Task -> Request \cup {NoRequest}]
      /\ \A u \in Task \ {t} : req'[u] = req[u]
  BY <1>1, ReceivedFacts
<1>3. /\ pc' \in [Task -> {"idle", "sweep", "pair", "answered"}] /\ pc'[t] = "idle"
      /\ answer' \in [Task -> Page \cup Refusals] /\ answer'[t] \in Refusals
      /\ \A u \in Task \ {t} : pc'[u] = pc[u] /\ answer'[u] = answer[u]
  BY <1>1, RepliesFacts DEF HandlerTypes
<1>4. HandlerTypes' /\ HandlerSound(t)'
  BY <1>1, <1>2, <1>3, RepliesFacts DEF HandlerTypes, HandlerSound
<1> QED
  BY <1>1, <1>2, <1>3, <1>4, OthersSound

LEMMA RouteInitial ==
  ASSUME Init
  PROVE  RouteInv
<1> DEFINE c == [k \in {} |-> NoSweep]
<1>1. cache = c /\ DOMAIN c = {}
  BY DEF Init
<1>2. IsFiniteSet({}) /\ Cardinality({}) = 0
  BY FS_EmptySet
<1> HIDE DEF c
<1>3. CacheSound(cache)
  BY <1>1, <1>2, Numbers DEF CacheSound
<1>4. HandlerTypes
  BY Numbers, RepliesFacts DEF Init, HandlerTypes
<1>5. \A t \in Task : HandlerSound(t)
  BY RepliesFacts DEF Init, HandlerSound
<1> QED
  BY <1>3, <1>4, <1>5 DEF RouteInv

LEMMA RouteInvariance == Spec => []RouteInv
<1>1. ASSUME RouteInv, Next
      PROVE  RouteInv'
  <2>1. ASSUME NEW t \in Task, Receive(t)
        PROVE  RouteInv'
    BY <1>1, <2>1, HitSteps, WarmStep, ColdStep DEF Receive
  <2>2. ASSUME NEW t \in Task, Resume(t)
        PROVE  RouteInv'
    BY <1>1, <2>2, DateSweptStep, SearchSweptStep, PairReturnsStep, FailSteps DEF Resume
  <2> QED
    BY <1>1, <2>1, <2>2, TickStep, DoneStep DEF Next
<1>2. ASSUME RouteInv, UNCHANGED vars
      PROVE  RouteInv'
  <2>1. CacheSound(cache)'
    BY <1>2, CacheUntouched DEF vars
  <2>2. \A t \in Task : HandlerSound(t)'
    BY <1>2, RepliesFacts DEF vars, RouteInv, HandlerSound, PageOf, StoredAfter
  <2> QED
    BY <1>2, <2>1, <2>2, RepliesFacts DEF vars, RouteInv, HandlerTypes
<1> QED
  BY <1>1, <1>2, RouteInitial, PTL DEF Spec

(***************************************************************************)
(* What holds of every behaviour.                                          *)
(***************************************************************************)
\* The handlers' locals are well formed, and ReportCache keeps cache_maxsize.
THEOREM TypeCorrect == Spec => []TypeOK
<1>1. ASSUME RouteInv
      PROVE  TypeOK
  <2>1. ASSUME NEW k \in DOMAIN cache
        PROVE  cache[k].value \in Sweep \cup Page /\ cache[k].expires \in (now + 1)..(now + TTL)
    <3>1. CASE k \in SweepKeys
      BY <1>1, <3>1 DEF RouteInv, CacheSound, SweepKeys, SweepEntry
    <3>2. CASE k \in PageKeys
      <4>1. PICK key \in Query, no \in PageNo : k = <<key, no>>
        BY <3>2 DEF PageKeys
      <4> QED
        BY <1>1, <4>1 DEF RouteInv, CacheSound, PageEntry, PageOf
    <3> QED
      BY <1>1, <3>1, <3>2 DEF RouteInv, CacheSound
  <2> QED
    BY <1>1, <2>1 DEF RouteInv, HandlerTypes, CacheSound, TypeOK, Refusals
<1> QED
  BY <1>1, RouteInvariance, PTL

\* search_routes.py: whichever cache a page comes from, it is the page that was
\* asked for, of a sweep for the query that was asked for.
THEOREM AnswersAreOwnSlices == Spec => []AnswerIsOwnSlice
<1>1. RouteInv => AnswerIsOwnSlice
  BY PageFacts DEF RouteInv, HandlerSound, PageOf, AnswerIsOwnSlice, Shown
<1> QED
  BY <1>1, RouteInvariance, PTL

\* However requests for one query overlap, pages are sliced from the sweep stored last:
\* no memo is of a sweep stored after it, and a memo of a later sweep only where that
\* one was stored while the cached one waited for Pair.
THEOREM LastStoredIsServed == Spec => []LastStoredServes
<1>1. ASSUME RouteInv, NEW m \in DOMAIN cache, NEW s \in DOMAIN cache, Beside(m, s)
      PROVE  LET memo == cache[m].value.sweep  next == cache[s].value
             IN  /\ memo.stored <= next.stored
                 /\ memo.swept > next.swept => memo.stored \in next.swept..next.stored
  <2>1. m \in PageKeys
    BY <1>1 DEF RouteInv, CacheSound, SweepKeys, Beside
  <2>2. PICK key \in Query, no \in PageNo : m = <<key, no>>
    BY <2>1 DEF PageKeys
  <2> DEFINE memo == cache[m].value.sweep  next == cache[s].value
  <2>3. /\ memo.stored <= next.stored
        /\ memo \in Sweep /\ StoredAfter(memo) /\ next \in Sweep
    BY <1>1, <2>2, PageFacts DEF RouteInv, CacheSound, Beside, PageEntry, PageOf, SweepEntry
  <2> HIDE DEF memo, next
  <2>4. /\ memo.stored \in Nat /\ memo.swept \in Nat
        /\ next.stored \in Nat /\ next.swept \in Nat
    BY <2>3, SweepFacts
  <2>5. memo.swept > next.swept => memo.stored \in next.swept..next.stored
    BY <2>3, <2>4 DEF StoredAfter
  <2> QED
    BY <2>3, <2>5 DEF memo, next
<1>2. RouteInv => LastStoredServes
  BY <1>1 DEF LastStoredServes
<1> QED
  BY <1>2, RouteInvariance, PTL

\* A page within its time: the bound of AgeBounded.
Young(page) == page.sweep.stored + 2 * (TTL - 1) >= now

LEMMA FreshIsYoung ==
  ASSUME HandlerTypes, NEW page \in Page, now < page.sweep.stored + TTL
  PROVE  Young(page)
<1>1. page.sweep.stored \in Nat /\ now \in Nat
  BY PageFacts, SweepFacts DEF HandlerTypes
<1> QED
  BY <1>1, Numbers DEF Young

\* The page that one step of a handler answers with.
LEMMA AnswersYoung ==
  ASSUME RouteInv, NEW t \in Task, Receive(t) \/ Resume(t) \/ Done(t),
         pc'[t] = "answered", answer'[t].kind = "page"
  PROVE  Young(answer'[t])
<1>1. HandlerTypes /\ CacheSound(cache) /\ now \in Nat
  BY DEF RouteInv, HandlerTypes
<1>2. \A what : Respond(t, what) => answer'[t] = what
  BY <1>1 DEF Respond, HandlerTypes
<1>3. \A s \in Sweep, no \in PageNo, changed \in BOOLEAN :
        StoredAfter(s) /\ s.stored <= now =>
          Rendered(s, no, changed) \in Page /\ Rendered(s, no, changed).sweep = s
  <2> SUFFICES ASSUME NEW s \in Sweep, NEW no \in PageNo, NEW changed \in BOOLEAN,
                      StoredAfter(s), s.stored <= now
               PROVE  Rendered(s, no, changed) \in Page /\ Rendered(s, no, changed).sweep = s
    OBVIOUS
  <2>1. PageOf(Rendered(s, no, changed), s.key, no) /\ Rendered(s, no, changed).sweep = s
    BY RenderedFacts
  <2> QED
    BY <2>1 DEF PageOf
<1>4. ASSUME NEW key, <<key>> \in DOMAIN cache, key \in Query \cup Sitting
      PROVE  LET s == cache[<<key>>].value
             IN  s \in Sweep /\ StoredAfter(s) /\ s.stored <= now /\ now < s.stored + TTL
  <2> DEFINE entry == cache[<<key>>]
  <2>1. SweepEntry(key, entry)
    BY <1>1, <1>4 DEF CacheSound
  <2> HIDE DEF entry
  <2>2. /\ entry.value \in Sweep /\ StoredAfter(entry.value) /\ entry.value.stored <= now
        /\ entry.expires \in (now + 1)..(now + TTL)
        /\ entry.expires <= entry.value.stored + TTL
    BY <2>1 DEF SweepEntry
  <2>3. entry.value.stored \in Nat
    BY <2>2, SweepFacts
  <2>4. now < entry.value.stored + TTL
    BY <1>1, <2>2, <2>3, Numbers
  <2> QED
    BY <2>2, <2>4 DEF entry
<1>5. ASSUME NEW r \in Request, MemoHit(t, r)
      PROVE  Young(answer'[t])
  <2> DEFINE memo == cache[<<r.key, r.page>>]
  <2>1. PageEntry(r.key, r.page, memo) /\ answer'[t] = memo.value
    BY <1>1, <1>2, <1>5, RequestFacts DEF MemoHit, PageKey, CacheSound
  <2> HIDE DEF memo
  <2>2. memo.value.sweep.stored \in Nat /\ memo.expires \in Nat
    BY <1>1, <2>1, PageFacts, SweepFacts, Numbers DEF PageEntry, PageOf
  <2> QED
    BY <1>1, <2>1, <2>2, Numbers DEF PageEntry, Young
<1>6. ASSUME NEW r \in Request, Warm(t, r)
      PROVE  Young(answer'[t])
  <2> DEFINE s == cache[<<r.key>>].value
  <2>1. PICK boosted \in BOOLEAN : answer'[t] = Rendered(s, r.page, boosted)
    BY <1>2, <1>6 DEF Warm, SweepKey
  <2>2. r.key \in Query /\ r.page \in PageNo /\ <<r.key>> \in DOMAIN cache
    BY <1>6, RequestFacts DEF Warm, SweepKey
  <2>3. s \in Sweep /\ StoredAfter(s) /\ s.stored <= now /\ now < s.stored + TTL
    BY <1>4, <2>2
  <2> HIDE DEF s
  <2> QED
    BY <1>1, <1>3, <2>1, <2>2, <2>3, FreshIsYoung
<1>7. ASSUME NEW r \in Request, DateHit(t, r)
      PROVE  Young(answer'[t])
  <2> DEFINE s == cache[<<r.key>>].value
  <2>1. answer'[t] = Rendered(s, 1, FALSE) /\ r.key \in Sitting /\ <<r.key>> \in DOMAIN cache
    BY <1>2, <1>7 DEF DateHit, SweepKey
  <2>2. s \in Sweep /\ StoredAfter(s) /\ s.stored <= now /\ now < s.stored + TTL
    BY <1>4, <2>1
  <2> HIDE DEF s
  <2> QED
    BY <1>1, <1>3, <2>1, <2>2, Numbers, FreshIsYoung
<1>8. ASSUME DateSwept(t)
      PROVE  Young(answer'[t])
  <2> DEFINE s == Swept(t, FALSE)
  <2>1. answer'[t] = Rendered(s, 1, FALSE) /\ req[t] \in Request
    BY <1>2, <1>8 DEF DateSwept, RouteInv, HandlerSound
  <2>2. s \in Sweep /\ s.stored = now /\ StoredAfter(s)
    BY <1>1, <2>1, SweptFacts
  <2> HIDE DEF s
  <2>3. s.stored <= now /\ now < s.stored + TTL
    BY <1>1, <2>2, Numbers
  <2> QED
    BY <1>1, <1>3, <2>1, <2>2, <2>3, Numbers, FreshIsYoung
<1>9. ASSUME NEW changed \in BOOLEAN, PairReturns(t, changed)
      PROVE  Young(answer'[t])
  <2> DEFINE s == [sweep[t] EXCEPT !.stored = now]
  <2>1. /\ answer'[t] = Rendered(s, req[t].page, changed)
        /\ req[t] \in Request /\ sweep[t] \in Sweep /\ StoredAfter(sweep[t])
        /\ sweep[t].stored <= now
    BY <1>2, <1>9 DEF PairReturns, RouteInv, HandlerSound
  <2>2. s \in Sweep /\ s.stored = now /\ StoredAfter(s) /\ req[t].page \in PageNo
    BY <1>1, <2>1, StoredNow, RequestFacts
  <2> HIDE DEF s
  <2>3. s.stored <= now /\ now < s.stored + TTL
    BY <1>1, <2>2, Numbers
  <2> QED
    BY <1>1, <1>3, <2>1, <2>2, <2>3, FreshIsYoung
<1>10. ASSUME \/ \E r \in Request : Refuse(t, r) \/ Cold(t, r)
              \/ SweepFails(t) \/ PairCrashes(t) \/ Done(t)
              \/ \E cut \in BOOLEAN : SearchSwept(t, cut)
       PROVE  FALSE
  <2>1. CASE \E r \in Request : Refuse(t, r) \/ Cold(t, r)
    <3>1. answer'[t] \in Refusals \/ pc'[t] # "answered"
      BY <1>1, <1>2, <2>1, RepliesFacts DEF Refuse, Cold, HandlerTypes
    <3> QED
      BY <3>1, PageFacts
  <2>2. CASE SweepFails(t) \/ PairCrashes(t)
    <3>1. answer'[t] \in Refusals
      BY <1>1, <1>2, <2>2, RepliesFacts DEF SweepFails, PairCrashes, HandlerTypes
    <3> QED
      BY <3>1, PageFacts
  <2>3. CASE Done(t) \/ \E cut \in BOOLEAN : SearchSwept(t, cut)
    <3>1. pc'[t] # "answered"
      BY <1>1, <2>3 DEF Done, SearchSwept, HandlerTypes
    <3> QED
      BY <3>1
  <2> QED
    BY <1>10, <2>1, <2>2, <2>3
<1> QED
  BY <1>5, <1>6, <1>7, <1>8, <1>9, <1>10 DEF Receive, Resume

\* ReportCache: a page is served for nearly twice cache_ttl_s after its sweep
\* was stored, and never longer.
THEOREM PagesGrowOldOnce == Spec => AgeBounded
<1> DEFINE A == \A t \in Task :
                  pc'[t] = "answered" /\ pc[t] # "answered" /\ answer'[t].kind = "page" =>
                    answer'[t].sweep.stored + 2 * (TTL - 1) >= now
<1>1. ASSUME RouteInv, Next, NEW t \in Task,
             pc'[t] = "answered", pc[t] # "answered", answer'[t].kind = "page"
      PROVE  answer'[t].sweep.stored + 2 * (TTL - 1) >= now
  <2>1. ~Tick
    BY <1>1 DEF Tick
  <2>2. PICK u \in Task : Receive(u) \/ Resume(u) \/ Done(u)
    BY <1>1, <2>1 DEF Next
  <2>3. \A v \in Task \ {u} : pc'[v] = pc[v]
    BY <1>1, <2>2
       DEF RouteInv, HandlerTypes, Receive, Resume, Done, Refuse, MemoHit, Warm, DateHit, Cold,
           DateSwept, SearchSwept, PairReturns, SweepFails, PairCrashes, Respond
  <2>4. u = t
    BY <1>1, <2>3
  <2> QED
    BY <1>1, <2>2, <2>4, AnswersYoung DEF Young
<1>2. RouteInv /\ [Next]_vars => [A]_vars
  BY <1>1
<1> HIDE DEF A
<1>3. Spec => [][A]_vars
  BY <1>2, RouteInvariance, PTL DEF Spec
<1> QED
  BY <1>3 DEF A, AgeBounded
=============================================================================
