----------------------------- MODULE IndexSystem ----------------------------
(***************************************************************************)
(* IndexSystem: the crawl and the index reader of the server, two          *)
(* processes that share nothing but the files.                             *)
(***************************************************************************)
EXTENDS Crawl, IndexService

VARIABLE recent  \* history: what has been in service since the query was asked

Asked == at \notin {"down", "ready"}

systemVars == <<vars, serviceVars, recent>>

SystemInit ==
  /\ FilesInit /\ CrawlInit /\ ServiceInit
  /\ recent = {}

CrawlStep ==
  /\ CrawlNext
  /\ UNCHANGED serviceVars
  /\ recent' = IF Asked THEN recent \cup {Served(live)'} ELSE {}

ServiceStep ==
  /\ ServiceNext
  /\ UNCHANGED crawlVars
  /\ recent' = IF Asked' THEN recent \cup {Served(live)'} ELSE {}

SystemNext == CrawlStep \/ ServiceStep

SystemSpec == SystemInit /\ [][SystemNext]_systemVars
-----------------------------------------------------------------------------
\* The crawl's part is checked as Crawl's TypeOK, the service's here.
SystemTypeOK == TypeOK /\ ServiceTypeOK

\* A cached result is what its query would return now from the open connection,
\* whose build is the one the service believes in.
CacheCoherent ==
  /\ conn # NoFile => buildId = content[conn].build
  /\ \A q \in DOMAIN cache : conn # NoFile /\ cache[q] = ResultOf(conn, q)

NoIndex == Served(NoFile)

\* A query that found a connection is answered from an index that was in service
\* at some moment between the question and the answer, however many swaps and
\* failed runs fall in between (loader.py:12), as long as the operator leaves a
\* whole index in service.
AnswersAreCurrent ==
  at = "answered" /\ conn # NoFile /\ NoIndex \notin recent =>
    \E s \in recent : answer = [build |-> s.build, found |-> ask \in s.reports]

\* Files and reader implement IndexPublication.
Published == Served(live)
View == Served(conn)
Promise == INSTANCE IndexPublication WITH published <- Published, view <- View
ImplementsPromise == Promise!Spec

\* The claim that a running server follows a swap without a restart, since the
\* loader re-probes meta.build_id on each query (README.md:250): no query is
\* answered from the empty state while a whole index stays in service.
FollowsSwap ==
  at = "answered" /\ answer = Default => NoIndex \in recent
=============================================================================
