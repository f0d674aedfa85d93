---------------------------- MODULE IndexService ----------------------------
(***************************************************************************)
(* IndexService: the server's reader of the term index                     *)
(* (src/hansard_gateway/index/loader.py).  The event loop runs one         *)
(* query at a time from beginning to end, but the crawl is another         *)
(* process: the files may change between any two of the reader's system    *)
(* calls.                                                                  *)
(***************************************************************************)
EXTENDS IndexFiles

CONSTANTS Query,    \* the days, sittings or not, clients ask about
          NoQuery,  \* no query under way
          CacheMax  \* _CACHE_MAXSIZE

ASSUME ServiceAssumption == NoQuery \notin Query /\ CacheMax \in Nat \ {0}

VARIABLES at,       \* where the service is in its query
          ask,      \* the query it works on
          buildId,  \* _build_id
          cache,    \* _cache: query -> result, for the queries it has
          answer    \* the result of the query, until the caller has it

serviceVars == <<at, ask, buildId, cache, answer>>

conn == fd[Server]    \* _conn

\* What queries.reports_for_sitting returns, with the build it comes from.
Result == [build : Build \cup {NoBuild}, found : BOOLEAN]
Default == [build |-> NoBuild, found |-> FALSE]
ResultOf(i, q) == [build |-> Served(i).build, found |-> q \in Served(i).reports]

NoCache == [q \in {} |-> Default]

ServiceInit ==
  /\ at = "down"
  /\ ask = NoQuery
  /\ buildId = NoBuild
  /\ cache = NoCache
  /\ answer = Default

\* _open: a path without a file, or with one that is no database, leaves the
\* service in the empty state.
Open ==
  /\ fd' = [fd EXCEPT ![Server] = IF Readable(live) THEN live ELSE NoFile]
  /\ buildId' = IF Readable(live) THEN content[live].build ELSE NoBuild

Boot ==
  /\ at = "down"
  /\ Open
  /\ at' = "ready"
  /\ UNCHANGED <<content, live, staging, ask, cache, answer>>

Answer(result) ==
  /\ answer' = result
  /\ at' = "answered"

\* _query in the empty state.
AskEmpty(q) ==
  /\ at = "ready" /\ conn = NoFile
  /\ ask' = q
  /\ Answer(Default)
  /\ UNCHANGED <<files, buildId, cache>>

\* _query with a connection goes to _maybe_reopen.
Ask(q) ==
  /\ at = "ready" /\ conn # NoFile
  /\ ask' = q
  /\ at' = "exists"
  /\ UNCHANGED <<files, buildId, cache, answer>>

\* The path has no file: the service falls back to the empty state.
Vanished ==
  /\ at = "exists" /\ live = NoFile
  /\ fd' = [fd EXCEPT ![Server] = NoFile]
  /\ buildId' = NoBuild
  /\ cache' = NoCache
  /\ Answer(Default)
  /\ UNCHANGED <<live, staging, ask>>
  /\ content' = Kept(content)

Exists ==
  /\ at = "exists" /\ live # NoFile
  /\ at' = "probe"
  /\ UNCHANGED <<files, ask, buildId, cache, answer>>

\* A probe that raises sqlite3.Error changes nothing.
ProbeFails ==
  /\ at = "probe"
  /\ ~Readable(live)
  /\ at' = "run"
  /\ UNCHANGED <<files, ask, buildId, cache, answer>>

Probe ==
  /\ at = "probe"
  /\ Readable(live)
  /\ at' = IF content[live].build # buildId THEN "reopen" ELSE "run"
  /\ UNCHANGED <<files, ask, buildId, cache, answer>>

\* Mutant of Reopen: the results of the old build stay in the cache.
ReopenKeepsCache ==
  /\ at = "reopen"
  /\ Open
  /\ at' = "run"
  /\ UNCHANGED <<live, staging, ask, cache, answer>>
  /\ content' = Kept(content)

\* The old connection is closed, the cache cleared and the path opened again: the
\* file there need not be the one the probe read.
Reopen ==
  /\ at = "reopen"
  /\ Open
  /\ cache' = NoCache
  /\ at' = "run"
  /\ UNCHANGED <<live, staging, ask, answer>>
  /\ content' = Kept(content)

\* The reopening found nothing to read.
RunEmpty ==
  /\ at = "run" /\ conn = NoFile
  /\ Answer(Default)
  /\ UNCHANGED <<files, ask, buildId, cache>>

Hit ==
  /\ at = "run" /\ conn # NoFile
  /\ ask \in DOMAIN cache
  /\ Answer(cache[ask])
  /\ UNCHANGED <<files, ask, buildId, cache>>

\* Mutant of Store: the bound of the cache is tested after the result is added.
StoreUnbounded(result) ==
  LET old == IF Cardinality(DOMAIN cache) > CacheMax THEN NoCache ELSE cache
  IN  cache' = [q \in DOMAIN old \cup {ask} |-> IF q = ask THEN result ELSE old[q]]

\* A result is cached; a full cache is emptied first.
Store(result) ==
  LET old == IF Cardinality(DOMAIN cache) >= CacheMax THEN NoCache ELSE cache
  IN  cache' = [q \in DOMAIN old \cup {ask} |-> IF q = ask THEN result ELSE old[q]]

\* Mutant of Miss: the query runs on whatever is at the path.
MissReadsPath ==
  /\ at = "run" /\ conn # NoFile
  /\ ask \notin DOMAIN cache
  /\ Store(ResultOf(live, ask))
  /\ Answer(ResultOf(live, ask))
  /\ UNCHANGED <<files, ask, buildId>>

Miss ==
  /\ at = "run" /\ conn # NoFile
  /\ ask \notin DOMAIN cache
  /\ Store(ResultOf(conn, ask))
  /\ Answer(ResultOf(conn, ask))
  /\ UNCHANGED <<files, ask, buildId>>

\* The caller has the result.
Done ==
  /\ at = "answered"
  /\ at' = "ready"
  /\ answer' = Default
  /\ ask' = NoQuery
  /\ UNCHANGED <<files, buildId, cache>>

\* The server process ends, at any point.
Stop ==
  /\ at # "down"
  /\ fd' = [fd EXCEPT ![Server] = NoFile]
  /\ at' = "down"
  /\ buildId' = NoBuild
  /\ cache' = NoCache
  /\ answer' = Default
  /\ ask' = NoQuery
  /\ UNCHANGED <<live, staging>>
  /\ content' = Kept(content)

ServiceNext ==
  \/ Boot \/ Vanished \/ Exists \/ ProbeFails \/ Probe \/ Reopen
  \/ RunEmpty \/ Hit \/ Miss \/ Done \/ Stop
  \/ \E q \in Query : AskEmpty(q) \/ Ask(q)

ServiceTypeOK ==
  /\ at \in {"down", "ready", "exists", "probe", "reopen", "run", "answered"}
  /\ ask \in Query \cup {NoQuery}
  /\ buildId \in Build \cup {NoBuild}
  /\ DOMAIN cache \subseteq Query
  /\ \A q \in DOMAIN cache : cache[q] \in Result
  /\ Cardinality(DOMAIN cache) <= CacheMax
  /\ answer \in Result
=============================================================================
