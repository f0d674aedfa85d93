# A TLA+ model of the SG Hansard gateway

The gateway is a read-only HTTP proxy (FastAPI, one process, one event loop) that
lets a chat client search and read the Singapore parliament's reports through
capability URLs. Beside it runs an offline crawl, a separate process started by a
weekly timer, that builds a term index (SQLite) the gateway reads, and a command
that manages the capability tokens. This directory holds TLA+ modules of the parts
that decide something, TLC configurations that check them on small instances, and
proofs that the TLA+ proof system checks.

Paths below are relative to the repository; `H/` stands for
`src/hansard_gateway/`.

## 1. Inventory

| Part (source) | State | Operations | Interacts through |
|---|---|---|---|
| Rate admission (`H/rate_limit.py`, `RateGate.admit`) | per token label two deques of admission times | `admit` | awaited by every metered route |
| Upstream slots (`H/rate_limit.py`, `_UpstreamSlot`) | in-flight count per label, a global semaphore | enter, exit, drop | entered by the SPRS client around each POST |
| SPRS client (`H/sprs/client.py`) | per call: attempt, last error | `_post`, `_post_once`, `search_result`, `fetch_topic` | slots, the parliament site |
| Search sweep (`H/search/sprs.py`) | per sweep: rows seen, total, offset, counters | `_sweep` | one client call per page |
| Search and date routes (`H/search_routes.py`, `H/search/`) | per request locals | `/search`, `/date/{day}` | admission, cache, sweep, Pair, index |
| Content cache (`H/sprs/cache.py`) | one TTL cache of sweeps, page memos, sittings, reports | get, set | shared by all requests |
| Report route (`H/report_handler.py`, `H/sprs/payload.py`) | request locals | `/report/{id}` | cache, client, error envelope, log |
| Transcript parsers (`H/sprs/current.py`, `legacy.py`) | position in the document, current speaker | `parse` of two eras | called by the report route |
| Index reader (`H/index/loader.py`, `queries.py`) | connection, `_build_id`, query cache | every index query, reopen, close | the index files |
| Crawl (`crawl/crawl_main.py`, `crawl_client.py`, `crawl_db.py`) | plan, rows, `crawl_state` table | `run_crawl` | site, index files |
| Index build (`H/index/build.py`, `extract.py`, `schema.py`) | the staging file, its tables | `build_index` | called by the crawl; its rows are read by all index queries |
| Navigation and facets (`H/nav_routes.py`, `facet_routes.py`) | none | launcher, ladder, years, members, bills | index; links to search and date pages |
| Rendering and links (`H/render/`) | none | the links of every page | called by the routes |
| Error envelope (`H/error_responses.py`, `validation_errors.py`, `main.py`) | none | status mapping, corrected forms | called by the routes |
| Token store (`H/auth.py`, `H/manage_tokens.py`) | entries read once; `tokens.yaml` | look-ups; list, generate, disable, rotate | file shared by server and commands |
| Logging (`H/logging_setup.py`) | fields of one request | one line per request | wraps the application |
| Schemas, API guide, scripts | none | | |

What makes each hard, and what it must guarantee:

* **Rate admission.** Pruning is lazy and per label; the window test is an
  off-by-one trap. It must be a true sliding window, and no refusal may be caused
  by requests that were not admitted.
* **Upstream slots.** Two limits are checked and taken one after the other, with
  cancellation between a grant and its release. Counters must stay exact for ever.
* **SPRS client.** Refusals, transport errors and bad statuses share one retry
  budget; a call can be cancelled while it posts or sleeps. It must use the slots
  as the slots expect, spend its budget before it gives up on a transient failure, and
  end.
* **Sweep.** Two site nodes disagree about rows, order and total; four stop rules
  race. No row may be lost when the nodes agree, the mark of truncation must be
  true, and the cost of a cold search bounded.
* **Routes and cache.** Requests overlap at three awaits over one cache of entries
  that expire independently and are evicted. A client must get the page it asked
  for, of the sweep that was stored last, no older than promised, and told when the
  result was cut off.
* **Report route.** Reports are amended or withdrawn while they are fetched, a fetch
  fails in many ways, and requests share one cache. Every status must have its one
  cause, the log line must be about its own request, and no client may stay open.
* **Parsers.** Old HTML is cut in four ways that nest. No text may be lost, doubled
  or given to somebody else.
* **Crawl.** It may fail in any step or be killed, runs are repeated, two may run
  at a time. The index in service must always be whole, skipped days must come due
  again, and after the failures everything must get indexed.
* **Index reader.** The file it reads is replaced under it by another process. Its
  answers must come from one whole index that was in service meanwhile.
* **Index, navigation, links, corrections.** A chat client can only follow links.
  Every link must lead to a page, every number beside a link must be the length of
  that page, every term and every hit must be reachable, and an error page must lead
  back to a page that works.
* **Token store.** A command can be killed between any two system calls of a save,
  and the server reads the file whenever its first request comes. The file must stay
  whole and private, and what was revoked before that read must not open the gateway.

`PROJECT.json` lists the hazards line by line with the properties that watch them.

## 2. Modules

| Module | Models | State and actions |
|---|---|---|
| `RateAdmission` | `RateGate.admit` | `minute`, `day` are the two deques, `granted` and `verdict` are histories. One call is one step (its critical section never awaits): `Grant`, `DenyPerMin`, `DenyPerDay`, each pruning as the code does; `Tick` is the monotonic clock. |
| `UpstreamSlots` | `_UpstreamSlot` | `inFlight`, `permits`, and the `phase` of every slot object: `Grant`, `RefuseInFlight`, `RefuseGlobal`, `Exit`, `Drop` (a refused slot is not closed by the client). |
| `SprsClient` | the retry loop | extends `UpstreamSlots` by calls, each with a slot of its own; one action per stretch between two awaits: `Start`, `Post`, `Refused`, `Answered`, `Wake`, `Cancel`. |
| `SearchSweep` | `_sweep` | `Fetch(n)`: node `n` serves the next page; the stop rules in the order the code tries them. |
| `SearchRoute` | `/search`, `/date`, `ReportCache` | handlers cut at their awaits: `MemoHit`, `Warm`, `DateHit`, `Cold`, `SearchSwept`, `DateSwept`, `PairReturns` and the failures; `Tick` expires entries. |
| `ReportRoute` | `/report/{id}`, error statuses, log line | handlers cut at the fetch: `Reject`, `Invalid`, `Hit`, `Miss`, `SprsLooks`, then one action for each way a fetch can end; `Expire` and `Publish` are the clock and the site. `last` is the response of the last step with the outcome behind it and its log line. |
| `Transcript` | `sprs/current.py`, `sprs/legacy.py` | one step per `<p>` or `<h6>` (since 2012) or per segment (before): `ReadNamed`, `ReadPlain`, `SkipTag`, `TakeSegment`, `DropSegment`. Operators say what the HTML parser makes of a fragment (`Tags`, `Pieces`, `Walk`, `Body`), where `_offset` puts the markers (`Offset`), and how old HTML is cut into segments and paragraphs. |
| `IndexFiles` | the shared file system | inodes with their content, the live and the staging path, open connections. A replaced file stays with who has it open. |
| `Crawl` | `run_crawl` | extends `IndexFiles`; one action per system-visible step from plan to swap, with its failures, kills, the calendar and the site. |
| `IndexService` | `IndexService` of the server | extends `IndexFiles`; a query is cut at each of the reader's system calls: exists, probe, reopen, run. |
| `IndexPublication` | (abstract) | what files and reader promise: whole indexes published by atomic steps, a view that only moves to what is published. |
| `IndexSystem` | the two processes | composes `Crawl` and `IndexService` over the same files; `ImplementsPromise` is the refinement of `IndexPublication`. |
| `Orders` | `ORDER BY`, `WHERE`, `sorted` | operators: a set in an order, the elements of a sequence at some places or in some set, and the order of texts. |
| `TermIndex` | what `build_index` inserts and the queries select | operators: `ExtractTerms`, `BuildIndex` (reports, terms, prefixes, children with skip levels), and one operator per query. |
| `Addresses` | URLs, guards, corrections | extends `TermIndex`; an address is a record, `Faults` is what the routes refuse in it, `CorrectedForm` what the error page offers (nothing for a page or limit that is no number). |
| `SearchPages` | slice, Pair merge, boost, links of a search page | extends `Addresses`; operators from a sweep to hits and links. |
| `GatewayPages` | a client that follows links | extends `SearchPages`; `Type`, `Follow`, `Leave` are the client, one `Serve...` action per route, `Refuse`, `FailUpstream`, `MissReport` its errors. |
| `TokenEntries` | the entries of `tokens.yaml` | operators for the changes that the commands make. |
| `TokenPromise` | (abstract) | one store that changes by one whole command at a time. |
| `TokenStore` | commands and server | files are inodes behind two names; a command loads, changes its copy and saves in the system calls `OpenTmp`, `WriteTmp`, `ChmodTmp`, `Replace`, `ChmodLive`, `PrintResult`, and is stopped by `WriteStops` or `Kill`; the server has `Request` and `Restart`. `ImplementsPromise` is the refinement of `TokenPromise`. |
| `..._proofs` | | proofs about `RateAdmission`, `SprsClient` (with `UpstreamSlots`), `ReportRoute`, `TokenStore`, `IndexSystem` (with `Crawl` and `IndexService`), `SearchRoute`, `SearchSweep`, `GatewayPages` (with `Orders`, `TermIndex`, `Addresses` and `SearchPages`) |
| `MC...` | | the instances TLC checks |

Composition: `UpstreamSlots` is extended by `SprsClient`; `IndexFiles` is extended by
`Crawl` and `IndexService`, both by `IndexSystem`; `TermIndex`, `Addresses`,
`SearchPages` and `GatewayPages` are layers; `TokenEntries` is shared by `TokenStore`
and `TokenPromise`. Where two modules meet and are not composed, one takes the other's
result as its input: `SearchRoute` knows a sweep by what it was asked for, when it
ended, when it was stored and its mark of truncation, which `SearchSweep` sets;
`ReportRoute` takes the outcomes of a fetch from `SprsClient`; `GatewayPages` takes any
sweep of the shape `IsSweep` and any whole index, which is what `IndexSystem` shows the
server to have.

Definitions named `Mutant of X` are plausible bugs of the definition that follows
them. No specification uses them; putting one in the place of `X` must make TLC
report the property `PROJECT.json` pairs it with.

## 3. Runs

| Run | Question | Bounds and why they are enough |
|---|---|---|
| `RateAdmission` | Do deques and pruning give exactly the documented windows, for every arrival order? | 2 tokens, limits 2 and 3, spans 2 and 5, 8 clock readings: both limits are hit, both windows pass, and requests fall on their edges. |
| `UpstreamSlots` | Do the counters stay exact under every order of enter, refuse, exit, drop? | 6 slots of 3 tokens, limits 2 and 3: each limit is hit with and without the other. |
| `SprsClient` | Is every slot used as the gate expects, does no call end on a transient failure with attempts left (but for an answer that is not JSON), does every call end? | 3 calls of 2 tokens, one permit, 2 attempts, a retryable and a final failure status: every call competes with another token's and its own. |
| `Crawl` | Does a swap publish its own run only, is a live index replaced by whole ones only, do skipped days come due, does everything get indexed after the faults if runs are started again and again? | 2 days, 3 faults of any kind at any step, unboundedly many runs. Three faults allow a failed run, a leftover and a damaged successor. Three inodes are the two paths and one connection. |
| `IndexSystem` | Do the answers come from a whole index in service meanwhile; does the whole implement `IndexPublication`? | 1 sitting day and 1 day without, 1 fault, 4 inodes, 3 builds, a cache of 1: a reopened file that is not the probed one, a vanished file and a full cache all occur. |
| `SearchSweep` | What do the four stop rules amount to? | 2 nodes, 7 rows on pages of 2 in 16 orders cut at 4 lengths, one row without an id, nodes that repeat a page, 3 budgets: more pages than probes, budget and no-gain limit. |
| `SearchRoute` | Do clients get their page, not too old, cut from the sweep stored last, however requests overlap? | 2 handlers, 1 query on 2 pages, 1 sitting, room for 3 of 4 entries, a TTL of 2 ticks and a clock of 5: entries expire, are evicted and are overwritten by an overlapping request. |
| `ReportRoute` | Does each answer and each log line have its one cause? | 2 handlers, 2 ids, 2 editions, a cache of 1: requests for the same and for different reports overlap, entries are evicted, and what is shown is amended or withdrawn while it is fetched. |
| `Transcript` | What do the parsers keep, in which order, and to whom do they give it? | every document of up to 4 items, of either era, with 2 names and blank bold, two of the items ending in a newline: a marker, a paragraph, loose text, at the front too, and a second speaker in every order. |
| `GatewayPages` | Where can a client get by links alone, and are the numbers on the links true? | 3 letters of which one is a digit, a ladder of 3 levels whose lists are cut to 1 when over 2, pages of 2 hits, sweeps of up to 3 rows, an index of 4 corpora (one empty, one with two surfaces of one term and a duplicate id, one with an id that the gateway refuses), 49 URLs to begin with, each route with each kind of fault. |
| `TokenStore` | Is the file always whole and private, does a server honour what it read, do the commands change one label at a time? | 2 labels, 3 tokens, 2 inodes, one command at a time, any number of commands, kills and restarts: two tokens alive, a third to rotate to, a leftover temporary file. |
| `SearchSpeaker` | the first finding of section 6 | 2 speakers |

The bound constants are `Horizon` (`RateAdmission`), `MaxFaults` (`Crawl`,
`IndexSystem`), `MaxNow` (`SearchRoute`), `MaxEdition` (`ReportRoute`), `MaxRows`,
`Typed` and `Corpora` (`GatewayPages`) and `Sources` with `MaxItems` (`Transcript`);
all else is finite by itself. `SearchSweep` and `Transcript` end, so their runs do not
look for deadlocks. Symmetry is used for tokens, labels, inodes, build ids, report ids
and handlers, and in no run with a liveness property.

### Properties worth knowing

* `MinuteRate`, `DayRate`: any limit + 1 consecutive admissions of a label span at
  least the window, wherever they fall against the pruning. `RefusalDeserved`: a
  refusal is always backed by that many real admissions.
* `PermitsConserved`, `InFlightExact`: no permit leaks and none is released twice.
  `GateDiscipline`: the retry loop is a correct user of the gate, so these hold of
  real calls, cancelled ones included.
* `BudgetSpentBeforeError`: a call that is not cancelled and whose last attempt failed
  transiently (a refusal, a lost connection, 400, 502, 503, 504) has used the whole
  budget, whatever its caller gets. The exception is an answer whose body is not JSON,
  which ends the call at once (`TransientStatusesRetried`, section 6). `SlotOnlyOnTheWire`, `EveryCallEnds`.
* `SwapPublishesRun`, `LiveOnlyReplacedByWhole`, `SkippedStaysDue`.
  `RunsIndexEverything` says of the crawl what it does *if* `run_crawl` is entered with a
  working client again and again; the command line does not do that
  (`CommandLineIndexes`, section 6).
* `CacheCoherent`: each cached result is what the open connection would give now.
  `AnswersAreCurrent`: an answer comes from one index that was in service between
  question and answer. `IndexSystem!ImplementsPromise`.
* `CompleteWhenNodesAgree`, `TruncatedLeavesRows`, `FetchesBounded` (a cold budget
  may be overrun only by pages without gain, fewer than `search_max_no_gain`).
* `LastStoredServes`: the time of a sweep is kept apart from the time of storing it. No
  memo is of a sweep stored after the one that pages are cut from, and where that one
  was swept earlier, the later sweep was stored while it waited for Pair. That this may
  happen at all is what `PagesOfOneSweep` shows (section 6). `AgeBounded`: a page is served for nearly
  twice `cache_ttl_s` after its sweep was stored, never longer.
* `AnswerExplained`, `ClientsClosed`: see the report route above. The cause of a response
  is in `last.outcome`, a history that the code does not keep. `LogTruthful` compares the
  log line with it, its upstream status with the status of the `UpstreamError` that the
  fetch ended in; that this is what the upstream sent is the claim of
  `UpstreamStatusLogged`, which the code does not keep (section 6).
* `NoLinkFails`: no link of the gateway leads to a 404 or a 422, but for ids that the
  site gave and the gateway refuses, and topics longer than a query may be.
  `CorrectionsConverge`: a corrected form has fewer faults than what it corrects, so
  following corrections ends at a page; that there is one for a bad number is
  `BadNumbersCorrected`, which the code does not keep (section 6). `CountsMatchPages`: the numbers beside the
  links are the lengths of the pages behind them. `LadderComplete`: a term that a page
  cuts off is on a page below it, and the last level cuts nothing off.
* `UpstreamHitsKept` (merging and boosting keep the slice, in order, without doubles),
  `PagesReachRows` (the page links reach every collected row, and a truncated result
  links to no empty page), `TypoFindsTerm` (a term one edit away is suggested, though
  the pre-filter looks at lengths only).
* `Verbatim`: but for what is named in `IsLeftOut`, the transcript is the text of the
  source, in its order, once. `RightSpeaker`: a text is given to the one named last, or
  to nobody after bold without a text. For a document that is cut at its markers both
  have the premise `IsAligned`: no other end of a line in it than a newline. Without
  it both fail (`MarkersDelimit`, section 6).
* `ServerHonoursStore`: what was disabled or replaced before the server read the file
  is refused, what was handed out and kept is admitted. `LiveStoreSound`: whatever is
  killed, `tokens.yaml` only becomes a whole file of mode 0600, and one that does not
  parse is left alone. `TokenStore!ImplementsPromise`.

### Fairness

Safety properties need none. Liveness is claimed twice:

* `SprsClient`: weak fairness of each call's `Progress`. The event loop resumes
  every runnable task, a POST ends within its httpx timeouts, `asyncio.sleep`
  returns. Clients are not made to ask, nor tasks to be cancelled.
* `Crawl`: weak fairness of each run's `Advance`, as a process that was not killed goes
  on. That a run is started again is nothing this code gives: it is the premise of
  `RunsIndexEverything`, where `Launch` is `run_crawl` with a client handed in, as the
  tests do. `CommandLineSpec` has the start that the runbook describes: the timer starts
  the command line again and again (weak fairness of `LaunchFromCommandLine`), and there
  is no other start. Faults are finitely many; nothing is assumed of when they strike.

## 4. Proofs

| Theorem | States |
|---|---|
| `SprsClient_proofs!SlotTypes`, `PermitAccounting`, `InFlightAccounting`, `FanOut` | `TypeOK`, `PermitsConserved`, `InFlightExact`, `FanOutBounded` for any finite set of slots, any labels and limits |
| `RateAdmission_proofs!AdmissionTypes`, `MinuteWindow`, `DayWindow`, `DequesExact`, `RefusalsDeserved` | `TypeOK`, `MinuteRate`, `DayRate`, `DequesHoldHistory`, `RefusalDeserved` for any labels, limits, spans and horizon |
| `SprsClient_proofs!CapacityOnTheWire`, `BudgetSpent`, `ClientDrivesGate` | `SlotOnlyOnTheWire`, `BudgetSpentBeforeError`, `GateDiscipline` for any calls, labels, limits and retry budget |
| `SprsClient_proofs!ClientTypes`, `WireBounded` | `TypeOK`, and no more requests on the wire than the limits of the gate, for finitely many calls |
| `IndexSystem_proofs!CrawlTypeCorrect`, `SkippedDaysStayDue`, `SwapsPublishTheirRun`, `LiveIndexesAreWhole` | `TypeOK`, `SkippedStaysDue`, `SwapPublishesRun`, `LiveOnlyReplacedByWhole` of `Crawl` for any days, inodes, builds and number of faults, and one crawl at a time |
| `IndexSystem_proofs!SystemTypeCorrect`, `CachesAreCoherent`, `AnswersComeFromService`, `Publication` | `SystemTypeOK`, `CacheCoherent`, `AnswersAreCurrent`, `ImplementsPromise` of the crawl and the reader together, likewise |
| `SearchRoute_proofs!TypeCorrect`, `AnswersAreOwnSlices`, `LastStoredIsServed`, `PagesGrowOldOnce` | `TypeOK`, `AnswerIsOwnSlice`, `LastStoredServes`, `AgeBounded` for any handlers, queries, sittings, speakers, page and cache size and TTL |
| `SearchSweep_proofs!TypeCorrect`, `CostIsBounded` | `TypeOK`, `FetchesBounded` for any nodes, rows, orders and limits |
| `SearchSweep_proofs!TruncationIsHonest`, `AgreementIsComplete` | `TruncatedLeavesRows`, `CompleteWhenNodesAgree`, if a node lists each report once |
| `ReportRoute_proofs!RouteTypes`, `AnswersExplained`, `LogsTruthful`, `NoClientLeaks` | `TypeOK`, `AnswerExplained`, `LogTruthful`, `ClientsClosed` for any handlers, ids, editions and size of the cache |
| `GatewayPages_proofs!LinksLead`, `CorrectionsLeadOn`, `CountsTrue`, `LadderHolds`, `UpstreamHitsStay`, `PageLinksReach` | `NoLinkFails`, `CorrectionsConverge`, `CountsMatchPages`, `LadderComplete`, `UpstreamHitsKept`, `PagesReachRows` for any reports, alphabet, stopwords, depth, caps, windows and limits, any URL to begin with and any sweep |
| `TokenStore_proofs!StoreTypes`, `ServerHonours`, `LiveStoreStaysSound`, `CommandsImplementPromise` | `TypeOK`, `ServerHonoursStore`, `LiveStoreSound`, `ImplementsPromise` for any labels, tokens and files, and one command at a time |

*Upstream slots.* The inductive invariant is `TypeOK /\ PermitsConserved /\
InFlightExact`. `FanOutBounded` is not inductive: that a grant stays within the
limits follows only when the counters are tied to the sets of slots held. Each
action changes such a set by one element or not at all, and the library's facts on
cardinalities do the rest. The assumption is `SlotAssumption` of `UpstreamSlots`.

*Rate admission.* `Grant` looks at the deques, the rate speaks of the history of
admissions. The inductive invariant therefore carries `DequesHoldHistory` (each
deque is the tail of the history that has not left the span), the order of the
history, and the rates. A grant finds fewer than `PerMin` entries in the pruned
deque, so the admission `PerMin` places back is among those that have left the
span, which is the rate. The assumption is `LimitsAssumption` of `RateAdmission`.

*SPRS client.* Neither invariant is inductive. The proof adds, for each call, that its
posts keep step with its attempts, that a sleep is entered only with attempts left, and
that only a finished call has an outcome. After a transient failure an answer that is
not JSON is the one end with attempts left, and `BudgetSpent` names it. Every action is
one call's, so one lemma (`OneCall`) disposes of the other calls. The assumption is
`ClientAssumption` of `SprsClient`; nothing is assumed of what the gate decides.
`GateDiscipline` is a refinement: each step is a grant, an exit or no step of the gate.
With it `WireBounded` takes what is proved of the gate over to the client, whose slots
are its calls.

*Report route.* A hit is explained by the cache and a fetched report by the request
that waits for it, so the invariant adds that the cache has each report under its own
id and no more than fit, and that a request reached its fetch only after it was
accepted. What a response has to be, for the three properties to hold of it, is one
predicate (`Sound`), which each way of answering establishes. The assumptions are
`RouteAssumption` and `NoneAssumption` of `ReportRoute`.

*Token store.* None of the properties is inductive: between the load and the
replacement a command holds a changed copy, and what is right about it depends on the
store still being the one it was made from. The invariant says so (`Change`): the copy
is one promised change of the store in place, its token was never shown or revoked,
and its effect on the tokens that work is exactly the command's. It adds what the
temporary file holds at each step of the save, that the two names are never one file,
and that the records of tokens shown and revoked agree with the store and with the
server's memory. The refinement then has one step that is not a stutter, `Replace`.
Besides `NamesAssumption` of `TokenStore` the theorems assume `OneOperator`, one
command at a time: with two, all three properties fail (section 6).

*Crawl and index.* `LiveOnlyReplacedByWhole` is a property of the last step of a run,
and what that step publishes is settled steps before. The invariant (`CrawlSound`) says
of each control point where the run's connection is, that the staging file is the one
it opened and holds only what it has put there, that the days of a run are in one of
its lists only, and that the days it has not stamped are not stamped in the index it
read them from either. `FilesSound` says that the staging file is nobody else's: not in
service, not what the reader has open; and that two files in use do not share a
build id, which is what makes the reader's probe tell them apart. For the reader
(`ReaderSound`) the invariant follows a query: from its question on, what is in service
has been in service since then; once it has probed or reopened, so has what its
connection shows. With these, each action of the crawl or of the reader maps to one
action of `IndexPublication` or to a stutter, which is `Publication`. The theorems
assume `OneCrawler`, that any two crawl processes are the same one: the weekly timer
does not start a second unit while the first runs, while a cold crawl by hand beside it
does break `LiveOnlyReplacedByWhole` (section 6). Days, inodes, build ids and the
number of faults are arbitrary, under the assumptions of the modules.

*Search and date routes.* Every property is about one answer and every danger is in the
cache, which others write between two steps of a handler. So the invariant
(`CacheSound`) says what any entry is, whoever wrote it: a sweep under the key of its
own query, stored when it was over or later, in the past, and kept no longer than its
TTL; a page cut from a sweep of its own query, which expires less than two TTLs after
that sweep was stored; and, where both are there, the page's sweep was not stored after
the sweep. To this `HandlerSound` adds what a suspended handler remembers. A step
writes at most two entries and drops some, so one lemma about writing and one about
dropping carry all actions. `AgeBounded` is then read off the entry a page is served
from.

*Search sweep.* The folds are handled by a lemma, `CollectSteps`: what has been
collected before and after each row of a page. It rests on the fold's definition, for
whose existence `FoldExists` goes by induction over the number of rows.
`FetchesBounded` needs the budget to be counted together with the pages without gain
(`fetches < budget + noGain` while the sweep goes on): past the budget, a page that
gains ends the sweep, by the budget or because everything was seen. For
`CompleteWhenNodesAgree` the invariant `Prefix` says that the rows seen are the first
`offset` rows of the common order, or all of it. `TruncatedLeavesRows` is a pigeonhole
argument: the largest total is the length of some node's list, whose rows do not fit
into fewer seen. It needs `ListedOnce`, that a node lists no reportId twice, as an index
keyed by it does; with a row listed twice the total exceeds what can be collected, and
the mark is put on a complete result. The types and the cost do not need it.

*Pages and links.* A link is followed long after it was made, so what is wrong with a page
was wrong with a link of an earlier one. The invariant (`PagesInv`) therefore speaks of
links before they are followed: each link on a page is `Sound`, it leads to an address
that is refused for no more than a long topic or an id, a report link to a report that
is there, and its number is the number of entries behind it (`SizeOf`). `NoLinkFails` and
`CountsMatchPages` are read off the link that led to a page and the status and size of
that page. There is a lemma for each route that its links are sound, and below these the
lemmas follow the data: `InOrderFacts` and `AtFacts` (a list that is sorted or filtered
has the elements it should, each once), `TermsAreTyped` and `ReportsAreTyped` (what the
crawl makes of any reports has one term to a norm and one report to a link id), and
`ReachedBelow`, on which the numbers of the ladder rest: what the branches of a prefix
count among the terms of that prefix is what their own pages count among all terms,
because a term found under an extension is found under the prefix. `UpstreamHitsKept`
follows from `Kept`, which says where the slice is on the page and is preserved by adding
reports with other links on either side. `PagesReachRows` is the arithmetic of rounding up.
Besides `IndexAssumption`, `AddressAssumption`, `SearchAssumption` and `PagesAssumption`,
which name the types and ranges of the parameters, there is `LinkAssumption`: a link id
names one report. The proof of `LadderComplete` found that it said too much of a
term that is cut off: not every longer word leads on, a longer stopword does not, and the
property now leaves stopwords out.

*Induction.* The library's induction theorems take an operator and cannot be used here.
`Succession` (a set of naturals with 0 that is closed under successor has them all) is
proved instead from the library's pigeonhole fact for finite sets, and takes a set.

Only model-checked:

* liveness (`EveryCallEnds`, `RunsIndexEverything`): it rests on fairness and ENABLED,
  which the prover does not handle;
* `TypoFindsTerm` of `GatewayPages`: that the table of edit distances, filled cell by
  cell, is the least number of edits is an induction of its own, on both words;
* `Transcript` (`Verbatim`, `RightSpeaker`): an induction over documents, for the two
  parsers together.

## 5. Abstractions

* A day's reports are one unit in `Crawl`; the page sweep within a day and its
  retries are represented by their outcomes (rows, none, transient failure, any
  other exception). One query, the reports of a day, stands for all of
  `IndexService`, as all go through `_query`; what the queries select is `TermIndex`.
* SQLite: a transaction is atomic, a write lock excludes a second writer, a reader
  sees the inode it opened. Hot journals after a kill are not modelled.
* Which entry a full TTL cache evicts is left open. Rows are their ids.
* `SearchRoute` leaves out the notes above a page. They are in html only, made from the
  page before merging and boosting; json has the mark `truncated`, which is modelled, and
  text says nothing of a result that was cut off.
* A slot is entered in one step, because `__aenter__` never waits: the lock is never held
  over an await, and the semaphore is acquired only when it was just seen free. So its
  branch for an acquire that is cancelled (`H/rate_limit.py:115`) is not in the model.
* An index query that raises while the HTML of a report or its links are rendered
  (`H/report_handler.py:179`) is not in `ReportRoute`; the reader's failures are in
  `IndexService`.
* Time is a counter of ticks; only differences against the spans matter.
* Letters are numbers and words sequences of letters; a surface is its normalised form
  and a number for the rest, which is all that grouping, ordering and length comparison
  tell apart. Years are blocks of `DaysPerYear` days. The token in every URL is left
  out, it is the one of the request. The links of a page have no order.
* A text of a transcript is known by its place; of its length only "one character" or
  "three and more" matters. Inline tags other than bold are left out. For the offsets of
  the markers the items of a document are all of one length, so a cut that is wrong is
  wrong by whole items; in the code it may also fall inside of one.
* How often a text comes out of a document without named markers depends on where the
  HTML parser puts what stands behind `</html>`. The model keeps every repetition, and no
  property counts them.
* In `TokenStore` a digest stands for its token, YAML that was cut is any subset of the
  entries or does not parse, and an inode keeps its content until it is opened for
  writing. The power does not fail: a file written before `os.replace` is on disk.

Not modelled: the metadata of a transcript (dates, volume, the Sitting No table) and
its hash; the links inside a report page (table of contents, citations and their caps);
wording, labels and layout; redaction and the other fields of the log line;
`openapi_schemas.py`, `models.py`, `api_guide.py` and the static pages, which decide
nothing; the request body of a search; the maintenance scripts, which compare fixtures.

## 6. Where the code and its documents disagree

`SearchSpeaker` is a run: the cache key of a search leaves the speaker out, so searches
for two members share one result (`H/sprs/cache.py:24` against
`H/search_routes.py:67`).

The next ones are definitions that no run checks. Put one into the configuration named,
in place of its properties, and TLC shows the behaviour:

| Definition | Configuration | What the code does |
|---|---|---|
| `TransientStatusesRetried` | `SprsClient.cfg` | A transient status whose body is not JSON is not retried; the decoding error leaves the loop at once (`H/sprs/client.py:265` against its line 7). |
| `CommandLineIndexes` | `Crawl.cfg` with `SPECIFICATION CommandLineSpec` | `CrawlClient` reads `settings.read_timeout_s`, which `Settings` lacks, so no crawl from the command line gets past its constructor: it ends with exit code 1 and nothing is ever indexed (`crawl/crawl_client.py:83` against `deploy/RUNBOOK.md:98`). |
| `PagesOfOneSweep` | `SearchRoute.cfg` | Two requests for one query sweep; the one whose Pair answer comes late stores its older rows over the newer ones of the other, so page 2 is cut from older rows than the page 1 a reader has seen (`H/search_routes.py:155` against `H/sprs/cache.py:54`). |
| `TruncatedMarkKept` | `SearchRoute.cfg` | A page that `merge_pair` or the boost makes anew is no longer marked truncated, so json calls it complete and the continuation links span the estimate (`H/search/boost.py:153`, `H/search/providers.py:82` against `H/models.py:81` and `H/search/providers.py:238`). |
| `UpstreamStatusLogged` | `ReportRoute.cfg` | The status of a refusal by the gateway's own gate is logged as the upstream's, and a 404 where SPRS sent a 500 (`H/report_handler.py:135` against its line 128). |
| `BadNumbersCorrected` | `GatewayPages.cfg` | A page or limit that is no number gets an error page without a correction: the handler looks for the name of the parameter in a third part of its place, FastAPI gives two (`H/validation_errors.py:71` against `H/render/recovery_links.py:155`; `tests/test_dead_ends.py:333` hands the name in). |
| `MarkersDelimit` | `Transcript.cfg` with `Sources <- MCOtherEnds` | `getpos` ends a line at `\n` only, `splitlines` at `\r`, `\x85`, `\u2028` and others too, so behind one of these the text of one speaker is given to another (`H/sprs/legacy.py:100` against its line 4). |
| `DownWeekKeepsIndex` | `Crawl.cfg` | A week in which every fetch fails swaps an empty index in (`crawl/crawl_main.py:182` against its line 10). |
| `LiveOnlyReplacedByWhole` | `Crawl.cfg` with two crawlers and four inodes | Two crawls share one staging path and no lock, so one swaps in the file the other has just begun (`crawl/crawl_db.py:76` against its lines 6 and 71). |
| `FollowsSwap` | `IndexSystem.cfg` | A server that started without an index never looks at the path again (`H/index/loader.py:166` against `README.md:250`). |
| the three properties | `TokenStore.cfg` with two operators and three inodes | Two commands load, change and save the same file through one temporary name (`H/manage_tokens.py:124`): an update is lost, a revoked token works again, a half-written store is put in place. |
| `OneLinePerRequest` | `ReportRoute.cfg` | A body that is not JSON raises a `ValueError` that passes by the middleware: the request has no log line, against the first lines of `H/logging_setup.py`. |
| `GatewayErrorsRetryable` | `ReportRoute.cfg` | A 504 is not marked retryable, against `H/main.py:144`. |

Further observations made while modelling, visible in the definitions named.

Crawl and index:

* `BuildCommit`: the new index has the rows of one run and an empty `crawl_state`.
  So an incremental run that skips a day drops it, and after a swap every date is due
  again (`README.md:247`, `deploy/RUNBOOK.md:76`).
* `Due`: a date stamped empty is skipped by incremental runs, against
  `README.md:248`.
* `FetchGarbled`: a failure status that is not retried, or a body that is not JSON,
  stamps the day as empty, against `crawl/crawl_client.py:103`. `Reading` of
  `SprsClient` does the same to a search (`H/sprs/client.py:124`).
* `ExtractTerms`: of two surfaces that are equally frequent the shorter wins
  (`H/index/extract.py:163`, `-len(s)`); the comment above says the longer.

Search:

* `Fetch`: the first page is asked for once, not `search_max_probes` times, and the
  sweep stops at the offset with rows missing when nodes disagree, against the
  docstring of `H/search/sprs.py`.
* `PairCrashes`: JSON from Pair that is no object fails the search, against
  `H/search/pair.py:48`.
* `PagesReachRows` has a premise: when the stated total is below the number of
  collected rows, the last of them are on no page. A page past the end links to a
  "Previous" page that may not exist either.
* `SearchSiblings`: the links to the other formats drop the dates and the speaker,
  though `H/render/links.py:55` speaks of the "CURRENT search page".
* `Offers`: the links offer 50, 100 and 200 rows, the route clamps to
  `search_max_limit`.

Navigation and corrections:

* `LadderComplete` has an exception: a term whose only matching words equal the prefix
  is cut off on that page and is on no page below, against the sentence of
  `templates/nav.html` that one more letter shows the rest.
* `CountsMatchPages` leaves out the letters of the launcher, which count the terms that
  begin with a letter while the page lists those with any word that does.
* `LauncherLinks`: the text form lists topics and letters without URLs.
* `CorrectedForm`: a correction of the format drops dates and speaker, a correction of
  the page keeps a bad date; a page or limit that is no number has none (above); a
  query over the limit of the route's own validation has none; a letter correction
  accepts digits; a bad format with a valid prefix is called "not a valid topic
  prefix".
* `BadId`: `H/report_id.py` says that ids with a part after a dot are accepted, its
  pattern refuses them; such a hit is listed with a link that fails.

Transcripts (`IsLeftOut`, `IsKept` and `Walk` say what `Verbatim` cannot):

* Since 2012: bold text that is not at the front of a paragraph takes its length off
  the front and becomes the speaker; a paragraph with only a name names nobody. A blank
  `<strong>` makes the speaker "", who also has the paragraphs that follow. Text in no
  paragraph is dropped, unless it is the very first, which the HTML parser wraps in one.
* Before: markers without any name fall back to bold text, where a document is walked
  together with its parents and so comes out more than once; the text of a marker
  comment gets in there; lines after the first paragraph of a segment are lost.

Tokens and logging:

* `Kill` between `Replace` and `PrintResult` of a rotation loses the new token, which
  is nowhere but in the line that was not printed.
* `LoadStore`: an empty `tokens.yaml` is a store without tokens.
* `Held`: the server never reads the file again, so `README.md:230` ("404s
  immediately") needs the restart of `README.md:234`; `H/auth.py` calls the store
  "SIGHUP-reloadable", and no handler of that signal exists.

## 7. Plan

Done: the gate and its proofs, the client over it, crawl, reader and their composition
with the refinement, the sweep, the routes over the cache, the report route, the
parsers, the index tables with every page and link made from them, the token store with
its refinement; proofs of every safety property of the runs but `TypoFindsTerm` and those
of `Transcript`.

Left, in this order:

1. Proofs about `Transcript`: `RightSpeaker` for the parser of reports since 2012.
   `Succession` and the unfolding of a fold are there for it.
2. The table of edit distances, for `TypoFindsTerm`.
3. SQLite's hot journal in `IndexFiles`: a kill inside a transaction leaves a file that
   a read-only connection cannot read.
4. The metadata of the parsers and the links inside a report page.
