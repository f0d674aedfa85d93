---------------------------- MODULE ReportRoute -----------------------------
(***************************************************************************)
(* ReportRoute: concurrent requests for /report/{id} over the one content  *)
(* cache of the process, up to the log line of each                        *)
(* (src/hansard_gateway/report_handler.py, main.py, error_responses.py,    *)
(* sprs/payload.py, sprs/cache.py, logging_setup.py).  A handler runs      *)
(* without interruption but for the fetch.  What a fetch can end in is     *)
(* what SprsClient shows of fetch_topic; a transcript is known by its      *)
(* topic and the edition of it that SPRS held when it looked.              *)
(***************************************************************************)
EXTENDS Naturals, FiniteSets

CONSTANTS Task,         \* the requests that may be served at one time
          Id,           \* well-formed report ids
          Malformed,    \* an id that validate_report_id rejects
          CacheMax,     \* cache_maxsize
          MaxEdition,   \* bound of the model: editions of a topic
          None

ASSUME RouteAssumption ==
  /\ Malformed \notin Id /\ None \notin Id
  /\ CacheMax \in Nat \ {0} /\ MaxEdition \in Nat \ {0}

VARIABLES corpus,   \* id -> the edition that SPRS holds, 0 for none
          cache,    \* ReportCache: the unexpired reports, by id
          pc,       \* task -> "idle", "fetching", or "looked": SPRS has looked
          req,      \* task -> its request, while it fetches
          found,    \* task -> the edition that SPRS found for it
          open,     \* the tasks whose SprsClient is open
          last      \* the response that the last step gave, or None

vars == <<corpus, cache, pc, req, found, open, last>>

Formats == {"html", "json", "text"}
Requests == [token : {"good", "bad"}, id : Id \cup {Malformed},
             format : Formats \cup {"other"}]

Report == [id : Id, edition : 1..MaxEdition]

(***************************************************************************)
(* Responses.                                                              *)
(***************************************************************************)
\* `_MESSAGES`, `_RETRYABLE_STATUSES`
Messages == {404, 422, 429, 502, 503, 504}
Retryable(status) == status \in {429, 502, 503}

\* The exception that leaves the handler is answered outside the middleware.
Unhandled == [status |-> 500, format |-> "text", nav |-> FALSE,
              retryable |-> FALSE, report |-> None]

\* `build_error_response`: without a token there is no navigation bar, and only
\* the JSON envelope and the line of text need a registered message.
ErrorResponse(status, format, nav) ==
  IF format # "html" /\ status \notin Messages THEN Unhandled
  ELSE [status |-> status, format |-> format, nav |-> nav,
        retryable |-> format = "json" /\ Retryable(status), report |-> None]

\* `_token_rejected_body`: nothing of the path is in it.
TokenRejectedBody(r) ==
  ErrorResponse(404, IF r.format \in Formats THEN r.format ELSE "html", FALSE)

\* Mutant of UpstreamStatus: the upstream's status is passed on.
UpstreamStatusRaw(s) == IF s = None THEN 502 ELSE s

\* `_upstream_status`: the statuses of the contract are kept, all else is 502.
UpstreamStatus(s) == IF s \in {502, 503, 504} THEN s ELSE 502

\* `_error_response`
UpstreamFailed(s, r) == ErrorResponse(UpstreamStatus(s), r.format, TRUE)

\* `_format_response`, or the page.
Shows(report, r) ==
  [status |-> 200, format |-> r.format, nav |-> r.format = "html",
   retryable |-> FALSE, report |-> report]

\* `RequestLoggerMiddleware`: one line when the application has answered; an
\* exception of the application passes by.
LogLine(answer, hit, upstream) ==
  IF answer = Unhandled THEN None
  ELSE [status |-> answer.status, hit |-> hit, upstream |-> upstream]

\* The response of a step: what was asked, what the fetch ended in (None if
\* there was none), what the client gets and what the log says.
Responds(r, outcome, answer, hit, upstream) ==
  last' = [req |-> r, outcome |-> outcome, answer |-> answer,
           line |-> LogLine(answer, hit, upstream)]

(***************************************************************************)
(* The fetch.                                                              *)
(***************************************************************************)
\* An UpstreamError: the status that it carries, and the one that SPRS sent to the
\* last attempt, None for nothing.
UpstreamErrors(statuses, sent) ==
  [kind : {"upstream"}, status : statuses, sent : sent]

\* The gate lets no attempt out; the last attempt is lost; SPRS answers each with a
\* transient status; SPRS answers, and what it says has no transcript.
Failures ==
  UpstreamErrors({429, 503}, {None}) \cup
  UpstreamErrors({None}, {None, 200, 500}) \cup
  UNION {UpstreamErrors({s}, {s}) : s \in {400, 502, 503, 504}}

\* The "No Results Found" that SPRS sends with a 500 is given the status 404.
NotFound == [kind |-> "upstream", status |-> 404, sent |-> 500]

\* A body that is not JSON: a ValueError that nothing catches.
Undecodable == [kind |-> "raise"]

\* What the payload says of its era, and the fields that it fills.
Payloads(report) ==
  [kind : {"payload"}, report : {report}, version : {None, "sprs2", "sprs3", "sprs9"},
   html : BOOLEAN, content : BOOLEAN]

\* No value is none of the others.
ASSUME NoneAssumption ==
  /\ None \notin {"hit", "miss", 200, 400, 404, 429, 500, 502, 503, 504}
  /\ None \notin Failures \cup {NotFound, Undecodable}
  /\ \A report \in Report : None \notin Payloads(report)

\* `parse_topic`: the version that the payload states, or the one that its
\* fields tell; the parser of that era needs its own field.
Version(p) ==
  IF p.version # None THEN p.version
  ELSE IF p.html THEN "sprs2" ELSE IF p.content THEN "sprs3" ELSE None
Parses(p) ==
  \/ Version(p) = "sprs2" /\ p.html
  \/ Version(p) = "sprs3" /\ p.content

(***************************************************************************)
(* The cache: TTLCache drops an expired entry, and another one when full.  *)
(***************************************************************************)
\* `report_key`
ReportKey(id) == id

Put(key, value) ==
  LET others == DOMAIN cache \ {key}
  IN  \E kept \in IF Cardinality(others) < CacheMax THEN {others}
                  ELSE {others \ {old} : old \in others} :
        cache' = [k \in kept \cup {key} |-> IF k = key THEN value ELSE cache[k]]

Expire(key) ==
  /\ key \in DOMAIN cache
  /\ cache' = [k \in DOMAIN cache \ {key} |-> cache[k]]
  /\ last' = None
  /\ UNCHANGED <<corpus, pc, req, found, open>>

(***************************************************************************)
(* The handler.                                                            *)
(***************************************************************************)
\* `require_capability_token` raises before the handler looks at anything.
Reject(r) ==
  /\ r.token = "bad"
  /\ Responds(r, None, TokenRejectedBody(r), None, None)
  /\ UNCHANGED <<corpus, cache, pc, req, found, open>>

\* The format first, in an HTML page, then the id.
Invalid(r) ==
  /\ r.token = "good"
  /\ r.format \notin Formats \/ r.id = Malformed
  /\ Responds(r, None,
        ErrorResponse(422, IF r.format \in Formats THEN r.format ELSE "html", TRUE),
        None, None)
  /\ UNCHANGED <<corpus, cache, pc, req, found, open>>

Valid(r) == r.token = "good" /\ r.format \in Formats /\ r.id # Malformed

Hit(r) ==
  /\ Valid(r)
  /\ ReportKey(r.id) \in DOMAIN cache
  /\ Responds(r, None, Shows(cache[ReportKey(r.id)], r), "hit", None)
  /\ UNCHANGED <<corpus, cache, pc, req, found, open>>

Miss(t, r) ==
  /\ pc[t] = "idle"
  /\ Valid(r)
  /\ ReportKey(r.id) \notin DOMAIN cache
  /\ pc' = [pc EXCEPT ![t] = "fetching"]
  /\ req' = [req EXCEPT ![t] = r]
  /\ open' = open \cup {t}
  /\ last' = None
  /\ UNCHANGED <<corpus, cache, found>>

\* The call reaches SPRS, which looks the topic up; the answer is under way.
SprsLooks(t) ==
  /\ pc[t] = "fetching"
  /\ pc' = [pc EXCEPT ![t] = "looked"]
  /\ found' = [found EXCEPT ![t] = corpus[req[t].id]]
  /\ last' = None
  /\ UNCHANGED <<corpus, cache, req, open>>

\* `finally: await client.aclose()`, and the handler is done.
Finishes(t) ==
  /\ pc' = [pc EXCEPT ![t] = "idle"]
  /\ req' = [req EXCEPT ![t] = None]
  /\ found' = [found EXCEPT ![t] = 0]
  /\ open' = open \ {t}

\* Mutant of FetchFailed: the client is closed only after a good fetch.
FetchFailedLeaks(t) ==
  /\ pc[t] # "idle"
  /\ \E e \in Failures :
       Responds(req[t], e, UpstreamFailed(e.status, req[t]), "miss", e.status)
  /\ pc' = [pc EXCEPT ![t] = "idle"]
  /\ req' = [req EXCEPT ![t] = None]
  /\ found' = [found EXCEPT ![t] = 0]
  /\ UNCHANGED <<corpus, cache, open>>

\* An UpstreamError, before or after SPRS has looked.
FetchFailed(t) ==
  /\ pc[t] # "idle"
  /\ \E e \in Failures :
       Responds(req[t], e, UpstreamFailed(e.status, req[t]), "miss", e.status)
  /\ Finishes(t)
  /\ UNCHANGED <<corpus, cache>>

\* A report that SPRS does not have is this gateway's 404.
FetchFindsNone(t) ==
  /\ pc[t] = "looked" /\ found[t] = 0
  /\ Responds(req[t], NotFound, ErrorResponse(404, req[t].format, TRUE), "miss", 404)
  /\ Finishes(t)
  /\ UNCHANGED <<corpus, cache>>

\* Any other exception.
FetchRaises(t) ==
  /\ pc[t] # "idle"
  /\ Responds(req[t], Undecodable, Unhandled, "miss", None)
  /\ Finishes(t)
  /\ UNCHANGED <<corpus, cache>>

\* A payload that does not parse is a 502, and is not kept.
Unparseable(t) ==
  /\ pc[t] = "looked" /\ found[t] # 0
  /\ \E p \in Payloads([id |-> req[t].id, edition |-> found[t]]) :
       /\ ~Parses(p)
       /\ Responds(req[t], p, UpstreamFailed(502, req[t]), "miss", None)
  /\ Finishes(t)
  /\ UNCHANGED <<corpus, cache>>

\* Mutant of Fetched: the flag of the log is taken when the report is there.
FetchedAsHit(t) ==
  /\ pc[t] = "looked" /\ found[t] # 0
  /\ \E p \in Payloads([id |-> req[t].id, edition |-> found[t]]) :
       /\ Parses(p)
       /\ Put(ReportKey(req[t].id), p.report)
       /\ Responds(req[t], p, Shows(p.report, req[t]), "hit", None)
  /\ Finishes(t)
  /\ UNCHANGED corpus

\* The payload is parsed, stored and shown.
Fetched(t) ==
  /\ pc[t] = "looked" /\ found[t] # 0
  /\ \E p \in Payloads([id |-> req[t].id, edition |-> found[t]]) :
       /\ Parses(p)
       /\ Put(ReportKey(req[t].id), p.report)
       /\ Responds(req[t], p, Shows(p.report, req[t]), "miss", None)
  /\ Finishes(t)
  /\ UNCHANGED corpus

\* SPRS publishes, amends or withdraws a topic.
Publish(id) ==
  /\ \E n \in 0..MaxEdition :
       /\ n = 0 \/ n = corpus[id] + 1
       /\ corpus' = [corpus EXCEPT ![id] = n]
  /\ last' = None
  /\ UNCHANGED <<cache, pc, req, found, open>>

Init ==
  /\ corpus \in [Id -> {0, 1}]
  /\ cache = [k \in {} |-> None]
  /\ pc = [t \in Task |-> "idle"]
  /\ req = [t \in Task |-> None]
  /\ found = [t \in Task |-> 0]
  /\ open = {}
  /\ last = None

FetchEnds(t) ==
  \/ FetchFailed(t) \/ FetchFindsNone(t) \/ FetchRaises(t)
  \/ Unparseable(t) \/ Fetched(t)

Next ==
  \/ \E r \in Requests : Reject(r) \/ Invalid(r) \/ Hit(r)
  \/ \E t \in Task, r \in Requests : Miss(t, r)
  \/ \E t \in Task : SprsLooks(t) \/ FetchEnds(t)
  \/ \E key \in DOMAIN cache : Expire(key)
  \/ \E id \in Id : Publish(id)

Spec == Init /\ [][Next]_vars

(***************************************************************************)
(* Properties.                                                             *)
(***************************************************************************)
Responses == [status : Messages \cup {200, 500}, format : Formats, nav : BOOLEAN,
              retryable : BOOLEAN, report : Report \cup {None}]
Lines == [status : Messages \cup {200}, hit : {"hit", "miss", None},
          upstream : {None, 400, 404, 429, 502, 503, 504}]

TypeOK ==
  /\ corpus \in [Id -> 0..MaxEdition]
  /\ DOMAIN cache \subseteq Id /\ Cardinality(DOMAIN cache) <= CacheMax
  /\ \A id \in DOMAIN cache : cache[id] \in Report
  /\ pc \in [Task -> {"idle", "fetching", "looked"}]
  /\ req \in [Task -> Requests \cup {None}]
  /\ found \in [Task -> 0..MaxEdition]
  /\ open \subseteq Task
  /\ last # None => /\ last.req \in Requests
                    /\ last.answer \in Responses
                    /\ last.line \in Lines \cup {None}

\* The status of the UpstreamError that a fetch ended in, if it ended in one.
ErrorStatusOf(outcome) ==
  IF outcome = None THEN None
  ELSE IF outcome.kind = "upstream" THEN outcome.status ELSE None

\* report_handler.report: each status has its one cause.  A transcript is the
\* one that was asked for, as the cache had it or as this fetch brought it; the
\* 404 with navigation means that SPRS said so to this request; 502, 503 and 504
\* stand for a fetch that failed or could not be read.
AnswerExplained ==
  last # None =>
    LET a == last.answer
        h == last.outcome
    IN  /\ a.status \in {200, 404, 422, 502, 503, 504} \/ h = Undecodable
        /\ a.status = 200 =>
             /\ Valid(last.req) /\ a.report.id = last.req.id
             /\ h = None \/ (h.kind = "payload" /\ h.report = a.report)
        /\ a.status = 404 => IF a.nav THEN h = NotFound ELSE last.req.token = "bad"
        /\ a.status = 422 => last.req.token = "good" /\ ~Valid(last.req)
        /\ a.status \in {502, 503, 504} =>
             h \in Failures \/ (h.kind = "payload" /\ ~Parses(h))

\* RequestLoggerMiddleware and the fields that the handler stashes for it: the
\* line of a response tells its status, whether the cache gave it, and the
\* status of the UpstreamError of its own fetch, if it ended in one: also where
\* that is not what SPRS sent (a refusal of the gate, the 404 of a report that
\* is not there).
LogTruthful ==
  last # None /\ last.line # None =>
    /\ last.line.status = last.answer.status
    /\ last.line.hit = "hit" <=> (last.answer.status = 200 /\ last.outcome = None)
    /\ last.line.hit = "miss" <=> last.outcome # None
    /\ last.line.upstream = ErrorStatusOf(last.outcome)

\* report_handler.py:126-128: the line tells "the upstream HTTP status on the
\* failure path".  It is False of the code: the status of a refusal by this
\* gateway's own gate stands there too, and a 404 for the 500 of SPRS.
UpstreamStatusLogged ==
  last # None /\ last.line # None /\ last.line.upstream # None =>
    last.line.upstream = last.outcome.sent

\* `finally: await client.aclose()`: a client is open while its fetch runs, and
\* however that ends.
ClientsClosed == open = {t \in Task : pc[t] # "idle"}

\* logging_setup.py: "Every authenticated request emits exactly one sanitized
\* JSON line".
OneLinePerRequest == last # None => last.line # None

\* main.py, _error_response: "retryable is derived from the status
\* (502/503/504 -> true)".
GatewayErrorsRetryable ==
  last # None /\ last.answer.format = "json" /\ last.answer.status \in {502, 503, 504} =>
    last.answer.retryable
=============================================================================
