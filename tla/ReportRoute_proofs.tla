------------------------- MODULE ReportRoute_proofs -------------------------
(***************************************************************************)
(* For any number of requests, reports and editions and any size of the    *)
(* cache: every answer has its one cause, every log line tells the truth   *)
(* about its answer, and every client is closed.                           *)
(***************************************************************************)
EXTENDS ReportRoute, FiniteSetTheorems, TLAPS

\* The state between the responses.  The cache has a report under its own id, and no
\* more than fit; a request that reached the fetch was accepted.
CacheOK ==
  /\ IsFiniteSet(DOMAIN cache) /\ Cardinality(DOMAIN cache) <= CacheMax
  /\ cache = [id \in DOMAIN cache |-> cache[id]]
  /\ \A id \in DOMAIN cache : id \in Id /\ cache[id] \in Report /\ cache[id].id = id

TasksOK ==
  /\ pc \in [Task -> {"idle", "fetching", "looked"}]
  /\ req \in [Task -> Requests \cup {None}]
  /\ found \in [Task -> 0..MaxEdition]
  /\ \A t \in Task : pc[t] # "idle" => req[t] \in Requests /\ Valid(req[t])
  /\ open = {t \in Task : pc[t] # "idle"}

LastOK ==
  last # None =>
    /\ last.req \in Requests /\ last.answer \in Responses
    /\ last.line \in Lines \cup {None}

Inv ==
  /\ corpus \in [Id -> 0..MaxEdition]
  /\ CacheOK /\ TasksOK /\ LastOK /\ AnswerExplained /\ LogTruthful

\* What a response has to be, for the last three parts of the invariant to hold of it.
Sound(r, h, a, hit, up) ==
  /\ r \in Requests /\ a \in Responses
  /\ hit \in {"hit", "miss", None} /\ up \in {None, 400, 404, 429, 502, 503, 504}
  /\ a.status \in {200, 404, 422, 502, 503, 504} \/ (h = Undecodable /\ a = Unhandled)
  /\ a.status = 200 =>
       /\ Valid(r) /\ a.report.id = r.id
       /\ h = None \/ (h.kind = "payload" /\ h.report = a.report)
  /\ a.status = 404 => IF a.nav THEN h = NotFound ELSE r.token = "bad"
  /\ a.status = 422 => r.token = "good" /\ ~Valid(r)
  /\ a.status \in {502, 503, 504} =>
       h \in Failures \/ (h.kind = "payload" /\ ~Parses(h))
  /\ hit = "hit" <=> (a.status = 200 /\ h = None)
  /\ hit = "miss" <=> h # None
  /\ up = ErrorStatusOf(h)

LEMMA SoundResponse ==
  ASSUME NEW r, NEW h, NEW a, NEW hit, NEW up,
         Sound(r, h, a, hit, up), Responds(r, h, a, hit, up)
  PROVE  LastOK' /\ AnswerExplained' /\ LogTruthful'
<1>1. /\ last'.req = r /\ last'.outcome = h /\ last'.answer = a
      /\ last'.line = LogLine(a, hit, up)
  BY DEF Responds
<1>2. a # Unhandled => a.status \in Messages \cup {200}
  BY DEF Sound, Messages
<1>3. LogLine(a, hit, up) \in Lines \cup {None}
  <2>1. CASE a = Unhandled
    BY <2>1 DEF LogLine
  <2>2. CASE a # Unhandled
    <3>1. LogLine(a, hit, up) = [status |-> a.status, hit |-> hit, upstream |-> up]
      BY <2>2 DEF LogLine
    <3>2. /\ a.status \in Messages \cup {200} /\ hit \in {"hit", "miss", None}
          /\ up \in {None, 400, 404, 429, 502, 503, 504}
      BY <1>2, <2>2 DEF Sound
    <3> QED
      BY <3>1, <3>2 DEF Lines
  <2> QED
    BY <2>1, <2>2
<1>4. LastOK'
  BY <1>1, <1>3 DEF LastOK, Sound, Responses, Lines, Report, Requests
<1>5. AnswerExplained'
  BY <1>1 DEF AnswerExplained, Sound, Valid, Failures, Parses, Version
<1>6. LogTruthful'
  BY <1>1 DEF LogTruthful, Sound, LogLine
<1> QED
  BY <1>4, <1>5, <1>6

\* A step without a response.
LEMMA Silent ==
  ASSUME last' = None
  PROVE  LastOK' /\ AnswerExplained' /\ LogTruthful'
BY DEF LastOK, AnswerExplained, LogTruthful

LEMMA InitInv == Init => Inv
<1> SUFFICES ASSUME Init PROVE Inv
  OBVIOUS
<1>1. CacheOK
  <2>1. DOMAIN cache = {}
    BY DEF Init
  <2> QED
    BY <2>1, FS_EmptySet, RouteAssumption DEF CacheOK, Init
<1>2. TasksOK
  BY RouteAssumption DEF TasksOK, Init
<1>3. corpus \in [Id -> 0..MaxEdition]
  BY RouteAssumption DEF Init
<1>4. LastOK /\ AnswerExplained /\ LogTruthful
  BY DEF Init, LastOK, AnswerExplained, LogTruthful
<1> QED
  BY <1>1, <1>2, <1>3, <1>4 DEF Inv

\* A registered message is answered as it is asked for.
LEMMA ErrorIsResponse ==
  ASSUME NEW status \in Messages, NEW format \in Formats, NEW a
  PROVE  /\ a = ErrorResponse(status, format, TRUE) =>
              a \in Responses /\ a.status = status /\ a.nav = TRUE
         /\ a = ErrorResponse(status, format, FALSE) =>
              a \in Responses /\ a.status = status /\ a.nav = FALSE
<1> DEFINE retry == format = "json" /\ Retryable(status)
<1>1. retry \in BOOLEAN
  OBVIOUS
<1> HIDE DEF retry
<1>2. ASSUME a = ErrorResponse(status, format, TRUE)
      PROVE  a \in Responses /\ a.status = status /\ a.nav = TRUE
  <2>1. a = [status |-> status, format |-> format, nav |-> TRUE, retryable |-> retry,
             report |-> None]
    BY <1>2 DEF ErrorResponse, retry
  <2> QED
    BY <1>1, <2>1 DEF Responses
<1>3. ASSUME a = ErrorResponse(status, format, FALSE)
      PROVE  a \in Responses /\ a.status = status /\ a.nav = FALSE
  <2>1. a = [status |-> status, format |-> format, nav |-> FALSE, retryable |-> retry,
             report |-> None]
    BY <1>3 DEF ErrorResponse, retry
  <2> QED
    BY <1>1, <2>1 DEF Responses
<1> QED
  BY <1>2, <1>3

LEMMA ErrorTyped ==
  \A status \in Messages, format \in Formats : ErrorResponse(status, format, TRUE) \in Responses
BY ErrorIsResponse

LEMMA ErrorStatus ==
  \A status \in Messages, format \in Formats : ErrorResponse(status, format, TRUE).status = status
BY ErrorIsResponse

LEMMA ErrorNavigation ==
  \A status \in Messages, format \in Formats : ErrorResponse(status, format, TRUE).nav = TRUE
BY ErrorIsResponse

LEMMA BareTyped ==
  \A status \in Messages, format \in Formats : ErrorResponse(status, format, FALSE) \in Responses
BY ErrorIsResponse

LEMMA BareStatus ==
  \A status \in Messages, format \in Formats : ErrorResponse(status, format, FALSE).status = status
BY ErrorIsResponse

LEMMA BareNavigation ==
  \A status \in Messages, format \in Formats : ErrorResponse(status, format, FALSE).nav = FALSE
BY ErrorIsResponse

LEMMA Statuses == {404, 422, 502, 503, 504} \subseteq Messages
BY DEF Messages

LEMMA ShownIsResponse ==
  ASSUME NEW r \in Requests, Valid(r), NEW report \in Report
  PROVE  LET a == Shows(report, r)
         IN  a \in Responses /\ a.status = 200 /\ a.report = report
<1> DEFINE nav == r.format = "html"
<1>1. nav \in BOOLEAN
  OBVIOUS
<1> HIDE DEF nav
<1>2. Shows(report, r) = [status |-> 200, format |-> r.format, nav |-> nav,
                          retryable |-> FALSE, report |-> report]
  BY DEF Shows, nav
<1> QED
  BY <1>1, <1>2 DEF Responses, Valid

LEMMA RejectInv ==
  ASSUME Inv, NEW r \in Requests, Reject(r)
  PROVE  Inv'
<1> DEFINE format == IF r.format \in Formats THEN r.format ELSE "html"
           status == 404
           a == ErrorResponse(status, format, FALSE)
<1>1. format \in Formats /\ status \in Messages
  BY Statuses DEF Formats
<1> HIDE DEF format, status
<1>2. a \in Responses
  BY <1>1, BareTyped, ZenonT(30)
<1>3. a.status = status
  BY <1>1, BareStatus, ZenonT(30)
<1>4. a.nav = FALSE
  BY <1>1, BareNavigation, ZenonT(30)
<1> HIDE DEF a
<1>5. Sound(r, None, a, None, None)
  BY <1>2, <1>4, <1>3, NoneAssumption DEF Sound, Reject, status, ErrorStatusOf
<1>6. Responds(r, None, a, None, None)
  BY DEF Reject, TokenRejectedBody, a, format, status
<1>7. LastOK' /\ AnswerExplained' /\ LogTruthful'
  BY <1>5, <1>6, SoundResponse
<1> QED
  BY <1>7 DEF Inv, Reject, CacheOK, TasksOK

LEMMA InvalidInv ==
  ASSUME Inv, NEW r \in Requests, Invalid(r)
  PROVE  Inv'
<1> DEFINE format == IF r.format \in Formats THEN r.format ELSE "html"
           status == 422
           a == ErrorResponse(status, format, TRUE)
<1>1. format \in Formats /\ status \in Messages
  BY Statuses DEF Formats
<1> HIDE DEF format, status
<1>2. a \in Responses
  BY <1>1, ErrorTyped, ZenonT(30)
<1>3. a.status = status
  BY <1>1, ErrorStatus, ZenonT(30)
<1> HIDE DEF a
<1>4. Sound(r, None, a, None, None)
  BY <1>2, <1>3, NoneAssumption DEF Sound, Invalid, Valid, status, ErrorStatusOf
<1>5. Responds(r, None, a, None, None)
  BY DEF Invalid, a, format, status
<1>6. LastOK' /\ AnswerExplained' /\ LogTruthful'
  BY <1>4, <1>5, SoundResponse
<1> QED
  BY <1>6 DEF Inv, Invalid, CacheOK, TasksOK

LEMMA HitInv ==
  ASSUME Inv, NEW r \in Requests, Hit(r)
  PROVE  Inv'
<1> DEFINE report == cache[r.id]
           a == Shows(report, r)
<1>1. report \in Report /\ report.id = r.id /\ Valid(r)
  BY DEF Inv, CacheOK, Hit, ReportKey
<1>2. a \in Responses /\ a.status = 200 /\ a.report = report
  BY <1>1, ShownIsResponse
<1>3. Responds(r, None, a, "hit", None)
  BY DEF Hit, ReportKey
<1> HIDE DEF report, a
<1>4. Sound(r, None, a, "hit", None)
  BY <1>1, <1>2, NoneAssumption DEF Sound, ErrorStatusOf
<1>5. LastOK' /\ AnswerExplained' /\ LogTruthful'
  BY <1>3, <1>4, SoundResponse
<1> QED
  BY <1>5 DEF Inv, Hit, CacheOK, TasksOK

LEMMA MissInv ==
  ASSUME Inv, NEW t \in Task, NEW r \in Requests, Miss(t, r)
  PROVE  Inv'
<1>1. TasksOK'
  BY DEF Inv, TasksOK, Miss, Valid
<1>2. LastOK' /\ AnswerExplained' /\ LogTruthful'
  BY Silent DEF Miss
<1> QED
  BY <1>1, <1>2 DEF Inv, Miss, CacheOK

LEMMA SprsLooksInv ==
  ASSUME Inv, NEW t \in Task, SprsLooks(t)
  PROVE  Inv'
<1>1. req[t] \in Requests /\ Valid(req[t])
  BY DEF Inv, TasksOK, SprsLooks
<1>2. corpus[req[t].id] \in 0..MaxEdition
  BY <1>1 DEF Inv, Valid, Requests
<1>3. TasksOK'
  BY <1>1, <1>2 DEF Inv, TasksOK, SprsLooks, Valid
<1>4. LastOK' /\ AnswerExplained' /\ LogTruthful'
  BY Silent DEF SprsLooks
<1> QED
  BY <1>3, <1>4 DEF Inv, SprsLooks, CacheOK

\* The handler is done, and its client closed.
LEMMA FinishesInv ==
  ASSUME Inv, NEW t \in Task, Finishes(t)
  PROVE  TasksOK'
BY RouteAssumption DEF Inv, TasksOK, Finishes, Valid

LEMMA FetchFailedInv ==
  ASSUME Inv, NEW t \in Task, FetchFailed(t)
  PROVE  Inv'
<1>1. req[t] \in Requests /\ Valid(req[t])
  BY DEF Inv, TasksOK, FetchFailed
<1>2. PICK e \in Failures :
        Responds(req[t], e, UpstreamFailed(e.status, req[t]), "miss", e.status)
  BY DEF FetchFailed
<1> DEFINE a == ErrorResponse(UpstreamStatus(e.status), req[t].format, TRUE)
<1>3. UpstreamStatus(e.status) \in {502, 503, 504}
  BY DEF UpstreamStatus
<1>4. a \in Responses /\ a.status \in {502, 503, 504}
  <2>1. UpstreamStatus(e.status) \in Messages /\ req[t].format \in Formats
    BY <1>1, <1>3, Statuses DEF Valid
  <2>2. a \in Responses
    BY <2>1, ErrorTyped, ZenonT(30)
  <2>3. a.status = UpstreamStatus(e.status)
    BY <2>1, ErrorStatus, ZenonT(30)
  <2> HIDE DEF a
  <2> QED
    BY <1>3, <2>2, <2>3
<1> HIDE DEF a
<1>5. Sound(req[t], e, a, "miss", e.status)
  <2>1. e # None /\ e.kind = "upstream"
    BY NoneAssumption DEF Failures, UpstreamErrors
  <2>2. e.status \in {None, 400, 404, 429, 502, 503, 504}
    BY DEF Failures, UpstreamErrors
  <2> QED
    BY <1>1, <1>4, <2>1, <2>2, NoneAssumption DEF Sound, ErrorStatusOf
<1>6. Responds(req[t], e, a, "miss", e.status)
  BY <1>2 DEF UpstreamFailed, a
<1>7. LastOK' /\ AnswerExplained' /\ LogTruthful'
  BY <1>5, <1>6, SoundResponse
<1> QED
  BY <1>7, FinishesInv DEF Inv, FetchFailed, CacheOK

LEMMA FetchFindsNoneInv ==
  ASSUME Inv, NEW t \in Task, FetchFindsNone(t)
  PROVE  Inv'
<1> DEFINE status == 404
           a == ErrorResponse(status, req[t].format, TRUE)
<1> HIDE DEF status
<1>1. req[t] \in Requests /\ Valid(req[t])
  BY DEF Inv, TasksOK, FetchFindsNone
<1>2. a \in Responses /\ a.status = status /\ a.nav = TRUE
  <2>1. status \in Messages /\ req[t].format \in Formats
    BY <1>1, Statuses DEF Valid, status
  <2>2. a \in Responses
    BY <2>1, ErrorTyped, ZenonT(30)
  <2>3. a.status = status
    BY <2>1, ErrorStatus, ZenonT(30)
  <2>4. a.nav = TRUE
    BY <2>1, ErrorNavigation, ZenonT(30)
  <2> QED
    BY <2>2, <2>3, <2>4
<1>3. Responds(req[t], NotFound, a, "miss", 404)
  BY DEF FetchFindsNone, status
<1> HIDE DEF a
<1>4. Sound(req[t], NotFound, a, "miss", 404)
  BY <1>1, <1>2, NoneAssumption DEF Sound, status, NotFound, ErrorStatusOf
<1>5. LastOK' /\ AnswerExplained' /\ LogTruthful'
  BY <1>3, <1>4, SoundResponse
<1> QED
  BY <1>5, FinishesInv DEF Inv, FetchFindsNone, CacheOK

LEMMA FetchRaisesInv ==
  ASSUME Inv, NEW t \in Task, FetchRaises(t)
  PROVE  Inv'
<1>1. req[t] \in Requests
  BY DEF Inv, TasksOK, FetchRaises
<1>2. Unhandled \in Responses /\ Unhandled.status = 500
  BY DEF Unhandled, Responses, Formats
<1>3. Sound(req[t], Undecodable, Unhandled, "miss", None)
  BY <1>1, <1>2, NoneAssumption DEF Sound, Undecodable, ErrorStatusOf
<1>4. LastOK' /\ AnswerExplained' /\ LogTruthful'
  BY <1>3, SoundResponse DEF FetchRaises
<1> QED
  BY <1>4, FinishesInv DEF Inv, FetchRaises, CacheOK

\* What SPRS found for a request is a report with the id that was asked for.
LEMMA FoundReport ==
  ASSUME Inv, NEW t \in Task, pc[t] = "looked", found[t] # 0
  PROVE  /\ req[t] \in Requests /\ Valid(req[t]) /\ req[t].id \in Id
         /\ [id |-> req[t].id, edition |-> found[t]] \in Report
<1>1. req[t] \in Requests /\ Valid(req[t])
  BY DEF Inv, TasksOK
<1>2. req[t].id \in Id
  BY <1>1 DEF Requests, Valid
<1>3. found[t] \in 1..MaxEdition
  BY RouteAssumption DEF Inv, TasksOK
<1> QED
  BY <1>1, <1>2, <1>3 DEF Report

LEMMA UnparseableInv ==
  ASSUME Inv, NEW t \in Task, Unparseable(t)
  PROVE  Inv'
<1> DEFINE report == [id |-> req[t].id, edition |-> found[t]]
           status == 502
           a == ErrorResponse(status, req[t].format, TRUE)
<1> HIDE DEF status
<1>1. req[t] \in Requests /\ Valid(req[t]) /\ report \in Report
  BY FoundReport DEF Unparseable
<1>2. PICK p \in Payloads(report) :
        ~Parses(p) /\ Responds(req[t], p, UpstreamFailed(502, req[t]), "miss", None)
  BY DEF Unparseable
<1>3. Responds(req[t], p, a, "miss", None)
  <2>1. UpstreamStatus(502) = status
    BY DEF UpstreamStatus, status
  <2> QED
    BY <1>2, <2>1 DEF UpstreamFailed
<1>4. a \in Responses /\ a.status = status
  <2>1. req[t].format \in Formats /\ status \in Messages
    BY <1>1, Statuses DEF Valid, status
  <2>2. a \in Responses
    BY <2>1, ErrorTyped, ZenonT(30)
  <2>3. a.status = status
    BY <2>1, ErrorStatus, ZenonT(30)
  <2> QED
    BY <2>2, <2>3
<1>5. p # None
  BY <1>1, <1>2, NoneAssumption
<1>6. p.kind = "payload"
  BY <1>2 DEF Payloads
<1> HIDE DEF a, report
<1>7. Sound(req[t], p, a, "miss", None)
  BY <1>1, <1>2, <1>4, <1>5, <1>6, NoneAssumption DEF Sound, status, ErrorStatusOf
<1>8. LastOK' /\ AnswerExplained' /\ LogTruthful'
  BY <1>3, <1>7, SoundResponse
<1> QED
  BY <1>8, FinishesInv DEF Inv, Unparseable, CacheOK

\* A full cache gives up one entry for a new one.
LEMMA PutInv ==
  ASSUME CacheOK, NEW id \in Id, NEW report \in Report, report.id = id, Put(id, report)
  PROVE  CacheOK'
<1> DEFINE others == DOMAIN cache \ {id}
<1>1. PICK kept \in IF Cardinality(others) < CacheMax THEN {others}
                    ELSE {others \ {old} : old \in others} :
        cache' = [k \in kept \cup {id} |-> IF k = id THEN report ELSE cache[k]]
  BY DEF Put
<1>2. /\ IsFiniteSet(others) /\ Cardinality(others) \in Nat
      /\ Cardinality(others) <= CacheMax
  <2>1. /\ IsFiniteSet(others) /\ Cardinality(others) <= Cardinality(DOMAIN cache)
        /\ Cardinality(DOMAIN cache) \in Nat /\ Cardinality(others) \in Nat
    BY FS_Subset, FS_CardinalityType DEF CacheOK
  <2> QED
    BY <2>1, RouteAssumption DEF CacheOK
<1>3. kept \subseteq others /\ id \notin kept
  BY <1>1
<1>4. IsFiniteSet(kept) /\ Cardinality(kept) \in Nat /\ Cardinality(kept) + 1 <= CacheMax
  <2>1. CASE Cardinality(others) < CacheMax
    <3>1. kept = others
      BY <1>1, <2>1
    <3> HIDE DEF others
    <3> QED
      BY <1>2, <2>1, <3>1, RouteAssumption
  <2>2. CASE ~(Cardinality(others) < CacheMax)
    <3>1. PICK old \in others : kept = others \ {old}
      BY <1>1, <2>2
    <3>2. IsFiniteSet(kept) /\ Cardinality(kept) = Cardinality(others) - 1
      BY <1>2, <3>1, FS_RemoveElement
    <3>3. Cardinality(kept) \in Nat
      BY <3>2, FS_CardinalityType
    <3> QED
      BY <1>2, <3>2, <3>3, RouteAssumption
  <2> QED
    BY <2>1, <2>2
<1>5. DOMAIN cache' = kept \cup {id}
  BY <1>1
<1>6. IsFiniteSet(kept \cup {id}) /\ Cardinality(kept \cup {id}) = Cardinality(kept) + 1
  BY <1>3, <1>4, FS_AddElement
<1>7. \A k \in DOMAIN cache' : k \in Id /\ cache'[k] \in Report /\ cache'[k].id = k
  BY <1>1, <1>3, <1>5 DEF CacheOK
<1> QED
  BY <1>1, <1>4, <1>5, <1>6, <1>7 DEF CacheOK

LEMMA FetchedInv ==
  ASSUME Inv, NEW t \in Task, Fetched(t)
  PROVE  Inv'
<1> DEFINE report == [id |-> req[t].id, edition |-> found[t]]
           a == Shows(report, req[t])
<1>1. /\ req[t] \in Requests /\ Valid(req[t]) /\ req[t].id \in Id
      /\ report \in Report /\ report.id = req[t].id
  BY FoundReport DEF Fetched
<1>2. PICK p \in Payloads(report) :
        /\ Put(ReportKey(req[t].id), p.report)
        /\ Responds(req[t], p, Shows(p.report, req[t]), "miss", None)
  BY DEF Fetched
<1>3. p.report = report /\ p.kind = "payload"
  BY <1>2 DEF Payloads
<1>4. p # None
  BY <1>1, <1>2, NoneAssumption
<1>5. a \in Responses /\ a.status = 200 /\ a.report = report
  BY <1>1, ShownIsResponse
<1>6. Responds(req[t], p, a, "miss", None)
  BY <1>2, <1>3
<1> HIDE DEF a, report
<1>7. Sound(req[t], p, a, "miss", None)
  BY <1>1, <1>3, <1>4, <1>5, NoneAssumption DEF Sound, ErrorStatusOf
<1>8. LastOK' /\ AnswerExplained' /\ LogTruthful'
  BY <1>6, <1>7, SoundResponse
<1>9. CacheOK'
  BY <1>1, <1>2, <1>3, PutInv DEF Inv, ReportKey
<1> QED
  BY <1>8, <1>9, FinishesInv DEF Inv, Fetched

LEMMA ExpireInv ==
  ASSUME Inv, NEW key \in DOMAIN cache, Expire(key)
  PROVE  Inv'
<1>1. CacheOK'
  <2>1. DOMAIN cache' = DOMAIN cache \ {key}
    BY DEF Expire
  <2>2. /\ IsFiniteSet(DOMAIN cache')
        /\ Cardinality(DOMAIN cache') <= Cardinality(DOMAIN cache)
        /\ Cardinality(DOMAIN cache') \in Nat /\ Cardinality(DOMAIN cache) \in Nat
    BY <2>1, FS_Subset, FS_CardinalityType DEF Inv, CacheOK
  <2>3. Cardinality(DOMAIN cache') <= CacheMax
    BY <2>2, RouteAssumption DEF Inv, CacheOK
  <2> QED
    BY <2>1, <2>2, <2>3 DEF Inv, CacheOK, Expire
<1>2. LastOK' /\ AnswerExplained' /\ LogTruthful'
  BY Silent DEF Expire
<1> QED
  BY <1>1, <1>2 DEF Inv, Expire, TasksOK

LEMMA PublishInv ==
  ASSUME Inv, NEW id \in Id, Publish(id)
  PROVE  Inv'
<1>1. corpus' \in [Id -> 0..MaxEdition]
  BY RouteAssumption DEF Inv, Publish
<1>2. LastOK' /\ AnswerExplained' /\ LogTruthful'
  BY Silent DEF Publish
<1> QED
  BY <1>1, <1>2 DEF Inv, Publish, CacheOK, TasksOK

LEMMA StepInv == Inv /\ [Next]_vars => Inv'
<1> SUFFICES ASSUME Inv, [Next]_vars PROVE Inv'
  OBVIOUS
<1>1. ASSUME NEW r \in Requests, Reject(r) \/ Invalid(r) \/ Hit(r) PROVE Inv'
  BY <1>1, RejectInv, InvalidInv, HitInv
<1>2. ASSUME NEW t \in Task, NEW r \in Requests, Miss(t, r) PROVE Inv'
  BY <1>2, MissInv
<1>3. ASSUME NEW t \in Task, SprsLooks(t) \/ FetchEnds(t) PROVE Inv'
  BY <1>3, SprsLooksInv, FetchFailedInv, FetchFindsNoneInv, FetchRaisesInv,
     UnparseableInv, FetchedInv DEF FetchEnds
<1>4. ASSUME NEW key \in DOMAIN cache, Expire(key) PROVE Inv'
  BY <1>4, ExpireInv
<1>5. ASSUME NEW id \in Id, Publish(id) PROVE Inv'
  BY <1>5, PublishInv
<1>6. ASSUME UNCHANGED vars PROVE Inv'
  BY <1>6 DEF vars, Inv, CacheOK, TasksOK, LastOK, AnswerExplained, LogTruthful
<1> QED
  BY <1>1, <1>2, <1>3, <1>4, <1>5, <1>6 DEF Next

LEMMA Invariance == Spec => []Inv
BY InitInv, StepInv, PTL DEF Spec

\* report_handler.py: the values keep their types, and the cache its bound.
THEOREM RouteTypes == Spec => []TypeOK
<1>1. Inv => TypeOK
  BY DEF Inv, CacheOK, TasksOK, LastOK, TypeOK
<1> QED
  BY <1>1, Invariance, PTL

\* Each status has its one cause: in particular a report that is shown is the one
\* that was asked for, whatever was published, expired or fetched meanwhile.
THEOREM AnswersExplained == Spec => []AnswerExplained
<1>1. Inv => AnswerExplained
  BY DEF Inv
<1> QED
  BY <1>1, Invariance, PTL

\* logging_setup.py: the line of a response tells its status, whether the cache gave
\* it, and the status of the UpstreamError that its own fetch ended in.
THEOREM LogsTruthful == Spec => []LogTruthful
<1>1. Inv => LogTruthful
  BY DEF Inv
<1> QED
  BY <1>1, Invariance, PTL

\* However a fetch ends, its client is closed.
THEOREM NoClientLeaks == Spec => []ClientsClosed
<1>1. Inv => ClientsClosed
  BY DEF Inv, TasksOK, ClientsClosed
<1> QED
  BY <1>1, Invariance, PTL
=============================================================================
