----------------------------- MODULE SprsClient -----------------------------
(***************************************************************************)
(* SprsClient: one upstream call with its retry loop, as concurrent        *)
(* requests run it over the shared slots of RateGate                       *)
(* (src/hansard_gateway/sprs/client.py).                                   *)
(*                                                                         *)
(* A call runs without interruption between two awaits that suspend: the   *)
(* POST and the backoff sleep.  Taking the slot, judging the answer and    *)
(* giving the slot back do not suspend.                                    *)
(***************************************************************************)
EXTENDS UpstreamSlots

CONSTANTS OpOf,       \* call -> "search" (search_result) or "topic" (fetch_topic)
          Attempts,   \* Settings.retry_attempts
          SiteFailure \* the failure statuses, other than 500, the site may send

ASSUME ClientAssumption ==
  /\ OpOf \in [Call -> {"search", "topic"}]
  /\ Attempts \in Nat \ {0}
  /\ SiteFailure \subseteq {400, 404, 502, 503, 504}

VARIABLES pc,         \* call -> where it is suspended
          attempt,    \* call -> the loop variable of _post
          last,       \* call -> the last answer _post_once had
          outcome,    \* call -> what the caller of the client gets
          posts       \* history: requests the call really sent

vars == <<inFlight, permits, phase, pc, attempt, last, outcome, posts>>

Retryable == {400, 502, 503, 504}     \* _RETRYABLE_STATUSES

\* What an attempt can come back with.  The body is JSON that carries what the
\* endpoint promises ("hits"), JSON that carries none of it ("other"), JSON that
\* is neither object nor array ("scalar"), or not JSON: text with the marker "No
\* Results Found" or without.  Status 0 stands for no status at all: a transport
\* failure; a refusal of the gate has the status of the AdmissionResult.
Answer ==
  {[from |-> "site", status |-> 200, body |-> b] :
       b \in {"hits", "other", "scalar", "text"}}
    \cup {[from |-> "site", status |-> 500, body |-> b] : b \in {"marker", "text"}}
    \cup {[from |-> "site", status |-> s, body |-> b] :
       s \in SiteFailure, b \in {"other", "text"}}
    \cup {[from |-> "transport", status |-> 0, body |-> "none"]}

Refusal(status) == [from |-> "gate", status |-> status, body |-> "none"]
NoAnswer == [from |-> "none", status |-> 0, body |-> "none"]

Outcome == [kind : {"none", "hits", "empty", "crash", "cancelled"}, status : {0}]
             \cup [kind : {"error"}, status : {0, 404, 429} \cup Retryable]

Result(kind) == [kind |-> kind, status |-> 0]
UpstreamError(status) == [kind |-> "error", status |-> status]

Init ==
  /\ GateInit
  /\ pc = [c \in Call |-> "idle"]
  /\ attempt = [c \in Call |-> 0]
  /\ last = [c \in Call |-> NoAnswer]
  /\ outcome = [c \in Call |-> Result("none")]
  /\ posts = [c \in Call |-> 0]

Start(c) ==
  /\ pc[c] = "idle"
  /\ pc' = [pc EXCEPT ![c] = "attempt"]
  /\ UNCHANGED <<gateVars, attempt, last, outcome, posts>>

End(c, result) ==
  /\ pc' = [pc EXCEPT ![c] = "done"]
  /\ outcome' = [outcome EXCEPT ![c] = result]
  /\ UNCHANGED attempt

\* Mutant of RetryOrRaise: the loop gives up one attempt early.
RetryOrRaiseEarly(c, status) ==
  \/ /\ attempt[c] < Attempts - 2
     /\ pc' = [pc EXCEPT ![c] = "backoff"]
     /\ UNCHANGED <<attempt, outcome>>
  \/ /\ attempt[c] >= Attempts - 2
     /\ End(c, UpstreamError(status))

\* A failed attempt sleeps before the next one; the last one raises.
RetryOrRaise(c, status) ==
  \/ /\ attempt[c] < Attempts - 1
     /\ pc' = [pc EXCEPT ![c] = "backoff"]
     /\ UNCHANGED <<attempt, outcome>>
  \/ /\ attempt[c] = Attempts - 1
     /\ End(c, UpstreamError(status))

\* The slot is granted and the POST goes out.
Post(c) ==
  /\ pc[c] = "attempt"
  /\ Grant(c)
  /\ pc' = [pc EXCEPT ![c] = "posting"]
  /\ posts' = [posts EXCEPT ![c] = @ + 1]
  /\ UNCHANGED <<attempt, last, outcome>>

\* Mutant of Refused: the refusal is raised inside the try, whose finally closes
\* the slot.
RefusedInTry(c) ==
  /\ pc[c] = "attempt"
  /\ inFlight[LabelOf[c]] >= PerToken \/ permits = 0
  /\ LET status == IF inFlight[LabelOf[c]] >= PerToken THEN 429 ELSE 503
     IN  last' = [last EXCEPT ![c] = Refusal(status)] /\ RetryOrRaise(c, status)
  /\ inFlight' = [inFlight EXCEPT ![LabelOf[c]] = @ - 1]
  /\ UNCHANGED <<permits, phase, posts>>

\* Mutant of Refused: a refused call queues for its slot.
RefusedQueues(c) ==
  /\ pc[c] = "attempt"
  /\ inFlight[LabelOf[c]] >= PerToken \/ permits = 0
  /\ UNCHANGED vars

\* The slot is refused: _post_once raises before it sends anything and lets the
\* slot object go, and the loop treats that like any other failed attempt.
Refused(c) ==
  /\ pc[c] = "attempt"
  /\ AtTokenCap(c) \/ permits = 0
  /\ LET status == IF AtTokenCap(c) THEN 429 ELSE 503
     IN  last' = [last EXCEPT ![c] = Refusal(status)] /\ RetryOrRaise(c, status)
  /\ UNCHANGED <<gateVars, posts>>

\* What the endpoint method makes of data that _post returned.
Reading(c, r) ==
  CASE r.status = 500 /\ r.body = "marker" ->
         IF OpOf[c] = "search" THEN Result("empty") ELSE UpstreamError(404)
    [] r.body = "hits" -> Result("hits")
    [] r.body = "other" /\ OpOf[c] = "search" -> Result("empty")
    [] OTHER -> UpstreamError(0)

\* Mutant of Answered: the slot is kept through the backoff sleep.
AnsweredKeepsSlot(c, r) ==
  /\ pc[c] = "posting"
  /\ last' = [last EXCEPT ![c] = r]
  /\ \/ /\ r.from = "transport" \/ (r.status \in Retryable /\ r.body = "other")
        /\ RetryOrRaise(c, r.status)
        /\ UNCHANGED gateVars
     \/ /\ r.from = "site" /\ ~(r.status \in Retryable /\ r.body = "other")
        /\ Exit(c)
        /\ End(c, Reading(c, r))
  /\ UNCHANGED posts

\* The POST comes back, the slot is closed by the finally, and the answer is
\* judged: a 500 is returned as text; any other body is decoded before its
\* status is looked at, so one that is not JSON raises a ValueError, which is no
\* UpstreamError and leaves the loop.
Answered(c, r) ==
  /\ pc[c] = "posting"
  /\ Exit(c)
  /\ last' = [last EXCEPT ![c] = r]
  /\ CASE r.from = "transport" -> RetryOrRaise(c, 0)
       [] r.status = 500 -> End(c, Reading(c, r))
       [] r.status # 500 /\ r.body = "text" -> End(c, Result("crash"))
       [] r.status \in Retryable /\ r.body # "text" -> RetryOrRaise(c, r.status)
       [] OTHER -> End(c, Reading(c, r))
  /\ UNCHANGED posts

Wake(c) ==
  /\ pc[c] = "backoff"
  /\ pc' = [pc EXCEPT ![c] = "attempt"]
  /\ attempt' = [attempt EXCEPT ![c] = @ + 1]
  /\ UNCHANGED <<gateVars, last, outcome, posts>>

\* The request task is cancelled at a suspension point; the finally still closes
\* a slot that is held.
Cancel(c) ==
  /\ pc[c] \in {"posting", "backoff"}
  /\ IF pc[c] = "posting" THEN Exit(c) ELSE UNCHANGED gateVars
  /\ End(c, Result("cancelled"))
  /\ UNCHANGED <<last, posts>>

\* The same slot of the model serves the next request.
Again(c) ==
  /\ pc[c] = "done"
  /\ pc' = [pc EXCEPT ![c] = "idle"]
  /\ attempt' = [attempt EXCEPT ![c] = 0]
  /\ last' = [last EXCEPT ![c] = NoAnswer]
  /\ outcome' = [outcome EXCEPT ![c] = Result("none")]
  /\ posts' = [posts EXCEPT ![c] = 0]
  /\ UNCHANGED gateVars

Progress(c) == Post(c) \/ Refused(c) \/ (\E r \in Answer : Answered(c, r)) \/ Wake(c)

Next == \E c \in Call : Start(c) \/ Progress(c) \/ Cancel(c) \/ Again(c)

\* The event loop runs every task that can run, a POST ends within its timeouts
\* and a sleep ends; nothing makes a client send a request or a task be cancelled.
Spec == Init /\ [][Next]_vars /\ \A c \in Call : WF_vars(Progress(c))
-----------------------------------------------------------------------------
\* Every call is at one of its control points with a possible answer.
TypeOK ==
  /\ GateTypeOK
  /\ pc \in [Call -> {"idle", "attempt", "posting", "backoff", "done"}]
  /\ attempt \in [Call -> 0..(Attempts - 1)]
  /\ last \in [Call -> Answer \cup {Refusal(429), Refusal(503), NoAnswer}]
  /\ outcome \in [Call -> Outcome]
  /\ posts \in [Call -> 0..Attempts]

\* The client uses the gate as the gate is meant to be used: every slot granted
\* is closed exactly once and a refused one never, on every path of the retry
\* loop, so what SprsClient_proofs shows of the counters holds of real calls.
GateDiscipline == GateInit /\ [][GateNext]_gateVars

\* Upstream capacity is held exactly while a request is on the wire: never
\* through a backoff sleep, and never by a call that has ended, failed or been
\* cancelled.
SlotOnlyOnTheWire == \A c \in Call : phase[c] = "held" <=> pc[c] = "posting"

Transient(r) == r.from \in {"gate", "transport"} \/ r.status \in Retryable

\* Out of the calls that end otherwise than by cancellation, one whose last attempt
\* failed transiently has used the whole budget, whatever its caller gets: an
\* UpstreamError, another exception or data.  The one exception is an answer whose
\* body is not JSON, whose ValueError leaves the loop at once (client.py:265); what
\* the docstring claims without the exception is TransientStatusesRetried below.
\* And no call ever sends more than Attempts requests.
BudgetSpentBeforeError ==
  \A c \in Call :
    /\ posts[c] <= attempt[c] + 1
    /\ outcome[c].kind \notin {"none", "cancelled"} /\ Transient(last[c])
         /\ last[c].body # "text" => attempt[c] = Attempts - 1

\* Every call that is not cancelled comes to an answer, whatever the upstream and
\* the other calls do: refusals use up attempts, so nobody waits for a slot.
EveryCallEnds == \A c \in Call : pc[c] = "attempt" ~> pc[c] = "done"

\* The claim of the module docstring that the client retries transient
\* 400/502/503/504 (client.py:7): no such answer ends a call with attempts left.
\* It is not true of the code: an error page that is not JSON ends the call.
TransientStatusesRetried ==
  \A c \in Call :
    outcome[c].kind \notin {"none", "cancelled"} /\ last[c].status \in Retryable =>
      attempt[c] = Attempts - 1
=============================================================================
