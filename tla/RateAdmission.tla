--------------------------- MODULE RateAdmission ---------------------------
(***************************************************************************)
(* RateGate.admit: the per-token sliding windows of the gateway            *)
(* (src/hansard_gateway/rate_limit.py).                                    *)
(*                                                                         *)
(* The coroutine reads the clock, takes an asyncio.Lock whose critical     *)
(* sections never await, prunes the two deques of the label, decides and   *)
(* records.  The lock is therefore never contended and one call of admit   *)
(* is one step.                                                            *)
(***************************************************************************)
EXTENDS Integers, Sequences, FiniteSetsExt

CONSTANTS Label,        \* the labels of the capability tokens
          PerMin,       \* Settings.per_token_rate_per_min
          PerDay,       \* Settings.per_token_rate_per_day
          MinuteSpan,   \* Settings.minute_window_s, in clock ticks
          DaySpan,      \* Settings.day_window_s, in clock ticks
          Horizon       \* bound of the model: the last clock tick

ASSUME LimitsAssumption ==
  /\ PerMin \in Nat \ {0} /\ PerDay \in Nat \ {0}
  /\ MinuteSpan \in Nat \ {0} /\ DaySpan \in Nat \ {0}
  /\ MinuteSpan <= DaySpan
  /\ Horizon \in Nat

VARIABLES now,          \* the monotonic clock
          minute,       \* label -> deque of admission times, oldest first
          day,          \* label -> deque of admission times, oldest first
          granted,      \* history: every admission of the label, in order
          verdict       \* label -> its last AdmissionResult and when it was given

vars == <<now, minute, day, granted, verdict>>

Reason == {"none", "ok", "per_min", "per_day"}

\* Mutant of Prune: a stale head empties the deque (a fixed window).
PruneAll(window, cutoff) ==
  IF window # <<>> /\ Head(window) <= cutoff THEN <<>> ELSE window

\* `_prune`: the head of the deque is dropped while it is not newer than the
\* cutoff.
Prune(window, cutoff) ==
  LET fresh == {i \in DOMAIN window : window[i] > cutoff}
  IN  IF fresh = {} THEN <<>> ELSE SubSeq(window, Min(fresh), Len(window))

Init ==
  /\ now = 0
  /\ minute = [l \in Label |-> <<>>]
  /\ day = [l \in Label |-> <<>>]
  /\ granted = [l \in Label |-> <<>>]
  /\ verdict = [l \in Label |-> [reason |-> "none", at |-> 0]]

\* Mutant of Tick: a wall clock, which may be set back.
TickBack ==
  /\ now' = now - 1
  /\ UNCHANGED <<minute, day, granted, verdict>>

Tick ==
  /\ now < Horizon
  /\ now' = now + 1
  /\ UNCHANGED <<minute, day, granted, verdict>>

\* The two deques of the label once pruned, which the code stores whatever it
\* decides.
FreshMinute(l) == Prune(minute[l], now - MinuteSpan)
FreshDay(l)    == Prune(day[l], now - DaySpan)

Answer(l, reason) ==
  verdict' = [verdict EXCEPT ![l] = [reason |-> reason, at |-> now]]

Grant(l) ==
  /\ Len(FreshMinute(l)) < PerMin
  /\ Len(FreshDay(l)) < PerDay
  /\ minute' = [minute EXCEPT ![l] = Append(FreshMinute(l), now)]
  /\ day' = [day EXCEPT ![l] = Append(FreshDay(l), now)]
  /\ granted' = [granted EXCEPT ![l] = Append(@, now)]
  /\ Answer(l, "ok")
  /\ UNCHANGED now

\* Mutant of KeepPruned: a refused request is recorded as well.
KeepRecorded(l) ==
  /\ minute' = [minute EXCEPT ![l] = Append(FreshMinute(l), now)]
  /\ day' = [day EXCEPT ![l] = FreshDay(l)]
  /\ UNCHANGED <<now, granted>>

KeepPruned(l) ==
  /\ minute' = [minute EXCEPT ![l] = FreshMinute(l)]
  /\ day' = [day EXCEPT ![l] = FreshDay(l)]
  /\ UNCHANGED <<now, granted>>

DenyPerMin(l) ==
  /\ Len(FreshMinute(l)) >= PerMin
  /\ KeepPruned(l)
  /\ Answer(l, "per_min")

DenyPerDay(l) ==
  /\ Len(FreshMinute(l)) < PerMin
  /\ Len(FreshDay(l)) >= PerDay
  /\ KeepPruned(l)
  /\ Answer(l, "per_day")

Next == Tick \/ \E l \in Label : Grant(l) \/ DenyPerMin(l) \/ DenyPerDay(l)

Spec == Init /\ [][Next]_vars
-----------------------------------------------------------------------------
\* The deques and the history hold clock readings, and a verdict is one of the
\* results rate_limit.py defines.
TypeOK ==
  /\ now \in Nat
  /\ minute \in [Label -> Seq(Nat)]
  /\ day \in [Label -> Seq(Nat)]
  /\ granted \in [Label -> Seq(Nat)]
  /\ verdict \in [Label -> [reason : Reason, at : Nat]]

Spaced(times, limit, span) ==
  \A i \in DOMAIN times :
    i + limit \in DOMAIN times => times[i + limit] - times[i] >= span

\* The rate a token really gets: any PerMin + 1 consecutive admissions of one
\* label, wherever they fall against the deque and its pruning, take at least a
\* minute (the sliding window of addendum section 16, not a fixed one).
MinuteRate == \A l \in Label : Spaced(granted[l], PerMin, MinuteSpan)

\* The same for the daily quota, which the minute window must not hide.
DayRate == \A l \in Label : Spaced(granted[l], PerDay, DaySpan)

\* What pruning may forget: a deque is the tail of the label's admissions, and
\* every admission it no longer holds has left the span for good.
TailOf(window, times, cutoff) ==
  \E k \in 0..Len(times) :
    /\ Len(window) = Len(times) - k
    /\ \A i \in DOMAIN window : window[i] = times[k + i]
    /\ \A i \in 1..k : times[i] <= cutoff

\* Both deques are such tails: the windows never lose an admission that still
\* counts, and never count one twice.
DequesHoldHistory ==
  \A l \in Label :
    /\ TailOf(minute[l], granted[l], now - MinuteSpan)
    /\ TailOf(day[l], granted[l], now - DaySpan)

GrantsIn(l, from, to) ==
  {i \in DOMAIN granted[l] : from < granted[l][i] /\ granted[l][i] <= to}

\* A 429 is deserved: when admit refused a label, that many requests of that
\* label really had been admitted in the span.  A refused request therefore
\* costs nothing, and no other label's traffic can cause a refusal.
RefusalDeserved ==
  \A l \in Label :
    LET v == verdict[l]
    IN  /\ v.reason = "per_min" =>
             Cardinality(GrantsIn(l, v.at - MinuteSpan, v.at)) >= PerMin
        /\ v.reason = "per_day" =>
             Cardinality(GrantsIn(l, v.at - DaySpan, v.at)) >= PerDay
=============================================================================
