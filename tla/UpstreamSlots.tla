---------------------------- MODULE UpstreamSlots ----------------------------
(***************************************************************************)
(* The upstream half of RateGate: _UpstreamSlot, which bounds the fan-out  *)
(* to the parliament site per token and for the whole process              *)
(* (src/hansard_gateway/rate_limit.py).                                    *)
(*                                                                         *)
(* __aenter__ and __aexit__ await only an uncontended lock and a semaphore *)
(* found unlocked just before, so neither suspends: each is one step.  A   *)
(* slot object is made for one attempt; here a caller stands for the one   *)
(* that it has, and has the next one when that is closed or dropped.       *)
(***************************************************************************)
EXTENDS Integers, FiniteSets

CONSTANTS Call,       \* the callers, with a slot object each
          Label,      \* the labels of the capability tokens
          LabelOf,    \* call -> the label of the token that made it
          PerToken,   \* Settings.per_token_concurrent_upstream
          Global      \* Settings.global_upstream_concurrency

ASSUME SlotAssumption ==
  /\ IsFiniteSet(Call)
  /\ LabelOf \in [Call -> Label]
  /\ PerToken \in Nat \ {0}
  /\ Global \in Nat \ {0}

VARIABLES inFlight,   \* RateGate._in_flight
          permits,    \* the value of RateGate._global_sem
          phase       \* call -> its slot is "new", "held", or why it was refused

gateVars == <<inFlight, permits, phase>>

Phase == {"new", "held", "in_flight", "global"}

GateInit ==
  /\ inFlight = [l \in Label |-> 0]
  /\ permits = Global
  /\ phase = [s \in Call |-> "new"]

\* Mutant of AtTokenCap: the cap compared with > instead of >=.
AtTokenCapLate(s) == inFlight[LabelOf[s]] > PerToken

AtTokenCap(s) == inFlight[LabelOf[s]] >= PerToken

RefuseInFlight(s) ==
  /\ phase[s] = "new"
  /\ AtTokenCap(s)
  /\ phase' = [phase EXCEPT ![s] = "in_flight"]
  /\ UNCHANGED <<inFlight, permits>>

\* Mutant of RefuseGlobal: the label's count is not given back.
RefuseGlobalLeaks(s) ==
  /\ phase[s] = "new"
  /\ ~AtTokenCap(s)
  /\ permits = 0
  /\ phase' = [phase EXCEPT ![s] = "global"]
  /\ inFlight' = [inFlight EXCEPT ![LabelOf[s]] = @ + 1]
  /\ UNCHANGED permits

\* The label's count is raised and, as no permit is left, lowered again before
\* the coroutine can be suspended.
RefuseGlobal(s) ==
  /\ phase[s] = "new"
  /\ ~AtTokenCap(s)
  /\ permits = 0
  /\ phase' = [phase EXCEPT ![s] = "global"]
  /\ UNCHANGED <<inFlight, permits>>

Grant(s) ==
  /\ phase[s] = "new"
  /\ ~AtTokenCap(s)
  /\ permits > 0
  /\ phase' = [phase EXCEPT ![s] = "held"]
  /\ inFlight' = [inFlight EXCEPT ![LabelOf[s]] = @ + 1]
  /\ permits' = permits - 1

Exit(s) ==
  /\ phase[s] = "held"
  /\ phase' = [phase EXCEPT ![s] = "new"]
  /\ inFlight' = [inFlight EXCEPT ![LabelOf[s]] = @ - 1]
  /\ permits' = permits + 1

\* Mutant of Drop: a refused slot is closed like a held one.
DropReleases(s) ==
  /\ phase[s] \in {"in_flight", "global"}
  /\ phase' = [phase EXCEPT ![s] = "new"]
  /\ permits' = permits + 1
  /\ UNCHANGED inFlight

\* The caller lets go of a slot it was refused (it never calls __aexit__).
Drop(s) ==
  /\ phase[s] \in {"in_flight", "global"}
  /\ phase' = [phase EXCEPT ![s] = "new"]
  /\ UNCHANGED <<inFlight, permits>>

Enter(s) == RefuseInFlight(s) \/ RefuseGlobal(s) \/ Grant(s)

GateNext == \E s \in Call : Enter(s) \/ Exit(s) \/ Drop(s)

GateSpec == GateInit /\ [][GateNext]_gateVars
-----------------------------------------------------------------------------
\* The counters stay in their range and every slot is in one phase.
GateTypeOK ==
  /\ inFlight \in [Label -> 0..PerToken]
  /\ permits \in 0..Global
  /\ phase \in [Call -> Phase]

Held == {s \in Call : phase[s] = "held"}

HeldBy(l) == {s \in Held : LabelOf[s] = l}

\* No permit is lost or minted: the semaphore's value and the slots held always
\* make up the global limit, whatever mix of grants, refusals and exits ran.
PermitsConserved == permits + Cardinality(Held) = Global

\* A token's in-flight count is the number of slots it really holds: a global
\* refusal gives its increment back and an exit gives exactly one back.
InFlightExact == \A l \in Label : inFlight[l] = Cardinality(HeldBy(l))

\* The limits of addendum section 17 on what is really outstanding.
FanOutBounded ==
  /\ Cardinality(Held) <= Global
  /\ \A l \in Label : Cardinality(HeldBy(l)) <= PerToken
=============================================================================
