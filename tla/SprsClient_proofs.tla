-------------------------- MODULE SprsClient_proofs -------------------------
(***************************************************************************)
(* For any number of concurrent calls, any limits and any retry budget:    *)
(* an upstream slot is held exactly while its request is on the wire, and  *)
(* a transient failure ends a call only with the budget spent, unless its  *)
(* body is not JSON.                                                       *)
(***************************************************************************)
EXTENDS SprsClient, FiniteSetTheorems, TLAPS

Function(f) == f = [c \in Call |-> f[c]]

Shape ==
  /\ Function(phase) /\ Function(pc) /\ Function(last) /\ Function(outcome)
  /\ attempt \in [Call -> 0..(Attempts - 1)]
  /\ posts \in [Call -> Nat]

\* What is kept of one call.  The two properties do not follow from themselves: an
\* attempt sends one request, so a call that starts one must not be ahead; the
\* sleep is entered with attempts left, so the next one stays in the budget; and a
\* call has an outcome only when it is over.
CallOK(c) ==
  /\ phase[c] = "held" <=> pc[c] = "posting"
  /\ posts[c] <= attempt[c] + 1
  /\ pc[c] \in {"idle", "attempt"} => posts[c] <= attempt[c]
  /\ pc[c] = "backoff" => attempt[c] < Attempts - 1
  /\ pc[c] # "done" => outcome[c].kind = "none"
  /\ outcome[c].kind \notin {"none", "cancelled"} /\ Transient(last[c])
       /\ last[c].body # "text" => attempt[c] = Attempts - 1

IInv == Shape /\ \A c \in Call : CallOK(c)

\* A step of one call leaves the others as they are.
LEMMA OneCall ==
  ASSUME IInv, NEW c \in Call, Shape', CallOK(c)',
         \A d \in Call \ {c} :
           /\ phase'[d] = phase[d] /\ pc'[d] = pc[d] /\ attempt'[d] = attempt[d]
           /\ last'[d] = last[d] /\ outcome'[d] = outcome[d] /\ posts'[d] = posts[d]
  PROVE  IInv'
<1> SUFFICES ASSUME NEW d \in Call, d # c PROVE CallOK(d)'
  BY DEF IInv
<1> QED
  BY DEF IInv, CallOK, Transient

LEMMA InitIInv == Init => IInv
<1> SUFFICES ASSUME Init PROVE IInv
  OBVIOUS
<1>1. Shape
  BY ClientAssumption DEF Init, Shape, Function, GateInit
<1>2. ASSUME NEW c \in Call PROVE CallOK(c)
  BY ClientAssumption DEF Init, CallOK, GateInit, Result
<1> QED
  BY <1>1, <1>2 DEF IInv

LEMMA StartIInv ==
  ASSUME IInv, NEW c \in Call, Start(c)
  PROVE  IInv'
<1>1. Shape'
  BY DEF IInv, Shape, Function, Start, gateVars
<1>2. CallOK(c)'
  BY DEF IInv, Shape, Function, CallOK, Start, gateVars, Transient
<1> QED
  BY <1>1, <1>2, OneCall DEF IInv, Shape, Function, Start, gateVars

LEMMA PostIInv ==
  ASSUME IInv, NEW c \in Call, Post(c)
  PROVE  IInv'
<1>1. Shape'
  <2>1. attempt' \in [Call -> 0..(Attempts - 1)] /\ posts' \in [Call -> Nat]
    BY DEF IInv, Shape, Post
  <2> QED
    BY <2>1 DEF IInv, Shape, Function, Post, Grant
<1>2. CallOK(c)'
  BY DEF IInv, Shape, Function, CallOK, Post, Grant, Transient
<1> QED
  BY <1>1, <1>2, OneCall DEF IInv, Shape, Function, Post, Grant

\* A failed attempt that has given its slot back: the call sleeps with attempts
\* left, or the budget is spent.
LEMMA RetryIInv ==
  ASSUME IInv, NEW c \in Call, NEW status, NEW r,
         RetryOrRaise(c, status), last' = [last EXCEPT ![c] = r], posts' = posts,
         Function(phase'), phase'[c] # "held",
         \A d \in Call \ {c} : phase'[d] = phase[d],
         pc[c] \in {"attempt", "posting"}
  PROVE  IInv'
<1> USE DEF IInv, Shape, Function, RetryOrRaise, End
<1>1. Shape'
  OBVIOUS
<1>2. CallOK(c)'
  <2>1. CASE attempt[c] < Attempts - 1
    BY <2>1, ClientAssumption DEF CallOK, Transient
  <2>2. CASE attempt[c] = Attempts - 1
    BY <2>2, ClientAssumption DEF CallOK, Transient, UpstreamError
  <2> QED
    BY <2>1, <2>2
<1> QED
  BY <1>1, <1>2, OneCall

LEMMA RefusedIInv ==
  ASSUME IInv, NEW c \in Call, Refused(c)
  PROVE  IInv'
<1>1. PICK status, r : last' = [last EXCEPT ![c] = r] /\ RetryOrRaise(c, status)
  BY ZenonT(40) DEF Refused
<1>2. /\ phase' = phase /\ posts' = posts
      /\ pc[c] = "attempt" /\ phase[c] # "held"
  BY DEF Refused, gateVars, IInv, CallOK
<1>3. Function(phase') /\ \A d \in Call \ {c} : phase'[d] = phase[d]
  BY <1>2 DEF IInv, Shape, Function
<1> QED
  BY <1>1, <1>2, <1>3, RetryIInv

\* A call that gives its slot back and is over: cancelled, or after an answer that
\* is no transient failure or that does not decode.
LEMMA EndIInv ==
  ASSUME IInv, NEW c \in Call, NEW result,
         End(c, result), Function(last'), posts' = posts,
         \A d \in Call \ {c} : last'[d] = last[d],
         \/ result.kind = "cancelled"
         \/ ~ Transient(last'[c]) \/ last'[c].body = "text",
         Function(phase'), phase'[c] # "held",
         \A d \in Call \ {c} : phase'[d] = phase[d]
  PROVE  IInv'
<1>1. Shape'
  BY DEF IInv, Shape, Function, End
<1>2. CallOK(c)'
  BY DEF IInv, Shape, Function, CallOK, End, Transient
<1> QED
  BY <1>1, <1>2, OneCall DEF IInv, Shape, Function, End

LEMMA ExitFacts ==
  ASSUME IInv, NEW c \in Call, Exit(c)
  PROVE  /\ Function(phase') /\ phase'[c] # "held"
         /\ \A d \in Call \ {c} : phase'[d] = phase[d]
  BY DEF IInv, Shape, Function, Exit

LEMMA AnsweredIInv ==
  ASSUME IInv, NEW c \in Call, NEW r \in Answer, Answered(c, r)
  PROVE  IInv'
<1>1. /\ pc[c] = "posting" /\ Exit(c) /\ posts' = posts
      /\ last' = [last EXCEPT ![c] = r]
  BY DEF Answered
<1>2. /\ Function(last') /\ last'[c] = r
      /\ \A d \in Call \ {c} : last'[d] = last[d]
  BY <1>1 DEF IInv, Shape, Function
<1>3. \/ r.from = "site"
      \/ r.from = "transport" /\ r.status = 0 /\ r.body = "none"
  BY DEF Answer
<1>4. CASE \E status : RetryOrRaise(c, status)
  BY <1>1, <1>4, ExitFacts, RetryIInv
<1>5. CASE End(c, Reading(c, r)) /\ r.from = "site" /\ r.status \notin Retryable
  <2>1. ~ Transient(r)
    BY <1>5 DEF Transient
  <2> QED
    BY <1>1, <1>2, <1>5, <2>1, ExitFacts, EndIInv
<1>6. CASE End(c, Result("crash")) /\ r.body = "text"
  BY <1>1, <1>2, <1>6, ExitFacts, EndIInv DEF Result
<1>7. r.status = 500 => r.status \notin Retryable
  BY DEF Retryable
<1>8. \/ \E status : RetryOrRaise(c, status)
      \/ End(c, Reading(c, r)) /\ r.from = "site" /\ r.status \notin Retryable
      \/ End(c, Result("crash")) /\ r.body = "text"
  <2>1. CASE r.from = "transport"
    BY <2>1, <1>3 DEF Answered, Retryable
  <2>2. CASE r.from = "site" /\ r.status = 500
    BY <2>2, <1>7 DEF Answered
  <2>3. CASE r.from = "site" /\ r.status # 500 /\ r.body = "text"
    BY <2>3 DEF Answered
  <2>4. CASE r.from = "site" /\ r.status \in Retryable /\ r.body # "text"
    BY <2>4, <1>7 DEF Answered
  <2>5. CASE r.from = "site" /\ r.status # 500 /\ r.body # "text"
             /\ r.status \notin Retryable
    BY <2>5 DEF Answered
  <2> QED
    BY <1>3, <2>1, <2>2, <2>3, <2>4, <2>5
<1> QED
  BY <1>4, <1>5, <1>6, <1>8

LEMMA WakeIInv ==
  ASSUME IInv, NEW c \in Call, Wake(c)
  PROVE  IInv'
<1>1. Shape'
  BY ClientAssumption DEF IInv, Shape, Function, CallOK, Wake, gateVars
<1>2. CallOK(c)'
  BY ClientAssumption DEF IInv, Shape, Function, CallOK, Wake, gateVars, Transient
<1> QED
  BY <1>1, <1>2, OneCall DEF IInv, Shape, Function, Wake, gateVars

LEMMA CancelIInv ==
  ASSUME IInv, NEW c \in Call, Cancel(c)
  PROVE  IInv'
<1>1. End(c, Result("cancelled")) /\ last' = last /\ posts' = posts
  BY DEF Cancel
<1>2. /\ Function(phase') /\ phase'[c] # "held"
      /\ \A d \in Call \ {c} : phase'[d] = phase[d]
  <2>1. CASE pc[c] = "posting"
    BY <2>1, ExitFacts DEF Cancel
  <2>2. CASE pc[c] # "posting"
    BY <2>2 DEF Cancel, gateVars, IInv, Shape, CallOK
  <2> QED
    BY <2>1, <2>2
<1> QED
  BY <1>1, <1>2, EndIInv DEF Result, IInv, Shape

LEMMA AgainIInv ==
  ASSUME IInv, NEW c \in Call, Again(c)
  PROVE  IInv'
<1>1. Shape'
  <2>1. 0 \in 0..(Attempts - 1)
    BY ClientAssumption
  <2>2. attempt' \in [Call -> 0..(Attempts - 1)] /\ posts' \in [Call -> Nat]
    BY <2>1 DEF IInv, Shape, Again
  <2> QED
    BY <2>2 DEF IInv, Shape, Function, Again, gateVars
<1>2. CallOK(c)'
  BY ClientAssumption DEF IInv, Shape, Function, CallOK, Again, gateVars, Result
<1> QED
  BY <1>1, <1>2, OneCall DEF IInv, Shape, Function, Again, gateVars

LEMMA NextIInv == IInv /\ [Next]_vars => IInv'
<1> SUFFICES ASSUME IInv, [Next]_vars PROVE IInv'
  OBVIOUS
<1>1. ASSUME NEW c \in Call, Start(c) \/ Progress(c) \/ Cancel(c) \/ Again(c)
      PROVE  IInv'
  BY <1>1, StartIInv, PostIInv, RefusedIInv, AnsweredIInv, WakeIInv, CancelIInv, AgainIInv
     DEF Progress
<1>2. CASE UNCHANGED vars
  BY <1>2 DEF vars, IInv, Shape, Function, CallOK, Transient
<1> QED
  BY <1>1, <1>2 DEF Next

LEMMA Inductive == Spec => []IInv
  BY InitIInv, NextIInv, PTL DEF Spec

\* Upstream capacity is never kept through a backoff sleep, nor by a call that
\* has ended, failed or been cancelled, for any number of calls.
THEOREM CapacityOnTheWire == Spec => []SlotOnlyOnTheWire
<1>1. IInv => SlotOnlyOnTheWire
  BY DEF IInv, CallOK, SlotOnlyOnTheWire
<1> QED
  BY <1>1, Inductive, PTL

\* No call sends more requests than it has begun attempts, and a transient failure
\* ends a call only in its last one, for any retry budget.  The answer that does not
\* decode is excepted in the property, not here: TransientStatusesRetried, which does
\* not except it, is refuted by a run.
THEOREM BudgetSpent == Spec => []BudgetSpentBeforeError
<1>1. IInv => BudgetSpentBeforeError
  BY DEF IInv, CallOK, BudgetSpentBeforeError
<1> QED
  BY <1>1, Inductive, PTL

(***************************************************************************)
(* The client drives the gate as the gate is meant to be driven.           *)
(***************************************************************************)

LEMMA StepDrivesGate ==
  ASSUME NEW c \in Call, Start(c) \/ Progress(c) \/ Cancel(c) \/ Again(c)
  PROVE  Grant(c) \/ Exit(c) \/ UNCHANGED gateVars
<1>1. CASE Start(c) \/ Again(c) \/ Wake(c) \/ Refused(c)
  BY <1>1 DEF Start, Again, Wake, Refused
<1>2. CASE Post(c)
  BY <1>2 DEF Post
<1>3. CASE \E r \in Answer : Answered(c, r)
  BY <1>3 DEF Answered
<1>4. CASE Cancel(c)
  BY <1>4 DEF Cancel
<1> QED
  BY <1>1, <1>2, <1>3, <1>4 DEF Progress

\* On every path of _post and _post_once the slot that __aenter__ granted is closed
\* once, and one it refused never: the client implements the gate's specification.
THEOREM ClientDrivesGate == Spec => GateDiscipline
<1>1. Init => GateInit
  BY DEF Init
<1>2. [Next]_vars => [GateNext]_gateVars
  <2> SUFFICES ASSUME [Next]_vars
               PROVE  [GateNext]_gateVars
    OBVIOUS
  <2>1. ASSUME NEW c \in Call, Start(c) \/ Progress(c) \/ Cancel(c) \/ Again(c)
        PROVE  [GateNext]_gateVars
    BY <2>1, StepDrivesGate DEF GateNext, Enter
  <2>2. CASE UNCHANGED vars
    BY <2>2 DEF vars, gateVars
  <2> QED
    BY <2>1, <2>2 DEF Next
<1> QED
  BY <1>1, <1>2, PTL DEF Spec, GateDiscipline

(***************************************************************************)
(* The gate: for every set of callers, every labelling of them and every   *)
(* pair of limits the counters of _UpstreamSlot are exact, so the limits   *)
(* bound what is really outstanding.  No fairness and no bound is assumed, *)
(* and nothing of the client: GateSpec lets a caller do what it wants.     *)
(***************************************************************************)
\* The inductive invariant: the two counters and the slots held say the same.
\* Its types alone are not inductive: that a count cannot fall below zero, or the
\* semaphore rise above Global, follows only from the accounting.
GateInv == GateTypeOK /\ PermitsConserved /\ InFlightExact

LEMMA HeldFinite ==
  /\ IsFiniteSet(Held)
  /\ \A l \in Label : IsFiniteSet(HeldBy(l))
  BY SlotAssumption, FS_Subset DEF Held, HeldBy

LEMMA CountsAreNat ==
  /\ Cardinality(Held) \in Nat
  /\ \A l \in Label : Cardinality(HeldBy(l)) \in Nat
  BY HeldFinite, FS_CardinalityType

LEMMA InitGateInv == GateInit => GateInv
<1> SUFFICES ASSUME GateInit PROVE GateInv
  OBVIOUS
<1>1. Held = {} /\ \A l \in Label : HeldBy(l) = {}
  BY DEF GateInit, Held, HeldBy
<1>2. GateTypeOK
  BY SlotAssumption DEF GateInit, GateTypeOK, Phase
<1>3. PermitsConserved
  BY <1>1, FS_EmptySet, SlotAssumption DEF GateInit, PermitsConserved
<1>4. InFlightExact
  BY <1>1, FS_EmptySet DEF GateInit, InFlightExact
<1> QED
  BY <1>2, <1>3, <1>4 DEF GateInv

\* Steps that leave the counters alone and neither grant nor close a slot.
LEMMA KeepGateInv ==
  ASSUME GateInv, UNCHANGED <<inFlight, permits>>, Held' = Held,
         phase' \in [Call -> Phase]
  PROVE  GateInv'
<1>1. \A l \in Label : HeldBy(l)' = HeldBy(l)
  BY DEF HeldBy
<1> QED
  BY <1>1 DEF GateInv, GateTypeOK, PermitsConserved, InFlightExact

LEMMA GrantGateInv ==
  ASSUME GateInv, NEW s \in Call, Grant(s)
  PROVE  GateInv'
<1> DEFINE me == LabelOf[s]
<1>1. me \in Label
  BY SlotAssumption
<1>2. Held' = Held \cup {s} /\ s \notin Held
  BY DEF GateInv, GateTypeOK, Grant, Held
<1>3. HeldBy(me)' = HeldBy(me) \cup {s} /\ s \notin HeldBy(me)
  BY <1>2 DEF HeldBy
<1>4. \A l \in Label : l # me => HeldBy(l)' = HeldBy(l)
  BY <1>2 DEF HeldBy
<1>5. Cardinality(Held') = Cardinality(Held) + 1
  BY <1>2, HeldFinite, FS_AddElement
<1>6. Cardinality(HeldBy(me)') = Cardinality(HeldBy(me)) + 1
  BY <1>1, <1>3, HeldFinite, FS_AddElement
<1>7. GateTypeOK'
  BY <1>1, SlotAssumption DEF GateInv, GateTypeOK, Grant, AtTokenCap,
     Phase
<1>8. PermitsConserved'
  BY <1>5, CountsAreNat, SlotAssumption DEF GateInv, GateTypeOK,
     PermitsConserved, Grant
<1>9. InFlightExact'
  <2> SUFFICES ASSUME NEW l \in Label
               PROVE  inFlight'[l] = Cardinality(HeldBy(l)')
    BY DEF InFlightExact
  <2>1. CASE l = me
    BY <2>1, <1>1, <1>6 DEF GateInv, GateTypeOK, InFlightExact,
       Grant
  <2>2. CASE l # me
    BY <2>2, <1>1, <1>4 DEF GateInv, GateTypeOK, InFlightExact,
       Grant
  <2> QED
    BY <2>1, <2>2
<1> QED
  BY <1>7, <1>8, <1>9 DEF GateInv

LEMMA ExitGateInv ==
  ASSUME GateInv, NEW s \in Call, Exit(s)
  PROVE  GateInv'
<1> DEFINE me == LabelOf[s]
<1>1. me \in Label
  BY SlotAssumption
<1>2. Held' = Held \ {s} /\ s \in Held
  BY DEF GateInv, GateTypeOK, Exit, Held
<1>3. HeldBy(me)' = HeldBy(me) \ {s} /\ s \in HeldBy(me)
  BY <1>2 DEF HeldBy
<1>4. \A l \in Label : l # me => HeldBy(l)' = HeldBy(l)
  BY <1>2 DEF HeldBy
<1>5. Cardinality(Held') = Cardinality(Held) - 1
  BY <1>2, HeldFinite, FS_RemoveElement
<1>6. Cardinality(HeldBy(me)') = Cardinality(HeldBy(me)) - 1
  BY <1>1, <1>3, HeldFinite, FS_RemoveElement
<1>7. /\ Cardinality(Held') \in Nat
      /\ Cardinality(HeldBy(me)') \in Nat
  BY <1>1, <1>2, <1>3, HeldFinite, FS_RemoveElement, FS_CardinalityType
<1>8. GateTypeOK'
  BY <1>1, <1>5, <1>6, <1>7, CountsAreNat, SlotAssumption DEF GateInv,
     GateTypeOK, PermitsConserved, InFlightExact, Exit, Phase
<1>9. PermitsConserved'
  BY <1>5, CountsAreNat, SlotAssumption DEF GateInv, GateTypeOK,
     PermitsConserved, Exit
<1>10. InFlightExact'
  <2> SUFFICES ASSUME NEW l \in Label
               PROVE  inFlight'[l] = Cardinality(HeldBy(l)')
    BY DEF InFlightExact
  <2>1. CASE l = me
    BY <2>1, <1>1, <1>6 DEF GateInv, GateTypeOK, InFlightExact,
       Exit
  <2>2. CASE l # me
    BY <2>2, <1>1, <1>4 DEF GateInv, GateTypeOK, InFlightExact,
       Exit
  <2> QED
    BY <2>1, <2>2
<1> QED
  BY <1>8, <1>9, <1>10 DEF GateInv

LEMMA NextGateInv == GateInv /\ [GateNext]_gateVars => GateInv'
<1> SUFFICES ASSUME GateInv, [GateNext]_gateVars PROVE GateInv'
  OBVIOUS
<1>1. ASSUME NEW s \in Call, RefuseInFlight(s) PROVE GateInv'
  <2>1. Held' = Held
    BY <1>1 DEF GateInv, GateTypeOK, RefuseInFlight, Held
  <2> QED
    BY <1>1, <2>1, KeepGateInv DEF GateInv, GateTypeOK, RefuseInFlight, Phase
<1>2. ASSUME NEW s \in Call, RefuseGlobal(s) PROVE GateInv'
  <2>1. Held' = Held
    BY <1>2 DEF GateInv, GateTypeOK, RefuseGlobal, Held
  <2> QED
    BY <1>2, <2>1, KeepGateInv DEF GateInv, GateTypeOK, RefuseGlobal, Phase
<1>3. ASSUME NEW s \in Call, Drop(s) PROVE GateInv'
  <2>1. Held' = Held
    BY <1>3 DEF GateInv, GateTypeOK, Drop, Held
  <2> QED
    BY <1>3, <2>1, KeepGateInv DEF GateInv, GateTypeOK, Drop, Phase
<1>4. CASE UNCHANGED gateVars
  <2>1. Held' = Held
    BY <1>4 DEF gateVars, Held
  <2> QED
    BY <1>4, <2>1, KeepGateInv DEF GateInv, GateTypeOK, gateVars
<1> QED
  BY <1>1, <1>2, <1>3, <1>4, GrantGateInv, ExitGateInv DEF GateNext, Enter

LEMMA GateInductive == GateSpec => []GateInv
  BY InitGateInv, NextGateInv, PTL DEF GateSpec

\* The counters stay in their range: in particular a count never goes negative
\* and the semaphore is never released more often than it was acquired.
THEOREM SlotTypes == GateSpec => []GateTypeOK
<1>1. GateInv => GateTypeOK
  BY DEF GateInv
<1> QED
  BY <1>1, GateInductive, PTL

\* The semaphore's value and the slots held always make up the global limit.
THEOREM PermitAccounting == GateSpec => []PermitsConserved
<1>1. GateInv => PermitsConserved
  BY DEF GateInv
<1> QED
  BY <1>1, GateInductive, PTL

\* A token's in-flight count is the number of slots it holds.
THEOREM InFlightAccounting == GateSpec => []InFlightExact
<1>1. GateInv => InFlightExact
  BY DEF GateInv
<1> QED
  BY <1>1, GateInductive, PTL

\* Both limits hold of the requests really outstanding.
THEOREM FanOut == GateSpec => []FanOutBounded
<1>1. GateInv => FanOutBounded
  <2> SUFFICES ASSUME GateInv PROVE FanOutBounded
    OBVIOUS
  <2>1. Cardinality(Held) <= Global
    BY CountsAreNat, SlotAssumption DEF GateInv, GateTypeOK, PermitsConserved
  <2>2. \A l \in Label : Cardinality(HeldBy(l)) <= PerToken
    BY DEF GateInv, GateTypeOK, InFlightExact
  <2> QED
    BY <2>1, <2>2 DEF FanOutBounded
<1> QED
  BY <1>1, GateInductive, PTL

(***************************************************************************)
(* What holds of the gate holds of it under the client.                    *)
(***************************************************************************)

OnTheWire == {c \in Call : pc[c] = "posting"}

\* Settings bounds the requests really on the wire.
WireBound ==
  /\ Cardinality(OnTheWire) <= Global
  /\ \A l \in Label : Cardinality({c \in OnTheWire : LabelOf[c] = l}) <= PerToken

\* So what FanOut shows of the gate holds of the requests that _post_once
\* has on the wire: they never exceed per_token_concurrent_upstream of a token nor
\* global_upstream_concurrency, whatever is refused, retried, failed or cancelled.
THEOREM WireBounded == Spec => []WireBound
<1>1. GateDiscipline => []FanOutBounded
  BY FanOut DEF GateDiscipline, GateSpec
<1>2. FanOutBounded /\ SlotOnlyOnTheWire => WireBound
  <2> SUFFICES ASSUME FanOutBounded, SlotOnlyOnTheWire
               PROVE  WireBound
    OBVIOUS
  <2>1. Held = OnTheWire
    BY DEF SlotOnlyOnTheWire, Held, OnTheWire
  <2>2. ASSUME NEW l \in Label
        PROVE  HeldBy(l) = {c \in OnTheWire : LabelOf[c] = l}
    BY <2>1 DEF HeldBy
  <2> QED
    BY <2>1, <2>2 DEF FanOutBounded, WireBound
<1> QED
  BY <1>1, <1>2, ClientDrivesGate, CapacityOnTheWire, PTL

(***************************************************************************)
(* Types.                                                                  *)
(***************************************************************************)
Pcs == {"idle", "attempt", "posting", "backoff", "done"}
Lasts == Answer \cup {Refusal(429), Refusal(503), NoAnswer}

\* The types that IInv leaves open.
CallTypes ==
  /\ pc \in [Call -> Pcs]
  /\ last \in [Call -> Lasts]
  /\ outcome \in [Call -> Outcome]

LEMMA ResultTypes ==
  /\ \A kind \in {"none", "hits", "empty", "crash", "cancelled"} : Result(kind) \in Outcome
  /\ \A status \in {0, 404, 429} \cup Retryable : UpstreamError(status) \in Outcome
BY DEF Result, UpstreamError, Outcome

LEMMA ReadingType ==
  ASSUME NEW c \in Call, NEW r
  PROVE  Reading(c, r) \in Outcome
BY ResultTypes DEF Reading

LEMMA CallTypesInit == Init => CallTypes
<1>1. Result("none") \in Outcome /\ NoAnswer \in Lasts /\ "idle" \in Pcs
  BY ResultTypes DEF Lasts, Pcs
<1> QED
  BY <1>1 DEF Init, CallTypes

LEMMA RetryTypes ==
  ASSUME CallTypes, NEW c \in Call, NEW status \in {0, 404, 429} \cup Retryable,
         RetryOrRaise(c, status)
  PROVE  pc' \in [Call -> Pcs] /\ outcome' \in [Call -> Outcome]
<1>1. UpstreamError(status) \in Outcome /\ "backoff" \in Pcs /\ "done" \in Pcs
  BY ResultTypes DEF Pcs
<1> QED
  BY <1>1 DEF CallTypes, RetryOrRaise, End

LEMMA EndTypes ==
  ASSUME CallTypes, NEW c \in Call, NEW result \in Outcome, End(c, result)
  PROVE  pc' \in [Call -> Pcs] /\ outcome' \in [Call -> Outcome]
BY DEF CallTypes, End, Pcs

LEMMA CallTypesStep ==
  ASSUME CallTypes, NEW c \in Call, Start(c) \/ Progress(c) \/ Cancel(c) \/ Again(c)
  PROVE  CallTypes'
<1>1. CASE Start(c) \/ Post(c) \/ Wake(c)
  BY <1>1 DEF CallTypes, Start, Post, Wake, Pcs
<1>2. CASE Refused(c)
  <2> DEFINE status == IF AtTokenCap(c) THEN 429 ELSE 503
  <2>1. last' = [last EXCEPT ![c] = Refusal(status)] /\ RetryOrRaise(c, status)
    BY <1>2 DEF Refused
  <2>2. Refusal(status) \in Lasts /\ status \in {0, 404, 429} \cup Retryable
    BY DEF Lasts, Retryable
  <2> HIDE DEF status
  <2>3. last' \in [Call -> Lasts]
    BY <2>1, <2>2 DEF CallTypes
  <2> QED
    BY <2>1, <2>2, <2>3, RetryTypes DEF CallTypes
<1>3. ASSUME NEW r \in Answer, Answered(c, r)
      PROVE  CallTypes'
  <2>1. last' \in [Call -> Lasts]
    BY <1>3 DEF Answered, CallTypes, Lasts
  <2>2. \/ \E status \in {0, 404, 429} \cup Retryable : RetryOrRaise(c, status)
        \/ \E result \in Outcome : End(c, result)
    <3>1. Result("crash") \in Outcome /\ Reading(c, r) \in Outcome
      BY ResultTypes, ReadingType
    <3>2. \/ RetryOrRaise(c, 0)
          \/ r.status \in Retryable /\ RetryOrRaise(c, r.status)
          \/ End(c, Reading(c, r)) \/ End(c, Result("crash"))
      <4>1. CASE r.from = "transport"
        BY <1>3, <4>1 DEF Answered
      <4>2. CASE r.from # "transport" /\ r.status = 500
        BY <1>3, <4>2 DEF Answered, Retryable
      <4>3. CASE r.from # "transport" /\ r.status # 500 /\ r.body = "text"
        BY <1>3, <4>3 DEF Answered
      <4>4. CASE /\ r.from # "transport" /\ r.status # 500 /\ r.body # "text"
                 /\ r.status \in Retryable
        BY <1>3, <4>4 DEF Answered
      <4>5. CASE /\ r.from # "transport" /\ r.status # 500 /\ r.body # "text"
                 /\ r.status \notin Retryable
        BY <1>3, <4>5 DEF Answered
      <4> QED
        BY <4>1, <4>2, <4>3, <4>4, <4>5
    <3> QED
      BY <3>1, <3>2
  <2> QED
    BY <2>1, <2>2, RetryTypes, EndTypes DEF CallTypes
<1>4. CASE Cancel(c)
  BY <1>4, ResultTypes, EndTypes DEF Cancel, CallTypes
<1>5. CASE Again(c)
  <2>1. Result("none") \in Outcome /\ NoAnswer \in Lasts /\ "idle" \in Pcs
    BY ResultTypes DEF Lasts, Pcs
  <2> QED
    BY <1>5, <2>1 DEF CallTypes, Again
<1> QED
  BY <1>1, <1>2, <1>3, <1>4, <1>5 DEF Progress

\* The gate's counters and the locals of every call are well formed: no call of _post
\* is in a state of its loop that the code does not have.
THEOREM ClientTypes == Spec => []TypeOK
<1>1. Spec => []CallTypes
  <2>1. CallTypes /\ [Next]_vars => CallTypes'
    <3> SUFFICES ASSUME CallTypes, [Next]_vars
                 PROVE  CallTypes'
      OBVIOUS
    <3>1. CASE UNCHANGED vars
      BY <3>1 DEF vars, CallTypes
    <3> QED
      BY <3>1, CallTypesStep DEF Next
  <2> QED
    BY <2>1, CallTypesInit, PTL DEF Spec
<1>2. GateDiscipline => []GateTypeOK
  BY SlotTypes DEF GateDiscipline, GateSpec
<1>3. CallTypes /\ IInv /\ GateTypeOK => TypeOK
  <2> SUFFICES ASSUME CallTypes, IInv, GateTypeOK
               PROVE  TypeOK
    OBVIOUS
  <2>2. \A c \in Call : posts[c] \in Nat /\ posts[c] <= attempt[c] + 1
                        /\ attempt[c] \in 0..(Attempts - 1)
    BY DEF IInv, Shape, CallOK
  <2>3. \A c \in Call : posts[c] \in 0..Attempts
    BY <2>2, ClientAssumption
  <2>4. posts \in [Call -> 0..Attempts]
    BY <2>3 DEF IInv, Shape
  <2> QED
    BY <2>4 DEF TypeOK, CallTypes, Pcs, Lasts, IInv, Shape
<1> QED
  BY <1>1, <1>2, <1>3, Inductive, ClientDrivesGate, PTL
=============================================================================
