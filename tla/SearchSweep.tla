----------------------------- MODULE SearchSweep ----------------------------
(***************************************************************************)
(* SearchSweep: one sweep of the parliament search                         *)
(* (src/hansard_gateway/search/sprs.py).  A load balancer sends each page  *)
(* request to one of several nodes that disagree on the rows and on their  *)
(* order; the sweep collects rows by reportId until one of four rules ends *)
(* it.                                                                     *)
(***************************************************************************)
EXTENDS Naturals, SequencesExt

CONSTANTS Node,       \* the nodes behind the load balancer
          Row,        \* reportIds
          NoId,       \* a row without a reportId
          Orders,     \* what a node may hold: the rows, in its order
          PageSize,   \* search_page_size
          Probes,     \* search_max_probes
          MaxNoGain,  \* search_max_no_gain
          Unlimited,  \* no cold budget
          Budgets     \* the cold budgets of the callers

ASSUME SweepAssumption ==
  /\ NoId \notin Row
  /\ Orders \subseteq Seq(Row \cup {NoId})
  /\ \A name \in {PageSize, Probes, MaxNoGain} : name \in Nat \ {0}
  /\ Unlimited \notin Nat
  /\ Budgets \subseteq Nat \cup {Unlimited}

VARIABLES holds,      \* node -> its rows, in its order
          repeats,    \* the nodes that serve their first page whatever the offset
          budget,     \* cold_budget, raised to the number of probes
          seen,       \* the rows collected, in first-seen order
          total,      \* the largest maxResult observed
          noGain,     \* no_gain: consecutive pages without a new row
          offset,
          fetches,
          truncated,  \* budget_truncated
          pc

vars == <<holds, repeats, budget, seen, total, noGain, offset, fetches, truncated, pc>>
caller == <<holds, repeats, budget>>

RaisedBudget(cold) == IF cold = Unlimited THEN Unlimited ELSE Max({cold, Probes})

Init ==
  /\ holds \in [Node -> Orders]
  /\ repeats \in SUBSET Node
  /\ budget \in {RaisedBudget(cold) : cold \in Budgets}
  /\ seen = <<>>
  /\ total = 0 /\ noGain = 0 /\ offset = 0 /\ fetches = 0
  /\ truncated = FALSE
  /\ pc = "sweep"

\* The rows startIndex..endIndex of a node.
Page(n) ==
  LET from == IF n \in repeats THEN 0 ELSE offset
  IN  SubSeq(holds[n], from + 1, Min({from + PageSize, Len(holds[n])}))

\* Mutant of Collect: a row is taken again on every page it is on.
CollectAgain(rows) == seen \o SelectSeq(rows, LAMBDA r : r # NoId)

\* Rows with a new reportId are appended; one without any is dropped.
Collect(rows) ==
  FoldLeft(LAMBDA got, r : IF r = NoId \/ r \in Range(got) THEN got ELSE Append(got, r),
           seen, rows)

\* Mutant of Highest: the totals of the pages are added up.
HighestSummed(n) == IF Page(n) = <<>> THEN total ELSE total + Len(holds[n])

\* A page that has rows states its node's total in them.
Highest(n) == IF Page(n) = <<>> THEN total ELSE Max({total, Len(holds[n])})

\* The rules, over the values after the page, in the order the code tries them.
AllSeen == fetches' >= Probes /\ Len(seen') >= total'

\* Mutant of PastTheEnd: the sweep stops a page early.
PastTheEndEarly == offset' + PageSize >= Max({total', PageSize})

PastTheEnd == offset' >= Max({total', PageSize})

\* Mutant of OverBudget: the budget is tested one page late.
OverBudgetLate ==
  budget # Unlimited /\ fetches' > budget /\ noGain' = 0 /\ Len(seen') < total'

OverBudget ==
  budget # Unlimited /\ fetches' >= budget /\ noGain' = 0 /\ Len(seen') < total'

NoGainAfter(rows) == IF Len(Collect(rows)) > Len(seen) THEN 0 ELSE noGain + 1

Fetch(n) ==
  /\ pc = "sweep"
  /\ seen' = Collect(Page(n))
  /\ total' = Highest(n)
  /\ noGain' = NoGainAfter(Page(n))
  /\ offset' = offset + PageSize
  /\ fetches' = fetches + 1
  /\ truncated' = (~AllSeen /\ ~PastTheEnd /\ OverBudget)
  /\ pc' = IF AllSeen \/ PastTheEnd \/ OverBudget \/ noGain' >= MaxNoGain
           THEN "done" ELSE "sweep"
  /\ UNCHANGED caller

\* SprsClient raises UpstreamError: the caller gets no rows at all.
Fail ==
  /\ pc = "sweep"
  /\ pc' = "failed"
  /\ UNCHANGED <<caller, seen, total, noGain, offset, fetches, truncated>>

Next == Fail \/ \E n \in Node : Fetch(n)

Spec == Init /\ [][Next]_vars
-----------------------------------------------------------------------------
\* The locals of _sweep are well formed, and no report is collected twice.
TypeOK ==
  /\ budget \in Nat \cup {Unlimited}
  /\ seen \in Seq(Row) /\ IsInjective(seen)
  /\ noGain \in 0..MaxNoGain
  /\ \A count \in {total, fetches} : count \in Nat
  /\ offset = fetches * PageSize
  /\ truncated \in BOOLEAN
  /\ pc \in {"sweep", "done", "failed"}

Agree ==
  /\ repeats = {}
  /\ \A m, n \in Node : holds[m] = holds[n] /\ NoId \notin Range(holds[n])

\* Nodes that agree lose no row and no order, whichever serves which page, unless
\* the result is marked as truncated.
CompleteWhenNodesAgree ==
  pc = "done" /\ ~truncated /\ Agree => \A n \in Node : seen = holds[n]

\* The mark that the route renders as "bounded" is never put on a result that has
\* every row the site could give (providers.py:169).
TruncatedLeavesRows ==
  truncated => \E n \in Node : Range(holds[n]) \ Range(seen) # {}

\* The cost of a cold search: the budget may be overrun only by pages that gain
\* nothing, and by fewer of them than end the sweep anyway, however the nodes
\* alternate; no sweep asks for a page behind the largest total.
FetchesBounded ==
  /\ budget # Unlimited => fetches <= budget + MaxNoGain - 1
  /\ fetches > 1 => offset - PageSize < total
=============================================================================
