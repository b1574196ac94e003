--------------------------- MODULE BonusInvariant ---------------------------
(***************************************************************************)
(* Why the promises about bonuses hold: what a cycle may rely on while      *)
(* other cycles, purchases and reversals go on.  Commissions_proofs proves  *)
(* that the conjunction is inductive, part by part.                         *)
(***************************************************************************)
EXTENDS BonusPromises

Bought == {p \in Purchases : purchase[p].state # "none"}

\* Sums are taken of finitely many rows.
RowsAreFinite == IsFiniteSet(payments) /\ IsFiniteSet(Bought)

\* A cycle looks at its own day, which other cycles and payments may be past.
DatesInOrder ==
  /\ \A x \in payments : x.day <= today
  /\ \A w \in Workers : Busy(w) => cycle[w].at <= today

\* A cycle that paid has a name of its own, and pays a distributor once.
RunsAreFresh ==
  /\ \A x \in payments : x.run[3] < Cardinality(PaidBy(x.run[2], x.run[1]))
  /\ \A w \in Workers : Busy(w) =>
       /\ cycle[w].run \in RunNames
       /\ cycle[w].run[1] = cycle[w].job /\ cycle[w].run[2] = w
       /\ cycle[w].run[3] <= Cardinality(PaidBy(w, cycle[w].job))
       /\ \A x \in payments : x.run = cycle[w].run => x.to \notin cycle[w].queue

\* The total of a cycle is of its own payments, and its record is written last.
TotalsAddUp ==
  /\ \A w \in Workers : Busy(w) =>
       /\ cycle[w].total = Total({x \in payments : x.run = cycle[w].run})
       /\ \A a \in audit : a.run # cycle[w].run
  /\ \A a \in audit : \E x \in payments : x.run = a.run

\* PV of a day is what purchases of that day brought.
RowsHaveOrigin ==
  \A d \in Distributors, leg \in Legs, day \in Days :
    bucket[d][leg][day] > 0 => \E p \in Counted(d, leg) : purchase[p].day = day

BonusInv ==
  /\ PvIsConserved
  /\ WeeklyCapHolds
  /\ PaidForSpent
  /\ RowsAreFinite
  /\ DatesInOrder
  /\ RunsAreFresh
  /\ TotalsAddUp
  /\ RowsHaveOrigin
=============================================================================
