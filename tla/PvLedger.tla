------------------------------ MODULE PvLedger ------------------------------
(***************************************************************************)
(* The point value (PV) a purchase earns, as apps/pv_ledger keeps it: a     *)
(* running total per leg, a dated bucket per leg and day that the binary    *)
(* bonus spends, and a monthly total of the buyer's own purchases.          *)
(*                                                                          *)
(* One action is one database transaction.  A credit only adds to rows, so  *)
(* it may commit in the middle of a binary bonus without being seen or      *)
(* lost; a reversal and a binary bonus lock the same Distributor rows.      *)
(***************************************************************************)
EXTENDS Integers, FiniteSetsExt, Functions

CONSTANTS
  Distributors,    \* primary keys
  Above,           \* BinaryTreeEdge: the <<ancestor, leg>> pairs of a distributor
  Purchases,       \* starter packs, and orders of distributors
  Buyer,           \* who makes a purchase
  Pv,              \* pv_earned, starter_pack_pv
  Expiry,          \* PV_CARRY_FORWARD_EXPIRY_DAYS
  MonthLength,     \* days in a calendar month
  MinPersonal,     \* MIN_MONTHLY_PERSONAL_PV
  EarlierPersonal, \* personal PV of the first month from before the first day
  LastDay          \* bound: the clock stops here

Legs == {"left", "right"}
Days == 0..LastDay
MonthOf(day) == day \div MonthLength
Months == {MonthOf(day) : day \in Days}

ASSUME PvAssumption ==
  /\ Above \in [Distributors -> SUBSET (Distributors \X Legs)]
  /\ Buyer \in [Purchases -> Distributors]
  /\ Pv \in [Purchases -> Nat \ {0}]
  /\ Expiry \in Nat
  /\ MonthLength \in Nat \ {0}
  /\ MinPersonal \in Nat
  /\ EarlierPersonal \in [Distributors -> Nat]
  /\ LastDay \in Nat

\* An ancestor is above with one of its two legs, and nobody is above himself.
ASSUME TreeAssumption ==
  \A b, d \in Distributors :
    /\ ~(<<d, "left">> \in Above[b] /\ <<d, "right">> \in Above[b])
    /\ \A leg \in Legs : <<b, leg>> \notin Above[b]

VARIABLES
  today,    \* timezone.now().date()
  purchase, \* state and day (confirmed_at.date()) of a purchase
  pvLedger, \* PvLedger.left_leg_pv, right_leg_pv
  bucket,   \* PvDailyBucket.pv, 0 where there is no row
  personal  \* MonthlyPersonalPv.pv, 0 where there is no row

pvVars == <<purchase, pvLedger, bucket, personal>>

PvTypeOK ==
  /\ today \in Days
  /\ purchase \in [Purchases -> [state : {"none", "paid", "cancelled"}, day : Days]]
  /\ pvLedger \in [Distributors -> [Legs -> Nat]]
  /\ bucket \in [Distributors -> [Legs -> [Days -> Nat]]]
  /\ personal \in [Distributors -> [Months -> Nat]]

PvInit ==
  /\ today = 0
  /\ purchase = [p \in Purchases |-> [state |-> "none", day |-> 0]]
  /\ pvLedger = [d \in Distributors |-> [leg \in Legs |-> 0]]
  /\ bucket = [d \in Distributors |-> [leg \in Legs |-> [day \in Days |-> 0]]]
  /\ personal = [d \in Distributors |->
                   [m \in Months |-> IF m = 0 THEN EarlierPersonal[d] ELSE 0]]

-----------------------------------------------------------------------------
(* Purchases and their reversal.                                            *)

\* The legs a purchase counts for.
Feeds(p, d, leg) == <<d, leg>> \in Above[Buyer[p]]

CreditLeg(p, d, leg) == IF Feeds(p, d, leg) THEN Pv[p] ELSE 0

\* record_purchase_pv and record_personal_pv, from confirm_order_payment or
\* consume_paid_starter_pack: one date for all three tables.
Purchase(p) ==
  /\ purchase[p].state = "none"
  /\ purchase' = [purchase EXCEPT ![p] = [state |-> "paid", day |-> today]]
  /\ pvLedger' = [d \in Distributors |-> [leg \in Legs |->
                    pvLedger[d][leg] + CreditLeg(p, d, leg)]]
  /\ bucket' = [d \in Distributors |-> [leg \in Legs |->
                  [bucket[d][leg] EXCEPT ![today] = @ + CreditLeg(p, d, leg)]]]
  /\ personal' = [personal EXCEPT ![Buyer[p]][MonthOf(today)] = @ + Pv[p]]
  /\ UNCHANGED today

\* A conditional update: all of the amount or none of it.
Less(pv, amount) == IF pv >= amount THEN pv - amount ELSE pv

\* purchase_date, the date of the credit.
ReversedOn(p) == purchase[p].day

\* reverse_ancestor_pv, from cancel_or_refund_order or
\* cancel_membership_and_refund.
CancelPurchase(p) ==
  LET day == ReversedOn(p) IN
  /\ purchase[p].state = "paid"
  /\ purchase' = [purchase EXCEPT ![p].state = "cancelled"]
  /\ pvLedger' = [d \in Distributors |-> [leg \in Legs |->
                    Less(pvLedger[d][leg], CreditLeg(p, d, leg))]]
  /\ bucket' = [d \in Distributors |-> [leg \in Legs |->
                  [bucket[d][leg] EXCEPT ![day] = Less(@, CreditLeg(p, d, leg))]]]
  /\ personal' = [personal EXCEPT ![Buyer[p]][MonthOf(day)] = Less(@, Pv[p])]
  /\ UNCHANGED today

-----------------------------------------------------------------------------
(* What the bonus cycles read and spend.                                    *)

\* is_eligible_for_binary_bonus.
IsEligible(d, day) == personal[d][MonthOf(day)] >= MinPersonal

\* distributor_ids_with_pending_pv.
HasPendingPv(d) == \E leg \in Legs, day \in Days : bucket[d][leg][day] > 0

Cutoff(day) == day - Expiry

SumLegPv(d, leg, day) ==
  SumFunctionOnSet(bucket[d][leg], {t \in Days : t >= Cutoff(day)})

\* expire_old_pv on the rows of one leg.
Expired(rows, day) == [t \in Days |-> IF t < Cutoff(day) THEN 0 ELSE rows[t]]

Smaller(a, b) == IF a <= b THEN a ELSE b
Larger(a, b) == IF a >= b THEN a ELSE b

\* consume_leg_pv_fifo on the unexpired rows of one leg: a row gives what the
\* older ones do not have.
Consumed(rows, amount) ==
  LET Older(t) == SumFunctionOnSet(rows, {s \in Days : s < t}) IN
  [t \in Days |-> rows[t] - Smaller(rows[t], Larger(amount - Older(t), 0))]
=============================================================================
