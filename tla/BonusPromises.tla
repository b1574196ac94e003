---------------------------- MODULE BonusPromises ----------------------------
(***************************************************************************)
(* What distributors and the company are promised about scheduled bonuses.  *)
(***************************************************************************)
EXTENDS Commissions

PvTotal(purchases) == SumFunctionOnSet(Pv, purchases)

\* Purchases that ever counted for a leg, and those that still should.
Counted(d, leg) ==
  {p \in Purchases : purchase[p].state # "none" /\ Feeds(p, d, leg)}
Standing(d, leg) == {p \in Counted(d, leg) : purchase[p].state = "paid"}

LivePv(d, leg) == SumFunctionOnSet(bucket[d][leg], Days)
SpentPv(d) == SumFunctionOnSet([x \in BinaryBonuses(d) |-> x.pv], BinaryBonuses(d))

\* In no stretch of seven days does a distributor get more binary bonus than
\* WEEKLY_BINARY_BONUS_CAP (apply_weekly_binary_bonus_cap), though every cycle
\* looks at its own run_at and two cycles may overlap after a lapse of the lock
\* (apps/commissions/tasks.py:249-254).
WeeklyCapHolds ==
  \A d \in Distributors : \A day \in Days :
    Total({x \in BinaryBonuses(d) : x.day \in (day - Week)..day}) <= Cap

\* PvLedger and MonthlyPersonalPv are at every moment what the purchases that
\* stand add up to: a reversal finds the very row its credit went to, and the
\* shortfall reverse_ancestor_pv calls a real bug (pv_ledger/services.py:362)
\* never happens.
LedgersFollowPurchases ==
  \A d \in Distributors :
    /\ \A leg \in Legs : pvLedger[d][leg] = PvTotal(Standing(d, leg))
    /\ \A m \in Months :
         personal[d][m] = (IF m = 0 THEN EarlierPersonal[d] ELSE 0)
           + PvTotal({p \in Purchases : /\ Buyer[p] = d
                                        /\ purchase[p].state = "paid"
                                        /\ MonthOf(purchase[p].day) = m})

\* No leg pays for more PV than purchases brought to it, and while nothing was
\* cancelled or can have expired no PV is lost either: all of it is spent or
\* still there, whatever cycles overlap, fail or crash
\* (docs/decisions/0003: the unpaid remainder must not be discarded).
PvIsConserved ==
  /\ TypeOK
  /\ LedgersFollowPurchases
  /\ \A d \in Distributors : \A leg \in Legs :
       /\ SpentPv(d) + LivePv(d, leg) <= PvTotal(Counted(d, leg))
       /\ (\A p \in Counted(d, leg) : /\ purchase[p].state = "paid"
                                      /\ purchase[p].day >= today - Expiry)
            => SpentPv(d) + LivePv(d, leg) = PvTotal(Counted(d, leg))

\* The audit record of a cycle shows exactly the payments that carry its run_at,
\* though another cycle ran at the same time (CommissionCycleRun).
AuditAddsUp ==
  \A a \in audit : a.total = Total({x \in payments : x.run = a.run})

\* Over all its cycles a distributor is paid the rate on the PV spent: never
\* less than that but for half a pesewa of rounding a time, and never more than
\* that by more than one PV a time, the fraction a capped payment leaves
\* unspent (process_binary_bonus_for_distributor, pv_to_consume); and the audit
\* of each cycle shows what it paid.
PaidForSpent ==
  /\ AuditAddsUp
  /\ \A d \in Distributors :
       LET paid  == Total(BinaryBonuses(d))
           times == Cardinality(BinaryBonuses(d))
       IN  /\ 10 * paid >= Rate * SpentPv(d) - 5 * times
           /\ 10 * paid <= Rate * (SpentPv(d) + times) + 5 * times

\* A binary bonus a distributor has earned is paid in the end, or stops being
\* due: no crash, failure or lapsed lock leaves it owed for ever.
OwedIsPaid ==
  \A d \in Distributors : OwesBinary(d, today) ~> ~OwesBinary(d, today)
=============================================================================
