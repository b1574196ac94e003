---------------------------- MODULE PackPromises ----------------------------
(***************************************************************************)
(* What StarterPacks promises.                                              *)
(***************************************************************************)
EXTENDS StarterPacks, Functions

\* The PV that stands: the packs that are paid for and not cancelled.
Standing == [d \in Members |-> IF member[d].confirmed THEN PackPv[member[d].pack] ELSE 0]

Team(a, leg) == {d \in Members : \E e \in above[d] : e.ancestor = a /\ e.leg = leg}

\* The total of a leg is the PV of the members below it whose packs stand.
LegsAddUp ==
  \A a \in Members, leg \in Legs :
    legPv[a][leg] = SumFunctionOnSet(Standing, Team(a, leg))

\* At most one payment is applied per member, and it is the one that his pack, his
\* PV and his refund are taken from.
OneApplied ==
  \A d \in Members :
    LET used == {f \in Refs : Buyer(f) = d /\ checkout[f].used}
    IN  /\ Cardinality(used) <= 1
        /\ member[d].confirmed \/ member[d].cancelled <=> used # {}
        /\ ownPv[d] = Standing[d]
        /\ \A f \in used :
             /\ member[d].confirmed => member[d].pack = checkout[f].pack
             /\ member[d].cancelled => refund[d] = checkout[f].pack

\* The bonus of a payment is paid once, when it is applied, and no more than that
\* is taken back, whichever of the cancellation and the refund comes first.
BonusBalanced ==
  \A f \in Refs :
    /\ bonus[f].paid =
         IF checkout[f].used /\ Sponsor[Buyer(f)] # None
           THEN PackBonus[checkout[f].pack] ELSE 0
    /\ bonus[f].back <= bonus[f].paid
    /\ bonus[f].back > 0 => checkout[f].handled

\* After any interleaving of webhooks, browsers, reconciliation, cancellation and
\* refunds, PV, bonus and refund agree with the one payment that was applied.
PackBooksAgree == TypeOK /\ LegsAddUp /\ OneApplied /\ BonusBalanced

\* The buyer has a pack, or had one and cancelled.
Served(f) == \E d \in Members : d = Buyer(f) /\ (member[d].confirmed \/ member[d].cancelled)

\* Whoever pays for a pack gets one, or an admin hears of the payment, unless the money
\* goes back first: lost webhooks, crashes and a second selection notwithstanding
\* (distributors/tasks.py:180-189).  The member is served, not each payment: when he
\* pays twice, nobody may hear of the second payment.
PayerIsServed ==
  \A f \in Refs :
    Success(f) ~> \/ Served(f)
                  \/ issue[f] # "none"
                  \/ payment[f] = "reversed"
=============================================================================
