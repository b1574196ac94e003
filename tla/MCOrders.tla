------------------------------ MODULE MCOrders ------------------------------
(***************************************************************************)
(* Small instances of Orders for TLC.                                       *)
(***************************************************************************)
EXTENDS OrdersInvariant, TLC

CONSTANTS o1, o2, w1, w2, soap

OneOrder  == {o1}
TwoOrders == {o1, o2}

Agreed(n, backorders, coded, distributor) ==
  [cart |-> (soap :> n), backorders |-> backorders, coded |-> coded,
   distributor |-> distributor]

OneUnit == {Agreed(1, FALSE, FALSE, FALSE)}
OneOrTwo == {Agreed(1, FALSE, FALSE, FALSE), Agreed(2, FALSE, FALSE, FALSE)}
AnyTerms == {Agreed(1, FALSE, TRUE, FALSE), Agreed(2, TRUE, TRUE, TRUE)}

SoldOut  == (soap :> 0)
LastUnit == (soap :> 1)

\* The payments a shop sees, without those that were started and left.
PaidOrNot == {<<"unseen", "paid">>, <<"paid", "reversed">>}

\* An unseen payment stands for an abandoned one: both close an old order, and
\* both can still be made afterwards.
AnyPayment == {<<"unseen", "ongoing">>, <<"unseen", "paid">>, <<"ongoing", "paid">>,
               <<"ongoing", "mispaid">>, <<"paid", "reversed">>}

\* Payments that come and stay.
PaidAtLast == {<<"unseen", "paid">>}

NoDisputes == {}

\* Orders differ in nothing but their names.
OrderSymmetry == Permutations(TwoOrders)
=============================================================================
