-------------------------- MODULE OrdersProperties --------------------------
(***************************************************************************)
(* What makes the order pipeline correct.                                   *)
(***************************************************************************)
EXTENDS Orders

-----------------------------------------------------------------------------
(* Safety.                                                                  *)

\* The status of an order and its confirmed_at column tell the same story, and
\* a confirmed order without backorders took its whole cart: no line is served
\* half, nothing is taken by an order that was never confirmed.
LinesServed ==
  \A o \in Orders :
    /\ status[o] \in Live \cup {"refunded"} => confirmed[o]
    /\ status[o] \in {"none", "pending"} => ~confirmed[o]
    /\ ~confirmed[o] => taken[o] = Nothing
    /\ \A p \in Products : taken[o][p] <= terms[o].cart[p]
    /\ confirmed[o] /\ ~terms[o].backorders => taken[o] = terms[o].cart

\* Each book agrees with the orders: an escrow credit for every confirmed order
\* and a reversal for every one of them that was undone, PV for the live orders
\* of distributors, and one use of the code for every live order with it.
BooksMatch ==
  /\ escrow = {<<"credit", o>> : o \in {x \in Orders : confirmed[x]}} \cup
              {<<"reversal", o>> : o \in {x \in Orders : confirmed[x] /\ status[x] \in Closed}}
  /\ credited = {o \in Orders : pvEarned[o]}
  /\ \A o \in Orders : pvEarned[o] <=> (status[o] \in Live /\ terms[o].distributor)
  /\ codeUsed = Cardinality({o \in Orders : status[o] \in Live /\ terms[o].coded})

\* Goods leave only for the right amount of money, whoever confirms and however
\* often: the payment of a confirmed order is there or has gone back since.
GoodsArePaidFor ==
  \A o \in Orders : confirmed[o] => payment[o] \in {"paid", "reversed"}

\* Paystack is asked for a refund only of a payment that is on the Payments page, and
\* never of an order that still waits, so nobody confirms it afterwards.  Somebody may
\* have confirmed it before, between the two locks (orders/services.py:589-608): that
\* the order was cancelled first, as line 560 has it, is not said here.
RefundIsOnRecord ==
  \A o \in Orders :
    refunds[o] > 0 => issue[o].kind # "none" /\ status[o] \notin {"none", "pending"}

\* The PaymentIssue row is a claim: however many workers find the stock gone, one
\* asks for the refund, unless a refund or a dispute rewrote the row meanwhile.
OneRefundUnlessNews ==
  \A o \in Orders : refunds[o] > 1 => otherNews[o]

\* The order pipeline implements Fulfilment: goods leave the shelf once, all
\* together and only if they are there; exactly what left comes back, once.
Phase ==
  [o \in Orders |->
     CASE status[o] \in {"none", "pending"} -> "open"
       [] status[o] \in Live -> "served"
       [] OTHER -> "closed"]

Promise == INSTANCE Fulfilment WITH shelf <- stock, phase <- Phase, goods <- taken

ShelfKept == Promise!Spec

-----------------------------------------------------------------------------
(* Liveness.                                                                *)

\* No order stays pending for ever: it is confirmed or closed, or an admin has
\* been told that its payment does not match.
PendingOrdersClose ==
  \A o \in Orders :
    (status[o] = "pending") ~> (status[o] # "pending" \/ issue[o].kind # "none")

\* No payment is lost from view, even if no webhook ever comes: the order is
\* confirmed, or there is an issue, or the money has gone back.
PaidIsAnswered ==
  \A o \in Orders :
    Success(o) ~> (confirmed[o] \/ issue[o].kind # "none" \/ payment[o] = "reversed")

=============================================================================
