-------------------------- MODULE OrdersInvariant --------------------------
(***************************************************************************)
(* The inductive invariant of Orders: what a worker may still rely on when  *)
(* it has let go of the row lock.                                           *)
(***************************************************************************)
EXTENDS OrdersProperties

\* Nobody works for an order that does not exist, and a payment is made only
\* for an order that does.
JobsExist ==
  /\ \A w \in Workers : pc[w] # "idle" => status[job[w]] # "none"
  /\ \A o \in Orders : payment[o] # "unseen" => status[o] # "none"

\* Past the cancellation the order is not pending, and never will be again.
NoWayBack ==
  \A w \in Workers :
    pc[w] \in {"look", "claim", "refund", "settle"} => status[job[w]] # "pending"

\* The claim is written before Paystack is called.
ClaimIsWritten ==
  \A w \in Workers : pc[w] \in {"refund", "settle"} => issue[job[w]].kind # "none"

\* Only a refund or a dispute makes an issue of another kind.
KindsKnown ==
  \A o \in Orders : ~otherNews[o] => issue[o].kind \in {"none", "order_not_applied"}

\* A worker about to ask for the refund is the only one that ever did or will,
\* unless there has been other news.
ClaimIsExclusive ==
  /\ \A w \in Workers :
       pc[w] = "refund" /\ refunds[job[w]] > 0 => otherNews[job[w]]
  /\ \A v, w \in Workers :
       pc[v] = "refund" /\ pc[w] = "refund" /\ job[v] = job[w] /\ v # w
         => otherNews[job[w]]

\* The inductive invariant.
IInv ==
  /\ TypeOK
  /\ LinesServed
  /\ BooksMatch
  /\ GoodsArePaidFor
  /\ JobsExist
  /\ NoWayBack
  /\ ClaimIsWritten
  /\ RefundIsOnRecord
  /\ KindsKnown
  /\ ClaimIsExclusive
  /\ OneRefundUnlessNews
=============================================================================
