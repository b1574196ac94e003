------------------------------- MODULE Orders -------------------------------
(***************************************************************************)
(* Paid orders of the shop, apps/orders: checkout, the confirmation of a    *)
(* payment, the automatic cancellation of unpaid orders, the refund of a    *)
(* payment that cannot be honoured, and what admins do to an order.  With   *)
(* them goes everything a confirmation or a cancellation changes in the     *)
(* same transaction: stock, the discount code's counter, escrow and PV.     *)
(*                                                                          *)
(* A payment is confirmed by whoever hears of it: Paystack's webhook, the   *)
(* customer's browser (the callback), the auto-cancel job, the daily        *)
(* reconciliation, any of them at any time and again and again.  Each is a  *)
(* worker, that is a Celery process or a web request.  One action is one    *)
(* transaction or one call to Paystack; confirm_order_payment calls         *)
(* Paystack under the row lock of the order, so that call belongs to the    *)
(* transaction.                                                             *)
(***************************************************************************)
EXTENDS Integers, FiniteSets

CONSTANTS
  Orders,        \* primary keys of Order rows, and payment references
  Products,
  Workers,       \* Celery processes and web requests
  None,          \* a model value: no order
  TermChoices,   \* what customers may agree to at checkout
  OpeningStock,  \* Product.stock at the start
  MaxTyped,      \* bound: stock figures admins type are at most this
  MaxEdits,      \* bound on saves of the product form
  MaxUses,       \* DiscountCode.max_uses
  PaymentSteps,  \* pairs <<from, to>>: how a payment's state changes
  Disputable,    \* orders whose customer may dispute the payment
  MaxFaults      \* bound on exceptions and crashes

Nothing == [p \in Products |-> 0]

\* What an order agrees to when it is created: the lines of the cart, whether
\* backorders are allowed, whether a discount code is attached, and whether the
\* customer is a distributor with a place in the tree.
Terms == [cart : [Products -> Nat], backorders : BOOLEAN, coded : BOOLEAN,
          distributor : BOOLEAN]

NoTerms == [cart |-> Nothing, backorders |-> FALSE, coded |-> FALSE,
            distributor |-> FALSE]

\* Paystack's view of the payment.  "paid" and "mispaid" are the status
\* success, with the order's amount and currency or with others.
PaymentStates == {"unseen", "ongoing", "abandoned", "paid", "mispaid", "reversed"}

ASSUME StockAssumption ==
  /\ OpeningStock \in [Products -> Nat]
  /\ MaxTyped \in Nat
  /\ TermChoices \subseteq Terms
ASSUME BoundAssumption ==
  /\ MaxUses \in Nat
  /\ MaxEdits \in Nat
  /\ MaxFaults \in Nat
ASSUME OrdersAssumption ==
  /\ IsFiniteSet(Orders)
  /\ Disputable \subseteq Orders
  /\ None \notin Orders

\* Money that arrived can only leave again, and then the payment is final.
ASSUME PaymentAssumption ==
  PaymentSteps \subseteq
    ({"unseen", "ongoing", "abandoned"} \X (PaymentStates \ {"unseen", "reversed"}))
    \cup ({"paid", "mispaid"} \X {"reversed"})

VARIABLES
  status,     \* Order.status, "none" before the row exists
  confirmed,  \* Order.confirmed_at is set
  terms,      \* columns written once, at checkout
  taken,      \* OrderItem.stock_decremented, per product
  pvEarned,   \* Order.pv_earned is not zero
  age,        \* of a pending order: "new", "stale" (past the cutoff), "ancient"
  stock,      \* Product.stock
  form,       \* the stock figure on an admin's open product form, or -1
  edits,      \* saves of the product form so far
  codeUsed,   \* DiscountCode.times_used
  escrow,     \* EscrowTransaction rows, as <<type, order>>
  credited,   \* orders whose PV stands in the PV ledger
  payment,    \* Paystack: the state of the payment
  refunds,    \* history: calls of refund_transaction
  issue,      \* PaymentIssue of the reference: kind and resolved
  otherNews,  \* history: a refund or a dispute was recorded for the order
  pc,         \* where each worker is
  job,        \* the order it works on, None while idle
  via,        \* who called confirm_order_payment
  gaveBack,   \* its local variable refunded
  faults      \* exceptions and crashes so far

rowVars     == <<status, confirmed, terms, taken, pvEarned, age>>
productVars == <<stock, form, edits>>
bookVars    == <<codeUsed, escrow, credited>>
issueVars   == <<issue, otherNews>>
moneyVars   == <<payment, refunds>>
workerVars  == <<pc, job, via, gaveBack>>
vars == <<rowVars, productVars, bookVars, issueVars, moneyVars, workerVars, faults>>

-----------------------------------------------------------------------------
Live   == {"confirmed", "processing", "dispatched", "delivered"}
Closed == {"cancelled", "refunded"}
Statuses == {"none", "pending"} \cup Live \cup Closed

Kinds == {"none", "order_not_applied", "refund_received", "dispute_opened"}

\* Where confirm_order_payment returns to.
AfterConfirm == [event |-> "idle", first |-> "recheck", second |-> "flag"]

Steps == {"idle", "confirm", "issue", "cancel", "look", "claim", "refund", "settle",
          "check", "unfinished", "close", "recheck", "flag", "undo", "note"}

TypeOK ==
  /\ status \in [Orders -> Statuses]
  /\ confirmed \in [Orders -> BOOLEAN]
  /\ terms \in [Orders -> Terms]
  /\ taken \in [Orders -> [Products -> Nat]]
  /\ pvEarned \in [Orders -> BOOLEAN]
  /\ age \in [Orders -> {"new", "stale", "ancient"}]
  /\ stock \in [Products -> Nat]
  /\ form \in [Products -> Nat \cup {-1}]
  /\ edits \in 0..MaxEdits
  /\ codeUsed \in Nat
  /\ escrow \subseteq {"credit", "reversal"} \X Orders
  /\ credited \subseteq Orders
  /\ payment \in [Orders -> PaymentStates]
  /\ refunds \in [Orders -> Nat]
  /\ issue \in [Orders -> [kind : Kinds, resolved : BOOLEAN]]
  /\ otherNews \in [Orders -> BOOLEAN]
  /\ pc \in [Workers -> Steps]
  /\ job \in [Workers -> Orders \cup {None}]
  /\ via \in [Workers -> DOMAIN AfterConfirm]
  /\ gaveBack \in [Workers -> BOOLEAN]
  /\ \A w \in Workers : job[w] = None <=> pc[w] = "idle"
  /\ faults \in 0..MaxFaults

Init ==
  /\ status = [o \in Orders |-> "none"]
  /\ confirmed = [o \in Orders |-> FALSE]
  /\ terms = [o \in Orders |-> NoTerms]
  /\ taken = [o \in Orders |-> Nothing]
  /\ pvEarned = [o \in Orders |-> FALSE]
  /\ age = [o \in Orders |-> "new"]
  /\ stock = OpeningStock
  /\ form = [p \in Products |-> -1]
  /\ edits = 0
  /\ codeUsed = 0
  /\ escrow = {}
  /\ credited = {}
  /\ payment = [o \in Orders |-> "unseen"]
  /\ refunds = [o \in Orders |-> 0]
  /\ issue = [o \in Orders |-> [kind |-> "none", resolved |-> FALSE]]
  /\ otherNews = [o \in Orders |-> FALSE]
  /\ pc = [w \in Workers |-> "idle"]
  /\ job = [w \in Workers |-> None]
  /\ via = [w \in Workers |-> "event"]
  /\ gaveBack = [w \in Workers |-> FALSE]
  /\ faults = 0

-----------------------------------------------------------------------------
(* Workers.                                                                 *)

Start(w, o, at, caller) ==
  /\ pc[w] = "idle"
  /\ pc' = [pc EXCEPT ![w] = at]
  /\ job' = [job EXCEPT ![w] = o]
  /\ via' = [via EXCEPT ![w] = caller]
  /\ UNCHANGED gaveBack

Goto(w, at) ==
  /\ pc' = [pc EXCEPT ![w] = at]
  /\ UNCHANGED <<job, via, gaveBack>>

Done(w) ==
  /\ pc' = [pc EXCEPT ![w] = "idle"]
  /\ job' = [job EXCEPT ![w] = None]
  /\ via' = [via EXCEPT ![w] = "event"]
  /\ gaveBack' = [gaveBack EXCEPT ![w] = FALSE]

\* confirm_order_payment is over: to the caller's next step, if it has one.
Return(w) ==
  IF via[w] = "event"
    THEN Done(w)
    ELSE /\ pc' = [pc EXCEPT ![w] = AfterConfirm[via[w]]]
         /\ gaveBack' = [gaveBack EXCEPT ![w] = FALSE]
         /\ UNCHANGED <<job, via>>

Fault == faults < MaxFaults /\ faults' = faults + 1

-----------------------------------------------------------------------------
(* Payments and issues.                                                     *)

\* verify_transaction answers success.
Success(o) == payment[o] \in {"paid", "mispaid"}

\* Mutant of PaidInFull: neither the amount nor the currency is compared.
PaidSomething(o) == Success(o)

\* It names the order's amount, in the order's currency.
PaidInFull(o) == payment[o] = "paid"

\* Paystack and the customer: money comes and goes.  The checkout page stays
\* payable, whatever has become of the order.
PaymentMoves(o) ==
  /\ status[o] # "none"
  /\ \E to \in PaymentStates :
       /\ <<payment[o], to>> \in PaymentSteps
       /\ payment' = [payment EXCEPT ![o] = to]
  /\ UNCHANGED <<rowVars, productVars, bookVars, issueVars, refunds, workerVars, faults>>

\* record_payment_issue: one row per reference.  A different problem on the
\* same payment updates the row and opens it again.
IsNews(o, kind) == issue[o].kind # kind

\* Mutant of Record: the row is written in a transaction that is rolled back.
RecordLost(o, kind) == kind \in Kinds /\ UNCHANGED issue

Record(o, kind) ==
  issue' = IF IsNews(o, kind)
             THEN [issue EXCEPT ![o] = [kind |-> kind, resolved |-> FALSE]]
             ELSE issue

Mark(o, resolved) ==
  issue' = [issue EXCEPT ![o] = [kind |-> issue[o].kind, resolved |-> resolved]]

-----------------------------------------------------------------------------
(* Checkout, and the product form of the admin portal.                      *)

\* redeem_discount_code: a code must still be good for one more order; nothing
\* is consumed yet.
Redeemable(choice) == choice.coded => codeUsed < MaxUses

\* consume_discount_code, without asking MaxUses again, and release_discount_code.
ConsumeDiscountCode(o) == codeUsed' = IF terms[o].coded THEN codeUsed + 1 ELSE codeUsed

ReleaseDiscountCode(o) ==
  codeUsed' = IF terms[o].coded /\ codeUsed > 0 THEN codeUsed - 1 ELSE codeUsed

\* create_pending_order.
Checkout(o) ==
  /\ status[o] = "none"
  /\ \E choice \in TermChoices :
       /\ choice.cart # Nothing
       /\ Redeemable(choice)
       /\ terms' = [terms EXCEPT ![o] = choice]
  /\ status' = [status EXCEPT ![o] = "pending"]
  /\ UNCHANGED <<confirmed, taken, pvEarned, age, productVars, bookVars, issueVars,
                 moneyVars, workerVars, faults>>

\* An admin opens the form of a product, which shows its stock.
OpenProductForm(p) ==
  /\ edits < MaxEdits
  /\ form[p] = -1
  /\ form' = [form EXCEPT ![p] = stock[p]]
  /\ UNCHANGED <<rowVars, stock, edits, bookVars, issueVars, moneyVars,
                 workerVars, faults>>

\* Saving it writes every field of the form, the stock figure included,
\* whatever has been sold since.
SaveProductForm(p) ==
  /\ edits < MaxEdits
  /\ edits' = edits + 1
  /\ form[p] # -1
  /\ \E typed \in 0..MaxTyped : stock' = [stock EXCEPT ![p] = typed]
  /\ form' = [form EXCEPT ![p] = -1]
  /\ UNCHANGED <<rowVars, bookVars, issueVars, moneyVars, workerVars, faults>>

\* Time passes: the auto-cancel cutoff, then UNFINISHED_PAYMENT_MAX_AGE.
GrowOld(o) ==
  /\ status[o] = "pending"
  /\ \/ age[o] = "new" /\ age' = [age EXCEPT ![o] = "stale"]
     \/ age[o] = "stale" /\ age' = [age EXCEPT ![o] = "ancient"]
  /\ UNCHANGED <<status, confirmed, terms, taken, pvEarned, productVars, bookVars,
                 issueVars, moneyVars, workerVars, faults>>

-----------------------------------------------------------------------------
(* confirm_order_payment.                                                   *)

\* charge.success webhook, payment callback: anybody who knows the reference.
StartConfirm(w, o) ==
  /\ status[o] # "none"
  /\ Start(w, o, "confirm", "event")
  /\ UNCHANGED <<rowVars, productVars, bookVars, issueVars, moneyVars, faults>>

\* decrement_stock of one line: what is there when backorders are allowed.
Takes(o, p) ==
  IF terms[o].cart[p] <= stock[p] THEN terms[o].cart[p] ELSE stock[p]

InStock(o) == \A p \in Products : terms[o].cart[p] <= stock[p]

\* Mutant of Fillable: a short line does not stop the order.
AlwaysFillable(o) == o \in Orders

Fillable(o) == terms[o].backorders \/ InStock(o)

Awaiting(o) == status[o] = "pending"

\* One row of each type for an order: a reversal answers its credit, once.
CreditEscrow(o) == escrow' = escrow \cup {<<"credit", o>>}

ReverseEscrow(o) ==
  escrow' = IF <<"credit", o>> \in escrow
              THEN escrow \cup {<<"reversal", o>>} ELSE escrow

\* The payment is right and the goods are there: everything in one transaction.
ApplyPayment(w) ==
  LET o == job[w] IN
  /\ pc[w] = "confirm"
  /\ Awaiting(o)
  /\ PaidInFull(o)
  /\ Fillable(o)
  /\ taken' = [taken EXCEPT ![o] = [p \in Products |-> Takes(o, p)]]
  /\ stock' = [p \in Products |-> stock[p] - Takes(o, p)]
  /\ ConsumeDiscountCode(o)
  /\ pvEarned' = [pvEarned EXCEPT ![o] = terms[o].distributor]
  /\ credited' = IF terms[o].distributor THEN credited \cup {o} ELSE credited
  /\ CreditEscrow(o)
  /\ status' = [status EXCEPT ![o] = "confirmed"]
  /\ confirmed' = [confirmed EXCEPT ![o] = TRUE]
  /\ Return(w)
  /\ UNCHANGED <<terms, age, form, edits, issueVars, moneyVars, faults>>

\* InsufficientStockError: the transaction is rolled back, the order stays
\* pending until _cancel_order_for_insufficient_stock takes the lock again.
FindNoStock(w) ==
  LET o == job[w] IN
  /\ pc[w] = "confirm"
  /\ Awaiting(o)
  /\ PaidInFull(o)
  /\ ~Fillable(o)
  /\ Goto(w, "cancel")
  /\ UNCHANGED <<rowVars, productVars, bookVars, issueVars, moneyVars, faults>>

\* The wrong amount or currency, or money for an order that was closed unpaid.
NeedsIssue(o) ==
  /\ Success(o)
  /\ \/ Awaiting(o) /\ ~PaidInFull(o)
     \/ ~Awaiting(o) /\ ~confirmed[o]

FindIssue(w) ==
  /\ pc[w] = "confirm"
  /\ NeedsIssue(job[w])
  /\ Goto(w, "issue")
  /\ UNCHANGED <<rowVars, productVars, bookVars, issueVars, moneyVars, faults>>

\* Not paid, or applied before.
FindNothing(w) ==
  LET o == job[w] IN
  /\ pc[w] = "confirm"
  /\ ~Success(o) \/ (~Awaiting(o) /\ confirmed[o])
  /\ Return(w)
  /\ UNCHANGED <<rowVars, productVars, bookVars, issueVars, moneyVars, faults>>

RecordIssue(w) ==
  /\ pc[w] = "issue"
  /\ Record(job[w], "order_not_applied")
  /\ Return(w)
  /\ UNCHANGED <<rowVars, productVars, bookVars, otherNews, moneyVars, faults>>

\* Paystack cannot be reached, or the issue cannot be written: VERIFY_FAILED.
GiveUp(w) ==
  /\ pc[w] \in {"confirm", "issue", "claim"}
  /\ Fault
  /\ Return(w)
  /\ UNCHANGED <<rowVars, productVars, bookVars, issueVars, moneyVars>>

-----------------------------------------------------------------------------
(* Stock-outs: _cancel_order_for_insufficient_stock and                     *)
(* _refund_unfulfillable_order.                                             *)

CancelForStock(w) ==
  /\ pc[w] = "cancel"
  /\ Awaiting(job[w])
  /\ status' = [status EXCEPT ![job[w]] = "cancelled"]
  /\ Goto(w, "claim")
  /\ UNCHANGED <<confirmed, terms, taken, pvEarned, age, productVars, bookVars,
                 issueVars, moneyVars, faults>>

\* Somebody else dealt with the order meanwhile.
FindNotPending(w) ==
  /\ pc[w] = "cancel"
  /\ ~Awaiting(job[w])
  /\ Goto(w, "look")
  /\ UNCHANGED <<rowVars, productVars, bookVars, issueVars, moneyVars, faults>>

LookForIssue(w) ==
  /\ pc[w] = "look"
  /\ IF issue[job[w]].kind = "none" THEN Goto(w, "claim") ELSE Return(w)
  /\ UNCHANGED <<rowVars, productVars, bookVars, issueVars, moneyVars, faults>>

\* Mutant of Claims: a row somebody else wrote is a claim as well.
ClaimsAnyRow(o) == o \in Orders

\* The issue is the claim: only whoever wrote it calls Paystack.
Claims(o) == IsNews(o, "order_not_applied")

ClaimRefund(w) ==
  LET o == job[w] IN
  /\ pc[w] = "claim"
  /\ Record(o, "order_not_applied")
  /\ IF Claims(o) THEN Goto(w, "refund") ELSE Return(w)
  /\ UNCHANGED <<rowVars, productVars, bookVars, otherNews, moneyVars, faults>>

\* refund_transaction: accepted, refused because the money is gone already, or
\* a call that failed or timed out.
AskRefund(w) ==
  LET o == job[w] IN
  /\ pc[w] = "refund"
  /\ refunds' = [refunds EXCEPT ![o] = @ + 1]
  /\ \/ gaveBack' = [gaveBack EXCEPT ![w] = Success(o)] /\ UNCHANGED faults
     \/ gaveBack' = [gaveBack EXCEPT ![w] = FALSE] /\ Fault
  /\ pc' = [pc EXCEPT ![w] = "settle"]
  /\ UNCHANGED <<rowVars, productVars, bookVars, issueVars, payment, job, via>>

\* The row is updated by primary key, whatever it says by now.
SettleClaim(w) ==
  /\ pc[w] = "settle"
  /\ Mark(job[w], gaveBack[w])
  /\ Return(w)
  /\ UNCHANGED <<rowVars, productVars, bookVars, otherNews, moneyVars, faults>>

-----------------------------------------------------------------------------
(* auto_cancel_unpaid_orders: _auto_cancel_pending_order for one order.     *)

\* _pending_order_ids_query
PendingOrderIds == {o \in Orders : Awaiting(o) /\ age[o] # "new"}

\* A cycle takes up one order after another.  That two cycles exclude each other
\* by a lock is left out: the lock expires, and nothing relies on it.
StartAutoCancel(w, o) ==
  /\ o \in PendingOrderIds
  /\ Start(w, o, "check", "event")
  /\ UNCHANGED <<rowVars, productVars, bookVars, issueVars, moneyVars, faults>>

\* Mutant of Verdict: an unfinished payment is waited for without end.
VerdictWithoutLimit(o) ==
  CASE Success(o) -> "confirm"
    [] payment[o] = "ongoing" -> "idle"
    [] OTHER -> "close"

\* verify_transaction, outside the lock.  A payment still under way keeps the
\* order open for two weeks.
Verdict(o) ==
  CASE Success(o) -> "confirm"
    [] payment[o] = "ongoing" /\ age[o] = "ancient" -> "unfinished"
    [] payment[o] = "ongoing" /\ age[o] # "ancient" -> "idle"
    [] OTHER -> "close"

CheckPayment(w) ==
  /\ pc[w] = "check"
  /\ IF Verdict(job[w]) = "idle" THEN Done(w) ELSE Goto(w, Verdict(job[w]))
  /\ UNCHANGED <<rowVars, productVars, bookVars, issueVars, moneyVars, faults>>

\* Its result is not looked at: the order is closed even if nothing was written.
RecordUnfinished(w) ==
  /\ pc[w] = "unfinished"
  /\ \/ Record(job[w], "order_not_applied") /\ UNCHANGED faults
     \/ Fault /\ UNCHANGED issue
  /\ Goto(w, "close")
  /\ UNCHANGED <<rowVars, productVars, bookVars, otherNews, moneyVars>>

\* The status is read again under the lock.
CloseUnpaid(w) ==
  /\ pc[w] = "close"
  /\ status' = IF Awaiting(job[w]) THEN [status EXCEPT ![job[w]] = "cancelled"] ELSE status
  /\ Done(w)
  /\ UNCHANGED <<confirmed, terms, taken, pvEarned, age, productVars, bookVars,
                 issueVars, moneyVars, faults>>

-----------------------------------------------------------------------------
(* reconcile_paystack_payments: _reconcile_one and _apply_or_flag.          *)

\* Mutant of Applied: an order that is no longer pending counts as applied.
NotPending(o) == status[o] # "pending"

\* is_applied: confirmed_at, not the status.
Applied(o) == confirmed[o]

\* Among the successful payments that reconcile_paystack_payments goes through.
Listed(o) == status[o] # "none" /\ Success(o)

\* Paystack lists the payment and nothing is known of it.
StartReconcile(w, o) ==
  /\ Listed(o)
  /\ issue[o].kind = "none"
  /\ ~Applied(o)
  /\ Start(w, o, "confirm", "first")
  /\ UNCHANGED <<rowVars, productVars, bookVars, issueVars, moneyVars, faults>>

Recheck(w) ==
  /\ pc[w] = "recheck"
  /\ IF ~Applied(job[w]) /\ Success(job[w])
       THEN /\ pc' = [pc EXCEPT ![w] = "confirm"]
            /\ via' = [via EXCEPT ![w] = "second"]
            /\ UNCHANGED <<job, gaveBack>>
       ELSE Done(w)
  /\ UNCHANGED <<rowVars, productVars, bookVars, issueVars, moneyVars, faults>>

Flag(w) ==
  /\ pc[w] = "flag"
  /\ IF Applied(job[w])
       THEN Done(w)
       ELSE /\ pc' = [pc EXCEPT ![w] = "issue"]
            /\ via' = [via EXCEPT ![w] = "event"]
            /\ UNCHANGED <<job, gaveBack>>
  /\ UNCHANGED <<rowVars, productVars, bookVars, issueVars, moneyVars, faults>>

-----------------------------------------------------------------------------
(* cancel_or_refund_order, by an admin or because the money went back.      *)

\* Mutant of CanEndAs: a cancelled order is refunded, and undone twice.
CanEndTwice == [cancelled |-> {"confirmed", "processing"},
                refunded |-> Live \cup {"cancelled"}]

\* What _ALLOWED_TRANSITIONS says of the two ends.
CanEndAs == [cancelled |-> {"confirmed", "processing"}, refunded |-> Live]

\* Mutant of TakenBack: the whole cart goes back, backordered lines included.
CartBack(o) == terms[o].cart

\* Units that go back on the shelf.
TakenBack(o) == taken[o]

CancelOrRefund(o, to, restock) ==
  /\ status[o] \in CanEndAs[to]
  /\ credited' = IF pvEarned[o] THEN credited \ {o} ELSE credited
  /\ pvEarned' = [pvEarned EXCEPT ![o] = FALSE]
  /\ ReverseEscrow(o)
  /\ stock' = IF to = "cancelled" \/ restock
                THEN [p \in Products |-> stock[p] + TakenBack(o)[p]] ELSE stock
  /\ ReleaseDiscountCode(o)
  /\ status' = [status EXCEPT ![o] = to]
  /\ UNCHANGED <<confirmed, terms, taken, age, form, edits>>

\* order_management_action: cancel and refund.
CancelOrder(o) ==
  /\ CancelOrRefund(o, "cancelled", TRUE)
  /\ UNCHANGED <<issueVars, moneyVars, workerVars, faults>>

RefundOrder(o) ==
  /\ \E restock \in BOOLEAN : CancelOrRefund(o, "refunded", restock)
  /\ UNCHANGED <<issueVars, moneyVars, workerVars, faults>>

NextStage == [confirmed |-> "processing", processing |-> "dispatched",
              dispatched |-> "delivered"]

AdvanceOrderStatus(o) ==
  /\ status[o] \in DOMAIN NextStage
  /\ status' = [status EXCEPT ![o] = NextStage[@]]
  /\ UNCHANGED <<confirmed, terms, taken, pvEarned, age, productVars, bookVars,
                 issueVars, moneyVars, workerVars, faults>>

-----------------------------------------------------------------------------
(* Refund and dispute webhooks, and the Payments page.                      *)

\* handle_external_refund: the payment is verified to be reversed.
StartRefundEvent(w, o) ==
  /\ payment[o] = "reversed"
  /\ status[o] # "refunded"
  /\ Start(w, o, "undo", "event")
  /\ UNCHANGED <<rowVars, productVars, bookVars, issueVars, moneyVars, faults>>

\* The goods are not put back; a pending or closed order is left as it is.
UndoOrder(w) ==
  LET o == job[w] IN
  /\ pc[w] = "undo"
  /\ IF status[o] \in Live
       THEN CancelOrRefund(o, "refunded", FALSE)
       ELSE UNCHANGED <<rowVars, productVars, bookVars>>
  /\ Goto(w, "note")
  /\ UNCHANGED <<issueVars, moneyVars, faults>>

\* _refund_order swallows an exception and reports the order as it stands.
UndoFails(w) ==
  /\ pc[w] = "undo"
  /\ Fault
  /\ Goto(w, "note")
  /\ UNCHANGED <<rowVars, productVars, bookVars, issueVars, moneyVars>>

NoteRefund(w) ==
  LET o == job[w] IN
  /\ pc[w] = "note"
  /\ Record(o, "refund_received")
  /\ otherNews' = [otherNews EXCEPT ![o] = TRUE]
  /\ Done(w)
  /\ UNCHANGED <<rowVars, productVars, bookVars, moneyVars, faults>>

\* handle_payment_dispute, for a payment that was made.
HandlePaymentDispute(o) ==
  /\ o \in Disputable
  /\ Success(o) \/ payment[o] = "reversed"
  /\ Record(o, "dispute_opened")
  /\ otherNews' = [otherNews EXCEPT ![o] = TRUE]
  /\ UNCHANGED <<rowVars, productVars, bookVars, moneyVars, workerVars, faults>>

\* payment_issue_resolve and payment_issue_reopen.
MarkIssue(o) ==
  /\ issue[o].kind # "none"
  /\ Mark(o, ~issue[o].resolved)
  /\ UNCHANGED <<rowVars, productVars, bookVars, otherNews, moneyVars, workerVars, faults>>

\* An exception, or the end of the process: whatever has been committed stays.
Fails(w) ==
  /\ pc[w] # "idle"
  /\ Fault
  /\ Done(w)
  /\ UNCHANGED <<rowVars, productVars, bookVars, issueVars, moneyVars>>

-----------------------------------------------------------------------------
Confirming(w) == ApplyPayment(w) \/ FindNoStock(w) \/ FindIssue(w)
                 \/ FindNothing(w) \/ RecordIssue(w)

Refunding(w) == CancelForStock(w) \/ FindNotPending(w) \/ LookForIssue(w)
                \/ ClaimRefund(w) \/ AskRefund(w) \/ SettleClaim(w)

Cancelling(w) == CheckPayment(w) \/ RecordUnfinished(w) \/ CloseUnpaid(w)

Reconciling(w) == Recheck(w) \/ Flag(w)

Undoing(w) == UndoOrder(w) \/ NoteRefund(w)

WorkerStep(w) == Confirming(w) \/ Refunding(w) \/ Cancelling(w)
                 \/ Reconciling(w) \/ Undoing(w)

Setback(w) == GiveUp(w) \/ UndoFails(w) \/ Fails(w)

Begin(w, o) == StartConfirm(w, o) \/ StartAutoCancel(w, o)
               \/ StartReconcile(w, o) \/ StartRefundEvent(w, o)

Staff(o) == CancelOrder(o) \/ RefundOrder(o) \/ AdvanceOrderStatus(o) \/ MarkIssue(o)

Outside(o) == Checkout(o) \/ GrowOld(o) \/ PaymentMoves(o) \/ HandlePaymentDispute(o)

Next ==
  \/ \E w \in Workers : WorkerStep(w) \/ Setback(w)
  \/ \E w \in Workers, o \in Orders : Begin(w, o)
  \/ \E o \in Orders : Staff(o) \/ Outside(o)
  \/ \E p \in Products : OpenProductForm(p) \/ SaveProductForm(p)

Spec == Init /\ [][Next]_vars

\* A worker that runs goes on; time passes; beat starts the auto-cancel job and
\* the reconciliation for ever, so each order has its turn when it stays due.
Fairness ==
  /\ \A w \in Workers : WF_vars(WorkerStep(w))
  /\ \A o \in Orders :
       /\ WF_vars(GrowOld(o))
       /\ SF_vars(\E w \in Workers : StartAutoCancel(w, o))
       /\ SF_vars(\E w \in Workers : StartReconcile(w, o))

FairSpec == Spec /\ Fairness
=============================================================================
