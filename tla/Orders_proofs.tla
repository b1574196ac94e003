---------------------------- MODULE Orders_proofs ----------------------------
(***************************************************************************)
(* Theorems about Orders, for any number of orders, products, workers and   *)
(* faults: the inductive invariant OrdersInvariant!IInv, the properties it  *)
(* carries, and the refinement of Fulfilment.                               *)
(***************************************************************************)
EXTENDS OrdersInvariant, FiniteSetTheorems, TLAPS

-----------------------------------------------------------------------------
(* Types.                                                                   *)

\* TypeOK by parts, one for each group of variables.
RowType ==
  /\ status \in [Orders -> Statuses]
  /\ confirmed \in [Orders -> BOOLEAN]
  /\ terms \in [Orders -> Terms]
  /\ taken \in [Orders -> [Products -> Nat]]
  /\ pvEarned \in [Orders -> BOOLEAN]
  /\ age \in [Orders -> {"new", "stale", "ancient"}]

ProductType ==
  /\ stock \in [Products -> Nat]
  /\ form \in [Products -> Nat \cup {-1}]
  /\ edits \in 0..MaxEdits

BookType ==
  /\ codeUsed \in Nat
  /\ escrow \subseteq {"credit", "reversal"} \X Orders
  /\ credited \subseteq Orders

MoneyType ==
  /\ payment \in [Orders -> PaymentStates]
  /\ refunds \in [Orders -> Nat]

IssueType ==
  /\ issue \in [Orders -> [kind : Kinds, resolved : BOOLEAN]]
  /\ otherNews \in [Orders -> BOOLEAN]

WorkerType ==
  /\ pc \in [Workers -> Steps]
  /\ job \in [Workers -> Orders \cup {None}]
  /\ via \in [Workers -> DOMAIN AfterConfirm]
  /\ gaveBack \in [Workers -> BOOLEAN]
  /\ \A w \in Workers : job[w] = None <=> pc[w] = "idle"

FaultType == faults \in 0..MaxFaults

AllTyped == RowType /\ ProductType /\ BookType /\ MoneyType /\ IssueType
            /\ WorkerType /\ FaultType

\* The parts make the whole, before a step and after it.
LEMMA TypeParts == (TypeOK <=> AllTyped) /\ (TypeOK' <=> AllTyped')
BY DEF TypeOK, AllTyped, RowType, ProductType, BookType, MoneyType, IssueType, WorkerType, FaultType

\* The callers of confirm_order_payment, and where each goes on.
LEMMA Callers ==
  /\ DOMAIN AfterConfirm = {"event", "first", "second"}
  /\ AfterConfirm["first"] = "recheck"
  /\ AfterConfirm["second"] = "flag"
BY DEF AfterConfirm

\* A worker that is not idle has an order in hand.
LEMMA HasJob ==
  ASSUME WorkerType, NEW w \in Workers, pc[w] # "idle"
  PROVE  job[w] \in Orders
BY DEF WorkerType

\* Only a worker that is not idle has a step.
LEMMA Busy ==
  ASSUME NEW w \in Workers, WorkerStep(w) \/ Setback(w)
  PROVE  pc[w] # "idle"
BY DEF WorkerStep, Setback, Confirming, Refunding, Cancelling, Reconciling, Undoing,
   ApplyPayment, FindNoStock, FindIssue, FindNothing, RecordIssue, CancelForStock,
   FindNotPending, LookForIssue, ClaimRefund, AskRefund, SettleClaim, CheckPayment,
   RecordUnfinished, CloseUnpaid, Recheck, Flag, UndoOrder, NoteRefund, GiveUp,
   UndoFails, Fails

\* The moves of a worker keep the types of its variables.
LEMMA StartTyped ==
  ASSUME WorkerType, NEW w \in Workers, NEW o \in Orders, NEW at \in Steps \ {"idle"},
         NEW caller \in {"event", "first", "second"}, Start(w, o, at, caller)
  PROVE  WorkerType'
BY Callers, OrdersAssumption DEF WorkerType, Start

\* A worker that goes on keeps its order.
LEMMA GotoTyped ==
  ASSUME WorkerType, NEW w \in Workers, pc[w] # "idle", NEW at \in Steps \ {"idle"},
         Goto(w, at)
  PROVE  WorkerType'
BY DEF WorkerType, Goto

\* A worker that is done gives its order back.
LEMMA DoneTyped ==
  ASSUME WorkerType, NEW w \in Workers, Done(w)
  PROVE  WorkerType'
BY Callers, OrdersAssumption DEF WorkerType, Done, Steps

\* A worker returns from confirm_order_payment to idle or to its caller.
LEMMA ReturnTyped ==
  ASSUME WorkerType, NEW w \in Workers, pc[w] # "idle", Return(w)
  PROVE  WorkerType'
<1>1. CASE via[w] = "event"
  BY <1>1, DoneTyped DEF Return
<1>2. CASE via[w] # "event"
  <2>1. AfterConfirm[via[w]] \in Steps \ {"idle"}
    BY <1>2, Callers DEF WorkerType, Steps
  <2>2. /\ pc' = [pc EXCEPT ![w] = AfterConfirm[via[w]]]
        /\ gaveBack' = [gaveBack EXCEPT ![w] = FALSE]
        /\ UNCHANGED <<job, via>>
    BY <1>2 DEF Return
  <2>3. QED
    BY <2>1, <2>2 DEF WorkerType
<1>3. QED
  BY <1>1, <1>2

\* Faults are counted up to their bound.
LEMMA FaultTyped ==
  ASSUME FaultType, Fault
  PROVE  FaultType'
BY BoundAssumption DEF FaultType, Fault

\* Writing an issue keeps its type.
LEMMA RecordTyped ==
  ASSUME IssueType, NEW o \in Orders, NEW kind \in Kinds, Record(o, kind)
  PROVE  issue' \in [Orders -> [kind : Kinds, resolved : BOOLEAN]]
BY DEF IssueType, Record, IsNews

\* What an action leaves alone keeps its type.
LEMMA PartsStand ==
  /\ RowType /\ UNCHANGED rowVars => RowType'
  /\ ProductType /\ UNCHANGED productVars => ProductType'
  /\ BookType /\ UNCHANGED bookVars => BookType'
  /\ MoneyType /\ UNCHANGED moneyVars => MoneyType'
  /\ IssueType /\ UNCHANGED issueVars => IssueType'
  /\ WorkerType /\ UNCHANGED workerVars => WorkerType'
  /\ FaultType /\ UNCHANGED faults => FaultType'
BY DEF RowType, ProductType, BookType, MoneyType, IssueType, WorkerType, FaultType,
       rowVars, productVars, bookVars, moneyVars, issueVars, workerVars

\* Actions that move a worker and nothing else, or a worker and the fault counter.
LEMMA QuietTyped ==
  ASSUME AllTyped, NEW w \in Workers, NEW o \in Orders,
         \/ Begin(w, o) \/ FindNoStock(w) \/ FindIssue(w) \/ FindNothing(w) \/ GiveUp(w)
         \/ FindNotPending(w) \/ LookForIssue(w) \/ CheckPayment(w) \/ Recheck(w)
         \/ Flag(w) \/ UndoFails(w) \/ Fails(w)
  PROVE  AllTyped'
<1>1. ASSUME UNCHANGED <<rowVars, productVars, bookVars, issueVars, moneyVars>>,
             WorkerType', FaultType'
      PROVE  AllTyped'
  BY <1>1, PartsStand DEF AllTyped
<1>2. CASE Begin(w, o)
  BY <1>1, <1>2, StartTyped, PartsStand
     DEF AllTyped, Begin, StartConfirm, StartAutoCancel, StartReconcile, StartRefundEvent, Steps
<1>3. CASE FindNoStock(w) \/ FindIssue(w) \/ FindNothing(w) \/ GiveUp(w)
  BY <1>1, <1>3, GotoTyped, ReturnTyped, FaultTyped, PartsStand
     DEF AllTyped, FindNoStock, FindIssue, FindNothing, GiveUp, Steps
<1>4. CASE FindNotPending(w) \/ LookForIssue(w)
  BY <1>1, <1>4, GotoTyped, ReturnTyped, PartsStand
     DEF AllTyped, FindNotPending, LookForIssue, Steps
<1>5. CASE CheckPayment(w)
  BY <1>1, <1>5, GotoTyped, DoneTyped, PartsStand
     DEF AllTyped, CheckPayment, Verdict, Steps
<1>6. CASE Recheck(w)
  <2>1. CASE Done(w)
    BY <1>1, <1>6, <2>1, DoneTyped, PartsStand DEF AllTyped, Recheck
  <2>2. CASE ~Done(w)
    <3>1. WorkerType'
      BY <1>6, <2>2, Callers DEF AllTyped, Recheck, WorkerType, Steps
    <3>2. QED
      BY <1>1, <1>6, <3>1, PartsStand DEF AllTyped, Recheck
  <2>3. QED
    BY <2>1, <2>2
<1>7. CASE Flag(w)
  <2>1. CASE Done(w)
    BY <1>1, <1>7, <2>1, DoneTyped, PartsStand DEF AllTyped, Flag
  <2>2. CASE ~Done(w)
    <3>1. WorkerType'
      BY <1>7, <2>2, Callers DEF AllTyped, Flag, WorkerType, Steps
    <3>2. QED
      BY <1>1, <1>7, <3>1, PartsStand DEF AllTyped, Flag
  <2>3. QED
    BY <2>1, <2>2
<1>8. CASE UndoFails(w) \/ Fails(w)
  BY <1>1, <1>8, GotoTyped, DoneTyped, FaultTyped, PartsStand
     DEF AllTyped, UndoFails, Fails, Steps
<1>9. QED
  BY <1>2, <1>3, <1>4, <1>5, <1>6, <1>7, <1>8

\* Undoing an order keeps the types of its row, its books and the shelf.
LEMMA UndoTyped ==
  ASSUME RowType, ProductType, BookType, NEW o \in Orders,
         NEW to \in {"cancelled", "refunded"}, NEW restock \in BOOLEAN,
         CancelOrRefund(o, to, restock)
  PROVE  RowType' /\ ProductType' /\ BookType'
<1>1. RowType'
  BY DEF RowType, CancelOrRefund, Statuses, Closed
<1>2. ProductType'
  BY DEF ProductType, RowType, CancelOrRefund, TakenBack
<1>3. BookType'
  BY DEF BookType, CancelOrRefund, ReleaseDiscountCode, ReverseEscrow
<1>4. QED
  BY <1>1, <1>2, <1>3

\* So does confirming one: a line takes no more than is there.
LEMMA ApplyTyped ==
  ASSUME AllTyped, NEW w \in Workers, ApplyPayment(w)
  PROVE  AllTyped'
<1> DEFINE o == job[w]
<1>1. o \in Orders
  BY HasJob DEF AllTyped, ApplyPayment
<1>2. \A p \in Products : Takes(o, p) \in Nat /\ Takes(o, p) <= stock[p]
  BY <1>1 DEF AllTyped, RowType, ProductType, Terms, Takes
<1>3. RowType'
  BY <1>1, <1>2 DEF AllTyped, RowType, ApplyPayment, Statuses, Live, Terms
<1>4. ProductType'
  BY <1>2 DEF AllTyped, ProductType, ApplyPayment
<1>5. BookType'
  BY <1>1 DEF AllTyped, BookType, ApplyPayment, ConsumeDiscountCode, CreditEscrow
<1>6. WorkerType'
  BY ReturnTyped DEF AllTyped, ApplyPayment
<1>7. QED
  BY <1>3, <1>4, <1>5, <1>6, PartsStand DEF AllTyped, ApplyPayment

\* The other steps of a worker, each of which writes a row or an issue.
LEMMA BusyTyped ==
  ASSUME AllTyped, NEW w \in Workers,
         \/ RecordIssue(w) \/ CancelForStock(w) \/ ClaimRefund(w) \/ AskRefund(w)
         \/ SettleClaim(w) \/ RecordUnfinished(w) \/ CloseUnpaid(w) \/ UndoOrder(w)
         \/ NoteRefund(w)
  PROVE  AllTyped'
<1> DEFINE o == job[w]
<1>1. o \in Orders
  BY HasJob DEF AllTyped, RecordIssue, CancelForStock, ClaimRefund, AskRefund,
                SettleClaim, RecordUnfinished, CloseUnpaid, UndoOrder, NoteRefund
<1>2. CASE RecordIssue(w)
  <2>1. IssueType'
    BY <1>1, <1>2, RecordTyped DEF AllTyped, RecordIssue, IssueType, Kinds
  <2>2. QED
    BY <1>2, <2>1, ReturnTyped, PartsStand DEF AllTyped, RecordIssue
<1>3. CASE CancelForStock(w)
  <2>1. RowType'
    BY <1>1, <1>3 DEF AllTyped, RowType, CancelForStock, Statuses, Closed
  <2>2. QED
    BY <1>3, <2>1, GotoTyped, PartsStand DEF AllTyped, CancelForStock, Steps
<1>4. CASE ClaimRefund(w)
  <2>1. IssueType'
    BY <1>1, <1>4, RecordTyped DEF AllTyped, ClaimRefund, IssueType, Kinds
  <2>2. QED
    BY <1>4, <2>1, GotoTyped, ReturnTyped, PartsStand DEF AllTyped, ClaimRefund, Steps
<1>5. CASE AskRefund(w)
  <2>1. MoneyType'
    BY <1>1, <1>5 DEF AllTyped, MoneyType, AskRefund
  <2>2. Success(o) \in BOOLEAN
    BY DEF Success
  <2>3. gaveBack' \in [Workers -> BOOLEAN]
    BY <1>5, <2>2 DEF AllTyped, WorkerType, AskRefund
  <2>4. WorkerType'
    BY <1>5, <2>3 DEF AllTyped, WorkerType, AskRefund, Steps
  <2>5. FaultType'
    BY <1>5, FaultTyped, PartsStand DEF AllTyped, AskRefund
  <2>6. QED
    BY <1>5, <2>1, <2>4, <2>5, PartsStand DEF AllTyped, AskRefund
<1>6. CASE SettleClaim(w)
  <2>1. IssueType'
    BY <1>1, <1>6 DEF AllTyped, IssueType, WorkerType, SettleClaim, Mark
  <2>2. QED
    BY <1>6, <2>1, ReturnTyped, PartsStand DEF AllTyped, SettleClaim
<1>7. CASE RecordUnfinished(w)
  <2>1. IssueType'
    BY <1>1, <1>7, RecordTyped DEF AllTyped, RecordUnfinished, IssueType, Kinds
  <2>2. QED
    BY <1>7, <2>1, GotoTyped, FaultTyped, PartsStand DEF AllTyped, RecordUnfinished, Steps
<1>8. CASE CloseUnpaid(w)
  <2>1. RowType'
    BY <1>1, <1>8 DEF AllTyped, RowType, CloseUnpaid, Statuses, Closed
  <2>2. QED
    BY <1>8, <2>1, DoneTyped, PartsStand DEF AllTyped, CloseUnpaid
<1>9. CASE UndoOrder(w)
  <2>1. RowType' /\ ProductType' /\ BookType'
    BY <1>1, <1>9, UndoTyped, PartsStand DEF AllTyped, UndoOrder
  <2>2. QED
    BY <1>9, <2>1, GotoTyped, PartsStand DEF AllTyped, UndoOrder, Steps
<1>10. CASE NoteRefund(w)
  <2>1. IssueType'
    BY <1>1, <1>10, RecordTyped DEF AllTyped, NoteRefund, IssueType, Kinds
  <2>2. QED
    BY <1>10, <2>1, DoneTyped, PartsStand DEF AllTyped, NoteRefund
<1>11. QED
  BY <1>2, <1>3, <1>4, <1>5, <1>6, <1>7, <1>8, <1>9, <1>10

\* Steps of people and of Paystack.
LEMMA PeopleTyped ==
  ASSUME AllTyped, NEW o \in Orders, Staff(o) \/ Outside(o)
  PROVE  AllTyped'
<1>1. CASE CancelOrder(o) \/ RefundOrder(o)
  BY <1>1, UndoTyped, PartsStand DEF AllTyped, CancelOrder, RefundOrder
<1>2. CASE AdvanceOrderStatus(o)
  <2>1. RowType'
    BY <1>2 DEF AllTyped, RowType, AdvanceOrderStatus, NextStage, Statuses, Live
  <2>2. QED
    BY <1>2, <2>1, PartsStand DEF AllTyped, AdvanceOrderStatus
<1>3. CASE MarkIssue(o)
  <2>1. IssueType'
    BY <1>3 DEF AllTyped, IssueType, MarkIssue, Mark
  <2>2. QED
    BY <1>3, <2>1, PartsStand DEF AllTyped, MarkIssue
<1>4. CASE Checkout(o)
  <2>1. RowType'
    BY <1>4, StockAssumption DEF AllTyped, RowType, Checkout, Statuses
  <2>2. QED
    BY <1>4, <2>1, PartsStand DEF AllTyped, Checkout
<1>5. CASE GrowOld(o)
  <2>1. RowType'
    BY <1>5 DEF AllTyped, RowType, GrowOld
  <2>2. QED
    BY <1>5, <2>1, PartsStand DEF AllTyped, GrowOld
<1>6. CASE PaymentMoves(o)
  <2>1. MoneyType'
    BY <1>6 DEF AllTyped, MoneyType, PaymentMoves
  <2>2. QED
    BY <1>6, <2>1, PartsStand DEF AllTyped, PaymentMoves
<1>7. CASE HandlePaymentDispute(o)
  <2>1. IssueType'
    BY <1>7, RecordTyped DEF AllTyped, HandlePaymentDispute, IssueType, Kinds
  <2>2. QED
    BY <1>7, <2>1, PartsStand DEF AllTyped, HandlePaymentDispute
<1>8. QED
  BY <1>1, <1>2, <1>3, <1>4, <1>5, <1>6, <1>7 DEF Staff, Outside

\* The product form.
LEMMA FormTyped ==
  ASSUME AllTyped, NEW p \in Products, OpenProductForm(p) \/ SaveProductForm(p)
  PROVE  AllTyped'
<1>1. CASE OpenProductForm(p)
  <2>1. ProductType'
    BY <1>1 DEF AllTyped, ProductType, OpenProductForm
  <2>2. QED
    BY <1>1, <2>1, PartsStand DEF AllTyped, OpenProductForm
<1>2. CASE SaveProductForm(p)
  <2>1. ProductType'
    BY <1>2, BoundAssumption, StockAssumption DEF AllTyped, ProductType, SaveProductForm
  <2>2. QED
    BY <1>2, <2>1, PartsStand DEF AllTyped, SaveProductForm
<1>3. QED
  BY <1>1, <1>2

\* The initial states are well typed.
LEMMA InitTyped == Init => TypeOK
<1> SUFFICES ASSUME Init PROVE AllTyped
  BY TypeParts
<1>1. RowType /\ BookType /\ MoneyType /\ IssueType /\ FaultType
  BY BoundAssumption DEF Init, RowType, BookType, MoneyType, IssueType, FaultType,
     Statuses, Terms, NoTerms, Nothing, PaymentStates, Kinds
<1>2. ProductType
  BY BoundAssumption, StockAssumption DEF Init, ProductType
<1>3. WorkerType
  BY Callers, OrdersAssumption DEF Init, WorkerType, Steps
<1>4. QED
  BY <1>1, <1>2, <1>3 DEF AllTyped

\* Every step keeps the types.
LEMMA StepTyped == TypeOK /\ [Next]_vars => TypeOK'
<1> SUFFICES ASSUME AllTyped, [Next]_vars PROVE AllTyped'
  BY TypeParts
<1>1. ASSUME NEW w \in Workers, WorkerStep(w) \/ Setback(w)
      PROVE  AllTyped'
  <2>1. job[w] \in Orders
    BY <1>1, Busy, HasJob DEF AllTyped
  <2>2. QED
    BY <1>1, <2>1, QuietTyped, ApplyTyped, BusyTyped
       DEF WorkerStep, Setback, Confirming, Refunding, Cancelling, Reconciling, Undoing
<1>2. ASSUME NEW w \in Workers, NEW o \in Orders, Begin(w, o)
      PROVE  AllTyped'
  BY <1>2, QuietTyped
<1>3. ASSUME NEW o \in Orders, Staff(o) \/ Outside(o)
      PROVE  AllTyped'
  BY <1>3, PeopleTyped
<1>4. ASSUME NEW p \in Products, OpenProductForm(p) \/ SaveProductForm(p)
      PROVE  AllTyped'
  BY <1>4, FormTyped
<1>5. CASE UNCHANGED vars
  BY <1>5, PartsStand DEF AllTyped, vars
<1>6. QED
  BY <1>1, <1>2, <1>3, <1>4, <1>5 DEF Next

\* Type correctness: stock is never negative, whoever sells and cancels.
THEOREM TypeCorrect == Spec => []TypeOK
BY InitTyped, StepTyped, PTL DEF Spec

-----------------------------------------------------------------------------
(* What a step does to rows and books.                                      *)

\* A pending order is closed without anything else: for want of stock, or of a
\* payment.
Dropped(o) ==
  /\ Awaiting(o)
  /\ status' = [status EXCEPT ![o] = "cancelled"]
  /\ UNCHANGED <<confirmed, terms, taken, pvEarned, age, productVars, bookVars>>

\* A live order is undone, by whatever action.
Undone(o) ==
  \E to \in {"cancelled", "refunded"}, restock \in BOOLEAN : CancelOrRefund(o, to, restock)

\* The payment of an order is applied, by whatever worker.
Confirms(o) ==
  /\ Awaiting(o)
  /\ PaidInFull(o)
  /\ Fillable(o)
  /\ taken' = [taken EXCEPT ![o] = [p \in Products |-> Takes(o, p)]]
  /\ stock' = [p \in Products |-> stock[p] - Takes(o, p)]
  /\ codeUsed' = IF terms[o].coded THEN codeUsed + 1 ELSE codeUsed
  /\ pvEarned' = [pvEarned EXCEPT ![o] = terms[o].distributor]
  /\ credited' = IF terms[o].distributor THEN credited \cup {o} ELSE credited
  /\ escrow' = escrow \cup {<<"credit", o>>}
  /\ status' = [status EXCEPT ![o] = "confirmed"]
  /\ confirmed' = [confirmed EXCEPT ![o] = TRUE]
  /\ UNCHANGED <<terms, age>>

\* A step of an order.
OrderStep(o) == \/ Checkout(o) \/ GrowOld(o) \/ AdvanceOrderStatus(o)
                \/ Confirms(o) \/ Dropped(o) \/ Undone(o)

\* Rows and books change in the steps of one order and nowhere else.
LEMMA RowSteps ==
  ASSUME TypeOK, [Next]_vars
  PROVE  \/ /\ UNCHANGED <<rowVars, bookVars>>
            /\ UNCHANGED stock \/ \E p \in Products : SaveProductForm(p)
         \/ \E o \in Orders : OrderStep(o)
<1>1. AllTyped
  BY TypeParts
<1>2. ASSUME NEW w \in Workers, WorkerStep(w) \/ Setback(w)
      PROVE  \/ UNCHANGED <<rowVars, bookVars, stock>>
             \/ job[w] \in Orders /\ OrderStep(job[w])
  <2>1. CASE CancelForStock(w)
    BY <2>1, <1>1, HasJob DEF AllTyped, CancelForStock, OrderStep, Dropped
  <2>2. CASE CloseUnpaid(w)
    BY <2>2, <1>1, HasJob
       DEF AllTyped, CloseUnpaid, OrderStep, Dropped, rowVars, productVars, bookVars
  <2>3. CASE UndoOrder(w)
    BY <2>3, <1>1, HasJob DEF AllTyped, UndoOrder, OrderStep, Undone, productVars
  <2>4. CASE ApplyPayment(w)
    BY <2>4, <1>1, HasJob DEF AllTyped, ApplyPayment, ConsumeDiscountCode, CreditEscrow, OrderStep, Confirms
  <2>5. QED
    BY <1>2, <2>1, <2>2, <2>3, <2>4
       DEF WorkerStep, Setback, Confirming, Refunding, Cancelling, Reconciling, Undoing,
           FindNoStock, FindIssue, FindNothing, RecordIssue, FindNotPending,
           LookForIssue, ClaimRefund, AskRefund, SettleClaim, CheckPayment,
           RecordUnfinished, Recheck, Flag, NoteRefund, GiveUp, UndoFails, Fails, productVars
<1>3. ASSUME NEW w \in Workers, NEW o \in Orders, Begin(w, o)
      PROVE  UNCHANGED <<rowVars, bookVars, stock>>
  BY <1>3 DEF Begin, StartConfirm, StartAutoCancel, StartReconcile, StartRefundEvent, productVars
<1>4. ASSUME NEW o \in Orders, Staff(o) \/ Outside(o)
      PROVE  UNCHANGED <<rowVars, bookVars, stock>> \/ OrderStep(o)
  BY <1>4 DEF Staff, Outside, OrderStep, Undone, CancelOrder, RefundOrder, MarkIssue,
              PaymentMoves, HandlePaymentDispute, productVars
<1>5. ASSUME NEW p \in Products, OpenProductForm(p) \/ SaveProductForm(p)
      PROVE  UNCHANGED <<rowVars, bookVars>> /\ (UNCHANGED stock \/ SaveProductForm(p))
  BY <1>5 DEF OpenProductForm, SaveProductForm
<1>6. CASE UNCHANGED vars
  BY <1>6 DEF vars, productVars
<1>7. QED
  BY <1>2, <1>3, <1>4, <1>5, <1>6 DEF Next

-----------------------------------------------------------------------------
(* Rows.                                                                    *)

\* An order that left the state pending never returns to it, and no row goes.
LEMMA StatusForward ==
  ASSUME TypeOK, [Next]_vars, NEW o \in Orders
  PROVE  /\ status[o] # "none" => status'[o] # "none"
         /\ status[o] \notin {"none", "pending"} => status'[o] \notin {"none", "pending"}
<1>1. CASE UNCHANGED <<rowVars, bookVars>>
  BY <1>1 DEF rowVars
<1>2. ASSUME NEW x \in Orders, OrderStep(x)
      PROVE  /\ status[o] # "none" => status'[o] # "none"
             /\ status[o] \notin {"none", "pending"} => status'[o] \notin {"none", "pending"}
  <2>1. CASE Checkout(x)
    BY <2>1 DEF Checkout, TypeOK
  <2>2. CASE GrowOld(x) \/ Dropped(x) \/ Confirms(x)
    BY <2>2 DEF GrowOld, Dropped, Confirms, TypeOK
  <2>3. CASE AdvanceOrderStatus(x)
    BY <2>3 DEF AdvanceOrderStatus, NextStage, TypeOK
  <2>4. CASE Undone(x)
    BY <2>4 DEF Undone, CancelOrRefund, TypeOK
  <2>5. QED
    BY <1>2, <2>1, <2>2, <2>3, <2>4 DEF OrderStep
<1>3. QED
  BY <1>1, <1>2, RowSteps

\* LinesServed of one order.
Served(o) ==
  /\ status[o] \in Live \cup {"refunded"} => confirmed[o]
  /\ status[o] \in {"none", "pending"} => ~confirmed[o]
  /\ ~confirmed[o] => taken[o] = Nothing
  /\ \A p \in Products : taken[o][p] <= terms[o].cart[p]
  /\ confirmed[o] /\ ~terms[o].backorders => taken[o] = terms[o].cart

\* LinesServed speaks of each order by itself, before a step and after it.
LEMMA ServedAll == (LinesServed <=> \A o \in Orders : Served(o))
                   /\ (LinesServed' <=> \A o \in Orders : Served(o)')
BY DEF LinesServed, Served

\* A confirmation serves all of its lines, or what there is when that is agreed.
LEMMA ConfirmServes ==
  ASSUME TypeOK, NEW o \in Orders, Confirms(o)
  PROVE  Served(o)'
<1>1. terms[o].cart \in [Products -> Nat] /\ stock \in [Products -> Nat]
  BY DEF TypeOK, Terms
<1>2. \A p \in Products : Takes(o, p) \in Nat /\ Takes(o, p) <= terms[o].cart[p]
  BY <1>1 DEF Takes
<1>3. ~terms[o].backorders => [p \in Products |-> Takes(o, p)] = terms[o].cart
  BY <1>1 DEF Confirms, Fillable, InStock, Takes
<1>4. QED
  BY <1>2, <1>3 DEF Confirms, Served, TypeOK, Live

\* The lines of an order stay as they were served.
LEMMA StepServes == TypeOK /\ LinesServed /\ [Next]_vars => LinesServed'
<1> SUFFICES ASSUME TypeOK, LinesServed, [Next]_vars, NEW o \in Orders
             PROVE  Served(o)'
  BY ServedAll
<1>1. Served(o)
  BY ServedAll
<1>2. CASE UNCHANGED <<rowVars, bookVars>>
  BY <1>1, <1>2 DEF Served, rowVars
<1>3. ASSUME NEW x \in Orders, OrderStep(x)
      PROVE  Served(o)'
  <2>1. CASE Checkout(x)
    <3>1. CASE o # x
      BY <1>1, <2>1, <3>1 DEF Checkout, Served, TypeOK
    <3>2. CASE o = x
      <4>1. ~confirmed[o] /\ taken[o] = Nothing
        BY <1>1, <2>1, <3>2 DEF Checkout, Served
      <4>2. terms'[o].cart \in [Products -> Nat]
        BY <2>1, <3>2, StockAssumption DEF Checkout, TypeOK, Terms
      <4>3. QED
        BY <2>1, <3>2, <4>1, <4>2 DEF Checkout, Served, TypeOK, Nothing, Live
    <3>3. QED
      BY <3>1, <3>2
  <2>2. CASE GrowOld(x)
    BY <1>1, <2>2 DEF GrowOld, Served
  <2>3. CASE AdvanceOrderStatus(x)
    BY <1>1, <2>3 DEF AdvanceOrderStatus, NextStage, Served, TypeOK, Live
  <2>4. CASE Confirms(x)
    <3>1. CASE o # x
      BY <1>1, <2>4, <3>1 DEF Confirms, Served, TypeOK
    <3>2. QED
      BY <2>4, <3>1, ConfirmServes
  <2>5. CASE Dropped(x)
    BY <1>1, <2>5 DEF Dropped, Served, TypeOK, Live
  <2>6. CASE Undone(x)
    BY <1>1, <2>6 DEF Undone, CancelOrRefund, CanEndAs, Served, TypeOK, Live
  <2>7. QED
    BY <1>3, <2>1, <2>2, <2>3, <2>4, <2>5, <2>6 DEF OrderStep
<1>4. QED
  BY <1>2, <1>3, RowSteps

\* No order of the empty table is served.
LEMMA InitServes == Init => LinesServed
<1> SUFFICES ASSUME Init, NEW o \in Orders PROVE Served(o)
  BY ServedAll
<1>1. QED
  BY DEF Init, Served, Live, NoTerms, Nothing

-----------------------------------------------------------------------------
(* Books.                                                                   *)

\* Orders the escrow credited, orders it reversed, and orders that hold a use
\* of the code.
Creditable == {o \in Orders : confirmed[o]}
Reversible == {o \in Orders : confirmed[o] /\ status[o] \in Closed}
CodeHolders == {o \in Orders : status[o] \in Live /\ terms[o].coded}

EscrowMatches ==
  escrow = {<<"credit", o>> : o \in Creditable} \cup {<<"reversal", o>> : o \in Reversible}

PvMatches ==
  /\ credited = {o \in Orders : pvEarned[o]}
  /\ \A o \in Orders : pvEarned[o] <=> (status[o] \in Live /\ terms[o].distributor)

CodeMatches == codeUsed = Cardinality(CodeHolders)

\* The books by themselves, before a step and after it.
LEMMA BookParts ==
  /\ BooksMatch <=> EscrowMatches /\ PvMatches /\ CodeMatches
  /\ BooksMatch' <=> EscrowMatches' /\ PvMatches' /\ CodeMatches'
BY DEF BooksMatch, EscrowMatches, PvMatches, CodeMatches, Creditable, Reversible, CodeHolders

\* The sets after each step of an order.
LEMMA SetSteps ==
  ASSUME TypeOK, LinesServed, NEW o \in Orders
  PROVE  /\ Confirms(o) => /\ Creditable' = Creditable \cup {o}
                           /\ Reversible' = Reversible
                           /\ CodeHolders' = IF terms[o].coded THEN CodeHolders \cup {o}
                                             ELSE CodeHolders
                           /\ o \notin CodeHolders
         /\ Undone(o) => /\ Creditable' = Creditable
                         /\ o \in Creditable
                         /\ Reversible' = Reversible \cup {o}
                         /\ CodeHolders' = CodeHolders \ {o}
                         /\ terms[o].coded <=> o \in CodeHolders
         /\ Checkout(o) \/ GrowOld(o) \/ AdvanceOrderStatus(o) \/ Dropped(o)
              => UNCHANGED <<Creditable, Reversible, CodeHolders>>
<1>1. Served(o)
  BY ServedAll
<1>2. ASSUME Confirms(o)
      PROVE  /\ Creditable' = Creditable \cup {o}
             /\ Reversible' = Reversible
             /\ CodeHolders' = IF terms[o].coded THEN CodeHolders \cup {o} ELSE CodeHolders
             /\ o \notin CodeHolders
  BY <1>1, <1>2 DEF Confirms, Awaiting, Served, TypeOK, Creditable, Reversible,
                    CodeHolders, Live, Closed
<1>3. ASSUME Undone(o)
      PROVE  /\ Creditable' = Creditable
             /\ o \in Creditable
             /\ Reversible' = Reversible \cup {o}
             /\ CodeHolders' = CodeHolders \ {o}
             /\ terms[o].coded <=> o \in CodeHolders
  <2>1. PICK to \in {"cancelled", "refunded"}, restock \in BOOLEAN : CancelOrRefund(o, to, restock)
    BY <1>3 DEF Undone
  <2>2. status[o] \in Live /\ confirmed[o]
    BY <1>1, <2>1 DEF CancelOrRefund, CanEndAs, Served, Live
  <2>3. status' = [status EXCEPT ![o] = to] /\ to \in Closed /\ to \notin Live
    BY <2>1 DEF CancelOrRefund, Closed, Live
  <2>4. confirmed' = confirmed /\ terms' = terms
    BY <2>1 DEF CancelOrRefund
  <2>5. QED
    BY <2>2, <2>3, <2>4 DEF TypeOK, Creditable, Reversible, CodeHolders
<1>4. ASSUME Checkout(o) \/ Dropped(o)
      PROVE  UNCHANGED <<Creditable, Reversible, CodeHolders>>
  <2>1. ~confirmed[o] /\ confirmed' = confirmed
    BY <1>1, <1>4 DEF Checkout, Dropped, Awaiting, Served
  <2>2. status[o] \notin Live /\ status'[o] \notin Live
    BY <1>4 DEF Checkout, Dropped, Awaiting, TypeOK, Live
  <2>3. \A x \in Orders \ {o} : status'[x] = status[x] /\ terms'[x] = terms[x]
    BY <1>4 DEF Checkout, Dropped, TypeOK
  <2>4. Creditable' = Creditable /\ Reversible' = Reversible
    BY <2>1, <2>3 DEF Creditable, Reversible
  <2>5. CodeHolders' = CodeHolders
    BY <2>2, <2>3 DEF CodeHolders
  <2>6. QED
    BY <2>4, <2>5
<1>5. ASSUME GrowOld(o) \/ AdvanceOrderStatus(o)
      PROVE  UNCHANGED <<Creditable, Reversible, CodeHolders>>
  <2>1. UNCHANGED <<confirmed, terms>>
    BY <1>5 DEF GrowOld, AdvanceOrderStatus
  <2>2. \A x \in Orders : /\ status'[x] \in Live <=> status[x] \in Live
                          /\ status'[x] \in Closed <=> status[x] \in Closed
    BY <1>5 DEF GrowOld, AdvanceOrderStatus, NextStage, TypeOK, Live, Closed
  <2>3. QED
    BY <2>1, <2>2 DEF Creditable, Reversible, CodeHolders
<1>6. QED
  BY <1>2, <1>3, <1>4, <1>5

\* An escrow row for each confirmation and for each undoing.
LEMMA EscrowStep ==
  ASSUME TypeOK, LinesServed, EscrowMatches, NEW o \in Orders, OrderStep(o)
  PROVE  EscrowMatches'
<1>1. CASE Confirms(o)
  <2>1. escrow' = escrow \cup {<<"credit", o>>}
    BY <1>1 DEF Confirms
  <2>2. Creditable' = Creditable \cup {o} /\ Reversible' = Reversible
    BY <1>1, SetSteps
  <2>3. QED
    BY <2>1, <2>2 DEF EscrowMatches
<1>2. CASE Undone(o)
  <2>1. Creditable' = Creditable /\ o \in Creditable /\ Reversible' = Reversible \cup {o}
    BY <1>2, SetSteps
  <2>2. escrow' = IF <<"credit", o>> \in escrow THEN escrow \cup {<<"reversal", o>>} ELSE escrow
    BY <1>2 DEF Undone, CancelOrRefund, ReverseEscrow
  <2>3. <<"credit", o>> \in escrow
    BY <2>1 DEF EscrowMatches
  <2>4. QED
    BY <2>1, <2>2, <2>3 DEF EscrowMatches
<1>3. CASE Checkout(o) \/ GrowOld(o) \/ AdvanceOrderStatus(o) \/ Dropped(o)
  <2>1. UNCHANGED <<escrow, Creditable, Reversible>>
    BY <1>3, SetSteps DEF Checkout, GrowOld, AdvanceOrderStatus, Dropped, bookVars
  <2>2. QED
    BY <2>1 DEF EscrowMatches
<1>4. QED
  BY <1>1, <1>2, <1>3 DEF OrderStep

\* PV stands for live orders of distributors only.
LEMMA PvStep ==
  ASSUME TypeOK, LinesServed, PvMatches, NEW o \in Orders, OrderStep(o)
  PROVE  PvMatches'
<1>1. CASE Checkout(o)
  <2>1. ~pvEarned[o] /\ UNCHANGED <<pvEarned, credited>>
    BY <1>1 DEF Checkout, PvMatches, bookVars, Live
  <2>2. \A x \in Orders \ {o} : status'[x] = status[x] /\ terms'[x] = terms[x]
    BY <1>1 DEF Checkout, TypeOK
  <2>3. status'[o] \notin Live
    BY <1>1 DEF Checkout, TypeOK, Live
  <2>4. QED
    BY <2>1, <2>2, <2>3 DEF PvMatches
<1>2. CASE GrowOld(o)
  BY <1>2 DEF GrowOld, PvMatches, bookVars
<1>3. CASE AdvanceOrderStatus(o)
  BY <1>3 DEF AdvanceOrderStatus, NextStage, PvMatches, bookVars, TypeOK, Live
<1>4. CASE Confirms(o)
  <2>1. ~pvEarned[o]
    BY <1>4 DEF Confirms, Awaiting, PvMatches, Live
  <2>2. terms[o].distributor \in BOOLEAN
    BY DEF TypeOK, Terms
  <2>3. QED
    BY <1>4, <2>1, <2>2 DEF Confirms, PvMatches, TypeOK, Live
<1>5. CASE Dropped(o)
  BY <1>5 DEF Dropped, Awaiting, PvMatches, bookVars, TypeOK, Live
<1>6. CASE Undone(o)
  <2>1. PICK to \in {"cancelled", "refunded"}, restock \in BOOLEAN : CancelOrRefund(o, to, restock)
    BY <1>6 DEF Undone
  <2>2. credited' = {x \in Orders : pvEarned'[x]}
    BY <2>1 DEF CancelOrRefund, PvMatches, TypeOK
  <2>3. QED
    BY <2>1, <2>2 DEF CancelOrRefund, PvMatches, TypeOK, Live
<1>7. QED
  BY <1>1, <1>2, <1>3, <1>4, <1>5, <1>6 DEF OrderStep

\* The counter of the code is the number of live orders that hold a use of it.
LEMMA CodeStep ==
  ASSUME TypeOK, LinesServed, CodeMatches, NEW o \in Orders, OrderStep(o)
  PROVE  CodeMatches'
<1>1. IsFiniteSet(CodeHolders)
  BY OrdersAssumption, FS_Subset DEF CodeHolders
<1>2. CASE Confirms(o)
  <2>1. o \notin CodeHolders
        /\ CodeHolders' = IF terms[o].coded THEN CodeHolders \cup {o} ELSE CodeHolders
    BY <1>2, SetSteps
  <2>2. codeUsed' = IF terms[o].coded THEN codeUsed + 1 ELSE codeUsed
    BY <1>2 DEF Confirms
  <2>3. Cardinality(CodeHolders \cup {o}) = Cardinality(CodeHolders) + 1
    BY <1>1, <2>1, FS_AddElement
  <2>4. QED
    BY <2>1, <2>2, <2>3 DEF CodeMatches
<1>3. CASE Undone(o)
  <2>1. CodeHolders' = CodeHolders \ {o} /\ (terms[o].coded <=> o \in CodeHolders)
    BY <1>3, SetSteps
  <2>2. codeUsed' = IF terms[o].coded /\ codeUsed > 0 THEN codeUsed - 1 ELSE codeUsed
    BY <1>3 DEF Undone, CancelOrRefund, ReleaseDiscountCode
  <2>3. CASE o \in CodeHolders
    <3>1. Cardinality(CodeHolders \ {o}) = Cardinality(CodeHolders) - 1
      BY <1>1, <2>3, FS_RemoveElement
    <3>2. Cardinality(CodeHolders \ {o}) \in Nat
      BY <1>1, FS_Subset, FS_CardinalityType
    <3>3. codeUsed > 0
      BY <3>1, <3>2 DEF CodeMatches, TypeOK
    <3>4. QED
      BY <2>1, <2>2, <2>3, <3>1, <3>3 DEF CodeMatches
  <2>4. CASE o \notin CodeHolders
    BY <2>1, <2>2, <2>4 DEF CodeMatches
  <2>5. QED
    BY <2>3, <2>4
<1>4. CASE Checkout(o) \/ GrowOld(o) \/ AdvanceOrderStatus(o) \/ Dropped(o)
  <2>1. UNCHANGED <<codeUsed, CodeHolders>>
    BY <1>4, SetSteps DEF Checkout, GrowOld, AdvanceOrderStatus, Dropped, bookVars
  <2>2. QED
    BY <2>1 DEF CodeMatches
<1>5. QED
  BY <1>2, <1>3, <1>4 DEF OrderStep

\* The books go with the orders.
LEMMA StepBooks == TypeOK /\ LinesServed /\ BooksMatch /\ [Next]_vars => BooksMatch'
<1> SUFFICES ASSUME TypeOK, LinesServed, BooksMatch, [Next]_vars
             PROVE  BooksMatch'
  OBVIOUS
<1>1. CASE UNCHANGED <<rowVars, bookVars>>
  BY <1>1 DEF BooksMatch, rowVars, bookVars
<1>2. ASSUME NEW o \in Orders, OrderStep(o)
      PROVE  BooksMatch'
  BY <1>2, BookParts, EscrowStep, PvStep, CodeStep
<1>3. QED
  BY <1>1, <1>2, RowSteps

\* The books of an empty table are empty.
LEMMA InitBooks == Init => BooksMatch
<1> SUFFICES ASSUME Init PROVE EscrowMatches /\ PvMatches /\ CodeMatches
  BY BookParts
<1>1. Creditable = {} /\ Reversible = {} /\ CodeHolders = {}
  BY DEF Init, Creditable, Reversible, CodeHolders, Live
<1>2. QED
  BY <1>1, FS_EmptySet DEF Init, EscrowMatches, PvMatches, CodeMatches, Live

-----------------------------------------------------------------------------
(* Orders implements Fulfilment.                                            *)

\* The phase of an order before and after a step.
LEMMA PhaseOf ==
  ASSUME NEW o \in Orders
  PROVE  /\ status[o] \in {"none", "pending"} => Phase[o] = "open"
         /\ status[o] \in Live => Phase[o] = "served"
         /\ status[o] \in Closed => Phase[o] = "closed"
BY DEF Phase, Live, Closed

\* The phase of an order after a step.
LEMMA PhaseNext ==
  ASSUME NEW o \in Orders
  PROVE  /\ status'[o] \in {"none", "pending"} => Phase'[o] = "open"
         /\ status'[o] \in Live => Phase'[o] = "served"
         /\ status'[o] \in Closed => Phase'[o] = "closed"
BY DEF Phase, Live, Closed

\* Phase is a function of the orders.
LEMMA PhaseDomain == Phase = [o \in Orders |-> Phase[o]] /\ Phase' = [o \in Orders |-> Phase'[o]]
BY DEF Phase

\* A step that moves the status of one order from one phase to another.
LEMMA PhaseMoves ==
  ASSUME TypeOK, NEW o \in Orders, NEW from, NEW to,
         \A x \in Orders \ {o} : status'[x] = status[x],
         Phase[o] = from, Phase'[o] = to
  PROVE  Phase' = [Phase EXCEPT ![o] = to]
<1>1. ASSUME NEW x \in Orders \ {o} PROVE Phase'[x] = Phase[x]
  BY <1>1 DEF Phase
<1>2. QED
  BY <1>1, PhaseDomain

\* A confirmation serves the order, with what is on the shelf.
LEMMA ConfirmsIsServe ==
  ASSUME TypeOK, NEW o \in Orders, Confirms(o)
  PROVE  Promise!Serve(o)
<1>1. Phase[o] = "open" /\ Phase'[o] = "served"
  BY PhaseOf, PhaseNext DEF Confirms, Awaiting, TypeOK, Live
<1>2. Phase' = [Phase EXCEPT ![o] = "served"]
  BY <1>1, PhaseMoves DEF Confirms, TypeOK
<1>3. \A p \in Products : Takes(o, p) \in Nat /\ Takes(o, p) <= stock[p]
  BY DEF TypeOK, Terms, Takes
<1>4. taken' \in [Orders -> [Products -> Nat]]
  BY <1>3 DEF Confirms, TypeOK
<1>5. /\ \A x \in Orders \ {o} : taken'[x] = taken[x]
      /\ \A p \in Products : taken'[o][p] = Takes(o, p)
  BY DEF Confirms, TypeOK
<1>6. stock' = [p \in Products |-> stock[p] - taken'[o][p]]
  BY <1>5 DEF Confirms
<1>7. QED
  BY <1>1, <1>2, <1>3, <1>4, <1>5, <1>6 DEF Promise!Serve, Promise!Moves, Promise!Bundles

\* Undoing an order puts back what it took, or nothing.
LEMMA UndoneIsEnd ==
  ASSUME TypeOK, NEW o \in Orders, Undone(o)
  PROVE  Promise!TakeBack(o) \/ Promise!WriteOff(o)
<1>1. PICK to \in {"cancelled", "refunded"}, restock \in BOOLEAN : CancelOrRefund(o, to, restock)
  BY DEF Undone
<1>2. Phase[o] = "served" /\ Phase'[o] = "closed"
  BY <1>1, PhaseOf, PhaseNext DEF CancelOrRefund, CanEndAs, TypeOK, Live, Closed
<1>3. Phase' = [Phase EXCEPT ![o] = "closed"]
  BY <1>1, <1>2, PhaseMoves DEF CancelOrRefund, TypeOK
<1>4. /\ taken' = taken
      /\ stock' = [p \in Products |-> stock[p] + taken[o][p]] \/ stock' = stock
  BY <1>1 DEF CancelOrRefund, TakenBack
<1>5. QED
  BY <1>2, <1>3, <1>4 DEF Promise!TakeBack, Promise!WriteOff, Promise!Moves

\* A pending order that is closed has taken nothing and takes nothing.
LEMMA DroppedIsDecline ==
  ASSUME TypeOK, NEW o \in Orders, Dropped(o)
  PROVE  Promise!Decline(o)
<1>1. Phase[o] = "open" /\ Phase'[o] = "closed"
  BY PhaseOf, PhaseNext DEF Dropped, Awaiting, TypeOK, Closed
<1>2. Phase' = [Phase EXCEPT ![o] = "closed"]
  BY <1>1, PhaseMoves DEF Dropped, TypeOK
<1>3. QED
  BY <1>1, <1>2 DEF Dropped, productVars, Promise!Decline, Promise!Moves

\* The other steps of an order do not touch goods.
LEMMA OtherStutters ==
  ASSUME TypeOK, NEW o \in Orders, Checkout(o) \/ GrowOld(o) \/ AdvanceOrderStatus(o)
  PROVE  UNCHANGED <<stock, Phase, taken>>
<1>1. UNCHANGED <<stock, taken>>
  BY DEF Checkout, GrowOld, AdvanceOrderStatus, productVars
<1>2. Phase'[o] = Phase[o]
  <2>1. CASE Checkout(o)
    BY <2>1, PhaseOf, PhaseNext DEF Checkout, TypeOK
  <2>2. CASE GrowOld(o)
    BY <2>2 DEF GrowOld, Phase
  <2>3. CASE AdvanceOrderStatus(o)
    BY <2>3, PhaseOf, PhaseNext DEF AdvanceOrderStatus, NextStage, TypeOK, Live
  <2>4. QED
    BY <2>1, <2>2, <2>3
<1>3. \A x \in Orders \ {o} : status'[x] = status[x]
  BY DEF Checkout, GrowOld, AdvanceOrderStatus, TypeOK
<1>4. Phase' = [Phase EXCEPT ![o] = Phase[o]]
  BY <1>2, <1>3, PhaseMoves
<1>5. QED
  BY <1>1, <1>4, PhaseDomain

\* The form is a recount.
LEMMA SaveIsRecount ==
  ASSUME TypeOK, NEW p \in Products, SaveProductForm(p)
  PROVE  Promise!Recount(p)
<1>1. PICK typed \in 0..MaxTyped : stock' = [stock EXCEPT ![p] = typed]
  BY DEF SaveProductForm
<1>2. typed \in Nat
  BY StockAssumption
<1>3. Phase' = Phase /\ taken' = taken
  BY DEF SaveProductForm, rowVars, Phase
<1>4. stock' \in [Products -> Nat] /\ \A q \in Products \ {p} : stock'[q] = stock[q]
  BY <1>1, <1>2 DEF TypeOK
<1>5. QED
  BY <1>3, <1>4 DEF Promise!Recount, Promise!Bundles

\* Every step is a step of Fulfilment or changes nothing in it.
LEMMA StepKeepsShelf == TypeOK /\ [Next]_vars => [Promise!Next]_(Promise!vars)
<1> SUFFICES ASSUME TypeOK, [Next]_vars
             PROVE  Promise!Next \/ UNCHANGED <<stock, Phase, taken>>
  BY DEF Promise!vars
<1>1. CASE UNCHANGED <<rowVars, bookVars>> /\ UNCHANGED stock
  BY <1>1 DEF rowVars, Phase
<1>2. ASSUME NEW p \in Products, SaveProductForm(p) PROVE Promise!Next
  BY <1>2, SaveIsRecount DEF Promise!Next
<1>3. ASSUME NEW o \in Orders, OrderStep(o)
      PROVE  Promise!Next \/ UNCHANGED <<stock, Phase, taken>>
  BY <1>3, ConfirmsIsServe, UndoneIsEnd, DroppedIsDecline, OtherStutters
     DEF OrderStep, Promise!Next
<1>4. QED
  BY <1>1, <1>2, <1>3, RowSteps

\* The shelf is full and every order open at the start.
LEMMA InitShelf == Init => Promise!Init
<1> SUFFICES ASSUME Init PROVE Promise!Init
  OBVIOUS
<1>1. stock \in [Products -> Nat]
  BY StockAssumption DEF Init
<1>2. taken = [o \in Orders |-> [p \in Products |-> 0]]
  BY DEF Init, Nothing
<1>3. ASSUME NEW o \in Orders PROVE Phase[o] = "open"
  BY PhaseOf DEF Init
<1>4. Phase = [o \in Orders |-> "open"]
  BY <1>3, PhaseDomain
<1>5. QED
  BY <1>1, <1>2, <1>4 DEF Promise!Init, Promise!Bundles, Promise!Nothing

\* The order pipeline implements Fulfilment: an order takes its goods once, all
\* together and only if they are there, and they come back once or never,
\* whatever the workers, the webhooks and the admins do.
THEOREM KeepsShelf == Spec => ShelfKept
<1>1. Spec => []TypeOK
  BY TypeCorrect
<1>2. QED
  BY <1>1, InitShelf, StepKeepsShelf, PTL DEF Spec, ShelfKept, Promise!Spec

-----------------------------------------------------------------------------
(* What a step does to workers, payments and issues.                        *)

\* A worker moves alone.
LEMMA OthersStay ==
  ASSUME TypeOK, NEW v \in Workers,
         WorkerStep(v) \/ Setback(v) \/ \E o \in Orders : Begin(v, o),
         NEW w \in Workers \ {v}
  PROVE  pc'[w] = pc[w] /\ job'[w] = job[w]
<1>1. /\ \A o, at, caller : Start(v, o, at, caller) => pc'[w] = pc[w] /\ job'[w] = job[w]
      /\ \A at : Goto(v, at) => pc'[w] = pc[w] /\ job'[w] = job[w]
      /\ Done(v) => pc'[w] = pc[w] /\ job'[w] = job[w]
      /\ Return(v) => pc'[w] = pc[w] /\ job'[w] = job[w]
  BY DEF TypeOK, Start, Goto, Done, Return
<1>2. CASE \E o \in Orders : Begin(v, o)
  BY <1>1, <1>2
     DEF Begin, StartConfirm, StartAutoCancel, StartReconcile, StartRefundEvent
<1>3. CASE Setback(v)
  BY <1>1, <1>3 DEF Setback, GiveUp, UndoFails, Fails
<1>4. CASE Confirming(v) \/ Cancelling(v)
  BY <1>1, <1>4 DEF Confirming, ApplyPayment, FindNoStock, FindIssue, FindNothing, RecordIssue,
                    Cancelling, CheckPayment, RecordUnfinished, CloseUnpaid
<1>5. CASE Refunding(v)
  <2>1. CASE AskRefund(v)
    BY <2>1 DEF AskRefund, TypeOK
  <2>2. QED
    BY <1>1, <1>5, <2>1 DEF Refunding, CancelForStock, FindNotPending, LookForIssue,
                            ClaimRefund, SettleClaim
<1>6. CASE Reconciling(v)
  BY <1>1, <1>6 DEF Reconciling, Recheck, Flag, TypeOK
<1>7. CASE Undoing(v)
  BY <1>1, <1>7 DEF Undoing, UndoOrder, NoteRefund
<1>8. QED
  BY <1>2, <1>3, <1>4, <1>5, <1>6, <1>7 DEF WorkerStep

\* Steps that name no worker move none.
LEMMA NobodyMoves ==
  ASSUME [Next]_vars, ~ \E w \in Workers : WorkerStep(w) \/ Setback(w),
         ~ \E w \in Workers, o \in Orders : Begin(w, o)
  PROVE  UNCHANGED <<pc, job, refunds>>
<1>1. ASSUME NEW o \in Orders, Staff(o) \/ Outside(o)
      PROVE  UNCHANGED <<pc, job, refunds>>
  BY <1>1 DEF Staff, Outside, CancelOrder, RefundOrder, AdvanceOrderStatus, MarkIssue,
              Checkout, GrowOld, PaymentMoves, HandlePaymentDispute, workerVars, moneyVars
<1>2. ASSUME NEW p \in Products, OpenProductForm(p) \/ SaveProductForm(p)
      PROVE  UNCHANGED <<pc, job, refunds>>
  BY <1>2 DEF OpenProductForm, SaveProductForm, workerVars, moneyVars
<1>3. QED
  BY <1>1, <1>2 DEF Next, vars, workerVars, moneyVars

\* A worker with an order in hand keeps it or has just been given it.
LEMMA JobSteps ==
  ASSUME TypeOK, JobsExist, [Next]_vars, NEW w \in Workers, pc'[w] # "idle"
  PROVE  \/ pc[w] # "idle" /\ job'[w] = job[w]
         \/ job'[w] \in Orders /\ status[job'[w]] # "none"
<1>1. ASSUME NEW v \in Workers, WorkerStep(v) \/ Setback(v)
      PROVE  pc[w] # "idle" /\ job'[w] = job[w]
  <2>1. CASE v # w
    BY <1>1, <2>1, OthersStay
  <2>2. CASE v = w
    <3>1. ~Done(w)
      BY DEF Done, TypeOK
    <3>2. Return(w) => job'[w] = job[w]
      BY <3>1 DEF Return
    <3>3. QED
      BY <1>1, <2>2, <3>1, <3>2
         DEF WorkerStep, Setback, Confirming, Refunding, Cancelling, Reconciling, Undoing,
             ApplyPayment, FindNoStock, FindIssue, FindNothing, RecordIssue, CancelForStock,
             FindNotPending, LookForIssue, ClaimRefund, AskRefund, SettleClaim, CheckPayment,
             RecordUnfinished, CloseUnpaid, Recheck, Flag, UndoOrder, NoteRefund, GiveUp,
             UndoFails, Fails, Goto
  <2>3. QED
    BY <2>1, <2>2
<1>2. ASSUME NEW v \in Workers, NEW o \in Orders, Begin(v, o)
      PROVE  \/ pc[w] # "idle" /\ job'[w] = job[w]
             \/ job'[w] \in Orders /\ status[job'[w]] # "none"
  <2>1. CASE v # w
    BY <1>2, <2>1, OthersStay
  <2>2. CASE v = w
    <3>1. job'[w] = o
      BY <1>2, <2>2 DEF Begin, StartConfirm, StartAutoCancel, StartReconcile, StartRefundEvent,
                        Start, TypeOK
    <3>2. status[o] # "none"
      BY <1>2 DEF Begin, StartConfirm, StartAutoCancel, PendingOrderIds, StartReconcile,
                  Listed, StartRefundEvent, Awaiting, JobsExist
    <3>3. QED
      BY <3>1, <3>2
  <2>3. QED
    BY <2>1, <2>2
<1>3. CASE UNCHANGED <<pc, job, refunds>>
  BY <1>3
<1>4. QED
  BY <1>1, <1>2, <1>3, NobodyMoves

\* How a worker comes to the steps of a refund.
LEMMA RefundPath ==
  ASSUME TypeOK, JobsExist, [Next]_vars, NEW w \in Workers,
         pc'[w] \in {"look", "claim", "refund", "settle"}
  PROVE  /\ job'[w] = job[w] /\ job[w] \in Orders
         /\ \/ pc[w] = pc'[w]
            \/ status'[job[w]] \notin {"none", "pending"} /\ pc'[w] \notin {"refund", "settle"}
            \/ pc[w] = "look" /\ pc'[w] = "claim"
            \/ ClaimRefund(w) /\ Claims(job[w]) /\ pc'[w] = "refund"
            \/ AskRefund(w) /\ pc'[w] = "settle"
<1> DEFINE On == {"look", "claim", "refund", "settle"}
<1>1. ASSUME WorkerStep(w) \/ Setback(w)
      PROVE  /\ job'[w] = job[w]
             /\ \/ pc[w] = pc'[w]
                \/ status'[job[w]] \notin {"none", "pending"} /\ pc'[w] \notin {"refund", "settle"}
                \/ pc[w] = "look" /\ pc'[w] = "claim"
                \/ ClaimRefund(w) /\ Claims(job[w]) /\ pc'[w] = "refund"
                \/ AskRefund(w) /\ pc'[w] = "settle"
  <2>1. ~Done(w) /\ ~Return(w)
    BY Callers DEF Done, Return, TypeOK
  <2>2. \A at : Goto(w, at) => pc'[w] = at /\ job'[w] = job[w]
    BY DEF Goto, TypeOK
  <2>3. CASE Confirming(w) \/ Setback(w) \/ Undoing(w) \/ Reconciling(w)
    <3>1. ~Confirming(w)
      BY <2>1, <2>2 DEF Confirming, ApplyPayment, FindNoStock, FindIssue, FindNothing, RecordIssue
    <3>2. ~Setback(w) /\ ~Undoing(w)
      <4>1. ~Goto(w, "note")
        BY <2>2
      <4>2. QED
        BY <2>1, <4>1 DEF Setback, GiveUp, UndoFails, Fails, Undoing, UndoOrder, NoteRefund
    <3>3. ~Reconciling(w)
      BY <2>1 DEF Reconciling, Recheck, Flag, TypeOK
    <3>4. QED
      BY <2>3, <3>1, <3>2, <3>3
  <2>4. CASE Cancelling(w)
    <3>1. Verdict(job[w]) \in {"confirm", "unfinished", "idle", "close"}
      BY DEF Verdict
    <3>2. QED
      BY <2>1, <2>2, <2>4, <3>1 DEF Cancelling, CheckPayment, RecordUnfinished, CloseUnpaid
  <2>5. CASE CancelForStock(w)
    BY <2>2, <2>5, HasJob, TypeParts DEF AllTyped, CancelForStock, TypeOK
  <2>6. CASE FindNotPending(w)
    BY <2>2, <2>6 DEF FindNotPending, Awaiting, JobsExist, rowVars
  <2>7. CASE LookForIssue(w)
    BY <2>1, <2>2, <2>7 DEF LookForIssue
  <2>8. CASE ClaimRefund(w)
    BY <2>1, <2>2, <2>8 DEF ClaimRefund
  <2>9. CASE AskRefund(w)
    BY <2>9 DEF AskRefund, TypeOK
  <2>10. CASE SettleClaim(w)
    BY <2>1, <2>10 DEF SettleClaim
  <2>11. QED
    BY <1>1, <2>3, <2>4, <2>5, <2>6, <2>7, <2>8, <2>9, <2>10 DEF WorkerStep, Refunding
<1>2. ASSUME NEW o \in Orders, Begin(w, o)
      PROVE  FALSE
  BY <1>2 DEF Begin, StartConfirm, StartAutoCancel, StartReconcile, StartRefundEvent,
              Start, TypeOK
<1>3. (WorkerStep(w) \/ Setback(w)) \/ (pc'[w] = pc[w] /\ job'[w] = job[w])
  <2>1. CASE \E v \in Workers : WorkerStep(v) \/ Setback(v)
    BY <2>1, OthersStay
  <2>2. CASE \E v \in Workers, o \in Orders : Begin(v, o)
    BY <1>2, <2>2, OthersStay
  <2>3. QED
    BY <2>1, <2>2, NobodyMoves
<1>4. pc[w] # "idle"
  BY <1>3, Busy
<1>5. job[w] \in Orders
  BY <1>4, HasJob, TypeParts DEF AllTyped
<1>6. QED
  BY <1>1, <1>3, <1>5

\* Writing a row or marking it: it stays, and the kind that was asked for is the
\* only new one.
LEMMA RowWritten ==
  ASSUME TypeOK, NEW o \in Orders, NEW x \in Orders
  PROVE  /\ \A kind \in Kinds \ {"none"} : Record(o, kind) =>
              /\ issue'[o].kind = kind
              /\ x # o => issue'[x] = issue[x]
         /\ \A yes \in BOOLEAN : Mark(o, yes) => issue'[x].kind = issue[x].kind
<1>1. ASSUME NEW kind \in Kinds \ {"none"}, Record(o, kind)
      PROVE  issue'[o].kind = kind /\ (x # o => issue'[x] = issue[x])
  BY <1>1 DEF Record, IsNews, TypeOK
<1>2. ASSUME NEW yes \in BOOLEAN, Mark(o, yes)
      PROVE  issue'[x].kind = issue[x].kind
  BY <1>2 DEF Mark, TypeOK
<1>3. QED
  BY <1>1, <1>2

\* An issue never goes away, news stays news, and without news there is one kind.
IssueGrows(x) ==
  /\ issue[x].kind # "none" => issue'[x].kind # "none"
  /\ otherNews[x] => otherNews'[x]
  /\ issue'[x].kind \in {issue[x].kind, "order_not_applied"} \/ otherNews'[x]

\* Issues only grow: no step removes a row, and a new kind is other news.
LEMMA IssueSteps ==
  ASSUME TypeOK, [Next]_vars, NEW x \in Orders
  PROVE  IssueGrows(x)
<1>1. ASSUME UNCHANGED issueVars PROVE IssueGrows(x)
  BY <1>1 DEF IssueGrows, issueVars
<1>2. ASSUME NEW o \in Orders, Record(o, "order_not_applied"), UNCHANGED otherNews
      PROVE  IssueGrows(x)
  BY <1>2, RowWritten DEF IssueGrows, Kinds
<1>3. ASSUME NEW o \in Orders, NEW kind \in {"refund_received", "dispute_opened"},
             Record(o, kind), otherNews' = [otherNews EXCEPT ![o] = TRUE]
      PROVE  IssueGrows(x)
  <2>1. issue'[o].kind = kind /\ (x # o => issue'[x] = issue[x])
    BY <1>3, RowWritten DEF Kinds
  <2>2. otherNews'[o] /\ (x # o => otherNews'[x] = otherNews[x])
    BY <1>3 DEF TypeOK
  <2>3. QED
    BY <2>1, <2>2 DEF IssueGrows
<1>4. ASSUME NEW o \in Orders, NEW yes \in BOOLEAN, Mark(o, yes), UNCHANGED otherNews
      PROVE  IssueGrows(x)
  BY <1>4, RowWritten DEF IssueGrows
<1>5. ASSUME NEW w \in Workers, WorkerStep(w) \/ Setback(w)
      PROVE  IssueGrows(x)
  <2>1. job[w] \in Orders
    BY <1>5, Busy, HasJob, TypeParts DEF AllTyped
  <2>2. CASE RecordIssue(w) \/ ClaimRefund(w)
    BY <1>2, <2>1, <2>2 DEF RecordIssue, ClaimRefund
  <2>3. CASE RecordUnfinished(w)
    BY <1>1, <1>2, <2>1, <2>3 DEF RecordUnfinished, issueVars
  <2>4. CASE SettleClaim(w)
    BY <1>4, <2>1, <2>4 DEF SettleClaim, TypeOK
  <2>5. CASE NoteRefund(w)
    BY <1>3, <2>1, <2>5 DEF NoteRefund
  <2>6. QED
    BY <1>1, <1>5, <2>2, <2>3, <2>4, <2>5
       DEF WorkerStep, Setback, Confirming, Refunding, Cancelling, Reconciling, Undoing,
           ApplyPayment, FindNoStock, FindIssue, FindNothing, CancelForStock,
           FindNotPending, LookForIssue, AskRefund, CheckPayment, CloseUnpaid, Recheck,
           Flag, UndoOrder, GiveUp, UndoFails, Fails
<1>6. ASSUME NEW w \in Workers, NEW o \in Orders, Begin(w, o)
      PROVE  IssueGrows(x)
  BY <1>1, <1>6 DEF Begin, StartConfirm, StartAutoCancel, StartReconcile, StartRefundEvent
<1>7. ASSUME NEW o \in Orders, Staff(o) \/ Outside(o)
      PROVE  IssueGrows(x)
  <2>1. CASE MarkIssue(o)
    <3>1. (~issue[o].resolved) \in BOOLEAN
      OBVIOUS
    <3>2. QED
      BY <1>4, <2>1, <3>1 DEF MarkIssue
  <2>2. CASE HandlePaymentDispute(o)
    BY <1>3, <2>2 DEF HandlePaymentDispute
  <2>3. QED
    BY <1>1, <1>7, <2>1, <2>2
       DEF Staff, Outside, CancelOrder, RefundOrder, AdvanceOrderStatus, Checkout, GrowOld,
           PaymentMoves
<1>8. ASSUME NEW p \in Products, OpenProductForm(p) \/ SaveProductForm(p)
      PROVE  IssueGrows(x)
  BY <1>1, <1>8 DEF OpenProductForm, SaveProductForm
<1>9. QED
  BY <1>1, <1>5, <1>6, <1>7, <1>8 DEF Next, vars, issueVars

\* Only AskRefund calls Paystack for a refund.
LEMMA RefundSteps ==
  ASSUME TypeOK, [Next]_vars, NEW o \in Orders
  PROVE  \/ refunds'[o] = refunds[o]
         \/ \E w \in Workers : AskRefund(w) /\ job[w] = o /\ refunds'[o] = refunds[o] + 1
<1>1. ASSUME NEW w \in Workers, AskRefund(w)
      PROVE  refunds'[o] = refunds[o] \/ (job[w] = o /\ refunds'[o] = refunds[o] + 1)
  BY <1>1 DEF AskRefund, TypeOK
<1>2. ASSUME NEW w \in Workers, WorkerStep(w) \/ Setback(w), ~AskRefund(w)
      PROVE  UNCHANGED refunds
  BY <1>2
     DEF WorkerStep, Setback, Confirming, Refunding, Cancelling, Reconciling, Undoing,
         ApplyPayment, FindNoStock, FindIssue, FindNothing, RecordIssue, CancelForStock,
         FindNotPending, LookForIssue, ClaimRefund, SettleClaim, CheckPayment,
         RecordUnfinished, CloseUnpaid, Recheck, Flag, UndoOrder, NoteRefund, GiveUp,
         UndoFails, Fails, moneyVars
<1>3. ASSUME NEW w \in Workers, NEW x \in Orders, Begin(w, x)
      PROVE  UNCHANGED refunds
  BY <1>3 DEF Begin, StartConfirm, StartAutoCancel, StartReconcile, StartRefundEvent, moneyVars
<1>4. QED
  BY <1>1, <1>2, <1>3, NobodyMoves

\* A payment moves only if the order exists, and money that came can only go back.
LEMMA PaymentMovesOn ==
  ASSUME TypeOK, [Next]_vars, NEW o \in Orders
  PROVE  /\ payment'[o] # payment[o] => status[o] # "none"
         /\ payment[o] \in {"paid", "reversed"} => payment'[o] \in {"paid", "reversed"}
<1>1. ASSUME NEW x \in Orders, PaymentMoves(x)
      PROVE  /\ payment'[o] # payment[o] => status[o] # "none"
             /\ payment[o] \in {"paid", "reversed"} => payment'[o] \in {"paid", "reversed"}
  BY <1>1, PaymentAssumption DEF PaymentMoves, TypeOK
<1>2. ASSUME NEW w \in Workers, WorkerStep(w) \/ Setback(w)
      PROVE  UNCHANGED payment
  BY <1>2
     DEF WorkerStep, Setback, Confirming, Refunding, Cancelling, Reconciling, Undoing,
         ApplyPayment, FindNoStock, FindIssue, FindNothing, RecordIssue, CancelForStock,
         FindNotPending, LookForIssue, ClaimRefund, AskRefund, SettleClaim, CheckPayment,
         RecordUnfinished, CloseUnpaid, Recheck, Flag, UndoOrder, NoteRefund, GiveUp,
         UndoFails, Fails, moneyVars
<1>3. ASSUME NEW w \in Workers, NEW x \in Orders, Begin(w, x)
      PROVE  UNCHANGED payment
  BY <1>3 DEF Begin, StartConfirm, StartAutoCancel, StartReconcile, StartRefundEvent, moneyVars
<1>4. ASSUME NEW x \in Orders, Staff(x) \/ Outside(x), ~PaymentMoves(x)
      PROVE  UNCHANGED payment
  BY <1>4 DEF Staff, Outside, CancelOrder, RefundOrder, AdvanceOrderStatus, MarkIssue,
              Checkout, GrowOld, HandlePaymentDispute, moneyVars
<1>5. ASSUME NEW p \in Products, OpenProductForm(p) \/ SaveProductForm(p)
      PROVE  UNCHANGED payment
  BY <1>5 DEF OpenProductForm, SaveProductForm, moneyVars
<1>6. QED
  BY <1>1, <1>2, <1>3, <1>4, <1>5 DEF Next, vars, moneyVars

-----------------------------------------------------------------------------
(* Payments and claims.                                                     *)

\* Nobody works for an order that does not exist.
LEMMA StepJobs == TypeOK /\ JobsExist /\ [Next]_vars => JobsExist'
<1> SUFFICES ASSUME TypeOK, JobsExist, [Next]_vars
             PROVE  JobsExist'
  OBVIOUS
<1>1. ASSUME NEW w \in Workers, pc'[w] # "idle"
      PROVE  status'[job'[w]] # "none"
  <2>1. job'[w] \in Orders /\ status[job'[w]] # "none"
    BY <1>1, JobSteps, HasJob, TypeParts DEF AllTyped, JobsExist
  <2>2. QED
    BY <2>1, StatusForward
<1>2. ASSUME NEW o \in Orders, payment'[o] # "unseen"
      PROVE  status'[o] # "none"
  BY <1>2, PaymentMovesOn, StatusForward DEF JobsExist
<1>3. QED
  BY <1>1, <1>2 DEF JobsExist

\* Goods leave for money that came, and money that came can only go back.
LEMMA StepPaid == TypeOK /\ GoodsArePaidFor /\ [Next]_vars => GoodsArePaidFor'
<1> SUFFICES ASSUME TypeOK, GoodsArePaidFor, [Next]_vars,
                    NEW o \in Orders, confirmed'[o]
             PROVE  payment'[o] \in {"paid", "reversed"}
  BY DEF GoodsArePaidFor
<1>1. confirmed[o] \/ payment[o] = "paid"
  <2>1. CASE UNCHANGED rowVars
    BY <2>1 DEF rowVars
  <2>2. ASSUME NEW x \in Orders, OrderStep(x)
        PROVE  confirmed[o] \/ payment[o] = "paid"
    <3>1. CASE Confirms(x)
      BY <3>1 DEF Confirms, PaidInFull, TypeOK
    <3>2. QED
      BY <2>2, <3>1 DEF OrderStep, Checkout, GrowOld, AdvanceOrderStatus, Dropped, Undone,
                        CancelOrRefund
  <2>3. QED
    BY <2>1, <2>2, RowSteps
<1>2. payment[o] \in {"paid", "reversed"}
  BY <1>1 DEF GoodsArePaidFor
<1>3. QED
  BY <1>2, PaymentMovesOn

\* What a worker found when it held the lock last is still true.
LEMMA StepNoWayBack == TypeOK /\ JobsExist /\ NoWayBack /\ [Next]_vars => NoWayBack'
<1> SUFFICES ASSUME TypeOK, JobsExist, NoWayBack, [Next]_vars, NEW w \in Workers,
                    pc'[w] \in {"look", "claim", "refund", "settle"}
             PROVE  status'[job'[w]] # "pending"
  BY DEF NoWayBack
<1>1. job'[w] = job[w] /\ job[w] \in Orders
  BY RefundPath
<1>2. CASE status'[job[w]] \notin {"none", "pending"}
  BY <1>1, <1>2
<1>3. CASE pc[w] \in {"look", "claim", "refund", "settle"}
  <2>1. status[job[w]] \notin {"none", "pending"}
    BY <1>3 DEF NoWayBack, JobsExist
  <2>2. QED
    BY <1>1, <2>1, StatusForward
<1>4. QED
  BY <1>2, <1>3, RefundPath DEF ClaimRefund, AskRefund

\* The claim is written before the call, and rows do not go away.
LEMMA StepClaimWritten ==
  TypeOK /\ JobsExist /\ ClaimIsWritten /\ [Next]_vars => ClaimIsWritten'
<1> SUFFICES ASSUME TypeOK, JobsExist, ClaimIsWritten, [Next]_vars, NEW w \in Workers,
                    pc'[w] \in {"refund", "settle"}
             PROVE  issue'[job'[w]].kind # "none"
  BY DEF ClaimIsWritten
<1>1. job'[w] = job[w] /\ job[w] \in Orders
  BY RefundPath
<1>2. CASE ClaimRefund(w)
  <2>1. issue'[job[w]].kind = "order_not_applied"
    BY <1>1, <1>2, RowWritten DEF ClaimRefund, Kinds
  <2>2. QED
    BY <1>1, <2>1
<1>3. CASE pc[w] \in {"refund", "settle"}
  <2>1. issue[job[w]].kind # "none"
    BY <1>3 DEF ClaimIsWritten
  <2>2. QED
    BY <1>1, <2>1, IssueSteps DEF IssueGrows
<1>4. QED
  BY <1>2, <1>3, RefundPath DEF AskRefund

\* A refund is asked for with the claim in hand, of an order that left pending.
LEMMA StepOnRecord ==
  TypeOK /\ JobsExist /\ NoWayBack /\ ClaimIsWritten /\ RefundIsOnRecord /\ [Next]_vars
    => RefundIsOnRecord'
<1> SUFFICES ASSUME TypeOK, JobsExist, NoWayBack, ClaimIsWritten, RefundIsOnRecord,
                    [Next]_vars, NEW o \in Orders, refunds'[o] > 0, refunds[o] \in Nat
             PROVE  issue'[o].kind # "none" /\ status'[o] \notin {"none", "pending"}
  BY DEF RefundIsOnRecord, TypeOK
<1>1. issue[o].kind # "none" /\ status[o] \notin {"none", "pending"}
  <2>1. CASE refunds[o] > 0
    BY <2>1 DEF RefundIsOnRecord
  <2>2. CASE \E w \in Workers : AskRefund(w) /\ job[w] = o
    BY <2>2 DEF AskRefund, NoWayBack, ClaimIsWritten, JobsExist
  <2>3. QED
    BY <2>1, <2>2, RefundSteps
<1>2. QED
  BY <1>1, StatusForward, IssueSteps DEF IssueGrows

\* Without news there is only one kind of issue.
LEMMA StepKinds == TypeOK /\ KindsKnown /\ [Next]_vars => KindsKnown'
BY IssueSteps DEF KindsKnown, IssueGrows

\* A claim that was won in a state without news: nothing was asked for before,
\* and nobody else is about to.
LEMMA ClaimWon ==
  ASSUME TypeOK, KindsKnown, ClaimIsWritten, RefundIsOnRecord,
         NEW o \in Orders, Claims(o), ~otherNews[o]
  PROVE  /\ refunds[o] = 0
         /\ \A v \in Workers : job[v] = o => pc[v] # "refund"
<1>1. issue[o].kind = "none"
  BY DEF Claims, IsNews, KindsKnown
<1>2. QED
  BY <1>1 DEF RefundIsOnRecord, ClaimIsWritten, TypeOK

\* Whoever is about to ask is the only one.
LEMMA StepExclusive ==
  TypeOK /\ JobsExist /\ ClaimIsWritten /\ RefundIsOnRecord /\ KindsKnown
    /\ ClaimIsExclusive /\ [Next]_vars => ClaimIsExclusive'
<1> SUFFICES ASSUME TypeOK, JobsExist, ClaimIsWritten, RefundIsOnRecord, KindsKnown,
                    ClaimIsExclusive, [Next]_vars
             PROVE  ClaimIsExclusive'
  OBVIOUS
<1>1. \A o \in Orders : ~otherNews'[o] => ~otherNews[o]
  BY IssueSteps DEF IssueGrows
<1>2. ASSUME NEW w \in Workers, pc'[w] = "refund"
      PROVE  /\ job'[w] = job[w] /\ job[w] \in Orders
             /\ pc[w] = "refund" \/ (ClaimRefund(w) /\ Claims(job[w]))
  BY <1>2, RefundPath
<1>3. ASSUME NEW v \in Workers, NEW w \in Workers, v # w, ClaimRefund(v) \/ AskRefund(v)
      PROVE  pc'[w] = pc[w] /\ job'[w] = job[w]
  BY <1>3, OthersStay DEF WorkerStep, Refunding
<1>4. ASSUME NEW w \in Workers, pc'[w] = "refund", ~otherNews'[job'[w]]
      PROVE  ~(refunds'[job'[w]] > 0)
  <2>1. /\ job'[w] = job[w] /\ job[w] \in Orders
        /\ pc[w] = "refund" \/ (ClaimRefund(w) /\ Claims(job[w]))
    BY <1>2, <1>4
  <2>2. ~otherNews[job[w]]
    BY <1>1, <1>4, <2>1
  <2>3. ~(refunds[job[w]] > 0)
    BY <2>1, <2>2, ClaimWon DEF ClaimIsExclusive
  <2>4. ASSUME NEW v \in Workers, AskRefund(v), job[v] = job[w]
        PROVE  FALSE
    <3>1. pc[v] = "refund" /\ pc'[v] = "settle" /\ v # w
      BY <1>4, <2>4 DEF AskRefund, TypeOK
    <3>2. pc[w] = "refund"
      BY <1>3, <1>4, <2>4, <3>1
    <3>3. QED
      BY <2>1, <2>2, <2>4, <3>1, <3>2 DEF ClaimIsExclusive
  <2>5. QED
    BY <2>1, <2>3, <2>4, RefundSteps
<1>5. ASSUME NEW v \in Workers, NEW w \in Workers, v # w, pc'[v] = "refund",
             pc'[w] = "refund", job'[v] = job'[w], ~otherNews'[job'[w]]
      PROVE  FALSE
  <2>1. /\ job'[w] = job[w] /\ job[w] \in Orders /\ job[v] = job[w]
        /\ pc[v] = "refund" \/ (ClaimRefund(v) /\ Claims(job[w]))
        /\ pc[w] = "refund" \/ (ClaimRefund(w) /\ Claims(job[w]))
    BY <1>2, <1>5
  <2>2. ~otherNews[job[w]]
    BY <1>1, <1>5, <2>1
  <2>3. CASE ClaimRefund(v) /\ Claims(job[w])
    <3>1. pc[w] = "refund"
      BY <1>3, <1>5, <2>3
    <3>2. QED
      BY <2>1, <2>2, <2>3, <3>1, ClaimWon
  <2>4. CASE ClaimRefund(w) /\ Claims(job[w])
    <3>1. pc[v] = "refund"
      BY <1>3, <1>5, <2>4
    <3>2. QED
      BY <2>1, <2>2, <2>4, <3>1, ClaimWon
  <2>5. CASE pc[v] = "refund" /\ pc[w] = "refund"
    BY <1>5, <2>1, <2>2, <2>5 DEF ClaimIsExclusive
  <2>6. QED
    BY <2>1, <2>3, <2>4, <2>5
<1>6. QED
  BY <1>4, <1>5 DEF ClaimIsExclusive

\* So a second refund takes other news.
LEMMA StepOneRefund ==
  TypeOK /\ ClaimIsExclusive /\ OneRefundUnlessNews /\ [Next]_vars => OneRefundUnlessNews'
<1> SUFFICES ASSUME TypeOK, ClaimIsExclusive, OneRefundUnlessNews, [Next]_vars,
                    NEW o \in Orders, refunds'[o] > 1
             PROVE  otherNews'[o]
  BY DEF OneRefundUnlessNews
<1>1. refunds[o] \in Nat
  BY DEF TypeOK
<1>2. otherNews[o]
  <2>1. CASE refunds'[o] = refunds[o]
    BY <2>1 DEF OneRefundUnlessNews
  <2>2. ASSUME NEW w \in Workers, AskRefund(w), job[w] = o, refunds'[o] = refunds[o] + 1
        PROVE  otherNews[o]
    BY <1>1, <2>2 DEF AskRefund, ClaimIsExclusive
  <2>3. QED
    BY <2>1, <2>2, RefundSteps
<1>3. QED
  BY <1>2, IssueSteps DEF IssueGrows

-----------------------------------------------------------------------------
(* The inductive invariant.                                                 *)

\* It holds at the start.
LEMMA InitInvariant == Init => IInv
<1> SUFFICES ASSUME Init PROVE IInv
  OBVIOUS
<1>1. TypeOK /\ LinesServed /\ BooksMatch
  BY InitTyped, InitServes, InitBooks
<1>2. GoodsArePaidFor /\ JobsExist /\ NoWayBack /\ ClaimIsWritten
  BY DEF Init, GoodsArePaidFor, JobsExist, NoWayBack, ClaimIsWritten
<1>3. RefundIsOnRecord /\ KindsKnown /\ ClaimIsExclusive /\ OneRefundUnlessNews
  BY DEF Init, RefundIsOnRecord, KindsKnown, ClaimIsExclusive, OneRefundUnlessNews
<1>4. QED
  BY <1>1, <1>2, <1>3 DEF IInv

\* Every step keeps it.
LEMMA StepInvariant == IInv /\ [Next]_vars => IInv'
BY StepTyped, StepServes, StepBooks, StepPaid, StepJobs, StepNoWayBack, StepClaimWritten,
   StepOnRecord, StepKinds, StepExclusive, StepOneRefund DEF IInv

\* The inductive invariant of the order pipeline.
THEOREM Invariant == Spec => []IInv
BY InitInvariant, StepInvariant, PTL DEF Spec

\* No line is served half, and an order that was never confirmed takes nothing.
THEOREM LinesAreServed == Spec => []LinesServed
<1>1. IInv => LinesServed
  BY DEF IInv
<1>2. QED
  BY <1>1, Invariant, PTL

\* Escrow, PV and the use of the code go with the order, each of them once.
THEOREM BooksAgree == Spec => []BooksMatch
<1>1. IInv => BooksMatch
  BY DEF IInv
<1>2. QED
  BY <1>1, Invariant, PTL

\* Whoever confirms an order, the right amount had come.
THEOREM GoodsPaid == Spec => []GoodsArePaidFor
<1>1. IInv => GoodsArePaidFor
  BY DEF IInv
<1>2. QED
  BY <1>1, Invariant, PTL

\* No refund without a row on the Payments page, nor of an order that still waits
\* for its payment; somebody may have confirmed it in the meantime.
THEOREM RefundsOnRecord == Spec => []RefundIsOnRecord
<1>1. IInv => RefundIsOnRecord
  BY DEF IInv
<1>2. QED
  BY <1>1, Invariant, PTL

\* The row is the claim: one refund, for any number of workers and webhooks.
THEOREM OneRefund == Spec => []OneRefundUnlessNews
<1>1. IInv => OneRefundUnlessNews
  BY DEF IInv
<1>2. QED
  BY <1>1, Invariant, PTL
=============================================================================
