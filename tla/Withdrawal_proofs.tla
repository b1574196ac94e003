-------------------------- MODULE Withdrawal_proofs --------------------------
(***************************************************************************)
(* Proofs that the withdrawal pipeline is safe for every number of          *)
(* distributors, requests and workers and every value of the settings.      *)
(***************************************************************************)
EXTENDS WithdrawalMoney, Induction_proofs

\* The tax never exceeds the amount it is taken from, so the net amount of a
\* request is never negative (submit_withdrawal_request).
LEMMA TaxWithinAmount ==
  ASSUME NEW amount \in Amounts, NEW rate \in TaxRates
  PROVE  TaxOf(amount, rate) \in 0..amount
<1>1. amount \in Nat /\ rate \in 0..100
  BY AmountAssumption
<1>2. amount * rate \in 0..(amount * 100)
  BY <1>1
<1>3. ASSUME NEW x \in 0..(amount * 100)
      PROVE  (x + 50) \div 100 \in 0..amount
  BY <1>1, <1>3
<1> QED
  BY <1>2, <1>3 DEF TaxOf

\* The first state is well typed: the opening balance is a natural number.
LEMMA TypeInit == Init => TypeOK
<1> SUFFICES ASSUME Init PROVE TypeOK
  OBVIOUS
<1> USE DEF Init
<1>1. OpeningBalance \in Nat /\ today \in 0..LastDay /\ faults \in 0..MaxFaults
  BY AmountAssumption, ClockAssumption, FaultAssumption
<1>2. terms \in [Requests -> Terms]
  BY ClockAssumption DEF NoTerms, Terms
<1>3. \A r \in Requests : status[r] = "none"
  OBVIOUS
<1>4. /\ wallet \in [Distributors -> Nat]
      /\ otherEntries \in [Distributors -> Int]
  BY <1>1
<1>5. /\ todo \in [Workers -> SUBSET Requests]
      /\ done \in [Workers -> SUBSET Requests]
      /\ ledger \subseteq {"debit", "reversal"} \X Requests
  OBVIOUS
<1>6. /\ status \in [Requests -> Statuses]
      /\ transfer \in [Requests -> TransferStates]
  BY DEF Statuses, TransferStates
<1>7. \A w \in Workers : pc[w] \notin AtRow /\ row[w] = None
  BY DEF AtRow
<1> QED
  BY <1>1, <1>2, <1>3, <1>4, <1>5, <1>6, <1>7 DEF TypeOK, AtRow

\* A worker that leaves its row is left with none.
LEMMA LeaveTypes ==
  ASSUME TypeOK, NEW w \in Workers, Leave(w)
  PROVE  /\ pc' \in [Workers -> {"idle", "next", "release"} \cup AtRow]
         /\ row' \in [Workers -> Requests \cup {None}]
         /\ seen' \in [Workers -> TransferStates \cup {None}]
         /\ code' \in [Workers -> Destinations \cup {None}]
         /\ \A v \in Workers : pc'[v] \in AtRow <=> row'[v] # None
<1>1. /\ pc' \in [Workers -> {"idle", "next", "release"} \cup AtRow]
      /\ row' \in [Workers -> Requests \cup {None}]
      /\ seen' \in [Workers -> TransferStates \cup {None}]
      /\ code' \in [Workers -> Destinations \cup {None}]
  BY DEF TypeOK, Leave, Goto
<1>2. pc'[w] \notin AtRow /\ row'[w] = None
  BY DEF TypeOK, Leave, Goto, AtRow
<1>3. \A v \in Workers \ {w} : pc'[v] = pc[v] /\ row'[v] = row[v]
  BY DEF TypeOK, Leave, Goto
<1> QED
  BY <1>1, <1>2, <1>3 DEF TypeOK

\* A worker that is done with its row only adds that row to its record.
LEMMA FinishTypes ==
  ASSUME TypeOK, NEW w \in Workers, pc[w] \in AtRow, Finish(w)
  PROVE  Leave(w) /\ done' \in [Workers -> SUBSET Requests]
<1>1. row[w] \in Requests
  BY DEF TypeOK
<1> QED
  BY <1>1 DEF Finish, TypeOK

\* Every operation keeps the types; for the wallets this is the balance check
\* of debit() and the bound on what a claw-back takes.
LEMMA TypeStep == TypeOK /\ [Next]_vars => TypeOK'
<1> SUFFICES ASSUME TypeOK, [Next]_vars PROVE TypeOK'
  OBVIOUS
<1> USE DEF TypeOK
<1>1. ASSUME NEW d \in Distributors, ApproveKyc(d) PROVE TypeOK'
  BY <1>1 DEF ApproveKyc, walletVars, requestVars, paystackVars, workerVars,
     recordVars, clockVars
<1>2. ASSUME NEW d \in Distributors, NEW to \in Destinations, SavePayoutSettings(d, to)
      PROVE  TypeOK'
  BY <1>2 DEF SavePayoutSettings, walletVars, requestVars, paystackVars,
     workerVars, recordVars, clockVars
<1>3. ASSUME NEW d \in Distributors, NEW amount \in Earnings, Earn(d, amount)
      PROVE  TypeOK'
  <2>1. amount \in Nat
    BY AmountAssumption
  <2> QED
    BY <1>3, <2>1 DEF Earn, accountVars, requestVars, paystackVars, workerVars,
       recordVars, clockVars
<1>4. ASSUME NEW d \in Distributors, NEW amount \in Earnings, ClawBack(d, amount)
      PROVE  TypeOK'
  <2> DEFINE taken == IF wallet[d] < amount THEN wallet[d] ELSE amount
  <2>1. amount \in Nat
    BY AmountAssumption
  <2>2. taken \in 0..wallet[d]
    BY <2>1
  <2> QED
    BY <1>4, <2>2 DEF ClawBack, accountVars, requestVars, paystackVars,
       workerVars, recordVars, clockVars
<1>5. ASSUME NEW d \in Distributors, NEW r \in Requests, NEW amount \in Amounts,
             NEW rate \in TaxRates, SubmitWithdrawalRequest(d, r, amount, rate)
      PROVE  TypeOK'
  <2>1. TaxOf(amount, rate) \in 0..amount /\ amount \in Nat
    BY TaxWithinAmount, AmountAssumption
  <2> DEFINE t == [owner |-> d, amount |-> amount, tax |-> TaxOf(amount, rate),
                   net |-> amount - TaxOf(amount, rate), created |-> today]
  <2>2. t \in Terms /\ t.owner = d
    BY <2>1 DEF Terms
  <2> HIDE DEF t
  <2>3. terms' = [terms EXCEPT ![r] = t] /\ status' = [status EXCEPT ![r] = "submitted"]
    BY <1>5 DEF SubmitWithdrawalRequest, t
  <2>4. UNCHANGED <<payoutTo, recipient, accountVars, walletVars, paystackVars,
                    workerVars, recordVars, clockVars>>
    BY <1>5 DEF SubmitWithdrawalRequest
  <2>5. terms' \in [Requests -> Terms] /\ status' \in [Requests -> Statuses]
    BY <2>2, <2>3 DEF Statuses
  <2>6. \A q \in Requests : status'[q] # "none" => terms'[q].owner \in Distributors
    BY <2>2, <2>3
  <2> QED
    BY <2>4, <2>5, <2>6 DEF accountVars, walletVars, paystackVars, workerVars,
       recordVars, clockVars
<1>6. ASSUME NEW r \in Requests, ApproveWithdrawalRequest(r) PROVE TypeOK'
  <2>1. terms[r] \in Terms /\ terms[r].net \in Nat
    BY DEF Terms
  <2>2. wallet' \in [Distributors -> Nat]
    <3> DEFINE d == terms[r].owner
    <3>1. d \in Distributors
      BY <1>6 DEF ApproveWithdrawalRequest, AwaitsReview
    <3>2. wallet[d] - terms[r].net \in Nat
      BY <1>6, <2>1, <3>1 DEF ApproveWithdrawalRequest, Debit, Covers
    <3> QED
      BY <1>6, <3>1, <3>2 DEF ApproveWithdrawalRequest, Debit, Covers
  <2>3. ledger' \subseteq {"debit", "reversal"} \X Requests
    BY <1>6 DEF ApproveWithdrawalRequest, Debit, Covers
  <2>4. payoutTo' \in [Requests -> Destinations \cup {None}]
    <3>1. terms[r].owner \in Distributors
      BY <1>6 DEF ApproveWithdrawalRequest, AwaitsReview
    <3> QED
      BY <1>6, <3>1 DEF ApproveWithdrawalRequest
  <2>5. status' \in [Requests -> Statuses]
    BY <1>6 DEF ApproveWithdrawalRequest, Statuses
  <2>6. \A q \in Requests : status'[q] # "none" => status[q] # "none"
    BY <1>6 DEF ApproveWithdrawalRequest, AwaitsReview
  <2> QED
    BY <1>6, <2>2, <2>3, <2>4, <2>5, <2>6 DEF ApproveWithdrawalRequest, Debit, Covers,
       accountVars, paystackVars, workerVars, recordVars, clockVars
<1>7. ASSUME NEW r \in Requests, RejectWithdrawalRequest(r) PROVE TypeOK'
  BY <1>7 DEF RejectWithdrawalRequest, AwaitsReview, Statuses, accountVars,
     walletVars, paystackVars, workerVars, recordVars, clockVars
<1>8. ASSUME NEW w \in Workers, StartCycle(w) PROVE TypeOK'
  BY <1>8 DEF StartCycle, TakeLock, Goto, WithdrawalPayoutIds, AtRow, rowVars,
     accountVars, walletVars, requestVars, paystackVars, recordVars, clockVars
<1>9. ASSUME NEW w \in Workers, NextRow(w) PROVE TypeOK'
  BY <1>9, NoneAssumption DEF NextRow, Goto, AtRow, accountVars, walletVars,
     requestVars, paystackVars, recordVars, clockVars
<1>10. ASSUME NEW w \in Workers, ClaimForPayout(w) PROVE TypeOK'
  <2> USE <1>10 DEF ClaimForPayout
  <2>0. pc[w] \in AtRow /\ row[w] \in Requests
    BY DEF AtRow
  <2>1. CASE Goto(w, "recipient") /\ UNCHANGED <<row, seen, done>>
             /\ status' = [status EXCEPT ![row[w]] = "queued_for_payout"]
             /\ status[row[w]] \in {"approved_debited", "queued_for_payout"}
    BY <2>0, <2>1 DEF Goto, AtRow, Statuses, accountVars, walletVars,
       paystackVars, recordVars, clockVars
  <2>2. CASE Finish(w) /\ UNCHANGED status
    BY <2>0, <2>2, FinishTypes, LeaveTypes DEF accountVars, walletVars,
       paystackVars, recordVars, clockVars
  <2> QED
    BY <2>1, <2>2
<1>11. ASSUME NEW w \in Workers, EnsureRecipient(w) PROVE TypeOK'
  <2>1. row[w] \in Requests
    BY <1>11 DEF EnsureRecipient, AtRow
  <2>2. /\ code' \in [Workers -> Destinations \cup {None}]
        /\ recipient' \in [Requests -> Destinations \cup {None}]
    BY <1>11, <2>1 DEF EnsureRecipient, PayoutAccount
  <2> QED
    BY <1>11, <2>2 DEF EnsureRecipient, Goto, AtRow, accountVars,
       walletVars, paystackVars, recordVars, clockVars
<1>12. ASSUME NEW w \in Workers, VerifyTransfer(w) PROVE TypeOK'
  BY <1>12 DEF VerifyTransfer, Goto, AtRow, accountVars, walletVars,
     requestVars, paystackVars, recordVars, clockVars
<1>13. ASSUME NEW w \in Workers, InitiateTransfer(w) PROVE TypeOK'
  BY <1>13, PaystackAssumption DEF InitiateTransfer, Accept, Goto, AtRow,
     TransferStates, accountVars, walletVars, requestVars, recordVars, clockVars
<1>14. ASSUME NEW w \in Workers, InitiateTimesOut(w) PROVE TypeOK'
  BY <1>14, PaystackAssumption, FaultAssumption DEF InitiateTimesOut, Accept,
     Leave, Goto, AtRow, TransferStates, accountVars, walletVars, requestVars,
     recordVars
<1>15. ASSUME NEW w \in Workers, InitiateRefused(w) PROVE TypeOK'
  BY <1>15 DEF InitiateRefused, Leave, Goto, AtRow, accountVars, walletVars,
     requestVars, paystackVars, recordVars, clockVars
<1>16. ASSUME NEW w \in Workers, ApplyVerifiedTransferOutcome(w) PROVE TypeOK'
  <2> USE <1>16 DEF ApplyVerifiedTransferOutcome
  <2>1. pc[w] \in AtRow /\ row[w] \in Requests
    BY DEF AtRow
  <2>2. terms[row[w]].net \in Nat
    BY <2>1 DEF Terms
  <2>3. /\ wallet' \in [Distributors -> Nat]
        /\ otherEntries' \in [Distributors -> Int]
        /\ ledger' \subseteq {"debit", "reversal"} \X Requests
    BY <2>1, <2>2 DEF Credit, ReversedAmount, walletVars
  <2>4. /\ status' \in [Requests -> Statuses]
        /\ \A q \in Requests : status'[q] # "none" => status[q] # "none"
    BY <2>1 DEF Unsettled, Statuses
  <2>5. CASE Goto(w, "notify") /\ UNCHANGED <<rowVars, done>>
    BY <2>1, <2>3, <2>4, <2>5 DEF Goto, AtRow, rowVars, accountVars,
       paystackVars, recordVars, clockVars
  <2>6. CASE Finish(w)
    BY <2>1, <2>3, <2>4, <2>6, FinishTypes, LeaveTypes DEF accountVars,
       paystackVars, recordVars, clockVars
  <2> QED
    BY <2>5, <2>6
<1>17. ASSUME NEW w \in Workers, Notify(w) PROVE TypeOK'
  <2>1. pc[w] \in AtRow /\ Finish(w) /\ told' \in [Requests -> Nat]
    BY <1>17 DEF Notify, AtRow
  <2> QED
    BY <1>17, <2>1, FinishTypes, LeaveTypes DEF Notify, accountVars, walletVars,
       requestVars, paystackVars, clockVars
<1>18. ASSUME NEW w \in Workers, RecordCycle(w) PROVE TypeOK'
  BY <1>18 DEF RecordCycle, Goto, AtRow, rowVars, accountVars, walletVars,
     requestVars, paystackVars, clockVars
<1>19. ASSUME NEW w \in Workers, ReleaseLock(w) PROVE TypeOK'
  BY <1>19 DEF ReleaseLock, Goto, AtRow, rowVars, accountVars, walletVars,
     requestVars, paystackVars, recordVars, clockVars
<1>20. ASSUME NEW w \in Workers, NEW r \in Requests, StartWebhookTask(w, r)
       PROVE  TypeOK'
  BY <1>20, NoneAssumption DEF StartWebhookTask, Goto, AtRow, accountVars,
     walletVars, requestVars, paystackVars, recordVars, clockVars
<1>21. ASSUME NEW w \in Workers, RowFails(w) PROVE TypeOK'
  BY <1>21, FaultAssumption DEF RowFails, Leave, Goto, AtRow, accountVars,
     walletVars, requestVars, paystackVars, recordVars
<1>22. ASSUME NEW w \in Workers, CycleFails(w) PROVE TypeOK'
  BY <1>22, FaultAssumption DEF CycleFails, Goto, AtRow, rowVars, accountVars,
     walletVars, requestVars, paystackVars, recordVars
<1>23. ASSUME NEW w \in Workers, Crash(w) PROVE TypeOK'
  BY <1>23, FaultAssumption DEF Crash, Goto, AtRow, accountVars, walletVars,
     requestVars, paystackVars, recordVars
<1>24. CASE LockExpires
  BY <1>24 DEF LockExpires, rowVars, accountVars, walletVars, requestVars,
     paystackVars, recordVars, clockVars
<1>25. ASSUME NEW r \in Requests, NEW to \in TransferStates, TransferSettles(r, to)
       PROVE  TypeOK'
  BY <1>25 DEF TransferSettles, accountVars, walletVars, requestVars,
     workerVars, recordVars, clockVars
<1>26. CASE NextDay
  BY <1>26, ClockAssumption DEF NextDay, accountVars, walletVars, requestVars,
     paystackVars, workerVars, recordVars
<1>27. CASE UNCHANGED vars
  BY <1>27 DEF vars, accountVars, walletVars, requestVars, paystackVars,
     workerVars, recordVars, clockVars
<1> QED
  BY <1>1, <1>2, <1>3, <1>4, <1>5, <1>6, <1>7, <1>8, <1>9, <1>10, <1>11, <1>12,
     <1>13, <1>14, <1>15, <1>16, <1>17, <1>18, <1>19, <1>20, <1>21, <1>22,
     <1>23, <1>24, <1>25, <1>26, <1>27
     DEF Next, Account, Review, RowStep, CycleStep, Fault, Worker, Paystack

\* Type correctness: in particular no wallet is ever overdrawn.
THEOREM TypeCorrect == Spec => []TypeOK
  BY TypeInit, TypeStep, PTL DEF Spec
-----------------------------------------------------------------------------
(* The status of a request and the ledger.                                  *)

\* Five operations change a request's status or its ledger rows; every other
\* step leaves both alone.
LEMMA StatusChanges ==
  ASSUME [Next]_vars
  PROVE  \/ \E d \in Distributors, r \in Requests, amount \in Amounts,
               rate \in TaxRates : SubmitWithdrawalRequest(d, r, amount, rate)
         \/ \E r \in Requests : ApproveWithdrawalRequest(r)
         \/ \E r \in Requests : RejectWithdrawalRequest(r)
         \/ \E w \in Workers : ClaimForPayout(w)
         \/ \E w \in Workers : ApplyVerifiedTransferOutcome(w)
         \/ UNCHANGED <<status, ledger, terms, payoutTo>>
<1>1. ASSUME NEW d \in Distributors,
             \/ ApproveKyc(d)
             \/ \E to \in Destinations : SavePayoutSettings(d, to)
             \/ \E amount \in Earnings : Earn(d, amount) \/ ClawBack(d, amount)
      PROVE  UNCHANGED <<status, ledger, terms, payoutTo>>
  BY <1>1 DEF ApproveKyc, SavePayoutSettings, Earn, ClawBack, walletVars,
     requestVars
<1>2. ASSUME NEW w \in Workers,
             \/ StartCycle(w) \/ CycleStep(w) \/ Fault(w)
             \/ EnsureRecipient(w) \/ VerifyTransfer(w) \/ InitiateTransfer(w)
             \/ InitiateRefused(w) \/ Notify(w)
             \/ \E r \in Requests : StartWebhookTask(w, r)
      PROVE  UNCHANGED <<status, ledger, terms, payoutTo>>
  <2>1. CASE StartCycle(w) \/ \E r \in Requests : StartWebhookTask(w, r)
    BY <2>1 DEF StartCycle, StartWebhookTask, walletVars, requestVars
  <2>2. CASE CycleStep(w) \/ Fault(w)
    BY <2>2 DEF CycleStep, NextRow, RecordCycle, ReleaseLock, Fault, RowFails,
       InitiateTimesOut, CycleFails, Crash, walletVars, requestVars
  <2>3. CASE \/ EnsureRecipient(w) \/ VerifyTransfer(w) \/ InitiateTransfer(w)
             \/ InitiateRefused(w) \/ Notify(w)
    BY <2>3 DEF EnsureRecipient, VerifyTransfer, InitiateTransfer,
       InitiateRefused, Notify, walletVars, requestVars
  <2> QED
    BY <1>2, <2>1, <2>2, <2>3
<1>3. CASE LockExpires \/ NextDay \/ \E r \in Requests : Paystack(r)
  BY <1>3 DEF LockExpires, NextDay, Paystack, TransferSettles, walletVars,
     requestVars
<1>4. CASE UNCHANGED vars
  BY <1>4 DEF vars, walletVars, requestVars
<1> QED
  BY <1>1, <1>2, <1>3, <1>4 DEF Next, Account, Review, RowStep, Worker

\* What apply_verified_transfer_outcome may do: pay, return the money, or
\* leave the row as it is.
LEMMA OutcomeCases ==
  ASSUME TypeOK, NEW w \in Workers, ApplyVerifiedTransferOutcome(w)
  PROVE  /\ row[w] \in Requests /\ pc[w] = "apply"
         /\ UNCHANGED <<terms, payoutTo, recipient, transfer, sentTo, accepted,
                       lock, inCycle, todo, told, env>>
         /\ \/ /\ status[row[w]] = "queued_for_payout" /\ seen[w] = "success"
               /\ status' = [status EXCEPT ![row[w]] = "paid"]
               /\ Goto(w, "notify") /\ UNCHANGED <<ledger, row, seen, code>>
            \/ /\ status[row[w]] = "queued_for_payout" /\ seen[w] \in TransferFailures
               /\ status' = [status EXCEPT ![row[w]] = "payout_failed_reversed"]
               /\ ledger' = ledger \cup {<<"reversal", row[w]>>}
               /\ Goto(w, "notify") /\ UNCHANGED <<row, seen, code>>
            \/ Leave(w) /\ UNCHANGED <<status, ledger>>
<1>1. row[w] \in Requests /\ pc[w] = "apply"
  BY DEF ApplyVerifiedTransferOutcome, AtRow, TypeOK
<1> QED
  BY <1>1 DEF ApplyVerifiedTransferOutcome, Unsettled, Credit, Finish,
     walletVars, rowVars, paystackVars, recordVars, clockVars

\* Status and ledger rows change together (approval, outcome) or not at all.
LEMMA LedgerStep == TypeOK /\ LedgerFollowsStatus /\ [Next]_vars => LedgerFollowsStatus'
<1> SUFFICES ASSUME TypeOK, LedgerFollowsStatus, [Next]_vars
             PROVE  LedgerFollowsStatus'
  OBVIOUS
<1> USE DEF LedgerFollowsStatus
<1>1. ASSUME NEW d \in Distributors, NEW r \in Requests, NEW amount \in Amounts,
             NEW rate \in TaxRates, SubmitWithdrawalRequest(d, r, amount, rate)
      PROVE  LedgerFollowsStatus'
  BY <1>1 DEF SubmitWithdrawalRequest, walletVars, TypeOK
<1>2. ASSUME NEW r \in Requests, ApproveWithdrawalRequest(r)
      PROVE  LedgerFollowsStatus'
  BY <1>2 DEF ApproveWithdrawalRequest, AwaitsReview, Debit, Covers, TypeOK
<1>3. ASSUME NEW r \in Requests, RejectWithdrawalRequest(r)
      PROVE  LedgerFollowsStatus'
  BY <1>3 DEF RejectWithdrawalRequest, AwaitsReview, walletVars, TypeOK
<1>4. ASSUME NEW w \in Workers, ClaimForPayout(w)
      PROVE  LedgerFollowsStatus'
  <2>1. row[w] \in Requests /\ ledger' = ledger
    BY <1>4 DEF ClaimForPayout, walletVars, AtRow, TypeOK
  <2> QED
    BY <1>4, <2>1 DEF ClaimForPayout, TypeOK
<1>5. ASSUME NEW w \in Workers, ApplyVerifiedTransferOutcome(w)
      PROVE  LedgerFollowsStatus'
  <2>1. row[w] \in Requests
    BY <1>5, OutcomeCases
  <2>2. CASE /\ status[row[w]] = "queued_for_payout"
             /\ status' = [status EXCEPT ![row[w]] = "paid"]
             /\ ledger' = ledger
    BY <2>1, <2>2 DEF TypeOK
  <2>3. CASE /\ status[row[w]] = "queued_for_payout"
             /\ status' = [status EXCEPT ![row[w]] = "payout_failed_reversed"]
             /\ ledger' = ledger \cup {<<"reversal", row[w]>>}
    BY <2>1, <2>3 DEF TypeOK
  <2>4. CASE UNCHANGED <<status, ledger>>
    BY <2>4
  <2> QED
    BY <1>5, <2>2, <2>3, <2>4, OutcomeCases
<1>6. CASE UNCHANGED <<status, ledger, terms, payoutTo>>
  BY <1>6
<1> QED
  BY <1>1, <1>2, <1>3, <1>4, <1>5, <1>6, StatusChanges

\* A withdrawal is debited and credited back at most once, and exactly when
\* its status says so.
THEOREM LedgerCorrect == Spec => []LedgerFollowsStatus
<1>1. Init => LedgerFollowsStatus
  BY DEF Init, LedgerFollowsStatus
<1> QED
  BY <1>1, LedgerStep, TypeCorrect, PTL DEF Spec

\* Only a submission makes a request live, and it looks for live ones first.
LEMMA WindowStep ==
  TypeOK /\ OneRequestPerWindow /\ [Next]_vars => OneRequestPerWindow'
<1> SUFFICES ASSUME TypeOK, OneRequestPerWindow, [Next]_vars
             PROVE  OneRequestPerWindow'
  OBVIOUS
<1> DEFINE Apart(q, r) ==
      \/ terms[q].created + Window <= terms[r].created
      \/ terms[r].created + Window <= terms[q].created
<1>1. ASSUME NEW d \in Distributors, NEW p \in Requests, NEW amount \in Amounts,
             NEW rate \in TaxRates, SubmitWithdrawalRequest(d, p, amount, rate)
      PROVE  OneRequestPerWindow'
  <2>1. /\ terms'[p].owner = d
        /\ terms'[p].created = today
        /\ \A q \in Requests \ {p} : terms'[q] = terms[q] /\ status'[q] = status[q]
    BY <1>1 DEF SubmitWithdrawalRequest, TypeOK
  <2>2. ASSUME NEW q \in Requests, q # p, status[q] \in WindowBlocking,
               terms[q].owner = d
        PROVE  terms[q].created + Window <= today
    <3>1. terms[q].created \in Int /\ today \in Int /\ Window \in Int
      BY ClockAssumption DEF TypeOK, Terms
    <3>2. ~(terms[q].created > today - Window)
      BY <1>1, <2>2 DEF SubmitWithdrawalRequest, WindowActive
    <3> QED
      BY <3>1, <3>2
  <2> SUFFICES ASSUME NEW q \in Requests, NEW r \in Requests, q # r,
                      status'[q] \in WindowBlocking, status'[r] \in WindowBlocking,
                      terms'[q].owner = terms'[r].owner
               PROVE  Apart(q, r)'
    BY DEF OneRequestPerWindow
  <2>3. CASE q = p
    BY <2>1, <2>2, <2>3
  <2>4. CASE r = p
    BY <2>1, <2>2, <2>4
  <2>5. CASE q # p /\ r # p
    BY <2>1, <2>5 DEF OneRequestPerWindow
  <2> QED
    BY <2>3, <2>4, <2>5
<1>2. ASSUME terms' = terms,
             \A r \in Requests : status'[r] \in WindowBlocking => status[r] \in WindowBlocking
      PROVE  OneRequestPerWindow'
  BY <1>2 DEF OneRequestPerWindow
<1>3. ASSUME NEW r \in Requests,
             ApproveWithdrawalRequest(r) \/ RejectWithdrawalRequest(r)
      PROVE  OneRequestPerWindow'
  BY <1>2, <1>3 DEF ApproveWithdrawalRequest, RejectWithdrawalRequest,
     AwaitsReview, WindowBlocking, TypeOK
<1>4. ASSUME NEW w \in Workers,
             ClaimForPayout(w) \/ ApplyVerifiedTransferOutcome(w)
      PROVE  OneRequestPerWindow'
  BY <1>2, <1>4 DEF ClaimForPayout, ApplyVerifiedTransferOutcome, Unsettled,
     WindowBlocking, TypeOK
<1>5. CASE UNCHANGED <<status, ledger, terms, payoutTo>>
  BY <1>2, <1>5
<1> QED
  BY <1>1, <1>3, <1>4, <1>5, StatusChanges

\* Once per WITHDRAWAL_FREQUENCY window, for any number of requests.
THEOREM WindowCorrect == Spec => []OneRequestPerWindow
<1>1. Init => OneRequestPerWindow
  BY DEF Init, OneRequestPerWindow, WindowBlocking
<1> QED
  BY <1>1, WindowStep, TypeCorrect, PTL DEF Spec
-----------------------------------------------------------------------------
(* What a worker knows of its row.                                          *)

\* A request never goes back: what one worker learnt of its progress stays
\* true whatever the others do, and its terms and payout account are fixed
\* once the wallet is debited.
LEMMA StatusForward ==
  ASSUME TypeOK, [Next]_vars, NEW r \in Requests
  PROVE  /\ status[r] \in Debited => status'[r] \in Debited /\ payoutTo'[r] = payoutTo[r]
         /\ status[r] \in Claimed => status'[r] \in Claimed
         /\ status[r] \in Settled => status'[r] = status[r]
<1> USE DEF Debited, Claimed, Settled
<1>1. ASSUME NEW d \in Distributors, NEW p \in Requests, NEW amount \in Amounts,
             NEW rate \in TaxRates, SubmitWithdrawalRequest(d, p, amount, rate)
      PROVE  (status[r] \in Debited => status'[r] = status[r]) /\ payoutTo' = payoutTo
  BY <1>1 DEF SubmitWithdrawalRequest, TypeOK
<1>2. ASSUME NEW p \in Requests, ApproveWithdrawalRequest(p)
      PROVE  status[r] \in Debited => status'[r] = status[r] /\ payoutTo'[r] = payoutTo[r]
  BY <1>2 DEF ApproveWithdrawalRequest, AwaitsReview, TypeOK
<1>3. ASSUME NEW p \in Requests, RejectWithdrawalRequest(p)
      PROVE  (status[r] \in Debited => status'[r] = status[r]) /\ payoutTo' = payoutTo
  BY <1>3 DEF RejectWithdrawalRequest, AwaitsReview, TypeOK
<1>4. ASSUME NEW w \in Workers, ClaimForPayout(w)
      PROVE  /\ payoutTo' = payoutTo
             /\ status'[r] = status[r] \/
                  (status[r] \notin Settled /\ status'[r] = "queued_for_payout")
  BY <1>4 DEF ClaimForPayout, TypeOK
<1>5. ASSUME NEW w \in Workers, ApplyVerifiedTransferOutcome(w)
      PROVE  /\ payoutTo' = payoutTo
             /\ status'[r] = status[r] \/
                  (status[r] = "queued_for_payout" /\ status'[r] \in Settled)
  BY <1>5, OutcomeCases DEF TypeOK
<1>6. CASE UNCHANGED <<status, ledger, terms, payoutTo>>
  BY <1>6
<1> QED
  BY <1>1, <1>2, <1>3, <1>4, <1>5, <1>6, StatusChanges

\* A step of one worker leaves the others where they are.
LEMMA OthersStand ==
  ASSUME TypeOK, NEW w \in Workers, Worker(w), NEW v \in Workers, v # w
  PROVE  /\ pc'[v] = pc[v] /\ inCycle'[v] = inCycle[v] /\ row'[v] = row[v]
         /\ seen'[v] = seen[v] /\ code'[v] = code[v] /\ todo'[v] = todo[v]
<1> USE DEF TypeOK, Goto, rowVars
<1>1. CASE StartCycle(w) \/ \E r \in Requests : StartWebhookTask(w, r)
  BY <1>1 DEF StartCycle, StartWebhookTask
<1>2. CASE CycleStep(w)
  BY <1>2 DEF CycleStep, NextRow, RecordCycle, ReleaseLock
<1>3. ASSUME RowStep(w) PROVE UNCHANGED inCycle /\ UNCHANGED todo
  BY <1>3 DEF RowStep, ClaimForPayout, EnsureRecipient, VerifyTransfer,
     InitiateTransfer, InitiateRefused, ApplyVerifiedTransferOutcome, Notify
<1>4. CASE ClaimForPayout(w) \/ EnsureRecipient(w) \/ VerifyTransfer(w)
  BY <1>3, <1>4 DEF RowStep, ClaimForPayout, EnsureRecipient, VerifyTransfer,
     Finish, Leave
<1>5. CASE InitiateTransfer(w) \/ InitiateRefused(w)
  BY <1>3, <1>5 DEF RowStep, InitiateTransfer, InitiateRefused, Leave
<1>6. CASE ApplyVerifiedTransferOutcome(w) \/ Notify(w)
  BY <1>3, <1>6 DEF RowStep, ApplyVerifiedTransferOutcome, Notify, Finish, Leave
<1>7. CASE Fault(w)
  BY <1>7 DEF Fault, RowFails, InitiateTimesOut, CycleFails, Crash, Leave
<1> QED
  BY <1>1, <1>2, <1>4, <1>5, <1>6, <1>7 DEF Worker, RowStep

\* Steps of anybody else leave the workers where they are.
LEMMA WorkersStand ==
  ASSUME [Next]_vars, \A w \in Workers : ~Worker(w)
  PROVE  UNCHANGED <<pc, inCycle, row, seen, code, todo, told>>
<1>1. ASSUME NEW d \in Distributors, Account(d)
      PROVE  UNCHANGED <<pc, inCycle, row, seen, code, todo, told>>
  BY <1>1 DEF Account, ApproveKyc, SavePayoutSettings, Earn, ClawBack,
     SubmitWithdrawalRequest, workerVars, recordVars
<1>2. ASSUME NEW r \in Requests, Review(r) \/ Paystack(r)
      PROVE  UNCHANGED <<pc, inCycle, row, seen, code, todo, told>>
  BY <1>2 DEF Review, ApproveWithdrawalRequest, RejectWithdrawalRequest,
     Paystack, TransferSettles, workerVars, recordVars
<1>3. CASE LockExpires \/ NextDay \/ UNCHANGED vars
  BY <1>3 DEF LockExpires, NextDay, vars, rowVars, workerVars, recordVars
<1> QED
  BY <1>1, <1>2, <1>3 DEF Next

\* A transfer is created by initiate_transfer or changes inside Paystack.
LEMMA TransferChanges ==
  ASSUME [Next]_vars
  PROVE  \/ \E w \in Workers : /\ InitiateTransfer(w) \/ InitiateTimesOut(w)
                               /\ \E answer \in FirstAnswers : Accept(row[w], code[w], answer)
         \/ \E r \in Requests, to \in TransferStates : TransferSettles(r, to)
         \/ UNCHANGED <<transfer, sentTo, accepted>>
<1>1. ASSUME NEW d \in Distributors, Account(d)
      PROVE  UNCHANGED <<transfer, sentTo, accepted>>
  BY <1>1 DEF Account, ApproveKyc, SavePayoutSettings, Earn, ClawBack,
     SubmitWithdrawalRequest, paystackVars
<1>2. ASSUME NEW r \in Requests, Review(r)
      PROVE  UNCHANGED <<transfer, sentTo, accepted>>
  BY <1>2 DEF Review, ApproveWithdrawalRequest, RejectWithdrawalRequest,
     paystackVars
<1>3. ASSUME NEW w \in Workers,
             \/ StartCycle(w) \/ CycleStep(w)
             \/ RowFails(w) \/ CycleFails(w) \/ Crash(w)
             \/ \E r \in Requests : StartWebhookTask(w, r)
      PROVE  UNCHANGED <<transfer, sentTo, accepted>>
  BY <1>3 DEF StartCycle, CycleStep, NextRow, RecordCycle, ReleaseLock,
     RowFails, CycleFails, Crash, StartWebhookTask, paystackVars
<1>4. ASSUME NEW w \in Workers,
             \/ ClaimForPayout(w) \/ EnsureRecipient(w) \/ VerifyTransfer(w)
             \/ InitiateRefused(w) \/ ApplyVerifiedTransferOutcome(w) \/ Notify(w)
      PROVE  UNCHANGED <<transfer, sentTo, accepted>>
  BY <1>4 DEF ClaimForPayout, EnsureRecipient, VerifyTransfer, InitiateRefused,
     ApplyVerifiedTransferOutcome, Notify, paystackVars
<1>5. ASSUME NEW w \in Workers, InitiateTransfer(w) \/ InitiateTimesOut(w)
      PROVE  \E answer \in FirstAnswers : Accept(row[w], code[w], answer)
  BY <1>5 DEF InitiateTransfer, InitiateTimesOut
<1>6. CASE LockExpires \/ NextDay \/ UNCHANGED vars
  BY <1>6 DEF LockExpires, NextDay, vars, paystackVars
<1> QED
  BY <1>1, <1>2, <1>3, <1>4, <1>5, <1>6
     DEF Next, Worker, RowStep, Fault, Paystack

\* A reference Paystack knows stays known.
LEMMA KnownForever ==
  ASSUME TypeOK, [Next]_vars, NEW r \in Requests, transfer[r] # "unknown"
  PROVE  transfer'[r] # "unknown"
<1>1. ASSUME NEW w \in Workers, NEW answer \in FirstAnswers,
             Accept(row[w], code[w], answer)
      PROVE  transfer'[r] # "unknown"
  BY <1>1, PaystackAssumption DEF Accept, TypeOK
<1>2. ASSUME NEW p \in Requests, NEW to \in TransferStates, TransferSettles(p, to)
      PROVE  transfer'[r] # "unknown"
  <2>1. to # "unknown"
    BY <1>2, PaystackAssumption DEF TransferSettles
  <2> QED
    BY <1>2, <2>1 DEF TransferSettles, TypeOK
<1> QED
  BY <1>1, <1>2, TransferChanges

\* A worker that takes a step with its row still knows where that row stands.
LEMMA RowStepKnows ==
  ASSUME TypeOK, WorkersKnowTheirRow, PaystackKnowsClaimed, [Next]_vars,
         NEW w \in Workers, RowStep(w)
  PROVE  KnowsItsRow(w)'
<1> USE DEF AtRow
<1>1. KnowsItsRow(w) /\ UNCHANGED <<inCycle, todo>>
  BY DEF WorkersKnowTheirRow, RowStep, ClaimForPayout, EnsureRecipient,
     VerifyTransfer, InitiateTransfer, InitiateRefused,
     ApplyVerifiedTransferOutcome, Notify
<1>2. todo'[w] \subseteq {r \in Requests : status'[r] \in Debited}
  BY <1>1, StatusForward DEF KnowsItsRow, TypeOK
<1>3. pc[w] \in AtRow /\ row[w] \in Requests
  BY DEF TypeOK, RowStep, ClaimForPayout, EnsureRecipient, VerifyTransfer,
     InitiateTransfer, InitiateRefused, ApplyVerifiedTransferOutcome, Notify
<1>4. ASSUME Leave(w) PROVE KnowsItsRow(w)'
  <2>1. pc'[w] = IF inCycle[w] THEN "next" ELSE "idle"
    BY <1>4 DEF Leave, Goto, TypeOK
  <2> QED
    BY <1>1, <1>2, <2>1 DEF KnowsItsRow
<1>5. CASE ClaimForPayout(w)
  <2>1. CASE /\ status' = [status EXCEPT ![row[w]] = "queued_for_payout"]
             /\ Goto(w, "recipient") /\ UNCHANGED row
    <3>1. pc'[w] = "recipient" /\ row'[w] = row[w] /\ inCycle[w]
      BY <1>1, <1>5, <2>1 DEF Goto, TypeOK, ClaimForPayout, KnowsItsRow
    <3>2. status'[row[w]] = "queued_for_payout"
      BY <1>3, <2>1 DEF TypeOK
    <3> QED
      BY <1>1, <1>2, <3>1, <3>2 DEF KnowsItsRow, Debited, Claimed
  <2> QED
    BY <1>4, <1>5, <2>1 DEF ClaimForPayout, Finish
<1>6. CASE EnsureRecipient(w) \/ VerifyTransfer(w) \/ InitiateTransfer(w)
  <2>1. row'[w] = row[w] /\ status[row[w]] \in Claimed
    BY <1>1, <1>6 DEF KnowsItsRow, EnsureRecipient, VerifyTransfer,
       InitiateTransfer
  <2>2. status'[row[w]] \in Claimed
    BY <1>3, <2>1, StatusForward
  <2>3. /\ pc'[w] \in {"verify", "initiate", "apply"}
        /\ pc'[w] \in {"verify", "initiate"} => inCycle[w]
    BY <1>1, <1>6 DEF EnsureRecipient, VerifyTransfer, InitiateTransfer, Known,
       Goto, TypeOK, KnowsItsRow
  <2> QED
    BY <1>1, <1>2, <2>1, <2>2, <2>3 DEF KnowsItsRow, Debited, Claimed
<1>7. CASE InitiateRefused(w)
  BY <1>4, <1>7 DEF InitiateRefused
<1>8. CASE ApplyVerifiedTransferOutcome(w)
  <2>1. CASE /\ status' \in {[status EXCEPT ![row[w]] = "paid"],
                            [status EXCEPT ![row[w]] = "payout_failed_reversed"]}
             /\ Goto(w, "notify") /\ UNCHANGED row
    <3>1. pc'[w] = "notify" /\ row'[w] = row[w]
      BY <2>1 DEF Goto, TypeOK
    <3>2. status'[row[w]] \in Settled
      BY <1>3, <2>1 DEF TypeOK, Settled
    <3> QED
      BY <1>1, <1>2, <3>1, <3>2 DEF KnowsItsRow, Debited, Claimed, Settled
  <2> QED
    BY <1>4, <1>8, <2>1, OutcomeCases
<1>9. CASE Notify(w)
  BY <1>4, <1>9 DEF Notify, Finish
<1> QED
  BY <1>5, <1>6, <1>7, <1>8, <1>9 DEF RowStep

\* The same for a step that gives a worker a row, or takes it away.
LEMMA WorkerKnows ==
  ASSUME TypeOK, WorkersKnowTheirRow, PaystackKnowsClaimed, [Next]_vars,
         NEW w \in Workers, Worker(w)
  PROVE  KnowsItsRow(w)'
<1> USE DEF AtRow
<1>1. KnowsItsRow(w)
  BY DEF WorkersKnowTheirRow
<1>2. todo[w] \subseteq {r \in Requests : status'[r] \in Debited}
  BY <1>1, StatusForward DEF KnowsItsRow, TypeOK
<1>3. CASE StartCycle(w)
  <2>1. UNCHANGED <<status, row, transfer>> /\ row[w] = None
    BY <1>3 DEF StartCycle, rowVars, requestVars, paystackVars, TypeOK
  <2>2. pc'[w] = "next" /\ inCycle'[w] /\ todo'[w] = WithdrawalPayoutIds
    BY <1>3 DEF StartCycle, Goto, TypeOK
  <2> QED
    BY <2>1, <2>2 DEF KnowsItsRow, WithdrawalPayoutIds, Debited
<1>4. CASE NextRow(w)
  <2>1. /\ pc'[w] = "claim" /\ row'[w] \in todo[w] /\ inCycle'[w] = inCycle[w]
        /\ todo'[w] \subseteq todo[w]
    BY <1>4 DEF NextRow, Goto, TypeOK
  <2>2. inCycle[w]
    BY <1>1, <1>4 DEF NextRow, KnowsItsRow
  <2> QED
    BY <1>2, <2>1, <2>2 DEF KnowsItsRow
<1>5. CASE RecordCycle(w) \/ CycleFails(w)
  <2>1. /\ pc'[w] = "release" /\ inCycle'[w] = inCycle[w] /\ todo'[w] = todo[w]
        /\ inCycle[w]
    BY <1>1, <1>5 DEF RecordCycle, CycleFails, Goto, TypeOK, KnowsItsRow
  <2> QED
    BY <1>2, <2>1 DEF KnowsItsRow
<1>6. CASE ReleaseLock(w) \/ Crash(w)
  <2>1. pc'[w] = "idle" /\ ~inCycle'[w] /\ todo'[w] = {}
    BY <1>6 DEF ReleaseLock, Crash, Goto, TypeOK
  <2> QED
    BY <2>1 DEF KnowsItsRow
<1>7. ASSUME NEW r \in Requests, StartWebhookTask(w, r) PROVE KnowsItsRow(w)'
  <2>1. /\ pc'[w] = "verify" /\ row'[w] = r /\ UNCHANGED <<inCycle, todo, status, transfer>>
        /\ transfer[r] # "unknown"
    BY <1>7 DEF StartWebhookTask, Goto, TypeOK, requestVars, paystackVars
  <2>2. status'[r] \in Claimed
    BY <2>1 DEF PaystackKnowsClaimed
  <2> QED
    BY <1>1, <1>2, <2>1, <2>2 DEF KnowsItsRow, Debited, Claimed
<1>8. CASE RowFails(w) \/ InitiateTimesOut(w)
  <2>1. /\ pc'[w] = IF inCycle[w] THEN "next" ELSE "idle"
        /\ inCycle'[w] = inCycle[w] /\ todo'[w] = todo[w]
    BY <1>8 DEF RowFails, InitiateTimesOut, Leave, Goto, TypeOK
  <2> QED
    BY <1>1, <1>2, <2>1 DEF KnowsItsRow
<1>9. CASE RowStep(w)
  BY <1>9, RowStepKnows
<1> QED
  BY <1>3, <1>4, <1>5, <1>6, <1>7, <1>8, <1>9 DEF Worker, CycleStep, Fault

\* No step of anybody invalidates what the workers know of their rows.
LEMMA KnowsStep ==
  TypeOK /\ WorkersKnowTheirRow /\ PaystackKnowsClaimed /\ [Next]_vars
    => WorkersKnowTheirRow' /\ PaystackKnowsClaimed'
<1> SUFFICES ASSUME TypeOK, WorkersKnowTheirRow, PaystackKnowsClaimed, [Next]_vars
             PROVE  WorkersKnowTheirRow' /\ PaystackKnowsClaimed'
  OBVIOUS
<1>1. ASSUME NEW v \in Workers,
             /\ pc'[v] = pc[v] /\ inCycle'[v] = inCycle[v]
             /\ row'[v] = row[v] /\ todo'[v] = todo[v]
      PROVE  KnowsItsRow(v)'
  <2>1. KnowsItsRow(v)
    BY DEF WorkersKnowTheirRow
  <2>2. pc[v] \in AtRow => row[v] \in Requests
    BY DEF TypeOK
  <2>3. todo[v] \subseteq {r \in Requests : status'[r] \in Debited}
    BY <2>1, StatusForward DEF KnowsItsRow, TypeOK
  <2>4. pc[v] = "verify" => inCycle[v] \/ transfer'[row[v]] # "unknown"
    BY <2>1, <2>2, KnownForever DEF KnowsItsRow, AtRow
  <2>5. /\ pc[v] \in AtRow => status'[row[v]] \in Debited
        /\ pc[v] \in AtRow \ {"claim"} => status'[row[v]] \in Claimed
        /\ pc[v] = "notify" => status'[row[v]] \in Settled
    BY <2>1, <2>2, StatusForward DEF KnowsItsRow, AtRow
  <2> QED
    BY <1>1, <2>1, <2>3, <2>4, <2>5 DEF KnowsItsRow
<1>2. WorkersKnowTheirRow'
  <2>1. ASSUME NEW w \in Workers, Worker(w), NEW v \in Workers
        PROVE  KnowsItsRow(v)'
    BY <1>1, <2>1, OthersStand, WorkerKnows
  <2>2. ASSUME \A w \in Workers : ~Worker(w), NEW v \in Workers
        PROVE  KnowsItsRow(v)'
    BY <1>1, <2>2, WorkersStand
  <2> QED
    BY <2>1, <2>2 DEF WorkersKnowTheirRow
<1>3. ASSUME NEW r \in Requests, transfer'[r] # "unknown"
      PROVE  status[r] \in Claimed
  <2>1. ASSUME NEW w \in Workers, InitiateTransfer(w) \/ InitiateTimesOut(w),
               NEW answer \in FirstAnswers, Accept(row[w], code[w], answer)
        PROVE  status[r] \in Claimed
    <3>1. CASE r = row[w]
      BY <2>1, <3>1 DEF InitiateTransfer, InitiateTimesOut, AtRow,
         WorkersKnowTheirRow, KnowsItsRow
    <3>2. CASE r # row[w]
      BY <1>3, <2>1, <3>2 DEF Accept, TypeOK, PaystackKnowsClaimed
    <3> QED
      BY <3>1, <3>2
  <2>2. ASSUME NEW p \in Requests, NEW to \in TransferStates, TransferSettles(p, to)
        PROVE  status[r] \in Claimed
    <3>1. transfer[p] # "unknown"
      BY <2>2, PaystackAssumption DEF TransferSettles
    <3> QED
      BY <1>3, <2>2, <3>1 DEF TransferSettles, TypeOK, PaystackKnowsClaimed
  <2>3. CASE UNCHANGED <<transfer, sentTo, accepted>>
    BY <1>3, <2>3 DEF PaystackKnowsClaimed
  <2> QED
    BY <2>1, <2>2, <2>3, TransferChanges
<1>4. PaystackKnowsClaimed'
  BY <1>3, StatusForward DEF PaystackKnowsClaimed
<1> QED
  BY <1>2, <1>4

\* Every worker's row is where its step expects it, and Paystack never hears
\* of a request whose money has not left the wallet.
THEOREM RowsKnown == Spec => [](WorkersKnowTheirRow /\ PaystackKnowsClaimed)
<1>1. Init => WorkersKnowTheirRow /\ PaystackKnowsClaimed
  BY DEF Init, WorkersKnowTheirRow, KnowsItsRow, PaystackKnowsClaimed, AtRow
<1> QED
  BY <1>1, KnowsStep, TypeCorrect, PTL DEF Spec
-----------------------------------------------------------------------------
(* One cycle at a time, and one transfer per request.                       *)

\* inCycle and the lock change in six operations only.
LEMMA CycleChanges ==
  ASSUME [Next]_vars
  PROVE  /\ env' = env
         /\ \/ \E w \in Workers : StartCycle(w) \/ NextRow(w) \/ ReleaseLock(w) \/ Crash(w)
            \/ LockExpires
            \/ UNCHANGED <<inCycle, lock>>
<1>1. ASSUME NEW d \in Distributors, Account(d)
      PROVE  UNCHANGED <<inCycle, lock, env>>
  BY <1>1 DEF Account, ApproveKyc, SavePayoutSettings, Earn, ClawBack,
     SubmitWithdrawalRequest, workerVars, clockVars
<1>2. ASSUME NEW r \in Requests, Review(r) \/ Paystack(r)
      PROVE  UNCHANGED <<inCycle, lock, env>>
  BY <1>2 DEF Review, ApproveWithdrawalRequest, RejectWithdrawalRequest,
     Paystack, TransferSettles, workerVars, clockVars
<1>3. ASSUME NEW w \in Workers,
             \/ RecordCycle(w) \/ RowFails(w) \/ CycleFails(w) \/ InitiateTimesOut(w)
             \/ RowStep(w) \/ \E r \in Requests : StartWebhookTask(w, r)
      PROVE  UNCHANGED <<inCycle, lock, env>>
  BY <1>3 DEF RecordCycle, RowFails, CycleFails, InitiateTimesOut,
     StartWebhookTask, RowStep, ClaimForPayout, EnsureRecipient, VerifyTransfer,
     InitiateTransfer, InitiateRefused, ApplyVerifiedTransferOutcome, Notify,
     clockVars
<1>4. ASSUME NEW w \in Workers,
             StartCycle(w) \/ NextRow(w) \/ ReleaseLock(w) \/ Crash(w)
      PROVE  env' = env
  BY <1>4 DEF StartCycle, NextRow, ReleaseLock, Crash, clockVars
<1>5. CASE LockExpires \/ NextDay \/ UNCHANGED vars
  BY <1>5 DEF LockExpires, NextDay, vars, workerVars, clockVars
<1> QED
  BY <1>1, <1>2, <1>3, <1>4, <1>5 DEF Next, Worker, CycleStep, Fault

\* A cycle starts only with the lock, and holds it until its last step.
LEMMA CycleStepSafe ==
  /\ TypeOK /\ WorkersKnowTheirRow /\ CyclesDoNotOverlap /\ CycleHoldsLock
  /\ [Next]_vars
  => CyclesDoNotOverlap' /\ CycleHoldsLock'
<1> SUFFICES ASSUME TypeOK, WorkersKnowTheirRow, CyclesDoNotOverlap, CycleHoldsLock,
                    [Next]_vars
             PROVE  CyclesDoNotOverlap' /\ CycleHoldsLock'
  OBVIOUS
<1> USE DEF CyclesDoNotOverlap, CycleHoldsLock
<1>1. env' = env
  BY CycleChanges
<1>2. ASSUME NEW w \in Workers, StartCycle(w)
      PROVE  CyclesDoNotOverlap' /\ CycleHoldsLock'
  BY <1>1, <1>2 DEF StartCycle, TakeLock, TypeOK
<1>3. ASSUME NEW w \in Workers, NextRow(w)
      PROVE  CyclesDoNotOverlap' /\ CycleHoldsLock'
  BY <1>1, <1>3 DEF NextRow
<1>4. ASSUME NEW w \in Workers, ReleaseLock(w)
      PROVE  CyclesDoNotOverlap' /\ CycleHoldsLock'
  <2>1. inCycle[w] /\ inCycle' = [inCycle EXCEPT ![w] = FALSE]
    BY <1>4 DEF ReleaseLock, WorkersKnowTheirRow, KnowsItsRow
  <2> QED
    BY <1>1, <2>1 DEF TypeOK
<1>5. ASSUME NEW w \in Workers, Crash(w)
      PROVE  CyclesDoNotOverlap' /\ CycleHoldsLock'
  BY <1>1, <1>5 DEF Crash, TypeOK
<1>6. CASE LockExpires
  BY <1>1, <1>6 DEF LockExpires
<1>7. CASE UNCHANGED <<inCycle, lock>>
  BY <1>1, <1>7
<1> QED
  BY <1>2, <1>3, <1>4, <1>5, <1>6, <1>7, CycleChanges

\* While Redis keeps its lock no two payout cycles overlap, through crashes,
\* failures, renewals and expiries, for any number of workers.
THEOREM CyclesExclude == Spec => [](CyclesDoNotOverlap /\ CycleHoldsLock)
<1>1. Init => CyclesDoNotOverlap /\ CycleHoldsLock
  BY DEF Init, CyclesDoNotOverlap, CycleHoldsLock
<1> QED
  BY <1>1, CycleStepSafe, TypeCorrect, RowsKnown, PTL DEF Spec

\* What the last part of the invariant needs of the parts before it.
Background ==
  /\ TypeOK
  /\ WorkersKnowTheirRow
  /\ PaystackKnowsClaimed
  /\ CyclesDoNotOverlap

\* Whoever initiates a transfer successfully is the first, by the lock or by
\* Paystack's refusal of a known reference.
LEMMA FirstToInitiate ==
  ASSUME Background, InitiateIsFresh, NEW w \in Workers, pc[w] = "initiate",
         NEW answer, Accept(row[w], code[w], answer)
  PROVE  row[w] \in Requests /\ transfer[row[w]] = "unknown"
  BY DEF Background, InitiateIsFresh, Accept, TypeOK, AtRow

Transfers ==
  InitiateIsFresh /\ AcceptedIfKnown /\ AnswersStayTrue /\ SettledAsPaystackSays

\* A transfer moves forward, and out of success only into reversed.
LEMMA TransferForward ==
  ASSUME Background, InitiateIsFresh, [Next]_vars, NEW r \in Requests,
         transfer[r] # "unknown"
  PROVE  /\ transfer'[r] # "unknown"
         /\ transfer[r] \in {"success", "reversed"} => transfer'[r] \in {"success", "reversed"}
         /\ transfer[r] \in TransferFailures => transfer'[r] = transfer[r]
<1>1. ASSUME NEW w \in Workers, InitiateTransfer(w) \/ InitiateTimesOut(w),
             NEW answer \in FirstAnswers, Accept(row[w], code[w], answer)
      PROVE  transfer'[r] = transfer[r]
  <2>1. row[w] # r
    BY <1>1, FirstToInitiate DEF InitiateTransfer, InitiateTimesOut
  <2> QED
    BY <1>1, <2>1 DEF Accept, Background, TypeOK
<1>2. ASSUME NEW p \in Requests, NEW to \in TransferStates, TransferSettles(p, to)
      PROVE  /\ transfer[r] \in {"success", "reversed"} => transfer'[r] \in {"success", "reversed"}
             /\ transfer[r] \in TransferFailures => transfer'[r] = transfer[r]
  <2>1. /\ transfer[p] \notin TransferFailures
        /\ transfer[p] = "success" => to = "reversed"
    BY <1>2, PaystackAssumption DEF TransferSettles, TransferFailures
  <2> QED
    BY <1>2, <2>1 DEF TransferSettles, Background, TypeOK, TransferFailures
<1> QED
  BY <1>1, <1>2, TransferChanges, KnownForever DEF Background, TransferFailures

\* Nobody else initiates a transfer while a worker is about to: either the
\* cycle lock keeps the others out, or Paystack refuses the reference.
LEMMA FreshStep ==
  Background /\ InitiateIsFresh /\ [Next]_vars => InitiateIsFresh'
<1> SUFFICES ASSUME Background, InitiateIsFresh, [Next]_vars,
                    ~env'.referenceUnique,
                    NEW v \in Workers, pc'[v] = "initiate"
             PROVE  transfer'[row'[v]] = "unknown"
  BY DEF InitiateIsFresh
<1> USE DEF Background
<1>1. ~env.referenceUnique /\ ~env.lockMayLapse
  BY CycleChanges, EnvironmentAssumption DEF TypeOK
<1>2. ASSUME NEW r \in Requests, transfer[r] = "unknown",
             \A w \in Workers : pc[w] = "initiate" /\ row[w] = r =>
               ~InitiateTransfer(w) /\ ~InitiateTimesOut(w)
      PROVE  transfer'[r] = "unknown"
  <2>1. ASSUME NEW w \in Workers, InitiateTransfer(w) \/ InitiateTimesOut(w),
               NEW answer \in FirstAnswers, Accept(row[w], code[w], answer)
        PROVE  transfer'[r] = "unknown"
    <3>1. row[w] # r
      BY <1>2, <2>1 DEF InitiateTransfer, InitiateTimesOut
    <3> QED
      BY <1>2, <2>1, <3>1 DEF Accept, TypeOK
  <2>2. ASSUME NEW p \in Requests, NEW to \in TransferStates, TransferSettles(p, to)
        PROVE  transfer'[r] = "unknown"
    <3>1. transfer[p] # "unknown"
      BY <2>2, PaystackAssumption DEF TransferSettles
    <3> QED
      BY <1>2, <2>2, <3>1 DEF TransferSettles, TypeOK
  <2> QED
    BY <1>2, <2>1, <2>2, TransferChanges
<1>3. CASE pc[v] = "initiate" /\ row'[v] = row[v]
  <2>1. row[v] \in Requests /\ transfer[row[v]] = "unknown" /\ inCycle[v]
    BY <1>1, <1>3 DEF InitiateIsFresh, TypeOK, AtRow, WorkersKnowTheirRow,
       KnowsItsRow
  <2>2. ASSUME NEW w \in Workers, pc[w] = "initiate",
               InitiateTransfer(w) \/ InitiateTimesOut(w)
        PROVE  FALSE
    <3>1. inCycle[w]
      BY <2>2 DEF WorkersKnowTheirRow, KnowsItsRow
    <3>2. w = v
      BY <1>1, <2>1, <3>1 DEF CyclesDoNotOverlap
    <3>3. pc'[w] # "initiate"
      BY <2>2 DEF InitiateTransfer, InitiateTimesOut, Leave, Goto, TypeOK
    <3> QED
      BY <3>2, <3>3
  <2> QED
    BY <1>2, <1>3, <2>1, <2>2
<1>4. CASE VerifyTransfer(v) /\ ~Known(row[v])
  BY <1>4 DEF VerifyTransfer, Known, paystackVars
<1>5. \/ pc[v] = "initiate" /\ row'[v] = row[v]
      \/ VerifyTransfer(v) /\ ~Known(row[v])
  <2>1. CASE Worker(v)
    <3>1. VerifyTransfer(v)
      BY <2>1 DEF Worker, CycleStep, RowStep, Fault, StartCycle, NextRow,
         RecordCycle, ReleaseLock, ClaimForPayout, EnsureRecipient,
         InitiateTransfer, InitiateRefused, ApplyVerifiedTransferOutcome, Notify,
         RowFails, InitiateTimesOut, CycleFails, Crash, StartWebhookTask, Finish,
         Leave, Goto, TypeOK
    <3> QED
      BY <3>1 DEF VerifyTransfer, Goto, TypeOK
  <2>2. CASE ~Worker(v)
    BY <2>2, OthersStand, WorkersStand
  <2> QED
    BY <2>1, <2>2
<1> QED
  BY <1>3, <1>4, <1>5

\* A transfer is accepted only for a reference Paystack does not know.
LEMMA AcceptedStep ==
  Background /\ InitiateIsFresh /\ AcceptedIfKnown /\ [Next]_vars => AcceptedIfKnown'
<1> SUFFICES ASSUME Background, InitiateIsFresh, AcceptedIfKnown, [Next]_vars
             PROVE  AcceptedIfKnown'
  OBVIOUS
<1>1. ASSUME NEW w \in Workers, InitiateTransfer(w) \/ InitiateTimesOut(w),
             NEW answer \in FirstAnswers, Accept(row[w], code[w], answer)
      PROVE  AcceptedIfKnown'
  <2>1. row[w] \in Requests /\ transfer[row[w]] = "unknown"
    BY <1>1, FirstToInitiate DEF InitiateTransfer, InitiateTimesOut
  <2>2. answer # "unknown"
    BY PaystackAssumption
  <2> QED
    BY <1>1, <2>1, <2>2 DEF Accept, AcceptedIfKnown, Background, TypeOK
<1>2. ASSUME NEW p \in Requests, NEW to \in TransferStates, TransferSettles(p, to)
      PROVE  AcceptedIfKnown'
  <2>1. transfer[p] # "unknown" /\ to # "unknown"
    BY <1>2, PaystackAssumption DEF TransferSettles
  <2> QED
    BY <1>2, <2>1 DEF TransferSettles, AcceptedIfKnown, Background, TypeOK
<1>3. CASE UNCHANGED <<transfer, sentTo, accepted>>
  BY <1>3 DEF AcceptedIfKnown
<1> QED
  BY <1>1, <1>2, <1>3, TransferChanges

\* Paystack may move on after it answered, but not from one outcome to the
\* other: a stale answer still names the outcome.
LEMMA AnswersStep ==
  Background /\ InitiateIsFresh /\ AnswersStayTrue /\ [Next]_vars => AnswersStayTrue'
<1> SUFFICES ASSUME Background, InitiateIsFresh, AnswersStayTrue, [Next]_vars,
                    NEW v \in Workers, pc'[v] = "apply"
             PROVE  /\ transfer'[row'[v]] # "unknown"
                    /\ seen'[v] = "success" => transfer'[row'[v]] \in {"success", "reversed"}
                    /\ seen'[v] \in TransferFailures => transfer'[row'[v]] = seen'[v]
  BY DEF AnswersStayTrue
<1> USE DEF Background
<1>1. CASE pc[v] = "apply" /\ row'[v] = row[v] /\ seen'[v] = seen[v]
  <2>1. row[v] \in Requests
    BY <1>1 DEF TypeOK, AtRow
  <2> QED
    BY <1>1, <2>1, TransferForward DEF AnswersStayTrue
<1>2. CASE VerifyTransfer(v)
  <2>1. row[v] \in Requests /\ row'[v] = row[v] /\ transfer' = transfer
    BY <1>2 DEF VerifyTransfer, paystackVars, TypeOK, AtRow
  <2>2. seen'[v] = transfer[row[v]] /\ transfer[row[v]] # "unknown"
    BY <1>2 DEF VerifyTransfer, Known, Goto, TypeOK
  <2> QED
    BY <2>1, <2>2
<1>3. CASE InitiateTransfer(v)
  <2>1. PICK answer \in FirstAnswers :
          Accept(row[v], code[v], answer) /\ seen' = [seen EXCEPT ![v] = answer]
    BY <1>3 DEF InitiateTransfer
  <2>2. answer \in {"pending", "otp", "success"}
    BY PaystackAssumption
  <2>3. row[v] \in Requests /\ row'[v] = row[v]
    BY <1>3 DEF InitiateTransfer, TypeOK, AtRow
  <2>4. transfer'[row'[v]] = answer /\ seen'[v] = answer
    BY <2>1, <2>3 DEF Accept, TypeOK
  <2> QED
    BY <2>2, <2>4 DEF TransferFailures
<1>4. \/ pc[v] = "apply" /\ row'[v] = row[v] /\ seen'[v] = seen[v]
      \/ VerifyTransfer(v) \/ InitiateTransfer(v)
  <2>1. CASE Worker(v)
    BY <2>1 DEF Worker, CycleStep, RowStep, Fault, StartCycle, NextRow,
       RecordCycle, ReleaseLock, ClaimForPayout, EnsureRecipient, InitiateRefused,
       ApplyVerifiedTransferOutcome, Notify, RowFails, InitiateTimesOut,
       CycleFails, Crash, StartWebhookTask, Finish, Leave, Goto, TypeOK
  <2>2. CASE ~Worker(v)
    BY <2>2, OthersStand, WorkersStand
  <2> QED
    BY <2>1, <2>2
<1> QED
  BY <1>1, <1>2, <1>3, <1>4

\* A request is settled on an answer that was true, and stays true.
LEMMA SettledStep ==
  Background /\ InitiateIsFresh /\ AnswersStayTrue /\ SettledAsPaystackSays /\ [Next]_vars
    => SettledAsPaystackSays'
<1> SUFFICES ASSUME Background, InitiateIsFresh, AnswersStayTrue,
                    SettledAsPaystackSays, [Next]_vars, NEW r \in Requests
             PROVE  /\ status'[r] = "paid" => transfer'[r] \in {"success", "reversed"}
                    /\ status'[r] = "payout_failed_reversed"
                         => transfer'[r] \in {"failed", "reversed"}
  BY DEF SettledAsPaystackSays
<1> USE DEF Background
<1>1. ASSUME status'[r] = status[r]
             \/ status'[r] \notin {"paid", "payout_failed_reversed"}
      PROVE  /\ status'[r] = "paid" => transfer'[r] \in {"success", "reversed"}
             /\ status'[r] = "payout_failed_reversed"
                  => transfer'[r] \in {"failed", "reversed"}
  BY <1>1, TransferForward DEF SettledAsPaystackSays, TransferFailures
<1>2. ASSUME NEW w \in Workers, ApplyVerifiedTransferOutcome(w), row[w] = r,
             status'[r] # status[r]
      PROVE  /\ status'[r] = "paid" => transfer'[r] \in {"success", "reversed"}
             /\ status'[r] = "payout_failed_reversed"
                  => transfer'[r] \in {"failed", "reversed"}
  <2>1. /\ status'[r] = "paid" => seen[w] = "success"
        /\ status'[r] = "payout_failed_reversed" => seen[w] \in TransferFailures
        /\ transfer' = transfer /\ pc[w] = "apply"
    BY <1>2, OutcomeCases DEF TypeOK
  <2> QED
    BY <1>2, <2>1 DEF AnswersStayTrue, TransferFailures
<1>3. \/ status'[r] = status[r]
      \/ status'[r] \notin {"paid", "payout_failed_reversed"}
      \/ \E w \in Workers : ApplyVerifiedTransferOutcome(w) /\ row[w] = r
  <2>1. ASSUME NEW w \in Workers, ApplyVerifiedTransferOutcome(w), row[w] # r
        PROVE  status'[r] = status[r]
    BY <2>1, OutcomeCases DEF TypeOK
  <2>2. ASSUME NEW d \in Distributors, NEW p \in Requests, NEW amount \in Amounts,
               NEW rate \in TaxRates, SubmitWithdrawalRequest(d, p, amount, rate)
        PROVE  status'[r] \in {status[r], "submitted"}
    BY <2>2 DEF SubmitWithdrawalRequest, TypeOK
  <2>3. ASSUME NEW p \in Requests,
               ApproveWithdrawalRequest(p) \/ RejectWithdrawalRequest(p)
        PROVE  status'[r] \in {status[r], "approved_debited", "rejected"}
    BY <2>3 DEF ApproveWithdrawalRequest, RejectWithdrawalRequest, TypeOK
  <2>4. ASSUME NEW w \in Workers, ClaimForPayout(w)
        PROVE  status'[r] \in {status[r], "queued_for_payout"}
    BY <2>4 DEF ClaimForPayout, TypeOK
  <2> QED
    BY <2>1, <2>2, <2>3, <2>4, StatusChanges
<1> QED
  BY <1>1, <1>2, <1>3

\* The last part of the invariant.
LEMMA TransfersInvariant == Spec => []Transfers
<1>1. Init => Transfers
  BY DEF Init, Transfers, InitiateIsFresh, AcceptedIfKnown, AnswersStayTrue,
     SettledAsPaystackSays
<1>2. Background /\ Transfers /\ [Next]_vars => Transfers'
  BY FreshStep, AcceptedStep, AnswersStep, SettledStep DEF Transfers
<1>3. Spec => []Background
  BY TypeCorrect, RowsKnown, CyclesExclude, PTL DEF Background
<1> QED
  BY <1>1, <1>2, <1>3, PTL DEF Spec

\* No request is paid or returned against Paystack's word, and Paystack takes
\* on at most one transfer for it, whichever of the two layers stands.
THEOREM PayoutCorrect == Spec => [](OneTransferPerRequest /\ SettledAsPaystackSays)
<1>1. Transfers => OneTransferPerRequest /\ SettledAsPaystackSays
  BY DEF Transfers, AcceptedIfKnown, OneTransferPerRequest
<1> QED
  BY <1>1, TransfersInvariant, PTL

-----------------------------------------------------------------------------
(* The payout account, and the SMS.                                         *)

\* The recipient is cached by one operation, from the snapshot.
LEMMA RecipientChanges ==
  ASSUME [Next]_vars
  PROVE  \/ recipient' = recipient
         \/ \E w \in Workers : EnsureRecipient(w)
<1>1. ASSUME NEW d \in Distributors, Account(d) PROVE recipient' = recipient
  BY <1>1 DEF Account, ApproveKyc, SavePayoutSettings, Earn, ClawBack,
     SubmitWithdrawalRequest, requestVars
<1>2. ASSUME NEW r \in Requests, Review(r) \/ Paystack(r)
      PROVE  recipient' = recipient
  BY <1>2 DEF Review, ApproveWithdrawalRequest, RejectWithdrawalRequest,
     Paystack, TransferSettles, requestVars
<1>3. ASSUME NEW w \in Workers, Worker(w), ~EnsureRecipient(w)
      PROVE  recipient' = recipient
  BY <1>3 DEF Worker, CycleStep, RowStep, Fault, StartCycle, NextRow, RecordCycle,
     ReleaseLock, ClaimForPayout, VerifyTransfer, InitiateTransfer,
     InitiateRefused, ApplyVerifiedTransferOutcome, Notify, RowFails,
     InitiateTimesOut, CycleFails, Crash, StartWebhookTask, requestVars
<1>4. CASE LockExpires \/ NextDay \/ UNCHANGED vars
  BY <1>4 DEF LockExpires, NextDay, vars, requestVars
<1> QED
  BY <1>1, <1>2, <1>3, <1>4 DEF Next

\* The recipient, the worker's copy of it and the account Paystack was given
\* all stay equal to the snapshot, which is written once, at approval.
LEMMA SnapshotStep ==
  Background /\ CopiesOfSnapshot /\ SentToSnapshot /\ [Next]_vars
    => CopiesOfSnapshot' /\ SentToSnapshot'
<1> SUFFICES ASSUME Background, CopiesOfSnapshot, SentToSnapshot, [Next]_vars
             PROVE  CopiesOfSnapshot' /\ SentToSnapshot'
  OBVIOUS
<1> USE DEF Background
<1>1. ASSUME NEW w \in Workers, row[w] # None
      PROVE  /\ row[w] \in Requests
             /\ status[row[w]] \in Debited
             /\ payoutTo'[row[w]] = payoutTo[row[w]]
  <2>1. row[w] \in Requests /\ status[row[w]] \in Debited
    BY <1>1 DEF TypeOK, WorkersKnowTheirRow, KnowsItsRow
  <2> QED
    BY <2>1, StatusForward
<1>2. ASSUME NEW r \in Requests, recipient'[r] # None
      PROVE  recipient'[r] = payoutTo'[r] /\ status'[r] \in Claimed
  <2>1. CASE recipient'[r] = recipient[r]
    BY <1>2, <2>1, StatusForward DEF CopiesOfSnapshot, Claimed
  <2>2. ASSUME NEW w \in Workers, EnsureRecipient(w), recipient'[r] # recipient[r]
        PROVE  recipient'[r] = payoutTo'[r] /\ status'[r] \in Claimed
    <3>1. row[w] = r /\ recipient'[r] = payoutTo[r]
      BY <2>2 DEF EnsureRecipient, PayoutAccount, TypeOK
    <3>2. status[r] \in Claimed
      BY <2>2, <3>1 DEF EnsureRecipient, WorkersKnowTheirRow, KnowsItsRow, AtRow
    <3> QED
      BY <3>1, <3>2, StatusForward DEF Claimed
  <2> QED
    BY <2>1, <2>2, RecipientChanges
<1>3. ASSUME NEW r \in Requests, sentTo'[r] # None
      PROVE  sentTo'[r] = payoutTo'[r] /\ status'[r] \in Claimed
  <2>1. CASE sentTo'[r] = sentTo[r]
    BY <1>3, <2>1, StatusForward DEF CopiesOfSnapshot, SentToSnapshot, Claimed
  <2>2. ASSUME NEW w \in Workers, InitiateTransfer(w) \/ InitiateTimesOut(w),
               NEW answer \in FirstAnswers, Accept(row[w], code[w], answer),
               sentTo'[r] # sentTo[r]
        PROVE  sentTo'[r] = payoutTo'[r] /\ status'[r] \in Claimed
    <3>1. row[w] = r /\ sentTo'[r] = code[w]
      BY <2>2 DEF Accept, TypeOK
    <3>2. status[r] \in Claimed
      BY <2>2, <3>1 DEF InitiateTransfer, InitiateTimesOut, WorkersKnowTheirRow,
         KnowsItsRow, AtRow
    <3>3. code[w] = payoutTo[r]
      BY <1>3, <3>1 DEF CopiesOfSnapshot
    <3> QED
      BY <3>1, <3>2, <3>3, StatusForward DEF Claimed
  <2>3. ASSUME NEW p \in Requests, NEW to \in TransferStates, TransferSettles(p, to)
        PROVE  sentTo' = sentTo
    BY <2>3 DEF TransferSettles
  <2> QED
    BY <2>1, <2>2, <2>3, TransferChanges
<1>4. ASSUME NEW v \in Workers, code'[v] # None
      PROVE  row'[v] # None /\ code'[v] = payoutTo'[row'[v]]
  <2>1. CASE code'[v] = code[v] /\ row'[v] = row[v]
    BY <1>1, <1>4, <2>1 DEF CopiesOfSnapshot
  <2>2. CASE ClaimForPayout(v) /\ code' = [code EXCEPT ![v] = recipient[row[v]]]
             /\ row' = row
    <3>1. row[v] # None
      BY <2>2 DEF ClaimForPayout, AtRow, TypeOK
    <3>2. code'[v] = recipient[row[v]]
      BY <2>2 DEF TypeOK
    <3> QED
      BY <1>1, <1>4, <2>2, <3>1, <3>2 DEF CopiesOfSnapshot
  <2>3. CASE EnsureRecipient(v)
    <3>1. row[v] # None /\ row' = row
      BY <2>3 DEF EnsureRecipient, AtRow, TypeOK
    <3>2. code'[v] = code[v] \/ code'[v] = payoutTo[row[v]]
      BY <2>3 DEF EnsureRecipient, PayoutAccount, TypeOK
    <3> QED
      BY <1>1, <1>4, <3>1, <3>2 DEF CopiesOfSnapshot
  <2>4. CASE NextRow(v) \/ \E r \in Requests : StartWebhookTask(v, r)
    <3>1. row[v] = None /\ code' = code
      BY <2>4 DEF NextRow, StartWebhookTask, AtRow, TypeOK
    <3> QED
      BY <1>4, <3>1 DEF CopiesOfSnapshot
  <2>5. ASSUME Leave(v) \/ Crash(v) PROVE FALSE
    BY <1>4, <2>5 DEF Leave, Crash, TypeOK
  <2>6. CASE Worker(v)
    BY <2>1, <2>2, <2>3, <2>4, <2>5, <2>6 DEF Worker, CycleStep, RowStep, Fault,
       StartCycle, RecordCycle, ReleaseLock, ClaimForPayout, VerifyTransfer,
       InitiateTransfer, InitiateRefused, ApplyVerifiedTransferOutcome, Notify,
       RowFails, InitiateTimesOut, CycleFails, Finish, rowVars
  <2>7. CASE ~Worker(v)
    BY <2>1, <2>7, OthersStand, WorkersStand
  <2> QED
    BY <2>6, <2>7
<1> QED
  BY <1>2, <1>3, <1>4 DEF CopiesOfSnapshot, SentToSnapshot

\* Money goes to the account snapshotted at approval and to no other.
THEOREM SnapshotCorrect == Spec => [](CopiesOfSnapshot /\ SentToSnapshot)
<1>1. Init => CopiesOfSnapshot /\ SentToSnapshot
  BY DEF Init, CopiesOfSnapshot, SentToSnapshot
<1>2. Spec => []Background
  BY TypeCorrect, RowsKnown, CyclesExclude, PTL DEF Background
<1> QED
  BY <1>1, <1>2, SnapshotStep, PTL DEF Spec
\* Only the step after a real transition sends an outcome SMS.
LEMMA ToldChanges ==
  ASSUME [Next]_vars
  PROVE  told' = told \/ \E w \in Workers : Notify(w)
<1>1. ASSUME NEW w \in Workers, Worker(w), ~Notify(w)
      PROVE  told' = told
  BY <1>1 DEF Worker, CycleStep, RowStep, Fault, StartCycle, NextRow, RecordCycle,
     ReleaseLock, ClaimForPayout, EnsureRecipient, VerifyTransfer,
     InitiateTransfer, InitiateRefused, ApplyVerifiedTransferOutcome, RowFails,
     InitiateTimesOut, CycleFails, Crash, StartWebhookTask, recordVars
<1> QED
  BY <1>1, WorkersStand

\* Only the worker that made the transition owes the distributor an SMS.
LEMMA ToldStep ==
  Background /\ SmsIsStillDue /\ ToldOnce /\ [Next]_vars => SmsIsStillDue' /\ ToldOnce'
<1> SUFFICES ASSUME Background, SmsIsStillDue, ToldOnce, [Next]_vars
             PROVE  SmsIsStillDue' /\ ToldOnce'
  OBVIOUS
<1> USE DEF Background
<1>1. ASSUME NEW w \in Workers, pc[w] = "notify"
      PROVE  row[w] \in Requests /\ status[row[w]] \in Settled /\ told[row[w]] = 0
  BY <1>1 DEF TypeOK, AtRow, WorkersKnowTheirRow, KnowsItsRow, SmsIsStillDue
<1>2. ASSUME NEW w \in Workers, Notify(w)
      PROVE  SmsIsStillDue' /\ ToldOnce'
  <2>1. pc[w] = "notify" /\ pc'[w] # "notify" /\ status' = status
    BY <1>2 DEF Notify, Finish, Leave, Goto, TypeOK, requestVars
  <2>2. /\ \A r \in Requests : r # row[w] => told'[r] = told[r]
        /\ told'[row[w]] \in {0, 1}
    BY <1>1, <1>2, <2>1 DEF Notify, TypeOK
  <2>3. ASSUME NEW v \in Workers, v # w
        PROVE  pc'[v] = pc[v] /\ row'[v] = row[v]
    BY <1>2, <2>3, OthersStand DEF Worker, RowStep
  <2>4. ASSUME NEW v \in Workers, pc'[v] = "notify"
        PROVE  v # w /\ pc[v] = "notify" /\ row'[v] = row[v] /\ row[v] # row[w]
    BY <2>1, <2>3, <2>4 DEF SmsIsStillDue
  <2>5. \A r \in Requests : told'[r] > 0 => status'[r] \in Settled
    BY <1>1, <2>1, <2>2 DEF SmsIsStillDue
  <2>6. \A v \in Workers : pc'[v] = "notify" => told'[row'[v]] = 0
    BY <1>1, <2>2, <2>4
  <2>7. \A u, v \in Workers :
          pc'[u] = "notify" /\ pc'[v] = "notify" /\ row'[u] = row'[v] => u = v
    BY <2>4 DEF SmsIsStillDue
  <2>8. ToldOnce'
    BY <1>1, <2>1, <2>2 DEF ToldOnce
  <2> QED
    BY <2>5, <2>6, <2>7, <2>8 DEF SmsIsStillDue
<1>3. CASE told' = told
  <2>1. ASSUME NEW v \in Workers, pc'[v] = "notify"
        PROVE  \/ pc[v] = "notify" /\ row'[v] = row[v]
               \/ /\ ApplyVerifiedTransferOutcome(v) /\ row'[v] = row[v]
                  /\ row[v] \in Requests /\ status[row[v]] = "queued_for_payout"
    <3>1. CASE ApplyVerifiedTransferOutcome(v)
      BY <2>1, <3>1, OutcomeCases DEF Leave, Goto, TypeOK
    <3>2. CASE Worker(v) /\ ~ApplyVerifiedTransferOutcome(v)
      BY <2>1, <3>2 DEF Worker, CycleStep, RowStep, Fault, StartCycle, NextRow,
         RecordCycle, ReleaseLock, ClaimForPayout, EnsureRecipient, VerifyTransfer,
         InitiateTransfer, InitiateRefused, Notify, RowFails, InitiateTimesOut,
         CycleFails, Crash, StartWebhookTask, Finish, Leave, Goto, TypeOK
    <3>3. CASE ~Worker(v)
      BY <2>1, <3>3, OthersStand, WorkersStand
    <3> QED
      BY <3>1, <3>2, <3>3
  <2>2. \A r \in Requests : told'[r] > 0 => status'[r] \in Settled
    BY <1>3, StatusForward DEF SmsIsStillDue
  <2>3. \A v \in Workers : pc'[v] = "notify" => told'[row'[v]] = 0
    <3>1. ASSUME NEW r \in Requests, status[r] = "queued_for_payout"
          PROVE  told[r] = 0
      BY <3>1 DEF SmsIsStillDue, Settled, TypeOK
    <3> QED
      BY <1>1, <1>3, <2>1, <3>1
  <2>4. ASSUME NEW u \in Workers, NEW v \in Workers, u # v,
               pc'[u] = "notify", pc'[v] = "notify", row'[u] = row'[v]
        PROVE  FALSE
    <3>1. ASSUME NEW x \in Workers, NEW y \in Workers, x # y,
                 ApplyVerifiedTransferOutcome(x), pc'[y] = "notify",
                 row'[y] = row[x], status[row[x]] = "queued_for_payout"
          PROVE  FALSE
      <4>1. pc[y] = "notify" /\ row[y] = row[x]
        BY <3>1, OthersStand DEF Worker, RowStep
      <4> QED
        BY <1>1, <3>1, <4>1 DEF Settled
    <3> QED
      BY <2>1, <2>4, <3>1 DEF SmsIsStillDue
  <2> QED
    BY <1>3, <2>2, <2>3, <2>4 DEF SmsIsStillDue, ToldOnce
<1> QED
  BY <1>2, <1>3, ToldChanges

\* A distributor is told of the outcome at most once, however many webhook
\* tasks and cycles apply the same answer.
THEOREM ToldCorrect == Spec => [](SmsIsStillDue /\ ToldOnce)
<1>1. Init => SmsIsStillDue /\ ToldOnce
  BY DEF Init, SmsIsStillDue, ToldOnce
<1>2. Spec => []Background
  BY TypeCorrect, RowsKnown, CyclesExclude, PTL DEF Background
<1> QED
  BY <1>1, <1>2, ToldStep, PTL DEF Spec

\* The inductive invariant that the runs check on small instances holds of
\* every instance: the theorems above, put together.
THEOREM InvariantHolds == Spec => []IInv
<1>1. Transfers => AcceptedIfKnown /\ InitiateIsFresh /\ AnswersStayTrue
                   /\ SettledAsPaystackSays
  BY DEF Transfers
<1>2. /\ TypeOK /\ LedgerFollowsStatus /\ OneRequestPerWindow
      /\ WorkersKnowTheirRow /\ PaystackKnowsClaimed
      /\ CyclesDoNotOverlap /\ CycleHoldsLock
      /\ Transfers /\ CopiesOfSnapshot /\ SentToSnapshot /\ SmsIsStillDue /\ ToldOnce
      => IInv
  BY <1>1 DEF IInv
<1> QED
  BY <1>2, TypeCorrect, LedgerCorrect, WindowCorrect, RowsKnown, CyclesExclude,
     TransfersInvariant, SnapshotCorrect, ToldCorrect, PTL

-----------------------------------------------------------------------------
(* Money.                                                                   *)

\* A wallet changes with its other entries, or with the status of a request.
LEMMA WalletChanges ==
  ASSUME [Next]_vars
  PROVE  \/ UNCHANGED <<wallet, otherEntries>>
         \/ \E d \in Distributors, amount \in Earnings : Earn(d, amount) \/ ClawBack(d, amount)
         \/ \E r \in Requests : ApproveWithdrawalRequest(r)
         \/ \E w \in Workers : ApplyVerifiedTransferOutcome(w)
<1>1. ASSUME NEW d \in Distributors,
             ApproveKyc(d) \/ \E to \in Destinations : SavePayoutSettings(d, to)
      PROVE  UNCHANGED <<wallet, otherEntries>>
  BY <1>1 DEF ApproveKyc, SavePayoutSettings, walletVars
<1>2. ASSUME NEW r \in Requests,
             \/ RejectWithdrawalRequest(r)
             \/ \E d \in Distributors, amount \in Amounts, rate \in TaxRates :
                  SubmitWithdrawalRequest(d, r, amount, rate)
      PROVE  UNCHANGED <<wallet, otherEntries>>
  BY <1>2 DEF RejectWithdrawalRequest, SubmitWithdrawalRequest, walletVars
<1>3. ASSUME NEW w \in Workers,
             \/ StartCycle(w) \/ CycleStep(w) \/ Fault(w)
             \/ ClaimForPayout(w) \/ EnsureRecipient(w) \/ VerifyTransfer(w)
             \/ InitiateTransfer(w) \/ InitiateRefused(w) \/ Notify(w)
             \/ \E r \in Requests : StartWebhookTask(w, r)
      PROVE  UNCHANGED <<wallet, otherEntries>>
  <2>1. CASE StartCycle(w) \/ \E r \in Requests : StartWebhookTask(w, r)
    BY <2>1 DEF StartCycle, StartWebhookTask, walletVars
  <2>2. CASE CycleStep(w) \/ Fault(w)
    BY <2>2 DEF CycleStep, NextRow, RecordCycle, ReleaseLock, Fault, RowFails,
       InitiateTimesOut, CycleFails, Crash, walletVars
  <2>3. CASE \/ ClaimForPayout(w) \/ EnsureRecipient(w) \/ VerifyTransfer(w)
             \/ InitiateTransfer(w) \/ InitiateRefused(w) \/ Notify(w)
    BY <2>3 DEF ClaimForPayout, EnsureRecipient, VerifyTransfer, InitiateTransfer,
       InitiateRefused, Notify, walletVars
  <2> QED
    BY <1>3, <2>1, <2>2, <2>3
<1>4. CASE LockExpires \/ NextDay \/ \E r \in Requests : Paystack(r)
  BY <1>4 DEF LockExpires, NextDay, Paystack, TransferSettles, walletVars
<1>5. CASE UNCHANGED vars
  BY <1>5 DEF vars, walletVars
<1> QED
  BY <1>1, <1>2, <1>3, <1>4, <1>5 DEF Next, Account, Review, RowStep, Worker

Held(d) == Of(d, HoldingMoney)

\* What is held for a distributor is a sum of finitely many amounts.
LEMMA HeldIsSum ==
  ASSUME TypeOK, BooksAreFinite, NEW d \in Distributors
  PROVE  /\ IsFiniteSet(Held(d))
         /\ Held(d) \in SUBSET Requests
         /\ \A r \in Requests : Nets[r] = terms[r].net /\ Nets[r] \in Nat
         /\ NetOf(Held(d)) \in Nat
<1>1. Held(d) \subseteq {r \in Requests : status[r] # "none"}
  BY DEF Held, Of, HoldingMoney
<1>2. IsFiniteSet(Held(d))
  BY <1>1, FS_Subset DEF BooksAreFinite
<1>3. Held(d) \in SUBSET Requests
  BY <1>1
<1>4. \A r \in Requests : Nets[r] = terms[r].net /\ Nets[r] \in Nat
  BY DEF TypeOK, Terms, Nets
<1>5. SumFunctionOnSet(Nets, Held(d)) \in Nat
  BY <1>2, <1>3, <1>4, SumIsNat
<1> QED
  BY <1>2, <1>3, <1>4, <1>5 DEF NetOf

\* The same requests with the same terms hold the same money.
LEMMA HeldStands ==
  ASSUME TypeOK, BooksAreFinite, NEW d \in Distributors,
         Held(d)' = Held(d), \A r \in Held(d) : terms'[r] = terms[r]
  PROVE  NetOf(Held(d))' = NetOf(Held(d))
<1>1. \A r \in Held(d) : Nets'[r] = Nets[r]
  BY HeldIsSum DEF Nets
<1>2. SumFunctionOnSet(Nets', Held(d)) = SumFunctionOnSet(Nets, Held(d))
  BY <1>1, HeldIsSum, SumsAgree
<1>3. NetOf(Held(d))' = SumFunctionOnSet(Nets', Held(d)')
  BY DEF NetOf
<1> QED
  BY <1>2, <1>3 DEF NetOf

\* The set of submitted requests grows by one at a submission.
LEMMA BooksStep == TypeOK /\ BooksAreFinite /\ [Next]_vars => BooksAreFinite'
<1> SUFFICES ASSUME TypeOK, BooksAreFinite, [Next]_vars PROVE BooksAreFinite'
  OBVIOUS
<1> DEFINE Books == {r \in Requests : status[r] # "none"}
<1>1. IsFiniteSet(Books)
  BY DEF BooksAreFinite
<1>2. \/ \E q \in Requests : Books' \subseteq Books \cup {q}
      \/ Books' \subseteq Books
  <2>1. ASSUME NEW d \in Distributors, NEW r \in Requests, NEW amount \in Amounts,
               NEW rate \in TaxRates, SubmitWithdrawalRequest(d, r, amount, rate)
        PROVE  Books' \subseteq Books \cup {r}
    BY <2>1 DEF SubmitWithdrawalRequest, TypeOK
  <2>2. ASSUME NEW r \in Requests, ApproveWithdrawalRequest(r)
        PROVE  Books' \subseteq Books
    BY <2>2 DEF ApproveWithdrawalRequest, AwaitsReview, TypeOK
  <2>3. ASSUME NEW r \in Requests, RejectWithdrawalRequest(r)
        PROVE  Books' \subseteq Books
    BY <2>3 DEF RejectWithdrawalRequest, AwaitsReview, TypeOK
  <2>4. ASSUME NEW w \in Workers, ClaimForPayout(w)
        PROVE  Books' \subseteq Books
    <3>1. row[w] \in Requests
      BY <2>4 DEF ClaimForPayout, AtRow, TypeOK
    <3> QED
      BY <2>4, <3>1 DEF ClaimForPayout, TypeOK
  <2>5. ASSUME NEW w \in Workers, ApplyVerifiedTransferOutcome(w)
        PROVE  Books' \subseteq Books
    BY <2>5, OutcomeCases DEF TypeOK
  <2>6. CASE UNCHANGED <<status, ledger, terms, payoutTo>>
    BY <2>6
  <2> QED
    BY <2>1, <2>2, <2>3, <2>4, <2>5, <2>6, StatusChanges
<1>3. IsFiniteSet(Books')
  BY <1>1, <1>2, FS_Subset, FS_AddElement
<1> QED
  BY <1>3 DEF BooksAreFinite

\* Approval takes out of the wallet what it holds, the reversal puts the same
\* amount back; paying and claiming move nothing.
LEMMA MoneyStep ==
  TypeOK /\ BooksAreFinite /\ MoneyConserved /\ [Next]_vars => MoneyConserved'
<1> SUFFICES ASSUME TypeOK, BooksAreFinite, MoneyConserved, [Next]_vars,
                    NEW d \in Distributors
             PROVE  otherEntries'[d] = wallet'[d] + NetOf(Held(d))'
  BY DEF MoneyConserved, Held
<1>0. /\ otherEntries[d] = wallet[d] + NetOf(Held(d))
      /\ wallet[d] \in Nat /\ otherEntries[d] \in Int /\ NetOf(Held(d)) \in Nat
  BY HeldIsSum DEF MoneyConserved, Held, TypeOK
<1>1. ASSUME Held(d)' = Held(d), \A r \in Held(d) : terms'[r] = terms[r],
             otherEntries'[d] - wallet'[d] = otherEntries[d] - wallet[d],
             otherEntries'[d] \in Int, wallet'[d] \in Int
      PROVE  otherEntries'[d] = wallet'[d] + NetOf(Held(d))'
  BY <1>0, <1>1, HeldStands
<1>2. ASSUME UNCHANGED <<wallet, otherEntries>>,
             Held(d)' = Held(d), \A r \in Held(d) : terms'[r] = terms[r]
      PROVE  otherEntries'[d] = wallet'[d] + NetOf(Held(d))'
  BY <1>0, <1>2, HeldStands
<1>3. ASSUME NEW e \in Distributors, NEW amount \in Earnings,
             Earn(e, amount) \/ ClawBack(e, amount)
      PROVE  otherEntries'[d] = wallet'[d] + NetOf(Held(d))'
  <2>1. Held(d)' = Held(d) /\ terms' = terms
    BY <1>3 DEF Earn, ClawBack, requestVars, Held, Of
  <2>2. amount \in Nat
    BY AmountAssumption
  <2>3. \E x \in Int : /\ wallet' = [wallet EXCEPT ![e] = wallet[e] + x]
                       /\ otherEntries' = [otherEntries EXCEPT ![e] = otherEntries[e] + x]
    <3>1. CASE Earn(e, amount)
      <4>1. amount \in Int
        BY <2>2
      <4>2. /\ wallet' = [wallet EXCEPT ![e] = wallet[e] + amount]
            /\ otherEntries' = [otherEntries EXCEPT ![e] = otherEntries[e] + amount]
        BY <3>1 DEF Earn
      <4> QED
        BY <4>1, <4>2
    <3>2. CASE ClawBack(e, amount)
      <4> PICK taken \in Nat : taken = IF wallet[e] < amount THEN wallet[e] ELSE amount
        BY <2>2 DEF TypeOK
      <4>1. /\ wallet' = [wallet EXCEPT ![e] = wallet[e] - taken]
            /\ otherEntries' = [otherEntries EXCEPT ![e] = otherEntries[e] - taken]
        BY <3>2 DEF ClawBack
      <4> PICK x \in Int : x = 0 - taken
        OBVIOUS
      <4>2. wallet[e] - taken = wallet[e] + x /\ otherEntries[e] - taken = otherEntries[e] + x
        BY DEF TypeOK
      <4>3. /\ wallet' = [wallet EXCEPT ![e] = wallet[e] + x]
            /\ otherEntries' = [otherEntries EXCEPT ![e] = otherEntries[e] + x]
        BY <4>1, <4>2
      <4> QED
        BY <4>3
    <3> QED
      BY <1>3, <3>1, <3>2
  <2>4. PICK x \in Int : /\ wallet' = [wallet EXCEPT ![e] = wallet[e] + x]
                         /\ otherEntries' = [otherEntries EXCEPT ![e] = otherEntries[e] + x]
    BY <2>3
  <2>5. CASE e = d
    <3>1. wallet'[d] = wallet[d] + x /\ otherEntries'[d] = otherEntries[d] + x
      BY <2>4, <2>5 DEF TypeOK
    <3> QED
      BY <1>0, <1>1, <2>1, <3>1
  <2>6. CASE e # d
    <3>1. wallet'[d] = wallet[d] /\ otherEntries'[d] = otherEntries[d]
      BY <2>4, <2>6 DEF TypeOK
    <3> QED
      BY <1>0, <1>1, <2>1, <3>1
  <2> QED
    BY <2>5, <2>6
<1>4. ASSUME NEW r \in Requests, ApproveWithdrawalRequest(r)
      PROVE  otherEntries'[d] = wallet'[d] + NetOf(Held(d))'
  <2> PICK e \in Distributors : e = terms[r].owner
    BY <1>4 DEF ApproveWithdrawalRequest, AwaitsReview, TypeOK
  <2>1. /\ status[r] = "submitted" /\ status' = [status EXCEPT ![r] = "approved_debited"]
        /\ terms' = terms /\ otherEntries' = otherEntries
        /\ wallet' = [wallet EXCEPT ![e] = @ - terms[r].net]
    BY <1>4 DEF ApproveWithdrawalRequest, AwaitsReview, Debit
  <2>2. CASE e # d
    <3>1. Held(d)' = Held(d)
      BY <2>1, <2>2 DEF Held, Of, HoldingMoney, TypeOK
    <3>2. wallet'[d] = wallet[d]
      BY <2>1, <2>2 DEF TypeOK
    <3> QED
      BY <1>0, <1>1, <2>1, <3>1, <3>2
  <2>3. CASE e = d
    <3>1. Held(d)' = Held(d) \cup {r} /\ r \notin Held(d)
      BY <2>1, <2>3 DEF Held, Of, HoldingMoney, TypeOK
    <3>2. NetOf(Held(d))' = SumFunctionOnSet(Nets, Held(d) \cup {r})
      BY <2>1, <3>1 DEF NetOf, Nets
    <3>3. SumFunctionOnSet(Nets, Held(d) \cup {r}) = Nets[r] + SumFunctionOnSet(Nets, Held(d))
      BY <3>1, HeldIsSum, SumAdds
    <3>4. wallet'[d] = wallet[d] - terms[r].net
      BY <2>1, <2>3 DEF TypeOK
    <3>5. Nets[r] = terms[r].net /\ Nets[r] \in Nat
      BY HeldIsSum
    <3> QED
      BY <1>0, <2>1, <3>2, <3>3, <3>4, <3>5 DEF NetOf
  <2> QED
    BY <2>2, <2>3
<1>5. ASSUME NEW w \in Workers, ApplyVerifiedTransferOutcome(w)
      PROVE  otherEntries'[d] = wallet'[d] + NetOf(Held(d))'
  <2>0. row[w] \in Requests
    BY <1>5, OutcomeCases
  <2> PICK r \in Requests : r = row[w]
    BY <2>0
  <2>1. terms' = terms
    BY <1>5 DEF ApplyVerifiedTransferOutcome
  <2>2. CASE UNCHANGED walletVars
    <3>1. CASE status[r] = "queued_for_payout" /\ status' = [status EXCEPT ![r] = "paid"]
      <4>1. Held(d)' = Held(d)
        BY <2>1, <3>1 DEF Held, Of, HoldingMoney, TypeOK
      <4> QED
        BY <1>2, <2>1, <2>2, <4>1 DEF walletVars
    <3>2. CASE status' = status
      BY <1>2, <2>1, <2>2, <3>2 DEF walletVars, Held, Of
    <3>3. CASE status[r] = "queued_for_payout" /\ ledger' = ledger \cup {<<"reversal", r>>}
               /\ Credit(terms[r].owner, ReversedAmount(r), "reversal", r)
      BY <2>2, <3>3 DEF Credit, walletVars
    <3> QED
      BY <1>5, <3>1, <3>2, <3>3 DEF ApplyVerifiedTransferOutcome, Unsettled, Credit
  <2>3. CASE /\ status[r] = "queued_for_payout"
             /\ status' = [status EXCEPT ![r] = "payout_failed_reversed"]
             /\ Credit(terms[r].owner, ReversedAmount(r), "reversal", r)
    <3> PICK e \in Distributors : e = terms[r].owner
      BY <2>3 DEF TypeOK
    <3>1. /\ otherEntries' = otherEntries
          /\ wallet' = [wallet EXCEPT ![e] = @ + terms[r].net]
      BY <2>3 DEF Credit, ReversedAmount
    <3>2. CASE e # d
      <4>1. Held(d)' = Held(d)
        BY <2>1, <2>3, <3>2 DEF Held, Of, HoldingMoney, TypeOK
      <4>2. wallet'[d] = wallet[d]
        BY <3>1, <3>2 DEF TypeOK
      <4> QED
        BY <1>0, <1>1, <2>1, <3>1, <4>1, <4>2
    <3>3. CASE e = d
      <4>1. Held(d)' = Held(d) \ {r} /\ r \in Held(d)
        BY <2>1, <2>3, <3>3 DEF Held, Of, HoldingMoney, TypeOK
      <4>2. NetOf(Held(d))' = SumFunctionOnSet(Nets, Held(d) \ {r})
        BY <2>1, <4>1 DEF NetOf, Nets
      <4>3. SumFunctionOnSet(Nets, Held(d)) = Nets[r] + SumFunctionOnSet(Nets, Held(d) \ {r})
        BY <4>1, HeldIsSum, SumRemoves
      <4>4. wallet'[d] = wallet[d] + terms[r].net
        BY <3>1, <3>3 DEF TypeOK
      <4>5. Nets[r] = terms[r].net /\ Nets[r] \in Nat
        BY HeldIsSum
      <4>6. SumFunctionOnSet(Nets, Held(d) \ {r}) \in Int
        BY <4>1, HeldIsSum, FS_Subset, SumIsInt
      <4> QED
        BY <1>0, <3>1, <4>2, <4>3, <4>4, <4>5, <4>6 DEF NetOf
    <3> QED
      BY <3>2, <3>3
  <2> QED
    BY <1>5, <2>2, <2>3 DEF ApplyVerifiedTransferOutcome, Unsettled
<1>6. CASE UNCHANGED <<wallet, otherEntries>>
  <2>1. ASSUME NEW e \in Distributors, NEW r \in Requests, NEW amount \in Amounts,
               NEW rate \in TaxRates, SubmitWithdrawalRequest(e, r, amount, rate)
        PROVE  Held(d)' = Held(d) /\ \A q \in Held(d) : terms'[q] = terms[q]
    <3>1. status[r] = "none" /\ status' = [status EXCEPT ![r] = "submitted"]
          /\ \A q \in Requests \ {r} : terms'[q] = terms[q]
      BY <2>1 DEF SubmitWithdrawalRequest, TypeOK
    <3>2. \A q \in Requests : status'[q] \in HoldingMoney <=> status[q] \in HoldingMoney
      BY <3>1 DEF HoldingMoney, TypeOK
    <3> QED
      BY <3>1, <3>2 DEF Held, Of, HoldingMoney
  <2>2. ASSUME NEW r \in Requests, RejectWithdrawalRequest(r)
        PROVE  Held(d)' = Held(d) /\ \A q \in Held(d) : terms'[q] = terms[q]
    BY <2>2 DEF RejectWithdrawalRequest, AwaitsReview, Held, Of, HoldingMoney, TypeOK
  <2>3. ASSUME NEW w \in Workers, ClaimForPayout(w)
        PROVE  Held(d)' = Held(d) /\ \A q \in Held(d) : terms'[q] = terms[q]
    <3>1. row[w] \in Requests /\ terms' = terms
      BY <2>3 DEF ClaimForPayout, AtRow, TypeOK
    <3>2. \A q \in Requests : status'[q] \in HoldingMoney <=> status[q] \in HoldingMoney
      BY <2>3, <3>1 DEF ClaimForPayout, HoldingMoney, TypeOK
    <3> QED
      BY <3>1, <3>2 DEF Held, Of
  <2>4. CASE UNCHANGED <<status, ledger, terms, payoutTo>>
    <3>1. Held(d)' = Held(d) /\ \A q \in Held(d) : terms'[q] = terms[q]
      BY <2>4 DEF Held, Of
    <3> QED
      BY <1>2, <1>6, <3>1
  <2> QED
    BY <1>2, <1>4, <1>5, <1>6, <2>1, <2>2, <2>3, <2>4, StatusChanges
<1> QED
  BY <1>3, <1>4, <1>5, <1>6, WalletChanges

\* No pesewa is lost or made, for any number of requests under way at once:
\* what a distributor earned is in the wallet, held for a payout or paid out.
THEOREM MoneyIsConserved == Spec => []MoneyConserved
<1>1. Init => BooksAreFinite /\ MoneyConserved
  <2> SUFFICES ASSUME Init PROVE BooksAreFinite /\ MoneyConserved
    OBVIOUS
  <2>1. {r \in Requests : status[r] # "none"} = {}
    BY DEF Init
  <2>2. BooksAreFinite
    BY <2>1, FS_EmptySet DEF BooksAreFinite
  <2>3. ASSUME NEW d \in Distributors
        PROVE  otherEntries[d] = wallet[d] + NetOf(Of(d, HoldingMoney))
    <3>1. Of(d, HoldingMoney) = {}
      BY DEF Init, Of, HoldingMoney
    <3>2. NetOf(Of(d, HoldingMoney)) = 0
      BY <3>1, SumOfNothing DEF NetOf
    <3>3. wallet[d] = OpeningBalance /\ otherEntries[d] = OpeningBalance /\ OpeningBalance \in Int
      BY AmountAssumption DEF Init
    <3> QED
      BY <3>2, <3>3
  <2> QED
    BY <2>2, <2>3 DEF MoneyConserved
<1> QED
  BY <1>1, TypeCorrect, BooksStep, MoneyStep, PTL DEF Spec

-----------------------------------------------------------------------------
(* The pipeline implements PayoutPromise.                                   *)

\* A change of one request's status is a change of its promise and of nothing
\* else; a change of its transfer is one of what is outside.
LEMMA MapStatus ==
  ASSUME TypeOK, UNCHANGED transfer, NEW r \in Requests, NEW to \in Statuses,
         status' = [status EXCEPT ![r] = to]
  PROVE  Payout!Promise(r, PromiseOf(status[r]), PromiseOf(to))
  BY DEF TypeOK, PromiseMap, OutsideMap, Payout!Promise

\* A step that changes one transfer changes one entry of the outside map.
LEMMA MapTransfer ==
  ASSUME TypeOK, UNCHANGED status, NEW r \in Requests, NEW to,
         transfer' = [transfer EXCEPT ![r] = to]
  PROVE  Payout!Outside(r, OutsideOf(transfer[r]), OutsideOf(to))
  BY DEF TypeOK, PromiseMap, OutsideMap, Payout!Outside

\* The values of the refinement mapping, one by one.
LEMMA MapValues ==
  /\ PromiseOf("none") = "none"
  /\ PromiseOf("submitted") = "asked"
  /\ PromiseOf("rejected") = "refused"
  /\ PromiseOf("approved_debited") = "held"
  /\ PromiseOf("queued_for_payout") = "held"
  /\ PromiseOf("paid") = "paid"
  /\ PromiseOf("payout_failed_reversed") = "returned"
  /\ OutsideOf("unknown") = "unsent"
  /\ OutsideOf("pending") = "moving"
  /\ OutsideOf("otp") = "moving"
  /\ OutsideOf("success") = "arrived"
  /\ OutsideOf("failed") = "bounced"
  /\ OutsideOf("reversed") = "recalled"
  BY DEF PromiseOf, OutsideOf

\* The steps of a request's status are steps of its promise.
LEMMA StatusKeepsPromise ==
  ASSUME Background, AnswersStayTrue, [Next]_vars, UNCHANGED transfer
  PROVE  [Payout!Next]_(Payout!vars)
<1> USE DEF Background
<1>1. ASSUME NEW d \in Distributors, NEW r \in Requests, NEW amount \in Amounts,
             NEW rate \in TaxRates, SubmitWithdrawalRequest(d, r, amount, rate)
      PROVE  Payout!Ask(r)
  <2>1. status[r] = "none" /\ status' = [status EXCEPT ![r] = "submitted"]
    BY <1>1 DEF SubmitWithdrawalRequest
  <2>2. Payout!Promise(r, PromiseOf("none"), PromiseOf("submitted"))
    BY <2>1, MapStatus DEF Statuses
  <2> QED
    BY <2>2, MapValues DEF Payout!Ask
<1>2. ASSUME NEW r \in Requests, ApproveWithdrawalRequest(r)
      PROVE  Payout!Hold(r)
  <2>1. status[r] = "submitted" /\ status' = [status EXCEPT ![r] = "approved_debited"]
    BY <1>2 DEF ApproveWithdrawalRequest, AwaitsReview
  <2>2. Payout!Promise(r, PromiseOf("submitted"), PromiseOf("approved_debited"))
    BY <2>1, MapStatus DEF Statuses
  <2> QED
    BY <2>2, MapValues DEF Payout!Hold
<1>3. ASSUME NEW r \in Requests, RejectWithdrawalRequest(r)
      PROVE  Payout!Refuse(r)
  <2>1. status[r] = "submitted" /\ status' = [status EXCEPT ![r] = "rejected"]
    BY <1>3 DEF RejectWithdrawalRequest, AwaitsReview
  <2>2. Payout!Promise(r, PromiseOf("submitted"), PromiseOf("rejected"))
    BY <2>1, MapStatus DEF Statuses
  <2> QED
    BY <2>2, MapValues DEF Payout!Refuse
<1>4. ASSUME NEW w \in Workers, ClaimForPayout(w)
      PROVE  UNCHANGED Payout!vars
  <2>1. row[w] \in Requests
    BY <1>4 DEF ClaimForPayout, TypeOK, AtRow
  <2>2. CASE /\ status[row[w]] \in {"approved_debited", "queued_for_payout"}
             /\ status' = [status EXCEPT ![row[w]] = "queued_for_payout"]
    <3>1. transfer' = transfer
      OBVIOUS
    <3>2. Payout!Promise(row[w], PromiseOf(status[row[w]]), PromiseOf("queued_for_payout"))
      BY <2>1, <2>2, <3>1, MapStatus DEF Statuses
    <3>3. Payout!Promise(row[w], "held", "held")
      BY <2>2, <3>2, MapValues
    <3>4. PromiseMap' = PromiseMap
      BY <3>3 DEF Payout!Promise, PromiseMap
    <3> QED
      BY <3>1, <3>4 DEF OutsideMap, Payout!vars
  <2>3. CASE UNCHANGED status
    BY <2>3 DEF PromiseMap, OutsideMap, Payout!vars
  <2> QED
    BY <1>4, <2>2, <2>3 DEF ClaimForPayout
<1>5. ASSUME NEW w \in Workers, ApplyVerifiedTransferOutcome(w)
      PROVE  Payout!Pay(row[w]) \/ Payout!Return(row[w]) \/ UNCHANGED Payout!vars
  <2>1. row[w] \in Requests /\ pc[w] = "apply"
    BY <1>5, OutcomeCases
  <2>2. CASE /\ status[row[w]] = "queued_for_payout" /\ seen[w] = "success"
             /\ status' = [status EXCEPT ![row[w]] = "paid"]
    <3>1. transfer[row[w]] \in {"success", "reversed"}
      BY <2>1, <2>2 DEF AnswersStayTrue
    <3>2. OutsideMap[row[w]] \in {"arrived", "recalled"}
      BY <2>1, <3>1, MapValues DEF OutsideMap
    <3>3. Payout!Promise(row[w], PromiseOf("queued_for_payout"), PromiseOf("paid"))
      BY <2>1, <2>2, MapStatus DEF Statuses
    <3> QED
      BY <3>2, <3>3, MapValues DEF Payout!Pay
  <2>3. CASE /\ status[row[w]] = "queued_for_payout" /\ seen[w] \in TransferFailures
             /\ status' = [status EXCEPT ![row[w]] = "payout_failed_reversed"]
    <3>1. transfer[row[w]] \in {"failed", "reversed"}
      BY <2>1, <2>3 DEF AnswersStayTrue, TransferFailures
    <3>2. OutsideMap[row[w]] \in {"bounced", "recalled"}
      BY <2>1, <3>1, MapValues DEF OutsideMap
    <3>3. Payout!Promise(row[w], PromiseOf("queued_for_payout"), PromiseOf("payout_failed_reversed"))
      BY <2>1, <2>3, MapStatus DEF Statuses
    <3> QED
      BY <3>2, <3>3, MapValues DEF Payout!Return
  <2>4. CASE UNCHANGED status
    BY <2>4 DEF PromiseMap, OutsideMap, Payout!vars
  <2> QED
    BY <1>5, <2>2, <2>3, <2>4, OutcomeCases
<1>6. CASE UNCHANGED <<status, ledger, terms, payoutTo>>
  BY <1>6 DEF PromiseMap, OutsideMap, Payout!vars
<1>7. ASSUME NEW w \in Workers, ApplyVerifiedTransferOutcome(w)
      PROVE  row[w] \in Requests
  BY <1>7, OutcomeCases
<1> QED
  BY <1>1, <1>2, <1>3, <1>4, <1>5, <1>6, <1>7, StatusChanges DEF Payout!Next

\* The steps of a request's transfer are steps of what is outside.
LEMMA TransferKeepsPromise ==
  ASSUME Background, InitiateIsFresh, SettledAsPaystackSays, [Next]_vars,
         ~UNCHANGED transfer
  PROVE  [Payout!Next]_(Payout!vars)
<1> USE DEF Background
<1>1. ASSUME NEW w \in Workers, InitiateTransfer(w) \/ InitiateTimesOut(w),
             NEW answer \in FirstAnswers, Accept(row[w], code[w], answer)
      PROVE  row[w] \in Requests /\ Payout!Send(row[w])
  <2>1. row[w] \in Requests /\ transfer[row[w]] = "unknown" /\ UNCHANGED status
    BY <1>1, FirstToInitiate DEF InitiateTransfer, InitiateTimesOut, requestVars
  <2>2. answer \in {"pending", "otp", "success"}
    BY PaystackAssumption
  <2>3. status[row[w]] \in {"queued_for_payout", "paid", "payout_failed_reversed"}
    BY <1>1 DEF InitiateTransfer, InitiateTimesOut, WorkersKnowTheirRow,
       KnowsItsRow, AtRow, Claimed, Debited
  <2>4. status[row[w]] = "queued_for_payout"
    BY <1>1, <2>1, <2>3 DEF SettledAsPaystackSays
  <2>5. PromiseMap[row[w]] = "held"
    BY <2>1, <2>4, MapValues DEF PromiseMap
  <2>6. Payout!Outside(row[w], OutsideOf("unknown"), OutsideOf(answer))
    BY <1>1, <2>1, MapTransfer DEF Accept
  <2> QED
    BY <2>1, <2>2, <2>5, <2>6, MapValues DEF Payout!Send
<1>2. ASSUME NEW r \in Requests, NEW to \in TransferStates, TransferSettles(r, to)
      PROVE  Payout!Arrive(r) \/ Payout!Bounce(r) \/ Payout!Recall(r)
             \/ UNCHANGED Payout!vars
  <2>1. /\ transfer' = [transfer EXCEPT ![r] = to] /\ UNCHANGED status
        /\ <<transfer[r], to>> \in Settlements
    BY <1>2 DEF TransferSettles, requestVars
  <2>2. Payout!Outside(r, OutsideOf(transfer[r]), OutsideOf(to))
    BY <2>1, MapTransfer
  <2>3. CASE transfer[r] \in {"pending", "otp"} /\ to \in {"pending", "otp"}
    <3>1. Payout!Outside(r, "moving", "moving")
      BY <2>2, <2>3, MapValues
    <3>2. OutsideMap' = OutsideMap
      BY <3>1 DEF Payout!Outside, OutsideMap
    <3> QED
      BY <3>1, <3>2 DEF Payout!Outside, Payout!vars
  <2>4. CASE transfer[r] \in {"pending", "otp"} /\ to \in {"success", "failed", "reversed"}
    BY <2>2, <2>4, MapValues DEF Payout!Arrive, Payout!Bounce
  <2>5. CASE transfer[r] = "success" /\ to = "reversed"
    BY <2>2, <2>5, MapValues DEF Payout!Recall
  <2> QED
    BY <2>1, <2>3, <2>4, <2>5, PaystackAssumption
<1> QED
  BY <1>1, <1>2, TransferChanges DEF Payout!Next

\* The pipeline implements PayoutPromise step by step: the money of an approved
\* request is held once, sent at most once and only while held, paid only after a
\* success, and returned at most once, after a failure or a reversal.  That the
\* money of a transfer reversed after its success comes back is not part of it.
THEOREM PromiseKept == Spec => KeepsPromise
<1>1. Init => Payout!Init
  BY MapValues DEF Init, Payout!Init, PromiseMap, OutsideMap
<1>2. Background /\ Transfers /\ [Next]_vars => [Payout!Next]_(Payout!vars)
  BY StatusKeepsPromise, TransferKeepsPromise DEF Transfers
<1>3. Spec => []Background
  BY TypeCorrect, RowsKnown, CyclesExclude, PTL DEF Background
<1>4. Spec => []Transfers
  BY TransfersInvariant
<1> QED
  BY <1>1, <1>2, <1>3, <1>4, PTL DEF Spec, KeepsPromise, Payout!Spec
=============================================================================
