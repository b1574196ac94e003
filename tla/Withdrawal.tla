----------------------------- MODULE Withdrawal -----------------------------
(***************************************************************************)
(* The e-wallet withdrawal pipeline of apps/withdrawal: a distributor       *)
(* submits a request, an admin approves it (the wallet is debited) or       *)
(* rejects it, and the weekly payout cycle, run by Celery workers, claims   *)
(* every approved request, asks Paystack to transfer the money and records  *)
(* the outcome.  Transfer webhooks resolve requests concurrently with the   *)
(* cycle, and a failed or reversed transfer credits the wallet back.        *)
(*                                                                          *)
(* One action is one database transaction or one call to Paystack: a worker *)
(* holds no row lock while it talks to Paystack, so anything may happen     *)
(* between two of its actions.  Lock contention (NOWAIT plus bounded        *)
(* retries) either ends in the transaction or in an exception (RowFails).   *)
(***************************************************************************)
EXTENDS Integers, FiniteSets

CONSTANTS
  Distributors,   \* accounts, each with a wallet
  Requests,       \* primary keys of WithdrawalRequest rows
  Workers,        \* Celery worker processes
  Destinations,   \* mobile money numbers with their network
  None,           \* a model value: no value, a blank column
  Nameless,       \* distributors with neither full_name nor a name read by Didit
  Amounts,        \* gross amounts typed into the form, in pesewas
  TaxRates,       \* values of WITHHOLDING_TAX_RATE, in percent
  MinAmount,      \* MIN_WITHDRAWAL_AMOUNT
  MaxAmount,      \* MAX_WITHDRAWAL_AMOUNT
  Window,         \* WITHDRAWAL_FREQUENCY, in days
  LastDay,        \* bound: the clock stops here
  Earnings,       \* amounts of other wallet entries (bonuses, refunds)
  MaxEarned,      \* bound on the sum of those entries
  OpeningBalance, \* wallet balance at the start, from earlier bonuses
  MaxFaults,      \* bound on exceptions and crashes
  Environments,   \* what Redis and Paystack guarantee, see env
  FirstAnswers,   \* transfer states Paystack may answer to initiate_transfer
  Settlements     \* pairs <<from, to>> of a transfer's later changes of state

TransferStates == {"unknown", "pending", "otp", "success", "failed", "reversed"}

ASSUME NoneAssumption ==
  /\ None \notin Distributors \cup Requests \cup Destinations
  /\ None \notin TransferStates
ASSUME AmountAssumption ==
  /\ Amounts \subseteq Nat
  /\ TaxRates \subseteq 0..100
  /\ MinAmount \in Nat
  /\ MaxAmount \in Nat
  /\ Earnings \subseteq Nat \ {0}
  /\ MaxEarned \in Nat
  /\ OpeningBalance \in 0..MaxEarned
ASSUME ClockAssumption ==
  /\ Window \in Nat \ {0}
  /\ LastDay \in Nat
ASSUME FaultAssumption == MaxFaults \in Nat

\* Either Redis keeps the cycle lock for as long as its holder lives, or
\* Paystack refuses a reference it has seen: the two layers of
\* apps/withdrawal/tasks.py:30-63, of which at least one must stand.
ASSUME EnvironmentAssumption ==
  /\ Environments \subseteq [lockMayLapse : BOOLEAN, referenceUnique : BOOLEAN]
  /\ \A e \in Environments : e.lockMayLapse => e.referenceUnique

\* A transfer may fail or be reversed from any state but failed: Paystack can
\* also reverse a transfer it had reported successful.  A failed or reversed
\* transfer is final.
ASSUME PaystackAssumption ==
  /\ FirstAnswers \subseteq {"pending", "otp", "success"}
  /\ Settlements \subseteq
       ({"pending", "otp"} \X {"pending", "otp", "success", "failed", "reversed"})
       \cup {<<"success", "reversed">>}

VARIABLES
  kyc,          \* Distributor.kyc_status is APPROVED
  profile,      \* Distributor.mobile_money_number and _network
  wallet,       \* Wallet.balance
  otherEntries, \* sum of the WalletTransaction rows of the other types
  ledger,       \* withdrawal WalletTransaction rows, as <<type, request>>
  status,       \* WithdrawalRequest.status
  terms,        \* owner, amounts and created_at: written once, at submission
  payoutTo,     \* the payout destination snapshotted at approval
  recipient,    \* paystack_recipient_code
  transfer,     \* Paystack: the state of the transfer with the row's reference
  sentTo,       \* Paystack: the recipient of that transfer
  accepted,     \* Paystack: how many transfers were accepted for the reference
  lock,         \* Redis holds WITHDRAWAL_PAYOUT_LOCK_KEY
  pc,           \* where each worker is
  inCycle,      \* the worker runs process_withdrawal_payouts, not a webhook task
  row,          \* the request it is working on
  seen,         \* result["status"] of verify_transfer or initiate_transfer
  code,         \* its in-memory recipient code
  todo,         \* rows of the cycle's snapshot not yet visited
  done,         \* processed_ids
  counted,      \* WithdrawalCycleRun rows whose "paid" includes the request
  told,         \* outcome SMSs (paid or reversed) sent for the request
  today,        \* days
  faults,       \* exceptions and crashes so far
  env           \* the guarantees that hold: fixed, chosen at the start

accountVars  == <<kyc, profile>>
walletVars   == <<wallet, otherEntries, ledger>>
requestVars  == <<status, terms, payoutTo, recipient>>
paystackVars == <<transfer, sentTo, accepted>>
rowVars      == <<row, seen, code>>
workerVars   == <<lock, pc, inCycle, row, seen, code, todo, done>>
recordVars   == <<counted, told>>
clockVars    == <<today, faults, env>>
vars == <<accountVars, walletVars, requestVars, paystackVars, workerVars,
          recordVars, clockVars>>

-----------------------------------------------------------------------------
(* Statuses and terms of a request.                                         *)

Statuses == {"none", "submitted", "approved_debited", "queued_for_payout",
             "paid", "rejected", "payout_failed_reversed"}

\* Mutant of WindowBlocking: a request being paid out frees the window.
WindowWithoutQueued == {"submitted", "approved_debited", "paid"}

WindowBlocking == {"submitted", "approved_debited", "queued_for_payout", "paid"}

\* Mutant of TransferFailures: a transfer still under way is taken for a failed one.
PendingIsFailure == {"pending", "failed", "reversed"}

TransferFailures == {"failed", "reversed"}

NoTerms == [owner |-> None, amount |-> 0, tax |-> 0, net |-> 0, created |-> 0]

Terms == [owner : Distributors \cup {None}, amount : Nat, tax : Nat, net : Nat,
          created : 0..LastDay]

\* Steps of a worker that has a row in hand.
AtRow == {"claim", "recipient", "verify", "initiate", "apply", "notify"}

\* Withholding tax, quantised to a pesewa with ROUND_HALF_UP.
TaxOf(amount, rate) == (amount * rate + 50) \div 100

TypeOK ==
  /\ kyc \in [Distributors -> BOOLEAN]
  /\ profile \in [Distributors -> Destinations \cup {None}]
  /\ wallet \in [Distributors -> Nat]
  /\ otherEntries \in [Distributors -> Int]
  /\ ledger \subseteq {"debit", "reversal"} \X Requests
  /\ status \in [Requests -> Statuses]
  /\ terms \in [Requests -> Terms]
  /\ \A r \in Requests : status[r] # "none" => terms[r].owner \in Distributors
  /\ payoutTo \in [Requests -> Destinations \cup {None}]
  /\ recipient \in [Requests -> Destinations \cup {None}]
  /\ transfer \in [Requests -> TransferStates]
  /\ sentTo \in [Requests -> Destinations \cup {None}]
  /\ accepted \in [Requests -> Nat]
  /\ lock \in BOOLEAN
  /\ pc \in [Workers -> {"idle", "next", "release"} \cup AtRow]
  /\ inCycle \in [Workers -> BOOLEAN]
  /\ row \in [Workers -> Requests \cup {None}]
  /\ \A w \in Workers : pc[w] \in AtRow <=> row[w] # None
  /\ seen \in [Workers -> TransferStates \cup {None}]
  /\ code \in [Workers -> Destinations \cup {None}]
  /\ todo \in [Workers -> SUBSET Requests]
  /\ done \in [Workers -> SUBSET Requests]
  /\ counted \in [Requests -> Nat]
  /\ told \in [Requests -> Nat]
  /\ today \in 0..LastDay
  /\ faults \in 0..MaxFaults
  /\ env \in Environments

Init ==
  /\ kyc = [d \in Distributors |-> FALSE]
  /\ profile = [d \in Distributors |-> None]
  /\ wallet = [d \in Distributors |-> OpeningBalance]
  /\ otherEntries = [d \in Distributors |-> OpeningBalance]
  /\ ledger = {}
  /\ status = [r \in Requests |-> "none"]
  /\ terms = [r \in Requests |-> NoTerms]
  /\ payoutTo = [r \in Requests |-> None]
  /\ recipient = [r \in Requests |-> None]
  /\ transfer = [r \in Requests |-> "unknown"]
  /\ sentTo = [r \in Requests |-> None]
  /\ accepted = [r \in Requests |-> 0]
  /\ lock = FALSE
  /\ pc = [w \in Workers |-> "idle"]
  /\ inCycle = [w \in Workers |-> FALSE]
  /\ row = [w \in Workers |-> None]
  /\ seen = [w \in Workers |-> None]
  /\ code = [w \in Workers |-> None]
  /\ todo = [w \in Workers |-> {}]
  /\ done = [w \in Workers |-> {}]
  /\ counted = [r \in Requests |-> 0]
  /\ told = [r \in Requests |-> 0]
  /\ today = 0
  /\ faults = 0
  /\ env \in Environments

-----------------------------------------------------------------------------
(* The wallet (apps/wallet/services.py).                                    *)

\* credit(): the balance and its ledger row, in one transaction.  The unique
\* constraint on (wallet, reference, transaction_type) refuses a second row.
Credit(d, amount, type, r) ==
  /\ amount > 0
  /\ <<type, r>> \notin ledger
  /\ wallet' = [wallet EXCEPT ![d] = @ + amount]
  /\ ledger' = ledger \cup {<<type, r>>}
  /\ UNCHANGED otherEntries

Covers(d, amount) == wallet[d] >= amount

\* debit(): a conditional UPDATE that refuses to overdraw, and its ledger row.
Debit(d, amount, type, r) ==
  /\ amount > 0
  /\ <<type, r>> \notin ledger
  /\ Covers(d, amount)
  /\ wallet' = [wallet EXCEPT ![d] = @ - amount]
  /\ ledger' = ledger \cup {<<type, r>>}
  /\ UNCHANGED otherEntries

\* A bonus, a cooling-off refund or an order refund credited by another app.
Earn(d, amount) ==
  /\ otherEntries[d] + amount <= MaxEarned
  /\ wallet' = [wallet EXCEPT ![d] = @ + amount]
  /\ otherEntries' = [otherEntries EXCEPT ![d] = @ + amount]
  /\ UNCHANGED <<ledger, accountVars, requestVars, paystackVars, workerVars,
                 recordVars, clockVars>>

\* The reversal of a direct referral bonus takes back the bonus or what is
\* left of it in the wallet, whichever is less.
ClawBack(d, bonus) ==
  LET taken == IF wallet[d] < bonus THEN wallet[d] ELSE bonus IN
  /\ taken > 0
  /\ wallet' = [wallet EXCEPT ![d] = @ - taken]
  /\ otherEntries' = [otherEntries EXCEPT ![d] = @ - taken]
  /\ UNCHANGED <<ledger, accountVars, requestVars, paystackVars, workerVars,
                 recordVars, clockVars>>

-----------------------------------------------------------------------------
(* The distributor's own settings and the admin's KYC decision.  An         *)
(* approved KYC is never taken back: reject_kyc refuses an approved one.    *)

ApproveKyc(d) ==
  /\ ~kyc[d]
  /\ kyc' = [kyc EXCEPT ![d] = TRUE]
  /\ UNCHANGED <<profile, walletVars, requestVars, paystackVars, workerVars,
                 recordVars, clockVars>>

SavePayoutSettings(d, to) ==
  /\ profile[d] # to
  /\ profile' = [profile EXCEPT ![d] = to]
  /\ UNCHANGED <<kyc, walletVars, requestVars, paystackVars, workerVars,
                 recordVars, clockVars>>

-----------------------------------------------------------------------------
(* Submission and review (apps/withdrawal/services.py).                     *)

\* The distributor already has a live request inside the current window.
WindowActive(d) ==
  \E q \in Requests :
    /\ terms[q].owner = d
    /\ status[q] \in WindowBlocking
    /\ terms[q].created > today - Window

SubmitWithdrawalRequest(d, r, amount, rate) ==
  LET tax == TaxOf(amount, rate) IN
  /\ status[r] = "none"
  /\ kyc[d]
  /\ profile[d] # None
  /\ amount >= MinAmount
  /\ amount <= MaxAmount
  /\ amount <= wallet[d]
  /\ ~WindowActive(d)
  /\ status' = [status EXCEPT ![r] = "submitted"]
  /\ terms' = [terms EXCEPT ![r] = [owner |-> d, amount |-> amount, tax |-> tax,
                                    net |-> amount - tax, created |-> today]]
  /\ UNCHANGED <<payoutTo, recipient, accountVars, walletVars, paystackVars,
                 workerVars, recordVars, clockVars>>

\* Mutant of AwaitsReview: the status is read before the row is locked.
AwaitedReview(r) == status[r] \in {"submitted", "approved_debited"}

\* Under the row lock: WithdrawalRequestNotPending otherwise.
AwaitsReview(r) == status[r] = "submitted"

ApproveWithdrawalRequest(r) ==
  LET d == terms[r].owner IN
  /\ AwaitsReview(r)
  /\ kyc[d]
  /\ profile[d] # None
  /\ d \notin Nameless
  /\ Debit(d, terms[r].net, "debit", r)
  /\ payoutTo' = [payoutTo EXCEPT ![r] = profile[d]]
  /\ status' = [status EXCEPT ![r] = "approved_debited"]
  /\ UNCHANGED <<terms, recipient, accountVars, paystackVars, workerVars,
                 recordVars, clockVars>>

RejectWithdrawalRequest(r) ==
  /\ AwaitsReview(r)
  /\ status' = [status EXCEPT ![r] = "rejected"]
  /\ UNCHANGED <<terms, payoutTo, recipient, accountVars, walletVars,
                 paystackVars, workerVars, recordVars, clockVars>>

-----------------------------------------------------------------------------
(* The payout cycle (apps/withdrawal/tasks.py).                             *)

Goto(w, label) == pc' = [pc EXCEPT ![w] = label]

\* The worker forgets its row: the next one, or the end of a webhook task.
Leave(w) ==
  /\ Goto(w, IF inCycle[w] THEN "next" ELSE "idle")
  /\ row' = [row EXCEPT ![w] = None]
  /\ seen' = [seen EXCEPT ![w] = None]
  /\ code' = [code EXCEPT ![w] = None]

\* process_withdrawal_payout returned: in a cycle the row is a processed one.
Finish(w) ==
  /\ Leave(w)
  /\ done' = IF inCycle[w] THEN [done EXCEPT ![w] = @ \cup {row[w]}] ELSE done

\* Mutant of WithdrawalPayoutIds: a claimed row is never visited again.
UnclaimedIds == {r \in Requests : status[r] = "approved_debited"}

\* The rows a cycle visits, whatever an earlier cycle did with them.
WithdrawalPayoutIds ==
  {r \in Requests : status[r] \in {"approved_debited", "queued_for_payout"}}

\* Mutant of TakeLock: cache.set, which tells nothing of another holder.
OverwriteLock == lock' = TRUE

\* cache.add: false while somebody holds the lock, and the trigger is skipped.
TakeLock == ~lock /\ lock' = TRUE

StartCycle(w) ==
  /\ pc[w] = "idle"
  /\ TakeLock
  /\ Goto(w, "next")
  /\ inCycle' = [inCycle EXCEPT ![w] = TRUE]
  /\ todo' = [todo EXCEPT ![w] = WithdrawalPayoutIds]
  /\ UNCHANGED <<rowVars, done, accountVars, walletVars, requestVars,
                 paystackVars, recordVars, clockVars>>

\* The next row, oldest first.  The lock's time to live is renewed with a
\* plain set, whoever holds the lock by now.
NextRow(w) ==
  /\ pc[w] = "next"
  /\ \E r \in todo[w] :
       /\ \A q \in todo[w] : terms[r].created <= terms[q].created
       /\ row' = [row EXCEPT ![w] = r]
       /\ todo' = [todo EXCEPT ![w] = @ \ {r}]
  /\ lock' = TRUE
  /\ Goto(w, "claim")
  /\ UNCHANGED <<inCycle, seen, code, done, accountVars, walletVars,
                 requestVars, paystackVars, recordVars, clockVars>>

\* claim_for_payout: pins the reference and queues the row; a queued row is
\* left as it is, a settled one ends the row's turn without any Paystack call.
ClaimForPayout(w) ==
  LET r == row[w] IN
  /\ pc[w] = "claim"
  /\ \/ /\ status[r] \in {"approved_debited", "queued_for_payout"}
        /\ status' = [status EXCEPT ![r] = "queued_for_payout"]
        /\ code' = [code EXCEPT ![w] = recipient[r]]
        /\ Goto(w, "recipient")
        /\ UNCHANGED <<row, seen, done>>
     \/ /\ status[r] \notin {"approved_debited", "queued_for_payout"}
        /\ Finish(w)
        /\ UNCHANGED status
  /\ UNCHANGED <<lock, inCycle, todo, terms, payoutTo, recipient, accountVars,
                 walletVars, paystackVars, recordVars, clockVars>>

\* Mutant of PayoutAccount: the account is read live off the distributor.
ProfileAccount(r) == profile[terms[r].owner]

PayoutAccount(r) == payoutTo[r]

\* A recipient built from the row's own snapshot, cached on the row.  Paystack
\* answers with the existing recipient when asked twice for one account.
EnsureRecipient(w) ==
  LET r == row[w] IN
  /\ pc[w] = "recipient"
  /\ \/ /\ code[w] # None
        /\ UNCHANGED <<code, recipient>>
     \/ /\ code[w] = None
        /\ code' = [code EXCEPT ![w] = PayoutAccount(r)]
        /\ recipient' = [recipient EXCEPT ![r] = PayoutAccount(r)]
  /\ Goto(w, "verify")
  /\ UNCHANGED <<lock, inCycle, row, seen, todo, done, status, terms, payoutTo,
                 accountVars, walletVars, paystackVars, recordVars, clockVars>>

\* Mutant of Known: a transfer that has not settled counts as not found.
KnownOnceSettled(r) == transfer[r] \in {"success", "failed", "reversed"}

\* verify_transfer finds the reference, whatever the transfer's state.
Known(r) == transfer[r] # "unknown"

\* What Paystack says of the reference; a 404 sends the cycle on to
\* initiate_transfer.  A webhook task never meets one: its transfer exists.
VerifyTransfer(w) ==
  LET r == row[w] IN
  /\ pc[w] = "verify"
  /\ \/ /\ Known(r)
        /\ seen' = [seen EXCEPT ![w] = transfer[r]]
        /\ Goto(w, "apply")
     \/ /\ ~Known(r)
        /\ Goto(w, "initiate")
        /\ UNCHANGED seen
  /\ UNCHANGED <<lock, inCycle, row, code, todo, done, accountVars, walletVars,
                 requestVars, paystackVars, recordVars, clockVars>>

\* Paystack takes the transfer on, unless it has seen the reference already
\* and enforces its uniqueness.
Accept(r, to, answer) ==
  /\ env.referenceUnique => transfer[r] = "unknown"
  /\ transfer' = [transfer EXCEPT ![r] = answer]
  /\ sentTo' = [sentTo EXCEPT ![r] = to]
  /\ accepted' = [accepted EXCEPT ![r] = @ + 1]

\* initiate_transfer is accepted, and its answer arrives.
InitiateTransfer(w) ==
  /\ pc[w] = "initiate"
  /\ \E answer \in FirstAnswers :
       /\ Accept(row[w], code[w], answer)
       /\ seen' = [seen EXCEPT ![w] = answer]
  /\ Goto(w, "apply")
  /\ UNCHANGED <<lock, inCycle, row, code, todo, done, accountVars, walletVars,
                 requestVars, recordVars, clockVars>>

\* initiate_transfer is accepted but the call times out: the row fails this
\* cycle although the money is on its way.
InitiateTimesOut(w) ==
  /\ pc[w] = "initiate"
  /\ faults < MaxFaults
  /\ faults' = faults + 1
  /\ \E answer \in FirstAnswers : Accept(row[w], code[w], answer)
  /\ Leave(w)
  /\ UNCHANGED <<lock, inCycle, todo, done, accountVars, walletVars,
                 requestVars, recordVars, today, env>>

\* initiate_transfer is refused because the reference exists.
InitiateRefused(w) ==
  /\ pc[w] = "initiate"
  /\ env.referenceUnique
  /\ transfer[row[w]] # "unknown"
  /\ Leave(w)
  /\ UNCHANGED <<lock, inCycle, todo, done, accountVars, walletVars,
                 requestVars, paystackVars, recordVars, clockVars>>

\* Under the row lock: otherwise the call is a no-op.
Unsettled(r) == status[r] = "queued_for_payout"

\* Mutant of ReversedAmount: the gross amount comes back.
GrossAmount(r) == terms[r].amount

ReversedAmount(r) == terms[r].net

\* apply_verified_transfer_outcome, the only way out of queued_for_payout.
ApplyVerifiedTransferOutcome(w) ==
  LET r == row[w] IN
  /\ pc[w] = "apply"
  /\ \/ /\ Unsettled(r)
        /\ seen[w] = "success"
        /\ status' = [status EXCEPT ![r] = "paid"]
        /\ Goto(w, "notify")
        /\ UNCHANGED <<walletVars, rowVars, done>>
     \/ /\ Unsettled(r)
        /\ seen[w] \in TransferFailures
        /\ Credit(terms[r].owner, ReversedAmount(r), "reversal", r)
        /\ status' = [status EXCEPT ![r] = "payout_failed_reversed"]
        /\ Goto(w, "notify")
        /\ UNCHANGED <<rowVars, done>>
     \/ /\ \/ ~Unsettled(r)
           \/ seen[w] \notin TransferFailures \cup {"success"}
        /\ Finish(w)
        /\ UNCHANGED <<status, walletVars>>
  /\ UNCHANGED <<lock, inCycle, todo, terms, payoutTo, recipient, accountVars,
                 paystackVars, recordVars, clockVars>>

\* The SMS about the outcome, after the commit and best effort.
Notify(w) ==
  /\ pc[w] = "notify"
  /\ told' \in {told, [told EXCEPT ![row[w]] = @ + 1]}
  /\ Finish(w)
  /\ UNCHANGED <<lock, inCycle, todo, accountVars, walletVars, requestVars,
                 paystackVars, counted, clockVars>>

\* The audit record: how many of the processed rows are paid by now.
RecordCycle(w) ==
  /\ pc[w] = "next"
  /\ todo[w] = {}
  /\ counted' = [r \in Requests |->
       IF r \in done[w] /\ status[r] = "paid" THEN counted[r] + 1 ELSE counted[r]]
  /\ Goto(w, "release")
  /\ UNCHANGED <<lock, inCycle, rowVars, todo, done, accountVars, walletVars,
                 requestVars, paystackVars, told, clockVars>>

\* The finally clause deletes the lock, also one that is no longer its own.
ReleaseLock(w) ==
  /\ pc[w] = "release"
  /\ lock' = FALSE
  /\ Goto(w, "idle")
  /\ inCycle' = [inCycle EXCEPT ![w] = FALSE]
  /\ todo' = [todo EXCEPT ![w] = {}]
  /\ done' = [done EXCEPT ![w] = {}]
  /\ UNCHANGED <<rowVars, accountVars, walletVars, requestVars, paystackVars,
                 recordVars, clockVars>>

\* process_transfer_webhook_task, queued by a signed transfer webhook.  Paystack
\* sends one for a settled transfer, possibly twice, late, or never; the task
\* takes only the reference from it and asks Paystack again.
StartWebhookTask(w, r) ==
  /\ pc[w] = "idle"
  /\ transfer[r] \in {"success", "failed", "reversed"}
  /\ row' = [row EXCEPT ![w] = r]
  /\ Goto(w, "verify")
  /\ UNCHANGED <<lock, inCycle, seen, code, todo, done, accountVars,
                 walletVars, requestVars, paystackVars, recordVars, clockVars>>

-----------------------------------------------------------------------------
(* Failures, the clock, and Paystack's own progress.                        *)

\* A Paystack error, or a lock that stays contended: the row's turn ends.
RowFails(w) ==
  /\ pc[w] \in {"claim", "recipient", "verify", "initiate", "apply"}
  /\ faults < MaxFaults
  /\ faults' = faults + 1
  /\ Leave(w)
  /\ UNCHANGED <<lock, inCycle, todo, done, accountVars, walletVars,
                 requestVars, paystackVars, recordVars, today, env>>

\* An exception outside the per-row handler (Redis, the audit query): the
\* cycle ends without a record, through the finally clause.
CycleFails(w) ==
  /\ pc[w] = "next"
  /\ faults < MaxFaults
  /\ faults' = faults + 1
  /\ Goto(w, "release")
  /\ UNCHANGED <<lock, inCycle, rowVars, todo, done, accountVars, walletVars,
                 requestVars, paystackVars, recordVars, today, env>>

\* The worker process is killed: no finally clause runs.
Crash(w) ==
  /\ pc[w] # "idle"
  /\ faults < MaxFaults
  /\ faults' = faults + 1
  /\ Goto(w, "idle")
  /\ inCycle' = [inCycle EXCEPT ![w] = FALSE]
  /\ row' = [row EXCEPT ![w] = None]
  /\ seen' = [seen EXCEPT ![w] = None]
  /\ code' = [code EXCEPT ![w] = None]
  /\ todo' = [todo EXCEPT ![w] = {}]
  /\ done' = [done EXCEPT ![w] = {}]
  /\ UNCHANGED <<lock, accountVars, walletVars, requestVars, paystackVars,
                 recordVars, today, env>>

\* The lock's time to live runs out: after its holder died, or under a row
\* that took longer than the timeout allows for.
LockExpires ==
  /\ lock
  /\ env.lockMayLapse \/ \A w \in Workers : ~inCycle[w]
  /\ lock' = FALSE
  /\ UNCHANGED <<pc, inCycle, rowVars, todo, done, accountVars, walletVars,
                 requestVars, paystackVars, recordVars, clockVars>>

\* A transfer changes its state inside Paystack.
TransferSettles(r, to) ==
  /\ <<transfer[r], to>> \in Settlements
  /\ transfer' = [transfer EXCEPT ![r] = to]
  /\ UNCHANGED <<sentTo, accepted, accountVars, walletVars, requestVars,
                 workerVars, recordVars, clockVars>>

NextDay ==
  /\ today < LastDay
  /\ today' = today + 1
  /\ UNCHANGED <<accountVars, walletVars, requestVars, paystackVars, workerVars,
                 recordVars, faults, env>>

-----------------------------------------------------------------------------

Account(d) ==
  \/ ApproveKyc(d)
  \/ \E to \in Destinations : SavePayoutSettings(d, to)
  \/ \E amount \in Earnings : Earn(d, amount) \/ ClawBack(d, amount)
  \/ \E r \in Requests, amount \in Amounts, rate \in TaxRates :
       SubmitWithdrawalRequest(d, r, amount, rate)

Review(r) == ApproveWithdrawalRequest(r) \/ RejectWithdrawalRequest(r)

RowStep(w) ==
  \/ ClaimForPayout(w)
  \/ EnsureRecipient(w)
  \/ VerifyTransfer(w)
  \/ InitiateTransfer(w)
  \/ InitiateRefused(w)
  \/ ApplyVerifiedTransferOutcome(w)
  \/ Notify(w)

CycleStep(w) == NextRow(w) \/ RecordCycle(w) \/ ReleaseLock(w)

Fault(w) == RowFails(w) \/ InitiateTimesOut(w) \/ CycleFails(w) \/ Crash(w)

Worker(w) ==
  \/ StartCycle(w)
  \/ CycleStep(w)
  \/ RowStep(w)
  \/ Fault(w)
  \/ \E r \in Requests : StartWebhookTask(w, r)

Paystack(r) == \E to \in TransferStates : TransferSettles(r, to)

Next ==
  \/ \E d \in Distributors : Account(d)
  \/ \E r \in Requests : Review(r) \/ Paystack(r)
  \/ \E w \in Workers : Worker(w)
  \/ LockExpires
  \/ NextDay

Spec == Init /\ [][Next]_vars

-----------------------------------------------------------------------------
(* What must hold.                                                          *)

\* The ledger rows of a request tell its history: a debit exists exactly from
\* the approval on, a reversal exactly when the payout failed.  Approval,
\* rejection and apply_verified_transfer_outcome each write status and ledger
\* in one transaction, under the lock of the request's row.
LedgerFollowsStatus ==
  \A r \in Requests :
    /\ <<"debit", r>> \in ledger <=>
         status[r] \in {"approved_debited", "queued_for_payout", "paid",
                       "payout_failed_reversed"}
    /\ <<"reversal", r>> \in ledger <=> status[r] = "payout_failed_reversed"

\* A distributor never has two live requests submitted within one
\* WITHDRAWAL_FREQUENCY window, although a rejected or reversed one gives its
\* window back (submit_withdrawal_request).
OneRequestPerWindow ==
  \A q, r \in Requests :
    /\ q # r
    /\ status[q] \in WindowBlocking
    /\ status[r] \in WindowBlocking
    /\ terms[q].owner = terms[r].owner
    => \/ terms[q].created + Window <= terms[r].created
       \/ terms[r].created + Window <= terms[q].created

\* Money only ever goes to the account snapshotted at approval, whatever the
\* distributor saves afterwards and however often the row is retried.
SentToSnapshot ==
  \A r \in Requests : sentTo[r] # None => sentTo[r] = payoutTo[r]

\* Two cycles never run at once while Redis keeps its lock, whoever crashes
\* and whatever lock is left behind (process_withdrawal_payouts).
CyclesDoNotOverlap ==
  ~env.lockMayLapse =>
    \A v, w \in Workers : inCycle[v] /\ inCycle[w] => v = w

\* Paystack takes on at most one transfer for a request, across timeouts,
\* crashes, later cycles and webhook tasks (process_withdrawal_payout).
OneTransferPerRequest == \A r \in Requests : accepted[r] <= 1

\* A request is paid only if its transfer succeeded, though Paystack may have
\* reversed it since; its money is back in the wallet only if the transfer
\* is dead (apply_verified_transfer_outcome, on an answer that may be stale).
SettledAsPaystackSays ==
  \A r \in Requests :
    /\ status[r] = "paid" => transfer[r] \in {"success", "reversed"}
    /\ status[r] = "payout_failed_reversed" => transfer[r] \in {"failed", "reversed"}

\* The distributor hears of the outcome at most once, with a webhook task, a
\* duplicate of it and the cycle all applying the same answer.
ToldOnce == \A r \in Requests : told[r] <= 1

-----------------------------------------------------------------------------
(* The pipeline keeps the promise of PayoutPromise: a refinement.           *)

PromiseOf(s) ==
  CASE s = "none" -> "none"
    [] s = "submitted" -> "asked"
    [] s = "rejected" -> "refused"
    [] s \in {"approved_debited", "queued_for_payout"} -> "held"
    [] s = "paid" -> "paid"
    [] s = "payout_failed_reversed" -> "returned"

OutsideOf(t) ==
  CASE t = "unknown" -> "unsent"
    [] t \in {"pending", "otp"} -> "moving"
    [] t = "success" -> "arrived"
    [] t = "failed" -> "bounced"
    [] t = "reversed" -> "recalled"

PromiseMap == [r \in Requests |-> PromiseOf(status[r])]
OutsideMap == [r \in Requests |-> OutsideOf(transfer[r])]

Payout == INSTANCE PayoutPromise WITH promise <- PromiseMap, outside <- OutsideMap

\* Every behaviour of the pipeline is one that PayoutPromise allows: money is
\* held once, sent at most once and only while held, and paid or returned
\* once, each time on Paystack's word.  It does not say that a transfer which
\* is reversed after a success is ever returned (services.py:671).
KeepsPromise == Payout!Spec

-----------------------------------------------------------------------------
(* What must happen.                                                        *)

Terminal == {"success", "failed", "reversed"}

\* A worker that runs goes on, the lock's time to live runs out, Paystack
\* resolves every transfer in the end, and celery beat triggers the cycle
\* again and again.  Nobody has to submit, approve or fail, and no webhook
\* has to arrive.
Fairness ==
  /\ \A w \in Workers : WF_vars(RowStep(w)) /\ WF_vars(CycleStep(w))
  /\ \A r \in Requests : WF_vars(\E to \in Terminal : TransferSettles(r, to))
  /\ WF_vars(LockExpires)
  /\ SF_vars(\E w \in Workers : StartCycle(w))

FairSpec == Spec /\ Fairness

\* An approved request is paid or returned in the end, with any finite number
\* of crashes, timeouts and lost webhooks on the way: a claimed row is visited
\* again, and a dead worker's lock does not block the cycles for ever.
EventuallySettled ==
  \A r \in Requests :
    status[r] = "approved_debited"
      ~> status[r] \in {"paid", "payout_failed_reversed"}
=============================================================================
