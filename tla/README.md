# Bancostore in TLA+

Bancostore is a Django application: a shop, and a binary-tree distributor
programme on top of it, with an e-wallet, weekly bonuses and mobile money
payouts through Paystack. Web requests, Celery workers, webhooks and a
Celery beat schedule act on one MySQL database, one Redis and two payment
providers at the same time. This directory models the parts where that is hard.
Paths below are relative to the repository.

## 1. The system

### Components, their state and their operations

| component | state | operations | what makes it correct |
|---|---|---|---|
| withdrawal (`apps/withdrawal`) | `WithdrawalRequest` (status, amounts, payout snapshot, recipient, reference), `WithdrawalCycleRun`, the Redis cycle lock | submit, approve, reject; `process_withdrawal_payouts` (claim, recipient, verify, initiate, apply); transfer webhook task | the money of a request is held, sent and settled once, on Paystack's word; every approved request is settled |
| wallet (`apps/wallet`) | `Wallet.balance`, `WalletTransaction` rows | `credit`, `debit` | balance = sum of rows, never negative, one row per reference and type |
| orders (`apps/orders`) | `Order` (status, payment reference), items, receipts | checkout, confirm a payment (callback, webhook, reconciliation), auto-cancel, advance, cancel or refund | one confirmation per payment; a stock-out's payment is refunded once, and on record |
| catalog stock (`apps/catalog`) | `Product.stock` | conditional decrement, increment | never oversold; a cancelled order returns what it took |
| promotions (`apps/promotions`) | `DiscountCode`, redemptions | redeem at checkout, consume, release | the usage limit holds |
| compliance (`apps/compliance`) | escrow entries, retail ratio alerts | credit and reverse escrow, weekly check | an escrow entry per confirmed order, reversed with it |
| PV ledger (`apps/pv_ledger`) | `PvLedger` per leg, `PvDailyBucket`, `MonthlyPersonalPv` | record a purchase up the tree, expire, consume FIFO, reverse | PV is counted once and spent once; what is cancelled earns nothing |
| commissions (`apps/commissions`) | `CommissionCycleRun`, bonus wallet rows | binary and matching bonus cycles | PV spent is paid for, within the weekly cap; bonuses owed are paid |
| binary tree (`apps/binary_tree`) | `BinaryTreeEdge` (ancestor, descendant, leg, depth) | place a distributor on the weaker leg, with spillover | one node per distributor, one child per leg, the closure table says what the direct edges say |
| registration (`apps/distributors`) | `PendingRegistration`, `RegistrationCheckout`, `PaymentIssue`, `Distributor` | form, checkout, consume a payment (webhook, callback, reconciliation), clean up, take over | a paid registration yields one distributor or one issue; no payment is lost silently |
| starter packs (`apps/distributors`) | `StarterPackCheckout`, the pack columns of `Distributor`, `PaymentIssue` | select, pay and consume, reconcile | one payment of a distributor is applied; PV, place and bonus follow it |
| cooling-off and refunds (`apps/distributors`) | cancellation and refund columns, PV, wallet | cancel a membership, refund and dispute events | what the purchase earned others is taken back, once |
| sign-in (`apps/accounts`, `apps/notifications/otp.py`) | failed login counters, `OTPCode` rows, session | log in, lock out, send, guess and discard a code, reset a password | limits hold under overlap; a phone is proven only by a text |
| identity verification (`apps/distributors`) | `DiditVerification`, `kyc_status`, `IrIdSequence` | start a session, take a result, approve, reject | the result shown is that of the session on record; IR IDs are unique; decisions are told once |
| platform settings (`apps/platform_settings`) | the Constance rows, `PlatformSettingChange` | save the settings page | bounds are never crossed for good, no stale page undoes a change, the trail is right |
| reporting (`apps/reporting`) | `DailyOrderRollup`, the lock of its job | nightly roll-up, back-fill by hand | every day that is over gets its row, unless it left the window first |
| alarms (`apps/compliance`, `apps/notifications`) | `ComplianceAlertState`, `SmsCreditStatus`, the cache keys of the alert limit | check the retail ratio, check SMS credit, a refused text | the flag follows the last check that ran alone; quiet means that somebody was told |
| live figures (`consumers.py`, `signals.py`) | sockets and their groups, the figure on each page | push after commit, greet a new socket | once nothing is under way a page shows the figure |
| receipts (`apps/orders`) | `receipt_email_sent_at`, `receipt_email_sweeps`, two locks | send job with retries, sweep | a receipt comes, and comes once unless a send's success was unknown |
| PV expiry notice (`apps/notifications`) | stored notifications, the lock of the job | the daily look | PV that expires was announced |
| admin portal, pages and storefront | nothing of their own beyond the above | product form, order actions, reviews, pages | |

### Interactions

* **calls in one transaction**: an approval debits the wallet; a failed transfer
  credits it; a confirmed order takes stock, records PV and credits escrow; a
  consumed starter pack places a node, records PV and credits the sponsor.
* **messages**: Paystack sends webhooks, possibly twice, late or never. Each one
  starts a Celery task that trusts only the reference and asks Paystack again.
* **shared state**: row locks (`SELECT ... FOR UPDATE NOWAIT`, retried a bounded
  number of times by `bancostore/concurrency.py`), unique constraints, conditional
  updates, and Redis locks with a time to live for the cycles.
* **schedules**: Celery beat starts the payout and bonus cycles, reconciliation,
  auto-cancellation, clean-up, the nightly roll-up, the receipt sweep and the notices
  again and again.

### What is hard here

No lock is held across a call to Paystack, so every pipeline that talks to it is
a sequence of short transactions with anything in between; callbacks, webhooks and
reconciliation race on one payment; workers die; calls time out after having taken
effect; the money of one request lives in the wallet, in the row's status and at
Paystack. `PROJECT.json` lists each hazard at its line with the properties that
cover it. Five of them have no property, each with its reason: one depends on what Paystack reports, and four do go
wrong in the code (section 9).

### The models and the runs

Seven models, each with its own state: the components of one model interact, and what
crosses from one model to another is an input of the second (a confirmed order's PV is
a `Purchase` of the PV model, a starter pack's PV is credited in `StarterPacks` itself).

| model | root module | components | runs |
|---|---|---|---|
| withdrawals, section 2 | `Withdrawal` | withdrawal, wallet, Paystack transfers, Redis lock | `withdrawal_race`, `withdrawal_ledger` |
| orders, section 3 | `Orders` | orders, stock, discount code, escrow, PV credit, payment issues | `orders_stock`, `orders_payment` |
| bonuses, section 4 | `Commissions` on `PvLedger` | PV ledger, both bonuses, their locks and schedule | `bonus_overlap`, `bonus_matching` |
| registration, section 5 | `Registration` | form, checkouts, payments, clean-up, takeover, reconciliation | `registration_race`, `registration_answered` |
| membership, section 6 | `StarterPacks` on `BinaryTree` | tree, packs, PV totals, referral bonus, cooling-off, refunds | `membership_tree`, `membership_payments` |
| access, section 7 | `Access` of `SignIn`, `Identity`, `Settings` | logins, codes, sessions, identity verification, settings page | `access` |
| oversight, section 8 | `Oversight` of `Reporting`, `Alerts`, `LiveScreens`, `Receipts`, `ExpiryNotices` | what people are told and shown | `oversight` |

All runs pass. Invariants that are conjunctions are named as one property: `AnsweredRightly`,
`PackBooksAgree`, `PvIsConserved`, `IdentityIsSound`, `SettingsStand`, `AlarmsAreTrue`,
`ScreensAreRight`, `EveryDayIsReported`, `ReceiptComesOnce` and `ExpiryIsAnnounced` contain the
type invariant of their module (`Receipts` and `Reporting` together with the liveness that they
promise), `PvIsConserved` also contains `LedgersFollowPurchases`, `PaidForSpent` contains
`AuditAddsUp`, and `CodesProveThePhone` is `NewestCodeWasDelivered` and `PhoneProvenByText`.

## 2. Withdrawals: what is modelled

| module | what it is |
|---|---|
| `PayoutPromise` | the abstract specification: what the pipeline keeps to about the money of one request; less than ADR-0004, which also wants a reversal after a success credited back (section 9) |
| `Withdrawal` | the pipeline: wallet, review, cycle workers, webhook tasks, Redis lock, Paystack, faults; its safety and liveness properties; the refinement mapping |
| `WithdrawalInvariant` | the inductive invariant and its named parts |
| `WithdrawalMoney` | properties about sums of money |
| `MCWithdrawal` | values of the constants for TLC |
| `Withdrawal_proofs` | theorems and proofs |
| `Induction_proofs` | lemmas on sums, functions on numbers and finite sets, used by several proof modules (section 9) |

**State.** `status`, `terms`, `payoutTo` and `recipient` are columns of
`WithdrawalRequest` (`terms` are the ones written once, at submission). `wallet`
and `ledger` are `Wallet.balance` and the withdrawal rows of `WalletTransaction`;
rows of other types are only a running sum, `otherEntries`. `transfer`, `sentTo`
and `accepted` are Paystack's. `lock` is the Redis key. Each worker has a `pc`
and the local variables of the task it runs. `counted` and `told` are what the audit
record and the SMS gateway saw. Primary keys are the set `Requests`: a row that does
not exist yet has status `"none"`.

**Actions.** One action is one transaction or one call to Paystack.
`submit_withdrawal_request`, `approve_withdrawal_request` and
`reject_withdrawal_request` are one action each. `process_withdrawal_payouts` is
`StartCycle` (cache.add and the snapshot query), then per row `NextRow` (renews the
lock), `ClaimForPayout`, `EnsureRecipient`, `VerifyTransfer`, `InitiateTransfer`,
`ApplyVerifiedTransferOutcome`, `Notify`, and at the end `RecordCycle` and
`ReleaseLock`. `process_transfer_webhook_task` is `StartWebhookTask` followed by
the same verify, apply and notify steps. A pinned reference is the request's
identity, so "the transfer with this row's reference" is `transfer[r]`.

**Failures.** `RowFails` is any exception of a row's turn, a lock that stayed
contended included; `InitiateTimesOut` is a call that took effect but raised;
`CycleFails` an exception outside the per-row handler; `Crash` a killed worker, whose
lock stays behind; `LockExpires` the end of the lock's time to live. `faults` counts
the injected ones up to `MaxFaults`.

**Environment.** `tasks.py:30-63` names two protections against two cycles paying one
row: the lock, sized to outlive one row, and Paystack's refusal of a known
reference, which the comment calls unverified. `env` picks a combination at the start
and the properties hold for every one in which at least one of the two stands
(`EnvironmentAssumption`). With neither, two cycles can send the money twice.

**Abstractions.** Amounts are natural numbers of pesewas. Retries of a contended
lock are not steps of their own. A request's clock is in days, as are the windows
of `WITHDRAWAL_FREQUENCY`; settings do not change while the model runs. The SMS sent
on approval and rejection and the failure rows of the audit record are left out, no
property speaks of them. The query of a cycle is a snapshot, although the code iterates
over it: rows approved meanwhile wait for the next cycle either way.

### Runs

| run | instance | what it shows |
|---|---|---|
| `withdrawal_race` | 1 request, 2 workers, 2 faults, both environments, all transfer states | exclusion of cycles, one transfer, settlement on Paystack's word, one SMS, the inductive invariant, refinement of `PayoutPromise` (held and sent once, paid only after a success, returned at most once), and that an approved request is settled in the end |
| `withdrawal_ledger` | 1 distributor, 2 requests, 1 worker, 2 payout accounts, 3 days, 1 fault | wallet, ledger and status agree; money is conserved; one live request per window; money goes to the approved account |

*Why these bounds.* Everything about a payout is per request, and requests share
only the wallet and the window; so the race run has one request and two workers,
which is what any overlap needs, with two faults (a fault and one during the
recovery from it), and the ledger run has two requests and no race. Amounts 4, 5 and 11
lie below, at and above the bounds `MinAmount = 5` and `MaxAmount = 10`, and 5 at 10
percent is a tax that is rounded half up. Window 2 with days 0 to 2 reaches a second
request on the last blocked and on the first free day. The balance can be clawed back
between submission and approval. `Nameless` is empty in the runs: a nameless distributor
is never approved; the proofs cover it.

*Fairness.* A worker that runs takes its next step (WF per worker); Paystack resolves
each transfer to success, failed or reversed; a key with a time to live expires; and
beat triggers the cycle for ever, so some worker that can take the lock again and again
takes it in the end (SF on `StartCycle`: the lock comes and goes). No fairness on people,
faults or webhooks: `EventuallySettled` holds when no webhook ever arrives.

### What is proved

`Withdrawal_proofs` proves for all values of the constants that satisfy the assumptions of
`Withdrawal`: any number of distributors, requests, workers, faults and days, any amounts.

| theorem | statement |
|---|---|
| `TypeCorrect` | `Spec => []TypeOK`: no wallet is overdrawn |
| `LedgerCorrect`, `WindowCorrect` | ledger and status agree; one live request per window |
| `RowsKnown` | each worker's row is where its `pc` expects it, whoever interferes |
| `CyclesExclude` | cycles exclude each other while the lock stands |
| `PayoutCorrect` | one transfer per request; settled as Paystack says |
| `SnapshotCorrect`, `ToldCorrect` | the approved account; one SMS |
| `InvariantHolds` | `Spec => []IInv`, the conjunction the race run checks |
| `MoneyIsConserved` | earnings are in the wallet, held for a payout or paid out, to the pesewa |
| `PromiseKept` | `Spec => KeepsPromise`: the pipeline implements `PayoutPromise`. `PayoutPromise` allows a request that is paid to be returned after a recall and does not require it, so the credit-back of ADR-0004:56-58 is not proved, and would be false |

*The argument.* None of the interesting properties is inductive: between two steps
of a worker the row, the lock and the transfer may all change. What carries them is
what a worker may still rely on. `KnowsItsRow` says how far the row has come at
each `pc` (statuses only move forward, `StatusForward`). `InitiateIsFresh` says that,
where Paystack would accept a second transfer, nobody else can have initiated one between
a worker's verify and its initiate, which needs `CyclesDoNotOverlap` and
`CycleHoldsLock`. `AnswersStayTrue` says that the answer a worker carries may be
stale but never names the other outcome; so does `SettledAsPaystackSays`, and the
refinement follows, with the steps that Paystack or a worker makes mapped to one step
of `PayoutPromise` or to a stutter. `CopiesOfSnapshot` and `SmsIsStillDue` do the
same for the account and the SMS.

*Assumptions.* The named `ASSUME`s: `None` is no element of the other sets, amounts and
bounds are naturals, tax rates are 0 to 100 percent, at least one of the two protections
stands, and Paystack's transfers move as documented (failed and reversed are final,
success may only become reversed).

`TypeCorrect`, `CyclesExclude` and `ToldCorrect` state parts of `IInv` that no run lists by
themselves; the race run checks them through `IInv`.

`MoneyConserved` is about sums over all requests of a distributor (`SumFunctionOnSet`, a fold of the
community modules). One step moves one request into or out of the set of those whose money is held, and
`SumAdds` and `SumRemoves` of `Induction_proofs` say what that does to a sum.

*Only model-checked.* `EventuallySettled` (liveness).

## 3. Orders: what is modelled

| module | what it is |
|---|---|
| `Fulfilment` | the abstract specification: what ADR-0005 and ADR-0006 promise about goods |
| `Orders` | the pipeline: checkout, confirmation, stock-outs, auto-cancel, reconciliation, refunds, admins, the product form |
| `OrdersProperties` | safety, liveness and the refinement mapping to `Fulfilment` |
| `OrdersInvariant` | the inductive invariant and its named parts |
| `MCOrders` | values of the constants for TLC |
| `Orders_proofs` | theorems and proofs |

**State.** Of an `Order`: `status`, `confirmed` (is `confirmed_at` set), `terms` (the columns
written at checkout), `taken` (`OrderItem.stock_decremented`), `pvEarned` and an abstract
`age`. `stock` is `Product.stock`, `form` the figure an open product form shows. `codeUsed`,
`escrow` and `credited` are the other books a confirmation writes: `DiscountCode.times_used`,
`EscrowTransaction` rows, and whether an order's PV stands in the PV ledger. `issue` is the
`PaymentIssue` row of the payment. `payment` is Paystack's. `refunds` and `otherNews` are history. A worker is a Celery process or a web request with `pc`, its order and
two local variables.

**Actions.** One action is one transaction or one call to Paystack. `confirm_order_payment`
calls Paystack under the order's row lock, so its attempt is one action with four outcomes:
`ApplyPayment`, `FindNoStock` (rolled back), `FindIssue`, `FindNothing`. What comes after the
lock is separate: `RecordIssue`; for a stock-out `CancelForStock` or `FindNotPending`, then
`LookForIssue`, `ClaimRefund`, `AskRefund`, `SettleClaim`. The auto-cancel job is
`CheckPayment` (outside the lock), `RecordUnfinished`, `CloseUnpaid` (the status read again
under it), or goes on into the confirmation. `_apply_or_flag` calls the confirmation twice
with `Recheck` and `Flag` between; `via` says where the call returns to.
`cancel_or_refund_order` is `CancelOrRefund`, called by an admin (`CancelOrder`,
`RefundOrder`) or by a refund event (`UndoOrder`, then `NoteRefund`).

**Failures.** `GiveUp`: Paystack or the issue table cannot be reached; `AskRefund` has an outcome
in which the call fails or times out; `UndoFails`: the swallowed exception of `_refund_order`;
`Fails`: an escaping exception or a killed process anywhere.

**Abstractions.** Prices, fees and amounts are only "the order's total" or not (`paid`,
`mispaid`). Escrow has rows, not sums, and its rate is not zero. PV is credited to an order
or not; its way up the tree is `PvLedger`. An issue is written in one
step, although a row of another kind is updated in a second transaction. Every reference has
an order. `payment_checked_at` and the lock of the auto-cancel batch only delay a turn, which
the nondeterministic start covers. The reconciliation reads one payment at a time, and Paystack
lists each one that was made. Web callbacks that poll and webhooks are the same start,
`StartConfirm`.

### Runs

| run | instance | what it shows |
|---|---|---|
| `orders_stock` | 2 orders, 1 product, the last unit, 1 worker, 1 saved product form, a code | lines, stock, escrow, PV and the code's counter stay in step; refinement of `Fulfilment` |
| `orders_payment` | 1 order, 2 workers, every payment history, a dispute, 1 fault | confirmed orders are paid for; one refund per stock-out, on record and not of an order that waits; no order and no payment stays unanswered; the inductive invariant, which `OneRefundUnlessNews` needs |

*Why these bounds.* Orders share only stock and the code's counter, so the stock run has two orders
and one unit: one order that insists on its unit, one that takes two with
backorders (and gets less). Both carry the code, which has one use left, so checkout sees it free
and taken. One worker is enough there, since a confirmation is atomic and the races are about
one order. Those are the payment run: two workers, each of which may be any of the five
callers, is what an overlap needs; a cart of one or two units over a stock of one reaches
stock-outs and confirmations; the second order's effect on stock is not needed, as an order that
is cancelled puts its unit back. A payment may be finished, left, wrong, or go back;
an abandoned payment behaves as an unseen one and is left to the proofs. Payments do not go
back in the stock run; with that the books are checked in the payment run, whose `IInv`
contains them.

*Fairness.* A worker that runs goes on (WF of `WorkerStep`); time passes (WF of `GrowOld`); beat
starts the auto-cancel job and the reconciliation for ever and each goes through all that is due, so
an order that is due again and again has its turn (SF; strong, because workers are busy in between).
None on webhooks, callbacks, customers, admins or Paystack: `PendingOrdersClose` and
`PaidIsAnswered` hold if no webhook ever comes.

### What is proved

`Orders_proofs` proves for all values of the constants that satisfy the assumptions of `Orders`: any
number of products, orders and workers, any carts, payment histories and faults.

| theorem | statement |
|---|---|
| `TypeCorrect` | `Spec => []TypeOK`: stock never goes below zero |
| `LinesAreServed`, `BooksAgree` | whole lines; escrow, PV and the code follow the orders |
| `GoodsPaid` | a confirmed order's payment came in |
| `RefundsOnRecord`, `OneRefund` | a refund is on record and never of an order that still waits (it may have been confirmed meanwhile, section 9), and asked for once unless there was other news |
| `Invariant` | `Spec => []IInv` |
| `KeepsShelf` | `Spec => ShelfKept`: the pipeline implements `Fulfilment` |

*The argument.* `RowSteps` classifies every step by what it does to the row of one order: nothing, or
checked out, aged, advanced, confirmed (`Confirms`), closed unpaid (`Dropped`) or undone (`Undone`), each
with its effect on stock and books. Lines, books and the refinement follow from the classes; the code's
counter needs the cardinality of the set of its holders. `StatusForward` says that no
order returns to pending. For the refund `RefundPath` says how a worker gets to each of its
steps and `IssueSteps` that issues are never deleted; `OneRefundUnlessNews` alone is not inductive and
needs `ClaimIsExclusive`: a worker about to call Paystack is the only one that did or will.

*Assumptions.* `Orders` is finite, `None` is none of them, bounds and stock figures are naturals, and
Paystack never takes money back from "paid" except to "reversed", which is final
(`PaymentAssumption`).

*Only model-checked.* `PendingOrdersClose` and `PaidIsAnswered` (liveness). `TypeCorrect` is checked through
`IInv`.

## 4. PV and bonuses: what is modelled

| module | what it is |
|---|---|
| `PvLedger` | the three PV tables of `apps/pv_ledger`: a purchase, its reversal, and the operators the cycles read and spend with |
| `Commissions` | extends it by the cycles of `apps/commissions`: Beat, the Redis locks, the workers, both bonuses, the audit record, faults |
| `BonusPromises` | the properties |
| `BonusInvariant` | the inductive invariant and its named parts |
| `MCCommissions` | values of the constants for TLC: four distributors, three generations |
| `Commissions_proofs` | theorems and proofs |

### How state and actions correspond to the code

`Above` holds the `BinaryTreeEdge` rows of each distributor, `Sponsor` and `Depth` the sponsor chain and the
rank. `Purchase` is the credit of a starter pack or a confirmed order, one date for all three tables;
`CancelPurchase` is `reverse_ancestor_pv`. `cycle[w]` is the local state of `_run_commission_cycle`: job,
`run_at`, the ids left to visit, the total. `Fire` is Beat sending a start message by its schedule, which `waiting` holds until a worker takes
it (`TakeTrigger`), possibly on a later day: `run_at` is the worker's time, not Beat's (`commissions/tasks.py:141`). `StartCycle`, `SkipTrigger`, `FinishCycle`, `AbortCycle` and `Crash`
are its outer part; `PayBinary`, `SkipBinary`, `PayMatching`, `SkipMatching` and `FailDistributor` are one iteration
of its loop with the lock's renewal. `payments` are the wallet rows; their fields `pv` and `of` (what a bonus
was paid for) are there for the properties.

*Abstractions.* A distributor's bonus is one step: the cycle and a reversal lock the same `Distributor` rows, and
credits only add. Time has the grain of a day, and a binary bonus of the day of a matching cycle counts as paid
after it. `run_at` is a name that differs between cycles that paid. Amounts are pesewas and rates tenths of a
percent, rounded half up as the code does. The tree, the sponsors and the ranks do not change.
Cycles that paid nothing leave no audit row. The check for an earlier payment with the same reference
is left out, since a cycle visits a distributor once. Rates and caps are constants, the interval of the
matching bonus is a setting that changes.

### Runs

| run | instance | what it shows |
|---|---|---|
| `bonus_overlap` | 3 distributors, 3 purchases, 3 days, 2 workers, a binary lock that may lapse | the weekly cap holds, PV is conserved, payments match the PV spent, ledgers follow purchases, audit rows add up |
| `bonus_matching` | 4 distributors, 2 purchases, 3 days, 1 worker, 1 fault, both jobs, an interval of 2 days that may be set to 1 and back | every binary bonus owed is paid in the end; nothing about matching (below) |

*Why these bounds.* 1 PV earns 7.5 pesewas, so 1 and 3 PV are rounded; the cap of 20 pesewas cuts a bonus on 3 PV
(23 pesewas) short and is used up by two small bonuses; the trailing window is two days, so that the third day
opens it again, PV of the first day has expired by then, and a month has ended. One leg has two
purchases that may fall on different days and the other one, so that either can be the weak one. In the matching run the
month is longer, so that two matching cycles find their upline eligible; they share workers, faults and days with the binary ones. The overlap run has no crashes and the matching
run has them; two workers differ in nothing but their names (symmetry, in the run without liveness).

*Fairness.* A worker in a cycle goes on (WF); Beat starts binary cycles for ever (SF of `StartCycle`: the
lock comes and goes); an abandoned lock expires (WF). None on admins, purchases or matching cycles.

*A bound made exact.* ADR-0003 says flooring "can't leak in either direction". `PaidForSpent` gives the exact
bound: a capped bonus is paid in full and spends the PV rounded down, so each one may pay up to one PV's worth more
than it spends, and never less.

### What is proved

`Commissions_proofs` proves for any set of distributors with any tree, any sponsors and ranks, any
purchases, workers and faults, any rates, cap and expiry, and whichever locks may lapse:

| theorem | statement |
|---|---|
| `BonusInvHolds` | `Spec => []BonusInv`, the inductive invariant |
| `NoPvIsLostOrPaidTwice` | PV tables follow the purchases; what is spent and what is left is what was bought |
| `CapIsNeverExceeded` | the weekly cap, in every week that ends on any day |
| `SpentPvIsPaid` | the bonus paid is worth the PV spent, within the rounding; audit records add up |

*The argument.* `StepKinds` sorts all steps into a few kinds: a purchase, a reversal, the start and the end of a cycle, a visit
that pays nothing, a payment of either bonus, and whatever touches none of the books. A payment adds one row, and what it does to each of the sums (the week's,
all binary bonuses, the cycle's own) is one lemma on sums. The cap holds for every stretch of seven days and not only
for the one that the cycle looked at: cycles that overlap may be of different days, but a row is never dated after
the day it is paid on, and the cycle's own day is not later than that (`DatesInOrder`), so what the paying cycle sums contains every
row of any stretch that its new row falls into. The audit needs `RunsAreFresh` and `TotalsAddUp`: a cycle's `run_at` is on no payment of another cycle, and
its total is that of the payments which carry it. For PV to be exactly conserved while nothing expired, expiry must have had nothing to
delete, which is `RowsHaveOrigin`: PV of a day is there only if a purchase of that day stood for it. That FIFO consumption takes
exactly what it is asked for (`ConsumedRows`) is proved for any number of days.

*Assumptions.* The named `ASSUME`s, and nothing about the interval or the schedule.

TLC agrees: `BonusInv` holds in every state of `bonus_matching`.

*Why no property says that an earning is matched once.* It is not so. The matching bonus covers the days since `run_at` minus the interval,
both read while the cycle runs; Beat's schedule has the interval that the last cycle left, and the message may wait. On the instance of
`bonus_matching`, with an interval of one day at first, TLC finds an earning that is matched twice after the interval went from one day to two, and
another, with the interval left alone, after a message waited a day. With neither it finds none. The text that says otherwise is in section 9.

*Only model-checked.* `OwedIsPaid` (liveness).

## 5. Registration: what is modelled

`Registration` is one module with its properties; `RegistrationInvariant` has the inductive invariant,
`MCRegistration` the values for TLC and `Registration_proofs` the proofs.

**State.** `reg` is `PendingRegistration` per row: open, consumed or deleted, its number, its latest
payment reference, who consumed it and how long it has waited (`wait` is the age of the row and
of its latest checkout, as far as the code compares them). `checkout` is `RegistrationCheckout` per
reference, with the fee it was opened at; it is kept here after the row is gone, as the cascade takes it away in
the code. `fee` is the setting, `payment` Paystack's state, `account` the `Distributor` of a number,
`issue` the `PaymentIssue` of a reference. `pc` and `job` are the local state of a worker.

**Actions.** `Submit` and `Create` (or `CreateRefused`) are the form, before and under the transaction
that replaces an unfinished row of the same number; `OpenCheckout` is the visit to the payment step.
`Look`, `Ask`, `Delete`, `GiveUp` and `DeleteRefused` are `resolve_unconsumed_pending_registration`, called by the clean-up
job and by whoever takes a number over: it asks Paystack first and locks afterwards. `Bring` and `Reconcile`
are the callers of `consume_paid_registration`, which asks under the lock, so that `Apply`, `FindProblem`
and `FindNothing` are one transaction each; `Record` writes the issue after it. `HearOfRefund`
is the refund event. `AskFails`, `ConsumeFails`, `DeleteRefused` and `Crash` are the faults.

**Abstractions.** Of a form, only the number. An amount is the fee of the checkout or not. E-mails, the password and
the Distributor's other columns are left out. `wait` has the classes of age that the code tells
apart: a takeover wants an hour since the latest checkout and insists after a day, the clean-up wants 72 hours and insists after 30 days.

| run | instance | what it shows |
|---|---|---|
| `registration_race` | 1 number, that may have an account, 2 rows, 2 references, 2 workers, 1 fault, the fee goes from 100 to 120 | each successful payment has one answer, for the reason given; an open payment page keeps its row |
| `registration_answered` | 1 number, 1 row, 2 references, 2 workers, 1 fault, refunds | a paid registration is answered; no unfinished row stays for ever |

*Why these bounds.* Rows of different numbers share nothing. Two rows of one number are what a takeover needs, two
references what a second visit to the payment page needs (an old page that is paid after the new one was opened), and
two workers what an overlap needs; who may do what is split between them (`Split`, `Roles`) in such a way that each
pair of callers that touch one row occurs.

*Fairness.* Time passes (WF of `Wait`), a worker goes on (WF of `Proceed`), the clean-up of every 15 minutes comes
to every row that is due and the daily reconciliation to every payment in its window (SF: workers are busy in
between). None on visitors, takeovers, Paystack and webhooks.

### What is proved

`Registration_proofs` proves for any number of numbers, rows, references, workers, fees and faults:

| theorem | statement |
|---|---|
| `RegInvHolds` | `Spec => []RegInv`, the inductive invariant |
| `PaymentsAreAnsweredRightly` | `Spec => []AnsweredRightly`: each successful payment made the account or has an issue whose reason holds, never both |
| `OpenCheckoutKept` | `Spec => OpenCheckoutKeepsRow`, an action property: a young row goes only when its latest checkout is an hour old |

*The argument.* Whoever cleans up or takes over asks Paystack without a lock and deletes later, and whoever consumes
finds a problem under the lock and records it later. Both work because of what cannot change back in between. `Reason` says of
each kind of issue what was true when it was found, and each of these facts is for good: a deleted row stays deleted, a
consumed one keeps the payment it was consumed by, money that went back or was not the fee does not become a good payment.
`ProblemsStay` carries the reason from the finding to the record, `IssuesHaveReasons` from there on. `LooksStayDue` does the same for
the age of the checkout a remover looked at: if the row still has that checkout, it is no younger now. `AccountsAreEarned` ties the account,
the registration and the payment to one another, which excludes a second account from a second payment.

*Only model-checked.* The two properties of `registration_answered` (liveness).

## 6. Starter packs and the tree: what is modelled

| module | what it is |
|---|---|
| `BinaryTree` | the closure table, the choice of a place, what the team page loads and draws, and what the rows should say |
| `StarterPacks` | extends it by selections, payments, placement, PV, referral bonus, cooling-off, refunds and disputes |
| `PackPromises` | its properties |
| `TreeInvariant` | what is true of the rows of the tree, one or two members at a time |
| `PackInvariant` | the inductive invariants and their named parts |
| `MCStarterPacks` | values of the constants for TLC |
| `StarterPacks_proofs` | theorems and proofs |

**State.** `above` and `placed` are the `BinaryTreeEdge` rows, `legPv` the running totals of `PvLedger`. `member` is the
pack part of `Distributor` (the latest selection, confirmed, cancelled, the window), `checkout` the `StarterPackCheckout`
rows, `ownPv` the personal PV, `bonus` the sponsor's bonus row and its reversal per payment, `refund` what a
cancelled member is owed, `payment` and `issue` as above.

**Actions.** `consume_paid_starter_pack` asks Paystack under the member's row lock. Its placement reads the tree
under locks that do not cover all it reads, so the transaction is two actions: `BeginPlacing` chooses the place,
`CommitPlacing` writes edges, PV and bonus; between them another placement may commit, `Waits` says which one the locks
hold off, and `RollBack` is the loser's. `Reconcile`, `Recheck` and `Flag` are the daily reconciliation with its second
look. `Cancel` is the cancellation with its three reversals; `HearOfRefund`, `HearOfRefundOnly` and `HearOfDispute` are the events, with the
bonus taken back as far as the wallet allows (`Spend` empties it).

**Abstractions.** Wallets are only the bonus that is still there or spent. One date of PV: buckets and expiry are
section 4. A pack's price is "paid" or "mispaid". The refund call for a cancelled membership and its claim are left out.

| run | instance | what it shows |
|---|---|---|
| `membership_tree` | 5 members in three generations of sponsors, 3 references, 2 web requests, no faults | the closure table describes one binary tree; PV, place and bonus agree with the payments that stand |
| `membership_payments` | a sponsor and a recruit, 2 packs, 2 references, 1 web request, 1 task, 1 fault, disputes, all payments | with two packs, two payments and refund events in any order, PV, pack, refund and bonus follow the payment that was applied; whoever pays is served or reported |

*Why these bounds.* Three recruits of one sponsor overflow a leg (spillover), a recruit's recruit makes a row of depth 2
and can be placed before his sponsor; with three references three of the four buyers are placed, two of them at once. The payments of a member
touch only his own and his sponsor's rows, so the second run has one pair and spends its states on two selections,
both payable, and everything that can happen to them.

*Fairness.* A worker goes on; the reconciliation comes to every payment that it lists, in a Celery process of its own
(SF; a web server never runs it). None on members, webhooks and Paystack.

### What is proved

`StarterPacks_proofs` proves for any number of members, sponsors, packs, references, workers and faults:

| theorem | statement |
|---|---|
| `PackInvHolds` | `Spec => []PackInv`, the inductive invariant |
| `PackBooksAlwaysAgree` | `Spec => []PackBooksAgree`: one payment per member; pack, PV and refund are of that payment; each leg is the sum of the packs that stand below it; no more bonus is taken back than was paid |
| `PackTreeInvHolds` | `Spec => []PackTreeInv`, the same with `TreeInv` and `PlacesAreOpen` |
| `TreeIsAlwaysSound` | `Spec => []TreeSound`: one parent and one place each, each row a way up and each way up a row, the sponsor above, whole team pages; late placements excepted |
| `EdgesAreAlwaysUnique` | `Spec => []EdgesAreUnique`: no placement fails at the constraints of `BinaryTreeEdge` (`binary_tree/models.py:43-51`) |
| `SearchAlwaysEnds` | `Spec => []SearchEnds`: the `AssertionError` "unreachable: a binary tree always has an open slot somewhere" (`binary_tree/services.py:151-153`) is unreachable indeed |

*Assumptions.* `Members` is finite, and a sponsor is there before his recruit: of any members, the eldest has his sponsor
elsewhere (`SponsorAssumption`). The code sets `Distributor.sponsor` once, when the row is created, to a distributor
found by his number (`distributors/services.py:384`, `forms.py:132-138`); a superuser who edits the row through Django's own admin is not modelled.

*The argument for the books.* A payment is applied by a placement that holds the member's row from `BeginPlacing` to `CommitPlacing`
(`PlacingIsAlone`), so the member it commits for is the waiting one it began with. `LegsAddUp` is a sum over a team; a placement adds
one member to the team of each of his ancestors and his PV to their legs, a cancellation takes both back, and nobody is in a team before his pack
was paid for (`RowsFollowPacks`), so the credit is never counted twice. `PackInv` also has what each step of the reconciliation has learned (`WorkersKnow`) and, for each issue, why it was
written (`Reason`), an earlier selection that was paid for among the reasons.

*The argument for the tree.* `TreeSound` speaks of chains, as long as there are members; an induction over their length in every step
would be unwieldy. `TreeInv` speaks of one row, one pair of members, or sets that lead nowhere else: a row is the direct one or the copy of one of the parent's
(`RowsAreCopies`), all rows of a parent were copied who was there first (`RowsWereCopied`), and "a is above d" is "a is in every set of members
that has d and the parents of its members" (`UpTo`). A placement keeps these by plain set reasoning (`AttachingIsSound`): it adds one
member whom nobody had in a closed set of his ancestors. Circles are the delicate part, because a member may be placed after somebody stands below him:
what forbids them is that the new member's sponsor is above the place and sponsors lead in no circle (`SponsorsAreAbove`, `NoCircles`).
The chains come back at the end, by one induction over their length for each part of `TreeSound` (`RowIsWay`, `WayHasRow`, `TreeInvIsSound`).

Two placements at once are `PlacesAreOpen`: between `BeginPlacing` and `CommitPlacing` the place stays open, unless it is below a late placement.
If another placement takes it, it did not wait for this one, so no row it refers to names this one's sponsor; but the sponsor is above the place,
and only a late placement on the way hides him from the rows (`AboveIsInRows`). This is the exception that the code has, and the proof shows that there is no other.

The search: `Queue(child)` is the queue of the loop round by round. As long as no round finds a place, every member taken from it is new
(`NodesDiffer`: a second time would be a second parent or a circle), so there are no more rounds than members (`LoopEnds`), and the place it returns is open and below the sponsor
(`OpenSlotIsOpen`). The guard of `BeginPlacing` that the search has ended therefore excludes nothing.

`TreeInv`, `PlacesAreOpen` and `SearchEnds` were model-checked on the instance of `membership_tree` before they were proved; the run itself checks what they are for.

*Only model-checked.* `PayerIsServed` (liveness): whoever pays for a pack has or had one, or an admin hears of the payment, unless the money goes back.
It is about the payer. Of a second payment of the same member nobody may hear, and an applied one may be reported (section 9): no property is stated of either.

## 7. Access: what is modelled

| module | what it is |
|---|---|
| `SignIn` | logins of distributors and admins, lockout and its e-mail, codes with their delivery, guesses and resets, the browser's session |
| `Identity` | extends it by Didit sessions and results, the admin's decision, IR IDs, the notification |
| `Settings` | the settings page: version check, validation, save setting by setting, audit trail |
| `Access` | composes the two: a behaviour follows one of them (`editing`) |
| `AccessInvariant` | the two inductive invariants and their named parts |
| `MCAccess` | values of the constants for TLC |
| `Access_proofs` | theorems and proofs, of the settings page too |

**Correspondence.** A password is compared outside every lock and counted under the row's: `LogIn` reads,
`RecordFailure` and `RecordSuccess` write. The alert on a locked admin account comes after the commit: `SendLockoutAlert` sends it, or does not because
`LOCKOUT_ALERT_EMAIL` is blank, its default; in `LockoutAlertFails` the mail fails or the process dies. `alerts` and `unsent` count the two. `generate_otp` commits the code before the text is sent, so `CreateCode` is
followed by `TextArrives`, or `TextFails` and then `MailArrives`, `MailFails` and `Discard`. `CheckCode` counts a guess against the newest
open code. A session is what the browser's cookie stands for, and one browser has several tabs. `SessionStarts` resets the `DiditVerification` row,
`ConsumeResult` stores a result under its lock; `ApproveKyc` takes the next number of `IrIdSequence`. For the settings page `SubmitPage` is the whole-form
validation with the version hash; then `KeepSetting` or `WriteSetting` and `RecordChange` per setting, in the order of `CONSTANCE_CONFIG` and in no transaction;
`SaveDies` and `RecordIsLost` are its faults.

**Abstractions.** A code is a row and a guess is right or wrong. A worker killed between the commit of a code and its delivery is not modelled: the row would stay, undelivered and the newest. Actions whose early return changes nothing are left out. Of the settings three stand for
all; Constance's copy in Redis, its lazy writing of defaults, the fields that the page locks, and the old value of an audit row are left out. Customers' accounts,
session timeout and two-factor devices are not modelled.

| run | instance | what it shows |
|---|---|---|
| `access` | 2 distributors, one with a proven phone, 1 admin, 1 browser, 2 workers, 2 wrong passwords, 1 guess, 3 requests, 1 fault; or 2 pages, 2 payout days, bounds 0 and 1, 3 edits | limits hold, and an alert goes out at most once per locking; the newest code is the one that was delivered, and only a text proves a phone; IR IDs and results are sound; a decision is told once; settings are right again after any whole save |

*Why these bounds.* Everything is per account, except IR IDs (two distributors) and the browser's session (two accounts in one
browser). An overlap needs two requests and a third one looks at what they left; limits of 2 and 1 are reached within three
requests. Two pages saved at once, plus one event during the recovery, are the three edits. No fairness: the properties are safety.

### What is proved

For any number of distributors, admins, browsers, requests, pages, payout days and faults, any limits and amounts:

| theorem | statement |
|---|---|
| `IdentityInvHolds`, `SettingsInvHolds` | the two inductive invariants hold in every behaviour of `AccessSpec` |
| `LimitsAlwaysHold` | failed logins and guesses are limited however requests overlap; no more than one e-mail per lock of an admin account |
| `CodesAlwaysProveThePhone` | the newest open code is one that was sent or is being sent; a phone is proven only by a text |
| `IdentityIsAlwaysSound` | IR IDs and results |
| `DecisionsAreAlwaysToldOnce` | one notification per decision that took effect, but for counted faults |
| `SettingsAlwaysStand` | `AccessSpec => SettingsStand`, an invariant together with an action property: bounds, trail, no undone change |

*The argument.* `AccessSpec` follows sign-in and identity or the settings page, so each invariant has steps of its own and rests while the
other moves. For sign-in `CountsAreServed` is the heart: a request that has read a password and not yet counted it is in `Refused`, and the counter
plus the refused ones never exceed the requests that were served; this is an inequality on cardinalities, which is why `SignIn` assumes that `Workers` is finite.
A code that is not out yet is being sent by exactly one request (`CodesAreSent`), and what a request is about to do fits the row it works on (`HasItsJob`).
For the settings page `AloneMeansAlone` says that a save which nothing overlapped has made the values those of its form up to the setting it is at, and left the
rest as its page showed them; `TrailWillBeRight` and `OthersTear` say what an overlap may still break, and until when.

## 8. Oversight: what is modelled

| module | what it is | promise |
|---|---|---|
| `Reporting` | the nightly roll-up: its window, its share of days per run, lock, overlap, back-fill | `EveryDayIsReported`: every day that is over gets its row, unless it left the window first |
| `Alerts` | the retail-ratio check, SMS credit with its alert limit | `AlarmsAreTrue`: the flag is what the last check with a ratio found, if it ran alone; a day of silence is granted only to an alarm that somebody heard, or whose process or cache failed |
| `LiveScreens` | pushes to open pages, for a wallet, a bell and the admins' bell | `ScreensAreRight`: with nothing under way, a page shows the figure, unless pushes crossed or were lost |
| `Receipts` | the receipt job, its retries, its lock and the sweep | `ReceiptComesOnce`: a paid order gets its receipt or all the attempts, and no second one unless a send's success was unknown |
| `ExpiryNotices` | the daily look at the stronger leg | `ExpiryIsAnnounced`: PV that the job looks at on its last day does not expire without a recent notice; no two notices are closer than the warning |
| `Oversight` | composes them: they share no state, so a behaviour follows one (`part`) while the others rest | |
| `OversightInvariant` | an inductive invariant for each part but the roll-up | |
| `Oversight_proofs` | theorems and proofs | |

`MCOversight` gives each part a budget of events, which are failures, deaths, lapses and what the outside does: 4 for reports, alerts and
screens, 2 for receipts, 3 for notices. The steps of the programs themselves have no budget. History variables
(`crossed`, `missed`, `measured`, `silenced`, `unsure`, `judged`) say when a property makes an exception, and each exception is one that the code
leaves open: a push that another overtook, a check that did not run alone, a send after which nobody knew that it had worked.

*Bounds.* Four days with a window of two and one day a run let a day fall out of the window, wait for its turn or be filled in
by hand before it is over; one page and two movers let pushes cross; one receipt with two places for jobs and two sweeps lets a job overlap with its
own retry; PV that lasts two days with one day of warning has days before, in and after the warning. Sweeps that find nothing are left out.

*Fairness.* Beat triggers the roll-up and the sweep again and again, a run goes on unless it is killed, a queued job is taken, time passes, and
a lock whose run is over or was killed expires (WF of each). None on orders, admins, pages or faults.

### What is proved

For any number of processes, pages, requests, orders, jobs, sweeps and runs, any budget of failures, and any credit threshold, number
of retries, life of PV and length of the warning:

| theorem | statement |
|---|---|
| `OversightInvHolds` | `Spec => []OversightInv`, the four inductive invariants |
| `AlarmsAlwaysTrue` | `AlarmsAreTrue`: what the last check with a ratio found is in the flag if it ran alone; a day's limit stands for an alarm that somebody heard, or whose process or cache failed |
| `ScreensAlwaysRight` | with nothing under way and no push lost or crossed, a page shows the figure; an admin's page shows nothing that was sent after his right had ended |
| `NoReceiptComesTwice` | the safety half of `ReceiptComesOnce` |
| `ExpiryAlwaysAnnounced` | `Spec => ExpiryIsAnnounced`, an action property |

*The argument.* Each part has steps of its own (`PartsSteps`), so the invariant of one rests while another moves. For screens the heart is
`HeldFiguresAreRight`: a figure that a request has read and that no push has made stale since is the right one, or *somebody else still owes a push* and will read
it anew. So when nobody owes one and the last push was not overtaken, the last entry of every socket's queue is the figure (`InboxEndsRight`), and a page whose queue is empty shows it
or has it in its greeting; `JoinGroup` before `ReadGreeting` is what makes the last point inductive. For receipts a job past its lock holds the lock of its order
(`JobsHoldTheirLock`), so at most one job is between reading `marked` and setting it, and until an order is marked every receipt beyond that job's is one of
those nobody knew about (`ReceiptsAreCounted`). For notices the lock leaves one run awake, so what it found in the dedup query still holds when it sends; PV
on its last day is near its end because the oldest bucket of a leg is no younger than any of them. The liveness halves of `ReceiptComesOnce` and
`EveryDayIsReported` stay with TLC.

## 9. Where documents and code differ

Met while modelling. No run states them as a property; each model does what the code does.

* A transfer that is reversed after it was reported as a success is not credited back: `apply_verified_transfer_outcome`
  ignores rows that have left the queue (`withdrawal/services.py:671`), though ADR-0004, lines 56-58, credits every reversal back. `PayoutPromise` is weaker than the ADR on this point, so that `KeepsPromise` says nothing of it.
* Withheld tax stays in the wallet: an approval debits the net amount (`withdrawal/services.py:395`); the admin page says that it was remitted (`admin_portal/views.py:208-210`).
* A stock-out whose order is confirmed by another worker before the cancellation is refunded all the same, and the issue says that the order was cancelled; the docstring has it cancelled first (`orders/services.py:559-562`, `598-608`). `RefundIsOnRecord` does not exclude it.
* The product form writes the stock that it showed when it was opened, and undoes sales made since (`admin_portal/views.py:1829-1831`; `catalog/services.py:23-25`).
* Earnings can be matched twice, or fall between two cycles: after the matching interval is changed, because the schedule follows one cycle late (`commissions/tasks.py:132`),
  and with an interval that never changes, because `run_at` is taken when a worker starts (`commissions/tasks.py:141`) and a message may have waited. The docstring calls window
  and cadence "structurally unable to diverge" (`commissions/services.py:432-442`). No property is stated of it (section 4).
* `reverse_ancestor_pv` takes all of a purchase's PV out of a bucket or nothing, so the remainder of a partly spent purchase stays (`pv_ledger/services.py:392-402`; ADR-0007, lines 131-134, reverses "what's still live"). `PvIsConserved` does as the code does.
* The reconciliation of packs takes a payment for applied if its reference is the member's latest selection and the member has a pack (`distributors/tasks.py:286`). So the applied payment of
  an earlier selection is reported as not applied, with the advice to refund it, against "a false 'refund this' alert would get a real purchase refunded" (lines 191-196); and a second
  payment of the latest selection is neither applied nor reported, against "each one either took effect or is a PaymentIssue" (lines 180-183). No property is stated of either; `PayerIsServed` is about the payer.
* A sponsor who is placed after his recruit does not get the rows of the recruit's descendants (`binary_tree/models.py:5-13`). So a later recruit that spills
  over below such a placement has no row of his own sponsor, and two of them may be put into one place, since the locks of their placements do not meet
  (`binary_tree/services.py:47-53`). `WaysHaveRows`, `TeamsAreWhole` (`LatePlaced`), `BelowSponsor` and `OnePlaceEach` (`BelowLate`) except it.
* A refund on Paystack's side and a cooling-off cancellation know nothing of each other, so both may refund; a webhook replayed after a cancellation is recorded as not applied.
* `verify_transaction` says that it recognises a missing reference by status 400 or 404, and does so by 400 only (`distributors/paystack.py:189-213`); the reconciliation's docstring speaks of a week where the window is 30 days (`distributors/tasks.py:172-198`).
* The roll-up chooses the newest missing days and then works on them oldest first (`reporting/tasks.py:154`), so an older day that fails does keep yesterday waiting; the docstring (lines 77-79) says that it never can.
* Overlapping ratio checks can write an old ratio's flag, which then swallows the next drop; the docstring has "one duplicate alert email" as the only consequence (`compliance/services.py:242-251`).
  `AlarmsAreTrue` speaks of checks that ran alone. A check that finds no paid order leaves the flag raised (lines 256-257), so that a drop after it is not announced either: the docstring's
  transition "from above/at-threshold" is then taken from the last check that had a ratio, and that is what the property says.
* `start_kyc_verification` checks approval before it asks Didit and resets the row afterwards (`distributors/views.py:716-754`): an approval in between is kept, its stored result is not. The images and the birth date of an earlier session may stay on the row until a result of the new one brings its own.
* Pushes of two commits can cross (`distributors/signals.py:55-59`), and the admin's count is not "computed once and shared" (`admin_portal/views.py:2476-2479`): the push computes it again.
* "Exactly one notification per episode" (`notifications/tasks.py:55-63`): a new episode within the window of an earlier notice is quiet until that window ends.
* A capped bonus is paid in full and spends its PV rounded down (`commissions/services.py:249`), so it may pay for up to one PV that stays; flooring is to be "the only option that can't leak in either direction" (ADR-0003, lines 153-154). `PaidForSpent` has the bound (section 4).
* Overlapping or killed saves of the settings page can leave the withdrawal bounds crossed until the next whole save (`admin_portal/views.py:2220`).

Smaller ones that no model reaches: `limit_one_per_customer` counts confirmed orders only (`promotions/services.py:93`); the shop's own refund comes back as
an event that reopens its issue (`distributors/payment_issues.py:83`); a dispute written during the refund call is marked resolved with it
(`orders/services.py:662`); a matching bonus that failed for one distributor is not made up (`commissions/services.py:614`); a start
message delivered twice runs a matching cycle twice (`commissions/tasks.py:265`); `created_at` is earlier than the commit
(`commissions/services.py:457`).

## 10. Where the proofs stand

| model | modelled and checked | proved for all values of the constants | with TLC only |
|---|---|---|---|
| withdrawals | section 2 | all safety, refinement of `PayoutPromise` | `EventuallySettled` |
| orders | section 3 | all safety, refinement of `Fulfilment` | `PendingOrdersClose`, `PaidIsAnswered` |
| bonuses | section 4 | all safety | `OwedIsPaid` |
| registration | section 5 | all safety | its liveness |
| membership | section 6 | all safety | `PayerIsServed` |
| access | section 7 | all | |
| oversight | section 8 | alarms, screens, notices, receipts (safety) | `EveryDayIsReported`, `ReceiptComesOnce` (liveness) |

*Induction.* The library's induction rules take an operator, which the provers cannot instantiate. `Induction_proofs` states them for sets
instead: a set of naturals that has 0 and every successor is `Nat` (`ReachesAll`), a set of subsets that grows one index at a time has every
finite set (`SetsReachAll`); both come from well-founded minimality, as does the existence of a function that repeats another one
(`RepetitionExists`), which gives the tree its chains and its queue. With them it is shown that the fold behind `SumFunctionOnSet` has the value one expects
(`SumsExist`), and from there what a sum does when a row is added, removed or changed. All money and PV totals are proved with these lemmas.

What stays with TLC: liveness under fairness. Every safety property and every refinement that a run checks is a theorem.

## 11. What is not modelled

* Templates, wording and most pages: they show state and change none. The notices that are
  modelled are those of section 8, the SMS of a settled withdrawal and the decision on an identity.
* The HTTP clients of Paystack, Didit and mNotify beyond the effect and the failure of each call.
* Customers' accounts, addresses and carts; the cart is an input of the checkout. Session timeout and two-factor devices.
* Prices, delivery fees, variants, images, categories, banners, promotion dates and audiences.
* The figures inside reports, and the pages of the admin portal that edit rows nobody else acts on.
* The refund call for a cancelled membership, the retry of two first credits of a day, failure rows of the audit records.
* Isolation below the transaction: a transaction that holds the row lock is one step, as MySQL's locking
  reads make it; deadlocks between rows are errors to the code and appear as faults. The placement in the tree, whose
  reads are not covered by its locks, is the exception and has two steps.
