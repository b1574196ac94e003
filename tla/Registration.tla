---------------------------- MODULE Registration ----------------------------
(***************************************************************************)
(* Paid registration, apps/distributors: the form leaves a                  *)
(* PendingRegistration, each visit to the payment step opens one more       *)
(* Paystack checkout for it, and a payment on any of them becomes an        *)
(* account or a PaymentIssue.  Meanwhile a cleanup job, and whoever          *)
(* registers the same number again, remove registrations that look          *)
(* abandoned.                                                               *)
(*                                                                          *)
(* A worker is a web request or a Celery process.  One action is one        *)
(* transaction or one call to Paystack; consume_paid_registration asks      *)
(* Paystack under the lock of the row, so that call belongs to its          *)
(* transaction, while resolve_unconsumed_pending_registration asks first    *)
(* and locks afterwards.                                                    *)
(***************************************************************************)
EXTENDS Integers, FiniteSets

CONSTANTS
  Phones,     \* telephone numbers
  MaxRows,    \* bound on PendingRegistration rows, numbered as they are made
  MaxRefs,    \* bound on payment references, numbered as they are issued
  Workers,    \* web requests and Celery processes
  None,       \* a model value: nothing
  FirstFee,   \* REGISTRATION_FEE at the start
  LastFee,    \* and after an admin has changed it
  Serves,     \* what each worker is asked to do
  Registered, \* numbers that may have an account at the start
  PaymentSteps, \* pairs <<from, to>>: how a payment's state changes
  MaxFaults   \* bound on failed calls, failed writes and crashes

Rows == 1..MaxRows
Refs == 1..MaxRefs

\* Paystack's view of a payment.  "unpaid" stands for a reference it never saw
\* and for abandoned and failed, "mispaid" is the status success with another
\* amount or currency.
PaymentStates == {"unpaid", "ongoing", "paid", "mispaid", "reversed"}

ASSUME BoundAssumption == MaxRows \in Nat /\ MaxRefs \in Nat /\ MaxFaults \in Nat
ASSUME NoneAssumption == None \notin Phones
ASSUME FeeAssumption == FirstFee \in Nat /\ LastFee \in Nat
Callers == {"form", "event", "cleanup", "takeover"}
ASSUME WorkerAssumption == Serves \in [Workers -> SUBSET Callers]
ASSUME RegisteredAssumption == Registered \subseteq Phones

\* Money that arrived can only leave again, and then the payment is final.
ASSUME PaymentAssumption ==
  PaymentSteps \subseteq
    ({"unpaid", "ongoing"} \X (PaymentStates \ {"reversed"}))
    \cup ({"paid", "mispaid"} \X {"reversed"})

VARIABLES
  reg,       \* PendingRegistration per row
  checkout,  \* RegistrationCheckout per reference, kept here after the row is gone
  fee,       \* constance: REGISTRATION_FEE
  payment,   \* Paystack: the state of the payment
  account,   \* per number, the payment that made its Distributor, or None
  issue,     \* PaymentIssue.kind of the reference
  pc,        \* where each worker is
  job,       \* its local variables
  faults     \* faults so far

vars == <<reg, checkout, fee, payment, account, issue, pc, job, faults>>

-----------------------------------------------------------------------------
\* No row, no reference; and an account that was there from the start.
Nobody == 0
Earlier == 0
NoAccount == -1

\* How long an unfinished registration has waited, in the classes that the code
\* tells apart by the time since the form and since the last checkout: "fresh";
\* "idle", its checkout is an hour old; "day", the form is a day old; "stale",
\* then its checkout is 72 hours old; "month", the form is 30 days old.
Waits == {"fresh", "idle", "day", "stale", "month"}

Later == {<<"fresh", "idle">>, <<"fresh", "day">>, <<"idle", "day">>,
          <<"day", "stale">>, <<"day", "month">>, <<"stale", "month">>}

Registrations ==
  [state : {"none", "open", "consumed", "deleted"}, phone : Phones \cup {None},
   ref : 0..MaxRefs, by : 0..MaxRefs, wait : Waits]

Unborn == [state |-> "none", phone |-> None, ref |-> Nobody, by |-> Nobody,
           wait |-> "fresh"]

Kinds == {"none", "unmatched", "duplicate", "not_created", "unconfirmed",
          "refund_received"}

Steps == {"idle", "submit", "ask", "consume", "record", "delete", "giveup", "refund"}

\* What a worker remembers: the caller, the row it looked at with the reference
\* that row had, the reference it consumes, the number it registers, whether the
\* row was past its maximum age, and the problem it found.
Jobs == [who : Callers, row : 0..MaxRows,
         ref : 0..MaxRefs, phone : Phones \cup {None}, past : BOOLEAN,
         kind : Kinds]

NoJob == [who |-> "event", row |-> Nobody, ref |-> Nobody, phone |-> None,
          past |-> FALSE, kind |-> "none"]

\* The number is in use by the row.
Holds(r, p) == reg[r].state \in {"open", "consumed"} /\ reg[r].phone = p

TypeOK ==
  /\ reg \in [Rows -> Registrations]
  /\ checkout \in [Refs -> [row : 0..MaxRows, fee : Nat]]
  /\ fee \in {FirstFee, LastFee}
  /\ payment \in [Refs -> PaymentStates]
  /\ account \in [Phones -> Refs \cup {NoAccount, Earlier}]
  /\ issue \in [Refs -> Kinds]
  /\ pc \in [Workers -> Steps]
  /\ job \in [Workers -> Jobs]
  /\ \A r, q \in Rows : r # q /\ Holds(r, reg[q].phone) => reg[q].state \notin {"open", "consumed"}
  /\ faults \in 0..MaxFaults

Init ==
  /\ reg = [r \in Rows |-> Unborn]
  /\ checkout = [f \in Refs |-> [row |-> Nobody, fee |-> 0]]
  /\ fee = FirstFee
  /\ payment = [f \in Refs |-> "unpaid"]
  /\ account \in {a \in [Phones -> {NoAccount, Earlier}] :
                   \A p \in Phones \ Registered : a[p] = NoAccount}
  /\ issue = [f \in Refs |-> "none"]
  /\ pc = [w \in Workers |-> "idle"]
  /\ job = [w \in Workers |-> NoJob]
  /\ faults = 0

Done(w) ==
  /\ pc' = [pc EXCEPT ![w] = "idle"]
  /\ job' = [job EXCEPT ![w] = NoJob]

Start(w, at, what) ==
  /\ pc[w] = "idle"
  /\ what.who \in Serves[w]
  /\ pc' = [pc EXCEPT ![w] = at]
  /\ job' = [job EXCEPT ![w] = what]

Goto(w, at) == pc' = [pc EXCEPT ![w] = at] /\ UNCHANGED job

Fault == faults < MaxFaults /\ faults' = faults + 1

dataVars == <<reg, checkout, fee, payment, account, issue>>

-----------------------------------------------------------------------------
(* Payments.                                                                *)

Issued(f) == checkout[f].row # Nobody

Success(f) == payment[f] \in {"paid", "mispaid"}

\* A payment of the fee that its own checkout was opened with.
PaidInFull(f) == payment[f] = "paid"

\* Mutant of PaidInFull: compared with the fee of the row's latest checkout.
PaidLatestFee(f) ==
  LET r == checkout[f].row
  IN  payment[f] = "paid" /\ checkout[reg[r].ref].fee = checkout[f].fee

\* The customer and Paystack.  A page once opened stays payable whatever becomes of
\* the row; one that could not be opened (initialize_transaction failed) is never
\* paid.
PaymentMoves(f) ==
  /\ Issued(f)
  /\ \E to \in PaymentStates :
       /\ <<payment[f], to>> \in PaymentSteps
       /\ payment' = [payment EXCEPT ![f] = to]
  /\ UNCHANGED <<reg, checkout, fee, account, issue, pc, job, faults>>

ChangeFee ==
  /\ fee' = LastFee
  /\ fee # LastFee
  /\ UNCHANGED <<reg, checkout, payment, account, issue, pc, job, faults>>

-----------------------------------------------------------------------------
(* The form and the payment step.                                           *)

\* The form is valid: no completed registration for the number.  An unfinished
\* one may be taken over.
Accepts(p) == ~ \E r \in Rows : Holds(r, p) /\ reg[r].state = "consumed"

Submit(w, p) ==
  /\ Accepts(p)
  /\ ~ \E r \in Rows : Holds(r, p)
  /\ Start(w, "submit", [NoJob EXCEPT !.who = "form", !.phone = p])
  /\ UNCHANGED <<dataVars, faults>>

\* PendingRegistration.objects.create, with the number unique.
Create(w) ==
  /\ pc[w] = "submit"
  /\ \E r \in Rows :
       /\ reg[r].state = "none"
       /\ \A q \in 1..(r - 1) : reg[q].state # "none"
       /\ ~ \E q \in Rows : Holds(q, job[w].phone)
       /\ reg' = [reg EXCEPT ![r] = [Unborn EXCEPT !.state = "open", !.phone = job[w].phone]]
  /\ Done(w)
  /\ UNCHANGED <<checkout, fee, payment, account, issue, faults>>

\* The IntegrityError: another form for the number was quicker.  (Or there is no
\* row left within the bound.)
CreateRefused(w) ==
  /\ pc[w] = "submit"
  /\ \/ \E q \in Rows : Holds(q, job[w].phone)
     \/ \A r \in Rows : reg[r].state # "none"
  /\ Done(w)
  /\ UNCHANGED <<dataVars, faults>>

\* A new checkout is not idle, but the form gets no younger.
Reopened(wait) ==
  CASE wait = "idle" -> "fresh" [] wait = "stale" -> "day" [] OTHER -> wait

\* snapshot_payment_reference: a fresh reference, and the fee of this moment.
OpenCheckout(r, f) ==
  /\ reg[r].state = "open"
  /\ ~Issued(f)
  /\ \A g \in 1..(f - 1) : Issued(g)
  /\ checkout' = [checkout EXCEPT ![f] = [row |-> r, fee |-> fee]]
  /\ reg' = [reg EXCEPT ![r].ref = f, ![r].wait = Reopened(@)]
  /\ UNCHANGED <<fee, payment, account, issue, pc, job, faults>>

\* Time passes for an unfinished registration.
Wait(r) ==
  /\ reg[r].state = "open"
  /\ \E to \in Waits :
       /\ <<reg[r].wait, to>> \in Later
       /\ reg' = [reg EXCEPT ![r].wait = to]
  /\ UNCHANGED <<checkout, fee, payment, account, issue, pc, job, faults>>

-----------------------------------------------------------------------------
(* resolve_unconsumed_pending_registration.                                 *)

\* Mutant of Past: the cleanup has no maximum age.
PastTakeover(r, who) == who = "takeover" /\ reg[r].wait \in {"day", "stale", "month"}

\* Cleanup: idle for 72 hours or 30 days old; takeover: an hour, or a day.
Past(r, who) ==
  reg[r].wait \in IF who = "cleanup" THEN {"month"} ELSE {"day", "stale", "month"}

Due(r, who) ==
  reg[r].wait \in IF who = "cleanup" THEN {"stale", "month"} ELSE Waits \ {"fresh"}

\* The row is read without a lock.  One that never reached the payment step is
\* deleted without asking.
Look(w, r, who) ==
  /\ reg[r].state = "open"
  /\ Due(r, who)
  /\ Start(w, IF reg[r].ref = Nobody THEN "delete" ELSE "ask",
           [NoJob EXCEPT !.who = who, !.row = r, !.ref = reg[r].ref,
                         !.past = Past(r, who),
                         !.phone = IF who = "takeover" THEN reg[r].phone ELSE None])
  /\ UNCHANGED <<dataVars, faults>>

\* Paystack's answer decides.  A payment that is neither made nor refused is given
\* up only past the maximum age.
Ask(w) ==
  LET f == job[w].ref
  IN  /\ pc[w] = "ask"
      /\ \/ payment[f] \in {"unpaid", "reversed"} /\ Goto(w, "delete")
         \/ Success(f) /\ Goto(w, "consume")
         \/ payment[f] = "ongoing" /\ job[w].past /\ Goto(w, "delete")
         \/ payment[f] = "ongoing" /\ ~job[w].past /\ Done(w)
      /\ UNCHANGED <<dataVars, faults>>

\* Paystack cannot be reached.  Only the cleanup gives up, and only past the
\* maximum age.
AskFails(w) ==
  /\ pc[w] = "ask"
  /\ Fault
  /\ IF job[w].who = "cleanup" /\ job[w].past THEN Goto(w, "giveup") ELSE Done(w)
  /\ UNCHANGED dataVars

\* Mutant of Unchanged: only the account is looked for.
StillOpen(w) == reg[job[w].row].state = "open"

\* Under the lock: still unconsumed, and no new checkout since Paystack was asked.
Unchanged(w) == reg[job[w].row].state = "open" /\ reg[job[w].row].ref = job[w].ref

\* What is left of a row once it is deleted: history, the number it was for.
Gone(r) == [Unborn EXCEPT !.state = "deleted", !.phone = reg[r].phone]

\* What is left to do for the caller once the row is gone: a takeover registers.
Freed(w) ==
  IF job[w].who = "takeover"
    THEN pc' = [pc EXCEPT ![w] = "submit"]
         /\ job' = [job EXCEPT ![w] = [NoJob EXCEPT !.who = "form", !.phone = job[w].phone]]
    ELSE Done(w)

Delete(w) ==
  /\ pc[w] = "delete"
  /\ Unchanged(w)
  /\ reg' = [reg EXCEPT ![job[w].row] = Gone(job[w].row)]
  /\ Freed(w)
  /\ UNCHANGED <<checkout, fee, payment, account, issue, faults>>

\* The issue and the delete are one transaction.
GiveUp(w) ==
  /\ pc[w] = "giveup"
  /\ Unchanged(w)
  /\ reg' = [reg EXCEPT ![job[w].row] = Gone(job[w].row)]
  /\ issue' = [issue EXCEPT ![job[w].ref] = "unconfirmed"]
  /\ Freed(w)
  /\ UNCHANGED <<checkout, fee, payment, account, faults>>

\* The row is gone (DELETED), consumed, or was reopened (KEPT).
DeleteRefused(w) ==
  /\ pc[w] \in {"delete", "giveup"}
  /\ ~Unchanged(w)
  /\ IF reg[job[w].row].state = "deleted" THEN Freed(w) ELSE Done(w)
  /\ UNCHANGED <<dataVars, faults>>

-----------------------------------------------------------------------------
(* consume_paid_registration.                                               *)

\* Whoever brings a reference: the webhook, again and again, or the browser.
Bring(w, f) ==
  /\ Issued(f)
  /\ Start(w, "consume", [NoJob EXCEPT !.ref = f])
  /\ UNCHANGED <<dataVars, faults>>

\* _reconcile_one: a payment that is listed as successful and has neither an
\* account nor an issue.
Reconcile(w, f) ==
  /\ Success(f)
  /\ issue[f] = "none"
  /\ ~ \E r \in Rows : reg[r].state = "consumed" /\ reg[r].by = f
  /\ Bring(w, f)

\* After consume_paid_registration: only resolve_unconsumed_... goes on, with the
\* row when there is an issue, and else it keeps the row.
Return(w, issued) ==
  IF job[w].who \in {"cleanup", "takeover"} /\ issued THEN Goto(w, "delete") ELSE Done(w)

\* Mutant of Fresh: the account of the number is not looked for.
FreshRow(r) == reg[r].state = "open"

\* The account can be made.
Fresh(r) == reg[r].state = "open" /\ account[reg[r].phone] = NoAccount

Apply(w) ==
  LET f == job[w].ref
      r == checkout[f].row
  IN  /\ pc[w] = "consume"
      /\ PaidInFull(f)
      /\ Fresh(r)
      /\ account' = [account EXCEPT ![reg[r].phone] = f]
      /\ reg' = [reg EXCEPT ![r].state = "consumed", ![r].by = f,
                              ![r].wait = "fresh"]
      /\ Done(w)
      /\ UNCHANGED <<checkout, fee, payment, issue, faults>>

\* Mutant of Problem: consumed_reference is not compared.
ProblemOfReplay(f) ==
  LET r == checkout[f].row
  IN  CASE reg[r].state = "deleted" -> "unmatched"
        [] reg[r].state = "consumed" -> "duplicate"
        [] OTHER -> IF PaidInFull(f) /\ Fresh(r) THEN "none" ELSE "not_created"

\* What is wrong with a successful payment, "none" when it is applied.
Problem(f) ==
  LET r == checkout[f].row
  IN  CASE reg[r].state = "deleted" -> "unmatched"
        [] reg[r].state = "consumed" -> IF reg[r].by = f THEN "none" ELSE "duplicate"
        [] OTHER -> IF PaidInFull(f) /\ Fresh(r) THEN "none" ELSE "not_created"

FindProblem(w) ==
  /\ pc[w] = "consume"
  /\ Success(job[w].ref)
  /\ Problem(job[w].ref) # "none"
  /\ pc' = [pc EXCEPT ![w] = "record"]
  /\ job' = [job EXCEPT ![w].kind = Problem(job[w].ref)]
  /\ UNCHANGED <<dataVars, faults>>

\* ALREADY_APPLIED, which is known without asking, or NOT_PAID.
FindNothing(w) ==
  LET f == job[w].ref
      r == checkout[f].row
  IN  /\ pc[w] = "consume"
      /\ \/ reg[r].state = "consumed" /\ reg[r].by = f
         \/ ~Success(f)
      /\ Done(w)
      /\ UNCHANGED <<dataVars, faults>>

\* Mutant of Record: the row is written in a transaction that is rolled back.
RecordLost(w) ==
  /\ pc[w] = "record"
  /\ Return(w, TRUE)
  /\ UNCHANGED <<dataVars, faults>>

\* record_payment_issue, after the lock is gone: one row per reference, a problem
\* of another kind overwrites it.
Record(w) ==
  /\ pc[w] = "record"
  /\ issue' = [issue EXCEPT ![job[w].ref] = job[w].kind]
  /\ Return(w, TRUE)
  /\ UNCHANGED <<reg, checkout, fee, payment, account, faults>>

\* VERIFY_FAILED: Paystack does not answer, the row stays locked, or the issue
\* cannot be written.
ConsumeFails(w) ==
  /\ pc[w] \in {"consume", "record"}
  /\ Fault
  /\ Return(w, FALSE)
  /\ UNCHANGED dataVars

\* handle_external_refund of a registration fee: the account stays.
HearOfRefund(w, f) ==
  /\ payment[f] = "reversed"
  /\ Start(w, "record", [NoJob EXCEPT !.ref = f, !.kind = "refund_received"])
  /\ UNCHANGED <<dataVars, faults>>

\* A worker dies, or an exception ends it: the issue of GiveUp cannot be written.
Crash(w) ==
  /\ pc[w] # "idle"
  /\ Fault
  /\ Done(w)
  /\ UNCHANGED dataVars

-----------------------------------------------------------------------------
Request(w) ==
  \/ \E p \in Phones : Submit(w, p)
  \/ \E r \in Rows : Look(w, r, "takeover") \/ Look(w, r, "cleanup")
  \/ \E f \in Refs : Bring(w, f) \/ Reconcile(w, f) \/ HearOfRefund(w, f)

Proceed(w) ==
  \/ Create(w) \/ CreateRefused(w)
  \/ Ask(w) \/ Delete(w) \/ GiveUp(w) \/ DeleteRefused(w)
  \/ Apply(w) \/ FindProblem(w) \/ FindNothing(w) \/ Record(w)

Fails(w) == AskFails(w) \/ ConsumeFails(w) \/ Crash(w)

World ==
  \/ \E r \in Rows : Wait(r) \/ \E f \in Refs : OpenCheckout(r, f)
  \/ \E f \in Refs : PaymentMoves(f)
  \/ ChangeFee

Next ==
  \/ \E w \in Workers : Request(w) \/ Proceed(w) \/ Fails(w)
  \/ World

Spec == Init /\ [][Next]_vars

\* Time passes; a worker that is at work goes on; the cleanup (every 15 minutes)
\* comes to every row that is due, and the daily reconciliation to every payment
\* it lists, though a worker may not be free the first time.
Fairness ==
  /\ \A r \in Rows : WF_vars(Wait(r))
  /\ \A w \in Workers : WF_vars(Proceed(w))
  /\ \A r \in Rows : SF_vars(\E w \in Workers : Look(w, r, "cleanup"))
  /\ \A f \in Refs : SF_vars(\E w \in Workers : Reconcile(w, f))

FairSpec == Spec /\ Fairness

-----------------------------------------------------------------------------
(* Properties.                                                              *)

\* The account that a reference made, if it made one.
MadeAccount(f) == \E p \in Phones : account[p] = f

\* Each successful payment has one answer.  It made the account of the number on
\* its own registration, which says so; or there is an issue, and then for the
\* reason given: the registration is gone, another payment made the account, or
\* the payment is not the fee of its checkout or the number had an account.  A
\* registration is never completed and reported as well, however the webhook,
\* the browser, the cleanup, a takeover and the reconciliation interleave.
AnsweredRightly ==
  /\ TypeOK
  /\ \A f \in Refs :
       LET r == checkout[f].row
       IN  /\ MadeAccount(f) =>
                /\ reg[r].state = "consumed" /\ reg[r].by = f
                /\ account[reg[r].phone] = f
                /\ issue[f] \in {"none", "refund_received"}
           /\ issue[f] \in {"unmatched", "unconfirmed"} => reg[r].state = "deleted"
           /\ issue[f] = "duplicate" => reg[r].state = "consumed" /\ reg[r].by # f
           /\ issue[f] = "not_created" =>
                \/ ~PaidInFull(f) \/ account[reg[r].phone] # NoAccount

\* A registration younger than a day is removed only if its latest checkout is an
\* hour old: whoever goes back to the payment page, while Paystack is being asked
\* about the page before, does not lose the registration under it.
OpenCheckoutKeepsRow ==
  [][\A r \in Rows :
       reg[r].state = "open" /\ reg'[r].state = "deleted" => reg[r].wait # "fresh"]_vars

\* consume_paid_registration's promise: a payment Paystack confirms ends in an
\* account or in an issue, unless the money goes back first.
PaidRegistrationIsAnswered ==
  \A f \in Refs :
    Success(f) ~> (MadeAccount(f) \/ issue[f] # "none" \/ payment[f] = "reversed")

\* Cleanup's promise: no unfinished registration is kept forever, whatever its
\* owner and Paystack do.
RowsAreResolved == \A r \in Rows : (reg[r].state = "open") ~> (reg[r].state # "open")
=============================================================================
