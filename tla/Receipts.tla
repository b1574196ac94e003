------------------------------ MODULE Receipts ------------------------------
(***************************************************************************)
(* The receipt email of a paid order.  Confirmation queues a job; the job  *)
(* takes a lock of its order, sends, and marks the order; a failed send is *)
(* queued again a few times, and a sweep queues jobs for the orders that   *)
(* stay unmarked, a few times, each after twice the wait.                  *)
(***************************************************************************)
EXTENDS Integers, FiniteSets

CONSTANTS
  Receipts,    \* orders with an email address
  Jobs,        \* bound: messages in the broker and runs of the job, at once
  Sweepers,    \* runs of the sweep
  NoJob,       \* no job
  SendRetries, \* RECEIPT_SEND_MAX_RETRIES
  MaxSweeps    \* RECEIPT_SWEEP_MAX_SWEEPS

ASSUME ReceiptsAssumption ==
  /\ NoJob \notin Jobs
  /\ SendRetries \in Nat /\ MaxSweeps \in Nat \ {0}

\* RECEIPT_SWEEPS_GAVE_UP: above all counts of the sweep.
GaveUp == MaxSweeps + 1

VARIABLES
  bought,    \* "pending", "standing", "withdrawn" (RECEIPT_SKIP_STATUSES)
  waited,    \* k > 0: the grace time was up 2^(k-1) times; MaxSweeps + 1: a week
  marked,    \* receipt_email_sent_at is set
  sweeps,    \* receipt_email_sweeps
  sendLock,  \* the job that holds the lock of the order's receipt
  job,       \* the order, the retry and the progress of each job
  sweep,     \* the progress of each sweep: what it read, what it is at
  sweepLock, \* is RECEIPT_SWEEP_LOCK_KEY in the cache?
  receipts,  \* receipts that were sent
  unsure     \* sends after which nobody knew that they had worked

receiptVars == <<bought, waited, marked, sweeps, sendLock, job, sweep, sweepLock,
                 receipts, unsure>>

Idle(x) == x.at = "idle"
IdleJob == [at |-> "idle", of |-> NoJob, retry |-> 0]
IdleSweep == [at |-> "idle", due |-> {}, now |-> <<>>]

\* A place for a message; a dead job's token stays in its lock.
FreePlace(j) == Idle(job[j]) /\ \A o \in Receipts : sendLock[o] # j

Queued(j, o) == [job EXCEPT ![j] = [at |-> "queued", of |-> o, retry |-> 0]]

-----------------------------------------------------------------------------
(* The order. *)

\* confirm_order_payment and, after its commit, enqueue_receipt: j, or nothing if
\* the broker does not take it.
ConfirmAndQueue(o) ==
  /\ bought[o] = "pending"
  /\ bought' = [bought EXCEPT ![o] = "standing"]
  /\ \E j \in Jobs : FreePlace(j) /\ job' = Queued(j, o)
  /\ UNCHANGED <<waited, marked, sweeps, sendLock, sweep, sweepLock, receipts, unsure>>

ConfirmOnly(o) ==
  /\ bought[o] = "pending"
  /\ bought' = [bought EXCEPT ![o] = "standing"]
  /\ UNCHANGED <<waited, marked, sweeps, sendLock, job, sweep, sweepLock, receipts, unsure>>

\* Cancelled or refunded.
Withdraw(o) ==
  /\ bought[o] = "standing"
  /\ bought' = [bought EXCEPT ![o] = "withdrawn"]
  /\ UNCHANGED <<waited, marked, sweeps, sendLock, job, sweep, sweepLock, receipts, unsure>>

TimePasses(o) ==
  /\ bought[o] # "pending" /\ waited[o] <= MaxSweeps
  /\ waited' = [waited EXCEPT ![o] = @ + 1]
  /\ UNCHANGED <<bought, marked, sweeps, sendLock, job, sweep, sweepLock, receipts, unsure>>

-----------------------------------------------------------------------------
(* send_order_receipt_email_task *)

Unlocked(j) == [o \in Receipts |-> IF sendLock[o] = j THEN NoJob ELSE sendLock[o]]

JobEnds(j) ==
  /\ job' = [job EXCEPT ![j] = IdleJob]
  /\ sendLock' = Unlocked(j)

\* Taken from the queue: the order as it is now.
StartJob(j) ==
  /\ job[j].at = "queued"
  /\ job' = [job EXCEPT ![j] = IF marked[@.of] THEN IdleJob ELSE [@ EXCEPT !.at = "lock"]]
  /\ UNCHANGED <<bought, waited, marked, sweeps, sendLock, sweep, sweepLock, receipts, unsure>>

\* cache.add: whoever does not get the lock leaves it to the one who has it.
TakeLock(j) ==
  LET o == job[j].of
  IN  /\ job[j].at = "lock"
      /\ IF sendLock[o] = NoJob
           THEN /\ sendLock' = [sendLock EXCEPT ![o] = j]
                /\ job' = [job EXCEPT ![j].at = "reread"]
           ELSE /\ job' = [job EXCEPT ![j] = IdleJob]
                /\ UNCHANGED sendLock
      /\ UNCHANGED <<bought, waited, marked, sweeps, sweep, sweepLock, receipts, unsure>>

\* Read again with the lock: not sent yet, and the order stands.
StillWanted(o) == ~marked[o] /\ bought[o] # "withdrawn"

Reread(j) ==
  /\ job[j].at = "reread"
  /\ IF StillWanted(job[j].of)
       THEN job' = [job EXCEPT ![j].at = "sending"] /\ UNCHANGED sendLock
       ELSE JobEnds(j)
  /\ UNCHANGED <<bought, waited, marked, sweeps, sweep, sweepLock, receipts, unsure>>

Mail(j) ==
  /\ job[j].at = "sending"
  /\ receipts' = [receipts EXCEPT ![job[j].of] = @ + 1]
  /\ job' = [job EXCEPT ![j].at = "sent"]
  /\ UNCHANGED <<bought, waited, marked, sweeps, sendLock, sweep, sweepLock, unsure>>

MarkSent(j) ==
  /\ job[j].at = "sent"
  /\ marked' = [marked EXCEPT ![job[j].of] = TRUE]
  /\ job' = [job EXCEPT ![j].at = "release"]
  /\ UNCHANGED <<bought, waited, sweeps, sendLock, sweep, sweepLock, receipts, unsure>>

ReleaseLock(j) ==
  /\ job[j].at = "release"
  /\ JobEnds(j)
  /\ UNCHANGED <<bought, waited, marked, sweeps, sweep, sweepLock, receipts, unsure>>

\* The address is refused: neither job nor sweep tries again.
AddressRefused(j) ==
  /\ job[j].at = "sending"
  /\ sweeps' = [sweeps EXCEPT ![job[j].of] = GaveUp]
  /\ JobEnds(j)
  /\ UNCHANGED <<bought, waited, marked, sweep, sweepLock, receipts, unsure>>

\* The mail server or the network fails, before it has the email or after: the
\* message goes back to the queue, up to SendRetries times.
SendBreaks(j) ==
  LET o == job[j].of
  IN  /\ job[j].at = "sending"
      /\ \/ UNCHANGED <<receipts, unsure>>
         \/ /\ receipts' = [receipts EXCEPT ![o] = @ + 1]
            /\ unsure' = [unsure EXCEPT ![o] = @ + 1]
      /\ sendLock' = Unlocked(j)
      /\ job' = [job EXCEPT ![j] =
           IF @.retry < SendRetries
             THEN [at |-> "queued", of |-> o, retry |-> @.retry + 1]
             ELSE IdleJob]
      /\ UNCHANGED <<bought, waited, marked, sweeps, sweep, sweepLock>>

\* Anything else that goes wrong is not tried again by the job.
SendCrashes(j) ==
  /\ job[j].at = "sending"
  /\ JobEnds(j)
  /\ UNCHANGED <<bought, waited, marked, sweeps, sweep, sweepLock, receipts, unsure>>

\* The worker dies, or is ended by the time limit: the message is gone, and the
\* lock stays.
WorkerDies(j) ==
  /\ job[j].at \notin {"idle", "queued"}
  /\ unsure' = IF job[j].at = "sent" THEN [unsure EXCEPT ![job[j].of] = @ + 1] ELSE unsure
  /\ job' = [job EXCEPT ![j] = IdleJob]
  /\ UNCHANGED <<bought, waited, marked, sweeps, sendLock, sweep, sweepLock, receipts>>

\* RECEIPT_LOCK_TIMEOUT_SECONDS, twice what the time limit lets a run last.
SendLockLapses(o) ==
  /\ sendLock[o] # NoJob /\ Idle(job[sendLock[o]])
  /\ sendLock' = [sendLock EXCEPT ![o] = NoJob]
  /\ UNCHANGED <<bought, waited, marked, sweeps, job, sweep, sweepLock, receipts, unsure>>

-----------------------------------------------------------------------------
(* resend_missing_order_receipts *)

\* Mutant of SweepDue: only while its own wait is running.
DueInItsTime(o) == sweeps[o] < MaxSweeps /\ waited[o] = sweeps[o] + 1

\* _receipt_sweep_due: each count waits twice as long as the one before.
SweepDue(o) == sweeps[o] < MaxSweeps /\ waited[o] > sweeps[o]

\* The candidates with the counts they were read with.
Candidates ==
  {<<o, sweeps[o]>> : o \in {q \in Receipts : /\ SweepDue(q) /\ ~marked[q]
                                              /\ bought[q] = "standing"
                                              /\ waited[q] <= MaxSweeps}}

\* A sweep that finds none takes and deletes the lock and is left out: nothing
\* comes of it but a delay, or what SweepLockLapses does as well.
StartSweep(s) ==
  /\ Idle(sweep[s]) /\ ~sweepLock
  /\ Candidates # {}
  /\ sweepLock' = TRUE
  /\ sweep' = [sweep EXCEPT ![s] = [at |-> "claim", now |-> <<>>, due |-> Candidates]]
  /\ UNCHANGED <<bought, waited, marked, sweeps, sendLock, job, receipts, unsure>>

\* The count goes up, if it is still the one that was read.
Claim(s) ==
  /\ sweep[s].at = "claim"
  /\ \E c \in sweep[s].due :
       IF sweeps[c[1]] = c[2]
         THEN /\ sweeps' = [sweeps EXCEPT ![c[1]] = @ + 1]
              /\ sweep' = [sweep EXCEPT ![s] = [at |-> "queue", due |-> @.due \ {c}, now |-> c]]
         ELSE /\ sweep' = [sweep EXCEPT ![s].due = @ \ {c}]
              /\ UNCHANGED sweeps
  /\ UNCHANGED <<bought, waited, marked, sendLock, job, sweepLock, receipts, unsure>>

QueueAgain(s) ==
  /\ sweep[s].at = "queue"
  /\ \E j \in Jobs : FreePlace(j) /\ job' = Queued(j, sweep[s].now[1])
  /\ sweep' = [sweep EXCEPT ![s].at = "claim", ![s].now = <<>>]
  /\ UNCHANGED <<bought, waited, marked, sweeps, sendLock, sweepLock, receipts, unsure>>

\* The broker fails, perhaps after it has the message.
QueueFails(s) ==
  /\ sweep[s].at = "queue"
  /\ \/ UNCHANGED job
     \/ \E j \in Jobs : FreePlace(j) /\ job' = Queued(j, sweep[s].now[1])
  /\ sweep' = [sweep EXCEPT ![s].at = "giveback"]
  /\ UNCHANGED <<bought, waited, marked, sweeps, sendLock, sweepLock, receipts, unsure>>

\* The attempt is given back, unless the count has changed meanwhile.
GiveBack(s) ==
  LET o == sweep[s].now[1]
      n == sweep[s].now[2]
  IN  /\ sweep[s].at = "giveback"
      /\ sweeps' = [sweeps EXCEPT ![o] = IF @ = n + 1 THEN n ELSE @]
      /\ sweep' = [sweep EXCEPT ![s].at = "claim", ![s].now = <<>>]
      /\ UNCHANGED <<bought, waited, marked, sendLock, job, sweepLock, receipts, unsure>>

\* The finally clause deletes the lock, whosever it is.
EndSweep(s) ==
  /\ sweep[s].at = "claim" /\ sweep[s].due = {}
  /\ sweep' = [sweep EXCEPT ![s] = IdleSweep]
  /\ sweepLock' = FALSE
  /\ UNCHANGED <<bought, waited, marked, sweeps, sendLock, job, receipts, unsure>>

SweepDies(s) ==
  /\ ~Idle(sweep[s])
  /\ sweep' = [sweep EXCEPT ![s] = IdleSweep]
  /\ UNCHANGED <<bought, waited, marked, sweeps, sendLock, job, sweepLock, receipts, unsure>>

\* After five minutes, whether the sweep is over or not.
SweepLockLapses ==
  /\ sweepLock
  /\ sweepLock' = FALSE
  /\ UNCHANGED <<bought, waited, marked, sweeps, sendLock, job, sweep, receipts, unsure>>

-----------------------------------------------------------------------------
ReceiptInit ==
  /\ bought = [o \in Receipts |-> "pending"]
  /\ waited = [o \in Receipts |-> 0]
  /\ marked = [o \in Receipts |-> FALSE]
  /\ sweeps = [o \in Receipts |-> 0]
  /\ sendLock = [o \in Receipts |-> NoJob]
  /\ job = [j \in Jobs |-> IdleJob]
  /\ sweep = [s \in Sweepers |-> IdleSweep]
  /\ sweepLock = FALSE
  /\ receipts = [o \in Receipts |-> 0]
  /\ unsure = [o \in Receipts |-> 0]

JobStep(j) ==
  StartJob(j) \/ TakeLock(j) \/ Reread(j) \/ Mail(j) \/ MarkSent(j) \/ ReleaseLock(j)

SweepStep(s) == Claim(s) \/ QueueAgain(s) \/ GiveBack(s) \/ EndSweep(s)

ReceiptStep ==
  \/ \E o \in Receipts : ConfirmAndQueue(o) \/ TimePasses(o) \/ SendLockLapses(o)
  \/ \E j \in Jobs : JobStep(j)
  \/ \E s \in Sweepers : StartSweep(s) \/ SweepStep(s)
  \/ SweepLockLapses

\* What goes wrong, or is decided outside.
ReceiptEvent ==
  \/ \E o \in Receipts : ConfirmOnly(o) \/ Withdraw(o)
  \/ \E j \in Jobs : AddressRefused(j) \/ SendBreaks(j) \/ SendCrashes(j) \/ WorkerDies(j)
  \/ \E s \in Sweepers : QueueFails(s) \/ SweepDies(s)

\* An order with the count it was read with.
Counts == Receipts \X (0 .. MaxSweeps - 1)

ReceiptTypeOK ==
  /\ bought \in [Receipts -> {"pending", "standing", "withdrawn"}]
  /\ waited \in [Receipts -> 0 .. MaxSweeps + 1]
  /\ marked \in [Receipts -> BOOLEAN]
  /\ sweeps \in [Receipts -> 0 .. GaveUp]
  /\ sendLock \in [Receipts -> Jobs \cup {NoJob}]
  /\ job \in [Jobs -> [at : {"idle", "queued", "lock", "reread", "sending", "sent", "release"},
                       of : Receipts \cup {NoJob}, retry : 0 .. SendRetries]]
  /\ sweep \in [Sweepers -> [at : {"idle", "claim", "queue", "giveback"},
                             due : SUBSET Counts, now : Counts \cup {<<>>}]]
  /\ sweepLock \in BOOLEAN
  /\ receipts \in [Receipts -> Nat] /\ unsure \in [Receipts -> Nat]

\* However many jobs there are for an order, a further receipt is sent only after
\* a send of which nobody knew that it had worked.
NoReceiptTwice == \A o \in Receipts : receipts[o] <= 1 + unsure[o]

\* Nothing more is due to the customer.
ReceiptSettled(o) ==
  \/ marked[o]
  \/ bought[o] = "withdrawn"
  \/ waited[o] > MaxSweeps
  \/ sweeps[o] >= MaxSweeps

(***************************************************************************)
(* A paid order gets its receipt, or all the attempts of the sweep were    *)
(* made, whatever breaks in between (the broker at confirmation, the mail  *)
(* server, workers and sweeps that die with their locks held), unless it   *)
(* was cancelled or a week went by.  And it gets it once, unless a send    *)
(* broke off or its worker died before the order was marked                *)
(* (orders/receipt_email.py, orders/tasks.py).                             *)
(***************************************************************************)
ReceiptComesOnce ==
  /\ [](ReceiptTypeOK /\ NoReceiptTwice)
  /\ \A o \in Receipts : (bought[o] = "standing") ~> ReceiptSettled(o)

=============================================================================
