------------------------- MODULE WithdrawalInvariant -------------------------
(***************************************************************************)
(* Why the withdrawal pipeline is safe: what every worker knows of its row  *)
(* at each of its steps, although it holds no lock between two of them.     *)
(* The conjunction is inductive; Withdrawal_proofs proves it part by part.  *)
(***************************************************************************)
EXTENDS Withdrawal

\* The wallet has been debited, respectively the row has left the admins'
\* hands and may be known to Paystack.
Debited == {"approved_debited", "queued_for_payout", "paid", "payout_failed_reversed"}
Claimed == Debited \ {"approved_debited"}
Settled == {"paid", "payout_failed_reversed"}

\* Where a worker is tells how far its row has come; only a cycle asks Paystack
\* for a transfer, a webhook task starts from one that exists.
KnowsItsRow(w) ==
  /\ pc[w] \in {"next", "claim", "recipient", "initiate", "release"} => inCycle[w]
  /\ pc[w] = "verify" => inCycle[w] \/ transfer[row[w]] # "unknown"
  /\ inCycle[w] => pc[w] # "idle"
  /\ todo[w] \subseteq {r \in Requests : status[r] \in Debited}
  /\ pc[w] \in AtRow => status[row[w]] \in Debited
  /\ pc[w] \in AtRow \ {"claim"} => status[row[w]] \in Claimed
  /\ pc[w] = "notify" => status[row[w]] \in Settled

WorkersKnowTheirRow == \A w \in Workers : KnowsItsRow(w)

\* Paystack hears of a request only once it is claimed.
PaystackKnowsClaimed ==
  \A r \in Requests : transfer[r] # "unknown" => status[r] \in Claimed

\* Paystack counts a transfer for exactly the references it knows.
AcceptedIfKnown ==
  \A r \in Requests : accepted[r] = IF transfer[r] = "unknown" THEN 0 ELSE 1

\* While Redis keeps the lock, it is taken for as long as a cycle runs.
CycleHoldsLock ==
  ~env.lockMayLapse =>
    \A w \in Workers : inCycle[w] => lock

\* Without Paystack's refusal of a second transfer, nobody else can have sent
\* the money between a worker's verify_transfer and its initiate_transfer.
InitiateIsFresh ==
  ~env.referenceUnique =>
    \A w \in Workers : pc[w] = "initiate" => transfer[row[w]] = "unknown"

\* The answer a worker carries may be stale, but not in what it settles.
AnswersStayTrue ==
  \A w \in Workers : pc[w] = "apply" =>
    /\ transfer[row[w]] # "unknown"
    /\ seen[w] = "success" => transfer[row[w]] \in {"success", "reversed"}
    /\ seen[w] \in TransferFailures => transfer[row[w]] = seen[w]

\* Every copy of the payout account is the snapshot taken at approval.
CopiesOfSnapshot ==
  /\ \A r \in Requests :
       /\ recipient[r] # None => recipient[r] = payoutTo[r] /\ status[r] \in Claimed
       /\ sentTo[r] # None => status[r] \in Claimed
  /\ \A w \in Workers : code[w] # None => row[w] # None /\ code[w] = payoutTo[row[w]]

\* A worker about to send the SMS is the only one, and the first.
SmsIsStillDue ==
  /\ \A r \in Requests : told[r] > 0 => status[r] \in Settled
  /\ \A w \in Workers : pc[w] = "notify" => told[row[w]] = 0
  /\ \A v, w \in Workers :
       pc[v] = "notify" /\ pc[w] = "notify" /\ row[v] = row[w] => v = w

\* The inductive invariant: the safety properties and what carries them from
\* step to step.
IInv ==
  /\ TypeOK
  /\ LedgerFollowsStatus
  /\ OneRequestPerWindow
  /\ WorkersKnowTheirRow
  /\ PaystackKnowsClaimed
  /\ AcceptedIfKnown
  /\ CyclesDoNotOverlap
  /\ CycleHoldsLock
  /\ InitiateIsFresh
  /\ AnswersStayTrue
  /\ SettledAsPaystackSays
  /\ CopiesOfSnapshot
  /\ SentToSnapshot
  /\ SmsIsStillDue
  /\ ToldOnce
=============================================================================
