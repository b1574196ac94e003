---------------------------- MODULE StarterPacks ----------------------------
(***************************************************************************)
(* Starter packs, apps/distributors: a distributor chooses a pack and pays  *)
(* for it, which places him in the tree, gives him a rank, credits PV to    *)
(* everybody above him and pays his sponsor a referral bonus.  Within the   *)
(* cooling-off window he may cancel the membership, which takes all of that *)
(* back except the place; a refund on Paystack takes the bonus back.        *)
(*                                                                          *)
(* A worker is a web request or a Celery process that brings a payment      *)
(* reference.  One action is one transaction or one call to Paystack; the   *)
(* placement is a transaction of two actions, BeginPlacing and              *)
(* CommitPlacing, because it reads the tree under locks that do not cover   *)
(* what it reads.                                                           *)
(***************************************************************************)
EXTENDS BinaryTree

CONSTANTS
  Packs,        \* the packs on offer
  PackPv,       \* STARTER_PACK_A_PV, STARTER_PACK_B_PV
  PackBonus,    \* calculate_direct_referral_bonus of the pack's PV
  Buyers,       \* members who may choose a pack
  Cancellers,   \* members who may cancel within the window
  MaxRefs,      \* bound on payment references, numbered as they are issued
  Requests,     \* web requests: browsers and webhooks
  Tasks,        \* Celery processes
  PaymentSteps, \* pairs <<from, to>>: how a payment's state changes
  Spending,     \* sponsors who may empty their wallet
  Disputable,   \* references whose payer may dispute the payment
  MaxFaults     \* bound on failed calls, failed writes and crashes

Workers == Requests \cup Tasks
Refs == 1..MaxRefs
Nobody == 0

PaymentStates == {"unpaid", "paid", "mispaid", "reversed"}

ASSUME PackAssumption ==
  /\ None \notin Packs
  /\ PackPv \in [Packs -> Nat \ {0}]
  /\ PackBonus \in [Packs -> Nat]
ASSUME MemberAssumption == Buyers \subseteq Members /\ Cancellers \subseteq Members
ASSUME BoundAssumption == MaxRefs \in Nat /\ MaxFaults \in Nat

\* Money that arrived can only leave again, and then the payment is final.
ASSUME PaymentAssumption ==
  PaymentSteps \subseteq ({"unpaid"} \X {"paid", "mispaid"})
                           \cup ({"paid", "mispaid"} \X {"reversed"})

VARIABLES
  member,    \* Distributor: the choice, and what became of it
  checkout,  \* StarterPackCheckout per reference
  payment,   \* Paystack: the state of the payment
  issue,     \* PaymentIssue.kind of the reference
  ownPv,     \* MonthlyPersonalPv
  bonus,     \* WalletTransactions of a referral bonus: paid and taken back
  wallet,    \* Wallet.balance, of referral bonuses
  refund,    \* the pack whose price was refunded to the member, or None
  pc,        \* where each worker is
  job,       \* its local variables
  faults     \* faults so far

vars == <<treeVars, member, checkout, payment, issue, ownPv, bonus, wallet, refund,
          pc, job, faults>>

bookVars == <<ownPv, bonus, wallet, refund>>
workVars == <<pc, job>>

-----------------------------------------------------------------------------
\* "late": the cooling-off window of the confirmed pack is over.
MemberRows == [selected : 0..MaxRefs, pack : Packs \cup {None}, confirmed : BOOLEAN,
               late : BOOLEAN, cancelled : BOOLEAN]
NewMember == [selected |-> Nobody, pack |-> None, confirmed |-> FALSE,
              late |-> FALSE, cancelled |-> FALSE]

CheckoutRows == [by : Members \cup {None}, pack : Packs \cup {None},
                 used : BOOLEAN, handled : BOOLEAN]
NoCheckout == [by |-> None, pack |-> None, used |-> FALSE, handled |-> FALSE]

Kinds == {"none", "not_applied", "refund_received", "dispute_opened"}

Steps == {"idle", "consume", "placing", "record", "recheck", "flag"}

\* What a worker remembers: who called consume_paid_starter_pack, its reference,
\* the place it found, the problem it found.
Slots == (Members \X Legs) \cup {<<>>}
Jobs == [via : {"event", "first", "second"}, ref : 0..MaxRefs, slot : Slots, kind : Kinds]
JobFor(f, via, kind) == [via |-> via, ref |-> f, slot |-> <<>>, kind |-> kind]
NoJob == JobFor(Nobody, "event", "none")

TypeOK ==
  /\ TreeTypeOK
  /\ member \in [Members -> MemberRows]
  /\ checkout \in [Refs -> CheckoutRows]
  /\ payment \in [Refs -> PaymentStates]
  /\ issue \in [Refs -> Kinds]
  /\ ownPv \in [Members -> Nat]
  /\ bonus \in [Refs -> [paid : Nat, back : Nat]]
  /\ wallet \in [Members -> Nat]
  /\ refund \in [Members -> Packs \cup {None}]
  /\ pc \in [Workers -> Steps]
  /\ job \in [Workers -> Jobs]
  /\ faults \in 0..MaxFaults

Init ==
  /\ TreeInit
  /\ member = [d \in Members |-> NewMember]
  /\ checkout = [f \in Refs |-> NoCheckout]
  /\ payment = [f \in Refs |-> "unpaid"]
  /\ issue = [f \in Refs |-> "none"]
  /\ ownPv = [d \in Members |-> 0]
  /\ bonus = [f \in Refs |-> [paid |-> 0, back |-> 0]]
  /\ wallet = [d \in Members |-> 0]
  /\ refund = [d \in Members |-> None]
  /\ pc = [w \in Workers |-> "idle"]
  /\ job = [w \in Workers |-> NoJob]
  /\ faults = 0

Start(w, at, what) ==
  /\ pc[w] = "idle"
  /\ pc' = [pc EXCEPT ![w] = at]
  /\ job' = [job EXCEPT ![w] = what]

Done(w) ==
  /\ pc' = [pc EXCEPT ![w] = "idle"]
  /\ job' = [job EXCEPT ![w] = NoJob]


\* consume_paid_starter_pack is over: _apply_or_flag goes on.
Return(w) ==
  CASE job[w].via = "event" -> Done(w)
    [] job[w].via = "first" ->
         /\ pc' = [pc EXCEPT ![w] = "recheck"]
         /\ job' = [job EXCEPT ![w] = [job[w] EXCEPT !.slot = <<>>, !.kind = "none"]]
    [] job[w].via = "second" ->
         /\ pc' = [pc EXCEPT ![w] = "flag"]
         /\ job' = [job EXCEPT ![w] = [job[w] EXCEPT !.slot = <<>>, !.kind = "none"]]

Fault == faults < MaxFaults /\ faults' = faults + 1

-----------------------------------------------------------------------------
(* Checkouts and payments.                                                  *)

Buyer(f) == checkout[f].by
Issued(f) == Buyer(f) # None
Success(f) == payment[f] \in {"paid", "mispaid"}

\* snapshot_starter_pack_choice: the latest choice, and one more checkout.
Select(d, pack, f) ==
  /\ ~member[d].confirmed
  /\ ~member[d].cancelled
  /\ ~Issued(f)
  /\ \A g \in 1..(f - 1) : Issued(g)
  /\ member' = [member EXCEPT ![d] = [member[d] EXCEPT !.selected = f, !.pack = pack]]
  /\ checkout' = [checkout EXCEPT ![f] = [NoCheckout EXCEPT !.by = d, !.pack = pack]]
  /\ UNCHANGED <<treeVars, payment, issue, bookVars, workVars, faults>>

\* The payer and Paystack: every page once opened stays payable.
PaymentMoves(f) ==
  /\ Issued(f)
  /\ \E to \in PaymentStates :
       /\ <<payment[f], to>> \in PaymentSteps
       /\ payment' = [payment EXCEPT ![f] = to]
  /\ UNCHANGED <<treeVars, member, checkout, issue, bookVars, workVars, faults>>

\* The seven days are over.
WindowCloses(d) ==
  /\ member[d].confirmed
  /\ d \in Cancellers
  /\ ~member[d].late
  /\ member' = [member EXCEPT ![d].late = TRUE]
  /\ UNCHANGED <<treeVars, checkout, payment, issue, bookVars, workVars, faults>>

\* The sponsor's wallet is paid out.
Spend(s) ==
  /\ wallet[s] > 0
  /\ wallet' = [wallet EXCEPT ![s] = 0]
  /\ UNCHANGED <<treeVars, member, checkout, payment, issue, ownPv, bonus, refund,
                 workVars, faults>>

-----------------------------------------------------------------------------
(* Locks.  A placement keeps the rows of the new member and his sponsor     *)
(* locked until it commits.                                                 *)

Held(w) ==
  IF pc[w] = "placing"
    THEN {Buyer(job[w].ref), Sponsor[Buyer(job[w].ref)]} \ {None}
    ELSE {}

\* A row can be locked for update.
Lockable(d) == \A w \in Workers : d \notin Held(w)

\* The rows a placement refers to when it inserts its edges: InnoDB checks each
\* foreign key with a shared lock, which waits for whoever holds the row.
Referred(w) ==
  IF job[w].slot = <<>> THEN {}
  ELSE {job[w].slot[1]} \cup {e.ancestor : e \in above[job[w].slot[1]]}

\* Mutant of Waits: only the edge to the direct parent has a foreign key.
WaitsForParent(w, v) ==
  /\ w # v
  /\ pc[w] = "placing" /\ pc[v] = "placing" /\ job[w].slot # <<>>
  /\ job[w].slot[1] \in Held(v)

\* w has to wait for v.
Waits(w, v) ==
  /\ w # v
  /\ pc[w] = "placing" /\ pc[v] = "placing"
  /\ Referred(w) \cap Held(v) # {}

-----------------------------------------------------------------------------
(* consume_paid_starter_pack.                                               *)

\* Whoever brings a reference: the webhook, again and again, or the browser.
Bring(w, f) ==
  /\ Issued(f)
  /\ Start(w, "consume", JobFor(f, "event", "none"))
  /\ UNCHANGED <<treeVars, member, checkout, payment, issue, bookVars, faults>>

Waiting(f) == ~member[Buyer(f)].confirmed /\ ~member[Buyer(f)].cancelled

\* ALREADY_APPLIED, which is known without asking, or NOT_PAID.
FindNothing(w) ==
  LET f == job[w].ref
  IN  /\ pc[w] = "consume"
      /\ Lockable(Buyer(f))
      /\ \/ member[Buyer(f)].confirmed /\ checkout[f].used
         \/ ~Success(f)
      /\ Return(w)
      /\ UNCHANGED <<treeVars, member, checkout, payment, issue, bookVars, faults>>

\* A second payment, a payment after the cancellation, or not the price of this
\* checkout.
IsProblem(f) ==
  IF member[Buyer(f)].confirmed THEN ~checkout[f].used
  ELSE member[Buyer(f)].cancelled \/ payment[f] = "mispaid"

FindProblem(w) ==
  LET f == job[w].ref
  IN  /\ pc[w] = "consume"
      /\ Lockable(Buyer(f))
      /\ Success(f)
      /\ IsProblem(f)
      /\ pc' = [pc EXCEPT ![w] = "record"]
      /\ job' = [job EXCEPT ![w].kind = "not_applied"]
      /\ UNCHANGED <<treeVars, member, checkout, payment, issue, bookVars, faults>>

\* The root has no sponsor and no place.
SlotFor(d) ==
  IF Sponsor[d] = None THEN <<>> ELSE OpenSlot(Sponsor[d], WeakerLeg(Sponsor[d]))

\* BinaryTree.place_distributor up to the place it finds, with both rows locked.  The
\* search has to end at one, or the code raises an AssertionError; it always does
\* (SearchEnds, in PackInvariant).
BeginPlacing(w) ==
  LET f == job[w].ref
      d == Buyer(f)
  IN  /\ pc[w] = "consume"
      /\ Lockable(d) /\ (Sponsor[d] # None => Lockable(Sponsor[d]))
      /\ payment[f] = "paid"
      /\ Waiting(f)
      /\ Sponsor[d] # None => SlotFor(d) \in Members \X Legs
      /\ pc' = [pc EXCEPT ![w] = "placing"]
      /\ job' = [job EXCEPT ![w].slot = SlotFor(d)]
      /\ UNCHANGED <<treeVars, member, checkout, payment, issue, bookVars, faults>>

\* Mutant of PaidPack: the pack that the member selected last.
SelectedPack(f) == member[Buyer(f)].pack

\* The pack that this checkout was for.
PaidPack(f) == checkout[f].pack

\* Mutant of Credit: only the parent gets the PV.
CreditParent(rows, pv) ==
  legPv' = [a \in Members |-> [leg \in Legs |->
              legPv[a][leg] + IF \E e \in rows : e.ancestor = a /\ e.leg = leg /\ e.depth = 1
                                THEN pv ELSE 0]]

\* record_purchase_pv: the PV, added to the leg of everybody in rows.
Credit(rows, pv) ==
  legPv' = [a \in Members |-> [leg \in Legs |->
              legPv[a][leg] + IF \E e \in rows : e.ancestor = a /\ e.leg = leg
                                THEN pv ELSE 0]]

\* The rest of the transaction: the edges, the PV of everybody above, his own PV,
\* the sponsor's bonus, the rank, and the pack that was paid for written back.
CommitPlacing(w) ==
  LET f    == job[w].ref
      d    == Buyer(f)
      s    == Sponsor[d]
      pack == PaidPack(f)
      rows == IF s = None THEN {} ELSE Attached(job[w].slot[1], job[w].slot[2])
  IN  /\ pc[w] = "placing"
      /\ \A v \in Workers : ~Waits(w, v)
      /\ above' = [above EXCEPT ![d] = rows]
      /\ placed' = IF s = None THEN placed ELSE Append(placed, d)
      /\ Credit(rows, PackPv[pack])
      /\ ownPv' = [ownPv EXCEPT ![d] = @ + PackPv[pack]]
      /\ IF s = None THEN UNCHANGED <<bonus, wallet>>
         ELSE /\ bonus' = [bonus EXCEPT ![f].paid = PackBonus[pack]]
              /\ wallet' = [wallet EXCEPT ![s] = @ + PackBonus[pack]]
      /\ member' = [member EXCEPT ![d] = [member[d] EXCEPT !.confirmed = TRUE, !.pack = pack]]
      /\ checkout' = [checkout EXCEPT ![f].used = TRUE]
      /\ Return(w)
      /\ UNCHANGED <<payment, issue, refund, faults>>

\* Two placements wait for each other: InnoDB rolls one of them back, and
\* retry_on_lock_contention runs it again from the start.
RollBack(w) ==
  /\ \E v \in Workers : Waits(w, v) /\ Waits(v, w)
  /\ pc' = [pc EXCEPT ![w] = "consume"]
  /\ job' = [job EXCEPT ![w].slot = <<>>]
  /\ UNCHANGED <<treeVars, member, checkout, payment, issue, bookVars, faults>>

\* Mutant of Record: the row is written in a transaction that is rolled back.
RecordLost(w) ==
  /\ pc[w] = "record"
  /\ Return(w)
  /\ UNCHANGED <<treeVars, member, checkout, payment, issue, bookVars, faults>>

\* record_payment_issue, after the lock is gone.
Record(w) ==
  /\ pc[w] = "record"
  /\ issue' = [issue EXCEPT ![job[w].ref] = job[w].kind]
  /\ Return(w)
  /\ UNCHANGED <<treeVars, member, checkout, payment, bookVars, faults>>

\* VERIFY_FAILED: Paystack does not answer, or the issue cannot be written.
ConsumeFails(w) ==
  /\ pc[w] \in {"consume", "record"}
  /\ Fault
  /\ Return(w)
  /\ UNCHANGED <<treeVars, member, checkout, payment, issue, bookVars>>

-----------------------------------------------------------------------------
(* The daily reconciliation: _reconcile_one and _apply_or_flag.             *)

\* The reference must be the one that the member selected last.
IsApplied(f) ==
  /\ member[Buyer(f)].selected = f
  /\ member[Buyer(f)].confirmed \/ member[Buyer(f)].cancelled

Reconcile(w, f) ==
  /\ Issued(f)
  /\ Success(f)
  /\ issue[f] = "none"
  /\ ~IsApplied(f)
  /\ Start(w, "consume", JobFor(f, "first", "none"))
  /\ UNCHANGED <<treeVars, member, checkout, payment, issue, bookVars, faults>>

\* After the first attempt: is it applied, is it still a success?
Recheck(w) ==
  LET f == job[w].ref
  IN  /\ pc[w] = "recheck"
      /\ IF IsApplied(f) \/ ~Success(f) THEN Done(w)
         ELSE /\ pc' = [pc EXCEPT ![w] = "consume"]
              /\ job' = [job EXCEPT ![w].via = "second"]
      /\ UNCHANGED <<treeVars, member, checkout, payment, issue, bookVars, faults>>

\* After the second attempt.
Flag(w) ==
  LET f == job[w].ref
  IN  /\ pc[w] = "flag"
      /\ IF IsApplied(f) THEN Done(w)
         ELSE /\ pc' = [pc EXCEPT ![w] = "record"]
              /\ job' = [job EXCEPT ![w] = [job[w] EXCEPT !.via = "event", !.kind = "not_applied"]]
      /\ UNCHANGED <<treeVars, member, checkout, payment, issue, bookVars, faults>>

-----------------------------------------------------------------------------
(* Cooling-off, refunds, disputes.                                          *)

Smaller(a, b) == IF a <= b THEN a ELSE b

\* What _reverse_direct_referral_bonus can still take back for the payment.
Recoverable(f) ==
  IF checkout[f].handled THEN 0
  ELSE Smaller(wallet[Sponsor[Buyer(f)]], bonus[f].paid)

\* A bonus was paid for it, so this is the time it is dealt with.
TakeBonusBack(f) ==
  LET s == Sponsor[Buyer(f)]
  IN  /\ wallet' = [wallet EXCEPT ![s] = @ - Recoverable(f)]
      /\ bonus' = [bonus EXCEPT ![f].back = @ + Recoverable(f)]
      /\ checkout' = [checkout EXCEPT ![f].handled = @ \/ bonus[f].paid > 0]

Less(pv, amount) == IF pv >= amount THEN pv - amount ELSE pv

\* The checkout whose payment was applied.
CreditedRef(d) == CHOOSE f \in Refs : Buyer(f) = d /\ checkout[f].used

\* cancel_membership_and_refund, within the window, with the rows of the member
\* and of everybody above him locked.
Cancel(d) ==
  LET f    == CreditedRef(d)
      pack == member[d].pack
  IN  /\ member[d].confirmed
      /\ ~member[d].late
      /\ \A a \in {d} \cup {e.ancestor : e \in above[d]} : Lockable(a)
      /\ legPv' = [a \in Members |-> [leg \in Legs |->
                     IF \E e \in above[d] : e.ancestor = a /\ e.leg = leg
                       THEN Less(legPv[a][leg], PackPv[pack]) ELSE legPv[a][leg]]]
      /\ ownPv' = [ownPv EXCEPT ![d] = Less(@, PackPv[pack])]
      /\ IF Sponsor[d] = None THEN UNCHANGED <<wallet, bonus, checkout>>
         ELSE TakeBonusBack(f)
      /\ refund' = [refund EXCEPT ![d] = pack]
      /\ member' = [member EXCEPT ![d] =
                     [member[d] EXCEPT !.confirmed = FALSE, !.cancelled = TRUE, !.pack = None]]
      /\ UNCHANGED <<above, placed, payment, issue, workVars, faults>>

\* handle_external_refund of a starter pack, once the money has gone back: the
\* bonus is taken back, the membership is left alone.
HearOfRefund(w, f) ==
  /\ payment[f] = "reversed"
  /\ Start(w, "record", JobFor(f, "event", "refund_received"))
  /\ IF Sponsor[Buyer(f)] = None THEN UNCHANGED <<wallet, bonus, checkout>>
     ELSE TakeBonusBack(f)
  /\ UNCHANGED <<treeVars, member, payment, issue, ownPv, refund, faults>>

\* The same when the bonus cannot be taken back: the admin is told all the same.
HearOfRefundOnly(w, f) ==
  /\ payment[f] = "reversed"
  /\ Fault
  /\ Start(w, "record", JobFor(f, "event", "refund_received"))
  /\ UNCHANGED <<treeVars, member, checkout, payment, issue, bookVars>>

\* handle_payment_dispute changes nothing but the record.
HearOfDispute(w, f) ==
  /\ payment[f] # "unpaid"
  /\ Start(w, "record", JobFor(f, "event", "dispute_opened"))
  /\ UNCHANGED <<treeVars, member, checkout, payment, issue, bookVars, faults>>

\* A worker dies; a transaction that was under way is rolled back.
Crash(w) ==
  /\ pc[w] # "idle"
  /\ Fault
  /\ Done(w)
  /\ UNCHANGED <<treeVars, member, checkout, payment, issue, bookVars>>

-----------------------------------------------------------------------------
Request(w) ==
  \E f \in Refs :
    \/ Bring(w, f)
    \/ HearOfRefund(w, f) \/ HearOfRefundOnly(w, f)
    \/ f \in Disputable /\ HearOfDispute(w, f)

Proceed(w) ==
  \/ FindNothing(w) \/ FindProblem(w) \/ BeginPlacing(w) \/ CommitPlacing(w)
  \/ RollBack(w) \/ Record(w) \/ Recheck(w) \/ Flag(w)

Fails(w) == ConsumeFails(w) \/ Crash(w)

World ==
  \/ \E d \in Buyers, pack \in Packs, f \in Refs : Select(d, pack, f)
  \/ \E f \in Refs : PaymentMoves(f)
  \/ \E d \in Cancellers : WindowCloses(d) \/ Cancel(d)
  \/ \E s \in Spending : Spend(s)

Next ==
  \/ \E w \in Requests : Request(w)
  \/ \E w \in Tasks, f \in Refs : Reconcile(w, f)
  \/ \E w \in Workers : Proceed(w) \/ Fails(w)
  \/ World

Spec == Init /\ [][Next]_vars

\* A worker that is at work goes on, and the daily reconciliation comes to every
\* payment it lists, though a worker may not be free the first time.
Fairness ==
  /\ \A w \in Workers : WF_vars(Proceed(w))
  /\ \A f \in Refs : SF_vars(\E w \in Tasks : Reconcile(w, f))

FairSpec == Spec /\ Fairness
=============================================================================
