------------------------ MODULE StarterPacks_proofs ------------------------
(***************************************************************************)
(* Proofs that PackInv and PackTreeInv are inductive, for every number of   *)
(* members, packs, payments and workers: the books agree, one failed call   *)
(* raises no alert, the placements leave a sound tree behind, and the       *)
(* search for a place always ends.                                          *)
(***************************************************************************)
EXTENDS PackInvariant, Induction_proofs

\* The steps by which a worker only gets on with its own work.
OnlyWork(w) ==
  /\ UNCHANGED <<treeVars, member, checkout, payment, bookVars>>
  /\ \/ \E f \in Refs : Bring(w, f) \/ HearOfRefundOnly(w, f) \/ HearOfDispute(w, f)
                        \/ Reconcile(w, f)
     \/ FindNothing(w) \/ FindProblem(w) \/ BeginPlacing(w) \/ RollBack(w)
     \/ Record(w) \/ Recheck(w) \/ Flag(w) \/ Fails(w)

LEMMA StepCases ==
  ASSUME [Next]_vars
  PROVE  \/ \E w \in Workers : OnlyWork(w)
         \/ \E w \in Workers : CommitPlacing(w)
         \/ \E w \in Workers, f \in Refs : HearOfRefund(w, f)
         \/ \E d \in Buyers, pack \in Packs, f \in Refs : Select(d, pack, f)
         \/ \E f \in Refs : PaymentMoves(f)
         \/ \E d \in Cancellers : WindowCloses(d) \/ Cancel(d)
         \/ \E s \in Spending : Spend(s)
         \/ UNCHANGED vars
<1>1. ASSUME NEW w \in Requests, Request(w)
      PROVE  OnlyWork(w) \/ \E f \in Refs : HearOfRefund(w, f)
  BY <1>1 DEF Request, OnlyWork, Bring, HearOfRefundOnly, HearOfDispute
<1>2. ASSUME NEW w \in Tasks, NEW f \in Refs, Reconcile(w, f)
      PROVE  OnlyWork(w)
  BY <1>2 DEF OnlyWork, Reconcile
<1>3. ASSUME NEW w \in Workers, Proceed(w)
      PROVE  OnlyWork(w) \/ CommitPlacing(w)
  BY <1>3 DEF Proceed, OnlyWork, FindNothing, FindProblem, BeginPlacing, RollBack,
     Record, Recheck, Flag
<1>4. ASSUME NEW w \in Workers, Fails(w)
      PROVE  OnlyWork(w)
  BY <1>4 DEF OnlyWork, Fails, ConsumeFails, Crash
<1> QED
  BY <1>1, <1>2, <1>3, <1>4 DEF Next, World, Workers

-----------------------------------------------------------------------------
(* Types.                                                                   *)

\* Where a worker may be and what it may have in hand.
WorkTypeOK == pc \in [Workers -> Steps] /\ job \in [Workers -> Jobs]

DataTypeOK ==
  /\ TreeTypeOK
  /\ member \in [Members -> MemberRows]
  /\ checkout \in [Refs -> CheckoutRows]
  /\ payment \in [Refs -> PaymentStates]
  /\ ownPv \in [Members -> Nat]
  /\ bonus \in [Refs -> [paid : Nat, back : Nat]]
  /\ wallet \in [Members -> Nat]
  /\ refund \in [Members -> Packs \cup {None}]

LEMMA TypeParts ==
  TypeOK <=> DataTypeOK /\ WorkTypeOK /\ issue \in [Refs -> Kinds] /\ faults \in 0..MaxFaults
BY DEF TypeOK, DataTypeOK, WorkTypeOK

LEMMA DoneTypes ==
  ASSUME WorkTypeOK, NEW w \in Workers, Done(w)
  PROVE  WorkTypeOK' /\ pc'[w] = "idle" /\ job'[w] = NoJob
         /\ \A v \in Workers \ {w} : pc'[v] = pc[v] /\ job'[v] = job[v]
<1>1. NoJob \in Jobs
  BY BoundAssumption DEF NoJob, JobFor, Jobs, Slots, Kinds, Nobody
<1> QED
  BY <1>1 DEF Done, WorkTypeOK, Steps

\* consume_paid_starter_pack returns to its caller.
LEMMA ReturnTypes ==
  ASSUME WorkTypeOK, NEW w \in Workers, Return(w)
  PROVE  /\ WorkTypeOK'
         /\ \A v \in Workers \ {w} : pc'[v] = pc[v] /\ job'[v] = job[v]
         /\ \/ job[w].via = "event" /\ pc'[w] = "idle" /\ job'[w] = NoJob
            \/ /\ job[w].via = "first" /\ pc'[w] = "recheck"
               /\ job'[w].via = "first" /\ job'[w].ref = job[w].ref /\ job'[w].kind = "none"
            \/ /\ job[w].via = "second" /\ pc'[w] = "flag"
               /\ job'[w].via = "second" /\ job'[w].ref = job[w].ref /\ job'[w].kind = "none"
<1>1. job[w] \in Jobs /\ job[w].via \in {"event", "first", "second"}
  BY DEF WorkTypeOK, Jobs
<1>2. CASE job[w].via = "event"
  BY <1>2, DoneTypes DEF Return
<1>3. ASSUME NEW at \in {"recheck", "flag"}, pc' = [pc EXCEPT ![w] = at],
             job' = [job EXCEPT ![w] = [job[w] EXCEPT !.slot = <<>>, !.kind = "none"]]
      PROVE  /\ WorkTypeOK' /\ pc'[w] = at
             /\ \A v \in Workers \ {w} : pc'[v] = pc[v] /\ job'[v] = job[v]
             /\ job'[w].via = job[w].via /\ job'[w].ref = job[w].ref /\ job'[w].kind = "none"
  <2> DEFINE j == [job[w] EXCEPT !.slot = <<>>, !.kind = "none"]
  <2>1. j \in Jobs /\ j.via = job[w].via /\ j.ref = job[w].ref /\ j.kind = "none"
    BY <1>1 DEF Jobs, Slots, Kinds
  <2> HIDE DEF j
  <2> QED
    BY <1>3, <2>1 DEF WorkTypeOK, Steps, j
<1>4. CASE job[w].via = "first"
  BY <1>3, <1>4 DEF Return
<1>5. CASE job[w].via = "second"
  BY <1>3, <1>5 DEF Return
<1> QED
  BY <1>1, <1>2, <1>4, <1>5

\* A worker starts with a job of its own.
LEMMA StartTypes ==
  ASSUME WorkTypeOK, NEW w \in Workers, NEW at \in Steps, NEW f \in Refs,
         NEW via \in {"event", "first"}, NEW kind \in Kinds,
         Start(w, at, JobFor(f, via, kind))
  PROVE  /\ WorkTypeOK'
         /\ \A v \in Workers \ {w} : pc'[v] = pc[v] /\ job'[v] = job[v]
         /\ pc[w] = "idle" /\ pc'[w] = at
         /\ job'[w].ref = f /\ job'[w].via = via /\ job'[w].kind = kind
<1> PICK j : j = JobFor(f, via, kind)
  OBVIOUS
<1>1. j \in Jobs /\ j.ref = f /\ j.via = via /\ j.kind = kind
  BY BoundAssumption DEF JobFor, Jobs, Slots, Refs
<1> QED
  BY <1>1 DEF Start, WorkTypeOK

\* The four ways in which a worker starts.
LEMMA StartCases ==
  ASSUME WorkTypeOK, NEW w \in Workers, NEW f \in Refs,
         \/ Bring(w, f) \/ HearOfRefund(w, f) \/ HearOfRefundOnly(w, f)
         \/ HearOfDispute(w, f) \/ Reconcile(w, f)
  PROVE  /\ WorkTypeOK'
         /\ \A v \in Workers \ {w} : pc'[v] = pc[v] /\ job'[v] = job[v]
         /\ pc[w] = "idle" /\ pc'[w] \in {"consume", "record"} /\ job'[w].ref = f
         /\ \/ Bring(w, f) /\ pc'[w] = "consume" /\ job'[w].via = "event"
            \/ Reconcile(w, f) /\ pc'[w] = "consume" /\ job'[w].via = "first"
            \/ /\ payment[f] # "unpaid" /\ pc'[w] = "record" /\ job'[w].via = "event"
               /\ job'[w].kind # "not_applied"
<1>2. CASE Bring(w, f)
  BY <1>2, StartTypes DEF Bring, Steps, Kinds
<1>3. CASE Reconcile(w, f)
  BY <1>3, StartTypes DEF Reconcile, Steps, Kinds
<1>4. ASSUME NEW kind \in {"refund_received", "dispute_opened"}, payment[f] # "unpaid",
             Start(w, "record", JobFor(f, "event", kind))
      PROVE  /\ WorkTypeOK'
             /\ \A v \in Workers \ {w} : pc'[v] = pc[v] /\ job'[v] = job[v]
             /\ pc[w] = "idle" /\ pc'[w] = "record" /\ job'[w].ref = f
             /\ job'[w].via = "event" /\ job'[w].kind # "not_applied"
  BY <1>4, StartTypes DEF Steps, Kinds
<1>5. CASE HearOfRefund(w, f) \/ HearOfRefundOnly(w, f)
  BY <1>4, <1>5 DEF HearOfRefund, HearOfRefundOnly
<1>6. CASE HearOfDispute(w, f)
  BY <1>4, <1>6 DEF HearOfDispute
<1> QED
  BY <1>2, <1>3, <1>5, <1>6

\* A worker touches neither another one's place nor its job.
LEMMA WorkTypes ==
  ASSUME WorkTypeOK, NEW w \in Workers,
         OnlyWork(w) \/ CommitPlacing(w) \/ \E f \in Refs : HearOfRefund(w, f)
  PROVE  WorkTypeOK' /\ \A v \in Workers \ {w} : pc'[v] = pc[v] /\ job'[v] = job[v]
<1>1. job[w] \in Jobs /\ pc[w] \in Steps
  BY DEF WorkTypeOK
<1>2. ASSUME NEW f \in Refs,
             \/ Bring(w, f) \/ HearOfRefund(w, f) \/ HearOfRefundOnly(w, f)
             \/ HearOfDispute(w, f) \/ Reconcile(w, f)
      PROVE  WorkTypeOK' /\ \A v \in Workers \ {w} : pc'[v] = pc[v] /\ job'[v] = job[v]
  BY <1>2, StartCases
<1>3. CASE FindNothing(w) \/ Record(w) \/ ConsumeFails(w) \/ CommitPlacing(w)
  <2>1. Return(w)
    BY <1>3 DEF FindNothing, Record, ConsumeFails, CommitPlacing
  <2> QED
    BY <2>1, ReturnTypes
<1>4. ASSUME NEW at \in Steps, NEW j \in Jobs, pc' = [pc EXCEPT ![w] = at],
             job' = [job EXCEPT ![w] = j]
      PROVE  WorkTypeOK' /\ \A v \in Workers \ {w} : pc'[v] = pc[v] /\ job'[v] = job[v]
  BY <1>4 DEF WorkTypeOK
<1>5. CASE FindProblem(w)
  <2>1. [job[w] EXCEPT !.kind = "not_applied"] \in Jobs
    BY <1>1 DEF Jobs, Kinds
  <2>2. job' = [job EXCEPT ![w] = [job[w] EXCEPT !.kind = "not_applied"]]
    BY <1>5 DEF FindProblem
  <2>3. pc' = [pc EXCEPT ![w] = "record"] /\ "record" \in Steps
    BY <1>5 DEF FindProblem, Steps
  <2> QED
    BY <1>4, <2>1, <2>2, <2>3
<1>6. CASE BeginPlacing(w)
  <2> DEFINE slot == SlotFor(Buyer(job[w].ref))
  <2>1. slot \in Slots
    BY <1>6 DEF BeginPlacing, SlotFor, Slots
  <2>2. job' = [job EXCEPT ![w] = [job[w] EXCEPT !.slot = slot]]
    BY <1>6 DEF BeginPlacing
  <2>3. pc' = [pc EXCEPT ![w] = "placing"] /\ "placing" \in Steps
    BY <1>6 DEF BeginPlacing, Steps
  <2> HIDE DEF slot
  <2>4. [job[w] EXCEPT !.slot = slot] \in Jobs
    BY <1>1, <2>1 DEF Jobs
  <2> QED
    BY <1>4, <2>2, <2>3, <2>4
<1>7. CASE RollBack(w)
  <2>1. [job[w] EXCEPT !.slot = <<>>] \in Jobs
    BY <1>1 DEF Jobs, Slots
  <2>2. job' = [job EXCEPT ![w] = [job[w] EXCEPT !.slot = <<>>]]
    BY <1>7 DEF RollBack
  <2>3. pc' = [pc EXCEPT ![w] = "consume"] /\ "consume" \in Steps
    BY <1>7 DEF RollBack, Steps
  <2> QED
    BY <1>4, <2>1, <2>2, <2>3
<1>8. CASE Recheck(w)
  <2>1. [job[w] EXCEPT !.via = "second"] \in Jobs
    BY <1>1 DEF Jobs
  <2>2. \/ Done(w)
        \/ job' = [job EXCEPT ![w] = [job[w] EXCEPT !.via = "second"]]
           /\ pc' = [pc EXCEPT ![w] = "consume"] /\ "consume" \in Steps
    BY <1>8 DEF Recheck, Steps
  <2> QED
    BY <1>4, <2>1, <2>2, DoneTypes
<1>9. CASE Flag(w)
  <2> DEFINE j == [job[w] EXCEPT !.via = "event", !.kind = "not_applied"]
  <2>1. j \in Jobs
    BY <1>1 DEF Jobs, Kinds
  <2>2. \/ Done(w)
        \/ job' = [job EXCEPT ![w] = j]
           /\ pc' = [pc EXCEPT ![w] = "record"] /\ "record" \in Steps
    BY <1>9 DEF Flag, Steps
  <2> HIDE DEF j
  <2> QED
    BY <1>4, <2>1, <2>2, DoneTypes
<1>10. CASE Crash(w)
  BY <1>10, DoneTypes DEF Crash
<1> QED
  BY <1>2, <1>3, <1>5, <1>6, <1>7, <1>8, <1>9, <1>10 DEF OnlyWork, Fails

LEMMA TypeInit == Init => TypeOK
<1> SUFFICES ASSUME Init PROVE TypeOK
  OBVIOUS
<1>1. NoJob \in Jobs
  BY BoundAssumption DEF NoJob, JobFor, Jobs, Slots, Kinds, Nobody
<1>2. WorkTypeOK
  BY <1>1 DEF Init, WorkTypeOK, Steps
<1>3. NewMember \in MemberRows /\ NoCheckout \in CheckoutRows
  BY BoundAssumption DEF NewMember, MemberRows, NoCheckout, CheckoutRows, Nobody
<1>4. TreeTypeOK
  BY DEF Init, TreeInit, TreeTypeOK
<1>5. DataTypeOK
  BY <1>3, <1>4 DEF Init, DataTypeOK, PaymentStates
<1>6. issue \in [Refs -> Kinds] /\ faults \in 0..MaxFaults
  BY BoundAssumption DEF Init, Kinds
<1> QED
  BY <1>2, <1>5, <1>6, TypeParts

\* Issues and faults.
LEMMA NewsTypes ==
  ASSUME TypeOK, [Next]_vars
  PROVE  issue' \in [Refs -> Kinds] /\ faults' \in 0..MaxFaults
<1>1. issue \in [Refs -> Kinds] /\ faults \in 0..MaxFaults /\ \A w \in Workers : job[w].kind \in Kinds
  BY DEF TypeOK, Jobs
<1>2. ASSUME NEW w \in Workers, OnlyWork(w)
      PROVE  issue' \in [Refs -> Kinds] /\ faults' \in 0..MaxFaults
  BY <1>1, <1>2, BoundAssumption DEF OnlyWork, Bring, HearOfRefundOnly, HearOfDispute,
     Reconcile, FindNothing, FindProblem, BeginPlacing, RollBack, Record, Recheck, Flag,
     Fails, ConsumeFails, Crash, Fault
<1>3. ASSUME \/ \E w \in Workers : CommitPlacing(w)
             \/ \E w \in Workers, f \in Refs : HearOfRefund(w, f)
             \/ \E d \in Buyers, pack \in Packs, f \in Refs : Select(d, pack, f)
             \/ \E f \in Refs : PaymentMoves(f)
             \/ \E d \in Cancellers : WindowCloses(d) \/ Cancel(d)
             \/ \E s \in Spending : Spend(s)
             \/ UNCHANGED vars
      PROVE  issue' \in [Refs -> Kinds] /\ faults' \in 0..MaxFaults
  BY <1>1, <1>3 DEF CommitPlacing, HearOfRefund, Select, PaymentMoves, WindowCloses,
     Cancel, Spend, vars
<1> QED
  BY <1>2, <1>3, StepCases

-----------------------------------------------------------------------------
(* What the larger steps do, field by field.                                *)

\* The payments applied for a member.
Applied(d) == {f \in Refs : Buyer(f) = d /\ checkout[f].used}

LEMMA AttachedAreRows ==
  ASSUME TreeTypeOK, NEW a \in Members, NEW leg \in Legs
  PROVE  Attached(a, leg) \in SUBSET Rows
<1>1. [ancestor |-> a, leg |-> leg, depth |-> 1] \in Rows
  BY DEF Rows
<1>2. ASSUME NEW e \in above[a] PROVE [e EXCEPT !.depth = @ + 1] \in Rows
  <2>1. e \in Rows
    BY DEF TreeTypeOK
  <2> QED
    BY <2>1 DEF Rows
<1> QED
  BY <1>1, <1>2 DEF Attached

\* The rows that CommitPlacing inserts for the new member.
NewRows(w) ==
  IF Sponsor[Buyer(job[w].ref)] = None THEN {}
  ELSE Attached(job[w].slot[1], job[w].slot[2])

\* The placement of d, who paid for the pack with f, by w.
CommitStep(w, f, d, pack) ==
  /\ f = job[w].ref /\ d = Buyer(f) /\ pack = PaidPack(f)
  /\ pc[w] = "placing" /\ Waiting(f) /\ payment[f] \in {"paid", "reversed"}
  /\ PackPv[pack] \in Nat /\ PackBonus[pack] \in Nat
  /\ NewRows(w) \in SUBSET Rows /\ above[d] = {} /\ Applied(d) = {}
  /\ placed' \in Seq(Members)
  /\ above' = [above EXCEPT ![d] = NewRows(w)]
  /\ Credit(NewRows(w), PackPv[pack])
  /\ ownPv' = [ownPv EXCEPT ![d] = ownPv[d] + PackPv[pack]]
  /\ \/ Sponsor[d] = None /\ bonus' = bonus /\ wallet' = wallet
     \/ /\ Sponsor[d] \in Members
        /\ bonus' = [bonus EXCEPT ![f] = [bonus[f] EXCEPT !.paid = PackBonus[pack]]]
        /\ wallet' = [wallet EXCEPT ![Sponsor[d]] = wallet[Sponsor[d]] + PackBonus[pack]]
  /\ member' = [member EXCEPT ![d] = [member[d] EXCEPT !.confirmed = TRUE, !.pack = pack]]
  /\ checkout' = [checkout EXCEPT ![f] = [checkout[f] EXCEPT !.used = TRUE]]
  /\ UNCHANGED <<payment, issue, refund, faults>>

LEMMA CommitEffects ==
  ASSUME PackInv, NEW w \in Workers, CommitPlacing(w)
  PROVE  \E f \in Refs, d \in Members, pack \in Packs : CommitStep(w, f, d, pack)
<1> PICK f, d : f = job[w].ref /\ d = Buyer(f)
  OBVIOUS
<1>1. pc[w] = "placing" /\ f \in Refs /\ Issued(f)
  BY DEF CommitPlacing, PackInv, WorkersKnow
<1>2. d \in Members /\ PaidPack(f) \in Packs
  BY <1>1 DEF PackInv, PackBooksAgree, TypeOK, CheckoutRows, CheckoutsAreIssued, Issued,
     Buyer, PaidPack
<1>3. Waiting(f) /\ payment[f] \in {"paid", "reversed"}
      /\ (Sponsor[d] # None => job[w].slot \in Members \X Legs)
  BY <1>1 DEF PackInv, PlacingIsAlone
<1>4. PackPv[PaidPack(f)] \in Nat /\ PackBonus[PaidPack(f)] \in Nat
  BY <1>2, PackAssumption
<1>5. NewRows(w) \in SUBSET Rows
  BY <1>3, AttachedAreRows DEF NewRows, PackInv, PackBooksAgree, TypeOK
<1>6. above[d] = {} /\ Applied(d) = {}
  BY <1>2, <1>3 DEF PackInv, PackBooksAgree, RowsFollowPacks, Settled, Waiting, OneApplied,
     Applied
<1>7. placed' \in Seq(Members)
  BY <1>2 DEF CommitPlacing, PackInv, PackBooksAgree, TypeOK, TreeTypeOK
<1>8. Sponsor[d] = None \/ Sponsor[d] \in Members
  BY <1>2, SponsorAssumption
<1>9. CommitStep(w, f, d, PaidPack(f))
  BY <1>1, <1>2, <1>3, <1>4, <1>5, <1>6, <1>7, <1>8 DEF CommitPlacing, NewRows, CommitStep,
     PackInv, PackBooksAgree, TypeOK
<1> QED
  BY <1>1, <1>2, <1>9

\* What is taken back is there to be taken.
LEMMA RecoverableFits ==
  ASSUME TypeOK, NEW f \in Refs, Buyer(f) \in Members, Sponsor[Buyer(f)] # None
  PROVE  /\ Recoverable(f) \in Nat /\ Recoverable(f) <= bonus[f].paid
         /\ Recoverable(f) <= wallet[Sponsor[Buyer(f)]]
         /\ Sponsor[Buyer(f)] \in Members
         /\ checkout[f].handled => Recoverable(f) = 0
<1>1. Sponsor[Buyer(f)] \in Members
  BY SponsorAssumption
<1>2. wallet[Sponsor[Buyer(f)]] \in Nat /\ bonus[f].paid \in Nat
  BY <1>1 DEF TypeOK
<1> QED
  BY <1>1, <1>2 DEF Recoverable, Smaller

\* Either nothing is taken back, or what Recoverable allows.
BonusStepped(f) ==
  \/ UNCHANGED <<wallet, bonus, checkout>>
  \/ /\ Sponsor[Buyer(f)] # None
     /\ TakeBonusBack(f)

LEMMA BonusTypes ==
  ASSUME TypeOK, NEW f \in Refs, Buyer(f) \in Members, BonusStepped(f)
  PROVE  /\ checkout' \in [Refs -> CheckoutRows] /\ wallet' \in [Members -> Nat]
         /\ bonus' \in [Refs -> [paid : Nat, back : Nat]]
         /\ \A g \in Refs : /\ checkout'[g].by = checkout[g].by
                            /\ checkout'[g].pack = checkout[g].pack
                            /\ checkout'[g].used = checkout[g].used
                            /\ checkout[g].handled => checkout'[g].handled
                            /\ g # f => bonus'[g] = bonus[g] /\ checkout'[g] = checkout[g]
                            /\ bonus'[g].paid = bonus[g].paid
                            /\ bonus'[g].back = bonus[g].back
                               \/ /\ g = f /\ ~checkout[f].handled
                                  /\ bonus'[f].back = bonus[f].back + Recoverable(f)
                                  /\ Recoverable(f) \in Nat /\ Recoverable(f) <= bonus[f].paid
                                  /\ bonus[f].paid > 0 => checkout'[f].handled
<1>1. CASE UNCHANGED <<wallet, bonus, checkout>>
  BY <1>1 DEF TypeOK
<1>2. CASE Sponsor[Buyer(f)] # None /\ TakeBonusBack(f)
  <2> DEFINE s == Sponsor[Buyer(f)]
             r == Recoverable(f)
  <2>1. r \in Nat /\ r <= bonus[f].paid /\ r <= wallet[s] /\ s \in Members
        /\ (checkout[f].handled => r = 0)
    BY <1>2, RecoverableFits
  <2>2. bonus[f] \in [paid : Nat, back : Nat] /\ wallet[s] \in Nat
        /\ checkout[f] \in CheckoutRows
    BY <2>1 DEF TypeOK
  <2>3. /\ wallet' = [wallet EXCEPT ![s] = wallet[s] - r]
        /\ bonus' = [bonus EXCEPT ![f] = [bonus[f] EXCEPT !.back = bonus[f].back + r]]
        /\ checkout' = [checkout EXCEPT ![f] =
             [checkout[f] EXCEPT !.handled = checkout[f].handled \/ bonus[f].paid > 0]]
    BY <1>2 DEF TakeBonusBack, TypeOK
  <2> HIDE DEF s, r
  <2>4. wallet[s] - r \in Nat /\ bonus[f].back + r \in Nat
    BY <2>1, <2>2
  <2>5. wallet' \in [Members -> Nat] /\ bonus' \in [Refs -> [paid : Nat, back : Nat]]
    BY <2>2, <2>3, <2>4 DEF TypeOK
  <2>6. checkout' \in [Refs -> CheckoutRows]
    BY <2>2, <2>3 DEF TypeOK, CheckoutRows
  <2>7. ASSUME NEW g \in Refs
        PROVE  /\ checkout'[g].by = checkout[g].by
               /\ checkout'[g].pack = checkout[g].pack
               /\ checkout'[g].used = checkout[g].used
               /\ checkout[g].handled => checkout'[g].handled
               /\ g # f => bonus'[g] = bonus[g] /\ checkout'[g] = checkout[g]
    BY <2>2, <2>3 DEF TypeOK, CheckoutRows
  <2>8. bonus'[f].paid = bonus[f].paid /\ bonus'[f].back = bonus[f].back + r
        /\ checkout'[f].handled = (checkout[f].handled \/ bonus[f].paid > 0)
    BY <2>2, <2>3 DEF TypeOK, CheckoutRows
  <2>9. checkout[f].handled => bonus'[f].back = bonus[f].back
    BY <2>1, <2>2, <2>8
  <2>10. ASSUME NEW g \in Refs
         PROVE  /\ bonus'[g].paid = bonus[g].paid
                /\ bonus'[g].back = bonus[g].back
                   \/ /\ g = f /\ ~checkout[f].handled
                      /\ bonus'[f].back = bonus[f].back + r
                      /\ bonus[f].paid > 0 => checkout'[f].handled
    BY <2>7, <2>8, <2>9
  <2> QED
    BY <2>1, <2>5, <2>6, <2>7, <2>10 DEF r
<1> QED
  BY <1>1, <1>2 DEF BonusStepped

\* The cancellation of d, for whom f was applied.
CancelStep(d, f, pack) ==
  /\ f = CreditedRef(d) /\ f \in Applied(d) /\ Buyer(f) = d
  /\ pack = member[d].pack /\ pack = checkout[f].pack
  /\ PackPv[pack] \in Nat
  /\ member[d].confirmed /\ ~member[d].cancelled
  /\ \A a \in {d} \cup {e.ancestor : e \in above[d]} : Lockable(a)
  /\ legPv' = [a \in Members |-> [leg \in Legs |->
                 IF d \in Team(a, leg) THEN Less(legPv[a][leg], PackPv[pack])
                 ELSE legPv[a][leg]]]
  /\ ownPv' = [ownPv EXCEPT ![d] = Less(ownPv[d], PackPv[pack])]
  /\ BonusStepped(f)
  /\ refund' = [refund EXCEPT ![d] = pack]
  /\ member' = [member EXCEPT ![d] =
       [member[d] EXCEPT !.confirmed = FALSE, !.cancelled = TRUE, !.pack = None]]
  /\ UNCHANGED <<above, placed, payment, issue, pc, job, faults>>

LEMMA CancelEffects ==
  ASSUME PackInv, NEW d \in Cancellers, Cancel(d)
  PROVE  d \in Members /\ \E f \in Refs, pack \in Packs : CancelStep(d, f, pack)
<1> PICK f, pack : f = CreditedRef(d) /\ pack = member[d].pack
  OBVIOUS
<1>1. d \in Members /\ member[d].confirmed
  BY MemberAssumption DEF Cancel
<1>2. Applied(d) # {} /\ ~member[d].cancelled
      /\ \A g \in Applied(d) : member[d].confirmed => member[d].pack = checkout[g].pack
  BY <1>1 DEF PackInv, PackBooksAgree, OneApplied, Applied, RowsFollowPacks
<1>3. f \in Applied(d) /\ f \in Refs /\ Buyer(f) = d
  BY <1>2 DEF CreditedRef, Applied
<1>4. pack = checkout[f].pack
  BY <1>1, <1>2, <1>3
<1>5. Issued(f)
  BY <1>1, <1>3, SponsorAssumption DEF Issued
<1>6. pack \in Packs
  BY <1>3, <1>4, <1>5 DEF PackInv, CheckoutsAreIssued
<1>7. PackPv[pack] \in Nat
  BY <1>6, PackAssumption
<1>8. BonusStepped(f)
  BY <1>3 DEF Cancel, BonusStepped
<1>9. /\ ownPv' = [ownPv EXCEPT ![d] = Less(ownPv[d], PackPv[pack])]
      /\ refund' = [refund EXCEPT ![d] = pack]
      /\ member' = [member EXCEPT ![d] =
              [member[d] EXCEPT !.confirmed = FALSE, !.cancelled = TRUE, !.pack = None]]
      /\ UNCHANGED <<above, placed, payment, issue, pc, job, faults>>
      /\ \A a \in {d} \cup {e.ancestor : e \in above[d]} : Lockable(a)
  BY DEF Cancel, workVars, PackInv, PackBooksAgree, TypeOK
<1>10. legPv' = [a \in Members |-> [leg \in Legs |->
                  IF d \in Team(a, leg) THEN Less(legPv[a][leg], PackPv[pack])
                  ELSE legPv[a][leg]]]
  BY <1>1 DEF Cancel, Team
<1>11. CancelStep(d, f, pack)
  BY <1>1, <1>2, <1>3, <1>4, <1>7, <1>8, <1>9, <1>10 DEF CancelStep
<1> QED
  BY <1>1, <1>3, <1>6, <1>11

\* The steps that leave the tree alone and do not place anybody.
LEMMA RefundEffects ==
  ASSUME PackInv, NEW w \in Workers, NEW f \in Refs, HearOfRefund(w, f)
  PROVE  /\ BonusStepped(f) /\ Buyer(f) \in Members
         /\ payment[f] = "reversed"
         /\ UNCHANGED <<treeVars, member, payment, issue, ownPv, refund, faults>>
<1>1. BonusStepped(f)
      /\ payment[f] = "reversed"
      /\ UNCHANGED <<treeVars, member, payment, issue, ownPv, refund, faults>>
  BY DEF HearOfRefund, BonusStepped
<1>2. Issued(f)
  BY <1>1 DEF PackInv, CheckoutsAreIssued
<1>3. Buyer(f) \in Members
  BY <1>2 DEF PackInv, PackBooksAgree, TypeOK, CheckoutRows, Issued, Buyer
<1> QED
  BY <1>1, <1>3

LEMMA DataTypes ==
  ASSUME PackInv, [Next]_vars
  PROVE  DataTypeOK'
<1> TypeOK
  BY DEF PackInv, PackBooksAgree
<1> DataTypeOK
  BY TypeParts
<1>1. ASSUME NEW w \in Workers, OnlyWork(w) PROVE DataTypeOK'
  BY <1>1 DEF OnlyWork, DataTypeOK, TreeTypeOK, treeVars, bookVars
<1>2. ASSUME NEW w \in Workers, CommitPlacing(w) PROVE DataTypeOK'
  <2>1. PICK g \in Refs, m \in Members, p \in Packs : CommitStep(w, g, m, p)
    BY <1>2, CommitEffects
  <2> DEFINE pv == PackPv[p]
  <2>2. /\ pv \in Nat /\ PackBonus[p] \in Nat /\ NewRows(w) \in SUBSET Rows
        /\ placed' \in Seq(Members)
        /\ above' = [above EXCEPT ![m] = NewRows(w)]
        /\ Credit(NewRows(w), pv)
        /\ ownPv' = [ownPv EXCEPT ![m] = ownPv[m] + pv]
        /\ \/ bonus' = bonus /\ wallet' = wallet
           \/ /\ Sponsor[m] \in Members
              /\ bonus' = [bonus EXCEPT ![g] = [bonus[g] EXCEPT !.paid = PackBonus[p]]]
              /\ wallet' = [wallet EXCEPT ![Sponsor[m]] = wallet[Sponsor[m]] + PackBonus[p]]
        /\ member' = [member EXCEPT ![m] =
                        [member[m] EXCEPT !.confirmed = TRUE, !.pack = p]]
        /\ checkout' = [checkout EXCEPT ![g] = [checkout[g] EXCEPT !.used = TRUE]]
        /\ UNCHANGED <<payment, issue, refund, faults>>
    BY <2>1 DEF CommitStep
  <2> HIDE DEF pv
  <2>3. member[m] \in MemberRows /\ checkout[g] \in CheckoutRows
        /\ bonus[g] \in [paid : Nat, back : Nat]
    BY DEF TypeOK
  <2>4. [member[m] EXCEPT !.confirmed = TRUE, !.pack = p] \in MemberRows
    BY <2>3 DEF MemberRows
  <2>5. [checkout[g] EXCEPT !.used = TRUE] \in CheckoutRows
    BY <2>3 DEF CheckoutRows
  <2>6. [bonus[g] EXCEPT !.paid = PackBonus[p]] \in [paid : Nat, back : Nat]
    BY <2>2, <2>3
  <2>7. legPv' \in [Members -> [Legs -> Nat]]
    BY <2>2 DEF Credit, TypeOK, TreeTypeOK
  <2>8. TreeTypeOK'
    BY <2>2, <2>7 DEF TypeOK, TreeTypeOK
  <2>9. wallet' \in [Members -> Nat] /\ bonus' \in [Refs -> [paid : Nat, back : Nat]]
    <3>1. wallet \in [Members -> Nat] /\ bonus \in [Refs -> [paid : Nat, back : Nat]]
      BY DEF TypeOK
    <3>2. CASE bonus' = bonus /\ wallet' = wallet
      BY <3>1, <3>2
    <3>3. CASE /\ Sponsor[m] \in Members
               /\ bonus' = [bonus EXCEPT ![g] = [bonus[g] EXCEPT !.paid = PackBonus[p]]]
               /\ wallet' = [wallet EXCEPT ![Sponsor[m]] = wallet[Sponsor[m]] + PackBonus[p]]
      <4>1. wallet[Sponsor[m]] + PackBonus[p] \in Nat
        BY <2>2, <3>1, <3>3
      <4> QED
        BY <2>6, <3>1, <3>3, <4>1
    <3> QED
      BY <2>2, <3>2, <3>3
  <2>10. ownPv' \in [Members -> Nat]
    BY <2>2 DEF TypeOK
  <2>11. member' \in [Members -> MemberRows] /\ checkout' \in [Refs -> CheckoutRows]
    BY <2>2, <2>4, <2>5 DEF TypeOK
  <2> QED
    BY <2>2, <2>8, <2>9, <2>10, <2>11 DEF DataTypeOK
<1>3. ASSUME NEW w \in Workers, NEW f \in Refs, HearOfRefund(w, f) PROVE DataTypeOK'
  BY <1>3, RefundEffects, BonusTypes DEF DataTypeOK, TreeTypeOK, treeVars
<1>4. ASSUME NEW d \in Buyers, NEW pack \in Packs, NEW f \in Refs, Select(d, pack, f)
      PROVE  DataTypeOK'
  <2>1. d \in Members /\ member[d] \in MemberRows
    BY MemberAssumption DEF TypeOK
  <2>2. [member[d] EXCEPT !.selected = f, !.pack = pack] \in MemberRows
    <3>1. f \in 0..MaxRefs /\ pack \in Packs \cup {None}
      BY BoundAssumption DEF Refs
    <3> QED
      BY <2>1, <3>1 DEF MemberRows
  <2>3. NoCheckout \in CheckoutRows
    BY DEF NoCheckout, CheckoutRows
  <2>4. [NoCheckout EXCEPT !.by = d, !.pack = pack] \in CheckoutRows
    BY <2>1, <2>3 DEF CheckoutRows
  <2> QED
    BY <1>4, <2>2, <2>4 DEF Select, DataTypeOK, TreeTypeOK, treeVars, bookVars
<1>5. ASSUME NEW f \in Refs, PaymentMoves(f) PROVE DataTypeOK'
  BY <1>5 DEF PaymentMoves, DataTypeOK, TreeTypeOK, treeVars, bookVars
<1>6. ASSUME NEW d \in Cancellers, WindowCloses(d) PROVE DataTypeOK'
  <2>1. d \in Members /\ member[d] \in MemberRows
    BY MemberAssumption DEF TypeOK
  <2>2. [member[d] EXCEPT !.late = TRUE] \in MemberRows
    BY <2>1 DEF MemberRows
  <2>3. member' = [member EXCEPT ![d] = [member[d] EXCEPT !.late = TRUE]]
    BY <1>6 DEF WindowCloses, DataTypeOK
  <2> QED
    BY <1>6, <2>2, <2>3 DEF WindowCloses, DataTypeOK, TreeTypeOK, treeVars, bookVars
<1>7. ASSUME NEW d \in Cancellers, Cancel(d) PROVE DataTypeOK'
  <2>1. PICK f \in Refs, pack \in Packs : d \in Members /\ CancelStep(d, f, pack)
    BY <1>7, CancelEffects
  <2>2. /\ d \in Members /\ Buyer(f) = d
        /\ PackPv[pack] \in Nat
        /\ legPv' = [a \in Members |-> [leg \in Legs |->
                        IF d \in Team(a, leg) THEN Less(legPv[a][leg], PackPv[pack])
                        ELSE legPv[a][leg]]]
        /\ ownPv' = [ownPv EXCEPT ![d] = Less(ownPv[d], PackPv[pack])]
        /\ BonusStepped(f)
        /\ refund' = [refund EXCEPT ![d] = pack]
        /\ member' = [member EXCEPT ![d] =
              [member[d] EXCEPT !.confirmed = FALSE, !.cancelled = TRUE, !.pack = None]]
        /\ UNCHANGED <<above, placed, payment, issue, pc, job, faults>>
    BY <2>1 DEF CancelStep
  <2>3. \A pv \in Nat : Less(pv, PackPv[pack]) \in Nat
    BY <2>2 DEF Less
  <2>4. legPv' \in [Members -> [Legs -> Nat]] /\ ownPv' \in [Members -> Nat]
    BY <2>2, <2>3 DEF TypeOK, TreeTypeOK
  <2>5. member[d] \in MemberRows
    BY <2>2 DEF TypeOK
  <2>6. [member[d] EXCEPT !.confirmed = FALSE, !.cancelled = TRUE, !.pack = None] \in MemberRows
    BY <2>5 DEF MemberRows
  <2>7. member' \in [Members -> MemberRows] /\ refund' \in [Members -> Packs \cup {None}]
    BY <2>2, <2>6 DEF TypeOK
  <2> QED
    BY <2>2, <2>4, <2>7, BonusTypes DEF TypeOK, DataTypeOK, TreeTypeOK
<1>8. ASSUME NEW s \in Spending, Spend(s) PROVE DataTypeOK'
  BY <1>8 DEF Spend, DataTypeOK, TreeTypeOK, treeVars
<1>9. ASSUME UNCHANGED vars PROVE DataTypeOK'
  BY <1>9 DEF vars, DataTypeOK, TreeTypeOK, treeVars
<1> QED
  BY <1>1, <1>2, <1>3, <1>4, <1>5, <1>6, <1>7, <1>8, <1>9, StepCases

\* No step breaks the type of anything.
LEMMA TypeStep ==
  ASSUME PackInv, [Next]_vars
  PROVE  TypeOK'
<1> TypeOK
  BY DEF PackInv, PackBooksAgree
<1>1. WorkTypeOK
  BY TypeParts
<1>2. ASSUME UNCHANGED workVars PROVE WorkTypeOK'
  BY <1>1, <1>2 DEF WorkTypeOK, workVars
<1>3. WorkTypeOK'
  BY <1>1, <1>2, StepCases, WorkTypes DEF Select, PaymentMoves, WindowCloses, Cancel,
     Spend, vars, workVars
<1>4. (TypeOK <=> DataTypeOK /\ WorkTypeOK /\ issue \in [Refs -> Kinds]
                    /\ faults \in 0..MaxFaults)'
  BY TypeParts, PTL
<1> QED
  BY <1>3, <1>4, DataTypes, NewsTypes

-----------------------------------------------------------------------------
(* What the books are about: rows of members and of checkouts.              *)

\* Nothing that PV, bonus and refund depend on changes.
BooksUntouched ==
  /\ \A d \in Members : /\ member'[d].confirmed = member[d].confirmed
                        /\ member'[d].cancelled = member[d].cancelled
                        /\ member'[d].pack = member[d].pack
                        /\ member'[d].selected = member[d].selected
  /\ \A f \in Refs : /\ checkout'[f].by = checkout[f].by
                     /\ checkout'[f].pack = checkout[f].pack
                     /\ checkout'[f].used = checkout[f].used
  /\ UNCHANGED <<treeVars, ownPv, refund>>

LEMMA QuietSteps ==
  ASSUME PackInv
  PROVE  /\ \A w \in Workers : OnlyWork(w) => BooksUntouched
         /\ \A w \in Workers, f \in Refs : HearOfRefund(w, f) => BooksUntouched
         /\ \A f \in Refs : PaymentMoves(f) => BooksUntouched
         /\ \A d \in Cancellers : WindowCloses(d) => BooksUntouched
         /\ \A s \in Spending : Spend(s) => BooksUntouched
         /\ UNCHANGED vars => BooksUntouched
<1> TypeOK
  BY DEF PackInv, PackBooksAgree
<1>1. ASSUME NEW w \in Workers, OnlyWork(w) PROVE BooksUntouched
  BY <1>1 DEF OnlyWork, BooksUntouched, bookVars
<1>2. ASSUME NEW w \in Workers, NEW f \in Refs, HearOfRefund(w, f) PROVE BooksUntouched
  BY <1>2, RefundEffects, BonusTypes DEF BooksUntouched
<1>3. ASSUME NEW f \in Refs, PaymentMoves(f) PROVE BooksUntouched
  BY <1>3 DEF PaymentMoves, BooksUntouched, bookVars
<1>4. ASSUME NEW d \in Cancellers, WindowCloses(d) PROVE BooksUntouched
  <2>1. member \in [Members -> MemberRows]
    BY DEF TypeOK
  <2>2. \A m \in Members : /\ member'[m].confirmed = member[m].confirmed
                           /\ member'[m].cancelled = member[m].cancelled
                           /\ member'[m].pack = member[m].pack
                           /\ member'[m].selected = member[m].selected
    BY <1>4, <2>1 DEF WindowCloses, MemberRows
  <2> QED
    BY <1>4, <2>2 DEF WindowCloses, BooksUntouched, bookVars
<1>5. ASSUME NEW s \in Spending, Spend(s) PROVE BooksUntouched
  BY <1>5 DEF Spend, BooksUntouched
<1>6. ASSUME UNCHANGED vars PROVE BooksUntouched
  BY <1>6 DEF vars, BooksUntouched
<1> QED
  BY <1>1, <1>2, <1>3, <1>4, <1>5, <1>6

LEMMA CommitRows ==
  ASSUME PackInv, NEW w \in Workers, NEW f \in Refs, NEW d \in Members, NEW pack \in Packs,
         CommitStep(w, f, d, pack)
  PROVE  /\ \A m \in Members \ {d} : /\ member'[m] = member[m] /\ ownPv'[m] = ownPv[m]
                                     /\ above'[m] = above[m]
         /\ member'[d].confirmed /\ ~member'[d].cancelled /\ member'[d].pack = pack
         /\ member'[d].selected = member[d].selected
         /\ ~member[d].confirmed /\ ~member[d].cancelled
         /\ ownPv'[d] = ownPv[d] + PackPv[pack] /\ above'[d] = NewRows(w)
         /\ \A g \in Refs : /\ checkout'[g].by = checkout[g].by
                            /\ checkout'[g].pack = checkout[g].pack
                            /\ checkout'[g].handled = checkout[g].handled
                            /\ g # f => checkout'[g].used = checkout[g].used
                                        /\ bonus'[g] = bonus[g]
         /\ checkout[f].by = d /\ checkout[f].pack = pack
         /\ ~checkout[f].used /\ checkout'[f].used
         /\ bonus'[f].back = bonus[f].back
         /\ bonus'[f].paid = IF Sponsor[d] # None THEN PackBonus[pack] ELSE bonus[f].paid
<1> TypeOK
  BY DEF PackInv, PackBooksAgree
<1>1. /\ member[d] \in MemberRows /\ checkout[f] \in CheckoutRows
      /\ bonus[f] \in [paid : Nat, back : Nat]
      /\ member \in [Members -> MemberRows] /\ checkout \in [Refs -> CheckoutRows]
      /\ bonus \in [Refs -> [paid : Nat, back : Nat]]
      /\ ownPv \in [Members -> Nat] /\ above \in [Members -> SUBSET Rows]
  BY DEF TypeOK, TreeTypeOK
<1>2. checkout[f].by = d /\ checkout[f].pack = pack /\ ~checkout[f].used
      /\ ~member[d].confirmed /\ ~member[d].cancelled
  BY DEF CommitStep, Buyer, PaidPack, Applied, Waiting
<1>3. \A m \in Members \ {d} : /\ member'[m] = member[m] /\ ownPv'[m] = ownPv[m]
                               /\ above'[m] = above[m]
  BY <1>1 DEF CommitStep
<1>4. member'[d] = [member[d] EXCEPT !.confirmed = TRUE, !.pack = pack]
  BY <1>1 DEF CommitStep
<1>5. /\ member'[d].confirmed /\ ~member'[d].cancelled /\ member'[d].pack = pack
      /\ member'[d].selected = member[d].selected
  BY <1>1, <1>2, <1>4 DEF MemberRows
<1>6. ownPv'[d] = ownPv[d] + PackPv[pack] /\ above'[d] = NewRows(w)
  BY <1>1 DEF CommitStep
<1>7. checkout' = [checkout EXCEPT ![f] = [checkout[f] EXCEPT !.used = TRUE]]
  BY DEF CommitStep
<1>8. /\ \A g \in Refs : /\ checkout'[g].by = checkout[g].by
                         /\ checkout'[g].pack = checkout[g].pack
                         /\ checkout'[g].handled = checkout[g].handled
                         /\ g # f => checkout'[g].used = checkout[g].used
      /\ checkout'[f].used
  BY <1>1, <1>7 DEF CheckoutRows
<1>9. /\ \A g \in Refs : g # f => bonus'[g] = bonus[g]
      /\ bonus'[f].back = bonus[f].back
      /\ bonus'[f].paid = IF Sponsor[d] # None THEN PackBonus[pack] ELSE bonus[f].paid
  <2>1. CASE Sponsor[d] = None /\ bonus' = bonus
    BY <2>1
  <2>2. CASE /\ Sponsor[d] \in Members
             /\ bonus' = [bonus EXCEPT ![f] = [bonus[f] EXCEPT !.paid = PackBonus[pack]]]
    <3>1. Sponsor[d] # None
      BY <2>2, SponsorAssumption
    <3>2. bonus'[f] = [bonus[f] EXCEPT !.paid = PackBonus[pack]]
      BY <1>1, <2>2
    <3>3. bonus'[f].back = bonus[f].back /\ bonus'[f].paid = PackBonus[pack]
      BY <1>1, <3>2
    <3>4. \A g \in Refs : g # f => bonus'[g] = bonus[g]
      BY <1>1, <2>2
    <3> QED
      BY <3>1, <3>3, <3>4
  <2> QED
    BY <2>1, <2>2 DEF CommitStep
<1> QED
  BY <1>2, <1>3, <1>5, <1>6, <1>8, <1>9

LEMMA CancelRows ==
  ASSUME PackInv, NEW d \in Members, NEW f \in Refs, NEW pack \in Packs,
         CancelStep(d, f, pack)
  PROVE  /\ \A m \in Members \ {d} : member'[m] = member[m] /\ ownPv'[m] = ownPv[m]
                                     /\ refund'[m] = refund[m]
         /\ ~member'[d].confirmed /\ member'[d].cancelled
         /\ member'[d].selected = member[d].selected
         /\ member[d].confirmed /\ ~member[d].cancelled /\ member[d].pack = pack
         /\ ownPv'[d] = Less(ownPv[d], PackPv[pack]) /\ refund'[d] = pack
         /\ checkout[f].by = d /\ checkout[f].pack = pack /\ f \in Applied(d)
         /\ \A g \in Refs : /\ checkout'[g].by = checkout[g].by
                            /\ checkout'[g].pack = checkout[g].pack
                            /\ checkout'[g].used = checkout[g].used
<1> TypeOK
  BY DEF PackInv, PackBooksAgree
<1>1. /\ member[d] \in MemberRows
      /\ member \in [Members -> MemberRows]
      /\ ownPv \in [Members -> Nat] /\ refund \in [Members -> Packs \cup {None}]
  BY DEF TypeOK
<1>2. \A m \in Members \ {d} : member'[m] = member[m] /\ ownPv'[m] = ownPv[m]
                               /\ refund'[m] = refund[m]
  BY <1>1 DEF CancelStep
<1>3. member'[d] = [member[d] EXCEPT !.confirmed = FALSE, !.cancelled = TRUE, !.pack = None]
  BY <1>1 DEF CancelStep
<1>4. ~member'[d].confirmed /\ member'[d].cancelled
      /\ member'[d].selected = member[d].selected
  BY <1>1, <1>3 DEF MemberRows
<1>5. ownPv'[d] = Less(ownPv[d], PackPv[pack]) /\ refund'[d] = pack
  BY <1>1 DEF CancelStep
<1>6. /\ member[d].confirmed /\ ~member[d].cancelled /\ member[d].pack = pack
      /\ checkout[f].by = d /\ checkout[f].pack = pack /\ f \in Applied(d)
      /\ BonusStepped(f) /\ Buyer(f) \in Members
  BY DEF CancelStep, Buyer
<1> QED
  BY <1>2, <1>4, <1>5, <1>6, BonusTypes

LEMMA SelectRows ==
  ASSUME PackInv, NEW d \in Buyers, NEW pack \in Packs, NEW f \in Refs, Select(d, pack, f)
  PROVE  /\ d \in Members
         /\ \A m \in Members : /\ member'[m].confirmed = member[m].confirmed
                               /\ member'[m].cancelled = member[m].cancelled
                               /\ m # d => member'[m] = member[m]
         /\ ~member[d].confirmed /\ ~member[d].cancelled
         /\ \A g \in Refs \ {f} : checkout'[g] = checkout[g]
         /\ checkout[f].by = None /\ ~checkout[f].used
         /\ checkout'[f].by = d /\ checkout'[f].pack = pack
         /\ ~checkout'[f].used /\ ~checkout'[f].handled
         /\ UNCHANGED <<treeVars, payment, issue, bookVars, workVars, faults>>
<1> TypeOK
  BY DEF PackInv, PackBooksAgree
<1>1. /\ member \in [Members -> MemberRows] /\ checkout \in [Refs -> CheckoutRows]
      /\ d \in Members /\ NoCheckout \in CheckoutRows
      /\ ~NoCheckout.used /\ ~NoCheckout.handled
  BY MemberAssumption DEF TypeOK, NoCheckout, CheckoutRows
<1>2. \A m \in Members : /\ member'[m].confirmed = member[m].confirmed
                         /\ member'[m].cancelled = member[m].cancelled
                         /\ m # d => member'[m] = member[m]
  BY <1>1 DEF Select, MemberRows
<1>3. \A g \in Refs \ {f} : checkout'[g] = checkout[g]
  BY <1>1 DEF Select
<1>4. checkout'[f] = [NoCheckout EXCEPT !.by = d, !.pack = pack]
  BY <1>1 DEF Select
<1>5. /\ checkout'[f].by = d /\ checkout'[f].pack = pack
      /\ ~checkout'[f].used /\ ~checkout'[f].handled
  <2> PICK c \in CheckoutRows : c = NoCheckout
    BY <1>1
  <2>1. checkout'[f] = [c EXCEPT !.by = d, !.pack = pack]
    BY <1>4
  <2> QED
    BY <1>1, <2>1 DEF CheckoutRows
<1>6. checkout[f].by = None /\ ~checkout[f].used
  BY DEF Select, Issued, Buyer, PackInv, CheckoutsAreIssued
<1> QED
  BY <1>1, <1>2, <1>3, <1>5, <1>6 DEF Select

-----------------------------------------------------------------------------
(* One payment is applied per member.                                       *)

\* OneApplied, without counting.
OnePaid ==
  \A d \in Members :
    /\ \A f, g \in Applied(d) : f = g
    /\ member[d].confirmed \/ member[d].cancelled <=> Applied(d) # {}
    /\ ownPv[d] = Standing[d]
    /\ \A f \in Applied(d) :
         /\ member[d].confirmed => member[d].pack = checkout[f].pack
         /\ member[d].cancelled => refund[d] = checkout[f].pack

LEMMA AtMostOne ==
  ASSUME NEW S, IsFiniteSet(S)
  PROVE  Cardinality(S) <= 1 <=> \A x, y \in S : x = y
<1>1. ASSUME NEW x \in S, NEW y \in S, x # y PROVE ~(Cardinality(S) <= 1)
  <2>1. IsFiniteSet(S \ {x}) /\ Cardinality(S \ {x}) = Cardinality(S) - 1
        /\ Cardinality(S) \in Nat
    BY OneLess
  <2>2. Cardinality(S \ {x}) # 0
    <3>1. S \ {x} # {}
      BY <1>1
    <3> QED
      BY <2>1, <3>1, FS_EmptySet
  <2>3. Cardinality(S \ {x}) \in Nat
    BY <2>1, FS_CardinalityType
  <2> QED
    BY <2>1, <2>2, <2>3
<1>2. CASE S = {}
  BY <1>2, FS_EmptySet
<1>3. ASSUME NEW x \in S, \A y \in S : x = y PROVE Cardinality(S) <= 1
  <2>1. S = {x}
    BY <1>3
  <2> QED
    BY <2>1, FS_Singleton
<1> QED
  BY <1>1, <1>2, <1>3

LEMMA OnePaidIsOneApplied == OneApplied <=> OnePaid
<1>1. ASSUME NEW d \in Members
      PROVE  Cardinality(Applied(d)) <= 1 <=> \A f, g \in Applied(d) : f = g
  <2>1. IsFiniteSet(Refs)
    BY BoundAssumption, FS_Interval DEF Refs
  <2>2. IsFiniteSet(Applied(d))
    BY <2>1, FS_Subset DEF Applied
  <2> QED
    BY <2>2, AtMostOne
<1> QED
  BY <1>1 DEF OneApplied, OnePaid, Applied

LEMMA StandingStays ==
  ASSUME NEW d \in Members, member'[d].confirmed = member[d].confirmed,
         member[d].confirmed => member'[d].pack = member[d].pack
  PROVE  Standing'[d] = Standing[d]
BY DEF Standing

LEMMA OnePaidStep ==
  ASSUME PackInv, [Next]_vars
  PROVE  OnePaid'
<1> TypeOK /\ OnePaid
  BY OnePaidIsOneApplied DEF PackInv, PackBooksAgree
<1>1. ASSUME BooksUntouched PROVE OnePaid'
  <2>1. ASSUME NEW d \in Members
        PROVE  Applied(d)' = Applied(d) /\ Standing'[d] = Standing[d]
    BY <1>1, StandingStays DEF BooksUntouched, Applied, Buyer
  <2> QED
    BY <1>1, <2>1 DEF BooksUntouched, OnePaid, Applied
<1>2. ASSUME NEW w \in Workers, CommitPlacing(w) PROVE OnePaid'
  <2>1. PICK f \in Refs, d \in Members, pack \in Packs : CommitStep(w, f, d, pack)
    BY <1>2, CommitEffects
  <2>2. Applied(d) = {} /\ refund' = refund /\ PackPv[pack] \in Nat
    BY <2>1 DEF CommitStep
  <2>3. Applied(d)' = {f}
    BY <2>1, <2>2, CommitRows DEF Applied, Buyer
  <2>4. ownPv'[d] = Standing'[d]
    <3>1. ownPv[d] = 0
      BY <2>1, CommitRows DEF OnePaid, Standing
    <3>2. Standing'[d] = PackPv[pack]
      BY <2>1, CommitRows DEF Standing
    <3> QED
      BY <2>1, <2>2, <3>1, <3>2, CommitRows
  <2>5. ASSUME NEW m \in Members \ {d}
        PROVE  Applied(m)' = Applied(m) /\ Standing'[m] = Standing[m] /\ member'[m] = member[m]
               /\ ownPv'[m] = ownPv[m]
    BY <2>1, CommitRows, StandingStays DEF Applied, Buyer
  <2>6. \A g \in Refs : checkout'[g].pack = checkout[g].pack
    BY <2>1, CommitRows
  <2>7. checkout[f].pack = pack /\ member'[d].confirmed /\ ~member'[d].cancelled
        /\ member'[d].pack = pack
    BY <2>1, CommitRows
  <2>8. \A m \in Members : Applied(m) \in SUBSET Refs
    BY DEF Applied
  <2> QED
    BY <2>2, <2>3, <2>4, <2>5, <2>6, <2>7, <2>8 DEF OnePaid
<1>3. ASSUME NEW d \in Buyers, NEW pack \in Packs, NEW f \in Refs, Select(d, pack, f)
      PROVE  OnePaid'
  <2>1. ASSUME NEW m \in Members
        PROVE  Applied(m)' = Applied(m) /\ Standing'[m] = Standing[m]
               /\ ownPv'[m] = ownPv[m] /\ refund'[m] = refund[m]
               /\ member'[m].confirmed = member[m].confirmed
               /\ member'[m].cancelled = member[m].cancelled
               /\ (member[m].confirmed => member'[m].pack = member[m].pack)
    BY <1>3, SelectRows, StandingStays DEF Applied, Buyer, bookVars
  <2>2. \A m \in Members : \A g \in Applied(m) : checkout'[g].pack = checkout[g].pack
    BY <1>3, SelectRows DEF Applied
  <2> QED
    BY <2>1, <2>2 DEF OnePaid
<1>4. ASSUME NEW d \in Cancellers, Cancel(d) PROVE OnePaid'
  <2>1. d \in Members
    BY MemberAssumption
  <2>2. PICK f \in Refs, pack \in Packs : CancelStep(d, f, pack)
    BY <1>4, CancelEffects
  <2>3. \A m \in Members : Applied(m)' = Applied(m)
    BY <2>1, <2>2, CancelRows DEF Applied, Buyer
  <2>4. \A m \in Members \ {d} : Standing'[m] = Standing[m] /\ member'[m] = member[m]
                                 /\ ownPv'[m] = ownPv[m] /\ refund'[m] = refund[m]
    BY <2>1, <2>2, CancelRows, StandingStays
  <2>5. \A g \in Refs : checkout'[g].pack = checkout[g].pack
    BY <2>1, <2>2, CancelRows
  <2>6. Standing'[d] = 0 /\ Standing[d] = PackPv[pack]
    BY <2>1, <2>2, CancelRows DEF Standing
  <2>7. PackPv[pack] \in Nat /\ ownPv[d] = PackPv[pack]
    BY <2>1, <2>2, <2>6 DEF CancelStep, OnePaid
  <2>8. ownPv'[d] = 0
    BY <2>1, <2>2, <2>7, CancelRows DEF Less
  <2>9. /\ f \in Applied(d) /\ checkout[f].pack = pack /\ refund'[d] = pack
        /\ ~member'[d].confirmed /\ member'[d].cancelled
    BY <2>1, <2>2, CancelRows
  <2>10. \A m \in Members : Applied(m) \in SUBSET Refs
    BY DEF Applied
  <2>11. \A g \in Applied(d) : refund'[d] = checkout'[g].pack
    BY <2>1, <2>5, <2>9, <2>10 DEF OnePaid
  <2>12. ASSUME NEW m \in Members \ {d}
         PROVE  /\ \A g, h \in Applied(m)' : g = h
                /\ member'[m].confirmed \/ member'[m].cancelled <=> Applied(m)' # {}
                /\ ownPv'[m] = Standing'[m]
                /\ \A g \in Applied(m)' :
                     /\ member'[m].confirmed => member'[m].pack = checkout'[g].pack
                     /\ member'[m].cancelled => refund'[m] = checkout'[g].pack
    BY <2>3, <2>4, <2>5, <2>10 DEF OnePaid
  <2>13. \A g, h \in Applied(d) : g = h
    BY <2>1 DEF OnePaid
  <2> QED
    BY <2>3, <2>6, <2>8, <2>9, <2>11, <2>12, <2>13 DEF OnePaid
<1> QED
  BY <1>1, <1>2, <1>3, <1>4, QuietSteps, StepCases

-----------------------------------------------------------------------------
(* The bonus.                                                               *)

LEMMA BonusStep ==
  ASSUME PackInv, [Next]_vars
  PROVE  BonusBalanced'
<1> TypeOK /\ BonusBalanced
  BY DEF PackInv, PackBooksAgree
<1> SUFFICES ASSUME NEW g \in Refs
             PROVE  /\ bonus'[g].paid =
                         IF checkout'[g].used /\ Sponsor[Buyer(g)'] # None
                           THEN PackBonus[checkout'[g].pack] ELSE 0
                    /\ bonus'[g].back <= bonus'[g].paid
                    /\ bonus'[g].back > 0 => checkout'[g].handled
  BY DEF BonusBalanced
<1> DEFINE Balanced == /\ bonus'[g].paid =
                            IF checkout'[g].used /\ Sponsor[Buyer(g)'] # None
                              THEN PackBonus[checkout'[g].pack] ELSE 0
                       /\ bonus'[g].back <= bonus'[g].paid
                       /\ bonus'[g].back > 0 => checkout'[g].handled
<1>1. /\ bonus[g].paid = IF checkout[g].used /\ Sponsor[Buyer(g)] # None
                           THEN PackBonus[checkout[g].pack] ELSE 0
      /\ bonus[g].back <= bonus[g].paid /\ (bonus[g].back > 0 => checkout[g].handled)
      /\ bonus[g].paid \in Nat /\ bonus[g].back \in Nat
  BY DEF BonusBalanced, TypeOK
<1>2. ASSUME bonus'[g] = bonus[g], checkout'[g] = checkout[g] PROVE Balanced
  BY <1>1, <1>2 DEF Buyer
<1>3. ASSUME NEW f \in Refs, Buyer(f) \in Members, BonusStepped(f) PROVE Balanced
  BY <1>1, <1>3, BonusTypes DEF Buyer
<1>4. ASSUME NEW w \in Workers, OnlyWork(w) PROVE Balanced
  BY <1>2, <1>4 DEF OnlyWork, bookVars
<1>5. ASSUME NEW w \in Workers, CommitPlacing(w) PROVE Balanced
  <2>1. PICK f \in Refs, d \in Members, pack \in Packs : CommitStep(w, f, d, pack)
    BY <1>5, CommitEffects
  <2>2. CASE g # f
    BY <1>1, <2>1, <2>2, CommitRows DEF Buyer
  <2>3. CASE g = f
    <3>1. /\ ~checkout[g].used /\ checkout'[g].used /\ checkout'[g].by = d
          /\ checkout'[g].pack = pack /\ bonus'[g].back = bonus[g].back
          /\ checkout'[g].handled = checkout[g].handled
          /\ bonus'[g].paid = IF Sponsor[d] # None THEN PackBonus[pack] ELSE bonus[g].paid
      BY <2>1, <2>3, CommitRows
    <3>2. bonus[g].paid = 0 /\ bonus[g].back = 0 /\ PackBonus[pack] \in Nat
      BY <1>1, <2>1, <3>1 DEF CommitStep
    <3> QED
      BY <3>1, <3>2 DEF Buyer
  <2> QED
    BY <2>2, <2>3
<1>6. ASSUME NEW w \in Workers, NEW f \in Refs, HearOfRefund(w, f) PROVE Balanced
  BY <1>3, <1>6, RefundEffects
<1>7. ASSUME NEW d \in Buyers, NEW pack \in Packs, NEW f \in Refs, Select(d, pack, f)
      PROVE  Balanced
  <2>1. bonus' = bonus
    BY <1>7 DEF Select, bookVars
  <2>2. CASE g # f
    BY <1>2, <1>7, <2>1, <2>2, SelectRows
  <2>3. CASE g = f
    <3>1. ~checkout[g].used /\ ~checkout'[g].used
      BY <1>7, <2>3, SelectRows
    <3>2. bonus[g].paid = 0 /\ bonus[g].back = 0
      BY <1>1, <3>1
    <3> QED
      BY <2>1, <3>1, <3>2
  <2> QED
    BY <2>2, <2>3
<1>8. ASSUME NEW d \in Cancellers, Cancel(d) PROVE Balanced
  <2>1. PICK f \in Refs, pack \in Packs : d \in Members /\ CancelStep(d, f, pack)
    BY <1>8, CancelEffects
  <2> QED
    BY <1>3, <2>1 DEF CancelStep
<1>9. ASSUME \/ \E f \in Refs : PaymentMoves(f)
             \/ \E d \in Cancellers : WindowCloses(d)
             \/ \E s \in Spending : Spend(s)
             \/ UNCHANGED vars
      PROVE  Balanced
  BY <1>2, <1>9 DEF PaymentMoves, WindowCloses, Spend, vars, bookVars
<1> QED
  BY <1>4, <1>5, <1>6, <1>7, <1>8, <1>9, StepCases

-----------------------------------------------------------------------------
(* Who has rows, and what the legs add up to.                               *)

LEMMA RowsStep ==
  ASSUME PackInv, [Next]_vars
  PROVE  RowsFollowPacks'
<1> DEFINE Now == {d \in Members : Settled(d)}
<1>0. TypeOK /\ RowsFollowPacks /\ IsFiniteSet(Now)
  BY DEF PackInv, PackBooksAgree, RowsFollowPacks
<1>1. ASSUME BooksUntouched PROVE RowsFollowPacks'
  <2>1. \A d \in Members : Settled(d)' = Settled(d)
    BY <1>1 DEF BooksUntouched, Settled
  <2>2. {d \in Members : Settled(d)}' = Now
    BY <2>1
  <2> QED
    BY <1>0, <1>1, <2>1, <2>2 DEF BooksUntouched, RowsFollowPacks, treeVars
<1>2. ASSUME NEW w \in Workers, CommitPlacing(w) PROVE RowsFollowPacks'
  <2>1. PICK f \in Refs, d \in Members, pack \in Packs : CommitStep(w, f, d, pack)
    BY <1>2, CommitEffects
  <2>2. \A m \in Members \ {d} : member'[m] = member[m] /\ above'[m] = above[m]
    BY <2>1, CommitRows
  <2>3. member'[d].confirmed /\ ~member'[d].cancelled
    BY <2>1, CommitRows
  <2>4. {m \in Members : Settled(m)}' = Now \cup {d}
    BY <2>2, <2>3 DEF Settled
  <2>5. IsFiniteSet({m \in Members : Settled(m)}')
    BY <1>0, <2>4, FS_AddElement
  <2>6. \A m \in Members : ~(member'[m].confirmed /\ member'[m].cancelled)
                           /\ (~Settled(m)' => above'[m] = {})
    BY <1>0, <2>2, <2>3 DEF RowsFollowPacks, Settled
  <2> QED
    BY <2>5, <2>6 DEF RowsFollowPacks
<1>3. ASSUME NEW d \in Buyers, NEW pack \in Packs, NEW f \in Refs, Select(d, pack, f)
      PROVE  RowsFollowPacks'
  <2>1. \A m \in Members : member'[m].confirmed = member[m].confirmed
                           /\ member'[m].cancelled = member[m].cancelled
    BY <1>3, SelectRows
  <2>2. above' = above
    BY <1>3 DEF Select, treeVars
  <2>3. \A m \in Members : Settled(m)' = Settled(m)
    BY <2>1 DEF Settled
  <2>4. {m \in Members : Settled(m)}' = Now
    BY <2>3
  <2> QED
    BY <1>0, <2>1, <2>2, <2>3, <2>4 DEF RowsFollowPacks
<1>4. ASSUME NEW d \in Cancellers, Cancel(d) PROVE RowsFollowPacks'
  <2>1. PICK f \in Refs, pack \in Packs : d \in Members /\ CancelStep(d, f, pack)
    BY <1>4, CancelEffects
  <2>2. \A m \in Members \ {d} : member'[m] = member[m]
    BY <2>1, CancelRows
  <2>3. ~member'[d].confirmed /\ member'[d].cancelled /\ member[d].confirmed
    BY <2>1, CancelRows
  <2>4. \A m \in Members : Settled(m)' = Settled(m)
    BY <2>2, <2>3 DEF Settled
  <2>5. {m \in Members : Settled(m)}' = Now
    BY <2>4
  <2>6. above' = above
    BY <2>1 DEF CancelStep
  <2> QED
    BY <1>0, <2>2, <2>3, <2>4, <2>5, <2>6 DEF RowsFollowPacks
<1> QED
  BY <1>1, <1>2, <1>3, <1>4, QuietSteps, StepCases

\* A team is finite, and its members have had a pack.
LEMMA TeamIsFinite ==
  ASSUME PackInv, NEW a \in Members, NEW leg \in Legs
  PROVE  /\ Team(a, leg) \in SUBSET Members /\ IsFiniteSet(Team(a, leg))
         /\ \A d \in Team(a, leg) : Settled(d)
         /\ \A d \in Members : Standing[d] \in Nat
<1>1. \A d \in Team(a, leg) : d \in Members /\ above[d] # {} /\ Settled(d)
  BY DEF Team, PackInv, RowsFollowPacks
<1>2. IsFiniteSet(Team(a, leg))
  BY <1>1, FS_Subset DEF PackInv, RowsFollowPacks
<1>3. ASSUME NEW d \in Members PROVE Standing[d] \in Nat
  <2>1. ownPv[d] = Standing[d] /\ ownPv[d] \in Nat
    BY OnePaidIsOneApplied DEF PackInv, PackBooksAgree, OnePaid, TypeOK
  <2> QED
    BY <2>1
<1> QED
  BY <1>1, <1>2, <1>3

LEMMA LegsStep ==
  ASSUME PackInv, [Next]_vars
  PROVE  LegsAddUp'
<1> TypeOK /\ LegsAddUp
  BY DEF PackInv, PackBooksAgree
<1> SUFFICES ASSUME NEW a \in Members, NEW leg \in Legs
             PROVE  legPv'[a][leg] = SumFunctionOnSet(Standing', Team(a, leg)')
  BY DEF LegsAddUp
<1>1. /\ legPv[a][leg] = SumFunctionOnSet(Standing, Team(a, leg))
      /\ Team(a, leg) \in SUBSET Members /\ IsFiniteSet(Team(a, leg))
      /\ \A d \in Team(a, leg) : Settled(d)
      /\ \A d \in Members : Standing[d] \in Nat
  BY TeamIsFinite DEF LegsAddUp
<1>2. ASSUME treeVars' = treeVars, \A d \in Members : Standing'[d] = Standing[d]
      PROVE  legPv'[a][leg] = SumFunctionOnSet(Standing', Team(a, leg)')
  <2>1. legPv'[a][leg] = legPv[a][leg] /\ Team(a, leg)' = Team(a, leg)
    BY <1>2 DEF Team, treeVars
  <2>2. SumFunctionOnSet(Standing', Team(a, leg)) = SumFunctionOnSet(Standing, Team(a, leg))
    BY <1>1, <1>2, SumsAgree
  <2> QED
    BY <1>1, <2>1, <2>2
<1>3. ASSUME BooksUntouched
      PROVE  legPv'[a][leg] = SumFunctionOnSet(Standing', Team(a, leg)')
  BY <1>2, <1>3, StandingStays DEF BooksUntouched
<1>4. ASSUME NEW w \in Workers, CommitPlacing(w)
      PROVE  legPv'[a][leg] = SumFunctionOnSet(Standing', Team(a, leg)')
  <2>1. PICK f \in Refs, d \in Members, pack \in Packs : CommitStep(w, f, d, pack)
    BY <1>4, CommitEffects
  <2>2. PICK rows, pv : rows = NewRows(w) /\ pv = PackPv[pack]
    OBVIOUS
  <2>3. pv \in Nat /\ above[d] = {} /\ Credit(rows, pv)
    BY <2>1, <2>2 DEF CommitStep
  <2>4. Standing'[d] = pv
    BY <2>1, <2>2, CommitRows DEF Standing
  <2>5. \A m \in Members \ {d} : Standing'[m] = Standing[m] /\ above'[m] = above[m]
    BY <2>1, CommitRows, StandingStays
  <2>6. above'[d] = rows
    BY <2>1, <2>2, CommitRows
  <2>7. d \notin Team(a, leg)
    BY <2>3 DEF Team
  <2>8. SumFunctionOnSet(Standing', Team(a, leg)) = SumFunctionOnSet(Standing, Team(a, leg))
    BY <1>1, <2>5, <2>7, SumsAgree
  <2>9. CASE \E e \in rows : e.ancestor = a /\ e.leg = leg
    <3>1. legPv'[a][leg] = legPv[a][leg] + pv
      BY <2>3, <2>9 DEF Credit
    <3>2. Team(a, leg)' = Team(a, leg) \cup {d}
      BY <2>5, <2>6, <2>9 DEF Team
    <3>3. \A m \in Team(a, leg) \cup {d} : Standing'[m] \in Int
      BY <1>1, <2>3, <2>4, <2>5
    <3>4. SumFunctionOnSet(Standing', Team(a, leg) \cup {d}) =
            Standing'[d] + SumFunctionOnSet(Standing', Team(a, leg))
      BY <1>1, <2>7, <3>3, SumAdds
    <3>5. legPv[a][leg] \in Nat
      BY DEF TypeOK, TreeTypeOK
    <3> QED
      BY <1>1, <2>3, <2>4, <2>8, <3>1, <3>2, <3>4, <3>5
  <2>10. CASE ~\E e \in rows : e.ancestor = a /\ e.leg = leg
    <3>1. legPv'[a][leg] = legPv[a][leg] + 0 /\ legPv[a][leg] \in Nat
      BY <2>3, <2>10 DEF Credit, TypeOK, TreeTypeOK
    <3>2. Team(a, leg)' = Team(a, leg)
      BY <2>5, <2>6, <2>7, <2>10 DEF Team
    <3> QED
      BY <1>1, <2>8, <3>1, <3>2
  <2> QED
    BY <2>9, <2>10
<1>5. ASSUME NEW d \in Buyers, NEW pack \in Packs, NEW f \in Refs, Select(d, pack, f)
      PROVE  legPv'[a][leg] = SumFunctionOnSet(Standing', Team(a, leg)')
  <2>1. \A m \in Members : Standing'[m] = Standing[m]
    BY <1>5, SelectRows, StandingStays
  <2> QED
    BY <1>2, <1>5, <2>1 DEF Select
<1>6. ASSUME NEW d \in Cancellers, Cancel(d)
      PROVE  legPv'[a][leg] = SumFunctionOnSet(Standing', Team(a, leg)')
  <2>1. PICK f \in Refs, pack \in Packs : d \in Members /\ CancelStep(d, f, pack)
    BY <1>6, CancelEffects
  <2>2. PICK pv : pv = PackPv[pack]
    OBVIOUS
  <2>3. /\ pv \in Nat
        /\ legPv' = [x \in Members |-> [l \in Legs |->
                       IF d \in Team(x, l) THEN Less(legPv[x][l], pv) ELSE legPv[x][l]]]
        /\ above' = above
    BY <2>1, <2>2 DEF CancelStep
  <2>4. Team(a, leg)' = Team(a, leg)
    BY <2>3 DEF Team
  <2>5. Standing'[d] = 0 /\ Standing[d] = pv
    BY <2>1, <2>2, CancelRows DEF Standing
  <2>6. \A m \in Members \ {d} : Standing'[m] = Standing[m]
    BY <2>1, CancelRows, StandingStays
  <2>7. CASE d \in Team(a, leg)
    <3> DEFINE others == Team(a, leg) \ {d}
    <3>1. IsFiniteSet(others) /\ others \in SUBSET Members
      BY <1>1, FS_Subset
    <3>2. SumFunctionOnSet(Standing, Team(a, leg)) = pv + SumFunctionOnSet(Standing, others)
      BY <1>1, <2>5, <2>7, SumRemoves
    <3>3. \A x \in Team(a, leg) : Standing'[x] \in Int
      BY <1>1, <2>5, <2>6
    <3>4. SumFunctionOnSet(Standing', Team(a, leg)) = 0 + SumFunctionOnSet(Standing', others)
      BY <1>1, <2>5, <2>7, <3>3, SumRemoves
    <3>5. SumFunctionOnSet(Standing', others) = SumFunctionOnSet(Standing, others)
      BY <2>6, <3>1, SumsAgree
    <3>6. SumFunctionOnSet(Standing, others) \in Nat
      BY <1>1, <3>1, SumIsNat
    <3>7. legPv'[a][leg] = Less(legPv[a][leg], pv)
      BY <2>3, <2>7
    <3> HIDE DEF others
    <3> QED
      BY <1>1, <2>3, <2>4, <3>2, <3>4, <3>5, <3>6, <3>7 DEF Less
  <2>8. CASE d \notin Team(a, leg)
    <3>1. legPv'[a][leg] = legPv[a][leg]
      BY <2>3, <2>8
    <3>2. SumFunctionOnSet(Standing', Team(a, leg)) = SumFunctionOnSet(Standing, Team(a, leg))
      BY <1>1, <2>6, <2>8, SumsAgree
    <3> QED
      BY <1>1, <2>4, <3>1, <3>2
  <2> QED
    BY <2>7, <2>8
<1> QED
  BY <1>3, <1>4, <1>5, <1>6, QuietSteps, StepCases

LEMMA BooksStep ==
  ASSUME PackInv, [Next]_vars
  PROVE  PackBooksAgree'
<1>1. (OneApplied <=> OnePaid)'
  BY OnePaidIsOneApplied, PTL
<1> QED
  BY <1>1, TypeStep, LegsStep, OnePaidStep, BonusStep DEF PackBooksAgree

-----------------------------------------------------------------------------
(* Checkouts and payments only go forward.                                  *)

LEMMA CheckoutsStep ==
  ASSUME PackInv, [Next]_vars
  PROVE  /\ CheckoutsAreIssued'
         /\ \A g \in Refs : Issued(g) => /\ Issued(g)' /\ Buyer(g)' = Buyer(g)
                                         /\ checkout[g].used => checkout'[g].used
<1> TypeOK /\ CheckoutsAreIssued
  BY DEF PackInv, PackBooksAgree
<1> SUFFICES ASSUME NEW g \in Refs
             PROVE  /\ Issued(g)' => checkout'[g].pack \in Packs
                    /\ ~Issued(g)' => /\ ~checkout'[g].used /\ ~checkout'[g].handled
                                      /\ payment'[g] = "unpaid" /\ issue'[g] = "none"
                    /\ Issued(g) => /\ Issued(g)' /\ Buyer(g)' = Buyer(g)
                                    /\ checkout[g].used => checkout'[g].used
  BY DEF CheckoutsAreIssued
<1> DEFINE Good == /\ Issued(g)' => checkout'[g].pack \in Packs
                   /\ ~Issued(g)' => /\ ~checkout'[g].used /\ ~checkout'[g].handled
                                     /\ payment'[g] = "unpaid" /\ issue'[g] = "none"
                   /\ Issued(g) => /\ Issued(g)' /\ Buyer(g)' = Buyer(g)
                                   /\ checkout[g].used => checkout'[g].used
<1>1. /\ Issued(g) => checkout[g].pack \in Packs
      /\ ~Issued(g) => /\ ~checkout[g].used /\ ~checkout[g].handled
                       /\ payment[g] = "unpaid" /\ issue[g] = "none"
  BY DEF CheckoutsAreIssued
<1>2. ASSUME checkout'[g] = checkout[g], Issued(g) \/ payment'[g] = payment[g],
             Issued(g) \/ issue'[g] = issue[g]
      PROVE  Good
  BY <1>1, <1>2 DEF Issued, Buyer
<1>3. ASSUME NEW f \in Refs, Buyer(f) \in Members, BonusStepped(f),
             payment' = payment, issue' = issue
      PROVE  Good
  <2>1. CASE g # f
    BY <1>2, <1>3, <2>1, BonusTypes
  <2>2. CASE g = f
    <3>1. Issued(g)
      BY <1>3, <2>2, SponsorAssumption DEF Issued
    <3>2. checkout'[g].by = checkout[g].by /\ checkout'[g].pack = checkout[g].pack
          /\ checkout'[g].used = checkout[g].used
      BY <1>3, BonusTypes
    <3> QED
      BY <1>1, <3>1, <3>2 DEF Issued, Buyer
  <2> QED
    BY <2>1, <2>2
<1>4. ASSUME NEW w \in Workers, OnlyWork(w) PROVE Good
  <2>1. CASE Record(w)
    <3>1. job[w].ref \in Refs /\ Issued(job[w].ref)
      BY <2>1 DEF PackInv, WorkersKnow, Record
    <3>2. checkout' = checkout /\ payment' = payment /\ (g # job[w].ref => issue'[g] = issue[g])
      BY <2>1 DEF Record, TypeOK
    <3> QED
      BY <1>2, <3>1, <3>2
  <2>2. CASE ~Record(w)
    <3>1. issue' = issue /\ checkout' = checkout /\ payment' = payment
      BY <1>4, <2>2 DEF OnlyWork, Bring, HearOfRefundOnly, HearOfDispute, Reconcile,
         FindNothing, FindProblem, BeginPlacing, RollBack, Recheck, Flag, Fails,
         ConsumeFails, Crash
    <3> QED
      BY <1>2, <3>1
  <2> QED
    BY <2>1, <2>2
<1>5. ASSUME NEW w \in Workers, CommitPlacing(w) PROVE Good
  <2>1. PICK f \in Refs, d \in Members, pack \in Packs : CommitStep(w, f, d, pack)
    BY <1>5, CommitEffects
  <2>2. checkout'[g].by = checkout[g].by /\ checkout'[g].pack = checkout[g].pack
        /\ checkout'[g].handled = checkout[g].handled
    BY <2>1, CommitRows
  <2>3. payment' = payment /\ issue' = issue
    BY <2>1 DEF CommitStep
  <2>4. CASE g = f
    <3>1. checkout[f].by = d /\ checkout[f].pack = pack /\ checkout'[f].used
      BY <2>1, CommitRows
    <3>2. d # None
      BY SponsorAssumption
    <3> QED
      BY <2>2, <2>4, <3>1, <3>2 DEF Issued, Buyer
  <2>5. CASE g # f
    <3>1. checkout'[g].used = checkout[g].used
      BY <2>1, <2>5, CommitRows
    <3> QED
      BY <1>1, <2>2, <2>3, <3>1 DEF Issued, Buyer
  <2> QED
    BY <2>4, <2>5
<1>6. ASSUME NEW w \in Workers, NEW f \in Refs, HearOfRefund(w, f) PROVE Good
  BY <1>3, <1>6, RefundEffects
<1>7. ASSUME NEW d \in Buyers, NEW pack \in Packs, NEW f \in Refs, Select(d, pack, f)
      PROVE  Good
  <2>1. CASE g # f
    BY <1>2, <1>7, <2>1, SelectRows
  <2>2. CASE g = f
    <3>1. d # None
      BY <1>7, SelectRows, SponsorAssumption
    <3> QED
      BY <1>7, <2>2, <3>1, SelectRows DEF Issued, Buyer
  <2> QED
    BY <2>1, <2>2
<1>8. ASSUME NEW d \in Cancellers, Cancel(d) PROVE Good
  <2>1. PICK f \in Refs, pack \in Packs : d \in Members /\ CancelStep(d, f, pack)
    BY <1>8, CancelEffects
  <2> QED
    BY <1>3, <2>1 DEF CancelStep
<1>9. ASSUME NEW f \in Refs, PaymentMoves(f) PROVE Good
  <2>1. checkout' = checkout /\ issue' = issue /\ Issued(f)
        /\ (g # f => payment'[g] = payment[g])
    BY <1>9 DEF PaymentMoves, TypeOK
  <2> QED
    BY <1>2, <2>1
<1>10. ASSUME \/ \E d \in Cancellers : WindowCloses(d)
              \/ \E s \in Spending : Spend(s)
              \/ UNCHANGED vars
       PROVE  Good
  BY <1>2, <1>10 DEF WindowCloses, Spend, vars
<1> QED
  BY <1>4, <1>5, <1>6, <1>7, <1>8, <1>9, <1>10, StepCases

\* Who has had a pack has had it for good, and selects nothing any more.
LEMMA MembersStep ==
  ASSUME PackInv, [Next]_vars
  PROVE  \A m \in Members :
           /\ Settled(m) => Settled(m)' /\ member'[m].selected = member[m].selected
           /\ member[m].cancelled => member'[m].cancelled
<1> TypeOK
  BY DEF PackInv, PackBooksAgree
<1> DEFINE Good == \A m \in Members :
             /\ Settled(m) => Settled(m)' /\ member'[m].selected = member[m].selected
             /\ member[m].cancelled => member'[m].cancelled
<1>1. ASSUME BooksUntouched PROVE Good
  BY <1>1 DEF BooksUntouched, Settled
<1>2. ASSUME NEW w \in Workers, CommitPlacing(w) PROVE Good
  <2>1. PICK f \in Refs, d \in Members, pack \in Packs : CommitStep(w, f, d, pack)
    BY <1>2, CommitEffects
  <2>2. /\ \A m \in Members \ {d} : member'[m] = member[m]
        /\ member'[d].confirmed /\ member'[d].selected = member[d].selected
        /\ ~member[d].cancelled
    BY <2>1, CommitRows
  <2> QED
    BY <2>2 DEF Settled
<1>3. ASSUME NEW d \in Buyers, NEW pack \in Packs, NEW f \in Refs, Select(d, pack, f)
      PROVE  Good
  BY <1>3, SelectRows DEF Settled
<1>4. ASSUME NEW d \in Cancellers, Cancel(d) PROVE Good
  <2>1. PICK f \in Refs, pack \in Packs : d \in Members /\ CancelStep(d, f, pack)
    BY <1>4, CancelEffects
  <2>2. /\ \A m \in Members \ {d} : member'[m] = member[m]
        /\ member'[d].cancelled /\ member'[d].selected = member[d].selected
    BY <2>1, CancelRows
  <2> QED
    BY <2>2 DEF Settled
<1> QED
  BY <1>1, <1>2, <1>3, <1>4, QuietSteps, StepCases

LEMMA PaymentsStep ==
  ASSUME PackInv, [Next]_vars
  PROVE  \A g \in Refs :
           /\ payment[g] = "paid" => payment'[g] \in {"paid", "reversed"}
           /\ payment[g] = "mispaid" => payment'[g] \in {"mispaid", "reversed"}
           /\ payment[g] = "reversed" => payment'[g] = "reversed"
<1> TypeOK
  BY DEF PackInv, PackBooksAgree
<1>1. ASSUME NEW f \in Refs, PaymentMoves(f)
      PROVE  \A g \in Refs :
               /\ payment[g] = "paid" => payment'[g] \in {"paid", "reversed"}
               /\ payment[g] = "mispaid" => payment'[g] \in {"mispaid", "reversed"}
               /\ payment[g] = "reversed" => payment'[g] = "reversed"
  BY <1>1, PaymentAssumption DEF PaymentMoves, TypeOK
<1>2. \/ \E f \in Refs : PaymentMoves(f)
      \/ payment' = payment
  BY StepCases, CommitEffects, RefundEffects DEF OnlyWork, CommitStep, Select, WindowCloses,
     Cancel, Spend, vars
<1> QED
  BY <1>1, <1>2

-----------------------------------------------------------------------------
(* Placements.                                                              *)

\* A worker that is placing somebody has just begun, or was at it before.
LEMMA PlacingSteps ==
  ASSUME PackInv, [Next]_vars, NEW w \in Workers, pc'[w] = "placing"
  PROVE  \/ BeginPlacing(w)
         \/ pc[w] = "placing" /\ job'[w] = job[w] /\ ~CommitPlacing(w)
<1> WorkTypeOK
  BY TypeParts DEF PackInv, PackBooksAgree
<1>1. ASSUME NEW v \in Workers,
             OnlyWork(v) \/ CommitPlacing(v) \/ \E f \in Refs : HearOfRefund(v, f)
      PROVE  \/ BeginPlacing(w)
             \/ pc[w] = "placing" /\ job'[w] = job[w] /\ v # w
  <2>1. CASE v # w
    BY <1>1, <2>1, WorkTypes
  <2>2. CASE v = w
    <3>1. ~Return(w)
      BY ReturnTypes
    <3>2. ~Done(w)
      BY DoneTypes
    <3>3. \A f \in Refs : ~(\/ Bring(w, f) \/ HearOfRefund(w, f) \/ HearOfRefundOnly(w, f)
                            \/ HearOfDispute(w, f) \/ Reconcile(w, f))
      BY StartCases
    <3>4. ~FindProblem(w) /\ ~RollBack(w)
      BY DEF FindProblem, RollBack, WorkTypeOK
    <3>5. ~Recheck(w) /\ ~Flag(w)
      BY <3>2 DEF Recheck, Flag, WorkTypeOK
    <3>6. ~FindNothing(w) /\ ~Record(w) /\ ~ConsumeFails(w) /\ ~CommitPlacing(w) /\ ~Crash(w)
      BY <3>1, <3>2 DEF FindNothing, Record, ConsumeFails, CommitPlacing, Crash
    <3> QED
      BY <1>1, <2>2, <3>3, <3>4, <3>5, <3>6 DEF OnlyWork, Fails
  <2> QED
    BY <2>1, <2>2
<1>2. \/ \E v \in Workers : OnlyWork(v) \/ CommitPlacing(v) \/ \E f \in Refs : HearOfRefund(v, f)
      \/ pc' = pc /\ job' = job
  BY StepCases DEF Select, PaymentMoves, WindowCloses, Cancel, Spend, vars, workVars
<1>3. CommitPlacing(w) => pc'[w] # "placing"
  <2>1. CommitPlacing(w) => Return(w)
    BY DEF CommitPlacing
  <2> QED
    BY <2>1, ReturnTypes
<1> QED
  BY <1>1, <1>2, <1>3

\* What a placement in hand says of its payment and its member.
LEMMA PlacementFacts ==
  ASSUME PackInv, NEW w \in Workers, pc[w] = "placing" \/ pc[w] = "consume"
  PROVE  /\ job[w].ref \in Refs /\ Issued(job[w].ref) /\ Buyer(job[w].ref) \in Members
         /\ pc[w] = "placing" => Buyer(job[w].ref) \in Held(w)
<1>1. job[w].ref \in Refs /\ Issued(job[w].ref)
  BY DEF PackInv, WorkersKnow
<1>2. Buyer(job[w].ref) \in Members
  BY <1>1 DEF PackInv, PackBooksAgree, TypeOK, CheckoutRows, Issued, Buyer
<1>3. pc[w] = "placing" => Buyer(job[w].ref) \in Held(w)
  BY <1>2, SponsorAssumption DEF Held
<1> QED
  BY <1>1, <1>2, <1>3

\* Only his own placement settles a member.
LEMMA WaitingStays ==
  ASSUME PackInv, [Next]_vars, NEW d \in Members, ~Settled(d),
         \A w \in Workers : CommitPlacing(w) => Buyer(job[w].ref) # d
  PROVE  ~member'[d].confirmed /\ ~member'[d].cancelled
<1> DEFINE Good == ~member'[d].confirmed /\ ~member'[d].cancelled
<1>0. ~member[d].confirmed /\ ~member[d].cancelled
  BY DEF Settled
<1>1. ASSUME BooksUntouched PROVE Good
  BY <1>0, <1>1 DEF BooksUntouched
<1>2. ASSUME NEW w \in Workers, CommitPlacing(w) PROVE Good
  <2>1. PICK f \in Refs, m \in Members, pack \in Packs : CommitStep(w, f, m, pack)
    BY <1>2, CommitEffects
  <2>2. m # d
    BY <1>2, <2>1 DEF CommitStep
  <2> QED
    BY <1>0, <2>1, <2>2, CommitRows
<1>3. ASSUME NEW m \in Buyers, NEW pack \in Packs, NEW f \in Refs, Select(m, pack, f)
      PROVE  Good
  BY <1>0, <1>3, SelectRows
<1>4. ASSUME NEW m \in Cancellers, Cancel(m) PROVE Good
  <2>1. PICK f \in Refs, pack \in Packs : m \in Members /\ CancelStep(m, f, pack)
    BY <1>4, CancelEffects
  <2>2. m # d
    BY <1>0, <2>1 DEF CancelStep
  <2> QED
    BY <1>0, <2>1, <2>2, CancelRows
<1> QED
  BY <1>1, <1>2, <1>3, <1>4, QuietSteps, StepCases

LEMMA AloneStep ==
  ASSUME PackInv, [Next]_vars
  PROVE  PlacingIsAlone'
<1> WorkTypeOK
  BY TypeParts DEF PackInv, PackBooksAgree
<1>1. ASSUME NEW w \in Workers, BeginPlacing(w)
      PROVE  /\ job'[w].ref = job[w].ref /\ pc[w] = "consume"
             /\ Sponsor[Buyer(job[w].ref)] # None => job'[w].slot \in Members \X Legs
             /\ Waiting(job[w].ref) /\ payment[job[w].ref] = "paid"
             /\ Lockable(Buyer(job[w].ref)) /\ \A v \in Workers : ~CommitPlacing(v)
  <2> PICK slot : slot = SlotFor(Buyer(job[w].ref))
    OBVIOUS
  <2>1. job' = [job EXCEPT ![w] = [job[w] EXCEPT !.slot = slot]] /\ job[w] \in Jobs
    BY <1>1 DEF BeginPlacing, WorkTypeOK
  <2>2. job'[w].ref = job[w].ref /\ job'[w].slot = slot
    BY <2>1 DEF WorkTypeOK, Jobs
  <2>3. member' = member
    BY <1>1 DEF BeginPlacing
  <2>4. \A v \in Workers : ~CommitPlacing(v)
    BY <2>3, CommitEffects, CommitRows
  <2> QED
    BY <1>1, <2>2, <2>4 DEF BeginPlacing
<1>2. ASSUME NEW w \in Workers, pc'[w] = "placing"
      PROVE  /\ job'[w].ref = job[w].ref /\ job[w].ref \in Refs /\ Issued(job[w].ref)
             /\ Buyer(job[w].ref) \in Members /\ Buyer(job[w].ref)' = Buyer(job[w].ref)
             /\ Waiting(job[w].ref) /\ payment[job[w].ref] \in {"paid", "reversed"}
             /\ Sponsor[Buyer(job[w].ref)] # None => job'[w].slot \in Members \X Legs
             /\ BeginPlacing(w) \/ (pc[w] = "placing" /\ ~CommitPlacing(w))
  <2>1. /\ job'[w].ref = job[w].ref
        /\ Waiting(job[w].ref) /\ payment[job[w].ref] \in {"paid", "reversed"}
        /\ Sponsor[Buyer(job[w].ref)] # None => job'[w].slot \in Members \X Legs
        /\ BeginPlacing(w) \/ (pc[w] = "placing" /\ ~CommitPlacing(w))
        /\ pc[w] \in {"consume", "placing"}
    BY <1>1, <1>2, PlacingSteps DEF PackInv, PlacingIsAlone
  <2>2. job[w].ref \in Refs /\ Issued(job[w].ref) /\ Buyer(job[w].ref) \in Members
    BY <2>1, PlacementFacts
  <2>3. checkout'[job[w].ref].by = checkout[job[w].ref].by
    BY <2>2, CheckoutsStep DEF Buyer
  <2> QED
    BY <2>1, <2>2, <2>3 DEF Buyer
<1>3. ASSUME NEW v \in Workers, NEW w \in Workers, pc'[v] = "placing", pc'[w] = "placing",
             Buyer(job[v].ref) = Buyer(job[w].ref)
      PROVE  v = w
  <2>1. CASE pc[v] = "placing" /\ pc[w] = "placing"
    BY <1>3, <2>1 DEF PackInv, PlacingIsAlone
  <2>2. ASSUME NEW x \in Workers, NEW y \in Workers, pc[x] = "placing", BeginPlacing(y),
               Buyer(job[x].ref) = Buyer(job[y].ref)
        PROVE  FALSE
    BY <1>1, <2>2, PlacementFacts DEF Lockable
  <2>3. CASE BeginPlacing(v) /\ BeginPlacing(w)
    <3>1. pc' = [pc EXCEPT ![v] = "placing"] /\ pc[w] = "consume"
      BY <2>3 DEF BeginPlacing
    <3> QED
      BY <1>3, <3>1 DEF WorkTypeOK
  <2> QED
    BY <1>2, <1>3, <2>1, <2>2, <2>3
<1>4. ASSUME NEW w \in Workers, pc'[w] = "placing"
      PROVE  ~member'[Buyer(job[w].ref)].confirmed /\ ~member'[Buyer(job[w].ref)].cancelled
  <2>1. ~Settled(Buyer(job[w].ref)) /\ Buyer(job[w].ref) \in Members
    BY <1>2, <1>4 DEF Waiting, Settled
  <2>2. ASSUME NEW v \in Workers, CommitPlacing(v)
        PROVE  Buyer(job[v].ref) # Buyer(job[w].ref)
    <3>1. pc[w] = "placing" /\ ~CommitPlacing(w)
      BY <1>1, <1>2, <1>4, <2>2
    <3>2. pc[v] = "placing"
      BY <2>2 DEF CommitPlacing
    <3> QED
      BY <2>2, <3>1, <3>2 DEF PackInv, PlacingIsAlone
  <2> QED
    BY <2>1, <2>2, WaitingStays
<1>5. ASSUME NEW w \in Workers, pc'[w] = "placing"
      PROVE  /\ Waiting(job[w].ref)' /\ payment'[job'[w].ref] \in {"paid", "reversed"}
             /\ Sponsor[Buyer(job[w].ref)'] # None => job'[w].slot \in Members \X Legs
  <2>1. payment'[job[w].ref] \in {"paid", "reversed"}
    BY <1>2, <1>5, PaymentsStep
  <2>2. PICK f : f = job[w].ref
    OBVIOUS
  <2>3. f = job'[w].ref /\ checkout'[f].by = checkout[f].by
    BY <1>2, <1>5, <2>2 DEF Buyer
  <2> QED
    BY <1>2, <1>4, <1>5, <2>1, <2>2, <2>3 DEF Waiting, Buyer
<1>6. ASSUME NEW v \in Workers, NEW w \in Workers, pc'[v] = "placing", pc'[w] = "placing",
             checkout'[job'[v].ref].by = checkout'[job'[w].ref].by
      PROVE  v = w
  <2>1. checkout'[job[v].ref].by = checkout[job[v].ref].by
        /\ checkout'[job[w].ref].by = checkout[job[w].ref].by
        /\ job'[v].ref = job[v].ref /\ job'[w].ref = job[w].ref
    BY <1>2, <1>6, CheckoutsStep DEF Buyer
  <2> QED
    BY <1>3, <1>6, <2>1 DEF Buyer
<1> QED
  BY <1>5, <1>6 DEF PlacingIsAlone, Waiting, Buyer

-----------------------------------------------------------------------------
(* What workers have learned stays true.                                    *)

LEMMA FaultsStep ==
  ASSUME PackInv, [Next]_vars
  PROVE  faults' \in Nat /\ faults \in Nat /\ faults <= faults'
<1>1. faults \in Nat
  BY BoundAssumption DEF PackInv, PackBooksAgree, TypeOK
<1>2. faults' = faults \/ faults' = faults + 1
  BY StepCases, CommitEffects, RefundEffects DEF OnlyWork, CommitStep, Select, PaymentMoves,
     WindowCloses, Cancel, Spend, vars, Bring, HearOfRefundOnly, HearOfDispute, Reconcile,
     FindNothing, FindProblem, BeginPlacing, RollBack, Record, Recheck, Flag, Fails,
     ConsumeFails, Crash, Fault
<1> QED
  BY <1>1, <1>2

\* Only its own placement applies a payment.
LEMMA UsedStays ==
  ASSUME PackInv, [Next]_vars, NEW f \in Refs, Issued(f), ~checkout[f].used, ~Placing(f)
  PROVE  ~checkout'[f].used
<1>1. ASSUME BooksUntouched PROVE ~checkout'[f].used
  BY <1>1 DEF BooksUntouched
<1>2. ASSUME NEW w \in Workers, CommitPlacing(w) PROVE ~checkout'[f].used
  <2>1. PICK g \in Refs, d \in Members, pack \in Packs : CommitStep(w, g, d, pack)
    BY <1>2, CommitEffects
  <2>2. g # f
    BY <2>1 DEF CommitStep, Placing
  <2> QED
    BY <2>1, <2>2, CommitRows
<1>3. ASSUME NEW d \in Buyers, NEW pack \in Packs, NEW g \in Refs, Select(d, pack, g)
      PROVE  ~checkout'[f].used
  BY <1>3, SelectRows
<1>4. ASSUME NEW d \in Cancellers, Cancel(d) PROVE ~checkout'[f].used
  <2>1. PICK g \in Refs, pack \in Packs : d \in Members /\ CancelStep(d, g, pack)
    BY <1>4, CancelEffects
  <2> QED
    BY <2>1, CancelRows
<1> QED
  BY <1>1, <1>2, <1>3, <1>4, QuietSteps, StepCases

LEMMA DeadStays ==
  ASSUME PackInv, [Next]_vars, NEW f \in Refs, Issued(f), Dead(f)
  PROVE  Dead(f)'
<1>1. Buyer(f) \in Members /\ Buyer(f)' = Buyer(f)
  BY CheckoutsStep DEF PackInv, PackBooksAgree, TypeOK, CheckoutRows, Issued, Buyer
<1>2. payment'[f] \in {"mispaid", "reversed"} \/ Settled(Buyer(f))'
  <2>1. CASE payment[f] \in {"mispaid", "reversed"}
    BY <2>1, PaymentsStep
  <2>2. CASE Settled(Buyer(f))
    <3> PICK d \in Members : d = Buyer(f) /\ d = Buyer(f)'
      BY <1>1
    <3>1. Settled(d)'
      BY <2>2, MembersStep
    <3> QED
      BY <3>1 DEF Settled
  <2> QED
    BY <2>1, <2>2 DEF Dead
<1>3. ASSUME NEW w \in Workers, pc'[w] = "placing", job'[w].ref = f PROVE FALSE
  <2>1. CASE BeginPlacing(w)
    <3> PICK slot : slot = SlotFor(Buyer(job[w].ref))
      OBVIOUS
    <3>1. job' = [job EXCEPT ![w] = [job[w] EXCEPT !.slot = slot]] /\ job[w] \in Jobs
      BY <2>1 DEF BeginPlacing, PackInv, PackBooksAgree, TypeOK
    <3>2. job[w].ref = f
      BY <1>3, <3>1 DEF PackInv, PackBooksAgree, TypeOK, Jobs
    <3> QED
      BY <2>1, <3>2 DEF BeginPlacing, Waiting, Dead, Settled
  <2>2. CASE pc[w] = "placing" /\ job'[w] = job[w]
    BY <1>3, <2>2 DEF Dead, Placing
  <2> QED
    BY <1>3, <2>1, <2>2, PlacingSteps
<1>4. ~checkout'[f].used
  BY UsedStays DEF Dead
<1> QED
  BY <1>2, <1>3, <1>4 DEF Dead, Placing

LEMMA ReasonsStay ==
  ASSUME PackInv, [Next]_vars, NEW f \in Refs, Issued(f)
  PROVE  /\ Issued(f)' /\ (payment[f] # "unpaid" => payment'[f] # "unpaid")
         /\ Settled(Buyer(f)) => Settled(Buyer(f))'
         /\ FirstFailed(f) => FirstFailed(f)'
         /\ SecondFailed(f) => SecondFailed(f)'
         /\ Reason(f) => Reason(f)'
<1>1. Buyer(f) \in Members /\ Buyer(f)' = Buyer(f)
  BY CheckoutsStep DEF PackInv, PackBooksAgree, TypeOK, CheckoutRows, Issued, Buyer
<1> PICK d \in Members : d = Buyer(f) /\ d = Buyer(f)'
  BY <1>1
<1>2. Settled(d) => Settled(d)' /\ member'[d].selected = member[d].selected
  BY MembersStep
<1>3. member[d].cancelled => member'[d].cancelled
  BY MembersStep
<1>4. Settled(Buyer(f)) => Settled(Buyer(f))'
  BY <1>2 DEF Settled
<1>5. Dead(f) => Dead(f)'
  BY DeadStays
<1>6. faults' \in Nat /\ faults \in Nat /\ faults <= faults'
  BY FaultsStep
<1>7. payment[f] # "unpaid" => payment'[f] # "unpaid"
  BY PaymentsStep DEF PackInv, PackBooksAgree, TypeOK, PaymentStates
<1>8. Issued(f)'
  BY CheckoutsStep
<1>9. FirstFailed(f) => FirstFailed(f)'
  BY <1>4, <1>5, <1>6 DEF FirstFailed
<1>10. SecondFailed(f) => SecondFailed(f)'
  BY <1>4, <1>5, <1>6 DEF SecondFailed
<1>11. Reason(f) => Reason(f)'
  BY <1>2, <1>3, <1>4, <1>5, <1>6 DEF Reason
<1> QED
  BY <1>4, <1>7, <1>8, <1>9, <1>10, <1>11

\* What one worker knows.
Known(w) ==
  LET f == job[w].ref
  IN  /\ pc[w] # "idle" => f \in Refs /\ Issued(f)
      /\ job[w].via # "event" => /\ payment[f] # "unpaid"
                                 /\ pc[w] = "record" => job[w].kind = "not_applied"
      /\ pc[w] = "recheck" => job[w].via = "first" /\ FirstFailed(f)
      /\ job[w].via = "second" => FirstFailed(f)
      /\ pc[w] = "flag" => job[w].via = "second" /\ SecondFailed(f)
      /\ pc[w] = "record" /\ job[w].kind = "not_applied" => Reason(f)
      /\ pc[w] = "idle" => job[w] = NoJob

LEMMA KnownIsAll == WorkersKnow <=> \A w \in Workers : Known(w)
BY DEF WorkersKnow, Known

\* An idle worker knows nothing, and nothing false.
LEMMA IdleKnows ==
  ASSUME NEW w \in Workers, pc[w] = "idle", job[w] = NoJob
  PROVE  Known(w)
BY DEF Known, NoJob, JobFor

\* Whoever does nothing still knows what he knew.
LEMMA KnownStays ==
  ASSUME PackInv, [Next]_vars, NEW w \in Workers, pc'[w] = pc[w], job'[w] = job[w]
  PROVE  Known(w)'
<1>1. Known(w)
  BY KnownIsAll DEF PackInv
<1>2. CASE pc[w] = "idle"
  <2>1. job[w] = NoJob
    BY <1>1, <1>2 DEF Known
  <2>2. pc'[w] = "idle" /\ job'[w] = NoJob
    BY <1>2, <2>1
  <2>3. (pc[w] = "idle" /\ job[w] = NoJob => Known(w))'
    BY IdleKnows, PTL
  <2> QED
    BY <2>2, <2>3
<1>3. CASE pc[w] # "idle"
  <2> PICK f \in Refs : f = job[w].ref /\ Issued(f)
    BY <1>1, <1>3 DEF Known
  <2> QED
    BY <1>1, <1>3, ReasonsStay DEF Known
<1> QED
  BY <1>2, <1>3

LEMMA IdleKnowsNext ==
  ASSUME NEW w \in Workers, pc'[w] = "idle", job'[w] = NoJob
  PROVE  Known(w)'
<1>1. (pc[w] = "idle" /\ job[w] = NoJob => Known(w))'
  BY IdleKnows, PTL
<1> QED
  BY <1>1

\* Nobody is placing the member of a payment whose row can be locked.
LEMMA LockableIsFree ==
  ASSUME PackInv, NEW f \in Refs, Lockable(Buyer(f))
  PROVE  ~Placing(f)
BY PlacementFacts DEF Placing, Lockable

\* A payment that was applied settled its member.
LEMMA UsedSettles ==
  ASSUME PackInv, NEW f \in Refs, Issued(f), checkout[f].used
  PROVE  Settled(Buyer(f))
<1>1. Buyer(f) \in Members /\ f \in Applied(Buyer(f))
  BY DEF PackInv, PackBooksAgree, TypeOK, CheckoutRows, Issued, Buyer, Applied
<1> QED
  BY <1>1, OnePaidIsOneApplied DEF PackInv, PackBooksAgree, OnePaid, Settled

\* An attempt finds nothing to do for a reason.
LEMMA NothingFound ==
  ASSUME PackInv, NEW w \in Workers, FindNothing(w), job[w].via # "event"
  PROVE  Settled(Buyer(job[w].ref)) \/ Dead(job[w].ref)
<1> PICK f : f = job[w].ref
  OBVIOUS
<1>1. f \in Refs /\ Issued(f) /\ payment[f] # "unpaid" /\ Lockable(Buyer(f))
      /\ payment[f] \in PaymentStates
  BY DEF PackInv, PackBooksAgree, TypeOK, WorkersKnow, FindNothing
<1>2. CASE Settled(Buyer(f))
  BY <1>2
<1>3. CASE ~Settled(Buyer(f))
  <2>1. ~checkout[f].used
    BY <1>1, <1>3, UsedSettles
  <2>2. ~Success(f)
    BY <1>3 DEF FindNothing, Settled
  <2>3. payment[f] = "reversed"
    BY <1>1, <2>2 DEF Success, PaymentStates
  <2> QED
    BY <1>1, <2>1, <2>3, LockableIsFree DEF Dead
<1> QED
  BY <1>2, <1>3

\* A problem that is found is one.
LEMMA ProblemFound ==
  ASSUME PackInv, NEW w \in Workers, FindProblem(w)
  PROVE  Reason(job[w].ref)
<1> PICK f : f = job[w].ref
  OBVIOUS
<1>1. f \in Refs /\ Issued(f) /\ Lockable(Buyer(f)) /\ IsProblem(f)
  BY DEF PackInv, WorkersKnow, FindProblem
<1>2. ~Placing(f)
  BY <1>1, LockableIsFree
<1>3. CASE member[Buyer(f)].confirmed
  BY <1>1, <1>2, <1>3 DEF IsProblem, Reason, Dead, Settled
<1>4. CASE ~member[Buyer(f)].confirmed /\ member[Buyer(f)].cancelled
  BY <1>4 DEF Reason
<1>5. CASE ~member[Buyer(f)].confirmed /\ ~member[Buyer(f)].cancelled
  <2>1. ~checkout[f].used
    BY <1>1, <1>5, UsedSettles DEF Settled
  <2> QED
    BY <1>1, <1>2, <1>5, <2>1 DEF IsProblem, Reason, Dead
<1> QED
  BY <1>3, <1>4, <1>5

\* After consume_paid_starter_pack a reconciling worker knows why it is back.
LEMMA ReturnKnows ==
  ASSUME PackInv, [Next]_vars, NEW w \in Workers, Return(w), pc[w] # "idle",
         NEW f \in Refs, f = job[w].ref, Issued(f),
         job[w].via # "event" => FirstFailed(f)',
         job[w].via = "second" => SecondFailed(f)'
  PROVE  Known(w)'
<1> WorkTypeOK
  BY TypeParts DEF PackInv, PackBooksAgree
<1>1. CASE job[w].via = "event"
  BY <1>1, ReturnTypes, IdleKnowsNext
<1>2. CASE job[w].via # "event"
  <2>1. payment'[f] # "unpaid" /\ Issued(f)'
    BY <1>2, ReasonsStay DEF PackInv, WorkersKnow
  <2>2. \/ /\ job[w].via = "first" /\ pc'[w] = "recheck"
           /\ job'[w].via = "first" /\ job'[w].ref = f
        \/ /\ job[w].via = "second" /\ pc'[w] = "flag"
           /\ job'[w].via = "second" /\ job'[w].ref = f
    BY <1>2, ReturnTypes
  <2> QED
    BY <1>2, <2>1, <2>2 DEF Known
<1> QED
  BY <1>1, <1>2

\* What a worker knows after a step of its own.
LEMMA ActorKnows ==
  ASSUME PackInv, [Next]_vars, NEW w \in Workers,
         OnlyWork(w) \/ CommitPlacing(w) \/ \E f \in Refs : HearOfRefund(w, f)
  PROVE  Known(w)'
<1>0. TypeOK /\ WorkTypeOK /\ Known(w) /\ job[w] \in Jobs
  BY TypeParts, KnownIsAll DEF PackInv, PackBooksAgree, WorkTypeOK
<1> PICK f : f = job[w].ref
  OBVIOUS
<1>1. ASSUME pc[w] # "idle"
      PROVE  /\ f \in Refs /\ Issued(f) /\ Issued(f)'
             /\ job[w].via # "event" => payment[f] # "unpaid" /\ payment'[f] # "unpaid"
             /\ Settled(Buyer(f)) => Settled(Buyer(f))'
             /\ FirstFailed(f) => FirstFailed(f)'
             /\ SecondFailed(f) => SecondFailed(f)'
             /\ Reason(f) => Reason(f)'
             /\ job[w].via = "second" => FirstFailed(f)'
  <2>1. f \in Refs /\ Issued(f) /\ (job[w].via # "event" => payment[f] # "unpaid")
        /\ (job[w].via = "second" => FirstFailed(f))
    BY <1>0, <1>1 DEF Known
  <2> QED
    BY <2>1, ReasonsStay
<1>2. CASE \E g \in Refs : \/ Bring(w, g) \/ HearOfRefund(w, g) \/ HearOfRefundOnly(w, g)
                           \/ HearOfDispute(w, g) \/ Reconcile(w, g)
  <2>1. PICK g \in Refs : \/ Bring(w, g) \/ HearOfRefund(w, g) \/ HearOfRefundOnly(w, g)
                          \/ HearOfDispute(w, g) \/ Reconcile(w, g)
    BY <1>2
  <2>2. /\ pc'[w] \in {"consume", "record"} /\ job'[w].ref = g
        /\ \/ Bring(w, g) /\ pc'[w] = "consume" /\ job'[w].via = "event"
           \/ Reconcile(w, g) /\ pc'[w] = "consume" /\ job'[w].via = "first"
           \/ /\ payment[g] # "unpaid" /\ pc'[w] = "record" /\ job'[w].via = "event"
              /\ job'[w].kind # "not_applied"
    BY <1>0, <2>1, StartCases
  <2>3. Issued(g)
    BY <2>2 DEF Bring, Reconcile, PackInv, CheckoutsAreIssued
  <2>4. Issued(g)'
    BY <2>3, CheckoutsStep
  <2>5. Reconcile(w, g) => payment'[g] # "unpaid"
    BY DEF Reconcile, Success
  <2> QED
    BY <2>2, <2>4, <2>5 DEF Known
<1>3. CASE FindNothing(w)
  <2>1. Return(w) /\ pc[w] # "idle"
    BY <1>3 DEF FindNothing
  <2>2. job[w].via # "event" => Settled(Buyer(f)) \/ Dead(f)
    BY <1>3, NothingFound
  <2>3. job[w].via # "event" => FirstFailed(f) /\ SecondFailed(f)
    BY <2>2 DEF FirstFailed, SecondFailed
  <2> QED
    BY <1>1, <2>1, <2>3, ReturnKnows
<1>4. CASE FindProblem(w)
  <2>1. Reason(f) /\ pc[w] # "idle"
    BY <1>4, ProblemFound DEF FindProblem
  <2>2. pc'[w] = "record"
        /\ job' = [job EXCEPT ![w] = [job[w] EXCEPT !.kind = "not_applied"]]
    BY <1>0, <1>4 DEF FindProblem, TypeOK
  <2>3. job'[w].ref = f /\ job'[w].via = job[w].via /\ job'[w].kind = "not_applied"
    BY <1>0, <2>2 DEF TypeOK, Jobs
  <2> QED
    BY <1>1, <2>1, <2>2, <2>3 DEF Known
<1>5. CASE BeginPlacing(w)
  <2> PICK slot : slot = SlotFor(Buyer(f))
    OBVIOUS
  <2>1. pc[w] # "idle" /\ pc'[w] = "placing"
        /\ job' = [job EXCEPT ![w] = [job[w] EXCEPT !.slot = slot]]
    BY <1>0, <1>5 DEF BeginPlacing, TypeOK
  <2>2. job'[w].ref = f /\ job'[w].via = job[w].via
    BY <1>0, <2>1 DEF TypeOK, Jobs
  <2> QED
    BY <1>1, <2>1, <2>2 DEF Known
<1>6. CASE CommitPlacing(w)
  <2>1. PICK g \in Refs, d \in Members, pack \in Packs : CommitStep(w, g, d, pack)
    BY <1>6, CommitEffects
  <2>2. g = f /\ pc[w] = "placing" /\ Return(w)
    BY <1>6, <2>1 DEF CommitStep, CommitPlacing
  <2>3. checkout'[f].by = d /\ member'[d].confirmed
    BY <2>1, <2>2, CommitRows
  <2>4. FirstFailed(f)' /\ SecondFailed(f)'
    BY <2>3 DEF FirstFailed, SecondFailed, Settled, Buyer
  <2> QED
    BY <1>1, <2>2, <2>4, ReturnKnows
<1>7. CASE RollBack(w)
  <2>1. pc[w] = "placing"
    BY <1>7 DEF RollBack, Waits
  <2>2. pc'[w] = "consume" /\ job' = [job EXCEPT ![w] = [job[w] EXCEPT !.slot = <<>>]]
    BY <1>0, <1>7 DEF RollBack, TypeOK
  <2>3. job'[w].ref = f /\ job'[w].via = job[w].via
    BY <1>0, <2>2 DEF TypeOK, Jobs
  <2> QED
    BY <1>1, <2>1, <2>2, <2>3 DEF Known
<1>8. CASE Record(w)
  <2>1. Return(w) /\ pc[w] = "record"
    BY <1>8 DEF Record
  <2>2. job[w].via # "event" => Reason(f)
    BY <1>0, <2>1 DEF Known
  <2>3. Reason(f) => FirstFailed(f) /\ SecondFailed(f)
    BY FaultsStep DEF Reason, FirstFailed, SecondFailed, Settled
  <2> QED
    BY <1>1, <2>1, <2>2, <2>3, ReturnKnows
<1>9. CASE ConsumeFails(w)
  <2>1. Return(w) /\ pc[w] # "idle" /\ faults' = faults + 1 /\ faults \in Nat
    BY <1>9, FaultsStep DEF ConsumeFails, Fault
  <2>2. FirstFailed(f)'
    BY <2>1 DEF FirstFailed
  <2>3. CASE job[w].via = "second"
    <3>1. FirstFailed(f)
      BY <1>0, <2>3 DEF Known
    <3>2. f \in Refs /\ Issued(f)
      BY <1>1, <2>1
    <3>3. Settled(Buyer(f))' \/ Dead(f)' \/ faults' >= 2
      BY <1>1, <2>1, <3>1, <3>2, DeadStays DEF FirstFailed
    <3>4. SecondFailed(f)'
      BY <3>3 DEF SecondFailed
    <3> QED
      BY <2>1, <2>2, <3>2, <3>4, ReturnKnows
  <2>4. CASE job[w].via # "second"
    BY <1>1, <2>1, <2>2, <2>4, ReturnKnows
  <2> QED
    BY <2>3, <2>4
<1>10. CASE Recheck(w)
  <2>1. CASE Done(w)
    BY <1>0, <2>1, DoneTypes, IdleKnowsNext
  <2>2. CASE ~Done(w)
    <3>1. pc[w] = "recheck" /\ pc'[w] = "consume"
          /\ job' = [job EXCEPT ![w] = [job[w] EXCEPT !.via = "second"]]
      BY <1>0, <1>10, <2>2 DEF Recheck, TypeOK
    <3>2. job'[w].ref = f /\ job'[w].via = "second"
      BY <1>0, <3>1 DEF TypeOK, Jobs
    <3>3. job[w].via = "first" /\ FirstFailed(f)
      BY <1>0, <3>1 DEF Known
    <3> QED
      BY <1>1, <3>1, <3>2, <3>3 DEF Known
  <2> QED
    BY <2>1, <2>2
<1>11. CASE Flag(w)
  <2>1. CASE Done(w)
    BY <1>0, <2>1, DoneTypes, IdleKnowsNext
  <2>2. CASE ~Done(w)
    <3>1. /\ pc[w] = "flag" /\ pc'[w] = "record" /\ ~IsApplied(f)
          /\ job' = [job EXCEPT ![w] = [job[w] EXCEPT !.via = "event", !.kind = "not_applied"]]
      BY <1>0, <1>11, <2>2 DEF Flag, TypeOK
    <3>2. job'[w].ref = f /\ job'[w].via = "event" /\ job'[w].kind = "not_applied"
      <4> PICK j : j = [job[w] EXCEPT !.via = "event", !.kind = "not_applied"]
        OBVIOUS
      <4>1. j.ref = f /\ j.via = "event" /\ j.kind = "not_applied"
        BY <1>0 DEF Jobs
      <4>2. job'[w] = j
        BY <3>1 DEF TypeOK, PackInv, PackBooksAgree
      <4> QED
        BY <4>1, <4>2
    <3>3. SecondFailed(f)
      BY <1>0, <3>1 DEF Known
    <3>4. Reason(f)
      BY <3>1, <3>3 DEF IsApplied, SecondFailed, Settled, Reason
    <3> QED
      BY <1>1, <3>1, <3>2, <3>4 DEF Known
  <2> QED
    BY <2>1, <2>2
<1>12. CASE Crash(w)
  BY <1>0, <1>12, DoneTypes, IdleKnowsNext DEF Crash
<1> QED
  BY <1>2, <1>3, <1>4, <1>5, <1>6, <1>7, <1>8, <1>9, <1>10, <1>11, <1>12 DEF OnlyWork, Fails

LEMMA KnowledgeStep ==
  ASSUME PackInv, [Next]_vars
  PROVE  WorkersKnow'
<1> WorkTypeOK
  BY TypeParts DEF PackInv, PackBooksAgree
<1>1. (WorkersKnow <=> \A w \in Workers : Known(w))'
  BY KnownIsAll, PTL
<1>2. ASSUME NEW w \in Workers PROVE Known(w)'
  <2>1. CASE \E v \in Workers :
               OnlyWork(v) \/ CommitPlacing(v) \/ \E f \in Refs : HearOfRefund(v, f)
    <3> PICK v \in Workers :
               OnlyWork(v) \/ CommitPlacing(v) \/ \E f \in Refs : HearOfRefund(v, f)
      BY <2>1
    <3>1. CASE v = w
      BY <3>1, ActorKnows
    <3>2. CASE v # w
      BY <3>2, WorkTypes, KnownStays
    <3> QED
      BY <3>1, <3>2
  <2>2. CASE pc' = pc /\ job' = job
    BY <2>2, KnownStays
  <2> QED
    BY <2>1, <2>2, StepCases
    DEF Select, PaymentMoves, WindowCloses, Cancel, Spend, vars, workVars
<1> QED
  BY <1>1, <1>2

LEMMA IssuesStep ==
  ASSUME PackInv, [Next]_vars
  PROVE  IssuesHaveReasons'
<1> SUFFICES ASSUME NEW f \in Refs, issue'[f] = "not_applied" PROVE Reason(f)'
  BY DEF IssuesHaveReasons
<1>1. CASE issue'[f] = issue[f]
  <2>1. issue[f] = "not_applied"
    BY <1>1
  <2>2. Issued(f) /\ Reason(f)
    BY <2>1 DEF PackInv, CheckoutsAreIssued, IssuesHaveReasons
  <2> QED
    BY <2>2, ReasonsStay
<1>2. CASE \E w \in Workers : Record(w) /\ job[w].ref = f
  <2>1. PICK w \in Workers : Record(w) /\ job[w].ref = f
    BY <1>2
  <2>2. pc[w] = "record" /\ issue'[f] = job[w].kind
    BY <2>1 DEF Record, PackInv, PackBooksAgree, TypeOK
  <2>3. Issued(f) /\ Reason(f)
    BY <2>1, <2>2 DEF PackInv, WorkersKnow
  <2> QED
    BY <2>3, ReasonsStay
<1>3. issue'[f] = issue[f] \/ \E w \in Workers : Record(w) /\ job[w].ref = f
  <2>1. ASSUME NEW w \in Workers, OnlyWork(w)
        PROVE  issue'[f] = issue[f] \/ (Record(w) /\ job[w].ref = f)
    BY <2>1 DEF OnlyWork, Bring, HearOfRefundOnly, HearOfDispute, Reconcile, FindNothing,
       FindProblem, BeginPlacing, RollBack, Record, Recheck, Flag, Fails, ConsumeFails, Crash,
       PackInv, PackBooksAgree, TypeOK
  <2>2. \/ \E w \in Workers : OnlyWork(w)
        \/ issue' = issue
    BY StepCases, CommitEffects, RefundEffects DEF CommitStep, Select, PaymentMoves,
       WindowCloses, Cancel, Spend, vars
  <2> QED
    BY <2>1, <2>2
<1> QED
  BY <1>1, <1>2, <1>3

-----------------------------------------------------------------------------
(* The tree: ways up.                                                       *)

\* Members and nobody: what stands on a way up.
Stops == Members \cup {None}

LEMMA ParentRowIsOne ==
  ASSUME TreeTypeOK, NEW d \in Members, Placed(d)
  PROVE  /\ ParentRow(d) \in above[d] /\ ParentRow(d).depth = 1 /\ ParentRow(d) \in Rows
         /\ ParentOf(d) = ParentRow(d).ancestor /\ ParentOf(d) \in Members
<1>1. \E e \in above[d] : e.depth = 1
  BY DEF Placed
<1>2. ParentRow(d) \in above[d] /\ ParentRow(d).depth = 1
  BY <1>1 DEF ParentRow
<1>3. ParentRow(d) \in Rows
  BY <1>2 DEF TreeTypeOK
<1> QED
  BY <1>2, <1>3 DEF ParentOf, Rows

LEMMA ParentIsStop ==
  ASSUME TreeTypeOK, NEW x \in Stops
  PROVE  /\ ParentOf(x) \in Stops
         /\ x = None \/ ~Placed(x) => ParentOf(x) = None
         /\ ParentOf(x) # None => x \in Members /\ Placed(x)
<1>1. x = None => x \notin Members
  BY SponsorAssumption
<1> QED
  BY <1>1, ParentRowIsOne DEF ParentOf, Stops

Up(d) == CHOOSE up : up = [k \in Nat |-> IF k = 0 THEN d ELSE ParentOf(up[k - 1])]

LEMMA ChainIsUp ==
  ASSUME NEW d PROVE Chain(d) = [k \in 0 .. Cardinality(Members) |-> Up(d)[k]]
BY DEF Chain, Up

LEMMA UpGoesOn ==
  ASSUME TreeTypeOK, NEW d \in Members
  PROVE  /\ Up(d) \in [Nat -> Stops] /\ Up(d)[0] = d
         /\ \A k \in Nat : Up(d)[k + 1] = ParentOf(Up(d)[k])
<1> DEFINE Climb(up) == [k \in Nat |-> IF k = 0 THEN d ELSE ParentOf(up[k - 1])]
<1>1. \E up : up = Climb(up)
  <2> DEFINE g == [x \in Stops |-> ParentOf(x)]
  <2>1. d \in Stops /\ g \in [Stops -> Stops]
    BY ParentIsStop DEF Stops
  <2>2. \A x \in Stops : g[x] = ParentOf(x)
    OBVIOUS
  <2> HIDE DEF g
  <2>3. PICK f \in [Nat -> Stops] : f[0] = d /\ \A n \in Nat : f[n + 1] = g[f[n]]
    BY <2>1, RepetitionExists
  <2>4. ASSUME NEW k \in Nat PROVE f[k] = IF k = 0 THEN d ELSE ParentOf(f[k - 1])
    <3>1. CASE k = 0
      BY <2>3, <3>1
    <3>2. CASE k # 0
      <4>1. k - 1 \in Nat /\ (k - 1) + 1 = k
        BY <3>2
      <4>2. f[k] = g[f[k - 1]] /\ f[k - 1] \in Stops
        BY <2>3, <4>1
      <4> QED
        BY <2>2, <3>2, <4>2
    <3> QED
      BY <3>1, <3>2
  <2>5. f = Climb(f)
    BY <2>4
  <2> QED
    BY <2>5
<1>2. Up(d) = Climb(Up(d))
  BY <1>1 DEF Up
<1>3. /\ Up(d)[0] = d
      /\ \A k \in Nat : Up(d)[k + 1] = ParentOf(Up(d)[k])
  <2>1. \A k \in Nat : Up(d)[k] = Climb(Up(d))[k]
    BY <1>2
  <2>2. \A k \in Nat : k + 1 # 0 /\ k + 1 \in Nat /\ (k + 1) - 1 = k
    OBVIOUS
  <2> QED
    BY <2>1, <2>2
<1>4. \A k \in Nat : Up(d)[k] \in Stops
  <2> DEFINE Good == {k \in Nat : Up(d)[k] \in Stops}
  <2>1. 0 \in Good
    BY <1>3 DEF Stops
  <2>2. \A k \in Good : k + 1 \in Good
    BY <1>3, ParentIsStop
  <2>3. Good = Nat
    <3>1. Good \in SUBSET Nat
      OBVIOUS
    <3> HIDE DEF Good
    <3> QED
      BY <2>1, <2>2, <3>1, ReachesAll
  <2> QED
    BY <2>3
<1>5. DOMAIN Up(d) = Nat /\ Up(d) = [k \in Nat |-> Up(d)[k]]
  <2>1. DOMAIN Climb(Up(d)) = Nat /\ Climb(Up(d)) = [k \in Nat |-> Climb(Up(d))[k]]
    OBVIOUS
  <2> HIDE DEF Climb
  <2> QED
    BY <1>2, <2>1
<1> QED
  BY <1>3, <1>4, <1>5

\* What lies above a member lies above the parent, one step less.
LEMMA UpFromParent ==
  ASSUME TreeTypeOK, NEW d \in Members, Placed(d)
  PROVE  \A k \in Nat : Up(d)[k + 1] = Up(ParentOf(d))[k]
<1>1. ParentOf(d) \in Members
  BY ParentRowIsOne
<1> DEFINE p == ParentOf(d)
           Good == {k \in Nat : Up(d)[k + 1] = Up(p)[k]}
<1>2. 0 \in Good
  <2>1. Up(d)[0 + 1] = ParentOf(Up(d)[0]) /\ Up(d)[0] = d
    BY UpGoesOn
  <2> QED
    BY <1>1, <2>1, UpGoesOn
<1>3. \A k \in Good : k + 1 \in Good
  BY <1>1, UpGoesOn
<1>4. Good = Nat
  <2>1. Good \in SUBSET Nat
    OBVIOUS
  <2> HIDE DEF Good
  <2> QED
    BY <1>2, <1>3, <2>1, ReachesAll
<1> QED
  BY <1>4

\* Below a stop of the way everybody was placed.
LEMMA WayIsPlaced ==
  ASSUME TreeTypeOK, NEW d \in Members, NEW k \in Nat, Up(d)[k] # None
  PROVE  /\ Up(d)[k] \in Members
         /\ \A j \in 0 .. (k - 1) : /\ Up(d)[j] \in Members /\ Placed(Up(d)[j])
                                    /\ ParentOf(Up(d)[j]) = Up(d)[j + 1]
<1> DEFINE Fine(j) == /\ Up(d)[j] \in Members /\ Placed(Up(d)[j])
                      /\ ParentOf(Up(d)[j]) = Up(d)[j + 1]
           Good == {n \in Nat : Up(d)[n] # None => \A j \in 0 .. (n - 1) : Fine(j)}
<1>1. 0 \in Good
  OBVIOUS
<1>2. ASSUME NEW n \in Good PROVE n + 1 \in Good
  <2> SUFFICES ASSUME Up(d)[n + 1] # None PROVE \A j \in 0 .. n : Fine(j)
    OBVIOUS
  <2>1. Up(d)[n + 1] = ParentOf(Up(d)[n]) /\ Up(d)[n] \in Stops
    BY UpGoesOn
  <2>2. Fine(n) /\ Up(d)[n] # None
    BY <2>1, ParentIsStop, SponsorAssumption
  <2>3. \A j \in 0 .. (n - 1) : Fine(j)
    BY <2>2
  <2> HIDE DEF Fine
  <2> QED
    BY <2>2, <2>3
<1>3. Good = Nat
  <2>1. Good \in SUBSET Nat
    OBVIOUS
  <2> HIDE DEF Good
  <2> QED
    BY <1>1, <1>2, <2>1, ReachesAll
<1>4. Up(d)[k] \in Members
  BY UpGoesOn DEF Stops
<1> QED
  BY <1>3, <1>4

\* Every stop of the way is above, and there is nobody else above.
LEMMA WayGoesUp ==
  ASSUME TreeTypeOK, NEW d \in Members, NEW k \in Nat, Up(d)[k] # None
  PROVE  UpTo(d, Up(d)[k])
<1> SUFFICES ASSUME NEW S \in SUBSET Members, d \in S, Closed(S) PROVE Up(d)[k] \in S
  BY DEF UpTo
<1> DEFINE Good == {n \in Nat : n <= k => Up(d)[n] \in S}
<1>1. 0 \in Good
  BY UpGoesOn
<1>2. ASSUME NEW n \in Good PROVE n + 1 \in Good
  <2> SUFFICES ASSUME n + 1 <= k PROVE Up(d)[n + 1] \in S
    OBVIOUS
  <2>1. n \in 0 .. (k - 1) /\ Up(d)[n] \in S
    OBVIOUS
  <2>2. Placed(Up(d)[n]) /\ ParentOf(Up(d)[n]) = Up(d)[n + 1]
    BY <2>1, WayIsPlaced
  <2> QED
    BY <2>1, <2>2 DEF Closed
<1>3. Good = Nat
  <2>1. Good \in SUBSET Nat
    OBVIOUS
  <2> HIDE DEF Good
  <2> QED
    BY <1>1, <1>2, <2>1, ReachesAll
<1> QED
  BY <1>3

LEMMA WayReaches ==
  ASSUME TreeTypeOK, NEW d \in Members, NEW a, UpTo(d, a)
  PROVE  a \in Members /\ \E k \in Nat : Up(d)[k] = a
<1> DEFINE S == {x \in Members : \E k \in Nat : Up(d)[k] = x}
<1>1. d \in S
  BY UpGoesOn
<1>2. Closed(S)
  <2> SUFFICES ASSUME NEW x \in S, Placed(x) PROVE ParentOf(x) \in S
    BY DEF Closed
  <2>1. PICK k \in Nat : Up(d)[k] = x
    OBVIOUS
  <2>2. Up(d)[k + 1] = ParentOf(x) /\ k + 1 \in Nat
    BY <2>1, UpGoesOn
  <2> QED
    BY <2>2, ParentRowIsOne
<1>3. a \in S
  BY <1>1, <1>2 DEF UpTo
<1> QED
  BY <1>3

LEMMA UpToItself == ASSUME NEW d \in Members PROVE UpTo(d, d)
BY DEF UpTo

LEMMA UpToParent ==
  ASSUME TreeTypeOK, NEW d \in Members, Placed(d)
  PROVE  UpTo(d, ParentOf(d))
BY DEF UpTo, Closed

LEMMA UpToFurther ==
  ASSUME NEW d, NEW a, NEW b, UpTo(d, a), UpTo(a, b)
  PROVE  UpTo(d, b)
BY DEF UpTo

\* Nobody stands on the way twice, so it is no longer than there are members.
LEMMA WayHasNoCircle ==
  ASSUME TreeTypeOK, NoCircles, NEW d \in Members, NEW k \in Nat, NEW j \in 0 .. (k - 1),
         Up(d)[k] # None
  PROVE  Up(d)[j] # Up(d)[k]
<1> SUFFICES ASSUME Up(d)[j] = Up(d)[k] PROVE FALSE
  OBVIOUS
<1> DEFINE S == {Up(d)[n] : n \in j .. (k - 1)}
<1>1. \A n \in j .. (k - 1) : /\ Up(d)[n] \in Members /\ Placed(Up(d)[n])
                              /\ ParentOf(Up(d)[n]) = Up(d)[n + 1]
  BY WayIsPlaced
<1>2. S \in (SUBSET Members) \ {{}}
  <2>1. j \in j .. (k - 1)
    OBVIOUS
  <2> QED
    BY <1>1, <2>1
<1>3. ASSUME NEW n \in j .. (k - 1) PROVE Up(d)[n + 1] \in S
  <2>1. CASE n = k - 1
    <3>1. n + 1 = k /\ j \in j .. (k - 1)
      BY <2>1
    <3> QED
      BY <3>1
  <2>2. CASE n # k - 1
    <3>1. n + 1 \in j .. (k - 1)
      BY <2>2
    <3> QED
      BY <3>1
  <2> QED
    BY <2>1, <2>2
<1>4. \A x \in S : Placed(x) /\ ParentOf(x) \in S
  BY <1>1, <1>3
<1> HIDE DEF S
<1> QED
  BY <1>2, <1>4 DEF NoCircles

LEMMA WayIsShort ==
  ASSUME TreeTypeOK, NoCircles, NEW d \in Members, NEW k \in Nat, Up(d)[k] # None
  PROVE  Cardinality(Members) \in Nat /\ k < Cardinality(Members)
<1>1. IsFiniteSet(Members) /\ Cardinality(Members) \in Nat
  BY SponsorAssumption, FS_CardinalityType
<1> DEFINE f == [i \in 0 .. k |-> Up(d)[i]]
<1>2. \A i \in 0 .. k : Up(d)[i] \in Members /\ Up(d)[i] # None
  <2>1. \A i \in 0 .. k : i = k \/ i \in 0 .. (k - 1)
    OBVIOUS
  <2> QED
    BY <2>1, WayIsPlaced, SponsorAssumption
<1>3. f \in [0 .. k -> Members]
  BY <1>2
<1>4. ASSUME NEW x \in 0 .. k, NEW y \in 0 .. k, x # y PROVE f[x] # f[y]
  <2>1. CASE x < y
    <3>1. y \in Nat /\ x \in 0 .. (y - 1)
      BY <2>1
    <3> QED
      BY <1>2, <3>1, WayHasNoCircle
  <2>2. CASE y < x
    <3>1. x \in Nat /\ y \in 0 .. (x - 1)
      BY <2>2
    <3> QED
      BY <1>2, <3>1, WayHasNoCircle
  <2> QED
    BY <1>4, <2>1, <2>2
<1>5. IsFiniteSet(0 .. k) /\ Cardinality(0 .. k) = k + 1
  BY FS_Interval
<1> HIDE DEF f
<1>6. ~(Cardinality(Members) < Cardinality(0 .. k))
  BY <1>1, <1>3, <1>4, <1>5, FS_PigeonHole
<1> QED
  BY <1>1, <1>5, <1>6

-----------------------------------------------------------------------------
(* The rows and the ways.                                                   *)

LEMMA RowFields ==
  ASSUME TreeTypeOK, NEW d \in Members, NEW e \in above[d]
  PROVE  e \in Rows /\ e.ancestor \in Members /\ e.leg \in Legs /\ e.depth \in Nat /\ e.depth >= 1
<1>1. e \in Rows
  BY DEF TreeTypeOK
<1> QED
  BY <1>1 DEF Rows

LEMMA PositionIsOne ==
  ASSUME TreeTypeOK, PlacedOnce, NEW d \in Members, Placed(d)
  PROVE  PositionOf(d) \in DOMAIN placed /\ placed[PositionOf(d)] = d /\ PositionOf(d) \in Nat
         /\ \A i \in DOMAIN placed : placed[i] = d => i = PositionOf(d)
<1>1. \E i \in DOMAIN placed : placed[i] = d
  BY DEF PlacedOnce
<1>2. PositionOf(d) \in DOMAIN placed /\ placed[PositionOf(d)] = d
  BY <1>1 DEF PositionOf
<1>3. DOMAIN placed \subseteq Nat
  BY DEF TreeTypeOK
<1> QED
  BY <1>2, <1>3 DEF PlacedOnce

\* Each row is a way up by direct rows, and names the leg of the last of them.
LEMMA RowIsWay ==
  ASSUME TreeTypeOK, PlacedOnce, RowsAreCopies, NEW d \in Members, NEW e \in above[d]
  PROVE  /\ Up(d)[e.depth] = e.ancestor
         /\ ParentRow(Up(d)[e.depth - 1]).leg = e.leg
<1> DEFINE Way(m, g) == /\ Up(m)[g.depth] = g.ancestor
                        /\ ParentRow(Up(m)[g.depth - 1]).leg = g.leg
           Good == {n \in Nat : \A m \in Members : \A g \in above[m] :
                                  g.depth = n + 1 => Way(m, g)}
<1>1. 0 \in Good
  <2> SUFFICES ASSUME NEW m \in Members, NEW g \in above[m], g.depth = 0 + 1 PROVE Way(m, g)
    OBVIOUS
  <2>1. Placed(m) /\ g.depth = 1
    BY DEF Placed
  <2>2. g = ParentRow(m) /\ ParentOf(m) = g.ancestor
    BY <2>1, ParentRowIsOne DEF PlacedOnce
  <2>3. Up(m)[0] = m /\ Up(m)[0 + 1] = ParentOf(m)
    BY UpGoesOn
  <2> QED
    BY <2>1, <2>2, <2>3
<1>2. ASSUME NEW n \in Good PROVE n + 1 \in Good
  <2> SUFFICES ASSUME NEW m \in Members, NEW g \in above[m], g.depth = (n + 1) + 1
               PROVE  Way(m, g)
    OBVIOUS
  <2>1. Placed(m) /\ g.depth > 1
    BY DEF PlacedOnce
  <2>2. ParentOf(m) \in Members
    BY <2>1, ParentRowIsOne
  <2>3. PICK h \in above[ParentOf(m)] : g = OneUp(h)
    BY <2>1 DEF RowsAreCopies
  <2>4. h.depth \in Nat /\ h.depth = n + 1 /\ h.ancestor = g.ancestor /\ h.leg = g.leg
    <3>1. h.depth \in Nat
      BY <2>2, RowFields
    <3>2. g.depth = h.depth + 1 /\ h.ancestor = g.ancestor /\ h.leg = g.leg
      BY <2>3 DEF OneUp
    <3> QED
      BY <3>1, <3>2
  <2>5. Way(ParentOf(m), h)
    BY <2>2, <2>4
  <2>6. Up(m)[(n + 1) + 1] = Up(ParentOf(m))[n + 1] /\ Up(m)[n + 1] = Up(ParentOf(m))[n]
    BY <2>1, UpFromParent
  <2>7. g.depth = (n + 1) + 1 /\ g.depth - 1 = n + 1 /\ h.depth - 1 = n
    BY <2>4
  <2> QED
    BY <2>4, <2>5, <2>6, <2>7
<1>3. Good = Nat
  <2>1. Good \in SUBSET Nat
    OBVIOUS
  <2> HIDE DEF Good
  <2> QED
    BY <1>1, <1>2, <2>1, ReachesAll
<1>4. e.depth - 1 \in Nat /\ e.depth = (e.depth - 1) + 1
  BY RowFields
<1>5. e.depth - 1 \in Good
  BY <1>3, <1>4
<1> HIDE DEF Way
<1>6. Way(d, e)
  BY <1>4, <1>5
<1> QED
  BY <1>6 DEF Way

\* A late placement on the way before its k-th stop.
LateOn(d, k) == \E j \in 1 .. (k - 1) : PositionOf(Up(d)[j]) > PositionOf(Up(d)[j - 1])

\* A way on which nobody is late has its row.
LEMMA WayHasRow ==
  ASSUME TreeTypeOK, PlacedOnce, RowsWereCopied, NoCircles,
         NEW d \in Members, NEW k \in Nat, k >= 1, Up(d)[k] # None
  PROVE  LateOn(d, k) \/ \E e \in above[d] : e.ancestor = Up(d)[k] /\ e.depth = k
<1> DEFINE Row(m, n) == \E e \in above[m] : e.ancestor = Up(m)[n] /\ e.depth = n
           Good == {n \in Nat : \A m \in Members :
                      Up(m)[n + 1] # None /\ ~LateOn(m, n + 1) => Row(m, n + 1)}
<1>1. 0 \in Good
  <2> SUFFICES ASSUME NEW m \in Members, Up(m)[0 + 1] # None PROVE Row(m, 0 + 1)
    OBVIOUS
  <2>1. Up(m)[0 + 1] = ParentOf(m)
    BY UpGoesOn
  <2>2. Placed(m)
    BY <2>1, ParentIsStop DEF Stops
  <2>3. ParentRow(m) \in above[m] /\ ParentRow(m).ancestor = ParentOf(m) /\ ParentRow(m).depth = 1
    BY <2>2, ParentRowIsOne
  <2> QED
    BY <2>1, <2>3
<1>2. ASSUME NEW n \in Good PROVE n + 1 \in Good
  <2> SUFFICES ASSUME NEW m \in Members, Up(m)[(n + 1) + 1] # None, ~LateOn(m, (n + 1) + 1)
               PROVE  Row(m, (n + 1) + 1)
    OBVIOUS
  <2> DEFINE p == ParentOf(m)
  <2>1. /\ Placed(m) /\ p \in Members /\ Placed(p)
        /\ Up(m)[0] = m /\ Up(m)[1] = p /\ p # None
    <3>1. 0 \in 0 .. (((n + 1) + 1) - 1) /\ 1 \in 0 .. (((n + 1) + 1) - 1) /\ 0 + 1 = 1
      OBVIOUS
    <3> QED
      BY <3>1, WayIsPlaced, UpGoesOn, SponsorAssumption
  <2>2. \A j \in Nat : Up(m)[j + 1] = Up(p)[j]
    BY <2>1, UpFromParent
  <2>3. PositionOf(p) < PositionOf(m)
    <3>1. ~(PositionOf(p) > PositionOf(m))
      <4>1. 1 \in 1 .. (((n + 1) + 1) - 1) /\ 1 - 1 = 0
        OBVIOUS
      <4> QED
        BY <2>1, <4>1 DEF LateOn
    <3>2. p # m
      <4>1. 1 \in Nat /\ 0 \in 0 .. (1 - 1)
        OBVIOUS
      <4> QED
        BY <2>1, <4>1, WayHasNoCircle
    <3> QED
      BY <2>1, <3>1, <3>2, PositionIsOne
  <2>4. ~LateOn(p, n + 1)
    <3> SUFFICES ASSUME NEW j \in 1 .. n, PositionOf(Up(p)[j]) > PositionOf(Up(p)[j - 1])
                 PROVE  FALSE
      <4>1. (n + 1) - 1 = n
        OBVIOUS
      <4> QED
        BY <4>1 DEF LateOn
    <3>1. j + 1 \in 1 .. (((n + 1) + 1) - 1) /\ (j + 1) - 1 = (j - 1) + 1 /\ j - 1 \in Nat /\ j \in Nat
      OBVIOUS
    <3>2. Up(m)[j + 1] = Up(p)[j] /\ Up(m)[(j + 1) - 1] = Up(p)[j - 1]
      BY <2>2, <3>1
    <3> QED
      BY <3>1, <3>2 DEF LateOn
  <2>5. Up(p)[n + 1] = Up(m)[(n + 1) + 1]
    BY <2>2
  <2>6. Row(p, n + 1)
    BY <2>1, <2>4, <2>5
  <2>7. PICK g \in above[p] : g.ancestor = Up(p)[n + 1] /\ g.depth = n + 1
    BY <2>6
  <2>8. OneUp(g) \in above[m]
    BY <2>1, <2>3 DEF RowsWereCopied
  <2>9. OneUp(g).ancestor = Up(m)[(n + 1) + 1] /\ OneUp(g).depth = (n + 1) + 1
    BY <2>5, <2>7 DEF OneUp
  <2> QED
    BY <2>8, <2>9
<1>3. Good = Nat
  <2>1. Good \in SUBSET Nat
    OBVIOUS
  <2> HIDE DEF Good
  <2> QED
    BY <1>1, <1>2, <2>1, ReachesAll
<1>4. k - 1 \in Good /\ (k - 1) + 1 = k
  <2>1. k - 1 \in Nat /\ (k - 1) + 1 = k
    OBVIOUS
  <2> QED
    BY <1>3, <2>1
<1> HIDE DEF Row
<1>5. Up(d)[k] # None /\ ~LateOn(d, k) => Row(d, k)
  BY <1>4
<1> QED
  BY <1>5 DEF Row

-----------------------------------------------------------------------------
(* What the invariant says of the tree.                                     *)

\* The part of the way that Chain holds is all of it.
LEMMA ChainIsWay ==
  ASSUME TreeTypeOK, NoCircles, NEW d \in Members
  PROVE  /\ Cardinality(Members) \in Nat
         /\ DOMAIN Chain(d) = 0 .. Cardinality(Members)
         /\ \A k \in 0 .. Cardinality(Members) :
              Chain(d)[k] = Up(d)[k] /\ (LatePlaced(d, k) <=> LateOn(d, k))
         /\ \A k \in Nat : Up(d)[k] # None => k \in 0 .. Cardinality(Members)
<1> DEFINE N == Cardinality(Members)
<1>1. N \in Nat
  BY SponsorAssumption, FS_CardinalityType
<1>2. DOMAIN Chain(d) = 0 .. N /\ \A k \in 0 .. N : Chain(d)[k] = Up(d)[k]
  BY ChainIsUp
<1>3. ASSUME NEW k \in 0 .. N PROVE LatePlaced(d, k) <=> LateOn(d, k)
  <2>1. \A j \in 1 .. (k - 1) : Chain(d)[j] = Up(d)[j] /\ Chain(d)[j - 1] = Up(d)[j - 1]
    <3>1. \A j \in 1 .. (k - 1) : j \in 0 .. N /\ j - 1 \in 0 .. N
      BY <1>1
    <3> QED
      BY <1>2, <3>1
  <2> QED
    BY <2>1 DEF LatePlaced, LateOn
<1>4. ASSUME NEW k \in Nat, Up(d)[k] # None PROVE k \in 0 .. N
  BY <1>1, <1>4, WayIsShort
<1> QED
  BY <1>1, <1>2, <1>3, <1>4

LEMMA LateOnIsAbove ==
  ASSUME TreeTypeOK, NEW d \in Members, NEW k \in Nat, Up(d)[k] # None, LateOn(d, k)
  PROVE  LateAbove(d)
<1>1. PICK j \in 1 .. (k - 1) : PositionOf(Up(d)[j]) > PositionOf(Up(d)[j - 1])
  BY DEF LateOn
<1>2. j \in 0 .. (k - 1) /\ j - 1 \in 0 .. (k - 1) /\ j - 1 \in Nat /\ (j - 1) + 1 = j
  OBVIOUS
<1>3. /\ Placed(Up(d)[j]) /\ Placed(Up(d)[j - 1]) /\ Up(d)[j - 1] \in Members
      /\ ParentOf(Up(d)[j - 1]) = Up(d)[j]
  BY <1>2, WayIsPlaced
<1>4. UpTo(d, Up(d)[j - 1])
  BY <1>2, <1>3, WayGoesUp, SponsorAssumption
<1>5. PositionOf(Up(d)[j - 1]) < PositionOf(Up(d)[j])
  <2>1. \A a, b : a > b <=> b < a
    OBVIOUS
  <2> QED
    BY <1>1, <2>1
<1> QED
  BY <1>3, <1>4, <1>5 DEF LateAbove

LEMMA LateAboveIsBelow ==
  ASSUME TreeTypeOK, NoCircles, NEW d \in Members, LateAbove(d)
  PROVE  BelowLate(d)
<1>1. PICK x \in Members : /\ UpTo(d, x) /\ Placed(x) /\ Placed(ParentOf(x))
                           /\ PositionOf(x) < PositionOf(ParentOf(x))
  BY DEF LateAbove
<1>2. PICK i \in Nat : Up(d)[i] = x
  BY <1>1, WayReaches
<1>3. Up(d)[i + 1] = ParentOf(x) /\ ParentOf(x) \in Members
  BY <1>1, <1>2, UpGoesOn, ParentRowIsOne
<1>4. Up(d)[(i + 1) + 1] = ParentOf(ParentOf(x)) /\ ParentOf(ParentOf(x)) \in Members
  BY <1>1, <1>3, UpGoesOn, ParentRowIsOne
<1> DEFINE k == (i + 1) + 1
<1>5. Up(d)[k] # None /\ k \in Nat /\ k >= 1
  BY <1>4, SponsorAssumption
<1>6. k \in 0 .. Cardinality(Members) /\ k \in 1 .. Cardinality(Members) /\ Chain(d)[k] # None
  BY <1>5, ChainIsWay
<1>7. LateOn(d, k)
  <2>1. i + 1 \in 1 .. (k - 1) /\ (i + 1) - 1 = i
    OBVIOUS
  <2>2. PositionOf(Up(d)[i + 1]) > PositionOf(Up(d)[i])
    BY <1>1, <1>2, <1>3
  <2> QED
    BY <2>1, <2>2 DEF LateOn
<1>8. LatePlaced(d, k)
  BY <1>6, <1>7, ChainIsWay
<1> HIDE DEF k
<1> QED
  BY <1>6, <1>8 DEF BelowLate

LEMMA PlacesAreSingle ==
  ASSUME TreeTypeOK, TreeInv
  PROVE  OnePlaceEach
<1> USE DEF TreeInv
<1>1. ASSUME NEW d \in Members
      PROVE  Cardinality({e \in above[d] : e.depth = 1})
               = Cardinality({i \in DOMAIN placed : placed[i] = d})
  <2>1. CASE Placed(d)
    <3>1. {e \in above[d] : e.depth = 1} = {ParentRow(d)}
      BY <2>1, ParentRowIsOne DEF PlacedOnce
    <3>2. {i \in DOMAIN placed : placed[i] = d} = {PositionOf(d)}
      BY <2>1, PositionIsOne
    <3> QED
      BY <3>1, <3>2, FS_Singleton
  <2>2. CASE ~Placed(d)
    <3>1. {e \in above[d] : e.depth = 1} = {}
      BY <2>2 DEF Placed
    <3>2. {i \in DOMAIN placed : placed[i] = d} = {}
      BY <2>2 DEF PlacedOnce
    <3> QED
      BY <3>1, <3>2
  <2> QED
    BY <2>1, <2>2
<1>2. ASSUME NEW i \in DOMAIN placed, NEW j \in DOMAIN placed, i # j,
             ParentRow(placed[i]).ancestor = ParentRow(placed[j]).ancestor,
             ParentRow(placed[i]).leg = ParentRow(placed[j]).leg
      PROVE  BelowLate(placed[i])
  <2>1. /\ placed[i] \in Members /\ Placed(placed[i])
        /\ placed[j] \in Members /\ Placed(placed[j])
    <3>1. placed[i] \in Members /\ placed[j] \in Members
      BY DEF TreeTypeOK
    <3> QED
      BY <3>1 DEF PlacedOnce
  <2>2. ParentOf(placed[i]) = ParentOf(placed[j])
    BY <1>2, <2>1, ParentRowIsOne
  <2>3. LateAbove(placed[i])
    BY <1>2, <2>2 DEF PlacesAreTaken
  <2> QED
    BY <2>1, <2>3, LateAboveIsBelow
<1> QED
  BY <1>1, <1>2 DEF OnePlaceEach

LEMMA RowsAreWaysUp ==
  ASSUME TreeTypeOK, TreeInv
  PROVE  RowsAreWays
<1> USE DEF TreeInv
<1> SUFFICES ASSUME NEW d \in Members, NEW e \in above[d]
             PROVE  /\ e.depth \in DOMAIN Chain(d)
                    /\ Chain(d)[e.depth] = e.ancestor
                    /\ ParentRow(Chain(d)[e.depth - 1]).leg = e.leg
                    /\ e.ancestor # d
  BY DEF RowsAreWays
<1>1. e.ancestor \in Members /\ e.depth \in Nat /\ e.depth >= 1
  BY RowFields
<1>2. Up(d)[e.depth] = e.ancestor /\ ParentRow(Up(d)[e.depth - 1]).leg = e.leg
  BY RowIsWay
<1>3. Up(d)[e.depth] # None
  BY <1>1, <1>2, SponsorAssumption
<1>4. e.depth \in 0 .. Cardinality(Members) /\ Cardinality(Members) \in Nat
  BY <1>1, <1>3, ChainIsWay
<1>5. e.depth - 1 \in 0 .. Cardinality(Members) /\ 0 \in 0 .. (e.depth - 1)
  BY <1>1, <1>4
<1>6. /\ Chain(d)[e.depth] = Up(d)[e.depth] /\ Chain(d)[e.depth - 1] = Up(d)[e.depth - 1]
      /\ DOMAIN Chain(d) = 0 .. Cardinality(Members)
  BY <1>4, <1>5, ChainIsWay
<1>7. Up(d)[0] # Up(d)[e.depth] /\ Up(d)[0] = d
  BY <1>1, <1>3, <1>5, WayHasNoCircle, UpGoesOn
<1> QED
  BY <1>2, <1>4, <1>6, <1>7

LEMMA RowsOfWays ==
  ASSUME TreeTypeOK, TreeInv
  PROVE  WaysHaveRows
<1> USE DEF TreeInv
<1> SUFFICES ASSUME NEW d \in Members, NEW k \in 1 .. Cardinality(Members), Chain(d)[k] # None
             PROVE  \/ \E e \in above[d] : e.ancestor = Chain(d)[k] /\ e.depth = k
                    \/ LatePlaced(d, k)
  BY DEF WaysHaveRows
<1>1. k \in 0 .. Cardinality(Members) /\ k \in Nat /\ k >= 1
  BY ChainIsWay
<1>2. Chain(d)[k] = Up(d)[k] /\ (LatePlaced(d, k) <=> LateOn(d, k))
  BY <1>1, ChainIsWay
<1> QED
  BY <1>1, <1>2, WayHasRow

\* Who is above is in the rows, or there is a late placement on the way.
LEMMA AboveIsInRows ==
  ASSUME TreeTypeOK, TreeInv, NEW d \in Members, NEW a, UpTo(d, a), a # d
  PROVE  \/ \E e \in above[d] : e.ancestor = a
         \/ /\ LateAbove(d)
            /\ \E k \in 1 .. Cardinality(Members) : Chain(d)[k] = a /\ LatePlaced(d, k)
<1> USE DEF TreeInv
<1>1. PICK k \in Nat : Up(d)[k] = a
  BY WayReaches
<1>2. a \in Members /\ a # None
  BY WayReaches, SponsorAssumption
<1>3. k # 0
  BY <1>1, UpGoesOn
<1>4. k >= 1 /\ k \in 0 .. Cardinality(Members) /\ k \in 1 .. Cardinality(Members)
  <2>1. k \in 0 .. Cardinality(Members) /\ Cardinality(Members) \in Nat
    BY <1>1, <1>2, ChainIsWay
  <2> QED
    BY <1>3, <2>1
<1>5. Chain(d)[k] = a /\ (LatePlaced(d, k) <=> LateOn(d, k))
  BY <1>1, <1>4, ChainIsWay
<1>6. CASE LateOn(d, k)
  BY <1>1, <1>2, <1>4, <1>5, <1>6, LateOnIsAbove
<1> QED
  BY <1>1, <1>2, <1>4, <1>6, WayHasRow

LEMMA SponsorsSee ==
  ASSUME TreeTypeOK, TreeInv
  PROVE  BelowSponsor
<1> USE DEF TreeInv
<1> SUFFICES ASSUME NEW d \in Members, Placed(d)
             PROVE  \/ \E e \in above[d] : e.ancestor = Sponsor[d]
                    \/ /\ BelowLate(d)
                       /\ \E k \in 1 .. Cardinality(Members) : Chain(d)[k] = Sponsor[d]
  BY DEF BelowSponsor
<1>1. UpTo(d, Sponsor[d])
  BY DEF SponsorsAreAbove
<1>2. Sponsor[d] # d
  <2>1. {d} \in (SUBSET Members) \ {{}}
    OBVIOUS
  <2> QED
    BY <2>1, SponsorAssumption
<1> QED
  BY <1>1, <1>2, AboveIsInRows, LateAboveIsBelow

LEMMA TeamsAreDrawn ==
  ASSUME TreeTypeOK, TreeInv
  PROVE  TeamsAreWhole
<1> USE DEF TreeInv
<1>1. ASSUME NEW d \in Members, NEW m \in Loaded(d), m # d PROVE m \in Drawn(d)
  <2>1. m \in Members /\ \E e \in above[m] : e.ancestor = d
    BY <1>1 DEF Loaded
  <2>2. PICK e \in above[m] : e.ancestor = d
    BY <2>1
  <2>3. Placed(m) /\ ParentRow(m) \in above[m] /\ ParentOf(m) = ParentRow(m).ancestor
        /\ ParentOf(m) \in Members
    BY <2>1, ParentRowIsOne DEF PlacedOnce
  <2>4. CASE e.depth = 1
    <3>1. ParentOf(m) = d
      BY <2>1, <2>2, <2>3, <2>4, ParentRowIsOne DEF PlacedOnce
    <3> QED
      BY <2>1, <2>3, <3>1 DEF Drawn, Loaded
  <2>5. CASE e.depth # 1
    <3>1. e.depth > 1
      BY <2>1, <2>5, RowFields
    <3>2. PICK g \in above[ParentOf(m)] : e = OneUp(g)
      BY <2>1, <3>1 DEF RowsAreCopies
    <3>3. g.ancestor = d
      BY <2>2, <3>2 DEF OneUp
    <3>4. ParentOf(m) \in Loaded(d)
      BY <2>3, <3>3 DEF Loaded
    <3> QED
      BY <2>1, <2>3, <3>4 DEF Drawn
  <2> QED
    BY <2>4, <2>5
<1>2. ASSUME NEW d \in Members, NEW m \in Drawn(d) \ Loaded(d)
      PROVE  \E k \in 1 .. Cardinality(Members) : Chain(m)[k] = d /\ LatePlaced(m, k)
  <2>1. /\ m \in Members /\ m # d /\ Placed(m) /\ ParentRow(m).ancestor \in Loaded(d)
        /\ ~ \E e \in above[m] : e.ancestor = d
    BY <1>2 DEF Drawn, Loaded
  <2>2. ParentOf(m) \in Loaded(d) /\ ParentOf(m) \in Members
    BY <2>1, ParentRowIsOne
  <2>3. UpTo(ParentOf(m), d)
    <3>1. CASE ParentOf(m) = d
      BY <3>1, UpToItself
    <3>2. CASE ParentOf(m) # d
      <4>1. PICK e \in above[ParentOf(m)] : e.ancestor = d
        BY <2>2, <3>2 DEF Loaded
      <4>2. e.depth \in Nat /\ Up(ParentOf(m))[e.depth] = d
        BY <2>2, <4>1, RowFields, RowIsWay
      <4> QED
        BY <2>2, <4>2, WayGoesUp, SponsorAssumption
    <3> QED
      BY <3>1, <3>2
  <2>4. UpTo(m, d)
    BY <2>1, <2>3, UpToParent, UpToFurther
  <2> QED
    BY <2>1, <2>4, AboveIsInRows
<1>3. \A d \in Members : d \in Drawn(d)
  BY DEF Drawn
<1> QED
  BY <1>1, <1>2, <1>3 DEF TeamsAreWhole

\* Nobody is met twice on a way up, so no two rows name him.
LEMMA EdgesDiffer ==
  ASSUME TreeTypeOK, TreeInv
  PROVE  EdgesAreUnique
<1> USE DEF TreeInv
<1> SUFFICES ASSUME NEW d \in Members, NEW e \in above[d], NEW g \in above[d]
             PROVE  e.ancestor # d /\ (e.ancestor = g.ancestor => e = g)
  BY DEF EdgesAreUnique
<1>1. e.ancestor # d
  BY RowsAreWaysUp DEF RowsAreWays
<1>2. ASSUME e.ancestor = g.ancestor PROVE e = g
  <2>1. /\ e.depth \in Nat /\ g.depth \in Nat /\ e.ancestor # None
        /\ Up(d)[e.depth] = e.ancestor /\ Up(d)[g.depth] = e.ancestor
    BY <1>2, RowFields, RowIsWay, SponsorAssumption
  <2>2. ~(e.depth < g.depth)
    <3> SUFFICES ASSUME e.depth < g.depth PROVE FALSE
      OBVIOUS
    <3>1. e.depth \in 0 .. (g.depth - 1)
      BY <2>1
    <3> QED
      BY <2>1, <3>1, WayHasNoCircle
  <2>3. ~(g.depth < e.depth)
    <3> SUFFICES ASSUME g.depth < e.depth PROVE FALSE
      OBVIOUS
    <3>1. g.depth \in 0 .. (e.depth - 1)
      BY <2>1
    <3> QED
      BY <2>1, <3>1, WayHasNoCircle
  <2>4. e.depth = g.depth
    BY <2>1, <2>2, <2>3
  <2>5. e.leg = g.leg
    BY <2>4, RowIsWay
  <2> QED
    BY <1>2, <2>4, <2>5, RowFields DEF Rows
<1> QED
  BY <1>1, <1>2

LEMMA TreeInvIsSound ==
  ASSUME TreeTypeOK, TreeInv
  PROVE  TreeSound
BY PlacesAreSingle, RowsAreWaysUp, RowsOfWays, SponsorsSee, TeamsAreDrawn DEF TreeSound

-----------------------------------------------------------------------------
(* The search for a place.                                                  *)

LEMMA UnderIsChild ==
  ASSUME TreeTypeOK, PlacedOnce, NEW m \in Members, NEW p, NEW leg, Under(p, leg, m)
  PROVE  Placed(m) /\ ParentOf(m) = p /\ ParentRow(m).leg = leg
<1>1. PICK e \in above[m] : e.ancestor = p /\ e.leg = leg /\ e.depth = 1
  BY DEF Under
<1>2. Placed(m)
  BY <1>1 DEF Placed
<1>3. e = ParentRow(m)
  BY <1>1, <1>2, ParentRowIsOne DEF PlacedOnce
<1> QED
  BY <1>1, <1>2, <1>3, ParentRowIsOne

LEMMA ChildOrNone ==
  ASSUME TreeTypeOK, PlacedOnce, NEW p, NEW leg
  PROVE  \/ /\ DirectChild(p, leg) = None
            /\ \A m \in Members : ~Under(p, leg, m)
         \/ /\ DirectChild(p, leg) \in Members
            /\ Under(p, leg, DirectChild(p, leg))
<1> DEFINE is == {i \in DOMAIN placed : Under(p, leg, placed[i])}
<1>1. is \in SUBSET Nat
  BY DEF TreeTypeOK
<1>2. CASE is = {}
  <2>1. DirectChild(p, leg) = None
    BY <1>2 DEF DirectChild
  <2>2. ASSUME NEW m \in Members, Under(p, leg, m) PROVE FALSE
    <3>1. Placed(m)
      BY <2>2, UnderIsChild
    <3>2. PICK i \in DOMAIN placed : placed[i] = m
      BY <3>1 DEF PlacedOnce
    <3> QED
      BY <1>2, <2>2, <3>2
  <2> QED
    BY <2>1, <2>2
<1>3. CASE is # {}
  <2>1. \E i \in is : \A j \in is : i <= j
    BY <1>1, <1>3, LeastExists
  <2>2. DirectChild(p, leg) = placed[CHOOSE i \in is : \A j \in is : i <= j]
    BY <1>3 DEF DirectChild
  <2>3. PICK i \in is : DirectChild(p, leg) = placed[i]
    BY <2>1, <2>2
  <2>4. placed[i] \in Members
    BY DEF TreeTypeOK
  <2> QED
    BY <2>3, <2>4
<1> QED
  BY <1>2, <1>3

Queues == Seq(Stops) \ {<<>>}

NextQueue(q) ==
  Tail(q) \o <<DirectChild(Head(q), "L"), DirectChild(Head(q), "R")>>

LEMMA QueueGoesOn ==
  ASSUME TreeTypeOK, PlacedOnce, NEW c \in Members
  PROVE  /\ Queue(c) \in [Nat -> Queues] /\ Queue(c)[0] = <<c>>
         /\ \A i \in Nat : Queue(c)[i + 1] = NextQueue(Queue(c)[i])
<1> DEFINE Go(q) == [i \in Nat |-> IF i = 0 THEN <<c>> ELSE NextQueue(q[i - 1])]
<1>1. \A p, leg : DirectChild(p, leg) \in Stops
  BY ChildOrNone DEF Stops
<1>2. ASSUME NEW q \in Queues PROVE NextQueue(q) \in Queues
  <2>1. q \in Seq(Stops) /\ q # <<>>
    BY DEF Queues
  <2>2. PICK l \in Stops, r \in Stops : l = DirectChild(Head(q), "L") /\ r = DirectChild(Head(q), "R")
    BY <1>1
  <2>3. Tail(q) \in Seq(Stops) /\ <<l, r>> \in Seq(Stops) /\ Len(<<l, r>>) = 2
    BY <2>1
  <2>4. Tail(q) \o <<l, r>> \in Seq(Stops) /\ Len(Tail(q) \o <<l, r>>) = Len(Tail(q)) + 2
    BY <2>3
  <2>5. Len(Tail(q)) \in Nat /\ Tail(q) \o <<l, r>> # <<>>
    BY <2>3, <2>4
  <2> QED
    BY <2>2, <2>4, <2>5 DEF Queues, NextQueue
<1>3. <<c>> \in Queues
  <2>1. c \in Stops /\ <<c>> # <<>>
    BY DEF Stops
  <2> QED
    BY <2>1 DEF Queues
<1>4. \E q : q = Go(q)
  <2> DEFINE g == [q \in Queues |-> NextQueue(q)]
  <2>1. g \in [Queues -> Queues]
    BY <1>2
  <2>2. \A q \in Queues : g[q] = NextQueue(q)
    OBVIOUS
  <2> HIDE DEF g
  <2>3. PICK a \in Queues : a = <<c>>
    BY <1>3
  <2>4. PICK f \in [Nat -> Queues] : f[0] = a /\ \A n \in Nat : f[n + 1] = g[f[n]]
    BY <2>1, RepetitionExists
  <2>5. f[0] = <<c>> /\ \A n \in Nat : f[n + 1] = g[f[n]]
    BY <2>3, <2>4
  <2>6. ASSUME NEW k \in Nat PROVE f[k] = IF k = 0 THEN <<c>> ELSE NextQueue(f[k - 1])
    <3>1. CASE k = 0
      BY <2>5, <3>1
    <3>2. CASE k # 0
      <4>1. k - 1 \in Nat /\ (k - 1) + 1 = k
        BY <3>2
      <4>2. f[k] = g[f[k - 1]] /\ f[k - 1] \in Queues
        BY <2>5, <4>1
      <4> QED
        BY <2>2, <3>2, <4>2
    <3> QED
      BY <3>1, <3>2
  <2>7. f = Go(f)
    BY <2>6
  <2> QED
    BY <2>7
<1>5. Queue(c) = Go(Queue(c))
  <2>1. Queue(c) = CHOOSE q : q = Go(q)
    BY DEF Queue, NextQueue
  <2> HIDE DEF Go
  <2> QED
    BY <1>4, <2>1
<1>6. Queue(c)[0] = <<c>> /\ \A i \in Nat : Queue(c)[i + 1] = NextQueue(Queue(c)[i])
  <2>1. \A k \in Nat : Queue(c)[k] = Go(Queue(c))[k]
    BY <1>5
  <2>2. \A k \in Nat : k + 1 # 0 /\ k + 1 \in Nat /\ (k + 1) - 1 = k
    OBVIOUS
  <2>3. ASSUME NEW q PROVE Go(q)[0] = <<c>> /\ \A k \in Nat : Go(q)[k + 1] = NextQueue(q[k])
    BY <2>2
  <2> HIDE DEF Go
  <2> QED
    BY <2>1, <2>2, <2>3
<1>7. \A k \in Nat : Queue(c)[k] \in Queues
  <2> DEFINE Good == {k \in Nat : Queue(c)[k] \in Queues}
  <2>1. 0 \in Good
    BY <1>3, <1>6
  <2>2. \A k \in Good : k + 1 \in Good
    BY <1>2, <1>6
  <2>3. Good = Nat
    <3>1. Good \in SUBSET Nat
      OBVIOUS
    <3> HIDE DEF Good
    <3> QED
      BY <2>1, <2>2, <3>1, ReachesAll
  <2> QED
    BY <2>3
<1>8. DOMAIN Queue(c) = Nat /\ Queue(c) = [k \in Nat |-> Queue(c)[k]]
  <2>1. ASSUME NEW q PROVE DOMAIN Go(q) = Nat /\ Go(q) = [k \in Nat |-> Go(q)[k]]
    OBVIOUS
  <2> HIDE DEF Go
  <2> QED
    BY <1>5, <2>1
<1> QED
  BY <1>6, <1>7, <1>8

\* Who is taken from the queue in round i.
Node(c, i) == Head(Queue(c)[i])

LEMMA QueueHolds ==
  ASSUME TreeTypeOK, PlacedOnce, NEW c \in Members
  PROVE  \A n \in Nat : Len(Queue(c)[n]) = n + 1
<1> DEFINE Good == {n \in Nat : Len(Queue(c)[n]) = n + 1}
<1>1. 0 \in Good
  <2>1. Len(<<c>>) = 0 + 1
    OBVIOUS
  <2> QED
    BY <2>1, QueueGoesOn
<1>2. ASSUME NEW n \in Good PROVE n + 1 \in Good
  <2>1. PICK q \in Seq(Stops) : q = Queue(c)[n] /\ Len(q) = n + 1 /\ q # <<>>
    BY QueueGoesOn DEF Queues
  <2>2. Queue(c)[n + 1] = Tail(q) \o <<DirectChild(Head(q), "L"), DirectChild(Head(q), "R")>>
    BY <2>1, QueueGoesOn DEF NextQueue
  <2>3. PICK l \in Stops, r \in Stops : l = DirectChild(Head(q), "L") /\ r = DirectChild(Head(q), "R")
    BY ChildOrNone DEF Stops
  <2>4. Tail(q) \in Seq(Stops) /\ Len(Tail(q)) = n
    BY <2>1
  <2>5. Len(Tail(q) \o <<l, r>>) = n + 2
    BY <2>4
  <2> QED
    BY <2>2, <2>3, <2>5
<1> QED
  <2>1. Good \in SUBSET Nat
    OBVIOUS
  <2>2. Good = Nat
    <3> HIDE DEF Good
    <3> QED
      BY <1>1, <1>2, <2>1, ReachesAll
  <2> QED
    BY <2>2

LEMMA QueueMoves ==
  ASSUME TreeTypeOK, PlacedOnce, NEW c \in Members, NEW n \in Nat
  PROVE  /\ \A k \in 1 .. n : Queue(c)[n + 1][k] = Queue(c)[n][k + 1]
         /\ Queue(c)[n + 1][n + 1] = DirectChild(Node(c, n), "L")
         /\ Queue(c)[n + 1][n + 2] = DirectChild(Node(c, n), "R")
         /\ Queue(c)[n][1] = Node(c, n)
<1>1. PICK q \in Seq(Stops) : q = Queue(c)[n] /\ Len(q) = n + 1 /\ q # <<>>
  BY QueueGoesOn, QueueHolds DEF Queues
<1>2. PICK l \in Stops, r \in Stops : l = DirectChild(Head(q), "L") /\ r = DirectChild(Head(q), "R")
  BY ChildOrNone DEF Stops
<1>3. Queue(c)[n + 1] = Tail(q) \o <<l, r>>
  BY <1>1, <1>2, QueueGoesOn DEF NextQueue
<1>4. Tail(q) \in Seq(Stops) /\ Len(Tail(q)) = n /\ \A k \in 1 .. n : Tail(q)[k] = q[k + 1]
  BY <1>1
<1>5. /\ \A k \in 1 .. n : (Tail(q) \o <<l, r>>)[k] = Tail(q)[k]
      /\ (Tail(q) \o <<l, r>>)[n + 1] = l
      /\ (Tail(q) \o <<l, r>>)[n + 2] = r
  BY <1>4
<1>6. q[1] = Head(q)
  BY <1>1
<1> QED
  BY <1>1, <1>2, <1>3, <1>4, <1>5, <1>6 DEF Node

\* The children of the member of round n are taken in rounds 2n + 1 and 2n + 2.
LEMMA NodesGoOn ==
  ASSUME TreeTypeOK, PlacedOnce, NEW c \in Members
  PROVE  /\ Node(c, 0) = c
         /\ \A n \in Nat : /\ Node(c, 2 * n + 1) = DirectChild(Node(c, n), "L")
                           /\ Node(c, 2 * n + 2) = DirectChild(Node(c, n), "R")
<1> DEFINE At(n, k) == Queue(c)[n][k + 1]
           Good == {k \in Nat : \A n \in Nat : k <= n => At(n, k) = Node(c, n + k)}
<1>1. 0 \in Good
  <2> SUFFICES ASSUME NEW n \in Nat PROVE At(n, 0) = Node(c, n + 0)
    OBVIOUS
  <2> QED
    BY QueueMoves
<1>2. ASSUME NEW k \in Good PROVE k + 1 \in Good
  <2> SUFFICES ASSUME NEW n \in Nat, k + 1 <= n PROVE At(n, k + 1) = Node(c, n + (k + 1))
    OBVIOUS
  <2>1. k + 1 \in 1 .. n /\ k <= n + 1 /\ n + 1 \in Nat
    OBVIOUS
  <2>2. Queue(c)[n + 1][k + 1] = Queue(c)[n][(k + 1) + 1]
    BY <2>1, QueueMoves
  <2>3. At(n + 1, k) = Node(c, (n + 1) + k)
    BY <2>1
  <2>4. (n + 1) + k = n + (k + 1)
    OBVIOUS
  <2> QED
    BY <2>2, <2>3, <2>4
<1>3. Good = Nat
  <2>1. Good \in SUBSET Nat
    OBVIOUS
  <2> HIDE DEF Good
  <2> QED
    BY <1>1, <1>2, <2>1, ReachesAll
<1>4. Node(c, 0) = c
  BY QueueGoesOn DEF Node
<1>5. ASSUME NEW n \in Nat
      PROVE  /\ Node(c, 2 * n + 1) = DirectChild(Node(c, n), "L")
             /\ Node(c, 2 * n + 2) = DirectChild(Node(c, n), "R")
  <2>1. n \in Good /\ n + 1 \in Good /\ n + 1 \in Nat /\ n <= n + 1 /\ n + 1 <= n + 1
    BY <1>3
  <2>2. At(n + 1, n) = Node(c, (n + 1) + n) /\ At(n + 1, n + 1) = Node(c, (n + 1) + (n + 1))
    BY <2>1
  <2>3. /\ (n + 1) + n = 2 * n + 1 /\ (n + 1) + (n + 1) = 2 * n + 2 /\ (n + 1) + 1 = n + 2
    OBVIOUS
  <2> QED
    BY <2>2, <2>3, QueueMoves
<1> QED
  BY <1>4, <1>5

\* Round i does not find a place.
Full(c, i) == \A leg \in Legs : DirectChild(Node(c, i), leg) # None

\* Who comes after the first is the child of somebody who came before.
LEMMA NodeHasParent ==
  ASSUME TreeTypeOK, PlacedOnce, NEW c \in Members, NEW i \in Nat \ {0},
         \A j \in 0 .. (i - 1) : Full(c, j)
  PROVE  \E n \in 0 .. (i - 1), leg \in Legs :
           /\ i = 2 * n + (IF leg = "L" THEN 1 ELSE 2)
           /\ Node(c, i) \in Members /\ Under(Node(c, n), leg, Node(c, i))
<1>1. \E n \in 0 .. (i - 1) : i = 2 * n + 1 \/ i = 2 * n + 2
  <2>1. /\ (i - 1) \div 2 \in 0 .. (i - 1)
        /\ i = 2 * ((i - 1) \div 2) + 1 \/ i = 2 * ((i - 1) \div 2) + 2
    OBVIOUS
  <2> QED
    BY <2>1
<1>2. PICK n \in 0 .. (i - 1) : i = 2 * n + 1 \/ i = 2 * n + 2
  BY <1>1
<1>3. PICK leg \in Legs : i = 2 * n + (IF leg = "L" THEN 1 ELSE 2)
  BY <1>2 DEF Legs
<1>4. Node(c, i) = DirectChild(Node(c, n), leg)
  <2>1. CASE leg = "L"
    BY <1>3, <2>1, NodesGoOn
  <2>2. CASE leg = "R"
    BY <1>3, <2>2, NodesGoOn
  <2> QED
    BY <2>1, <2>2 DEF Legs
<1>5. DirectChild(Node(c, n), leg) # None
  BY DEF Full
<1>6. Node(c, i) \in Members /\ Under(Node(c, n), leg, Node(c, i))
  BY <1>4, <1>5, ChildOrNone
<1> QED
  BY <1>3, <1>6

\* Whoever comes up in a round is the one it began with, or below him.
LEMMA NodesAreBelow ==
  ASSUME TreeTypeOK, PlacedOnce, NEW c \in Members, NEW i \in Nat,
         \A j \in 0 .. (i - 1) : Full(c, j)
  PROVE  Node(c, i) \in Members /\ UpTo(Node(c, i), c)
<1> DEFINE Fine(n) == Node(c, n) \in Members /\ UpTo(Node(c, n), c)
           Bad == {n \in 0 .. i : ~Fine(n)}
<1> SUFFICES ASSUME Bad # {} PROVE FALSE
  OBVIOUS
<1>1. Bad \in SUBSET Nat
  OBVIOUS
<1> HIDE DEF Bad
<1>2. PICK n \in Bad : \A m \in Bad : n <= m
  BY <1>1, LeastExists
<1> USE DEF Bad
<1>3. n # 0
  BY NodesGoOn, UpToItself
<1>4. PICK m \in 0 .. (n - 1), leg \in Legs :
        Node(c, n) \in Members /\ Under(Node(c, m), leg, Node(c, n))
  <2>1. n \in Nat \ {0} /\ \A j \in 0 .. (n - 1) : j \in 0 .. (i - 1)
    BY <1>3
  <2> QED
    BY <2>1, NodeHasParent
<1>5. Fine(m)
  BY <1>2, <1>4
<1>6. Placed(Node(c, n)) /\ ParentOf(Node(c, n)) = Node(c, m)
  BY <1>4, UnderIsChild
<1>7. UpTo(Node(c, n), Node(c, m))
  BY <1>4, <1>6, UpToParent
<1>8. Fine(n)
  BY <1>4, <1>5, <1>7, UpToFurther
<1> QED
  BY <1>2, <1>8

LEMMA NobodyAboveHimself ==
  ASSUME TreeTypeOK, NoCircles, NEW x \in Members, Placed(x), UpTo(ParentOf(x), x)
  PROVE  FALSE
<1>1. ParentOf(x) \in Members
  BY ParentRowIsOne
<1>2. PICK k \in Nat : Up(ParentOf(x))[k] = x
  BY <1>1, WayReaches
<1>3. Up(ParentOf(x))[k + 1] = ParentOf(x) /\ Up(ParentOf(x))[0] = ParentOf(x)
  BY <1>1, <1>2, UpGoesOn
<1>4. k + 1 \in Nat /\ 0 \in 0 .. ((k + 1) - 1) /\ ParentOf(x) # None
  BY <1>1, SponsorAssumption
<1> QED
  BY <1>1, <1>3, <1>4, WayHasNoCircle

\* Nobody comes up twice.
LEMMA NodesDiffer ==
  ASSUME TreeTypeOK, PlacedOnce, NoCircles, NEW c \in Members, NEW top \in Nat,
         \A j \in 0 .. top : Full(c, j)
  PROVE  \A i \in 0 .. top : \A j \in 0 .. (i - 1) : Node(c, j) # Node(c, i)
<1> DEFINE Bad == {i \in 0 .. top : \E j \in 0 .. (i - 1) : Node(c, j) = Node(c, i)}
<1> SUFFICES ASSUME Bad # {} PROVE FALSE
  OBVIOUS
<1>1. Bad \in SUBSET Nat
  OBVIOUS
<1> HIDE DEF Bad
<1>2. PICK i \in Bad : \A k \in Bad : i <= k
  BY <1>1, LeastExists
<1> USE DEF Bad
<1>3. PICK j \in 0 .. (i - 1) : Node(c, j) = Node(c, i)
  BY <1>2
<1>4. ASSUME NEW k \in Nat \ {0}, k <= i
      PROVE  \E n \in 0 .. (k - 1), leg \in Legs :
               /\ k = 2 * n + (IF leg = "L" THEN 1 ELSE 2)
               /\ Node(c, k) \in Members /\ Placed(Node(c, k))
               /\ ParentOf(Node(c, k)) = Node(c, n) /\ ParentRow(Node(c, k)).leg = leg
  <2>1. \A m \in 0 .. (k - 1) : Full(c, m)
    <3>1. \A m \in 0 .. (k - 1) : m \in 0 .. top
      BY <1>4
    <3> QED
      BY <3>1
  <2>2. PICK n \in 0 .. (k - 1), leg \in Legs :
          /\ k = 2 * n + (IF leg = "L" THEN 1 ELSE 2)
          /\ Node(c, k) \in Members /\ Under(Node(c, n), leg, Node(c, k))
    BY <2>1, NodeHasParent
  <2>3. /\ Placed(Node(c, k)) /\ ParentOf(Node(c, k)) = Node(c, n)
        /\ ParentRow(Node(c, k)).leg = leg
    BY <2>2, UnderIsChild
  <2> QED
    BY <2>2, <2>3
<1>5. i \in Nat \ {0} /\ i <= i
  BY <1>3
<1>6. PICK n \in 0 .. (i - 1), leg \in Legs :
               /\ i = 2 * n + (IF leg = "L" THEN 1 ELSE 2)
               /\ Node(c, i) \in Members /\ Placed(Node(c, i))
               /\ ParentOf(Node(c, i)) = Node(c, n) /\ ParentRow(Node(c, i)).leg = leg
  BY <1>4, <1>5
<1>7. CASE j = 0
  <2>1. Node(c, i) = c
    BY <1>3, <1>7, NodesGoOn
  <2>2. \A m \in 0 .. (n - 1) : m \in 0 .. top
    OBVIOUS
  <2>3. UpTo(Node(c, n), c)
    BY <2>2, NodesAreBelow
  <2> QED
    BY <1>6, <2>1, <2>3, NobodyAboveHimself
<1>8. CASE j # 0
  <2>1. j \in Nat \ {0} /\ j <= i
    BY <1>8
  <2>2. PICK m \in 0 .. (j - 1), side \in Legs :
               /\ j = 2 * m + (IF side = "L" THEN 1 ELSE 2)
               /\ ParentOf(Node(c, j)) = Node(c, m) /\ ParentRow(Node(c, j)).leg = side
    BY <1>4, <2>1
  <2>3. Node(c, m) = Node(c, n) /\ side = leg
    BY <1>3, <1>6, <2>2
  <2>4. CASE m = n
    BY <1>3, <1>6, <2>2, <2>3, <2>4
  <2>5. CASE m < n
    <3>1. n \in Bad
      BY <2>3, <2>5
    <3> QED
      BY <1>2, <3>1
  <2>6. CASE n < m
    <3>1. m \in Bad
      BY <2>1, <2>3, <2>6
    <3> QED
      BY <1>2, <3>1
  <2> QED
    BY <2>4, <2>5, <2>6
<1> QED
  BY <1>7, <1>8

Ends(c) == {i \in 0 .. Cardinality(Members) : \E leg \in Legs : DirectChild(Node(c, i), leg) = None}

\* Some round finds a place before there were more rounds than members.
LEMMA LoopEnds ==
  ASSUME TreeTypeOK, PlacedOnce, NoCircles, NEW c \in Members
  PROVE  Ends(c) # {}
<1> SUFFICES ASSUME Ends(c) = {} PROVE FALSE
  OBVIOUS
<1> DEFINE N == Cardinality(Members)
<1>1. IsFiniteSet(Members) /\ N \in Nat
  BY SponsorAssumption, FS_CardinalityType
<1>2. \A j \in 0 .. N : Full(c, j)
  BY DEF Full, Ends
<1> HIDE DEF N
<1>3. \A i \in 0 .. N : \A j \in 0 .. (i - 1) : Node(c, j) # Node(c, i)
  BY <1>1, <1>2, NodesDiffer
<1> DEFINE f == [i \in 0 .. N |-> Node(c, i)]
<1>4. ASSUME NEW i \in 0 .. N PROVE Node(c, i) \in Members
  <2>1. i \in Nat /\ \A j \in 0 .. (i - 1) : j \in 0 .. N
    BY <1>1
  <2> QED
    BY <1>2, <2>1, NodesAreBelow
<1>5. f \in [0 .. N -> Members]
  BY <1>4
<1>6. ASSUME NEW x \in 0 .. N, NEW y \in 0 .. N, x # y PROVE f[x] # f[y]
  <2>1. CASE x < y
    <3>1. x \in 0 .. (y - 1)
      BY <1>1, <2>1
    <3> QED
      BY <1>3, <3>1
  <2>2. CASE y < x
    <3>1. y \in 0 .. (x - 1)
      BY <1>1, <2>2
    <3> QED
      BY <1>3, <3>1
  <2> QED
    BY <1>1, <1>6, <2>1, <2>2
<1>7. IsFiniteSet(0 .. N) /\ Cardinality(0 .. N) = N + 1
  BY <1>1, FS_Interval
<1> HIDE DEF f
<1>8. ~(Cardinality(Members) < Cardinality(0 .. N))
  BY <1>1, <1>5, <1>6, <1>7, FS_PigeonHole
<1> QED
  BY <1>1, <1>7, <1>8 DEF N

\* The place is below the member that the search began with, and it is open.
IsOpenBelow(slot, s) ==
  /\ slot \in Members \X Legs
  /\ UpTo(slot[1], s)
  /\ \A m \in Members : ~Under(slot[1], slot[2], m)

LEMMA SearchFinds ==
  ASSUME TreeTypeOK, PlacedOnce, NoCircles, NEW c \in Members
  PROVE  IsOpenBelow(Search(c), c)
<1>1. Ends(c) \in SUBSET Nat /\ Ends(c) # {}
  BY LoopEnds DEF Ends
<1> DEFINE first == CHOOSE i \in Ends(c) : \A j \in Ends(c) : i <= j
           last  == Node(c, first)
<1>2. first \in Ends(c) /\ \A j \in Ends(c) : first <= j
  BY <1>1, LeastExists
<1>3. Search(c) = <<last, IF DirectChild(last, "L") = None THEN "L" ELSE "R">>
  BY <1>1 DEF Search, Ends, Node
<1> HIDE DEF first
<1>4. first \in 0 .. Cardinality(Members) /\ Cardinality(Members) \in Nat
  BY <1>2, SponsorAssumption, FS_CardinalityType DEF Ends
<1>5. \A j \in 0 .. (first - 1) : Full(c, j)
  <2> SUFFICES ASSUME NEW j \in 0 .. (first - 1), ~Full(c, j) PROVE FALSE
    OBVIOUS
  <2>1. j \in Ends(c)
    BY <1>4 DEF Full, Ends
  <2> QED
    BY <1>2, <1>4, <2>1
<1>6. last \in Members /\ UpTo(last, c)
  BY <1>4, <1>5, NodesAreBelow
<1>7. \E leg \in Legs : DirectChild(last, leg) = None
  BY <1>2 DEF Ends
<1> HIDE DEF last
<1>8. PICK leg \in Legs : Search(c) = <<last, leg>> /\ DirectChild(last, leg) = None
  BY <1>3, <1>7 DEF Legs
<1>9. \A m \in Members : ~Under(last, leg, m)
  BY <1>8, ChildOrNone, SponsorAssumption
<1> QED
  BY <1>6, <1>8, <1>9 DEF IsOpenBelow

LEMMA OpenSlotIsOpen ==
  ASSUME TreeTypeOK, PlacedOnce, NoCircles, NEW s \in Members, NEW leg \in Legs
  PROVE  IsOpenBelow(OpenSlot(s, leg), s)
<1>1. CASE DirectChild(s, leg) = None
  <2>1. OpenSlot(s, leg) = <<s, leg>>
    BY <1>1 DEF OpenSlot
  <2>2. \A m \in Members : ~Under(s, leg, m)
    BY <1>1, ChildOrNone, SponsorAssumption
  <2> QED
    BY <2>1, <2>2, UpToItself DEF IsOpenBelow
<1>2. CASE DirectChild(s, leg) # None
  <2> DEFINE c == DirectChild(s, leg)
  <2>1. OpenSlot(s, leg) = Search(c)
    BY <1>2 DEF OpenSlot
  <2>2. c \in Members /\ Under(s, leg, c)
    BY <1>2, ChildOrNone
  <2>3. UpTo(c, s)
    BY <2>2, UnderIsChild, UpToParent
  <2> HIDE DEF c
  <2>4. IsOpenBelow(Search(c), c)
    BY <2>2, SearchFinds
  <2> QED
    BY <2>1, <2>3, <2>4, UpToFurther DEF IsOpenBelow
<1> QED
  BY <1>1, <1>2

-----------------------------------------------------------------------------
(* One more member.                                                         *)

LEMMA NotHisOwnSponsor == \A d \in Members : Sponsor[d] # d
<1> SUFFICES ASSUME NEW d \in Members PROVE Sponsor[d] # d
  OBVIOUS
<1>1. {d} \in (SUBSET Members) \ {{}}
  OBVIOUS
<1> QED
  BY <1>1, SponsorAssumption

LEMMA AttachedIsCopied ==
  ASSUME TreeTypeOK, NEW p \in Members, NEW leg \in Legs
  PROVE  Attached(p, leg) = {[ancestor |-> p, leg |-> leg, depth |-> 1]} \cup {OneUp(g) : g \in above[p]}
<1>1. ASSUME NEW g \in above[p] PROVE [g EXCEPT !.depth = @ + 1] = OneUp(g)
  <2>1. g \in Rows
    BY DEF TreeTypeOK
  <2>2. PICK a \in Members, l \in Legs, n \in Nat : g = [ancestor |-> a, leg |-> l, depth |-> n]
    BY <2>1 DEF Rows
  <2> QED
    BY <2>2 DEF OneUp
<1> QED
  BY <1>1 DEF Attached

\* d, who has no rows, gets the place <<p, leg>> below his sponsor, which is open unless it
\* is below a late placement.
Attaches(d, p, leg) ==
  /\ d \in Members /\ p \in Members /\ leg \in Legs /\ Sponsor[d] \in Members
  /\ above[d] = {} /\ UpTo(p, Sponsor[d])
  /\ \A m \in Members : Under(p, leg, m) => LateAbove(p)
  /\ above' = [above EXCEPT ![d] = Attached(p, leg)]
  /\ placed' = Append(placed, d)

LEMMA AttachesBelow ==
  ASSUME NEW d, NEW p, NEW leg, Attaches(d, p, leg)
  PROVE  p # d /\ ~Placed(d)
<1>1. ~Placed(d)
  BY DEF Attaches, Placed
<1>2. CASE p = d
  <2>1. {d} \in SUBSET Members /\ d \in {d} /\ Closed({d})
    BY <1>1 DEF Attaches, Closed
  <2>2. Sponsor[d] \in {d}
    BY <1>2, <2>1 DEF Attaches, UpTo
  <2> QED
    BY <2>2, NotHisOwnSponsor DEF Attaches
<1> QED
  BY <1>1, <1>2

LEMMA AttachedRows ==
  ASSUME TreeTypeOK, NEW d, NEW p, NEW leg, Attaches(d, p, leg)
  PROVE  /\ \A m \in Members \ {d} :
              /\ above'[m] = above[m] /\ (Placed(m)' <=> Placed(m))
              /\ ParentRow(m)' = ParentRow(m) /\ ParentOf(m)' = ParentOf(m)
         /\ above'[d] = {[ancestor |-> p, leg |-> leg, depth |-> 1]} \cup {OneUp(g) : g \in above[p]}
         /\ \A g \in above[p] : OneUp(g).depth > 1
         /\ Placed(d)' /\ ParentRow(d)' = [ancestor |-> p, leg |-> leg, depth |-> 1]
         /\ ParentOf(d)' = p
<1>1. d \in Members /\ above' = [above EXCEPT ![d] = Attached(p, leg)]
  BY DEF Attaches
<1>2. DOMAIN above = Members
  BY DEF TreeTypeOK
<1>3. ASSUME NEW m \in Members \ {d}
      PROVE  /\ above'[m] = above[m] /\ (Placed(m)' <=> Placed(m))
             /\ ParentRow(m)' = ParentRow(m) /\ ParentOf(m)' = ParentOf(m)
  <2>1. above'[m] = above[m]
    BY <1>1, <1>2
  <2> QED
    BY <2>1 DEF Placed, ParentRow, ParentOf
<1> DEFINE first == [ancestor |-> p, leg |-> leg, depth |-> 1]
<1>4. above'[d] = {first} \cup {OneUp(g) : g \in above[p]}
  <2>1. above'[d] = Attached(p, leg)
    BY <1>1, <1>2
  <2> QED
    BY <2>1, AttachedIsCopied DEF Attaches
<1>5. ASSUME NEW g \in above[p] PROVE OneUp(g).depth > 1
  <2>1. g.depth \in Nat /\ g.depth >= 1
    BY RowFields DEF Attaches
  <2> QED
    BY <2>1 DEF OneUp
<1>6. \A e \in above'[d] : e.depth = 1 <=> e = first
  BY <1>4, <1>5
<1>7. first \in above'[d] /\ first.depth = 1 /\ first.ancestor = p
  BY <1>4
<1> HIDE DEF first
<1>8. Placed(d)' /\ ParentRow(d)' = first
  BY <1>6, <1>7 DEF Placed, ParentRow
<1>9. ParentOf(d)' = p
  BY <1>1, <1>7, <1>8 DEF ParentOf
<1> QED
  BY <1>3, <1>4, <1>5, <1>8, <1>9 DEF first

LEMMA AttachedPositions ==
  ASSUME TreeTypeOK, PlacedOnce, NEW d, NEW p, NEW leg, Attaches(d, p, leg)
  PROVE  /\ Len(placed) \in Nat /\ DOMAIN placed = 1 .. Len(placed)
         /\ DOMAIN placed' = 1 .. (Len(placed) + 1) /\ placed'[Len(placed) + 1] = d
         /\ \A i \in 1 .. Len(placed) : placed'[i] = placed[i] /\ placed[i] \in Members \ {d}
         /\ \A m \in Members : Placed(m) => /\ PositionOf(m)' = PositionOf(m)
                                            /\ PositionOf(m) \in 1 .. Len(placed)
         /\ PositionOf(d)' = Len(placed) + 1
<1>1. /\ Len(placed) \in Nat /\ DOMAIN placed = 1 .. Len(placed)
      /\ DOMAIN placed' = 1 .. (Len(placed) + 1) /\ placed'[Len(placed) + 1] = d
      /\ \A i \in 1 .. Len(placed) : placed'[i] = placed[i]
  BY DEF TreeTypeOK, Attaches
<1>2. \A i \in 1 .. Len(placed) : placed[i] \in Members \ {d}
  <2>1. \A i \in 1 .. Len(placed) : placed[i] \in Members
    BY <1>1 DEF TreeTypeOK
  <2>2. ~Placed(d)
    BY AttachesBelow
  <2> QED
    BY <1>1, <2>1, <2>2 DEF PlacedOnce
<1>3. ASSUME NEW m \in Members, Placed(m)
      PROVE  PositionOf(m)' = PositionOf(m) /\ PositionOf(m) \in 1 .. Len(placed)
  <2> DEFINE n == PositionOf(m)
  <2>1. n \in 1 .. Len(placed) /\ placed[n] = m /\ \A i \in 1 .. Len(placed) : placed[i] = m => i = n
    BY <1>1, <1>3, PositionIsOne
  <2>2. m # d
    BY <1>3, AttachesBelow
  <2> HIDE DEF n
  <2>3. n \in DOMAIN placed' /\ placed'[n] = m /\ \A i \in DOMAIN placed' : placed'[i] = m => i = n
    <3>1. \A i \in 1 .. (Len(placed) + 1) : i = Len(placed) + 1 \/ i \in 1 .. Len(placed)
      BY <1>1
    <3> QED
      BY <1>1, <2>1, <2>2, <3>1
  <2>4. PositionOf(m)' = n
    BY <2>3 DEF PositionOf
  <2> QED
    BY <2>1, <2>4 DEF n
<1>4. PositionOf(d)' = Len(placed) + 1
  <2>1. \A i \in 1 .. (Len(placed) + 1) : i = Len(placed) + 1 \/ i \in 1 .. Len(placed)
    BY <1>1
  <2>2. \A i \in DOMAIN placed' : placed'[i] = d => i = Len(placed) + 1
    BY <1>1, <1>2, <2>1
  <2>3. Len(placed) + 1 \in DOMAIN placed'
    BY <1>1
  <2> QED
    BY <1>1, <2>2, <2>3 DEF PositionOf
<1> QED
  BY <1>1, <1>2, <1>3, <1>4

\* Nobody loses anybody above him, and who is late stays late.
LEMMA AboveStays ==
  ASSUME TreeTypeOK, NEW d, NEW p, NEW leg, Attaches(d, p, leg), NEW x, NEW a, UpTo(x, a)
  PROVE  UpTo(x, a)'
<1> SUFFICES ASSUME NEW S \in SUBSET Members, x \in S, Closed(S)' PROVE a \in S
  BY DEF UpTo
<1>1. ASSUME NEW y \in S, Placed(y) PROVE ParentOf(y) \in S
  <2>1. y \in Members \ {d}
    BY <1>1, AttachesBelow
  <2>2. Placed(y)' /\ ParentOf(y)' = ParentOf(y)
    BY <1>1, <2>1, AttachedRows
  <2> QED
    BY <2>2 DEF Closed
<1> QED
  BY <1>1 DEF Closed, UpTo

LEMMA LateStays ==
  ASSUME TreeTypeOK, PlacedOnce, NEW d, NEW p, NEW leg, Attaches(d, p, leg),
         NEW x, LateAbove(x)
  PROVE  LateAbove(x)'
<1>1. PICK y \in Members : /\ UpTo(x, y) /\ Placed(y) /\ Placed(ParentOf(y))
                           /\ PositionOf(y) < PositionOf(ParentOf(y))
  BY DEF LateAbove
<1>2. ParentOf(y) \in Members
  BY <1>1, ParentRowIsOne
<1>3. y # d /\ ParentOf(y) # d
  BY <1>1, AttachesBelow
<1>4. Placed(y)' /\ ParentOf(y)' = ParentOf(y)
  BY <1>1, <1>3, AttachedRows
<1>5. Placed(ParentOf(y))'
  <2> DEFINE q == ParentOf(y)
  <2>1. q \in Members \ {d} /\ Placed(q)
    BY <1>1, <1>2, <1>3
  <2>2. above'[q] = above[q]
    BY <2>1, AttachedRows
  <2>3. ParentOf(y)' = q
    BY <1>4
  <2> HIDE DEF q
  <2> QED
    BY <2>1, <2>2, <2>3 DEF Placed
<1>6. PositionOf(y)' < PositionOf(ParentOf(y))'
  <2> DEFINE q == ParentOf(y)
  <2>1. PositionOf(y)' = PositionOf(y)
    BY <1>1, AttachedPositions
  <2>2. \A m \in Members : Placed(m) => (CHOOSE i \in DOMAIN placed' : placed'[i] = m) = PositionOf(m)
    BY AttachedPositions DEF PositionOf
  <2>3. (CHOOSE i \in DOMAIN placed' : placed'[i] = q) = PositionOf(q)
    BY <1>1, <1>2, <2>2
  <2>4. ParentOf(y)' = q
    BY <1>4
  <2>5. PositionOf(ParentOf(y))' = PositionOf(q)
    BY <2>3, <2>4 DEF PositionOf
  <2> QED
    BY <1>1, <2>1, <2>5
<1>7. UpTo(x, y)'
  BY <1>1, AboveStays
<1> QED
  BY <1>4, <1>5, <1>6, <1>7 DEF LateAbove

LEMMA PlacedOnceStep ==
  ASSUME TreeTypeOK, PlacedOnce, NEW d, NEW p, NEW leg, Attaches(d, p, leg)
  PROVE  PlacedOnce'
<1>1. ASSUME NEW i \in DOMAIN placed', NEW j \in DOMAIN placed', placed'[i] = placed'[j]
      PROVE  i = j
  <2>1. /\ i = Len(placed) + 1 \/ i \in 1 .. Len(placed)
        /\ j = Len(placed) + 1 \/ j \in 1 .. Len(placed)
    BY AttachedPositions
  <2>2. \A k \in 1 .. Len(placed) : placed'[k] = placed[k] /\ placed[k] # d /\ k \in DOMAIN placed
    BY AttachedPositions
  <2>3. placed'[Len(placed) + 1] = d
    BY AttachedPositions
  <2>4. CASE i \in 1 .. Len(placed) /\ j \in 1 .. Len(placed)
    BY <1>1, <2>2, <2>4 DEF PlacedOnce
  <2> QED
    BY <1>1, <2>1, <2>2, <2>3, <2>4
<1>2. ASSUME NEW m \in Members
      PROVE  /\ Placed(m)' <=> \E i \in DOMAIN placed' : placed'[i] = m
             /\ Placed(m)' => Sponsor[m] # None
             /\ above'[m] # {} => Placed(m)'
             /\ \A e, g \in above'[m] : e.depth = 1 /\ g.depth = 1 => e = g
  <2>1. CASE m = d
    <3>1. Placed(d)' /\ Sponsor[d] # None
      BY AttachedRows, SponsorAssumption DEF Attaches
    <3>2. Len(placed) + 1 \in DOMAIN placed' /\ placed'[Len(placed) + 1] = d
      BY AttachedPositions
    <3>3. \A e, g \in above'[d] : e.depth = 1 /\ g.depth = 1 => e = g
      BY AttachedRows
    <3> QED
      BY <2>1, <3>1, <3>2, <3>3
  <2>2. CASE m # d
    <3>1. above'[m] = above[m] /\ (Placed(m)' <=> Placed(m))
      BY <2>2, AttachedRows
    <3>2. (\E i \in DOMAIN placed' : placed'[i] = m) <=> \E i \in DOMAIN placed : placed[i] = m
      <4>1. \A i \in DOMAIN placed' : i = Len(placed) + 1 \/ i \in 1 .. Len(placed)
        BY AttachedPositions
      <4>2. \A i \in 1 .. Len(placed) : i \in DOMAIN placed' /\ i \in DOMAIN placed
        BY AttachedPositions
      <4> QED
        BY <2>2, <4>1, <4>2, AttachedPositions
    <3> QED
      BY <3>1, <3>2 DEF PlacedOnce
  <2> QED
    BY <2>1, <2>2
<1> QED
  BY <1>1, <1>2 DEF PlacedOnce

LEMMA CopiesStep ==
  ASSUME TreeTypeOK, PlacedOnce, RowsAreCopies, RowsWereCopied,
         NEW d, NEW p, NEW leg, Attaches(d, p, leg)
  PROVE  RowsAreCopies' /\ RowsWereCopied'
<1>0. d \in Members /\ p \in Members \ {d} /\ above[d] = {} /\ ~Placed(d) /\ above'[p] = above[p]
  BY AttachesBelow, AttachedRows DEF Attaches
<1>1. ASSUME NEW m \in Members, NEW e \in above'[m], e.depth > 1
      PROVE  \E g \in above'[ParentOf(m)'] : e = OneUp(g)
  <2>1. CASE m = d
    <3>1. e.depth # 1
      BY <1>1
    <3>2. \E g \in above[p] : e = OneUp(g)
      BY <1>1, <2>1, <3>1, AttachedRows
    <3> QED
      BY <1>0, <2>1, <3>2, AttachedRows
  <2>2. CASE m # d
    <3>1. e \in above[m] /\ ParentOf(m)' = ParentOf(m)
      BY <1>1, <2>2, AttachedRows
    <3>2. PICK g \in above[ParentOf(m)] : e = OneUp(g)
      BY <1>1, <3>1 DEF RowsAreCopies
    <3>3. ParentOf(m) \in Members \ {d}
      <4>1. Placed(m)
        BY <3>1 DEF PlacedOnce
      <4> QED
        BY <1>0, <3>2, <4>1, ParentRowIsOne
    <3>4. above'[ParentOf(m)] = above[ParentOf(m)]
      BY <3>3, AttachedRows
    <3> QED
      BY <3>1, <3>2, <3>4
  <2> QED
    BY <2>1, <2>2
<1>2. ASSUME NEW m \in Members, Placed(m)', Placed(ParentOf(m))',
             PositionOf(ParentOf(m))' < PositionOf(m)', NEW g \in above'[ParentOf(m)']
      PROVE  OneUp(g) \in above'[m]
  <2>1. CASE m = d
    <3>1. g \in above[p]
      BY <1>0, <1>2, <2>1, AttachedRows
    <3> QED
      BY <2>1, <3>1, AttachedRows
  <2>2. CASE m # d
    <3>1. Placed(m) /\ ParentOf(m)' = ParentOf(m) /\ above'[m] = above[m] /\ ParentOf(m) \in Members
      BY <1>2, <2>2, AttachedRows, ParentRowIsOne
    <3>2. PICK q \in Members : q = ParentOf(m)
      BY <3>1
    <3>3. PositionOf(ParentOf(m))' = PositionOf(q)'
      BY <3>1, <3>2 DEF PositionOf
    <3>4. PositionOf(m)' = PositionOf(m) /\ PositionOf(m) \in 1 .. Len(placed) /\ Len(placed) \in Nat
      BY <3>1, AttachedPositions
    <3>5. q # d
      <4> SUFFICES ASSUME q = d PROVE FALSE
        OBVIOUS
      <4>1. PositionOf(q)' = Len(placed) + 1
        BY AttachedPositions DEF PositionOf
      <4> QED
        BY <1>2, <3>3, <3>4, <4>1
    <3>6. above'[q] = above[q] /\ Placed(q)' = Placed(q) /\ Placed(q)
      <4>1. Placed(q)'
        BY <1>2, <3>1, <3>2 DEF Placed
      <4>2. above'[q] = above[q]
        BY <3>5, AttachedRows
      <4> QED
        BY <4>1, <4>2 DEF Placed
    <3>7. PositionOf(q)' = PositionOf(q)
      BY <3>6, AttachedPositions
    <3>8. g \in above[q]
      BY <1>2, <3>1, <3>2, <3>6
    <3> QED
      BY <1>2, <3>1, <3>2, <3>3, <3>4, <3>6, <3>7, <3>8 DEF RowsWereCopied
  <2> QED
    BY <2>1, <2>2
<1>3. RowsAreCopies'
  BY <1>1 DEF RowsAreCopies
<1>4. RowsWereCopied'
  BY <1>2 DEF RowsWereCopied
<1> QED
  BY <1>3, <1>4

\* A circle through the new member would be a circle of sponsors.
LEMMA CirclesStep ==
  ASSUME TreeTypeOK, NoCircles, SponsorsAreAbove, NEW d, NEW p, NEW leg, Attaches(d, p, leg)
  PROVE  NoCircles'
<1> SUFFICES ASSUME NEW S \in (SUBSET Members) \ {{}},
                    \A x \in S : Placed(x)' /\ ParentOf(x)' \in S
             PROVE  FALSE
  BY DEF NoCircles
<1>1. \A x \in S \ {d} : Placed(x) /\ ParentOf(x) \in S
  BY AttachedRows
<1>2. d \in S
  BY <1>1 DEF NoCircles
<1>3. p \in S
  BY <1>2, AttachedRows
<1>4. Closed(S)
  BY <1>1, AttachesBelow DEF Closed
<1>5. \A x \in S \ {d} : Sponsor[x] \in S
  BY <1>1, <1>4 DEF SponsorsAreAbove, UpTo
<1>6. Sponsor[d] \in S
  BY <1>3, <1>4 DEF Attaches, UpTo
<1> QED
  BY <1>5, <1>6, SponsorAssumption

LEMMA AboveNewOne ==
  ASSUME TreeTypeOK, NEW d, NEW p, NEW leg, Attaches(d, p, leg)
  PROVE  /\ UpTo(d, p)'
         /\ \A x, y, z : UpTo(x, y)' /\ UpTo(y, z)' => UpTo(x, z)'
<1>1. Placed(d)' /\ ParentOf(d)' = p
  BY AttachedRows
<1>2. UpTo(d, p)'
  BY <1>1 DEF UpTo, Closed
<1>3. \A x, y, z : UpTo(x, y)' /\ UpTo(y, z)' => UpTo(x, z)'
  BY DEF UpTo
<1> QED
  BY <1>2, <1>3

LEMMA SponsorsStep ==
  ASSUME TreeTypeOK, SponsorsAreAbove, NEW d, NEW p, NEW leg, Attaches(d, p, leg)
  PROVE  SponsorsAreAbove'
<1> SUFFICES ASSUME NEW m \in Members, Placed(m)' PROVE UpTo(m, Sponsor[m])'
  BY DEF SponsorsAreAbove
<1>1. CASE m = d
  <2>1. UpTo(p, Sponsor[d])'
    BY AboveStays DEF Attaches
  <2> QED
    BY <1>1, <2>1, AboveNewOne
<1>2. CASE m # d
  <2>1. Placed(m)
    BY <1>2, AttachedRows
  <2> QED
    BY <2>1, AboveStays DEF SponsorsAreAbove
<1> QED
  BY <1>1, <1>2

LEMMA LateFurther ==
  ASSUME NEW x, NEW y, UpTo(x, y), LateAbove(y)
  PROVE  LateAbove(x)
BY UpToFurther DEF LateAbove

LEMMA LateFurtherNext ==
  \A x, y : UpTo(x, y)' /\ LateAbove(y)' => LateAbove(x)'
<1> SUFFICES ASSUME NEW x, NEW y, UpTo(x, y)', LateAbove(y)' PROVE LateAbove(x)'
  OBVIOUS
<1>1. PICK z \in Members : /\ UpTo(y, z)' /\ Placed(z)' /\ Placed(ParentOf(z))'
                           /\ PositionOf(z)' < PositionOf(ParentOf(z))'
  BY DEF LateAbove
<1>2. UpTo(x, z)'
  BY <1>1 DEF UpTo
<1> QED
  BY <1>1, <1>2 DEF LateAbove

LEMMA PlacesStep ==
  ASSUME TreeTypeOK, PlacedOnce, PlacesAreTaken, NEW d, NEW p, NEW leg, Attaches(d, p, leg)
  PROVE  PlacesAreTaken'
<1> DEFINE top == Len(placed) + 1
<1>0. \A i \in DOMAIN placed' : i = top \/ i \in 1 .. Len(placed)
  BY AttachedPositions
<1>1. ASSUME NEW i \in 1 .. Len(placed), NEW x, x = placed'[i]
      PROVE  /\ i \in DOMAIN placed /\ x = placed[i] /\ x \in Members \ {d} /\ Placed(x)
             /\ ParentOf(x)' = ParentOf(x) /\ ParentRow(x)' = ParentRow(x)
  <2>1. i \in DOMAIN placed /\ x = placed[i] /\ x \in Members \ {d}
    BY <1>1, AttachedPositions
  <2> QED
    BY <2>1, AttachedRows DEF PlacedOnce
<1>2. placed'[top] = d /\ ParentOf(d)' = p /\ ParentRow(d)'.leg = leg
  BY AttachedPositions, AttachedRows
\* Whoever has the same place as the new one.
<1>3. ASSUME NEW i \in 1 .. Len(placed), NEW x, x = placed'[i],
             ParentOf(x) = p, ParentRow(x).leg = leg
      PROVE  LateAbove(x)' /\ LateAbove(d)'
  <2>0. x \in Members /\ Placed(x)
    BY <1>1, <1>3
  <2>1. Under(p, leg, x)
    <3>1. ParentRow(x) \in above[x] /\ ParentRow(x).depth = 1 /\ ParentRow(x).ancestor = p
      BY <1>3, <2>0, ParentRowIsOne
    <3> QED
      BY <1>3, <3>1 DEF Under
  <2>2. LateAbove(p)'
    BY <2>0, <2>1, LateStays DEF Attaches
  <2>3. UpTo(x, p)'
    BY <1>3, <2>0, UpToParent, AboveStays
  <2> QED
    BY <2>2, <2>3, AboveNewOne, LateFurtherNext
<1> HIDE DEF top
<1> SUFFICES ASSUME NEW i \in DOMAIN placed', NEW j \in DOMAIN placed', i # j,
                    NEW x, x = placed'[i], NEW y, y = placed'[j],
                    ParentOf(x)' = ParentOf(y)', ParentRow(x)'.leg = ParentRow(y)'.leg
             PROVE  LateAbove(x)'
  <2>1. ASSUME NEW i \in DOMAIN placed', NEW x, x = placed'[i]
        PROVE  /\ ParentOf(placed[i])' = ParentOf(x)' /\ ParentRow(placed[i])' = ParentRow(x)'
               /\ LateAbove(x)' => LateAbove(placed[i])'
    BY <2>1 DEF ParentOf, ParentRow, Placed, LateAbove, UpTo
  <2> QED
    BY <2>1 DEF PlacesAreTaken
<1>4. CASE i = top
  <2>1. j \in 1 .. Len(placed) /\ x = d
    BY <1>0, <1>2, <1>4
  <2> QED
    BY <1>1, <1>2, <1>3, <2>1
<1>5. CASE j = top
  <2>1. i \in 1 .. Len(placed) /\ y = d
    BY <1>0, <1>2, <1>5
  <2> QED
    BY <1>1, <1>2, <1>3, <2>1
<1>6. CASE i \in 1 .. Len(placed) /\ j \in 1 .. Len(placed)
  <2>1. /\ i \in DOMAIN placed /\ x = placed[i] /\ ParentOf(x)' = ParentOf(x)
        /\ ParentRow(x)' = ParentRow(x)
    BY <1>1, <1>6
  <2>2. /\ j \in DOMAIN placed /\ y = placed[j] /\ ParentOf(y)' = ParentOf(y)
        /\ ParentRow(y)' = ParentRow(y)
    BY <1>1, <1>6
  <2>3. LateAbove(x)
    BY <2>1, <2>2 DEF PlacesAreTaken
  <2> QED
    BY <2>3, LateStays
<1> QED
  BY <1>0, <1>4, <1>5, <1>6

LEMMA AttachingIsSound ==
  ASSUME TreeTypeOK, TreeInv, NEW d, NEW p, NEW leg, Attaches(d, p, leg)
  PROVE  TreeInv'
BY PlacedOnceStep, CopiesStep, CirclesStep, SponsorsStep, PlacesStep DEF TreeInv

-----------------------------------------------------------------------------
(* The tree: placements, one at a time or at once.                          *)

\* Nobody is placed: everything that is said of the tree stays as it was.
LEMMA TreeUnmoved ==
  ASSUME UNCHANGED <<above, placed>>
  PROVE  /\ TreeInv => TreeInv'
         /\ \A x, a : UpTo(x, a)' <=> UpTo(x, a)
         /\ \A x : LateAbove(x)' <=> LateAbove(x)
         /\ \A p, leg, m : Under(p, leg, m)' <=> Under(p, leg, m)
<1>1. above' = above /\ placed' = placed
  OBVIOUS
<1>2. \A m : /\ Placed(m)' <=> Placed(m)
             /\ ParentRow(m)' = ParentRow(m)
             /\ PositionOf(m)' = PositionOf(m)
  BY <1>1 DEF Placed, ParentRow, PositionOf
<1>3. \A m : ParentOf(m)' = ParentOf(m)
  BY <1>2 DEF ParentOf
<1>4. \A S : Closed(S)' <=> Closed(S)
  BY <1>2, <1>3 DEF Closed
<1>5. \A x, a : UpTo(x, a)' <=> UpTo(x, a)
  BY <1>4 DEF UpTo
<1>6. \A m : Placed(ParentOf(m))' <=> Placed(ParentOf(m))
  BY <1>1, <1>3 DEF Placed
<1>7. \A m : PositionOf(ParentOf(m))' = PositionOf(ParentOf(m))
  BY <1>1, <1>3 DEF PositionOf
<1>8. \A x : LateAbove(x)' <=> LateAbove(x)
  BY <1>2, <1>5, <1>6, <1>7 DEF LateAbove
<1>9. \A p, leg, m : Under(p, leg, m)' <=> Under(p, leg, m)
  BY <1>1 DEF Under
<1>10. ASSUME TreeInv PROVE TreeInv'
  <2>1. PlacedOnce'
    BY <1>1, <1>2, <1>10 DEF TreeInv, PlacedOnce
  <2>2. RowsAreCopies' /\ RowsWereCopied'
    BY <1>1, <1>2, <1>3, <1>6, <1>7, <1>10 DEF TreeInv, RowsAreCopies, RowsWereCopied
  <2>3. NoCircles'
    BY <1>2, <1>3, <1>10 DEF TreeInv, NoCircles
  <2>4. SponsorsAreAbove'
    BY <1>2, <1>5, <1>10 DEF TreeInv, SponsorsAreAbove
  <2>5. PlacesAreTaken'
    <3> SUFFICES ASSUME NEW i \in DOMAIN placed, NEW j \in DOMAIN placed, i # j,
                        (ParentOf(placed[i]) = ParentOf(placed[j]))',
                        (ParentRow(placed[i]).leg = ParentRow(placed[j]).leg)'
                 PROVE  LateAbove(placed[i])'
      BY <1>1 DEF PlacesAreTaken
    <3> QED
      BY <1>1, <1>2, <1>3, <1>8, <1>10 DEF TreeInv, PlacesAreTaken
  <2> QED
    BY <2>1, <2>2, <2>3, <2>4, <2>5 DEF TreeInv
<1> QED
  BY <1>5, <1>8, <1>9, <1>10

\* What w places, where it said it would.
PlacedBy(w, d, p, leg) ==
  /\ CommitPlacing(w) /\ pc[w] = "placing" /\ d = Buyer(job[w].ref)
  /\ job[w].slot = <<p, leg>>
  /\ Attaches(d, p, leg)

\* The tree grows by one member at a time, at the place that his placement found.
LEMMA TreeMoves ==
  ASSUME PackInv, PlacesAreOpen, [Next]_vars
  PROVE  \/ UNCHANGED <<above, placed>>
         \/ \E w \in Workers, d \in Members, p \in Members, leg \in Legs : PlacedBy(w, d, p, leg)
<1>1. ASSUME NEW w \in Workers, CommitPlacing(w)
      PROVE  \/ UNCHANGED <<above, placed>>
             \/ \E d \in Members, p \in Members, leg \in Legs : PlacedBy(w, d, p, leg)
  <2>1. PICK f \in Refs, d \in Members, pack \in Packs : CommitStep(w, f, d, pack)
    BY <1>1, CommitEffects
  <2>2. f = job[w].ref /\ d = Buyer(f) /\ pc[w] = "placing" /\ above[d] = {}
        /\ above' = [above EXCEPT ![d] = NewRows(w)]
    BY <2>1 DEF CommitStep
  <2>3. placed' = IF Sponsor[d] = None THEN placed ELSE Append(placed, d)
    BY <1>1, <2>2 DEF CommitPlacing
  <2>4. CASE Sponsor[d] = None
    <3>1. NewRows(w) = {}
      BY <2>2, <2>4 DEF NewRows
    <3>2. above \in [Members -> SUBSET Rows]
      BY DEF PackInv, PackBooksAgree, TypeOK, TreeTypeOK
    <3>3. above' = above
      BY <2>2, <3>1, <3>2
    <3> QED
      BY <2>3, <2>4, <3>3
  <2>5. CASE Sponsor[d] # None
    <3>1. Sponsor[d] \in Members
      BY <2>5, SponsorAssumption
    <3>2. job[w].slot \in Members \X Legs
      BY <2>2, <2>5 DEF PackInv, PlacingIsAlone
    <3>3. PICK p \in Members, leg \in Legs : job[w].slot = <<p, leg>>
      BY <3>2
    <3>4. NewRows(w) = Attached(p, leg)
      BY <2>2, <2>5, <3>3 DEF NewRows
    <3>5. UpTo(p, Sponsor[d]) /\ \A m \in Members : Under(p, leg, m) => LateAbove(p)
      BY <2>2, <2>5, <3>3 DEF PlacesAreOpen
    <3>6. Attaches(d, p, leg)
      BY <2>2, <2>3, <2>5, <3>1, <3>4, <3>5 DEF Attaches
    <3> QED
      BY <1>1, <2>2, <3>3, <3>6 DEF PlacedBy
  <2> QED
    BY <2>4, <2>5
<1>2. ASSUME NEW d \in Cancellers, Cancel(d) PROVE UNCHANGED <<above, placed>>
  BY <1>2 DEF Cancel
<1>3. BooksUntouched => UNCHANGED <<above, placed>>
  BY DEF BooksUntouched, treeVars
<1>4. ASSUME NEW d \in Buyers, NEW pack \in Packs, NEW f \in Refs, Select(d, pack, f)
      PROVE  UNCHANGED <<above, placed>>
  BY <1>4 DEF Select, treeVars
<1> QED
  BY <1>1, <1>2, <1>3, <1>4, QuietSteps, StepCases

LEMMA TreeStep ==
  ASSUME PackTreeInv, [Next]_vars
  PROVE  TreeInv'
<1>1. TreeTypeOK
  BY DEF PackTreeInv, PackInv, PackBooksAgree, TypeOK
<1> QED
  BY <1>1, TreeMoves, TreeUnmoved, AttachingIsSound DEF PackTreeInv, PlacedBy

\* Where the search of BeginPlacing ends.
LEMMA SlotIsOpen ==
  ASSUME TreeTypeOK, TreeInv, NEW d \in Members, Sponsor[d] # None
  PROVE  IsOpenBelow(SlotFor(d), Sponsor[d])
<1>1. Sponsor[d] \in Members /\ WeakerLeg(Sponsor[d]) \in Legs
  BY SponsorAssumption DEF WeakerLeg, Legs
<1> QED
  BY <1>1, OpenSlotIsOpen DEF SlotFor, TreeInv

\* While a placement is under way, its place is only taken by another placement that
\* does not know of the sponsor, and that happens below a late placement.
LEMMA PlacesOpenStep ==
  ASSUME PackTreeInv, [Next]_vars
  PROVE  PlacesAreOpen'
<1> PackInv /\ TreeInv /\ PlacesAreOpen /\ TypeOK /\ TreeTypeOK /\ PlacedOnce
  BY DEF PackTreeInv, PackInv, PackBooksAgree, TypeOK, TreeInv
<1> SUFFICES ASSUME NEW w \in Workers, pc'[w] = "placing", (Sponsor[Buyer(job[w].ref)])' # None
             PROVE  (/\ UpTo(job[w].slot[1], Sponsor[Buyer(job[w].ref)])
                     /\ \A m \in Members : Under(job[w].slot[1], job[w].slot[2], m)
                                             => LateAbove(job[w].slot[1]))'
  BY DEF PlacesAreOpen
<1>1. \A f \in Refs : Issued(f) => Buyer(f)' = Buyer(f)
  BY CheckoutsStep
<1>2. CASE BeginPlacing(w)
  <2> PICK d : d = Buyer(job[w].ref)
    OBVIOUS
  <2>1. d \in Members
    BY <1>2, PlacementFacts DEF BeginPlacing
  <2>2. job' = [job EXCEPT ![w].slot = SlotFor(d)] /\ checkout' = checkout /\ UNCHANGED <<above, placed>>
    BY <1>2 DEF BeginPlacing, treeVars
  <2>3. job'[w].ref = job[w].ref /\ job'[w].slot = SlotFor(d)
    BY <2>2 DEF TypeOK, Jobs
  <2>4. (Buyer(job[w].ref))' = d
    BY <2>2, <2>3 DEF Buyer
  <2>5. Sponsor[d] # None
    BY <2>4
  <2>6. IsOpenBelow(SlotFor(d), Sponsor[d])
    BY <2>1, <2>5, SlotIsOpen
  <2>7. PICK p \in Members, leg \in Legs : SlotFor(d) = <<p, leg>>
    BY <2>6 DEF IsOpenBelow
  <2>8. UpTo(p, Sponsor[d]) /\ \A m \in Members : ~Under(p, leg, m)
    BY <2>6, <2>7 DEF IsOpenBelow
  <2>9. UpTo(p, Sponsor[d])' /\ \A m \in Members : ~Under(p, leg, m)'
    BY <2>2, <2>8, TreeUnmoved
  <2>10. job'[w].slot[1] = p /\ job'[w].slot[2] = leg
    BY <2>3, <2>7
  <2> QED
    BY <2>4, <2>9, <2>10
<1>3. CASE pc[w] = "placing" /\ job'[w] = job[w] /\ ~CommitPlacing(w)
  <2> PICK f, d, p, leg : f = job[w].ref /\ d = Buyer(f) /\ p = job[w].slot[1] /\ leg = job[w].slot[2]
    OBVIOUS
  <2>1. f \in Refs /\ Issued(f) /\ d \in Members
    BY <1>3, PlacementFacts
  <2>2. (Buyer(job[w].ref))' = d /\ Sponsor[d] # None
    <3>1. Buyer(f)' = d
      BY <1>1, <2>1
    <3>2. (Buyer(job[w].ref))' = d
      BY <1>3, <3>1 DEF Buyer
    <3> QED
      BY <3>2
  <2>3. UpTo(p, Sponsor[d]) /\ \A m \in Members : Under(p, leg, m) => LateAbove(p)
    BY <1>3, <2>2 DEF PlacesAreOpen
  <2>4. job'[w].slot[1] = p /\ job'[w].slot[2] = leg
    BY <1>3
  <2> SUFFICES UpTo(p, Sponsor[d])' /\ \A m \in Members : Under(p, leg, m)' => LateAbove(p)'
    BY <2>2, <2>4
  <2>5. CASE UNCHANGED <<above, placed>>
    BY <2>3, <2>5, TreeUnmoved
  <2>6. ASSUME NEW v \in Workers, NEW e \in Members, NEW q \in Members, NEW l \in Legs,
               PlacedBy(v, e, q, l)
        PROVE  UpTo(p, Sponsor[d])' /\ \A m \in Members : Under(p, leg, m)' => LateAbove(p)'
    <3>1. Attaches(e, q, l) /\ CommitPlacing(v) /\ job[v].slot = <<q, l>>
      BY <2>6 DEF PlacedBy
    <3>2. UpTo(p, Sponsor[d])'
      BY <2>3, <3>1, AboveStays
    <3>3. ASSUME NEW m \in Members, Under(p, leg, m)' PROVE LateAbove(p)
      <4>1. CASE m # e
        <5>1. above'[m] = above[m]
          BY <3>1, <4>1, AttachedRows
        <5> QED
          BY <2>3, <3>3, <5>1 DEF Under
      <4>2. CASE m = e
        <5>1. p = q /\ leg = l
          BY <3>1, <3>3, <4>2, AttachedRows DEF Under
        <5>2. Sponsor[d] \in Held(w)
          BY <1>3, <2>2 DEF Held
        <5>3. Sponsor[d] \notin Referred(v)
          <6>1. v # w /\ pc[v] = "placing"
            BY <1>3, <2>6 DEF PlacedBy
          <6>2. ~Waits(v, w)
            BY <3>1 DEF CommitPlacing
          <6> QED
            BY <1>3, <5>2, <6>1, <6>2 DEF Waits
        <5>4. Sponsor[d] # q /\ \A r \in above[q] : r.ancestor # Sponsor[d]
          BY <3>1, <5>3 DEF Referred
        <5> QED
          BY <2>3, <5>1, <5>4, AboveIsInRows
      <4> QED
        BY <4>1, <4>2
    <3> QED
      BY <3>1, <3>2, <3>3, LateStays
  <2> QED
    BY <2>5, <2>6, TreeMoves
<1> QED
  BY <1>2, <1>3, PlacingSteps

-----------------------------------------------------------------------------
(* The theorems.                                                            *)

LEMMA PackInit == Init => PackInv
<1> SUFFICES ASSUME Init PROVE PackInv
  OBVIOUS
<1>1. /\ \A d \in Members : /\ ~member[d].confirmed /\ ~member[d].cancelled
                            /\ above[d] = {} /\ ownPv[d] = 0
                            /\ \A leg \in Legs : legPv[d][leg] = 0
      /\ \A f \in Refs : /\ checkout[f].by = None /\ ~checkout[f].used /\ ~checkout[f].handled
                         /\ payment[f] = "unpaid" /\ issue[f] = "none"
                         /\ bonus[f].paid = 0 /\ bonus[f].back = 0
      /\ \A w \in Workers : pc[w] = "idle" /\ job[w] = NoJob
  BY DEF Init, TreeInit, NewMember, NoCheckout
<1>2. \A d \in Members : Applied(d) = {} /\ Standing[d] = 0
  BY <1>1 DEF Applied, Standing
<1>3. OneApplied
  BY <1>1, <1>2, OnePaidIsOneApplied DEF OnePaid
<1>4. LegsAddUp
  <2>1. \A a \in Members, leg \in Legs : Team(a, leg) = {}
    BY <1>1 DEF Team
  <2> QED
    BY <1>1, <2>1, SumOfNothing DEF LegsAddUp
<1>5. BonusBalanced
  BY <1>1 DEF BonusBalanced
<1>6. CheckoutsAreIssued /\ IssuesHaveReasons
  BY <1>1 DEF CheckoutsAreIssued, IssuesHaveReasons, Issued, Buyer
<1>7. RowsFollowPacks
  <2>1. {d \in Members : Settled(d)} = {}
    BY <1>1 DEF Settled
  <2> QED
    BY <1>1, <2>1, FS_EmptySet DEF RowsFollowPacks
<1>8. PlacingIsAlone
  BY <1>1 DEF PlacingIsAlone
<1>9. WorkersKnow
  BY <1>1, IdleKnows, KnownIsAll
<1> QED
  BY <1>3, <1>4, <1>5, <1>6, <1>7, <1>8, <1>9, TypeInit DEF PackInv, PackBooksAgree

LEMMA TreeIsEmpty == Init => TreeInv /\ PlacesAreOpen
<1> SUFFICES ASSUME Init PROVE TreeInv /\ PlacesAreOpen
  OBVIOUS
<1>1. (\A d \in Members : above[d] = {} /\ ~Placed(d)) /\ DOMAIN placed = {}
  BY DEF Init, TreeInit, Placed
<1>2. PlacedOnce /\ RowsAreCopies /\ RowsWereCopied /\ SponsorsAreAbove /\ PlacesAreTaken
  BY <1>1 DEF PlacedOnce, RowsAreCopies, RowsWereCopied, SponsorsAreAbove, PlacesAreTaken
<1>3. NoCircles
  BY <1>1 DEF NoCircles
<1>4. PlacesAreOpen
  BY DEF Init, PlacesAreOpen
<1> QED
  BY <1>2, <1>3, <1>4 DEF TreeInv

\* In every reachable state the books of starter packs agree, every worker that looks
\* after a payment is right about it, and every answer has its reason: consume,
\* reconcile, cancel and refund in any order, with any number of crashes.
THEOREM PackInvHolds == Spec => []PackInv
<1>1. PackInv /\ [Next]_vars => PackInv'
  BY BooksStep, CheckoutsStep, RowsStep, AloneStep, KnowledgeStep, IssuesStep DEF PackInv
<1> QED
  BY <1>1, PackInit, PTL DEF Spec

\* Whatever webhooks, browsers, the reconciliation, cancellations and refunds do, one
\* payment is applied per member, his pack, PV and refund are those of that payment,
\* the legs above him add up to the packs that stand, and no more of the sponsor's
\* bonus is taken back than was paid.
THEOREM PackBooksAlwaysAgree == Spec => []PackBooksAgree
BY PackInvHolds, PTL DEF PackInv

\* In every reachable state, however many members place themselves at once, the rows of
\* the tree are copies of each other in the way TreeInv says, and every placement under
\* way has a place below its sponsor that is still open, late placements apart.
THEOREM PackTreeInvHolds == Spec => []PackTreeInv
<1>1. Init => PackTreeInv
  BY PackInit, TreeIsEmpty DEF PackTreeInv
<1>2. PackTreeInv /\ [Next]_vars => PackInv'
  BY BooksStep, CheckoutsStep, RowsStep, AloneStep, KnowledgeStep, IssuesStep
     DEF PackInv, PackTreeInv
<1>3. PackTreeInv /\ [Next]_vars => PackTreeInv'
  BY <1>2, TreeStep, PlacesOpenStep DEF PackTreeInv
<1> QED
  BY <1>1, <1>3, PTL DEF Spec

\* The placements leave a binary tree behind, and the closure table describes it: one
\* parent and one place for everybody, rows for all ways up and for nothing else, the
\* sponsor somewhere above, and team pages that are whole, except below a member who
\* was placed after somebody who stands below him.
THEOREM TreeIsAlwaysSound == Spec => []TreeSound
<1>1. PackTreeInv => TreeSound
  BY TreeInvIsSound DEF PackTreeInv, PackInv, PackBooksAgree, TypeOK
<1> QED
  BY <1>1, PackTreeInvHolds, PTL

\* No placement ever meets the constraints of BinaryTreeEdge, unique_binary_tree_edge and
\* binary_tree_edge_no_self_reference: the rows it inserts are new, and lead elsewhere.
THEOREM EdgesAreAlwaysUnique == Spec => []EdgesAreUnique
<1>1. PackTreeInv => EdgesAreUnique
  BY EdgesDiffer DEF PackTreeInv, PackInv, PackBooksAgree, TypeOK
<1> QED
  BY <1>1, PackTreeInvHolds, PTL

\* The AssertionError at the end of _find_open_slot, "unreachable: a binary tree always
\* has an open slot somewhere", is never raised: the loop ends at a place, whatever tree
\* the placements so far have left.
THEOREM SearchAlwaysEnds == Spec => []SearchEnds
<1>1. PackTreeInv => SearchEnds
  BY SlotIsOpen DEF PackTreeInv, PackInv, PackBooksAgree, TypeOK, SearchEnds, IsOpenBelow
<1> QED
  BY <1>1, PackTreeInvHolds, PTL

=============================================================================
