------------------------- MODULE Registration_proofs -------------------------
(***************************************************************************)
(* Proofs that every payment of a registration is answered rightly, and     *)
(* that no open payment page loses its registration, for every number of    *)
(* rows, references and workers, whatever they are asked to do, and every   *)
(* history of the payments.                                                 *)
(***************************************************************************)
EXTENDS RegistrationInvariant, TLAPS

\* Nobody and no account are no references, a row is never number 0.
LEMMA Numbers ==
  /\ Rows \subseteq 0..MaxRows /\ Refs \subseteq 0..MaxRefs
  /\ Nobody \in 0..MaxRows /\ Nobody \in 0..MaxRefs
  /\ Nobody \notin Rows /\ Nobody \notin Refs
  /\ \A r \in 0..MaxRows : r # Nobody => r \in Rows
  /\ \A f \in 0..MaxRefs : f # Nobody => f \in Refs
  /\ NoAccount \notin 0..MaxRefs /\ Earlier \notin Refs /\ NoAccount # Earlier
BY BoundAssumption DEF Rows, Refs, Nobody, NoAccount, Earlier

\* An idle worker's record, and one changed in some fields.
LEMMA JobValues ==
  /\ NoJob \in Jobs
  /\ NoJob.who = "event" /\ NoJob.row = Nobody /\ NoJob.ref = Nobody
  /\ \A j \in Jobs :
       /\ j.who \in Callers /\ j.row \in 0..MaxRows /\ j.ref \in 0..MaxRefs
       /\ j.phone \in Phones \cup {None} /\ j.past \in BOOLEAN /\ j.kind \in Kinds
BY Numbers DEF NoJob, Jobs, Callers, Kinds

-----------------------------------------------------------------------------
(* What the parts of an action do to the worker.                            *)

LEMMA StartTypes ==
  ASSUME TypeOK, NEW w \in Workers, NEW at \in Steps, NEW what \in Jobs, Start(w, at, what)
  PROVE  /\ pc' \in [Workers -> Steps] /\ job' \in [Workers -> Jobs]
         /\ pc'[w] = at /\ job'[w] = what
         /\ \A v \in Workers \ {w} : pc'[v] = pc[v] /\ job'[v] = job[v]
BY DEF TypeOK, Start

LEMMA DoneTypes ==
  ASSUME TypeOK, NEW w \in Workers, Done(w)
  PROVE  /\ pc' \in [Workers -> Steps] /\ job' \in [Workers -> Jobs]
         /\ pc'[w] = "idle" /\ job'[w] = NoJob
         /\ \A v \in Workers \ {w} : pc'[v] = pc[v] /\ job'[v] = job[v]
BY JobValues DEF TypeOK, Done, Steps

LEMMA GotoTypes ==
  ASSUME TypeOK, NEW w \in Workers, NEW at \in Steps, Goto(w, at)
  PROVE  /\ pc' \in [Workers -> Steps] /\ job' \in [Workers -> Jobs]
         /\ pc'[w] = at /\ job'[w] = job[w]
         /\ \A v \in Workers \ {w} : pc'[v] = pc[v] /\ job'[v] = job[v]
BY DEF TypeOK, Goto

\* The worker registers next.
SubmitsNext(w) ==
  /\ pc'[w] = "submit"
  /\ job'[w] = [NoJob EXCEPT !.who = "form", !.phone = job[w].phone]

LEMMA FreedTypes ==
  ASSUME TypeOK, NEW w \in Workers, Freed(w),
         job[w].who = "takeover" => job[w].phone \in Phones
  PROVE  /\ pc' \in [Workers -> Steps] /\ job' \in [Workers -> Jobs]
         /\ \/ job[w].who = "takeover" /\ SubmitsNext(w)
            \/ pc'[w] = "idle" /\ job'[w] = NoJob
         /\ \A v \in Workers \ {w} : pc'[v] = pc[v] /\ job'[v] = job[v]
<1>1. CASE job[w].who = "takeover"
  <2>1. [NoJob EXCEPT !.who = "form", !.phone = job[w].phone] \in Jobs
    BY <1>1, Numbers DEF NoJob, Jobs, Callers, Kinds
  <2> QED
    BY <1>1, <2>1 DEF Freed, TypeOK, Steps, SubmitsNext
<1>2. CASE job[w].who # "takeover"
  BY <1>2, DoneTypes DEF Freed
<1> QED
  BY <1>1, <1>2

LEMMA ReturnTypes ==
  ASSUME TypeOK, NEW w \in Workers, NEW issued \in BOOLEAN, Return(w, issued)
  PROVE  /\ pc' \in [Workers -> Steps] /\ job' \in [Workers -> Jobs]
         /\ \/ pc'[w] = "delete" /\ job'[w] = job[w] /\ job[w].who \in Removers
            \/ pc'[w] = "idle" /\ job'[w] = NoJob
         /\ \A v \in Workers \ {w} : pc'[v] = pc[v] /\ job'[v] = job[v]
BY DoneTypes, GotoTypes DEF Return, Removers, Steps

-----------------------------------------------------------------------------
(* Types.                                                                   *)

LEMMA TypeInit == Init => TypeOK
<1> SUFFICES ASSUME Init PROVE TypeOK
  OBVIOUS
<1>1. Unborn \in Registrations
  BY Numbers DEF Unborn, Registrations, Waits
<1>2. reg \in [Rows -> Registrations]
  BY <1>1 DEF Init
<1>3. checkout \in [Refs -> [row : 0..MaxRows, fee : Nat]]
  BY Numbers DEF Init
<1>4. account \in [Phones -> Refs \cup {NoAccount, Earlier}]
  BY DEF Init
<1>5. job \in [Workers -> Jobs]
  BY JobValues DEF Init
<1>6. \A r, q \in Rows : r # q /\ Holds(r, reg[q].phone) => reg[q].state \notin {"open", "consumed"}
  BY DEF Init, Unborn
<1>7. faults \in 0..MaxFaults
  BY BoundAssumption DEF Init
<1> QED
  BY <1>2, <1>3, <1>4, <1>5, <1>6, <1>7 DEF Init, TypeOK, PaymentStates, Kinds, Steps

\* The number a row holds is held by no other.
LEMMA HeldOnce ==
  ASSUME TypeOK, NEW r \in Rows, NEW q \in Rows, r # q,
         reg[r].state \in {"open", "consumed"}, reg[q].state \in {"open", "consumed"}
  PROVE  reg[r].phone # reg[q].phone
BY DEF TypeOK, Holds

\* What a step may do to a row: nothing, or fill it in for a number that no row
\* holds, open a new checkout for it, let it wait, delete it, or consume it by a
\* payment of its own that makes the account.
RowMoves(r) ==
  \/ reg'[r] = reg[r]
  \/ /\ reg[r].state = "none" /\ reg'[r].state = "open"
     /\ reg'[r].phone \in Phones /\ \A q \in Rows : ~Holds(q, reg'[r].phone)
     /\ reg'[r].ref = Nobody
  \/ /\ reg[r].state = "open" /\ reg'[r].state = "open"
     /\ reg'[r].phone = reg[r].phone
     /\ \/ reg'[r].ref = reg[r].ref /\ reg'[r].wait # "fresh"
        \/ /\ reg'[r].ref \in Refs /\ ~Issued(reg'[r].ref)
           /\ checkout'[reg'[r].ref].row = r
  \/ /\ reg[r].state = "open" /\ reg'[r].state = "deleted"
     /\ reg'[r].phone = reg[r].phone
  \/ /\ reg[r].state = "open" /\ reg'[r].state = "consumed"
     /\ reg'[r].phone = reg[r].phone
     /\ reg'[r].by \in Refs /\ Issued(reg'[r].by) /\ RowOf(reg'[r].by) = r
     /\ payment[reg'[r].by] = "paid" /\ account[reg[r].phone] = NoAccount
     /\ account'[reg[r].phone] = reg'[r].by

\* Whatever happens to the rows, no number is held twice.
LEMMA HeldOnceStays ==
  ASSUME TypeOK, reg' \in [Rows -> Registrations], \A r \in Rows : RowMoves(r),
         \A r, q \in Rows : r # q /\ reg'[r] # reg[r] => reg'[q] = reg[q]
  PROVE  \A r, q \in Rows :
           r # q /\ Holds(r, reg[q].phone)' => reg'[q].state \notin {"open", "consumed"}
BY DEF TypeOK, Holds, RowMoves

RegMoves ==
  /\ reg' \in [Rows -> Registrations]
  /\ \A r \in Rows : RowMoves(r)
  /\ \A r, q \in Rows : r # q /\ reg'[r] # reg[r] => reg'[q] = reg[q]

\* A checkout is written once, for an open row.
CheckoutMoves ==
  /\ checkout' \in [Refs -> [row : 0..MaxRows, fee : Nat]]
  /\ \A f \in Refs : Issued(f) => checkout'[f] = checkout[f]
  /\ \A f \in Refs : checkout'[f] = checkout[f] \/
       \E r \in Rows : checkout'[f].row = r /\ reg[r].state = "open" /\ reg'[r].state = "open"

\* A payment moves as Paystack lets it.
MoneyMoves ==
  /\ payment' \in [Refs -> PaymentStates]
  /\ \A f \in Refs : payment'[f] = payment[f] \/
       (Issued(f) /\ <<payment[f], payment'[f]>> \in PaymentSteps)

\* An account is made once, by the payment that consumes the row.
AccountMoves ==
  /\ account' \in [Phones -> Refs \cup {NoAccount, Earlier}]
  /\ \A p \in Phones : account'[p] = account[p] \/
       \E r \in Rows : /\ reg[r].state = "open" /\ reg'[r].state = "consumed"
                       /\ reg[r].phone = p /\ account[p] = NoAccount
                       /\ account'[p] = reg'[r].by

\* An issue is written for a reason.
IssueMoves ==
  /\ issue' \in [Refs -> Kinds]
  /\ \A f \in Refs : issue'[f] = issue[f] \/ (Issued(f) /\ Reason(f, issue[f])')

FeeMoves == fee' \in {FirstFee, LastFee}

Changes ==
  RegMoves /\ CheckoutMoves /\ MoneyMoves /\ AccountMoves /\ IssueMoves /\ FeeMoves

\* What a step leaves alone has moved in none of these ways.
LEMMA Kept ==
  ASSUME TypeOK
  PROVE  /\ UNCHANGED reg => RegMoves
         /\ UNCHANGED checkout => CheckoutMoves
         /\ UNCHANGED payment => MoneyMoves
         /\ UNCHANGED account => AccountMoves
         /\ UNCHANGED issue => IssueMoves
         /\ UNCHANGED fee => FeeMoves
<1>1. UNCHANGED reg => RegMoves
  BY DEF TypeOK, RegMoves, RowMoves
<1>2. UNCHANGED checkout => CheckoutMoves
  BY DEF TypeOK, CheckoutMoves
<1>3. UNCHANGED payment => MoneyMoves
  BY DEF TypeOK, MoneyMoves
<1>4. UNCHANGED account => AccountMoves
  BY DEF TypeOK, AccountMoves
<1>5. UNCHANGED issue => IssueMoves
  BY DEF TypeOK, IssueMoves
<1>6. UNCHANGED fee => FeeMoves
  BY DEF TypeOK, FeeMoves
<1> QED
  BY <1>1, <1>2, <1>3, <1>4, <1>5, <1>6

LEMMA QuietChanges ==
  ASSUME TypeOK, UNCHANGED dataVars PROVE Changes
BY Kept DEF dataVars, Changes

\* One row changes, as a row may.
LEMMA OneRowMoves ==
  ASSUME TypeOK, NEW r \in Rows, NEW row \in Registrations,
         reg' = [reg EXCEPT ![r] = row], RowMoves(r)
  PROVE  RegMoves /\ reg'[r] = row
<1>1. /\ reg' \in [Rows -> Registrations] /\ reg'[r] = row
      /\ \A q \in Rows \ {r} : reg'[q] = reg[q]
  BY DEF TypeOK
<1>2. \A q \in Rows : RowMoves(q)
  BY <1>1 DEF RowMoves
<1> QED
  BY <1>1, <1>2 DEF RegMoves

\* Of the parts of the invariant, those that say what a worker has in hand.
Hands == TypeOK /\ RowsKnowTheirCheckout /\ WorkersHaveTheirJob /\ ProblemsStay

LEMMA CreateChanges ==
  ASSUME Hands, NEW w \in Workers, Create(w) PROVE Changes
<1> DEFINE row == [Unborn EXCEPT !.state = "open", !.phone = job[w].phone]
<1> USE DEF Hands
<1>1. job[w].phone \in Phones
  BY DEF WorkersHaveTheirJob, HasItsJob, Create
<1>2. PICK r \in Rows : /\ reg[r].state = "none"
                        /\ ~ \E q \in Rows : Holds(q, job[w].phone)
                        /\ reg' = [reg EXCEPT ![r] = row]
  BY DEF Create
<1>3. row \in Registrations /\ row.state = "open" /\ row.phone = job[w].phone /\ row.ref = Nobody
  BY <1>1, Numbers DEF Unborn, Registrations, Waits
<1> HIDE DEF row
<1>4. UNCHANGED <<checkout, fee, payment, account, issue>>
  BY DEF Create
<1>5. reg'[r] = row
  BY <1>2 DEF TypeOK
<1>6. RowMoves(r)
  BY <1>1, <1>2, <1>3, <1>5 DEF RowMoves
<1> QED
  BY <1>2, <1>3, <1>4, <1>6, OneRowMoves, Kept DEF Changes

LEMMA CheckoutChanges ==
  ASSUME Hands, NEW r \in Rows, NEW f \in Refs, OpenCheckout(r, f) PROVE Changes
<1> DEFINE row == [reg[r] EXCEPT !.ref = f, !.wait = Reopened(@)]
<1> USE DEF Hands
<1>1. /\ reg[r].state = "open" /\ ~Issued(f)
      /\ checkout' = [checkout EXCEPT ![f] = [row |-> r, fee |-> fee]]
      /\ reg' = [reg EXCEPT ![r] = row]
      /\ UNCHANGED <<fee, payment, account, issue>>
  BY DEF OpenCheckout, TypeOK
<1>2. Reopened(reg[r].wait) \in Waits
  BY DEF Reopened, Waits, TypeOK, Registrations
<1>3. row \in Registrations /\ row.state = "open" /\ row.phone = reg[r].phone /\ row.ref = f
  BY <1>1, <1>2, Numbers DEF TypeOK, Registrations
<1> HIDE DEF row
<1>4. /\ checkout' \in [Refs -> [row : 0..MaxRows, fee : Nat]]
      /\ checkout'[f].row = r
      /\ \A g \in Refs \ {f} : checkout'[g] = checkout[g]
  BY <1>1, FeeAssumption, Numbers DEF TypeOK
<1>5. reg'[r] = row
  BY <1>1 DEF TypeOK
<1>6. RowMoves(r)
  BY <1>1, <1>3, <1>4, <1>5 DEF RowMoves
<1>7. CheckoutMoves
  BY <1>1, <1>3, <1>4, <1>5 DEF CheckoutMoves
<1> QED
  BY <1>1, <1>3, <1>6, <1>7, OneRowMoves, Kept DEF Changes

LEMMA WaitChanges ==
  ASSUME Hands, NEW r \in Rows, Wait(r) PROVE Changes
<1> USE DEF Hands
<1>1. PICK to \in Waits : /\ <<reg[r].wait, to>> \in Later
                          /\ reg' = [reg EXCEPT ![r].wait = to]
  BY DEF Wait
<1> DEFINE row == [reg[r] EXCEPT !.wait = to]
<1>2. to # "fresh"
  BY <1>1 DEF Later
<1>3. reg[r].state = "open" /\ UNCHANGED <<checkout, fee, payment, account, issue>>
  BY DEF Wait
<1>4. /\ row \in Registrations /\ row.state = "open" /\ row.phone = reg[r].phone
      /\ row.ref = reg[r].ref /\ row.wait = to
  BY <1>3 DEF TypeOK, Registrations
<1>5. reg' = [reg EXCEPT ![r] = row] /\ reg'[r] = row
  BY <1>1 DEF TypeOK
<1> HIDE DEF row
<1>6. RowMoves(r)
  BY <1>2, <1>3, <1>4, <1>5 DEF RowMoves
<1> QED
  BY <1>3, <1>4, <1>5, <1>6, OneRowMoves, Kept DEF Changes

\* A row that may be removed, as it is deleted.
LEMMA GoneChanges ==
  ASSUME Hands, NEW r \in Rows, reg[r].state = "open",
         reg' = [reg EXCEPT ![r] = Gone(r)]
  PROVE  RegMoves /\ reg'[r].state = "deleted"
<1>1. /\ Gone(r) \in Registrations /\ Gone(r).state = "deleted"
      /\ Gone(r).phone = reg[r].phone
  BY Numbers DEF Gone, Unborn, Registrations, Waits, Hands, TypeOK
<1>2. reg'[r] = Gone(r)
  BY DEF Hands, TypeOK
<1>3. RowMoves(r)
  BY <1>1, <1>2 DEF RowMoves
<1> QED
  BY <1>1, <1>2, <1>3, OneRowMoves DEF Hands

LEMMA DeleteChanges ==
  ASSUME Hands, NEW w \in Workers, Delete(w) PROVE Changes
<1>1. job[w].row \in Rows
  BY Numbers, JobValues DEF Delete, Hands, TypeOK, WorkersHaveTheirJob, HasItsJob
<1>2. RegMoves
  BY <1>1, GoneChanges DEF Delete, Unchanged
<1> QED
  BY <1>2, Kept DEF Delete, Hands, Changes

LEMMA GiveUpChanges ==
  ASSUME Hands, NEW w \in Workers, GiveUp(w) PROVE Changes
<1>0. job[w].row \in Rows /\ job[w].ref \in Refs
  BY Numbers, JobValues DEF GiveUp, Hands, TypeOK, WorkersHaveTheirJob, HasItsJob
<1> PICK r \in Rows, f \in Refs : r = job[w].row /\ f = job[w].ref
  BY <1>0
<1>1. Issued(f) /\ RowOf(f) = r
  BY Numbers, JobValues DEF GiveUp, Hands, TypeOK, WorkersHaveTheirJob, HasItsJob
<1>2. RegMoves /\ reg'[r].state = "deleted"
  BY <1>1, GoneChanges DEF GiveUp, Unchanged
<1>3. /\ issue' = [issue EXCEPT ![f] = "unconfirmed"]
      /\ UNCHANGED <<checkout, fee, payment, account>>
  BY DEF GiveUp
<1>4. /\ issue' \in [Refs -> Kinds] /\ issue'[f] = "unconfirmed"
      /\ \A g \in Refs \ {f} : issue'[g] = issue[g]
  BY <1>1, <1>3 DEF Hands, TypeOK, Kinds
<1>5. Reason(f, issue[f])'
  BY <1>1, <1>2, <1>3, <1>4 DEF Reason, RowOf
<1>6. IssueMoves
  BY <1>1, <1>4, <1>5 DEF IssueMoves
<1> QED
  BY <1>2, <1>3, <1>6, Kept DEF Hands, Changes

LEMMA ApplyChanges ==
  ASSUME Hands, CheckoutsKnowTheirRow, NEW w \in Workers, Apply(w) PROVE Changes
<1> DEFINE f == job[w].ref
           r == checkout[f].row
           row == [reg[r] EXCEPT !.state = "consumed", !.by = f, !.wait = "fresh"]
<1> USE DEF Hands
<1>1. f \in Refs /\ Issued(f) /\ r \in Rows
  BY Numbers, JobValues DEF Apply, TypeOK, WorkersHaveTheirJob, HasItsJob, Issued
<1>2. /\ payment[f] = "paid" /\ reg[r].state = "open" /\ account[reg[r].phone] = NoAccount
      /\ account' = [account EXCEPT ![reg[r].phone] = f]
      /\ UNCHANGED <<checkout, fee, payment, issue>>
  BY DEF Apply, PaidInFull, Fresh
<1>3. reg' = [reg EXCEPT ![r] = row] /\ reg'[r] = row
  BY <1>1 DEF Apply, TypeOK
<1>4. /\ row \in Registrations /\ row.state = "consumed" /\ row.by = f
      /\ row.phone = reg[r].phone
  <2>1. reg[r] \in Registrations
    BY <1>1 DEF TypeOK
  <2> HIDE DEF r, f
  <2> QED
    BY <1>1, <2>1, Numbers DEF Registrations, Waits
<1>5. reg[r].phone \in Phones
  BY <1>1, <1>2 DEF RowsKnowTheirCheckout
<1>6. /\ account' \in [Phones -> Refs \cup {NoAccount, Earlier}]
      /\ account'[reg[r].phone] = f
      /\ \A p \in Phones \ {reg[r].phone} : account'[p] = account[p]
  BY <1>1, <1>2, <1>5 DEF TypeOK
<1>7. RowOf(f) = r
  BY DEF RowOf
<1> HIDE DEF row, f, r
<1>8. RowMoves(r)
  BY <1>1, <1>2, <1>3, <1>4, <1>6, <1>7 DEF RowMoves
<1>9. AccountMoves
  BY <1>1, <1>2, <1>3, <1>4, <1>6 DEF AccountMoves
<1> QED
  BY <1>1, <1>2, <1>3, <1>4, <1>8, <1>9, OneRowMoves, Kept DEF Changes

LEMMA RecordChanges ==
  ASSUME Hands, NEW w \in Workers, Record(w) PROVE Changes
<1>0. job[w].ref \in Refs /\ job[w].kind \in Kinds
  BY Numbers, JobValues DEF Record, Hands, TypeOK, WorkersHaveTheirJob, HasItsJob
<1> PICK f \in Refs, kind \in Kinds : f = job[w].ref /\ kind = job[w].kind
  BY <1>0
<1>1. Issued(f)
  BY Numbers, JobValues DEF Record, Hands, TypeOK, WorkersHaveTheirJob, HasItsJob
<1>2. UNCHANGED <<reg, checkout, fee, payment, account>>
      /\ issue' = [issue EXCEPT ![f] = kind]
  BY DEF Record
<1>3. Reason(f, kind)
  BY DEF Record, Hands, ProblemsStay
<1>4. /\ issue' \in [Refs -> Kinds] /\ issue'[f] = kind
      /\ \A g \in Refs \ {f} : issue'[g] = issue[g]
  BY <1>1, <1>2 DEF Hands, TypeOK
<1>5. Reason(f, issue[f])'
  BY <1>2, <1>3, <1>4 DEF Reason, RowOf, PhoneOf, MadeAccount
<1>6. IssueMoves
  BY <1>1, <1>4, <1>5 DEF IssueMoves
<1> QED
  BY <1>2, <1>6, Kept DEF Hands, Changes

LEMMA PaymentChanges ==
  ASSUME Hands, NEW f \in Refs, PaymentMoves(f) PROVE Changes
<1>1. MoneyMoves
  BY DEF PaymentMoves, MoneyMoves, Hands, TypeOK
<1> QED
  BY <1>1, Kept DEF PaymentMoves, Hands, Changes

LEMMA FeeChanges ==
  ASSUME Hands, ChangeFee PROVE Changes
BY Kept DEF ChangeFee, FeeMoves, Hands, Changes

\* Each step changes the books in one of these ways.
LEMMA EveryStepChanges ==
  ASSUME Hands, CheckoutsKnowTheirRow, [Next]_vars PROVE Changes
<1>0. TypeOK
  BY DEF Hands
<1>1. ASSUME NEW w \in Workers, Request(w) PROVE Changes
  BY <1>0, <1>1, QuietChanges DEF Request, Submit, Look, Bring, Reconcile, HearOfRefund
<1>2. ASSUME NEW w \in Workers, Proceed(w) PROVE Changes
  BY <1>0, <1>2, QuietChanges, CreateChanges, DeleteChanges, GiveUpChanges, ApplyChanges, RecordChanges
     DEF Proceed, CreateRefused, Ask, DeleteRefused, FindProblem, FindNothing
<1>3. ASSUME NEW w \in Workers, Fails(w) PROVE Changes
  BY <1>0, <1>3, QuietChanges DEF Fails, AskFails, ConsumeFails, Crash
<1>4. CASE World
  BY <1>4, WaitChanges, CheckoutChanges, PaymentChanges, FeeChanges DEF World
<1>5. CASE UNCHANGED vars
  BY <1>0, <1>5, QuietChanges DEF vars, dataVars
<1> QED
  BY <1>1, <1>2, <1>3, <1>4, <1>5 DEF Next

-----------------------------------------------------------------------------
(* What the changes keep.                                                   *)

\* A reference that was issued belongs to a row, and the number of that row and
\* its end are settled.
LEMMA IssuedRow ==
  ASSUME TypeOK, CheckoutsKnowTheirRow, Changes, NEW f \in Refs, Issued(f)
  PROVE  /\ RowOf(f) \in Rows /\ checkout'[f] = checkout[f]
         /\ reg[RowOf(f)].state # "none" /\ reg'[RowOf(f)].state # "none"
         /\ PhoneOf(f) = reg'[RowOf(f)].phone
         /\ reg[RowOf(f)].state \in {"deleted", "consumed"} => reg'[RowOf(f)] = reg[RowOf(f)]
<1>1. RowOf(f) \in Rows /\ reg[RowOf(f)].state # "none"
  BY Numbers DEF TypeOK, Issued, RowOf, CheckoutsKnowTheirRow
<1>2. checkout'[f] = checkout[f]
  BY DEF Changes, CheckoutMoves
<1>3. RowMoves(RowOf(f))
  BY <1>1 DEF Changes, RegMoves
<1> QED
  BY <1>1, <1>2, <1>3 DEF RowMoves, PhoneOf

\* A reason, once it holds, does not pass.
LEMMA ReasonStays ==
  ASSUME TypeOK, CheckoutsKnowTheirRow, RowsKnowTheirCheckout, Changes,
         NEW f \in Refs, NEW kind \in Kinds, Issued(f), Reason(f, kind)
  PROVE  Reason(f, kind)'
<1>1. /\ RowOf(f) \in Rows /\ checkout'[f] = checkout[f]
      /\ reg[RowOf(f)].state # "none"
      /\ PhoneOf(f) = reg'[RowOf(f)].phone
      /\ reg[RowOf(f)].state \in {"deleted", "consumed"} => reg'[RowOf(f)] = reg[RowOf(f)]
  BY IssuedRow
<1>2. RowOf(f)' = RowOf(f) /\ PhoneOf(f)' = PhoneOf(f) /\ PhoneOf(f) \in Phones
  BY <1>1 DEF RowOf, PhoneOf, RowsKnowTheirCheckout
<1>3. CASE kind = "not_created"
  <2>1. payment[f] \in {"mispaid", "reversed"} => payment'[f] \in {"mispaid", "reversed"}
    BY PaymentAssumption DEF Changes, MoneyMoves
  <2>2. account[PhoneOf(f)] # NoAccount => account'[PhoneOf(f)] # NoAccount
    BY <1>2 DEF Changes, AccountMoves
  <2>3. ASSUME NEW p \in Phones, account'[p] = f PROVE FALSE
    <3>1. account[p] # f
      BY <1>3 DEF Reason, MadeAccount
    <3>2. PICK r \in Rows : /\ reg[r].state = "open" /\ reg'[r].state = "consumed"
                            /\ reg[r].phone = p /\ account[p] = NoAccount
                            /\ reg'[r].by = f
      BY <2>3, <3>1 DEF Changes, AccountMoves
    <3>3. RowMoves(r)
      BY DEF Changes, RegMoves
    <3>4. RowOf(f) = r /\ payment[f] = "paid"
      BY <3>2, <3>3 DEF RowMoves
    <3> QED
      BY <1>3, <3>2, <3>4 DEF Reason, PhoneOf
  <2> QED
    BY <1>2, <1>3, <2>1, <2>2, <2>3 DEF Reason, MadeAccount
<1>4. CASE kind # "not_created"
  BY <1>1, <1>2, <1>4 DEF Reason
<1> QED
  BY <1>3, <1>4

LEMMA IssuesKeepReasons ==
  ASSUME TypeOK, CheckoutsKnowTheirRow, RowsKnowTheirCheckout, IssuesHaveReasons, Changes
  PROVE  IssuesHaveReasons'
<1> SUFFICES ASSUME NEW f \in Refs PROVE Reason(f, issue[f])'
  BY DEF IssuesHaveReasons
<1>1. CASE issue'[f] = issue[f]
  <2>1. CASE issue[f] = "none"
    BY <1>1, <2>1 DEF Reason
  <2>2. CASE issue[f] # "none"
    <3>1. Issued(f) /\ Reason(f, issue[f]) /\ issue[f] \in Kinds
      BY <2>2 DEF CheckoutsKnowTheirRow, IssuesHaveReasons, TypeOK
    <3> PICK kind \in Kinds : kind = issue[f]
      BY <3>1
    <3>2. Reason(f, kind)'
      BY <3>1, ReasonStays
    <3> QED
      BY <1>1, <3>2 DEF Reason
  <2> QED
    BY <2>1, <2>2
<1>2. CASE issue'[f] # issue[f]
  BY <1>2 DEF Changes, IssueMoves
<1> QED
  BY <1>1, <1>2

LEMMA RowsKeepCheckout ==
  ASSUME TypeOK, RowsKnowTheirCheckout, Changes
  PROVE  RowsKnowTheirCheckout'
<1> SUFFICES ASSUME NEW r \in Rows
             PROVE  /\ reg'[r].state # "none" => reg'[r].phone \in Phones
                    /\ reg'[r].state = "open" /\ reg'[r].ref # Nobody => checkout'[reg'[r].ref].row = r
  BY DEF RowsKnowTheirCheckout, RowOf
<1>1. RowMoves(r)
  BY DEF Changes, RegMoves
<1>2. /\ reg[r].state # "none" => reg[r].phone \in Phones
      /\ reg[r].state = "open" /\ reg[r].ref # Nobody => checkout[reg[r].ref].row = r
  BY DEF RowsKnowTheirCheckout, RowOf
<1>3. reg[r].ref \in 0..MaxRefs
  BY DEF TypeOK, Registrations
<1>4. \A f \in Refs : checkout[f].row = r => checkout'[f] = checkout[f]
  BY Numbers DEF Changes, CheckoutMoves, Issued
<1> QED
  BY <1>1, <1>2, <1>3, <1>4, Numbers DEF RowMoves

LEMMA CheckoutsKeepRow ==
  ASSUME TypeOK, CheckoutsKnowTheirRow, Changes
  PROVE  CheckoutsKnowTheirRow'
<1> SUFFICES ASSUME NEW f \in Refs
             PROVE  /\ Issued(f)' => reg'[checkout'[f].row].state # "none"
                    /\ payment'[f] # "unpaid" => Issued(f)'
                    /\ issue'[f] # "none" => Issued(f)'
  BY DEF CheckoutsKnowTheirRow, RowOf
<1>1. CASE Issued(f)
  <2>1. checkout'[f] = checkout[f] /\ reg'[RowOf(f)].state # "none"
    BY <1>1, IssuedRow
  <2> QED
    BY <1>1, <2>1 DEF Issued, RowOf
<1>2. CASE ~Issued(f)
  <2>1. payment'[f] = "unpaid" /\ issue'[f] = "none"
    BY <1>2 DEF CheckoutsKnowTheirRow, Changes, MoneyMoves, IssueMoves
  <2>2. Issued(f)' => reg'[checkout'[f].row].state # "none"
    BY <1>2 DEF Changes, CheckoutMoves, Issued
  <2> QED
    BY <2>1, <2>2
<1> QED
  BY <1>1, <1>2

LEMMA AccountsStayEarned ==
  ASSUME TypeOK, CheckoutsKnowTheirRow, RowsKnowTheirCheckout, AccountsAreEarned, Changes
  PROVE  AccountsAreEarned'
<1>1. ASSUME NEW p \in Phones, account'[p] \in Refs
      PROVE  /\ Issued(account[p])'
             /\ reg'[checkout'[account'[p]].row].state = "consumed"
             /\ reg'[checkout'[account'[p]].row].by = account'[p]
             /\ reg'[checkout'[account'[p]].row].phone = p
  <2> PICK f \in Refs : f = account'[p]
    BY <1>1
  <2>1. CASE account'[p] = account[p]
    <3>1. /\ Issued(f) /\ reg[RowOf(f)].state = "consumed"
          /\ reg[RowOf(f)].by = f /\ PhoneOf(f) = p
      BY <2>1 DEF AccountsAreEarned
    <3>2. checkout'[f] = checkout[f] /\ reg'[RowOf(f)] = reg[RowOf(f)]
      BY <3>1, IssuedRow
    <3> QED
      BY <3>1, <3>2 DEF Issued, RowOf, PhoneOf
  <2>2. CASE account'[p] # account[p]
    <3>1. PICK r \in Rows : /\ reg[r].state = "open" /\ reg'[r].state = "consumed"
                            /\ reg[r].phone = p /\ reg'[r].by = f
      BY <2>2 DEF Changes, AccountMoves
    <3>2. RowMoves(r)
      BY DEF Changes, RegMoves
    <3>3. Issued(f) /\ RowOf(f) = r /\ reg'[r].phone = p
      BY <3>1, <3>2 DEF RowMoves
    <3>4. checkout'[f] = checkout[f]
      BY <3>3 DEF Changes, CheckoutMoves
    <3> QED
      BY <3>1, <3>3, <3>4 DEF Issued, RowOf
  <2> QED
    BY <2>1, <2>2
<1>2. ASSUME NEW r \in Rows, reg'[r].state = "consumed"
      PROVE  account'[reg'[r].phone] = reg'[r].by
  <2>1. RowMoves(r)
    BY DEF Changes, RegMoves
  <2>2. CASE reg'[r] = reg[r]
    <3>1. account[reg[r].phone] = reg[r].by /\ reg[r].by \in 0..MaxRefs /\ reg[r].phone \in Phones
      BY <1>2, <2>2 DEF AccountsAreEarned, RowsKnowTheirCheckout, TypeOK, Registrations
    <3> QED
      BY <2>2, <3>1, Numbers DEF Changes, AccountMoves
  <2>3. CASE reg'[r] # reg[r]
    BY <1>2, <2>1, <2>3 DEF RowMoves
  <2> QED
    BY <2>2, <2>3
<1> QED
  BY <1>1, <1>2 DEF AccountsAreEarned, RowOf, PhoneOf

-----------------------------------------------------------------------------
(* The workers.                                                             *)

\* What the invariant says of one worker.
FoundRight(w) == pc[w] = "record" => Reason(job[w].ref, job[w].kind)

StillDue(w) ==
  LET r == job[w].row
  IN  job[w].who \in Removers /\ reg[r].state = "open" /\ reg[r].ref = job[w].ref =>
        reg[r].wait # "fresh"

WorkerOK(w) == HasItsJob(w) /\ FoundRight(w) /\ StillDue(w)

\* A worker that is idle has nothing in hand.
LEMMA IdleIsFine ==
  ASSUME NEW w \in Workers, pc'[w] = "idle", job'[w] = NoJob
  PROVE  WorkerOK(w)'
BY JobValues DEF WorkerOK, HasItsJob, FoundRight, StillDue, Removers

\* A worker about to register has nothing in hand but a number.
LEMMA SubmittingIsFine ==
  ASSUME NEW w \in Workers, NEW p \in Phones, pc'[w] = "submit",
         job'[w] = [NoJob EXCEPT !.who = "form", !.phone = p]
  PROVE  WorkerOK(w)'
<1>1. /\ job'[w].who = "form" /\ job'[w].row = Nobody /\ job'[w].ref = Nobody
      /\ job'[w].phone = p
  BY DEF NoJob
<1> QED
  BY <1>1 DEF WorkerOK, HasItsJob, FoundRight, StillDue, Removers

\* What is in a worker's hands stays true while the books change around it.
LEMMA HandsStayTrue ==
  ASSUME RegInv, Changes, NEW w \in Workers, job'[w] = job[w]
  PROVE  /\ job[w].ref # Nobody => Issued(job[w].ref)'
         /\ job[w].row # Nobody => reg'[job[w].row].state # "none"
         /\ job[w].who \in Removers =>
              /\ job[w].row # Nobody
              /\ job[w].ref # Nobody => checkout'[job[w].ref].row = job[w].row
         /\ StillDue(w)'
<1> USE DEF RegInv
<1>1. /\ job[w].ref \in 0..MaxRefs /\ job[w].row \in 0..MaxRows
      /\ HasItsJob(w)
  BY JobValues DEF TypeOK, WorkersHaveTheirJob
<1>2. job[w].ref # Nobody =>
        job[w].ref \in Refs /\ Issued(job[w].ref) /\ checkout'[job[w].ref] = checkout[job[w].ref]
  BY <1>1, Numbers DEF HasItsJob, Changes, CheckoutMoves
<1>3. job[w].row # Nobody =>
        job[w].row \in Rows /\ RowMoves(job[w].row) /\ reg[job[w].row].state # "none"
  BY <1>1, Numbers DEF HasItsJob, Changes, RegMoves
<1>4. job[w].row # Nobody => reg'[job[w].row].state # "none"
  BY <1>3 DEF RowMoves
<1>5. StillDue(w)'
  <2> SUFFICES ASSUME job[w].who \in Removers, reg'[job[w].row].state = "open",
                      reg'[job[w].row].ref = job[w].ref
               PROVE  reg'[job[w].row].wait # "fresh"
    BY DEF StillDue
  <2>1. job[w].row # Nobody
    BY <1>1 DEF HasItsJob
  <2>2. reg[job[w].row].state = "open" /\ reg[job[w].row].ref = job[w].ref =>
          reg[job[w].row].wait # "fresh"
    BY DEF LooksStayDue
  <2> QED
    BY <1>2, <1>3, <2>1, <2>2, Numbers DEF RowMoves
<1> QED
  BY <1>1, <1>2, <1>4, <1>5 DEF HasItsJob, Issued, RowOf

\* A worker that does nothing is right as it was.
LEMMA OthersStayFine ==
  ASSUME RegInv, Changes, NEW w \in Workers, pc'[w] = pc[w], job'[w] = job[w]
  PROVE  WorkerOK(w)'
<1> USE DEF RegInv
<1>1. HasItsJob(w) /\ FoundRight(w) /\ job[w].ref \in 0..MaxRefs /\ job[w].kind \in Kinds
  BY JobValues DEF TypeOK, WorkersHaveTheirJob, ProblemsStay, FoundRight
<1>2. StillDue(w)' /\ HasItsJob(w)'
  BY <1>1, HandsStayTrue DEF HasItsJob, RowOf
<1>3. ASSUME pc[w] = "record" PROVE Reason(job[w].ref, job[w].kind)'
  <2>1. job[w].ref \in Refs /\ Issued(job[w].ref) /\ Reason(job[w].ref, job[w].kind)
    BY <1>1, <1>3, Numbers DEF HasItsJob, FoundRight
  <2> PICK f \in Refs, kind \in Kinds : f = job[w].ref /\ kind = job[w].kind
    BY <1>1, <2>1
  <2>2. Reason(f, kind)'
    BY <2>1, ReasonStays
  <2> QED
    BY <2>2
<1> QED
  BY <1>2, <1>3 DEF WorkerOK, FoundRight

\* A worker that goes on with what it has.
LEMMA GoingOnIsFine ==
  ASSUME RegInv, Changes, NEW w \in Workers, job'[w] = job[w],
         pc'[w] \in {"ask", "delete", "giveup", "consume"},
         pc'[w] \in {"ask", "giveup", "consume"} => job[w].ref # Nobody,
         pc'[w] \in {"ask", "delete", "giveup"} => job[w].who \in Removers
  PROVE  WorkerOK(w)'
<1>1. HasItsJob(w)
  BY DEF RegInv, WorkersHaveTheirJob
<1> QED
  BY <1>1, HandsStayTrue DEF WorkerOK, HasItsJob, FoundRight, RowOf

-----------------------------------------------------------------------------
(* The steps of a worker, one by one.                                       *)

WorkersMove ==
  /\ pc' \in [Workers -> Steps] /\ job' \in [Workers -> Jobs]
  /\ \A w \in Workers : WorkerOK(w)'

LEMMA OneMoves ==
  ASSUME RegInv, Changes, NEW w \in Workers,
         pc' \in [Workers -> Steps], job' \in [Workers -> Jobs],
         \A v \in Workers \ {w} : pc'[v] = pc[v] /\ job'[v] = job[v],
         WorkerOK(w)'
  PROVE  WorkersMove
BY OthersStayFine DEF WorkersMove

LEMMA NobodyMoves ==
  ASSUME RegInv, Changes, UNCHANGED <<pc, job>>
  PROVE  WorkersMove
BY OthersStayFine DEF WorkersMove, RegInv, TypeOK

LEMMA DoneMoves ==
  ASSUME RegInv, Changes, NEW w \in Workers, Done(w)
  PROVE  WorkersMove
BY DoneTypes, IdleIsFine, OneMoves DEF RegInv

LEMMA FreedMoves ==
  ASSUME RegInv, Changes, NEW w \in Workers, Freed(w)
  PROVE  WorkersMove
<1>1. job[w].who = "takeover" => job[w].phone \in Phones
  BY DEF RegInv, WorkersHaveTheirJob, HasItsJob
<1>2. WorkerOK(w)'
  BY <1>1, FreedTypes, IdleIsFine, SubmittingIsFine DEF RegInv, SubmitsNext
<1> QED
  BY <1>1, <1>2, FreedTypes, OneMoves DEF RegInv

LEMMA ReturnMoves ==
  ASSUME RegInv, Changes, NEW w \in Workers, NEW issued \in BOOLEAN, Return(w, issued)
  PROVE  WorkersMove
<1>1. WorkerOK(w)'
  BY ReturnTypes, IdleIsFine, GoingOnIsFine DEF RegInv
<1> QED
  BY <1>1, ReturnTypes, OneMoves DEF RegInv

LEMMA GotoMoves ==
  ASSUME RegInv, Changes, NEW w \in Workers, NEW at \in {"delete", "giveup", "consume"},
         Goto(w, at), pc[w] = "ask"
  PROVE  WorkersMove
<1>1. job[w].ref # Nobody /\ job[w].who \in Removers
  BY DEF RegInv, WorkersHaveTheirJob, HasItsJob
<1>2. at \in Steps
  BY DEF Steps
<1>3. WorkerOK(w)'
  BY <1>1, <1>2, GotoTypes, GoingOnIsFine DEF RegInv
<1> QED
  BY <1>2, <1>3, GotoTypes, OneMoves DEF RegInv

\* A worker that is asked to do something.
LEMMA StartMoves ==
  ASSUME RegInv, Changes, NEW w \in Workers, NEW at \in Steps, NEW what \in Jobs,
         Start(w, at, what), WorkerOK(w)'
  PROVE  WorkersMove
BY StartTypes, OneMoves DEF RegInv

LEMMA SubmitMoves ==
  ASSUME RegInv, Changes, NEW w \in Workers, NEW p \in Phones, Submit(w, p)
  PROVE  WorkersMove
<1> DEFINE what == [NoJob EXCEPT !.who = "form", !.phone = p]
<1>1. what \in Jobs
  BY Numbers DEF NoJob, Jobs, Callers, Kinds
<1>2. Start(w, "submit", what)
  BY DEF Submit
<1>3. "submit" \in Steps
  BY DEF Steps
<1>4. pc'[w] = "submit" /\ job'[w] = what
  BY <1>1, <1>2, <1>3, StartTypes DEF RegInv
<1> HIDE DEF what
<1>5. WorkerOK(w)'
  BY <1>4, SubmittingIsFine DEF what
<1> QED
  BY <1>1, <1>2, <1>3, <1>5, StartMoves

\* What a worker remembers of the row it looks at.
LEMMA LookMoves ==
  ASSUME RegInv, Changes, NEW w \in Workers, NEW r \in Rows, NEW who \in Removers,
         Look(w, r, who)
  PROVE  WorkersMove
<1> DEFINE at == IF reg[r].ref = Nobody THEN "delete" ELSE "ask"
           phone == IF who = "takeover" THEN reg[r].phone ELSE None
           what == [NoJob EXCEPT !.who = who, !.row = r, !.ref = reg[r].ref,
                                 !.past = Past(r, who), !.phone = phone]
<1> USE DEF RegInv
<1>1. reg[r].state = "open" /\ reg[r].ref \in 0..MaxRefs /\ Due(r, who)
  BY DEF Look, TypeOK, Registrations
<1>2. reg[r].phone \in Phones /\ (reg[r].ref # Nobody => RowOf(reg[r].ref) = r)
  BY <1>1 DEF RowsKnowTheirCheckout
<1>3. Past(r, who) \in BOOLEAN
  BY DEF Past
<1>4. phone \in Phones \cup {None} /\ who \in Callers
  BY <1>2 DEF Removers, Callers
<1>5. Start(w, at, what)
  BY DEF Look
<1>6. at \in Steps
  BY DEF Steps
<1> HIDE DEF phone
<1>7. /\ what \in Jobs
      /\ what.who = who /\ what.row = r /\ what.ref = reg[r].ref /\ what.phone = phone
  BY <1>1, <1>3, <1>4, Numbers DEF NoJob, Jobs, Kinds
<1> HIDE DEF what, at
<1>8. pc'[w] = at /\ job'[w] = what
  BY <1>5, <1>6, <1>7, StartTypes
<1>9. UNCHANGED <<reg, checkout>>
  BY DEF Look, dataVars
<1>10. reg[r].wait # "fresh"
  BY <1>1 DEF Due
<1>11. HasItsJob(w)'
  <2>1. pc'[w] \in {"ask", "delete"} /\ (pc'[w] = "ask" => reg[r].ref # Nobody)
    BY <1>8 DEF at
  <2>2. reg[r].ref # Nobody => Issued(reg[r].ref)'
    BY <1>2, <1>9, Numbers DEF Issued, RowOf
  <2>3. who = "takeover" => phone \in Phones
    BY <1>2 DEF phone
  <2> QED
    BY <1>1, <1>2, <1>7, <1>8, <1>9, <2>1, <2>2, <2>3, Numbers DEF HasItsJob, RowOf
<1>12. FoundRight(w)' /\ StillDue(w)'
  BY <1>7, <1>8, <1>9, <1>10 DEF FoundRight, StillDue, at
<1> QED
  BY <1>5, <1>6, <1>7, <1>11, <1>12, StartMoves DEF WorkerOK

LEMMA BringMoves ==
  ASSUME RegInv, Changes, NEW w \in Workers, NEW f \in Refs, Bring(w, f)
  PROVE  WorkersMove
<1> DEFINE what == [NoJob EXCEPT !.ref = f]
<1>1. what \in Jobs /\ what.who = "event" /\ what.row = Nobody /\ what.ref = f
  BY Numbers DEF NoJob, Jobs, Callers, Kinds
<1>2. Start(w, "consume", what) /\ Issued(f) /\ UNCHANGED checkout
  BY DEF Bring, dataVars
<1> HIDE DEF what
<1>3. "consume" \in Steps
  BY DEF Steps
<1>4. pc'[w] = "consume" /\ job'[w] = what
  BY <1>1, <1>2, <1>3, StartTypes DEF RegInv
<1>5. WorkerOK(w)'
  <2>1. job'[w].who \notin Removers /\ job'[w].who # "takeover"
    BY <1>1, <1>4 DEF Removers
  <2>2. HasItsJob(w)'
    BY <1>1, <1>2, <1>4, <2>1, Numbers DEF HasItsJob, Issued
  <2> QED
    BY <1>4, <2>1, <2>2 DEF WorkerOK, FoundRight, StillDue
<1> QED
  BY <1>1, <1>2, <1>3, <1>5, StartMoves

LEMMA HearMoves ==
  ASSUME RegInv, Changes, NEW w \in Workers, NEW f \in Refs, HearOfRefund(w, f)
  PROVE  WorkersMove
<1> DEFINE what == [NoJob EXCEPT !.ref = f, !.kind = "refund_received"]
<1>1. /\ what \in Jobs /\ what.who = "event" /\ what.row = Nobody /\ what.ref = f
      /\ what.kind = "refund_received"
  BY Numbers DEF NoJob, Jobs, Callers, Kinds
<1>2. Start(w, "record", what) /\ UNCHANGED checkout
  BY DEF HearOfRefund, dataVars
<1>3. Issued(f)
  BY DEF HearOfRefund, RegInv, CheckoutsKnowTheirRow
<1> HIDE DEF what
<1>4. "record" \in Steps
  BY DEF Steps
<1>5. pc'[w] = "record" /\ job'[w] = what
  BY <1>1, <1>2, <1>4, StartTypes DEF RegInv
<1>6. WorkerOK(w)'
  <2>1. job'[w].who \notin Removers /\ job'[w].who # "takeover"
    BY <1>1, <1>5 DEF Removers
  <2>2. HasItsJob(w)'
    BY <1>1, <1>2, <1>3, <1>5, <2>1, Numbers DEF HasItsJob, Issued
  <2>3. FoundRight(w)'
    BY <1>1, <1>5 DEF FoundRight, Reason
  <2> QED
    BY <2>1, <2>2, <2>3 DEF WorkerOK, StillDue
<1> QED
  BY <1>1, <1>2, <1>4, <1>6, StartMoves

\* The problem that a worker finds is there.
LEMMA ProblemIsReason ==
  ASSUME RegInv, NEW f \in Refs, Issued(f), Success(f), Problem(f) # "none"
  PROVE  Problem(f) \in Kinds /\ Reason(f, Problem(f))
<1> DEFINE r == RowOf(f)
<1> USE DEF RegInv
<1>1. r \in Rows /\ reg[r].state # "none"
  BY Numbers DEF TypeOK, Issued, RowOf, CheckoutsKnowTheirRow
<1>2. CASE reg[r].state = "deleted"
  <2>1. Problem(f) = "unmatched"
    BY <1>2 DEF Problem, RowOf
  <2> QED
    BY <1>2, <2>1 DEF Reason, Kinds
<1>3. CASE reg[r].state = "consumed"
  <2>1. Problem(f) = "duplicate" /\ reg[r].by # f
    BY <1>3 DEF Problem, RowOf
  <2> QED
    BY <1>3, <2>1 DEF Reason, Kinds
<1>4. CASE reg[r].state = "open"
  <2>1. Problem(f) = "not_created" /\ ~(PaidInFull(f) /\ Fresh(r))
    BY <1>4 DEF Problem, RowOf
  <2>2. payment[f] = "mispaid" \/ account[PhoneOf(f)] # NoAccount
    BY <1>4, <2>1 DEF Success, PaidInFull, Fresh, PhoneOf
  <2>3. ~MadeAccount(f)
    BY <1>4 DEF MadeAccount, AccountsAreEarned
  <2> QED
    BY <2>1, <2>2, <2>3 DEF Reason, Kinds
<1>5. reg[r].state \in {"none", "open", "consumed", "deleted"}
  BY <1>1 DEF TypeOK, Registrations
<1> QED
  BY <1>1, <1>2, <1>3, <1>4, <1>5

LEMMA FindMoves ==
  ASSUME RegInv, Changes, NEW w \in Workers, FindProblem(w)
  PROVE  WorkersMove
<1> USE DEF RegInv
<1>1. job[w].ref \in Refs /\ job[w] \in Jobs /\ HasItsJob(w) /\ Issued(job[w].ref)
  BY Numbers, JobValues DEF FindProblem, TypeOK, WorkersHaveTheirJob, HasItsJob
<1> PICK f \in Refs : f = job[w].ref
  BY <1>1
<1>2. Problem(f) \in Kinds /\ Reason(f, Problem(f))
  BY <1>1, ProblemIsReason DEF FindProblem
<1> PICK kind \in Kinds : kind = Problem(f)
  BY <1>2
<1> DEFINE what == [job[w] EXCEPT !.kind = kind]
<1>3. /\ what \in Jobs /\ what.who = job[w].who /\ what.row = job[w].row
      /\ what.ref = f /\ what.phone = job[w].phone /\ what.kind = kind
  BY <1>1 DEF Jobs
<1>4. pc' = [pc EXCEPT ![w] = "record"] /\ job' = [job EXCEPT ![w] = what]
  BY DEF FindProblem
<1> HIDE DEF what
<1>5. "record" \in Steps
  BY DEF Steps
<1>6. /\ pc' \in [Workers -> Steps] /\ job' \in [Workers -> Jobs]
      /\ pc'[w] = "record" /\ job'[w] = what
      /\ \A v \in Workers \ {w} : pc'[v] = pc[v] /\ job'[v] = job[v]
  BY <1>3, <1>4, <1>5 DEF TypeOK
<1>7. UNCHANGED <<reg, checkout, payment, account>> /\ pc[w] = "consume"
  BY DEF FindProblem, dataVars
<1>8. HasItsJob(w)'
  BY <1>1, <1>3, <1>6, <1>7 DEF HasItsJob, Issued, RowOf
<1>9. FoundRight(w)'
  BY <1>2, <1>3, <1>6, <1>7 DEF FoundRight, Reason, RowOf, PhoneOf, MadeAccount
<1>10. StillDue(w)'
  BY <1>3, <1>6, <1>7 DEF StillDue, LooksStayDue
<1> QED
  BY <1>6, <1>8, <1>9, <1>10, OneMoves DEF WorkerOK

-----------------------------------------------------------------------------
(* The invariant.                                                           *)

LEMMA EveryStepOfAWorker ==
  ASSUME RegInv, Changes, [Next]_vars PROVE WorkersMove
<1>1. ASSUME NEW w \in Workers, Request(w) PROVE WorkersMove
  <2>1. ASSUME NEW p \in Phones, Submit(w, p) PROVE WorkersMove
    BY <2>1, SubmitMoves
  <2>2. ASSUME NEW r \in Rows, Look(w, r, "takeover") \/ Look(w, r, "cleanup") PROVE WorkersMove
    BY <2>2, LookMoves DEF Removers
  <2>3. ASSUME NEW f \in Refs, Bring(w, f) \/ Reconcile(w, f) PROVE WorkersMove
    BY <2>3, BringMoves DEF Reconcile
  <2>4. ASSUME NEW f \in Refs, HearOfRefund(w, f) PROVE WorkersMove
    BY <2>4, HearMoves
  <2> QED
    BY <1>1, <2>1, <2>2, <2>3, <2>4 DEF Request
<1>2. ASSUME NEW w \in Workers, Proceed(w) PROVE WorkersMove
  <2>1. CASE Create(w) \/ CreateRefused(w) \/ Apply(w) \/ FindNothing(w)
    BY <2>1, DoneMoves DEF Create, CreateRefused, Apply, FindNothing
  <2>2. CASE Ask(w)
    BY <2>2, GotoMoves, DoneMoves DEF Ask
  <2>3. CASE Delete(w) \/ GiveUp(w)
    BY <2>3, FreedMoves DEF Delete, GiveUp
  <2>4. CASE DeleteRefused(w)
    BY <2>4, FreedMoves, DoneMoves DEF DeleteRefused
  <2>5. CASE FindProblem(w)
    BY <2>5, FindMoves
  <2>6. CASE Record(w)
    BY <2>6, ReturnMoves DEF Record
  <2> QED
    BY <1>2, <2>1, <2>2, <2>3, <2>4, <2>5, <2>6 DEF Proceed
<1>3. ASSUME NEW w \in Workers, Fails(w) PROVE WorkersMove
  <2>1. CASE AskFails(w)
    BY <2>1, GotoMoves, DoneMoves DEF AskFails
  <2>2. CASE ConsumeFails(w)
    BY <2>2, ReturnMoves DEF ConsumeFails
  <2>3. CASE Crash(w)
    BY <2>3, DoneMoves DEF Crash
  <2> QED
    BY <1>3, <2>1, <2>2, <2>3 DEF Fails
<1>4. CASE World
  BY <1>4, NobodyMoves DEF World, Wait, OpenCheckout, PaymentMoves, ChangeFee
<1>5. CASE UNCHANGED vars
  BY <1>5, NobodyMoves DEF vars
<1> QED
  BY <1>1, <1>2, <1>3, <1>4, <1>5 DEF Next

LEMMA FaultsStayBounded ==
  ASSUME TypeOK, [Next]_vars PROVE faults' \in 0..MaxFaults
<1>1. faults \in 0..MaxFaults
  BY DEF TypeOK
<1>2. UNCHANGED faults \/ Fault
  <2>1. ASSUME NEW w \in Workers, Request(w) PROVE UNCHANGED faults
    BY <2>1 DEF Request, Submit, Look, Bring, Reconcile, HearOfRefund
  <2>2. ASSUME NEW w \in Workers, Proceed(w) PROVE UNCHANGED faults
    BY <2>2 DEF Proceed, Create, CreateRefused, Ask, Delete, GiveUp, DeleteRefused,
                Apply, FindProblem, FindNothing, Record
  <2>3. ASSUME NEW w \in Workers, Fails(w) PROVE Fault
    BY <2>3 DEF Fails, AskFails, ConsumeFails, Crash
  <2>4. CASE World
    BY <2>4 DEF World, Wait, OpenCheckout, PaymentMoves, ChangeFee
  <2>5. CASE UNCHANGED vars
    BY <2>5 DEF vars
  <2> QED
    BY <2>1, <2>2, <2>3, <2>4, <2>5 DEF Next
<1>3. Fault => faults' \in 0..MaxFaults
  BY <1>1, BoundAssumption DEF Fault
<1> QED
  BY <1>1, <1>2, <1>3

LEMMA RegInit == Init => RegInv
<1> SUFFICES ASSUME Init PROVE RegInv
  OBVIOUS
<1>1. TypeOK
  BY TypeInit
<1>2. \A r \in Rows : reg[r].state = "none" /\ reg[r].ref = Nobody
  BY DEF Init, Unborn
<1>3. \A f \in Refs : ~Issued(f) /\ payment[f] = "unpaid" /\ issue[f] = "none"
  BY DEF Init, Issued
<1>4. \A p \in Phones : account[p] \notin Refs
  BY Numbers DEF Init
<1>5. \A w \in Workers : pc[w] = "idle" /\ job[w] = NoJob
  BY DEF Init
<1>6. RowsKnowTheirCheckout /\ CheckoutsKnowTheirRow
  BY <1>2, <1>3 DEF RowsKnowTheirCheckout, CheckoutsKnowTheirRow
<1>7. AccountsAreEarned
  BY <1>2, <1>4 DEF AccountsAreEarned
<1>8. IssuesHaveReasons
  BY <1>3 DEF IssuesHaveReasons, Reason
<1>9. WorkersHaveTheirJob
  BY <1>5, JobValues DEF WorkersHaveTheirJob, HasItsJob, Removers
<1>10. ProblemsStay /\ LooksStayDue
  BY <1>5, JobValues DEF ProblemsStay, LooksStayDue, Removers
<1> QED
  BY <1>1, <1>6, <1>7, <1>8, <1>9, <1>10 DEF RegInv

LEMMA RegNext == RegInv /\ [Next]_vars => RegInv'
<1> SUFFICES ASSUME RegInv, [Next]_vars PROVE RegInv'
  OBVIOUS
<1>1. Hands /\ TypeOK /\ CheckoutsKnowTheirRow /\ RowsKnowTheirCheckout
      /\ AccountsAreEarned /\ IssuesHaveReasons
  BY DEF RegInv, Hands
<1>2. Changes
  BY <1>1, EveryStepChanges
<1>3. WorkersMove
  BY <1>2, EveryStepOfAWorker
<1>4. TypeOK'
  <2>1. \A r, q \in Rows :
          r # q /\ Holds(r, reg[q].phone)' => reg'[q].state \notin {"open", "consumed"}
    BY <1>1, <1>2, HeldOnceStays DEF Changes, RegMoves
  <2>2. faults' \in 0..MaxFaults
    BY <1>1, FaultsStayBounded
  <2> QED
    BY <1>2, <1>3, <2>1, <2>2
       DEF TypeOK, WorkersMove, Changes, RegMoves, CheckoutMoves, MoneyMoves,
           AccountMoves, IssueMoves, FeeMoves
<1>5. RowsKnowTheirCheckout' /\ CheckoutsKnowTheirRow'
  BY <1>1, <1>2, RowsKeepCheckout, CheckoutsKeepRow
<1>6. AccountsAreEarned' /\ IssuesHaveReasons'
  BY <1>1, <1>2, AccountsStayEarned, IssuesKeepReasons
<1>7. WorkersHaveTheirJob' /\ ProblemsStay' /\ LooksStayDue'
  BY <1>3 DEF WorkersMove, WorkerOK, FoundRight, StillDue,
              WorkersHaveTheirJob, ProblemsStay, LooksStayDue
<1> QED
  BY <1>4, <1>5, <1>6, <1>7 DEF RegInv

\* The invariant holds in every reachable state, whatever the order in which the
\* form, the webhook, the cleanup, the takeovers and the reconciliation take
\* their turns, and whichever of their calls fail.
THEOREM RegInvHolds == Spec => []RegInv
<1>1. Init => RegInv
  BY RegInit
<1>2. RegInv /\ [Next]_vars => RegInv'
  BY RegNext
<1> QED
  BY <1>1, <1>2, PTL DEF Spec

\* The reasons and the earned accounts are what the answers are judged by.
LEMMA InvAnswers == RegInv => AnsweredRightly
<1> SUFFICES ASSUME RegInv PROVE AnsweredRightly
  OBVIOUS
<1> USE DEF RegInv
<1>1. ASSUME NEW f \in Refs, MadeAccount(f)
      PROVE  /\ reg[checkout[f].row].state = "consumed" /\ reg[checkout[f].row].by = f
             /\ account[reg[checkout[f].row].phone] = f
             /\ issue[f] \in {"none", "refund_received"}
  <2>1. /\ reg[checkout[f].row].state = "consumed" /\ reg[checkout[f].row].by = f
        /\ account[reg[checkout[f].row].phone] = f
    BY <1>1 DEF MadeAccount, AccountsAreEarned, RowOf, PhoneOf
  <2>2. Reason(f, issue[f]) /\ issue[f] \in Kinds
    BY DEF IssuesHaveReasons, TypeOK
  <2> QED
    BY <1>1, <2>1, <2>2 DEF Reason, Kinds, RowOf
<1>2. ASSUME NEW f \in Refs
      PROVE  /\ issue[f] \in {"unmatched", "unconfirmed"} => reg[checkout[f].row].state = "deleted"
             /\ issue[f] = "duplicate" =>
                  reg[checkout[f].row].state = "consumed" /\ reg[checkout[f].row].by # f
             /\ issue[f] = "not_created" =>
                  \/ ~PaidInFull(f) \/ account[reg[checkout[f].row].phone] # NoAccount
  <2>1. Reason(f, issue[f])
    BY DEF IssuesHaveReasons
  <2> QED
    BY <2>1 DEF Reason, RowOf, PhoneOf, PaidInFull
<1> QED
  BY <1>1, <1>2 DEF AnsweredRightly

\* Each successful payment of a registration has one answer, and the right one:
\* an account that its registration names, or an issue whose reason still holds
\* (consume_paid_registration and record_payment_issue never both answer it).
THEOREM PaymentsAreAnsweredRightly == Spec => []AnsweredRightly
BY RegInvHolds, InvAnswers, PTL

\* A registration is removed only by a worker that looked at it when it was due
\* and finds it with the checkout it had then.
LEMMA OnlyDueRowsGo ==
  ASSUME RegInv, [Next]_vars, NEW r \in Rows,
         reg[r].state = "open", reg'[r].state = "deleted"
  PROVE  reg[r].wait # "fresh"
<1> USE DEF RegInv
<1>1. ASSUME NEW w \in Workers, Delete(w) \/ GiveUp(w) PROVE reg[r].wait # "fresh"
  <2>1. /\ job[w].row \in Rows /\ job[w].who \in Removers
        /\ reg[job[w].row].state = "open" /\ reg[job[w].row].ref = job[w].ref
        /\ reg' = [reg EXCEPT ![job[w].row] = Gone(job[w].row)]
    BY <1>1, Numbers, JobValues
       DEF Delete, GiveUp, Unchanged, TypeOK, WorkersHaveTheirJob, HasItsJob
  <2>2. r = job[w].row
    BY <2>1 DEF TypeOK
  <2> QED
    BY <2>1, <2>2 DEF LooksStayDue
<1>2. ASSUME NEW w \in Workers, Create(w) PROVE FALSE
  BY <1>2 DEF Create, TypeOK
<1>3. ASSUME NEW w \in Workers, Apply(w) PROVE FALSE
  <2> DEFINE q == checkout[job[w].ref].row
             row == [reg[q] EXCEPT !.state = "consumed", !.by = job[w].ref, !.wait = "fresh"]
  <2>1. reg' = [reg EXCEPT ![q] = row]
    BY <1>3 DEF Apply
  <2>2. q \in Rows => row.state = "consumed"
    BY DEF TypeOK, Registrations
  <2> HIDE DEF row, q
  <2> QED
    BY <2>1, <2>2 DEF TypeOK
<1>4. ASSUME NEW q \in Rows, Wait(q) \/ \E f \in Refs : OpenCheckout(q, f) PROVE FALSE
  <2>1. PICK row : reg' = [reg EXCEPT ![q] = row] /\ row.state = "open"
    <3>1. CASE Wait(q)
      <4>1. PICK to \in Waits : reg' = [reg EXCEPT ![q] = [reg[q] EXCEPT !.wait = to]]
        BY <3>1 DEF Wait
      <4>2. [reg[q] EXCEPT !.wait = to].state = "open"
        BY <3>1 DEF Wait, TypeOK, Registrations
      <4> QED
        BY <4>1, <4>2
    <3>2. CASE \E f \in Refs : OpenCheckout(q, f)
      <4>1. PICK f \in Refs : OpenCheckout(q, f)
        BY <3>2
      <4>2. reg' = [reg EXCEPT ![q] = [reg[q] EXCEPT !.ref = f, !.wait = Reopened(reg[q].wait)]]
        BY <4>1 DEF OpenCheckout, TypeOK
      <4>3. [reg[q] EXCEPT !.ref = f, !.wait = Reopened(reg[q].wait)].state = "open"
        BY <3>2 DEF OpenCheckout, TypeOK, Registrations
      <4> QED
        BY <4>2, <4>3
    <3> QED
      BY <1>4, <3>1, <3>2
  <2> QED
    BY <2>1 DEF TypeOK
<1>5. ASSUME NEW w \in Workers, Request(w) \/ Fails(w) PROVE FALSE
  BY <1>5 DEF Request, Submit, Look, Bring, Reconcile, HearOfRefund,
              Fails, AskFails, ConsumeFails, Crash, dataVars
<1>6. ASSUME NEW w \in Workers, Proceed(w) PROVE reg[r].wait # "fresh"
  BY <1>1, <1>2, <1>3, <1>6
     DEF Proceed, CreateRefused, Ask, DeleteRefused, FindProblem, FindNothing, Record, dataVars
<1>7. World => reg[r].wait # "fresh"
  BY <1>4 DEF World, PaymentMoves, ChangeFee
<1> QED
  BY <1>5, <1>6, <1>7 DEF Next, vars

\* Whoever goes back to the payment page, while Paystack is being asked about the
\* page before, does not lose the registration under it, for any number of
\* cleanups and takeovers that looked at the row before.
THEOREM OpenCheckoutKept == Spec => OpenCheckoutKeepsRow
<1>1. RegInv /\ [Next]_vars =>
        [\A r \in Rows :
           reg[r].state = "open" /\ reg'[r].state = "deleted" => reg[r].wait # "fresh"]_vars
  BY OnlyDueRowsGo
<1> QED
  BY <1>1, RegInvHolds, PTL DEF Spec, OpenCheckoutKeepsRow
=============================================================================
