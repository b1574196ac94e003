------------------------------ MODULE Identity ------------------------------
(***************************************************************************)
(* Identity verification: a distributor's sessions with Didit, the result  *)
(* that is stored for the admin, the admin's decision and the permanent    *)
(* IR ID that an approval gives out.  It runs beside SignIn, on the same   *)
(* workers: a verified phone number is the gate to it.                     *)
(*                                                                         *)
(* Didit's decision belongs to a session.  A distributor may start another *)
(* session at any time before approval, and results arrive by webhook, by  *)
(* the browser's return and again by retries, in any order.                *)
(***************************************************************************)
EXTENDS SignIn

CONSTANTS
  FirstNumber,  \* IR_ID_STARTING_NUMBER, seeded into IrIdSequence
  LastNumber    \* the largest number with IR_ID_NUMBER_OF_DIGITS digits

ASSUME IdentityAssumption ==
  FirstNumber \in Nat \ {0} /\ LastNumber \in Nat

Final == {"approved", "declined", "in_review"}  \* _DIDIT_STATUS_MAP

VARIABLES
  kyc,           \* Distributor.kyc_status
  irId,          \* Distributor.ir_id, 0 for none
  nextNumber,    \* IrIdSequence.next_number
  didit,         \* Didit's sessions in order, with their decisions
  verification,  \* the DiditVerification row of each distributor
  decided,       \* decisions that took effect
  told           \* KYC_DECIDED notifications stored

kycVars == <<kyc, irId, nextNumber, didit, verification, decided, told>>
vars == <<signInVars, kycVars>>

NoRow == [session |-> 0, status |-> "none", details |-> 0, images |-> 0]

\* "details" and "images" say which session's data the columns hold.
Rows ==
  [session : Nat, status : {"pending"} \cup Final, details : Nat, images : Nat]

-----------------------------------------------------------------------------
(* The distributor's side. *)

\* start_kyc_verification checks, and asks Didit for a session.
StartKyc(w, b) ==
  LET d == session[b].user
  IN  /\ d \in Distributors
      /\ proven[d] /\ kyc[d] # "approved"
      /\ Begin(w, "start_kyc", [NoJob EXCEPT !.acct = d])
      /\ UNCHANGED <<accountVars, phoneVars, session, faults, kycVars>>

\* DiditVerification.objects.update_or_create: the columns that it is not
\* given keep what an earlier session put there.
Restarted(row, s) == [row EXCEPT !.session = s, !.status = "pending"]

SessionStarts(w) ==
  LET d == job[w].acct
      s == Len(didit) + 1
  IN  /\ pc[w] = "start_kyc"
      /\ \/ /\ didit' = Append(didit, "going")
            /\ verification' = [verification EXCEPT ![d] = Restarted(@, s)]
         \/ UNCHANGED <<didit, verification>>   \* DiditError
      /\ Done(w)
      /\ UNCHANGED <<accountVars, phoneVars, session, faults,
                     kyc, irId, nextNumber, decided, told>>

\* Didit reaches a decision on a session.
DiditDecides(s) ==
  /\ didit[s] = "going"
  /\ \E final \in Final : didit' = [didit EXCEPT ![s] = final]
  /\ UNCHANGED <<signInVars, kyc, irId, nextNumber, verification, decided, told>>

\* The row that a result for session s is stored in.
RowOf(s) == {d \in Distributors : verification[d].session = s}

\* consume_didit_result, from the webhook's task or from the browser's
\* return: the decision is read again under the row's lock. A picture that
\* is missing or cannot be fetched leaves the stored one in place. The whole
\* of it is one transaction, so it takes no worker here.
ConsumeResult(s) ==
  /\ \E d \in RowOf(s) :
       /\ verification[d].status = "pending"
       /\ didit[s] \in Final
       /\ \E images \in {s, verification[d].images} :
            verification' = [verification EXCEPT
              ![d].status = didit[s], ![d].details = s, ![d].images = images]
  /\ UNCHANGED <<signInVars, kyc, irId, nextNumber, didit, decided, told>>

-----------------------------------------------------------------------------
(* The admin's side. *)

\* The review page wants a verification row, the action of Django's admin
\* does not.
AdminDecides(w, d, verdict) ==
  /\ Begin(w, verdict, [NoJob EXCEPT !.acct = d])
  /\ UNCHANGED <<accountVars, phoneVars, session, faults, kycVars>>

\* Mutant of NextNumber: IR_ID_STARTING_NUMBER is read every time.
StartingNumber(w) == FirstNumber

\* The number that the sequence gives out, under its lock.
NextNumber(w) == nextNumber

HasDecision(d) == kyc[d] = "approved" \/ irId[d] # 0

\* Mutant of NothingNew: the call is announced, not the transition.
TellAnyway(w) == Continue(w, "tell")

\* A decision that changes nothing is not announced.
NothingNew(w) == Done(w)

\* approve_kyc. An exhausted sequence raises and changes nothing.
ApproveKyc(w) ==
  LET d == job[w].acct
  IN  /\ pc[w] = "approve"
      /\ IF HasDecision(d) \/ NextNumber(w) > LastNumber
           THEN NothingNew(w) /\ UNCHANGED <<kyc, irId, nextNumber, decided>>
           ELSE /\ nextNumber' = NextNumber(w) + 1
                /\ irId' = [irId EXCEPT ![d] = NextNumber(w)]
                /\ kyc' = [kyc EXCEPT ![d] = "approved"]
                /\ decided' = [decided EXCEPT ![d] = @ + 1]
                /\ Continue(w, "tell")
      /\ UNCHANGED <<accountVars, phoneVars, session, faults,
                     didit, verification, told>>

\* reject_kyc. A rejection may be repeated, or followed by an approval.
RejectKyc(w) ==
  LET d == job[w].acct
  IN  /\ pc[w] = "reject"
      /\ IF kyc[d] = "approved"
           THEN NothingNew(w) /\ UNCHANGED <<kyc, decided>>
           ELSE /\ kyc' = [kyc EXCEPT ![d] = "rejected"]
                /\ decided' = [decided EXCEPT ![d] = @ + 1]
                /\ Continue(w, "tell")
      /\ UNCHANGED <<accountVars, phoneVars, session, faults,
                     irId, nextNumber, didit, verification, told>>

\* send_notification, after the commit; a failure to store it is only logged.
Tell(w) ==
  /\ pc[w] = "tell"
  /\ \/ told' = [told EXCEPT ![job[w].acct] = @ + 1] /\ UNCHANGED faults
     \/ Fault /\ UNCHANGED told
  /\ Done(w)
  /\ UNCHANGED <<accountVars, phoneVars, session,
                 kyc, irId, nextNumber, didit, verification, decided>>

-----------------------------------------------------------------------------
Init ==
  /\ SignInInit
  /\ kyc = [d \in Distributors |-> "pending"]
  /\ irId = [d \in Distributors |-> 0]
  /\ nextNumber = FirstNumber
  /\ didit = <<>>
  /\ verification = [d \in Distributors |-> NoRow]
  /\ decided = [d \in Distributors |-> 0]
  /\ told = [d \in Distributors |-> 0]

KycStep(w) ==
  \/ \E b \in Browsers : StartKyc(w, b)
  \/ \E d \in Distributors, verdict \in {"approve", "reject"} :
       AdminDecides(w, d, verdict)
  \/ SessionStarts(w) \/ ApproveKyc(w) \/ RejectKyc(w) \/ Tell(w)

Next ==
  \/ SignInNext /\ UNCHANGED kycVars
  \/ \E w \in Workers : KycStep(w)
  \/ \E s \in DOMAIN didit : DiditDecides(s) \/ ConsumeResult(s)

Spec == Init /\ [][Next]_vars

-----------------------------------------------------------------------------
TypeOK ==
  /\ SignInTypeOK
  /\ kyc \in [Distributors -> {"pending", "approved", "rejected"}]
  /\ irId \in [Distributors -> 0 .. LastNumber]
  /\ nextNumber \in Nat
  /\ didit \in Seq({"going"} \cup Final)
  /\ verification \in [Distributors -> {NoRow} \cup Rows]
  /\ decided \in [Distributors -> Nat] /\ told \in [Distributors -> Nat]

\* A distributor has an IR ID exactly when they are approved, no two have the
\* same, and the sequence is past all of them.
IrIdsAreSound ==
  /\ \A d \in Distributors :
       /\ kyc[d] = "approved" <=> irId[d] # 0
       /\ irId[d] < nextNumber
  /\ \A d, e \in Distributors : irId[d] = irId[e] /\ irId[d] # 0 => d = e

\* The stored result was reached in the session on record.
ResultIsOfItsSession ==
  \A d \in Distributors :
    LET row == verification[d]
    IN  row.status \in Final =>
          row.details = row.session /\ row.status = didit[row.session]

(***************************************************************************)
(* IR IDs are given out soundly, although approvals overlap, repeat and    *)
(* follow rejections (approve_kyc, reject_kyc, IrIdSequence); and the      *)
(* result an admin sees is that of the session on record: a result of a    *)
(* session that the distributor has abandoned since, arriving late or      *)
(* again, never becomes the result of its successor                        *)
(* (consume_didit_result, start_kyc_verification).                         *)
(***************************************************************************)
IdentityIsSound == TypeOK /\ IrIdsAreSound /\ ResultIsOfItsSession

(***************************************************************************)
(* A distributor hears of each decision that took effect exactly once,     *)
(* unless storing the notification failed: an approval that is repeated,   *)
(* by a second click or a second admin, is not announced again.            *)
(***************************************************************************)
DecisionsAreToldOnce ==
  \A d \in Distributors :
    LET telling == Cardinality({w \in Workers :
                     pc[w] = "tell" /\ job[w].acct = d})
    IN  /\ told[d] + telling <= decided[d]
        /\ decided[d] <= told[d] + telling + faults

=============================================================================
