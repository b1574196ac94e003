------------------------ MODULE RegistrationInvariant ------------------------
(***************************************************************************)
(* Why every payment of a registration is answered rightly: what the rows,  *)
(* the accounts and the issues say of each other, and what a worker still   *)
(* knows of the row and the payment it works on, although it holds no lock  *)
(* between two of its steps.  The conjunction is inductive;                 *)
(* Registration_proofs proves it part by part.                              *)
(***************************************************************************)
EXTENDS Registration

\* Callers that may remove a row.
Removers == {"cleanup", "takeover"}

\* The row of a reference, and the number it is for.
RowOf(f) == checkout[f].row
PhoneOf(f) == reg[RowOf(f)].phone

\* A row that exists is for a number.  While it is open, its latest reference was
\* issued for it.
RowsKnowTheirCheckout ==
  \A r \in Rows :
    /\ reg[r].state # "none" => reg[r].phone \in Phones
    /\ reg[r].state = "open" /\ reg[r].ref # Nobody => RowOf(reg[r].ref) = r

\* A reference is issued for a row that exists; only then can it be paid or be
\* in trouble.
CheckoutsKnowTheirRow ==
  \A f \in Refs :
    /\ Issued(f) => reg[RowOf(f)].state # "none"
    /\ payment[f] # "unpaid" => Issued(f)
    /\ issue[f] # "none" => Issued(f)

\* The payment that made an account is the one its registration was consumed by.
AccountsAreEarned ==
  /\ \A p \in Phones : account[p] \in Refs =>
       /\ Issued(account[p])
       /\ reg[RowOf(account[p])].state = "consumed"
       /\ reg[RowOf(account[p])].by = account[p]
       /\ PhoneOf(account[p]) = p
  /\ \A r \in Rows : reg[r].state = "consumed" => account[reg[r].phone] = reg[r].by

\* The reason that a kind of issue gives, as it must hold from the moment it is
\* found: none of these can become untrue again.
Reason(f, kind) ==
  /\ kind \in {"unmatched", "unconfirmed"} => reg[RowOf(f)].state = "deleted"
  /\ kind = "duplicate" => reg[RowOf(f)].state = "consumed" /\ reg[RowOf(f)].by # f
  /\ kind = "not_created" =>
       /\ ~MadeAccount(f)
       /\ payment[f] \in {"mispaid", "reversed"} \/ account[PhoneOf(f)] # NoAccount

IssuesHaveReasons == \A f \in Refs : Reason(f, issue[f])

\* What a worker has in hand at each of its steps.
HasItsJob(w) ==
  /\ pc[w] \in {"ask", "consume", "record", "giveup"} => job[w].ref # Nobody
  /\ job[w].ref # Nobody => Issued(job[w].ref)
  /\ pc[w] \in {"ask", "delete", "giveup"} => job[w].who \in Removers
  /\ job[w].row # Nobody => reg[job[w].row].state # "none"
  /\ job[w].who \in Removers =>
       /\ job[w].row # Nobody
       /\ job[w].ref # Nobody => RowOf(job[w].ref) = job[w].row
  /\ job[w].who = "takeover" \/ pc[w] = "submit" => job[w].phone \in Phones

WorkersHaveTheirJob == \A w \in Workers : HasItsJob(w)

\* The problem that a worker has found is still one when it is recorded.
ProblemsStay == \A w \in Workers : pc[w] = "record" => Reason(job[w].ref, job[w].kind)

\* As long as the row that a worker may remove has the checkout that it had when
\* it was looked at, that checkout is as old as it was then.
LooksStayDue ==
  \A w \in Workers :
    LET r == job[w].row
    IN  job[w].who \in Removers /\ reg[r].state = "open" /\ reg[r].ref = job[w].ref =>
          reg[r].wait # "fresh"

RegInv ==
  /\ TypeOK
  /\ RowsKnowTheirCheckout /\ CheckoutsKnowTheirRow
  /\ AccountsAreEarned /\ IssuesHaveReasons
  /\ WorkersHaveTheirJob /\ ProblemsStay /\ LooksStayDue
=============================================================================
