--------------------------- MODULE AccessInvariant ---------------------------
(***************************************************************************)
(* Why the promises of Access hold: what a request still knows when it goes *)
(* on without a lock, what the counters count, and what a save of the       *)
(* settings has done so far.  Each of the two conjunctions is inductive;    *)
(* Access_proofs proves them.                                               *)
(***************************************************************************)
EXTENDS Access

-----------------------------------------------------------------------------
(* Sign-in and identity verification.                                       *)

Steps == {"idle", "fail", "succeed", "turned_away", "welcome", "alert",
          "create", "text", "mail", "discard", "check", "admit",
          "start_kyc", "approve", "reject", "tell"}

Jobs ==
  [acct : Accounts \cup {NoOne}, browser : Browsers \cup {NoOne}, sess : Sessions,
   via : {"none", "proven", "login"}, purpose : Purposes \cup {"none"},
   code : Nat, guess : Nat]

WorkTypeOK == pc \in [Workers -> Steps] /\ job \in [Workers -> Jobs]

\* A request is about a distributor, or it is an admin's.
AboutDistributor == {"fail", "succeed", "create", "text", "mail", "discard", "check",
                     "admit", "start_kyc", "approve", "reject", "tell"}
AboutAdmin == {"turned_away", "welcome", "alert"}

Sending == {"text", "mail", "discard"}
UsesCode == Sending \cup {"check", "admit"}

\* The row that a request works on is of the account and the purpose it is about.
HasItsCode(w) ==
  /\ job[w].code \in DOMAIN codes
  /\ codes[job[w].code].acct = job[w].acct
  /\ codes[job[w].code].purpose = job[w].purpose

HasItsJob(w) ==
  /\ pc[w] \in AboutDistributor => job[w].acct \in Distributors
  /\ pc[w] \in AboutAdmin => job[w].acct \in Admins
  /\ pc[w] \in UsesCode \cup {"create"} => job[w].purpose \in Purposes
  /\ pc[w] \in UsesCode => HasItsCode(w)
  /\ pc[w] \in Sending => codes[job[w].code].via = "none" /\ ~codes[job[w].code].gone
  /\ pc[w] = "mail" => job[w].purpose \in EmailFallback
  /\ pc[w] = "check" /\ job[w].guess = job[w].code =>
       codes[job[w].code].via \in {"sms", "email"}
  /\ pc[w] = "admit" =>
       codes[job[w].code].verified /\ codes[job[w].code].via \in {"sms", "email"}

\* A code is sent by one request, and one that is not out yet is being sent.
CodesAreSent ==
  /\ \A w, v \in Workers : pc[w] \in Sending /\ pc[v] \in Sending /\ w # v =>
       job[w].code # job[v].code
  /\ \A c \in DOMAIN codes : codes[c].via = "none" /\ ~codes[c].gone =>
       \E w \in Workers : pc[w] \in Sending /\ job[w].code = c
  /\ \A c \in DOMAIN codes : codes[c].via = "email" => codes[c].purpose \in EmailFallback
  /\ \A c \in DOMAIN codes : codes[c].compared = codes[c].tries

\* Each wrong password was counted by the request that it came in, and so was each
\* lock of an admin account; requests that have yet to count theirs are Refused.
Refused == {w \in Workers : pc[w] \in {"fail", "turned_away"}}

CountsAreServed ==
  /\ \A a \in Accounts :
       /\ wrong[a] = attempts[a]
       /\ attempts[a] + Cardinality(Refused) <= served
       /\ lock[a] = "none" => attempts[a] < MaxFailed
  /\ \A a \in Admins : lockings[a] + Cardinality(Refused) <= served
  /\ \A d \in Distributors : queued[d] <= served

\* The session on record is one that Didit knows.
SessionsAreKnown ==
  \A d \in Distributors : verification[d] = NoRow \/ verification[d].session \in DOMAIN didit

SignInInv ==
  /\ SignInTypeOK /\ WorkTypeOK
  /\ \A w \in Workers : HasItsJob(w)
  /\ CodesAreSent /\ CountsAreServed
  /\ LimitsHold /\ PhoneProvenByText

IdentityInv ==
  SignInInv /\ IdentityIsSound /\ SessionsAreKnown /\ DecisionsAreToldOnce

-----------------------------------------------------------------------------
(* The settings page.                                                       *)

\* The settings that the save of p has passed, and those it has yet to come to.
Passed(p) ==
  {SaveOrder[i] : i \in 1 .. (page[p].at - 1)} \cup ({page[p].untold} \ {"none"})

\* A save writes a form that was checked, and owes the trail at most the row of
\* the setting it is at.
SavesAreChecked ==
  \A p \in Pages :
    /\ Saving(p) => Clean(page[p].form) /\ InBounds(page[p].form)
    /\ page[p].untold # "none" => Saving(p) /\ page[p].untold = SaveOrder[page[p].at]

\* A save that nothing overlapped is the only one: what it passed is as its form
\* says, and the rest as it was when the page was filled.
AloneMeansAlone ==
  \A p \in Pages : Saving(p) /\ page[p].alone =>
    /\ Saves = {p}
    /\ \A k \in Keys :
         value[k] = IF k \in Passed(p) THEN page[p].form[k] ELSE page[p].base[k]

\* Whoever does not save alone has torn the settings.
OthersTear == ~torn => \A p \in Pages : Saving(p) => page[p].alone

\* A setting without doubt waits for one row at most, and that row will be right.
TrailWillBeRight ==
  \A k \in Keys \ doubtful : \A p \in Pending(k) :
    Pending(k) = {p} /\ page[p].form[k] = value[k]

SettingsInv ==
  /\ SettingsTypeOK /\ SavesAreChecked /\ AloneMeansAlone /\ OthersTear
  /\ BoundsStand /\ TrailWillBeRight /\ TrailIsRight

AccessInv == IdentityInv /\ SettingsInv
=============================================================================
