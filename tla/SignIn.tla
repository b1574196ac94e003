------------------------------- MODULE SignIn -------------------------------
(***************************************************************************)
(* How distributors and admins sign in: the count of wrong passwords and   *)
(* the lock it leads to, the one-time codes that prove a phone number or   *)
(* open a password reset, and the browser session that carries a visitor   *)
(* from one page to the next.                                              *)
(*                                                                         *)
(* A request is served by a worker.  Its slow parts (comparing a password  *)
(* hash, sending a text or an email) happen outside every lock, so what a  *)
(* request read at its start may be out of date when it writes; what the   *)
(* code does under a row lock is one step here.  A locked account, a       *)
(* missing code and the other early returns that change nothing have no    *)
(* action.                                                                 *)
(***************************************************************************)
EXTENDS Naturals, Sequences, FiniteSets

CONSTANTS
  Distributors,  \* they sign in with a phone number
  Admins,        \* they sign in with an email address
  Browsers,      \* each has one session
  Workers,       \* the processes that serve requests and tasks
  Reachable,     \* distributors whose account has an email address
  ProvenBefore,  \* distributors whose phone number was verified earlier
  NoOne,         \* no account
  MaxFailed,     \* MAX_FAILED_LOGIN_ATTEMPTS
  MaxGuesses,    \* OTP_MAX_ATTEMPTS
  MaxRequests,   \* bound: requests and tasks served in a run
  MaxFaults      \* bound: database or broker failures in a run

Accounts == Distributors \cup Admins

ASSUME SignInAssumption ==
  /\ Distributors \cap Admins = {}
  /\ NoOne \notin Accounts
  /\ Reachable \subseteq Distributors /\ ProvenBefore \subseteq Distributors
  /\ MaxFailed \in Nat \ {0} /\ MaxGuesses \in Nat \ {0}
  /\ MaxRequests \in Nat /\ MaxFaults \in Nat
  /\ IsFiniteSet(Workers)

Purposes == {"registration", "password_reset"}

\* Mutant of EmailFallback: any code may go by email.
AnyPurpose == Purposes

\* EMAIL_FALLBACK_PURPOSES: an email proves nothing about a phone.
EmailFallback == {"password_reset"}

VARIABLES
  lock,      \* locked_until: "none", "held" (to come) or "passed"
  attempts,  \* failed_login_attempts
  proven,    \* phone_verified
  codes,     \* the OTPCode rows in order of creation
  queued,    \* password reset tasks waiting, per phone number
  session,   \* what each browser's session holds
  pc,        \* where each worker is
  job,       \* what each worker works on
  served,    \* requests started so far
  faults,    \* failures so far
  wrong,     \* wrong passwords recorded since the last clean slate
  lockings,  \* how often an admin account became locked
  alerts,    \* the lockout emails sent about it
  unsent     \* the lockings that no email tells of

accountVars == <<lock, attempts, wrong, lockings, alerts, unsent>>
phoneVars == <<proven, codes, queued>>
signInVars == <<lock, attempts, proven, codes, queued, session, pc, job,
                served, faults, wrong, lockings, alerts, unsent>>

NoCode == [acct |-> NoOne, purpose |-> "none"]

NoSession == [otp |-> NoCode, reset |-> NoOne, user |-> NoOne]

Sessions ==
  [otp : {NoCode} \cup [acct : Distributors, purpose : Purposes],
   reset : Distributors \cup {NoOne},
   user : Accounts \cup {NoOne}]

\* An OTPCode row. "via" is delivered_via, or "stuck" for an undelivered row
\* that could not be deleted; "compared" counts the codes held against it.
CodeRows ==
  [acct : Distributors, purpose : Purposes,
   via : {"none", "sms", "email", "stuck"},
   tries : 0 .. MaxGuesses, compared : Nat,
   verified : BOOLEAN, expired : BOOLEAN, gone : BOOLEAN]

NoJob == [acct |-> NoOne, browser |-> NoOne, sess |-> NoSession,
          via |-> "none", purpose |-> "none", code |-> 0, guess |-> 0]

Begin(w, at, what) ==
  /\ pc[w] = "idle" /\ served < MaxRequests
  /\ served' = served + 1
  /\ pc' = [pc EXCEPT ![w] = at]
  /\ job' = [job EXCEPT ![w] = what]

Continue(w, at) ==
  /\ pc' = [pc EXCEPT ![w] = at]
  /\ UNCHANGED <<job, served>>

Done(w) ==
  /\ pc' = [pc EXCEPT ![w] = "idle"]
  /\ job' = [job EXCEPT ![w] = NoJob]
  /\ UNCHANGED served

\* A request that ends before anything else can happen.
Serve(w) ==
  /\ pc[w] = "idle" /\ served < MaxRequests
  /\ served' = served + 1
  /\ UNCHANGED <<pc, job>>

Fault == faults < MaxFaults /\ faults' = faults + 1

-----------------------------------------------------------------------------
(* Distributors: attempt_distributor_login. *)

\* The account is read without a lock, and the password compared. A suspended
\* account's password counts as a wrong one (PhoneNumberBackend).
LogIn(w, b, d, right) ==
  /\ lock[d] # "held"
  /\ Begin(w, IF right THEN "succeed" ELSE "fail",
           [NoJob EXCEPT !.acct = d, !.browser = b, !.sess = session[b],
                         !.via = IF proven[d] THEN "proven" ELSE "login"])
  /\ UNCHANGED <<accountVars, phoneVars, session, faults>>

Count(seen, fresh) == IF fresh THEN 1 ELSE seen + 1

\* _record_failure: a lock that ran out gives a clean slate, a lock that was
\* set since the account was read is set again.
RecordFailure(w) ==
  LET d == job[w].acct
      fresh == lock[d] = "passed"
  IN  /\ pc[w] = "fail"
      /\ attempts' = [attempts EXCEPT ![d] = Count(@, fresh)]
      /\ wrong' = [wrong EXCEPT ![d] = Count(@, fresh)]
      /\ lock' = [lock EXCEPT ![d] = IF attempts'[d] >= MaxFailed THEN "held"
                                     ELSE IF fresh THEN "none" ELSE @]
      /\ Done(w)
      /\ UNCHANGED <<phoneVars, session, faults, lockings, alerts, unsent>>

\* _record_success, then the view: in, or to the code that proves the phone,
\* by what the account said when it was read.
RecordSuccess(w) ==
  LET d == job[w].acct
  IN  /\ pc[w] = "succeed"
      /\ attempts' = [attempts EXCEPT ![d] = 0]
      /\ wrong' = [wrong EXCEPT ![d] = 0]
      /\ lock' = [lock EXCEPT ![d] = "none"]
      /\ IF job[w].via = "proven"
           THEN /\ session' = [session EXCEPT ![job[w].browser] =
                                [job[w].sess EXCEPT !.user = d]]
                /\ Done(w)
           ELSE /\ pc' = [pc EXCEPT ![w] = "create"]
                /\ job' = [job EXCEPT ![w].purpose = "registration"]
                /\ UNCHANGED <<session, served>>
      /\ UNCHANGED <<phoneVars, faults, lockings, alerts, unsent>>

LogOut(w, b) ==
  /\ session[b].user # NoOne
  /\ Serve(w)
  /\ session' = [session EXCEPT ![b] = NoSession]
  /\ UNCHANGED <<accountVars, phoneVars, faults>>

-----------------------------------------------------------------------------
(* Admins: EmailBackend, and the signals of a failed and of a full login. *)

\* A held lock refuses the right password too.
AdminLogIn(w, a, right) ==
  /\ Begin(w, IF right /\ lock[a] # "held" THEN "welcome" ELSE "turned_away",
           [NoJob EXCEPT !.acct = a])
  /\ UNCHANGED <<accountVars, phoneVars, session, faults>>

\* lock_admin_after_repeated_failures: a held lock is left as it is.
RecordAdminFailure(w) ==
  LET a == job[w].acct
      fresh == lock[a] = "passed"
  IN  /\ pc[w] = "turned_away"
      /\ IF lock[a] = "held"
           THEN Done(w) /\ UNCHANGED accountVars
           ELSE /\ attempts' = [attempts EXCEPT ![a] = Count(@, fresh)]
                /\ wrong' = [wrong EXCEPT ![a] = Count(@, fresh)]
                /\ IF attempts'[a] >= MaxFailed
                     THEN /\ lock' = [lock EXCEPT ![a] = "held"]
                          /\ lockings' = [lockings EXCEPT ![a] = @ + 1]
                          /\ Continue(w, "alert")
                     ELSE /\ lock' = [lock EXCEPT ![a] = "none"]
                          /\ Done(w)
                          /\ UNCHANGED lockings
                /\ UNCHANGED <<alerts, unsent>>
      /\ UNCHANGED <<phoneVars, session, faults>>

\* _send_lockout_alert, after the lock has committed: to LOCKOUT_ALERT_EMAIL, and to
\* nobody while that is blank, as it is until an admin sets it.
SendLockoutAlert(w) ==
  LET a == job[w].acct
  IN  /\ pc[w] = "alert"
      /\ \/ alerts' = [alerts EXCEPT ![a] = @ + 1] /\ UNCHANGED unsent
         \/ unsent' = [unsent EXCEPT ![a] = @ + 1] /\ UNCHANGED alerts
      /\ Done(w)
      /\ UNCHANGED <<lock, attempts, wrong, lockings, phoneVars, session, faults>>

\* send_mail raises, or the worker dies first: the lock stands, and nothing asks for
\* the email again.
LockoutAlertFails(w) ==
  /\ pc[w] = "alert"
  /\ Fault
  /\ unsent' = [unsent EXCEPT ![job[w].acct] = @ + 1]
  /\ Done(w)
  /\ UNCHANGED <<lock, attempts, wrong, lockings, alerts, phoneVars, session>>

\* The second factor passed too: reset_admin_failed_attempts, an UPDATE.
AdminIsIn(w) ==
  LET a == job[w].acct
  IN  /\ pc[w] = "welcome"
      /\ attempts' = [attempts EXCEPT ![a] = 0]
      /\ wrong' = [wrong EXCEPT ![a] = 0]
      /\ lock' = [lock EXCEPT ![a] = "none"]
      /\ Done(w)
      /\ UNCHANGED <<lockings, alerts, unsent, phoneVars, session, faults>>

LockPasses(a) ==
  /\ lock[a] = "held"
  /\ lock' = [lock EXCEPT ![a] = "passed"]
  /\ UNCHANGED <<attempts, wrong, lockings, alerts, unsent, phoneVars, session, pc, job,
                 served, faults>>

-----------------------------------------------------------------------------
(* Sending a code: generate_otp. *)

CreateCode(w) ==
  /\ pc[w] = "create"
  /\ codes' = Append(codes,
       [acct |-> job[w].acct, purpose |-> job[w].purpose, via |-> "none",
        tries |-> 0, compared |-> 0,
        verified |-> FALSE, expired |-> FALSE, gone |-> FALSE])
  /\ pc' = [pc EXCEPT ![w] = "text"]
  /\ job' = [job EXCEPT ![w].code = Len(codes) + 1]
  /\ UNCHANGED <<accountVars, proven, queued, session, served, faults>>

\* The code is out. Only the login page has something left to do: it sends
\* the visitor on to the page that asks for the code.
Delivered(w, route) ==
  /\ codes' = [codes EXCEPT ![job[w].code].via = route]
  /\ session' = IF job[w].via = "login"
                  THEN [session EXCEPT ![job[w].browser] =
                         [job[w].sess EXCEPT !.otp =
                           [acct |-> job[w].acct, purpose |-> job[w].purpose]]]
                  ELSE session
  /\ Done(w)
  /\ UNCHANGED <<accountVars, proven, queued, faults>>

TextArrives(w) == pc[w] = "text" /\ Delivered(w, "sms")

FallsBack(d, purpose) == purpose \in EmailFallback /\ d \in Reachable

\* mNotify refuses or cannot be reached (SmsSendError).
TextFails(w) ==
  /\ pc[w] = "text"
  /\ Continue(w, IF FallsBack(job[w].acct, job[w].purpose) THEN "mail"
                                                           ELSE "discard")
  /\ UNCHANGED <<accountVars, phoneVars, session, faults>>

MailArrives(w) == pc[w] = "mail" /\ Delivered(w, "email")

MailFails(w) ==
  /\ pc[w] = "mail"
  /\ Continue(w, "discard")
  /\ UNCHANGED <<accountVars, phoneVars, session, faults>>

\* _discard_undelivered: best effort, so the row may stay.
Discard(w) ==
  /\ pc[w] = "discard"
  /\ \/ /\ codes' = [codes EXCEPT ![job[w].code].gone = TRUE]
        /\ UNCHANGED faults
     \/ /\ Fault
        /\ codes' = [codes EXCEPT ![job[w].code].via = "stuck"]
  /\ Done(w)
  /\ UNCHANGED <<accountVars, proven, queued, session>>

CodeExpires(c) ==
  /\ ~codes[c].expired /\ ~codes[c].verified /\ ~codes[c].gone
  /\ codes' = [codes EXCEPT ![c].expired = TRUE]
  /\ UNCHANGED <<accountVars, proven, queued, session, pc, job, served, faults>>

\* _queue_password_reset_code: nobody hears that the broker is down.
QueueReset(d) ==
  \/ queued' = [queued EXCEPT ![d] = @ + 1] /\ UNCHANGED faults
  \/ Fault /\ UNCHANGED queued

ForgotPassword(w, b, d) ==
  /\ Serve(w)
  /\ QueueReset(d)
  /\ session' = [session EXCEPT ![b].otp =
                  [acct |-> d, purpose |-> "password_reset"]]
  /\ UNCHANGED <<accountVars, proven, codes>>

ResendOtp(w, b) ==
  LET otp == session[b].otp
  IN  /\ otp # NoCode
      /\ IF otp.purpose = "password_reset"
           THEN Serve(w) /\ QueueReset(otp.acct)
           ELSE /\ Begin(w, "create",
                         [NoJob EXCEPT !.acct = otp.acct, !.browser = b,
                                       !.purpose = otp.purpose])
                /\ UNCHANGED <<queued, faults>>
      /\ UNCHANGED <<accountVars, proven, codes, session>>

\* send_password_reset_code, in the task worker.
SendResetCode(w, d) ==
  /\ queued[d] > 0 /\ pc[w] = "idle"
  /\ queued' = [queued EXCEPT ![d] = @ - 1]
  /\ pc' = [pc EXCEPT ![w] = "create"]
  /\ job' = [job EXCEPT ![w] = [NoJob EXCEPT !.acct = d,
                                             !.purpose = "password_reset"]]
  /\ UNCHANGED <<accountVars, proven, codes, session, served, faults>>

-----------------------------------------------------------------------------
(* Entering a code: verify_otp and its view. *)

\* The codes that verify_otp looks among, and the one it takes.
Open(otp) ==
  {c \in DOMAIN codes : /\ codes[c].acct = otp.acct
                        /\ codes[c].purpose = otp.purpose
                        /\ ~codes[c].verified /\ ~codes[c].gone}

Newest(cs) == CHOOSE c \in cs : \A e \in cs : e <= c

\* What a visitor can type: a code that reached them, or a wrong one (0).
Known(d) ==
  {0} \cup {c \in DOMAIN codes : codes[c].acct = d
                                 /\ codes[c].via \in {"sms", "email"}}

EnterCode(w, b, guess) ==
  LET otp == session[b].otp
  IN  /\ otp # NoCode /\ guess \in Known(otp.acct)
      /\ Open(otp) # {}
      /\ ~codes[Newest(Open(otp))].expired
      /\ Begin(w, "check",
               [acct |-> otp.acct, browser |-> b, sess |-> session[b],
                via |-> "none", purpose |-> otp.purpose,
                code |-> Newest(Open(otp)), guess |-> guess])
      /\ UNCHANGED <<accountVars, phoneVars, session, faults>>

\* Mutant of TriesSeen: the copy that was read before the lock, of a new code.
TriesBefore(w) == 0

\* The number of guesses the locked row shows.
TriesSeen(w) == codes[job[w].code].tries

\* _attempt, under the lock of the row that was picked without one.
CheckCode(w) ==
  LET c == job[w].code
      right == job[w].guess = c
  IN  /\ pc[w] = "check"
      /\ IF codes[c].gone \/ TriesSeen(w) >= MaxGuesses
           THEN Done(w) /\ UNCHANGED codes
           ELSE /\ codes' = [codes EXCEPT ![c].tries = TriesSeen(w) + 1,
                                          ![c].compared = @ + 1,
                                          ![c].verified = @ \/ right]
                /\ IF right THEN Continue(w, "admit") ELSE Done(w)
      /\ UNCHANGED <<accountVars, proven, queued, session, faults>>

\* A registration code proves the phone and signs in; a reset code opens the
\* page for the new password.
Admit(w) ==
  LET d == job[w].acct
      rest == [job[w].sess EXCEPT !.otp = NoCode]
      signsIn == job[w].purpose = "registration"
  IN  /\ pc[w] = "admit"
      /\ proven' = [proven EXCEPT ![d] = @ \/ signsIn]
      /\ session' = [session EXCEPT ![job[w].browser] =
                      IF signsIn THEN [rest EXCEPT !.user = d]
                                 ELSE [rest EXCEPT !.reset = d]]
      /\ Done(w)
      /\ UNCHANGED <<accountVars, codes, queued, faults>>

\* The password itself is not modelled: LogIn takes right and wrong ones.
SetNewPassword(w, b) ==
  /\ session[b].reset # NoOne
  /\ Serve(w)
  /\ session' = [session EXCEPT ![b].reset = NoOne]
  /\ UNCHANGED <<accountVars, phoneVars, faults>>

-----------------------------------------------------------------------------
SignInInit ==
  /\ lock = [a \in Accounts |-> "none"]
  /\ attempts = [a \in Accounts |-> 0]
  /\ proven = [d \in Distributors |-> d \in ProvenBefore]
  /\ codes = <<>>
  /\ queued = [d \in Distributors |-> 0]
  /\ session \in [Browsers -> {[NoSession EXCEPT !.user = u] :
                                 u \in ProvenBefore \cup {NoOne}}]
  /\ pc = [w \in Workers |-> "idle"]
  /\ job = [w \in Workers |-> NoJob]
  /\ served = 0 /\ faults = 0
  /\ wrong = [a \in Accounts |-> 0]
  /\ lockings = [a \in Admins |-> 0]
  /\ alerts = [a \in Admins |-> 0]
  /\ unsent = [a \in Admins |-> 0]

SignInStep(w) ==
  \/ \E b \in Browsers, d \in Distributors :
       \/ \E right \in BOOLEAN : LogIn(w, b, d, right)
       \/ ForgotPassword(w, b, d)
  \/ \E b \in Browsers : LogOut(w, b) \/ ResendOtp(w, b) \/ SetNewPassword(w, b)
  \/ \E b \in Browsers, guess \in 0 .. Len(codes) : EnterCode(w, b, guess)
  \/ \E a \in Admins, right \in BOOLEAN : AdminLogIn(w, a, right)
  \/ \E d \in Distributors : SendResetCode(w, d)
  \/ RecordFailure(w) \/ RecordSuccess(w)
  \/ RecordAdminFailure(w) \/ SendLockoutAlert(w) \/ LockoutAlertFails(w) \/ AdminIsIn(w)
  \/ CreateCode(w) \/ TextArrives(w) \/ TextFails(w)
  \/ MailArrives(w) \/ MailFails(w) \/ Discard(w)
  \/ CheckCode(w) \/ Admit(w)

SignInNext ==
  \/ \E w \in Workers : SignInStep(w)
  \/ \E a \in Accounts : LockPasses(a)
  \/ \E c \in DOMAIN codes : CodeExpires(c)

-----------------------------------------------------------------------------
SignInTypeOK ==
  /\ lock \in [Accounts -> {"none", "held", "passed"}]
  /\ attempts \in [Accounts -> 0 .. MaxRequests]
  /\ wrong \in [Accounts -> 0 .. MaxRequests]
  /\ proven \in [Distributors -> BOOLEAN]
  /\ codes \in Seq(CodeRows)
  /\ queued \in [Distributors -> 0 .. MaxRequests]
  /\ session \in [Browsers -> Sessions]
  /\ served \in 0 .. MaxRequests /\ faults \in 0 .. MaxFaults
  /\ lockings \in [Admins -> 0 .. MaxRequests]
  /\ alerts \in [Admins -> 0 .. MaxRequests]
  /\ unsent \in [Admins -> 0 .. MaxRequests]

(***************************************************************************)
(* The limits hold however requests overlap: MAX_FAILED_LOGIN_ATTEMPTS     *)
(* wrong passwords lock an account, although each was counted by a request *)
(* of its own; no code is compared with more than OTP_MAX_ATTEMPTS guesses,*)
(* although each request picked it without a lock; and for each time that  *)
(* an admin account becomes locked one email at most is sent, none for a   *)
(* wrong password that finds it locked: the one is missing where no address*)
(* is set, which is the default, or where it could not be sent             *)
(* (attempt_distributor_login, lock_admin_after_repeated_failures,         *)
(* verify_otp).                                                            *)
(***************************************************************************)
LimitsHold ==
  /\ \A a \in Accounts : wrong[a] >= MaxFailed => lock[a] # "none"
  /\ \A c \in DOMAIN codes : codes[c].compared <= MaxGuesses
  /\ \A a \in Admins :
       lockings[a] = alerts[a] + unsent[a] +
                       Cardinality({w \in Workers : pc[w] = "alert" /\ job[w].acct = a})

\* Once nothing is being sent, the newest open code of a phone number was
\* delivered, unless its row could not be deleted.
NewestCodeWasDelivered ==
  \A d \in Distributors, p \in Purposes :
    LET open == Open([acct |-> d, purpose |-> p])
    IN  open # {} =>
          \/ codes[Newest(open)].via # "none"
          \/ \E w \in Workers : job[w].code = Newest(open)

\* A phone number counts as verified only because a registration code that
\* was texted to it was entered.
PhoneProvenByText ==
  \A d \in Distributors \ ProvenBefore :
    proven[d] => \E c \in DOMAIN codes :
                   /\ codes[c].acct = d /\ codes[c].verified
                   /\ codes[c].purpose = "registration"
                   /\ codes[c].via = "sms"

(***************************************************************************)
(* The code that is checked is one the visitor can have: verify_otp only   *)
(* ever looks at the newest, so an undelivered one that stays would        *)
(* disable the code in the visitor's hands (generate_otp,                  *)
(* _discard_undelivered). And what the code proves is the phone: not one   *)
(* that went by email, nor one meant for a password reset                  *)
(* (verify_otp_view, EMAIL_FALLBACK).                                      *)
(***************************************************************************)
CodesProveThePhone == NewestCodeWasDelivered /\ PhoneProvenByText

=============================================================================
