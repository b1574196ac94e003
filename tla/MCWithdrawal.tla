---------------------------- MODULE MCWithdrawal -----------------------------
(***************************************************************************)
(* Small instances of the withdrawal pipeline for TLC.  Amounts are in      *)
(* units small enough to enumerate; 5 at 10 percent tests the rounding.     *)
(***************************************************************************)
EXTENDS WithdrawalMoney, TLC

\* Requests are interchangeable where only invariants are checked.
RequestSymmetry == Permutations(Requests)

\* Redis keeps the cycle lock for its holder, and Paystack would take a second
\* transfer with the same reference; or the other way round.
LockStands == [lockMayLapse |-> FALSE, referenceUnique |-> FALSE]
ReferenceStands == [lockMayLapse |-> TRUE, referenceUnique |-> TRUE]

EitherStands == {LockStands, ReferenceStands}
OnlyLockStands == {LockStands}
OnlyReferenceStands == {ReferenceStands}

AllAnswers == {"pending", "otp", "success"}
JustPending == {"pending"}

AllSettlements ==
  {<<"pending", "otp">>, <<"otp", "pending">>, <<"success", "reversed">>}
  \cup ({"pending", "otp"} \X {"success", "failed", "reversed"})

\* A transfer goes from pending to one of the three outcomes, and a successful
\* one may be recalled.
PlainSettlements ==
  {<<"pending", "success">>, <<"pending", "failed">>, <<"success", "reversed">>}
=============================================================================
