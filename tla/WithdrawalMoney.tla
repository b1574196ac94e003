--------------------------- MODULE WithdrawalMoney ---------------------------
(***************************************************************************)
(* What the withdrawal pipeline keeps of a distributor's money.             *)
(***************************************************************************)
EXTENDS WithdrawalInvariant, Functions

Of(d, statuses) == {r \in Requests : terms[r].owner = d /\ status[r] \in statuses}

Nets == [r \in Requests |-> terms[r].net]

NetOf(requests) == SumFunctionOnSet(Nets, requests)

\* The debit stands: neither awaited nor returned.
HoldingMoney == {"approved_debited", "queued_for_payout", "paid"}

\* No pesewa is lost or made: what a distributor earned is in the wallet, held
\* for a payout or paid out (credit, debit and the two transactions that call
\* them for a withdrawal).
MoneyConserved ==
  \A d \in Distributors :
    otherEntries[d] =
      wallet[d] + NetOf(Of(d, HoldingMoney))

\* However many primary keys there are, only so many requests were submitted.
BooksAreFinite == IsFiniteSet({r \in Requests : status[r] # "none"})
=============================================================================
