--------------------------- MODULE PayoutPromise ----------------------------
(***************************************************************************)
(* What the withdrawal pipeline keeps to about the money of one request,    *)
(* whatever its workers, crashes and webhooks do.  The money of an approved *)
(* request is held outside the wallet once; it is sent through Paystack at  *)
(* most once; the request is paid only after Paystack reported success, and *)
(* the money returns to the wallet at most once, only after Paystack        *)
(* reported that the transfer failed or was reversed.                       *)
(*                                                                          *)
(* This is less than ADR-0004 says.  Decision 3 (lines 56-58) has every     *)
(* reversal credited back; the code credits one that it hears of before it  *)
(* settled the request as paid, and no other (withdrawal/services.py:671).  *)
(* A platform that did as the ADR says would keep to this module too:       *)
(* Return is allowed after a recall, and not required.                      *)
(***************************************************************************)
CONSTANTS Requests

VARIABLES
  promise,   \* where the platform says the money of a request is
  outside    \* what became of the request's one transfer at Paystack

vars == <<promise, outside>>

Init ==
  /\ promise = [r \in Requests |-> "none"]
  /\ outside = [r \in Requests |-> "unsent"]

Promise(r, from, to) ==
  /\ promise[r] = from
  /\ promise' = [promise EXCEPT ![r] = to]
  /\ UNCHANGED outside

Outside(r, from, to) ==
  /\ outside[r] = from
  /\ outside' = [outside EXCEPT ![r] = to]
  /\ UNCHANGED promise

Ask(r)    == Promise(r, "none", "asked")
Refuse(r) == Promise(r, "asked", "refused")
Hold(r)   == Promise(r, "asked", "held")

\* Only held money is sent, and only once.  It may arrive at once.
Send(r) ==
  /\ promise[r] = "held"
  /\ Outside(r, "unsent", "moving") \/ Outside(r, "unsent", "arrived")

Arrive(r) == Outside(r, "moving", "arrived")

\* The transfer comes back, before it arrived or (a recall) after.
Bounce(r) == Outside(r, "moving", "bounced") \/ Outside(r, "moving", "recalled")
Recall(r) == Outside(r, "arrived", "recalled")

\* The platform settles on what Paystack reported at some time: a success, though the
\* transfer may have been recalled since.
Pay(r) ==
  /\ outside[r] \in {"arrived", "recalled"}
  /\ Promise(r, "held", "paid")

\* The transfer is known to have come back, before the request was paid or after.
Return(r) ==
  \/ outside[r] \in {"bounced", "recalled"} /\ Promise(r, "held", "returned")
  \/ outside[r] = "recalled" /\ Promise(r, "paid", "returned")

Next ==
  \E r \in Requests :
    \/ Ask(r) \/ Refuse(r) \/ Hold(r)
    \/ Send(r) \/ Arrive(r) \/ Bounce(r) \/ Recall(r)
    \/ Pay(r) \/ Return(r)

Spec == Init /\ [][Next]_vars
=============================================================================
