--------------------------- MODULE MCRegistration ---------------------------
(***************************************************************************)
(* A small instance of Registration for TLC.                                *)
(***************************************************************************)
EXTENDS RegistrationInvariant, TLC

CONSTANTS w1, w2

TwoWorkers == {w1, w2}

\* Who does what: a visitor or a webhook against the clean-up and the takeovers;
\* a visitor who takes over against the clean-up.
Split == (w1 :> {"form", "event"}) @@ (w2 :> {"form", "cleanup", "takeover"})
Roles == (w1 :> {"form", "event", "takeover"}) @@ (w2 :> {"event", "cleanup"})

\* Payments that are made at once, made wrongly, or hang before they are made.
Payments == {<<"unpaid", "ongoing">>, <<"unpaid", "paid">>, <<"unpaid", "mispaid">>,
             <<"ongoing", "paid">>, <<"paid", "reversed">>}

\* The same without refunds.
PaymentsThatStay == Payments \ {<<"paid", "reversed">>}
=============================================================================
