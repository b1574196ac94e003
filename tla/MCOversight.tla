---------------------------- MODULE MCOversight -----------------------------
(* A small instance of Oversight. *)
EXTENDS Oversight

Budget == [report |-> 4, alerts |-> 4, screens |-> 4, receipts |-> 2, notices |-> 3]

=============================================================================
