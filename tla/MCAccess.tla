------------------------------ MODULE MCAccess ------------------------------
(* A small instance of Access. *)
EXTENDS AccessInvariant, TLC

CONSTANTS kofi, efua, admin, browser, w1, w2

MCDistributors == {kofi, efua}
MCWorkers == {w1, w2}
Alike == Permutations(MCWorkers)

=============================================================================
