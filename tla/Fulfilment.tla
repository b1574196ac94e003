----------------------------- MODULE Fulfilment -----------------------------
(***************************************************************************)
(* What the shop promises about goods, whatever happens to the payment: an  *)
(* order takes its goods off the shelf once, all of them together, and only *)
(* goods that are there; what comes back is exactly what was taken, and it  *)
(* comes back at most once; a closed order never takes anything.            *)
(* ADR-0005 (decisions 4 and 5) and ADR-0006 (decisions 2 and 6) say so in   *)
(* words; Orders implements it.                                             *)
(***************************************************************************)
EXTENDS Naturals

CONSTANTS Orders, Products

VARIABLES
  shelf,  \* units of each product that can be sold
  phase,  \* of each order: "open", "served" or "closed"
  goods   \* what each order took: nothing until it is served

vars == <<shelf, phase, goods>>

Bundles == [Products -> Nat]
Nothing == [p \in Products |-> 0]

TypeOK ==
  /\ shelf \in Bundles
  /\ phase \in [Orders -> {"open", "served", "closed"}]
  /\ goods \in [Orders -> Bundles]

Init ==
  /\ shelf \in Bundles
  /\ phase = [o \in Orders |-> "open"]
  /\ goods = [o \in Orders |-> Nothing]

Moves(o, from, to) ==
  /\ phase[o] = from
  /\ phase' = [phase EXCEPT ![o] = to]

\* The order leaves with a bundle, possibly a part of what it asked for.
Serve(o) ==
  /\ Moves(o, "open", "served")
  /\ goods' \in [Orders -> Bundles]
  /\ \A other \in Orders \ {o} : goods'[other] = goods[other]
  /\ \A p \in Products : goods'[o][p] <= shelf[p]
  /\ shelf' = [p \in Products |-> shelf[p] - goods'[o][p]]

\* The order is closed without having taken anything.
Decline(o) ==
  /\ Moves(o, "open", "closed")
  /\ UNCHANGED <<shelf, goods>>

\* The order is undone and its goods are sold again.
TakeBack(o) ==
  /\ Moves(o, "served", "closed")
  /\ shelf' = [p \in Products |-> shelf[p] + goods[o][p]]
  /\ UNCHANGED goods

\* The order is undone, the goods are not sold again.
WriteOff(o) ==
  /\ Moves(o, "served", "closed")
  /\ UNCHANGED <<shelf, goods>>

\* Somebody types a new figure for one product.
Recount(p) ==
  /\ shelf' \in Bundles
  /\ \A q \in Products \ {p} : shelf'[q] = shelf[q]
  /\ UNCHANGED <<phase, goods>>

Next ==
  \/ \E o \in Orders : Serve(o) \/ Decline(o) \/ TakeBack(o) \/ WriteOff(o)
  \/ \E p \in Products : Recount(p)

Spec == Init /\ [][Next]_vars
=============================================================================
