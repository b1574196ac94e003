---------------------------- MODULE MCCommissions ----------------------------
(***************************************************************************)
(* Small instances of Commissions for TLC: ama sponsored kofi, who sponsored *)
(* esi on his left leg and yaw on his right.                                *)
(***************************************************************************)
EXTENDS BonusInvariant, TLC

CONSTANTS ama, kofi, esi, yaw, p1, p2, p3, w1, w2

\* Everybody placed under ama.
Team == {ama, kofi, esi, yaw}

Tree == (ama :> {}) @@ (kofi :> {<<ama, "left">>})
        @@ (esi :> {<<kofi, "left">>, <<ama, "left">>})
        @@ (yaw :> {<<kofi, "right">>, <<ama, "left">>})

Recruits == (ama :> None) @@ (kofi :> ama) @@ (esi :> kofi) @@ (yaw :> kofi)

\* ama is bronze, kofi has a rank but nobody below who earns.
Ranks == (ama :> 2) @@ (kofi :> 1) @@ (esi :> 0) @@ (yaw :> 0)

\* esi buys twice: his uplines have rows of two days in one leg.
Buyers == (p1 :> esi) @@ (p2 :> yaw) @@ (p3 :> esi)
Earned == (p1 :> 4) @@ (p2 :> 3) @@ (p3 :> 1)

TwoBuyers == (p1 :> esi) @@ (p2 :> yaw)
TwoEarned == (p1 :> 4) @@ (p2 :> 3)

Qualified == (ama :> 1) @@ (kofi :> 1) @@ (esi :> 0) @@ (yaw :> 0)

\* kofi and his legs alone.
Trio == {kofi, esi, yaw}
TrioTree == (kofi :> {}) @@ (esi :> {<<kofi, "left">>}) @@ (yaw :> {<<kofi, "right">>})
TrioRecruits == (kofi :> None) @@ (esi :> kofi) @@ (yaw :> kofi)
TrioRanks == (kofi :> 1) @@ (esi :> 0) @@ (yaw :> 0)
TrioQualified == (kofi :> 1) @@ (esi :> 0) @@ (yaw :> 0)

\* Workers differ in nothing but their names.
WorkerSymmetry == Permutations({w1, w2})
=============================================================================
