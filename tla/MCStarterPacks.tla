--------------------------- MODULE MCStarterPacks ---------------------------
(***************************************************************************)
(* Small instances of StarterPacks for TLC.                                 *)
(***************************************************************************)
EXTENDS PackInvariant, TLC

CONSTANTS ama, ben, cyd, dan, esi, w1, w2

\* A root with three recruits, ben, dan and esi, and cyd, who is a recruit of ben: more than
\* the first row under the root can hold.
Clan == {ama, ben, cyd, dan, esi}
ClanSponsor == (ama :> None) @@ (ben :> ama) @@ (cyd :> ben) @@ (dan :> ama) @@ (esi :> ama)

\* One recruit and his sponsor.
Pair == {ama, ben}
PairSponsor == (ama :> None) @@ (ben :> ama)

OnePack == {"A"}
TwoPacks == {"A", "B"}
Pv == [p \in Packs |-> IF p = "A" THEN 1 ELSE 2]

\* Payments that stay, and payments of all kinds.
PaidOnly == {<<"unpaid", "paid">>}
AnyPayment == {<<"unpaid", "paid">>, <<"unpaid", "mispaid">>, <<"paid", "reversed">>}
=============================================================================
