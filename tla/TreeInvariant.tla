--------------------------- MODULE TreeInvariant ---------------------------
(***************************************************************************)
(* Why the tree stays sound: what is true of its rows however many members  *)
(* there are, said of one row or one pair of members at a time, or of sets  *)
(* of members that lead nowhere else.                                       *)
(***************************************************************************)
EXTENDS BinaryTree

\* Whoever is in S has his parent in S, if he has one.
Closed(S) == \A x \in S : Placed(x) => ParentOf(x) \in S

\* a is d, or above him in the tree.
UpTo(d, a) == \A S \in SUBSET Members : d \in S /\ Closed(S) => a \in S

\* Somebody from d upwards was placed before his parent.
LateAbove(d) ==
  \E x \in Members : /\ UpTo(d, x) /\ Placed(x) /\ Placed(ParentOf(x))
                     /\ PositionOf(x) < PositionOf(ParentOf(x))

\* A member is placed once, below one parent, and who was not placed has no rows.
PlacedOnce ==
  /\ \A i, j \in DOMAIN placed : placed[i] = placed[j] => i = j
  /\ \A d \in Members :
       /\ Placed(d) <=> \E i \in DOMAIN placed : placed[i] = d
       /\ Placed(d) => Sponsor[d] # None
       /\ above[d] # {} => Placed(d)
       /\ \A e, g \in above[d] : e.depth = 1 /\ g.depth = 1 => e = g

OneUp(e) == [ancestor |-> e.ancestor, leg |-> e.leg, depth |-> e.depth + 1]

\* Every row that is not the direct one is the copy of a row of the parent.
RowsAreCopies ==
  \A d \in Members : \A e \in above[d] :
    e.depth > 1 => \E g \in above[ParentOf(d)] : e = OneUp(g)

\* And every row of a parent was copied who was placed first.
RowsWereCopied ==
  \A d \in Members :
    Placed(d) /\ Placed(ParentOf(d)) /\ PositionOf(ParentOf(d)) < PositionOf(d)
      => \A g \in above[ParentOf(d)] : OneUp(g) \in above[d]

\* Whatever members one takes, one of them has no parent among them.
NoCircles ==
  \A S \in (SUBSET Members) \ {{}} : \E x \in S : ~(Placed(x) /\ ParentOf(x) \in S)

\* The way up from a member who was placed comes to his sponsor.
SponsorsAreAbove == \A d \in Members : Placed(d) => UpTo(d, Sponsor[d])

\* Two members share a place only below a late placement.
PlacesAreTaken ==
  \A i, j \in DOMAIN placed :
    i # j /\ ParentOf(placed[i]) = ParentOf(placed[j])
          /\ ParentRow(placed[i]).leg = ParentRow(placed[j]).leg
      => LateAbove(placed[i])

TreeInv ==
  /\ PlacedOnce
  /\ RowsAreCopies
  /\ RowsWereCopied
  /\ NoCircles
  /\ SponsorsAreAbove
  /\ PlacesAreTaken

\* The constraints of BinaryTreeEdge: nobody is above himself, and at most one row says
\* that somebody is above somebody.
EdgesAreUnique ==
  \A d \in Members : \A e, g \in above[d] :
    e.ancestor # d /\ (e.ancestor = g.ancestor => e = g)
=============================================================================
