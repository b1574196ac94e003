----------------------------- MODULE BinaryTree -----------------------------
(***************************************************************************)
(* The binary placement tree, apps/binary_tree: a closure table of edges,   *)
(* one for each distributor above another, written when a distributor is    *)
(* placed and never changed afterwards.  Each node has two legs.  A new     *)
(* distributor goes into the weaker leg of his sponsor, into the first open *)
(* place from the top, and from the left, of that leg.                      *)
(***************************************************************************)
EXTENDS Integers, Sequences, FiniteSets

CONSTANTS
  Members,   \* Distributor primary keys
  None,      \* a model value: nobody
  Sponsor    \* Distributor.sponsor, None for the root

Legs == {"L", "R"}

\* A sponsor is there before his recruit: whatever members one takes, the eldest of
\* them has his sponsor elsewhere.
ASSUME SponsorAssumption ==
  /\ None \notin Members
  /\ IsFiniteSet(Members)
  /\ Sponsor \in [Members -> Members \cup {None}]
  /\ \A S \in (SUBSET Members) \ {{}} : \E d \in S : Sponsor[d] \notin S

VARIABLES
  above,   \* BinaryTreeEdge: the rows whose descendant it is
  placed,  \* the members with a parent, in the order of their rows' keys
  legPv    \* PvLedger.left_leg_pv, right_leg_pv

treeVars == <<above, placed, legPv>>

Rows == [ancestor : Members, leg : Legs, depth : Nat \ {0}]

TreeTypeOK ==
  /\ above \in [Members -> SUBSET Rows]
  /\ placed \in Seq(Members)
  /\ legPv \in [Members -> [Legs -> Nat]]

TreeInit ==
  /\ above = [d \in Members |-> {}]
  /\ placed = <<>>
  /\ legPv = [d \in Members |-> [leg \in Legs |-> 0]]

-----------------------------------------------------------------------------
\* The direct parent of a member who is placed, as a row of depth 1.
Placed(d) == \E e \in above[d] : e.depth = 1
ParentRow(d) == CHOOSE e \in above[d] : e.depth = 1

Under(parent, leg, d) == \E e \in above[d] : e.ancestor = parent /\ e.leg = leg /\ e.depth = 1

\* _direct_child: the first row of that parent and leg, should there be two.
DirectChild(parent, leg) ==
  LET is == {i \in DOMAIN placed : Under(parent, leg, placed[i])}
  IN  IF is = {} THEN None
      ELSE placed[CHOOSE i \in is : \A j \in is : i <= j]

WeakerLeg(s) == IF legPv[s]["R"] < legPv[s]["L"] THEN "R" ELSE "L"

\* What the queue of _find_open_slot holds when round i of its loop begins, as long as
\* no round has found a place.
Queue(child) ==
  LET queue[i \in Nat] ==
        IF i = 0 THEN <<child>>
        ELSE LET before == queue[i - 1]
             IN  Tail(before) \o <<DirectChild(Head(before), "L"), DirectChild(Head(before), "R")>>
  IN  queue

\* The place that the loop finds.  No member comes up twice, so it is over before there
\* were more rounds than members.
Search(child) ==
  LET node(i) == Head(Queue(child)[i])
      ends    == {i \in 0..Cardinality(Members) :
                    \E leg \in Legs : DirectChild(node(i), leg) = None}
      last    == node(CHOOSE i \in ends : \A j \in ends : i <= j)
  IN  IF ends = {} THEN <<>>
      ELSE <<last, IF DirectChild(last, "L") = None THEN "L" ELSE "R">>

OpenSlot(s, leg) ==
  LET child == DirectChild(s, leg)
  IN  IF child = None THEN <<s, leg>> ELSE Search(child)

\* _attach: the row of the parent, and one for each row of the parent.  The rows
\* that descendants of the new member may have already are not extended.
Attached(parent, leg) ==
  {[ancestor |-> parent, leg |-> leg, depth |-> 1]} \cup
    {[e EXCEPT !.depth = @ + 1] : e \in above[parent]}

-----------------------------------------------------------------------------
\* get_downline_tree loads the members with a row that names d, and draws d and,
\* by their direct rows, the children of everybody it has loaded.
Loaded(d) == {d} \cup {m \in Members : \E e \in above[m] : e.ancestor = d}
Drawn(d)  == {d} \cup {m \in Members : Placed(m) /\ ParentRow(m).ancestor \in Loaded(d)}

-----------------------------------------------------------------------------
(* What the rows should say.                                                *)

\* The direct parent, None for the root and above it.
ParentOf(d) == IF d \in Members /\ Placed(d) THEN ParentRow(d).ancestor ELSE None

\* The members on the way from d up to the root, by direct rows: Chain(d)[0] = d.
Chain(d) ==
  LET up[k \in Nat] ==
        IF k = 0 THEN d ELSE ParentOf(up[k - 1])
  IN  [k \in 0..Cardinality(Members) |-> up[k]]

PositionOf(d) == CHOOSE i \in DOMAIN placed : placed[i] = d

\* Somebody on the chain was placed after the one below him, whose row he could
\* not extend any more.
LatePlaced(d, k) ==
  \E j \in 1..(k - 1) :
    LET m == Chain(d)[j] IN PositionOf(m) > PositionOf(Chain(d)[j - 1])

BelowLate(d) ==
  \E k \in 1..Cardinality(Members) : Chain(d)[k] # None /\ LatePlaced(d, k)

\* Nobody has two parents, and no place has two children, unless it is below a late
\* placement: the locks of two placements that end up there need not meet.
OnePlaceEach ==
  /\ \A d \in Members : Cardinality({e \in above[d] : e.depth = 1}) =
                          Cardinality({i \in DOMAIN placed : placed[i] = d})
  /\ \A i, j \in DOMAIN placed : i # j =>
       \/ ParentRow(placed[i]).ancestor # ParentRow(placed[j]).ancestor
       \/ ParentRow(placed[i]).leg # ParentRow(placed[j]).leg
       \/ BelowLate(placed[i])

\* Each row is a way up by direct rows, as long as it says and through the leg it
\* names, and there is no way round in circles.
RowsAreWays ==
  \A d \in Members : \A e \in above[d] :
    LET chain == Chain(d)
    IN  /\ e.depth \in DOMAIN chain
        /\ chain[e.depth] = e.ancestor
        /\ ParentRow(chain[e.depth - 1]).leg = e.leg
        /\ e.ancestor # d

\* Each way up has its row, unless it leads through a late placement.
WaysHaveRows ==
  \A d \in Members : \A k \in 1..Cardinality(Members) :
    LET a == Chain(d)[k]
    IN  a # None => \/ \E e \in above[d] : e.ancestor = a /\ e.depth = k
                    \/ LatePlaced(d, k)

\* A member is somewhere below his sponsor, who sees it in the rows, unless the way
\* down leads through a late placement.
BelowSponsor ==
  \A d \in Members : Placed(d) =>
    \/ \E e \in above[d] : e.ancestor = Sponsor[d]
    \/ BelowLate(d) /\ \E k \in 1..Cardinality(Members) : Chain(d)[k] = Sponsor[d]

\* The team page draws everybody it has loaded, and nobody else (it fails on a
\* member it has not loaded), unless somebody was placed late.
TeamsAreWhole ==
  \A d \in Members :
    /\ Loaded(d) \subseteq Drawn(d)
    /\ \A m \in Drawn(d) \ Loaded(d) : \E k \in 1..Cardinality(Members) :
         Chain(m)[k] = d /\ LatePlaced(m, k)

\* The tree that placements leave behind is a binary tree, and the closure table
\* describes it.
TreeSound == OnePlaceEach /\ RowsAreWays /\ WaysHaveRows /\ BelowSponsor /\ TeamsAreWhole
=============================================================================
