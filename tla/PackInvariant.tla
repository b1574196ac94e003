---------------------------- MODULE PackInvariant ----------------------------
(***************************************************************************)
(* Why the promises of StarterPacks hold: what every worker knows of the    *)
(* payment in its hands, and of the place it has found.  PackInv is         *)
(* inductive, and PackTreeInv is, which adds the tree; StarterPacks_proofs  *)
(* proves both part by part.                                                *)
(***************************************************************************)
EXTENDS PackPromises, TreeInvariant

\* What a member's row says once his pack was paid for, which is for good.
Settled(d) == member[d].confirmed \/ member[d].cancelled

Placing(f) == \E w \in Workers : pc[w] = "placing" /\ job[w].ref = f

\* The payment will never be applied: it is not worth a pack any more, or the member
\* has one, and nobody is about to apply it.
Dead(f) ==
  /\ ~checkout[f].used
  /\ ~Placing(f)
  /\ payment[f] \in {"mispaid", "reversed"} \/ Settled(Buyer(f))

\* Why one attempt, and then a second one, left the payment where it was.
FirstFailed(f)  == Settled(Buyer(f)) \/ Dead(f) \/ faults >= 1
SecondFailed(f) == Settled(Buyer(f)) \/ Dead(f) \/ faults >= 2

\* How a payment comes to be reported as "not applied": it never will be; or its member
\* has a pack, and selected another one since or cancelled; or two calls failed.  In all
\* but the first case it may have been applied all the same.
Reason(f) ==
  \/ Dead(f)
  \/ Settled(Buyer(f)) /\ member[Buyer(f)].selected # f
  \/ member[Buyer(f)].cancelled
  \/ faults >= 2

\* A checkout belongs to a member from the start; nothing happens to it before.
CheckoutsAreIssued ==
  \A f \in Refs :
    /\ Issued(f) => checkout[f].pack \in Packs
    /\ ~Issued(f) => /\ ~checkout[f].used /\ ~checkout[f].handled
                     /\ payment[f] = "unpaid" /\ issue[f] = "none"

\* Nobody has rows in the tree before his pack is paid for.
RowsFollowPacks ==
  /\ IsFiniteSet({d \in Members : Settled(d)})
  /\ \A d \in Members :
       /\ ~(member[d].confirmed /\ member[d].cancelled)
       /\ ~Settled(d) => above[d] = {}

\* A placement under way holds its member's row, so the member is still waiting and
\* nobody else is about to place him.
PlacingIsAlone ==
  /\ \A w \in Workers : pc[w] = "placing" =>
       LET f == job[w].ref
       IN  /\ Waiting(f)
           /\ payment[f] \in {"paid", "reversed"}
           /\ Sponsor[Buyer(f)] # None => job[w].slot \in Members \X Legs
  /\ \A v, w \in Workers :
       pc[v] = "placing" /\ pc[w] = "placing" /\ Buyer(job[v].ref) = Buyer(job[w].ref)
         => v = w

\* What a worker has learned so far.
WorkersKnow ==
  \A w \in Workers :
    LET f == job[w].ref
    IN  /\ pc[w] # "idle" => f \in Refs /\ Issued(f)
        /\ job[w].via # "event" => /\ payment[f] # "unpaid"
                                   /\ pc[w] = "record" => job[w].kind = "not_applied"
        /\ pc[w] = "recheck" => job[w].via = "first" /\ FirstFailed(f)
        /\ job[w].via = "second" => FirstFailed(f)
        /\ pc[w] = "flag" => job[w].via = "second" /\ SecondFailed(f)
        /\ pc[w] = "record" /\ job[w].kind = "not_applied" => Reason(f)
        /\ pc[w] = "idle" => job[w] = NoJob

IssuesHaveReasons == \A f \in Refs : issue[f] = "not_applied" => Reason(f)

\* The place a placement has found is below the sponsor, and it is open, unless it is
\* below a late placement.
PlacesAreOpen ==
  \A w \in Workers :
    pc[w] = "placing" /\ Sponsor[Buyer(job[w].ref)] # None =>
      LET parent == job[w].slot[1]
          leg    == job[w].slot[2]
      IN  /\ UpTo(parent, Sponsor[Buyer(job[w].ref)])
          /\ \A m \in Members : Under(parent, leg, m) => LateAbove(parent)

\* The search of _find_open_slot ends at a place, for whoever is next.
SearchEnds == \A d \in Members : Sponsor[d] # None => SlotFor(d) \in Members \X Legs

PackInv ==
  /\ PackBooksAgree
  /\ CheckoutsAreIssued
  /\ RowsFollowPacks
  /\ PlacingIsAlone
  /\ WorkersKnow
  /\ IssuesHaveReasons

PackTreeInv == PackInv /\ TreeInv /\ PlacesAreOpen
=============================================================================
