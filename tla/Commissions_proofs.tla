------------------------- MODULE Commissions_proofs -------------------------
(***************************************************************************)
(* Proofs that BonusInv is inductive, for every tree, every                 *)
(* number of distributors, purchases and workers, every rate and cap, and   *)
(* whatever cycles overlap, fail or crash.                                  *)
(***************************************************************************)
EXTENDS BonusInvariant, Induction_proofs

-----------------------------------------------------------------------------
(* Rows of PV: what expiry and consumption leave of them.                   *)

LEMMA DaysAreFinite ==
  /\ IsFiniteSet(Days) /\ \A S \in SUBSET Days : IsFiniteSet(S)
  /\ LastDay \in Nat /\ Days \in SUBSET Nat
  /\ \A t : t \in Days <=> t \in Nat /\ t <= LastDay
<1>1. LastDay \in Nat
  BY PvAssumption
<1>2. IsFiniteSet(Days)
  BY <1>1, FS_Interval DEF Days
<1>3. \A S \in SUBSET Days : IsFiniteSet(S)
  BY <1>2, FS_Subset
<1>4. \A t : t \in Days <=> t \in Nat /\ t <= LastDay
  BY <1>1 DEF Days
<1> QED
  BY <1>1, <1>2, <1>3, <1>4

LEMMA SmallerLarger ==
  ASSUME NEW a \in Int, NEW b \in Int
  PROVE  /\ Smaller(a, b) \in Int /\ Smaller(a, b) <= a /\ Smaller(a, b) <= b
         /\ Smaller(a, b) \in {a, b}
         /\ Larger(a, b) \in Int /\ a <= Larger(a, b) /\ b <= Larger(a, b)
         /\ Larger(a, b) \in {a, b}
BY DEF Smaller, Larger

LEMMA ExpiredRows ==
  ASSUME NEW rows \in [Days -> Nat], NEW day \in Days
  PROVE  /\ Expired(rows, day) \in [Days -> Nat]
         /\ \A t \in Days : Expired(rows, day)[t] <= rows[t]
         /\ \A t \in Days : t >= Cutoff(day) => Expired(rows, day)[t] = rows[t]
         /\ SumFunctionOnSet(Expired(rows, day), Days) =
              SumFunctionOnSet(rows, {t \in Days : t >= Cutoff(day)})
         /\ SumFunctionOnSet(rows, {t \in Days : t >= Cutoff(day)}) <=
              SumFunctionOnSet(rows, Days)
         /\ SumFunctionOnSet(rows, {t \in Days : t >= Cutoff(day)}) \in Nat
<1> DEFINE kept == {t \in Days : t >= Cutoff(day)}
           left == Expired(rows, day)
<1>1. /\ left \in [Days -> Nat] /\ \A t \in Days : left[t] <= rows[t]
      /\ \A t \in kept : left[t] = rows[t]
      /\ \A t \in Days \ kept : left[t] = 0
  BY DaysAreFinite, PvAssumption DEF Expired, Cutoff
<1>2. IsFiniteSet(Days) /\ IsFiniteSet(kept) /\ kept \in SUBSET Days
  BY DaysAreFinite
<1> HIDE DEF left, kept
<1>3. SumFunctionOnSet(left, kept) = SumFunctionOnSet(left, Days)
  BY <1>1, <1>2, SumOfPart
<1>4. SumFunctionOnSet(left, kept) = SumFunctionOnSet(rows, kept)
  BY <1>1, <1>2, SumsAgree
<1>5. SumFunctionOnSet(rows, kept) <= SumFunctionOnSet(rows, Days)
      /\ SumFunctionOnSet(rows, kept) \in Nat
  BY <1>2, SumOfPart, SumIsNat
<1> QED
  BY <1>1, <1>3, <1>4, <1>5 DEF left, kept

\* What older rows have, one day on.
LEMMA OlderGrows ==
  ASSUME NEW rows \in [Days -> Nat], NEW t \in Days
  PROVE  /\ SumFunctionOnSet(rows, {s \in Days : s < t + 1}) =
              SumFunctionOnSet(rows, {s \in Days : s < t}) + rows[t]
         /\ SumFunctionOnSet(rows, {s \in Days : s < t}) \in Nat
<1>1. {s \in Days : s < t + 1} = {s \in Days : s < t} \cup {t}
  BY DaysAreFinite
<1>2. IsFiniteSet({s \in Days : s < t}) /\ t \notin {s \in Days : s < t}
  BY DaysAreFinite
<1>3. SumFunctionOnSet(rows, {s \in Days : s < t} \cup {t}) =
        rows[t] + SumFunctionOnSet(rows, {s \in Days : s < t})
  BY <1>2, SumAdds
<1>4. SumFunctionOnSet(rows, {s \in Days : s < t}) \in Nat
  BY <1>2, SumIsNat
<1> QED
  BY <1>1, <1>3, <1>4

\* consume_leg_pv_fifo takes what it was asked for, if there is as much.
LEMMA ConsumedRows ==
  ASSUME NEW rows \in [Days -> Nat], NEW amount \in Nat,
         amount <= SumFunctionOnSet(rows, Days)
  PROVE  /\ Consumed(rows, amount) \in [Days -> Nat]
         /\ \A t \in Days : Consumed(rows, amount)[t] <= rows[t]
         /\ SumFunctionOnSet(Consumed(rows, amount), Days) =
              SumFunctionOnSet(rows, Days) - amount
<1> DEFINE Older(t) == SumFunctionOnSet(rows, {s \in Days : s < t})
           left == Consumed(rows, amount)
           Left(t) == SumFunctionOnSet(left, {s \in Days : s < t})
<1>1. ASSUME NEW t \in Days
      PROVE  /\ Older(t) \in Nat
             /\ left[t] = rows[t] - Smaller(rows[t], Larger(amount - Older(t), 0))
             /\ left[t] \in Nat /\ left[t] <= rows[t]
  <2>1. Older(t) \in Nat
    BY OlderGrows
  <2>2. left[t] = rows[t] - Smaller(rows[t], Larger(amount - Older(t), 0))
    BY DEF Consumed
  <2> HIDE DEF Older, left
  <2> QED
    BY <2>1, <2>2 DEF Smaller, Larger
<1>2. left \in [Days -> Nat]
  BY <1>1 DEF Consumed
<1> DEFINE Good == {n \in Nat : n <= LastDay + 1 => Left(n) = Older(n) - Smaller(amount, Older(n))}
<1>3. 0 \in Good
  <2>1. {s \in Days : s < 0} = {}
    BY DaysAreFinite
  <2>2. Older(0) = 0 /\ Left(0) = 0
    BY <2>1, SumOfNothing
  <2> QED
    BY <2>2 DEF Smaller
<1>4. ASSUME NEW n \in Good PROVE n + 1 \in Good
  <2> SUFFICES ASSUME n + 1 <= LastDay + 1
               PROVE  Left(n + 1) = Older(n + 1) - Smaller(amount, Older(n + 1))
    OBVIOUS
  <2>1. n \in Days
    BY PvAssumption DEF Days
  <2>2. Left(n) = Older(n) - Smaller(amount, Older(n))
    BY <2>1, PvAssumption DEF Days
  <2>3. Older(n + 1) = Older(n) + rows[n] /\ Left(n + 1) = Left(n) + left[n]
    BY <1>2, <2>1, OlderGrows
  <2>4. Older(n) \in Nat /\ rows[n] \in Nat
        /\ left[n] = rows[n] - Smaller(rows[n], Larger(amount - Older(n), 0))
    BY <1>1, <2>1
  <2> HIDE DEF Older, Left, left
  <2> QED
    BY <2>2, <2>3, <2>4 DEF Smaller, Larger
<1>5. LastDay + 1 \in Good
  <2>1. Good \in SUBSET Nat /\ LastDay + 1 \in Nat
    BY PvAssumption
  <2> HIDE DEF Good
  <2> QED
    BY <1>3, <1>4, <2>1, ReachesAll
<1>6. {s \in Days : s < LastDay + 1} = Days
  BY PvAssumption DEF Days
<1>7. SumFunctionOnSet(left, Days) =
        SumFunctionOnSet(rows, Days) - Smaller(amount, SumFunctionOnSet(rows, Days))
  <2>1. LastDay + 1 \in Nat /\ LastDay + 1 <= LastDay + 1
    BY DaysAreFinite
  <2>2. Left(LastDay + 1) = Older(LastDay + 1) - Smaller(amount, Older(LastDay + 1))
    BY <1>5, <2>1
  <2> QED
    BY <1>6, <2>2
<1> QED
  BY <1>1, <1>2, <1>7 DEF Smaller

-----------------------------------------------------------------------------
(* The arithmetic of a bonus.                                               *)

LEMMA DivBounds ==
  ASSUME NEW a \in Nat, NEW b \in Nat \ {0}
  PROVE  /\ a \div b \in Nat /\ (a \div b) * b <= a /\ a < (a \div b) * b + b
OBVIOUS

\* Rounding half up is off by half a pesewa at the most.
LEMMA PerMilleBounds ==
  ASSUME NEW amount \in Nat, NEW rate \in Nat
  PROVE  /\ PerMille(amount, rate) \in Nat
         /\ 1000 * PerMille(amount, rate) <= amount * rate + 500
         /\ amount * rate + 500 < 1000 * PerMille(amount, rate) + 1000
<1>1. amount * rate + 500 \in Nat
  OBVIOUS
<1> QED
  BY <1>1, DivBounds DEF PerMille

\* A product of nothing negative is not.
LEMMA Product ==
  ASSUME NEW a \in Nat, NEW b \in Nat
  PROVE  a * b \in Nat
OBVIOUS

\* What a share of the weak leg is worth, if c of the raw bonus r is paid.
LEMMA ShareIsWorth ==
  ASSUME NEW weak \in Nat, NEW rate \in Nat, NEW r \in Nat, NEW c \in Nat, c < r,
         10 * r <= weak * rate + 5, weak * rate <= 10 * r + 5,
         NEW pv \in Nat, pv * r <= weak * c, weak * c < pv * r + r
  PROVE  /\ pv <= weak
         /\ 10 * c >= rate * pv - 5
         /\ 10 * c <= rate * (pv + 1) + 5
<1>1. pv <= weak
  <2> SUFFICES ASSUME pv >= weak + 1 PROVE FALSE
    OBVIOUS
  <2>1. pv * r >= (weak + 1) * r
    OBVIOUS
  <2>2. (weak + 1) * r = weak * r + r /\ weak * r \in Nat
    OBVIOUS
  <2>3. weak * c <= weak * r
    OBVIOUS
  <2> QED
    BY <2>1, <2>2, <2>3
<1>2. 10 * c >= rate * pv - 5
  <2> SUFFICES ASSUME rate * pv - 5 - 10 * c >= 1 PROVE FALSE
    OBVIOUS
  <2>1. (rate * pv - 5 - 10 * c) * r >= r
    OBVIOUS
  <2>2. rate * (pv * r) <= rate * (weak * c)
    OBVIOUS
  <2>3. (weak * rate) * c <= (10 * r + 5) * c
    OBVIOUS
  <2>4. (10 * r + 5) * c = 10 * (r * c) + 5 * c
    OBVIOUS
  <2>5. (rate * pv - 5 - 10 * c) * r = rate * (pv * r) - 5 * r - 10 * (r * c)
    OBVIOUS
  <2>6. rate * (weak * c) = (weak * rate) * c
    OBVIOUS
  <2> QED
    BY <2>1, <2>2, <2>3, <2>4, <2>5, <2>6
<1>3. 10 * c <= rate * (pv + 1) + 5
  <2> SUFFICES ASSUME 10 * c - rate * (pv + 1) - 5 >= 1 PROVE FALSE
    OBVIOUS
  <2>1. (10 * c - rate * (pv + 1) - 5) * r >= r
    OBVIOUS
  <2>2. rate * (weak * c) <= rate * (pv * r + r)
    OBVIOUS
  <2>3. 10 * r * c <= (weak * rate + 5) * c
    OBVIOUS
  <2>4. (weak * rate + 5) * c = rate * (weak * c) + 5 * c
    OBVIOUS
  <2>5. (10 * c - rate * (pv + 1) - 5) * r = 10 * r * c - rate * (pv * r + r) - 5 * r
    OBVIOUS
  <2> QED
    BY <2>1, <2>2, <2>3, <2>4, <2>5
<1> QED
  BY <1>1, <1>2, <1>3

-----------------------------------------------------------------------------
(* What a cycle computes.                                                   *)

\* The rows of a leg, and what is left of them on the day of a cycle.
LEMMA LegFacts ==
  ASSUME TypeOK, NEW d \in Distributors, NEW leg \in Legs, NEW at \in Days
  PROVE  /\ bucket[d][leg] \in [Days -> Nat]
         /\ Expired(bucket[d][leg], at) \in [Days -> Nat]
         /\ \A t \in Days : Expired(bucket[d][leg], at)[t] <= bucket[d][leg][t]
         /\ SumLegPv(d, leg, at) \in Nat
         /\ LivePv(d, leg) \in Nat
         /\ SumLegPv(d, leg, at) <= LivePv(d, leg)
         /\ SumFunctionOnSet(Expired(bucket[d][leg], at), Days) = SumLegPv(d, leg, at)
<1>1. bucket[d][leg] \in [Days -> Nat]
  BY DEF TypeOK, PvTypeOK
<1>2. LivePv(d, leg) \in Nat
  <2>1. \A t \in Days : bucket[d][leg][t] \in Nat
    BY <1>1
  <2> QED
    BY <2>1, DaysAreFinite, SumIsNat DEF LivePv
<1> QED
  BY <1>1, <1>2, ExpiredRows DEF SumLegPv, LivePv

LEMMA RowsSum ==
  ASSUME NEW rows \in SUBSET Payments, IsFiniteSet(rows)
  PROVE  /\ Total(rows) \in Nat
         /\ SumFunctionOnSet([x \in rows |-> x.pv], rows) \in Nat
         /\ Cardinality(rows) \in Nat
<1>1. \A x \in rows : [y \in rows |-> y.amount][x] \in Nat /\ [y \in rows |-> y.pv][x] \in Nat
  BY DEF Payments
<1> QED
  BY <1>1, SumIsNat, FS_CardinalityType DEF Total

\* A payment more.
LEMMA RowsGrow ==
  ASSUME NEW rows \in SUBSET Payments, IsFiniteSet(rows), NEW x \in Payments, x \notin rows
  PROVE  /\ Total(rows \cup {x}) = Total(rows) + x.amount
         /\ SumFunctionOnSet([y \in rows \cup {x} |-> y.pv], rows \cup {x}) =
              SumFunctionOnSet([y \in rows |-> y.pv], rows) + x.pv
         /\ Cardinality(rows \cup {x}) = Cardinality(rows) + 1
         /\ IsFiniteSet(rows \cup {x})
<1> DEFINE f == [y \in rows |-> y.amount]
           g == [y \in rows \cup {x} |-> y.amount]
           h == [y \in rows |-> y.pv]
           k == [y \in rows \cup {x} |-> y.pv]
<1>1. /\ \A y \in rows : f[y] = g[y] /\ h[y] = k[y]
      /\ \A y \in rows \cup {x} : g[y] \in Int /\ k[y] \in Int
      /\ g[x] = x.amount /\ k[x] = x.pv
  BY DEF Payments
<1> HIDE DEF f, g, h, k
<1>2. SumFunctionOnSet(g, rows \cup {x}) = SumFunctionOnSet(f, rows) + g[x]
  BY <1>1, SumGrows
<1>3. SumFunctionOnSet(k, rows \cup {x}) = SumFunctionOnSet(h, rows) + k[x]
  BY <1>1, SumGrows
<1>4. Cardinality(rows \cup {x}) = Cardinality(rows) + 1 /\ IsFiniteSet(rows \cup {x})
  BY FS_AddElement
<1> QED
  BY <1>1, <1>2, <1>3, <1>4 DEF f, g, h, k, Total

\* Fewer payments are no more money.
LEMMA FewerRows ==
  ASSUME NEW rows \in SUBSET Payments, IsFiniteSet(rows), NEW part \in SUBSET rows
  PROVE  Total(part) <= Total(rows) /\ Total(part) \in Nat
<1> DEFINE f == [y \in rows |-> y.amount]
           g == [y \in part |-> y.amount]
<1>1. /\ \A y \in part : f[y] = g[y]
      /\ \A y \in rows : f[y] \in Nat
      /\ \A y \in part : g[y] \in Nat
  BY DEF Payments
<1>2. IsFiniteSet(part)
  BY FS_Subset
<1> HIDE DEF f, g
<1>3. SumFunctionOnSet(f, part) = SumFunctionOnSet(g, part)
  BY <1>1, <1>2, SumsAgree
<1>4. SumFunctionOnSet(f, part) <= SumFunctionOnSet(f, rows)
  BY <1>1, SumOfPart
<1>5. SumFunctionOnSet(g, part) \in Nat
  BY <1>1, <1>2, SumIsNat
<1> QED
  BY <1>3, <1>4, <1>5 DEF f, g, Total

\* calculate_binary_bonus pays the rate, but for half a pesewa.
LEMMA RawBounds ==
  ASSUME NEW pv \in Nat
  PROVE  /\ RawBonus(pv) \in Nat
         /\ 10 * RawBonus(pv) <= pv * Rate + 5
         /\ pv * Rate <= 10 * RawBonus(pv) + 5
<1>1. 100 * pv \in Nat /\ Rate \in Nat /\ pv * Rate \in Nat
  BY RateAssumption, Product
<1>2. (100 * pv) * Rate = 100 * (pv * Rate)
  BY <1>1
<1> DEFINE raw == PerMille(100 * pv, Rate)
<1>3. raw \in Nat /\ 1000 * raw <= (100 * pv) * Rate + 500
      /\ (100 * pv) * Rate + 500 < 1000 * raw + 1000
  BY <1>1, PerMilleBounds
<1>4. PICK n \in Nat : n = pv * Rate
  BY <1>1
<1> HIDE DEF raw
<1>5. 1000 * raw <= 100 * n + 500 /\ 100 * n + 500 < 1000 * raw + 1000
  BY <1>2, <1>3, <1>4
<1>6. 10 * raw <= n + 5 /\ n <= 10 * raw + 5
  BY <1>3, <1>5
<1> QED
  BY <1>3, <1>4, <1>6 DEF raw, RawBonus

LEMMA BinaryFacts ==
  ASSUME TypeOK, IsFiniteSet(payments), NEW d \in Distributors, NEW at \in Days
  PROVE  /\ WeakLegPv(d, at) \in Nat
         /\ \A leg \in Legs : WeakLegPv(d, at) <= SumLegPv(d, leg, at)
         /\ PaidThisWeek(d, at) \in Nat
         /\ CappedBonus(d, at) \in Nat
         /\ CappedBonus(d, at) > 0 => CappedBonus(d, at) + PaidThisWeek(d, at) <= Cap
         /\ PvToConsume(d, at) \in Nat
         /\ PvToConsume(d, at) <= WeakLegPv(d, at)
         /\ 10 * CappedBonus(d, at) >= Rate * PvToConsume(d, at) - 5
         /\ 10 * CappedBonus(d, at) <= Rate * (PvToConsume(d, at) + 1) + 5
<1>1. SumLegPv(d, "left", at) \in Nat /\ SumLegPv(d, "right", at) \in Nat
  BY LegFacts DEF Legs
<1>2. WeakLegPv(d, at) \in Nat /\ \A leg \in Legs : WeakLegPv(d, at) <= SumLegPv(d, leg, at)
  BY <1>1 DEF WeakLegPv, Smaller, Legs
<1>3. PaidThisWeek(d, at) \in Nat
  <2>1. BinaryBonuses(d) \in SUBSET Payments /\ IsFiniteSet(BinaryBonuses(d))
    BY FS_Subset DEF BinaryBonuses, TypeOK
  <2>2. {x \in BinaryBonuses(d) : x.day >= at - Week} \in SUBSET BinaryBonuses(d)
    OBVIOUS
  <2> QED
    BY <2>1, <2>2, FewerRows DEF PaidThisWeek
<1> DEFINE raw == RawBonus(WeakLegPv(d, at))
           paid == CappedBonus(d, at)
           weak == WeakLegPv(d, at)
           spent == PvToConsume(d, at)
<1>4. raw \in Nat /\ 10 * raw <= weak * Rate + 5 /\ weak * Rate <= 10 * raw + 5
  BY <1>2, RawBounds
<1>5. paid \in Nat /\ paid <= raw /\ (paid > 0 => paid + PaidThisWeek(d, at) <= Cap)
  <2>1. paid = Smaller(raw, Larger(Cap - PaidThisWeek(d, at), 0))
    BY DEF CappedBonus
  <2> HIDE DEF raw, paid
  <2> QED
    BY <1>3, <1>4, <2>1, RateAssumption DEF Smaller, Larger
<1>6. spent = IF paid >= raw THEN weak ELSE (weak * paid) \div raw
  BY DEF PvToConsume
<1> HIDE DEF raw, paid, weak, spent
<1>7. Rate \in Nat /\ weak \in Nat
  BY <1>2, RateAssumption DEF weak
<1>8. CASE paid >= raw
  <2>1. spent = weak /\ paid = raw
    BY <1>4, <1>5, <1>6, <1>8
  <2>2. weak * Rate = Rate * weak /\ Rate * (weak + 1) = weak * Rate + Rate /\ weak * Rate \in Nat
    BY <1>7
  <2>3. 10 * paid >= Rate * spent - 5 /\ 10 * paid <= Rate * (spent + 1) + 5
    BY <1>4, <1>7, <2>1, <2>2
  <2> QED
    BY <1>2, <1>3, <1>5, <1>7, <2>1, <2>3 DEF paid, weak, spent
<1>9. CASE ~(paid >= raw)
  <2>1. paid < raw /\ raw \in Nat \ {0} /\ weak * paid \in Nat
    BY <1>4, <1>5, <1>7, <1>9, Product
  <2>2. spent = (weak * paid) \div raw
    BY <1>6, <1>9
  <2>3. spent \in Nat /\ spent * raw <= weak * paid /\ weak * paid < spent * raw + raw
    BY <2>1, <2>2, DivBounds
  <2>4. spent <= weak /\ 10 * paid >= Rate * spent - 5 /\ 10 * paid <= Rate * (spent + 1) + 5
    BY <1>4, <1>5, <1>7, <2>1, <2>3, ShareIsWorth
  <2> QED
    BY <1>2, <1>3, <1>5, <2>3, <2>4 DEF paid, weak, spent
<1> QED
  BY <1>8, <1>9

LEMMA MatchingFacts ==
  ASSUME TypeOK, IsFiniteSet(payments), NEW d \in Distributors, NEW at \in Days
  PROVE  MatchingBonus(d, at) \in Nat
<1>1. DownlineBonuses(d, at) \in SUBSET Payments /\ IsFiniteSet(DownlineBonuses(d, at))
  BY FS_Subset DEF DownlineBonuses, TypeOK
<1>2. Total(DownlineBonuses(d, at)) \in Nat
  BY <1>1, RowsSum
<1>3. PICK n \in Nat : n = Total(DownlineBonuses(d, at))
  BY <1>2
<1>4. MatchingBonus(d, at) = PerMille(n, MatchRate)
  BY <1>3 DEF MatchingBonus
<1>5. MatchRate \in Nat
  BY RateAssumption
<1> QED
  BY <1>4, <1>5, PerMilleBounds

-----------------------------------------------------------------------------
(* What a step may do, as the proofs use it.                                *)

\* A payment is made: x is its row.
PaysOut(w, d, x) ==
  /\ w \in Workers /\ d \in Distributors
  /\ Busy(w) /\ Visit(w, d, x.amount)
  /\ x \in Payments
  /\ x.to = d /\ x.job = cycle[w].job /\ x.run = cycle[w].run /\ x.day = today
  /\ payments' = payments \cup {x}

BinaryPaid(w, d, x) ==
  /\ PaysOut(w, d, x)
  /\ cycle[w].job = "binary"
  /\ x.amount = CappedBonus(d, cycle[w].at)
  /\ x.pv = PvToConsume(d, cycle[w].at)
  /\ x.of = {}
  /\ SpendPv(d, cycle[w].at, x.pv)

MatchingPaid(w, d, x) ==
  /\ PaysOut(w, d, x)
  /\ cycle[w].job = "matching"
  /\ x.of = {<<b.to, b.run>> : b \in DownlineBonuses(d, cycle[w].at)}
  /\ UNCHANGED bucket

\* The visit of a distributor who gets nothing; PV may expire.
PaysNothing(w, d) ==
  /\ w \in Workers /\ d \in Distributors
  /\ Busy(w) /\ Visit(w, d, 0)
  /\ UNCHANGED payments
  /\ \/ UNCHANGED bucket
     \/ bucket' = [bucket EXCEPT ![d] =
                     [leg \in Legs |-> Expired(bucket[d][leg], cycle[w].at)]]

\* A cycle is over, with or without its record.
Ends(w) ==
  /\ w \in Workers /\ Busy(w)
  /\ cycle' = [cycle EXCEPT ![w] = Idle]
  /\ \/ UNCHANGED audit
     \/ audit' = audit \cup AuditRows(w) /\ cycle[w].queue = {}
  /\ UNCHANGED <<today, pvVars, payments, scheduleVars>>

\* Only the clock, the locks and the schedule.
Elsewhere ==
  /\ UNCHANGED <<pvVars, payments, cycle, audit, every>>
  /\ UNCHANGED today \/ (today < LastDay /\ today' = today + 1)

LEMMA BusyFacts ==
  ASSUME TypeOK, RunsAreFresh, NEW w \in Workers, Busy(w)
  PROVE  /\ cycle[w] \in Cycles /\ cycle[w].at \in Days /\ cycle[w].total \in Nat
         /\ cycle[w].job \in Jobs /\ cycle[w].run \in RunNames
         /\ cycle[w].queue \in SUBSET Distributors
         /\ cycle[w].run[1] = cycle[w].job /\ cycle[w].run[2] = w
BY DEF TypeOK, RunsAreFresh, Busy, Cycles

\* Nobody waits for a worker that is doing nothing.
LEMMA VisitsBusy ==
  ASSUME TypeOK, NEW w \in Workers, NEW d, NEW amount, Visit(w, d, amount)
  PROVE  Busy(w)
BY DEF TypeOK, Visit, Idle

LEMMA PaysOnce ==
  ASSUME RunsAreFresh, NEW w, NEW d, NEW x, PaysOut(w, d, x)
  PROVE  x \notin payments
BY DEF RunsAreFresh, PaysOut, Visit

\* The record that Pay writes.
LEMMA PaidRow ==
  ASSUME TypeOK, RunsAreFresh, NEW w \in Workers, Busy(w), NEW d \in Distributors,
         NEW amount \in Nat \ {0}, NEW pv \in Nat, NEW of \in SUBSET payments
  PROVE  \E x \in Payments :
           /\ x.to = d /\ x.job = cycle[w].job /\ x.run = cycle[w].run /\ x.day = today
           /\ x.amount = amount /\ x.pv = pv /\ x.of = {<<b.to, b.run>> : b \in of}
           /\ Pay(w, d, amount, pv, of) => payments' = payments \cup {x}
<1> DEFINE x == [to |-> d, job |-> cycle[w].job, run |-> cycle[w].run, amount |-> amount,
                 day |-> today, pv |-> pv, of |-> {<<b.to, b.run>> : b \in of}]
<1>1. {<<b.to, b.run>> : b \in of} \in SUBSET (Distributors \X RunNames)
  BY DEF TypeOK, Payments
<1>2. x \in Payments
  BY <1>1, BusyFacts DEF TypeOK, PvTypeOK, Payments
<1> QED
  BY <1>2 DEF Pay

LEMMA PayBinaryPays ==
  ASSUME TypeOK, RowsAreFinite, RunsAreFresh, NEW w \in Workers, NEW d \in Distributors,
         PayBinary(w, d)
  PROVE  \E x \in Payments : BinaryPaid(w, d, x)
<1>1. Busy(w) /\ cycle[w].at \in Days
  BY VisitsBusy, BusyFacts DEF PayBinary
<1> DEFINE amount == CappedBonus(d, cycle[w].at)
           pv == PvToConsume(d, cycle[w].at)
<1>2. amount \in Nat \ {0} /\ pv \in Nat
  BY <1>1, BinaryFacts DEF PayBinary, OwesBinary, RowsAreFinite
<1>3. Pay(w, d, amount, pv, {}) /\ Visit(w, d, amount) /\ SpendPv(d, cycle[w].at, pv)
      /\ cycle[w].job = "binary"
  BY DEF PayBinary
<1> HIDE DEF amount, pv
<1>4. PICK x \in Payments :
           /\ x.to = d /\ x.job = cycle[w].job /\ x.run = cycle[w].run /\ x.day = today
           /\ x.amount = amount /\ x.pv = pv /\ x.of = {<<b.to, b.run>> : b \in {}}
           /\ payments' = payments \cup {x}
  BY <1>1, <1>2, <1>3, PaidRow
<1> QED
  BY <1>1, <1>3, <1>4 DEF BinaryPaid, PaysOut, amount, pv

LEMMA PayMatchingPays ==
  ASSUME TypeOK, RowsAreFinite, RunsAreFresh, NEW w \in Workers, NEW d \in Distributors,
         PayMatching(w, d)
  PROVE  \E x \in Payments : MatchingPaid(w, d, x)
<1>1. Busy(w) /\ cycle[w].at \in Days
  BY VisitsBusy, BusyFacts DEF PayMatching
<1> DEFINE amount == MatchingBonus(d, cycle[w].at)
           of == DownlineBonuses(d, cycle[w].at)
<1>2. amount \in Nat \ {0} /\ of \in SUBSET payments
  BY <1>1, MatchingFacts DEF PayMatching, OwesMatching, RowsAreFinite, DownlineBonuses
<1>3. Pay(w, d, amount, 0, of) /\ Visit(w, d, amount) /\ UNCHANGED bucket
      /\ cycle[w].job = "matching"
  BY DEF PayMatching
<1> HIDE DEF amount, of
<1>4. PICK x \in Payments :
           /\ x.to = d /\ x.job = cycle[w].job /\ x.run = cycle[w].run /\ x.day = today
           /\ x.amount = amount /\ x.pv = 0 /\ x.of = {<<b.to, b.run>> : b \in of}
           /\ payments' = payments \cup {x}
  BY <1>1, <1>2, <1>3, PaidRow
<1> QED
  BY <1>1, <1>3, <1>4 DEF MatchingPaid, PaysOut, amount, of

\* Every step is one of these.
LEMMA StepKinds ==
  ASSUME TypeOK, RowsAreFinite, RunsAreFresh, [Next]_vars
  PROVE  \/ \E p \in Purchases : Purchase(p) /\ UNCHANGED otherVars
         \/ \E p \in Purchases : CancelPurchase(p) /\ UNCHANGED otherVars
         \/ \E w \in Workers : \E j \in Jobs : StartCycle(w, j)
         \/ \E w \in Workers : \E d \in Distributors : \E x \in Payments : BinaryPaid(w, d, x)
         \/ \E w \in Workers : \E d \in Distributors : \E x \in Payments : MatchingPaid(w, d, x)
         \/ \E w \in Workers : \E d \in Distributors : PaysNothing(w, d)
         \/ \E w \in Workers : Ends(w)
         \/ Elsewhere
<1> USE JobAssumption
<1>1. CASE \E p \in Purchases : Purchase(p) /\ UNCHANGED otherVars
  BY <1>1
<1>2. CASE \E p \in Purchases : CancelPurchase(p) /\ UNCHANGED otherVars
  BY <1>2
<1>3. CASE \E w \in Workers : \E j \in Jobs : StartCycle(w, j)
  BY <1>3
<1>4. ASSUME NEW w \in Workers, NEW d \in Distributors, PayBinary(w, d)
      PROVE  \E x \in Payments : BinaryPaid(w, d, x)
  BY <1>4, PayBinaryPays
<1>5. ASSUME NEW w \in Workers, NEW d \in Distributors, PayMatching(w, d)
      PROVE  \E x \in Payments : MatchingPaid(w, d, x)
  BY <1>5, PayMatchingPays
<1>6. ASSUME NEW w \in Workers, NEW d \in Distributors,
             SkipBinary(w, d) \/ SkipMatching(w, d) \/ FailDistributor(w, d)
      PROVE  PaysNothing(w, d)
  <2>1. CASE SkipBinary(w, d)
    BY <2>1, VisitsBusy DEF SkipBinary, PaysNothing
  <2>2. CASE SkipMatching(w, d)
    BY <2>2, VisitsBusy DEF SkipMatching, PaysNothing
  <2>3. CASE FailDistributor(w, d)
    BY <2>3 DEF FailDistributor, PaysNothing
  <2> QED
    BY <1>6, <2>1, <2>2, <2>3
<1>7. ASSUME NEW w \in Workers, FinishCycle(w) \/ AbortCycle(w) \/ Crash(w)
      PROVE  Ends(w)
  BY <1>7 DEF FinishCycle, AbortCycle, Crash, Release, Ends
<1>8. CASE Fire \/ \E w \in Workers : \E j \in Jobs : SkipTrigger(w, j)
  BY <1>8 DEF Fire, SkipTrigger, Elsewhere
<1>9. CASE \E j \in Jobs : LockLapses(j)
  BY <1>9 DEF LockLapses, Elsewhere, scheduleVars
<1>10. CASE NextDay
  BY <1>10 DEF NextDay, Elsewhere, scheduleVars
<1>11. CASE \E n \in Intervals : SetInterval(n)
  BY <1>11 DEF SetInterval, Elsewhere
<1>12. CASE UNCHANGED vars
  BY <1>12 DEF vars, scheduleVars, Elsewhere
<1> QED
  BY <1>1, <1>2, <1>3, <1>4, <1>5, <1>6, <1>7, <1>8, <1>9, <1>10, <1>11, <1>12
     DEF Next, ProcessNext

-----------------------------------------------------------------------------
(* Types.                                                                   *)

LEMMA MonthsOfDays == \A t \in Days : MonthOf(t) \in Months
BY DEF Months

LEMMA Credits ==
  \A p \in Purchases :
    /\ Pv[p] \in Nat \ {0} /\ Buyer[p] \in Distributors
    /\ \A d \in Distributors, leg \in Legs :
       /\ CreditLeg(p, d, leg) = IF Feeds(p, d, leg) THEN Pv[p] ELSE 0
       /\ CreditLeg(p, d, leg) \in Nat
BY PvAssumption DEF CreditLeg

LEMMA LessFacts ==
  \A pv, amount \in Nat :
    Less(pv, amount) \in Nat /\ Less(pv, amount) <= pv
    /\ (pv >= amount => Less(pv, amount) = pv - amount)
BY DEF Less

\* The rows of a purchase.
LEMMA PurchaseRows ==
  ASSUME PvTypeOK, NEW p \in Purchases, Purchase(p)
  PROVE  /\ PvTypeOK'
         /\ \A d \in Distributors, leg \in Legs :
              /\ pvLedger'[d][leg] = pvLedger[d][leg] + CreditLeg(p, d, leg)
              /\ \A t \in Days : bucket'[d][leg][t] =
                   bucket[d][leg][t] + IF t = today THEN CreditLeg(p, d, leg) ELSE 0
         /\ \A d \in Distributors, m \in Months : personal'[d][m] =
              personal[d][m] + IF d = Buyer[p] /\ m = MonthOf(today) THEN Pv[p] ELSE 0
         /\ purchase'[p].state = "paid" /\ purchase'[p].day = today
         /\ \A q \in Purchases : q # p => purchase'[q] = purchase[q]
         /\ purchase[p].state = "none"
         /\ today' = today
<1>1. today \in Days /\ MonthOf(today) \in Months /\ Buyer[p] \in Distributors
      /\ today' = today /\ purchase[p].state = "none"
  <2>1. today' = today /\ purchase[p].state = "none"
    BY DEF Purchase
  <2>2. today \in Days /\ Buyer[p] \in Distributors
    BY Credits DEF PvTypeOK
  <2>3. MonthOf(today) \in Months
    BY <2>2, MonthsOfDays
  <2> QED
    BY <2>1, <2>2, <2>3
<1>2. purchase' \in [Purchases -> [state : {"none", "paid", "cancelled"}, day : Days]]
      /\ purchase'[p].state = "paid" /\ purchase'[p].day = today
      /\ \A q \in Purchases : q # p => purchase'[q] = purchase[q]
  BY <1>1 DEF PvTypeOK, Purchase
<1>3. pvLedger' \in [Distributors -> [Legs -> Nat]]
      /\ \A d \in Distributors, leg \in Legs :
           pvLedger'[d][leg] = pvLedger[d][leg] + CreditLeg(p, d, leg)
  BY Credits DEF PvTypeOK, Purchase
<1>4. ASSUME NEW d \in Distributors, NEW leg \in Legs
      PROVE  /\ bucket'[d][leg] = [bucket[d][leg] EXCEPT ![today] = @ + CreditLeg(p, d, leg)]
             /\ bucket'[d][leg] \in [Days -> Nat]
             /\ \A t \in Days : bucket'[d][leg][t] =
                  bucket[d][leg][t] + IF t = today THEN CreditLeg(p, d, leg) ELSE 0
  <2>1. bucket[d][leg] \in [Days -> Nat] /\ CreditLeg(p, d, leg) \in Nat
    BY Credits DEF PvTypeOK
  <2>2. bucket'[d][leg] = [bucket[d][leg] EXCEPT ![today] = @ + CreditLeg(p, d, leg)]
    BY DEF Purchase
  <2> QED
    BY <1>1, <2>1, <2>2
<1>5. bucket' \in [Distributors -> [Legs -> [Days -> Nat]]]
  <2>1. bucket' = [d \in Distributors |-> [leg \in Legs |->
                     [bucket[d][leg] EXCEPT ![today] = @ + CreditLeg(p, d, leg)]]]
    BY DEF Purchase
  <2>2. \A d \in Distributors, leg \in Legs :
          [bucket[d][leg] EXCEPT ![today] = @ + CreditLeg(p, d, leg)] \in [Days -> Nat]
    BY <1>4
  <2> QED
    BY <2>1, <2>2
<1>6. personal' \in [Distributors -> [Months -> Nat]]
      /\ \A d \in Distributors, m \in Months : personal'[d][m] =
           personal[d][m] + IF d = Buyer[p] /\ m = MonthOf(today) THEN Pv[p] ELSE 0
  <2>1. personal' = [personal EXCEPT ![Buyer[p]] =
          [personal[Buyer[p]] EXCEPT ![MonthOf(today)] = @ + Pv[p]]]
    BY DEF Purchase, PvTypeOK
  <2>2. personal \in [Distributors -> [Months -> Nat]] /\ Pv[p] \in Nat
    BY Credits DEF PvTypeOK
  <2>3. personal[Buyer[p]][MonthOf(today)] + Pv[p] \in Nat
    BY <1>1, <2>2
  <2> QED
    BY <1>1, <2>1, <2>2, <2>3
<1>7. PvTypeOK'
  BY <1>1, <1>2, <1>3, <1>5, <1>6 DEF PvTypeOK
<1>8. \A d \in Distributors, leg \in Legs : \A t \in Days : bucket'[d][leg][t] =
        bucket[d][leg][t] + IF t = today THEN CreditLeg(p, d, leg) ELSE 0
  <2> SUFFICES ASSUME NEW d \in Distributors, NEW leg \in Legs
               PROVE  \A t \in Days : bucket'[d][leg][t] =
                        bucket[d][leg][t] + IF t = today THEN CreditLeg(p, d, leg) ELSE 0
    OBVIOUS
  <2> QED
    BY <1>4
<1> QED
  BY <1>1, <1>2, <1>3, <1>6, <1>7, <1>8

LEMMA CancelRows ==
  ASSUME PvTypeOK, NEW p \in Purchases, CancelPurchase(p)
  PROVE  /\ PvTypeOK'
         /\ \A d \in Distributors, leg \in Legs :
              /\ pvLedger'[d][leg] = Less(pvLedger[d][leg], CreditLeg(p, d, leg))
              /\ \A t \in Days : bucket'[d][leg][t] <= bucket[d][leg][t]
              /\ ~Feeds(p, d, leg) => \A t \in Days : bucket'[d][leg][t] = bucket[d][leg][t]
         /\ \A d \in Distributors, m \in Months : personal'[d][m] =
              IF d = Buyer[p] /\ m = MonthOf(purchase[p].day)
              THEN Less(personal[d][m], Pv[p]) ELSE personal[d][m]
         /\ purchase'[p].state = "cancelled" /\ purchase'[p].day = purchase[p].day
         /\ \A q \in Purchases : q # p => purchase'[q] = purchase[q]
         /\ purchase[p].state = "paid"
         /\ today' = today
<1> DEFINE day == purchase[p].day
<1>1. day \in Days /\ MonthOf(day) \in Months /\ Buyer[p] \in Distributors
      /\ today' = today /\ purchase[p].state = "paid" /\ ReversedOn(p) = day
  <2>1. today' = today /\ purchase[p].state = "paid"
    BY DEF CancelPurchase
  <2>2. day \in Days /\ Buyer[p] \in Distributors /\ ReversedOn(p) = day
    BY Credits DEF PvTypeOK, ReversedOn
  <2>3. MonthOf(day) \in Months
    BY <2>2, MonthsOfDays
  <2> QED
    BY <2>1, <2>2, <2>3
<1>2. purchase' \in [Purchases -> [state : {"none", "paid", "cancelled"}, day : Days]]
      /\ purchase'[p].state = "cancelled" /\ purchase'[p].day = purchase[p].day
      /\ \A q \in Purchases : q # p => purchase'[q] = purchase[q]
  <2>1. purchase[p] \in [state : {"none", "paid", "cancelled"}, day : Days]
    BY DEF PvTypeOK
  <2>2. purchase' = [purchase EXCEPT ![p] = [purchase[p] EXCEPT !.state = "cancelled"]]
    BY DEF CancelPurchase, PvTypeOK
  <2> QED
    BY <2>1, <2>2 DEF PvTypeOK
<1>3. pvLedger' \in [Distributors -> [Legs -> Nat]]
      /\ \A d \in Distributors, leg \in Legs :
           pvLedger'[d][leg] = Less(pvLedger[d][leg], CreditLeg(p, d, leg))
  BY Credits, LessFacts DEF PvTypeOK, CancelPurchase
<1>4. ASSUME NEW d \in Distributors, NEW leg \in Legs
      PROVE  /\ bucket'[d][leg] = [bucket[d][leg] EXCEPT ![day] = Less(@, CreditLeg(p, d, leg))]
             /\ bucket'[d][leg] \in [Days -> Nat]
             /\ \A t \in Days : bucket'[d][leg][t] <= bucket[d][leg][t]
             /\ ~Feeds(p, d, leg) => \A t \in Days : bucket'[d][leg][t] = bucket[d][leg][t]
  <2>1. bucket[d][leg] \in [Days -> Nat] /\ CreditLeg(p, d, leg) \in Nat
    BY Credits DEF PvTypeOK
  <2>2. bucket'[d][leg] = [bucket[d][leg] EXCEPT ![day] = Less(@, CreditLeg(p, d, leg))]
    BY <1>1 DEF CancelPurchase
  <2>3. Less(bucket[d][leg][day], CreditLeg(p, d, leg)) \in Nat
        /\ Less(bucket[d][leg][day], CreditLeg(p, d, leg)) <= bucket[d][leg][day]
        /\ (~Feeds(p, d, leg) => Less(bucket[d][leg][day], CreditLeg(p, d, leg)) = bucket[d][leg][day])
    <3>1. bucket[d][leg][day] \in Nat
      BY <1>1, <2>1
    <3>2. ~Feeds(p, d, leg) => CreditLeg(p, d, leg) = 0
      BY DEF CreditLeg
    <3>3. PICK n \in Nat, c \in Nat : n = bucket[d][leg][day] /\ c = CreditLeg(p, d, leg)
      BY <2>1, <3>1
    <3>4. Less(n, c) \in Nat /\ Less(n, c) <= n /\ (c = 0 => Less(n, c) = n)
      BY DEF Less
    <3> QED
      BY <3>2, <3>3, <3>4
  <2> QED
    BY <1>1, <2>1, <2>2, <2>3
<1>5. bucket' \in [Distributors -> [Legs -> [Days -> Nat]]]
  <2>1. bucket' = [d \in Distributors |-> [leg \in Legs |->
                     [bucket[d][leg] EXCEPT ![day] = Less(@, CreditLeg(p, d, leg))]]]
    BY <1>1 DEF CancelPurchase
  <2>2. \A d \in Distributors, leg \in Legs :
          [bucket[d][leg] EXCEPT ![day] = Less(@, CreditLeg(p, d, leg))] \in [Days -> Nat]
    <3> SUFFICES ASSUME NEW d \in Distributors, NEW leg \in Legs
                 PROVE  [bucket[d][leg] EXCEPT ![day] = Less(@, CreditLeg(p, d, leg))] \in [Days -> Nat]
      OBVIOUS
    <3>1. bucket'[d][leg] = [bucket[d][leg] EXCEPT ![day] = Less(@, CreditLeg(p, d, leg))]
      BY <1>4
    <3>2. bucket'[d][leg] \in [Days -> Nat]
      BY <1>4
    <3> HIDE DEF day
    <3> QED
      BY <3>1, <3>2
  <2> QED
    BY <2>1, <2>2
<1>6. personal' \in [Distributors -> [Months -> Nat]]
      /\ \A d \in Distributors, m \in Months : personal'[d][m] =
              IF d = Buyer[p] /\ m = MonthOf(day)
              THEN Less(personal[d][m], Pv[p]) ELSE personal[d][m]
  <2>1. personal' = [personal EXCEPT ![Buyer[p]] =
          [personal[Buyer[p]] EXCEPT ![MonthOf(day)] = Less(@, Pv[p])]]
    BY <1>1 DEF CancelPurchase, PvTypeOK
  <2>2. personal \in [Distributors -> [Months -> Nat]] /\ Pv[p] \in Nat
    BY Credits DEF PvTypeOK
  <2>3. personal[Buyer[p]][MonthOf(day)] \in Nat
    BY <1>1, <2>2
  <2>4. Less(personal[Buyer[p]][MonthOf(day)], Pv[p]) \in Nat
    BY <2>2, <2>3, LessFacts
  <2> HIDE DEF day
  <2> QED
    BY <1>1, <2>1, <2>2, <2>4
<1>7. PvTypeOK'
  BY <1>1, <1>2, <1>3, <1>5, <1>6 DEF PvTypeOK
<1>8. \A d \in Distributors, leg \in Legs :
        /\ \A t \in Days : bucket'[d][leg][t] <= bucket[d][leg][t]
        /\ ~Feeds(p, d, leg) => \A t \in Days : bucket'[d][leg][t] = bucket[d][leg][t]
  BY <1>4
<1> QED
  BY <1>1, <1>2, <1>3, <1>6, <1>7, <1>8

\* What a binary bonus leaves of a leg.
LEMMA SpentRows ==
  ASSUME TypeOK, RowsAreFinite, RunsAreFresh,
         NEW w, NEW d, NEW x, BinaryPaid(w, d, x)
  PROVE  /\ bucket' \in [Distributors -> [Legs -> [Days -> Nat]]]
         /\ \A leg \in Legs :
              /\ x.pv <= SumLegPv(d, leg, cycle[w].at)
              /\ SumFunctionOnSet(bucket'[d][leg], Days) = SumLegPv(d, leg, cycle[w].at) - x.pv
              /\ \A t \in Days : bucket'[d][leg][t] <= bucket[d][leg][t]
         /\ \A b \in Distributors : b # d => bucket'[b] = bucket[b]
<1> DEFINE at == cycle[w].at
<1>1. w \in Workers /\ d \in Distributors /\ x \in Payments /\ Busy(w)
      /\ x.pv = PvToConsume(d, at) /\ SpendPv(d, at, x.pv)
  BY DEF BinaryPaid, PaysOut
<1>2. at \in Days
  BY <1>1, BusyFacts
<1>3. x.pv \in Nat /\ x.pv <= WeakLegPv(d, at) /\ WeakLegPv(d, at) \in Nat
      /\ \A leg \in Legs : WeakLegPv(d, at) <= SumLegPv(d, leg, at)
  BY <1>1, <1>2, BinaryFacts DEF RowsAreFinite
<1>4. bucket' = [bucket EXCEPT ![d] = [leg \in Legs |->
                   Consumed(Expired(bucket[d][leg], at), x.pv)]]
  BY <1>1 DEF SpendPv
<1> HIDE DEF at
<1>5. ASSUME NEW leg \in Legs
      PROVE  /\ x.pv <= SumLegPv(d, leg, at)
             /\ bucket'[d][leg] \in [Days -> Nat]
             /\ SumFunctionOnSet(bucket'[d][leg], Days) = SumLegPv(d, leg, at) - x.pv
             /\ \A t \in Days : bucket'[d][leg][t] <= bucket[d][leg][t]
             /\ bucket'[d][leg] = Consumed(Expired(bucket[d][leg], at), x.pv)
  <2> DEFINE rows == Expired(bucket[d][leg], at)
  <2>1. /\ rows \in [Days -> Nat] /\ bucket[d][leg] \in [Days -> Nat]
        /\ \A t \in Days : rows[t] <= bucket[d][leg][t]
        /\ SumLegPv(d, leg, at) \in Nat
        /\ SumFunctionOnSet(rows, Days) = SumLegPv(d, leg, at)
    BY <1>1, <1>2, LegFacts
  <2>2. x.pv <= SumLegPv(d, leg, at)
    BY <1>3, <2>1
  <2>3. bucket'[d][leg] = Consumed(rows, x.pv)
    BY <1>1, <1>4 DEF TypeOK, PvTypeOK
  <2> HIDE DEF rows
  <2>4. /\ Consumed(rows, x.pv) \in [Days -> Nat]
        /\ \A t \in Days : Consumed(rows, x.pv)[t] <= rows[t]
        /\ SumFunctionOnSet(Consumed(rows, x.pv), Days) = SumFunctionOnSet(rows, Days) - x.pv
    BY <1>3, <2>1, <2>2, ConsumedRows
  <2>5. \A t \in Days : Consumed(rows, x.pv)[t] \in Nat /\ rows[t] \in Nat /\ bucket[d][leg][t] \in Nat
    BY <2>1, <2>4
  <2>6. \A t \in Days : Consumed(rows, x.pv)[t] <= bucket[d][leg][t]
    BY <2>1, <2>4, <2>5
  <2> QED
    BY <2>1, <2>2, <2>3, <2>4, <2>6 DEF rows
<1>6. bucket' \in [Distributors -> [Legs -> [Days -> Nat]]]
      /\ \A b \in Distributors : b # d => bucket'[b] = bucket[b]
  <2>1. [leg \in Legs |-> Consumed(Expired(bucket[d][leg], at), x.pv)]
          \in [Legs -> [Days -> Nat]]
    BY <1>5
  <2> QED
    BY <1>1, <1>4, <2>1 DEF TypeOK, PvTypeOK
<1> QED
  BY <1>5, <1>6 DEF at

\* What expiry leaves.
LEMMA ExpiredBuckets ==
  ASSUME TypeOK, RunsAreFresh, NEW w, NEW d, PaysNothing(w, d)
  PROVE  /\ bucket' \in [Distributors -> [Legs -> [Days -> Nat]]]
         /\ \/ UNCHANGED bucket
            \/ /\ \A leg \in Legs :
                    /\ SumFunctionOnSet(bucket'[d][leg], Days) = SumLegPv(d, leg, cycle[w].at)
                    /\ \A t \in Days : bucket'[d][leg][t] <= bucket[d][leg][t]
               /\ \A b \in Distributors : b # d => bucket'[b] = bucket[b]
<1> DEFINE at == cycle[w].at
<1>1. w \in Workers /\ d \in Distributors /\ Busy(w)
  BY DEF PaysNothing
<1>2. at \in Days
  BY <1>1, BusyFacts
<1>3. CASE UNCHANGED bucket
  BY <1>3 DEF TypeOK, PvTypeOK
<1>4. CASE bucket' = [bucket EXCEPT ![d] = [leg \in Legs |-> Expired(bucket[d][leg], at)]]
  <2> HIDE DEF at
  <2>1. ASSUME NEW leg \in Legs
        PROVE  /\ Expired(bucket[d][leg], at) \in [Days -> Nat]
               /\ bucket'[d][leg] = Expired(bucket[d][leg], at)
               /\ SumFunctionOnSet(bucket'[d][leg], Days) = SumLegPv(d, leg, at)
               /\ \A t \in Days : bucket'[d][leg][t] <= bucket[d][leg][t]
    <3>1. bucket'[d][leg] = Expired(bucket[d][leg], at)
      BY <1>1, <1>4 DEF TypeOK, PvTypeOK
    <3> QED
      BY <1>1, <1>2, <3>1, LegFacts
  <2>2. [leg \in Legs |-> Expired(bucket[d][leg], at)] \in [Legs -> [Days -> Nat]]
    BY <2>1
  <2>3. bucket' \in [Distributors -> [Legs -> [Days -> Nat]]]
        /\ \A b \in Distributors : b # d => bucket'[b] = bucket[b]
    BY <1>1, <1>4, <2>2 DEF TypeOK, PvTypeOK
  <2> QED
    BY <2>1, <2>3 DEF at
<1> QED
  BY <1>3, <1>4 DEF PaysNothing

LEMMA NamesOfRuns ==
  ASSUME TypeOK, RowsAreFinite, NEW w \in Workers, NEW j \in Jobs
  PROVE  /\ Cardinality(PaidBy(w, j)) \in Nat /\ IsFiniteSet(PaidBy(w, j))
         /\ RunName(w, j) \in RunNames
         /\ RunName(w, j)[1] = j /\ RunName(w, j)[2] = w
         /\ RunName(w, j)[3] = Cardinality(PaidBy(w, j))
<1>1. IsFiniteSet(PaidBy(w, j))
  BY FS_Subset DEF PaidBy, RowsAreFinite
<1>2. Cardinality(PaidBy(w, j)) \in Nat
  BY <1>1, FS_CardinalityType
<1> QED
  BY <1>1, <1>2 DEF RunName, RunNames

\* The worker that a visit moves on.
LEMMA VisitedCycle ==
  ASSUME TypeOK, RunsAreFresh, NEW w \in Workers, Busy(w), NEW d, NEW amount \in Nat,
         Visit(w, d, amount)
  PROVE  /\ cycle' \in [Workers -> Cycles]
         /\ cycle'[w].job = cycle[w].job /\ cycle'[w].run = cycle[w].run
         /\ cycle'[w].at = cycle[w].at
         /\ cycle'[w].queue = cycle[w].queue \ {d}
         /\ cycle'[w].total = cycle[w].total + amount
         /\ \A v \in Workers : v # w => cycle'[v] = cycle[v]
         /\ Busy(w)'
         /\ lock' \in [Jobs -> BOOLEAN]
<1>1. PICK c \in Cycles : c = cycle[w]
  BY DEF TypeOK
<1>2. PICK e \in Cycles : e = [c EXCEPT !.queue = c.queue \ {d}, !.total = c.total + amount]
  <2>1. c.queue \ {d} \in SUBSET Distributors /\ c.total + amount \in Nat
    BY <1>1 DEF Cycles
  <2>2. [c EXCEPT !.queue = c.queue \ {d}, !.total = c.total + amount] \in Cycles
    BY <1>1, <2>1 DEF Cycles
  <2> QED
    BY <2>2
<1>3. cycle' = [cycle EXCEPT ![w] = e]
  BY <1>1, <1>2 DEF Visit
<1>4. cycle' \in [Workers -> Cycles] /\ cycle'[w] = e
      /\ \A v \in Workers : v # w => cycle'[v] = cycle[v]
  BY <1>2, <1>3 DEF TypeOK
<1>5. e.job = c.job /\ e.run = c.run /\ e.at = c.at
      /\ e.queue = c.queue \ {d} /\ e.total = c.total + amount
  BY <1>1, <1>2 DEF Cycles
<1>6. lock' \in [Jobs -> BOOLEAN]
  BY BusyFacts DEF Visit, TypeOK
<1> QED
  BY <1>1, <1>4, <1>5, <1>6 DEF Busy

LEMMA IdleIsACycle == Idle \in Cycles /\ Idle.job = None /\ Idle.queue = {}
BY PvAssumption DEF Idle, Cycles, Days

LEMMA StartedCycle ==
  ASSUME TypeOK, RowsAreFinite, NEW w \in Workers, NEW j \in Jobs, StartCycle(w, j)
  PROVE  /\ cycle' \in [Workers -> Cycles]
         /\ cycle'[w].job = j /\ cycle'[w].at = today /\ cycle'[w].run = RunName(w, j)
         /\ cycle'[w].queue = IdsQuery(j) /\ cycle'[w].total = 0
         /\ \A v \in Workers : v # w => cycle'[v] = cycle[v]
         /\ Busy(w)'
         /\ UNCHANGED <<today, pvVars, payments, audit, interval>>
         /\ every' \in {interval, every}
<1> DEFINE c == [job |-> j, at |-> today, run |-> RunName(w, j),
                 queue |-> IdsQuery(j), total |-> 0]
<1>1. IdsQuery(j) \in SUBSET Distributors
  BY DEF IdsQuery
<1>2. RunName(w, j) \in RunNames /\ today \in Days
  BY NamesOfRuns DEF TypeOK, PvTypeOK
<1>3. c \in Cycles
  BY <1>1, <1>2 DEF Cycles
<1>4. cycle' = [cycle EXCEPT ![w] = c]
  BY DEF StartCycle
<1>5. /\ c.job = j /\ c.at = today /\ c.run = RunName(w, j)
      /\ c.queue = IdsQuery(j) /\ c.total = 0
      /\ j # None
  BY JobAssumption
<1> HIDE DEF c
<1>6. cycle' \in [Workers -> Cycles] /\ cycle'[w] = c
      /\ \A v \in Workers : v # w => cycle'[v] = cycle[v]
  BY <1>3, <1>4 DEF TypeOK
<1>7. Busy(w)'
  BY <1>5, <1>6 DEF Busy
<1>8. /\ UNCHANGED <<today, pvVars, payments, audit, interval>>
      /\ every' \in {interval, every}
  BY DEF StartCycle, SyncInterval
<1> QED
  BY <1>5, <1>6, <1>7, <1>8

LEMMA EndedCycle ==
  ASSUME TypeOK, NEW w \in Workers, Ends(w)
  PROVE  /\ cycle' \in [Workers -> Cycles] /\ cycle'[w] = Idle /\ ~Busy(w)'
         /\ \A v \in Workers : v # w => cycle'[v] = cycle[v]
BY IdleIsACycle DEF Ends, TypeOK, Busy

LEMMA LedgerTypesKept ==
  ASSUME TypeOK, RowsAreFinite, RunsAreFresh, [Next]_vars
  PROVE  PvTypeOK'
<1> USE DEF TypeOK
<1>1. CASE \E p \in Purchases : Purchase(p) /\ UNCHANGED otherVars
  BY <1>1, PurchaseRows
<1>2. CASE \E p \in Purchases : CancelPurchase(p) /\ UNCHANGED otherVars
  BY <1>2, CancelRows
<1>3. CASE \E w \in Workers : \E j \in Jobs : StartCycle(w, j)
  BY <1>3 DEF StartCycle, pvVars, PvTypeOK
<1>4. CASE \E w \in Workers : \E d \in Distributors : \E x \in Payments : BinaryPaid(w, d, x)
  <2>1. PICK w \in Workers, d \in Distributors, x \in Payments : BinaryPaid(w, d, x)
    BY <1>4
  <2>2. bucket' \in [Distributors -> [Legs -> [Days -> Nat]]]
    BY <2>1, SpentRows
  <2>3. UNCHANGED <<today, purchase, pvLedger, personal>>
    BY <2>1 DEF BinaryPaid, PaysOut, Visit
  <2> QED
    BY <2>2, <2>3 DEF PvTypeOK
<1>5. CASE \E w \in Workers : \E d \in Distributors : \E x \in Payments : MatchingPaid(w, d, x)
  BY <1>5 DEF MatchingPaid, PaysOut, Visit, PvTypeOK
<1>6. CASE \E w \in Workers : \E d \in Distributors : PaysNothing(w, d)
  BY <1>6, ExpiredBuckets DEF PaysNothing, Visit, PvTypeOK
<1>7. CASE \E w \in Workers : Ends(w)
  BY <1>7 DEF Ends, pvVars, PvTypeOK
<1>8. CASE Elsewhere
  <2>1. today' \in Days
    BY <1>8, PvAssumption DEF Elsewhere, PvTypeOK, Days
  <2> QED
    BY <1>8, <2>1 DEF Elsewhere, pvVars, PvTypeOK
<1> QED
  BY <1>1, <1>2, <1>3, <1>4, <1>5, <1>6, <1>7, <1>8, StepKinds

LEMMA LocksKept ==
  ASSUME TypeOK, RunsAreFresh, [Next]_vars PROVE lock' \in [Jobs -> BOOLEAN]
<1>1. ASSUME NEW w \in Workers, NEW d \in Distributors, NEW amount, Visit(w, d, amount)
      PROVE  lock' \in [Jobs -> BOOLEAN]
  BY <1>1, VisitsBusy, BusyFacts DEF Visit, TypeOK
<1>2. ASSUME NEW w \in Workers, FinishCycle(w) \/ AbortCycle(w)
      PROVE  lock' \in [Jobs -> BOOLEAN]
  BY <1>2, BusyFacts DEF FinishCycle, AbortCycle, Release, TypeOK
<1>3. ASSUME NEW w \in Workers, NEW d \in Distributors,
             PayBinary(w, d) \/ SkipBinary(w, d) \/ PayMatching(w, d) \/ SkipMatching(w, d)
             \/ FailDistributor(w, d)
      PROVE  lock' \in [Jobs -> BOOLEAN]
  BY <1>1, <1>3 DEF PayBinary, SkipBinary, PayMatching, SkipMatching, FailDistributor
<1>4. CASE (\E p \in Purchases : Purchase(p) /\ UNCHANGED otherVars)
           \/ (\E p \in Purchases : CancelPurchase(p) /\ UNCHANGED otherVars)
  BY <1>4 DEF otherVars, TypeOK
<1>5. ASSUME NEW w \in Workers, NEW j \in Jobs, StartCycle(w, j) PROVE lock' \in [Jobs -> BOOLEAN]
  BY <1>5 DEF StartCycle, TypeOK
<1>6. ASSUME Fire \/ (\E w \in Workers : \E j \in Jobs : SkipTrigger(w, j)) \/ (\E j \in Jobs : LockLapses(j))
      PROVE  lock' \in [Jobs -> BOOLEAN]
  BY <1>6 DEF Fire, SkipTrigger, LockLapses, TypeOK
<1>7. ASSUME NEW w \in Workers, Crash(w) PROVE lock' \in [Jobs -> BOOLEAN]
  BY <1>7 DEF Crash, TypeOK
<1>8. ASSUME NextDay \/ UNCHANGED vars \/ (\E n \in Intervals : SetInterval(n))
      PROVE  lock' \in [Jobs -> BOOLEAN]
  BY <1>8 DEF NextDay, vars, SetInterval, TypeOK
<1> QED
  BY <1>2, <1>3, <1>4, <1>5, <1>6, <1>7, <1>8 DEF Next, ProcessNext

ScheduleTypes ==
  /\ interval \in Intervals /\ every \in Intervals
  /\ fired \in Days /\ waiting \in Nat /\ faults \in 0..MaxFaults

LEMMA ScheduleKept ==
  ASSUME TypeOK, [Next]_vars
  PROVE  ScheduleTypes'
<1> USE DEF ScheduleTypes
<1>1. ASSUME Fault PROVE faults' \in 0..MaxFaults
  BY <1>1, FaultAssumption DEF Fault, TypeOK
<1>2. ASSUME UNCHANGED <<scheduleVars, faults>>
      PROVE  ScheduleTypes'
  BY <1>2 DEF scheduleVars, TypeOK
<1>3. ASSUME UNCHANGED scheduleVars, Fault
      PROVE  ScheduleTypes'
  BY <1>1, <1>3 DEF scheduleVars, TypeOK
<1>4. ASSUME NEW w \in Workers, NEW d \in Distributors,
             PayBinary(w, d) \/ SkipBinary(w, d) \/ PayMatching(w, d) \/ SkipMatching(w, d)
      PROVE  UNCHANGED <<scheduleVars, faults>>
  BY <1>4 DEF PayBinary, SkipBinary, PayMatching, SkipMatching, Visit
<1>5. ASSUME NEW w \in Workers, NEW d \in Distributors, FailDistributor(w, d)
      PROVE  UNCHANGED scheduleVars /\ Fault
  BY <1>5 DEF FailDistributor, Visit
<1>6. ASSUME NEW w \in Workers, FinishCycle(w) PROVE UNCHANGED <<scheduleVars, faults>>
  BY <1>6 DEF FinishCycle, Release
<1>7. ASSUME NEW w \in Workers, AbortCycle(w) \/ Crash(w) PROVE UNCHANGED scheduleVars /\ Fault
  BY <1>7 DEF AbortCycle, Crash, Release
<1>8. ASSUME NEW w \in Workers, NEW j \in Jobs, StartCycle(w, j)
      PROVE  ScheduleTypes'
  BY <1>1, <1>8 DEF StartCycle, TakeTrigger, SyncInterval, TypeOK, PvTypeOK
<1>9. ASSUME Fire \/ \E w \in Workers : \E j \in Jobs : SkipTrigger(w, j)
      PROVE  ScheduleTypes'
  BY <1>9 DEF Fire, SkipTrigger, TakeTrigger, TypeOK, PvTypeOK
<1>10. ASSUME NEW n \in Intervals, SetInterval(n)
      PROVE  ScheduleTypes'
  BY <1>10 DEF SetInterval, TypeOK
<1>11. ASSUME NextDay \/ UNCHANGED vars \/ (\E j \in Jobs : LockLapses(j))
              \/ (\E p \in Purchases : Purchase(p) /\ UNCHANGED otherVars)
              \/ (\E p \in Purchases : CancelPurchase(p) /\ UNCHANGED otherVars)
       PROVE  UNCHANGED <<scheduleVars, faults>>
  BY <1>11 DEF NextDay, LockLapses, otherVars, vars
<1> QED
  BY <1>2, <1>3, <1>4, <1>5, <1>6, <1>7, <1>8, <1>9, <1>10, <1>11 DEF Next, ProcessNext

\* The types of what cycles keep.
CycleTypes ==
  /\ payments \subseteq Payments /\ \A x \in payments : x.job = x.run[1]
  /\ cycle \in [Workers -> Cycles]
  /\ \A w \in Workers : ~Busy(w) => cycle[w] = Idle
  /\ audit \subseteq [run : RunNames, total : Nat \ {0}]

LEMMA TypesKept ==
  ASSUME TypeOK, RowsAreFinite, RunsAreFresh, [Next]_vars
  PROVE  TypeOK'
<1>1. PvTypeOK'
  BY LedgerTypesKept
<1>2. lock' \in [Jobs -> BOOLEAN]
  BY LocksKept
<1>3. ScheduleTypes'
  BY ScheduleKept
<1>4. CycleTypes'
  <2> USE DEF TypeOK, CycleTypes
  <2>1. CASE \E p \in Purchases : (Purchase(p) \/ CancelPurchase(p)) /\ UNCHANGED otherVars
    BY <2>1 DEF otherVars, Busy
  <2>2. ASSUME NEW w \in Workers, NEW j \in Jobs, StartCycle(w, j) PROVE CycleTypes'
    <3>1. \A v \in Workers : ~Busy(v)' => cycle'[v] = Idle
      BY <2>2, StartedCycle DEF Busy
    <3> QED
      BY <2>2, <3>1, StartedCycle
  <2>3. ASSUME NEW w \in Workers, NEW d \in Distributors, NEW x \in Payments, PaysOut(w, d, x)
        PROVE  CycleTypes'
    <3>1. x.amount \in Nat /\ Busy(w) /\ Visit(w, d, x.amount)
      BY <2>3 DEF PaysOut, Payments
    <3>2. /\ cycle' \in [Workers -> Cycles] /\ Busy(w)'
          /\ \A v \in Workers : v # w => cycle'[v] = cycle[v]
      BY <3>1, VisitedCycle
    <3>3. x.job = x.run[1] /\ payments' = payments \cup {x} /\ UNCHANGED audit
      BY <2>3, <3>1, BusyFacts DEF PaysOut, Visit
    <3> QED
      BY <3>2, <3>3 DEF Busy
  <2>4. ASSUME NEW w \in Workers, NEW d \in Distributors, PaysNothing(w, d) PROVE CycleTypes'
    <3>1. /\ cycle' \in [Workers -> Cycles] /\ Busy(w)'
          /\ \A v \in Workers : v # w => cycle'[v] = cycle[v]
      BY <2>4, VisitedCycle DEF PaysNothing
    <3> QED
      BY <2>4, <3>1 DEF Busy, PaysNothing, Visit
  <2>5. ASSUME NEW w \in Workers, Ends(w) PROVE CycleTypes'
    <3>1. /\ cycle' \in [Workers -> Cycles] /\ cycle'[w] = Idle
          /\ \A v \in Workers : v # w => cycle'[v] = cycle[v]
      BY <2>5, EndedCycle
    <3>2. AuditRows(w) \subseteq [run : RunNames, total : Nat \ {0}]
      BY <2>5, BusyFacts DEF AuditRows, Ends
    <3> QED
      BY <2>5, <3>1, <3>2 DEF Busy, Ends
  <2>6. CASE Elsewhere
    BY <2>6 DEF Elsewhere, Busy
  <2>7. CASE \E w \in Workers : \E j \in Jobs : StartCycle(w, j)
    BY <2>2, <2>7
  <2>8. CASE \E w \in Workers : \E d \in Distributors : \E x \in Payments : PaysOut(w, d, x)
    BY <2>3, <2>8
  <2>9. CASE \E w \in Workers : \E d \in Distributors : PaysNothing(w, d)
    BY <2>4, <2>9
  <2>10. CASE \E w \in Workers : Ends(w)
    BY <2>5, <2>10
  <2> HIDE DEF TypeOK, CycleTypes
  <2> QED
    BY <2>1, <2>6, <2>7, <2>8, <2>9, <2>10, StepKinds DEF BinaryPaid, MatchingPaid
<1> QED
  BY <1>1, <1>2, <1>3, <1>4 DEF TypeOK, CycleTypes, ScheduleTypes

-----------------------------------------------------------------------------
(* Purchases and what they brought.                                         *)

\* Purchases that stand in MonthlyPersonalPv.
Own(d, m) == {p \in Purchases : /\ Buyer[p] = d
                                /\ purchase[p].state = "paid"
                                /\ MonthOf(purchase[p].day) = m}

LEMMA PurchaseSums ==
  ASSUME NEW S \in SUBSET Purchases, IsFiniteSet(S)
  PROVE  /\ PvTotal(S) \in Nat
         /\ \A p \in Purchases \ S : PvTotal(S \cup {p}) = PvTotal(S) + Pv[p]
         /\ \A p \in S : PvTotal(S) = PvTotal(S \ {p}) + Pv[p]
                         /\ PvTotal(S \ {p}) \in Nat
<1>1. \A p \in Purchases : Pv[p] \in Nat /\ Pv[p] \in Int
  BY Credits
<1>2. PvTotal(S) \in Nat
  BY <1>1, SumIsNat DEF PvTotal
<1>3. ASSUME NEW p \in Purchases \ S PROVE PvTotal(S \cup {p}) = PvTotal(S) + Pv[p]
  <2>1. SumFunctionOnSet(Pv, S \cup {p}) = Pv[p] + SumFunctionOnSet(Pv, S)
    BY <1>1, SumAdds
  <2> QED
    BY <1>1, <1>2, <2>1 DEF PvTotal
<1>4. ASSUME NEW p \in S
      PROVE  PvTotal(S) = PvTotal(S \ {p}) + Pv[p] /\ PvTotal(S \ {p}) \in Nat
  <2>1. SumFunctionOnSet(Pv, S) = Pv[p] + SumFunctionOnSet(Pv, S \ {p})
    BY <1>1, SumRemoves
  <2>2. IsFiniteSet(S \ {p})
    BY FS_Subset
  <2>3. SumFunctionOnSet(Pv, S \ {p}) \in Nat
    BY <1>1, <2>2, SumIsNat
  <2> QED
    BY <1>1, <2>1, <2>3 DEF PvTotal
<1> QED
  BY <1>2, <1>3, <1>4

LEMMA BoughtSets ==
  ASSUME RowsAreFinite
  PROVE  /\ \A d, leg : /\ Counted(d, leg) \in SUBSET Purchases /\ IsFiniteSet(Counted(d, leg))
                        /\ Standing(d, leg) \in SUBSET Counted(d, leg)
                        /\ IsFiniteSet(Standing(d, leg))
         /\ \A d, m : Own(d, m) \in SUBSET Purchases /\ IsFiniteSet(Own(d, m))
<1>1. IsFiniteSet(Bought)
  BY DEF RowsAreFinite
<1>2. \A d, leg : Counted(d, leg) \in SUBSET Bought /\ Standing(d, leg) \in SUBSET Bought
                  /\ Standing(d, leg) \in SUBSET Counted(d, leg)
                  /\ Counted(d, leg) \in SUBSET Purchases
  BY DEF Counted, Standing, Bought
<1>3. \A d, m : Own(d, m) \in SUBSET Bought /\ Own(d, m) \in SUBSET Purchases
  BY DEF Own, Bought
<1> QED
  BY <1>1, <1>2, <1>3, FS_Subset

\* A purchase joins the sets of the legs it feeds and of its buyer.
LEMMA PurchaseJoins ==
  ASSUME PvTypeOK, NEW p \in Purchases, Purchase(p)
  PROVE  /\ Bought' = Bought \cup {p}
         /\ \A d, leg : /\ p \notin Counted(d, leg)
                        /\ Counted(d, leg)' =
                             IF Feeds(p, d, leg) THEN Counted(d, leg) \cup {p} ELSE Counted(d, leg)
                        /\ Standing(d, leg)' =
                             IF Feeds(p, d, leg) THEN Standing(d, leg) \cup {p} ELSE Standing(d, leg)
         /\ \A d, m : /\ p \notin Own(d, m)
                      /\ Own(d, m)' = IF d = Buyer[p] /\ m = MonthOf(today)
                                        THEN Own(d, m) \cup {p} ELSE Own(d, m)
<1>1. /\ purchase'[p].state = "paid" /\ purchase'[p].day = today
      /\ \A q \in Purchases : q # p => purchase'[q] = purchase[q]
      /\ purchase[p].state = "none"
  BY PurchaseRows
<1>2. Bought' = Bought \cup {p}
  BY <1>1 DEF Bought
<1>3. ASSUME NEW d, NEW leg
      PROVE  /\ p \notin Counted(d, leg)
             /\ Counted(d, leg)' =
                  IF Feeds(p, d, leg) THEN Counted(d, leg) \cup {p} ELSE Counted(d, leg)
             /\ Standing(d, leg)' =
                  IF Feeds(p, d, leg) THEN Standing(d, leg) \cup {p} ELSE Standing(d, leg)
  BY <1>1 DEF Counted, Standing, Feeds
<1>4. ASSUME NEW d, NEW m
      PROVE  /\ p \notin Own(d, m)
             /\ Own(d, m)' = IF d = Buyer[p] /\ m = MonthOf(today)
                               THEN Own(d, m) \cup {p} ELSE Own(d, m)
  BY <1>1 DEF Own
<1> QED
  BY <1>2, <1>3, <1>4

LEMMA CancelLeaves ==
  ASSUME PvTypeOK, NEW p \in Purchases, CancelPurchase(p)
  PROVE  /\ Bought' = Bought
         /\ \A d, leg : /\ Feeds(p, d, leg) => p \in Standing(d, leg) /\ p \in Counted(d, leg)
                        /\ Counted(d, leg)' = Counted(d, leg)
                        /\ Standing(d, leg)' =
                             IF Feeds(p, d, leg) THEN Standing(d, leg) \ {p} ELSE Standing(d, leg)
         /\ \A d, m : /\ d = Buyer[p] /\ m = MonthOf(purchase[p].day) => p \in Own(d, m)
                      /\ Own(d, m)' = IF d = Buyer[p] /\ m = MonthOf(purchase[p].day)
                                        THEN Own(d, m) \ {p} ELSE Own(d, m)
<1>1. /\ purchase'[p].state = "cancelled" /\ purchase'[p].day = purchase[p].day
      /\ \A q \in Purchases : q # p => purchase'[q] = purchase[q]
      /\ purchase[p].state = "paid"
  BY CancelRows
<1>2. Bought' = Bought
  BY <1>1 DEF Bought
<1>3. ASSUME NEW d, NEW leg
      PROVE  /\ Feeds(p, d, leg) => p \in Standing(d, leg) /\ p \in Counted(d, leg)
             /\ Counted(d, leg)' = Counted(d, leg)
             /\ Standing(d, leg)' =
                  IF Feeds(p, d, leg) THEN Standing(d, leg) \ {p} ELSE Standing(d, leg)
  BY <1>1 DEF Counted, Standing, Feeds
<1>4. ASSUME NEW d, NEW m
      PROVE  /\ d = Buyer[p] /\ m = MonthOf(purchase[p].day) => p \in Own(d, m)
             /\ Own(d, m)' = IF d = Buyer[p] /\ m = MonthOf(purchase[p].day)
                               THEN Own(d, m) \ {p} ELSE Own(d, m)
  BY <1>1 DEF Own
<1> QED
  BY <1>2, <1>3, <1>4

\* PvLedger and MonthlyPersonalPv, said with Own.
LedgersSay ==
  \A d \in Distributors :
    /\ \A leg \in Legs : pvLedger[d][leg] = PvTotal(Standing(d, leg))
    /\ \A m \in Months : personal[d][m] =
         (IF m = 0 THEN EarlierPersonal[d] ELSE 0) + PvTotal(Own(d, m))

LEMMA LedgersAre == LedgersFollowPurchases <=> LedgersSay
BY DEF LedgersFollowPurchases, LedgersSay, Own

LEMMA PurchaseCredits ==
  ASSUME PvTypeOK, RowsAreFinite, LedgersFollowPurchases, NEW p \in Purchases, Purchase(p)
  PROVE  LedgersFollowPurchases'
<1>1. ASSUME NEW d \in Distributors, NEW leg \in Legs
      PROVE  pvLedger'[d][leg] = PvTotal(Standing(d, leg))'
  <2>1. pvLedger[d][leg] = PvTotal(Standing(d, leg))
        /\ pvLedger'[d][leg] = pvLedger[d][leg] + IF Feeds(p, d, leg) THEN Pv[p] ELSE 0
    BY PurchaseRows, Credits, LedgersAre DEF LedgersSay
  <2>2. /\ Standing(d, leg) \in SUBSET Purchases /\ IsFiniteSet(Standing(d, leg))
        /\ p \notin Standing(d, leg)
    BY BoughtSets, PurchaseJoins
  <2>3. PvTotal(Standing(d, leg)) \in Nat
        /\ PvTotal(Standing(d, leg) \cup {p}) = PvTotal(Standing(d, leg)) + Pv[p]
    BY <2>2, PurchaseSums
  <2>4. PICK S : S = Standing(d, leg)
    OBVIOUS
  <2>5. Standing(d, leg)' = IF Feeds(p, d, leg) THEN S \cup {p} ELSE S
    BY <2>4, PurchaseJoins
  <2>6. PvTotal(Standing(d, leg))' = PvTotal(IF Feeds(p, d, leg) THEN S \cup {p} ELSE S)
    BY <2>5 DEF PvTotal
  <2> QED
    BY <2>1, <2>3, <2>4, <2>6
<1>2. ASSUME NEW d \in Distributors, NEW m \in Months
      PROVE  personal'[d][m] = (IF m = 0 THEN EarlierPersonal[d] ELSE 0) + PvTotal(Own(d, m))'
  <2> DEFINE mine == d = Buyer[p] /\ m = MonthOf(today)
  <2>1. personal[d][m] = (IF m = 0 THEN EarlierPersonal[d] ELSE 0) + PvTotal(Own(d, m))
        /\ personal'[d][m] = personal[d][m] + IF mine THEN Pv[p] ELSE 0
    BY PurchaseRows, LedgersAre DEF LedgersSay
  <2>2. Own(d, m) \in SUBSET Purchases /\ IsFiniteSet(Own(d, m)) /\ p \notin Own(d, m)
    BY BoughtSets, PurchaseJoins
  <2>3. PvTotal(Own(d, m)) \in Nat
        /\ PvTotal(Own(d, m) \cup {p}) = PvTotal(Own(d, m)) + Pv[p]
    BY <2>2, PurchaseSums
  <2>4. PICK S : S = Own(d, m)
    OBVIOUS
  <2>5. Own(d, m)' = IF mine THEN S \cup {p} ELSE S
    BY <2>4, PurchaseJoins
  <2> HIDE DEF mine
  <2>6. PvTotal(Own(d, m))' = PvTotal(IF mine THEN S \cup {p} ELSE S)
    BY <2>5 DEF PvTotal
  <2>7. PICK e \in Nat : e = IF m = 0 THEN EarlierPersonal[d] ELSE 0
    BY PvAssumption
  <2>8. Pv[p] \in Nat
    BY Credits
  <2>9. personal'[d][m] = e + PvTotal(Own(d, m))'
    BY <2>1, <2>3, <2>4, <2>6, <2>7, <2>8
  <2> QED
    BY <2>7, <2>9
<1>3. (LedgersFollowPurchases <=> LedgersSay)'
  BY LedgersAre, PTL
<1>4. LedgersSay'
  BY <1>1, <1>2 DEF LedgersSay
<1> QED
  BY <1>3, <1>4

LEMMA CancelDebits ==
  ASSUME PvTypeOK, RowsAreFinite, LedgersFollowPurchases, NEW p \in Purchases, CancelPurchase(p)
  PROVE  LedgersFollowPurchases'
<1>1. ASSUME NEW d \in Distributors, NEW leg \in Legs
      PROVE  pvLedger'[d][leg] = PvTotal(Standing(d, leg))'
  <2>1. pvLedger[d][leg] = PvTotal(Standing(d, leg)) /\ pvLedger[d][leg] \in Nat
        /\ pvLedger'[d][leg] = Less(pvLedger[d][leg], IF Feeds(p, d, leg) THEN Pv[p] ELSE 0)
    BY CancelRows, Credits, LedgersAre DEF LedgersSay, PvTypeOK
  <2>2. /\ Standing(d, leg) \in SUBSET Purchases /\ IsFiniteSet(Standing(d, leg))
        /\ Feeds(p, d, leg) => p \in Standing(d, leg)
    BY BoughtSets, CancelLeaves
  <2>3. Feeds(p, d, leg) => /\ PvTotal(Standing(d, leg)) = PvTotal(Standing(d, leg) \ {p}) + Pv[p]
                            /\ PvTotal(Standing(d, leg) \ {p}) \in Nat
    BY <2>2, PurchaseSums
  <2>4. PICK S : S = Standing(d, leg)
    OBVIOUS
  <2>5. Standing(d, leg)' = IF Feeds(p, d, leg) THEN S \ {p} ELSE S
    BY <2>4, CancelLeaves
  <2>6. PvTotal(Standing(d, leg))' = PvTotal(IF Feeds(p, d, leg) THEN S \ {p} ELSE S)
    BY <2>5 DEF PvTotal
  <2>7. Pv[p] \in Nat
    BY Credits
  <2> QED
    BY <2>1, <2>3, <2>4, <2>6, <2>7 DEF Less
<1>2. ASSUME NEW d \in Distributors, NEW m \in Months
      PROVE  personal'[d][m] = (IF m = 0 THEN EarlierPersonal[d] ELSE 0) + PvTotal(Own(d, m))'
  <2> DEFINE mine == d = Buyer[p] /\ m = MonthOf(purchase[p].day)
  <2>1. personal[d][m] = (IF m = 0 THEN EarlierPersonal[d] ELSE 0) + PvTotal(Own(d, m))
        /\ personal[d][m] \in Nat
        /\ personal'[d][m] = IF mine THEN Less(personal[d][m], Pv[p]) ELSE personal[d][m]
    BY CancelRows, LedgersAre DEF LedgersSay, PvTypeOK
  <2>2. Own(d, m) \in SUBSET Purchases /\ IsFiniteSet(Own(d, m)) /\ (mine => p \in Own(d, m))
    BY BoughtSets, CancelLeaves
  <2>3. mine => /\ PvTotal(Own(d, m)) = PvTotal(Own(d, m) \ {p}) + Pv[p]
                /\ PvTotal(Own(d, m) \ {p}) \in Nat
    BY <2>2, PurchaseSums
  <2>4. PICK S : S = Own(d, m)
    OBVIOUS
  <2>5. PICK yes \in BOOLEAN : yes = mine
    OBVIOUS
  <2>6. Own(d, m)' = IF yes THEN S \ {p} ELSE S
    BY <2>4, <2>5, CancelLeaves
  <2>7. PvTotal(Own(d, m))' = PvTotal(IF yes THEN S \ {p} ELSE S)
    BY <2>6 DEF PvTotal
  <2> HIDE DEF mine
  <2>8. PICK e \in Nat : e = IF m = 0 THEN EarlierPersonal[d] ELSE 0
    BY PvAssumption
  <2>9. Pv[p] \in Nat
    BY Credits
  <2>10. personal'[d][m] = e + PvTotal(Own(d, m))'
    BY <2>1, <2>3, <2>4, <2>5, <2>7, <2>8, <2>9 DEF Less
  <2> QED
    BY <2>8, <2>10
<1>3. (LedgersFollowPurchases <=> LedgersSay)'
  BY LedgersAre, PTL
<1>4. LedgersSay'
  BY <1>1, <1>2 DEF LedgersSay
<1> QED
  BY <1>3, <1>4

LEMMA LedgersKept ==
  ASSUME TypeOK, RowsAreFinite, RunsAreFresh, LedgersFollowPurchases, [Next]_vars
  PROVE  LedgersFollowPurchases'
<1>1. PvTypeOK
  BY DEF TypeOK
<1>2. CASE \E p \in Purchases : Purchase(p) /\ UNCHANGED otherVars
  BY <1>1, <1>2, PurchaseCredits
<1>3. CASE \E p \in Purchases : CancelPurchase(p) /\ UNCHANGED otherVars
  BY <1>1, <1>3, CancelDebits
<1>4. ASSUME UNCHANGED <<purchase, pvLedger, personal>> PROVE LedgersFollowPurchases'
  BY <1>4 DEF LedgersFollowPurchases, PvTotal, Standing, Counted, Feeds
<1>5. ASSUME NEW w \in Workers, NEW d, NEW amount, Visit(w, d, amount)
      PROVE  UNCHANGED <<purchase, pvLedger, personal>>
  BY <1>5 DEF Visit
<1>6. CASE \E w \in Workers : \E j \in Jobs : StartCycle(w, j)
  BY <1>4, <1>6 DEF StartCycle, pvVars
<1>7. CASE Elsewhere \/ \E w \in Workers : Ends(w)
  BY <1>4, <1>7 DEF Elsewhere, Ends, pvVars
<1> QED
  BY <1>2, <1>3, <1>4, <1>5, <1>6, <1>7, StepKinds
     DEF BinaryPaid, MatchingPaid, PaysOut, PaysNothing

-----------------------------------------------------------------------------
(* Where the PV of a leg comes from, and where it goes.                     *)

\* No row grows but by a purchase.
LEMMA RowsShrink ==
  ASSUME TypeOK, RowsAreFinite, RunsAreFresh, NEW w, NEW d,
         PaysNothing(w, d) \/ \E x : BinaryPaid(w, d, x)
  PROVE  /\ \A b \in Distributors, leg \in Legs : \A t \in Days :
              bucket'[b][leg][t] <= bucket[b][leg][t]
         /\ UNCHANGED <<purchase, today>>
<1>1. bucket \in [Distributors -> [Legs -> [Days -> Nat]]]
  BY DEF TypeOK, PvTypeOK
<1>2. CASE PaysNothing(w, d)
  <2>1. UNCHANGED <<purchase, today>>
    BY <1>2 DEF PaysNothing, Visit
  <2> SUFFICES ASSUME NEW b \in Distributors, NEW leg \in Legs, NEW t \in Days
               PROVE  bucket'[b][leg][t] <= bucket[b][leg][t]
    BY <2>1
  <2>2. bucket[b][leg][t] \in Nat
    BY <1>1
  <2>3. \/ UNCHANGED bucket
        \/ /\ \A s \in Days : bucket'[d][leg][s] <= bucket[d][leg][s]
           /\ b # d => bucket'[b] = bucket[b]
    BY <1>2, ExpiredBuckets
  <2> QED
    BY <2>2, <2>3
<1>3. CASE \E x : BinaryPaid(w, d, x)
  <2>1. PICK x : BinaryPaid(w, d, x)
    BY <1>3
  <2>2. UNCHANGED <<purchase, today>>
    BY <2>1 DEF BinaryPaid, PaysOut, Visit
  <2> SUFFICES ASSUME NEW b \in Distributors, NEW leg \in Legs, NEW t \in Days
               PROVE  bucket'[b][leg][t] <= bucket[b][leg][t]
    BY <2>2
  <2>3. bucket[b][leg][t] \in Nat
    BY <1>1
  <2> QED
    BY <2>1, <2>3, SpentRows
<1> QED
  BY <1>2, <1>3

LEMMA OriginKept ==
  ASSUME TypeOK, RowsAreFinite, RunsAreFresh, RowsHaveOrigin, [Next]_vars
  PROVE  RowsHaveOrigin'
<1> SUFFICES ASSUME NEW b \in Distributors, NEW leg \in Legs, NEW t \in Days,
                    bucket'[b][leg][t] > 0
             PROVE  \E q \in Counted(b, leg)' : purchase'[q].day = t
  BY DEF RowsHaveOrigin
<1>1. PvTypeOK /\ bucket[b][leg][t] \in Nat
  BY DEF TypeOK, PvTypeOK
<1>2. ASSUME bucket[b][leg][t] > 0
      PROVE  \E q \in Counted(b, leg) : purchase[q].day = t
  BY <1>2 DEF RowsHaveOrigin
<1>3. ASSUME NEW p \in Purchases, Purchase(p)
      PROVE  \E q \in Counted(b, leg)' : purchase'[q].day = t
  <2>1. bucket'[b][leg][t] = bucket[b][leg][t] + IF t = today THEN CreditLeg(p, b, leg) ELSE 0
    BY <1>1, <1>3, PurchaseRows
  <2>2. CASE bucket[b][leg][t] > 0
    <3>1. PICK q \in Counted(b, leg) : purchase[q].day = t
      BY <1>2, <2>2
    <3>2. q \in Purchases /\ q # p /\ q \in Counted(b, leg)'
      <4>1. q \in Purchases
        BY DEF Counted
      <4>2. p \notin Counted(b, leg) /\ Counted(b, leg)' =
              IF Feeds(p, b, leg) THEN Counted(b, leg) \cup {p} ELSE Counted(b, leg)
        BY <1>1, <1>3, PurchaseJoins
      <4> QED
        BY <4>1, <4>2
    <3>3. purchase'[q] = purchase[q]
      BY <1>1, <1>3, <3>2, PurchaseRows
    <3> QED
      BY <3>1, <3>2, <3>3
  <2>3. CASE ~(bucket[b][leg][t] > 0)
    <3>1. t = today /\ Feeds(p, b, leg)
      <4>1. bucket[b][leg][t] = 0
        BY <1>1, <2>3
      <4> QED
        BY <2>1, <4>1, Credits
    <3>2. p \in Counted(b, leg)'
      BY <1>1, <1>3, <3>1, PurchaseJoins
    <3>3. purchase'[p].day = today
      BY <1>1, <1>3, PurchaseRows
    <3> QED
      BY <3>1, <3>2, <3>3
  <2> QED
    BY <2>2, <2>3
<1>4. ASSUME NEW p \in Purchases, CancelPurchase(p)
      PROVE  \E q \in Counted(b, leg)' : purchase'[q].day = t
  <2>1. bucket'[b][leg][t] <= bucket[b][leg][t] /\ bucket'[b][leg][t] \in Nat
    BY <1>1, <1>4, CancelRows DEF PvTypeOK
  <2>2. PICK q \in Counted(b, leg) : purchase[q].day = t
    BY <1>1, <1>2, <2>1
  <2>3. q \in Purchases /\ q \in Counted(b, leg)'
    BY <1>1, <1>4, CancelLeaves DEF Counted
  <2>4. purchase'[q].day = purchase[q].day
    BY <1>1, <1>4, <2>3, CancelRows
  <2> QED
    BY <2>2, <2>3, <2>4
<1>5. ASSUME UNCHANGED purchase, bucket[b][leg][t] > 0
      PROVE  \E q \in Counted(b, leg)' : purchase'[q].day = t
  <2>1. Counted(b, leg)' = Counted(b, leg)
    BY <1>5 DEF Counted, Feeds
  <2> QED
    BY <1>2, <1>5, <2>1
<1>6. ASSUME NEW w, NEW d, PaysNothing(w, d) \/ \E x : BinaryPaid(w, d, x)
      PROVE  UNCHANGED purchase /\ bucket[b][leg][t] > 0
  <2>1. bucket'[b][leg][t] <= bucket[b][leg][t] /\ UNCHANGED purchase
    BY <1>6, RowsShrink
  <2>2. bucket'[b][leg][t] \in Nat
    BY TypesKept DEF TypeOK, PvTypeOK
  <2> QED
    BY <1>1, <2>1, <2>2
<1>7. ASSUME UNCHANGED bucket PROVE bucket[b][leg][t] > 0
  BY <1>7
<1>8. CASE \E w \in Workers : \E j \in Jobs : StartCycle(w, j)
  BY <1>5, <1>7, <1>8 DEF StartCycle, pvVars
<1>9. CASE \E w \in Workers : \E d \in Distributors : \E x \in Payments : MatchingPaid(w, d, x)
  BY <1>5, <1>7, <1>9 DEF MatchingPaid, PaysOut, Visit
<1>10. CASE Elsewhere \/ \E w \in Workers : Ends(w)
  BY <1>5, <1>7, <1>10 DEF Elsewhere, Ends, pvVars
<1>11. CASE \E w \in Workers : \E d \in Distributors : PaysNothing(w, d)
  BY <1>5, <1>6, <1>11
<1>12. CASE \E w \in Workers : \E d \in Distributors : \E x \in Payments : BinaryPaid(w, d, x)
  BY <1>5, <1>6, <1>12
<1> QED
  BY <1>3, <1>4, <1>8, <1>9, <1>10, <1>11, <1>12, StepKinds

\* The binary bonuses of a distributor after a payment.
LEMMA BonusesGrow ==
  ASSUME TypeOK, RowsAreFinite, RunsAreFresh, NEW w, NEW d, NEW x, PaysOut(w, d, x)
  PROVE  /\ x \notin payments /\ IsFiniteSet(payments')
         /\ \A b : /\ x \notin BinaryBonuses(b)
                   /\ BinaryBonuses(b) \in SUBSET Payments /\ IsFiniteSet(BinaryBonuses(b))
                   /\ BinaryBonuses(b)' = IF x.job = "binary" /\ b = d
                                            THEN BinaryBonuses(b) \cup {x} ELSE BinaryBonuses(b)
<1>1. x \notin payments /\ payments' = payments \cup {x} /\ x.to = d
  BY PaysOnce DEF PaysOut
<1>2. IsFiniteSet(payments')
  BY <1>1, FS_AddElement DEF RowsAreFinite
<1>3. ASSUME NEW b
      PROVE  /\ x \notin BinaryBonuses(b)
             /\ BinaryBonuses(b) \in SUBSET Payments /\ IsFiniteSet(BinaryBonuses(b))
             /\ BinaryBonuses(b)' = IF x.job = "binary" /\ b = d
                                      THEN BinaryBonuses(b) \cup {x} ELSE BinaryBonuses(b)
  <2>1. BinaryBonuses(b) \in SUBSET payments
    BY DEF BinaryBonuses
  <2>2. BinaryBonuses(b)' = IF x.job = "binary" /\ b = d
                              THEN BinaryBonuses(b) \cup {x} ELSE BinaryBonuses(b)
    BY <1>1 DEF BinaryBonuses
  <2> QED
    BY <1>1, <2>1, <2>2, FS_Subset DEF TypeOK, RowsAreFinite
<1> QED
  BY <1>1, <1>2, <1>3

LEMMA SpentGrows ==
  ASSUME TypeOK, RowsAreFinite, RunsAreFresh, NEW w, NEW d, NEW x, PaysOut(w, d, x)
  PROVE  \A b : /\ SpentPv(b) \in Nat
                /\ SpentPv(b)' = SpentPv(b) + IF x.job = "binary" /\ b = d THEN x.pv ELSE 0
<1> SUFFICES ASSUME NEW b
             PROVE  /\ SpentPv(b) \in Nat
                    /\ SpentPv(b)' = SpentPv(b) + IF x.job = "binary" /\ b = d THEN x.pv ELSE 0
  OBVIOUS
<1>1. PICK rows : rows = BinaryBonuses(b)
  OBVIOUS
<1>2. rows \in SUBSET Payments /\ IsFiniteSet(rows) /\ x \notin rows /\ x \in Payments
      /\ BinaryBonuses(b)' = IF x.job = "binary" /\ b = d THEN rows \cup {x} ELSE rows
  BY <1>1, BonusesGrow DEF PaysOut
<1>3. SpentPv(b) = SumFunctionOnSet([y \in rows |-> y.pv], rows)
  BY <1>1 DEF SpentPv
<1>4. SumFunctionOnSet([y \in rows |-> y.pv], rows) \in Nat
  BY <1>2, RowsSum
<1>5. CASE x.job = "binary" /\ b = d
  <2>1. SpentPv(b)' = SumFunctionOnSet([y \in rows \cup {x} |-> y.pv], rows \cup {x})
    BY <1>2, <1>5 DEF SpentPv
  <2> QED
    BY <1>2, <1>3, <1>4, <1>5, <2>1, RowsGrow
<1>6. CASE ~(x.job = "binary" /\ b = d)
  <2>1. SpentPv(b)' = SumFunctionOnSet([y \in rows |-> y.pv], rows)
    BY <1>2, <1>6 DEF SpentPv
  <2> QED
    BY <1>3, <1>4, <1>6, <2>1
<1> QED
  BY <1>5, <1>6

\* While no purchase of a leg was cancelled or can have expired.
Unspoilt(d, leg) ==
  \A p \in Counted(d, leg) : /\ purchase[p].state = "paid"
                             /\ purchase[p].day >= today - Expiry

Conserved ==
  \A d \in Distributors : \A leg \in Legs :
    /\ SpentPv(d) + LivePv(d, leg) <= PvTotal(Counted(d, leg))
    /\ Unspoilt(d, leg) => SpentPv(d) + LivePv(d, leg) = PvTotal(Counted(d, leg))

LEMMA ConservedIs == PvIsConserved <=> TypeOK /\ LedgersFollowPurchases /\ Conserved
BY DEF PvIsConserved, Conserved, Unspoilt

\* Then there is nothing to expire.
LEMMA NothingExpires ==
  ASSUME TypeOK, RowsHaveOrigin, NEW d \in Distributors, NEW leg \in Legs, NEW at \in Days,
         at <= today, Unspoilt(d, leg)
  PROVE  SumLegPv(d, leg, at) = LivePv(d, leg)
<1>1. bucket[d][leg] \in [Days -> Nat] /\ today \in Nat /\ at \in Nat
  BY DaysAreFinite DEF TypeOK, PvTypeOK
<1>2. ASSUME NEW t \in Days, ~(t >= Cutoff(at)) PROVE bucket[d][leg][t] = 0
  <2>0. bucket[d][leg][t] \in Nat
    BY <1>1
  <2> SUFFICES ASSUME bucket[d][leg][t] > 0 PROVE FALSE
    BY <2>0
  <2>1. PICK q \in Counted(d, leg) : purchase[q].day = t
    BY DEF RowsHaveOrigin
  <2>2. t >= today - Expiry
    BY <2>1 DEF Unspoilt
  <2>3. t \in Nat /\ Expiry \in Nat
    BY DaysAreFinite, PvAssumption
  <2> QED
    BY <1>1, <1>2, <2>2, <2>3 DEF Cutoff
<1> DEFINE kept == {t \in Days : t >= Cutoff(at)}
<1>3. kept \in SUBSET Days /\ IsFiniteSet(Days)
      /\ (\A t \in Days \ kept : bucket[d][leg][t] = 0)
      /\ (\A t \in Days : bucket[d][leg][t] \in Nat)
  BY <1>1, <1>2, DaysAreFinite
<1> HIDE DEF kept
<1>4. SumFunctionOnSet(bucket[d][leg], kept) = SumFunctionOnSet(bucket[d][leg], Days)
  BY <1>3, SumOfPart
<1> QED
  BY <1>4 DEF kept, SumLegPv, LivePv

LEMMA LiveIsNat ==
  ASSUME PvTypeOK, NEW d \in Distributors, NEW leg \in Legs
  PROVE  LivePv(d, leg) \in Nat
<1>1. \A t \in Days : bucket[d][leg][t] \in Nat
  BY DEF PvTypeOK
<1> QED
  BY <1>1, DaysAreFinite, SumIsNat DEF LivePv

LEMMA PurchaseConserves ==
  ASSUME TypeOK, RowsAreFinite, Conserved, NEW p \in Purchases, Purchase(p), UNCHANGED payments
  PROVE  Conserved'
<1> SUFFICES ASSUME NEW d \in Distributors, NEW leg \in Legs
             PROVE  /\ SpentPv(d)' + LivePv(d, leg)' <= PvTotal(Counted(d, leg))'
                    /\ Unspoilt(d, leg)' => SpentPv(d)' + LivePv(d, leg)' = PvTotal(Counted(d, leg))'
  BY DEF Conserved
<1>1. PvTypeOK
  BY DEF TypeOK
<1> DEFINE more == IF Feeds(p, d, leg) THEN Pv[p] ELSE 0
<1>2. more \in Nat /\ CreditLeg(p, d, leg) = more
  BY Credits
<1>3. SpentPv(d)' = SpentPv(d) /\ SpentPv(d) \in Nat
  <2>1. BinaryBonuses(d)' = BinaryBonuses(d)
    BY DEF BinaryBonuses
  <2>2. BinaryBonuses(d) \in SUBSET Payments /\ IsFiniteSet(BinaryBonuses(d))
    BY FS_Subset DEF BinaryBonuses, TypeOK, RowsAreFinite
  <2> QED
    BY <2>1, <2>2, RowsSum DEF SpentPv
<1>4. LivePv(d, leg)' = LivePv(d, leg) + more /\ LivePv(d, leg) \in Nat
  <2> DEFINE f == bucket[d][leg]
  <2>1. PICK g : g = bucket'[d][leg]
    OBVIOUS
  <2>2. \A t \in Days : g[t] = f[t] + IF t = today THEN more ELSE 0
    BY <1>1, <1>2, <2>1, PurchaseRows
  <2>3. (\A t \in Days : f[t] \in Int) /\ today \in Days
    BY <1>1 DEF PvTypeOK
  <2> HIDE DEF f, more
  <2>4. g[today] = f[today] + more /\ \A t \in Days \ {today} : g[t] = f[t]
    BY <1>2, <2>2, <2>3
  <2>5. SumFunctionOnSet(g, Days) = SumFunctionOnSet(f, Days) + more
    BY <1>2, <2>3, <2>4, DaysAreFinite, SumOfOneMore
  <2> QED
    BY <1>1, <2>1, <2>5, LiveIsNat DEF f, LivePv
<1>5. PvTotal(Counted(d, leg))' = PvTotal(Counted(d, leg)) + more
      /\ PvTotal(Counted(d, leg)) \in Nat
  <2>1. PICK S : S = Counted(d, leg)
    OBVIOUS
  <2>2. S \in SUBSET Purchases /\ IsFiniteSet(S) /\ p \notin S
        /\ Counted(d, leg)' = IF Feeds(p, d, leg) THEN S \cup {p} ELSE S
    BY <1>1, <2>1, BoughtSets, PurchaseJoins
  <2>3. PvTotal(S) \in Nat /\ PvTotal(S \cup {p}) = PvTotal(S) + Pv[p]
    BY <2>2, PurchaseSums
  <2>4. PvTotal(Counted(d, leg))' = PvTotal(IF Feeds(p, d, leg) THEN S \cup {p} ELSE S)
    BY <2>2 DEF PvTotal
  <2> QED
    BY <2>1, <2>3, <2>4
<1>6. Unspoilt(d, leg)' => Unspoilt(d, leg)
  <2> SUFFICES ASSUME Unspoilt(d, leg)', NEW q \in Counted(d, leg)
               PROVE  purchase[q].state = "paid" /\ purchase[q].day >= today - Expiry
    BY DEF Unspoilt
  <2>1. p \notin Counted(d, leg) /\ q \in Purchases
    BY <1>1, PurchaseJoins DEF Counted
  <2>2. Counted(d, leg)' = IF Feeds(p, d, leg) THEN Counted(d, leg) \cup {p} ELSE Counted(d, leg)
    BY <1>1, PurchaseJoins
  <2>3. purchase'[q] = purchase[q] /\ today' = today
    BY <1>1, <2>1, PurchaseRows
  <2>4. q \in Counted(d, leg)'
    BY <2>2
  <2>5. purchase'[q].state = "paid" /\ purchase'[q].day >= today' - Expiry
    BY <2>4 DEF Unspoilt
  <2> QED
    BY <2>3, <2>5
<1>7. /\ SpentPv(d) + LivePv(d, leg) <= PvTotal(Counted(d, leg))
      /\ Unspoilt(d, leg) => SpentPv(d) + LivePv(d, leg) = PvTotal(Counted(d, leg))
  BY DEF Conserved
<1> HIDE DEF more
<1> QED
  BY <1>2, <1>3, <1>4, <1>5, <1>6, <1>7

LEMMA CancelConserves ==
  ASSUME TypeOK, RowsAreFinite, Conserved, NEW p \in Purchases, CancelPurchase(p), UNCHANGED payments
  PROVE  Conserved'
<1> SUFFICES ASSUME NEW d \in Distributors, NEW leg \in Legs
             PROVE  /\ SpentPv(d)' + LivePv(d, leg)' <= PvTotal(Counted(d, leg))'
                    /\ Unspoilt(d, leg)' => SpentPv(d)' + LivePv(d, leg)' = PvTotal(Counted(d, leg))'
  BY DEF Conserved
<1>1. PvTypeOK /\ PvTypeOK'
  BY CancelRows DEF TypeOK
<1>2. SpentPv(d)' = SpentPv(d) /\ SpentPv(d) \in Nat
  <2>1. BinaryBonuses(d)' = BinaryBonuses(d)
    BY DEF BinaryBonuses
  <2>2. BinaryBonuses(d) \in SUBSET Payments /\ IsFiniteSet(BinaryBonuses(d))
    BY FS_Subset DEF BinaryBonuses, TypeOK, RowsAreFinite
  <2> QED
    BY <2>1, <2>2, RowsSum DEF SpentPv
<1>3. LivePv(d, leg)' <= LivePv(d, leg) /\ LivePv(d, leg) \in Nat /\ LivePv(d, leg)' \in Nat
      /\ (~Feeds(p, d, leg) => LivePv(d, leg)' = LivePv(d, leg))
  <2> DEFINE f == bucket[d][leg]
  <2>1. PICK g : g = bucket'[d][leg]
    OBVIOUS
  <2>2. /\ \A t \in Days : g[t] <= f[t]
        /\ ~Feeds(p, d, leg) => \A t \in Days : g[t] = f[t]
    BY <1>1, <2>1, CancelRows
  <2>3. \A t \in Days : f[t] \in Nat /\ g[t] \in Nat
    BY <1>1, <2>1 DEF PvTypeOK
  <2> HIDE DEF f
  <2>4. SumFunctionOnSet(g, Days) <= SumFunctionOnSet(f, Days)
    BY <2>2, <2>3, DaysAreFinite, SumsCompare
  <2>5. ~Feeds(p, d, leg) => SumFunctionOnSet(g, Days) = SumFunctionOnSet(f, Days)
    BY <2>2, DaysAreFinite, SumsAgree
  <2>6. SumFunctionOnSet(g, Days) \in Nat /\ SumFunctionOnSet(f, Days) \in Nat
    BY <2>3, DaysAreFinite, SumIsNat
  <2> QED
    BY <2>1, <2>4, <2>5, <2>6 DEF f, LivePv
<1>4. Counted(d, leg)' = Counted(d, leg)
      /\ (Feeds(p, d, leg) => p \in Counted(d, leg))
  BY <1>1, CancelLeaves
<1>5. PvTotal(Counted(d, leg))' = PvTotal(Counted(d, leg)) /\ PvTotal(Counted(d, leg)) \in Nat
  BY <1>4, BoughtSets, PurchaseSums DEF PvTotal
<1>6. Unspoilt(d, leg)' => ~Feeds(p, d, leg)
  <2>1. purchase'[p].state # "paid"
    BY <1>1, CancelRows
  <2> QED
    BY <1>4, <2>1 DEF Unspoilt
<1>7. Unspoilt(d, leg)' => Unspoilt(d, leg)
  <2> SUFFICES ASSUME Unspoilt(d, leg)', NEW q \in Counted(d, leg)
               PROVE  purchase[q].state = "paid" /\ purchase[q].day >= today - Expiry
    BY DEF Unspoilt
  <2>1. purchase'[q].state = "paid" /\ purchase'[q].day >= today' - Expiry
    BY <1>4 DEF Unspoilt
  <2>2. q \in Purchases /\ q # p
    BY <1>1, <2>1, CancelRows DEF Counted
  <2>3. purchase'[q] = purchase[q] /\ today' = today
    BY <1>1, <2>2, CancelRows
  <2> QED
    BY <2>1, <2>3
<1>8. /\ SpentPv(d) + LivePv(d, leg) <= PvTotal(Counted(d, leg))
      /\ Unspoilt(d, leg) => SpentPv(d) + LivePv(d, leg) = PvTotal(Counted(d, leg))
  BY DEF Conserved
<1> QED
  BY <1>2, <1>3, <1>5, <1>6, <1>7, <1>8

\* What a visit does to one leg: pv is spent and some may have expired.
LEMMA VisitConserves ==
  ASSUME TypeOK, RowsAreFinite, RunsAreFresh, RowsHaveOrigin, DatesInOrder, Conserved,
         NEW w \in Workers, Busy(w), NEW d \in Distributors, NEW leg \in Legs, NEW pv \in Nat,
         UNCHANGED <<purchase, today>>,
         SpentPv(d)' = SpentPv(d) + pv, SpentPv(d) \in Nat,
         pv <= SumLegPv(d, leg, cycle[w].at),
         LivePv(d, leg)' = SumLegPv(d, leg, cycle[w].at) - pv
  PROVE  /\ SpentPv(d)' + LivePv(d, leg)' <= PvTotal(Counted(d, leg))'
         /\ Unspoilt(d, leg)' => SpentPv(d)' + LivePv(d, leg)' = PvTotal(Counted(d, leg))'
<1> DEFINE at == cycle[w].at
<1>1. at \in Days /\ at <= today
  BY BusyFacts DEF DatesInOrder
<1>2. /\ SumLegPv(d, leg, at) \in Nat /\ LivePv(d, leg) \in Nat
      /\ SumLegPv(d, leg, at) <= LivePv(d, leg)
  BY <1>1, LegFacts
<1>3. Counted(d, leg)' = Counted(d, leg)
  BY DEF Counted, Feeds
<1>4. PvTotal(Counted(d, leg))' = PvTotal(Counted(d, leg)) /\ PvTotal(Counted(d, leg)) \in Nat
  BY <1>3, BoughtSets, PurchaseSums DEF PvTotal
<1>5. Unspoilt(d, leg)' => Unspoilt(d, leg)
  BY <1>3 DEF Unspoilt
<1>6. Unspoilt(d, leg) => SumLegPv(d, leg, at) = LivePv(d, leg)
  BY <1>1, NothingExpires
<1>7. /\ SpentPv(d) + LivePv(d, leg) <= PvTotal(Counted(d, leg))
      /\ Unspoilt(d, leg) => SpentPv(d) + LivePv(d, leg) = PvTotal(Counted(d, leg))
  BY DEF Conserved
<1> QED
  BY <1>2, <1>4, <1>5, <1>6, <1>7

LEMMA UntouchedConserves ==
  ASSUME TypeOK, RowsAreFinite, Conserved, NEW d \in Distributors, NEW leg \in Legs,
         UNCHANGED purchase, today' \in Days, today <= today',
         SpentPv(d)' = SpentPv(d), bucket'[d] = bucket[d]
  PROVE  /\ SpentPv(d)' + LivePv(d, leg)' <= PvTotal(Counted(d, leg))'
         /\ Unspoilt(d, leg)' => SpentPv(d)' + LivePv(d, leg)' = PvTotal(Counted(d, leg))'
<1>1. Counted(d, leg)' = Counted(d, leg)
  BY DEF Counted, Feeds
<1>2. PvTotal(Counted(d, leg))' = PvTotal(Counted(d, leg)) /\ LivePv(d, leg)' = LivePv(d, leg)
  BY <1>1 DEF PvTotal, LivePv
<1>3. Unspoilt(d, leg)' => Unspoilt(d, leg)
  <2> SUFFICES ASSUME Unspoilt(d, leg)', NEW q \in Counted(d, leg)
               PROVE  purchase[q].state = "paid" /\ purchase[q].day >= today - Expiry
    BY DEF Unspoilt
  <2>1. purchase[q].state = "paid" /\ purchase[q].day >= today' - Expiry
    BY <1>1 DEF Unspoilt
  <2>2. today \in Int /\ today' \in Int /\ Expiry \in Int /\ purchase[q].day \in Int
    BY DaysAreFinite, PvAssumption DEF TypeOK, PvTypeOK, Counted
  <2> QED
    BY <2>1, <2>2
<1> QED
  BY <1>2, <1>3 DEF Conserved

LEMMA ConservedKept ==
  ASSUME TypeOK, RowsAreFinite, RunsAreFresh, RowsHaveOrigin, DatesInOrder, Conserved, [Next]_vars
  PROVE  Conserved'
<1>1. CASE \E p \in Purchases : Purchase(p) /\ UNCHANGED otherVars
  BY <1>1, PurchaseConserves DEF otherVars
<1>2. CASE \E p \in Purchases : CancelPurchase(p) /\ UNCHANGED otherVars
  BY <1>2, CancelConserves DEF otherVars
<1>3. today' \in Days /\ today \in Nat
  BY TypesKept, DaysAreFinite DEF TypeOK, PvTypeOK
<1>4. ASSUME UNCHANGED <<purchase, bucket>>, today <= today', \A b : SpentPv(b)' = SpentPv(b)
      PROVE  Conserved'
  BY <1>3, <1>4, UntouchedConserves DEF Conserved
<1>5. ASSUME UNCHANGED payments PROVE \A b : SpentPv(b)' = SpentPv(b)
  BY <1>5 DEF SpentPv, BinaryBonuses
<1>6. CASE \E w \in Workers : \E j \in Jobs : StartCycle(w, j)
  BY <1>3, <1>4, <1>5, <1>6 DEF StartCycle, pvVars
<1>7. CASE \E w \in Workers : Ends(w)
  BY <1>3, <1>4, <1>5, <1>7 DEF Ends, pvVars
<1>8. CASE Elsewhere
  BY <1>3, <1>4, <1>5, <1>8 DEF Elsewhere, pvVars
<1>9. CASE \E w \in Workers : \E d \in Distributors : \E x \in Payments : MatchingPaid(w, d, x)
  <2>1. PICK w \in Workers, d \in Distributors, x \in Payments : MatchingPaid(w, d, x)
    BY <1>9
  <2>2. PaysOut(w, d, x) /\ x.job = "matching" /\ UNCHANGED bucket
    BY <2>1 DEF MatchingPaid, PaysOut
  <2>3. \A b : SpentPv(b)' = SpentPv(b)
    BY <2>2, SpentGrows
  <2>4. UNCHANGED <<purchase, today>>
    BY <2>2 DEF PaysOut, Visit
  <2> QED
    BY <1>3, <1>4, <2>2, <2>3, <2>4
<1>10. CASE \E w \in Workers : \E d \in Distributors : \E x \in Payments : BinaryPaid(w, d, x)
  <2>1. PICK w \in Workers, d \in Distributors, x \in Payments : BinaryPaid(w, d, x)
    BY <1>10
  <2>2. PaysOut(w, d, x) /\ x.job = "binary" /\ x.pv \in Nat /\ Busy(w)
        /\ UNCHANGED <<purchase, today>>
    BY <2>1 DEF BinaryPaid, PaysOut, Visit, Payments
  <2>3. \A b : /\ SpentPv(b) \in Nat
               /\ SpentPv(b)' = SpentPv(b) + IF b = d THEN x.pv ELSE 0
    BY <2>2, SpentGrows
  <2>4. \A leg \in Legs : x.pv <= SumLegPv(d, leg, cycle[w].at)
                          /\ LivePv(d, leg)' = SumLegPv(d, leg, cycle[w].at) - x.pv
    BY <2>1, SpentRows DEF LivePv
  <2>5. \A b \in Distributors : b # d => bucket'[b] = bucket[b] /\ SpentPv(b)' = SpentPv(b)
    BY <2>1, <2>3, SpentRows
  <2> SUFFICES ASSUME NEW b \in Distributors, NEW leg \in Legs
               PROVE  /\ SpentPv(b)' + LivePv(b, leg)' <= PvTotal(Counted(b, leg))'
                      /\ Unspoilt(b, leg)' =>
                           SpentPv(b)' + LivePv(b, leg)' = PvTotal(Counted(b, leg))'
    BY DEF Conserved
  <2>6. CASE b = d
    BY <2>2, <2>3, <2>4, <2>6, VisitConserves
  <2>7. CASE b # d
    BY <1>3, <2>2, <2>5, <2>7, UntouchedConserves
  <2> QED
    BY <2>6, <2>7
<1>11. CASE \E w \in Workers : \E d \in Distributors : PaysNothing(w, d)
  <2>1. PICK w \in Workers, d \in Distributors : PaysNothing(w, d)
    BY <1>11
  <2>2. Busy(w) /\ UNCHANGED <<purchase, today, payments>>
    BY <2>1 DEF PaysNothing, Visit
  <2>3. \A b : SpentPv(b)' = SpentPv(b)
    BY <1>5, <2>2
  <2>4. CASE UNCHANGED bucket
    BY <1>3, <1>4, <2>2, <2>3, <2>4
  <2>5. CASE bucket' # bucket
    <3>1. /\ \A leg \in Legs : LivePv(d, leg)' = SumLegPv(d, leg, cycle[w].at)
          /\ \A b \in Distributors : b # d => bucket'[b] = bucket[b]
      BY <2>1, <2>5, ExpiredBuckets DEF LivePv
    <3> SUFFICES ASSUME NEW b \in Distributors, NEW leg \in Legs
                 PROVE  /\ SpentPv(b)' + LivePv(b, leg)' <= PvTotal(Counted(b, leg))'
                        /\ Unspoilt(b, leg)' =>
                             SpentPv(b)' + LivePv(b, leg)' = PvTotal(Counted(b, leg))'
      BY DEF Conserved
    <3>2. CASE b = d
      <4>1. SumLegPv(d, leg, cycle[w].at) \in Nat
        BY <2>2, BusyFacts, LegFacts
      <4>2. SpentPv(d) \in Nat
        <5>1. BinaryBonuses(d) \in SUBSET Payments /\ IsFiniteSet(BinaryBonuses(d))
          BY FS_Subset DEF BinaryBonuses, TypeOK, RowsAreFinite
        <5> QED
          BY <5>1, RowsSum DEF SpentPv
      <4>3. /\ SpentPv(d)' = SpentPv(d) + 0 /\ 0 \in Nat /\ 0 <= SumLegPv(d, leg, cycle[w].at)
            /\ LivePv(d, leg)' = SumLegPv(d, leg, cycle[w].at) - 0
        BY <2>3, <3>1, <4>1, <4>2
      <4> QED
        BY <2>2, <3>2, <4>2, <4>3, VisitConserves
    <3>3. CASE b # d
      BY <1>3, <2>2, <2>3, <3>1, <3>3, UntouchedConserves
    <3> QED
      BY <3>2, <3>3
  <2> QED
    BY <2>4, <2>5
<1> QED
  BY <1>1, <1>2, <1>6, <1>7, <1>8, <1>9, <1>10, <1>11, StepKinds

-----------------------------------------------------------------------------
(* Rows, days and runs.                                                     *)

LEMMA FiniteKept ==
  ASSUME TypeOK, RowsAreFinite, RunsAreFresh, [Next]_vars
  PROVE  RowsAreFinite'
<1>1. PvTypeOK /\ IsFiniteSet(payments) /\ IsFiniteSet(Bought)
  BY DEF TypeOK, RowsAreFinite
<1>2. ASSUME NEW p \in Purchases, Purchase(p) \/ CancelPurchase(p), UNCHANGED payments
      PROVE  RowsAreFinite'
  <2>1. Bought' = Bought \/ Bought' = Bought \cup {p}
    BY <1>1, <1>2, PurchaseJoins, CancelLeaves
  <2>2. IsFiniteSet(Bought')
    BY <1>1, <2>1, FS_AddElement
  <2> QED
    BY <1>1, <1>2, <2>2 DEF RowsAreFinite
<1>3. ASSUME UNCHANGED purchase PROVE Bought' = Bought
  BY <1>3 DEF Bought
<1>4. ASSUME UNCHANGED <<purchase, payments>> PROVE RowsAreFinite'
  BY <1>1, <1>3, <1>4 DEF RowsAreFinite
<1>5. ASSUME NEW w, NEW d, NEW x, PaysOut(w, d, x) PROVE RowsAreFinite'
  <2>1. IsFiniteSet(payments') /\ UNCHANGED purchase
    BY <1>5, BonusesGrow DEF PaysOut, Visit
  <2> QED
    BY <1>1, <1>3, <2>1 DEF RowsAreFinite
<1>6. CASE \E w \in Workers : \E j \in Jobs : StartCycle(w, j)
  BY <1>4, <1>6 DEF StartCycle, pvVars
<1>7. CASE \E w \in Workers : \E d \in Distributors : PaysNothing(w, d)
  BY <1>4, <1>7 DEF PaysNothing, Visit
<1>8. CASE Elsewhere \/ \E w \in Workers : Ends(w)
  BY <1>4, <1>8 DEF Elsewhere, Ends, pvVars
<1>9. CASE \E p \in Purchases : (Purchase(p) \/ CancelPurchase(p)) /\ UNCHANGED otherVars
  BY <1>2, <1>9 DEF otherVars
<1>10. CASE \E w \in Workers : \E d \in Distributors : \E x \in Payments : PaysOut(w, d, x)
  BY <1>5, <1>10
<1> QED
  BY <1>6, <1>7, <1>8, <1>9, <1>10, StepKinds DEF BinaryPaid, MatchingPaid

LEMMA DatesKept ==
  ASSUME TypeOK, RowsAreFinite, RunsAreFresh, DatesInOrder, [Next]_vars
  PROVE  DatesInOrder'
<1>1. today \in Nat /\ \A x \in payments : x.day \in Nat
  BY DaysAreFinite DEF TypeOK, PvTypeOK, Payments
<1>2. \A w \in Workers : Busy(w) => cycle[w].at \in Nat
  BY BusyFacts, DaysAreFinite
<1>3. ASSUME UNCHANGED <<payments, cycle>>, today' \in {today, today + 1}
      PROVE  DatesInOrder'
  BY <1>1, <1>2, <1>3 DEF DatesInOrder, Busy
<1>4. ASSUME NEW w \in Workers, NEW j \in Jobs, StartCycle(w, j) PROVE DatesInOrder'
  BY <1>1, <1>4, StartedCycle DEF DatesInOrder, Busy
<1>5. ASSUME NEW w \in Workers, NEW d \in Distributors, NEW x \in Payments, PaysOut(w, d, x)
      PROVE  DatesInOrder'
  <2>1. x.amount \in Nat /\ Busy(w) /\ Visit(w, d, x.amount)
        /\ payments' = payments \cup {x} /\ x.day = today /\ today' = today
    BY <1>5 DEF PaysOut, Visit, Payments
  <2>2. cycle'[w].at = cycle[w].at /\ \A v \in Workers : v # w => cycle'[v] = cycle[v]
    BY <2>1, VisitedCycle
  <2> QED
    BY <1>1, <2>1, <2>2 DEF DatesInOrder, Busy
<1>6. ASSUME NEW w \in Workers, NEW d \in Distributors, PaysNothing(w, d) PROVE DatesInOrder'
  <2>1. Busy(w) /\ Visit(w, d, 0) /\ UNCHANGED <<payments, today>>
    BY <1>6 DEF PaysNothing, Visit
  <2>2. cycle'[w].at = cycle[w].at /\ \A v \in Workers : v # w => cycle'[v] = cycle[v]
    BY <2>1, VisitedCycle
  <2> QED
    BY <2>1, <2>2 DEF DatesInOrder, Busy
<1>7. ASSUME NEW w \in Workers, Ends(w) PROVE DatesInOrder'
  <2>1. cycle'[w] = Idle /\ \A v \in Workers : v # w => cycle'[v] = cycle[v]
    BY <1>7, EndedCycle
  <2> QED
    BY <1>7, <2>1 DEF DatesInOrder, Busy, Idle, Ends
<1>8. CASE \E p \in Purchases : (Purchase(p) \/ CancelPurchase(p)) /\ UNCHANGED otherVars
  BY <1>3, <1>8 DEF otherVars, Purchase, CancelPurchase
<1>9. CASE Elsewhere
  BY <1>3, <1>9 DEF Elsewhere
<1>10. CASE \E w \in Workers : \E d \in Distributors : \E x \in Payments : PaysOut(w, d, x)
  BY <1>5, <1>10
<1> QED
  BY <1>4, <1>6, <1>7, <1>8, <1>9, <1>10, StepKinds DEF BinaryPaid, MatchingPaid

\* A run that starts has no payment yet.
LEMMA NewRun ==
  ASSUME TypeOK, RowsAreFinite, RunsAreFresh, NEW w \in Workers, NEW j \in Jobs
  PROVE  \A x \in payments : x.run # RunName(w, j)
<1> SUFFICES ASSUME NEW x \in payments, x.run = RunName(w, j) PROVE FALSE
  OBVIOUS
<1>1. x.run[1] = j /\ x.run[2] = w /\ x.run[3] = Cardinality(PaidBy(w, j))
      /\ Cardinality(PaidBy(w, j)) \in Nat
  BY NamesOfRuns
<1>2. x.run[3] < Cardinality(PaidBy(w, j))
  BY <1>1 DEF RunsAreFresh
<1> QED
  BY <1>1, <1>2

LEMMA PaidByGrows ==
  ASSUME TypeOK, RowsAreFinite, RunsAreFresh, NEW w, NEW d, NEW x, PaysOut(w, d, x)
  PROVE  \A v, j : /\ Cardinality(PaidBy(v, j)) \in Nat /\ Cardinality(PaidBy(v, j))' \in Nat
                   /\ Cardinality(PaidBy(v, j)) <= Cardinality(PaidBy(v, j))'
                   /\ v = w /\ j = cycle[w].job =>
                        Cardinality(PaidBy(v, j)) < Cardinality(PaidBy(v, j))'
<1> SUFFICES ASSUME NEW v, NEW j
             PROVE  /\ Cardinality(PaidBy(v, j)) \in Nat /\ Cardinality(PaidBy(v, j))' \in Nat
                    /\ Cardinality(PaidBy(v, j)) <= Cardinality(PaidBy(v, j))'
                    /\ v = w /\ j = cycle[w].job =>
                         Cardinality(PaidBy(v, j)) < Cardinality(PaidBy(v, j))'
  OBVIOUS
<1>1. PICK rows : rows = PaidBy(v, j)
  OBVIOUS
<1>2. x \notin payments /\ payments' = payments \cup {x}
      /\ x.run[1] = cycle[w].job /\ x.run[2] = w
  BY BonusesGrow, BusyFacts DEF PaysOut
<1>3. rows \in SUBSET payments /\ x \notin rows /\ IsFiniteSet(rows)
  BY <1>1, <1>2, FS_Subset DEF PaidBy, RowsAreFinite
<1>4. PaidBy(v, j)' = IF v = w /\ j = cycle[w].job THEN rows \cup {x} ELSE rows
  BY <1>1, <1>2 DEF PaidBy
<1>5. Cardinality(rows) \in Nat /\ Cardinality(rows \cup {x}) = Cardinality(rows) + 1
  BY <1>3, FS_AddElement, FS_CardinalityType
<1> QED
  BY <1>1, <1>4, <1>5

LEMMA RunsKept ==
  ASSUME TypeOK, RowsAreFinite, RunsAreFresh, [Next]_vars
  PROVE  RunsAreFresh'
<1>1. ASSUME UNCHANGED <<payments, cycle>> PROVE RunsAreFresh'
  BY <1>1 DEF RunsAreFresh, Busy, PaidBy
<1>2. ASSUME UNCHANGED payments
      PROVE  /\ \A v, j : PaidBy(v, j)' = PaidBy(v, j)
             /\ \A x \in payments' : x.run[3] < Cardinality(PaidBy(x.run[2], x.run[1]))'
  <2>1. \A v, j : PaidBy(v, j)' = PaidBy(v, j)
    BY <1>2 DEF PaidBy
  <2> QED
    BY <1>2, <2>1 DEF RunsAreFresh
<1>3. ASSUME NEW w \in Workers, NEW j \in Jobs, StartCycle(w, j) PROVE RunsAreFresh'
  <2>1. /\ cycle'[w].job = j /\ cycle'[w].run = RunName(w, j)
        /\ \A v \in Workers : v # w => cycle'[v] = cycle[v]
        /\ UNCHANGED payments
    BY <1>3, StartedCycle
  <2>2. /\ RunName(w, j) \in RunNames
        /\ RunName(w, j)[1] = j /\ RunName(w, j)[2] = w
        /\ RunName(w, j)[3] <= Cardinality(PaidBy(w, j))
        /\ \A x \in payments : x.run # RunName(w, j)
    BY NamesOfRuns, NewRun
  <2> QED
    BY <1>2, <2>1, <2>2 DEF RunsAreFresh, Busy
<1>4. ASSUME NEW w \in Workers, NEW d \in Distributors, PaysNothing(w, d) PROVE RunsAreFresh'
  <2>1. Busy(w) /\ Visit(w, d, 0) /\ UNCHANGED payments
    BY <1>4 DEF PaysNothing
  <2>2. /\ cycle'[w].job = cycle[w].job /\ cycle'[w].run = cycle[w].run
        /\ cycle'[w].queue = cycle[w].queue \ {d}
        /\ \A v \in Workers : v # w => cycle'[v] = cycle[v]
    BY <2>1, VisitedCycle
  <2> QED
    BY <1>2, <2>1, <2>2 DEF RunsAreFresh, Busy
<1>5. ASSUME NEW w \in Workers, Ends(w) PROVE RunsAreFresh'
  <2>1. cycle'[w].job = None /\ (\A v \in Workers : v # w => cycle'[v] = cycle[v])
        /\ UNCHANGED payments
    BY <1>5, EndedCycle, IdleIsACycle DEF Ends
  <2> QED
    BY <1>2, <2>1 DEF RunsAreFresh, Busy
<1>6. ASSUME NEW w \in Workers, NEW d \in Distributors, NEW x \in Payments, PaysOut(w, d, x)
      PROVE  RunsAreFresh'
  <2>1. Busy(w) /\ Visit(w, d, x.amount) /\ x.amount \in Nat
        /\ payments' = payments \cup {x} /\ x.to = d /\ x.run = cycle[w].run
    BY <1>6 DEF PaysOut, Payments
  <2>2. /\ cycle'[w].job = cycle[w].job /\ cycle'[w].run = cycle[w].run
        /\ cycle'[w].queue = cycle[w].queue \ {d}
        /\ \A v \in Workers : v # w => cycle'[v] = cycle[v]
    BY <2>1, VisitedCycle
  <2>3. \A v, j : /\ Cardinality(PaidBy(v, j)) \in Nat /\ Cardinality(PaidBy(v, j))' \in Nat
                  /\ Cardinality(PaidBy(v, j)) <= Cardinality(PaidBy(v, j))'
                  /\ v = w /\ j = cycle[w].job =>
                       Cardinality(PaidBy(v, j)) < Cardinality(PaidBy(v, j))'
    BY <1>6, PaidByGrows
  <2>4. /\ x.run[1] = cycle[w].job /\ x.run[2] = w /\ x.run \in RunNames
        /\ x.run[3] <= Cardinality(PaidBy(w, cycle[w].job)) /\ x.run[3] \in Nat
    BY <2>1, BusyFacts DEF RunsAreFresh, RunNames
  <2>5. \A y \in payments : y.run[3] \in Nat /\ y.run[3] < Cardinality(PaidBy(y.run[2], y.run[1]))
    BY DEF TypeOK, Payments, RunNames, RunsAreFresh
  <2>6. ASSUME NEW y \in payments'
        PROVE  y.run[3] < Cardinality(PaidBy(y.run[2], y.run[1]))'
    <3>1. CASE y \in payments
      <4>1. PICK v, j : v = y.run[2] /\ j = y.run[1]
        OBVIOUS
      <4>2. y.run[3] \in Nat /\ y.run[3] < Cardinality(PaidBy(v, j))
        BY <2>5, <3>1, <4>1
      <4>3. y.run[3] < Cardinality(PaidBy(v, j))'
        BY <2>3, <4>2
      <4> QED
        BY <4>1, <4>3
    <3>2. CASE y = x
      <4>1. PICK j : j = cycle[w].job
        OBVIOUS
      <4>2. x.run[3] < Cardinality(PaidBy(w, j))'
        BY <2>3, <2>4, <4>1
      <4> QED
        BY <2>4, <3>2, <4>1, <4>2
    <3> QED
      BY <2>1, <3>1, <3>2
  <2>7. ASSUME NEW v \in Workers, Busy(v)'
        PROVE  /\ cycle'[v].run \in RunNames
               /\ cycle'[v].run[1] = cycle'[v].job /\ cycle'[v].run[2] = v
               /\ cycle'[v].run[3] <= Cardinality(PaidBy(v, cycle[v].job))'
               /\ \A y \in payments' : y.run = cycle'[v].run => y.to \notin cycle'[v].queue
    <3>1. Busy(v) /\ cycle'[v].job = cycle[v].job /\ cycle'[v].run = cycle[v].run
          /\ cycle'[v].queue \subseteq cycle[v].queue
      BY <2>1, <2>2, <2>7 DEF Busy
    <3>2. /\ cycle[v].run \in RunNames /\ cycle[v].run[3] \in Nat
          /\ cycle[v].run[1] = cycle[v].job /\ cycle[v].run[2] = v
          /\ cycle[v].run[3] <= Cardinality(PaidBy(v, cycle[v].job))
          /\ \A y \in payments : y.run = cycle[v].run => y.to \notin cycle[v].queue
      BY <3>1 DEF RunsAreFresh, RunNames
    <3>3. PICK j : j = cycle[v].job /\ j = cycle'[v].job
      BY <3>1
    <3>4. cycle[v].run[3] <= Cardinality(PaidBy(v, j))'
      BY <2>3, <3>2, <3>3
    <3>5. x.run = cycle[v].run => x.to \notin cycle'[v].queue
      BY <2>1, <2>2, <2>4, <3>2
    <3>6. \A y \in payments' : y.run = cycle'[v].run => y.to \notin cycle'[v].queue
      BY <2>1, <3>1, <3>2, <3>5
    <3>7. Cardinality(PaidBy(v, cycle[v].job))' = Cardinality(PaidBy(v, j))'
      BY <3>3
    <3> QED
      BY <3>1, <3>2, <3>4, <3>6, <3>7
  <2> QED
    BY <2>6, <2>7 DEF RunsAreFresh
<1>7. CASE \E p \in Purchases : (Purchase(p) \/ CancelPurchase(p)) /\ UNCHANGED otherVars
  BY <1>1, <1>7 DEF otherVars
<1>8. CASE Elsewhere
  BY <1>1, <1>8 DEF Elsewhere
<1>9. CASE \E w \in Workers : \E d \in Distributors : \E x \in Payments : PaysOut(w, d, x)
  BY <1>6, <1>9
<1> QED
  BY <1>3, <1>4, <1>5, <1>7, <1>8, <1>9, StepKinds DEF BinaryPaid, MatchingPaid

-----------------------------------------------------------------------------
(* What cycles pay.                                                         *)

\* The binary bonuses of the week before a day.
WeekOf(d, day) == {x \in BinaryBonuses(d) : x.day \in (day - Week)..day}

LEMMA CapKept ==
  ASSUME TypeOK, RowsAreFinite, RunsAreFresh, DatesInOrder, WeeklyCapHolds, [Next]_vars
  PROVE  WeeklyCapHolds'
<1>1. ASSUME UNCHANGED payments PROVE WeeklyCapHolds'
  BY <1>1 DEF WeeklyCapHolds, BinaryBonuses
<1>2. ASSUME NEW w \in Workers, NEW d \in Distributors, NEW x \in Payments,
             BinaryPaid(w, d, x) \/ MatchingPaid(w, d, x)
      PROVE  WeeklyCapHolds'
  <2>1. PaysOut(w, d, x) /\ Busy(w) /\ x.day = today /\ today \in Days
    BY <1>2 DEF BinaryPaid, MatchingPaid, PaysOut, TypeOK, PvTypeOK
  <2> SUFFICES ASSUME NEW b \in Distributors, NEW day \in Days
               PROVE  Total({y \in BinaryBonuses(b)' : y.day \in (day - Week)..day}) <= Cap
    BY DEF WeeklyCapHolds, Total
  <2>2. PICK rows : rows = BinaryBonuses(b)
    OBVIOUS
  <2>3. PICK week : week = {y \in rows : y.day \in (day - Week)..day}
    OBVIOUS
  <2>4. Total(week) <= Cap
    BY <2>2, <2>3 DEF WeeklyCapHolds
  <2>5. /\ x \notin rows /\ rows \in SUBSET Payments /\ IsFiniteSet(rows)
        /\ BinaryBonuses(b)' = IF x.job = "binary" /\ b = d THEN rows \cup {x} ELSE rows
    BY <2>1, <2>2, BonusesGrow
  <2>6. CASE ~(x.job = "binary" /\ b = d /\ x.day \in (day - Week)..day)
    <3>1. {y \in BinaryBonuses(b)' : y.day \in (day - Week)..day} = week
      BY <2>3, <2>5, <2>6
    <3> QED
      BY <2>4, <3>1
  <2>7. CASE x.job = "binary" /\ b = d /\ x.day \in (day - Week)..day
    <3> DEFINE at == cycle[w].at
    <3>1. x.amount = CappedBonus(d, at) /\ x.amount \in Nat \ {0}
      BY <1>2, <2>7 DEF BinaryPaid, MatchingPaid, PaysOut, Payments
    <3>2. at \in Days /\ at <= today
      BY <2>1, BusyFacts DEF DatesInOrder
    <3>3. x.amount + PaidThisWeek(d, at) <= Cap /\ PaidThisWeek(d, at) \in Nat
      BY <3>1, <3>2, BinaryFacts DEF RowsAreFinite
    <3>4. PICK recent : recent = {y \in rows : y.day >= at - Week}
      OBVIOUS
    <3>5. PaidThisWeek(d, at) = Total(recent)
      BY <2>2, <2>7, <3>4 DEF PaidThisWeek
    <3>6. week \in SUBSET recent
      <4>1. today <= day /\ day \in Nat /\ at \in Nat /\ today \in Nat /\ Week \in Nat
        BY <2>1, <2>7, <3>2, DaysAreFinite, RateAssumption
      <4>2. \A y \in rows : y.day \in Nat
        BY <2>5, DaysAreFinite DEF Payments
      <4> HIDE DEF at
      <4>3. \A y \in rows : y.day \in (day - Week)..day => y.day >= at - Week
        BY <3>2, <4>1, <4>2
      <4> QED
        BY <2>3, <3>4, <4>3
    <3>7. recent \in SUBSET Payments /\ IsFiniteSet(recent)
      BY <2>5, <3>4, FS_Subset
    <3>8. Total(week) <= Total(recent) /\ Total(week) \in Nat
      BY <3>6, <3>7, FewerRows
    <3>9. week \in SUBSET Payments /\ IsFiniteSet(week) /\ x \notin week
      BY <2>3, <2>5, FS_Subset
    <3>10. Total(week \cup {x}) = Total(week) + x.amount
      BY <3>9, RowsGrow
    <3>11. {y \in BinaryBonuses(b)' : y.day \in (day - Week)..day} = week \cup {x}
      BY <2>3, <2>5, <2>7
    <3>12. Total(week) + x.amount <= Cap
      BY <3>1, <3>3, <3>5, <3>8, RateAssumption
    <3> QED
      BY <3>10, <3>11, <3>12
  <2> QED
    BY <2>6, <2>7
<1>3. CASE \E w \in Workers : \E j \in Jobs : StartCycle(w, j)
  BY <1>1, <1>3 DEF StartCycle
<1>4. CASE \E w \in Workers : \E d \in Distributors : PaysNothing(w, d)
  BY <1>1, <1>4 DEF PaysNothing
<1>5. CASE Elsewhere \/ \E w \in Workers : Ends(w)
  BY <1>1, <1>5 DEF Elsewhere, Ends
<1>6. CASE \E p \in Purchases : (Purchase(p) \/ CancelPurchase(p)) /\ UNCHANGED otherVars
  BY <1>1, <1>6 DEF otherVars
<1> QED
  BY <1>2, <1>3, <1>4, <1>5, <1>6, StepKinds

\* What a distributor was paid is what his spent PV is worth.
Worth(d) ==
  LET paid  == Total(BinaryBonuses(d))
      times == Cardinality(BinaryBonuses(d))
  IN  /\ 10 * paid >= Rate * SpentPv(d) - 5 * times
      /\ 10 * paid <= Rate * (SpentPv(d) + times) + 5 * times

LEMMA PaidForIs == PaidForSpent <=> AuditAddsUp /\ \A d \in Distributors : Worth(d)
BY DEF PaidForSpent, Worth

LEMMA MoreWorth ==
  ASSUME NEW rate \in Nat, NEW paid \in Nat, NEW times \in Nat, NEW spent \in Nat,
         NEW more \in Nat, NEW pv \in Nat,
         10 * paid >= rate * spent - 5 * times,
         10 * paid <= rate * (spent + times) + 5 * times,
         10 * more >= rate * pv - 5, 10 * more <= rate * (pv + 1) + 5
  PROVE  /\ 10 * (paid + more) >= rate * (spent + pv) - 5 * (times + 1)
         /\ 10 * (paid + more) <= rate * ((spent + pv) + (times + 1)) + 5 * (times + 1)
<1>1. rate * (spent + pv) = rate * spent + rate * pv
  OBVIOUS
<1>2. rate * ((spent + pv) + (times + 1)) = rate * (spent + times) + rate * (pv + 1)
  OBVIOUS
<1>3. rate * spent \in Nat /\ rate * pv \in Nat /\ rate * (spent + times) \in Nat
      /\ rate * (pv + 1) \in Nat
  OBVIOUS
<1> QED
  BY <1>1, <1>2, <1>3

LEMMA WorthKept ==
  ASSUME TypeOK, RowsAreFinite, RunsAreFresh, \A d \in Distributors : Worth(d), [Next]_vars
  PROVE  \A d \in Distributors : Worth(d)'
<1>1. ASSUME NEW b, UNCHANGED payments PROVE Worth(b)' <=> Worth(b)
  BY <1>1 DEF Worth, SpentPv, BinaryBonuses
<1>2. ASSUME NEW w \in Workers, NEW d \in Distributors, NEW x \in Payments,
             BinaryPaid(w, d, x) \/ MatchingPaid(w, d, x), NEW b \in Distributors
      PROVE  Worth(b)'
  <2>1. PaysOut(w, d, x) /\ Busy(w)
    BY <1>2 DEF BinaryPaid, MatchingPaid, PaysOut
  <2>2. PICK rows : rows = BinaryBonuses(b)
    OBVIOUS
  <2>3. /\ x \notin rows /\ rows \in SUBSET Payments /\ IsFiniteSet(rows)
        /\ BinaryBonuses(b)' = IF x.job = "binary" /\ b = d THEN rows \cup {x} ELSE rows
    BY <2>1, <2>2, BonusesGrow
  <2>4. /\ SpentPv(b) \in Nat
        /\ SpentPv(b)' = SpentPv(b) + IF x.job = "binary" /\ b = d THEN x.pv ELSE 0
    BY <2>1, SpentGrows
  <2>5. /\ 10 * Total(rows) >= Rate * SpentPv(b) - 5 * Cardinality(rows)
        /\ 10 * Total(rows) <= Rate * (SpentPv(b) + Cardinality(rows)) + 5 * Cardinality(rows)
    BY <2>2 DEF Worth
  <2>6. CASE ~(x.job = "binary" /\ b = d)
    <3>1. BinaryBonuses(b)' = rows /\ SpentPv(b)' = SpentPv(b)
      BY <2>3, <2>4, <2>6
    <3>2. Total(BinaryBonuses(b))' = Total(rows)
      BY <3>1 DEF Total
    <3> QED
      BY <2>5, <3>1, <3>2 DEF Worth
  <2>7. CASE x.job = "binary" /\ b = d
    <3>1. BinaryBonuses(b)' = rows \cup {x} /\ SpentPv(b)' = SpentPv(b) + x.pv
      BY <2>3, <2>4, <2>7
    <3>2. Total(BinaryBonuses(b))' = Total(rows \cup {x})
      BY <3>1 DEF Total
    <3>3. /\ Total(rows \cup {x}) = Total(rows) + x.amount
          /\ Cardinality(rows \cup {x}) = Cardinality(rows) + 1
          /\ Total(rows) \in Nat /\ Cardinality(rows) \in Nat
      BY <2>3, RowsGrow, RowsSum
    <3>4. /\ x.amount \in Nat /\ x.pv \in Nat
          /\ 10 * x.amount >= Rate * x.pv - 5
          /\ 10 * x.amount <= Rate * (x.pv + 1) + 5
      <4>1. x.amount = CappedBonus(d, cycle[w].at) /\ x.pv = PvToConsume(d, cycle[w].at)
        BY <1>2, <2>7 DEF BinaryPaid, MatchingPaid, PaysOut
      <4>2. cycle[w].at \in Days
        BY <2>1, BusyFacts
      <4> QED
        BY <4>1, <4>2, BinaryFacts DEF Payments, RowsAreFinite
    <3>5. Rate \in Nat
      BY RateAssumption
    <3>6. /\ 10 * (Total(rows) + x.amount) >=
               Rate * (SpentPv(b) + x.pv) - 5 * (Cardinality(rows) + 1)
          /\ 10 * (Total(rows) + x.amount) <=
               Rate * ((SpentPv(b) + x.pv) + (Cardinality(rows) + 1)) + 5 * (Cardinality(rows) + 1)
      BY <2>4, <2>5, <3>3, <3>4, <3>5, MoreWorth
    <3>7. Cardinality(BinaryBonuses(b))' = Cardinality(rows) + 1
          /\ Total(BinaryBonuses(b))' = Total(rows) + x.amount
      BY <3>1, <3>2, <3>3
    <3> QED
      BY <3>1, <3>6, <3>7 DEF Worth
  <2> QED
    BY <2>6, <2>7
<1>3. CASE \E w \in Workers : \E j \in Jobs : StartCycle(w, j)
  BY <1>1, <1>3 DEF StartCycle
<1>4. CASE \E w \in Workers : \E d \in Distributors : PaysNothing(w, d)
  BY <1>1, <1>4 DEF PaysNothing
<1>5. CASE Elsewhere \/ \E w \in Workers : Ends(w)
  BY <1>1, <1>5 DEF Elsewhere, Ends
<1>6. CASE \E p \in Purchases : (Purchase(p) \/ CancelPurchase(p)) /\ UNCHANGED otherVars
  BY <1>1, <1>6 DEF otherVars
<1> QED
  BY <1>2, <1>3, <1>4, <1>5, <1>6, StepKinds

\* The payments of a run.
RunRows(r) == {x \in payments : x.run = r}

LEMMA RunRowsAre ==
  ASSUME TypeOK, RowsAreFinite
  PROVE  \A r : RunRows(r) \in SUBSET Payments /\ IsFiniteSet(RunRows(r)) /\ Total(RunRows(r)) \in Nat
<1> SUFFICES ASSUME NEW r
             PROVE  RunRows(r) \in SUBSET Payments /\ IsFiniteSet(RunRows(r))
                    /\ Total(RunRows(r)) \in Nat
  OBVIOUS
<1>1. RunRows(r) \in SUBSET Payments /\ IsFiniteSet(RunRows(r))
  BY FS_Subset DEF RunRows, TypeOK, RowsAreFinite
<1> QED
  BY <1>1, RowsSum

\* The audit, said with RunRows.
AuditSays ==
  /\ \A a \in audit : a.total = Total(RunRows(a.run)) /\ \E x \in payments : x.run = a.run
  /\ \A w \in Workers : Busy(w) =>
       /\ cycle[w].total = Total(RunRows(cycle[w].run))
       /\ \A a \in audit : a.run # cycle[w].run

LEMMA AuditIs == AuditAddsUp /\ TotalsAddUp <=> AuditSays
BY DEF AuditAddsUp, TotalsAddUp, AuditSays, RunRows

LEMMA AuditKept ==
  ASSUME TypeOK, RowsAreFinite, RunsAreFresh, AuditSays, [Next]_vars
  PROVE  AuditSays'
<1>1. ASSUME UNCHANGED <<payments, cycle, audit>> PROVE AuditSays'
  BY <1>1 DEF AuditSays, Busy, RunRows, Total
<1>2. ASSUME UNCHANGED payments PROVE \A r : Total(RunRows(r))' = Total(RunRows(r))
  BY <1>2 DEF RunRows, Total
<1>3. ASSUME NEW w \in Workers, NEW j \in Jobs, StartCycle(w, j) PROVE AuditSays'
  <2>1. /\ cycle'[w].run = RunName(w, j) /\ cycle'[w].total = 0
        /\ \A v \in Workers : v # w => cycle'[v] = cycle[v]
        /\ UNCHANGED <<payments, audit>>
    BY <1>3, StartedCycle
  <2>2. \A x \in payments : x.run # RunName(w, j)
    BY NewRun
  <2>3. Total(RunRows(RunName(w, j))) = 0
    <3>1. RunRows(RunName(w, j)) = {}
      BY <2>2 DEF RunRows
    <3> QED
      BY <3>1, SumOfNothing DEF Total
  <2>4. PICK r : r = RunName(w, j)
    OBVIOUS
  <2>5. \A q : Total(RunRows(q))' = Total(RunRows(q))
    BY <1>2, <2>1
  <2>6. \A a \in audit : a.run # r
    BY <2>2, <2>4 DEF AuditSays
  <2>7. cycle'[w].total = Total(RunRows(cycle'[w].run))
    BY <2>1, <2>3
  <2> QED
    BY <2>1, <2>4, <2>5, <2>6, <2>7 DEF AuditSays, Busy
<1>4. ASSUME NEW w \in Workers, NEW d \in Distributors, PaysNothing(w, d) PROVE AuditSays'
  <2>1. Busy(w) /\ Visit(w, d, 0) /\ UNCHANGED <<payments, audit>>
    BY <1>4 DEF PaysNothing, Visit
  <2>2. /\ cycle'[w].run = cycle[w].run /\ cycle'[w].total = cycle[w].total + 0
        /\ \A v \in Workers : v # w => cycle'[v] = cycle[v]
    BY <2>1, VisitedCycle
  <2>3. cycle'[w].total = cycle[w].total
    BY <2>1, <2>2, BusyFacts
  <2>4. \A q : Total(RunRows(q))' = Total(RunRows(q))
    BY <1>2, <2>1
  <2> QED
    BY <2>1, <2>2, <2>3, <2>4 DEF AuditSays, Busy
<1>5. ASSUME NEW w \in Workers, Ends(w) PROVE AuditSays'
  <2>1. cycle'[w].job = None /\ (\A v \in Workers : v # w => cycle'[v] = cycle[v])
        /\ UNCHANGED payments /\ Busy(w) /\ audit' \in {audit, audit \cup AuditRows(w)}
    BY <1>5, EndedCycle, IdleIsACycle DEF Ends
  <2>2. \A q : Total(RunRows(q))' = Total(RunRows(q))
    BY <1>2, <2>1
  <2>3. ASSUME NEW a \in AuditRows(w)
        PROVE  /\ a.run = cycle[w].run /\ a.total = Total(RunRows(a.run))
               /\ \E x \in payments : x.run = a.run
    <3>1. a.run = cycle[w].run /\ a.total = cycle[w].total /\ cycle[w].total # 0
      BY <2>3 DEF AuditRows
    <3>2. a.total = Total(RunRows(a.run))
      BY <2>1, <3>1 DEF AuditSays
    <3>3. RunRows(a.run) # {}
      BY <3>1, <3>2, SumOfNothing DEF Total
    <3> QED
      BY <3>1, <3>2, <3>3 DEF RunRows
  <2>4. \A v \in Workers : Busy(v) => cycle[v].run[2] = v
    BY DEF RunsAreFresh
  <2>5. \A v \in Workers : Busy(v)' => v # w /\ Busy(v) /\ cycle[v].run # cycle[w].run
    BY <2>1, <2>4 DEF Busy
  <2> QED
    BY <2>1, <2>2, <2>3, <2>5 DEF AuditSays
<1>6. ASSUME NEW w \in Workers, NEW d \in Distributors, NEW x \in Payments, PaysOut(w, d, x)
      PROVE  AuditSays'
  <2>1. Busy(w) /\ Visit(w, d, x.amount) /\ x.amount \in Nat /\ UNCHANGED audit
        /\ payments' = payments \cup {x} /\ x.run = cycle[w].run /\ x \notin payments
    BY <1>6, PaysOnce DEF PaysOut, Visit, Payments
  <2>2. /\ cycle'[w].run = cycle[w].run /\ cycle'[w].total = cycle[w].total + x.amount
        /\ \A v \in Workers : v # w => cycle'[v] = cycle[v]
        /\ Busy(w)'
    BY <2>1, VisitedCycle
  <2>3. \A q : q # x.run => Total(RunRows(q))' = Total(RunRows(q))
    <3> SUFFICES ASSUME NEW q, q # x.run PROVE Total(RunRows(q))' = Total(RunRows(q))
      OBVIOUS
    <3>1. RunRows(q)' = RunRows(q)
      BY <2>1 DEF RunRows
    <3> QED
      BY <3>1 DEF Total
  <2>4. Total(RunRows(x.run))' = Total(RunRows(x.run)) + x.amount
    <3>1. PICK rows, r : r = x.run /\ rows = RunRows(r)
      OBVIOUS
    <3>2. rows \in SUBSET Payments /\ IsFiniteSet(rows) /\ x \notin rows
      BY <2>1, <3>1, RunRowsAre DEF RunRows
    <3>3. RunRows(r)' = rows \cup {x}
      BY <2>1, <3>1 DEF RunRows
    <3>4. Total(RunRows(r))' = Total(rows \cup {x})
      BY <3>3 DEF Total
    <3> QED
      BY <3>1, <3>2, <3>4, RowsGrow
  <2>5. \A v \in Workers : Busy(v) => cycle[v].run[2] = v
    BY DEF RunsAreFresh
  <2>6. \A v \in Workers : v # w /\ Busy(v) => cycle[v].run # x.run
    BY <2>1, <2>5
  <2>7. \A a \in audit : a.run # x.run
    BY <2>1 DEF AuditSays
  <2>8. ASSUME NEW a \in audit'
        PROVE  a.total = Total(RunRows(a.run))' /\ \E y \in payments' : y.run = a.run
    BY <2>1, <2>3, <2>7 DEF AuditSays
  <2>9. ASSUME NEW v \in Workers, Busy(v)'
        PROVE  /\ cycle'[v].total = Total(RunRows(cycle[v].run))'
               /\ cycle'[v].run = cycle[v].run
               /\ \A a \in audit' : a.run # cycle'[v].run
    <3>1. CASE v = w
      <4>1. cycle[w].total = Total(RunRows(cycle[w].run))
        BY <2>1 DEF AuditSays
      <4>2. PICK r : r = x.run /\ r = cycle[w].run
        BY <2>1
      <4>3. cycle'[w].total = Total(RunRows(r))'
        BY <2>2, <2>4, <4>1, <4>2
      <4> QED
        BY <2>1, <2>2, <2>7, <3>1, <4>2, <4>3
    <3>2. CASE v # w
      <4>1. Busy(v) /\ cycle'[v] = cycle[v]
        BY <2>2, <2>9, <3>2 DEF Busy
      <4>2. PICK r : r = cycle[v].run
        OBVIOUS
      <4>3. Total(RunRows(r))' = Total(RunRows(r))
        BY <2>3, <2>6, <3>2, <4>1, <4>2
      <4> QED
        BY <2>1, <4>1, <4>2, <4>3 DEF AuditSays
    <3> QED
      BY <3>1, <3>2
  <2> QED
    BY <2>8, <2>9 DEF AuditSays
<1>7. CASE \E p \in Purchases : (Purchase(p) \/ CancelPurchase(p)) /\ UNCHANGED otherVars
  BY <1>1, <1>7 DEF otherVars
<1>8. CASE Elsewhere
  BY <1>1, <1>8 DEF Elsewhere
<1>9. CASE \E w \in Workers : \E d \in Distributors : \E x \in Payments : PaysOut(w, d, x)
  BY <1>6, <1>9
<1> QED
  BY <1>3, <1>4, <1>5, <1>7, <1>8, <1>9, StepKinds DEF BinaryPaid, MatchingPaid

-----------------------------------------------------------------------------
(* BonusInv.                                                                *)

LEMMA InitTypes == ASSUME Init PROVE TypeOK
<1>1. 0 \in Days /\ MonthOf(0) \in Months
  BY DaysAreFinite, MonthsOfDays, PvAssumption
<1>2. PvTypeOK
  BY <1>1, PvAssumption DEF Init, PvInit, PvTypeOK
<1>3. cycle \in [Workers -> Cycles] /\ \A w \in Workers : cycle[w] = Idle
  BY IdleIsACycle DEF Init
<1> QED
  BY <1>1, <1>2, <1>3, IntervalAssumption, FaultAssumption DEF Init, TypeOK

LEMMA InitLedgers == ASSUME Init PROVE LedgersFollowPurchases
<1>1. \A p \in Purchases : purchase[p].state = "none"
  BY DEF Init, PvInit
<1>2. ASSUME NEW d \in Distributors, NEW leg \in Legs
      PROVE  pvLedger[d][leg] = PvTotal(Standing(d, leg))
  <2>1. Standing(d, leg) = {}
    BY <1>1 DEF Standing, Counted
  <2> QED
    BY <2>1, SumOfNothing DEF PvTotal, Init, PvInit
<1>3. ASSUME NEW d \in Distributors, NEW m \in Months
      PROVE  personal[d][m] = (IF m = 0 THEN EarlierPersonal[d] ELSE 0) + PvTotal(Own(d, m))
  <2>1. Own(d, m) = {}
    BY <1>1 DEF Own
  <2>2. PvTotal(Own(d, m)) = 0
    BY <2>1, SumOfNothing DEF PvTotal
  <2>3. personal[d][m] = (IF m = 0 THEN EarlierPersonal[d] ELSE 0)
    BY DEF Init, PvInit
  <2>4. PICK e \in Nat : e = IF m = 0 THEN EarlierPersonal[d] ELSE 0
    BY PvAssumption
  <2> QED
    BY <2>2, <2>3, <2>4
<1> QED
  BY <1>2, <1>3, LedgersAre DEF LedgersSay

LEMMA InitBonuses ==
  ASSUME Init
  PROVE  /\ \A d : BinaryBonuses(d) = {} /\ SpentPv(d) = 0 /\ Total(BinaryBonuses(d)) = 0
                   /\ Cardinality(BinaryBonuses(d)) = 0
         /\ \A w \in Workers : ~Busy(w)
<1>1. \A d : BinaryBonuses(d) = {}
  BY DEF Init, BinaryBonuses
<1>2. \A w \in Workers : ~Busy(w)
  BY DEF Init, Busy, Idle
<1>3. \A d : SpentPv(d) = 0 /\ Total(BinaryBonuses(d)) = 0
  BY <1>1, SumOfNothing DEF SpentPv, Total
<1> QED
  BY <1>1, <1>2, <1>3, FS_EmptySet

LEMMA InitConserved == ASSUME Init PROVE Conserved
<1> SUFFICES ASSUME NEW d \in Distributors, NEW leg \in Legs
             PROVE  SpentPv(d) + LivePv(d, leg) = PvTotal(Counted(d, leg))
                    /\ PvTotal(Counted(d, leg)) = 0
  BY DEF Conserved
<1>1. Counted(d, leg) = {}
  BY DEF Init, PvInit, Counted
<1>2. \A t \in Days : bucket[d][leg][t] = 0
  BY DEF Init, PvInit
<1>3. LivePv(d, leg) = 0
  BY <1>2, DaysAreFinite, SumOfZeros DEF LivePv
<1>4. PvTotal(Counted(d, leg)) = 0
  BY <1>1, SumOfNothing DEF PvTotal
<1> QED
  BY <1>3, <1>4, InitBonuses

LEMMA InitBonusInv == ASSUME Init PROVE BonusInv
<1>1. PvIsConserved
  BY InitTypes, InitLedgers, InitConserved, ConservedIs
<1>2. WeeklyCapHolds
  <2>1. ASSUME NEW d \in Distributors, NEW day \in Days
        PROVE  {x \in BinaryBonuses(d) : x.day \in (day - Week)..day} = {}
    BY InitBonuses
  <2>2. Total({}) <= Cap
    BY SumOfNothing, RateAssumption DEF Total
  <2> QED
    BY <2>1, <2>2 DEF WeeklyCapHolds
<1>3. PaidForSpent
  <2>1. \A d \in Distributors : Worth(d)
    BY InitBonuses, RateAssumption DEF Worth
  <2>2. AuditAddsUp
    BY DEF AuditAddsUp, Init
  <2> QED
    BY <2>1, <2>2, PaidForIs
<1>4. RowsAreFinite
  <2>1. Bought = {} /\ payments = {}
    BY DEF Init, PvInit, Bought
  <2> QED
    BY <2>1, FS_EmptySet DEF RowsAreFinite
<1>5. DatesInOrder /\ RunsAreFresh /\ TotalsAddUp
  BY InitBonuses DEF DatesInOrder, RunsAreFresh, TotalsAddUp, Init
<1>6. RowsHaveOrigin
  BY DEF RowsHaveOrigin, Init, PvInit
<1> QED
  BY <1>1, <1>2, <1>3, <1>4, <1>5, <1>6 DEF BonusInv

LEMMA BonusInvKept == ASSUME BonusInv, [Next]_vars PROVE BonusInv'
<1>1. /\ TypeOK /\ LedgersFollowPurchases /\ Conserved /\ WeeklyCapHolds
      /\ AuditSays /\ (\A d \in Distributors : Worth(d))
      /\ RowsAreFinite /\ DatesInOrder /\ RunsAreFresh /\ RowsHaveOrigin
  BY ConservedIs, PaidForIs, AuditIs DEF BonusInv
<1>2. TypeOK' /\ LedgersFollowPurchases' /\ Conserved'
  BY <1>1, TypesKept, LedgersKept, ConservedKept
<1>3. RowsAreFinite' /\ DatesInOrder' /\ RunsAreFresh' /\ RowsHaveOrigin'
  BY <1>1, FiniteKept, DatesKept, RunsKept, OriginKept
<1>4. WeeklyCapHolds' /\ AuditSays' /\ \A d \in Distributors : Worth(d)'
  BY <1>1, CapKept, AuditKept, WorthKept
<1>5. /\ (PvIsConserved <=> TypeOK /\ LedgersFollowPurchases /\ Conserved)'
      /\ (PaidForSpent <=> AuditAddsUp /\ \A d \in Distributors : Worth(d))'
      /\ (AuditAddsUp /\ TotalsAddUp <=> AuditSays)'
  BY ConservedIs, PaidForIs, AuditIs, PTL
<1>6. (\A d \in Distributors : Worth(d))'
  BY <1>4
<1>7. PvIsConserved' /\ PaidForSpent' /\ TotalsAddUp'
  BY <1>2, <1>4, <1>5, <1>6
<1> QED
  BY <1>3, <1>4, <1>7 DEF BonusInv

\* In every run, whatever cycles overlap, fail or crash, the books of the bonuses are
\* in order (apps/commissions/tasks.py, apps/commissions/services.py).
THEOREM BonusInvHolds == Spec => []BonusInv
<1>1. Init => BonusInv
  BY InitBonusInv
<1>2. BonusInv /\ [Next]_vars => BonusInv'
  BY BonusInvKept
<1> QED
  BY <1>1, <1>2, PTL DEF Spec

\* No PV pays twice, and none is lost but by expiry or a reversal, for every tree and
\* any number of purchases, cycles and days (process_binary_bonus_for_distributor,
\* expire_old_pv, consume_leg_pv_fifo, reverse_ancestor_pv).
THEOREM NoPvIsLostOrPaidTwice == Spec => []PvIsConserved
<1>1. BonusInv => PvIsConserved
  BY DEF BonusInv
<1> QED
  BY <1>1, BonusInvHolds, PTL

\* No seven days bring more binary bonus than the cap, though cycles overlap and each
\* looks back from its own day (apply_weekly_binary_bonus_cap).
THEOREM CapIsNeverExceeded == Spec => []WeeklyCapHolds
<1>1. BonusInv => WeeklyCapHolds
  BY DEF BonusInv
<1> QED
  BY <1>1, BonusInvHolds, PTL

\* What was paid is the rate on the PV that was spent, up to rounding, and the audit
\* record of a cycle shows it (CommissionCycleRun, PvToConsume).
THEOREM SpentPvIsPaid == Spec => []PaidForSpent
<1>1. BonusInv => PaidForSpent
  BY DEF BonusInv
<1> QED
  BY <1>1, BonusInvHolds, PTL
=============================================================================
