-------------------------- MODULE Induction_proofs --------------------------
(***************************************************************************)
(* Induction in the form the provers can use, about sets of numbers, and   *)
(* what follows for the sums that the models take with SumFunctionOnSet.   *)
(***************************************************************************)
EXTENDS Integers, FiniteSets, Functions, FiniteSetTheorems, WellFoundedInduction, TLAPS

Below == {ss \in Nat \X Nat : ss[1] < ss[2]}

LEMMA BelowIsWellFounded == IsWellFoundedOn(Below, Nat)
BY NatLessThanWellFounded DEF Below, OpToRel

\* A set of natural numbers that is not empty has a least one.
LEMMA LeastExists ==
  ASSUME NEW T \in SUBSET Nat, T # {} PROVE \E x \in T : \A y \in T : x <= y
<1>1. \E x \in T : \A y \in T : ~ (<<y, x>> \in Below)
  BY BelowIsWellFounded, WFMin
<1>2. \A x, y \in T : ~ (<<y, x>> \in Below) => x <= y
  BY DEF Below
<1> QED
  BY <1>1, <1>2

\* And a bounded one a greatest.
LEMMA GreatestExists ==
  ASSUME NEW n \in Nat, NEW T \in SUBSET (0 .. n), T # {}
  PROVE  \E x \in T : \A y \in T : y <= x
<1> DEFINE S == {n - x : x \in T}
<1>1. S \in SUBSET Nat /\ S # {}
  OBVIOUS
<1>2. PICK s \in S : \A y \in S : s <= y
  BY <1>1, LeastExists
<1>3. PICK x \in T : s = n - x
  BY <1>2
<1>4. ASSUME NEW y \in T PROVE y <= x
  <2>1. n - y \in S /\ s <= n - y
    BY <1>2
  <2> QED
    BY <1>3, <2>1
<1> QED
  BY <1>4

\* Numbers that are reached from 0 one by one are all there is.
LEMMA ReachesAll ==
  ASSUME NEW T \in SUBSET Nat, 0 \in T, \A n \in T : n + 1 \in T
  PROVE  T = Nat
<1> SUFFICES ASSUME Nat \ T # {} PROVE FALSE
  OBVIOUS
<1>1. PICK x \in Nat \ T : \A y \in Nat \ T : x <= y
  BY LeastExists
<1>2. x # 0 /\ x - 1 \in Nat
  BY <1>1
<1>3. x - 1 \in T
  BY <1>1, <1>2
<1> QED
  BY <1>2, <1>3

\* What is left has one element less.
LEMMA OneLess ==
  ASSUME NEW S, IsFiniteSet(S), NEW x \in S
  PROVE  /\ IsFiniteSet(S \ {x}) /\ Cardinality(S) \in Nat /\ Cardinality(S \ {x}) \in Nat
         /\ Cardinality(S \ {x}) = Cardinality(S) - 1
BY FS_RemoveElement, FS_CardinalityType

\* Every finite set of indices has what sets get by adding one index at a time.
LEMMA SetsReachAll ==
  ASSUME NEW S, IsFiniteSet(S), NEW Good \in SUBSET (SUBSET S),
         {} \in Good,
         \A s \in SUBSET S : s # {} /\ (\A x \in s : s \ {x} \in Good) => s \in Good
  PROVE  S \in Good
<1> DEFINE Sizes == {n \in Nat : \A s \in SUBSET S : Cardinality(s) = n => s \in Good}
<1>1. \A s \in SUBSET S : IsFiniteSet(s) /\ Cardinality(s) \in Nat
  BY FS_Subset, FS_CardinalityType
<1>2. 0 \in Sizes
  BY <1>1, FS_EmptySet
<1>3. ASSUME NEW n \in Sizes PROVE n + 1 \in Sizes
  <2>1. ASSUME NEW s \in SUBSET S, Cardinality(s) = n + 1 PROVE s \in Good
    <3>1. s # {}
      BY <2>1, FS_EmptySet
    <3>2. \A x \in s : s \ {x} \in SUBSET S /\ Cardinality(s \ {x}) = n
      BY <1>1, <2>1, OneLess
    <3> QED
      BY <3>1, <3>2
  <2> QED
    BY <2>1
<1>4. Sizes = Nat
  <2>1. Sizes \in SUBSET Nat
    OBVIOUS
  <2> HIDE DEF Sizes
  <2> QED
    BY <1>2, <1>3, <2>1, ReachesAll
<1> QED
  BY <1>1, <1>4

-----------------------------------------------------------------------------
(* Sums.                                                                    *)

\* The element that a fold takes out of a set next.
Taken(s) == CHOOSE x \in s : TRUE

\* What a fold computes for each subset of S.
Sums(f, S) ==
  CHOOSE iter : iter = [s \in SUBSET S |->
                          IF s = {} THEN 0 ELSE f[Taken(s)] + iter[s \ {Taken(s)}]]

LEMMA SumIsFolded ==
  ASSUME NEW f, NEW S PROVE SumFunctionOnSet(f, S) = Sums(f, S)[S]
BY DEF SumFunctionOnSet, FoldFunctionOnSet, MapThenFoldSet, Sums, Taken

LEMMA TakenIsOne == ASSUME NEW s, s # {} PROVE Taken(s) \in s
BY DEF Taken

\* g computes the sums of the subsets of S that have at most n elements.
SumsUpTo(g, f, S, n) ==
  \A s \in SUBSET S : Cardinality(s) <= n =>
    g[s] = IF s = {} THEN 0 ELSE f[Taken(s)] + g[s \ {Taken(s)}]

LEMMA SumsExist ==
  ASSUME NEW f, NEW S, IsFiniteSet(S)
  PROVE  \A s \in SUBSET S : Sums(f, S)[s] =
           IF s = {} THEN 0 ELSE f[Taken(s)] + Sums(f, S)[s \ {Taken(s)}]
<1> DEFINE Fold(g) == [s \in SUBSET S |->
                         IF s = {} THEN 0 ELSE f[Taken(s)] + g[s \ {Taken(s)}]]
           Good == {n \in Nat : \E g : DOMAIN g = SUBSET S /\ g = [s \in SUBSET S |-> g[s]]
                                       /\ SumsUpTo(g, f, S, n)}
<1>1. \A s \in SUBSET S : IsFiniteSet(s) /\ Cardinality(s) \in Nat
                          /\ Cardinality(s) <= Cardinality(S)
  BY FS_Subset, FS_CardinalityType
<1>2. \A s \in SUBSET S : (Cardinality(s) = 0) <=> (s = {})
  BY <1>1, FS_EmptySet
<1>3. \A s \in SUBSET S : s # {} =>
        /\ Taken(s) \in s /\ s \ {Taken(s)} \in SUBSET S
        /\ Cardinality(s \ {Taken(s)}) = Cardinality(s) - 1
  BY <1>1, TakenIsOne, OneLess
<1>4. 0 \in Good
  <2> DEFINE g == [s \in SUBSET S |-> 0]
  <2>1. SumsUpTo(g, f, S, 0)
    BY <1>1, <1>2 DEF SumsUpTo
  <2> QED
    BY <2>1
<1>5. ASSUME NEW n \in Good PROVE n + 1 \in Good
  <2>1. PICK g : DOMAIN g = SUBSET S /\ g = [s \in SUBSET S |-> g[s]] /\ SumsUpTo(g, f, S, n)
    OBVIOUS
  <2> DEFINE h == [s \in SUBSET S |-> IF Cardinality(s) = n + 1
                                        THEN f[Taken(s)] + g[s \ {Taken(s)}] ELSE g[s]]
  <2>2. ASSUME NEW s \in SUBSET S, Cardinality(s) <= n + 1
        PROVE  h[s] = IF s = {} THEN 0 ELSE f[Taken(s)] + h[s \ {Taken(s)}]
    <3>1. CASE s = {}
      <4>1. Cardinality(s) = 0 /\ Cardinality(s) # n + 1 /\ Cardinality(s) <= n
        BY <1>2, <3>1
      <4> QED
        BY <2>1, <3>1, <4>1 DEF SumsUpTo
    <3>2. CASE s # {}
      <4>1. h[s \ {Taken(s)}] = g[s \ {Taken(s)}]
        BY <1>1, <1>3, <2>2, <3>2
      <4>2. CASE Cardinality(s) = n + 1
        BY <3>2, <4>1, <4>2
      <4>3. CASE Cardinality(s) # n + 1
        <5>1. Cardinality(s) <= n
          BY <1>1, <2>2, <4>3
        <5> QED
          BY <2>1, <3>2, <4>1, <4>3, <5>1 DEF SumsUpTo
      <4> QED
        BY <4>2, <4>3
    <3> QED
      BY <3>1, <3>2
  <2>3. SumsUpTo(h, f, S, n + 1)
    BY <2>2 DEF SumsUpTo
  <2>4. DOMAIN h = SUBSET S /\ h = [s \in SUBSET S |-> h[s]]
    OBVIOUS
  <2> HIDE DEF h
  <2> QED
    BY <2>3, <2>4
<1>6. Good = Nat
  BY <1>4, <1>5, ReachesAll
<1>7. Cardinality(S) \in Good
  BY <1>1, <1>6
<1>8. PICK g : DOMAIN g = SUBSET S /\ g = [s \in SUBSET S |-> g[s]]
               /\ SumsUpTo(g, f, S, Cardinality(S))
  BY <1>7
<1>9. g = Fold(g)
  <2>1. \A s \in SUBSET S : g[s] = Fold(g)[s]
    BY <1>1, <1>8 DEF SumsUpTo
  <2> QED
    BY <1>8, <2>1
<1>10. ASSUME NEW h, h = Fold(h), NEW s \in SUBSET S
      PROVE  h[s] = IF s = {} THEN 0 ELSE f[Taken(s)] + h[s \ {Taken(s)}]
  <2>1. h[s] = Fold(h)[s]
    BY <1>10
  <2> QED
    BY <2>1
<1>11. Sums(f, S) = Fold(Sums(f, S))
  BY <1>9 DEF Sums
<1> HIDE DEF Fold
<1> QED
  BY <1>10, <1>11

\* The sum over a subset is the same, whichever set it is taken in.
LEMMA SumsOfSubset ==
  ASSUME NEW f, NEW S, IsFiniteSet(S), NEW T \in SUBSET S
  PROVE  SumFunctionOnSet(f, T) = Sums(f, S)[T]
<1> DEFINE Good == {s \in SUBSET T : Sums(f, T)[s] = Sums(f, S)[s]}
<1>1. IsFiniteSet(T)
  BY FS_Subset
<1>2. ASSUME NEW s \in SUBSET T
      PROVE  /\ Sums(f, T)[s] = IF s = {} THEN 0 ELSE f[Taken(s)] + Sums(f, T)[s \ {Taken(s)}]
             /\ Sums(f, S)[s] = IF s = {} THEN 0 ELSE f[Taken(s)] + Sums(f, S)[s \ {Taken(s)}]
  <2>1. s \in SUBSET S
    OBVIOUS
  <2>2. Sums(f, T)[s] = IF s = {} THEN 0 ELSE f[Taken(s)] + Sums(f, T)[s \ {Taken(s)}]
    BY <1>1, SumsExist
  <2>3. Sums(f, S)[s] = IF s = {} THEN 0 ELSE f[Taken(s)] + Sums(f, S)[s \ {Taken(s)}]
    BY <2>1, SumsExist
  <2> QED
    BY <2>2, <2>3
<1>3. {} \in Good
  BY <1>2
<1>4. ASSUME NEW s \in SUBSET T, s # {}, \A x \in s : s \ {x} \in Good
      PROVE  s \in Good
  <2>1. Taken(s) \in s
    BY <1>4, TakenIsOne
  <2>2. Sums(f, T)[s \ {Taken(s)}] = Sums(f, S)[s \ {Taken(s)}]
    BY <1>4, <2>1
  <2> QED
    BY <1>2, <1>4, <2>2
<1>5. T \in Good
  <2>1. Good \in SUBSET (SUBSET T)
    OBVIOUS
  <2> HIDE DEF Good
  <2> QED
    BY <1>1, <1>3, <1>4, <2>1, SetsReachAll
<1> QED
  BY <1>5, SumIsFolded

\* The numbers that are summed.
LEMMA SumOfNothing == ASSUME NEW f PROVE SumFunctionOnSet(f, {}) = 0
BY FS_EmptySet, SumIsFolded, SumsExist

LEMMA SumTakesOne ==
  ASSUME NEW f, NEW S, IsFiniteSet(S), S # {}
  PROVE  SumFunctionOnSet(f, S) = f[Taken(S)] + SumFunctionOnSet(f, S \ {Taken(S)})
<1>1. SumFunctionOnSet(f, S) = Sums(f, S)[S]
  BY SumIsFolded
<1>2. SumFunctionOnSet(f, S \ {Taken(S)}) = Sums(f, S)[S \ {Taken(S)}]
  BY SumsOfSubset
<1>3. Sums(f, S)[S] = f[Taken(S)] + Sums(f, S)[S \ {Taken(S)}]
  BY SumsExist
<1> QED
  BY <1>1, <1>2, <1>3

LEMMA SumIsInt ==
  ASSUME NEW f, NEW S, IsFiniteSet(S), \A x \in S : f[x] \in Int
  PROVE  SumFunctionOnSet(f, S) \in Int
<1> DEFINE Good == {s \in SUBSET S : SumFunctionOnSet(f, s) \in Int}
<1>1. {} \in Good
  BY SumOfNothing
<1>2. ASSUME NEW s \in SUBSET S, s # {}, \A x \in s : s \ {x} \in Good
      PROVE  s \in Good
  <2>1. IsFiniteSet(s) /\ Taken(s) \in s
    BY <1>2, FS_Subset, TakenIsOne
  <2>2. SumFunctionOnSet(f, s) = f[Taken(s)] + SumFunctionOnSet(f, s \ {Taken(s)})
    BY <1>2, <2>1, SumTakesOne
  <2> QED
    BY <1>2, <2>1, <2>2
<1>3. Good \in SUBSET (SUBSET S)
  OBVIOUS
<1>4. S \in Good
  <2> HIDE DEF Good
  <2> QED
    BY <1>1, <1>2, <1>3, SetsReachAll
<1> QED
  BY <1>4

\* It does not matter in which order the numbers are added.
LEMMA SumRemoves ==
  ASSUME NEW f, NEW S, IsFiniteSet(S), \A x \in S : f[x] \in Int, NEW y \in S
  PROVE  SumFunctionOnSet(f, S) = f[y] + SumFunctionOnSet(f, S \ {y})
<1> DEFINE Sum(s) == SumFunctionOnSet(f, s)
           Good == {s \in SUBSET S : \A x \in s : Sum(s) = f[x] + Sum(s \ {x})}
<1>1. {} \in Good
  OBVIOUS
<1>2. ASSUME NEW s \in SUBSET S, s # {}, \A x \in s : s \ {x} \in Good
      PROVE  s \in Good
  <2>1. IsFiniteSet(s) /\ Taken(s) \in s
    BY <1>2, FS_Subset, TakenIsOne
  <2>2. Sum(s) = f[Taken(s)] + Sum(s \ {Taken(s)})
    BY <1>2, <2>1, SumTakesOne
  <2>3. ASSUME NEW x \in s PROVE Sum(s) = f[x] + Sum(s \ {x})
    <3>1. CASE x = Taken(s)
      BY <2>2, <3>1
    <3>2. CASE x # Taken(s)
      <4>1. s \ {Taken(s)} \in Good /\ x \in s \ {Taken(s)}
        BY <1>2, <2>1, <3>2
      <4>2. s \ {x} \in Good /\ Taken(s) \in s \ {x}
        BY <1>2, <2>1, <3>2
      <4> PICK rest \in SUBSET S : rest = s \ {x, Taken(s)}
        BY <1>2
      <4>3. (s \ {Taken(s)}) \ {x} = rest /\ (s \ {x}) \ {Taken(s)} = rest
        OBVIOUS
      <4>4. Sum(s \ {Taken(s)}) = f[x] + Sum(rest)
        BY <4>1, <4>3
      <4>5. Sum(s \ {x}) = f[Taken(s)] + Sum(rest)
        BY <4>2, <4>3
      <4>6. Sum(rest) \in Int /\ f[x] \in Int /\ f[Taken(s)] \in Int
        <5>1. IsFiniteSet(rest)
          BY FS_Subset
        <5> QED
          BY <2>1, <5>1, SumIsInt
      <4> HIDE DEF Sum
      <4> QED
        BY <2>2, <4>4, <4>5, <4>6
    <3> QED
      BY <3>1, <3>2
  <2> QED
    BY <2>3
<1>3. Good \in SUBSET (SUBSET S)
  OBVIOUS
<1>4. S \in Good
  <2> HIDE DEF Good
  <2> QED
    BY <1>1, <1>2, <1>3, SetsReachAll
<1> QED
  BY <1>4

LEMMA SumAdds ==
  ASSUME NEW f, NEW S, IsFiniteSet(S), NEW y, y \notin S, \A x \in S \cup {y} : f[x] \in Int
  PROVE  SumFunctionOnSet(f, S \cup {y}) = f[y] + SumFunctionOnSet(f, S)
<1>1. IsFiniteSet(S \cup {y}) /\ (S \cup {y}) \ {y} = S
  BY FS_AddElement
<1> QED
  BY <1>1, SumRemoves

\* A sum is of the numbers in it.
LEMMA SumsAgree ==
  ASSUME NEW f, NEW g, NEW S, IsFiniteSet(S), \A x \in S : f[x] = g[x]
  PROVE  SumFunctionOnSet(f, S) = SumFunctionOnSet(g, S)
<1> DEFINE Good == {s \in SUBSET S : SumFunctionOnSet(f, s) = SumFunctionOnSet(g, s)}
<1>1. {} \in Good
  BY SumOfNothing
<1>2. ASSUME NEW s \in SUBSET S, s # {}, \A x \in s : s \ {x} \in Good
      PROVE  s \in Good
  <2>1. IsFiniteSet(s) /\ Taken(s) \in s
    BY <1>2, FS_Subset, TakenIsOne
  <2>2. /\ SumFunctionOnSet(f, s) = f[Taken(s)] + SumFunctionOnSet(f, s \ {Taken(s)})
        /\ SumFunctionOnSet(g, s) = g[Taken(s)] + SumFunctionOnSet(g, s \ {Taken(s)})
    BY <1>2, <2>1, SumTakesOne
  <2> QED
    BY <1>2, <2>1, <2>2
<1>3. Good \in SUBSET (SUBSET S)
  OBVIOUS
<1>4. S \in Good
  <2> HIDE DEF Good
  <2> QED
    BY <1>1, <1>2, <1>3, SetsReachAll
<1> QED
  BY <1>4

\* What is summed is at least 0, so is the sum; and a part is at most the whole.
LEMMA SumIsNat ==
  ASSUME NEW f, NEW S, IsFiniteSet(S), \A x \in S : f[x] \in Nat
  PROVE  SumFunctionOnSet(f, S) \in Nat
<1> DEFINE Good == {s \in SUBSET S : SumFunctionOnSet(f, s) \in Nat}
<1>1. {} \in Good
  BY SumOfNothing
<1>2. ASSUME NEW s \in SUBSET S, s # {}, \A x \in s : s \ {x} \in Good
      PROVE  s \in Good
  <2>1. IsFiniteSet(s) /\ Taken(s) \in s
    BY <1>2, FS_Subset, TakenIsOne
  <2>2. SumFunctionOnSet(f, s) = f[Taken(s)] + SumFunctionOnSet(f, s \ {Taken(s)})
    BY <1>2, <2>1, SumTakesOne
  <2> QED
    BY <1>2, <2>1, <2>2
<1>3. Good \in SUBSET (SUBSET S)
  OBVIOUS
<1>4. S \in Good
  <2> HIDE DEF Good
  <2> QED
    BY <1>1, <1>2, <1>3, SetsReachAll
<1> QED
  BY <1>4

\* Two sets that have nothing in common add up.
LEMMA SumOfBoth ==
  ASSUME NEW f, NEW S, NEW T, IsFiniteSet(S), IsFiniteSet(T), S \cap T = {},
         \A x \in S \cup T : f[x] \in Int
  PROVE  SumFunctionOnSet(f, S \cup T) = SumFunctionOnSet(f, S) + SumFunctionOnSet(f, T)
<1> DEFINE Sum(s) == SumFunctionOnSet(f, s)
           Good == {t \in SUBSET T : Sum(S \cup t) = Sum(S) + Sum(t)}
<1>1. \A t \in SUBSET T : Sum(t) \in Int /\ IsFiniteSet(t) /\ IsFiniteSet(S \cup t)
  BY FS_Subset, FS_Union, SumIsInt
<1>2. Sum(S) \in Int
  BY SumIsInt
<1>3. {} \in Good
  <2>1. S \cup {} = S /\ Sum({}) = 0
    BY SumOfNothing
  <2> QED
    BY <1>2, <2>1
<1>4. ASSUME NEW t \in SUBSET T, t # {}, \A x \in t : t \ {x} \in Good
      PROVE  t \in Good
  <2>1. PICK y \in t : TRUE
    BY <1>4
  <2>2. Sum(S \cup (t \ {y})) = Sum(S) + Sum(t \ {y})
    BY <1>4, <2>1
  <2>3. IsFiniteSet(S \cup (t \ {y})) /\ y \notin S \cup (t \ {y})
        /\ (S \cup (t \ {y})) \cup {y} = S \cup t
    BY <1>1, <2>1
  <2>4. Sum(S \cup t) = f[y] + Sum(S \cup (t \ {y}))
    BY <2>3, SumAdds
  <2>5. Sum(t) = f[y] + Sum(t \ {y})
    <3>1. IsFiniteSet(t) /\ \A x \in t : f[x] \in Int
      BY <1>1
    <3> QED
      BY <2>1, <3>1, SumRemoves
  <2>6. f[y] \in Int /\ Sum(t \ {y}) \in Int
    BY <1>1, <2>1
  <2> HIDE DEF Sum
  <2>7. Sum(S \cup t) = Sum(S) + Sum(t)
    BY <1>2, <2>2, <2>4, <2>5, <2>6
  <2> QED
    BY <2>7
<1>5. Good \in SUBSET (SUBSET T)
  OBVIOUS
<1>6. T \in Good
  <2> HIDE DEF Good
  <2> QED
    BY <1>3, <1>4, <1>5, SetsReachAll
<1> QED
  BY <1>6

\* Numbers that are 0 add nothing.
LEMMA SumOfZeros ==
  ASSUME NEW f, NEW S, IsFiniteSet(S), \A x \in S : f[x] = 0
  PROVE  SumFunctionOnSet(f, S) = 0
<1> DEFINE Good == {s \in SUBSET S : SumFunctionOnSet(f, s) = 0}
<1>1. {} \in Good
  BY SumOfNothing
<1>2. ASSUME NEW s \in SUBSET S, s # {}, \A x \in s : s \ {x} \in Good
      PROVE  s \in Good
  <2>1. PICK y \in s : TRUE
    BY <1>2
  <2>2. IsFiniteSet(s)
    BY FS_Subset
  <2>3. SumFunctionOnSet(f, s) = f[y] + SumFunctionOnSet(f, s \ {y})
    BY <2>1, <2>2, SumRemoves
  <2> QED
    BY <1>2, <2>1, <2>3
<1>3. Good \in SUBSET (SUBSET S)
  OBVIOUS
<1>4. S \in Good
  <2> HIDE DEF Good
  <2> QED
    BY <1>1, <1>2, <1>3, SetsReachAll
<1> QED
  BY <1>4

\* A part of a set sums up to no more than the whole, and to as much if the rest is 0.
LEMMA SumOfPart ==
  ASSUME NEW f, NEW T, IsFiniteSet(T), NEW S \in SUBSET T, \A x \in T : f[x] \in Nat
  PROVE  /\ SumFunctionOnSet(f, S) <= SumFunctionOnSet(f, T)
         /\ (\A x \in T \ S : f[x] = 0) => SumFunctionOnSet(f, S) = SumFunctionOnSet(f, T)
<1>1. IsFiniteSet(S) /\ IsFiniteSet(T \ S) /\ S \cup (T \ S) = T /\ S \cap (T \ S) = {}
  BY FS_Subset
<1>2. SumFunctionOnSet(f, T) = SumFunctionOnSet(f, S) + SumFunctionOnSet(f, T \ S)
  BY <1>1, SumOfBoth
<1>3. SumFunctionOnSet(f, S) \in Nat /\ SumFunctionOnSet(f, T \ S) \in Nat
  BY <1>1, SumIsNat
<1>4. (\A x \in T \ S : f[x] = 0) => SumFunctionOnSet(f, T \ S) = 0
  BY <1>1, SumOfZeros
<1> QED
  BY <1>2, <1>3, <1>4

\* One more row, and the sum of the rows that were there is as it was.
LEMMA SumGrows ==
  ASSUME NEW f, NEW g, NEW S, IsFiniteSet(S), NEW y, y \notin S,
         \A x \in S : f[x] = g[x], \A x \in S \cup {y} : g[x] \in Int
  PROVE  SumFunctionOnSet(g, S \cup {y}) = SumFunctionOnSet(f, S) + g[y]
         /\ SumFunctionOnSet(f, S) \in Int
<1>1. SumFunctionOnSet(g, S \cup {y}) = g[y] + SumFunctionOnSet(g, S)
  BY SumAdds
<1>2. SumFunctionOnSet(g, S) = SumFunctionOnSet(f, S) /\ SumFunctionOnSet(g, S) \in Int
  BY SumsAgree, SumIsInt
<1> QED
  BY <1>1, <1>2

\* Smaller numbers, and one number more.
LEMMA SumsCompare ==
  ASSUME NEW f, NEW g, NEW S, IsFiniteSet(S),
         \A x \in S : f[x] \in Int /\ g[x] \in Int /\ f[x] <= g[x]
  PROVE  SumFunctionOnSet(f, S) <= SumFunctionOnSet(g, S)
<1> DEFINE Good == {s \in SUBSET S : SumFunctionOnSet(f, s) <= SumFunctionOnSet(g, s)}
<1>1. {} \in Good
  BY SumOfNothing
<1>2. ASSUME NEW s \in SUBSET S, s # {}, \A x \in s : s \ {x} \in Good
      PROVE  s \in Good
  <2>1. PICK y \in s : TRUE
    BY <1>2
  <2>2. IsFiniteSet(s) /\ IsFiniteSet(s \ {y})
    BY FS_Subset
  <2>3. /\ SumFunctionOnSet(f, s) = f[y] + SumFunctionOnSet(f, s \ {y})
        /\ SumFunctionOnSet(g, s) = g[y] + SumFunctionOnSet(g, s \ {y})
    BY <2>1, <2>2, SumRemoves
  <2>4. SumFunctionOnSet(f, s \ {y}) <= SumFunctionOnSet(g, s \ {y})
    BY <1>2, <2>1
  <2>5. SumFunctionOnSet(f, s \ {y}) \in Int /\ SumFunctionOnSet(g, s \ {y}) \in Int
    BY <2>2, SumIsInt
  <2>6. SumFunctionOnSet(f, s) <= SumFunctionOnSet(g, s)
    BY <2>3, <2>4, <2>5
  <2> QED
    BY <2>6
<1>3. Good \in SUBSET (SUBSET S)
  OBVIOUS
<1>4. S \in Good
  <2> HIDE DEF Good
  <2> QED
    BY <1>1, <1>2, <1>3, SetsReachAll
<1> QED
  BY <1>4

LEMMA SumOfOneMore ==
  ASSUME NEW f, NEW g, NEW S, IsFiniteSet(S), NEW y \in S, NEW c \in Int,
         \A x \in S : f[x] \in Int,
         g[y] = f[y] + c, \A x \in S \ {y} : g[x] = f[x]
  PROVE  SumFunctionOnSet(g, S) = SumFunctionOnSet(f, S) + c
<1>1. IsFiniteSet(S \ {y}) /\ \A x \in S : g[x] \in Int
  BY FS_Subset
<1>2. SumFunctionOnSet(f, S) = f[y] + SumFunctionOnSet(f, S \ {y})
  BY SumRemoves
<1>3. SumFunctionOnSet(g, S) = g[y] + SumFunctionOnSet(g, S \ {y})
  BY <1>1, SumRemoves
<1>4. \A x \in S \ {y} : f[x] = g[x]
  OBVIOUS
<1>5. SumFunctionOnSet(f, S \ {y}) = SumFunctionOnSet(g, S \ {y})
  BY <1>1, <1>4, SumsAgree
<1>6. SumFunctionOnSet(f, S \ {y}) \in Int
  BY <1>1, SumIsInt
<1>7. g[y] = f[y] + c /\ f[y] \in Int
  OBVIOUS
<1> QED
  BY <1>2, <1>3, <1>5, <1>6, <1>7


-----------------------------------------------------------------------------
(* Repetition.                                                              *)

\* h holds the first n results of applying g again and again, from a.
Repeats(h, a, g, n) == h[0] = a /\ \A i \in 0 .. (n - 1) : h[i + 1] = g[h[i]]

\* What a function gives when it is applied again and again is a function of how often.
LEMMA RepetitionExists ==
  ASSUME NEW A, NEW a \in A, NEW g \in [A -> A]
  PROVE  \E f \in [Nat -> A] : f[0] = a /\ \A n \in Nat : f[n + 1] = g[f[n]]
<1> DEFINE Good == {n \in Nat : \E h \in [0 .. n -> A] : Repeats(h, a, g, n)}
<1>1. 0 \in Good
  <2>1. [i \in 0 .. 0 |-> a] \in [0 .. 0 -> A] /\ Repeats([i \in 0 .. 0 |-> a], a, g, 0)
    BY DEF Repeats
  <2> QED
    BY <2>1
<1>2. ASSUME NEW n \in Good PROVE n + 1 \in Good
  <2>1. PICK h \in [0 .. n -> A] : Repeats(h, a, g, n)
    OBVIOUS
  <2> DEFINE k == [i \in 0 .. (n + 1) |-> IF i = n + 1 THEN g[h[n]] ELSE h[i]]
  <2>2. k \in [0 .. (n + 1) -> A]
    <3>1. g[h[n]] \in A
      OBVIOUS
    <3>2. \A i \in 0 .. (n + 1) : i # n + 1 => i \in 0 .. n
      OBVIOUS
    <3> QED
      BY <3>1, <3>2
  <2>3. Repeats(k, a, g, n + 1)
    <3>1. k[0] = a
      BY <2>1 DEF Repeats
    <3>2. ASSUME NEW i \in 0 .. n PROVE k[i + 1] = g[k[i]]
      <4>1. k[i] = h[i]
        OBVIOUS
      <4>2. CASE i = n
        BY <4>1, <4>2
      <4>3. CASE i # n
        <5>1. i \in 0 .. (n - 1) /\ i + 1 \in 0 .. (n + 1) /\ i + 1 # n + 1
          BY <4>3
        <5> QED
          BY <2>1, <4>1, <5>1 DEF Repeats
      <4> QED
        BY <4>2, <4>3
    <3>3. (n + 1) - 1 = n
      OBVIOUS
    <3> HIDE DEF k
    <3> QED
      BY <3>1, <3>2, <3>3 DEF Repeats
  <2> HIDE DEF k
  <2>4. n + 1 \in Nat
    OBVIOUS
  <2> QED
    BY <2>2, <2>3, <2>4
<1>3. Good = Nat
  <2>1. Good \in SUBSET Nat
    OBVIOUS
  <2> HIDE DEF Good
  <2> QED
    BY <1>1, <1>2, <2>1, ReachesAll
<1> DEFINE H(n) == CHOOSE h : h \in [0 .. n -> A] /\ Repeats(h, a, g, n)
<1>4. ASSUME NEW n \in Nat PROVE H(n) \in [0 .. n -> A] /\ Repeats(H(n), a, g, n)
  <2>1. n \in Good
    BY <1>3
  <2>2. \E h : h \in [0 .. n -> A] /\ Repeats(h, a, g, n)
    BY <2>1
  <2> QED
    BY <2>2
<1>5. ASSUME NEW n \in Nat PROVE H(n + 1)[n] = H(n)[n]
  <2> DEFINE Same == {i \in Nat : i <= n => H(n + 1)[i] = H(n)[i]}
  <2>1. /\ Repeats(H(n + 1), a, g, n + 1) /\ Repeats(H(n), a, g, n)
    BY <1>4
  <2> HIDE DEF H
  <2>2. 0 \in Same
    BY <2>1 DEF Repeats
  <2>3. ASSUME NEW i \in Same PROVE i + 1 \in Same
    <3>1. CASE i + 1 <= n
      <4>1. i \in 0 .. (n - 1) /\ i \in 0 .. ((n + 1) - 1) /\ i <= n
        BY <3>1
      <4> QED
        BY <2>1, <4>1 DEF Repeats
    <3> QED
      BY <3>1
  <2>4. Same = Nat
    <3>1. Same \in SUBSET Nat
      OBVIOUS
    <3> HIDE DEF Same
    <3> QED
      BY <2>2, <2>3, <3>1, ReachesAll
  <2> QED
    BY <2>4
<1> DEFINE f == [n \in Nat |-> H(n)[n]]
<1> HIDE DEF H
<1>6. f \in [Nat -> A]
  <2>1. \A n \in Nat : H(n)[n] \in A
    BY <1>4
  <2> QED
    BY <2>1
<1>7. f[0] = a
  BY <1>4 DEF Repeats
<1>8. ASSUME NEW n \in Nat PROVE f[n + 1] = g[f[n]]
  <2>1. n \in 0 .. ((n + 1) - 1) /\ n + 1 \in Nat
    OBVIOUS
  <2>2. H(n + 1)[n + 1] = g[H(n + 1)[n]]
    BY <1>4, <2>1 DEF Repeats
  <2> QED
    BY <1>5, <2>1, <2>2
<1> HIDE DEF f
<1> QED
  BY <1>6, <1>7, <1>8

=============================================================================
