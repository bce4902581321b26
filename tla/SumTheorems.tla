---------------------------- MODULE SumTheorems ----------------------------
(***************************************************************************)
(* SumFunctionOnSet of the community module Functions: what the proofs     *)
(* need of a sum over a finite set of indices.  The library's induction    *)
(* theorems take the induction formula as a parameter; here a statement    *)
(* about all subsets is proved from the least subset (or number) that      *)
(* violates it, which exists by theorem WFMin.                             *)
(***************************************************************************)
EXTENDS Functions, FiniteSetTheorems, WellFoundedInduction, TLAPS

(* Among sets of subsets of a finite set one is least. *)
LEMMA LeastSubset ==
    ASSUME NEW S, IsFiniteSet(S), NEW T \in SUBSET (SUBSET S), T # {}
    PROVE  \E x \in T : \A y \in T : y \subseteq x => y = x
  <1>1. IsWellFoundedOn(StrictSubsetOrdering(S), SUBSET S)
    BY FS_StrictSubsetOrderingWellFounded, FS_FiniteSubsetsOfFinite
  <1>2. PICK x \in T : \A y \in T : ~(<<y, x>> \in StrictSubsetOrdering(S))
    BY <1>1, WFMin
  <1>3. \A y \in T : y \subseteq x => y = x
    BY <1>2 DEF StrictSubsetOrdering
  <1>4. QED BY <1>3

(* A set of numbers that has 0 and every successor has them all. *)
LEMMA AllNaturals ==
    ASSUME NEW T \in SUBSET Nat, 0 \in T, \A n \in T : n + 1 \in T
    PROVE  T = Nat
  <1> DEFINE Below == {ss \in Nat \X Nat : ss[1] < ss[2]}
  <1>1. IsWellFoundedOn(Below, Nat)
    BY NatLessThanWellFounded, Zenon DEF OpToRel
  <1> SUFFICES ASSUME Nat \ T # {} PROVE FALSE
    OBVIOUS
  <1>2. PICK m \in Nat \ T : \A n \in Nat \ T : ~(<<n, m>> \in Below)
    <2> HIDE DEF Below
    <2>1. Nat \ T \subseteq Nat
      OBVIOUS
    <2>2. QED BY <1>1, <2>1, WFMin
  <1>3. m # 0 /\ m - 1 \in Nat
    BY <1>2
  <1>4. m - 1 \in T
    <2>1. <<m - 1, m>> \in Below
      BY <1>3
    <2> HIDE DEF Below
    <2>2. QED BY <1>2, <1>3, <2>1
  <1>5. QED BY <1>3, <1>4

-----------------------------------------------------------------------------
(* The fold behind the sum, as an equation *)

Picked(s)   == CHOOSE x \in s : TRUE
Term(f, g, s) == IF s = {} THEN 0 ELSE f[Picked(s)] + g[s \ {Picked(s)}]
Sums(f, S, g) == g = [s \in SUBSET S |-> Term(f, g, s)]
Summing(f, S) == CHOOSE g : Sums(f, S, g)

LEMMA SumUnfolded ==
    ASSUME NEW f, NEW S
    PROVE  SumFunctionOnSet(f, S) = Summing(f, S)[S]
  BY DEF SumFunctionOnSet, FoldFunctionOnSet, MapThenFoldSet, Summing, Sums, Term, Picked

LEMMA PickedIsIn ==
    ASSUME NEW s, s # {}
    PROVE  Picked(s) \in s
  BY DEF Picked

(* There is such a function: one for the subsets with at most n members is *)
(* extended to those with n + 1.                                           *)
LEMMA SummingExists ==
    ASSUME NEW f, NEW S, IsFiniteSet(S)
    PROVE  Sums(f, S, Summing(f, S))
  <1> DEFINE Small(n) == {s \in SUBSET S : Cardinality(s) <= n}
             T == {n \in Nat : \E g : g = [s \in Small(n) |-> Term(f, g, s)]}
  <1>1. \A s \in SUBSET S : IsFiniteSet(s) /\ Cardinality(s) \in Nat
    BY FS_Subset, FS_CardinalityType
  <1>2. \A s \in SUBSET S : s # {} =>
           /\ s \ {Picked(s)} \in SUBSET S
           /\ Cardinality(s \ {Picked(s)}) = Cardinality(s) - 1
    BY <1>1, FS_RemoveElement, PickedIsIn
  <1>3. 0 \in T
    <2>1. \A s \in Small(0) : s = {}
      BY <1>1, FS_EmptySet
    <2> DEFINE g == [s \in Small(0) |-> 0]
    <2>2. g = [s \in Small(0) |-> Term(f, g, s)]
      BY <2>1 DEF Term
    <2>3. QED BY <2>2
  <1>4. ASSUME NEW n \in T PROVE n + 1 \in T
    <2>1. PICK g : g = [s \in Small(n) |-> Term(f, g, s)]
      OBVIOUS
    <2> DEFINE h == [s \in Small(n + 1) |-> Term(f, g, s)]
    <2>2. \A s \in Small(n) : s \in Small(n + 1) /\ h[s] = g[s]
      <3>1. Small(n) \subseteq Small(n + 1)
        BY <1>1
      <3>2. QED BY <2>1, <3>1
    <2>3. \A s \in Small(n + 1) : s # {} => s \ {Picked(s)} \in Small(n)
      BY <1>1, <1>2
    <2>4. \A s \in Small(n + 1) : Term(f, g, s) = Term(f, h, s)
      BY <2>2, <2>3 DEF Term
    <2>5. h = [s \in Small(n + 1) |-> Term(f, h, s)]
      BY <2>4
    <2>6. n + 1 \in Nat /\ \E k : k = [s \in Small(n + 1) |-> Term(f, k, s)]
      <3> HIDE DEF Small, h
      <3>1. QED BY <2>5
    <2>7. QED BY <2>6
  <1>5. T = Nat
    <2> HIDE DEF T
    <2>1. T \in SUBSET Nat
      BY DEF T
    <2>2. QED BY <1>3, <1>4, <2>1, AllNaturals
  <1>6. Cardinality(S) \in Nat /\ Small(Cardinality(S)) = SUBSET S
    <2>1. \A s \in SUBSET S : Cardinality(s) <= Cardinality(S)
      BY FS_Subset
    <2>2. QED BY <1>1, <2>1
  <1>7. \E g : Sums(f, S, g)
    <2>1. Cardinality(S) \in T
      BY <1>5, <1>6
    <2>2. PICK g : g = [s \in Small(Cardinality(S)) |-> Term(f, g, s)]
      BY <2>1
    <2>3. Sums(f, S, g)
      BY <1>6, <2>2 DEF Sums
    <2>4. QED BY <2>3
  <1>8. QED BY <1>7 DEF Summing

(* Two such functions agree where both are defined. *)
LEMMA SummingUnique ==
    ASSUME NEW f, NEW S, IsFiniteSet(S), NEW R \in SUBSET S,
           NEW g, Sums(f, S, g), NEW h, Sums(f, R, h)
    PROVE  \A s \in SUBSET R : g[s] = h[s]
  <1> DEFINE T == {s \in SUBSET R : g[s] # h[s]}
  <1> SUFFICES ASSUME T # {} PROVE FALSE
    OBVIOUS
  <1>1. IsFiniteSet(R)
    BY FS_Subset
  <1>2. PICK s \in T : \A t \in T : t \subseteq s => t = s
    <2> HIDE DEF T
    <2>1. T \in SUBSET (SUBSET R)
      BY DEF T
    <2>2. QED BY <1>1, <2>1, LeastSubset
  <1>3. g[s] = Term(f, g, s) /\ h[s] = Term(f, h, s)
    BY DEF Sums
  <1>4. s # {}
    BY <1>3 DEF Term
  <1>5. Picked(s) \in s
    BY <1>4, PickedIsIn
  <1>6. g[s \ {Picked(s)}] = h[s \ {Picked(s)}]
    BY <1>2, <1>5
  <1>7. QED BY <1>3, <1>4, <1>6 DEF Term

-----------------------------------------------------------------------------
(* Facts about the sum *)

LEMMA SumOfNone ==
    ASSUME NEW f
    PROVE  SumFunctionOnSet(f, {}) = 0
  <1>1. Sums(f, {}, Summing(f, {}))
    BY SummingExists, FS_EmptySet
  <1>2. Summing(f, {})[{}] = 0
    BY <1>1 DEF Sums, Term
  <1>3. QED BY <1>2, SumUnfolded

LEMMA SumPicked ==
    ASSUME NEW f, NEW S, IsFiniteSet(S), S # {}
    PROVE  SumFunctionOnSet(f, S)
              = f[Picked(S)] + SumFunctionOnSet(f, S \ {Picked(S)})
  <1> DEFINE R == S \ {Picked(S)}
  <1>1. R \in SUBSET S /\ IsFiniteSet(R)
    BY FS_Subset
  <1>2. Sums(f, S, Summing(f, S)) /\ Sums(f, R, Summing(f, R))
    BY <1>1, SummingExists
  <1>3. Summing(f, S)[R] = Summing(f, R)[R]
    <2> HIDE DEF R
    <2>1. \A s \in SUBSET R : Summing(f, S)[s] = Summing(f, R)[s]
      BY <1>1, <1>2, SummingUnique
    <2>2. QED BY <2>1
  <1>4. Summing(f, S)[S] = f[Picked(S)] + Summing(f, S)[R]
    BY <1>2 DEF Sums, Term
  <1>5. QED BY <1>3, <1>4, SumUnfolded

(* Functions that agree on the indices have the same sum. *)
LEMMA SumCongruence ==
    ASSUME NEW f, NEW g, NEW S, IsFiniteSet(S), \A i \in S : f[i] = g[i]
    PROVE  SumFunctionOnSet(f, S) = SumFunctionOnSet(g, S)
  <1> DEFINE T == {s \in SUBSET S : SumFunctionOnSet(f, s) # SumFunctionOnSet(g, s)}
  <1> SUFFICES ASSUME T # {} PROVE FALSE
    OBVIOUS
  <1>1. PICK s \in T : \A t \in T : t \subseteq s => t = s
    <2> HIDE DEF T
    <2>1. T \in SUBSET (SUBSET S)
      BY DEF T
    <2>2. QED BY <2>1, LeastSubset
  <1>2. s \in SUBSET S /\ IsFiniteSet(s)
    BY FS_Subset
  <1>3. s # {}
    BY SumOfNone
  <1>4. Picked(s) \in s
    BY <1>3, PickedIsIn
  <1>5. SumFunctionOnSet(f, s \ {Picked(s)}) = SumFunctionOnSet(g, s \ {Picked(s)})
    BY <1>1, <1>2, <1>4
  <1>6. QED BY <1>2, <1>3, <1>4, <1>5, SumPicked

LEMMA SumOfNaturals ==
    ASSUME NEW f, NEW S, IsFiniteSet(S), \A i \in S : f[i] \in Nat
    PROVE  SumFunctionOnSet(f, S) \in Nat
  <1> DEFINE T == {s \in SUBSET S : SumFunctionOnSet(f, s) \notin Nat}
  <1> SUFFICES ASSUME T # {} PROVE FALSE
    OBVIOUS
  <1>1. PICK s \in T : \A t \in T : t \subseteq s => t = s
    <2> HIDE DEF T
    <2>1. T \in SUBSET (SUBSET S)
      BY DEF T
    <2>2. QED BY <2>1, LeastSubset
  <1>2. s \in SUBSET S /\ IsFiniteSet(s)
    BY FS_Subset
  <1>3. s # {}
    BY SumOfNone
  <1>4. Picked(s) \in s
    BY <1>3, PickedIsIn
  <1>5. SumFunctionOnSet(f, s \ {Picked(s)}) \in Nat
    BY <1>1, <1>2, <1>4
  <1>6. QED BY <1>2, <1>3, <1>4, <1>5, SumPicked

LEMMA SumOfZeros ==
    ASSUME NEW S, IsFiniteSet(S)
    PROVE  SumFunctionOnSet([x \in S |-> 0], S) = 0
  <1> DEFINE f == [x \in S |-> 0]
             T == {s \in SUBSET S : SumFunctionOnSet(f, s) # 0}
  <1> SUFFICES ASSUME T # {} PROVE FALSE
    OBVIOUS
  <1>1. PICK s \in T : \A t \in T : t \subseteq s => t = s
    <2> HIDE DEF T
    <2>1. T \in SUBSET (SUBSET S)
      BY DEF T
    <2>2. QED BY <2>1, LeastSubset
  <1>2. s \in SUBSET S /\ IsFiniteSet(s)
    BY FS_Subset
  <1>3. s # {}
    BY SumOfNone
  <1>4. Picked(s) \in s /\ f[Picked(s)] = 0
    BY <1>2, <1>3, PickedIsIn
  <1>5. SumFunctionOnSet(f, s \ {Picked(s)}) = 0
    BY <1>1, <1>2, <1>4
  <1> HIDE DEF f
  <1>6. QED BY <1>2, <1>3, <1>4, <1>5, SumPicked

(* Any element may be taken out first. *)
LEMMA SumRemove ==
    ASSUME NEW f, NEW S, IsFiniteSet(S), \A i \in S : f[i] \in Nat, NEW x \in S
    PROVE  SumFunctionOnSet(f, S) = f[x] + SumFunctionOnSet(f, S \ {x})
  <1> DEFINE Out(s, y) == SumFunctionOnSet(f, s) = f[y] + SumFunctionOnSet(f, s \ {y})
             T == {s \in SUBSET S : \E y \in s : ~Out(s, y)}
  <1> SUFFICES ASSUME T # {} PROVE FALSE
    OBVIOUS
  <1>1. PICK s \in T : \A t \in T : t \subseteq s => t = s
    <2> HIDE DEF T
    <2>1. T \in SUBSET (SUBSET S)
      BY DEF T
    <2>2. QED BY <2>1, LeastSubset
  <1>2. PICK y \in s : ~Out(s, y)
    OBVIOUS
  <1> DEFINE p == Picked(s)
             Rest == (s \ {p}) \ {y}
  <1>3. s \in SUBSET S /\ IsFiniteSet(s) /\ p \in s
    BY FS_Subset, PickedIsIn
  <1>4. Out(s, p)
    BY <1>3, SumPicked
  <1>5. y # p
    BY <1>2, <1>4
  <1>6. Out(s \ {p}, y)
    <2>1. s \ {p} \in SUBSET S /\ s \ {p} # s /\ s \ {p} \subseteq s /\ y \in s \ {p}
      BY <1>3, <1>5
    <2> HIDE DEF Out, p
    <2>2. QED BY <1>1, <2>1
  <1>7. Out(s \ {y}, p)
    <2>1. s \ {y} \in SUBSET S /\ s \ {y} # s /\ s \ {y} \subseteq s /\ p \in s \ {y}
      BY <1>3, <1>5
    <2> HIDE DEF Out, p
    <2>2. QED BY <1>1, <2>1
  <1>8. Rest = (s \ {y}) \ {p}
    OBVIOUS
  <1>9. SumFunctionOnSet(f, Rest) \in Nat /\ f[p] \in Nat /\ f[y] \in Nat
    <2>1. IsFiniteSet(Rest) /\ \A i \in Rest : f[i] \in Nat
      BY <1>3, FS_Subset
    <2>2. QED BY <1>3, <2>1, SumOfNaturals
  <1>10. Out(s, y)
    <2> HIDE DEF p
    <2>1. SumFunctionOnSet(f, s) = f[p] + (f[y] + SumFunctionOnSet(f, Rest))
      BY <1>4, <1>6
    <2>2. SumFunctionOnSet(f, s \ {y}) = f[p] + SumFunctionOnSet(f, Rest)
      BY <1>7, <1>8
    <2> HIDE DEF Rest
    <2>3. QED BY <1>9, <2>1, <2>2
  <1>11. QED BY <1>2, <1>10

(* A function changed at one index changes its sum by the difference. *)
LEMMA SumUpdated ==
    ASSUME NEW f, NEW g, NEW S, IsFiniteSet(S), NEW x \in S,
           \A i \in S : f[i] \in Nat /\ g[i] \in Nat,
           \A i \in S \ {x} : f[i] = g[i]
    PROVE  SumFunctionOnSet(g, S) = SumFunctionOnSet(f, S) - f[x] + g[x]
  <1> DEFINE R == S \ {x}
  <1>1. IsFiniteSet(R) /\ \A i \in R : f[i] \in Nat /\ g[i] \in Nat
    BY FS_Subset
  <1>2. SumFunctionOnSet(f, R) = SumFunctionOnSet(g, R) /\ SumFunctionOnSet(f, R) \in Nat
    BY <1>1, SumCongruence, SumOfNaturals
  <1>3. /\ SumFunctionOnSet(f, S) = f[x] + SumFunctionOnSet(f, R)
        /\ SumFunctionOnSet(g, S) = g[x] + SumFunctionOnSet(g, R)
    BY SumRemove
  <1> HIDE DEF R
  <1>4. QED BY <1>2, <1>3

(* Fewer indices, a smaller sum. *)
LEMMA SumMonotone ==
    ASSUME NEW f, NEW S, IsFiniteSet(S), \A i \in S : f[i] \in Nat, NEW R \in SUBSET S
    PROVE  SumFunctionOnSet(f, R) <= SumFunctionOnSet(f, S)
  <1> DEFINE T == {s \in SUBSET S : R \subseteq s
                                   /\ ~(SumFunctionOnSet(f, R) <= SumFunctionOnSet(f, s))}
  <1> SUFFICES ASSUME T # {} PROVE FALSE
    OBVIOUS
  <1>1. PICK s \in T : \A t \in T : t \subseteq s => t = s
    <2> HIDE DEF T
    <2>1. T \in SUBSET (SUBSET S)
      BY DEF T
    <2>2. QED BY <2>1, LeastSubset
  <1>2. s \in SUBSET S /\ IsFiniteSet(s) /\ IsFiniteSet(R) /\ R \subseteq s
    BY FS_Subset
  <1>3. \A t \in SUBSET S : IsFiniteSet(t) /\ SumFunctionOnSet(f, t) \in Nat
    BY FS_Subset, SumOfNaturals
  <1>4. R # s
    BY <1>3
  <1>5. PICK x \in s : x \notin R
    BY <1>2, <1>4
  <1>6. SumFunctionOnSet(f, R) <= SumFunctionOnSet(f, s \ {x})
    BY <1>1, <1>2, <1>5
  <1>7. SumFunctionOnSet(f, s) = f[x] + SumFunctionOnSet(f, s \ {x})
    BY <1>2, <1>5, SumRemove
  <1>8. SumFunctionOnSet(f, R) <= SumFunctionOnSet(f, s)
    BY <1>2, <1>3, <1>6, <1>7
  <1>9. QED BY <1>8
=============================================================================
