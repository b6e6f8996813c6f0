------------------------------- MODULE Counting -------------------------------
(***************************************************************************)
(* What the proofs about the dashboard's numbers count with: induction,    *)
(* the extrema of finite sets of numbers, sums over finite sets, and sets  *)
(* split into parts.  The induction theorems of the library take a         *)
(* predicate, which the provers cannot instantiate; here induction is      *)
(* stated about a set, and comes from the well-foundedness of < on Nat.    *)
(***************************************************************************)
EXTENDS FiniteSetsExt, FiniteSetTheorems, WellFoundedInduction, TLAPS

(* A set of naturals has a least element.                                  *)
LEMMA LeastNat ==
  ASSUME NEW T \in SUBSET Nat, T # {}
  PROVE  \E x \in T : \A y \in T : x <= y
<1> DEFINE Less == {ss \in Nat \X Nat : ss[1] < ss[2]}
<1>1. IsWellFoundedOn(Less, Nat)
  BY NatLessThanWellFounded DEF OpToRel
<1>2. \A x, y \in Nat : <<y, x>> \in Less <=> y < x
  OBVIOUS
<1> HIDE DEF Less
<1>3. PICK x \in T : \A y \in T : <<y, x>> \notin Less
  BY <1>1, WFMin
<1>4. x \in Nat /\ T \subseteq Nat /\ \A y \in T : ~(y < x)
  BY <1>2, <1>3
<1>5. \A y \in T : x <= y
  BY <1>4
<1> QED BY <1>5

(* Induction: a set with 0 and the successors of its members has all.      *)
LEMMA SetOfNats ==
  ASSUME NEW T \in SUBSET Nat, 0 \in T, \A n \in Nat : n \in T => n + 1 \in T
  PROVE  T = Nat
<1> SUFFICES ASSUME Nat \ T # {} PROVE FALSE
  OBVIOUS
<1>1. PICK m \in Nat \ T : \A y \in Nat \ T : m <= y
  <2> DEFINE rest == Nat \ T
  <2>1. rest \in SUBSET Nat /\ rest # {}
    OBVIOUS
  <2> HIDE DEF rest
  <2>2. \E x \in rest : \A y \in rest : x <= y
    BY <2>1, LeastNat
  <2> QED BY <2>2 DEF rest
<1>2. m # 0 /\ m - 1 \in Nat /\ m - 1 \in T
  BY <1>1
<1>3. (m - 1) + 1 \in T
  BY <1>2
<1> QED BY <1>1, <1>3

(* Induction over the subsets of a finite set: a collection that has a     *)
(* subset whenever it has all that lack one of its elements has them all.  *)
LEMMA SetOfSubsets ==
  ASSUME NEW S, IsFiniteSet(S), NEW F, {} \in F,
         \A t \in SUBSET S : t # {} /\ (\A x \in t : t \ {x} \in F) => t \in F
  PROVE  SUBSET S \subseteq F
<1> DEFINE bad == {t \in SUBSET S : t \notin F}
           Below == StrictSubsetOrdering(S)
<1> SUFFICES ASSUME bad # {} PROVE FALSE
  OBVIOUS
<1>1. IsWellFoundedOn(Below, FiniteSubsetsOf(S))
  BY FS_StrictSubsetOrderingWellFounded
<1>2. bad \subseteq FiniteSubsetsOf(S)
  BY FS_Subset DEF FiniteSubsetsOf
<1>3. \A s, t \in SUBSET S : <<s, t>> \in Below <=> s \subseteq t /\ s # t
  BY DEF StrictSubsetOrdering
<1>4. PICK t \in bad : \A s \in bad : <<s, t>> \notin Below
  <2> HIDE DEF bad, Below
  <2> QED BY <1>1, <1>2, WFMin
<1>5. t \in SUBSET S /\ t \notin F /\ t # {}
  BY <1>4
<1>6. ASSUME NEW x \in t PROVE t \ {x} \in F
  <2>1. t \ {x} \in SUBSET S /\ <<t \ {x}, t>> \in Below
    BY <1>3, <1>5
  <2> QED BY <1>4, <2>1
<1> QED BY <1>5, <1>6

(* A finite set of naturals has a greatest element.                        *)
LEMMA GreatestNat ==
  ASSUME NEW T \in SUBSET Nat, T # {}, IsFiniteSet(T)
  PROVE  \E x \in T : \A y \in T : y <= x
<1> DEFINE F == {t \in SUBSET T : t = {} \/ \E x \in t : \A y \in t : y <= x}
<1>1. ASSUME NEW t \in SUBSET T, t # {}, \A x \in t : t \ {x} \in F
      PROVE  t \in F
  <2>1. PICK x : x \in t
    BY <1>1
  <2>2. CASE t \ {x} = {}
    <3>1. \A y \in t : y <= x
      BY <2>1, <2>2
    <3> QED BY <1>1, <2>1, <3>1
  <2>3. CASE t \ {x} # {}
    <3>1. PICK m \in t \ {x} : \A y \in t \ {x} : y <= m
      BY <1>1, <2>1, <2>3
    <3>2. CASE x <= m
      <4>1. \A y \in t : y <= m
        BY <3>1, <3>2
      <4> QED BY <1>1, <3>1, <4>1
    <3>3. CASE ~(x <= m)
      <4>1. \A y \in t : y <= x
        BY <2>1, <3>1, <3>3
      <4> QED BY <1>1, <2>1, <4>1
    <3> QED BY <3>2, <3>3
  <2> QED BY <2>2, <2>3
<1>2. {} \in F
  OBVIOUS
<1>3. SUBSET T \subseteq F
  <2> HIDE DEF F
  <2> QED BY <1>1, <1>2, SetOfSubsets
<1>4. T \in F
  BY <1>3
<1> QED BY <1>4

(* Min and Max of such a set.                                              *)
LEMMA MinMax ==
  ASSUME NEW T \in SUBSET Nat, T # {}, IsFiniteSet(T)
  PROVE  /\ Min(T) \in T /\ \A y \in T : Min(T) <= y
         /\ Max(T) \in T /\ \A y \in T : y <= Max(T)
<1>1. \E x \in T : \A y \in T : x <= y
  BY LeastNat
<1>2. \E x \in T : \A y \in T : x >= y
  <2>1. PICK x \in T : \A y \in T : y <= x
    BY GreatestNat
  <2>2. \A y \in T : x >= y
    BY <2>1
  <2> QED BY <2>2
<1>3. Min(T) \in T /\ \A y \in T : Min(T) <= y
  BY <1>1 DEF Min
<1>4. Max(T) \in T /\ \A y \in T : Max(T) >= y
  BY <1>2 DEF Max
<1>5. \A y \in T : y <= Max(T)
  BY <1>4
<1> QED BY <1>3, <1>4, <1>5

-----------------------------------------------------------------------------
(* The recursion behind SumFunction: g sums f over the subsets of S.       *)
Sums(f, S, g) ==
  g = [s \in SUBSET S |->
         IF s = {} THEN 0
         ELSE f[CHOOSE x \in s : TRUE] + g[s \ {CHOOSE x \in s : TRUE}]]

(* Such a g exists: it is built up by the size of the subsets.             *)
LEMMA SumsExist ==
  ASSUME NEW S, IsFiniteSet(S), NEW f
  PROVE  \E g : Sums(f, S, g)
<1> DEFINE pick(s) == CHOOSE x \in s : TRUE
           body(g, s) == IF s = {} THEN 0 ELSE f[pick(s)] + g[s \ {pick(s)}]
           Upto(n) == {s \in SUBSET S : Cardinality(s) <= n}
           Partial(n, g) == \A s \in Upto(n) : g[s] = body(g, s)
           T == {n \in Nat : \E g : Partial(n, g)}
<1>1. \A s \in SUBSET S :
        /\ Cardinality(s) \in Nat /\ (Cardinality(s) = 0 <=> s = {})
        /\ s # {} => /\ pick(s) \in s
                     /\ s \ {pick(s)} \in SUBSET S
                     /\ Cardinality(s \ {pick(s)}) = Cardinality(s) - 1
  <2> SUFFICES ASSUME NEW s \in SUBSET S
               PROVE  /\ Cardinality(s) \in Nat /\ (Cardinality(s) = 0 <=> s = {})
                      /\ s # {} => /\ pick(s) \in s
                                   /\ Cardinality(s \ {pick(s)}) = Cardinality(s) - 1
    OBVIOUS
  <2>1. IsFiniteSet(s)
    BY FS_Subset
  <2>2. s # {} => pick(s) \in s
    OBVIOUS
  <2> HIDE DEF pick
  <2> QED BY <2>1, <2>2, FS_CardinalityType, FS_EmptySet, FS_RemoveElement
<1> HIDE DEF pick
<1>a. /\ \A s \in SUBSET S : Cardinality(s) \in Nat /\ (Cardinality(s) = 0 <=> s = {})
      /\ {} \in SUBSET S
  BY <1>1
<1>2. 0 \in T
  <2> DEFINE g == [s \in SUBSET S |-> 0]
  <2>1. \A s \in Upto(0) : s = {}
    <3>1. ASSUME NEW s \in SUBSET S, Cardinality(s) <= 0 PROVE s = {}
      <4>1. Cardinality(s) \in Nat /\ (Cardinality(s) = 0 <=> s = {})
        BY <1>a
      <4> QED BY <3>1, <4>1
    <3> QED BY <3>1
  <2>2. Partial(0, g)
    BY <2>1
  <2> HIDE DEF Partial
  <2> QED BY <2>2
<1>3. ASSUME NEW n \in Nat, n \in T PROVE n + 1 \in T
  <2>1. PICK g : Partial(n, g)
    BY <1>3
  <2> DEFINE h == [s \in SUBSET S |-> IF Cardinality(s) <= n THEN g[s] ELSE body(g, s)]
  <2>2. ASSUME NEW s \in Upto(n + 1) PROVE h[s] = body(h, s)
    <3>1. CASE s = {}
      <4>1. s \in Upto(n)
        <5>1. Cardinality(s) = 0 /\ s \in SUBSET S
          BY <1>a, <3>1
        <5> QED BY <1>3, <5>1
      <4> QED BY <2>1, <3>1, <4>1
    <3>2. CASE s # {}
      <4> DEFINE r == s \ {pick(s)}
      <4>1. r \in Upto(n) /\ s \in SUBSET S
        BY <1>1, <3>2
      <4>2. h[r] = g[r]
        BY <4>1
      <4>3. h[s] = f[pick(s)] + g[r]
        <5>1. CASE Cardinality(s) <= n
          BY <2>1, <3>2, <4>1, <5>1
        <5>2. CASE ~(Cardinality(s) <= n)
          BY <3>2, <4>1, <5>2
        <5> QED BY <5>1, <5>2
      <4> QED BY <3>2, <4>2, <4>3
    <3> QED BY <3>1, <3>2
  <2>3. Partial(n + 1, h)
    BY <2>2
  <2> HIDE DEF Partial, h
  <2> QED BY <2>3
<1>4. T = Nat
  <2>1. T \in SUBSET Nat
    OBVIOUS
  <2> HIDE DEF T
  <2> QED BY <1>2, <1>3, <2>1, SetOfNats
<1>5. Cardinality(S) \in Nat /\ Upto(Cardinality(S)) = SUBSET S
  BY <1>a, FS_Subset
<1>6. PICK g : Partial(Cardinality(S), g)
  <2> HIDE DEF Partial
  <2> QED BY <1>4, <1>5
<1> DEFINE h == [s \in SUBSET S |-> g[s]]
<1>7. \A s \in SUBSET S : h[s] = body(h, s)
  BY <1>1, <1>5, <1>6
<1>8. h = [s \in SUBSET S |-> body(h, s)]
  BY <1>7
<1> QED BY <1>8 DEF Sums, pick

(* A sum over a finite set lies between its size times the bounds of what  *)
(* is summed.                                                              *)
LEMMA SumBounds ==
  ASSUME NEW S, IsFiniteSet(S), NEW f \in [S -> Nat], NEW lo \in Nat, NEW hi \in Nat,
         \A x \in S : lo <= f[x] /\ f[x] <= hi
  PROVE  /\ SumFunction(f) \in Nat
         /\ Cardinality(S) * lo <= SumFunction(f)
         /\ SumFunction(f) <= Cardinality(S) * hi
<1> DEFINE g == CHOOSE g : Sums(f, S, g)
           bound(s) == /\ g[s] \in Nat
                       /\ Cardinality(s) * lo <= g[s] /\ g[s] <= Cardinality(s) * hi
           F == {s \in SUBSET S : bound(s)}
<1>1. SumFunction(f) = g[S]
  BY DEF SumFunction, SumFunctionOnSet, FoldFunctionOnSet, MapThenFoldSet, Sums
<1>2. Sums(f, S, g)
  BY SumsExist
<1> HIDE DEF g
<1>3. g[{}] = 0 /\ \A s \in SUBSET S : s # {} => \E x \in s : g[s] = f[x] + g[s \ {x}]
  BY <1>2 DEF Sums
<1>4. {} \in F
  BY <1>3, FS_EmptySet
<1>5. ASSUME NEW s \in SUBSET S, s # {}, \A x \in s : s \ {x} \in F PROVE s \in F
  <2>1. PICK x \in s : g[s] = f[x] + g[s \ {x}]
    BY <1>3, <1>5
  <2>2. bound(s \ {x})
    BY <1>5
  <2>3. /\ Cardinality(s \ {x}) \in Nat
        /\ Cardinality(s) = Cardinality(s \ {x}) + 1
    BY FS_Subset, FS_RemoveElement, FS_CardinalityType
  <2>4. f[x] \in Nat /\ lo <= f[x] /\ f[x] <= hi
    OBVIOUS
  <2>5. \A c, k \in Nat : (c + 1) * k = c * k + k /\ c * k \in Nat
    OBVIOUS
  <2>6. bound(s)
    BY <2>1, <2>2, <2>3, <2>4, <2>5
  <2> QED BY <2>6
<1>6. SUBSET S \subseteq F
  <2> HIDE DEF F
  <2> QED BY <1>4, <1>5, SetOfSubsets
<1>7. bound(S)
  BY <1>6
<1> QED BY <1>1, <1>7

-----------------------------------------------------------------------------
(* The parts of a finite set add up to it.                                 *)
LEMMA TwoParts ==
  ASSUME NEW S, IsFiniteSet(S), NEW A \in SUBSET S
  PROVE  /\ IsFiniteSet(A) /\ Cardinality(A) \in Nat /\ Cardinality(S) \in Nat
         /\ Cardinality(A) <= Cardinality(S)
         /\ Cardinality(S \ A) = Cardinality(S) - Cardinality(A)
<1>1. IsFiniteSet(A) /\ Cardinality(A) <= Cardinality(S)
  BY FS_Subset
<1>2. Cardinality(S \ A) = Cardinality(S) - Cardinality(S \cap A)
  BY FS_Difference
<1>3. S \cap A = A
  OBVIOUS
<1> QED BY <1>1, <1>2, <1>3, FS_CardinalityType

LEMMA ThreeParts ==
  ASSUME NEW S, IsFiniteSet(S), NEW A, NEW B, NEW C, S = A \cup B \cup C,
         A \cap B = {}, A \cap C = {}, B \cap C = {}
  PROVE  /\ Cardinality(A) \in Nat /\ Cardinality(B) \in Nat /\ Cardinality(C) \in Nat
         /\ Cardinality(A) + Cardinality(B) + Cardinality(C) = Cardinality(S)
<1>1. A \in SUBSET S /\ S \ A = B \cup C
  OBVIOUS
<1>2. IsFiniteSet(S \ A) /\ B \in SUBSET (S \ A) /\ (S \ A) \ B = C
  BY <1>1, FS_Difference
<1>3. /\ Cardinality(A) \in Nat /\ Cardinality(S) \in Nat
      /\ Cardinality(S \ A) = Cardinality(S) - Cardinality(A)
  BY <1>1, TwoParts
<1>4. /\ Cardinality(B) \in Nat
      /\ Cardinality(C) = Cardinality(S \ A) - Cardinality(B)
  BY <1>2, TwoParts
<1>5. Cardinality(C) \in Nat
  BY <1>2, FS_Subset, FS_CardinalityType
<1> QED BY <1>3, <1>4, <1>5
=============================================================================
