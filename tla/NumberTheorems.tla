---------------------------- MODULE NumberTheorems ----------------------------
(***************************************************************************)
(* What SumFunctionOnSet computes for natural numbers over a finite set,    *)
(* induction stated with a set in the place of a predicate, and what is     *)
(* known of a recursive function that stands for a loop: that it exists.    *)
(*                                                                         *)
(* The community module defines the sum by a recursion that removes a       *)
(* chosen element at a time.  Laying f[x] distinct units side by side for   *)
(* every x turns the sum into the size of a finite set: the sizes of those  *)
(* sets satisfy the recursion, and a smallest set on which another solution *)
(* differs cannot exist.  How a sum changes then follows from what is known *)
(* of cardinalities.                                                       *)
(***************************************************************************)
EXTENDS Functions, FiniteSetTheorems, WellFoundedInduction, TLAPS

\* f[x] units for every x of S, told apart by their numbers.
UnitsOf(f, S) == UNION {{x} \X (1 .. f[x]) : x \in S}

\* The recursion that defines SumFunctionOnSet(f, S).
SumsUp(f, S, h) ==
  h = [T \in SUBSET S |->
         IF T = {} THEN 0 ELSE LET x == CHOOSE x \in T : TRUE IN f[x] + h[T \ {x}]]

-----------------------------------------------------------------------------
(* The units of a set. *)

\* The units of one element: finitely many, as many as its value.
LEMMA UnitsOfOne ==
  ASSUME NEW x, NEW n \in Nat
  PROVE  IsFiniteSet({x} \X (1 .. n)) /\ Cardinality({x} \X (1 .. n)) = n
<1>1. IsFiniteSet({x}) /\ Cardinality({x}) = 1
  BY FS_Singleton
<1>2. IsFiniteSet(1 .. n) /\ Cardinality(1 .. n) = n
  BY FS_Interval
<1>3. Cardinality({x} \X (1 .. n)) = 1 * n
  BY <1>1, <1>2, FS_Product
<1>4. IsFiniteSet({x} \X (1 .. n))
  BY <1>1, <1>2, FS_Product
<1> QED BY <1>3, <1>4

\* A finite set has finitely many units.
LEMMA UnitsFinite ==
  ASSUME NEW f, NEW S, IsFiniteSet(S), \A x \in S : f[x] \in Nat
  PROVE  IsFiniteSet(UnitsOf(f, S))
<1> DEFINE F == [x \in S |-> {x} \X (1 .. f[x])]
           T == {{x} \X (1 .. f[x]) : x \in S}
<1>1. F \in Surjection(S, T)
  BY DEF Surjection
<1>2. IsFiniteSet(T)
  BY <1>1, FS_Surjection
<1>3. ASSUME NEW x \in S PROVE IsFiniteSet({x} \X (1 .. f[x]))
  BY UnitsOfOne
<1>4. \A t \in T : IsFiniteSet(t)
  BY <1>3
<1> QED BY <1>2, <1>4, FS_UNION DEF UnitsOf

\* Another element brings its own units.
LEMMA UnitsAdd ==
  ASSUME NEW f, NEW S, NEW x, IsFiniteSet(S), x \notin S,
         \A y \in S \cup {x} : f[y] \in Nat
  PROVE  Cardinality(UnitsOf(f, S \cup {x})) = Cardinality(UnitsOf(f, S)) + f[x]
<1> DEFINE U == {x} \X (1 .. f[x])
<1>1. UnitsOf(f, S \cup {x}) = UnitsOf(f, S) \cup U
  BY DEF UnitsOf
<1>2. UnitsOf(f, S) \cap U = {}
  BY DEF UnitsOf
<1>3. IsFiniteSet(UnitsOf(f, S))
  BY UnitsFinite
<1>4. IsFiniteSet(U) /\ Cardinality(U) = f[x]
  BY UnitsOfOne
<1>5. Cardinality(UnitsOf(f, S \cup {x}))
        = Cardinality(UnitsOf(f, S)) + Cardinality(U) - Cardinality({})
  <2> HIDE DEF U
  <2> DEFINE V == UnitsOf(f, S)
  <2>1. Cardinality(V \cup U) = Cardinality(V) + Cardinality(U) - Cardinality(V \cap U)
    <3>1. IsFiniteSet(V) /\ IsFiniteSet(U)
      BY <1>3, <1>4
    <3> HIDE DEF V
    <3> QED BY <3>1, FS_Union
  <2> QED BY <2>1, <1>1, <1>2
<1>6. Cardinality({}) = 0
  BY FS_EmptySet
<1>7. Cardinality(UnitsOf(f, S)) \in Nat
  BY <1>3, FS_CardinalityType
<1> HIDE DEF U
<1> QED BY <1>4, <1>5, <1>6, <1>7

-----------------------------------------------------------------------------
(* The sum is the number of units. *)

LEMMA SumUnfolds ==
  ASSUME NEW f, NEW S
  PROVE  SumFunctionOnSet(f, S) = (CHOOSE h : SumsUp(f, S, h))[S]
  BY DEF SumFunctionOnSet, FoldFunctionOnSet, MapThenFoldSet, SumsUp

\* The numbers of units satisfy the recursion.
LEMMA UnitsSumUp ==
  ASSUME NEW f, NEW S, IsFiniteSet(S), \A x \in S : f[x] \in Nat
  PROVE  SumsUp(f, S, [T \in SUBSET S |-> Cardinality(UnitsOf(f, T))])
<1> DEFINE g == [T \in SUBSET S |-> Cardinality(UnitsOf(f, T))]
           body(T) == IF T = {} THEN 0
                      ELSE LET x == CHOOSE x \in T : TRUE IN f[x] + g[T \ {x}]
<1>1. ASSUME NEW T \in SUBSET S
      PROVE  Cardinality(UnitsOf(f, T)) = body(T)
  <2>1. CASE T = {}
    <3>1. UnitsOf(f, T) = {}
      BY <2>1 DEF UnitsOf
    <3> QED BY <2>1, <3>1, FS_EmptySet
  <2>2. CASE T # {}
    <3> DEFINE x == CHOOSE x \in T : TRUE
               R == T \ {x}
    <3>1. x \in T
      BY <2>2
    <3> HIDE DEF x
    <3>2. R \in SUBSET S /\ x \notin R /\ R \cup {x} = T
      BY <3>1
    <3>3. IsFiniteSet(R)
      BY <3>2, FS_Subset
    <3>4. \A y \in R \cup {x} : f[y] \in Nat
      BY <3>1, <3>2
    <3>5. Cardinality(UnitsOf(f, T)) = Cardinality(UnitsOf(f, R)) + f[x]
      <4> HIDE DEF R
      <4> QED BY <3>2, <3>3, <3>4, UnitsAdd
    <3>6. Cardinality(UnitsOf(f, R)) \in Nat /\ f[x] \in Nat
      BY <3>1, <3>2, <3>3, UnitsFinite, FS_CardinalityType
    <3>7. g[R] = Cardinality(UnitsOf(f, R))
      BY <3>2
    <3>8. Cardinality(UnitsOf(f, T)) = f[x] + g[R]
      <4> HIDE DEF g, R
      <4> QED BY <3>5, <3>6, <3>7
    <3>9. body(T) = f[x] + g[R]
      BY <2>2 DEF x
    <3> QED BY <3>8, <3>9
  <2> QED BY <2>1, <2>2
<1>2. g = [T \in SUBSET S |-> body(T)]
  BY <1>1
<1> QED BY <1>2 DEF SumsUp

\* Nothing else does: a smallest set on which two solutions differ cannot exist.
LEMMA OneSumOnly ==
  ASSUME NEW f, NEW S, IsFiniteSet(S), NEW g, NEW h,
         SumsUp(f, S, g), SumsUp(f, S, h)
  PROVE  g[S] = h[S]
<1> DEFINE D == {T \in SUBSET S : g[T] # h[T]}
<1> SUFFICES ASSUME g[S] # h[S] PROVE FALSE
  OBVIOUS
<1>1. D # {}
  OBVIOUS
<1>2. D \subseteq FiniteSubsetsOf(S)
  BY FS_FiniteSubsetsOfFinite
<1>3. PICK T \in D : \A U \in D : <<U, T>> \notin StrictSubsetOrdering(S)
  <2> HIDE DEF D
  <2> QED BY <1>1, <1>2, FS_StrictSubsetOrderingWellFounded, WFMin
<1> DEFINE x == CHOOSE x \in T : TRUE
<1>4. g[T] = IF T = {} THEN 0 ELSE f[x] + g[T \ {x}]
  BY DEF SumsUp
<1>5. h[T] = IF T = {} THEN 0 ELSE f[x] + h[T \ {x}]
  BY DEF SumsUp
<1>6. T # {}
  BY <1>4, <1>5
<1>7. x \in T
  BY <1>6
<1> HIDE DEF x
<1>8. T \ {x} \notin D
  <2>1. T \ {x} \in SUBSET S /\ T \ {x} \subseteq T /\ T \ {x} # T
    BY <1>7
  <2>2. <<T \ {x}, T>> \in StrictSubsetOrdering(S)
    BY <2>1 DEF StrictSubsetOrdering
  <2> HIDE DEF D
  <2> QED BY <1>3, <2>2
<1>9. g[T \ {x}] = h[T \ {x}]
  BY <1>8
<1> QED BY <1>4, <1>5, <1>9

\* The sum of natural numbers over a finite set is the number of their units.
LEMMA SumIsUnits ==
  ASSUME NEW f, NEW S, IsFiniteSet(S), \A x \in S : f[x] \in Nat
  PROVE  SumFunctionOnSet(f, S) = Cardinality(UnitsOf(f, S))
<1> DEFINE g == [T \in SUBSET S |-> Cardinality(UnitsOf(f, T))]
           c == CHOOSE h : SumsUp(f, S, h)
<1>1. SumsUp(f, S, g)
  BY UnitsSumUp
<1>2. SumsUp(f, S, c)
  <2> HIDE DEF g
  <2> QED BY <1>1
<1>3. g[S] = c[S]
  <2> HIDE DEF g, c
  <2> QED BY <1>1, <1>2, OneSumOnly
<1> QED BY <1>3, SumUnfolds

-----------------------------------------------------------------------------
(* How sums change. *)

\* A sum of natural numbers is one.
LEMMA SumIsNat ==
  ASSUME NEW f, NEW S, IsFiniteSet(S), \A x \in S : f[x] \in Nat
  PROVE  SumFunctionOnSet(f, S) \in Nat
  BY SumIsUnits, UnitsFinite, FS_CardinalityType

LEMMA SumOfNothing ==
  ASSUME NEW f
  PROVE  SumFunctionOnSet(f, {}) = 0
<1>1. UnitsOf(f, {}) = {}
  BY DEF UnitsOf
<1> QED BY <1>1, SumIsUnits, FS_EmptySet

\* A new element adds its value.
LEMMA SumAdds ==
  ASSUME NEW f, NEW S, NEW x, IsFiniteSet(S), x \notin S,
         \A y \in S \cup {x} : f[y] \in Nat
  PROVE  SumFunctionOnSet(f, S \cup {x}) = SumFunctionOnSet(f, S) + f[x]
<1>1. IsFiniteSet(S \cup {x})
  BY FS_AddElement
<1>2. SumFunctionOnSet(f, S \cup {x}) = Cardinality(UnitsOf(f, S \cup {x}))
  BY <1>1, SumIsUnits
<1>3. SumFunctionOnSet(f, S) = Cardinality(UnitsOf(f, S))
  BY SumIsUnits
<1>4. Cardinality(UnitsOf(f, S \cup {x})) = Cardinality(UnitsOf(f, S)) + f[x]
  BY UnitsAdd
<1> QED BY <1>2, <1>3, <1>4

\* An element taken away takes its value with it.
LEMMA SumRemoves ==
  ASSUME NEW f, NEW S, NEW x, IsFiniteSet(S), x \in S,
         \A y \in S : f[y] \in Nat
  PROVE  SumFunctionOnSet(f, S) = SumFunctionOnSet(f, S \ {x}) + f[x]
<1> DEFINE R == S \ {x}
<1>1. IsFiniteSet(R) /\ x \notin R /\ R \cup {x} = S
  BY FS_RemoveElement
<1> HIDE DEF R
<1>2. SumFunctionOnSet(f, R \cup {x}) = SumFunctionOnSet(f, R) + f[x]
  BY <1>1, SumAdds
<1> QED BY <1>1, <1>2 DEF R

\* Only the values on the set count.
LEMMA SumAgrees ==
  ASSUME NEW f, NEW g, NEW S, IsFiniteSet(S),
         \A x \in S : f[x] \in Nat /\ g[x] = f[x]
  PROVE  SumFunctionOnSet(f, S) = SumFunctionOnSet(g, S)
<1>1. UnitsOf(f, S) = UnitsOf(g, S)
  BY DEF UnitsOf
<1> QED BY <1>1, SumIsUnits

-----------------------------------------------------------------------------
(* Induction over a set of natural numbers. *)

\* A set of natural numbers has a least element.
LEMMA LeastOf ==
  ASSUME NEW D \in SUBSET Nat, D # {}
  PROVE  \E n \in D : \A m \in D : n <= m
<1>1. PICK n \in D : \A m \in D : <<m, n>> \notin OpToRel(<, Nat)
  BY NatLessThanWellFounded, WFMin
<1>2. ASSUME NEW m \in D PROVE ~(m < n)
  BY <1>1, <1>2 DEF OpToRel
<1>3. \A m \in D : n <= m
  BY <1>2
<1> QED BY <1>3

\* A set that holds 0 and goes on up to N holds all numbers up to N.
LEMMA HoldsUpTo ==
  ASSUME NEW N \in Nat, NEW I, 0 \in I, \A n \in 0 .. N - 1 : n \in I => n + 1 \in I
  PROVE  \A n \in 0 .. N : n \in I
<1> DEFINE D == {n \in 0 .. N : n \notin I}
<1> SUFFICES ASSUME D # {} PROVE FALSE
  OBVIOUS
<1>0. D \in SUBSET Nat
  OBVIOUS
<1>1. PICK n \in D : \A m \in D : n <= m
  <2> HIDE DEF D
  <2> QED BY <1>0, LeastOf
<1>2. n # 0
  OBVIOUS
<1>3. n - 1 \in 0 .. N - 1 /\ n - 1 \notin D /\ (n - 1) + 1 = n
  BY <1>1, <1>2
<1> QED BY <1>3
-----------------------------------------------------------------------------
(* Loops. *)

\* f[i] is what a loop over 1 .. n holds after round i.
IsRun(f, n, base, step) == f[0] = base /\ \A i \in 1 .. n : f[i] = step[<<f[i - 1], i>>]

\* A loop over 1 .. n has a run.
LEMMA LoopDefined ==
  ASSUME NEW n \in Nat, NEW D, NEW base \in D, NEW step \in [D \X (1 .. n) -> D]
  PROVE  \E f \in [0 .. n -> D] : IsRun(f, n, base, step)
<1> DEFINE Runs(f, m) == IsRun(f, m, base, step)
           I == {m \in 0 .. n : \E f \in [0 .. m -> D] : Runs(f, m)}
<1>1. 0 \in I
  <2>1. [i \in 0 .. 0 |-> base] \in [0 .. 0 -> D] /\ Runs([i \in 0 .. 0 |-> base], 0)
    BY DEF IsRun
  <2> HIDE DEF Runs
  <2> QED BY <2>1
<1>2. ASSUME NEW m \in 0 .. n - 1, m \in I PROVE m + 1 \in I
  <2>1. PICK f \in [0 .. m -> D] : Runs(f, m)
    BY <1>2
  <2> DEFINE g == [i \in 0 .. m + 1 |-> IF i = m + 1 THEN step[<<f[m], m + 1>>] ELSE f[i]]
  <2>2. m + 1 \in 1 .. n /\ f[m] \in D /\ step[<<f[m], m + 1>>] \in D
    OBVIOUS
  <2>3. g \in [0 .. m + 1 -> D]
    BY <2>2
  <2>4. g[m + 1] = step[<<f[m], m + 1>>] /\ \A i \in 0 .. m : g[i] = f[i]
    OBVIOUS
  <2>5. Runs(g, m + 1)
    <3> HIDE DEF g
    <3>1. ASSUME NEW i \in 1 .. m + 1 PROVE g[i] = step[<<g[i - 1], i>>]
      <4>1. CASE i = m + 1
        BY <2>4, <4>1
      <4>2. CASE i \in 1 .. m
        <5>1. i - 1 \in 0 .. m /\ i \in 0 .. m
          BY <4>2
        <5> QED BY <2>1, <2>4, <4>2, <5>1 DEF IsRun
      <4> QED BY <4>1, <4>2
    <3>2. g[0] = base
      BY <2>1, <2>4 DEF IsRun
    <3> QED BY <3>1, <3>2 DEF IsRun
  <2> HIDE DEF Runs, g
  <2> QED BY <2>2, <2>3, <2>5
<1>3. n \in I
  <2>1. \A m \in 0 .. n - 1 : m \in I => m + 1 \in I
    BY <1>2
  <2> HIDE DEF I
  <2>2. \A m \in 0 .. n : m \in I
    BY <1>1, <2>1, HoldsUpTo
  <2> QED BY <2>2
<1> QED BY <1>3
==============================================================================
