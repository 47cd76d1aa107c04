---------------------------- MODULE SumTheorems ----------------------------
(***************************************************************************)
(* Sums over finite sets: what the order in which SumFunctionOnSet adds    *)
(* does not change.  Counters and records are summed over sessions and     *)
(* calls; a step changes one of them, or all.                              *)
(***************************************************************************)
EXTENDS Functions, FiniteSetTheorems, WellFoundedInduction, TLAPS

AnyOf(T) == CHOOSE x \in T : TRUE

(* g adds the values of f, as the community module's recursion does.       *)
Sum1(f, g, T) == IF T = {} THEN 0 ELSE f[AnyOf(T)] + g[T \ {AnyOf(T)}]
Adds(f, S, g) == g = [T \in SUBSET S |-> Sum1(f, g, T)]

LEMMA Unfold ==
    ASSUME NEW f, NEW S
    PROVE  SumFunctionOnSet(f, S) = (CHOOSE g : Adds(f, S, g))[S]
BY Zenon DEF SumFunctionOnSet, FoldFunctionOnSet, MapThenFoldSet, Adds, Sum1, AnyOf

(* Induction over the numbers, for a set in place of a predicate.          *)
LEMMA Induction ==
    ASSUME NEW X \in SUBSET Nat, 0 \in X, \A n \in X : n + 1 \in X
    PROVE  \A n \in Nat : n \in X
<1> DEFINE R == {ss \in Nat \X Nat : ss[1] < ss[2]}
           T == Nat \ X
<1> SUFFICES ASSUME T # {} PROVE FALSE
  OBVIOUS
<1>1. IsWellFoundedOn(R, Nat)
  BY NatLessThanWellFounded DEF OpToRel
<1>2. PICK m \in T : \A j \in T : ~(<<j, m>> \in R)
  <2>1. T \subseteq Nat
    OBVIOUS
  <2> HIDE DEF T, R
  <2> QED BY <1>1, <2>1, WFMin
<1>3. m \in Nat /\ m # 0
  OBVIOUS
<1>4. m - 1 \in Nat /\ (m - 1) + 1 = m
  BY <1>3
<1>5. m - 1 \in T
  <2>1. m - 1 \in X => m \in X
    BY <1>4
  <2> QED
    BY <1>4, <2>1
<1>6. ~(<<m - 1, m>>[1] < <<m - 1, m>>[2])
  BY <1>2, <1>3, <1>4, <1>5
<1> QED
  BY <1>3, <1>6

LEMMA Smaller ==
    ASSUME NEW T, IsFiniteSet(T), T # {}
    PROVE  /\ AnyOf(T) \in T /\ IsFiniteSet(T \ {AnyOf(T)})
           /\ Cardinality(T) \in Nat \ {0}
           /\ Cardinality(T \ {AnyOf(T)}) = Cardinality(T) - 1
BY FS_RemoveElement, FS_CardinalityType, FS_EmptySet DEF AnyOf

LEMMA AddsExists ==
    ASSUME NEW f, NEW S, IsFiniteSet(S)
    PROVE  \E g : Adds(f, S, g)
<1> DEFINE Upto(n, g) == \A T \in SUBSET S : Cardinality(T) < n => g[T] = Sum1(f, g, T)
           X == {n \in Nat : \E g : Upto(n, g)}
<1>1. \A T \in SUBSET S : IsFiniteSet(T) /\ Cardinality(T) \in Nat
                          /\ Cardinality(T) <= Cardinality(S)
  BY FS_Subset, FS_CardinalityType
<1>2. 0 \in X
  <2>1. Upto(0, f)
    BY <1>1
  <2> QED
    BY <2>1
<1>3. ASSUME NEW n \in X PROVE n + 1 \in X
  <2>1. PICK g : Upto(n, g)
    OBVIOUS
  <2> DEFINE h == [T \in SUBSET S |-> IF Cardinality(T) < n THEN g[T] ELSE Sum1(f, g, T)]
  <2>2. ASSUME NEW T \in SUBSET S, Cardinality(T) < n + 1 PROVE h[T] = Sum1(f, h, T)
    <3>1. h[T] = Sum1(f, g, T)
      BY <2>1
    <3>2. CASE T = {}
      BY <3>1, <3>2 DEF Sum1
    <3>3. CASE T # {}
      <4> DEFINE U == T \ {AnyOf(T)}
      <4>1. U \in SUBSET S /\ Cardinality(U) < n
        BY <1>1, <2>2, <3>3, Smaller
      <4>2. h[U] = g[U]
        BY <4>1
      <4> HIDE DEF h
      <4> QED
        BY <3>1, <3>3, <4>2 DEF Sum1
    <3> QED
      BY <3>2, <3>3
  <2> HIDE DEF h
  <2> QED
    BY <2>2
<1>4. PICK g : Upto(Cardinality(S) + 1, g)
  <2>1. Cardinality(S) + 1 \in Nat
    BY <1>1
  <2> HIDE DEF Upto
  <2>2. X \in SUBSET Nat
    OBVIOUS
  <2> HIDE DEF X
  <2>3. Cardinality(S) + 1 \in X
    BY <1>2, <1>3, <2>1, <2>2, Induction
  <2> QED
    BY <2>3 DEF X
<1>5. \A T \in SUBSET S : g[T] = Sum1(f, g, T)
  BY <1>1, <1>4
<1> DEFINE h == [T \in SUBSET S |-> g[T]]
<1>6. ASSUME NEW T \in SUBSET S PROVE h[T] = Sum1(f, h, T)
  <2>1. T # {} => T \ {AnyOf(T)} \in SUBSET S
    OBVIOUS
  <2> QED
    BY <1>5, <2>1 DEF Sum1
<1>7. Adds(f, S, h)
  BY <1>6 DEF Adds
<1> QED
  BY <1>7

(* Two such functions agree where they add the same values.                *)
LEMMA AddsSame ==
    ASSUME NEW f, NEW h, NEW S, IsFiniteSet(S), \A x \in S : f[x] = h[x],
           NEW U, S \subseteq U, NEW V, S \subseteq V,
           NEW p, Adds(f, U, p), NEW q, Adds(h, V, q)
    PROVE  p[S] = q[S]
<1> DEFINE X == {n \in Nat : \A T \in SUBSET S : Cardinality(T) = n => p[T] = q[T]}
<1>1. \A T \in SUBSET S : IsFiniteSet(T) /\ Cardinality(T) \in Nat
  BY FS_Subset, FS_CardinalityType
<1>2. \A T \in SUBSET S : p[T] = Sum1(f, p, T) /\ q[T] = Sum1(h, q, T)
  BY DEF Adds
<1>3. 0 \in X
  <2>1. \A T \in SUBSET S : Cardinality(T) = 0 => T = {}
    BY <1>1, FS_EmptySet
  <2>2. p[{}] = 0 /\ q[{}] = 0
    BY <1>2 DEF Sum1
  <2> QED
    BY <2>1, <2>2
<1>4. ASSUME NEW n \in X PROVE n + 1 \in X
  <2> SUFFICES ASSUME NEW T \in SUBSET S, Cardinality(T) = n + 1 PROVE p[T] = q[T]
    OBVIOUS
  <2>1. T # {}
    BY FS_EmptySet
  <2> DEFINE U1 == T \ {AnyOf(T)}
  <2>2. /\ AnyOf(T) \in S /\ U1 \in SUBSET S /\ Cardinality(U1) = n
    BY <1>1, <2>1, Smaller
  <2>3. p[U1] = q[U1]
    BY <2>2
  <2> QED
    BY <1>2, <2>1, <2>2, <2>3 DEF Sum1
<1> HIDE DEF X
<1>5. Cardinality(S) \in X
  <2>1. X \in SUBSET Nat
    BY DEF X
  <2> QED
    BY <1>1, <1>3, <1>4, <2>1, Induction
<1> QED
  BY <1>5 DEF X

LEMMA Chosen ==
    ASSUME NEW f, NEW S, IsFiniteSet(S)
    PROVE  \E g : Adds(f, S, g) /\ SumFunctionOnSet(f, S) = g[S]
<1>1. Adds(f, S, CHOOSE g : Adds(f, S, g))
  BY AddsExists
<1> QED
  BY <1>1, Unfold

-----------------------------------------------------------------------------
(* The empty sum. *)
LEMMA SumOfNone == \A f : SumFunctionOnSet(f, {}) = 0
<1> SUFFICES ASSUME NEW f PROVE SumFunctionOnSet(f, {}) = 0
  OBVIOUS
<1>1. PICK g : Adds(f, {}, g) /\ SumFunctionOnSet(f, {}) = g[{}]
  BY Chosen, FS_EmptySet
<1> QED
  BY <1>1 DEF Adds, Sum1

(* A sum depends on the values that are summed, and on nothing else.       *)
LEMMA SumSame ==
    ASSUME NEW f, NEW h, NEW S, IsFiniteSet(S), \A x \in S : f[x] = h[x]
    PROVE  SumFunctionOnSet(f, S) = SumFunctionOnSet(h, S)
<1>1. PICK p : Adds(f, S, p) /\ SumFunctionOnSet(f, S) = p[S]
  BY Chosen
<1>2. PICK q : Adds(h, S, q) /\ SumFunctionOnSet(h, S) = q[S]
  BY Chosen
<1> QED
  BY <1>1, <1>2, AddsSame

LEMMA SumFirst ==
    ASSUME NEW f, NEW S, IsFiniteSet(S), S # {}
    PROVE  SumFunctionOnSet(f, S) = f[AnyOf(S)] + SumFunctionOnSet(f, S \ {AnyOf(S)})
<1> DEFINE U == S \ {AnyOf(S)}
<1>1. PICK p : Adds(f, S, p) /\ SumFunctionOnSet(f, S) = p[S]
  BY Chosen
<1>2. IsFiniteSet(U)
  BY Smaller
<1>3. PICK q : Adds(f, U, q) /\ SumFunctionOnSet(f, U) = q[U]
  BY <1>2, Chosen
<1>4. p[U] = q[U]
  <2>1. U \subseteq S /\ U \subseteq U /\ \A x \in U : f[x] = f[x]
    OBVIOUS
  <2> HIDE DEF U
  <2>2. Adds(f, S, p) /\ Adds(f, U, q)
    BY <1>1, <1>3
  <2> QED
    BY <1>2, <2>1, <2>2, AddsSame, Z3
<1>5. p[S] = f[AnyOf(S)] + p[U]
  BY <1>1 DEF Adds, Sum1
<1> QED
  BY <1>1, <1>3, <1>4, <1>5

(* A sum of natural numbers is one. *)
LEMMA SumNat ==
    ASSUME NEW S, IsFiniteSet(S), NEW f, \A x \in S : f[x] \in Nat
    PROVE  SumFunctionOnSet(f, S) \in Nat
<1> DEFINE X == {n \in Nat : \A T \in SUBSET S : Cardinality(T) = n
                                => SumFunctionOnSet(f, T) \in Nat}
<1>1. \A T \in SUBSET S : IsFiniteSet(T) /\ Cardinality(T) \in Nat
  BY FS_Subset, FS_CardinalityType
<1>2. 0 \in X
  <2>1. \A T \in SUBSET S : Cardinality(T) = 0 => T = {}
    BY <1>1, FS_EmptySet
  <2> QED
    BY <2>1, SumOfNone
<1>3. ASSUME NEW n \in X PROVE n + 1 \in X
  <2> SUFFICES ASSUME NEW T \in SUBSET S, Cardinality(T) = n + 1
               PROVE  SumFunctionOnSet(f, T) \in Nat
    OBVIOUS
  <2>1. T # {}
    BY FS_EmptySet
  <2> DEFINE U == T \ {AnyOf(T)}
  <2>2. AnyOf(T) \in S /\ U \in SUBSET S /\ Cardinality(U) = n
    BY <1>1, <2>1, Smaller
  <2>3. SumFunctionOnSet(f, U) \in Nat
    BY <2>2
  <2>4. SumFunctionOnSet(f, T) = f[AnyOf(T)] + SumFunctionOnSet(f, U)
    BY <1>1, <2>1, SumFirst
  <2> QED
    BY <2>2, <2>3, <2>4
<1> HIDE DEF X
<1>4. Cardinality(S) \in X
  <2>1. X \in SUBSET Nat
    BY DEF X
  <2> QED
    BY <1>1, <1>2, <1>3, <2>1, Induction
<1> QED
  BY <1>4 DEF X

(* Any element may be taken out. *)
LEMMA SumWithout ==
    ASSUME NEW S, IsFiniteSet(S), NEW f, \A x \in S : f[x] \in Nat, NEW y \in S
    PROVE  SumFunctionOnSet(f, S) = f[y] + SumFunctionOnSet(f, S \ {y})
<1> DEFINE Out(T) == \A z \in T :
                        SumFunctionOnSet(f, T) = f[z] + SumFunctionOnSet(f, T \ {z})
           X == {n \in Nat : \A T \in SUBSET S : Cardinality(T) = n => Out(T)}
<1>1. \A T \in SUBSET S : /\ IsFiniteSet(T) /\ Cardinality(T) \in Nat
                          /\ SumFunctionOnSet(f, T) \in Nat
  BY FS_Subset, FS_CardinalityType, SumNat
<1>2. 0 \in X
  <2>1. \A T \in SUBSET S : Cardinality(T) = 0 => T = {}
    BY <1>1, FS_EmptySet
  <2> QED
    BY <2>1
<1>3. ASSUME NEW n \in X PROVE n + 1 \in X
  <2> SUFFICES ASSUME NEW T \in SUBSET S, Cardinality(T) = n + 1, NEW z \in T
               PROVE  SumFunctionOnSet(f, T) = f[z] + SumFunctionOnSet(f, T \ {z})
    OBVIOUS
  <2> DEFINE x == AnyOf(T)
             U == T \ {x}
             V == T \ {z}
  <2>1. x \in T /\ IsFiniteSet(U) /\ Cardinality(U) = n /\ U \in SUBSET S
    BY <1>1, Smaller
  <2>2. IsFiniteSet(V) /\ Cardinality(V) = n /\ V \in SUBSET S
    <3>1. IsFiniteSet(V) /\ Cardinality(V) = Cardinality(T) - 1
      BY <1>1, FS_RemoveElement
    <3> QED
      BY <3>1
  <2>3. SumFunctionOnSet(f, T) = f[x] + SumFunctionOnSet(f, U)
    BY <1>1, SumFirst
  <2> HIDE DEF x
  <2>4. CASE z = x
    BY <2>3, <2>4
  <2>5. CASE z # x
    <3>1. z \in U /\ x \in V /\ U \ {z} = V \ {x}
      BY <2>1, <2>5
    <3>2. SumFunctionOnSet(f, U) = f[z] + SumFunctionOnSet(f, U \ {z})
      BY <2>1, <3>1
    <3>3. SumFunctionOnSet(f, V) = f[x] + SumFunctionOnSet(f, V \ {x})
      BY <2>2, <3>1
    <3>4. /\ f[x] \in Nat /\ f[z] \in Nat /\ SumFunctionOnSet(f, U \ {z}) \in Nat
          /\ SumFunctionOnSet(f, V \ {x}) = SumFunctionOnSet(f, U \ {z})
      BY <1>1, <2>1, <3>1
    <3> QED
      BY <2>3, <3>2, <3>3, <3>4
  <2> QED
    BY <2>4, <2>5
<1> HIDE DEF X
<1>4. Cardinality(S) \in X
  <2>1. X \in SUBSET Nat
    BY DEF X
  <2> QED
    BY <1>1, <1>2, <1>3, <2>1, Induction
<1> QED
  BY <1>4 DEF X

(* A sum of zeros. *)
LEMMA SumOfZeros ==
    ASSUME NEW S, IsFiniteSet(S), NEW f, \A x \in S : f[x] = 0
    PROVE  SumFunctionOnSet(f, S) = 0
<1> DEFINE X == {n \in Nat : \A T \in SUBSET S : Cardinality(T) = n
                                => SumFunctionOnSet(f, T) = 0}
<1>1. \A T \in SUBSET S : IsFiniteSet(T) /\ Cardinality(T) \in Nat
  BY FS_Subset, FS_CardinalityType
<1>2. 0 \in X
  <2>1. \A T \in SUBSET S : Cardinality(T) = 0 => T = {}
    BY <1>1, FS_EmptySet
  <2> QED
    BY <2>1, SumOfNone
<1>3. ASSUME NEW n \in X PROVE n + 1 \in X
  <2> SUFFICES ASSUME NEW T \in SUBSET S, Cardinality(T) = n + 1
               PROVE  SumFunctionOnSet(f, T) = 0
    OBVIOUS
  <2>1. T # {}
    BY FS_EmptySet
  <2> DEFINE U == T \ {AnyOf(T)}
  <2>2. AnyOf(T) \in S /\ U \in SUBSET S /\ Cardinality(U) = n
    BY <1>1, <2>1, Smaller
  <2>3. SumFunctionOnSet(f, U) = 0
    BY <2>2
  <2>4. SumFunctionOnSet(f, T) = f[AnyOf(T)] + SumFunctionOnSet(f, U)
    BY <1>1, <2>1, SumFirst
  <2> QED
    BY <2>2, <2>3, <2>4
<1> HIDE DEF X
<1>4. Cardinality(S) \in X
  <2>1. X \in SUBSET Nat
    BY DEF X
  <2> QED
    BY <1>1, <1>2, <1>3, <2>1, Induction
<1> QED
  BY <1>4 DEF X

(* A sum changes by as much as the one value that changes.                 *)
LEMMA SumChanged ==
    ASSUME NEW S, IsFiniteSet(S), NEW f, NEW h, \A x \in S : f[x] \in Nat /\ h[x] \in Nat,
           NEW y \in S, \A x \in S \ {y} : h[x] = f[x]
    PROVE  SumFunctionOnSet(h, S) + f[y] = SumFunctionOnSet(f, S) + h[y]
<1>1. IsFiniteSet(S \ {y})
  BY FS_Subset
<1>2. /\ SumFunctionOnSet(f, S) = f[y] + SumFunctionOnSet(f, S \ {y})
      /\ SumFunctionOnSet(h, S) = h[y] + SumFunctionOnSet(h, S \ {y})
  BY SumWithout
<1>3. SumFunctionOnSet(h, S \ {y}) = SumFunctionOnSet(f, S \ {y})
  BY <1>1, SumSame
<1>4. SumFunctionOnSet(f, S \ {y}) \in Nat
  BY <1>1, SumNat
<1> QED
  BY <1>2, <1>3, <1>4

(* One value more than before, each: as many more in all as there are.     *)
LEMMA SumLater ==
    ASSUME NEW S, IsFiniteSet(S), NEW f, \A x \in S : f[x] \in Nat,
           NEW h, \A x \in S : h[x] = f[x] + 1
    PROVE  SumFunctionOnSet(h, S) = SumFunctionOnSet(f, S) + Cardinality(S)
<1> DEFINE X == {n \in Nat : \A T \in SUBSET S : Cardinality(T) = n
                    => SumFunctionOnSet(h, T) = SumFunctionOnSet(f, T) + Cardinality(T)}
<1>1. \A T \in SUBSET S : /\ IsFiniteSet(T) /\ Cardinality(T) \in Nat
                          /\ SumFunctionOnSet(f, T) \in Nat
  BY FS_Subset, FS_CardinalityType, SumNat
<1>2. 0 \in X
  <2>1. \A T \in SUBSET S : Cardinality(T) = 0 => T = {}
    BY <1>1, FS_EmptySet
  <2>2. /\ SumFunctionOnSet(h, {}) = 0 /\ SumFunctionOnSet(f, {}) = 0
        /\ Cardinality({}) = 0
    BY SumOfNone, FS_EmptySet
  <2>3. ASSUME NEW T \in SUBSET S, Cardinality(T) = 0
        PROVE  SumFunctionOnSet(h, T) = SumFunctionOnSet(f, T) + Cardinality(T)
    <3>1. T = {}
      BY <2>1, <2>3
    <3> QED
      BY <2>2, <3>1
  <2> QED
    BY <2>3
<1>3. ASSUME NEW n \in X PROVE n + 1 \in X
  <2> SUFFICES ASSUME NEW T \in SUBSET S, Cardinality(T) = n + 1
               PROVE  SumFunctionOnSet(h, T) = SumFunctionOnSet(f, T) + Cardinality(T)
    OBVIOUS
  <2>1. T # {}
    BY FS_EmptySet
  <2> DEFINE x == AnyOf(T)
             U == T \ {x}
  <2>2. x \in S /\ U \in SUBSET S /\ Cardinality(U) = n
    BY <1>1, <2>1, Smaller
  <2>3. SumFunctionOnSet(h, U) = SumFunctionOnSet(f, U) + Cardinality(U)
    BY <2>2
  <2>4. /\ SumFunctionOnSet(f, T) = f[x] + SumFunctionOnSet(f, U)
        /\ SumFunctionOnSet(h, T) = h[x] + SumFunctionOnSet(h, U)
    BY <1>1, <2>1, SumFirst
  <2>5. f[x] \in Nat /\ h[x] = f[x] + 1 /\ SumFunctionOnSet(f, U) \in Nat /\ n \in Nat
    BY <1>1, <2>2
  <2> HIDE DEF x, U
  <2> QED
    BY <2>2, <2>3, <2>4, <2>5
<1> HIDE DEF X
<1>4. Cardinality(S) \in X
  <2>1. X \in SUBSET Nat
    BY DEF X
  <2> QED
    BY <1>1, <1>2, <1>3, <2>1, Induction
<1> QED
  BY <1>4 DEF X
=============================================================================
