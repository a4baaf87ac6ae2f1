-------------------------------- MODULE Sums --------------------------------
(***************************************************************************)
(* Facts about sums over finite sets.                                      *)
(***************************************************************************)
EXTENDS FiniteSetsExt, FiniteSetTheorems, TLAPS

LEMMA NatSetInduction ==
    ASSUME NEW Good, 0 \in Good, \A n \in Nat : n \in Good => n + 1 \in Good
    PROVE  Nat \subseteq Good
<1> DEFINE less == OpToRel(<, Nat)
           bad == Nat \ Good
<1>1. SUFFICES ASSUME bad # {} PROVE FALSE
  OBVIOUS
<1>2. \A y, z \in Nat : y < z => <<y, z>> \in less
  BY DEF OpToRel
<1>3. PICK x \in bad : \A y \in bad : ~ (<<y, x>> \in less)
  <2>1. IsWellFoundedOn(less, Nat)
    BY NatLessThanWellFounded
  <2>2. bad \subseteq Nat
    OBVIOUS
  <2> HIDE DEF less, bad
  <2> QED
    BY <1>1, <2>1, <2>2, WFMin
<1> HIDE DEF less
<1>4. x - 1 \in Nat /\ x - 1 < x
  OBVIOUS
<1>5. x - 1 \in Good
  BY <1>2, <1>3, <1>4
<1> QED
  BY <1>4, <1>5

LEMMA SetInduction ==
    ASSUME NEW S, IsFiniteSet(S), NEW Good, {} \in Good,
           \A T \in SUBSET S : \A x \in S \ T : T \in Good => T \cup {x} \in Good
    PROVE  S \in Good
<1> DEFINE fine == {n \in Nat : \A T \in SUBSET S : IsFiniteSet(T) /\ Cardinality(T) = n => T \in Good}
<1>1. 0 \in fine
  BY FS_EmptySet
<1>2. ASSUME NEW n \in Nat, n \in fine PROVE n + 1 \in fine
  <2> SUFFICES ASSUME NEW T \in SUBSET S, IsFiniteSet(T), Cardinality(T) = n + 1
               PROVE  T \in Good
    OBVIOUS
  <2>1. PICK x : x \in T
    BY FS_EmptySet
  <2>2. IsFiniteSet(T \ {x}) /\ Cardinality(T \ {x}) = n
    <3>1. Cardinality(T \ {x}) = (n + 1) - 1
      BY <2>1, FS_RemoveElement
    <3> QED
      BY <2>1, <3>1, FS_RemoveElement
  <2>3. T \ {x} \in Good
    BY <1>2, <2>2
  <2>4. (T \ {x}) \cup {x} = T
    BY <2>1
  <2> QED
    BY <2>1, <2>3, <2>4
<1>3. Nat \subseteq fine
  <2> HIDE DEF fine
  <2> QED
    BY <1>1, <1>2, NatSetInduction
<1> QED
  BY <1>3, FS_CardinalityType

(* What it means for g to sum h over the subsets of S.                     *)
SumsOver(g, h, S) ==
    g = [s \in SUBSET S |->
            IF s = {} THEN 0
            ELSE LET x == CHOOSE x \in s : TRUE IN h[x] + g[s \ {x}]]

LEMMA SumsExist ==
    ASSUME NEW S, IsFiniteSet(S), NEW h
    PROVE  \E g : SumsOver(g, h, S)
<1> DEFINE small(n) == {s \in SUBSET S : Cardinality(s) <= n}
           add(g, s) == IF s = {} THEN 0
                        ELSE LET x == CHOOSE x \in s : TRUE IN h[x] + g[s \ {x}]
           fine == {n \in Nat : \E g : g = [s \in small(n) |-> add(g, s)]}
<1>0. \A s \in SUBSET S : IsFiniteSet(s) /\ Cardinality(s) \in Nat /\ (Cardinality(s) = 0 => s = {})
  BY FS_Subset, FS_CardinalityType, FS_EmptySet
<1>1. 0 \in fine
  <2> DEFINE g0 == [s \in small(0) |-> 0]
  <2>1. \A s \in small(0) : s = {}
    BY <1>0
  <2>2. g0 = [s \in small(0) |-> add(g0, s)]
    BY <2>1
  <2> QED
    BY <2>2
<1>2. ASSUME NEW n \in Nat, n \in fine PROVE n + 1 \in fine
  <2>1. PICK g : g = [s \in small(n) |-> add(g, s)]
    BY <1>2
  <2> DEFINE k == [s \in small(n + 1) |-> add(g, s)]
  <2>2. ASSUME NEW s \in small(n + 1), s # {}, NEW x \in s
        PROVE  s \ {x} \in small(n) /\ g[s \ {x}] = k[s \ {x}]
    <3>1. Cardinality(s \ {x}) = Cardinality(s) - 1
      BY <1>0, <2>2, FS_RemoveElement
    <3>2. s \ {x} \in small(n) /\ s \ {x} \in small(n + 1)
      BY <1>0, <3>1
    <3>3. g[s \ {x}] = add(g, s \ {x})
      <4> HIDE DEF add, small
      <4> QED
        BY <2>1, <3>2
    <3>4. k[s \ {x}] = add(g, s \ {x})
      <4> HIDE DEF add, small
      <4> QED
        BY <3>2
    <3> QED
      BY <3>2, <3>3, <3>4
  <2>3. ASSUME NEW s \in small(n + 1) PROVE add(g, s) = add(k, s)
    <3>1. CASE s = {}
      BY <3>1
    <3>2. CASE s # {}
      <4> DEFINE x == CHOOSE x \in s : TRUE
      <4>1. x \in s
        BY <3>2
      <4>2. g[s \ {x}] = k[s \ {x}]
        <5> HIDE DEF x, k, small
        <5> QED
          BY <2>2, <3>2, <4>1
      <4> HIDE DEF k, small
      <4> QED
        BY <3>2, <4>2
    <3> QED
      BY <3>1, <3>2
  <2>4. k = [s \in small(n + 1) |-> add(k, s)]
    <3>1. \A s \in small(n + 1) : add(g, s) = add(k, s)
      BY <2>3
    <3> DEFINE kk == [s \in small(n + 1) |-> add(k, s)]
    <3>2. kk = k
      <4> HIDE DEF add, small
      <4> QED
        BY <3>1
    <3> QED
      BY <3>2
  <2> HIDE DEF k, add, small
  <2> QED
    BY <2>4
<1>3. Cardinality(S) \in fine
  <2> HIDE DEF fine
  <2>1. Nat \subseteq fine
    BY <1>1, <1>2, NatSetInduction
  <2> QED
    BY <2>1, FS_CardinalityType
<1>4. small(Cardinality(S)) = SUBSET S
  BY FS_Subset
<1> QED
  BY <1>3, <1>4 DEF SumsOver

(* Two functions that sum h over the subsets of S and of a part of S agree *)
(* where both are defined.                                                 *)
LEMMA SumsAgree ==
    ASSUME NEW S, IsFiniteSet(S), NEW U \in SUBSET S, NEW h,
           NEW g, SumsOver(g, h, S), NEW k, SumsOver(k, h, U)
    PROVE  g[U] = k[U]
<1> DEFINE fine == {n \in Nat : \A T \in SUBSET U : Cardinality(T) = n => g[T] = k[T]}
<1>0. \A T \in SUBSET U : /\ IsFiniteSet(T) /\ Cardinality(T) \in Nat
                           /\ T \in SUBSET S
  BY FS_Subset, FS_CardinalityType
<1>1. 0 \in fine
  <2>1. g[{}] = 0 /\ k[{}] = 0
    BY DEF SumsOver
  <2>2. ASSUME NEW T \in SUBSET U, Cardinality(T) = 0 PROVE T = {}
    BY <1>0, <2>2, FS_EmptySet
  <2> QED
    BY <2>1, <2>2
<1>2. ASSUME NEW n \in Nat, n \in fine PROVE n + 1 \in fine
  <2> SUFFICES ASSUME NEW T \in SUBSET U, Cardinality(T) = n + 1
               PROVE  g[T] = k[T]
    OBVIOUS
  <2> DEFINE x == CHOOSE x \in T : TRUE
  <2>1. T # {} /\ x \in T
    BY FS_EmptySet
  <2>2. Cardinality(T \ {x}) = (n + 1) - 1
    <3> HIDE DEF x
    <3>1. IsFiniteSet(T)
      BY <1>0
    <3> QED
      BY <2>1, <3>1, FS_RemoveElement
  <2>3. g[T] = h[x] + g[T \ {x}] /\ k[T] = h[x] + k[T \ {x}]
    BY <2>1 DEF SumsOver
  <2> HIDE DEF x
  <2>4. g[T \ {x}] = k[T \ {x}]
    BY <1>2, <2>2
  <2> QED
    BY <2>3, <2>4
<1>3. Nat \subseteq fine
  <2> HIDE DEF fine
  <2> QED
    BY <1>1, <1>2, NatSetInduction
<1>4. Cardinality(U) \in fine
  BY <1>0, <1>3
<1> QED
  BY <1>4

(* SumFunctionOnSet is the value of such a function.                       *)
LEMMA SumIsOver ==
    ASSUME NEW S, IsFiniteSet(S), NEW h
    PROVE  \E g : SumsOver(g, h, S) /\ SumFunctionOnSet(h, S) = g[S]
<1> DEFINE g == CHOOSE g : SumsOver(g, h, S)
<1>1. SumsOver(g, h, S)
  BY SumsExist
<1>2. SumFunctionOnSet(h, S) = g[S]
  BY DEF SumFunctionOnSet, FoldFunctionOnSet, MapThenFoldSet, SumsOver
<1> QED
  BY <1>1, <1>2

LEMMA SumChosen ==
    ASSUME NEW S, IsFiniteSet(S), NEW h
    PROVE  /\ S = {} => SumFunctionOnSet(h, S) = 0
           /\ S # {} => \E x \in S :
                SumFunctionOnSet(h, S) = h[x] + SumFunctionOnSet(h, S \ {x})
<1>1. PICK g : SumsOver(g, h, S) /\ SumFunctionOnSet(h, S) = g[S]
  BY SumIsOver
<1>2. CASE S = {}
  BY <1>1, <1>2 DEF SumsOver
<1>3. CASE S # {}
  <2> DEFINE x == CHOOSE x \in S : TRUE
  <2>1. x \in S /\ g[S] = h[x] + g[S \ {x}]
    BY <1>1, <1>3 DEF SumsOver
  <2> HIDE DEF x
  <2>2. IsFiniteSet(S \ {x})
    BY FS_RemoveElement
  <2>3. PICK k : SumsOver(k, h, S \ {x}) /\ SumFunctionOnSet(h, S \ {x}) = k[S \ {x}]
    BY <2>2, SumIsOver
  <2>4. g[S \ {x}] = k[S \ {x}]
    BY <1>1, <2>3, SumsAgree
  <2> QED
    BY <1>1, <1>3, <2>1, <2>3, <2>4
<1> QED
  BY <1>2, <1>3

LEMMA SumIsInt ==
    ASSUME NEW S, IsFiniteSet(S), NEW h, \A x \in S : h[x] \in Int
    PROVE  SumFunctionOnSet(h, S) \in Int
<1> DEFINE sum(T) == SumFunctionOnSet(h, T)
           fine == {n \in Nat : \A T \in SUBSET S : Cardinality(T) = n => sum(T) \in Int}
<1>0. \A T \in SUBSET S : IsFiniteSet(T) /\ Cardinality(T) \in Nat
  BY FS_Subset, FS_CardinalityType
<1>1. 0 \in fine
  <2> SUFFICES ASSUME NEW T \in SUBSET S, Cardinality(T) = 0 PROVE sum(T) = 0
    OBVIOUS
  <2>1. IsFiniteSet(T) /\ T = {}
    BY <1>0, FS_EmptySet
  <2> QED
    BY <2>1, SumChosen
<1>2. ASSUME NEW n \in Nat, n \in fine PROVE n + 1 \in fine
  <2> SUFFICES ASSUME NEW T \in SUBSET S, Cardinality(T) = n + 1 PROVE sum(T) \in Int
    OBVIOUS
  <2>1. IsFiniteSet(T) /\ T # {}
    BY <1>0, FS_EmptySet
  <2>2. PICK y \in T : sum(T) = h[y] + sum(T \ {y})
    BY <2>1, SumChosen
  <2>3. Cardinality(T \ {y}) = (n + 1) - 1
    <3>1. Cardinality(T \ {y}) = Cardinality(T) - 1
      BY <2>1, FS_RemoveElement
    <3> QED
      BY <3>1
  <2>4. sum(T \ {y}) \in Int
    <3> HIDE DEF sum
    <3> QED
      BY <1>2, <2>3
  <2> HIDE DEF sum
  <2> QED
    BY <2>2, <2>4
<1>3. Nat \subseteq fine
  <2> HIDE DEF fine
  <2> QED
    BY <1>1, <1>2, NatSetInduction
<1>4. Cardinality(S) \in fine
  BY <1>3, FS_CardinalityType
<1> QED
  BY <1>4

(* The sum of integers is an integer, and any of them may be taken out.    *)
LEMMA SumTakeOut ==
    ASSUME NEW S, IsFiniteSet(S), NEW h, \A x \in S : h[x] \in Int, NEW x \in S
    PROVE  SumFunctionOnSet(h, S) = h[x] + SumFunctionOnSet(h, S \ {x})
<1> DEFINE sum(T) == SumFunctionOnSet(h, T)
           fine == {n \in Nat : \A T \in SUBSET S : Cardinality(T) = n =>
                      \A z \in T : sum(T) = h[z] + sum(T \ {z})}
<1>0. ASSUME NEW T \in SUBSET S
      PROVE  IsFiniteSet(T) /\ Cardinality(T) \in Nat /\ sum(T) \in Int
  BY FS_Subset, FS_CardinalityType, SumIsInt
<1>1. 0 \in fine
  <2> SUFFICES ASSUME NEW T \in SUBSET S, Cardinality(T) = 0 PROVE T = {}
    OBVIOUS
  <2> QED
    BY <1>0, FS_EmptySet
<1>2. ASSUME NEW n \in Nat, n \in fine PROVE n + 1 \in fine
  <2> SUFFICES ASSUME NEW T \in SUBSET S, Cardinality(T) = n + 1, NEW z \in T
               PROVE  sum(T) = h[z] + sum(T \ {z})
    OBVIOUS
  <2>1. IsFiniteSet(T)
    BY <1>0
  <2>2. PICK y \in T : sum(T) = h[y] + sum(T \ {y})
    BY <2>1, SumChosen
  <2>3. CASE z = y
    BY <2>2, <2>3
  <2>4. CASE z # y
    <3> DEFINE both == (T \ {y}) \ {z}
    <3>1. ASSUME NEW w \in T PROVE Cardinality(T \ {w}) = n
      <4>1. Cardinality(T \ {w}) = (n + 1) - 1
        BY <2>1, FS_RemoveElement
      <4> QED
        BY <4>1
    <3>2. both = (T \ {z}) \ {y} /\ y \in T \ {z} /\ z \in T \ {y}
      BY <2>4
    <3>3. /\ sum(T \ {y}) = h[z] + sum((T \ {y}) \ {z})
          /\ sum(T \ {z}) = h[y] + sum((T \ {z}) \ {y})
      <4> HIDE DEF sum
      <4> QED
        BY <1>2, <3>1, <3>2
    <3>4. sum(both) \in Int
      BY <1>0
    <3>5. h[z] \in Int /\ h[y] \in Int
      OBVIOUS
    <3>6. sum(T \ {z}) = h[y] + sum(both)
      BY <3>2, <3>3
    <3>7. sum(T \ {y}) = h[z] + sum(both)
      BY <3>3
    <3> HIDE DEF sum, both
    <3> QED
      BY <2>2, <3>4, <3>5, <3>6, <3>7
  <2> QED
    BY <2>3, <2>4
<1>3. Nat \subseteq fine
  <2> HIDE DEF fine
  <2> QED
    BY <1>1, <1>2, NatSetInduction
<1>4. Cardinality(S) \in fine
  BY <1>3, FS_CardinalityType
<1> QED
  BY <1>4

(* Functions that agree on a set have the same sum over it.                *)
LEMMA SumCongruence ==
    ASSUME NEW S, IsFiniteSet(S), NEW h, NEW k, \A x \in S : h[x] = k[x]
    PROVE  SumFunctionOnSet(h, S) = SumFunctionOnSet(k, S)
<1>1. PICK g : SumsOver(g, h, S) /\ SumFunctionOnSet(h, S) = g[S]
  BY SumIsOver
<1>2. SumsOver(g, k, S)
  <2>1. ASSUME NEW s \in SUBSET S
        PROVE  g[s] = IF s = {} THEN 0
                      ELSE LET x == CHOOSE x \in s : TRUE IN k[x] + g[s \ {x}]
    <3>1. CASE s = {}
      BY <1>1, <3>1 DEF SumsOver
    <3>2. CASE s # {}
      <4> DEFINE x == CHOOSE x \in s : TRUE
      <4>1. x \in s /\ g[s] = h[x] + g[s \ {x}]
        BY <1>1, <3>2 DEF SumsOver
      <4>2. h[x] = k[x]
        <5> HIDE DEF x
        <5> QED
          BY <4>1
      <4> QED
        BY <3>2, <4>1, <4>2
    <3> QED
      BY <3>1, <3>2
  <2>2. g = [s \in SUBSET S |-> g[s]]
    BY <1>1 DEF SumsOver
  <2> QED
    BY <2>1, <2>2 DEF SumsOver
<1>3. PICK f : SumsOver(f, k, S) /\ SumFunctionOnSet(k, S) = f[S]
  BY SumIsOver
<1>4. f[S] = g[S]
  BY <1>2, <1>3, SumsAgree
<1> QED
  BY <1>1, <1>3, <1>4

(* A change at one point moves the sum by as much.                         *)
LEMMA SumChange ==
    ASSUME NEW S, IsFiniteSet(S), NEW h, \A x \in S : h[x] \in Int,
           NEW k, NEW y \in S, k[y] \in Int, \A x \in S \ {y} : k[x] = h[x]
    PROVE  SumFunctionOnSet(k, S) = SumFunctionOnSet(h, S) + k[y] - h[y]
<1>1. IsFiniteSet(S \ {y})
  BY FS_RemoveElement
<1>2. SumFunctionOnSet(k, S \ {y}) = SumFunctionOnSet(h, S \ {y})
  BY <1>1, SumCongruence
<1>3. SumFunctionOnSet(h, S \ {y}) \in Int
  BY <1>1, SumIsInt
<1>4. SumFunctionOnSet(h, S) = h[y] + SumFunctionOnSet(h, S \ {y})
  BY SumTakeOut
<1>5. SumFunctionOnSet(k, S) = k[y] + SumFunctionOnSet(k, S \ {y})
  <2>1. \A x \in S : k[x] \in Int
    OBVIOUS
  <2> QED
    BY <2>1, SumTakeOut
<1>6. h[y] \in Int
  OBVIOUS
<1> QED
  BY <1>2, <1>3, <1>4, <1>5, <1>6

(* A sum of nothing but zeros is zero, one of naturals is a natural number.*)
LEMMA SumOfZeros ==
    ASSUME NEW S, IsFiniteSet(S), NEW h, \A x \in S : h[x] = 0
    PROVE  SumFunctionOnSet(h, S) = 0
<1> DEFINE fine == {T \in SUBSET S : SumFunctionOnSet(h, T) = 0}
<1>1. {} \in fine
  BY FS_EmptySet, SumChosen
<1>2. ASSUME NEW T \in SUBSET S, NEW x \in S \ T, T \in fine PROVE T \cup {x} \in fine
  <2>1. IsFiniteSet(T \cup {x}) /\ (T \cup {x}) \ {x} = T
    BY FS_Subset
  <2>2. SumFunctionOnSet(h, T \cup {x}) = h[x] + SumFunctionOnSet(h, (T \cup {x}) \ {x})
    BY <2>1, SumTakeOut
  <2> QED
    BY <1>2, <2>1, <2>2
<1>3. S \in fine
  <2> HIDE DEF fine
  <2> QED
    BY <1>1, <1>2, SetInduction
<1> QED
  BY <1>3

(* The larger the terms, the larger the sum.                               *)
LEMMA SumMonotonic ==
    ASSUME NEW S, IsFiniteSet(S), NEW h, NEW k,
           \A x \in S : h[x] \in Int /\ k[x] \in Int /\ h[x] <= k[x]
    PROVE  SumFunctionOnSet(h, S) <= SumFunctionOnSet(k, S)
<1> DEFINE sum(f, T) == SumFunctionOnSet(f, T)
           fine == {T \in SUBSET S : sum(h, T) <= sum(k, T)}
<1>1. {} \in fine
  <2>1. sum(h, {}) = 0 /\ sum(k, {}) = 0
    BY FS_EmptySet, SumChosen
  <2> QED
    BY <2>1
<1>2. ASSUME NEW T \in SUBSET S, NEW x \in S \ T, T \in fine PROVE T \cup {x} \in fine
  <2>1. /\ IsFiniteSet(T \cup {x}) /\ (T \cup {x}) \ {x} = T
        /\ IsFiniteSet(T)
    BY FS_Subset
  <2>2. sum(h, T \cup {x}) = h[x] + sum(h, (T \cup {x}) \ {x})
    BY <2>1, SumTakeOut
  <2>3. sum(k, T \cup {x}) = k[x] + sum(k, (T \cup {x}) \ {x})
    BY <2>1, SumTakeOut
  <2>4. sum(h, T) \in Int /\ sum(k, T) \in Int
    BY <2>1, SumIsInt
  <2>5. h[x] \in Int /\ k[x] \in Int /\ h[x] <= k[x] /\ sum(h, T) <= sum(k, T)
    BY <1>2
  <2>6. sum(h, T \cup {x}) <= sum(k, T \cup {x})
    <3> HIDE DEF sum
    <3> QED
      BY <2>1, <2>2, <2>3, <2>4, <2>5
  <2> QED
    BY <2>6
<1>3. S \in fine
  <2> HIDE DEF fine
  <2> QED
    BY <1>1, <1>2, SetInduction
<1> QED
  BY <1>3


LEMMA SumIsNat ==
    ASSUME NEW S, IsFiniteSet(S), NEW h, \A x \in S : h[x] \in Nat
    PROVE  SumFunctionOnSet(h, S) \in Nat
<1> DEFINE zero == [x \in S |-> 0]
<1>1. SumFunctionOnSet(zero, S) = 0
  BY SumOfZeros
<1>2. SumFunctionOnSet(zero, S) <= SumFunctionOnSet(h, S)
  <2>1. \A x \in S : zero[x] \in Int /\ h[x] \in Int /\ zero[x] <= h[x]
    OBVIOUS
  <2> HIDE DEF zero
  <2> QED
    BY <2>1, SumMonotonic
<1>3. SumFunctionOnSet(h, S) \in Int
  BY SumIsInt
<1> QED
  BY <1>1, <1>2, <1>3

(* A sum of no less than another, term by term no greater, has its terms.  *)
LEMMA SumTight ==
    ASSUME NEW S, IsFiniteSet(S), NEW h, NEW k,
           \A x \in S : h[x] \in Int /\ k[x] \in Int /\ h[x] <= k[x],
           SumFunctionOnSet(h, S) >= SumFunctionOnSet(k, S), NEW y \in S
    PROVE  h[y] = k[y]
<1> DEFINE T == S \ {y}
<1>1. IsFiniteSet(T)
  BY FS_Subset
<1>2. SumFunctionOnSet(h, S) = h[y] + SumFunctionOnSet(h, T)
  BY SumTakeOut
<1>3. SumFunctionOnSet(k, S) = k[y] + SumFunctionOnSet(k, T)
  BY SumTakeOut
<1>4. \A x \in T : h[x] \in Int /\ k[x] \in Int /\ h[x] <= k[x]
  OBVIOUS
<1> HIDE DEF T
<1>5. /\ SumFunctionOnSet(h, T) \in Int /\ SumFunctionOnSet(k, T) \in Int
      /\ SumFunctionOnSet(h, T) <= SumFunctionOnSet(k, T)
  BY <1>1, <1>4, SumIsInt, SumMonotonic
<1> QED
  BY <1>2, <1>3, <1>5

(* More members, and none of them negative, add up to no less.             *)
LEMMA SumOfSubset ==
    ASSUME NEW S, IsFiniteSet(S), NEW h, \A x \in S : h[x] \in Nat, NEW T \in SUBSET S
    PROVE  SumFunctionOnSet(h, T) <= SumFunctionOnSet(h, S)
<1> DEFINE sum(U) == SumFunctionOnSet(h, U)
           fine == {U \in SUBSET (S \ T) : sum(T) <= sum(T \cup U)}
<1>0. ASSUME NEW U \in SUBSET S PROVE IsFiniteSet(U) /\ sum(U) \in Nat
  BY FS_Subset, SumIsNat
<1>1. {} \in fine
  <2>1. T \cup {} = T /\ sum(T) \in Nat
    BY <1>0
  <2> QED
    BY <2>1
<1>2. ASSUME NEW U \in SUBSET (S \ T), NEW x \in (S \ T) \ U, U \in fine PROVE U \cup {x} \in fine
  <2> DEFINE V == T \cup (U \cup {x})
  <2>1. V \in SUBSET S /\ x \in V /\ V \ {x} = T \cup U
    OBVIOUS
  <2>2. IsFiniteSet(V)
    BY <1>0, <2>1
  <2>3. \A z \in V : h[z] \in Int
    BY <2>1
  <2> HIDE DEF V
  <2>4. sum(V) = h[x] + sum(V \ {x})
    BY <2>1, <2>2, <2>3, SumTakeOut
  <2>5. h[x] \in Nat /\ sum(T) \in Nat /\ sum(T \cup U) \in Nat /\ sum(T) <= sum(T \cup U)
    BY <1>0, <1>2
  <2>6. sum(T) <= sum(V)
    <3> HIDE DEF sum
    <3> QED
      BY <2>1, <2>4, <2>5
  <2> QED
    BY <2>6 DEF V
<1>3. S \ T \in fine
  <2> HIDE DEF fine
  <2>1. IsFiniteSet(S \ T)
    BY FS_Subset
  <2> QED
    BY <1>1, <1>2, <2>1, SetInduction
<1>4. T \cup (S \ T) = S
  OBVIOUS
<1> QED
  BY <1>3, <1>4

(* The greatest of some integers is one of them.                           *)
LEMMA Distribute ==
    \A a, b, c \in Int : a * (b + c) = a * b + a * c /\ a * (b - c) = a * b - a * c
OBVIOUS

(* Term by term a * h is within c * l of b * k: so are the sums.           *)
LEMMA SumWithin ==
    ASSUME NEW S, IsFiniteSet(S), NEW h, NEW k, NEW l, NEW a \in Int, NEW b \in Int, NEW c \in Int,
           \A x \in S : /\ h[x] \in Int /\ k[x] \in Int /\ l[x] \in Int
                        /\ b * k[x] - c * l[x] <= a * h[x] /\ a * h[x] <= b * k[x] + c * l[x]
    PROVE  LET sum(f) == SumFunctionOnSet(f, S) IN
           b * sum(k) - c * sum(l) <= a * sum(h) /\ a * sum(h) <= b * sum(k) + c * sum(l)
<1> DEFINE sum(f, T) == SumFunctionOnSet(f, T)
           near(T) == /\ b * sum(k, T) - c * sum(l, T) <= a * sum(h, T)
                      /\ a * sum(h, T) <= b * sum(k, T) + c * sum(l, T)
           fine == {T \in SUBSET S : near(T)}
<1>1. {} \in fine
  <2>1. sum(h, {}) = 0 /\ sum(k, {}) = 0 /\ sum(l, {}) = 0
    BY FS_EmptySet, SumChosen
  <2> QED
    BY <2>1
<1>2. ASSUME NEW T \in SUBSET S, NEW x \in S \ T, T \in fine PROVE T \cup {x} \in fine
  <2> DEFINE U == T \cup {x}
  <2>1. IsFiniteSet(U) /\ IsFiniteSet(T) /\ U \ {x} = T /\ x \in U /\ U \in SUBSET S
    BY FS_Subset
  <2> HIDE DEF U
  <2>2. /\ SumFunctionOnSet(h, U) = h[x] + SumFunctionOnSet(h, T)
        /\ SumFunctionOnSet(k, U) = k[x] + SumFunctionOnSet(k, T)
        /\ SumFunctionOnSet(l, U) = l[x] + SumFunctionOnSet(l, T)
    <3>1. SumFunctionOnSet(h, U) = h[x] + SumFunctionOnSet(h, U \ {x})
      BY <2>1, SumTakeOut
    <3>2. SumFunctionOnSet(k, U) = k[x] + SumFunctionOnSet(k, U \ {x})
      BY <2>1, SumTakeOut
    <3>3. SumFunctionOnSet(l, U) = l[x] + SumFunctionOnSet(l, U \ {x})
      BY <2>1, SumTakeOut
    <3> QED
      BY <2>1, <3>1, <3>2, <3>3
  <2>3. sum(h, T) \in Int /\ sum(k, T) \in Int /\ sum(l, T) \in Int
    BY <2>1, SumIsInt
  <2>4. near(T)
    BY <1>2
  <2>5. near(U)
    <3>1. /\ a * (h[x] + sum(h, T)) = a * h[x] + a * sum(h, T)
          /\ b * (k[x] + sum(k, T)) = b * k[x] + b * sum(k, T)
          /\ c * (l[x] + sum(l, T)) = c * l[x] + c * sum(l, T)
      BY <2>3, Distribute
    <3> HIDE DEF sum
    <3> QED
      BY <2>2, <2>3, <2>4, <3>1 DEF sum
  <2> QED
    BY <2>1, <2>5 DEF U
<1>3. S \in fine
  <2> HIDE DEF fine
  <2> QED
    BY <1>1, <1>2, SetInduction
<1> QED
  BY <1>3

(* As many ones as there are members.                                      *)
LEMMA SumOfOnes ==
    ASSUME NEW S, IsFiniteSet(S), NEW h, \A x \in S : h[x] = 1
    PROVE  SumFunctionOnSet(h, S) = Cardinality(S)
<1> DEFINE fine == {T \in SUBSET S : SumFunctionOnSet(h, T) = Cardinality(T)}
<1>1. {} \in fine
  BY FS_EmptySet, SumChosen
<1>2. ASSUME NEW T \in SUBSET S, NEW x \in S \ T, T \in fine PROVE T \cup {x} \in fine
  <2>1. IsFiniteSet(T \cup {x}) /\ (T \cup {x}) \ {x} = T /\ IsFiniteSet(T)
    BY FS_Subset
  <2>2. SumFunctionOnSet(h, T \cup {x}) = h[x] + SumFunctionOnSet(h, (T \cup {x}) \ {x})
    BY <2>1, SumTakeOut
  <2>3. Cardinality(T \cup {x}) = Cardinality(T) + 1 /\ Cardinality(T) \in Nat
    BY <2>1, FS_AddElement, FS_CardinalityType
  <2> QED
    BY <1>2, <2>1, <2>2, <2>3
<1>3. S \in fine
  <2> HIDE DEF fine
  <2> QED
    BY <1>1, <1>2, SetInduction
<1> QED
  BY <1>3

Alike(S, class, d) == {x \in S : class[x] = d}

(* What is summed class by class, each member having one, is the sum.      *)
LEMMA SumByClass ==
    ASSUME NEW S, IsFiniteSet(S), NEW h, \A x \in S : h[x] \in Int,
           NEW D, IsFiniteSet(D), NEW class, \A x \in S : class[x] \in D,
           NEW parts, \A d \in D : parts[d] = SumFunctionOnSet(h, Alike(S, class, d))
    PROVE  SumFunctionOnSet(parts, D) = SumFunctionOnSet(h, S)
<1> DEFINE mine(d, T) == {x \in T : class[x] = d}
           by(T) == [d \in D |-> SumFunctionOnSet(h, mine(d, T))]
           fine == {T \in SUBSET S : SumFunctionOnSet(by(T), D) = SumFunctionOnSet(h, T)}
<1>0. ASSUME NEW T \in SUBSET S
      PROVE  /\ IsFiniteSet(T) /\ SumFunctionOnSet(h, T) \in Int
             /\ \A d \in D : IsFiniteSet(mine(d, T)) /\ by(T)[d] \in Int
  <2>1. ASSUME NEW U \in SUBSET S PROVE IsFiniteSet(U) /\ SumFunctionOnSet(h, U) \in Int
    BY FS_Subset, SumIsInt
  <2>2. \A d \in D : mine(d, T) \in SUBSET S
    OBVIOUS
  <2> QED
    BY <2>1, <2>2
<1>1. {} \in fine
  <2>1. \A d \in D : mine(d, {}) = {}
    OBVIOUS
  <2>2. SumFunctionOnSet(h, {}) = 0
    BY FS_EmptySet, SumChosen
  <2>3. \A d \in D : by({})[d] = 0
    BY <2>1, <2>2
  <2> HIDE DEF by
  <2>4. SumFunctionOnSet(by({}), D) = 0
    BY <2>3, SumOfZeros
  <2> QED
    BY <2>2, <2>4
<1>2. ASSUME NEW T \in SUBSET S, NEW x \in S \ T, T \in fine PROVE T \cup {x} \in fine
  <2> DEFINE U == T \cup {x}
  <2>1. U \in SUBSET S /\ x \in U /\ U \ {x} = T
    OBVIOUS
  <2>2. /\ mine(class[x], U) \ {x} = mine(class[x], T) /\ x \in mine(class[x], U)
        /\ \A d \in D \ {class[x]} : mine(d, U) = mine(d, T)
    OBVIOUS
  <2> HIDE DEF U, mine
  <2>3. SumFunctionOnSet(h, U) = h[x] + SumFunctionOnSet(h, T)
    BY <1>0, <2>1, SumTakeOut
  <2>4. by(U)[class[x]] = h[x] + by(T)[class[x]]
    <3>1. \A z \in mine(class[x], U) : h[z] \in Int
      BY <2>1 DEF mine
    <3>2. IsFiniteSet(mine(class[x], U))
      BY <1>0, <2>1
    <3> QED
      BY <2>2, <3>1, <3>2, SumTakeOut
  <2>5. \A d \in D \ {class[x]} : by(U)[d] = by(T)[d]
    BY <2>2
  <2>6. \A d \in D : by(T)[d] \in Int /\ by(U)[d] \in Int
    BY <1>0, <2>1
  <2> HIDE DEF by
  <2>7. SumFunctionOnSet(by(U), D)
           = SumFunctionOnSet(by(T), D) + by(U)[class[x]] - by(T)[class[x]]
    BY <2>5, <2>6, SumChange
  <2>8. SumFunctionOnSet(by(T), D) = SumFunctionOnSet(h, T) /\ SumFunctionOnSet(h, T) \in Int
    BY <1>0, <1>2
  <2>9. SumFunctionOnSet(by(U), D) = SumFunctionOnSet(h, U)
    BY <2>3, <2>4, <2>6, <2>7, <2>8
  <2> QED
    BY <2>1, <2>9 DEF U
<1>3. S \in fine
  <2> HIDE DEF fine
  <2> QED
    BY <1>1, <1>2, SetInduction
<1>4. \A d \in D : parts[d] = by(S)[d]
  BY DEF Alike
<1> HIDE DEF by
<1> QED
  BY <1>3, <1>4, SumCongruence

(* Differences add up to the difference of the sums.                       *)
LEMMA SumOfDifferences ==
    ASSUME NEW S, IsFiniteSet(S), NEW h, NEW k, NEW l,
           \A x \in S : h[x] \in Int /\ k[x] \in Int /\ l[x] = h[x] - k[x]
    PROVE  SumFunctionOnSet(l, S) = SumFunctionOnSet(h, S) - SumFunctionOnSet(k, S)
<1> DEFINE sum(f, T) == SumFunctionOnSet(f, T)
           fine == {T \in SUBSET S : sum(l, T) = sum(h, T) - sum(k, T)}
<1>1. {} \in fine
  <2>1. sum(h, {}) = 0 /\ sum(k, {}) = 0 /\ sum(l, {}) = 0
    BY FS_EmptySet, SumChosen
  <2> QED
    BY <2>1
<1>2. ASSUME NEW T \in SUBSET S, NEW x \in S \ T, T \in fine PROVE T \cup {x} \in fine
  <2> DEFINE U == T \cup {x}
  <2>1. IsFiniteSet(U) /\ IsFiniteSet(T) /\ U \ {x} = T /\ x \in U /\ U \in SUBSET S
    BY FS_Subset
  <2>2. \A y \in S : h[y] \in Int /\ k[y] \in Int /\ l[y] \in Int /\ l[y] = h[y] - k[y]
    OBVIOUS
  <2> HIDE DEF U
  <2>3. SumFunctionOnSet(h, U) = h[x] + SumFunctionOnSet(h, T)
    BY <2>1, <2>2, SumTakeOut
  <2>4. SumFunctionOnSet(k, U) = k[x] + SumFunctionOnSet(k, T)
    BY <2>1, <2>2, SumTakeOut
  <2>5. SumFunctionOnSet(l, U) = l[x] + SumFunctionOnSet(l, T)
    BY <2>1, <2>2, SumTakeOut
  <2>6. sum(h, T) \in Int /\ sum(k, T) \in Int /\ sum(l, T) = sum(h, T) - sum(k, T)
    BY <1>2, <2>1, <2>2, SumIsInt
  <2>7. sum(l, U) = sum(h, U) - sum(k, U)
    BY <2>2, <2>3, <2>4, <2>5, <2>6
  <2> QED
    BY <2>1, <2>7 DEF U
<1>3. S \in fine
  <2> HIDE DEF fine
  <2> QED
    BY <1>1, <1>2, SetInduction
<1> QED
  BY <1>3

(* A set that is split in two adds up to both.                             *)
LEMMA SumOfHalves ==
    ASSUME NEW S, IsFiniteSet(S), NEW h, \A x \in S : h[x] \in Int, NEW T \in SUBSET S
    PROVE  SumFunctionOnSet(h, S) = SumFunctionOnSet(h, T) + SumFunctionOnSet(h, S \ T)
<1> DEFINE sum(U) == SumFunctionOnSet(h, U)
           fine == {U \in SUBSET (S \ T) : sum(T \cup U) = sum(T) + sum(U)}
<1>0. ASSUME NEW U \in SUBSET S PROVE IsFiniteSet(U) /\ sum(U) \in Int
  BY FS_Subset, SumIsInt
<1>1. {} \in fine
  <2>1. T \cup {} = T /\ sum(T) \in Int /\ sum({}) = 0
    BY <1>0, FS_EmptySet, SumChosen
  <2> QED
    BY <2>1
<1>2. ASSUME NEW U \in SUBSET (S \ T), NEW x \in (S \ T) \ U, U \in fine PROVE U \cup {x} \in fine
  <2> DEFINE W == U \cup {x}
             V == T \cup W
  <2>1. /\ W \in SUBSET S /\ x \in W /\ W \ {x} = U
        /\ V \in SUBSET S /\ x \in V /\ V \ {x} = T \cup U
    OBVIOUS
  <2>2. IsFiniteSet(V) /\ IsFiniteSet(W)
    BY <1>0, <2>1
  <2>3. (\A z \in V : h[z] \in Int) /\ \A z \in W : h[z] \in Int
    BY <2>1
  <2> HIDE DEF V, W
  <2>4. sum(V) = h[x] + sum(T \cup U)
    BY <2>1, <2>2, <2>3, SumTakeOut
  <2>5. sum(W) = h[x] + sum(U)
    BY <2>1, <2>2, <2>3, SumTakeOut
  <2>6. h[x] \in Int /\ sum(T) \in Int /\ sum(U) \in Int /\ sum(T \cup U) = sum(T) + sum(U)
    BY <1>0, <1>2
  <2>7. sum(V) = sum(T) + sum(W)
    <3> HIDE DEF sum
    <3> QED
      BY <2>4, <2>5, <2>6
  <2> QED
    BY <2>1, <2>7 DEF V, W
<1>3. S \ T \in fine
  <2> HIDE DEF fine
  <2>1. IsFiniteSet(S \ T)
    BY FS_Subset
  <2> QED
    BY <1>1, <1>2, <2>1, SetInduction
<1>4. T \cup (S \ T) = S
  OBVIOUS
<1> QED
  BY <1>3, <1>4

LEMMA MaxIsMember ==
    ASSUME NEW S, IsFiniteSet(S), S \subseteq Int, S # {}
    PROVE  Max(S) \in S /\ \A y \in S : y <= Max(S)
<1> DEFINE fine == {T \in SUBSET S : T # {} => \E x \in T : \A y \in T : x >= y}
<1>1. {} \in fine
  OBVIOUS
<1>2. ASSUME NEW T \in SUBSET S, NEW z \in S \ T, T \in fine PROVE T \cup {z} \in fine
  <2>1. CASE T = {}
    BY <2>1
  <2>2. CASE T # {}
    <3>1. PICK x \in T : \A y \in T : x >= y
      BY <1>2, <2>2
    <3>2. CASE x >= z
      BY <3>1, <3>2
    <3>3. CASE ~(x >= z)
      <4>1. z \in Int /\ \A y \in T : y \in Int /\ z >= y
        BY <3>1, <3>3
      <4> QED
        BY <4>1
    <3> QED
      BY <3>2, <3>3
  <2> QED
    BY <2>1, <2>2
<1>3. S \in fine
  <2> HIDE DEF fine
  <2> QED
    BY <1>1, <1>2, SetInduction
<1> QED
  BY <1>3 DEF Max
=============================================================================
