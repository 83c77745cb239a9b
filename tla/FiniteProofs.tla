----------------------------- MODULE FiniteProofs -----------------------------
(***************************************************************************)
(* What the proofs of several components need of finite sets: least and    *)
(* greatest elements, induction, and sums.  An induction is stated for the *)
(* set of subsets that are good, since the provers cannot instantiate one  *)
(* that takes a predicate as its parameter.                                *)
(***************************************************************************)
EXTENDS Integers, FiniteSets, FiniteSetsExt, Functions, TLAPS,
        FiniteSetTheorems, WellFoundedInduction

(* Least and greatest elements.                                            *)

LEMMA NatMin ==
  ASSUME NEW T \in SUBSET Nat, T # {}
  PROVE  Min(T) \in T /\ \A y \in T : Min(T) <= y
<1> DEFINE R == OpToRel(<, Nat)
<1>1. IsWellFoundedOn(R, Nat)
  BY NatLessThanWellFounded
<1>2. \E x \in T : \A y \in T : ~(<<y, x>> \in R)
  <2> HIDE DEF R
  <2> QED BY <1>1, WFMin
<1>3. PICK x \in T : \A y \in T : ~(<<y, x>> \in R)
  BY <1>2
<1>4. ASSUME NEW y \in T PROVE x <= y
  <2>1. ~(<<y, x>> \in R) /\ y \in Nat /\ x \in Nat
    BY <1>3
  <2>2. y < x => <<y, x>> \in R
    BY <2>1 DEF OpToRel
  <2> HIDE DEF R
  <2> QED BY <2>1, <2>2
<1> QED BY <1>3, <1>4 DEF Min

(* A smallest finite set without a greatest element would lose one of its  *)
(* elements and still have none.                                           *)
LEMMA FiniteMax ==
  ASSUME NEW S \in SUBSET Int, IsFiniteSet(S), S # {}
  PROVE  Max(S) \in S /\ \A y \in S : y <= Max(S)
<1> DEFINE HasMax(T) == \E x \in T : \A y \in T : y <= x
           Bad == {n \in Nat : \E T \in SUBSET Int :
                     IsFiniteSet(T) /\ T # {} /\ Cardinality(T) = n /\ ~HasMax(T)}
<1>1. HasMax(S)
  <2> SUFFICES ASSUME ~HasMax(S) PROVE FALSE
    OBVIOUS
  <2>1. Cardinality(S) \in Bad
    BY FS_CardinalityType
  <2>2. Bad \in SUBSET Nat /\ Bad # {}
    BY <2>1
  <2>3. PICK n \in Bad : \A m \in Bad : n <= m
    <3> HIDE DEF Bad
    <3> QED BY <2>2, NatMin
  <2>4. PICK T \in SUBSET Int :
          IsFiniteSet(T) /\ T # {} /\ Cardinality(T) = n /\ ~HasMax(T)
    BY <2>3
  <2>5. PICK x \in T : TRUE
    BY <2>4
  <2>6. /\ IsFiniteSet(T \ {x}) /\ Cardinality(T \ {x}) = n - 1
        /\ n - 1 \in Nat /\ n \in Nat
    <3>1. n \in Nat /\ Cardinality(T) = n
      BY <2>3, <2>4
    <3>2. IsFiniteSet(T \ {x}) /\ Cardinality(T \ {x}) = Cardinality(T) - 1
      BY <2>4, <2>5, FS_RemoveElement
    <3>3. Cardinality(T \ {x}) \in Nat
      BY <3>2, FS_CardinalityType
    <3> QED BY <3>1, <3>2, <3>3
  <2>7. n - 1 \notin Bad
    <3>1. n \in Nat /\ n - 1 < n
      BY <2>6
    <3> HIDE DEF Bad
    <3> QED BY <3>1, <2>3, <2>6
  <2>8. T \ {x} = {} \/ HasMax(T \ {x})
    BY <2>6, <2>7
  <2>9. CASE T \ {x} = {}
    <3>1. \A y \in T : y = x /\ x \in Int
      BY <2>9, <2>5
    <3> QED BY <3>1, <2>4, <2>5
  <2>10. CASE HasMax(T \ {x})
    <3>1. PICK z \in T \ {x} : \A y \in T \ {x} : y <= z
      BY <2>10
    <3>2. x \in Int /\ z \in Int /\ T \subseteq Int
      BY <2>5, <3>1
    <3>3. \A y \in T : y <= IF z <= x THEN x ELSE z
      BY <3>1, <3>2
    <3> QED BY <3>1, <3>3, <2>4, <2>5
  <2> QED BY <2>8, <2>9, <2>10
<1> QED BY <1>1 DEF Max

(* Distinct values for distinct elements are as many as these.             *)
LEMMA SameSize ==
  ASSUME NEW S, IsFiniteSet(S), NEW f, DOMAIN f = S,
         \A x, y \in S : f[x] = f[y] => x = y
  PROVE  Cardinality({f[x] : x \in S}) = Cardinality(S)
<1> DEFINE T == {f[x] : x \in S}
           g == [x \in S |-> f[x]]
<1>1. g \in Bijection(S, T)
  BY DEF Bijection, Injection, Surjection, IsInjective
<1> HIDE DEF g
<1>2. ExistsBijection(S, T)
  BY <1>1 DEF ExistsBijection
<1>. QED BY <1>2, FS_Bijection

(* An image under a function of a finite set is finite.                    *)
LEMMA FiniteImage ==
  ASSUME NEW S, IsFiniteSet(S), NEW f, DOMAIN f = S
  PROVE  IsFiniteSet({f[x] : x \in S})
<1> DEFINE T == {f[x] : x \in S}
           g == [x \in S |-> f[x]]
<1>1. g \in Surjection(S, T)
  BY DEF Surjection
<1> HIDE DEF g
<1> QED BY <1>1, FS_Surjection
------------------------------------------------------------------------------
(* Induction over a finite set, one element at a time.                     *)
LEMMA FiniteInduction ==
  ASSUME NEW S, IsFiniteSet(S), NEW Good, {} \in Good,
         \A T \in SUBSET S, x \in S : T \in Good /\ x \notin T => T \cup {x} \in Good
  PROVE  S \in Good
<1> SUFFICES ASSUME S \notin Good PROVE FALSE
  OBVIOUS
<1> DEFINE Bad == {n \in Nat : \E T \in SUBSET S : T \notin Good /\ Cardinality(T) = n}
<1>1. Bad \in SUBSET Nat /\ Bad # {}
  <2>1. Cardinality(S) \in Bad
    BY FS_CardinalityType
  <2>. QED BY <2>1
<1>2. PICK n \in Bad : \A m \in Bad : n <= m
  <2> HIDE DEF Bad
  <2>. QED BY <1>1, NatMin
<1>3. PICK T \in SUBSET S : T \notin Good /\ Cardinality(T) = n
  BY <1>2
<1>4. PICK x \in T : TRUE
  BY <1>3
<1>5. /\ IsFiniteSet(T) /\ IsFiniteSet(T \ {x})
      /\ Cardinality(T \ {x}) = Cardinality(T) - 1
      /\ Cardinality(T \ {x}) \in Nat
  BY <1>3, <1>4, FS_Subset, FS_RemoveElement, FS_CardinalityType
<1>6. T \ {x} \notin Good
  <2>1. (T \ {x}) \cup {x} = T /\ T \ {x} \in SUBSET S /\ x \in S
    BY <1>3, <1>4
  <2>. QED BY <1>3, <2>1
<1>7. n - 1 \in Bad
  BY <1>3, <1>5, <1>6
<1> HIDE DEF Bad
<1>. QED BY <1>1, <1>2, <1>7

(* Induction over the natural numbers.                                     *)
LEMMA NatSetInduction ==
  ASSUME NEW Good, 0 \in Good, \A n \in Nat : n \in Good => n + 1 \in Good
  PROVE  \A n \in Nat : n \in Good
<1> SUFFICES ASSUME NEW k \in Nat, k \notin Good PROVE FALSE
  OBVIOUS
<1> DEFINE Bad == Nat \ Good
<1>1. Bad \in SUBSET Nat /\ Bad # {}
  OBVIOUS
<1>2. PICK n \in Bad : \A m \in Bad : n <= m
  <2> HIDE DEF Bad
  <2>. QED BY <1>1, NatMin
<1>3. n - 1 \in Nat /\ n - 1 + 1 = n
  BY <1>2
<1>4. n - 1 \notin Bad
  <2>1. n \in Nat /\ ~(n <= n - 1)
    BY <1>2
  <2> HIDE DEF Bad
  <2>. QED BY <1>2, <2>1
<1>. QED BY <1>2, <1>3, <1>4
------------------------------------------------------------------------------
(* Sums.  SumFunctionOnSet takes the elements in an order of its own; a    *)
(* measure is what a sum is if the order does not matter.                  *)
Measure(f, S, h) ==
  /\ h \in [SUBSET S -> Int] /\ h[{}] = 0
  /\ \A T \in SUBSET S : \A x \in T : h[T] = f[x] + h[T \ {x}]

LEMMA MeasureExists ==
  ASSUME NEW S, IsFiniteSet(S), NEW f, \A x \in S : f[x] \in Int
  PROVE  \E h : Measure(f, S, h)
<1> DEFINE Good == {T \in SUBSET S : \E h : Measure(f, T, h)}
<1>1. {} \in Good
  <2>1. Measure(f, {}, [T \in SUBSET {} |-> 0])
    BY DEF Measure
  <2>. QED BY <2>1
<1>2. ASSUME NEW T \in SUBSET S, NEW x \in S, T \in Good, x \notin T
      PROVE  T \cup {x} \in Good
  <2>1. PICK h : Measure(f, T, h)
    BY <1>2
  <2> DEFINE g == [U \in SUBSET (T \cup {x}) |->
                     IF x \in U THEN f[x] + h[U \ {x}] ELSE h[U]]
  <2>2. /\ h \in [SUBSET T -> Int] /\ h[{}] = 0
        /\ \A U \in SUBSET T : \A y \in U : h[U] = f[y] + h[U \ {y}]
    BY <2>1 DEF Measure
  <2>3. g \in [SUBSET (T \cup {x}) -> Int] /\ g[{}] = 0
    <3>1. \A U \in SUBSET (T \cup {x}) :
            /\ x \in U => f[x] \in Int /\ h[U \ {x}] \in Int
            /\ x \notin U => h[U] \in Int
      BY <1>2, <2>2
    <3>. QED BY <1>2, <2>2, <3>1
  <2>4. ASSUME NEW U \in SUBSET (T \cup {x}), NEW y \in U
        PROVE  g[U] = f[y] + g[U \ {y}]
    <3>1. CASE x \notin U
      <4>1. U \in SUBSET T /\ U \ {y} \in SUBSET (T \cup {x}) /\ x \notin U \ {y}
        BY <2>4, <3>1
      <4>. QED BY <4>1, <2>2, <3>1
    <3>2. CASE y = x
      BY <3>2
    <3>3. CASE x \in U /\ y # x
      <4>1. /\ U \ {x} \in SUBSET T /\ y \in U \ {x}
            /\ (U \ {x}) \ {y} = (U \ {y}) \ {x}
            /\ (U \ {x}) \ {y} \in SUBSET T /\ x \in U \ {y}
        BY <2>4, <3>3
      <4>2. h[U \ {x}] = f[y] + h[(U \ {y}) \ {x}]
        BY <2>2, <4>1
      <4>3. f[x] \in Int /\ f[y] \in Int /\ h[(U \ {y}) \ {x}] \in Int
        BY <2>2, <4>1
      <4>4. g[U] = f[x] + h[U \ {x}] /\ g[U \ {y}] = f[x] + h[(U \ {y}) \ {x}]
        BY <3>3, <4>1
      <4> HIDE DEF g
      <4>. QED BY <4>2, <4>3, <4>4
    <3>. QED BY <3>1, <3>2, <3>3
  <2>5. Measure(f, T \cup {x}, g)
    <3> HIDE DEF g
    <3>. QED BY <2>3, <2>4 DEF Measure
  <2>. QED BY <2>5
<1> HIDE DEF Good
<1>3. S \in Good
  BY <1>1, <1>2, FiniteInduction
<1>. QED BY <1>3 DEF Good

LEMMA SumIsMeasure ==
  ASSUME NEW S, IsFiniteSet(S), NEW f, NEW h, Measure(f, S, h)
  PROVE  SumFunctionOnSet(f, S) = h[S]
<1> DEFINE Least(s) == CHOOSE x \in s : TRUE
           Fold(s, g) == IF s = {} THEN 0 ELSE f[Least(s)] + g[s \ {Least(s)}]
           iter == CHOOSE g : g = [s \in SUBSET S |-> Fold(s, g)]
<1>1. SumFunctionOnSet(f, S) = iter[S]
  BY DEF SumFunctionOnSet, FoldFunctionOnSet, MapThenFoldSet
<1>2. h = [s \in SUBSET S |-> Fold(s, h)]
  <2>1. \A s \in SUBSET S : h[s] = Fold(s, h)
    BY DEF Measure
  <2>2. h \in [SUBSET S -> Int]
    BY DEF Measure
  <2> HIDE DEF Fold
  <2>. QED BY <2>1, <2>2
<1>3. iter = [s \in SUBSET S |-> Fold(s, iter)]
  <2> HIDE DEF Fold
  <2>. QED BY <1>2
<1>4. \A s \in SUBSET S : iter[s] = Fold(s, iter)
  <2> HIDE DEF Fold, iter
  <2>. QED BY <1>3
<1> DEFINE Good == {n \in Nat : \A s \in SUBSET S : Cardinality(s) = n => iter[s] = h[s]}
<1> HIDE DEF iter
<1>5. 0 \in Good
  <2>1. \A s \in SUBSET S : Cardinality(s) = 0 => s = {}
    BY FS_Subset, FS_EmptySet
  <2>2. h[{}] = 0
    BY DEF Measure
  <2>. QED BY <1>4, <2>1, <2>2
<1>6. ASSUME NEW n \in Nat, n \in Good PROVE n + 1 \in Good
  <2> SUFFICES ASSUME NEW s \in SUBSET S, Cardinality(s) = n + 1
               PROVE  iter[s] = h[s]
    OBVIOUS
  <2>1. s # {} /\ IsFiniteSet(s)
    BY FS_Subset, FS_EmptySet
  <2>2. Least(s) \in s
    BY <2>1
  <2> HIDE DEF Least
  <2>3. Cardinality(s \ {Least(s)}) = n /\ s \ {Least(s)} \in SUBSET S
    BY <2>1, <2>2, FS_RemoveElement
  <2>4. iter[s \ {Least(s)}] = h[s \ {Least(s)}]
    BY <1>6, <2>3
  <2>5. h[s] = f[Least(s)] + h[s \ {Least(s)}]
    BY <2>2 DEF Measure
  <2>. QED BY <1>4, <2>1, <2>4, <2>5
<1> HIDE DEF Good
<1>7. Cardinality(S) \in Good
  BY <1>5, <1>6, NatSetInduction, FS_CardinalityType
<1>. QED BY <1>1, <1>7 DEF Good

(* What the rest uses of a sum: nothing adds 0, and an element may be      *)
(* taken out of it whichever it is.                                        *)
LEMMA SumMeasure ==
  ASSUME NEW S, IsFiniteSet(S), NEW f, \A x \in S : f[x] \in Int
  PROVE  /\ SumFunctionOnSet(f, S) \in Int
         /\ \A x \in S : SumFunctionOnSet(f, S) = f[x] + SumFunctionOnSet(f, S \ {x})
<1>1. PICK h : Measure(f, S, h)
  BY MeasureExists
<1>2. ASSUME NEW T \in SUBSET S PROVE SumFunctionOnSet(f, T) = h[T]
  <2> DEFINE g == [U \in SUBSET T |-> h[U]]
  <2>1. Measure(f, T, g)
    BY <1>1 DEF Measure
  <2>2. g[T] = h[T]
    OBVIOUS
  <2> HIDE DEF g
  <2>. QED BY <2>1, <2>2, SumIsMeasure, FS_Subset
<1>3. h[S] \in Int /\ \A x \in S : S \ {x} \in SUBSET S /\ h[S] = f[x] + h[S \ {x}]
  BY <1>1 DEF Measure
<1>. QED BY <1>2, <1>3

LEMMA SumEmpty == \A f : SumFunctionOnSet(f, {}) = 0
<1> SUFFICES ASSUME NEW f PROVE SumFunctionOnSet(f, {}) = 0
  OBVIOUS
<1>1. Measure(f, {}, [T \in SUBSET {} |-> 0])
  BY DEF Measure
<1>. QED BY <1>1, SumIsMeasure, FS_EmptySet

LEMMA SumRemove ==
  ASSUME NEW S, IsFiniteSet(S), NEW f, \A x \in S : f[x] \in Int, NEW x \in S
  PROVE  /\ SumFunctionOnSet(f, S \ {x}) \in Int /\ f[x] \in Int
         /\ SumFunctionOnSet(f, S) = f[x] + SumFunctionOnSet(f, S \ {x})
<1>1. IsFiniteSet(S \ {x}) /\ \A y \in S \ {x} : f[y] \in Int
  BY FS_RemoveElement
<1>. QED BY <1>1, SumMeasure

LEMMA SumAdd ==
  ASSUME NEW S, IsFiniteSet(S), NEW x, x \notin S,
         NEW f, \A y \in S \cup {x} : f[y] \in Int
  PROVE  /\ SumFunctionOnSet(f, S) \in Int
         /\ SumFunctionOnSet(f, S \cup {x}) = SumFunctionOnSet(f, S) + f[x]
<1>1. IsFiniteSet(S \cup {x}) /\ (S \cup {x}) \ {x} = S
  BY FS_AddElement
<1>. QED BY <1>1, SumRemove, SumMeasure

(* A sum depends on the values in the set only, and grows with them.       *)
LEMMA SumMonotone ==
  ASSUME NEW S, IsFiniteSet(S), NEW f, NEW g,
         \A x \in S : f[x] \in Int /\ g[x] \in Int /\ f[x] <= g[x]
  PROVE  SumFunctionOnSet(f, S) <= SumFunctionOnSet(g, S)
<1> DEFINE Good == {T \in SUBSET S : SumFunctionOnSet(f, T) <= SumFunctionOnSet(g, T)}
<1>1. {} \in Good
  BY SumEmpty
<1>2. ASSUME NEW T \in SUBSET S, NEW x \in S, T \in Good, x \notin T
      PROVE  T \cup {x} \in Good
  <2>1. IsFiniteSet(T) /\ \A y \in T \cup {x} : f[y] \in Int /\ g[y] \in Int
    BY FS_Subset
  <2>2. /\ SumFunctionOnSet(f, T) \in Int /\ SumFunctionOnSet(g, T) \in Int
        /\ SumFunctionOnSet(f, T \cup {x}) = SumFunctionOnSet(f, T) + f[x]
        /\ SumFunctionOnSet(g, T \cup {x}) = SumFunctionOnSet(g, T) + g[x]
    BY <1>2, <2>1, SumAdd
  <2>. QED BY <1>2, <2>1, <2>2
<1> HIDE DEF Good
<1>3. S \in Good
  BY <1>1, <1>2, FiniteInduction
<1>. QED BY <1>3 DEF Good

LEMMA SumSame ==
  ASSUME NEW S, IsFiniteSet(S), NEW f, NEW g,
         \A x \in S : f[x] \in Int /\ f[x] = g[x]
  PROVE  SumFunctionOnSet(f, S) = SumFunctionOnSet(g, S)
<1>1. /\ SumFunctionOnSet(f, S) <= SumFunctionOnSet(g, S)
      /\ SumFunctionOnSet(g, S) <= SumFunctionOnSet(f, S)
  BY SumMonotone
<1>. QED BY <1>1, SumMeasure

(* Sums over disjoint sets add up.                                         *)
LEMMA SumUnion ==
  ASSUME NEW S, IsFiniteSet(S), NEW R, IsFiniteSet(R), S \cap R = {},
         NEW f, \A x \in S \cup R : f[x] \in Int
  PROVE  SumFunctionOnSet(f, S \cup R)
           = SumFunctionOnSet(f, S) + SumFunctionOnSet(f, R)
<1> DEFINE Good == {T \in SUBSET S : SumFunctionOnSet(f, T \cup R)
                                       = SumFunctionOnSet(f, T) + SumFunctionOnSet(f, R)}
<1>1. {} \in Good
  <2>1. {} \cup R = R /\ SumFunctionOnSet(f, R) \in Int
    BY SumMeasure
  <2>. QED BY <2>1, SumEmpty
<1>2. ASSUME NEW T \in SUBSET S, NEW x \in S, T \in Good, x \notin T
      PROVE  T \cup {x} \in Good
  <2>1. /\ IsFiniteSet(T) /\ IsFiniteSet(T \cup R) /\ x \notin T \cup R
        /\ (T \cup {x}) \cup R = (T \cup R) \cup {x}
    BY <1>2, FS_Subset, FS_Union
  <2>2. /\ SumFunctionOnSet(f, T \cup {x}) = SumFunctionOnSet(f, T) + f[x]
        /\ SumFunctionOnSet(f, (T \cup R) \cup {x})
             = SumFunctionOnSet(f, T \cup R) + f[x]
    BY <1>2, <2>1, SumAdd
  <2>3. /\ SumFunctionOnSet(f, T) \in Int /\ f[x] \in Int
        /\ SumFunctionOnSet(f, R) \in Int
    BY <2>1, SumMeasure
  <2>4. SumFunctionOnSet(f, T \cup R)
          = SumFunctionOnSet(f, T) + SumFunctionOnSet(f, R)
    BY <1>2
  <2>5. SumFunctionOnSet(f, (T \cup {x}) \cup R)
          = SumFunctionOnSet(f, (T \cup R) \cup {x})
    BY <2>1, Zenon
  <2>6. \A a, b, c \in Int : (a + b) + c = (a + c) + b
    OBVIOUS
  <2>. QED BY <2>2, <2>3, <2>4, <2>5, <2>6
<1> HIDE DEF Good
<1>3. S \in Good
  BY <1>1, <1>2, FiniteInduction
<1>. QED BY <1>3 DEF Good

(* A finite union of finite sets is finite, and as large as its parts      *)
(* together if they are disjoint.                                          *)
LEMMA UnionSize ==
  ASSUME NEW S, IsFiniteSet(S), NEW f, DOMAIN f = S, \A x \in S : IsFiniteSet(f[x])
  PROVE  /\ IsFiniteSet(UNION {f[x] : x \in S})
         /\ (\A x, y \in S : x # y => f[x] \cap f[y] = {}) =>
              Cardinality(UNION {f[x] : x \in S})
                = SumFunctionOnSet([x \in S |-> Cardinality(f[x])], S)
<1> DEFINE Apart == \A x, y \in S : x # y => f[x] \cap f[y] = {}
           size == [x \in S |-> Cardinality(f[x])]
           All(T) == UNION {f[x] : x \in T}
           Good == {T \in SUBSET S :
                      /\ IsFiniteSet(All(T))
                      /\ Apart => Cardinality(All(T)) = SumFunctionOnSet(size, T)}
<1>1. \A x \in S : size[x] = Cardinality(f[x]) /\ size[x] \in Int
  <2> SUFFICES ASSUME NEW x \in S PROVE size[x] = Cardinality(f[x]) /\ size[x] \in Int
    OBVIOUS
  <2>1. Cardinality(f[x]) \in Nat
    BY FS_CardinalityType
  <2>. QED BY <2>1
<1> HIDE DEF size
<1>2. {} \in Good
  <2>1. All({}) = {}
    OBVIOUS
  <2>2. SumFunctionOnSet(size, {}) = 0
    BY SumEmpty
  <2> HIDE DEF All, Apart
  <2>. QED BY <2>1, <2>2, FS_EmptySet
<1>3. ASSUME NEW T \in SUBSET S, NEW x \in S, T \in Good, x \notin T
      PROVE  T \cup {x} \in Good
  <2>1. All(T \cup {x}) = All(T) \cup f[x]
    OBVIOUS
  <2>2. IsFiniteSet(All(T)) /\ IsFiniteSet(f[x]) /\ IsFiniteSet(T)
    <3>1. IsFiniteSet(T)
      BY FS_Subset
    <3> HIDE DEF All
    <3>. QED BY <1>3, <3>1
  <2>3. Apart => All(T) \cap f[x] = {}
    <3> SUFFICES ASSUME Apart, NEW e \in All(T), e \in f[x] PROVE FALSE
      OBVIOUS
    <3>1. PICK y \in T : e \in f[y]
      OBVIOUS
    <3>. QED BY <1>3, <3>1
  <2>4. /\ IsFiniteSet(All(T) \cup f[x])
        /\ Apart => Cardinality(All(T) \cup f[x]) = Cardinality(All(T)) + Cardinality(f[x])
    <3> HIDE DEF All, Apart
    <3>1. Cardinality(All(T)) \in Nat /\ Cardinality(f[x]) \in Nat
      BY <2>2, FS_CardinalityType
    <3>2. Cardinality({}) = 0
      BY FS_EmptySet
    <3>3. /\ IsFiniteSet(All(T) \cup f[x])
          /\ Cardinality(All(T) \cup f[x])
               = Cardinality(All(T)) + Cardinality(f[x]) - Cardinality(All(T) \cap f[x])
      BY <2>2, FS_Union
    <3>4. Apart => Cardinality(All(T) \cap f[x]) = 0
      BY <2>3, <3>2, Zenon
    <3>. QED BY <3>1, <3>3, <3>4
  <2>5. SumFunctionOnSet(size, T \cup {x}) = SumFunctionOnSet(size, T) + size[x]
    BY <1>1, <1>3, <2>2, SumAdd
  <2>6. Apart => Cardinality(All(T)) = SumFunctionOnSet(size, T)
    <3> HIDE DEF All, Apart
    <3>. QED BY <1>3
  <2>7. Apart => Cardinality(All(T \cup {x})) = SumFunctionOnSet(size, T \cup {x})
    <3> HIDE DEF All, Apart
    <3>. QED BY <1>1, <2>1, <2>4, <2>5, <2>6
  <2> HIDE DEF All, Apart
  <2>. QED BY <2>1, <2>4, <2>7
<1> HIDE DEF Good
<1>4. S \in Good
  BY <1>2, <1>3, FiniteInduction
<1>. QED BY <1>4 DEF Good, size

(* A factor may be taken out of a sum.                                     *)
LEMMA SumScale ==
  ASSUME NEW S, IsFiniteSet(S), NEW c \in Int, NEW f, NEW g,
         \A x \in S : f[x] \in Int /\ g[x] = c * f[x]
  PROVE  SumFunctionOnSet(g, S) = c * SumFunctionOnSet(f, S)
<1> DEFINE Good == {T \in SUBSET S : SumFunctionOnSet(g, T) = c * SumFunctionOnSet(f, T)}
<1>1. {} \in Good
  BY SumEmpty
<1>2. ASSUME NEW T \in SUBSET S, NEW x \in S, T \in Good, x \notin T
      PROVE  T \cup {x} \in Good
  <2>1. IsFiniteSet(T) /\ \A y \in T \cup {x} : f[y] \in Int /\ g[y] \in Int
    BY FS_Subset
  <2>2. /\ SumFunctionOnSet(f, T) \in Int
        /\ SumFunctionOnSet(f, T \cup {x}) = SumFunctionOnSet(f, T) + f[x]
        /\ SumFunctionOnSet(g, T \cup {x}) = SumFunctionOnSet(g, T) + g[x]
    BY <1>2, <2>1, SumAdd
  <2>3. \A a, b \in Int : c * (a + b) = c * a + c * b
    OBVIOUS
  <2>4. f[x] \in Int /\ g[x] = c * f[x]
    OBVIOUS
  <2>5. SumFunctionOnSet(g, T) = c * SumFunctionOnSet(f, T)
    BY <1>2
  <2>. QED BY <2>2, <2>3, <2>4, <2>5
<1> HIDE DEF Good
<1>3. S \in Good
  BY <1>1, <1>2, FiniteInduction
<1>. QED BY <1>3 DEF Good

LEMMA SumLinear ==
  ASSUME NEW S, IsFiniteSet(S), NEW c \in Int, NEW d \in Int, NEW f, NEW g, NEW h,
         \A x \in S : f[x] \in Int /\ g[x] \in Int /\ h[x] = c * f[x] + d * g[x]
  PROVE  SumFunctionOnSet(h, S) = c * SumFunctionOnSet(f, S) + d * SumFunctionOnSet(g, S)
<1> DEFINE Good == {T \in SUBSET S : SumFunctionOnSet(h, T)
                      = c * SumFunctionOnSet(f, T) + d * SumFunctionOnSet(g, T)}
<1>1. {} \in Good
  BY SumEmpty
<1>2. ASSUME NEW T \in SUBSET S, NEW x \in S, T \in Good, x \notin T
      PROVE  T \cup {x} \in Good
  <2>1. /\ IsFiniteSet(T)
        /\ \A y \in T \cup {x} : f[y] \in Int /\ g[y] \in Int /\ h[y] \in Int
    BY FS_Subset
  <2>2. /\ SumFunctionOnSet(f, T) \in Int
        /\ SumFunctionOnSet(f, T \cup {x}) = SumFunctionOnSet(f, T) + f[x]
    BY <1>2, <2>1, SumAdd
  <2>3. /\ SumFunctionOnSet(g, T) \in Int
        /\ SumFunctionOnSet(g, T \cup {x}) = SumFunctionOnSet(g, T) + g[x]
    BY <1>2, <2>1, SumAdd
  <2>4. /\ SumFunctionOnSet(h, T) \in Int
        /\ SumFunctionOnSet(h, T \cup {x}) = SumFunctionOnSet(h, T) + h[x]
    BY <1>2, <2>1, SumAdd
  <2>5. \A a, b, u, v \in Int :
          c * a + d * b + (c * u + d * v) = c * (a + u) + d * (b + v)
    OBVIOUS
  <2>6. h[x] = c * f[x] + d * g[x] /\ f[x] \in Int /\ g[x] \in Int
    OBVIOUS
  <2>7. SumFunctionOnSet(h, T)
          = c * SumFunctionOnSet(f, T) + d * SumFunctionOnSet(g, T)
    BY <1>2
  <2>8. SumFunctionOnSet(h, T \cup {x})
          = c * SumFunctionOnSet(f, T \cup {x}) + d * SumFunctionOnSet(g, T \cup {x})
    BY <2>2, <2>3, <2>4, <2>5, <2>6, <2>7
  <2>. QED BY <2>8
<1> HIDE DEF Good
<1>3. S \in Good
  BY <1>1, <1>2, FiniteInduction
<1>. QED BY <1>3 DEF Good

(* The lesser and the greater of two numbers.                              *)
LEMMA MinTwo ==
  ASSUME NEW a \in Int, NEW b \in Int
  PROVE  Min({a, b}) = IF a <= b THEN a ELSE b
<1> DEFINE m == IF a <= b THEN a ELSE b
<1>1. m \in {a, b} /\ \A y \in {a, b} : m <= y
  OBVIOUS
<1>2. \A x \in {a, b} : (\A y \in {a, b} : x <= y) => x = m
  OBVIOUS
<1>. QED BY <1>1, <1>2 DEF Min

LEMMA MaxTwo ==
  ASSUME NEW a \in Int, NEW b \in Int
  PROVE  Max({a, b}) = IF a <= b THEN b ELSE a
<1> DEFINE m == IF a <= b THEN b ELSE a
<1>1. m \in {a, b} /\ \A y \in {a, b} : m >= y
  OBVIOUS
<1>2. \A x \in {a, b} : (\A y \in {a, b} : x >= y) => x = m
  OBVIOUS
<1>. QED BY <1>1, <1>2 DEF Max

(* Products grow with their factors.                                       *)
LEMMA TimesMonotone ==
  ASSUME NEW p \in Nat, NEW q \in Nat, NEW u \in Nat, NEW v \in Nat,
         p <= u, q <= v
  PROVE  p * q \in Nat /\ u * v \in Nat /\ p * q <= u * v
<1>1. PICK s \in Nat : u = p + s
  <2>1. u - p \in Nat /\ u = p + (u - p)
    OBVIOUS
  <2>. QED BY <2>1
<1>2. PICK t \in Nat : v = q + t
  <2>1. v - q \in Nat /\ v = q + (v - q)
    OBVIOUS
  <2>. QED BY <2>1
<1>3. u * v = p * q + p * t + s * q + s * t
  BY <1>1, <1>2
<1>4. p * q \in Nat /\ p * t \in Nat /\ s * q \in Nat /\ s * t \in Nat
  OBVIOUS
<1>. QED BY <1>3, <1>4

(* A number below a product has a quotient below one factor and a          *)
(* remainder below the other.                                              *)
LEMMA Split2 ==
  ASSUME NEW x \in Nat, NEW a \in Nat \ {0}, NEW b \in Nat \ {0}, x < a * b
  PROVE  /\ x \div b \in 0 .. a - 1 /\ x % b \in 0 .. b - 1
         /\ x = (x \div b) * b + (x % b)
<1>1. x \div b \in Nat /\ x % b \in 0 .. b - 1 /\ x = b * (x \div b) + (x % b)
  OBVIOUS
<1>2. PICK q \in Nat : q = x \div b
  BY <1>1
<1>3. b * q <= x /\ b * q = q * b
  BY <1>1, <1>2
<1>4. q < a
  <2>1. SUFFICES ASSUME a <= q PROVE FALSE
    BY <1>2
  <2>2. a * b <= q * b
    BY <2>1, TimesMonotone
  <2>3. a * b \in Nat /\ q * b \in Nat
    BY <1>2
  <2>. QED BY <1>3, <2>2, <2>3
<1>5. x = q * b + (x % b)
  BY <1>1, <1>2, <1>3
<1>. QED BY <1>1, <1>2, <1>4, <1>5

(* A quotient is known by its remainder.                                   *)
LEMMA QuotientIs ==
  ASSUME NEW x \in Nat, NEW b \in Nat \ {0}, NEW u \in Nat, NEW r \in Nat,
         x = u * b + r, r < b
  PROVE  x \div b = u
<1>1. PICK q \in Nat, s \in 0 .. b - 1 : q = x \div b /\ x = b * q + s
  <2>1. x \div b \in Nat /\ x % b \in 0 .. b - 1 /\ x = b * (x \div b) + (x % b)
    OBVIOUS
  <2>. QED BY <2>1
<1>2. b * q = q * b /\ q * b + s = u * b + r
  BY <1>1
<1>3. q = u
  <2>1. CASE q < u
    <3>1. (q + 1) * b <= u * b
      BY <2>1, TimesMonotone
    <3>2. (q + 1) * b = q * b + b /\ q * b \in Nat /\ u * b \in Nat
      OBVIOUS
    <3>. QED BY <1>1, <1>2, <3>1, <3>2
  <2>2. CASE u < q
    <3>1. (u + 1) * b <= q * b
      BY <2>2, TimesMonotone
    <3>2. (u + 1) * b = u * b + b /\ q * b \in Nat /\ u * b \in Nat
      OBVIOUS
    <3>. QED BY <1>1, <1>2, <3>1, <3>2
  <2>. QED BY <2>1, <2>2
<1>. QED BY <1>1, <1>3

(* An entry of a table is before the table's end.                          *)
LEMMA InTable ==
  ASSUME NEW rows \in Nat, NEW cols \in Nat, NEW r \in Nat, NEW c \in Nat,
         r < rows, c < cols
  PROVE  r * cols + c \in Nat /\ r * cols + c < rows * cols
<1>1. (r + 1) * cols <= rows * cols
  BY TimesMonotone
<1>2. (r + 1) * cols = r * cols + cols /\ r * cols \in Nat /\ rows * cols \in Nat
  OBVIOUS
<1>. QED BY <1>1, <1>2

(* A number below a product of three is known by its three digits.         *)
Digits(x, a, b, c) ==
  /\ x \div (b * c) \in 0 .. a - 1 /\ (x \div c) % b \in 0 .. b - 1
  /\ x % c \in 0 .. c - 1
  /\ x = ((x \div (b * c)) * b + ((x \div c) % b)) * c + (x % c)

LEMMA Split3 ==
  ASSUME NEW x \in Nat, NEW a \in Nat \ {0}, NEW b \in Nat \ {0}, NEW c \in Nat \ {0},
         x < (a * b) * c
  PROVE  Digits(x, a, b, c)
<1>1. a * b \in Nat \ {0} /\ b * c \in Nat \ {0} /\ a * (b * c) = (a * b) * c
  OBVIOUS
<1>2. /\ x \div c \in 0 .. a * b - 1 /\ x % c \in 0 .. c - 1
      /\ x = (x \div c) * c + (x % c)
  BY <1>1, Split2
<1>3. PICK q \in Nat : q = x \div c /\ q < a * b
  BY <1>1, <1>2
<1>4. /\ q \div b \in 0 .. a - 1 /\ q % b \in 0 .. b - 1
      /\ q = (q \div b) * b + (q % b)
  BY <1>3, Split2
<1>5. PICK u \in 0 .. a - 1, v \in 0 .. b - 1, w \in 0 .. c - 1 :
        /\ u = q \div b /\ v = q % b /\ w = x % c
        /\ q = u * b + v /\ x = q * c + w
  BY <1>2, <1>3, <1>4
<1>6. v * c + w \in Nat /\ v * c + w < b * c
  BY InTable
<1>7. x = u * (b * c) + (v * c + w)
  <2>1. \A i, j, k, l \in Nat : (i * j + l) * k = i * (j * k) + l * k
    <3>1. \A i, k, l \in Nat : (i + l) * k = i * k + l * k
      OBVIOUS
    <3>2. \A i, j, k \in Nat : i * j \in Nat /\ (i * j) * k = i * (j * k)
      OBVIOUS
    <3>. QED BY <3>1, <3>2
  <2>2. u \in Nat /\ v \in Nat /\ w \in Nat
    OBVIOUS
  <2>3. (u * b + v) * c = u * (b * c) + v * c
    BY <2>1, <2>2
  <2>4. u * (b * c) \in Nat /\ v * c \in Nat
    BY <1>1, <2>2
  <2>5. x = u * (b * c) + v * c + w
    BY <1>5, <2>3
  <2>. QED BY <2>2, <2>4, <2>5
<1>8. x \div (b * c) = u
  <2> DEFINE bc == b * c
             r == v * c + w
  <2>1. bc \in Nat \ {0} /\ r \in Nat /\ r < bc /\ x = u * bc + r /\ u \in Nat
    BY <1>1, <1>6, <1>7
  <2> HIDE DEF bc, r
  <2>2. x \div bc = u
    BY <2>1, QuotientIs
  <2>. QED BY <2>2 DEF bc
<1>9. x \div (b * c) \in 0 .. a - 1 /\ (x \div c) % b = v
  BY <1>3, <1>5, <1>8
<1>10. x = (u * b + v) * c + w
  BY <1>5
<1>. QED BY <1>5, <1>8, <1>9, <1>10 DEF Digits

(* The sum over a table of products is the product of the sums.            *)
LEMMA SumProduct ==
  ASSUME NEW S, IsFiniteSet(S), NEW R, IsFiniteSet(R), NEW f, NEW g, NEW h,
         \A x \in S : f[x] \in Int, \A y \in R : g[y] \in Int,
         \A x \in S, y \in R : h[<<x, y>>] = f[x] * g[y]
  PROVE  SumFunctionOnSet(h, S \X R) = SumFunctionOnSet(f, S) * SumFunctionOnSet(g, R)
<1>1. SumFunctionOnSet(g, R) \in Int
  BY SumMeasure
<1>2. \A x \in S, y \in R : h[<<x, y>>] \in Int
  <2>1. \A a, b \in Int : a * b \in Int
    OBVIOUS
  <2>. QED BY <2>1
<1>3. ASSUME NEW x \in S
      PROVE  /\ IsFiniteSet({x} \X R)
             /\ SumFunctionOnSet(h, {x} \X R) = f[x] * SumFunctionOnSet(g, R)
  <2> DEFINE Row == {T \in SUBSET R : SumFunctionOnSet(h, {x} \X T)
                                        = f[x] * SumFunctionOnSet(g, T)}
  <2>1. {} \in Row
    <3>1. {x} \X {} = {} /\ f[x] * 0 = 0
      OBVIOUS
    <3>. QED BY <3>1, SumEmpty
  <2>2. ASSUME NEW T \in SUBSET R, NEW y \in R, T \in Row, y \notin T
        PROVE  T \cup {y} \in Row
    <3>1. {x} \X (T \cup {y}) = ({x} \X T) \cup {<<x, y>>} /\ <<x, y>> \notin {x} \X T
      BY <2>2
    <3>2. IsFiniteSet(T) /\ IsFiniteSet({x} \X T)
      BY FS_Subset, FS_Singleton, FS_Product
    <3>3. \A z \in ({x} \X T) \cup {<<x, y>>} : h[z] \in Int
      BY <1>2
    <3>4. /\ SumFunctionOnSet(h, {x} \X T) \in Int
          /\ SumFunctionOnSet(h, ({x} \X T) \cup {<<x, y>>})
               = SumFunctionOnSet(h, {x} \X T) + h[<<x, y>>]
      BY <3>1, <3>2, <3>3, SumAdd
    <3>5. /\ SumFunctionOnSet(g, T) \in Int
          /\ SumFunctionOnSet(g, T \cup {y}) = SumFunctionOnSet(g, T) + g[y]
      BY <2>2, <3>2, SumAdd
    <3>6. SumFunctionOnSet(h, {x} \X T) = f[x] * SumFunctionOnSet(g, T)
      BY <2>2
    <3>7. \A a, b, c \in Int : a * b + a * c = a * (b + c)
      OBVIOUS
    <3>8. h[<<x, y>>] = f[x] * g[y] /\ f[x] \in Int /\ g[y] \in Int
      OBVIOUS
    <3>9. f[x] * SumFunctionOnSet(g, T) + f[x] * g[y]
            = f[x] * SumFunctionOnSet(g, T \cup {y})
      BY <3>5, <3>7, <3>8
    <3>10. SumFunctionOnSet(h, {x} \X (T \cup {y}))
             = f[x] * SumFunctionOnSet(g, T) + f[x] * g[y]
      BY <3>1, <3>4, <3>6, <3>8, Zenon
    <3>11. SumFunctionOnSet(h, {x} \X (T \cup {y})) = f[x] * SumFunctionOnSet(g, T \cup {y})
      BY <3>9, <3>10, Zenon
    <3>. QED BY <3>11
  <2> HIDE DEF Row
  <2>3. R \in Row
    BY <2>1, <2>2, FiniteInduction
  <2>4. IsFiniteSet({x} \X R)
    BY FS_Singleton, FS_Product
  <2>. QED BY <2>3, <2>4 DEF Row
<1> DEFINE Good == {T \in SUBSET S : SumFunctionOnSet(h, T \X R)
                      = SumFunctionOnSet(f, T) * SumFunctionOnSet(g, R)}
<1>4. {} \in Good
  <2>1. {} \X R = {} /\ 0 * SumFunctionOnSet(g, R) = 0
    BY <1>1
  <2>. QED BY <2>1, SumEmpty
<1>5. ASSUME NEW T \in SUBSET S, NEW x \in S, T \in Good, x \notin T
      PROVE  T \cup {x} \in Good
  <2>1. (T \cup {x}) \X R = (T \X R) \cup ({x} \X R) /\ (T \X R) \cap ({x} \X R) = {}
    BY <1>5
  <2>2. IsFiniteSet(T) /\ IsFiniteSet(T \X R)
    BY FS_Subset, FS_Product
  <2>3. \A z \in (T \X R) \cup ({x} \X R) : h[z] \in Int
    BY <1>2
  <2>4. SumFunctionOnSet(h, (T \X R) \cup ({x} \X R))
          = SumFunctionOnSet(h, T \X R) + SumFunctionOnSet(h, {x} \X R)
    BY <1>3, <2>1, <2>2, <2>3, SumUnion
  <2>5. /\ SumFunctionOnSet(f, T) \in Int
        /\ SumFunctionOnSet(f, T \cup {x}) = SumFunctionOnSet(f, T) + f[x]
    BY <1>5, <2>2, SumAdd
  <2>6. SumFunctionOnSet(h, T \X R) = SumFunctionOnSet(f, T) * SumFunctionOnSet(g, R)
    BY <1>5
  <2>7. \A a, b, c \in Int : a * c + b * c = (a + b) * c
    OBVIOUS
  <2>8. SumFunctionOnSet(f, T) * SumFunctionOnSet(g, R) + f[x] * SumFunctionOnSet(g, R)
          = SumFunctionOnSet(f, T \cup {x}) * SumFunctionOnSet(g, R)
    BY <1>1, <2>5, <2>7
  <2>9. SumFunctionOnSet(h, (T \cup {x}) \X R)
          = SumFunctionOnSet(f, T) * SumFunctionOnSet(g, R) + f[x] * SumFunctionOnSet(g, R)
    BY <1>3, <2>1, <2>4, <2>6, Zenon
  <2>10. SumFunctionOnSet(h, (T \cup {x}) \X R)
           = SumFunctionOnSet(f, T \cup {x}) * SumFunctionOnSet(g, R)
    BY <2>8, <2>9, Zenon
  <2>. QED BY <2>10
<1> HIDE DEF Good
<1>6. S \in Good
  BY <1>4, <1>5, FiniteInduction
<1>. QED BY <1>6 DEF Good
=============================================================================
