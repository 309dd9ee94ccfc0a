-------------------------------- MODULE Sums --------------------------------
(***************************************************************************)
(* Facts about sums of integers over finite sets.  The induction theorems  *)
(* of the library have an operator as their hypothesis, so induction is    *)
(* here the existence of a smallest set, of any family of finite sets.     *)
(***************************************************************************)
EXTENDS Integers, FiniteSets, Functions, TLAPS, FiniteSetTheorems, WellFoundedInduction

----------------------------------------------------------------------------
(* Induction *)

\* A family of subsets of a finite set has one that contains no other.
LEMMA SmallestSubset ==
    ASSUME NEW S, IsFiniteSet(S), NEW Q, Q \subseteq SUBSET S, Q # {}
    PROVE  \E T \in Q : \A U \in Q : U \subseteq T => U = T
<1> DEFINE smaller == StrictSubsetOrdering(S)
<1>1. IsWellFoundedOn(smaller, FiniteSubsetsOf(S)) /\ Q \subseteq FiniteSubsetsOf(S)
  BY FS_StrictSubsetOrderingWellFounded, FS_FiniteSubsetsOfFinite
<1>2. \E T \in Q : \A U \in Q : ~(<<U, T>> \in smaller)
  <2> HIDE DEF smaller
  <2> QED
    BY <1>1, WFMin
<1> QED
  BY <1>2 DEF StrictSubsetOrdering

\* What holds of the empty set, and of a set with one element more, holds of all.
LEMMA OneMore ==
    ASSUME NEW S, IsFiniteSet(S), NEW Q, {} \in Q,
           \A T \in SUBSET S : \A x \in S \ T : T \in Q => T \cup {x} \in Q
    PROVE  S \in Q
<1> SUFFICES ASSUME S \notin Q PROVE FALSE
  OBVIOUS
<1> DEFINE out == {T \in SUBSET S : T \notin Q}
<1>0. out \subseteq SUBSET S /\ out # {}
  OBVIOUS
<1>1. PICK T \in out : \A U \in out : U \subseteq T => U = T
  <2> HIDE DEF out
  <2> QED
    BY <1>0, SmallestSubset
<1>2. PICK x \in T : TRUE
  BY <1>1
<1>3. T \ {x} \in Q /\ T \ {x} \in SUBSET S /\ x \in S \ (T \ {x}) /\ (T \ {x}) \cup {x} = T
  BY <1>1, <1>2
<1>4. T \in Q
  BY <1>3
<1> QED
  BY <1>4

----------------------------------------------------------------------------
(* The fold is a recursive function *)

AllInts(f, S) == IsFiniteSet(S) /\ \A x \in S : f[x] \in Int

\* The element a sum takes first, and what a step of it gives.
FirstTaken(s) == CHOOSE x \in s : TRUE
SumStep(f, s, g) == IF s = {} THEN 0 ELSE f[FirstTaken(s)] + g[s \ {FirstTaken(s)}]

IsSums(f, S, g) == g = [s \in SUBSET S |-> SumStep(f, s, g)]

\* The library's sum over a set, as the function it picks.
LEMMA SumIsChosen == ASSUME NEW f, NEW S PROVE SumFunctionOnSet(f, S) = (CHOOSE g : IsSums(f, S, g))[S]
  BY DEF SumFunctionOnSet, FoldFunctionOnSet, MapThenFoldSet, IsSums, SumStep, FirstTaken

\* What is taken first is of the set.
LEMMA FirstIn == ASSUME NEW s, s # {} PROVE FirstTaken(s) \in s
  BY DEF FirstTaken

\* There is such a function, set by set from the smallest.
LEMMA SumsExist ==
    ASSUME NEW S, NEW f, AllInts(f, S)
    PROVE  \E g \in [SUBSET S -> Int] : IsSums(f, S, g)
<1> USE DEF AllInts
<1> DEFINE upTo(T) == {s \in SUBSET S : Cardinality(s) <= Cardinality(T)}
           Q == {T \in SUBSET S : \E g \in [upTo(T) -> Int] : \A s \in upTo(T) : g[s] = SumStep(f, s, g)}
<1>0. \A s \in SUBSET S : IsFiniteSet(s) /\ Cardinality(s) \in Nat
  BY FS_Subset, FS_CardinalityType
<1>1. {} \in Q
  <2>1. \A s \in upTo({}) : s = {}
    BY <1>0, FS_EmptySet
  <2>2. [s \in upTo({}) |-> 0] \in [upTo({}) -> Int]
    OBVIOUS
  <2>3. \A s \in upTo({}) : [t \in upTo({}) |-> 0][s] = SumStep(f, s, [t \in upTo({}) |-> 0])
    BY <2>1 DEF SumStep
  <2> HIDE DEF upTo
  <2> QED
    BY <2>2, <2>3
<1>2. ASSUME NEW T \in SUBSET S, NEW x \in S \ T, T \in Q PROVE T \cup {x} \in Q
  <2> DEFINE U == T \cup {x}
  <2>1. PICK g \in [upTo(T) -> Int] : \A s \in upTo(T) : g[s] = SumStep(f, s, g)
    BY <1>2
  <2>2. U \in SUBSET S /\ Cardinality(U) = Cardinality(T) + 1
    BY <1>0, FS_AddElement
  <2>3. ASSUME NEW s \in upTo(U), s # {}
        PROVE  FirstTaken(s) \in S /\ s \ {FirstTaken(s)} \in upTo(T)
    <3>1. FirstTaken(s) \in s /\ s \in SUBSET S
      BY <2>3, FirstIn
    <3>2. Cardinality(s \ {FirstTaken(s)}) = Cardinality(s) - 1
      BY <1>0, <3>1, FS_RemoveElement
    <3>3. Cardinality(s) <= Cardinality(U)
      BY <2>3
    <3> QED
      BY <1>0, <2>2, <3>1, <3>2, <3>3
  <2> DEFINE h == [s \in upTo(U) |-> IF s \in upTo(T) THEN g[s] ELSE SumStep(f, s, g)]
  <2>4. \A s \in upTo(U) : h[s] = SumStep(f, s, g)
    BY <2>1
  <2>5. \A s \in upTo(T) : s \in upTo(U) /\ h[s] = g[s]
    BY <1>0, <2>2
  <2> HIDE DEF h, upTo
  <2>6. ASSUME NEW s \in upTo(U) PROVE h[s] \in Int /\ h[s] = SumStep(f, s, h)
    <3>1. CASE s = {}
      <4>1. h[s] = SumStep(f, s, g) /\ SumStep(f, s, g) = 0 /\ SumStep(f, s, h) = 0
        BY <3>1, <2>4 DEF SumStep
      <4> QED
        BY <4>1
    <3>2. CASE s # {}
      <4> DEFINE rest == s \ {FirstTaken(s)}
      <4>1. FirstTaken(s) \in S /\ rest \in upTo(T) /\ f[FirstTaken(s)] \in Int
        BY <3>2, <2>3
      <4>2. g[rest] \in Int /\ h[rest] = g[rest]
        BY <4>1, <2>1, <2>5
      <4>3. h[s] = f[FirstTaken(s)] + g[rest]
        BY <3>2, <2>4 DEF SumStep
      <4>4. SumStep(f, s, h) = f[FirstTaken(s)] + h[rest]
        BY <3>2 DEF SumStep
      <4> QED
        BY <4>1, <4>2, <4>3, <4>4
    <3> QED
      BY <3>1, <3>2
  <2>7. h \in [upTo(U) -> Int]
    <3>1. DOMAIN h = upTo(U) /\ h = [s \in upTo(U) |-> h[s]]
      BY DEF h
    <3> QED
      BY <2>6, <3>1
  <2> QED
    BY <2>2, <2>6, <2>7
<1>3. S \in Q
  <2> HIDE DEF Q
  <2> QED
    BY <1>1, <1>2, OneMore
<1>4. upTo(S) = SUBSET S
  BY <1>0, FS_Subset
<1>5. PICK g \in [SUBSET S -> Int] : \A s \in SUBSET S : g[s] = SumStep(f, s, g)
  <2> HIDE DEF upTo
  <2> QED
    BY <1>3, <1>4
<1>6. g = [s \in SUBSET S |-> SumStep(f, s, g)]
  BY <1>5
<1> QED
  BY <1>6 DEF IsSums

\* There is one only, and on a smaller set it is the same.
LEMMA SumsUnique ==
    ASSUME NEW S, IsFiniteSet(S), NEW T \in SUBSET S, NEW f, NEW g, IsSums(f, S, g), NEW h, IsSums(f, T, h)
    PROVE  \A s \in SUBSET T : g[s] = h[s]
<1> DEFINE differ == {s \in SUBSET T : g[s] # h[s]}
<1> SUFFICES ASSUME differ # {} PROVE FALSE
  OBVIOUS
<1>1. PICK s \in differ : \A t \in differ : t \subseteq s => t = s
  <2>1. IsFiniteSet(T) /\ differ \subseteq SUBSET T
    BY FS_Subset
  <2> HIDE DEF differ
  <2> QED
    BY <2>1, SmallestSubset
<1>2. s \in SUBSET S /\ s \in SUBSET T /\ g[s] # h[s]
  BY <1>1
<1>3. g[s] = SumStep(f, s, g) /\ h[s] = SumStep(f, s, h)
  BY <1>2 DEF IsSums
<1>4. s # {}
  BY <1>2, <1>3 DEF SumStep
<1>5. s \ {FirstTaken(s)} \in SUBSET T /\ s \ {FirstTaken(s)} # s /\ s \ {FirstTaken(s)} \subseteq s
  BY <1>2, <1>4, FirstIn
<1>6. g[s \ {FirstTaken(s)}] = h[s \ {FirstTaken(s)}]
  BY <1>1, <1>5
<1> QED
  BY <1>2, <1>3, <1>4, <1>6 DEF SumStep

\* The sums of all subsets, as one function.
AllSums(f, S, g) ==
    /\ g \in [SUBSET S -> Int] /\ IsSums(f, S, g)
    /\ \A T \in SUBSET S : SumFunctionOnSet(f, T) = g[T]

\* There is one function with the sum of every part of a set.
LEMMA SumsAre ==
    ASSUME NEW S, NEW f, AllInts(f, S)
    PROVE  \E g : AllSums(f, S, g)
<1>1. PICK g \in [SUBSET S -> Int] : IsSums(f, S, g)
  BY SumsExist
<1>2. ASSUME NEW T \in SUBSET S PROVE SumFunctionOnSet(f, T) = g[T]
  <2>1. AllInts(f, T)
    BY FS_Subset DEF AllInts
  <2>2. \E h : IsSums(f, T, h)
    BY <2>1, SumsExist
  <2>3. IsSums(f, T, CHOOSE h : IsSums(f, T, h))
    BY <2>2
  <2> QED
    BY <1>1, <2>3, SumsUnique, SumIsChosen DEF AllInts
<1> QED
  BY <1>1, <1>2 DEF AllSums

----------------------------------------------------------------------------
(* What a sum is *)

\* A sum over nothing is zero.
LEMMA SumEmpty == ASSUME NEW f PROVE SumFunctionOnSet(f, {}) = 0
<1>1. PICK g : AllSums(f, {}, g)
  <2>1. AllInts(f, {})
    BY FS_EmptySet DEF AllInts
  <2> QED
    BY <2>1, SumsAre
<1>2. g[{}] = SumStep(f, {}, g)
  BY <1>1 DEF AllSums, IsSums
<1> QED
  BY <1>1, <1>2 DEF AllSums, SumStep

\* A sum of integers is an integer.
LEMMA SumInt == ASSUME NEW f, NEW S, AllInts(f, S) PROVE SumFunctionOnSet(f, S) \in Int
<1>1. PICK g : AllSums(f, S, g)
  BY SumsAre
<1> QED
  BY <1>1 DEF AllSums

\* Any element may be taken first.
LEMMA SumTake ==
    ASSUME NEW f, NEW S, AllInts(f, S), NEW x \in S
    PROVE  SumFunctionOnSet(f, S) = f[x] + SumFunctionOnSet(f, S \ {x})
<1>0. PICK g : AllSums(f, S, g)
  BY SumsAre
<1>1. g \in [SUBSET S -> Int] /\ IsSums(f, S, g) /\ \A T \in SUBSET S : SumFunctionOnSet(f, T) = g[T]
  BY <1>0 DEF AllSums
<1> DEFINE wrong == {T \in SUBSET S : \E y \in T : g[T] # f[y] + g[T \ {y}]}
<1>2. ASSUME wrong # {} PROVE FALSE
  <2>1. PICK T \in wrong : \A U \in wrong : U \subseteq T => U = T
    <3>1. wrong \subseteq SUBSET S /\ IsFiniteSet(S)
      BY DEF AllInts
    <3> HIDE DEF wrong
    <3> QED
      BY <1>2, <3>1, SmallestSubset
  <2>2. PICK y \in T : g[T] # f[y] + g[T \ {y}]
    BY <2>1
  <2> DEFINE z == FirstTaken(T)
  <2>3. T \in SUBSET S /\ y \in T /\ z \in T
    BY <2>1, <2>2, FirstIn
  <2>4. g[T] = f[z] + g[T \ {z}]
    BY <1>1, <2>3 DEF IsSums, SumStep
  <2> HIDE DEF z
  <2>5. y # z
    BY <2>2, <2>4
  <2>6. T \ {z} \notin wrong /\ T \ {y} \notin wrong
    <3>1. T \ {z} # T /\ T \ {y} # T /\ T \ {z} \subseteq T /\ T \ {y} \subseteq T
      BY <2>3
    <3> QED
      BY <2>1, <3>1
  <2>7. g[T \ {z}] = f[y] + g[(T \ {z}) \ {y}]
    BY <2>3, <2>5, <2>6
  <2>8. g[T \ {y}] = f[z] + g[(T \ {y}) \ {z}]
    BY <2>3, <2>5, <2>6
  <2>9. (T \ {z}) \ {y} = (T \ {y}) \ {z} /\ (T \ {y}) \ {z} \in SUBSET S
    BY <2>3
  <2>10. f[y] \in Int /\ f[z] \in Int /\ g[(T \ {y}) \ {z}] \in Int
    BY <1>1, <2>3, <2>9 DEF AllInts
  <2>11. g[T] = f[z] + (f[y] + g[(T \ {y}) \ {z}]) /\ g[T \ {y}] = f[z] + g[(T \ {y}) \ {z}]
    BY <2>4, <2>7, <2>8, <2>9
  <2> HIDE DEF wrong
  <2> QED
    BY <2>2, <2>10, <2>11
<1>3. g[S] = f[x] + g[S \ {x}]
  BY <1>2
<1> QED
  BY <1>1, <1>3

\* A sum over one element more.
LEMMA SumAdd ==
    ASSUME NEW f, NEW S, NEW x, x \notin S, AllInts(f, S \cup {x})
    PROVE  SumFunctionOnSet(f, S \cup {x}) = f[x] + SumFunctionOnSet(f, S)
<1>1. (S \cup {x}) \ {x} = S
  OBVIOUS
<1> QED
  BY <1>1, SumTake

\* Part of a finite set of integers.
LEMMA AllIntsOfPart == ASSUME NEW f, NEW S, AllInts(f, S), NEW T, T \subseteq S PROVE AllInts(f, T)
  BY FS_Subset DEF AllInts

\* Functions that agree have the same sum.
LEMMA SumSame ==
    ASSUME NEW f, NEW g, NEW S, AllInts(f, S), \A x \in S : f[x] = g[x]
    PROVE  SumFunctionOnSet(f, S) = SumFunctionOnSet(g, S)
<1> DEFINE Q == {T \in SUBSET S : SumFunctionOnSet(f, T) = SumFunctionOnSet(g, T)}
<1>1. {} \in Q
  BY SumEmpty
<1>2. ASSUME NEW T \in SUBSET S, NEW x \in S \ T, T \in Q PROVE T \cup {x} \in Q
  <2>1. AllInts(f, T \cup {x}) /\ AllInts(g, T \cup {x})
    <3>1. T \cup {x} \subseteq S /\ AllInts(g, S)
      BY DEF AllInts
    <3> QED
      BY <3>1, AllIntsOfPart
  <2>2. SumFunctionOnSet(f, T \cup {x}) = f[x] + SumFunctionOnSet(f, T)
    BY <2>1, SumAdd
  <2>3. SumFunctionOnSet(g, T \cup {x}) = g[x] + SumFunctionOnSet(g, T)
    BY <2>1, SumAdd
  <2> QED
    BY <1>2, <2>2, <2>3
<1> HIDE DEF Q
<1>3. S \in Q
  BY <1>1, <1>2, OneMore DEF AllInts
<1> QED
  BY <1>3 DEF Q

\* A sum of naturals is a natural, and no larger over a part.
LEMMA SumNat ==
    ASSUME NEW f, NEW S, IsFiniteSet(S), \A x \in S : f[x] \in Nat
    PROVE  SumFunctionOnSet(f, S) \in Nat
<1> DEFINE Q == {T \in SUBSET S : SumFunctionOnSet(f, T) \in Nat}
<1>1. {} \in Q
  BY SumEmpty
<1>2. ASSUME NEW T \in SUBSET S, NEW x \in S \ T, T \in Q PROVE T \cup {x} \in Q
  <2>1. AllInts(f, T \cup {x})
    <3>1. T \cup {x} \subseteq S /\ AllInts(f, S)
      BY DEF AllInts
    <3> QED
      BY <3>1, AllIntsOfPart
  <2>2. SumFunctionOnSet(f, T \cup {x}) = f[x] + SumFunctionOnSet(f, T)
    BY <2>1, SumAdd
  <2> QED
    BY <1>2, <2>2
<1> HIDE DEF Q
<1>3. S \in Q
  BY <1>1, <1>2, OneMore
<1> QED
  BY <1>3 DEF Q

\* The sum over two disjoint sets.
LEMMA SumUnion ==
    ASSUME NEW f, NEW S, NEW R, AllInts(f, S), AllInts(f, R), S \cap R = {}
    PROVE  SumFunctionOnSet(f, S \cup R) = SumFunctionOnSet(f, S) + SumFunctionOnSet(f, R)
<1> DEFINE Q == {T \in SUBSET S : SumFunctionOnSet(f, T \cup R) = SumFunctionOnSet(f, T) + SumFunctionOnSet(f, R)}
<1>0. AllInts(f, S \cup R) /\ SumFunctionOnSet(f, R) \in Int
  BY FS_Union, SumInt DEF AllInts
<1>1. {} \in Q
  <2>1. {} \cup R = R
    OBVIOUS
  <2> QED
    BY <1>0, <2>1, SumEmpty
<1>2. ASSUME NEW T \in SUBSET S, NEW x \in S \ T, T \in Q PROVE T \cup {x} \in Q
  <2>1. /\ AllInts(f, T \cup {x}) /\ AllInts(f, T) /\ AllInts(f, (T \cup R) \cup {x})
        /\ x \notin T \cup R /\ (T \cup {x}) \cup R = (T \cup R) \cup {x}
    <3>1. T \cup {x} \subseteq S \cup R /\ T \subseteq S \cup R /\ (T \cup R) \cup {x} \subseteq S \cup R
      OBVIOUS
    <3>2. x \notin T \cup R /\ (T \cup {x}) \cup R = (T \cup R) \cup {x}
      OBVIOUS
    <3> QED
      BY <1>0, <3>1, <3>2, AllIntsOfPart
  <2>2. SumFunctionOnSet(f, T \cup {x}) = f[x] + SumFunctionOnSet(f, T)
    BY <2>1, SumAdd
  <2>3. SumFunctionOnSet(f, (T \cup {x}) \cup R) = f[x] + SumFunctionOnSet(f, T \cup R)
    BY <2>1, SumAdd
  <2>4. f[x] \in Int /\ SumFunctionOnSet(f, T) \in Int
    BY <2>1, SumInt DEF AllInts
  <2> QED
    BY <1>0, <1>2, <2>2, <2>3, <2>4
<1> HIDE DEF Q
<1>3. S \in Q
  BY <1>1, <1>2, OneMore DEF AllInts
<1> QED
  BY <1>3 DEF Q

\* A sum over fewer elements is no greater, when none is negative.
LEMMA SumPart ==
    ASSUME NEW f, NEW S, IsFiniteSet(S), \A x \in S : f[x] \in Nat, NEW T, T \subseteq S
    PROVE  SumFunctionOnSet(f, T) <= SumFunctionOnSet(f, S)
<1>1. AllInts(f, T) /\ AllInts(f, S \ T) /\ T \cap (S \ T) = {} /\ T \cup (S \ T) = S
  BY FS_Subset DEF AllInts
<1>2. SumFunctionOnSet(f, S) = SumFunctionOnSet(f, T) + SumFunctionOnSet(f, S \ T)
  BY <1>1, SumUnion
<1>3. SumFunctionOnSet(f, T) \in Int /\ SumFunctionOnSet(f, S \ T) \in Nat
  BY <1>1, SumInt, SumNat DEF AllInts
<1> QED
  BY <1>2, <1>3

\* Group by group: each element is in one group, given by key.
LEMMA SumGroups ==
    ASSUME NEW f, NEW S, AllInts(f, S), NEW key, NEW P, IsFiniteSet(P), \A x \in S : key[x] \in P
    PROVE  SumFunctionOnSet([p \in P |-> SumFunctionOnSet(f, {x \in S : key[x] = p})], P)
             = SumFunctionOnSet(f, S)
<1> DEFINE group(p) == {x \in S : key[x] = p}
           sums == [p \in P |-> SumFunctionOnSet(f, group(p))]
           within(R) == {x \in S : key[x] \in R}
           Q == {R \in SUBSET P : SumFunctionOnSet(sums, R) = SumFunctionOnSet(f, within(R))}
<1>0. \A T \in SUBSET S : AllInts(f, T) /\ SumFunctionOnSet(f, T) \in Int
  BY AllIntsOfPart, SumInt
<1>1. {} \in Q
  <2>1. within({}) = {}
    OBVIOUS
  <2> QED
    BY <2>1, SumEmpty
<1>2. ASSUME NEW R \in SUBSET P, NEW p \in P \ R, R \in Q PROVE R \cup {p} \in Q
  <2>1. within(R \cup {p}) = group(p) \cup within(R) /\ group(p) \cap within(R) = {}
    OBVIOUS
  <2>2. group(p) \in SUBSET S /\ within(R) \in SUBSET S
    OBVIOUS
  <2>3. SumFunctionOnSet(f, within(R \cup {p})) = SumFunctionOnSet(f, group(p)) + SumFunctionOnSet(f, within(R))
    <3> HIDE DEF within, group
    <3>1. AllInts(f, group(p)) /\ AllInts(f, within(R))
      BY <1>0, <2>2
    <3>2. SumFunctionOnSet(f, group(p) \cup within(R)) = SumFunctionOnSet(f, group(p)) + SumFunctionOnSet(f, within(R))
      BY <2>1, <3>1, SumUnion
    <3> QED
      BY <2>1, <3>2
  <2>4. AllInts(sums, R \cup {p})
    <3>1. IsFiniteSet(R \cup {p})
      BY FS_Subset
    <3>2. ASSUME NEW q \in P PROVE sums[q] \in Int
      <4>1. group(q) \in SUBSET S
        OBVIOUS
      <4> HIDE DEF group
      <4> QED
        BY <1>0, <4>1
    <3> HIDE DEF sums
    <3> QED
      BY <3>1, <3>2 DEF AllInts
  <2>5. SumFunctionOnSet(sums, R \cup {p}) = sums[p] + SumFunctionOnSet(sums, R)
    <3> HIDE DEF sums
    <3> QED
      BY <2>4, SumAdd
  <2>6. sums[p] = SumFunctionOnSet(f, group(p)) /\ SumFunctionOnSet(sums, R) = SumFunctionOnSet(f, within(R))
    BY <1>2
  <2> HIDE DEF sums, within, group
  <2>7. SumFunctionOnSet(sums, R \cup {p}) = SumFunctionOnSet(f, within(R \cup {p}))
    BY <2>3, <2>5, <2>6
  <2> QED
    BY <2>7
<1>3. P \in Q
  <2> HIDE DEF Q
  <2> QED
    BY <1>1, <1>2, OneMore
<1>4. within(P) = S
  OBVIOUS
<1> QED
  BY <1>3, <1>4

\* A common factor.
LEMMA SumScaled ==
    ASSUME NEW f, NEW S, AllInts(f, S), NEW c \in Int, NEW g, \A x \in S : g[x] = c * f[x]
    PROVE  SumFunctionOnSet(g, S) = c * SumFunctionOnSet(f, S)
<1> DEFINE Q == {T \in SUBSET S : SumFunctionOnSet(g, T) = c * SumFunctionOnSet(f, T)}
<1>0. AllInts(g, S) /\ IsFiniteSet(S)
  <2>1. \A x \in Int : c * x \in Int
    OBVIOUS
  <2> QED
    BY <2>1 DEF AllInts
<1>1. {} \in Q
  BY SumEmpty
<1>2. ASSUME NEW T \in SUBSET S, NEW x \in S \ T, T \in Q PROVE T \cup {x} \in Q
  <2>1. AllInts(f, T \cup {x}) /\ AllInts(g, T \cup {x}) /\ AllInts(f, T)
    <3>1. T \cup {x} \subseteq S
      OBVIOUS
    <3> QED
      BY <1>0, <3>1, AllIntsOfPart
  <2>2. SumFunctionOnSet(f, T \cup {x}) = f[x] + SumFunctionOnSet(f, T)
    BY <2>1, SumAdd
  <2>3. SumFunctionOnSet(g, T \cup {x}) = g[x] + SumFunctionOnSet(g, T)
    BY <2>1, SumAdd
  <2>4. f[x] \in Int /\ SumFunctionOnSet(f, T) \in Int
    BY <2>1, SumInt DEF AllInts
  <2>5. \A a, b \in Int : c * a + c * b = c * (a + b)
    OBVIOUS
  <2>6. g[x] = c * f[x] /\ SumFunctionOnSet(g, T) = c * SumFunctionOnSet(f, T)
    BY <1>2
  <2> HIDE DEF Q
  <2>7. SumFunctionOnSet(g, T \cup {x}) = c * SumFunctionOnSet(f, T \cup {x})
    BY <2>2, <2>3, <2>4, <2>5, <2>6
  <2> QED
    BY <2>7 DEF Q
<1> HIDE DEF Q
<1>3. S \in Q
  BY <1>0, <1>1, <1>2, OneMore
<1> QED
  BY <1>3 DEF Q

\* The sum of two functions.
LEMMA SumPlus ==
    ASSUME NEW f, NEW g, NEW S, AllInts(f, S), AllInts(g, S), NEW h, \A x \in S : h[x] = f[x] + g[x]
    PROVE  SumFunctionOnSet(h, S) = SumFunctionOnSet(f, S) + SumFunctionOnSet(g, S)
<1> DEFINE Q == {T \in SUBSET S : SumFunctionOnSet(h, T) = SumFunctionOnSet(f, T) + SumFunctionOnSet(g, T)}
<1>0. AllInts(h, S) /\ IsFiniteSet(S)
  BY DEF AllInts
<1>1. {} \in Q
  BY SumEmpty
<1>2. ASSUME NEW T \in SUBSET S, NEW x \in S \ T, T \in Q PROVE T \cup {x} \in Q
  <2>1. AllInts(f, T \cup {x}) /\ AllInts(g, T \cup {x}) /\ AllInts(h, T \cup {x}) /\ AllInts(f, T) /\ AllInts(g, T)
    <3>1. T \cup {x} \subseteq S
      OBVIOUS
    <3> QED
      BY <1>0, <3>1, AllIntsOfPart
  <2>2. /\ SumFunctionOnSet(f, T \cup {x}) = f[x] + SumFunctionOnSet(f, T)
        /\ SumFunctionOnSet(g, T \cup {x}) = g[x] + SumFunctionOnSet(g, T)
        /\ SumFunctionOnSet(h, T \cup {x}) = h[x] + SumFunctionOnSet(h, T)
    BY <2>1, SumAdd
  <2>3. f[x] \in Int /\ g[x] \in Int /\ SumFunctionOnSet(f, T) \in Int /\ SumFunctionOnSet(g, T) \in Int
    BY <2>1, SumInt DEF AllInts
  <2> QED
    BY <1>2, <2>2, <2>3
<1> HIDE DEF Q
<1>3. S \in Q
  BY <1>0, <1>1, <1>2, OneMore
<1> QED
  BY <1>3 DEF Q

\* The same at each element: a multiple of their number.
LEMMA SumConstant ==
    ASSUME NEW S, IsFiniteSet(S), NEW c \in Int, NEW f, \A x \in S : f[x] = c
    PROVE  SumFunctionOnSet(f, S) = c * Cardinality(S)
<1> DEFINE Q == {T \in SUBSET S : SumFunctionOnSet(f, T) = c * Cardinality(T)}
<1>0. AllInts(f, S)
  BY DEF AllInts
<1>1. {} \in Q
  BY SumEmpty, FS_EmptySet
<1>2. ASSUME NEW T \in SUBSET S, NEW x \in S \ T, T \in Q PROVE T \cup {x} \in Q
  <2>1. IsFiniteSet(T) /\ Cardinality(T) \in Nat /\ Cardinality(T \cup {x}) = Cardinality(T) + 1
    BY FS_Subset, FS_AddElement, FS_CardinalityType
  <2>2. SumFunctionOnSet(f, T \cup {x}) = f[x] + SumFunctionOnSet(f, T)
    <3>1. T \cup {x} \subseteq S
      OBVIOUS
    <3> QED
      BY <1>0, <3>1, AllIntsOfPart, SumAdd
  <2>3. \A n \in Nat : c + c * n = c * (n + 1)
    OBVIOUS
  <2>4. f[x] = c /\ SumFunctionOnSet(f, T) = c * Cardinality(T)
    BY <1>2
  <2> HIDE DEF Q
  <2>5. SumFunctionOnSet(f, T \cup {x}) = c * Cardinality(T \cup {x})
    BY <2>1, <2>2, <2>3, <2>4
  <2> QED
    BY <2>5 DEF Q
<1> HIDE DEF Q
<1>3. S \in Q
  BY <1>1, <1>2, OneMore
<1> QED
  BY <1>3 DEF Q

\* What is no larger anywhere has no larger sum.
LEMMA SumMonotone ==
    ASSUME NEW f, NEW g, NEW S, AllInts(f, S), AllInts(g, S), \A x \in S : f[x] <= g[x]
    PROVE  SumFunctionOnSet(f, S) <= SumFunctionOnSet(g, S)
<1> DEFINE more == [x \in S |-> g[x] - f[x]]
<1>1. \A x \in S : more[x] \in Nat /\ g[x] = f[x] + more[x]
  BY DEF AllInts
<1>2. AllInts(more, S) /\ IsFiniteSet(S)
  BY <1>1 DEF AllInts
<1> HIDE DEF more
<1>3. SumFunctionOnSet(g, S) = SumFunctionOnSet(f, S) + SumFunctionOnSet(more, S)
  BY <1>1, <1>2, SumPlus
<1>4. SumFunctionOnSet(f, S) \in Int /\ SumFunctionOnSet(more, S) \in Nat
  BY <1>1, <1>2, SumInt, SumNat
<1> QED
  BY <1>3, <1>4

\* The elements under other names.
LEMMA SumRenamed ==
    ASSUME NEW f, NEW S, AllInts(f, S), NEW name, \A x, y \in S : name[x] = name[y] => x = y,
           NEW g, \A x \in S : g[name[x]] = f[x]
    PROVE  SumFunctionOnSet(g, {name[x] : x \in S}) = SumFunctionOnSet(f, S)
<1> DEFINE named(T) == {name[x] : x \in T}
           Q == {T \in SUBSET S : SumFunctionOnSet(g, named(T)) = SumFunctionOnSet(f, T)}
<1>0. \A T \in SUBSET S : AllInts(f, T) /\ AllInts(g, named(T))
  <2> SUFFICES ASSUME NEW T \in SUBSET S PROVE AllInts(f, T) /\ AllInts(g, named(T))
    OBVIOUS
  <2>1. AllInts(f, T)
    BY AllIntsOfPart
  <2>2. IsFiniteSet(named(T))
    <3>1. IsFiniteSet(T) /\ [x \in T |-> name[x]] \in Surjection(T, named(T))
      BY <2>1 DEF AllInts, Surjection
    <3> HIDE DEF named
    <3> QED
      BY <3>1, FS_Surjection
  <2>3. \A y \in named(T) : g[y] \in Int
    BY <2>1 DEF AllInts
  <2> QED
    BY <2>1, <2>2, <2>3 DEF AllInts
<1>1. {} \in Q
  <2>1. named({}) = {}
    OBVIOUS
  <2> QED
    BY <2>1, SumEmpty
<1>2. ASSUME NEW T \in SUBSET S, NEW x \in S \ T, T \in Q PROVE T \cup {x} \in Q
  <2>1. T \cup {x} \in SUBSET S
    OBVIOUS
  <2>2. named(T \cup {x}) = named(T) \cup {name[x]} /\ name[x] \notin named(T)
    OBVIOUS
  <2>3. SumFunctionOnSet(g, named(T) \cup {name[x]}) = g[name[x]] + SumFunctionOnSet(g, named(T))
    <3> HIDE DEF named
    <3> QED
      BY <1>0, <2>1, <2>2, SumAdd
  <2>4. SumFunctionOnSet(f, T \cup {x}) = f[x] + SumFunctionOnSet(f, T)
    <3> HIDE DEF named
    <3> QED
      BY <1>0, <2>1, SumAdd
  <2>5. g[name[x]] = f[x] /\ SumFunctionOnSet(g, named(T)) = SumFunctionOnSet(f, T)
    BY <1>2
  <2> HIDE DEF named
  <2> QED
    BY <2>1, <2>2, <2>3, <2>4, <2>5
<1> HIDE DEF Q
<1>3. S \in Q
  BY <1>1, <1>2, OneMore DEF AllInts
<1> QED
  BY <1>3 DEF Q

----------------------------------------------------------------------------
(* Least numbers *)

\* Of elements with a number each, one has the least.
LEMMA LeastExists ==
    ASSUME NEW A, A # {}, NEW f, \A x \in A : f[x] \in Nat
    PROVE  \E x \in A : \A y \in A : f[x] <= f[y]
<1> DEFINE T == {f[x] : x \in A}
<1>1. T \subseteq Nat /\ T # {}
  OBVIOUS
<1>2. \E m \in T : \A n \in T : ~(<<n, m>> \in OpToRel(<, Nat))
  <2> HIDE DEF T
  <2> QED
    BY <1>1, NatLessThanWellFounded, WFMin
<1>3. \A m, n \in Nat : <<n, m>> \in OpToRel(<, Nat) <=> n < m
  BY DEF OpToRel
<1>4. PICK m \in T : \A n \in T : ~(n < m)
  BY <1>1, <1>2, <1>3
<1>5. PICK x \in A : m = f[x]
  OBVIOUS
<1>6. \A y \in A : ~(f[y] < f[x])
  BY <1>4, <1>5
<1> QED
  BY <1>6

\* A set of naturals has a least element.
LEMMA LeastNatural ==
    ASSUME NEW T, T \subseteq Nat, T # {}
    PROVE  \E n \in T : \A m \in T : n <= m
<1>1. \A n \in T : [k \in T |-> k][n] = n
  OBVIOUS
<1> QED
  BY <1>1, LeastExists

=============================================================================
