----------------------------- MODULE FiniteSums -----------------------------
(***************************************************************************)
(* Facts about SumFunctionOnSet(f, S), the sum of f[x] over the elements x *)
(* of a finite set S, by which the models add up what a contract owes and  *)
(* what a learner has been granted.  The operator is a recursion over the  *)
(* subsets of S that takes an element of its own choice each time; the     *)
(* lemmas say that the choice does not matter.                             *)
(*                                                                         *)
(* Each lemma is an induction over the subsets of S, in the form of a      *)
(* smallest counterexample: a set of finite sets that is not empty has a   *)
(* member with no proper subset in it.                                     *)
(***************************************************************************)
EXTENDS Integers, FiniteSets, FiniteSetsExt, FiniteSetTheorems, TLAPS

\* A set C of subsets of a finite set, if it has a member, has a smallest one.
LEMMA SmallestSet ==
    ASSUME NEW S, IsFiniteSet(S), NEW C \in SUBSET (SUBSET S), C # {}
    PROVE  \E t \in C : \A u \in SUBSET t : u \in C => u = t
<1>1. IsWellFoundedOn(StrictSubsetOrdering(S), FiniteSubsetsOf(S))
  BY FS_StrictSubsetOrderingWellFounded
<1>2. C \subseteq FiniteSubsetsOf(S)
  BY FS_FiniteSubsetsOfFinite
<1>3. PICK t \in C : \A u \in C : ~ (<<u, t>> \in StrictSubsetOrdering(S))
  BY <1>1, <1>2, WFMin
<1>4. \A u \in SUBSET t : u \in C => u = t
  BY <1>3 DEF StrictSubsetOrdering
<1> QED
  BY <1>4

\* A set of natural numbers, if it has a member, has a smallest one.
LEMMA SmallestNumber ==
    ASSUME NEW B \in SUBSET Nat, B # {}
    PROVE  \E n \in B : \A m \in B : n <= m
<1>1. IsWellFoundedOn(OpToRel(<, Nat), Nat)
  BY NatLessThanWellFounded, Zenon
<1>2. PICK n \in B : \A m \in B : ~ (<<m, n>> \in OpToRel(<, Nat))
  BY <1>1, WFMin, Zenon
<1>3. \A m \in B : ~ (m < n)
  BY <1>2 DEF OpToRel
<1> QED
  BY <1>3

-----------------------------------------------------------------------------
(* The recursion of SumFunctionOnSet has exactly one solution. *)

Pick(s) == CHOOSE x \in s : TRUE

Unfolds(g, f, S) ==
    g = [s \in SUBSET S |-> IF s = {} THEN 0 ELSE f[Pick(s)] + g[s \ {Pick(s)}]]

\* The recursive function inside SumFunctionOnSet is any one that unfolds.
LEMMA SumIsChosen ==
    ASSUME NEW f, NEW S
    PROVE  SumFunctionOnSet(f, S) = (CHOOSE g : Unfolds(g, f, S))[S]
BY DEF SumFunctionOnSet, FoldFunctionOnSet, MapThenFoldSet, Unfolds, Pick

\* The element a step takes is in the set, which is smaller without it.
LEMMA PickIn ==
    ASSUME NEW s, s # {}
    PROVE  /\ Pick(s) \in s
           /\ s \ {Pick(s)} \in SUBSET s
           /\ s \ {Pick(s)} # s
BY DEF Pick

\* Two functions that unfold the same way are the same function.
LEMMA UnfoldsOneWay ==
    ASSUME NEW f, NEW S, IsFiniteSet(S), NEW g, Unfolds(g, f, S),
           NEW h, Unfolds(h, f, S)
    PROVE  g = h
<1> DEFINE C == {s \in SUBSET S : g[s] # h[s]}
<1>0. C \subseteq SUBSET S
  OBVIOUS
<1> HIDE DEF C
<1>1. /\ g = [s \in SUBSET S |-> g[s]]
      /\ h = [s \in SUBSET S |-> h[s]]
  BY DEF Unfolds
<1>2. ASSUME C # {} PROVE FALSE
  <2>1. PICK t \in C : \A u \in SUBSET t : u \in C => u = t
    BY <1>0, <1>2, SmallestSet
  <2> USE DEF C
  <2>2. /\ g[t] = IF t = {} THEN 0 ELSE f[Pick(t)] + g[t \ {Pick(t)}]
        /\ h[t] = IF t = {} THEN 0 ELSE f[Pick(t)] + h[t \ {Pick(t)}]
    BY DEF Unfolds
  <2>3. t # {} /\ t \ {Pick(t)} \notin C
    BY <2>1, <2>2, PickIn
  <2>4. g[t \ {Pick(t)}] = h[t \ {Pick(t)}]
    BY <2>3, PickIn
  <2> QED
    BY <2>2, <2>3, <2>4
<1> QED
  BY <1>1, <1>2 DEF C

\* SumFunctionOnSet is the sum of one element and the sum of the others.
LEMMA SumUnfolds ==
    ASSUME NEW f, NEW S, IsFiniteSet(S)
    PROVE  /\ SumFunctionOnSet(f, {}) = 0
           /\ \A s \in SUBSET S : s # {} =>
                SumFunctionOnSet(f, s) =
                  f[Pick(s)] + SumFunctionOnSet(f, s \ {Pick(s)})
<1> DEFINE Total(s) == SumFunctionOnSet(f, s)
           Step(s) == IF s = {} THEN 0 ELSE f[Pick(s)] + Total(s \ {Pick(s)})
           C == {s \in SUBSET S : Total(s) # Step(s)}
<1>0. C \subseteq SUBSET S
  OBVIOUS
<1> HIDE DEF C
<1> HIDE DEF Total
<1>1. ASSUME C # {} PROVE FALSE
  <2>1. PICK t \in C : \A u \in SUBSET t : u \in C => u = t
    BY <1>0, <1>1, SmallestSet
  <2> USE DEF C
  <2>2. IsFiniteSet(t)
    BY FS_Subset
  <2> DEFINE h == [s \in SUBSET t |-> Step(s)]
  <2>3. ASSUME NEW s \in SUBSET t, s # {}
        PROVE  h[s \ {Pick(s)}] = Total(s \ {Pick(s)})
    <3>1. s \ {Pick(s)} \in SUBSET t /\ s \ {Pick(s)} # t
      BY <2>3, PickIn
    <3>2. s \ {Pick(s)} \in SUBSET S /\ s \ {Pick(s)} \notin C
      BY <2>1, <3>1
    <3> QED
      BY <3>1, <3>2
  <2>4. \A s \in SUBSET t :
          Step(s) = IF s = {} THEN 0 ELSE f[Pick(s)] + h[s \ {Pick(s)}]
    BY <2>3
  <2> HIDE DEF Step
  <2>5. Unfolds(h, f, t)
    BY <2>4 DEF Unfolds
  <2>6. Unfolds(CHOOSE g : Unfolds(g, f, t), f, t)
    BY <2>5
  <2>7. h = CHOOSE g : Unfolds(g, f, t)
    BY <2>2, <2>5, <2>6, UnfoldsOneWay
  <2>8. Total(t) = h[t]
    BY <2>7, SumIsChosen DEF Total
  <2>9. t \in SUBSET t
    OBVIOUS
  <2> QED
    BY <2>1, <2>8, <2>9
<1>2. \A s \in SUBSET S : Total(s) = Step(s)
  BY <1>1 DEF C
<1> QED
  BY <1>2 DEF Total

-----------------------------------------------------------------------------
(* The sum of numbers. *)

\* A sum of integers is an integer.
LEMMA SumType ==
    ASSUME NEW S, IsFiniteSet(S), NEW f \in [S -> Int]
    PROVE  \A s \in SUBSET S : SumFunctionOnSet(f, s) \in Int
<1> DEFINE C == {s \in SUBSET S : SumFunctionOnSet(f, s) \notin Int}
<1>0. C \subseteq SUBSET S
  OBVIOUS
<1> HIDE DEF C
<1>1. ASSUME C # {} PROVE FALSE
  <2>1. PICK t \in C : \A u \in SUBSET t : u \in C => u = t
    BY <1>0, <1>1, SmallestSet
  <2> USE DEF C
  <2>2. CASE t = {}
    BY <2>2, SumUnfolds
  <2>3. CASE t # {}
    <3>1. SumFunctionOnSet(f, t) = f[Pick(t)] + SumFunctionOnSet(f, t \ {Pick(t)})
      BY <2>3, SumUnfolds
    <3>2. SumFunctionOnSet(f, t \ {Pick(t)}) \in Int
      BY <2>1, <2>3, PickIn
    <3>3. f[Pick(t)] \in Int
      BY <2>3, PickIn
    <3> QED
      BY <3>1, <3>2, <3>3
  <2> QED
    BY <2>2, <2>3
<1> QED
  BY <1>1 DEF C

\* A sum of natural numbers is one.
LEMMA SumIsNat ==
    ASSUME NEW S, IsFiniteSet(S), NEW f \in [S -> Nat]
    PROVE  \A s \in SUBSET S : SumFunctionOnSet(f, s) \in Nat
<1> DEFINE C == {s \in SUBSET S : SumFunctionOnSet(f, s) \notin Nat}
<1>0. C \subseteq SUBSET S
  OBVIOUS
<1> HIDE DEF C
<1>1. ASSUME C # {} PROVE FALSE
  <2>1. PICK t \in C : \A u \in SUBSET t : u \in C => u = t
    BY <1>0, <1>1, SmallestSet
  <2> USE DEF C
  <2>2. CASE t = {}
    BY <2>2, SumUnfolds
  <2>3. CASE t # {}
    <3>1. SumFunctionOnSet(f, t) = f[Pick(t)] + SumFunctionOnSet(f, t \ {Pick(t)})
      BY <2>3, SumUnfolds
    <3>2. SumFunctionOnSet(f, t \ {Pick(t)}) \in Nat
      BY <2>1, <2>3, PickIn
    <3>3. f[Pick(t)] \in Nat
      BY <2>3, PickIn
    <3> QED
      BY <3>1, <3>2, <3>3
  <2> QED
    BY <2>2, <2>3
<1> QED
  BY <1>1 DEF C

\* Any element may be taken out first.
LEMMA SumRemove ==
    ASSUME NEW S, IsFiniteSet(S), NEW f \in [S -> Int]
    PROVE  \A s \in SUBSET S : \A x \in s :
             SumFunctionOnSet(f, s) = f[x] + SumFunctionOnSet(f, s \ {x})
<1> DEFINE Total(s) == SumFunctionOnSet(f, s)
           C == {s \in SUBSET S : \E x \in s : Total(s) # f[x] + Total(s \ {x})}
<1>0. C \subseteq SUBSET S
  OBVIOUS
<1> HIDE DEF C
<1>1. \A s \in SUBSET S : s # {} => Total(s) = f[Pick(s)] + Total(s \ {Pick(s)})
  BY SumUnfolds
<1>2. \A s \in SUBSET S : Total(s) \in Int
  BY SumType
<1> HIDE DEF Total
<1>3. ASSUME C # {} PROVE FALSE
  <2>1. PICK t \in C : \A u \in SUBSET t : u \in C => u = t
    BY <1>0, <1>3, SmallestSet
  <2> USE DEF C
  <2>2. PICK x \in t : Total(t) # f[x] + Total(t \ {x})
    OBVIOUS
  <2>3. PICK p \in t : p = Pick(t)
    BY <2>2, PickIn
  <2>4. Total(t) = f[p] + Total(t \ {p})
    BY <1>1, <2>3
  <2>5. x # p
    BY <2>2, <2>4
  <2>6. Total(t \ {p}) = f[x] + Total((t \ {p}) \ {x})
    <3>1. t \ {p} \in SUBSET t /\ t \ {p} \in SUBSET S /\ t \ {p} # t /\ x \in t \ {p}
      BY <2>5
    <3> QED
      BY <2>1, <3>1
  <2>7. Total(t \ {x}) = f[p] + Total((t \ {x}) \ {p})
    <3>1. t \ {x} \in SUBSET t /\ t \ {x} \in SUBSET S /\ t \ {x} # t /\ p \in t \ {x}
      BY <2>5
    <3> QED
      BY <2>1, <3>1
  <2>8. (t \ {p}) \ {x} = (t \ {x}) \ {p}
    OBVIOUS
  <2>9. /\ f[x] \in Int /\ f[p] \in Int
        /\ Total((t \ {x}) \ {p}) \in Int
    BY <1>2
  <2>10. Total(t \ {p}) = f[x] + Total((t \ {x}) \ {p})
    BY <2>6, <2>8
  <2> HIDE DEF C
  <2>11. Total(t) = f[x] + Total(t \ {x})
    BY <2>4, <2>7, <2>9, <2>10
  <2> QED
    BY <2>2, <2>11
<1> QED
  BY <1>3 DEF Total, C

\* Only the values at the elements of the set count.
LEMMA SumSame ==
    ASSUME NEW S, IsFiniteSet(S), NEW f, NEW g,
           \A x \in S : f[x] = g[x]
    PROVE  SumFunctionOnSet(f, S) = SumFunctionOnSet(g, S)
<1> DEFINE C == {s \in SUBSET S : SumFunctionOnSet(f, s) # SumFunctionOnSet(g, s)}
<1>0. C \subseteq SUBSET S
  OBVIOUS
<1> HIDE DEF C
<1>1. ASSUME C # {} PROVE FALSE
  <2>1. PICK t \in C : \A u \in SUBSET t : u \in C => u = t
    BY <1>0, <1>1, SmallestSet
  <2> USE DEF C
  <2>2. t # {}
    BY <2>1, SumUnfolds
  <2>3. /\ SumFunctionOnSet(f, t) = f[Pick(t)] + SumFunctionOnSet(f, t \ {Pick(t)})
        /\ SumFunctionOnSet(g, t) = g[Pick(t)] + SumFunctionOnSet(g, t \ {Pick(t)})
    BY <2>2, SumUnfolds
  <2>4. SumFunctionOnSet(f, t \ {Pick(t)}) = SumFunctionOnSet(g, t \ {Pick(t)})
    BY <2>1, <2>2, PickIn
  <2>5. f[Pick(t)] = g[Pick(t)]
    BY <2>2, PickIn
  <2> QED
    BY <2>3, <2>4, <2>5
<1>2. S \in SUBSET S
  OBVIOUS
<1> QED
  BY <1>1, <1>2 DEF C

\* A sum of zeros is zero.
LEMMA SumOfZeros ==
    ASSUME NEW S, IsFiniteSet(S), NEW f, \A x \in S : f[x] = 0
    PROVE  SumFunctionOnSet(f, S) = 0
<1> DEFINE C == {s \in SUBSET S : SumFunctionOnSet(f, s) # 0}
<1>0. C \subseteq SUBSET S
  OBVIOUS
<1> HIDE DEF C
<1>1. ASSUME C # {} PROVE FALSE
  <2>1. PICK t \in C : \A u \in SUBSET t : u \in C => u = t
    BY <1>0, <1>1, SmallestSet
  <2> USE DEF C
  <2>2. t # {}
    BY SumUnfolds
  <2>3. SumFunctionOnSet(f, t) = f[Pick(t)] + SumFunctionOnSet(f, t \ {Pick(t)})
    BY <2>2, SumUnfolds
  <2>4. SumFunctionOnSet(f, t \ {Pick(t)}) = 0 /\ f[Pick(t)] = 0
    BY <2>1, <2>2, PickIn
  <2> QED
    BY <2>3, <2>4
<1>2. S \in SUBSET S
  OBVIOUS
<1> QED
  BY <1>1, <1>2 DEF C

\* Changing the value at one element changes the sum by as much.
LEMMA SumChangeOne ==
    ASSUME NEW S, IsFiniteSet(S), NEW f \in [S -> Int], NEW g \in [S -> Int],
           NEW x \in S, \A y \in S : y # x => f[y] = g[y]
    PROVE  SumFunctionOnSet(g, S) = SumFunctionOnSet(f, S) - f[x] + g[x]
<1>1. S \in SUBSET S /\ S \ {x} \in SUBSET S
  OBVIOUS
<1>2. /\ SumFunctionOnSet(f, S) = f[x] + SumFunctionOnSet(f, S \ {x})
      /\ SumFunctionOnSet(g, S) = g[x] + SumFunctionOnSet(g, S \ {x})
  BY <1>1, SumRemove
<1>3. SumFunctionOnSet(f, S \ {x}) = SumFunctionOnSet(g, S \ {x})
  <2>1. IsFiniteSet(S \ {x})
    BY FS_RemoveElement
  <2>2. \A y \in S \ {x} : f[y] = g[y]
    OBVIOUS
  <2> QED
    BY <2>1, <2>2, SumSame
<1>4. /\ SumFunctionOnSet(f, S \ {x}) \in Int
      /\ f[x] \in Int /\ g[x] \in Int
  BY <1>1, SumType
<1> QED
  BY <1>2, <1>3, <1>4

\* Adding v at each of the n elements of a part of the set adds n * v.
LEMMA SumAddBlock ==
    ASSUME NEW S, IsFiniteSet(S), NEW f \in [S -> Int], NEW g \in [S -> Int],
           NEW T \in SUBSET S, NEW v \in Int,
           \A y \in S : g[y] = IF y \in T THEN f[y] + v ELSE f[y]
    PROVE  SumFunctionOnSet(g, S) = SumFunctionOnSet(f, S) + Cardinality(T) * v
<1> DEFINE F(s) == SumFunctionOnSet(f, s)
           G(s) == SumFunctionOnSet(g, s)
           N(s) == Cardinality(T \cap s)
           C == {s \in SUBSET S : G(s) # F(s) + N(s) * v}
<1>0. C \subseteq SUBSET S
  OBVIOUS
<1> HIDE DEF C
<1>1. /\ \A s \in SUBSET S : s # {} => F(s) = f[Pick(s)] + F(s \ {Pick(s)})
      /\ \A s \in SUBSET S : s # {} => G(s) = g[Pick(s)] + G(s \ {Pick(s)})
      /\ F({}) = 0 /\ G({}) = 0
  BY SumUnfolds
<1>2. \A s \in SUBSET S : F(s) \in Int /\ G(s) \in Int
  BY SumType
<1>3. /\ N({}) = 0
      /\ \A s \in SUBSET S : N(s) \in Nat
      /\ \A s \in SUBSET S : \A x \in s :
           N(s) = IF x \in T THEN N(s \ {x}) + 1 ELSE N(s \ {x})
  <2>1. N({}) = 0
    <3>1. T \cap {} = {}
      OBVIOUS
    <3> QED
      BY <3>1, FS_EmptySet
  <2>2. ASSUME NEW s \in SUBSET S
        PROVE  IsFiniteSet(T \cap s) /\ N(s) \in Nat
    BY FS_Subset, FS_CardinalityType
  <2>3. ASSUME NEW s \in SUBSET S, NEW x \in s
        PROVE  N(s) = IF x \in T THEN N(s \ {x}) + 1 ELSE N(s \ {x})
    <3>1. IsFiniteSet(T \cap s) /\ N(s) \in Nat /\ N(s \ {x}) \in Nat
      BY <2>2
    <3>2. T \cap (s \ {x}) = (T \cap s) \ {x}
      OBVIOUS
    <3>3. N(s \ {x}) = IF x \in T THEN N(s) - 1 ELSE N(s)
      <4> DEFINE U == T \cap s
      <4>1. IsFiniteSet(U) /\ (x \in U <=> x \in T)
        BY <3>1
      <4> HIDE DEF U
      <4>2. Cardinality(U \ {x}) = IF x \in T THEN Cardinality(U) - 1 ELSE Cardinality(U)
        BY <4>1, FS_RemoveElement
      <4> QED
        BY <3>2, <4>2 DEF U
    <3> QED
      BY <3>1, <3>3
  <2> QED
    BY <2>1, <2>2, <2>3
<1> HIDE DEF F, G, N
<1>4. ASSUME C # {} PROVE FALSE
  <2>1. PICK t \in C : \A u \in SUBSET t : u \in C => u = t
    BY <1>0, <1>4, SmallestSet
  <2> USE DEF C
  <2>2. CASE t = {}
    BY <1>1, <1>3, <2>1, <2>2
  <2>3. CASE t # {}
    <3>1. PICK p \in t : p = Pick(t)
      BY <2>3, PickIn
    <3>2. PICK u \in SUBSET S : u = t \ {p}
      OBVIOUS
    <3>3. G(u) = F(u) + N(u) * v
      BY <2>1, <3>2
    <3>4. F(t) = f[p] + F(u) /\ G(t) = g[p] + G(u)
      BY <1>1, <2>3, <3>1, <3>2
    <3>5. N(t) = IF p \in T THEN N(u) + 1 ELSE N(u)
      BY <1>3, <3>2
    <3>6. f[p] \in Int /\ g[p] \in Int /\ F(u) \in Int /\ G(u) \in Int /\ N(u) \in Nat
      BY <1>2, <1>3
    <3>7. g[p] = IF p \in T THEN f[p] + v ELSE f[p]
      OBVIOUS
    <3>8. (N(u) + 1) * v = N(u) * v + v
      BY <3>6
    <3>9. N(u) * v \in Int
      BY <3>6
    <3>10. G(t) # F(t) + N(t) * v
      OBVIOUS
    <3>11. CASE p \in T
      <4>1. N(t) * v = N(u) * v + v
        BY <3>5, <3>8, <3>11
      <4> QED
        BY <3>3, <3>4, <3>6, <3>7, <3>9, <3>10, <3>11, <4>1
    <3>12. CASE p \notin T
      <4>1. N(t) * v = N(u) * v
        BY <3>5, <3>12
      <4> QED
        BY <3>3, <3>4, <3>6, <3>7, <3>9, <3>10, <3>12, <4>1
    <3> QED
      BY <3>11, <3>12
  <2> QED
    BY <2>2, <2>3
<1>5. S \in SUBSET S /\ T \cap S = T
  OBVIOUS
<1> QED
  BY <1>4, <1>5 DEF F, G, N, C
=============================================================================
