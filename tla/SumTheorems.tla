---------------------------- MODULE SumTheorems ----------------------------
(***************************************************************************)
(* Facts about the sum of a function over a finite set, for every function  *)
(* and every set: the models add up units, hours, amounts and days with     *)
(* SumFunctionOnSet of the community modules.                               *)
(*                                                                          *)
(* The library's induction theorems take an operator.  The proofs below     *)
(* argue by a smallest counterexample instead, which needs none: the        *)
(* subsets of a finite set are well founded, so a set of subsets that       *)
(* violate a fact has a member none of whose proper subsets violates it.    *)
(***************************************************************************)
EXTENDS FiniteSetTheorems, TLAPS

\* A set of subsets of a finite set has a member with no proper subset in it.
LEMMA SmallestSubset ==
  ASSUME NEW S, IsFiniteSet(S), NEW B, B \subseteq SUBSET S, B # {}
  PROVE  \E s \in B : \A t \in SUBSET s : t # s => t \notin B
<1>1. IsWellFoundedOn(StrictSubsetOrdering(S), SUBSET S)
  BY FS_StrictSubsetOrderingWellFounded, FS_FiniteSubsetsOfFinite
<1>2. PICK s \in B : \A t \in B : <<t, s>> \notin StrictSubsetOrdering(S)
  <2> HIDE DEF StrictSubsetOrdering
  <2> QED BY <1>1, WFMin
<1>3. ASSUME NEW t \in SUBSET s, t # s, t \in B PROVE FALSE
  <2>1. t \in SUBSET S /\ s \in SUBSET S OBVIOUS
  <2>2. <<t, s>> \in StrictSubsetOrdering(S) BY <2>1, <1>3 DEF StrictSubsetOrdering
  <2> QED BY <2>2, <1>2, <1>3
<1> QED BY <1>2, <1>3

\* A finite set of naturals has a greatest and a least element, any set of them a least.
LEMMA GreatestNatural ==
  ASSUME NEW T, T \subseteq Nat, T # {}, IsFiniteSet(T)
  PROVE  \E n \in T : \A m \in T : m <= n
<1> DEFINE B == {s \in SUBSET T : s # {} /\ ~ \E n \in s : \A m \in s : m <= n}
<1> SUFFICES ASSUME B # {} PROVE FALSE OBVIOUS
<1>1. PICK s \in B : \A t \in SUBSET s : t # s => t \notin B
  <2> HIDE DEF B
  <2>1. B \subseteq SUBSET T BY DEF B
  <2> QED BY <2>1, SmallestSubset
<1>2. PICK x \in s : TRUE OBVIOUS
<1>3. s \ {x} \in SUBSET s /\ s \ {x} # s /\ s \ {x} \in SUBSET T OBVIOUS
<1>4. CASE s \ {x} = {}
  <2>1. \A m \in s : m <= x BY <1>4
  <2> QED BY <2>1
<1>5. CASE s \ {x} # {}
  <2>1. PICK n \in s \ {x} : \A m \in s \ {x} : m <= n
    <3>1. s \ {x} \notin B BY <1>1, <1>3
    <3> QED BY <3>1, <1>3, <1>5
  <2>2. CASE x <= n
    <3>1. \A m \in s : m <= n BY <2>1, <2>2
    <3> QED BY <3>1
  <2>3. CASE ~ (x <= n)
    <3>1. \A m \in s : m <= x BY <2>1, <2>3
    <3> QED BY <3>1
  <2> QED BY <2>2, <2>3
<1> QED BY <1>4, <1>5

LEMMA LeastOfFinite ==
  ASSUME NEW T, T \subseteq Nat, T # {}, IsFiniteSet(T)
  PROVE  \E n \in T : \A m \in T : n <= m
<1> DEFINE B == {s \in SUBSET T : s # {} /\ ~ \E n \in s : \A m \in s : n <= m}
<1> SUFFICES ASSUME B # {} PROVE FALSE OBVIOUS
<1>1. PICK s \in B : \A t \in SUBSET s : t # s => t \notin B
  <2> HIDE DEF B
  <2>1. B \subseteq SUBSET T BY DEF B
  <2> QED BY <2>1, SmallestSubset
<1>2. PICK x \in s : TRUE OBVIOUS
<1>3. s \ {x} \in SUBSET s /\ s \ {x} # s /\ s \ {x} \in SUBSET T OBVIOUS
<1>4. CASE s \ {x} = {}
  <2>1. \A m \in s : x <= m BY <1>4
  <2> QED BY <2>1
<1>5. CASE s \ {x} # {}
  <2>1. PICK n \in s \ {x} : \A m \in s \ {x} : n <= m
    <3>1. s \ {x} \notin B BY <1>1, <1>3
    <3> QED BY <3>1, <1>3, <1>5
  <2>2. CASE n <= x
    <3>1. \A m \in s : n <= m BY <2>1, <2>2
    <3> QED BY <3>1
  <2>3. CASE ~ (n <= x)
    <3>1. \A m \in s : x <= m BY <2>1, <2>3
    <3> QED BY <3>1
  <2> QED BY <2>2, <2>3
<1> QED BY <1>4, <1>5

LEMMA LeastNatural ==
  ASSUME NEW T, T \subseteq Nat, T # {}
  PROVE  \E n \in T : \A m \in T : n <= m
<1>1. PICK k \in T : TRUE OBVIOUS
<1> DEFINE U == {m \in T : m <= k}
<1>2. k \in Nat OBVIOUS
<1>3. U \in SUBSET Nat /\ U # {} /\ \A m \in U : m <= k
  <2>1. k \in U BY <1>2
  <2> QED BY <2>1
<1>4. IsFiniteSet(U)
  <2> HIDE DEF U
  <2> QED BY <1>2, <1>3, FS_BoundedSetOfNaturals
<1>5. PICK n \in U : \A m \in U : n <= m
  <2> HIDE DEF U
  <2> QED BY <1>3, <1>4, LeastOfFinite
<1> QED BY <1>5

\* What a function makes of a finite set is finite.
LEMMA FiniteImage ==
  ASSUME NEW S, IsFiniteSet(S), NEW i
  PROVE  IsFiniteSet({i[x] : x \in S})
<1> DEFINE T == {i[x] : x \in S}
           h == [x \in S |-> i[x]]
<1>1. h \in Surjection(S, T) BY DEF Surjection
<1> HIDE DEF T, h
<1>2. IsFiniteSet(T) BY <1>1, FS_Surjection
<1> QED BY <1>2 DEF T

-----------------------------------------------------------------------------
(* The recursive function behind the sum is well defined *)

First(s) == CHOOSE x \in s : TRUE
AddsUp(f, S, g) ==
  g = [s \in SUBSET S |-> IF s = {} THEN 0 ELSE f[First(s)] + g[s \ {First(s)}]]

LEMMA SumUnfolds ==
  ASSUME NEW f, NEW S
  PROVE  SumFunctionOnSet(f, S) = (CHOOSE g : AddsUp(f, S, g))[S]
BY DEF SumFunctionOnSet, FoldFunctionOnSet, MapThenFoldSet, AddsUp, First

LEMMA FirstIn == ASSUME NEW s, s # {} PROVE First(s) \in s
BY DEF First

\* Two such functions agree on the sets in the domain of both.
LEMMA AddsUpUnique ==
  ASSUME NEW f, NEW S, IsFiniteSet(S), NEW T \in SUBSET S, NEW g, NEW h,
         AddsUp(f, S, g), AddsUp(f, T, h)
  PROVE  \A s \in SUBSET T : g[s] = h[s]
<1> DEFINE B == {s \in SUBSET T : g[s] # h[s]}
<1> SUFFICES ASSUME B # {} PROVE FALSE OBVIOUS
<1>1. IsFiniteSet(T) BY FS_Subset
<1>2. PICK s \in B : \A t \in SUBSET s : t # s => t \notin B
  <2> HIDE DEF B
  <2>1. B \subseteq SUBSET T BY DEF B
  <2> QED BY <1>1, <2>1, SmallestSubset
<1>3. g[s] = IF s = {} THEN 0 ELSE f[First(s)] + g[s \ {First(s)}]
  BY DEF AddsUp
<1>4. h[s] = IF s = {} THEN 0 ELSE f[First(s)] + h[s \ {First(s)}]
  BY DEF AddsUp
<1>5. s # {} BY <1>3, <1>4
<1>6. First(s) \in s BY <1>5, FirstIn
<1>7. g[s \ {First(s)}] = h[s \ {First(s)}] BY <1>2, <1>6
<1> QED BY <1>3, <1>4, <1>5, <1>7

\* There is one for every finite set.
LEMMA AddsUpExists ==
  ASSUME NEW f, NEW S, IsFiniteSet(S)
  PROVE  \E g : AddsUp(f, S, g)
<1> DEFINE B == {s \in SUBSET S : ~ \E g : AddsUp(f, s, g)}
<1> SUFFICES ASSUME B # {} PROVE FALSE OBVIOUS
<1>1. PICK s \in B : \A t \in SUBSET s : t # s => t \notin B
  <2> HIDE DEF B
  <2>1. B \subseteq SUBSET S BY DEF B
  <2> QED BY <2>1, SmallestSubset
<1> DEFINE G(t) == CHOOSE g : AddsUp(f, t, g)
           h == [t \in SUBSET s |->
                   IF t = {} THEN 0 ELSE f[First(t)] + G(t \ {First(t)})[t \ {First(t)}]]
<1>2. ASSUME NEW t \in SUBSET s, t # s PROVE AddsUp(f, t, G(t))
  <2>1. \E g : AddsUp(f, t, g) BY <1>1, <1>2
  <2> QED BY <2>1
<1> HIDE DEF G
<1>3. ASSUME NEW t \in SUBSET s, t # s PROVE G(t)[t] = h[t]
  <2>1. AddsUp(f, t, G(t)) BY <1>2, <1>3
  <2>2. G(t)[t] = IF t = {} THEN 0 ELSE f[First(t)] + G(t)[t \ {First(t)}]
    BY <2>1 DEF AddsUp
  <2>3. h[t] = IF t = {} THEN 0 ELSE f[First(t)] + G(t \ {First(t)})[t \ {First(t)}]
    OBVIOUS
  <2>4. CASE t = {} BY <2>2, <2>3, <2>4
  <2>5. CASE t # {}
    <3> DEFINE u == t \ {First(t)}
    <3>1. First(t) \in t BY <2>5, FirstIn
    <3>2. u \in SUBSET s /\ u # s /\ u \in SUBSET t BY <3>1
    <3>3. AddsUp(f, u, G(u)) BY <3>2, <1>2
    <3>4. IsFiniteSet(t)
      <4>1. t \in SUBSET S OBVIOUS
      <4> QED BY <4>1, FS_Subset
    <3>5. G(t)[u] = G(u)[u]
      <4> HIDE DEF u, h, B
      <4>1. \A v \in SUBSET u : G(t)[v] = G(u)[v]
        <5> DEFINE a == G(t)
                   b == G(u)
        <5>1. AddsUp(f, t, a) /\ AddsUp(f, u, b) /\ u \in SUBSET t BY <2>1, <3>2, <3>3
        <5> HIDE DEF a, b
        <5>2. \A g, k : AddsUp(f, t, g) /\ AddsUp(f, u, k) => \A v \in SUBSET u : g[v] = k[v]
          <6> TAKE g, k
          <6> HAVE AddsUp(f, t, g) /\ AddsUp(f, u, k)
          <6> QED BY ONLY <3>4, <5>1, AddsUp(f, t, g), AddsUp(f, u, k), AddsUpUnique
        <5>3. \A v \in SUBSET u : a[v] = b[v] BY <5>1, <5>2
        <5> QED BY <5>3 DEF a, b
      <4> QED BY <4>1
    <3> QED BY <2>2, <2>3, <2>5, <3>5
  <2> QED BY <2>4, <2>5
<1>4. ASSUME NEW t \in SUBSET s, t # {} PROVE G(t \ {First(t)})[t \ {First(t)}] = h[t \ {First(t)}]
  <2>1. First(t) \in t BY <1>4, FirstIn
  <2>2. t \ {First(t)} \in SUBSET s /\ t \ {First(t)} # s BY <2>1
  <2> HIDE DEF h
  <2> QED BY <2>2, <1>3
<1>5. h = [t \in SUBSET s |-> IF t = {} THEN 0 ELSE f[First(t)] + h[t \ {First(t)}]]
  <2>1. \A t \in SUBSET s :
          (IF t = {} THEN 0 ELSE f[First(t)] + G(t \ {First(t)})[t \ {First(t)}])
            = (IF t = {} THEN 0 ELSE f[First(t)] + h[t \ {First(t)}])
    <3> HIDE DEF h
    <3> QED BY <1>4
  <2>2. h = [t \in SUBSET s |->
               IF t = {} THEN 0 ELSE f[First(t)] + G(t \ {First(t)})[t \ {First(t)}]]
    OBVIOUS
  <2> HIDE DEF h
  <2> QED BY <2>1, <2>2
<1>6. AddsUp(f, s, h)
  <2> HIDE DEF h
  <2> QED BY <1>5 DEF AddsUp
<1> QED BY <1>1, <1>6

\* What the sum of the community modules computes: nothing for no element, and
\* otherwise the value of one element and the sum over the others.
LEMMA SumRecurs ==
  ASSUME NEW f, NEW S, IsFiniteSet(S)
  PROVE  SumFunctionOnSet(f, S) =
           IF S = {} THEN 0
           ELSE f[First(S)] + SumFunctionOnSet(f, S \ {First(S)})
<1> DEFINE G(t) == CHOOSE g : AddsUp(f, t, g)
<1>1. ASSUME NEW t \in SUBSET S PROVE AddsUp(f, t, G(t))
  <2>1. IsFiniteSet(t) BY FS_Subset
  <2>2. \E g : AddsUp(f, t, g) BY <2>1, AddsUpExists
  <2> QED BY <2>2
<1>2. \A t : SumFunctionOnSet(f, t) = G(t)[t] BY SumUnfolds
<1> HIDE DEF G
<1>3. G(S)[S] = IF S = {} THEN 0 ELSE f[First(S)] + G(S)[S \ {First(S)}]
  <2>1. AddsUp(f, S, G(S)) BY <1>1
  <2> QED BY <2>1 DEF AddsUp
<1>4. G(S)[S \ {First(S)}] = G(S \ {First(S)})[S \ {First(S)}]
  <2> DEFINE u == S \ {First(S)}
  <2>1. u \in SUBSET S OBVIOUS
  <2>2. AddsUp(f, S, G(S)) /\ AddsUp(f, u, G(u)) BY <1>1, <2>1
  <2> HIDE DEF u
  <2>3. \A v \in SUBSET u : G(S)[v] = G(u)[v] BY <2>1, <2>2, AddsUpUnique
  <2>4. G(S)[u] = G(u)[u] BY <2>3
  <2> QED BY <2>4 DEF u
<1> QED BY <1>2, <1>3, <1>4

-----------------------------------------------------------------------------
(* The facts that the other proofs cite *)

LEMMA SumEmpty == ASSUME NEW f PROVE SumFunctionOnSet(f, {}) = 0
<1>1. IsFiniteSet({}) BY FS_EmptySet
<1> QED BY <1>1, SumRecurs

\* The sum of integers is an integer.
LEMMA SumType ==
  ASSUME NEW S, IsFiniteSet(S), NEW f, \A x \in S : f[x] \in Int
  PROVE  SumFunctionOnSet(f, S) \in Int
<1> DEFINE B == {s \in SUBSET S : SumFunctionOnSet(f, s) \notin Int}
<1> SUFFICES ASSUME B # {} PROVE FALSE OBVIOUS
<1>1. PICK s \in B : \A t \in SUBSET s : t # s => t \notin B
  <2> HIDE DEF B
  <2>1. B \subseteq SUBSET S BY DEF B
  <2> QED BY <2>1, SmallestSubset
<1>2. IsFiniteSet(s) BY FS_Subset
<1>3. SumFunctionOnSet(f, s) = IF s = {} THEN 0
        ELSE f[First(s)] + SumFunctionOnSet(f, s \ {First(s)})
  BY <1>2, SumRecurs
<1>4. s # {} BY <1>3
<1>5. First(s) \in s BY <1>4, FirstIn
<1>6. SumFunctionOnSet(f, s \ {First(s)}) \in Int BY <1>1, <1>5
<1> QED BY <1>3, <1>4, <1>5, <1>6

\* The sum depends on the values on the set only.
LEMMA SumSame ==
  ASSUME NEW S, IsFiniteSet(S), NEW f, NEW g, \A x \in S : f[x] = g[x]
  PROVE  SumFunctionOnSet(f, S) = SumFunctionOnSet(g, S)
<1> DEFINE B == {s \in SUBSET S : SumFunctionOnSet(f, s) # SumFunctionOnSet(g, s)}
<1> SUFFICES ASSUME B # {} PROVE FALSE OBVIOUS
<1>1. PICK s \in B : \A t \in SUBSET s : t # s => t \notin B
  <2> HIDE DEF B
  <2>1. B \subseteq SUBSET S BY DEF B
  <2> QED BY <2>1, SmallestSubset
<1>2. IsFiniteSet(s) BY FS_Subset
<1>3. SumFunctionOnSet(f, s) = IF s = {} THEN 0
        ELSE f[First(s)] + SumFunctionOnSet(f, s \ {First(s)})
  BY <1>2, SumRecurs
<1>4. SumFunctionOnSet(g, s) = IF s = {} THEN 0
        ELSE g[First(s)] + SumFunctionOnSet(g, s \ {First(s)})
  BY <1>2, SumRecurs
<1>5. s # {} BY <1>3, <1>4
<1>6. First(s) \in s BY <1>5, FirstIn
<1>7. SumFunctionOnSet(f, s \ {First(s)}) = SumFunctionOnSet(g, s \ {First(s)})
  BY <1>1, <1>6
<1>8. f[First(s)] = g[First(s)] BY <1>6
<1> QED BY <1>3, <1>4, <1>5, <1>7, <1>8

\* Any element may be taken out first.
LEMMA SumRemove ==
  ASSUME NEW S, IsFiniteSet(S), NEW f, \A x \in S : f[x] \in Int, NEW y \in S
  PROVE  SumFunctionOnSet(f, S) = f[y] + SumFunctionOnSet(f, S \ {y})
<1> DEFINE Odd(s) == \E x \in s : SumFunctionOnSet(f, s) # f[x] + SumFunctionOnSet(f, s \ {x})
           B == {s \in SUBSET S : Odd(s)}
<1> SUFFICES ASSUME B # {} PROVE FALSE OBVIOUS
<1>1. PICK s \in B : \A t \in SUBSET s : t # s => t \notin B
  <2> HIDE DEF B
  <2>1. B \subseteq SUBSET S BY DEF B
  <2> QED BY <2>1, SmallestSubset
<1>2. s \in SUBSET S OBVIOUS
<1>3. \A t \in SUBSET s : IsFiniteSet(t) /\ SumFunctionOnSet(f, t) \in Int
  <2> TAKE t \in SUBSET s
  <2>1. t \in SUBSET S OBVIOUS
  <2>2. IsFiniteSet(t) BY <2>1, FS_Subset
  <2> QED BY <2>1, <2>2, SumType
<1>4. PICK x \in s : SumFunctionOnSet(f, s) # f[x] + SumFunctionOnSet(f, s \ {x})
  OBVIOUS
<1>5. PICK z \in s : z = First(s) BY FirstIn
<1>6. SumFunctionOnSet(f, s) = f[z] + SumFunctionOnSet(f, s \ {z})
  BY <1>3, <1>5, SumRecurs
<1>7. x # z BY <1>4, <1>6
<1>8. SumFunctionOnSet(f, s \ {z}) = f[x] + SumFunctionOnSet(f, (s \ {z}) \ {x})
  <2>1. s \ {z} \in SUBSET s /\ s \ {z} # s /\ s \ {z} \in SUBSET S OBVIOUS
  <2>2. ~ Odd(s \ {z}) BY <2>1, <1>1
  <2>3. x \in s \ {z} BY <1>7
  <2> QED BY <2>2, <2>3
<1>9. SumFunctionOnSet(f, s \ {x}) = f[z] + SumFunctionOnSet(f, (s \ {x}) \ {z})
  <2>1. s \ {x} \in SUBSET s /\ s \ {x} # s /\ s \ {x} \in SUBSET S OBVIOUS
  <2>2. ~ Odd(s \ {x}) BY <2>1, <1>1
  <2>3. z \in s \ {x} BY <1>7
  <2> QED BY <2>2, <2>3
<1>10. (s \ {z}) \ {x} = (s \ {x}) \ {z} OBVIOUS
<1>11. f[x] \in Int /\ f[z] \in Int /\ SumFunctionOnSet(f, (s \ {x}) \ {z}) \in Int
  <2>1. (s \ {x}) \ {z} \in SUBSET s OBVIOUS
  <2> QED BY <2>1, <1>2, <1>3
<1>12. SumFunctionOnSet(f, (s \ {z}) \ {x}) = SumFunctionOnSet(f, (s \ {x}) \ {z})
  BY <1>10
<1>13. SumFunctionOnSet(f, s) = f[x] + SumFunctionOnSet(f, s \ {x})
  BY <1>6, <1>8, <1>9, <1>11, <1>12
<1> QED BY <1>4, <1>13

\* One element more.
LEMMA SumAdd ==
  ASSUME NEW S, IsFiniteSet(S), NEW f, NEW y, y \notin S,
         \A x \in S \cup {y} : f[x] \in Int
  PROVE  SumFunctionOnSet(f, S \cup {y}) = f[y] + SumFunctionOnSet(f, S)
<1>1. IsFiniteSet(S \cup {y}) BY FS_AddElement
<1>2. (S \cup {y}) \ {y} = S OBVIOUS
<1>3. y \in S \cup {y} OBVIOUS
<1>4. SumFunctionOnSet(f, S \cup {y}) = f[y] + SumFunctionOnSet(f, (S \cup {y}) \ {y})
  BY <1>1, <1>3, SumRemove
<1> QED BY <1>2, <1>4

\* A set and what is left of it.
LEMMA SumSplit ==
  ASSUME NEW S, IsFiniteSet(S), NEW T \in SUBSET S, NEW f, \A x \in S : f[x] \in Int
  PROVE  SumFunctionOnSet(f, S) = SumFunctionOnSet(f, T) + SumFunctionOnSet(f, S \ T)
<1> DEFINE Odd(s) == SumFunctionOnSet(f, S) # SumFunctionOnSet(f, s) + SumFunctionOnSet(f, S \ s)
           B == {s \in SUBSET S : Odd(s)}
<1> SUFFICES ASSUME B # {} PROVE FALSE OBVIOUS
<1>1. PICK s \in B : \A t \in SUBSET s : t # s => t \notin B
  <2> HIDE DEF B
  <2>1. B \subseteq SUBSET S BY DEF B
  <2> QED BY <2>1, SmallestSubset
<1>2. \A t \in SUBSET S : IsFiniteSet(t) /\ SumFunctionOnSet(f, t) \in Int
  <2> TAKE t \in SUBSET S
  <2>1. IsFiniteSet(t) BY FS_Subset
  <2> QED BY <2>1, SumType
<1>3. s # {}
  <2>1. S \ {} = S /\ SumFunctionOnSet(f, {}) = 0 BY SumEmpty
  <2>2. ~ Odd({}) BY <2>1, <1>2
  <2> QED BY <2>2
<1>4. PICK x \in s : TRUE BY <1>3
<1>5. s \ {x} \in SUBSET s /\ s \ {x} # s /\ s \ {x} \in SUBSET S OBVIOUS
<1>6. ~ Odd(s \ {x}) BY <1>1, <1>5
<1>7. SumFunctionOnSet(f, s) = f[x] + SumFunctionOnSet(f, s \ {x})
  <2>1. s \in SUBSET S OBVIOUS
  <2> QED BY <2>1, <1>2, SumRemove
<1>8. SumFunctionOnSet(f, S \ (s \ {x})) = f[x] + SumFunctionOnSet(f, S \ s)
  <2>1. S \ (s \ {x}) = (S \ s) \cup {x} /\ x \notin S \ s /\ S \ s \in SUBSET S
    OBVIOUS
  <2>2. \A y \in (S \ s) \cup {x} : f[y] \in Int OBVIOUS
  <2>3. SumFunctionOnSet(f, (S \ s) \cup {x}) = f[x] + SumFunctionOnSet(f, S \ s)
    BY <2>1, <2>2, <1>2, SumAdd
  <2> QED BY <2>1, <2>3
<1>9. /\ f[x] \in Int /\ SumFunctionOnSet(f, s \ {x}) \in Int
      /\ SumFunctionOnSet(f, S \ s) \in Int
  BY <1>2, <1>5
<1>10. Odd(s) OBVIOUS
<1> HIDE DEF B
<1> QED BY <1>6, <1>7, <1>8, <1>9, <1>10

\* The sum of naturals is one, at least that of any part.
LEMMA SumNat ==
  ASSUME NEW S, IsFiniteSet(S), NEW f, \A x \in S : f[x] \in Nat
  PROVE  SumFunctionOnSet(f, S) \in Nat
<1> DEFINE B == {s \in SUBSET S : SumFunctionOnSet(f, s) \notin Nat}
<1> SUFFICES ASSUME B # {} PROVE FALSE OBVIOUS
<1>1. PICK s \in B : \A t \in SUBSET s : t # s => t \notin B
  <2> HIDE DEF B
  <2>1. B \subseteq SUBSET S BY DEF B
  <2> QED BY <2>1, SmallestSubset
<1>2. IsFiniteSet(s) BY FS_Subset
<1>3. SumFunctionOnSet(f, s) = IF s = {} THEN 0
        ELSE f[First(s)] + SumFunctionOnSet(f, s \ {First(s)})
  BY <1>2, SumRecurs
<1>4. s # {} BY <1>3
<1>5. First(s) \in s BY <1>4, FirstIn
<1>6. SumFunctionOnSet(f, s \ {First(s)}) \in Nat BY <1>1, <1>5
<1> QED BY <1>3, <1>4, <1>5, <1>6

LEMMA SumMonotone ==
  ASSUME NEW S, IsFiniteSet(S), NEW T \in SUBSET S, NEW f, \A x \in S : f[x] \in Nat
  PROVE  SumFunctionOnSet(f, T) <= SumFunctionOnSet(f, S)
<1>1. IsFiniteSet(T) /\ IsFiniteSet(S \ T) BY FS_Subset
<1>2. SumFunctionOnSet(f, T) \in Nat /\ SumFunctionOnSet(f, S \ T) \in Nat
  BY <1>1, SumNat
<1>3. SumFunctionOnSet(f, S) = SumFunctionOnSet(f, T) + SumFunctionOnSet(f, S \ T)
  BY SumSplit
<1> QED BY <1>2, <1>3

\* Two disjoint sets.
LEMMA SumUnion ==
  ASSUME NEW S, IsFiniteSet(S), NEW T, IsFiniteSet(T), S \cap T = {},
         NEW f, \A x \in S \cup T : f[x] \in Int
  PROVE  SumFunctionOnSet(f, S \cup T) = SumFunctionOnSet(f, S) + SumFunctionOnSet(f, T)
<1>1. IsFiniteSet(S \cup T) BY FS_Union
<1>2. (S \cup T) \ S = T /\ S \in SUBSET (S \cup T) OBVIOUS
<1>3. SumFunctionOnSet(f, S \cup T) =
        SumFunctionOnSet(f, S) + SumFunctionOnSet(f, (S \cup T) \ S)
  BY <1>1, <1>2, SumSplit
<1> QED BY <1>2, <1>3

\* Nothing but zeros.
LEMMA SumZero ==
  ASSUME NEW S, IsFiniteSet(S), NEW f, \A x \in S : f[x] = 0
  PROVE  SumFunctionOnSet(f, S) = 0
<1> DEFINE B == {s \in SUBSET S : SumFunctionOnSet(f, s) # 0}
<1> SUFFICES ASSUME B # {} PROVE FALSE OBVIOUS
<1>1. PICK s \in B : \A t \in SUBSET s : t # s => t \notin B
  <2> HIDE DEF B
  <2>1. B \subseteq SUBSET S BY DEF B
  <2> QED BY <2>1, SmallestSubset
<1>2. IsFiniteSet(s) BY FS_Subset
<1>3. SumFunctionOnSet(f, s) = IF s = {} THEN 0
        ELSE f[First(s)] + SumFunctionOnSet(f, s \ {First(s)})
  BY <1>2, SumRecurs
<1>4. s # {} BY <1>3
<1>5. First(s) \in s BY <1>4, FirstIn
<1>6. SumFunctionOnSet(f, s \ {First(s)}) = 0 BY <1>1, <1>5
<1>7. f[First(s)] = 0 BY <1>5
<1> QED BY <1>3, <1>4, <1>5, <1>6, <1>7

\* Where the values are smaller, so is the sum.
LEMMA SumLess ==
  ASSUME NEW S, IsFiniteSet(S), NEW f, NEW g,
         \A x \in S : f[x] \in Int /\ g[x] \in Int /\ f[x] <= g[x]
  PROVE  SumFunctionOnSet(f, S) <= SumFunctionOnSet(g, S)
<1> DEFINE B == {s \in SUBSET S : ~ (SumFunctionOnSet(f, s) <= SumFunctionOnSet(g, s))}
<1> SUFFICES ASSUME B # {} PROVE FALSE OBVIOUS
<1>1. PICK s \in B : \A t \in SUBSET s : t # s => t \notin B
  <2> HIDE DEF B
  <2>1. B \subseteq SUBSET S BY DEF B
  <2> QED BY <2>1, SmallestSubset
<1>2. \A t \in SUBSET S : /\ IsFiniteSet(t)
                         /\ SumFunctionOnSet(f, t) \in Int /\ SumFunctionOnSet(g, t) \in Int
  <2> TAKE t \in SUBSET S
  <2>1. IsFiniteSet(t) BY FS_Subset
  <2> QED BY <2>1, SumType
<1>3. s # {}
  <2>1. SumFunctionOnSet(f, {}) = 0 /\ SumFunctionOnSet(g, {}) = 0 BY SumEmpty
  <2> QED BY <2>1
<1>4. PICK x \in s : TRUE BY <1>3
<1>5. s \in SUBSET S /\ s \ {x} \in SUBSET S /\ s \ {x} \in SUBSET s /\ s \ {x} # s OBVIOUS
<1>6. SumFunctionOnSet(f, s) = f[x] + SumFunctionOnSet(f, s \ {x}) BY <1>2, <1>5, SumRemove
<1>7. SumFunctionOnSet(g, s) = g[x] + SumFunctionOnSet(g, s \ {x}) BY <1>2, <1>5, SumRemove
<1>8. SumFunctionOnSet(f, s \ {x}) <= SumFunctionOnSet(g, s \ {x}) BY <1>1, <1>5
<1>9. f[x] \in Int /\ g[x] \in Int /\ f[x] <= g[x] OBVIOUS
<1>10. SumFunctionOnSet(f, s) <= SumFunctionOnSet(g, s)
  BY <1>2, <1>5, <1>6, <1>7, <1>8, <1>9
<1> QED BY <1>10

\* The sum of the differences is the difference of the sums.
LEMMA SumDifference ==
  ASSUME NEW S, IsFiniteSet(S), NEW f, NEW g, NEW h,
         \A x \in S : f[x] \in Int /\ g[x] \in Int /\ h[x] = f[x] - g[x]
  PROVE  SumFunctionOnSet(h, S) = SumFunctionOnSet(f, S) - SumFunctionOnSet(g, S)
<1> DEFINE Odd(s) == SumFunctionOnSet(h, s) # SumFunctionOnSet(f, s) - SumFunctionOnSet(g, s)
           B == {s \in SUBSET S : Odd(s)}
<1> SUFFICES ASSUME B # {} PROVE FALSE OBVIOUS
<1>1. PICK s \in B : \A t \in SUBSET s : t # s => t \notin B
  <2> HIDE DEF B
  <2>1. B \subseteq SUBSET S BY DEF B
  <2> QED BY <2>1, SmallestSubset
<1>2. \A t \in SUBSET S : /\ IsFiniteSet(t)
                         /\ SumFunctionOnSet(f, t) \in Int /\ SumFunctionOnSet(g, t) \in Int
  <2> TAKE t \in SUBSET S
  <2>1. IsFiniteSet(t) BY FS_Subset
  <2> QED BY <2>1, SumType
<1>3. s # {}
  <2>1. SumFunctionOnSet(f, {}) = 0 /\ SumFunctionOnSet(g, {}) = 0 /\ SumFunctionOnSet(h, {}) = 0
    BY SumEmpty
  <2>2. ~ Odd({}) BY <2>1
  <2> QED BY <2>2
<1>4. PICK x \in s : TRUE BY <1>3
<1>5. s \in SUBSET S /\ s \ {x} \in SUBSET S /\ s \ {x} \in SUBSET s /\ s \ {x} # s OBVIOUS
<1>6. SumFunctionOnSet(f, s) = f[x] + SumFunctionOnSet(f, s \ {x}) BY <1>2, <1>5, SumRemove
<1>7. SumFunctionOnSet(g, s) = g[x] + SumFunctionOnSet(g, s \ {x}) BY <1>2, <1>5, SumRemove
<1>8. SumFunctionOnSet(h, s) = h[x] + SumFunctionOnSet(h, s \ {x}) BY <1>2, <1>5, SumRemove
<1>9. SumFunctionOnSet(h, s \ {x}) = SumFunctionOnSet(f, s \ {x}) - SumFunctionOnSet(g, s \ {x})
  <2>1. ~ Odd(s \ {x}) BY <1>1, <1>5
  <2> QED BY <2>1
<1>10. f[x] \in Int /\ g[x] \in Int /\ h[x] = f[x] - g[x] OBVIOUS
<1>11. SumFunctionOnSet(h, s) = SumFunctionOnSet(f, s) - SumFunctionOnSet(g, s)
  BY <1>2, <1>5, <1>6, <1>7, <1>8, <1>9, <1>10
<1> QED BY <1>11

\* The elements of T have the values of the elements of S that i pairs them with.
LEMMA SumImage ==
  ASSUME NEW S, IsFiniteSet(S), NEW i, NEW f, NEW g,
         \A x \in S : f[x] \in Int /\ g[i[x]] = f[x],
         \A x, y \in S : i[x] = i[y] => x = y
  PROVE  SumFunctionOnSet(g, {i[x] : x \in S}) = SumFunctionOnSet(f, S)
<1> DEFINE Im(s) == {i[x] : x \in s}
           Odd(s) == SumFunctionOnSet(g, Im(s)) # SumFunctionOnSet(f, s) \/ ~ IsFiniteSet(Im(s))
           B == {s \in SUBSET S : Odd(s)}
<1> SUFFICES ASSUME B # {} PROVE FALSE OBVIOUS
<1>1. PICK s \in B : \A t \in SUBSET s : t # s => t \notin B
  <2> HIDE DEF B
  <2>1. B \subseteq SUBSET S BY DEF B
  <2> QED BY <2>1, SmallestSubset
<1>2. s # {}
  <2>1. Im({}) = {} OBVIOUS
  <2>2. ~ Odd({}) BY <2>1, FS_EmptySet, SumEmpty
  <2> QED BY <2>2
<1>3. PICK x \in s : TRUE BY <1>2
<1>4. s \in SUBSET S /\ s \ {x} \in SUBSET S /\ s \ {x} \in SUBSET s /\ s \ {x} # s OBVIOUS
<1>5. ~ Odd(s \ {x}) BY <1>1, <1>4
<1>6. Im(s) = Im(s \ {x}) \cup {i[x]} OBVIOUS
<1>7. i[x] \notin Im(s \ {x}) BY <1>4
<1>8. \A y \in Im(s \ {x}) \cup {i[x]} : g[y] \in Int BY <1>4
<1>9. IsFiniteSet(Im(s \ {x})) BY <1>5
<1>10. IsFiniteSet(Im(s))
  <2> HIDE DEF Im
  <2>1. IsFiniteSet(Im(s \ {x}) \cup {i[x]}) BY <1>9, FS_AddElement
  <2> QED BY <1>6, <2>1
<1>11. SumFunctionOnSet(g, Im(s)) = g[i[x]] + SumFunctionOnSet(g, Im(s \ {x}))
  <2> HIDE DEF Im
  <2> QED BY <1>6, <1>7, <1>8, <1>9, SumAdd
<1>12. SumFunctionOnSet(f, s) = f[x] + SumFunctionOnSet(f, s \ {x})
  <2>1. IsFiniteSet(s) BY <1>4, FS_Subset
  <2> QED BY <2>1, <1>4, SumRemove
<1>13. g[i[x]] = f[x] BY <1>4
<1>14. SumFunctionOnSet(g, Im(s)) = SumFunctionOnSet(f, s)
  <2> HIDE DEF Im
  <2> QED BY <1>5, <1>11, <1>12, <1>13
<1>15. Odd(s) OBVIOUS
<1> HIDE DEF B, Im
<1> QED BY <1>10, <1>14, <1>15

PartOf(S, p, l) == {x \in S : p[x] = l}

\* Sorted into the parts that p tells apart, the elements add up to the same.
LEMMA SumParts ==
  ASSUME NEW S, IsFiniteSet(S), NEW L, IsFiniteSet(L), NEW f, NEW p, NEW g,
         \A x \in S : f[x] \in Int /\ p[x] \in L,
         \A l \in L : g[l] = SumFunctionOnSet(f, PartOf(S, p, l))
  PROVE  SumFunctionOnSet(f, S) = SumFunctionOnSet(g, L)
<1> DEFINE Part(l) == {x \in S : p[x] \in l}
           Odd(l) == SumFunctionOnSet(f, Part(l)) # SumFunctionOnSet(g, l)
           B == {l \in SUBSET L : Odd(l)}
<1>1. \A l : Part(l) \in SUBSET S /\ IsFiniteSet(Part(l))
  <2> TAKE l
  <2>1. Part(l) \in SUBSET S OBVIOUS
  <2> HIDE DEF Part
  <2> QED BY <2>1, FS_Subset
<1>2. \A y \in L : /\ PartOf(S, p, y) = Part({y})
                  /\ g[y] = SumFunctionOnSet(f, Part({y})) /\ g[y] \in Int
  <2> TAKE y \in L
  <2>1. PartOf(S, p, y) = Part({y}) BY DEF PartOf
  <2>2. Part({y}) \in SUBSET S /\ IsFiniteSet(Part({y})) BY <1>1
  <2>3. SumFunctionOnSet(f, Part({y})) \in Int
    <3>1. \A x \in Part({y}) : f[x] \in Int BY <2>2
    <3> HIDE DEF Part
    <3> QED BY <3>1, <2>2, SumType
  <2> HIDE DEF Part
  <2> QED BY <2>1, <2>3
<1>3. B = {}
  <2> SUFFICES ASSUME B # {} PROVE FALSE OBVIOUS
  <2>1. PICK s \in B : \A t \in SUBSET s : t # s => t \notin B
    <3> HIDE DEF B
    <3>1. B \subseteq SUBSET L BY DEF B
    <3> QED BY <3>1, SmallestSubset
  <2>2. s # {}
    <3>1. Part({}) = {} OBVIOUS
    <3>2. ~ Odd({}) BY <3>1, SumEmpty
    <3> QED BY <3>2
  <2>3. PICK y \in s : TRUE BY <2>2
  <2>4. s \in SUBSET L /\ s \ {y} \in SUBSET L /\ s \ {y} \in SUBSET s /\ s \ {y} # s /\ y \in L
    OBVIOUS
  <2>5. ~ Odd(s \ {y}) BY <2>1, <2>4
  <2>6. Part(s) = Part(s \ {y}) \cup Part({y}) /\ Part(s \ {y}) \cap Part({y}) = {} OBVIOUS
  <2>7. \A x \in Part(s \ {y}) \cup Part({y}) : f[x] \in Int OBVIOUS
  <2>8. SumFunctionOnSet(f, Part(s)) =
          SumFunctionOnSet(f, Part(s \ {y})) + SumFunctionOnSet(f, Part({y}))
    <3> HIDE DEF Part
    <3>1. IsFiniteSet(Part(s \ {y})) /\ IsFiniteSet(Part({y})) BY <1>1
    <3>2. SumFunctionOnSet(f, Part(s \ {y}) \cup Part({y})) =
            SumFunctionOnSet(f, Part(s \ {y})) + SumFunctionOnSet(f, Part({y}))
      BY ZenonT(60), <3>1, <2>6, <2>7, SumUnion
    <3> QED BY <3>2, <2>6
  <2>9. SumFunctionOnSet(g, s) = g[y] + SumFunctionOnSet(g, s \ {y})
    <3>1. IsFiniteSet(s) BY <2>4, FS_Subset
    <3>2. \A l \in s : g[l] \in Int BY <1>2, <2>4
    <3> QED BY <3>1, <3>2, SumRemove
  <2>10. SumFunctionOnSet(g, s \ {y}) \in Int
    <3>1. IsFiniteSet(s \ {y}) BY <2>4, FS_Subset
    <3>2. \A l \in s \ {y} : g[l] \in Int BY <1>2, <2>4
    <3> QED BY <3>1, <3>2, SumType
  <2>11. SumFunctionOnSet(f, Part(s)) = SumFunctionOnSet(g, s)
    <3>1. g[y] = SumFunctionOnSet(f, Part({y})) /\ g[y] \in Int BY <1>2, <2>4
    <3>2. SumFunctionOnSet(f, Part(s \ {y})) = SumFunctionOnSet(g, s \ {y}) BY <2>5
    <3> HIDE DEF Part
    <3> QED BY <3>1, <3>2, <2>8, <2>9, <2>10
  <2> QED BY <2>11
<1>4. ~ Odd(L) BY <1>3
<1>5. Part(L) = S OBVIOUS
<1> QED BY <1>4, <1>5
=============================================================================
