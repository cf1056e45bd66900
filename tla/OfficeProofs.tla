---------------------------- MODULE OfficeProofs ----------------------------
(***************************************************************************)
(* What is proved of CompOff and Assets, for any claims, leave requests,     *)
(* policies, dates and calls, and any assets, categories and transactions.   *)
(***************************************************************************)
EXTENDS CompOff, Assets, SequenceTheorems, SumTheorems

-----------------------------------------------------------------------------
(* Units of compensatory leave *)

Units == [a \in Allocation |-> a.units]

\* The rows of one status of some credits, requests and dates.
Of(rows, s, C, R, X) ==
  {a \in rows : a.status = s /\ a.credit \in C /\ a.request \in R /\ a.date \in X}

LEMMA UnitsAre ==
  ASSUME NEW S \in SUBSET Allocation, IsFiniteSet(S)
  PROVE  UnitsOf(S) = SumFunctionOnSet(Units, S) /\ UnitsOf(S) \in Nat
<1> DEFINE f == [a \in S |-> a.units]
<1>1. UnitsOf(S) = SumFunctionOnSet(f, S) BY DEF UnitsOf, SumOf
<1>2. \A a \in S : f[a] = Units[a] /\ Units[a] \in Nat BY DEF Units, Allocation
<1> HIDE DEF f
<1>3. SumFunctionOnSet(f, S) = SumFunctionOnSet(Units, S) BY <1>2, SumSame
<1>4. SumFunctionOnSet(Units, S) \in Nat BY <1>2, SumNat
<1> QED BY <1>1, <1>3, <1>4

LEMMA UnitsTogether ==
  ASSUME NEW S \in SUBSET Allocation, IsFiniteSet(S),
         NEW T \in SUBSET Allocation, IsFiniteSet(T), S \cap T = {}
  PROVE  UnitsOf(S \cup T) = UnitsOf(S) + UnitsOf(T)
<1>1. S \cup T \in SUBSET Allocation /\ IsFiniteSet(S \cup T) BY FS_Union
<1>2. \A a \in S \cup T : Units[a] \in Int BY DEF Units, Allocation
<1>3. SumFunctionOnSet(Units, S \cup T) = SumFunctionOnSet(Units, S) + SumFunctionOnSet(Units, T)
  BY <1>2, SumUnion
<1> QED BY <1>1, <1>3, UnitsAre

LEMMA UnitsLeft ==
  ASSUME NEW S \in SUBSET Allocation, IsFiniteSet(S), NEW T \in SUBSET S
  PROVE  UnitsOf(S \ T) = UnitsOf(S) - UnitsOf(T) /\ UnitsOf(T) <= UnitsOf(S)
<1>1. T \in SUBSET Allocation /\ IsFiniteSet(T) BY FS_Subset
<1>2. S \ T \in SUBSET Allocation /\ IsFiniteSet(S \ T) BY FS_Difference
<1>3. T \cup (S \ T) = S /\ T \cap (S \ T) = {} OBVIOUS
<1>4. UnitsOf(T \cup (S \ T)) = UnitsOf(T) + UnitsOf(S \ T) BY <1>1, <1>2, <1>3, UnitsTogether
<1>5. UnitsOf(S) \in Nat /\ UnitsOf(T) \in Nat /\ UnitsOf(S \ T) \in Nat
  BY <1>1, <1>2, UnitsAre
<1>6. UnitsOf(S) = UnitsOf(T) + UnitsOf(S \ T) BY <1>3, <1>4
<1> QED BY <1>5, <1>6

LEMMA UnitsNone == UnitsOf({}) = 0
<1>1. {} \in SUBSET Allocation /\ IsFiniteSet({}) BY FS_EmptySet
<1> QED BY <1>1, UnitsAre, SumEmpty

\* Rows with units of their own: if there are any, they hold some.
LEMMA UnitsSome ==
  ASSUME NEW S \in SUBSET Allocation, IsFiniteSet(S), NEW a \in S, a.units > 0
  PROVE  UnitsOf(S) > 0
<1>1. \A b \in S : Units[b] \in Nat BY DEF Units, Allocation
<1>2. SumFunctionOnSet(Units, S) = Units[a] + SumFunctionOnSet(Units, S \ {a})
  BY <1>1, SumRemove
<1>3. IsFiniteSet(S \ {a}) /\ \A b \in S \ {a} : Units[b] \in Nat BY <1>1, FS_RemoveElement
<1>4. SumFunctionOnSet(Units, S \ {a}) \in Nat BY <1>3, SumNat
<1>5. Units[a] = a.units /\ Units[a] \in Nat BY <1>1 DEF Units
<1> QED BY <1>2, <1>4, <1>5, UnitsAre

LEMMA UnitsMoved ==
  ASSUME NEW S \in SUBSET Allocation, IsFiniteSet(S), NEW i,
         \A a \in S : i[a] \in Allocation /\ i[a].units = a.units,
         \A a, b \in S : i[a] = i[b] => a = b
  PROVE  /\ {i[a] : a \in S} \in SUBSET Allocation /\ IsFiniteSet({i[a] : a \in S})
         /\ UnitsOf({i[a] : a \in S}) = UnitsOf(S)
<1>1. {i[a] : a \in S} \in SUBSET Allocation OBVIOUS
<1>2. IsFiniteSet({i[a] : a \in S}) BY FiniteImage
<1>3. \A a \in S : Units[a] \in Int /\ Units[i[a]] = Units[a] BY DEF Units, Allocation
<1>4. SumFunctionOnSet(Units, {i[a] : a \in S}) = SumFunctionOnSet(Units, S)
  BY <1>3, SumImage
<1> QED BY <1>1, <1>2, <1>4, UnitsAre

\* The rows made of a plan: one per key with something taken.
LEMMA UnitsPlanned ==
  ASSUME NEW K, IsFiniteSet(K), NEW w \in [K -> Nat], NEW i \in [K -> Allocation],
         \A k \in K : i[k].units = w[k],
         \A k, l \in K : i[k] = i[l] => k = l
  PROVE  UnitsOf({i[k] : k \in {l \in K : w[l] > 0}}) = SumFunctionOnSet(w, K)
<1> DEFINE P == {l \in K : w[l] > 0}
<1>1. P \in SUBSET K /\ \A k \in K \ P : w[k] = 0 OBVIOUS
<1>2. \A k \in P : k \in K OBVIOUS
<1> HIDE DEF P
<1>3. IsFiniteSet(P) /\ IsFiniteSet(K \ P) BY <1>1, FS_Subset, FS_Difference
<1>4. \A k \in P : w[k] \in Int /\ Units[i[k]] = w[k] BY <1>2 DEF Units
<1>5. \A k, l \in P : i[k] = i[l] => k = l BY <1>2
<1>6. SumFunctionOnSet(Units, {i[k] : k \in P}) = SumFunctionOnSet(w, P)
  BY SMTT(60), <1>3, <1>4, <1>5, SumImage
<1>7. SumFunctionOnSet(w, K) = SumFunctionOnSet(w, P) + SumFunctionOnSet(w, K \ P)
  BY <1>1, SumSplit
<1>8. SumFunctionOnSet(w, K \ P) = 0 BY <1>1, <1>3, SumZero
<1>9. SumFunctionOnSet(w, P) \in Nat BY <1>2, <1>3, SumNat
<1>10. {i[k] : k \in P} \in SUBSET Allocation /\ IsFiniteSet({i[k] : k \in P})
  BY <1>2, <1>3, FiniteImage
<1>11. UnitsOf({i[k] : k \in P}) = SumFunctionOnSet(Units, {i[k] : k \in P})
  BY <1>10, UnitsAre
<1>12. UnitsOf({i[k] : k \in P}) = SumFunctionOnSet(w, K) BY <1>6, <1>7, <1>8, <1>9, <1>11
<1> QED BY <1>12 DEF P

\* Rows added, rows that become used, rows that are released.
LEMMA OfFinite ==
  ASSUME NEW A \in SUBSET Allocation, IsFiniteSet(A), NEW s, NEW C, NEW R, NEW X
  PROVE  /\ Of(A, s, C, R, X) \in SUBSET A /\ Of(A, s, C, R, X) \in SUBSET Allocation
         /\ IsFiniteSet(Of(A, s, C, R, X)) /\ UnitsOf(Of(A, s, C, R, X)) \in Nat
<1>1. Of(A, s, C, R, X) \in SUBSET A BY DEF Of
<1>2. IsFiniteSet(Of(A, s, C, R, X)) BY <1>1, FS_Subset
<1> QED BY <1>1, <1>2, UnitsAre

LEMMA OfAdded ==
  ASSUME NEW A \in SUBSET Allocation, IsFiniteSet(A),
         NEW N \in SUBSET Allocation, IsFiniteSet(N), A \cap N = {},
         NEW s, NEW C, NEW R, NEW X
  PROVE  UnitsOf(Of(A \cup N, s, C, R, X)) = UnitsOf(Of(A, s, C, R, X)) + UnitsOf(Of(N, s, C, R, X))
<1>1. Of(A \cup N, s, C, R, X) = Of(A, s, C, R, X) \cup Of(N, s, C, R, X) BY DEF Of
<1>2. Of(A, s, C, R, X) \cap Of(N, s, C, R, X) = {} BY DEF Of
<1>3. /\ Of(A, s, C, R, X) \in SUBSET Allocation /\ IsFiniteSet(Of(A, s, C, R, X))
      /\ Of(N, s, C, R, X) \in SUBSET Allocation /\ IsFiniteSet(Of(N, s, C, R, X))
  BY OfFinite
<1>4. UnitsOf(Of(A, s, C, R, X) \cup Of(N, s, C, R, X))
        = UnitsOf(Of(A, s, C, R, X)) + UnitsOf(Of(N, s, C, R, X))
  BY <1>2, <1>3, UnitsTogether
<1> QED BY <1>1, <1>4

LEMMA OfReleased ==
  ASSUME NEW A \in SUBSET Allocation, IsFiniteSet(A), NEW S \in SUBSET A,
         NEW M \in SUBSET Allocation, IsFiniteSet(M),
         \A m \in M : m.status \in {"RELEASED", "EXPIRED"},
         NEW s \in {"RESERVED", "USED"}, NEW C, NEW R, NEW X
  PROVE  UnitsOf(Of((A \ S) \cup M, s, C, R, X)) = UnitsOf(Of(A, s, C, R, X)) - UnitsOf(Of(S, s, C, R, X))
<1>1. Of((A \ S) \cup M, s, C, R, X) = Of(A, s, C, R, X) \ Of(S, s, C, R, X) BY DEF Of
<1>2. Of(S, s, C, R, X) \in SUBSET Of(A, s, C, R, X) BY DEF Of
<1>3. Of(A, s, C, R, X) \in SUBSET Allocation /\ IsFiniteSet(Of(A, s, C, R, X)) BY OfFinite
<1>4. UnitsOf(Of(A, s, C, R, X) \ Of(S, s, C, R, X))
        = UnitsOf(Of(A, s, C, R, X)) - UnitsOf(Of(S, s, C, R, X))
  BY <1>2, <1>3, UnitsLeft
<1> QED BY <1>1, <1>4

\* i takes every reserved row of S to the same row in M, used.
BecomeUsed(S, M, i) ==
  /\ \A a \in S : a.status = "RESERVED"
  /\ \A m \in M : \E a \in S : m = i[a]
  /\ \A a \in S : /\ i[a] \in M /\ i[a] \in Allocation /\ i[a].status = "USED"
                  /\ i[a].units = a.units /\ i[a].credit = a.credit
                  /\ i[a].request = a.request /\ i[a].date = a.date

LEMMA OfUsed ==
  ASSUME NEW A \in SUBSET Allocation, IsFiniteSet(A), NEW S \in SUBSET A,
         NEW M, NEW i, BecomeUsed(S, M, i), M \cap A = {},
         NEW C, NEW R, NEW X
  PROVE  /\ M \in SUBSET Allocation /\ IsFiniteSet(M)
         /\ UnitsOf(Of((A \ S) \cup M, "RESERVED", C, R, X))
              = UnitsOf(Of(A, "RESERVED", C, R, X)) - UnitsOf(Of(S, "RESERVED", C, R, X))
         /\ UnitsOf(Of((A \ S) \cup M, "USED", C, R, X))
              = UnitsOf(Of(A, "USED", C, R, X)) + UnitsOf(Of(S, "RESERVED", C, R, X))
<1>1. \A a \in S : /\ i[a] \in Allocation /\ i[a].status = "USED"
                   /\ i[a].units = a.units /\ i[a].credit = a.credit
                   /\ i[a].request = a.request /\ i[a].date = a.date
  BY DEF BecomeUsed
<1>3. M = {i[a] : a \in S} /\ \A a \in S : a.status = "RESERVED" BY DEF BecomeUsed
<1>2. \A a, b \in S : i[a] = i[b] => a = b
  <2> SUFFICES ASSUME NEW a \in S, NEW b \in S, i[a] = i[b] PROVE a = b OBVIOUS
  <2>1. /\ a.units = b.units /\ a.credit = b.credit /\ a.request = b.request
        /\ a.date = b.date /\ a.status = b.status
    <3>1. /\ a.units = i[a].units /\ a.credit = i[a].credit /\ a.request = i[a].request
          /\ a.date = i[a].date
      BY <1>1
    <3>2. /\ b.units = i[b].units /\ b.credit = i[b].credit /\ b.request = i[b].request
          /\ b.date = i[b].date
      BY <1>1
    <3> QED BY <3>1, <3>2, <1>3
  <2>2. a \in Allocation /\ b \in Allocation OBVIOUS
  <2> QED BY <2>1, <2>2 DEF Allocation
<1>4. IsFiniteSet(S) /\ S \in SUBSET Allocation BY FS_Subset
<1>5. M \in SUBSET Allocation /\ IsFiniteSet(M)
  <2>1. IsFiniteSet({i[a] : a \in S}) BY <1>4, FiniteImage
  <2>2. {i[a] : a \in S} \in SUBSET Allocation BY <1>1
  <2> QED BY <2>1, <2>2, <1>3
<1>6. Of((A \ S) \cup M, "RESERVED", C, R, X) = Of(A, "RESERVED", C, R, X) \ Of(S, "RESERVED", C, R, X)
  <2>1. \A m \in M : m.status = "USED" BY <1>1, <1>3
  <2> QED BY <2>1 DEF Of
<1>7. Of((A \ S) \cup M, "USED", C, R, X) = Of(A, "USED", C, R, X) \cup Of(M, "USED", C, R, X)
  BY <1>3 DEF Of
<1>8. Of(A, "USED", C, R, X) \cap Of(M, "USED", C, R, X) = {} BY DEF Of
<1>9. UnitsOf(Of(M, "USED", C, R, X)) = UnitsOf(Of(S, "RESERVED", C, R, X))
  <2> DEFINE T == Of(S, "RESERVED", C, R, X)
  <2>1. T \in SUBSET S BY DEF Of
  <2>2. Of(M, "USED", C, R, X) = {i[a] : a \in T}
    <3>1. ASSUME NEW a \in S PROVE i[a] \in Of(M, "USED", C, R, X) <=> a \in T
      BY <1>1, <1>3 DEF Of
    <3>2. \A m \in Of(M, "USED", C, R, X) : \E a \in S : m = i[a] BY <1>3 DEF Of
    <3> HIDE DEF T
    <3> QED BY <3>1, <3>2, <2>1
  <2> HIDE DEF T
  <2>3. T \in SUBSET Allocation /\ IsFiniteSet(T) BY <2>1, <1>4, FS_Subset
  <2>4. UnitsOf({i[a] : a \in T}) = UnitsOf(T)
    <3>1. \A a \in T : i[a] \in Allocation /\ i[a].units = a.units BY <2>1, <1>1
    <3>2. \A a, b \in T : i[a] = i[b] => a = b BY <2>1, <1>2
    <3>3. T \in SUBSET Allocation BY <2>3
    <3>4. IsFiniteSet(T) BY <2>3
    <3> QED BY ONLY <3>1, <3>2, <3>3, <3>4, UnitsMoved
  <2> QED BY <2>2, <2>4 DEF T
<1>10. /\ Of(A, "USED", C, R, X) \in SUBSET Allocation /\ IsFiniteSet(Of(A, "USED", C, R, X))
       /\ Of(M, "USED", C, R, X) \in SUBSET Allocation /\ IsFiniteSet(Of(M, "USED", C, R, X))
       /\ Of(A, "RESERVED", C, R, X) \in SUBSET Allocation
       /\ IsFiniteSet(Of(A, "RESERVED", C, R, X))
  BY <1>5, OfFinite
<1>11. UnitsOf(Of(A, "USED", C, R, X) \cup Of(M, "USED", C, R, X))
         = UnitsOf(Of(A, "USED", C, R, X)) + UnitsOf(Of(M, "USED", C, R, X))
  BY <1>8, <1>10, UnitsTogether
<1>12. Of(S, "RESERVED", C, R, X) \in SUBSET Of(A, "RESERVED", C, R, X) BY DEF Of
<1>13. UnitsOf(Of(A, "RESERVED", C, R, X) \ Of(S, "RESERVED", C, R, X))
         = UnitsOf(Of(A, "RESERVED", C, R, X)) - UnitsOf(Of(S, "RESERVED", C, R, X))
  BY <1>10, <1>12, UnitsLeft
<1>14. UnitsOf(Of((A \ S) \cup M, "USED", C, R, X))
         = UnitsOf(Of(A, "USED", C, R, X)) + UnitsOf(Of(S, "RESERVED", C, R, X))
  BY <1>7, <1>9, <1>11
<1>15. UnitsOf(Of((A \ S) \cup M, "RESERVED", C, R, X))
         = UnitsOf(Of(A, "RESERVED", C, R, X)) - UnitsOf(Of(S, "RESERVED", C, R, X))
  BY <1>6, <1>13
<1> QED BY <1>5, <1>14, <1>15

-----------------------------------------------------------------------------
(* The plan of a leave request *)

Upto(r, n) == {y \in DOMAIN Want[r] : y < n}
Step(r, S, rank, g, x) == TakenOn(LeftBefore(r, g, S, x), x, Want[r][x], rank)

LEMMA WantIs ==
  ASSUME NEW r \in Requests
  PROVE  /\ DOMAIN Want[r] # {} /\ IsFiniteSet(DOMAIN Want[r]) /\ DOMAIN Want[r] \subseteq Nat
         /\ \A x \in DOMAIN Want[r] : Want[r][x] \in Nat
         /\ \A n : Upto(r, n) \subseteq DOMAIN Want[r] /\ IsFiniteSet(Upto(r, n))
         /\ \E n \in Nat : Upto(r, n) = DOMAIN Want[r]
<1>1. /\ DOMAIN Want[r] # {} /\ IsFiniteSet(DOMAIN Want[r]) /\ DOMAIN Want[r] \subseteq Nat
      /\ Want[r] \in [DOMAIN Want[r] -> {1, 2}]
  BY CompOffAssumption
<1>2. \A x \in DOMAIN Want[r] : Want[r][x] \in Nat BY <1>1
<1>3. \A n : Upto(r, n) \subseteq DOMAIN Want[r] BY DEF Upto
<1>4. \A n : IsFiniteSet(Upto(r, n)) BY <1>1, <1>3, FS_Subset
<1>5. PICK k \in DOMAIN Want[r] : \A x \in DOMAIN Want[r] : x <= k
  BY <1>1, GreatestNatural
<1>6. k + 1 \in Nat /\ Upto(r, k + 1) = DOMAIN Want[r] BY <1>1, <1>5 DEF Upto
<1> QED BY <1>1, <1>2, <1>3, <1>4, <1>6

\* What a date takes depends on the dates before it only.
LEMMA LeftSame ==
  ASSUME NEW r \in Requests, NEW S, NEW rank, NEW g, NEW h, NEW x,
         \A y \in Upto(r, x) : g[y] = h[y]
  PROVE  Step(r, S, rank, g, x) = Step(r, S, rank, h, x)
<1>1. LeftBefore(r, g, S, x) = LeftBefore(r, h, S, x)
  <2>1. ASSUME NEW c \in S
        PROVE  [y \in Upto(r, x) |-> g[y][c]] = [y \in Upto(r, x) |-> h[y][c]]
    OBVIOUS
  <2>2. \A c \in S : SumOf(LAMBDA y : g[y][c], Upto(r, x)) = SumOf(LAMBDA y : h[y][c], Upto(r, x))
    BY <2>1 DEF SumOf
  <2> QED BY <2>2 DEF LeftBefore, Upto
<1> QED BY <1>1 DEF Step

\* The recursion over the dates is well defined.
LEMMA PlanExists ==
  ASSUME NEW r \in Requests, NEW S, NEW rank
  PROVE  \E g : g = [x \in DOMAIN Want[r] |-> Step(r, S, rank, g, x)]
<1> DEFINE Good(n) == \E g : g = [x \in Upto(r, n) |-> Step(r, S, rank, g, x)]
           B == {n \in Nat : ~ Good(n)}
<1>1. DOMAIN Want[r] \subseteq Nat BY WantIs
<1>2. B = {}
  <2> SUFFICES ASSUME B # {} PROVE FALSE OBVIOUS
  <2>1. PICK n \in B : \A m \in B : n <= m
    <3> HIDE DEF B
    <3>1. B \subseteq Nat BY DEF B
    <3> QED BY <3>1, LeastNatural
  <2>2. n # 0
    <3>1. Upto(r, 0) = {} BY <1>1 DEF Upto
    <3> DEFINE e == [x \in {} |-> 0]
    <3>2. e = [x \in Upto(r, 0) |-> Step(r, S, rank, e, x)] BY <3>1
    <3>3. Good(0) BY <3>2
    <3> QED BY <3>3
  <2>3. n - 1 \in Nat /\ n - 1 \notin B /\ n \in Nat
    <3>1. n \in Nat /\ n - 1 \in Nat /\ ~ (n <= n - 1) BY <2>2
    <3> QED BY <3>1, <2>1
  <2>4. Good(n - 1) BY <2>3
  <2>5. PICK g : g = [x \in Upto(r, n - 1) |-> Step(r, S, rank, g, x)] BY <2>4
  <2> DEFINE h == [x \in Upto(r, n) |-> Step(r, S, rank, g, x)]
  <2>6. \A x \in Upto(r, n) : \A y \in Upto(r, x) : y \in Upto(r, n - 1) /\ y \in Upto(r, n)
    BY <1>1, <2>3 DEF Upto
  <2>7. \A y \in Upto(r, n - 1) : g[y] = Step(r, S, rank, g, y) BY <2>5
  <2>8. \A x \in Upto(r, n) : \A y \in Upto(r, x) : h[y] = g[y]
    BY <2>6, <2>7
  <2>9. \A x \in Upto(r, n) : Step(r, S, rank, h, x) = Step(r, S, rank, g, x)
    <3> HIDE DEF h
    <3> QED BY <2>8, LeftSame
  <2>10. h = [x \in Upto(r, n) |-> Step(r, S, rank, h, x)]
    <3>1. h = [x \in Upto(r, n) |-> Step(r, S, rank, g, x)] OBVIOUS
    <3> HIDE DEF h
    <3> QED BY <3>1, <2>9
  <2>11. Good(n)
    <3> HIDE DEF h
    <3> QED BY <2>10
  <2> QED BY <2>11
<1>3. PICK n \in Nat : Upto(r, n) = DOMAIN Want[r] BY WantIs
<1>4. Good(n) BY <1>2
<1> QED BY <1>3, <1>4

LEMMA PlanIs ==
  ASSUME NEW r \in Requests, NEW S, NEW rank
  PROVE  Plan(r, S, rank) = [x \in DOMAIN Want[r] |-> Step(r, S, rank, Plan(r, S, rank), x)]
<1> DEFINE Rec(g) == g = [x \in DOMAIN Want[r] |-> Step(r, S, rank, g, x)]
<1>1. \E g : Rec(g) BY PlanExists
<1>2. Plan(r, S, rank) = CHOOSE g : Rec(g) BY DEF Plan, Step
<1>3. Rec(CHOOSE g : Rec(g))
  <2> HIDE DEF Rec
  <2> QED BY <1>1
<1>4. Rec(Plan(r, S, rank))
  <2> HIDE DEF Rec
  <2> QED BY <1>2, <1>3
<1> QED BY <1>4

\* What one date takes of what is left.
LEMMA TakenIs ==
  ASSUME NEW left, NEW S, IsFiniteSet(S), left \in [S -> Int], NEW x, NEW want \in Nat, NEW rank
  PROVE  /\ TakenOn(left, x, want, rank) \in [S -> Nat]
         /\ \A c \in S : /\ TakenOn(left, x, want, rank)[c] > 0
                              => Covers(c, x) /\ left[c] > 0 /\ TakenOn(left, x, want, rank)[c] <= left[c]
<1> DEFINE open == {c \in DOMAIN left : Covers(c, x) /\ left[c] > 0}
           before(c) == SumFunctionOnSet(left, {b \in open : rank[b] < rank[c]})
           T == TakenOn(left, x, want, rank)
<1>1. DOMAIN left = S OBVIOUS
<1>2. \A c : before(c) \in Int
  <2> TAKE c
  <2>1. {b \in open : rank[b] < rank[c]} \in SUBSET S BY <1>1
  <2> DEFINE O == {b \in open : rank[b] < rank[c]}
  <2>2. O \in SUBSET S BY <2>1
  <2> HIDE DEF O
  <2>3. IsFiniteSet(O) /\ \A b \in O : left[b] \in Int BY <2>2, FS_Subset
  <2>4. SumFunctionOnSet(left, O) \in Int BY <2>3, SumType
  <2> QED BY <2>4 DEF O
<1>3. T = [c \in S |-> IF c \in open /\ before(c) < want THEN Least(left[c], want - before(c)) ELSE 0]
  BY <1>1 DEF TakenOn
<1>4. ASSUME NEW c \in S
      PROVE  T[c] \in Nat /\ (T[c] > 0 => Covers(c, x) /\ left[c] > 0 /\ T[c] <= left[c])
  <2>1. left[c] \in Int /\ before(c) \in Int BY <1>2
  <2>2. c \in open => Covers(c, x) /\ left[c] > 0 OBVIOUS
  <2>3. T[c] = IF c \in open /\ before(c) < want THEN Least(left[c], want - before(c)) ELSE 0
    BY <1>3
  <2> HIDE DEF open, before, T
  <2>4. CASE c \in open /\ before(c) < want
    <3>1. T[c] = Least(left[c], want - before(c)) BY <2>3, <2>4
    <3>2. left[c] > 0 /\ Covers(c, x) BY <2>2, <2>4
    <3> QED BY <2>1, <2>4, <3>1, <3>2 DEF Least
  <2>5. CASE ~ (c \in open /\ before(c) < want)
    <3>1. T[c] = 0 BY <2>3, <2>5
    <3> QED BY <3>1
  <2> QED BY <2>4, <2>5
<1>5. T = [c \in S |-> T[c]]
  <2>1. T = [c \in S |-> IF c \in open /\ before(c) < want THEN Least(left[c], want - before(c)) ELSE 0]
    BY <1>3
  <2> HIDE DEF T, open, before
  <2> QED BY <2>1
<1> HIDE DEF T, open, before
<1>6. T \in [S -> Nat] BY <1>4, <1>5
<1> QED BY <1>4, <1>6 DEF T

\* A plan takes from each credit what covers the date, and altogether no more than the
\* credit has.
LEMMA PlanFits ==
  ASSUME NEW r \in Requests, NEW S, IsFiniteSet(S), NEW rank, NEW take,
         take = Plan(r, S, rank), \A c \in S : Available(c) \in Nat
  PROVE  /\ take \in [DOMAIN Want[r] -> [S -> Nat]]
         /\ \A x \in DOMAIN Want[r], c \in S : take[x][c] > 0 => Covers(c, x)
         /\ \A c \in S :
              SumFunctionOnSet([x \in DOMAIN Want[r] |-> take[x][c]], DOMAIN Want[r]) <= Available(c)
<1> DEFINE D == DOMAIN Want[r]
           Before(c, x) == SumFunctionOnSet([y \in Upto(r, x) |-> take[y][c]], Upto(r, x))
           w(c) == [x \in D |-> take[x][c]]
           left(x) == LeftBefore(r, take, S, x)
<1>1. take = [x \in D |-> Step(r, S, rank, take, x)] BY PlanIs
<1>2. /\ IsFiniteSet(D) /\ D \subseteq Nat /\ \A x \in D : Want[r][x] \in Nat
      /\ \A n : Upto(r, n) \subseteq D /\ IsFiniteSet(Upto(r, n))
      /\ \E n \in Nat : Upto(r, n) = D
  BY WantIs
<1>3. \A x \in D : left(x) = [c \in S |-> Available(c) - Before(c, x)]
  BY DEF LeftBefore, Upto, SumOf
<1>4. \A x \in D : take[x] = TakenOn(left(x), x, Want[r][x], rank)
  <2> HIDE DEF D
  <2> QED BY <1>1 DEF Step
<1>5. ASSUME NEW x \in D, \A y \in Upto(r, x) : take[y] \in [S -> Nat]
      PROVE  /\ left(x) \in [S -> Int] /\ take[x] \in [S -> Nat]
             /\ \A c \in S : /\ Before(c, x) \in Int
                             /\ take[x][c] > 0 => Covers(c, x) /\ take[x][c] <= Available(c) - Before(c, x)
  <2>1. ASSUME NEW c \in S PROVE Before(c, x) \in Int
    <3> DEFINE f == [y \in Upto(r, x) |-> take[y][c]]
    <3>1. \A y \in Upto(r, x) : f[y] \in Int BY <1>5
    <3> HIDE DEF f
    <3>2. SumFunctionOnSet(f, Upto(r, x)) \in Int BY <3>1, <1>2, SumType
    <3> QED BY <3>2 DEF f
  <2> HIDE DEF Before
  <2>2. left(x) = [c \in S |-> Available(c) - Before(c, x)] BY <1>3
  <2> HIDE DEF left
  <2>3. left(x) \in [S -> Int] BY <2>1, <2>2
  <2>4. /\ TakenOn(left(x), x, Want[r][x], rank) \in [S -> Nat]
        /\ \A c \in S : TakenOn(left(x), x, Want[r][x], rank)[c] > 0
             => /\ Covers(c, x) /\ left(x)[c] > 0
                /\ TakenOn(left(x), x, Want[r][x], rank)[c] <= left(x)[c]
    BY <2>3, <1>2, TakenIs
  <2>5. take[x] = TakenOn(left(x), x, Want[r][x], rank) BY <1>4
  <2>6. \A c \in S : left(x)[c] = Available(c) - Before(c, x) BY <2>2
  <2> QED BY <2>1, <2>3, <2>4, <2>5, <2>6
<1>6. \A x \in D : take[x] \in [S -> Nat]
  <2> DEFINE B == {x \in D : take[x] \notin [S -> Nat]}
  <2> SUFFICES ASSUME B # {} PROVE FALSE OBVIOUS
  <2>1. PICK x \in B : \A y \in B : x <= y
    <3> HIDE DEF B
    <3>1. B \subseteq Nat BY <1>2 DEF B
    <3> QED BY <3>1, LeastNatural
  <2>2. \A y \in Upto(r, x) : take[y] \in [S -> Nat]
    <3> TAKE y \in Upto(r, x)
    <3>1. y \in D /\ y < x /\ y \in Nat /\ x \in Nat BY <1>2 DEF Upto
    <3>2. y \notin B BY <3>1, <2>1
    <3> QED BY <3>1, <3>2
  <2>3. x \in D OBVIOUS
  <2>4. take[x] \in [S -> Nat] BY <2>2, <2>3, <1>5
  <2> QED BY <2>4
<1>7. \A x \in D : \A y \in Upto(r, x) : take[y] \in [S -> Nat] BY <1>6, <1>2
<1>8. ASSUME NEW c \in S
      PROVE  SumFunctionOnSet(w(c), D) <= Available(c)
  <2> DEFINE T(n) == SumFunctionOnSet(w(c), Upto(r, n))
             B == {n \in Nat : ~ (T(n) <= Available(c))}
  <2>1. \A y \in D : w(c)[y] \in Nat /\ w(c)[y] = take[y][c] BY <1>6
  <2>2. \A n : T(n) \in Int
    <3> TAKE n
    <3>1. \A y \in Upto(r, n) : w(c)[y] \in Int BY <2>1, <1>2
    <3> HIDE DEF w
    <3> QED BY <3>1, <1>2, SumType
  <2>3. \A x : T(x) = Before(c, x)
    <3> TAKE x
    <3> DEFINE f == [y \in Upto(r, x) |-> take[y][c]]
    <3>1. \A y \in Upto(r, x) : w(c)[y] = f[y] BY <1>2
    <3> HIDE DEF f, w
    <3>2. SumFunctionOnSet(w(c), Upto(r, x)) = SumFunctionOnSet(f, Upto(r, x)) BY <3>1, <1>2, SumSame
    <3> QED BY <3>2 DEF f
  <2>4. ASSUME NEW n \in Nat, T(n) <= Available(c) PROVE T(n + 1) <= Available(c)
    <3>1. CASE n \notin D
      <4>1. Upto(r, n + 1) = Upto(r, n) BY <3>1, <1>2 DEF Upto
      <4> QED BY <4>1, <2>4
    <3>2. CASE n \in D
      <4>1. Upto(r, n + 1) = Upto(r, n) \cup {n} /\ n \notin Upto(r, n)
        BY <3>2, <1>2 DEF Upto
      <4>2. \A y \in Upto(r, n) \cup {n} : w(c)[y] \in Int
        <5> HIDE DEF w
        <5> QED BY <2>1, <1>2, <3>2
      <4>3. T(n + 1) = w(c)[n] + T(n)
        <5> HIDE DEF w
        <5>1. SumFunctionOnSet(w(c), Upto(r, n) \cup {n}) = w(c)[n] + SumFunctionOnSet(w(c), Upto(r, n))
          BY <4>1, <4>2, <1>2, SumAdd
        <5> QED BY <5>1, <4>1
      <4>4. w(c)[n] = take[n][c] /\ take[n][c] \in Nat BY <2>1, <3>2
      <4>5. take[n][c] > 0 => take[n][c] <= Available(c) - Before(c, n)
        <5> HIDE DEF Before
        <5> QED BY <1>5, <1>7, <3>2
      <4>6. T(n) = Before(c, n) /\ T(n) \in Int BY <2>2, <2>3
      <4> HIDE DEF T, Before, w
      <4> QED BY <4>3, <4>4, <4>5, <4>6, <2>4
    <3> QED BY <3>1, <3>2
  <2>5. B = {}
    <3> SUFFICES ASSUME B # {} PROVE FALSE OBVIOUS
    <3>1. PICK n \in B : \A m \in B : n <= m
      <4> HIDE DEF B
      <4>1. B \subseteq Nat BY DEF B
      <4> QED BY <4>1, LeastNatural
    <3>2. n # 0
      <4>1. Upto(r, 0) = {} BY <1>2 DEF Upto
      <4>2. T(0) = 0 BY <4>1, SumEmpty
      <4> HIDE DEF T
      <4> QED BY <4>2
    <3>3. n \in Nat /\ n - 1 \in Nat /\ (n - 1) + 1 = n /\ ~ (n <= n - 1) BY <3>2
    <3>4. n - 1 \notin B BY <3>1, <3>3
    <3> HIDE DEF T
    <3>5. T(n - 1) <= Available(c) BY <3>3, <3>4
    <3>6. T((n - 1) + 1) <= Available(c) BY <3>3, <3>5, <2>4
    <3>7. T(n) <= Available(c) BY <3>3, <3>6
    <3> QED BY <3>7
  <2>6. PICK n \in Nat : Upto(r, n) = D BY <1>2
  <2>7. T(n) <= Available(c)
    <3> HIDE DEF T
    <3> QED BY <2>5
  <2> QED BY <2>6, <2>7
<1>9. take \in [D -> [S -> Nat]]
  <2> HIDE DEF D
  <2> QED BY <1>1, <1>6
<1>10. \A x \in D, c \in S : take[x][c] > 0 => Covers(c, x)
  <2> HIDE DEF D, left, Before
  <2> QED BY <1>5, <1>7
<1> QED BY <1>8, <1>9, <1>10

-----------------------------------------------------------------------------
(* The invariant of compensatory leave *)

Held(s, c) == UnitsOf(Of(allocs, s, {c}, Requests, Nat))
HeldOn(s, r, x) == UnitsOf(Of(allocs, s, Claims, {r}, {x}))

\* A row that holds units belongs to a request in the state that its status says and to
\* a credit that covers its date.
RowFits(a) ==
  /\ a.units > 0 /\ a.date \in DOMAIN Want[a.request] /\ rstatus[a.request] # "NONE"
  /\ a.status = "RESERVED" => rstatus[a.request] = "PENDING"
  /\ a.status = "USED" => rstatus[a.request] = "APPROVED"
  /\ a.status \in {"RESERVED", "USED"} => credited[a.credit] > 0 /\ a.date < expires[a.credit]

RowsFit == IsFiniteSet(allocs) /\ \A a \in allocs : RowFits(a)

CreditsFit == \A c \in Claims : (cstatus[c] = "APPROVED") = (credited[c] > 0)

Accounts ==
  \A c \in Claims :
    /\ reserved[c] = Held("RESERVED", c) /\ used[c] = Held("USED", c)
    /\ credited[c] > 0 => reserved[c] + used[c] <= worked[c].units

Covered ==
  \A r \in Requests : \A x \in DOMAIN Want[r] :
    /\ HeldOn("RESERVED", r, x) = IF rstatus[r] = "PENDING" THEN Want[r][x] ELSE 0
    /\ HeldOn("USED", r, x) = IF rstatus[r] = "APPROVED" THEN Want[r][x] ELSE 0

OffInv == TypeOK /\ RowsFit /\ CreditsFit /\ Accounts /\ Covered

LEMMA OfEmpty == ASSUME NEW s, NEW C, NEW R, NEW X PROVE UnitsOf(Of({}, s, C, R, X)) = 0
<1>1. Of({}, s, C, R, X) = {} BY DEF Of
<1> QED BY <1>1, UnitsNone

LEMMA OffInit == Init => OffInv
<1> SUFFICES ASSUME Init PROVE OffInv OBVIOUS
<1> USE DEF Init
<1>1. TypeOK
  <2>1. 1 \in Dates BY CompOffAssumption DEF Dates
  <2>2. cstatus \in [Claims -> Status] /\ rstatus \in [Requests -> Status] BY DEF Status
  <2>3. worked \in [Claims -> [date : Dates, units : {1, 2}]] BY <2>1
  <2>4. /\ credited \in [Claims -> Nat] /\ expires \in [Claims -> Nat]
        /\ reserved \in [Claims -> Int] /\ used \in [Claims -> Int]
    OBVIOUS
  <2>5. snap \in [Claims -> Policies] OBVIOUS
  <2>6. allocs \in SUBSET Allocation /\ last \in Claims \cup {NoClaim} /\ lateCancel \in BOOLEAN
    OBVIOUS
  <2>7. today \in Dates /\ policy \in Policies BY <2>1
  <2> QED BY ONLY <2>2, <2>3, <2>4, <2>5, <2>6, <2>7 DEF TypeOK
<1>2. RowsFit BY FS_EmptySet DEF RowsFit
<1>3. CreditsFit BY DEF CreditsFit
<1>4. Accounts BY OfEmpty DEF Accounts, Held
<1>5. Covered BY OfEmpty DEF Covered, HeldOn
<1> QED BY <1>1, <1>2, <1>3, <1>4, <1>5 DEF OffInv

\* What the operations on leave leave of the invariant to be shown.
LEMMA AccountsRead ==
  ASSUME OffInv
  PROVE  /\ allocs \in SUBSET Allocation /\ IsFiniteSet(allocs)
         /\ \A r, s : RowsFor(r, s) \in SUBSET allocs /\ RowsFor(r, s) \in SUBSET Allocation
                      /\ IsFiniteSet(RowsFor(r, s))
         /\ \A r \in Requests : \A s, c :
              {a \in RowsFor(r, s) : a.credit = c} = Of(RowsFor(r, s), s, {c}, Requests, Nat)
         /\ \A c \in Claims, r \in Requests : \A s :
              /\ UnitsOf(Of(RowsFor(r, s), s, {c}, Requests, Nat)) \in Nat
              /\ UnitsOf(Of(RowsFor(r, s), s, {c}, Requests, Nat)) <= Held(s, c)
              /\ Held(s, c) \in Nat
<1>1. allocs \in SUBSET Allocation /\ IsFiniteSet(allocs) BY DEF OffInv, TypeOK, RowsFit
<1>2. \A r, s : RowsFor(r, s) \in SUBSET allocs BY DEF RowsFor
<1>3. \A r, s : RowsFor(r, s) \in SUBSET Allocation /\ IsFiniteSet(RowsFor(r, s))
  BY <1>1, <1>2, FS_Subset
<1>4. \A r \in Requests : \A s, c :
         {a \in RowsFor(r, s) : a.credit = c} = Of(RowsFor(r, s), s, {c}, Requests, Nat)
  <2> TAKE r \in Requests
  <2> TAKE s, c
  <2>1. \A a \in RowsFor(r, s) : a.date \in Nat /\ a.status = s /\ a.request = r
    BY <1>1 DEF RowsFor, Allocation
  <2> QED BY <2>1 DEF Of
<1>5. ASSUME NEW c \in Claims, NEW r \in Requests, NEW s
      PROVE  /\ UnitsOf(Of(RowsFor(r, s), s, {c}, Requests, Nat)) \in Nat
             /\ UnitsOf(Of(RowsFor(r, s), s, {c}, Requests, Nat)) <= Held(s, c)
             /\ Held(s, c) \in Nat
  <2>1. Of(RowsFor(r, s), s, {c}, Requests, Nat) \in SUBSET Of(allocs, s, {c}, Requests, Nat)
    BY <1>2 DEF Of
  <2>2. /\ Of(allocs, s, {c}, Requests, Nat) \in SUBSET Allocation
        /\ IsFiniteSet(Of(allocs, s, {c}, Requests, Nat))
        /\ Held(s, c) \in Nat
        /\ UnitsOf(Of(RowsFor(r, s), s, {c}, Requests, Nat)) \in Nat
    BY <1>1, <1>3, OfFinite DEF Held
  <2> QED BY <2>1, <2>2, UnitsLeft DEF Held
<1> QED BY <1>1, <1>2, <1>3, <1>4, <1>5

LEMMA ApproveLeaveKeeps ==
  ASSUME OffInv, NEW r \in Requests, ApproveLeave(r)
  PROVE  OffInv'
<1> DEFINE S == RowsFor(r, "RESERVED")
           M == {[a EXCEPT !.status = "USED"] : a \in S}
           moved(c) == UnitsOf(Of(S, "RESERVED", {c}, Requests, Nat))
<1>1. /\ rstatus[r] = "PENDING" /\ rstatus' = [rstatus EXCEPT ![r] = "APPROVED"]
      /\ reserved' = [c \in Claims |-> reserved[c] - UnitsOf({a \in S : a.credit = c})]
      /\ used' = [c \in Claims |-> used[c] + UnitsOf({a \in S : a.credit = c})]
      /\ allocs' = (allocs \ S) \cup M
      /\ UNCHANGED <<today, policy, claimVars, credited, expires, last, lateCancel>>
  BY DEF ApproveLeave, UseReserved, Rewritten
<1>2. /\ allocs \in SUBSET Allocation /\ IsFiniteSet(allocs)
      /\ S \in SUBSET allocs /\ S \in SUBSET Allocation /\ IsFiniteSet(S)
      /\ \A c : {a \in S : a.credit = c} = Of(S, "RESERVED", {c}, Requests, Nat)
      /\ \A c \in Claims : moved(c) \in Nat /\ moved(c) <= Held("RESERVED", c)
                           /\ Held("RESERVED", c) \in Nat /\ Held("USED", c) \in Nat
  BY AccountsRead
<1>3. \A a \in S : a.status = "RESERVED" /\ a.request = r BY DEF RowsFor
<1>4. \A a \in allocs : RowFits(a) BY DEF OffInv, RowsFit
<1>5. \A m \in M : /\ \E a \in S : m = [a EXCEPT !.status = "USED"]
                   /\ m.status = "USED" /\ m.request = r
  <2> SUFFICES ASSUME NEW a \in S
               PROVE  [a EXCEPT !.status = "USED"].status = "USED" /\ [a EXCEPT !.status = "USED"].request = r
    OBVIOUS
  <2> QED BY <1>2, <1>3 DEF Allocation
<1>6. M \cap allocs = {} BY <1>1, <1>4, <1>5 DEF RowFits
<1>7. /\ M \in SUBSET Allocation /\ IsFiniteSet(M)
      /\ \A C, R, X :
           /\ UnitsOf(Of(allocs', "RESERVED", C, R, X))
                = UnitsOf(Of(allocs, "RESERVED", C, R, X)) - UnitsOf(Of(S, "RESERVED", C, R, X))
           /\ UnitsOf(Of(allocs', "USED", C, R, X))
                = UnitsOf(Of(allocs, "USED", C, R, X)) + UnitsOf(Of(S, "RESERVED", C, R, X))
  <2> DEFINE N == M
  <2> DEFINE i == [a \in S |-> [a EXCEPT !.status = "USED"]]
  <2>1. \A m \in N : \E a \in S : m = i[a] OBVIOUS
  <2>6. \A a \in S : /\ i[a] \in N /\ i[a] \in Allocation /\ i[a].status = "USED"
                     /\ i[a].units = a.units /\ i[a].credit = a.credit
                     /\ i[a].request = a.request /\ i[a].date = a.date
    <3>1. \A a \in S : i[a] \in N OBVIOUS
    <3>2. \A a \in S : a \in Allocation BY <1>2
    <3> HIDE DEF S, N
    <3>3. \A a \in S : /\ i[a] \in Allocation /\ i[a].status = "USED"
                       /\ i[a].units = a.units /\ i[a].credit = a.credit
                       /\ i[a].request = a.request /\ i[a].date = a.date
      BY <3>2 DEF Allocation, AllocationStatus
    <3> HIDE DEF i
    <3> QED BY <3>1, <3>3
  <2>2. allocs' = (allocs \ S) \cup N BY <1>1
  <2>7. N \cap allocs = {} BY <1>6
  <2>4. allocs \in SUBSET Allocation /\ S \in SUBSET allocs BY <1>2
  <2>8. IsFiniteSet(allocs) BY <1>2
  <2>5. \A a \in S : a.status = "RESERVED" BY <1>3
  <2> HIDE DEF N, S, M, i
  <2>9. BecomeUsed(S, N, i) BY <2>1, <2>5, <2>6 DEF BecomeUsed
  <2>3. ASSUME NEW C, NEW R, NEW X
        PROVE  /\ N \in SUBSET Allocation /\ IsFiniteSet(N)
               /\ UnitsOf(Of((allocs \ S) \cup N, "RESERVED", C, R, X))
                    = UnitsOf(Of(allocs, "RESERVED", C, R, X)) - UnitsOf(Of(S, "RESERVED", C, R, X))
               /\ UnitsOf(Of((allocs \ S) \cup N, "USED", C, R, X))
                    = UnitsOf(Of(allocs, "USED", C, R, X)) + UnitsOf(Of(S, "RESERVED", C, R, X))
    BY <2>4, <2>7, <2>8, <2>9, OfUsed
  <2> QED BY <2>2, <2>3 DEF N
<1>8. TypeOK' /\ TypeOK
  <2>1. allocs' \in SUBSET Allocation BY <1>1, <1>2, <1>7
  <2>2. TypeOK BY DEF OffInv
  <2>3. reserved' \in [Claims -> Int] /\ used' \in [Claims -> Int]
    <3>1. \A c \in Claims : UnitsOf({a \in S : a.credit = c}) \in Nat BY <1>2
    <3> HIDE DEF S
    <3> QED BY <3>1, <1>1, <2>2 DEF TypeOK
  <2>4. rstatus' \in [Requests -> Status] BY <1>1, <2>2 DEF TypeOK, Status
  <2> HIDE DEF S, M
  <2> QED BY <2>1, <2>2, <2>3, <2>4, <1>1 DEF TypeOK, claimVars
<1>9. RowsFit'
  <2>1. IsFiniteSet(allocs') BY <1>1, <1>2, <1>7, FS_Difference, FS_Union
  <2>2. ASSUME NEW a \in allocs' PROVE RowFits(a)'
    <3>1. CASE a \in M
      <4>1. PICK b \in S : a = [b EXCEPT !.status = "USED"] BY <3>1
      <4>2. b \in Allocation /\ RowFits(b) /\ b.status = "RESERVED" /\ b.request = r BY <1>2, <1>3, <1>4
      <4>3. /\ a.units = b.units /\ a.credit = b.credit /\ a.request = b.request
            /\ a.date = b.date /\ a.status = "USED"
        BY <4>1, <4>2 DEF Allocation
      <4>4. rstatus'[r] = "APPROVED" BY <1>1, <1>8 DEF TypeOK
      <4> QED BY <1>1, <4>2, <4>3, <4>4 DEF RowFits
    <3>2. CASE a \in allocs \ S
      <4>1. RowFits(a) /\ a \in Allocation BY <3>2, <1>2, <1>4
      <4>2. a.status = "RESERVED" => a.request # r BY <3>2 DEF RowsFor
      <4>3. a.status = "USED" => a.request # r BY <4>1, <1>1 DEF RowFits
      <4>4. rstatus'[a.request] = IF a.request = r THEN "APPROVED" ELSE rstatus[a.request]
        BY <1>1, <1>8, <4>1 DEF TypeOK, Allocation
      <4> QED BY <1>1, <4>1, <4>2, <4>3, <4>4 DEF RowFits
    <3> QED BY <3>1, <3>2, <1>1
  <2> QED BY <2>1, <2>2 DEF RowsFit
<1>10. CreditsFit' BY <1>1 DEF OffInv, CreditsFit, claimVars
<1>11. Accounts'
  <2>1. \A c \in Claims : /\ Held("RESERVED", c)' = Held("RESERVED", c) - moved(c)
                          /\ Held("USED", c)' = Held("USED", c) + moved(c)
    BY <1>7 DEF Held
  <2>2. \A c \in Claims : /\ reserved'[c] = reserved[c] - moved(c)
                          /\ used'[c] = used[c] + moved(c)
    BY <1>1, <1>2
  <2>3. Accounts BY DEF OffInv
  <2> HIDE DEF S
  <2>4. ASSUME NEW c \in Claims
        PROVE  /\ reserved'[c] = Held("RESERVED", c)' /\ used'[c] = Held("USED", c)'
               /\ credited'[c] > 0 => reserved'[c] + used'[c] <= worked'[c].units
    <3>1. /\ reserved[c] = Held("RESERVED", c) /\ used[c] = Held("USED", c)
          /\ credited[c] > 0 => reserved[c] + used[c] <= worked[c].units
      BY <2>3 DEF Accounts
    <3>2. reserved'[c] + used'[c] = reserved[c] + used[c]
      <4>1. /\ reserved[c] \in Nat /\ used[c] \in Nat /\ moved(c) \in Nat
            /\ reserved'[c] = reserved[c] - moved(c) /\ used'[c] = used[c] + moved(c)
        BY <2>2, <3>1, <1>2
      <4> HIDE DEF moved
      <4> QED BY <4>1
    <3>3. credited' = credited /\ worked' = worked BY <1>1 DEF claimVars
    <3>4. credited'[c] > 0 => reserved'[c] + used'[c] <= worked'[c].units
      BY <3>1, <3>2, <3>3
    <3>5. reserved'[c] = Held("RESERVED", c)' BY <2>1, <2>2, <3>1
    <3>6. used'[c] = Held("USED", c)' BY <2>1, <2>2, <3>1
    <3> QED BY <3>4, <3>5, <3>6
  <2> QED BY <2>4 DEF Accounts
<1>12. Covered'
  <2>1. ASSUME NEW q \in Requests, NEW x \in DOMAIN Want[q]
        PROVE  /\ HeldOn("RESERVED", q, x)' = IF rstatus'[q] = "PENDING" THEN Want[q][x] ELSE 0
               /\ HeldOn("USED", q, x)' = IF rstatus'[q] = "APPROVED" THEN Want[q][x] ELSE 0
    <3>1. /\ HeldOn("RESERVED", q, x)'
               = HeldOn("RESERVED", q, x) - UnitsOf(Of(S, "RESERVED", Claims, {q}, {x}))
          /\ HeldOn("USED", q, x)'
               = HeldOn("USED", q, x) + UnitsOf(Of(S, "RESERVED", Claims, {q}, {x}))
      BY <1>7 DEF HeldOn
    <3>2. /\ HeldOn("RESERVED", q, x) = IF rstatus[q] = "PENDING" THEN Want[q][x] ELSE 0
          /\ HeldOn("USED", q, x) = IF rstatus[q] = "APPROVED" THEN Want[q][x] ELSE 0
      BY DEF OffInv, Covered
    <3>3. Want[q][x] \in Nat BY WantIs
    <3>4. CASE q = r
      <4>1. Of(S, "RESERVED", Claims, {q}, {x}) = Of(allocs, "RESERVED", Claims, {q}, {x})
        BY <3>4 DEF Of, RowsFor
      <4>2. rstatus'[q] = "APPROVED" BY <1>1, <1>8, <3>4 DEF TypeOK
      <4>3. UnitsOf(Of(S, "RESERVED", Claims, {q}, {x})) = HeldOn("RESERVED", q, x)
        BY <4>1 DEF HeldOn
      <4> HIDE DEF S
      <4> QED BY <3>1, <3>2, <3>3, <3>4, <4>2, <4>3, <1>1
    <3>5. CASE q # r
      <4>1. Of(S, "RESERVED", Claims, {q}, {x}) = {} BY <3>5 DEF Of, RowsFor
      <4>2. rstatus'[q] = rstatus[q] BY <1>1, <1>8, <3>5 DEF TypeOK
      <4>3. UnitsOf(Of(S, "RESERVED", Claims, {q}, {x})) = 0 BY <4>1, UnitsNone
      <4> HIDE DEF S
      <4> QED BY <3>1, <3>2, <3>3, <4>2, <4>3
    <3> QED BY <3>4, <3>5
  <2> QED BY <2>1 DEF Covered
<1> QED BY <1>8, <1>9, <1>10, <1>11, <1>12 DEF OffInv

\* What a rejection, a withdrawal and a late cancellation have in common: the rows that
\* hold units for the request no longer do.
Releases(r, held, s, d, S) ==
  /\ S = RowsFor(r, held) /\ rstatus[r] = IF held = "RESERVED" THEN "PENDING" ELSE "APPROVED"
  /\ rstatus' = [rstatus EXCEPT ![r] = s]
  /\ reserved' \in [Claims -> Int] /\ used' \in [Claims -> Int]
  /\ \A c \in Claims : reserved'[c] = IF held = "RESERVED" THEN reserved[c] - UnitsOf({a \in S : a.credit = c})
                                       ELSE reserved[c]
  /\ \A c \in Claims : used'[c] = IF held = "USED" THEN used[c] - UnitsOf({a \in S : a.credit = c})
                                   ELSE used[c]
  /\ allocs' = (allocs \ S) \cup {[a EXCEPT !.status = ReleasedOn(a.credit, d)] : a \in S}
  /\ UNCHANGED <<today, policy, claimVars, credited, expires, last>> /\ lateCancel' \in BOOLEAN

LEMMA ReleaseKeeps ==
  ASSUME OffInv, NEW r \in Requests, NEW held \in {"RESERVED", "USED"}, NEW s \in {"REJECTED", "CANCELLED"},
         NEW d, NEW S, Releases(r, held, s, d, S)
  PROVE  OffInv'
<1>0. /\ S = RowsFor(r, held) /\ rstatus[r] = IF held = "RESERVED" THEN "PENDING" ELSE "APPROVED"
      /\ rstatus' = [rstatus EXCEPT ![r] = s]
      /\ reserved' \in [Claims -> Int] /\ used' \in [Claims -> Int]
      /\ \A c \in Claims : reserved'[c] = IF held = "RESERVED" THEN reserved[c] - UnitsOf({a \in S : a.credit = c})
                                           ELSE reserved[c]
      /\ \A c \in Claims : used'[c] = IF held = "USED" THEN used[c] - UnitsOf({a \in S : a.credit = c})
                                       ELSE used[c]
      /\ allocs' = (allocs \ S) \cup {[a EXCEPT !.status = ReleasedOn(a.credit, d)] : a \in S}
      /\ UNCHANGED <<today, policy, claimVars, credited, expires, last>> /\ lateCancel' \in BOOLEAN
  BY DEF Releases
<1> USE <1>0
<1> DEFINE M == {[a EXCEPT !.status = ReleasedOn(a.credit, d)] : a \in S}
           out(c) == UnitsOf(Of(S, held, {c}, Requests, Nat))
<1>1. /\ allocs \in SUBSET Allocation /\ IsFiniteSet(allocs)
      /\ S \in SUBSET allocs /\ S \in SUBSET Allocation /\ IsFiniteSet(S)
      /\ \A c : {a \in S : a.credit = c} = Of(S, held, {c}, Requests, Nat)
      /\ \A c \in Claims : /\ out(c) \in Nat /\ out(c) <= Held(held, c)
                           /\ Held("RESERVED", c) \in Nat /\ Held("USED", c) \in Nat
  BY AccountsRead
<1>2. \A a \in S : a.status = held /\ a.request = r BY DEF RowsFor
<1>3. \A a \in allocs : RowFits(a) BY DEF OffInv, RowsFit
<1>4. TypeOK BY DEF OffInv
<1>5. /\ M \in SUBSET Allocation /\ IsFiniteSet(M)
      /\ \A m \in M : m.status \in {"RELEASED", "EXPIRED"} /\ m.request = r /\ m.units > 0
                      /\ m.date \in DOMAIN Want[r]
  <2> DEFINE i == [a \in S |-> [a EXCEPT !.status = ReleasedOn(a.credit, d)]]
  <2>1. \A a \in S : ReleasedOn(a.credit, d) \in {"RELEASED", "EXPIRED"} BY DEF ReleasedOn, Released
  <2>2. \A a \in S : a \in Allocation /\ RowFits(a) /\ a.request = r BY <1>1, <1>2, <1>3
  <2>3. \A a \in S : /\ i[a] \in Allocation /\ i[a].status \in {"RELEASED", "EXPIRED"}
                     /\ i[a].units = a.units /\ i[a].request = a.request /\ i[a].date = a.date
    BY <2>1, <2>2 DEF Allocation, AllocationStatus
  <2>4. M = {i[a] : a \in S} OBVIOUS
  <2> HIDE DEF i, M
  <2>5. IsFiniteSet(M) BY <2>4, <1>1, FiniteImage
  <2>6. \A a \in S : /\ i[a] \in Allocation /\ i[a].status \in {"RELEASED", "EXPIRED"}
                     /\ i[a].request = r /\ i[a].units > 0 /\ i[a].date \in DOMAIN Want[r]
    BY <2>2, <2>3 DEF RowFits
  <2> QED BY <2>4, <2>5, <2>6
<1>6. \A t \in {"RESERVED", "USED"} : \A C, R, X :
        UnitsOf(Of(allocs', t, C, R, X)) = UnitsOf(Of(allocs, t, C, R, X)) - UnitsOf(Of(S, t, C, R, X))
  <2> TAKE t \in {"RESERVED", "USED"}
  <2> TAKE C, R, X
  <2>1. allocs' = (allocs \ S) \cup M OBVIOUS
  <2>2. \A m \in M : m.status \in {"RELEASED", "EXPIRED"} BY <1>5
  <2>3. M \in SUBSET Allocation /\ IsFiniteSet(M) BY <1>5
  <2>4. allocs \in SUBSET Allocation /\ IsFiniteSet(allocs) /\ S \in SUBSET allocs BY <1>1
  <2> HIDE DEF M
  <2>5. UnitsOf(Of((allocs \ S) \cup M, t, C, R, X)) = UnitsOf(Of(allocs, t, C, R, X)) - UnitsOf(Of(S, t, C, R, X))
    BY SMTT(60), <2>2, <2>3, <2>4, OfReleased
  <2> QED BY <2>1, <2>5
<1>13. \A C, R, X :
        /\ UnitsOf(Of(allocs', "RESERVED", C, R, X))
             = UnitsOf(Of(allocs, "RESERVED", C, R, X)) - UnitsOf(Of(S, "RESERVED", C, R, X))
        /\ UnitsOf(Of(allocs', "USED", C, R, X))
             = UnitsOf(Of(allocs, "USED", C, R, X)) - UnitsOf(Of(S, "USED", C, R, X))
  BY ONLY <1>6
<1>7. \A t, C, R, X : t # held => UnitsOf(Of(S, t, C, R, X)) = 0
  <2> TAKE t, C, R, X
  <2> HAVE t # held
  <2>1. Of(S, t, C, R, X) = {} BY <1>2 DEF Of
  <2> QED BY <2>1, UnitsNone
<1>8. TypeOK'
  <2>1. allocs' \in SUBSET Allocation BY <1>1, <1>5
  <2>2. rstatus' \in [Requests -> Status] BY <1>4 DEF TypeOK, Status
  <2> QED BY <2>1, <2>2, <1>4 DEF TypeOK, claimVars
<1>9. RowsFit'
  <2>1. IsFiniteSet(allocs') BY <1>1, <1>5, FS_Difference, FS_Union
  <2>2. rstatus'[r] = s BY <1>4 DEF TypeOK
  <2>3. ASSUME NEW a \in allocs' PROVE RowFits(a)'
    <3>1. CASE a \in M
      <4>1. /\ a.status \in {"RELEASED", "EXPIRED"} /\ a.request = r /\ a.units > 0
            /\ a.date \in DOMAIN Want[r]
        BY <3>1, <1>5
      <4> QED BY <4>1, <2>2 DEF RowFits
    <3>2. CASE a \in allocs \ S
      <4>1. RowFits(a) /\ a \in Allocation BY <3>2, <1>1, <1>3
      <4>2. a.status = held => a.request # r BY <3>2 DEF RowsFor
      <4>3. a.status \in {"RESERVED", "USED"} => a.request # r BY <4>1, <4>2 DEF RowFits
      <4>4. rstatus'[a.request] = IF a.request = r THEN s ELSE rstatus[a.request]
        BY <1>4, <4>1 DEF TypeOK, Allocation
      <4> QED BY <4>1, <4>3, <4>4 DEF RowFits
    <3> QED BY <3>1, <3>2
  <2> QED BY <2>1, <2>3 DEF RowsFit
<1>10. CreditsFit' BY DEF OffInv, CreditsFit, claimVars
<1>11. Accounts'
  <2>1. ASSUME NEW c \in Claims
        PROVE  /\ reserved'[c] = Held("RESERVED", c)' /\ used'[c] = Held("USED", c)'
               /\ credited'[c] > 0 => reserved'[c] + used'[c] <= worked'[c].units
    <3>1. /\ reserved[c] = Held("RESERVED", c) /\ used[c] = Held("USED", c)
          /\ credited[c] > 0 => reserved[c] + used[c] <= worked[c].units
      BY DEF OffInv, Accounts
    <3>2. /\ reserved'[c] = IF held = "RESERVED" THEN reserved[c] - out(c) ELSE reserved[c]
          /\ used'[c] = IF held = "USED" THEN used[c] - out(c) ELSE used[c]
      BY <1>1
    <3>3. /\ Held("RESERVED", c)' = Held("RESERVED", c) - UnitsOf(Of(S, "RESERVED", {c}, Requests, Nat))
          /\ Held("USED", c)' = Held("USED", c) - UnitsOf(Of(S, "USED", {c}, Requests, Nat))
      BY ONLY <1>13 DEF Held
    <3>4. \A t : t # held => UnitsOf(Of(S, t, {c}, Requests, Nat)) = 0 BY <1>7
    <3>5. credited' = credited /\ worked' = worked BY DEF claimVars
    <3>6. /\ out(c) \in Nat /\ Held("RESERVED", c) \in Nat /\ Held("USED", c) \in Nat BY <1>1
    <3>7. worked[c].units \in Nat BY <1>4 DEF TypeOK
    <3>8. CASE held = "RESERVED"
      <4>1. /\ reserved'[c] = reserved[c] - out(c) /\ used'[c] = used[c]
            /\ Held("RESERVED", c)' = Held("RESERVED", c) - out(c)
        BY <3>2, <3>3, <3>8
      <4>2. Held("USED", c)' = Held("USED", c) - 0 BY <3>3, <3>4, <3>8
      <4> HIDE DEF out
      <4> QED BY <3>1, <3>5, <3>6, <3>7, <4>1, <4>2
    <3>9. CASE held = "USED"
      <4>1. /\ used'[c] = used[c] - out(c) /\ reserved'[c] = reserved[c]
            /\ Held("USED", c)' = Held("USED", c) - out(c)
        BY <3>2, <3>3, <3>9
      <4>2. Held("RESERVED", c)' = Held("RESERVED", c) - 0 BY <3>3, <3>4, <3>9
      <4> HIDE DEF out
      <4> QED BY <3>1, <3>5, <3>6, <3>7, <4>1, <4>2
    <3> QED BY <3>8, <3>9
  <2> QED BY <2>1 DEF Accounts
<1>12. Covered'
  <2>1. ASSUME NEW q \in Requests, NEW x \in DOMAIN Want[q]
        PROVE  /\ HeldOn("RESERVED", q, x)' = IF rstatus'[q] = "PENDING" THEN Want[q][x] ELSE 0
               /\ HeldOn("USED", q, x)' = IF rstatus'[q] = "APPROVED" THEN Want[q][x] ELSE 0
    <3>1. \A t \in {"RESERVED", "USED"} :
            HeldOn(t, q, x)' = HeldOn(t, q, x) - UnitsOf(Of(S, t, Claims, {q}, {x}))
      <4>1. /\ HeldOn("RESERVED", q, x)'
                 = HeldOn("RESERVED", q, x) - UnitsOf(Of(S, "RESERVED", Claims, {q}, {x}))
            /\ HeldOn("USED", q, x)'
                 = HeldOn("USED", q, x) - UnitsOf(Of(S, "USED", Claims, {q}, {x}))
        BY ONLY <1>13 DEF HeldOn
      <4> QED BY <4>1
    <3>2. /\ HeldOn("RESERVED", q, x) = IF rstatus[q] = "PENDING" THEN Want[q][x] ELSE 0
          /\ HeldOn("USED", q, x) = IF rstatus[q] = "APPROVED" THEN Want[q][x] ELSE 0
      BY DEF OffInv, Covered
    <3>3. Want[q][x] \in Nat BY WantIs
    <3>4. CASE q = r
      <4>1. Of(S, held, Claims, {q}, {x}) = Of(allocs, held, Claims, {q}, {x})
        BY <3>4 DEF Of, RowsFor
      <4>2. rstatus'[q] = s BY <1>4, <3>4 DEF TypeOK
      <4>3. UnitsOf(Of(S, held, Claims, {q}, {x})) = HeldOn(held, q, x) BY <4>1 DEF HeldOn
      <4>4. \A t \in {"RESERVED", "USED"} :
              t # held => UnitsOf(Of(S, t, Claims, {q}, {x})) = 0 /\ HeldOn(t, q, x) = 0
        BY <1>7, <3>2, <3>4
      <4>5. \A t \in {"RESERVED", "USED"} : HeldOn(t, q, x) \in Nat BY <3>2, <3>3
      <4>6. \A t \in {"RESERVED", "USED"} : HeldOn(t, q, x)' = 0
        BY <3>1, <4>3, <4>4, <4>5
      <4> QED BY <4>2, <4>6
    <3>5. CASE q # r
      <4>1. \A t : Of(S, t, Claims, {q}, {x}) = {} BY <3>5, <1>2 DEF Of
      <4>2. rstatus'[q] = rstatus[q] BY <1>4, <3>5 DEF TypeOK
      <4>3. \A t : UnitsOf(Of(S, t, Claims, {q}, {x})) = 0 BY <4>1, UnitsNone
      <4>4. \A t \in {"RESERVED", "USED"} : HeldOn(t, q, x) \in Nat BY <3>2, <3>3
      <4>5. \A t \in {"RESERVED", "USED"} : HeldOn(t, q, x)' = HeldOn(t, q, x)
        <5> TAKE t \in {"RESERVED", "USED"}
        <5>1. HeldOn(t, q, x)' = HeldOn(t, q, x) - 0 BY <3>1, <4>3
        <5>2. HeldOn(t, q, x) \in Nat BY <4>4
        <5> QED BY <5>1, <5>2
      <4>6. /\ HeldOn("RESERVED", q, x)' = HeldOn("RESERVED", q, x)
            /\ HeldOn("USED", q, x)' = HeldOn("USED", q, x)
        BY <4>5
      <4> QED BY <3>2, <4>2, <4>6
    <3> QED BY <3>4, <3>5
  <2> QED BY <2>1 DEF Covered
<1> QED BY <1>8, <1>9, <1>10, <1>11, <1>12 DEF OffInv

LEMMA CloseLeaveKeeps ==
  ASSUME OffInv, NEW r \in Requests, NEW s \in {"REJECTED", "CANCELLED"}, NEW d, CloseLeave(r, s, d)
  PROVE  OffInv'
<1> DEFINE S == RowsFor(r, "RESERVED")
<1>1. /\ rstatus[r] = "PENDING" /\ rstatus' = [rstatus EXCEPT ![r] = s]
      /\ reserved' = [c \in Claims |-> reserved[c] - UnitsOf({a \in S : a.credit = c})]
      /\ used' = used
      /\ allocs' = (allocs \ S) \cup {[a EXCEPT !.status = ReleasedOn(a.credit, d)] : a \in S}
      /\ UNCHANGED <<today, policy, claimVars, credited, expires, last>> /\ lateCancel' = lateCancel
  BY DEF CloseLeave, ReleaseReserved, Rewritten
<1>2. TypeOK BY DEF OffInv
<1>3. \A c \in Claims : UnitsOf({a \in S : a.credit = c}) \in Nat
  <2> TAKE c \in Claims
  <2>1. {a \in S : a.credit = c} = Of(S, "RESERVED", {c}, Requests, Nat) BY AccountsRead
  <2>2. UnitsOf(Of(S, "RESERVED", {c}, Requests, Nat)) \in Nat BY AccountsRead
  <2> QED BY <2>1, <2>2
<1>4. used' \in [Claims -> Int] /\ lateCancel' \in BOOLEAN BY <1>1, <1>2 DEF TypeOK
<1>6. S = RowsFor(r, "RESERVED") OBVIOUS
<1> HIDE DEF S
<1>5. reserved' \in [Claims -> Int] BY <1>1, <1>2, <1>3 DEF TypeOK
<1>7. \A c \in Claims : reserved'[c] = reserved[c] - UnitsOf({a \in S : a.credit = c}) BY <1>1
<1>8. \A c \in Claims : used'[c] = used[c] BY <1>1
<1>9. Releases(r, "RESERVED", s, d, S) BY <1>1, <1>4, <1>5, <1>6, <1>7, <1>8 DEF Releases
<1> QED BY <1>9, ReleaseKeeps

LEMMA CancelApprovedKeeps ==
  ASSUME OffInv, NEW r \in Requests, NEW d, CancelApproved(r, d)
  PROVE  OffInv'
<1> DEFINE S == RowsFor(r, "USED")
<1>1. /\ rstatus[r] = "APPROVED" /\ rstatus' = [rstatus EXCEPT ![r] = "CANCELLED"]
      /\ used' = [c \in Claims |-> used[c] - UnitsOf({a \in S : a.credit = c})]
      /\ reserved' = reserved
      /\ allocs' = (allocs \ S) \cup {[a EXCEPT !.status = ReleasedOn(a.credit, d)] : a \in S}
      /\ UNCHANGED <<today, policy, claimVars, credited, expires, last>> /\ lateCancel' \in BOOLEAN
  <2>1. lateCancel' \in BOOLEAN BY DEF OffInv, TypeOK, CancelApproved
  <2> QED BY <2>1 DEF CancelApproved, Rewritten
<1>2. TypeOK BY DEF OffInv
<1>3. \A c \in Claims : UnitsOf({a \in S : a.credit = c}) \in Nat
  <2> TAKE c \in Claims
  <2>1. {a \in S : a.credit = c} = Of(S, "USED", {c}, Requests, Nat) BY AccountsRead
  <2>2. UnitsOf(Of(S, "USED", {c}, Requests, Nat)) \in Nat BY AccountsRead
  <2> QED BY <2>1, <2>2
<1>4. reserved' \in [Claims -> Int] BY <1>1, <1>2 DEF TypeOK
<1>6. S = RowsFor(r, "USED") OBVIOUS
<1> HIDE DEF S
<1>5. used' \in [Claims -> Int] BY <1>1, <1>2, <1>3 DEF TypeOK
<1>7. \A c \in Claims : used'[c] = used[c] - UnitsOf({a \in S : a.credit = c}) BY <1>1
<1>8. \A c \in Claims : reserved'[c] = reserved[c] BY <1>1
<1>9. Releases(r, "USED", "CANCELLED", d, S) BY <1>1, <1>4, <1>5, <1>6, <1>7, <1>8 DEF Releases
<1> QED BY <1>9, ReleaseKeeps

Planned(r, take, S, rows) == rows = {a \in Reservation(r, take, S) : a.units > 0}

HoldPlan(r, take, S, rows) ==
  /\ rows \in SUBSET Allocation /\ IsFiniteSet(rows)
  /\ \A a \in rows : /\ a.status = "RESERVED" /\ a.request = r /\ a.units > 0 /\ a.credit \in S
                     /\ a.date \in DOMAIN Want[r] /\ take[a.date][a.credit] > 0
  /\ \A c \in S : UnitsOf(Of(rows, "RESERVED", {c}, Requests, Nat))
                    = SumFunctionOnSet([x \in DOMAIN Want[r] |-> take[x][c]], DOMAIN Want[r])
  /\ \A x \in DOMAIN Want[r] : UnitsOf(Of(rows, "RESERVED", Claims, {r}, {x}))
                                 = SumFunctionOnSet([c \in S |-> take[x][c]], S)

\* The rows that a plan becomes hold for each credit what the plan takes from it and on
\* each date what it takes there.
LEMMA PlannedRows ==
  ASSUME NEW r \in Requests, NEW S \in SUBSET Claims, IsFiniteSet(S),
         NEW take \in [DOMAIN Want[r] -> [S -> Nat]], NEW rows, Planned(r, take, S, rows)
  PROVE  HoldPlan(r, take, S, rows)
<1> DEFINE D == DOMAIN Want[r]
           row(c, x) == [credit |-> c, request |-> r, date |-> x, units |-> take[x][c],
                         status |-> "RESERVED"]
<1>1. IsFiniteSet(D) /\ D \subseteq Nat BY WantIs
<1>2. \A c \in S, x \in D : /\ row(c, x) \in Allocation /\ row(c, x).units = take[x][c]
                            /\ row(c, x).credit = c /\ row(c, x).date = x /\ row(c, x).request = r
                            /\ row(c, x).status = "RESERVED" /\ take[x][c] \in Nat
  BY <1>1 DEF Allocation, AllocationStatus
<1>3. \A a : a \in rows <=> \E c \in S, x \in D : a = row(c, x) /\ take[x][c] > 0
  <2>1. \A a : a \in Reservation(r, take, S) <=> \E c \in S, x \in D : a = row(c, x)
    BY DEF Reservation
  <2>2. \A a : a \in rows <=> a \in Reservation(r, take, S) /\ a.units > 0 BY DEF Planned
  <2> HIDE DEF row, D
  <2> QED BY <2>1, <2>2, <1>2
<1>4. rows \in SUBSET Allocation
  <2> HIDE DEF row, D
  <2> QED BY <1>2, <1>3
<1>5. IsFiniteSet(rows)
  <2> DEFINE P == S \X D
             j == [p \in P |-> row(p[1], p[2])]
             J == {j[p] : p \in P}
  <2>1. IsFiniteSet(P) BY <1>1, FS_Product
  <2>2. \A p \in P : j[p] = row(p[1], p[2]) OBVIOUS
  <2>3. \A c \in S, x \in D : <<c, x>> \in P /\ <<c, x>>[1] = c /\ <<c, x>>[2] = x OBVIOUS
  <2> HIDE DEF row, D, P, j
  <2>4. IsFiniteSet(J) BY <2>1, FiniteImage
  <2>5. rows \in SUBSET J
    <3> SUFFICES ASSUME NEW a \in rows PROVE a \in J OBVIOUS
    <3>1. PICK c \in S, x \in D : a = row(c, x) BY <1>3
    <3>2. a = j[<<c, x>>] /\ <<c, x>> \in P BY <2>2, <2>3, <3>1
    <3> QED BY <3>2
  <2> HIDE DEF J
  <2> QED BY <2>4, <2>5, FS_Subset
<1>6. \A a \in rows : /\ a.status = "RESERVED" /\ a.request = r /\ a.units > 0 /\ a.credit \in S
                      /\ a.date \in D /\ take[a.date][a.credit] > 0
  <2> HIDE DEF row, D
  <2> QED BY <1>2, <1>3
<1>7. ASSUME NEW c \in S
      PROVE  UnitsOf(Of(rows, "RESERVED", {c}, Requests, Nat))
               = SumFunctionOnSet([x \in D |-> take[x][c]], D)
  <2> DEFINE w == [x \in D |-> take[x][c]]
             i == [x \in D |-> row(c, x)]
  <2>1. \A x \in D : w[x] = take[x][c] /\ i[x] = row(c, x) OBVIOUS
  <2>2. w \in [D -> Nat] BY <1>2
  <2>3. i \in [D -> Allocation] BY <1>2
  <2> HIDE DEF row, D, w, i
  <2>4. \A x \in D : i[x].units = w[x] BY <2>1, <1>2
  <2>5. \A x, y \in D : i[x] = i[y] => x = y BY <2>1, <1>2
  <2>6. UnitsOf({i[x] : x \in {y \in D : w[y] > 0}}) = SumFunctionOnSet(w, D)
    BY <1>1, <2>2, <2>3, <2>4, <2>5, UnitsPlanned
  <2>7. Of(rows, "RESERVED", {c}, Requests, Nat) = {i[x] : x \in {y \in D : w[y] > 0}}
    <3> DEFINE L == Of(rows, "RESERVED", {c}, Requests, Nat)
    <3>1. \A a : a \in L <=> a \in rows /\ a.credit = c
      BY ONLY <1>4, <1>6 DEF Of, Allocation
    <3> HIDE DEF L
    <3>2. ASSUME NEW a \in L PROVE a \in {i[x] : x \in {y \in D : w[y] > 0}}
      <4>1. a \in rows /\ a.credit = c BY <3>1
      <4>2. PICK b \in S, x \in D : a = row(b, x) /\ take[x][b] > 0 BY <4>1, <1>3
      <4>3. b = c BY <4>1, <4>2, <1>2
      <4>4. a = i[x] /\ w[x] > 0 BY <4>2, <4>3, <2>1
      <4> QED BY <4>4
    <3>3. ASSUME NEW x \in D, w[x] > 0 PROVE i[x] \in L
      <4>1. i[x] = row(c, x) /\ take[x][c] > 0 BY <3>3, <2>1
      <4>2. i[x] \in rows BY <4>1, <1>3
      <4>3. i[x].credit = c BY <4>1, <1>2
      <4> QED BY <4>2, <4>3, <3>1
    <3>4. L = {i[x] : x \in {y \in D : w[y] > 0}} BY ONLY <3>2, <3>3
    <3> QED BY <3>4 DEF L
  <2> QED BY <2>6, <2>7 DEF w
<1>8. ASSUME NEW x \in D
      PROVE  UnitsOf(Of(rows, "RESERVED", Claims, {r}, {x}))
               = SumFunctionOnSet([c \in S |-> take[x][c]], S)
  <2> DEFINE w == [c \in S |-> take[x][c]]
             i == [c \in S |-> row(c, x)]
  <2>1. \A c \in S : w[c] = take[x][c] /\ i[c] = row(c, x) OBVIOUS
  <2>2. w \in [S -> Nat] BY <1>2
  <2>3. i \in [S -> Allocation] BY <1>2
  <2> HIDE DEF row, D, w, i
  <2>4. \A c \in S : i[c].units = w[c] BY <2>1, <1>2
  <2>5. \A b, c \in S : i[b] = i[c] => b = c BY <2>1, <1>2
  <2>6. UnitsOf({i[c] : c \in {b \in S : w[b] > 0}}) = SumFunctionOnSet(w, S)
    BY <2>2, <2>3, <2>4, <2>5, UnitsPlanned
  <2>7. Of(rows, "RESERVED", Claims, {r}, {x}) = {i[c] : c \in {b \in S : w[b] > 0}}
    <3> DEFINE L == Of(rows, "RESERVED", Claims, {r}, {x})
    <3>1. \A a : a \in L <=> a \in rows /\ a.date = x
      BY ONLY <1>4, <1>6 DEF Of, Allocation
    <3> HIDE DEF L
    <3>2. ASSUME NEW a \in L PROVE a \in {i[c] : c \in {b \in S : w[b] > 0}}
      <4>1. a \in rows /\ a.date = x BY <3>1
      <4>2. PICK c \in S, y \in D : a = row(c, y) /\ take[y][c] > 0 BY <4>1, <1>3
      <4>3. y = x BY <4>1, <4>2, <1>2
      <4>4. a = i[c] /\ w[c] > 0 BY <4>2, <4>3, <2>1
      <4> QED BY <4>4
    <3>3. ASSUME NEW c \in S, w[c] > 0 PROVE i[c] \in L
      <4>1. i[c] = row(c, x) /\ take[x][c] > 0 BY <3>3, <2>1
      <4>2. i[c] \in rows BY <4>1, <1>3
      <4>3. i[c].date = x BY <4>1, <1>2
      <4> QED BY <4>2, <4>3, <3>1
    <3>4. L = {i[c] : c \in {b \in S : w[b] > 0}} BY ONLY <3>2, <3>3
    <3> QED BY <3>4 DEF L
  <2> QED BY <2>6, <2>7 DEF w
<1> QED BY <1>4, <1>5, <1>6, <1>7, <1>8 DEF HoldPlan

LEMMA SubmitLeaveKeeps ==
  ASSUME OffInv, NEW r \in Requests, NEW d, SubmitLeave(r, d)
  PROVE  OffInv'
<1> DEFINE S == Live(d)
           D == DOMAIN Want[r]
           Made(take) == {a \in Reservation(r, take, S) : a.units > 0}
           Writes(take, rows) ==
             /\ \A x \in D : SumFunctionOnSet([c \in S |-> take[x][c]], S) = Want[r][x]
             /\ reserved' = [c \in Claims |-> reserved[c] + UnitsOf({a \in rows : a.credit = c})]
             /\ allocs' = allocs \cup rows
<1>1. /\ rstatus[r] = "NONE" /\ rstatus' = [rstatus EXCEPT ![r] = "PENDING"]
      /\ UNCHANGED <<today, policy, claimVars, credited, expires, used, last, lateCancel>>
  BY DEF SubmitLeave
<1>2. \E rank : Writes(Plan(r, S, rank), Made(Plan(r, S, rank)))
  <2>1. \E rank \in ByExpiry(S) : Writes(Plan(r, S, rank), Made(Plan(r, S, rank)))
    BY DEF SubmitLeave, SumOf
  <2> HIDE DEF Writes, Made, S
  <2> QED BY <2>1
<1>3. PICK rank : Writes(Plan(r, S, rank), Made(Plan(r, S, rank)))
  <2> HIDE DEF Writes, Made, S
  <2> QED BY <1>2
<1>4. TypeOK /\ Accounts /\ Covered /\ RowsFit /\ CreditsFit BY DEF OffInv
<1>5. /\ S \in SUBSET Claims /\ IsFiniteSet(S) /\ IsFiniteSet(Claims)
      /\ \A c \in S : credited[c] > 0
  <2>1. S \in SUBSET Claims /\ \A c \in S : credited[c] > 0 BY DEF Live, Credits
  <2> HIDE DEF S
  <2> QED BY <2>1, CompOffAssumption, FS_Subset
<1>6. \A c \in S : Available(c) \in Nat
  <2> TAKE c \in S
  <2>1. c \in Claims /\ credited[c] > 0 BY <1>5
  <2>2. reserved[c] + used[c] <= worked[c].units BY <1>4, <2>1 DEF Accounts
  <2>3. reserved[c] \in Int /\ used[c] \in Int /\ worked[c].units \in {1, 2}
    BY <1>4, <2>1 DEF TypeOK
  <2> QED BY <2>2, <2>3 DEF Available, Earned
<1>7. \E take, rows :
        /\ take = Plan(r, S, rank) /\ rows = Made(take) /\ Writes(take, rows)
  <2> HIDE DEF Writes, Made, S
  <2> QED BY <1>3
<1>8. PICK take, rows :
        /\ take = Plan(r, S, rank) /\ rows = Made(take) /\ Writes(take, rows)
  <2> HIDE DEF Writes, Made, S
  <2> QED BY <1>7
<1>9. /\ take \in [D -> [S -> Nat]]
      /\ \A x \in D, c \in S : take[x][c] > 0 => Covers(c, x)
      /\ \A c \in S : SumFunctionOnSet([x \in D |-> take[x][c]], D) <= Available(c)
  <2> HIDE DEF S, Made, Writes
  <2> QED BY <1>5, <1>6, <1>8, PlanFits
<1>10. /\ rows \in SUBSET Allocation /\ IsFiniteSet(rows)
       /\ \A a \in rows : /\ a.status = "RESERVED" /\ a.request = r /\ a.units > 0 /\ a.credit \in S
                          /\ a.date \in D /\ take[a.date][a.credit] > 0
       /\ \A c \in S : UnitsOf(Of(rows, "RESERVED", {c}, Requests, Nat))
                         = SumFunctionOnSet([x \in D |-> take[x][c]], D)
       /\ \A x \in D : UnitsOf(Of(rows, "RESERVED", Claims, {r}, {x}))
                         = SumFunctionOnSet([c \in S |-> take[x][c]], S)
  <2>1. Planned(r, take, S, rows) BY <1>8 DEF Planned
  <2>2. S \in SUBSET Claims /\ IsFiniteSet(S) BY <1>5
  <2>3. take \in [DOMAIN Want[r] -> [S -> Nat]] BY <1>9
  <2> HIDE DEF S, Writes, Made, D
  <2>4. HoldPlan(r, take, S, rows) BY ONLY <2>1, <2>2, <2>3, r \in Requests, PlannedRows
  <2> QED BY <2>4 DEF D, HoldPlan
<1>11. /\ \A x \in D : UnitsOf(Of(rows, "RESERVED", Claims, {r}, {x})) = Want[r][x]
       /\ \A c \in S : UnitsOf(Of(rows, "RESERVED", {c}, Requests, Nat)) <= Available(c)
       /\ reserved' = [c \in Claims |-> reserved[c] + UnitsOf({a \in rows : a.credit = c})]
       /\ allocs' = allocs \cup rows
  <2>1. Writes(take, rows) BY <1>8
  <2>2. /\ \A x \in D : SumFunctionOnSet([c \in S |-> take[x][c]], S) = Want[r][x]
        /\ reserved' = [c \in Claims |-> reserved[c] + UnitsOf({a \in rows : a.credit = c})]
        /\ allocs' = allocs \cup rows
    BY <2>1
  <2> HIDE DEF S, Writes, Made
  <2>3. \A x \in D : UnitsOf(Of(rows, "RESERVED", Claims, {r}, {x})) = Want[r][x] BY <2>2, <1>10
  <2>4. \A c \in S : UnitsOf(Of(rows, "RESERVED", {c}, Requests, Nat)) <= Available(c) BY <1>9, <1>10
  <2> QED BY <2>2, <2>3, <2>4
<1> HIDE DEF S, Writes, Made, D
<1>12. /\ allocs \in SUBSET Allocation /\ IsFiniteSet(allocs) /\ \A a \in allocs : RowFits(a)
       /\ allocs \cap rows = {}
  <2>1. allocs \in SUBSET Allocation /\ IsFiniteSet(allocs) /\ \A a \in allocs : RowFits(a)
    BY <1>4 DEF TypeOK, RowsFit
  <2>2. \A a \in allocs : a.request # r BY <2>1, <1>1 DEF RowFits
  <2> QED BY <2>1, <2>2, <1>10
<1>13. \A s, C, R, X : UnitsOf(Of(allocs', s, C, R, X))
                         = UnitsOf(Of(allocs, s, C, R, X)) + UnitsOf(Of(rows, s, C, R, X))
  BY <1>10, <1>11, <1>12, OfAdded
<1>14. \A c : {a \in rows : a.credit = c} = Of(rows, "RESERVED", {c}, Requests, Nat)
  <2>1. \A a \in rows : a.status = "RESERVED" /\ a.request \in Requests /\ a.date \in Nat
    BY <1>10 DEF Allocation
  <2> QED BY <2>1 DEF Of
<1>15. \A C, R, X : UnitsOf(Of(rows, "USED", C, R, X)) = 0
  <2> TAKE C, R, X
  <2>1. Of(rows, "USED", C, R, X) = {} BY <1>10 DEF Of
  <2> QED BY <2>1, UnitsNone
<1>16. \A s, C, R, X : UnitsOf(Of(rows, s, C, R, X)) \in Nat BY <1>10, OfFinite
<1>17. \A s, C, R, X : UnitsOf(Of(allocs, s, C, R, X)) \in Nat BY <1>12, OfFinite
<1>18. rstatus' \in [Requests -> Status] /\ rstatus'[r] = "PENDING"
       /\ \A q \in Requests : q # r => rstatus'[q] = rstatus[q]
  BY <1>1, <1>4 DEF TypeOK, Status
<1>19. TypeOK'
  <2>1. allocs' \in SUBSET Allocation BY <1>10, <1>11, <1>12
  <2>2. reserved' \in [Claims -> Int]
    <3>1. \A c \in Claims : UnitsOf({a \in rows : a.credit = c}) \in Nat BY <1>14, <1>16
    <3> QED BY <3>1, <1>4, <1>11 DEF TypeOK
  <2> QED BY <2>1, <2>2, <1>1, <1>4, <1>18 DEF TypeOK, claimVars
<1>20. RowsFit'
  <2>1. IsFiniteSet(allocs') BY <1>10, <1>11, <1>12, FS_Union
  <2>2. ASSUME NEW a \in rows PROVE RowFits(a)'
    <3>1. /\ a.status = "RESERVED" /\ a.request = r /\ a.units > 0 /\ a.credit \in S
          /\ a.date \in DOMAIN Want[r] /\ take[a.date][a.credit] > 0
      BY <1>10 DEF D
    <3>2. Covers(a.credit, a.date) /\ credited[a.credit] > 0 BY <3>1, <1>5, <1>9 DEF D
    <3>3. a.date < expires[a.credit] BY <3>2 DEF Covers
    <3> QED BY <3>1, <3>2, <3>3, <1>1, <1>18 DEF RowFits
  <2>3. ASSUME NEW a \in allocs PROVE RowFits(a)'
    <3>1. RowFits(a) /\ a.request # r /\ a.request \in Requests
      BY <1>1, <1>12 DEF RowFits, Allocation
    <3>2. rstatus'[a.request] = rstatus[a.request] BY <3>1, <1>18
    <3> QED BY <3>1, <3>2, <1>1 DEF RowFits
  <2> QED BY <2>1, <2>2, <2>3, <1>11 DEF RowsFit
<1>21. CreditsFit' BY <1>1, <1>4 DEF CreditsFit, claimVars
<1>22. Accounts'
  <2>1. ASSUME NEW c \in Claims
        PROVE  /\ reserved'[c] = Held("RESERVED", c)' /\ used'[c] = Held("USED", c)'
               /\ credited'[c] > 0 => reserved'[c] + used'[c] <= worked'[c].units
    <3> DEFINE more == UnitsOf(Of(rows, "RESERVED", {c}, Requests, Nat))
    <3>1. /\ reserved[c] = Held("RESERVED", c) /\ used[c] = Held("USED", c)
          /\ credited[c] > 0 => reserved[c] + used[c] <= worked[c].units
      BY <1>4 DEF Accounts
    <3>2. Held("RESERVED", c)' = Held("RESERVED", c) + more /\ Held("USED", c)' = Held("USED", c) + 0
          /\ Held("RESERVED", c) \in Nat /\ Held("USED", c) \in Nat /\ more \in Nat
      BY <1>13, <1>15, <1>16, <1>17 DEF Held
    <3>3. reserved'[c] = reserved[c] + more /\ used'[c] = used[c] BY <1>1, <1>11, <1>14
    <3>4. credited' = credited /\ worked' = worked /\ worked[c].units \in {1, 2}
      BY <1>1, <1>4 DEF claimVars, TypeOK
    <3>5. c \in S => reserved[c] + more + used[c] <= worked[c].units
      <4>1. c \in S => more <= Available(c) BY <1>11
      <4> HIDE DEF more
      <4> QED BY <4>1, <3>1, <3>2, <3>4 DEF Available, Earned
    <3>6. c \notin S => more = 0
      <4>1. c \notin S => Of(rows, "RESERVED", {c}, Requests, Nat) = {} BY <1>10 DEF Of
      <4> QED BY <4>1, UnitsNone
    <3> HIDE DEF more
    <3>7. credited[c] > 0 => reserved[c] + more + used[c] <= worked[c].units
      BY <3>1, <3>2, <3>5, <3>6
    <3> QED BY <3>1, <3>2, <3>3, <3>4, <3>7
  <2> QED BY <2>1 DEF Accounts
<1>23. Covered'
  <2>1. ASSUME NEW q \in Requests, NEW x \in DOMAIN Want[q]
        PROVE  /\ HeldOn("RESERVED", q, x)' = IF rstatus'[q] = "PENDING" THEN Want[q][x] ELSE 0
               /\ HeldOn("USED", q, x)' = IF rstatus'[q] = "APPROVED" THEN Want[q][x] ELSE 0
    <3> DEFINE more == UnitsOf(Of(rows, "RESERVED", Claims, {q}, {x}))
    <3>1. /\ HeldOn("RESERVED", q, x)' = HeldOn("RESERVED", q, x) + more
          /\ HeldOn("USED", q, x)' = HeldOn("USED", q, x) + 0
          /\ HeldOn("RESERVED", q, x) \in Nat /\ HeldOn("USED", q, x) \in Nat /\ more \in Nat
      BY <1>13, <1>15, <1>16, <1>17 DEF HeldOn
    <3>2. /\ HeldOn("RESERVED", q, x) = IF rstatus[q] = "PENDING" THEN Want[q][x] ELSE 0
          /\ HeldOn("USED", q, x) = IF rstatus[q] = "APPROVED" THEN Want[q][x] ELSE 0
      BY <1>4 DEF Covered
    <3>3. Want[q][x] \in Nat BY WantIs
    <3>4. CASE q = r
      <4>1. more = Want[q][x] BY <3>4, <1>11 DEF D
      <4> HIDE DEF more
      <4> QED BY <3>1, <3>2, <3>3, <3>4, <4>1, <1>1, <1>18
    <3>5. CASE q # r
      <4>1. Of(rows, "RESERVED", Claims, {q}, {x}) = {} BY <3>5, <1>10 DEF Of
      <4>2. more = 0 BY <4>1, UnitsNone
      <4> HIDE DEF more
      <4> QED BY <3>1, <3>2, <3>5, <4>2, <1>18
    <3> QED BY <3>4, <3>5
  <2> QED BY <2>1 DEF Covered
<1> QED BY <1>19, <1>20, <1>21, <1>22, <1>23 DEF OffInv

\* What is not an operation on leave leaves the rows and their units alone.
LEMMA SameUnits ==
  ASSUME allocs' = allocs
  PROVE  /\ \A s, c : Held(s, c)' = Held(s, c)
         /\ \A s, r, x : HeldOn(s, r, x)' = HeldOn(s, r, x)
BY DEF Held, HeldOn

\* No row reserves or uses units of a claim that is no credit.
LEMMA NoneHeld ==
  ASSUME OffInv, NEW c \in Claims, ~ (credited[c] > 0)
  PROVE  /\ Held("RESERVED", c) = 0 /\ Held("USED", c) = 0
         /\ \A a \in allocs : a.status \in {"RESERVED", "USED"} => a.credit # c
<1>1. \A a \in allocs : RowFits(a) BY DEF OffInv, RowsFit
<1>2. \A a \in allocs : a.status \in {"RESERVED", "USED"} => a.credit # c BY <1>1 DEF RowFits
<1>3. /\ Of(allocs, "RESERVED", {c}, Requests, Nat) = {}
      /\ Of(allocs, "USED", {c}, Requests, Nat) = {}
  BY <1>2 DEF Of
<1> QED BY <1>2, <1>3, UnitsNone DEF Held

LEMMA SubmitClaimKeeps ==
  ASSUME OffInv, NEW c \in Claims, NEW d, NEW w \in Worked, NEW u \in {1, 2}, SubmitClaim(c, d, w, u)
  PROVE  OffInv'
<1>1. /\ cstatus[c] = "NONE" /\ cstatus' = [cstatus EXCEPT ![c] = "PENDING"]
      /\ worked' = [worked EXCEPT ![c] = [date |-> w, units |-> u]]
      /\ snap' = [snap EXCEPT ![c] = policy]
      /\ UNCHANGED <<today, policy, creditVars, leaveVars, last, lateCancel>>
  BY DEF SubmitClaim
<1> USE DEF creditVars, leaveVars
<1>2. TypeOK BY DEF OffInv
<1>3. TypeOK'
  <2>1. [date |-> w, units |-> u] \in [date : Dates, units : {1, 2}] BY CompOffAssumption
  <2> QED BY <1>1, <1>2, <2>1 DEF TypeOK, Status
<1>4. credited[c] = 0 BY <1>1, <1>2 DEF OffInv, CreditsFit, TypeOK
<1>5. RowsFit' BY <1>1 DEF OffInv, RowsFit, RowFits
<1>6. CreditsFit' BY <1>1, <1>2, <1>4 DEF OffInv, CreditsFit, TypeOK
<1>7. Accounts'
  <2>1. \A b \in Claims : b # c => worked'[b] = worked[b] BY <1>1, <1>2 DEF TypeOK
  <2>2. Accounts BY DEF OffInv
  <2> QED BY <1>1, <1>4, <2>1, <2>2, SameUnits DEF Accounts
<1>8. Covered' BY <1>1, SameUnits DEF OffInv, Covered
<1> QED BY <1>3, <1>5, <1>6, <1>7, <1>8 DEF OffInv

LEMMA ApproveClaimKeeps ==
  ASSUME OffInv, NEW c \in Claims, NEW d \in CallDates, ApproveClaim(c, d)
  PROVE  OffInv'
<1>1. /\ cstatus[c] = "PENDING" /\ cstatus' = [cstatus EXCEPT ![c] = "APPROVED"]
      /\ credited' = [credited EXCEPT ![c] = d]
      /\ expires' = [expires EXCEPT ![c] = d + snap[c].validity]
      /\ last' = c
      /\ UNCHANGED <<today, policy, worked, snap, reserved, used, leaveVars, lateCancel>>
  BY DEF ApproveClaim
<1> USE DEF leaveVars
<1>2. TypeOK BY DEF OffInv
<1>3. d \in Nat /\ d > 0 BY CompOffAssumption DEF CallDates, Dates
<1>4. snap[c].validity \in Nat BY <1>2, CompOffAssumption DEF TypeOK, Policy
<1>5. TypeOK'
  <2>1. d + snap[c].validity \in Nat BY <1>3, <1>4
  <2> QED BY <1>1, <1>2, <1>3, <2>1 DEF TypeOK, Status
<1>6. credited[c] = 0 BY <1>1, <1>2 DEF OffInv, CreditsFit, TypeOK
<1>7. /\ \A a \in allocs : a.status \in {"RESERVED", "USED"} => a.credit # c
      /\ Held("RESERVED", c) = 0 /\ Held("USED", c) = 0
  BY <1>6, NoneHeld
<1>8. \A b \in Claims : b # c => credited'[b] = credited[b] /\ expires'[b] = expires[b]
  BY <1>1, <1>2 DEF TypeOK
<1>9. RowsFit'
  <2>1. allocs \in SUBSET Allocation BY <1>2 DEF TypeOK
  <2>2. \A a \in allocs : a.credit \in Claims BY <2>1 DEF Allocation
  <2>3. \A a \in allocs : RowFits(a) BY DEF OffInv, RowsFit
  <2>4. \A a \in allocs : RowFits(a)' BY <1>1, <1>7, <1>8, <2>2, <2>3 DEF RowFits
  <2> QED BY <1>1, <2>4 DEF OffInv, RowsFit
<1>10. CreditsFit'
  <2>1. credited'[c] = d /\ cstatus'[c] = "APPROVED" BY <1>1, <1>2 DEF TypeOK
  <2>2. \A b \in Claims : b # c => cstatus'[b] = cstatus[b] BY <1>1, <1>2 DEF TypeOK
  <2> QED BY <1>3, <1>8, <2>1, <2>2 DEF OffInv, CreditsFit
<1>11. Accounts'
  <2>1. Accounts BY DEF OffInv
  <2>2. worked[c].units \in {1, 2} BY <1>2 DEF TypeOK
  <2>3. reserved[c] + used[c] <= worked[c].units BY <1>7, <2>1, <2>2 DEF Accounts
  <2> QED BY <1>1, <1>8, <2>1, <2>3, SameUnits DEF Accounts
<1>12. Covered' BY <1>1, SameUnits DEF OffInv, Covered
<1> QED BY <1>5, <1>9, <1>10, <1>11, <1>12 DEF OffInv

LEMMA CloseClaimKeeps ==
  ASSUME OffInv, NEW c \in Claims, NEW s \in {"REJECTED", "CANCELLED"}, CloseClaim(c, s)
  PROVE  OffInv'
<1>1. /\ cstatus[c] = "PENDING" /\ cstatus' = [cstatus EXCEPT ![c] = s]
      /\ UNCHANGED <<today, policy, worked, snap, creditVars, leaveVars, last, lateCancel>>
  BY DEF CloseClaim
<1> USE DEF creditVars, leaveVars
<1>2. TypeOK BY DEF OffInv
<1>3. TypeOK' BY <1>1, <1>2 DEF TypeOK, Status
<1>4. RowsFit' BY <1>1 DEF OffInv, RowsFit, RowFits
<1>5. CreditsFit' BY <1>1, <1>2 DEF OffInv, CreditsFit, TypeOK
<1>6. Accounts' BY <1>1, SameUnits DEF OffInv, Accounts
<1>7. Covered' BY <1>1, SameUnits DEF OffInv, Covered
<1> QED BY <1>3, <1>4, <1>5, <1>6, <1>7 DEF OffInv

\* A change of the policy, midnight, or a step elsewhere.
LEMMA ElsewhereKeeps ==
  ASSUME OffInv, UNCHANGED <<claimVars, creditVars, leaveVars, last, lateCancel>>,
         today' \in Dates, policy' \in Policies
  PROVE  OffInv'
<1> USE DEF creditVars, leaveVars, claimVars
<1>1. TypeOK' BY DEF OffInv, TypeOK
<1>2. RowsFit' BY DEF OffInv, RowsFit, RowFits
<1>3. CreditsFit' BY DEF OffInv, CreditsFit
<1>4. Accounts' BY SameUnits DEF OffInv, Accounts
<1>5. Covered' BY SameUnits DEF OffInv, Covered
<1> QED BY <1>1, <1>2, <1>3, <1>4, <1>5 DEF OffInv

LEMMA OffNext == OffInv /\ [Next]_vars => OffInv'
<1> SUFFICES ASSUME OffInv, [Next]_vars PROVE OffInv' OBVIOUS
<1>1. TypeOK BY DEF OffInv
<1>2. ASSUME NEW c \in Claims, NEW d \in CallDates, NEW w \in Worked, NEW u \in {1, 2},
             SubmitClaim(c, d, w, u)
      PROVE  OffInv'
  BY <1>2, SubmitClaimKeeps
<1>3. ASSUME NEW c \in Claims, NEW d \in CallDates, ApproveClaim(c, d) PROVE OffInv'
  BY <1>3, ApproveClaimKeeps
<1>4. ASSUME NEW c \in Claims, NEW s \in {"REJECTED", "CANCELLED"}, CloseClaim(c, s) PROVE OffInv'
  BY <1>4, CloseClaimKeeps
<1>5. ASSUME NEW r \in Requests, NEW d, SubmitLeave(r, d) PROVE OffInv'
  BY <1>5, SubmitLeaveKeeps
<1>6. ASSUME NEW r \in Requests, NEW d, NEW s \in {"REJECTED", "CANCELLED"}, CloseLeave(r, s, d)
      PROVE  OffInv'
  BY <1>6, CloseLeaveKeeps
<1>7. ASSUME NEW r \in Requests, NEW d, CancelApproved(r, d) PROVE OffInv'
  BY <1>7, CancelApprovedKeeps
<1>8. ASSUME NEW r \in Requests, ApproveLeave(r) PROVE OffInv'
  BY <1>8, ApproveLeaveKeeps
<1>9. ASSUME NEW p \in Policies, SetPolicy(p) PROVE OffInv'
  BY <1>1, <1>9, ElsewhereKeeps DEF SetPolicy, TypeOK
<1>10. CASE NextDay
  <2>1. today' \in Dates BY <1>1, <1>10, CompOffAssumption DEF NextDay, TypeOK, Dates
  <2>2. policy' \in Policies BY <1>1, <1>10 DEF NextDay, TypeOK
  <2>3. UNCHANGED <<claimVars, creditVars, leaveVars, last, lateCancel>> BY <1>10 DEF NextDay
  <2> QED BY <2>1, <2>2, <2>3, ElsewhereKeeps
<1>11. CASE UNCHANGED vars
  <2>1. UNCHANGED <<claimVars, creditVars, leaveVars, last, lateCancel>>
    BY <1>11 DEF vars
  <2>2. today' \in Dates /\ policy' \in Policies BY <1>1, <1>11 DEF vars, TypeOK
  <2> QED BY <2>1, <2>2, ElsewhereKeeps
<1> QED BY <1>2, <1>3, <1>4, <1>5, <1>6, <1>7, <1>8, <1>9, <1>10, <1>11 DEF Next

LEMMA OffHolds == Spec => []OffInv
BY OffInit, OffNext, PTL DEF Spec

\* The reserved and used units of every credit are those of the rows that say so, and
\* never more than the claim earned, however its units were reserved, used and released.
LEMMA CreditsAddUp == Spec => []CreditsAccount
<1>1. OffInv => CreditsAccount
  <2> SUFFICES ASSUME OffInv PROVE CreditsAccount OBVIOUS
  <2>1. TypeOK /\ allocs \in SUBSET Allocation BY DEF OffInv, TypeOK
  <2>2. ASSUME NEW c \in Claims
        PROVE  /\ reserved[c] = UnitsOf(Rows(c, {"RESERVED"}))
               /\ used[c] = UnitsOf(Rows(c, {"USED"}))
               /\ c \in Credits => reserved[c] + used[c] <= Earned(c)
               /\ c \notin Credits => reserved[c] + used[c] = 0
    <3>1. \A s : Rows(c, {s}) = Of(allocs, s, {c}, Requests, Nat)
      <4>1. \A a \in allocs : a.request \in Requests /\ a.date \in Nat BY <2>1 DEF Allocation
      <4> QED BY <4>1 DEF Rows, Of
    <3>2. /\ reserved[c] = Held("RESERVED", c) /\ used[c] = Held("USED", c)
          /\ credited[c] > 0 => reserved[c] + used[c] <= worked[c].units
      BY DEF OffInv, Accounts
    <3>3. c \notin Credits => Held("RESERVED", c) = 0 /\ Held("USED", c) = 0
      BY NoneHeld DEF Credits
    <3>4. reserved[c] = UnitsOf(Rows(c, {"RESERVED"})) /\ used[c] = UnitsOf(Rows(c, {"USED"}))
      BY <3>1, <3>2 DEF Held
    <3>5. c \in Credits => reserved[c] + used[c] <= Earned(c) BY <3>2 DEF Credits, Earned
    <3>6. c \notin Credits => reserved[c] + used[c] = 0
      <4> HIDE DEF Held
      <4> QED BY <3>2, <3>3
    <3> QED BY <3>4, <3>5, <3>6
  <2> QED BY <2>1, <2>2 DEF CreditsAccount
<1> QED BY <1>1, OffHolds, PTL

\* A request holds what it asked for on each of its dates while it is pending or
\* approved, and nothing otherwise; no credit covers a date on which it has expired.
LEMMA LeaveCovered == Spec => []LeaveIsCovered
<1>1. OffInv => LeaveIsCovered
  <2> SUFFICES ASSUME OffInv PROVE LeaveIsCovered OBVIOUS
  <2>1. allocs \in SUBSET Allocation /\ \A a \in allocs : RowFits(a) BY DEF OffInv, TypeOK, RowsFit
  <2>2. ASSUME NEW r \in Requests, NEW x \in DOMAIN Want[r]
        PROVE  /\ UnitsOf({a \in RowsFor(r, "RESERVED") : a.date = x})
                    = IF rstatus[r] = "PENDING" THEN Want[r][x] ELSE 0
               /\ UnitsOf({a \in RowsFor(r, "USED") : a.date = x})
                    = IF rstatus[r] = "APPROVED" THEN Want[r][x] ELSE 0
    <3>1. \A s : {a \in RowsFor(r, s) : a.date = x} = Of(allocs, s, Claims, {r}, {x})
      <4>1. \A a \in allocs : a.credit \in Claims BY <2>1 DEF Allocation
      <4> QED BY <4>1 DEF RowsFor, Of
    <3> QED BY <3>1 DEF OffInv, Covered, HeldOn
  <2>3. \A a \in allocs : a.status \in {"RESERVED", "USED"} => a.date < expires[a.credit]
    BY <2>1 DEF RowFits
  <2> QED BY <2>2, <2>3 DEF LeaveIsCovered
<1> QED BY <1>1, OffHolds, PTL

\* What the allocation rows say of the units of credits and of requests is true of both.
THEOREM AllocationsAgree == Spec => []AllocationsHold
<1>1. CreditsAccount /\ LeaveIsCovered => AllocationsHold BY DEF AllocationsHold
<1> QED BY <1>1, CreditsAddUp, LeaveCovered, PTL

-----------------------------------------------------------------------------
(* Compensatory leave as reservations *)

\* What was released belongs to a request that was rejected, withdrawn or cancelled.
ClosedRows ==
  \A a \in allocs :
    a.status \in {"RELEASED", "EXPIRED"} => rstatus[a.request] \in {"REJECTED", "CANCELLED"}

TakenRows(rows, r, c) == {a \in rows : a.request = r /\ a.credit = c}

\* The status of the rows that hold units for a request in progress
Holds(r, s) ==
  s \in {"RESERVED", "USED"} /\ rstatus[r] = IF s = "RESERVED" THEN "PENDING" ELSE "APPROVED"

\* Every row of a request that is pending is reserved, every row of one that is approved
\* is used.
LEMMA OneStatus ==
  ASSUME OffInv, ClosedRows, NEW r \in Requests, NEW s, Holds(r, s)
  PROVE  /\ \A a \in allocs : a.request = r <=> a \in RowsFor(r, s)
         /\ \A c : TakenRows(allocs, r, c) = {a \in RowsFor(r, s) : a.credit = c}
<1>1. \A a \in allocs : RowFits(a) /\ a.status \in AllocationStatus
  BY DEF OffInv, RowsFit, TypeOK, Allocation
<1>2. \A a \in allocs : a.request = r => a.status = s
  BY <1>1 DEF ClosedRows, RowFits, Holds, AllocationStatus
<1> QED BY <1>2 DEF RowsFor, TakenRows

\* The rows S of A are replaced by those that i gives for them, each with its units.
Replaced(A, S, i, B) ==
  /\ A \in SUBSET Allocation /\ IsFiniteSet(A) /\ S \in SUBSET A
  /\ \A a \in S : /\ i[a] \in Allocation /\ i[a].units = a.units
                  /\ i[a].credit = a.credit /\ i[a].request = a.request
                  /\ i[a] \notin A \ S
  /\ \A a, b \in S : i[a] = i[b] => a = b
  /\ B = (A \ S) \cup {i[a] : a \in S}

LEMMA TakenByReplaced ==
  ASSUME NEW A, NEW S, NEW i, NEW B, Replaced(A, S, i, B), NEW r, NEW c
  PROVE  UnitsOf(TakenRows(B, r, c)) = UnitsOf(TakenRows(A, r, c))
<1>0. /\ A \in SUBSET Allocation /\ IsFiniteSet(A) /\ S \in SUBSET A
      /\ \A a \in S : /\ i[a] \in Allocation /\ i[a].units = a.units
                      /\ i[a].credit = a.credit /\ i[a].request = a.request
                      /\ i[a] \notin A \ S
      /\ \A a, b \in S : i[a] = i[b] => a = b
      /\ \A b : b \in B <=> b \in A \ S \/ \E a \in S : b = i[a]
  BY DEF Replaced
<1> DEFINE T == TakenRows(S, r, c)
           L == TakenRows(A \ S, r, c)
           M == {i[a] : a \in T}
<1>1. T \in SUBSET S /\ T \in SUBSET A /\ L \in SUBSET (A \ S) /\ L \in SUBSET A
  BY <1>0 DEF TakenRows
<1>2. TakenRows(A, r, c) = L \cup T /\ L \cap T = {}
  <2>1. \A a : a \in T <=> a \in S /\ a.request = r /\ a.credit = c BY DEF TakenRows
  <2>2. \A a : a \in L <=> a \in A \ S /\ a.request = r /\ a.credit = c BY DEF TakenRows
  <2>3. \A a : a \in TakenRows(A, r, c) <=> a \in A /\ a.request = r /\ a.credit = c BY DEF TakenRows
  <2> HIDE DEF T, L
  <2> QED BY <1>0, <1>1, <2>1, <2>2, <2>3
<1>3. TakenRows(B, r, c) = L \cup M
  <2>1. \A m : m \in M <=> (\E a \in S : m = i[a]) /\ m.request = r /\ m.credit = c
    BY <1>0 DEF TakenRows
  <2>2. \A m : m \in L <=> m \in A \ S /\ m.request = r /\ m.credit = c BY DEF TakenRows
  <2>3. \A m : m \in TakenRows(B, r, c) <=> m \in B /\ m.request = r /\ m.credit = c BY DEF TakenRows
  <2> HIDE DEF L, M
  <2> QED BY <1>0, <2>1, <2>2, <2>3
<1> HIDE DEF T, L
<1>4. L \cap M = {} BY <1>0, <1>1
<1>5. /\ L \in SUBSET Allocation /\ IsFiniteSet(L)
      /\ T \in SUBSET Allocation /\ IsFiniteSet(T)
  BY <1>0, <1>1, FS_Subset
<1>6. M \in SUBSET Allocation /\ IsFiniteSet(M) /\ UnitsOf(M) = UnitsOf(T)
  <2>1. \A a \in T : i[a] \in Allocation /\ i[a].units = a.units BY <1>0, <1>1
  <2>2. \A a, b \in T : i[a] = i[b] => a = b BY <1>0, <1>1
  <2> QED BY ONLY <1>5, <2>1, <2>2, UnitsMoved
<1> HIDE DEF M
<1>7. UnitsOf(L \cup M) = UnitsOf(L) + UnitsOf(M) BY <1>4, <1>5, <1>6, UnitsTogether
<1>8. UnitsOf(L \cup T) = UnitsOf(L) + UnitsOf(T) BY <1>2, <1>5, UnitsTogether
<1> QED BY <1>2, <1>3, <1>6, <1>7, <1>8

\* A decision rewrites the rows of its request, to the status w gives for their credit.
Decides(r, s, w) ==
  /\ Holds(r, s) /\ w \in [Claims -> AllocationStatus \ {s}]
  /\ allocs' = (allocs \ RowsFor(r, s)) \cup {[a EXCEPT !.status = w[a.credit]] : a \in RowsFor(r, s)}

LEMMA DecisionTakes ==
  ASSUME OffInv, ClosedRows, NEW r \in Requests, NEW s, NEW w, Decides(r, s, w)
  PROVE  TakenUnits' = TakenUnits
<1> DEFINE S == RowsFor(r, s)
           i == [a \in S |-> [a EXCEPT !.status = w[a.credit]]]
<1>1. allocs \in SUBSET Allocation /\ IsFiniteSet(allocs) /\ S \in SUBSET allocs
  BY AccountsRead
<1>2. \A a \in S : a \in Allocation /\ a.status = s BY <1>1 DEF RowsFor
<1>3. \A a \in S : /\ i[a] \in Allocation /\ i[a].status # s /\ i[a].units = a.units
                   /\ i[a].credit = a.credit /\ i[a].request = a.request /\ i[a].date = a.date
  BY <1>2 DEF Decides, Allocation
<1>4. allocs' = (allocs \ S) \cup {i[a] : a \in S} BY DEF Decides
<1>5. \A a \in allocs : a.request = r <=> a \in S BY OneStatus DEF Decides
<1>6. \A a \in S : a.request = r BY DEF RowsFor
<1> HIDE DEF S, i
<1>7. ASSUME NEW a \in S, NEW b \in S, i[a] = i[b] PROVE a = b
  <2>1. /\ a.units = b.units /\ a.credit = b.credit /\ a.request = b.request
        /\ a.date = b.date /\ a.status = b.status
    <3>1. a.units = i[a].units /\ a.credit = i[a].credit /\ a.request = i[a].request /\ a.date = i[a].date
      BY <1>3
    <3>2. b.units = i[b].units /\ b.credit = i[b].credit /\ b.request = i[b].request /\ b.date = i[b].date
      BY <1>3
    <3> QED BY <1>2, <1>7, <3>1, <3>2
  <2>2. a \in Allocation /\ b \in Allocation BY <1>2
  <2> QED BY <2>1, <2>2 DEF Allocation
<1>8. \A a \in S : i[a] \notin allocs \ S BY <1>3, <1>5, <1>6
<1>9. \A q, c : UnitsOf(TakenRows(allocs', q, c)) = UnitsOf(TakenRows(allocs, q, c))
  <2> TAKE q, c
  <2>1. \A a \in S : /\ i[a] \in Allocation /\ i[a].units = a.units
                     /\ i[a].credit = a.credit /\ i[a].request = a.request
    BY <1>3
  <2>2. \A a, b \in S : i[a] = i[b] => a = b BY <1>7
  <2>3. Replaced(allocs, S, i, allocs') BY ONLY <1>1, <1>4, <1>8, <2>1, <2>2 DEF Replaced
  <2> QED BY <2>3, TakenByReplaced
<1>10. \A q, c : Taken(q, c)' = Taken(q, c) BY <1>9 DEF Taken, TakenRows
<1> QED BY <1>10 DEF TakenUnits

\* What a submission adds
Adds(r, rows) ==
  /\ rows \in SUBSET Allocation /\ IsFiniteSet(rows)
  /\ \A a \in rows : a.status = "RESERVED" /\ a.request = r /\ a.credit \in Credits
  /\ reserved' = [c \in Claims |-> reserved[c] + UnitsOf({a \in rows : a.credit = c})]
  /\ allocs' = allocs \cup rows

LEMMA SubmitAdds ==
  ASSUME OffInv, OffInv', NEW r \in Requests, NEW d, SubmitLeave(r, d)
  PROVE  \E rows : Adds(r, rows)
<1> DEFINE S == Live(d)
           Made(take) == {a \in Reservation(r, take, S) : a.units > 0}
           Writes(rows) ==
             /\ reserved' = [c \in Claims |-> reserved[c] + UnitsOf({a \in rows : a.credit = c})]
             /\ allocs' = allocs \cup rows
<1>1. \E take : Writes(Made(take)) BY DEF SubmitLeave
<1>2. PICK take : Writes(Made(take)) BY <1>1
<1>3. \A a \in Made(take) : a.status = "RESERVED" /\ a.request = r /\ a.credit \in Credits
  BY DEF Reservation, Live
<1>4. Made(take) \in SUBSET allocs' BY <1>2
<1> HIDE DEF Made
<1>5. allocs' \in SUBSET Allocation /\ IsFiniteSet(allocs') BY DEF OffInv, TypeOK, RowsFit
<1>6. Made(take) \in SUBSET Allocation /\ IsFiniteSet(Made(take)) BY <1>4, <1>5, FS_Subset
<1>7. Adds(r, Made(take)) BY <1>2, <1>3, <1>6 DEF Adds
<1> QED BY <1>7

\* Rows are released by a decision against the request only.
LEMMA ClosedNext ==
  ASSUME OffInv, OffInv', ClosedRows, [Next]_vars
  PROVE  ClosedRows'
<1>1. TypeOK /\ allocs \in SUBSET Allocation BY DEF OffInv, TypeOK
<1>2. \A a \in allocs : RowFits(a) /\ a.request \in Requests
  BY <1>1 DEF OffInv, RowsFit, Allocation
<1>3. ASSUME UNCHANGED <<rstatus, allocs>> PROVE ClosedRows' BY <1>3 DEF ClosedRows
<1>4. ASSUME NEW r \in Requests, NEW d, SubmitLeave(r, d) PROVE ClosedRows'
  <2>1. PICK rows : Adds(r, rows) BY <1>4, SubmitAdds
  <2>2. rstatus[r] = "NONE" /\ rstatus' = [rstatus EXCEPT ![r] = "PENDING"] BY <1>4 DEF SubmitLeave
  <2>3. \A a \in allocs : a.request # r /\ rstatus'[a.request] = rstatus[a.request]
    BY <1>1, <1>2, <2>2 DEF RowFits, TypeOK
  <2> QED BY <2>1, <2>3 DEF Adds, ClosedRows
<1>5. ASSUME NEW r \in Requests, ApproveLeave(r) PROVE ClosedRows'
  <2> DEFINE S == RowsFor(r, "RESERVED")
             M == {[a EXCEPT !.status = "USED"] : a \in S}
  <2>1. /\ rstatus[r] = "PENDING" /\ rstatus' = [rstatus EXCEPT ![r] = "APPROVED"]
        /\ allocs' = (allocs \ S) \cup M
    BY <1>5 DEF ApproveLeave, UseReserved, Rewritten
  <2>2. \A m \in M : m.status = "USED" BY <1>1 DEF RowsFor, Allocation
  <2>3. \A a \in allocs \ S : a.request # r
    BY <2>1, OneStatus DEF Holds
  <2>4. \A a \in allocs \ S : rstatus'[a.request] = rstatus[a.request]
    BY <1>1, <1>2, <2>1, <2>3 DEF TypeOK
  <2> HIDE DEF S, M
  <2> QED BY <2>1, <2>2, <2>4 DEF ClosedRows
<1>6. ASSUME NEW r \in Requests, NEW s \in {"RESERVED", "USED"}, NEW t \in {"REJECTED", "CANCELLED"}, NEW d,
             rstatus' = [rstatus EXCEPT ![r] = t],
             allocs' = (allocs \ RowsFor(r, s))
                         \cup {[a EXCEPT !.status = ReleasedOn(a.credit, d)] : a \in RowsFor(r, s)}
      PROVE  ClosedRows'
  <2> DEFINE S == RowsFor(r, s)
             M == {[a EXCEPT !.status = ReleasedOn(a.credit, d)] : a \in S}
  <2>1. allocs' = (allocs \ S) \cup M BY <1>6
  <2>2. \A m \in M : m.request = r BY <1>1 DEF RowsFor, Allocation
  <2>3. \A q \in Requests : rstatus'[q] = IF q = r THEN t ELSE rstatus[q] BY <1>1, <1>6 DEF TypeOK
  <2> HIDE DEF M, S
  <2> QED BY <1>2, <2>1, <2>2, <2>3 DEF ClosedRows
<1>7. ASSUME NEW r \in Requests, NEW s \in {"REJECTED", "CANCELLED"}, NEW d, CloseLeave(r, s, d)
      PROVE  ClosedRows'
  <2>1. /\ rstatus' = [rstatus EXCEPT ![r] = s]
        /\ allocs' = (allocs \ RowsFor(r, "RESERVED"))
                        \cup {[a EXCEPT !.status = ReleasedOn(a.credit, d)] : a \in RowsFor(r, "RESERVED")}
    BY <1>7 DEF CloseLeave, ReleaseReserved, Rewritten
  <2> QED BY <1>6, <2>1
<1>8. ASSUME NEW r \in Requests, NEW d, CancelApproved(r, d) PROVE ClosedRows'
  <2>1. /\ rstatus' = [rstatus EXCEPT ![r] = "CANCELLED"]
        /\ allocs' = (allocs \ RowsFor(r, "USED"))
                        \cup {[a EXCEPT !.status = ReleasedOn(a.credit, d)] : a \in RowsFor(r, "USED")}
    BY <1>8 DEF CancelApproved, Rewritten
  <2> QED BY <1>6, <2>1
<1>9. ASSUME \/ \E c \in Claims, d \in CallDates : \/ \E w \in Worked, u \in {1, 2} : SubmitClaim(c, d, w, u)
                                                  \/ ApproveClaim(c, d)
             \/ \E c \in Claims, s \in {"REJECTED", "CANCELLED"} : CloseClaim(c, s)
             \/ \E p \in Policies : SetPolicy(p)
             \/ NextDay \/ UNCHANGED vars
      PROVE  UNCHANGED <<rstatus, allocs>>
  BY Zenon, <1>9 DEF SubmitClaim, ApproveClaim, CloseClaim, SetPolicy, NextDay, vars, leaveVars
<1> QED BY Zenon, <1>3, <1>4, <1>5, <1>7, <1>8, <1>9 DEF Next

\* What a decision moves is what the submission took.
LEMMA DecisionMoves ==
  ASSUME OffInv, ClosedRows, NEW r \in Requests, NEW s, Holds(r, s), NEW c \in Claims
  PROVE  /\ TakenUnits[r][c] = UnitsOf({a \in RowsFor(r, s) : a.credit = c})
         /\ TakenUnits[r][c] \in Nat
<1>1. TakenRows(allocs, r, c) = {a \in RowsFor(r, s) : a.credit = c} BY OneStatus
<1>2. TakenUnits[r][c] = UnitsOf(TakenRows(allocs, r, c)) BY DEF TakenUnits, Taken, TakenRows
<1>3. TakenRows(allocs, r, c) \in SUBSET allocs BY DEF TakenRows
<1>4. TakenRows(allocs, r, c) \in SUBSET Allocation /\ IsFiniteSet(TakenRows(allocs, r, c))
  BY <1>3, AccountsRead, FS_Subset
<1> QED BY <1>1, <1>2, <1>4, UnitsAre

LEMMA EarnedStays == ASSUME UNCHANGED <<credited, worked>> PROVE EarnedUnits' = EarnedUnits
BY DEF EarnedUnits, Credits, Earned

LEMMA SubmitCredits ==
  ASSUME OffInv, OffInv', ClosedRows, NEW r \in Requests, NEW d, SubmitLeave(r, d)
  PROVE  CreditBooks!Hold(r)
<1>1. /\ rstatus[r] = "NONE" /\ rstatus' = [rstatus EXCEPT ![r] = "PENDING"]
      /\ UNCHANGED <<credited, worked, used>>
  BY DEF SubmitLeave, claimVars
<1>2. PICK rows : Adds(r, rows) BY SubmitAdds
<1> DEFINE new(c) == {a \in rows : a.credit = c}
<1>3. /\ rows \in SUBSET Allocation /\ IsFiniteSet(rows)
      /\ \A a \in rows : a.request = r /\ a.credit \in Credits
      /\ reserved' = [c \in Claims |-> reserved[c] + UnitsOf(new(c))]
      /\ allocs' = allocs \cup rows
  BY <1>2 DEF Adds
<1>4. \A a \in allocs : a.request # r BY <1>1 DEF OffInv, RowsFit, RowFits
<1>5. \A c : TakenRows(allocs', r, c) = new(c) BY <1>3, <1>4 DEF TakenRows
<1>6. \A q : q # r => \A c : TakenRows(allocs', q, c) = TakenRows(allocs, q, c) BY <1>3 DEF TakenRows
<1>7. \A c \in Claims : UnitsOf(new(c)) \in Nat
  <2> TAKE c \in Claims
  <2>1. new(c) \in SUBSET rows OBVIOUS
  <2>2. new(c) \in SUBSET Allocation /\ IsFiniteSet(new(c)) BY <1>3, <2>1, FS_Subset
  <2> QED BY <2>2, UnitsAre
<1>8. \A c \in Claims : TakenUnits'[r][c] = UnitsOf(new(c))
  BY <1>5 DEF TakenUnits, Taken, TakenRows
<1>9. TakenUnits'[r] \in [Claims -> Nat]
  <2>1. \A c \in Claims : TakenUnits'[r][c] \in Nat BY <1>7, <1>8
  <2>2. TakenUnits'[r] = [c \in Claims |-> Taken(r, c)'] BY DEF TakenUnits
  <2> QED BY <2>1, <2>2
<1>10. TakenUnits' = [TakenUnits EXCEPT ![r] = TakenUnits'[r]]
  <2>1. \A q \in Requests \ {r}, c \in Claims : Taken(q, c)' = Taken(q, c)
    <3>1. \A q, c : Taken(q, c) = UnitsOf(TakenRows(allocs, q, c)) BY DEF Taken, TakenRows
    <3>2. \A q, c : Taken(q, c)' = UnitsOf(TakenRows(allocs', q, c)) BY DEF Taken, TakenRows
    <3> QED BY <1>6, <3>1, <3>2
  <2>2. \A q \in Requests \ {r} : TakenUnits'[q] = TakenUnits[q] BY <2>1 DEF TakenUnits
  <2>3. TakenUnits' = [q \in Requests |-> TakenUnits'[q]] BY DEF TakenUnits
  <2> QED BY <2>2, <2>3 DEF TakenUnits
<1>11. reserved' = [c \in Claims |-> reserved[c] + TakenUnits'[r][c]] BY <1>3, <1>8
<1>12. ASSUME NEW c \in Claims, TakenUnits'[r][c] > 0
       PROVE  reserved'[c] + used[c] <= EarnedUnits[c]
  <2>1. c \in Credits
    <3>1. c \notin Credits => new(c) = {} BY <1>3
    <3> QED BY <1>8, <1>12, <3>1, UnitsNone
  <2>2. reserved'[c] + used'[c] <= worked'[c].units
    BY <1>1, <2>1 DEF OffInv, Accounts, Credits
  <2> QED BY <1>1, <2>1, <2>2 DEF EarnedUnits, Earned
<1>13. EarnedUnits' = EarnedUnits BY <1>1, EarnedStays
<1> QED BY <1>1, <1>9, <1>10, <1>11, <1>12, <1>13 DEF CreditBooks!Hold

LEMMA ApproveCredits ==
  ASSUME OffInv, OffInv', ClosedRows, NEW r \in Requests, ApproveLeave(r)
  PROVE  CreditBooks!Spend(r)
<1> DEFINE w == [c \in Claims |-> "USED"]
<1>1. /\ rstatus[r] = "PENDING" /\ rstatus' = [rstatus EXCEPT ![r] = "APPROVED"]
      /\ reserved' = [c \in Claims |-> reserved[c] - UnitsOf({a \in RowsFor(r, "RESERVED") : a.credit = c})]
      /\ used' = [c \in Claims |-> used[c] + UnitsOf({a \in RowsFor(r, "RESERVED") : a.credit = c})]
      /\ allocs' = Rewritten(RowsFor(r, "RESERVED"), LAMBDA c : "USED")
      /\ UNCHANGED <<credited, worked>>
  BY DEF ApproveLeave, UseReserved, claimVars
<1>2. Holds(r, "RESERVED") BY <1>1 DEF Holds
<1>3. \A a \in RowsFor(r, "RESERVED") : a.credit \in Claims BY AccountsRead DEF Allocation
<1>4. Decides(r, "RESERVED", w) BY <1>1, <1>2, <1>3 DEF Decides, Rewritten, AllocationStatus
<1> HIDE DEF w
<1>5. TakenUnits' = TakenUnits BY <1>4, DecisionTakes
<1>6. \A c \in Claims : /\ reserved'[c] = reserved[c] - TakenUnits[r][c]
                        /\ used'[c] = used[c] + TakenUnits[r][c]
  BY <1>1, <1>2, DecisionMoves
<1>7. reserved' \in [Claims -> Int] /\ used' \in [Claims -> Int] BY DEF OffInv, TypeOK
<1>8. EarnedUnits' = EarnedUnits BY <1>1, EarnedStays
<1> QED BY <1>1, <1>5, <1>6, <1>7, <1>8 DEF CreditBooks!Spend, CreditBooks!Settles

LEMMA CloseCredits ==
  ASSUME OffInv, OffInv', ClosedRows, NEW r \in Requests, NEW s \in {"REJECTED", "CANCELLED"}, NEW d,
         CloseLeave(r, s, d)
  PROVE  CreditBooks!Release(r)
<1> DEFINE w == [c \in Claims |-> ReleasedOn(c, d)]
<1>1. /\ rstatus[r] = "PENDING" /\ rstatus' = [rstatus EXCEPT ![r] = s]
      /\ reserved' = [c \in Claims |-> reserved[c] - UnitsOf({a \in RowsFor(r, "RESERVED") : a.credit = c})]
      /\ used' = used
      /\ allocs' = Rewritten(RowsFor(r, "RESERVED"), LAMBDA c : ReleasedOn(c, d))
      /\ UNCHANGED <<credited, worked>>
  BY DEF CloseLeave, ReleaseReserved, claimVars
<1>2. Holds(r, "RESERVED") BY <1>1 DEF Holds
<1>3. \A a \in RowsFor(r, "RESERVED") : a.credit \in Claims BY AccountsRead DEF Allocation
<1>4. Decides(r, "RESERVED", w)
  BY <1>1, <1>2, <1>3 DEF Decides, Rewritten, AllocationStatus, ReleasedOn, Released
<1> HIDE DEF w
<1>5. TakenUnits' = TakenUnits BY <1>4, DecisionTakes
<1>6. \A c \in Claims : reserved'[c] = reserved[c] - TakenUnits[r][c] BY <1>1, <1>2, DecisionMoves
<1>7. reserved' \in [Claims -> Int] /\ used' \in [Claims -> Int] BY DEF OffInv, TypeOK
<1>8. EarnedUnits' = EarnedUnits BY <1>1, EarnedStays
<1> QED BY <1>1, <1>5, <1>6, <1>7, <1>8 DEF CreditBooks!Release, CreditBooks!Settles

LEMMA CancelCredits ==
  ASSUME OffInv, OffInv', ClosedRows, NEW r \in Requests, NEW d, CancelApproved(r, d)
  PROVE  CreditBooks!Refund(r)
<1> DEFINE w == [c \in Claims |-> ReleasedOn(c, d)]
<1>1. /\ rstatus[r] = "APPROVED" /\ rstatus' = [rstatus EXCEPT ![r] = "CANCELLED"]
      /\ used' = [c \in Claims |-> used[c] - UnitsOf({a \in RowsFor(r, "USED") : a.credit = c})]
      /\ reserved' = reserved
      /\ allocs' = Rewritten(RowsFor(r, "USED"), LAMBDA c : ReleasedOn(c, d))
      /\ UNCHANGED <<credited, worked>>
  BY DEF CancelApproved, claimVars
<1>2. Holds(r, "USED") BY <1>1 DEF Holds
<1>3. \A a \in RowsFor(r, "USED") : a.credit \in Claims BY AccountsRead DEF Allocation
<1>4. Decides(r, "USED", w)
  BY <1>1, <1>2, <1>3 DEF Decides, Rewritten, AllocationStatus, ReleasedOn, Released
<1> HIDE DEF w
<1>5. TakenUnits' = TakenUnits BY <1>4, DecisionTakes
<1>6. \A c \in Claims : used'[c] = used[c] - TakenUnits[r][c] BY <1>1, <1>2, DecisionMoves
<1>7. reserved' \in [Claims -> Int] /\ used' \in [Claims -> Int] BY DEF OffInv, TypeOK
<1>8. EarnedUnits' = EarnedUnits BY <1>1, EarnedStays
<1> QED BY <1>1, <1>5, <1>6, <1>7, <1>8 DEF CreditBooks!Refund, CreditBooks!Settles

\* An approved claim is what its credit may promise from then on.
LEMMA ClaimCredits ==
  ASSUME OffInv, OffInv', NEW c \in Claims, NEW d, ApproveClaim(c, d)
  PROVE  CreditBooks!Grant
<1>1. /\ credited' = [credited EXCEPT ![c] = d]
      /\ UNCHANGED <<worked, reserved, used, rstatus, allocs>>
  BY DEF ApproveClaim, leaveVars
<1>2. TypeOK /\ TypeOK' /\ Accounts' BY DEF OffInv
<1>3. TakenUnits' = TakenUnits BY <1>1 DEF TakenUnits, Taken
<1>4. EarnedUnits' \in [Claims -> Int] BY <1>2 DEF TypeOK, EarnedUnits, Earned
<1>5. ASSUME NEW b \in Claims, EarnedUnits'[b] # EarnedUnits[b]
      PROVE  reserved[b] + used[b] <= EarnedUnits'[b]
  <2>1. CASE credited'[b] > 0
    BY <1>1, <1>2, <2>1 DEF Accounts, EarnedUnits, Credits, Earned
  <2>2. CASE ~ (credited'[b] > 0)
    <3>1. EarnedUnits'[b] = 0 BY <2>2 DEF EarnedUnits, Credits
    <3>2. credited[b] > 0 BY <1>5, <3>1 DEF EarnedUnits, Credits
    <3>3. b = c /\ cstatus[c] = "PENDING" BY <1>1, <1>2, <2>2, <3>2 DEF TypeOK, ApproveClaim
    <3> QED BY <3>2, <3>3 DEF OffInv, CreditsFit
  <2> QED BY <2>1, <2>2
<1> QED BY <1>1, <1>3, <1>4, <1>5 DEF CreditBooks!Grant

\* A claim that is submitted is no credit yet.
LEMMA ClaimStutters ==
  ASSUME OffInv, NEW c \in Claims, NEW d, NEW w, NEW u, SubmitClaim(c, d, w, u)
  PROVE  UNCHANGED CreditBooks!reservationVars
<1>1. /\ cstatus[c] = "NONE" /\ worked' = [worked EXCEPT ![c] = [date |-> w, units |-> u]]
      /\ UNCHANGED <<credited, reserved, used, rstatus, allocs>>
  BY DEF SubmitClaim, creditVars, leaveVars
<1>2. TypeOK /\ c \notin Credits BY <1>1 DEF OffInv, CreditsFit, Credits
<1>3. \A b \in Claims : b # c => worked'[b] = worked[b] BY <1>1, <1>2 DEF TypeOK
<1>4. EarnedUnits' = EarnedUnits BY <1>1, <1>2, <1>3 DEF EarnedUnits, Credits, Earned
<1>5. TakenUnits' = TakenUnits BY <1>1 DEF TakenUnits, Taken
<1> QED BY <1>1, <1>4, <1>5 DEF CreditBooks!reservationVars

LEMMA CreditsStutter ==
  ASSUME UNCHANGED <<credited, worked, reserved, used, rstatus, allocs>>
  PROVE  UNCHANGED CreditBooks!reservationVars
<1>1. TakenUnits' = TakenUnits BY DEF TakenUnits, Taken
<1> QED BY <1>1, EarnedStays DEF CreditBooks!reservationVars

CreditInv == OffInv /\ ClosedRows

LEMMA CreditsNext ==
  CreditInv /\ CreditInv' /\ [Next]_vars => [CreditBooks!Next]_CreditBooks!reservationVars
<1> SUFFICES ASSUME CreditInv, CreditInv', [Next]_vars
             PROVE  CreditBooks!Next \/ UNCHANGED CreditBooks!reservationVars
  OBVIOUS
<1> USE DEF CreditInv
<1>1. ASSUME NEW c \in Claims, NEW d, NEW w, NEW u, SubmitClaim(c, d, w, u)
      PROVE  UNCHANGED CreditBooks!reservationVars
  BY <1>1, ClaimStutters
<1>2. ASSUME NEW c \in Claims, NEW d, ApproveClaim(c, d) PROVE CreditBooks!Next
  BY <1>2, ClaimCredits DEF CreditBooks!Next
<1>3. ASSUME NEW r \in Requests, NEW d, SubmitLeave(r, d) PROVE CreditBooks!Next
  BY <1>3, SubmitCredits DEF CreditBooks!Next
<1>4. ASSUME NEW r \in Requests, ApproveLeave(r) PROVE CreditBooks!Next
  BY <1>4, ApproveCredits DEF CreditBooks!Next
<1>5. ASSUME NEW r \in Requests, NEW s \in {"REJECTED", "CANCELLED"}, NEW d, CloseLeave(r, s, d)
      PROVE  CreditBooks!Next
  BY <1>5, CloseCredits DEF CreditBooks!Next
<1>6. ASSUME NEW r \in Requests, NEW d, CancelApproved(r, d) PROVE CreditBooks!Next
  BY <1>6, CancelCredits DEF CreditBooks!Next
<1>7. ASSUME \/ \E c \in Claims, s \in {"REJECTED", "CANCELLED"} : CloseClaim(c, s)
             \/ \E p \in Policies : SetPolicy(p)
             \/ NextDay \/ UNCHANGED vars
      PROVE  UNCHANGED CreditBooks!reservationVars
  <2>1. UNCHANGED <<credited, worked, reserved, used, rstatus, allocs>>
    BY Zenon, <1>7 DEF CloseClaim, SetPolicy, NextDay, vars, leaveVars, creditVars, claimVars
  <2> QED BY <2>1, CreditsStutter
<1> QED BY Zenon, <1>1, <1>2, <1>3, <1>4, <1>5, <1>6, <1>7 DEF Next

LEMMA CreditsHold == Spec => []CreditInv
<1>1. Init => ClosedRows BY DEF Init, ClosedRows
<1>2. CreditInv /\ OffInv' /\ [Next]_vars => CreditInv' BY ClosedNext DEF CreditInv
<1>3. Init => CreditInv BY <1>1, OffInit DEF CreditInv
<1> QED BY <1>2, <1>3, OffHolds, PTL DEF Spec

\* What a request took of every credit is what its decision, and its cancellation after
\* that, move; nothing else moves the units of a credit, and no credit promises more than
\* its claim earned: compensatory leave implements reservations, none of them overruled.
THEOREM CreditsImplementReservations == Spec => KeepsCreditBooks
<1>1. Init => CreditBooks!Init
  <2> SUFFICES ASSUME Init PROVE CreditBooks!Init OBVIOUS
  <2>1. \A r, c : Taken(r, c) = 0
    <3> TAKE r, c
    <3>1. {a \in allocs : a.request = r /\ a.credit = c} = {} BY DEF Init
    <3> QED BY <3>1, UnitsNone DEF Taken
  <2>2. TakenUnits = [r \in Requests |-> [c \in Claims |-> 0]] BY <2>1 DEF TakenUnits
  <2>3. EarnedUnits = [c \in Claims |-> 0] BY DEF Init, EarnedUnits, Credits
  <2> QED BY <2>2, <2>3 DEF Init, CreditBooks!Init, CreditBooks!Zero
<1> QED BY <1>1, CreditsNext, CreditsHold, PTL DEF Spec, KeepsCreditBooks, CreditBooks!Spec

-----------------------------------------------------------------------------
(* What claims may earn *)

EarnedBy(w, S) == SumFunctionOnSet([x \in S |-> w[x].units], S)
OpenOn(w) == {c \in Claims : cstatus[c] \in Open /\ worked[c].date = w}
InYear(d) == {c \in Credits : Year[credited[c]] = Year[d]}
InMonth(d) == {c \in InYear(d) : Month[credited[c]] = Month[d]}

LEMMA EarnedType ==
  ASSUME NEW S, IsFiniteSet(S), NEW w, \A c \in S : w[c].units \in Nat
  PROVE  EarnedBy(w, S) \in Nat
<1> DEFINE f == [x \in S |-> w[x].units]
<1>1. \A x \in S : f[x] \in Nat OBVIOUS
<1> HIDE DEF f
<1>2. SumFunctionOnSet(f, S) \in Nat BY <1>1, SumNat
<1> QED BY <1>2 DEF f, EarnedBy

LEMMA EarnedSame ==
  ASSUME NEW S, IsFiniteSet(S), NEW w, NEW v, \A c \in S : w[c].units = v[c].units
  PROVE  EarnedBy(w, S) = EarnedBy(v, S)
<1> DEFINE f == [x \in S |-> w[x].units]
           g == [x \in S |-> v[x].units]
<1>1. \A x \in S : f[x] = g[x] OBVIOUS
<1> HIDE DEF f, g
<1>2. SumFunctionOnSet(f, S) = SumFunctionOnSet(g, S) BY <1>1, SumSame
<1> QED BY <1>2 DEF f, g, EarnedBy

LEMMA EarnedMore ==
  ASSUME NEW S, IsFiniteSet(S), NEW c, c \notin S, NEW w, \A x \in S \cup {c} : w[x].units \in Nat
  PROVE  EarnedBy(w, S \cup {c}) = EarnedBy(w, S) + w[c].units
<1> DEFINE f == [x \in S |-> w[x].units]
           g == [x \in S \cup {c} |-> w[x].units]
<1>1. \A x \in S : f[x] = g[x] OBVIOUS
<1>2. \A x \in S \cup {c} : g[x] \in Int OBVIOUS
<1>3. \A x \in S : f[x] \in Int OBVIOUS
<1>4. g[c] = w[c].units /\ w[c].units \in Nat OBVIOUS
<1> HIDE DEF f, g
<1>5. SumFunctionOnSet(f, S) = SumFunctionOnSet(g, S) BY <1>1, SumSame
<1>6. SumFunctionOnSet(g, S \cup {c}) = g[c] + SumFunctionOnSet(g, S) BY <1>2, SumAdd
<1>7. SumFunctionOnSet(f, S) \in Int BY <1>3, SumType
<1>8. SumFunctionOnSet(g, S \cup {c}) = SumFunctionOnSet(f, S) + w[c].units
  BY <1>4, <1>5, <1>6, <1>7
<1> QED BY <1>8 DEF f, g, EarnedBy

LEMMA EarnedFewer ==
  ASSUME NEW S, IsFiniteSet(S), NEW T \in SUBSET S, NEW w, \A x \in S : w[x].units \in Nat
  PROVE  EarnedBy(w, T) <= EarnedBy(w, S)
<1> DEFINE f == [x \in T |-> w[x].units]
           g == [x \in S |-> w[x].units]
<1>1. \A x \in T : f[x] = g[x] OBVIOUS
<1>2. \A x \in S : g[x] \in Nat OBVIOUS
<1> HIDE DEF f, g
<1>3. IsFiniteSet(T) BY FS_Subset
<1>4. SumFunctionOnSet(f, T) = SumFunctionOnSet(g, T) BY <1>1, <1>3, SumSame
<1>5. SumFunctionOnSet(g, T) <= SumFunctionOnSet(g, S) BY <1>2, SumMonotone
<1>6. SumFunctionOnSet(f, T) <= SumFunctionOnSet(g, S) BY <1>4, <1>5
<1> QED BY <1>6 DEF f, g, EarnedBy

\* Units of rows, credit by credit and before and after a day.
Days(t) == {n \in Nat : n <= t}

Spent(rows, s, c, X) == UnitsOf(Of(rows, s, {c}, Requests, X))

LEMMA UnitsByCredit ==
  ASSUME NEW rows \in SUBSET Allocation, IsFiniteSet(rows), NEW L, IsFiniteSet(L), NEW s, NEW X,
         NEW g, \A c \in L : g[c] = Spent(rows, s, c, X)
  PROVE  UnitsOf(Of(rows, s, L, Requests, X)) = SumFunctionOnSet(g, L)
<1> DEFINE S == Of(rows, s, L, Requests, X)
           p == [a \in S |-> a.credit]
<1>1. S \in SUBSET Allocation /\ IsFiniteSet(S) BY OfFinite
<1>2. \A a \in S : a.credit \in L BY DEF Of
<1>3. \A c \in L : {a \in S : a.credit = c} = Of(rows, s, {c}, Requests, X) BY DEF Of
<1>4. \A c : /\ Of(rows, s, {c}, Requests, X) \in SUBSET Allocation
             /\ IsFiniteSet(Of(rows, s, {c}, Requests, X))
  BY OfFinite
<1>5. \A c : Spent(rows, s, c, X) = SumFunctionOnSet(Units, Of(rows, s, {c}, Requests, X))
  BY <1>4, UnitsAre DEF Spent
<1> HIDE DEF S
<1>6. \A c \in L : PartOf(S, p, c) = Of(rows, s, {c}, Requests, X) BY <1>3 DEF PartOf
<1>7. \A a \in S : p[a] \in L BY <1>2
<1>8. \A a \in S : Units[a] \in Int BY <1>1 DEF Units, Allocation
<1> HIDE DEF p
<1>9. \A c \in L : g[c] = SumFunctionOnSet(Units, PartOf(S, p, c)) BY <1>5, <1>6
<1>10. \A a \in S : Units[a] \in Int /\ p[a] \in L BY <1>7, <1>8
<1>11. SumFunctionOnSet(Units, S) = SumFunctionOnSet(g, L) BY <1>1, <1>9, <1>10, SumParts
<1>12. UnitsOf(S) = SumFunctionOnSet(Units, S) BY <1>1, UnitsAre
<1> QED BY <1>11, <1>12 DEF S

LEMMA UnitsByDay ==
  ASSUME NEW rows \in SUBSET Allocation, IsFiniteSet(rows), NEW s, NEW C, NEW t \in Nat
  PROVE  UnitsOf(Of(rows, s, C, Requests, Nat))
           = UnitsOf(Of(rows, s, C, Requests, Days(t))) + UnitsOf(Of(rows, s, C, Requests, Nat \ Days(t)))
<1> DEFINE S == Of(rows, s, C, Requests, Days(t))
           T == Of(rows, s, C, Requests, Nat \ Days(t))
<1>1. /\ S \in SUBSET Allocation /\ IsFiniteSet(S)
      /\ T \in SUBSET Allocation /\ IsFiniteSet(T)
  BY OfFinite
<1>2. S \cap T = {} BY DEF Of
<1>3. Of(rows, s, C, Requests, Nat) = S \cup T BY DEF Of, Days
<1> HIDE DEF S, T
<1>4. UnitsOf(S \cup T) = UnitsOf(S) + UnitsOf(T) BY <1>1, <1>2, UnitsTogether
<1> QED BY <1>3, <1>4 DEF S, T

LEMMA UnitsFewer ==
  ASSUME NEW rows \in SUBSET Allocation, IsFiniteSet(rows), NEW s, NEW C, NEW R, NEW X, NEW Y, X \subseteq Y
  PROVE  UnitsOf(Of(rows, s, C, R, X)) <= UnitsOf(Of(rows, s, C, R, Y))
<1>1. Of(rows, s, C, R, X) \in SUBSET Of(rows, s, C, R, Y) BY DEF Of
<1>2. Of(rows, s, C, R, Y) \in SUBSET Allocation /\ IsFiniteSet(Of(rows, s, C, R, Y)) BY OfFinite
<1> QED BY <1>1, <1>2, UnitsLeft

\* What credits have left at the end of a day is what they earned and have not been
\* used for by then, credit by credit.
Spare(rows, w, t) == [c \in Claims |-> w[c].units - Spent(rows, "USED", c, Days(t))]
SpareIn(rows, w, L, t) == EarnedBy(w, L) - UnitsOf(Of(rows, "USED", L, Requests, Days(t)))

LEMMA SpareAdds ==
  ASSUME NEW rows \in SUBSET Allocation, IsFiniteSet(rows), NEW L \in SUBSET Claims,
         NEW w, \A c \in Claims : w[c].units \in Nat, NEW t
  PROVE  SpareIn(rows, w, L, t) = SumFunctionOnSet(Spare(rows, w, t), L)
<1> DEFINE f == [c \in L |-> w[c].units]
           g == [c \in L |-> Spent(rows, "USED", c, Days(t))]
           h == Spare(rows, w, t)
<1>1. IsFiniteSet(L) BY CompOffAssumption, FS_Subset
<1>2. \A c \in L : f[c] \in Int OBVIOUS
<1>3. \A c \in L : g[c] = Spent(rows, "USED", c, Days(t)) OBVIOUS
<1>4. \A c \in L : Spent(rows, "USED", c, Days(t)) \in Nat BY OfFinite DEF Spent
<1>5. \A c \in L : h[c] = f[c] - g[c] BY DEF Spare
<1>6. EarnedBy(w, L) = SumFunctionOnSet(f, L) BY DEF EarnedBy
<1> HIDE DEF f, g, h
<1>7. \A c \in L : g[c] \in Int BY <1>3, <1>4
<1>8. UnitsOf(Of(rows, "USED", L, Requests, Days(t))) = SumFunctionOnSet(g, L)
  BY <1>1, <1>3, UnitsByCredit
<1>9. SumFunctionOnSet(h, L) = SumFunctionOnSet(f, L) - SumFunctionOnSet(g, L)
  BY <1>1, <1>2, <1>5, <1>7, SumDifference
<1> QED BY <1>6, <1>8, <1>9 DEF h, SpareIn

\* If no credit has more left than before, and there are no more of them, less is left.
LEMMA SpareFalls ==
  ASSUME NEW A \in SUBSET Allocation, IsFiniteSet(A), NEW B \in SUBSET Allocation, IsFiniteSet(B),
         NEW w, \A c \in Claims : w[c].units \in Nat, NEW v, \A c \in Claims : v[c].units \in Nat,
         NEW M \in SUBSET Claims, NEW L \in SUBSET M, NEW t, NEW u,
         \A c \in M : Spare(A, w, t)[c] \in Nat,
         \A c \in L : Spare(B, v, u)[c] <= Spare(A, w, t)[c]
  PROVE  SpareIn(B, v, L, u) <= SpareIn(A, w, M, t)
<1> DEFINE f == Spare(A, w, t)
           g == Spare(B, v, u)
<1>1. IsFiniteSet(M) /\ IsFiniteSet(L) BY CompOffAssumption, FS_Subset
<1>2. \A c \in Claims : g[c] \in Int /\ f[c] \in Int
  <2> TAKE c \in Claims
  <2>1. /\ Spent(A, "USED", c, Days(t)) \in Nat
        /\ Spent(B, "USED", c, Days(u)) \in Nat
    BY OfFinite DEF Spent
  <2> QED BY <2>1 DEF Spare
<1>3. SpareIn(B, v, L, u) = SumFunctionOnSet(g, L) BY SpareAdds
<1>4. SpareIn(A, w, M, t) = SumFunctionOnSet(f, M) BY SpareAdds
<1>5. \A c \in L : g[c] <= f[c] OBVIOUS
<1>6. \A c \in M : f[c] \in Nat OBVIOUS
<1> HIDE DEF f, g
<1>7. SumFunctionOnSet(g, L) <= SumFunctionOnSet(f, L) BY <1>1, <1>2, <1>5, SumLess
<1>8. SumFunctionOnSet(f, L) <= SumFunctionOnSet(f, M) BY <1>1, <1>6, SumMonotone
<1>9. /\ SumFunctionOnSet(g, L) \in Int /\ SumFunctionOnSet(f, L) \in Int
      /\ SumFunctionOnSet(f, M) \in Int
  BY <1>1, <1>2, SumType
<1> QED BY <1>3, <1>4, <1>7, <1>8, <1>9

\* Outstanding and what validate_earning_limits compares with its limit.
LEMMA OutstandingIs ==
  ASSUME OffInv
  PROVE  Outstanding = SpareIn(allocs, worked, Live(today), today)
<1>1. allocs \in SUBSET Allocation BY DEF OffInv, TypeOK
<1>2. {a \in allocs : a.credit \in Live(today) /\ a.status = "USED" /\ a.date <= today}
        = Of(allocs, "USED", Live(today), Requests, Days(today))
  BY <1>1 DEF Of, Days, Allocation
<1>3. SumOf(Earned, Live(today)) = EarnedBy(worked, Live(today)) BY DEF SumOf, Earned, EarnedBy
<1> QED BY <1>2, <1>3 DEF Outstanding, SpareIn

LEMMA UnusedIs ==
  ASSUME OffInv, NEW d \in Nat
  PROVE  Unused(d) = SpareIn(allocs, worked, Live(d), d)
<1> DEFINE L == Live(d)
           f == [c \in L |-> worked[c].units]
           g == [c \in L |-> used[c]]
           h == [c \in L |-> worked[c].units - used[c]]
<1>1. allocs \in SUBSET Allocation /\ IsFiniteSet(allocs) BY DEF OffInv, TypeOK, RowsFit
<1>2. L \in SUBSET Claims BY DEF Live, Credits
<1>3. {a \in allocs : a.credit \in L /\ a.status = "USED" /\ a.date > d}
        = Of(allocs, "USED", L, Requests, Nat \ Days(d))
  BY <1>1 DEF Of, Days, Allocation
<1>4. SumOf(LAMBDA c : Earned(c) - used[c], L) = SumFunctionOnSet(h, L) BY DEF SumOf, Earned
<1>5. EarnedBy(worked, L) = SumFunctionOnSet(f, L) BY DEF EarnedBy
<1>6. Unused(d) = SumFunctionOnSet(h, L) + UnitsOf(Of(allocs, "USED", L, Requests, Nat \ Days(d)))
  BY <1>3, <1>4 DEF Unused
<1>7. \A c \in L : f[c] \in Int /\ g[c] \in Int /\ h[c] = f[c] - g[c]
  <2>1. TypeOK BY DEF OffInv
  <2>2. \A c \in L : worked[c].units \in {1, 2} /\ used[c] \in Int BY <1>2, <2>1 DEF TypeOK
  <2> QED BY <2>2
<1>8. \A c \in L : g[c] = Spent(allocs, "USED", c, Nat)
  BY <1>2 DEF OffInv, Accounts, Held, Spent
<1> HIDE DEF L, f, g, h
<1>9. IsFiniteSet(L) BY <1>2, CompOffAssumption, FS_Subset
<1>10. SumFunctionOnSet(h, L) = SumFunctionOnSet(f, L) - SumFunctionOnSet(g, L)
  BY <1>7, <1>9, SumDifference
<1>11. UnitsOf(Of(allocs, "USED", L, Requests, Nat)) = SumFunctionOnSet(g, L)
  BY <1>1, <1>8, <1>9, UnitsByCredit
<1>12. UnitsOf(Of(allocs, "USED", L, Requests, Nat))
         = UnitsOf(Of(allocs, "USED", L, Requests, Days(d)))
             + UnitsOf(Of(allocs, "USED", L, Requests, Nat \ Days(d)))
  BY <1>1, UnitsByDay
<1>13. /\ UnitsOf(Of(allocs, "USED", L, Requests, Days(d))) \in Nat
       /\ UnitsOf(Of(allocs, "USED", L, Requests, Nat \ Days(d))) \in Nat
  BY <1>1, OfFinite
<1>14. SumFunctionOnSet(f, L) \in Int /\ SumFunctionOnSet(g, L) \in Int BY <1>7, <1>9, SumType
<1>15. Unused(d) = EarnedBy(worked, L) - UnitsOf(Of(allocs, "USED", L, Requests, Days(d)))
  BY <1>5, <1>6, <1>10, <1>11, <1>12, <1>13, <1>14
<1> QED BY <1>15 DEF L, SpareIn

\* A credit never has less than nothing left, and no more on a later day.
LEMMA SpareFits ==
  ASSUME OffInv, NEW c \in Credits, NEW t \in Nat, NEW u \in Nat, t <= u
  PROVE  /\ Spare(allocs, worked, t)[c] \in Nat /\ Spare(allocs, worked, u)[c] \in Nat
         /\ Spare(allocs, worked, u)[c] <= Spare(allocs, worked, t)[c]
<1>1. allocs \in SUBSET Allocation /\ IsFiniteSet(allocs) BY DEF OffInv, TypeOK, RowsFit
<1>2. c \in Claims /\ credited[c] > 0 BY DEF Credits
<1>3. Days(t) \subseteq Days(u) /\ Days(t) \subseteq Nat /\ Days(u) \subseteq Nat BY DEF Days
<1> DEFINE n(X) == Spent(allocs, "USED", c, X)
<1>4. n(Days(t)) \in Nat /\ n(Days(u)) \in Nat /\ n(Nat) \in Nat BY <1>1, OfFinite DEF Spent
<1>5. n(Days(t)) <= n(Days(u)) /\ n(Days(u)) <= n(Nat) BY <1>1, <1>3, UnitsFewer DEF Spent
<1>6. n(Nat) = used[c] /\ reserved[c] + used[c] <= worked[c].units
  BY <1>2 DEF OffInv, Accounts, Held, Spent
<1>7. reserved[c] \in Nat
  <2>1. reserved[c] = Held("RESERVED", c) BY <1>2 DEF OffInv, Accounts
  <2> QED BY <2>1, <1>1, OfFinite DEF Held
<1>8. worked[c].units \in {1, 2} BY <1>2 DEF OffInv, TypeOK
<1>9. /\ Spare(allocs, worked, t)[c] = worked[c].units - n(Days(t))
      /\ Spare(allocs, worked, u)[c] = worked[c].units - n(Days(u))
  BY <1>2 DEF Spare
<1> HIDE DEF n
<1> QED BY <1>4, <1>5, <1>6, <1>7, <1>8, <1>9

LEMMA OutstandingType == OffInv => Outstanding \in Int
<1> SUFFICES ASSUME OffInv PROVE Outstanding \in Int OBVIOUS
<1>1. Live(today) \in SUBSET Claims /\ IsFiniteSet(Live(today))
  <2>1. Live(today) \in SUBSET Claims BY DEF Live, Credits
  <2> QED BY <2>1, CompOffAssumption, FS_Subset
<1>2. EarnedBy(worked, Live(today)) \in Nat
  <2>1. \A c \in Live(today) : worked[c].units \in Nat BY <1>1 DEF OffInv, TypeOK
  <2> QED BY <2>1, <1>1, EarnedType
<1>3. UnitsOf(Of(allocs, "USED", Live(today), Requests, Days(today))) \in Nat
  BY OfFinite DEF OffInv, TypeOK, RowsFit
<1> QED BY <1>2, <1>3, OutstandingIs DEF SpareIn

DayOnce == \A w \in Worked : EarnedBy(worked, OpenOn(w)) <= 2

CapsKept ==
  last # NoClaim =>
    /\ cstatus[last] = "APPROVED"
    /\ EarnedBy(worked, InMonth(credited[last])) <= snap[last].monthly
    /\ EarnedBy(worked, InYear(credited[last])) <= snap[last].yearly
    /\ lateCancel \/ Outstanding <= snap[last].unused

EarnInv == OffInv /\ DayOnce /\ CapsKept

LEMMA EarningsAre ==
  ASSUME TypeOK
  PROVE  /\ IsFiniteSet(Claims) /\ \A c \in Claims : worked[c].units \in {1, 2}
         /\ \A w : OpenOn(w) \in SUBSET Claims /\ IsFiniteSet(OpenOn(w))
         /\ \A d : /\ InYear(d) \in SUBSET Claims /\ IsFiniteSet(InYear(d))
                   /\ InMonth(d) \in SUBSET Claims /\ IsFiniteSet(InMonth(d))
<1>1. IsFiniteSet(Claims) BY CompOffAssumption
<1>2. /\ \A w : OpenOn(w) \in SUBSET Claims
      /\ \A d : InYear(d) \in SUBSET Claims /\ InMonth(d) \in SUBSET Claims
  BY DEF OpenOn, InYear, InMonth, Credits
<1> QED BY <1>1, <1>2, FS_Subset DEF TypeOK

\* A step that opens no claim keeps the claims of a day; one that makes no credit and
\* does not touch the claims of those there are keeps the earnings.
LEMMA DayOnceKept ==
  ASSUME OffInv, DayOnce, worked' = worked, \A c \in Claims : cstatus'[c] \in Open => cstatus[c] \in Open
  PROVE  DayOnce'
<1>1. TypeOK BY DEF OffInv
<1>2. ASSUME NEW w \in Worked PROVE EarnedBy(worked', OpenOn(w)') <= 2
  <2>1. OpenOn(w)' \in SUBSET OpenOn(w) BY DEF OpenOn
  <2>2. \A c \in OpenOn(w) : worked[c].units \in Nat BY <1>1, EarningsAre
  <2>3. EarnedBy(worked, OpenOn(w)) <= 2 BY DEF DayOnce
  <2>4. IsFiniteSet(OpenOn(w)) /\ IsFiniteSet(OpenOn(w)') BY <1>1, <2>1, EarningsAre, FS_Subset
  <2>5. \A c \in OpenOn(w)' : worked[c].units \in Nat BY <2>1, <2>2
  <2>6. EarnedBy(worked, OpenOn(w)') \in Nat /\ EarnedBy(worked, OpenOn(w)) \in Nat
    BY <2>2, <2>4, <2>5, EarnedType
  <2>7. EarnedBy(worked, OpenOn(w)') <= EarnedBy(worked, OpenOn(w))
    BY <2>1, <2>2, <2>4, EarnedFewer
  <2> QED BY <2>3, <2>6, <2>7
<1> QED BY <1>2 DEF DayOnce, EarnedBy

LEMMA CapsKeptBy ==
  ASSUME EarnInv, OffInv', credited' = credited, expires' = expires, last' = last,
         \A c \in Claims : credited[c] > 0 => worked'[c] = worked[c] /\ snap'[c] = snap[c]
                                              /\ cstatus'[c] = cstatus[c],
         lateCancel' \/ Outstanding' <= Outstanding, lateCancel => lateCancel'
  PROVE  CapsKept'
<1> SUFFICES ASSUME last # NoClaim PROVE CapsKept' BY DEF CapsKept
<1>1. TypeOK /\ CapsKept /\ last \in Claims BY DEF EarnInv, OffInv, TypeOK
<1>2. credited[last] > 0 BY <1>1 DEF EarnInv, OffInv, CreditsFit, CapsKept
<1>3. /\ InMonth(credited[last])' = InMonth(credited[last])
      /\ InYear(credited[last])' = InYear(credited[last])
  BY DEF InMonth, InYear, Credits
<1>4. /\ \A c \in InMonth(credited[last]) : worked[c].units = worked'[c].units
      /\ \A c \in InYear(credited[last]) : worked[c].units = worked'[c].units
  BY DEF InMonth, InYear, Credits
<1>5. /\ EarnedBy(worked', InMonth(credited[last])) = EarnedBy(worked, InMonth(credited[last]))
      /\ EarnedBy(worked', InYear(credited[last])) = EarnedBy(worked, InYear(credited[last]))
  BY <1>1, <1>4, EarningsAre, EarnedSame
<1>6. snap'[last] = snap[last] /\ cstatus'[last] = cstatus[last] BY <1>1, <1>2
<1>7. lateCancel' \/ Outstanding' <= snap[last].unused
  <2>1. Outstanding \in Int /\ Outstanding' \in Int
    <3>1. OffInv => Outstanding \in Int BY OutstandingType
    <3>2. (OffInv => Outstanding \in Int)' BY OutstandingType, PTL
    <3> QED BY <3>1, <3>2 DEF EarnInv
  <2>2. snap[last].unused \in Nat BY <1>1, CompOffAssumption DEF TypeOK, Policy
  <2>3. lateCancel \/ Outstanding <= snap[last].unused BY <1>1 DEF CapsKept
  <2> QED BY <2>1, <2>2, <2>3
<1> QED BY <1>1, <1>3, <1>5, <1>6, <1>7 DEF CapsKept

\* What is earned and not spent does not grow when time passes or when rows come and go
\* that are not used by now.
LEMMA OutstandingFalls ==
  ASSUME OffInv, OffInv', credited' = credited, expires' = expires, today <= today',
         \A c \in Claims : credited[c] > 0 => worked'[c] = worked[c],
         \A a \in allocs : a.status = "USED" /\ a.date <= today => a \in allocs'
  PROVE  Outstanding' <= Outstanding
<1> DEFINE A == allocs
           B == allocs'
           w == worked
           v == worked'
           t == today
           u == today'
           M == Live(today)
           L == Live(today)'
<1>1. /\ A \in SUBSET Allocation /\ IsFiniteSet(A) /\ B \in SUBSET Allocation /\ IsFiniteSet(B)
      /\ t \in Nat /\ u \in Nat /\ t <= u
  BY DEF OffInv, TypeOK, RowsFit, Dates
<1>2. /\ \A c \in Claims : w[c].units \in Nat
      /\ \A c \in Claims : v[c].units \in Nat
  <2> DEFINE W == [Claims -> [date : Dates, units : {1, 2}]]
  <2>1. w \in W /\ v \in W BY DEF OffInv, TypeOK
  <2> HIDE DEF w, v
  <2> QED BY <2>1
<1>3. M \in SUBSET Claims /\ L \in SUBSET M
  <2>1. expires \in [Claims -> Nat] BY DEF OffInv, TypeOK
  <2> QED BY <1>1, <2>1 DEF Live, Credits
<1>4. \A c \in M : c \in Claims /\ credited[c] > 0 /\ v[c] = w[c] BY DEF Live, Credits
<1>5. \A c \in M : Spare(A, w, t)[c] \in Nat BY <1>1, <1>4, SpareFits DEF Credits
<1>6. \A a \in A : a.status = "USED" /\ a.date <= t => a \in B OBVIOUS
<1>7. Outstanding = SpareIn(A, w, M, t) BY OutstandingIs
<1>8. Outstanding' = SpareIn(B, v, L, u)
  <2>1. (OffInv => Outstanding = SpareIn(allocs, worked, Live(today), today))' BY OutstandingIs, PTL
  <2> QED BY <2>1
<1> HIDE DEF A, B, w, v, t, u, M, L
<1>9. \A c \in L : Spare(B, v, u)[c] <= Spare(A, w, t)[c]
  <2> TAKE c \in L
  <2>1. c \in Claims /\ c \in M BY <1>3
  <2>2. Spent(A, "USED", c, Days(t)) <= Spent(B, "USED", c, Days(t))
    <3>1. Of(A, "USED", {c}, Requests, Days(t)) \in SUBSET Of(B, "USED", {c}, Requests, Days(t))
      BY <1>6 DEF Of, Days
    <3>2. /\ Of(B, "USED", {c}, Requests, Days(t)) \in SUBSET Allocation
          /\ IsFiniteSet(Of(B, "USED", {c}, Requests, Days(t)))
      BY <1>1, OfFinite
    <3> QED BY <3>1, <3>2, UnitsLeft DEF Spent
  <2>3. Spent(B, "USED", c, Days(t)) <= Spent(B, "USED", c, Days(u))
    <3>1. Days(t) \subseteq Days(u) BY <1>1 DEF Days
    <3> QED BY <3>1, <1>1, UnitsFewer DEF Spent
  <2>4. /\ Spent(A, "USED", c, Days(t)) \in Nat /\ Spent(B, "USED", c, Days(t)) \in Nat
        /\ Spent(B, "USED", c, Days(u)) \in Nat
    BY <1>1, OfFinite DEF Spent
  <2>5. w[c].units = v[c].units /\ w[c].units \in Nat BY <1>2, <1>4, <2>1
  <2>6. /\ Spare(B, v, u)[c] = v[c].units - Spent(B, "USED", c, Days(u))
        /\ Spare(A, w, t)[c] = w[c].units - Spent(A, "USED", c, Days(t))
    BY <2>1 DEF Spare
  <2> QED BY <2>2, <2>3, <2>4, <2>5, <2>6
<1>10. SpareIn(B, v, L, u) <= SpareIn(A, w, M, t)
  BY <1>1, <1>2, <1>3, <1>5, <1>9, SpareFalls
<1> QED BY <1>7, <1>8, <1>10

\* Deciding or cancelling leave, midnight, a policy.
LEMMA NotEarning ==
  ASSUME EarnInv, OffInv', UNCHANGED claimVars, credited' = credited, expires' = expires, last' = last,
         today <= today', lateCancel => lateCancel',
         lateCancel' \/ \A a \in allocs : a.status = "USED" /\ a.date <= today => a \in allocs'
  PROVE  EarnInv'
<1>1. OffInv BY DEF EarnInv
<1>2. DayOnce' BY <1>1, DayOnceKept DEF EarnInv, claimVars
<1>3. lateCancel' \/ Outstanding' <= Outstanding BY <1>1, OutstandingFalls DEF claimVars
<1>4. CapsKept' BY <1>3, CapsKeptBy DEF claimVars
<1> QED BY <1>2, <1>4 DEF EarnInv

LEMMA SubmitClaimEarns ==
  ASSUME EarnInv, OffInv', NEW c \in Claims, NEW d, NEW w \in Worked, NEW u \in {1, 2}, SubmitClaim(c, d, w, u)
  PROVE  EarnInv'
<1>1. /\ cstatus[c] = "NONE" /\ cstatus' = [cstatus EXCEPT ![c] = "PENDING"] /\ Claimed(w) + u <= 2
      /\ worked' = [worked EXCEPT ![c] = [date |-> w, units |-> u]]
      /\ snap' = [snap EXCEPT ![c] = policy]
      /\ UNCHANGED <<today, policy, creditVars, leaveVars, last, lateCancel>>
  BY DEF SubmitClaim
<1>2. OffInv /\ TypeOK /\ DayOnce BY DEF EarnInv, OffInv
<1>3. worked'[c] = [date |-> w, units |-> u] /\ cstatus'[c] = "PENDING"
      /\ \A b \in Claims : b # c => worked'[b] = worked[b] /\ snap'[b] = snap[b] /\ cstatus'[b] = cstatus[b]
  BY <1>1, <1>2 DEF TypeOK
<1>4. \A b \in Claims : credited[b] > 0 => b # c
  BY <1>1, <1>2 DEF OffInv, CreditsFit
<1>5. Outstanding' <= Outstanding
  <2>1. today <= today'  BY <1>1, <1>2 DEF TypeOK, Dates
  <2>2. \A b \in Claims : credited[b] > 0 => worked'[b] = worked[b] BY <1>3, <1>4
  <2>3. credited' = credited /\ expires' = expires /\ allocs' = allocs BY <1>1 DEF creditVars, leaveVars
  <2> QED BY <1>2, <2>1, <2>2, <2>3, OutstandingFalls
<1>6. CapsKept'
  <2>1. credited' = credited /\ expires' = expires /\ last' = last /\ lateCancel' = lateCancel
    BY <1>1 DEF creditVars
  <2>2. \A b \in Claims : credited[b] > 0 => worked'[b] = worked[b] /\ snap'[b] = snap[b]
                                             /\ cstatus'[b] = cstatus[b]
    BY <1>3, <1>4
  <2> QED BY <1>5, <2>1, <2>2, CapsKeptBy
<1>7. ASSUME NEW x \in Worked PROVE EarnedBy(worked', OpenOn(x)') <= 2
  <2>1. /\ IsFiniteSet(OpenOn(x)) /\ OpenOn(x) \in SUBSET Claims /\ c \notin OpenOn(x)
        /\ \A b \in OpenOn(x) : worked'[b].units = worked[b].units /\ worked[b].units \in Nat
    <3>1. c \notin OpenOn(x) BY <1>1 DEF OpenOn, Open
    <3> QED BY <3>1, <1>2, <1>3, EarningsAre
  <2>2. EarnedBy(worked', OpenOn(x)) = EarnedBy(worked, OpenOn(x)) BY <2>1, EarnedSame
  <2>3. EarnedBy(worked, OpenOn(x)) <= 2 /\ EarnedBy(worked, OpenOn(x)) \in Nat
    BY <1>2, <2>1, EarnedType DEF DayOnce
  <2>4. CASE x # w
    <3>1. OpenOn(x)' = OpenOn(x) BY <1>1, <1>3, <2>4 DEF OpenOn, Open
    <3> QED BY <3>1, <2>2, <2>3
  <2>5. CASE x = w
    <3>1. OpenOn(x)' = OpenOn(x) \cup {c} BY <1>1, <1>3, <2>5 DEF OpenOn, Open
    <3>2. worked'[c].units = u BY <1>3
    <3>3. \A b \in OpenOn(x) \cup {c} : worked'[b].units \in Nat BY <2>1, <3>2
    <3>4. EarnedBy(worked', OpenOn(x) \cup {c}) = EarnedBy(worked', OpenOn(x)) + worked'[c].units
      BY ZenonT(60), <2>1, <3>3, EarnedMore
    <3>5. Claimed(w) = EarnedBy(worked, OpenOn(x))
      BY <2>5 DEF Claimed, OpenOn, SumOf, Earned, EarnedBy
    <3> QED BY <1>1, <2>2, <3>1, <3>2, <3>4, <3>5
  <2> QED BY <2>4, <2>5
<1>8. DayOnce' BY <1>7 DEF DayOnce, EarnedBy
<1> QED BY <1>6, <1>8 DEF EarnInv

LEMMA ApproveClaimEarns ==
  ASSUME EarnInv, OffInv', NEW c \in Claims, NEW d \in CallDates, ApproveClaim(c, d)
  PROVE  EarnInv'
<1>1. /\ cstatus[c] = "PENDING" /\ cstatus' = [cstatus EXCEPT ![c] = "APPROVED"] /\ WithinLimits(c, d)
      /\ credited' = [credited EXCEPT ![c] = d]
      /\ expires' = [expires EXCEPT ![c] = d + snap[c].validity]
      /\ last' = c
      /\ UNCHANGED <<today, policy, worked, snap, reserved, used, leaveVars, lateCancel>>
  BY DEF ApproveClaim
<1>2. OffInv /\ TypeOK BY DEF EarnInv, OffInv
<1>3. d \in Nat /\ d > 0 /\ today \in Nat /\ d <= today
  BY <1>2, CompOffAssumption DEF CallDates, Dates, TypeOK
<1>4. /\ credited'[c] = d /\ cstatus'[c] = "APPROVED"
      /\ \A b \in Claims : b # c => credited'[b] = credited[b] /\ expires'[b] = expires[b]
                                    /\ cstatus'[b] = cstatus[b]
  BY <1>1, <1>2 DEF TypeOK
<1>5. credited[c] = 0 /\ \A b : c \notin Live(b) /\ c \notin InYear(b) /\ c \notin InMonth(b)
  BY <1>1, <1>2 DEF OffInv, CreditsFit, TypeOK, Live, Credits, InYear, InMonth
<1>6. /\ EarnedBy(worked, InMonth(d)) + worked[c].units <= snap[c].monthly
      /\ EarnedBy(worked, InYear(d)) + worked[c].units <= snap[c].yearly
      /\ Unused(d) + worked[c].units <= snap[c].unused
  <2>1. /\ {b \in Credits : Month[credited[b]] = Month[d] /\ Year[credited[b]] = Year[d]} = InMonth(d)
        /\ {b \in Credits : Year[credited[b]] = Year[d]} = InYear(d)
    BY DEF InMonth, InYear
  <2>2. /\ SumOf(Earned, InMonth(d)) = EarnedBy(worked, InMonth(d))
        /\ SumOf(Earned, InYear(d)) = EarnedBy(worked, InYear(d))
    BY DEF SumOf, Earned, EarnedBy
  <2> QED BY <1>1, <2>1, <2>2 DEF WithinLimits, Earned
<1>7. /\ InYear(d)' = InYear(d) \cup {c} /\ InMonth(d)' = InMonth(d) \cup {c}
      /\ InYear(credited[last])' = InYear(d)' /\ InMonth(credited[last])' = InMonth(d)'
  <2>1. InYear(d)' = InYear(d) \cup {c} BY <1>3, <1>4, <1>5 DEF InYear, Credits
  <2>2. InMonth(d)' = InMonth(d) \cup {c}
    <3>1. \A b \in InYear(d) : b \in Claims /\ b # c BY <1>5 DEF InYear, Credits
    <3>2. \A b \in InYear(d) : credited'[b] = credited[b] BY <3>1, <1>4
    <3> QED BY <3>2, <1>4, <2>1 DEF InMonth
  <2>3. InYear(credited[last])' = InYear(d)' BY <1>1, <1>4 DEF InYear
  <2>4. InMonth(credited[last])' = InMonth(d)' BY <1>1, <1>4, <2>3 DEF InMonth
  <2> QED BY <2>1, <2>2, <2>3, <2>4
<1>8. \A b \in Claims : worked[b].units \in Nat BY <1>2, EarningsAre
<1>9. /\ EarnedBy(worked, InMonth(d) \cup {c}) = EarnedBy(worked, InMonth(d)) + worked[c].units
      /\ EarnedBy(worked, InYear(d) \cup {c}) = EarnedBy(worked, InYear(d)) + worked[c].units
  <2>1. /\ InYear(d) \in SUBSET Claims /\ IsFiniteSet(InYear(d))
        /\ InMonth(d) \in SUBSET Claims /\ IsFiniteSet(InMonth(d))
    BY <1>2, EarningsAre
  <2> QED BY <1>5, <1>8, <2>1, EarnedMore
<1>10. Outstanding' <= snap[c].unused
  <2> DEFINE M == Live(d) \cup {c}
             L == Live(today)'
             A == allocs
             w == worked
             t == today
  <2>1. /\ A \in SUBSET Allocation /\ IsFiniteSet(A) BY <1>2 DEF OffInv, TypeOK, RowsFit
  <2>2. M \in SUBSET Claims /\ Live(d) \in SUBSET Claims /\ IsFiniteSet(Live(d))
        /\ \A b \in Live(d) : b \in Credits
    <3>1. Live(d) \in SUBSET Claims /\ \A b \in Live(d) : b \in Credits BY DEF Live, Credits
    <3> QED BY <3>1, CompOffAssumption, FS_Subset
  <2>3. L \in SUBSET M
    <3>1. expires \in [Claims -> Nat] BY <1>2 DEF TypeOK
    <3> QED BY <1>1, <1>3, <1>4, <3>1 DEF Live, Credits
  <2>4. Outstanding' = SpareIn(A, w, L, t)
    <3>1. (OffInv => Outstanding = SpareIn(allocs, worked, Live(today), today))'
      BY OutstandingIs, PTL
    <3> QED BY <3>1, <1>1 DEF leaveVars
  <2>5. Unused(d) = SpareIn(A, w, Live(d), d) BY <1>2, <1>3, UnusedIs
  <2>6. \A u : Spare(A, w, u)[c] = w[c].units
    <3> TAKE u
    <3>1. Of(A, "USED", {c}, Requests, Days(u)) = {} BY <1>2, <1>5, NoneHeld DEF Of
    <3>2. Spent(A, "USED", c, Days(u)) = 0 BY <3>1, UnitsNone DEF Spent
    <3>3. Spare(A, w, u)[c] = w[c].units - Spent(A, "USED", c, Days(u)) BY DEF Spare
    <3>4. w[c].units \in Nat BY <1>8
    <3> HIDE DEF A, w
    <3> QED BY <3>2, <3>3, <3>4
  <2>7. \A b \in M : Spare(A, w, d)[b] \in Nat
    <3>1. \A b \in Live(d) : Spare(A, w, d)[b] \in Nat BY <1>2, <1>3, <2>2, SpareFits
    <3>2. Spare(A, w, d)[c] \in Nat BY <1>8, <2>6
    <3> QED BY <3>1, <3>2
  <2>8. \A b \in L : Spare(A, w, t)[b] <= Spare(A, w, d)[b]
    <3>1. \A b \in Live(d) : Spare(A, w, t)[b] <= Spare(A, w, d)[b] BY <1>2, <1>3, <2>2, SpareFits
    <3>2. Spare(A, w, t)[c] <= Spare(A, w, d)[c] BY <1>8, <2>6
    <3> QED BY <3>1, <3>2, <2>3
  <2>9. SpareIn(A, w, M, d) = SpareIn(A, w, Live(d), d) + w[c].units
    <3> DEFINE f == Spare(A, w, d)
    <3>1. \A b \in Live(d) \cup {c} : f[b] \in Int BY <2>7
    <3>2. SpareIn(A, w, Live(d), d) = SumFunctionOnSet(f, Live(d)) BY <1>8, <2>1, <2>2, SpareAdds
    <3>3. SpareIn(A, w, M, d) = SumFunctionOnSet(f, M) BY <1>8, <2>1, <2>2, SpareAdds
    <3>4. f[c] = w[c].units /\ w[c].units \in Nat BY <1>8, <2>6
    <3> HIDE DEF f
    <3>5. SumFunctionOnSet(f, Live(d) \cup {c}) = f[c] + SumFunctionOnSet(f, Live(d))
      BY <3>1, <1>5, <2>2, SumAdd
    <3>6. SumFunctionOnSet(f, Live(d)) \in Int BY <3>1, <2>2, SumType
    <3> QED BY <3>2, <3>3, <3>4, <3>5, <3>6
  <2>13. SpareIn(A, w, Live(d), d) \in Int /\ SpareIn(A, w, L, t) \in Int
    <3>1. L \in SUBSET Claims /\ IsFiniteSet(L) BY <2>2, <2>3, CompOffAssumption, FS_Subset
    <3>2. EarnedBy(w, Live(d)) \in Nat /\ EarnedBy(w, L) \in Nat BY <1>8, <2>2, <3>1, EarnedType
    <3>3. /\ UnitsOf(Of(A, "USED", Live(d), Requests, Days(d))) \in Nat
          /\ UnitsOf(Of(A, "USED", L, Requests, Days(t))) \in Nat
      BY <2>1, OfFinite
    <3> HIDE DEF A, w, L, t
    <3> QED BY <3>2, <3>3 DEF SpareIn
  <2>14. snap[c].unused \in Nat /\ worked[c].units \in Nat
    BY <1>2, <1>8, CompOffAssumption DEF TypeOK, Policy
  <2>10. \A b \in Claims : w[b].units \in Nat BY <1>8
  <2> HIDE DEF A, w, t, L, M
  <2>11. SpareIn(A, w, L, t) <= SpareIn(A, w, M, d)
    BY <2>1, <2>2, <2>3, <2>7, <2>8, <2>10, SpareFalls
  <2>12. SpareIn(A, w, M, d) = Unused(d) + worked[c].units BY <2>5, <2>9 DEF w
  <2> QED BY <1>6, <2>4, <2>5, <2>11, <2>12, <2>13, <2>14
<1>11. CapsKept'
  <2>1. snap' = snap /\ worked' = worked BY <1>1
  <2>2. /\ EarnedBy(worked', InMonth(credited[last])') <= snap[c].monthly
        /\ EarnedBy(worked', InYear(credited[last])') <= snap[c].yearly
    BY <1>6, <1>7, <1>9, <2>1
  <2> QED BY <1>1, <1>4, <1>10, <2>1, <2>2 DEF CapsKept
<1>12. DayOnce'
  <2>1. \A b \in Claims : cstatus'[b] \in Open => cstatus[b] \in Open BY <1>1, <1>4 DEF Open
  <2> QED BY <1>1, <1>2, <2>1, DayOnceKept DEF EarnInv
<1> QED BY <1>11, <1>12 DEF EarnInv

LEMMA EarnNext == EarnInv /\ OffInv' /\ [Next]_vars => EarnInv'
<1> SUFFICES ASSUME EarnInv, OffInv', [Next]_vars PROVE EarnInv' OBVIOUS
<1>1. OffInv /\ TypeOK /\ today \in Nat BY DEF EarnInv, OffInv, TypeOK, Dates
<1>2. ASSUME NEW c \in Claims, NEW d \in CallDates, NEW w \in Worked, NEW u \in {1, 2},
             SubmitClaim(c, d, w, u)
      PROVE  EarnInv'
  BY <1>2, SubmitClaimEarns
<1>3. ASSUME NEW c \in Claims, NEW d \in CallDates, ApproveClaim(c, d) PROVE EarnInv'
  BY <1>3, ApproveClaimEarns
<1>4. ASSUME NEW c \in Claims, NEW s \in {"REJECTED", "CANCELLED"}, CloseClaim(c, s) PROVE EarnInv'
  <2>1. /\ cstatus[c] = "PENDING" /\ cstatus' = [cstatus EXCEPT ![c] = s] /\ today' = today
        /\ worked' = worked /\ snap' = snap /\ credited' = credited /\ expires' = expires
        /\ allocs' = allocs /\ last' = last /\ lateCancel' = lateCancel
    BY <1>4 DEF CloseClaim, creditVars, leaveVars
  <2>2. \A b \in Claims : b # c => cstatus'[b] = cstatus[b] BY <1>1, <2>1 DEF TypeOK
  <2>3. cstatus'[c] \notin Open BY <1>1, <2>1 DEF TypeOK, Open
  <2>4. credited[c] = 0 BY <1>1, <2>1 DEF OffInv, CreditsFit, TypeOK
  <2>5. DayOnce' BY <1>1, <2>1, <2>2, <2>3, DayOnceKept DEF EarnInv
  <2>6. Outstanding' <= Outstanding BY <1>1, <2>1, OutstandingFalls
  <2>7. CapsKept' BY <2>1, <2>2, <2>4, <2>6, CapsKeptBy
  <2> QED BY <2>5, <2>7 DEF EarnInv
<1>5. ASSUME NEW r \in Requests, NEW d, SubmitLeave(r, d) PROVE EarnInv'
  BY <1>1, <1>5, NotEarning DEF SubmitLeave
<1>6. ASSUME NEW r \in Requests, NEW d, NEW s \in {"REJECTED", "CANCELLED"}, CloseLeave(r, s, d)
      PROVE  EarnInv'
  <2>1. \A a \in allocs : a.status = "USED" => a \in allocs'
    BY <1>6 DEF CloseLeave, ReleaseReserved, Rewritten, RowsFor
  <2> QED BY <1>1, <1>6, <2>1, NotEarning DEF CloseLeave
<1>7. ASSUME NEW r \in Requests, NEW d, CancelApproved(r, d) PROVE EarnInv'
  <2>1. lateCancel' \/ \A a \in allocs : a.status = "USED" /\ a.date <= today => a \in allocs'
    <3> SUFFICES ASSUME ~ lateCancel', NEW a \in allocs, a.status = "USED", a.date <= today
                 PROVE  a \in allocs'
      OBVIOUS
    <3>1. \A x \in DOMAIN Want[r] : ~ (x <= today) BY <1>7 DEF CancelApproved
    <3>2. a.date \in DOMAIN Want[a.request] BY <1>1 DEF OffInv, RowsFit, RowFits
    <3>3. a.request # r BY <3>1, <3>2
    <3> QED BY <1>7, <3>3 DEF CancelApproved, Rewritten, RowsFor
  <2>2. lateCancel => lateCancel' BY <1>7 DEF CancelApproved
  <2>3. UNCHANGED <<today, claimVars, credited, expires, last>> BY <1>7 DEF CancelApproved
  <2> QED BY <1>1, <2>1, <2>2, <2>3, NotEarning
<1>8. ASSUME NEW r \in Requests, ApproveLeave(r) PROVE EarnInv'
  <2>1. \A a \in allocs : a.status = "USED" => a \in allocs'
    BY <1>8 DEF ApproveLeave, UseReserved, Rewritten, RowsFor
  <2> QED BY <1>1, <1>8, <2>1, NotEarning DEF ApproveLeave
<1>9. ASSUME NEW p \in Policies, SetPolicy(p) PROVE EarnInv'
  BY <1>1, <1>9, NotEarning DEF SetPolicy, creditVars, leaveVars
<1>10. CASE NextDay
  BY <1>1, <1>10, NotEarning DEF NextDay, creditVars, leaveVars
<1>11. CASE UNCHANGED vars
  BY <1>1, <1>11, NotEarning DEF vars, creditVars, leaveVars
<1> QED BY <1>2, <1>3, <1>4, <1>5, <1>6, <1>7, <1>8, <1>9, <1>10, <1>11 DEF Next

\* However claims are decided and leave is taken, at most one day is claimed for a day
\* worked, and an approval leaves the month, the year and what is not spent yet within
\* the limits that the claim stored.
THEOREM EarningsAreCapped == Spec => []EarningRules
<1>1. Init => EarnInv
  <2> SUFFICES ASSUME Init PROVE EarnInv OBVIOUS
  <2>1. OffInv BY OffInit
  <2>2. CapsKept BY DEF CapsKept, Init
  <2>3. ASSUME NEW w \in Worked PROVE EarnedBy(worked, OpenOn(w)) <= 2
    <3>1. OpenOn(w) = {} BY DEF Init, OpenOn, Open
    <3>2. EarnedBy(worked, {}) = 0 BY SumEmpty DEF EarnedBy
    <3> QED BY <3>1, <3>2
  <2> QED BY <2>1, <2>2, <2>3 DEF EarnInv, DayOnce
<1>2. EarnInv => EarningRules
  <2> SUFFICES ASSUME EarnInv PROVE EarningRules OBVIOUS
  <2>1. WorkedDayOnce
    <3>1. \A w : SumOf(Earned, OpenOn(w)) = EarnedBy(worked, OpenOn(w)) BY DEF SumOf, Earned, EarnedBy
    <3> QED BY <3>1 DEF EarnInv, DayOnce, WorkedDayOnce, OpenOn
  <2>2. EarningCaps
    <3> SUFFICES ASSUME last # NoClaim PROVE EarningCaps BY DEF EarningCaps
    <3> DEFINE on == credited[last]
    <3>1. /\ SumOf(Earned, InMonth(on)) = EarnedBy(worked, InMonth(on))
          /\ SumOf(Earned, InYear(on)) = EarnedBy(worked, InYear(on))
      BY DEF SumOf, Earned, EarnedBy
    <3> QED BY <3>1 DEF EarnInv, CapsKept, EarningCaps, InMonth, InYear
  <2> QED BY <2>1, <2>2 DEF EarningRules
<1> QED BY <1>1, <1>2, EarnNext, OffHolds, PTL DEF Spec

-----------------------------------------------------------------------------
(* Assets *)

AssetRow == [status : {"NONE", "AVAILABLE", "ASSIGNED", "RETIRED"}, category : CategoryIds \cup {NoId}]

AllocationRow == [status : {"NONE", "ACTIVE", "RETURNED"}, asset : AssetIds \cup {NoId},
                  employee : AssetHolders \cup {NoId}, logs : Nat]

JobRow == [op : Ops \cup {"idle"}, asset : AssetIds \cup {NoId}, category : CategoryIds \cup {NoId},
           allocation : AllocationIds \cup {NoId}, employee : AssetHolders \cup {NoId},
           locks : 0..2, clear : BOOLEAN]

LockedRows == AssetIds \cup CategoryIds \cup AllocationIds \cup AssetHolders

\* The rows a transaction locks, in whatever order.
RowsOf(j) ==
  CASE j.op \in {"create", "retireCategory"} -> {j.category}
    [] j.op = "save" -> {j.category, j.asset}
    [] j.op = "retireAsset" -> {j.asset}
    [] j.op = "assign" -> {j.asset, j.employee}
    [] j.op = "return" -> {j.allocation, allocation[j.allocation].asset}
    [] OTHER -> {}

\* A transaction names rows that there are.
JobNames(j) ==
  /\ j.op = "idle" => ~j.clear /\ j.locks = 0
  /\ j.op \in {"create", "save", "retireCategory"} => j.category \in CategoryIds
  /\ j.op \in {"create", "save", "retireAsset", "assign"} => j.asset \in AssetIds
  /\ j.op = "assign" => j.employee \in AssetHolders
  /\ j.op = "return" => /\ j.allocation \in AllocationIds
                        /\ allocation[j.allocation].status # "NONE"

\* What a transaction has checked is still so until it ends, for it has all its locks.
Ready(t) == job[t].clear => AllLocked(t) /\ Passes(job[t])

Exclusive == \A t, u \in Jobs : t # u => JobHolds(t) \cap JobHolds(u) \subseteq AssetHolders

JobsInv ==
  /\ \A t \in Jobs : JobNames(job[t]) /\ job[t].locks <= Len(LocksOf(job[t])) /\ Ready(t)
  /\ Exclusive

AssetInv(a) ==
  /\ asset[a].status = "ASSIGNED" => \E l \in AllocationIds : ActiveAllocations(a) = {l}
  /\ asset[a].status # "ASSIGNED" => ActiveAllocations(a) = {}
  /\ asset[a].status \in {"AVAILABLE", "ASSIGNED"} =>
       asset[a].category \in CategoryIds /\ assetCategory[asset[a].category] = "ACTIVE"

AllocationInv(l) ==
  /\ allocation[l].status # "NONE" => allocation[l].asset \in AssetIds
  /\ allocation[l].logs = IF allocation[l].status = "RETURNED" THEN 1 ELSE 0

AsInv ==
  /\ AsTypeOK /\ JobsInv
  /\ \A a \in AssetIds : AssetInv(a)
  /\ \A l \in AllocationIds : AllocationInv(l)

LEMMA AssetTypes ==
  ASSUME AsInv
  PROVE  /\ asset \in [AssetIds -> AssetRow] /\ assetCategory \in [CategoryIds -> {"ACTIVE", "RETIRED"}]
         /\ allocation \in [AllocationIds -> AllocationRow] /\ atWork \in SUBSET AssetHolders
         /\ job \in [Jobs -> JobRow] /\ \A t \in Jobs : job[t] \in JobRow
         /\ \A a \in AssetIds : asset[a] \in AssetRow
         /\ \A l \in AllocationIds : allocation[l] \in AllocationRow
BY DEF AsInv, AsTypeOK, AssetRow, AllocationRow, JobRow

LEMMA PrefixHolds ==
  ASSUME NEW X, NEW s \in Seq(X), NEW n \in 0..Len(s)
  PROVE  \A x : x \in Range(SubSeq(s, 1, n)) <=> \E i \in 1..n : s[i] = x
<1> DEFINE p == SubSeq(s, 1, n)
<1>1. Len(p) = n /\ \A i \in 1..n : p[i] = s[i] BY SubSeqProperties
<1>2. p \in Seq(X) BY SubSeqProperties
<1>3. DOMAIN p = 1..n BY <1>1, <1>2
<1> QED BY <1>1, <1>3 DEF Range

LEMMA LocksAre ==
  ASSUME AsInv, NEW t \in Jobs
  PROVE  /\ LocksOf(job[t]) \in Seq(LockedRows) /\ Len(LocksOf(job[t])) \in 0..2
         /\ \A x : x \in RowsOf(job[t]) <=> \E i \in 1..Len(LocksOf(job[t])) : LocksOf(job[t])[i] = x
<1> DEFINE j == job[t]
<1>1. j \in JobRow /\ JobNames(j) BY AssetTypes DEF AsInv, JobsInv
<1>2. j.op = "return" => allocation[j.allocation].asset \in AssetIds
  BY <1>1 DEF JobNames, AsInv, AllocationInv
<1>3. j.op \in Ops \cup {"idle"} BY <1>1 DEF JobRow
<1> HIDE DEF j
<1>4. CASE j.op \in {"create", "retireCategory"}
  <2>1. LocksOf(j) = <<j.category>> /\ RowsOf(j) = {j.category} /\ j.category \in LockedRows
    BY <1>1, <1>4 DEF LocksOf, LockOrder, RowsOf, JobNames, LockedRows
  <2> QED BY <2>1 DEF j
<1>5. CASE j.op = "save"
  <2>1. /\ LocksOf(j) = <<j.category, j.asset>> /\ RowsOf(j) = {j.category, j.asset}
        /\ j.category \in LockedRows /\ j.asset \in LockedRows
    BY <1>1, <1>5 DEF LocksOf, LockOrder, RowsOf, JobNames, LockedRows
  <2> QED BY <2>1 DEF j
<1>6. CASE j.op = "retireAsset"
  <2>1. LocksOf(j) = <<j.asset>> /\ RowsOf(j) = {j.asset} /\ j.asset \in LockedRows
    BY <1>1, <1>6 DEF LocksOf, LockOrder, RowsOf, JobNames, LockedRows
  <2> QED BY <2>1 DEF j
<1>7. CASE j.op = "assign"
  <2>1. /\ LocksOf(j) = <<j.asset, j.employee>> /\ RowsOf(j) = {j.asset, j.employee}
        /\ j.asset \in LockedRows /\ j.employee \in LockedRows
    BY <1>1, <1>7 DEF LocksOf, LockOrder, RowsOf, JobNames, LockedRows
  <2> QED BY <2>1 DEF j
<1>8. CASE j.op = "return"
  <2> DEFINE b == allocation[j.allocation].asset
  <2>1. /\ LocksOf(j) = <<j.allocation, b>> /\ RowsOf(j) = {j.allocation, b}
        /\ j.allocation \in LockedRows /\ b \in LockedRows
    BY <1>1, <1>2, <1>8 DEF LocksOf, LockOrder, RowsOf, JobNames, LockedRows
  <2> HIDE DEF b
  <2> QED BY <2>1 DEF j
<1>9. CASE j.op = "idle"
  <2>1. LocksOf(j) = <<>> /\ RowsOf(j) = {} BY <1>9 DEF LocksOf, LockOrder, RowsOf
  <2> QED BY <2>1 DEF j
<1> QED BY <1>3, <1>4, <1>5, <1>6, <1>7, <1>8, <1>9 DEF Ops

LEMMA HoldsAre ==
  ASSUME AsInv, NEW t \in Jobs
  PROVE  \A x : x \in JobHolds(t) <=> \E i \in 1..job[t].locks : LocksOf(job[t])[i] = x
<1>1. job[t].locks \in 0..Len(LocksOf(job[t]))
  <2>1. job[t].locks \in 0..2 BY AssetTypes DEF JobRow
  <2>2. job[t].locks <= Len(LocksOf(job[t])) BY DEF AsInv, JobsInv
  <2>3. Len(LocksOf(job[t])) \in 0..2 BY LocksAre
  <2> QED BY <2>1, <2>2, <2>3
<1> QED BY <1>1, LocksAre, PrefixHolds DEF JobHolds

LEMMA ClearHolds ==
  ASSUME AsInv, NEW t \in Jobs, job[t].clear
  PROVE  \A x : x \in RowsOf(job[t]) => x \in JobHolds(t)
<1>1. job[t].locks = Len(LocksOf(job[t])) BY DEF AsInv, JobsInv, Ready, AllLocked
<1> QED BY <1>1, LocksAre, HoldsAre

\* A transaction that is clear holds every row it names, and shares none but an employee.
LEMMA Separate ==
  ASSUME AsInv, NEW t \in Jobs, NEW u \in Jobs, t # u, job[t].clear, job[u].clear
  PROVE  \A x : x \in RowsOf(job[t]) /\ x \notin AssetHolders => x \notin RowsOf(job[u])
<1>1. \A x : x \in RowsOf(job[t]) => x \in JobHolds(t) BY ClearHolds
<1>2. \A x : x \in RowsOf(job[u]) => x \in JobHolds(u) BY ClearHolds
<1> QED BY <1>1, <1>2 DEF AsInv, JobsInv, Exclusive

\* Nobody's locks move while its allocation keeps its asset.
LEMMA LocksStay ==
  ASSUME AsInv, NEW u \in Jobs, job'[u] = job[u],
         \A l \in AllocationIds : allocation[l].status # "NONE" => allocation'[l].asset = allocation[l].asset
  PROVE  /\ LocksOf(job[u])' = LocksOf(job[u]) /\ JobHolds(u)' = JobHolds(u)
         /\ AllLocked(u)' = AllLocked(u)
<1>1. job[u].op = "return" => allocation'[job[u].allocation].asset = allocation[job[u].allocation].asset
  BY DEF AsInv, JobsInv, JobNames
<1>2. LocksOf(job[u])' = LocksOf(job[u])
  BY <1>1 DEF LocksOf, LockOrder
<1> QED BY <1>2 DEF JobHolds, AllLocked

\* What a step may do to the rows a clear transaction holds.
LEMMA ReadyStays ==
  ASSUME AsInv, NEW u \in Jobs, job'[u] = job[u],
         \A l \in AllocationIds : allocation[l].status # "NONE" => allocation'[l].asset = allocation[l].asset,
         job[u].clear =>
           /\ \A c \in CategoryIds : c \in RowsOf(job[u]) => assetCategory'[c] = assetCategory[c]
           /\ \A a \in AssetIds : a \in RowsOf(job[u]) /\ asset[a].status = "AVAILABLE" =>
                /\ asset'[a].status = "AVAILABLE"
                /\ \A l \in AllocationIds : allocation'[l].asset = a /\ allocation'[l].status = "ACTIVE" =>
                                            allocation[l].asset = a /\ allocation[l].status = "ACTIVE"
           /\ \A c \in CategoryIds, a \in AssetIds :
                c \in RowsOf(job[u]) /\ asset'[a].category = c /\ asset'[a].status \in {"AVAILABLE", "ASSIGNED"} =>
                asset[a].category = c /\ asset[a].status \in {"AVAILABLE", "ASSIGNED"}
           /\ \A l \in AllocationIds : l \in RowsOf(job[u]) => allocation'[l].status = allocation[l].status
           /\ \A e \in AssetHolders : e \in RowsOf(job[u]) /\ e \in atWork => e \in atWork'
  PROVE  Ready(u)'
<1> SUFFICES ASSUME job[u].clear PROVE (AllLocked(u) /\ Passes(job[u]))'
  BY DEF Ready
<1> DEFINE j == job[u]
<1>1. AllLocked(u) /\ Passes(j) /\ JobNames(j) BY DEF AsInv, JobsInv, Ready
<1>2. AllLocked(u)' BY <1>1, LocksStay
<1>3. j.op \in Ops BY <1>1, AssetTypes DEF JobRow, Passes
<1>4. CASE j.op = "create"
  BY <1>1, <1>2, <1>4 DEF Passes, RowsOf, JobNames
<1>5. CASE j.op = "save"
  BY <1>1, <1>2, <1>5 DEF Passes, RowsOf, JobNames
<1>6. CASE j.op = "retireAsset"
  BY <1>1, <1>2, <1>6 DEF Passes, RowsOf, JobNames, ActiveAllocations
<1>7. CASE j.op = "retireCategory"
  BY <1>1, <1>2, <1>7 DEF Passes, RowsOf, JobNames, InUse
<1>8. CASE j.op = "assign"
  BY <1>1, <1>2, <1>8 DEF Passes, RowsOf, JobNames
<1>9. CASE j.op = "return"
  BY <1>1, <1>2, <1>9 DEF Passes, RowsOf, JobNames
<1> QED BY <1>3, <1>4, <1>5, <1>6, <1>7, <1>8, <1>9 DEF Ops

\* A transaction ends, and the others keep their locks.
LEMMA JobEnds ==
  ASSUME AsInv, NEW t \in Jobs, job' = [job EXCEPT ![t] = NoJob],
         \A l \in AllocationIds : allocation[l].status # "NONE" =>
           allocation'[l].status # "NONE" /\ allocation'[l].asset = allocation[l].asset,
         \A u \in Jobs \ {t} : Ready(u)'
  PROVE  JobsInv' /\ job' \in [Jobs -> JobRow]
<1>1. NoJob \in JobRow BY DEF NoJob, JobRow
<1>2. /\ job' \in [Jobs -> JobRow] /\ job'[t] = NoJob
      /\ \A u \in Jobs \ {t} : job'[u] = job[u]
  BY <1>1, AssetTypes
<1>3. LocksOf(job[t])' = <<>> BY <1>2 DEF LocksOf, LockOrder, NoJob
<1>4. JobNames(job[t])' /\ Ready(t)' /\ (job[t].locks <= Len(LocksOf(job[t])))'
  BY <1>2, <1>3 DEF JobNames, Ready, NoJob
<1>5. \A u \in Jobs \ {t} : JobNames(job[u])' /\ (job[u].locks <= Len(LocksOf(job[u])))'
  <2> SUFFICES ASSUME NEW u \in Jobs \ {t}
               PROVE  JobNames(job[u])' /\ (job[u].locks <= Len(LocksOf(job[u])))'
    OBVIOUS
  <2>1. LocksOf(job[u])' = LocksOf(job[u]) BY <1>2, LocksStay
  <2>2. JobNames(job[u]) /\ job[u].locks <= Len(LocksOf(job[u])) BY DEF AsInv, JobsInv
  <2> QED BY <1>2, <2>1, <2>2 DEF JobNames
<1>6. JobHolds(t)' = {}
  <2>1. SubSeq(<<>>, 1, 0) = <<>> OBVIOUS
  <2> QED BY <1>2, <1>3, <2>1 DEF JobHolds, NoJob, Range
<1>7. \A u \in Jobs \ {t} : JobHolds(u)' = JobHolds(u) BY <1>2, LocksStay
<1>8. Exclusive' BY <1>6, <1>7 DEF Exclusive, AsInv, JobsInv
<1> QED BY <1>2, <1>4, <1>5, <1>8 DEF JobsInv

LEMMA BeginKeeps ==
  ASSUME AsInv, NEW t \in Jobs, BeginAnyJob(t)
  PROVE  AsInv'
<1>1. PICK j \in JobRow : /\ BeginJob(t, j) /\ JobNames(j) /\ j.locks = 0 /\ ~j.clear
  <2>1. \A op \in Ops : /\ RequestedJob(op) \in JobRow /\ RequestedJob(op).op = op
                         /\ RequestedJob(op).locks = 0 /\ ~RequestedJob(op).clear
    <3> SUFFICES ASSUME NEW op \in Ops
                 PROVE  /\ RequestedJob(op) \in JobRow /\ RequestedJob(op).op = op
                        /\ RequestedJob(op).locks = 0 /\ ~RequestedJob(op).clear
      OBVIOUS
    <3>1. NoJob \in JobRow /\ NoJob.locks = 0 /\ ~NoJob.clear BY DEF NoJob, JobRow
    <3>2. RequestedJob(op) = [NoJob EXCEPT !.op = op] BY DEF RequestedJob
    <3> QED BY <3>1, <3>2 DEF JobRow
  <2>2. CASE \E a \in AssetIds, c \in CategoryIds :
               BeginJob(t, [RequestedJob(IF asset[a].status = "NONE" THEN "create" ELSE "save")
                           EXCEPT !.asset = a, !.category = c])
    <3>1. PICK a \in AssetIds, c \in CategoryIds, op \in {"create", "save"} :
            BeginJob(t, [RequestedJob(op) EXCEPT !.asset = a, !.category = c])
      BY <2>2
    <3> DEFINE j == [RequestedJob(op) EXCEPT !.asset = a, !.category = c]
    <3>2. j \in JobRow /\ j.op = op /\ j.asset = a /\ j.category = c /\ j.locks = 0 /\ ~j.clear
      BY ZenonT(60), <2>1 DEF JobRow, Ops
    <3>3. BeginJob(t, j) BY <3>1
    <3> HIDE DEF j
    <3> QED BY <3>2, <3>3 DEF JobNames
  <2>3. CASE \E a \in AssetIds : BeginJob(t, [RequestedJob("retireAsset") EXCEPT !.asset = a])
    BY <2>1, <2>3 DEF JobRow, JobNames, Ops
  <2>4. CASE \E c \in CategoryIds : BeginJob(t, [RequestedJob("retireCategory") EXCEPT !.category = c])
    BY <2>1, <2>4 DEF JobRow, JobNames, Ops
  <2>5. CASE \E a \in AssetIds, s \in AssetHolders :
               BeginJob(t, [RequestedJob("assign") EXCEPT !.asset = a, !.employee = s])
    <3>1. PICK a \in AssetIds, s \in AssetHolders :
            BeginJob(t, [RequestedJob("assign") EXCEPT !.asset = a, !.employee = s])
      BY <2>5
    <3> DEFINE j == [RequestedJob("assign") EXCEPT !.asset = a, !.employee = s]
    <3>2. j \in JobRow /\ j.op = "assign" /\ j.asset = a /\ j.employee = s /\ j.locks = 0 /\ ~j.clear
      BY ZenonT(60), <2>1 DEF JobRow, Ops
    <3>3. BeginJob(t, j) BY <3>1
    <3> HIDE DEF j
    <3> QED BY <3>2, <3>3 DEF JobNames
  <2>6. CASE \E l \in AllocationIds : allocation[l].status # "NONE" /\
                                      BeginJob(t, [RequestedJob("return") EXCEPT !.allocation = l])
    BY <2>1, <2>6 DEF JobRow, JobNames, Ops
  <2> QED BY <2>2, <2>3, <2>4, <2>5, <2>6 DEF BeginAnyJob
<1>2. /\ job' = [job EXCEPT ![t] = j] /\ UNCHANGED <<asset, assetCategory, allocation, atWork>>
  BY <1>1 DEF BeginJob
<1>3. /\ job' \in [Jobs -> JobRow] /\ job'[t] = j /\ \A u \in Jobs \ {t} : job'[u] = job[u]
  BY <1>2, AssetTypes
<1>4. AsTypeOK' BY <1>2, <1>3 DEF AsInv, AsTypeOK, JobRow
<1>5. \A u \in Jobs \ {t} : /\ LocksOf(job[u])' = LocksOf(job[u]) /\ JobHolds(u)' = JobHolds(u)
                            /\ AllLocked(u)' = AllLocked(u)
  BY <1>2, <1>3, LocksStay
<1>6. \A u \in Jobs \ {t} : (JobNames(job[u]) /\ job[u].locks <= Len(LocksOf(job[u])) /\ Ready(u))'
  <2> SUFFICES ASSUME NEW u \in Jobs \ {t}
               PROVE  (JobNames(job[u]) /\ job[u].locks <= Len(LocksOf(job[u])) /\ Ready(u))'
    OBVIOUS
  <2>1. JobNames(job[u]) /\ job[u].locks <= Len(LocksOf(job[u])) /\ Ready(u) BY DEF AsInv, JobsInv
  <2>2. JobNames(job[u])' BY <1>2, <1>3, <2>1 DEF JobNames
  <2>3. (job[u].locks <= Len(LocksOf(job[u])))' BY <1>3, <1>5, <2>1
  <2>4. Ready(u)' BY <1>2, <1>3, ReadyStays
  <2> QED BY <2>2, <2>3, <2>4
<1>7. JobNames(job[t])' /\ Ready(t)' BY <1>1, <1>2, <1>3 DEF JobNames, Ready
<1>8. LocksOf(job[t])' = LocksOf(j)
  BY <1>2, <1>3 DEF LocksOf, LockOrder
<1>9. LocksOf(j) \in Seq(LockedRows)
  <2>1. j.op = "return" => allocation[j.allocation].asset \in AssetIds
    BY <1>1 DEF JobNames, AsInv, AllocationInv
  <2>2. j.op \in Ops \cup {"idle"} BY DEF JobRow
  <2>3. CASE j.op \in {"create", "retireCategory"}
    <3>1. LocksOf(j) = <<j.category>> /\ j.category \in LockedRows
      BY <1>1, <2>3 DEF LocksOf, LockOrder, JobNames, LockedRows
    <3> QED BY <3>1
  <2>4. CASE j.op = "save"
    <3>1. LocksOf(j) = <<j.category, j.asset>> /\ j.category \in LockedRows /\ j.asset \in LockedRows
      BY <1>1, <2>4 DEF LocksOf, LockOrder, JobNames, LockedRows
    <3> QED BY <3>1
  <2>5. CASE j.op = "retireAsset"
    <3>1. LocksOf(j) = <<j.asset>> /\ j.asset \in LockedRows
      BY <1>1, <2>5 DEF LocksOf, LockOrder, JobNames, LockedRows
    <3> QED BY <3>1
  <2>6. CASE j.op = "assign"
    <3>1. LocksOf(j) = <<j.asset, j.employee>> /\ j.asset \in LockedRows /\ j.employee \in LockedRows
      BY <1>1, <2>6 DEF LocksOf, LockOrder, JobNames, LockedRows
    <3> QED BY <3>1
  <2>7. CASE j.op = "return"
    <3> DEFINE b == allocation[j.allocation].asset
    <3>1. LocksOf(j) = <<j.allocation, b>> /\ j.allocation \in LockedRows /\ b \in LockedRows
      BY <1>1, <2>1, <2>7 DEF LocksOf, LockOrder, JobNames, LockedRows
    <3> HIDE DEF b
    <3> QED BY <3>1
  <2>8. CASE j.op = "idle"
    <3>1. LocksOf(j) = <<>> BY <2>8 DEF LocksOf, LockOrder
    <3> QED BY <3>1
  <2> QED BY <2>2, <2>3, <2>4, <2>5, <2>6, <2>7, <2>8 DEF Ops
<1>10. (job[t].locks <= Len(LocksOf(job[t])))' /\ JobHolds(t)' = {}
  <2>1. Len(LocksOf(j)) \in Nat BY <1>9
  <2>2. SubSeq(LocksOf(j), 1, 0) = <<>> BY <1>9, SubSeqEmpty
  <2> QED BY <1>1, <1>3, <1>8, <2>1, <2>2 DEF JobHolds, Range
<1>11. Exclusive' BY <1>5, <1>10 DEF Exclusive, AsInv, JobsInv
<1>12. JobsInv' BY <1>6, <1>7, <1>10, <1>11 DEF JobsInv
<1>13. \A a \in AssetIds : AssetInv(a)' BY <1>2 DEF AsInv, AssetInv, ActiveAllocations
<1>14. \A l \in AllocationIds : AllocationInv(l)' BY <1>2 DEF AsInv, AllocationInv
<1> QED BY <1>4, <1>12, <1>13, <1>14 DEF AsInv

LEMMA TakeLockKeeps ==
  ASSUME AsInv, NEW t \in Jobs, TakeLock(t)
  PROVE  AsInv'
<1> DEFINE n == job[t].locks
           row == LocksOf(job[t])[n + 1]
<1>1. /\ job[t].op # "idle" /\ n # Len(LocksOf(job[t])) /\ GrantsLock(t, row)
      /\ job' = [job EXCEPT ![t].locks = @ + 1]
      /\ UNCHANGED <<asset, assetCategory, allocation, atWork>>
  BY DEF TakeLock, AllLocked
<1>2. n \in 0..2 /\ n + 1 <= Len(LocksOf(job[t])) /\ n + 1 \in 0..2
  <2>1. n \in 0..2 BY AssetTypes DEF JobRow
  <2>2. n <= Len(LocksOf(job[t])) BY DEF AsInv, JobsInv
  <2>3. Len(LocksOf(job[t])) \in 0..2 BY LocksAre
  <2> HIDE DEF n
  <2> QED BY <1>1, <2>1, <2>2, <2>3
<1> DEFINE j == [job[t] EXCEPT !.locks = n + 1]
<1>3. /\ j \in JobRow /\ j.op = job[t].op /\ j.asset = job[t].asset /\ j.category = job[t].category
      /\ j.allocation = job[t].allocation /\ j.employee = job[t].employee /\ j.clear = job[t].clear
      /\ j.locks = n + 1
  BY <1>2, AssetTypes DEF JobRow
<1>4. /\ job' \in [Jobs -> JobRow] /\ job'[t] = j /\ \A u \in Jobs \ {t} : job'[u] = job[u]
  BY <1>1, <1>3, AssetTypes
<1> HIDE DEF j
<1>5. AsTypeOK' BY <1>1, <1>4 DEF AsInv, AsTypeOK, JobRow
<1>6. \A u \in Jobs \ {t} : /\ LocksOf(job[u])' = LocksOf(job[u]) /\ JobHolds(u)' = JobHolds(u)
                            /\ AllLocked(u)' = AllLocked(u)
  BY <1>1, <1>4, LocksStay
<1>7. LocksOf(job[t])' = LocksOf(job[t]) BY <1>1, <1>3, <1>4 DEF LocksOf, LockOrder
<1>8. ~job[t].clear BY <1>1 DEF AsInv, JobsInv, Ready, AllLocked
<1>9. \A u \in Jobs \ {t} : (JobNames(job[u]) /\ job[u].locks <= Len(LocksOf(job[u])) /\ Ready(u))'
  <2> SUFFICES ASSUME NEW u \in Jobs \ {t}
               PROVE  (JobNames(job[u]) /\ job[u].locks <= Len(LocksOf(job[u])) /\ Ready(u))'
    OBVIOUS
  <2>1. JobNames(job[u]) /\ job[u].locks <= Len(LocksOf(job[u])) /\ Ready(u) BY DEF AsInv, JobsInv
  <2>2. JobNames(job[u])' BY <1>1, <1>4, <2>1 DEF JobNames
  <2>3. (job[u].locks <= Len(LocksOf(job[u])))' BY <1>4, <1>6, <2>1
  <2>4. Ready(u)' BY <1>1, <1>4, ReadyStays
  <2> QED BY <2>2, <2>3, <2>4
<1>10. /\ JobNames(job[t])' /\ Ready(t)' /\ (job[t].locks <= Len(LocksOf(job[t])))'
  <2>1. JobNames(job[t]) BY DEF AsInv, JobsInv
  <2>2. JobNames(job[t])' BY <1>1, <1>3, <1>4, <2>1 DEF JobNames
  <2>3. Ready(t)' BY <1>3, <1>4, <1>8 DEF Ready
  <2>4. (job[t].locks <= Len(LocksOf(job[t])))' BY <1>2, <1>3, <1>4, <1>7
  <2> QED BY <2>2, <2>3, <2>4
<1>11. \A x : x \in JobHolds(t)' => x \in JobHolds(t) \/ x = row
  <2>1. LocksOf(job[t]) \in Seq(LockedRows) /\ n + 1 \in 0..Len(LocksOf(job[t]))
    BY <1>2, LocksAre
  <2>2. \A x : x \in Range(SubSeq(LocksOf(job[t]), 1, n + 1)) <=>
               \E i \in 1..(n + 1) : LocksOf(job[t])[i] = x
    BY ONLY <2>1, PrefixHolds
  <2>3. JobHolds(t)' = Range(SubSeq(LocksOf(job[t]), 1, n + 1))
    BY <1>3, <1>4, <1>7 DEF JobHolds
  <2>4. \A i \in 1..(n + 1) : i \in 1..n \/ i = n + 1 BY <1>2
  <2>5. \A x : x \in JobHolds(t) <=> \E i \in 1..n : LocksOf(job[t])[i] = x BY HoldsAre
  <2> QED BY <2>2, <2>3, <2>4, <2>5
<1>12. Exclusive'
  <2>1. \A u \in Jobs \ {t} : JobHolds(t)' \cap JobHolds(u)' \subseteq AssetHolders
    BY <1>1, <1>6, <1>11 DEF GrantsLock, Exclusive, AsInv, JobsInv
  <2>2. \A u, w \in Jobs \ {t} : u # w => JobHolds(w)' \cap JobHolds(u)' \subseteq AssetHolders
    BY <1>6 DEF Exclusive, AsInv, JobsInv
  <2> QED BY <2>1, <2>2 DEF Exclusive
<1>13. JobsInv' BY <1>9, <1>10, <1>12 DEF JobsInv
<1>14. \A a \in AssetIds : AssetInv(a)' BY <1>1 DEF AsInv, AssetInv, ActiveAllocations
<1>15. \A l \in AllocationIds : AllocationInv(l)' BY <1>1 DEF AsInv, AllocationInv
<1> QED BY <1>5, <1>13, <1>14, <1>15 DEF AsInv

LEMMA RollbackKeeps ==
  ASSUME AsInv, NEW t \in Jobs, job' = [job EXCEPT ![t] = NoJob],
         UNCHANGED <<asset, assetCategory, allocation, atWork>>
  PROVE  AsInv'
<1>1. \A u \in Jobs \ {t} : job'[u] = job[u] BY AssetTypes
<1>2. \A u \in Jobs \ {t} : Ready(u)' BY <1>1, ReadyStays
<1>3. JobsInv' /\ job' \in [Jobs -> JobRow] BY <1>2, JobEnds
<1>4. AsTypeOK' BY <1>3 DEF AsInv, AsTypeOK, JobRow
<1>5. \A a \in AssetIds : AssetInv(a)' BY DEF AsInv, AssetInv, ActiveAllocations
<1>6. \A l \in AllocationIds : AllocationInv(l)' BY DEF AsInv, AllocationInv
<1> QED BY <1>3, <1>4, <1>5, <1>6 DEF AsInv

LEMMA CheckJobKeeps ==
  ASSUME AsInv, NEW t \in Jobs, CheckJob(t)
  PROVE  AsInv'
<1>1. /\ job[t].op # "idle" /\ AllLocked(t) /\ UNCHANGED <<asset, assetCategory, allocation, atWork>>
      /\ job' = IF Passes(job[t]) THEN [job EXCEPT ![t].clear = TRUE] ELSE [job EXCEPT ![t] = NoJob]
  BY DEF CheckJob, JobChecks
<1>2. CASE ~Passes(job[t]) BY <1>1, <1>2, RollbackKeeps
<1>3. CASE Passes(job[t])
  <2> DEFINE j == [job[t] EXCEPT !.clear = TRUE]
  <2>1. /\ j \in JobRow /\ j.op = job[t].op /\ j.asset = job[t].asset /\ j.category = job[t].category
        /\ j.allocation = job[t].allocation /\ j.employee = job[t].employee /\ j.locks = job[t].locks
    BY AssetTypes DEF JobRow
  <2>2. /\ job' \in [Jobs -> JobRow] /\ job'[t] = j /\ \A u \in Jobs \ {t} : job'[u] = job[u]
    BY <1>1, <1>3, <2>1, AssetTypes
  <2> HIDE DEF j
  <2>3. AsTypeOK' BY <1>1, <2>2 DEF AsInv, AsTypeOK, JobRow
  <2>4. LocksOf(job[t])' = LocksOf(job[t]) BY <1>1, <2>1, <2>2 DEF LocksOf, LockOrder
  <2>5. JobHolds(t)' = JobHolds(t) /\ AllLocked(t)' BY <1>1, <2>1, <2>2, <2>4 DEF JobHolds, AllLocked
  <2>6. \A u \in Jobs \ {t} : LocksOf(job[u])' = LocksOf(job[u]) /\ JobHolds(u)' = JobHolds(u)
    BY <1>1, <2>2, LocksStay
  <2>7. Passes(job[t])' BY <1>1, <1>3, <2>1, <2>2 DEF Passes, InUse, ActiveAllocations
  <2>8. Ready(t)' BY <2>5, <2>7 DEF Ready
  <2>9. \A u \in Jobs \ {t} : Ready(u)' BY <1>1, <2>2, ReadyStays
  <2>10. \A u \in Jobs : JobNames(job[u])' /\ (job[u].locks <= Len(LocksOf(job[u])))'
    <3> SUFFICES ASSUME NEW u \in Jobs
                 PROVE  JobNames(job[u])' /\ (job[u].locks <= Len(LocksOf(job[u])))'
      OBVIOUS
    <3>1. JobNames(job[u]) /\ job[u].locks <= Len(LocksOf(job[u])) BY DEF AsInv, JobsInv
    <3>2. CASE u = t BY <1>1, <2>1, <2>2, <2>4, <3>1, <3>2 DEF JobNames
    <3>3. CASE u # t BY <1>1, <2>2, <2>6, <3>1, <3>3 DEF JobNames
    <3> QED BY <3>2, <3>3
  <2>11. Exclusive' BY <2>5, <2>6 DEF Exclusive, AsInv, JobsInv
  <2>12. JobsInv' BY <2>8, <2>9, <2>10, <2>11 DEF JobsInv
  <2>13. \A a \in AssetIds : AssetInv(a)' BY <1>1 DEF AsInv, AssetInv, ActiveAllocations
  <2>14. \A l \in AllocationIds : AllocationInv(l)' BY <1>1 DEF AsInv, AllocationInv
  <2> QED BY <2>3, <2>12, <2>13, <2>14 DEF AsInv
<1> QED BY <1>2, <1>3

\* The rows of a transaction that is clear, and those no other clear one names.
LEMMA Alone ==
  ASSUME AsInv, NEW t \in Jobs, NEW u \in Jobs \ {t}, job[t].clear, job[u].clear
  PROVE  \A x \in AssetIds \cup CategoryIds \cup AllocationIds :
           x \in RowsOf(job[t]) => x \notin RowsOf(job[u])
BY Separate, AssetsAssumption

\* What the transactions lock is of three kinds.
LEMMA Kinds ==
  /\ \A a \in AssetIds : a \notin CategoryIds /\ a \notin AllocationIds /\ a \notin AssetHolders
  /\ \A c \in CategoryIds : c \notin AllocationIds /\ c \notin AssetHolders
  /\ \A l \in AllocationIds : l \notin AssetHolders
BY AssetsAssumption

LEMMA ClearFacts ==
  ASSUME AsInv, NEW t \in Jobs, job[t].clear
  PROVE  Passes(job[t]) /\ JobNames(job[t])
BY DEF AsInv, JobsInv, Ready

LEMMA CreateAssetKeeps ==
  ASSUME AsInv, NEW t \in Jobs, CommitCreateAsset(t)
  PROVE  AsInv'
<1> DEFINE a == job[t].asset
           c == job[t].category
           row == [status |-> "AVAILABLE", category |-> c]
<1>1. /\ job[t].op = "create" /\ job[t].clear /\ job' = [job EXCEPT ![t] = NoJob]
      /\ asset[a].status = "NONE" /\ asset' = [asset EXCEPT ![a] = row]
      /\ UNCHANGED <<assetCategory, allocation, atWork>>
  BY DEF CommitCreateAsset, CommitsJob
<1>2. a \in AssetIds /\ c \in CategoryIds /\ assetCategory[c] = "ACTIVE" /\ c \in RowsOf(job[t])
  BY <1>1, ClearFacts DEF Passes, JobNames, RowsOf
<1>3. row \in AssetRow BY <1>2 DEF AssetRow
<1>4. /\ asset' \in [AssetIds -> AssetRow] /\ asset'[a] = row
      /\ \A b \in AssetIds \ {a} : asset'[b] = asset[b]
  BY <1>1, <1>2, <1>3, AssetTypes
<1>5. \A u \in Jobs \ {t} : job'[u] = job[u] BY <1>1, AssetTypes
<1>6. row.status = "AVAILABLE" /\ row.category = c OBVIOUS
<1> HIDE DEF row, a, c
<1>7. \A u \in Jobs \ {t} : job[u].clear => c \notin RowsOf(job[u]) BY <1>1, <1>2, Alone
<1>8. \A u \in Jobs \ {t} : Ready(u)' BY <1>1, <1>4, <1>5, <1>6, <1>7, ReadyStays
<1>9. JobsInv' /\ job' \in [Jobs -> JobRow] BY <1>1, <1>8, JobEnds
<1>10. AsTypeOK' BY <1>1, <1>4, <1>9 DEF AsInv, AsTypeOK, JobRow, AssetRow
<1>11. \A b \in AssetIds : AssetInv(b)'
  BY <1>1, <1>2, <1>4, <1>6 DEF AsInv, AssetInv, ActiveAllocations
<1>12. \A l \in AllocationIds : AllocationInv(l)' BY <1>1 DEF AsInv, AllocationInv
<1> QED BY <1>9, <1>10, <1>11, <1>12 DEF AsInv

LEMMA SaveAssetKeeps ==
  ASSUME AsInv, NEW t \in Jobs, CommitSave(t)
  PROVE  AsInv'
<1> DEFINE a == job[t].asset
           c == job[t].category
           row == [asset[a] EXCEPT !.category = c]
<1>1. /\ job[t].op = "save" /\ job[t].clear /\ job' = [job EXCEPT ![t] = NoJob]
      /\ asset' = [asset EXCEPT ![a].category = c]
      /\ UNCHANGED <<assetCategory, allocation, atWork>>
  BY DEF CommitSave, CommitsJob
<1>2. /\ a \in AssetIds /\ c \in CategoryIds /\ assetCategory[c] = "ACTIVE" /\ asset[a].status = "AVAILABLE"
      /\ c \in RowsOf(job[t]) /\ a \in RowsOf(job[t])
  BY <1>1, ClearFacts DEF Passes, JobNames, RowsOf
<1>3. row \in AssetRow /\ row.status = "AVAILABLE" /\ row.category = c BY <1>2, AssetTypes DEF AssetRow
<1>4. /\ asset' \in [AssetIds -> AssetRow] /\ asset'[a] = row
      /\ \A b \in AssetIds \ {a} : asset'[b] = asset[b]
  BY <1>1, <1>2, <1>3, AssetTypes
<1>5. \A u \in Jobs \ {t} : job'[u] = job[u] BY <1>1, AssetTypes
<1> HIDE DEF row, a, c
<1>7. \A u \in Jobs \ {t} : job[u].clear => c \notin RowsOf(job[u]) BY <1>1, <1>2, Alone
<1>8. \A u \in Jobs \ {t} : Ready(u)' BY <1>1, <1>2, <1>3, <1>4, <1>5, <1>7, ReadyStays
<1>9. JobsInv' /\ job' \in [Jobs -> JobRow] BY <1>1, <1>8, JobEnds
<1>10. AsTypeOK' BY <1>1, <1>4, <1>9 DEF AsInv, AsTypeOK, JobRow, AssetRow
<1>11. \A b \in AssetIds : AssetInv(b)'
  BY <1>1, <1>2, <1>3, <1>4 DEF AsInv, AssetInv, ActiveAllocations
<1>12. \A l \in AllocationIds : AllocationInv(l)' BY <1>1 DEF AsInv, AllocationInv
<1> QED BY <1>9, <1>10, <1>11, <1>12 DEF AsInv

LEMMA RetireAssetKeeps ==
  ASSUME AsInv, NEW t \in Jobs, CommitRetireAsset(t)
  PROVE  AsInv'
<1> DEFINE a == job[t].asset
           row == [asset[a] EXCEPT !.status = "RETIRED"]
<1>1. /\ job[t].op = "retireAsset" /\ job[t].clear /\ job' = [job EXCEPT ![t] = NoJob]
      /\ asset' = [asset EXCEPT ![a].status = "RETIRED"]
      /\ UNCHANGED <<assetCategory, allocation, atWork>>
  BY DEF CommitRetireAsset, CommitsJob
<1>2. /\ a \in AssetIds /\ asset[a].status = "AVAILABLE" /\ a \in RowsOf(job[t])
  BY <1>1, ClearFacts DEF Passes, JobNames, RowsOf
<1>3. row \in AssetRow /\ row.status = "RETIRED" /\ row.category = asset[a].category
  BY <1>2, AssetTypes DEF AssetRow
<1>4. /\ asset' \in [AssetIds -> AssetRow] /\ asset'[a] = row
      /\ \A b \in AssetIds \ {a} : asset'[b] = asset[b]
  BY <1>1, <1>2, <1>3, AssetTypes
<1>5. \A u \in Jobs \ {t} : job'[u] = job[u] BY <1>1, AssetTypes
<1> HIDE DEF row, a
<1>7. \A u \in Jobs \ {t} : job[u].clear => a \notin RowsOf(job[u]) BY <1>1, <1>2, Alone
<1>8. \A u \in Jobs \ {t} : Ready(u)' BY <1>1, <1>2, <1>3, <1>4, <1>5, <1>7, ReadyStays
<1>9. JobsInv' /\ job' \in [Jobs -> JobRow] BY <1>1, <1>8, JobEnds
<1>10. AsTypeOK' BY <1>1, <1>4, <1>9 DEF AsInv, AsTypeOK, JobRow, AssetRow
<1>11. \A b \in AssetIds : AssetInv(b)'
  BY <1>1, <1>2, <1>3, <1>4 DEF AsInv, AssetInv, ActiveAllocations
<1>12. \A l \in AllocationIds : AllocationInv(l)' BY <1>1 DEF AsInv, AllocationInv
<1> QED BY <1>9, <1>10, <1>11, <1>12 DEF AsInv

LEMMA RetireCategoryKeeps ==
  ASSUME AsInv, NEW t \in Jobs, CommitRetireCategory(t)
  PROVE  AsInv'
<1> DEFINE c == job[t].category
<1>1. /\ job[t].op = "retireCategory" /\ job[t].clear /\ job' = [job EXCEPT ![t] = NoJob]
      /\ assetCategory' = [assetCategory EXCEPT ![c] = "RETIRED"]
      /\ UNCHANGED <<asset, allocation, atWork>>
  BY DEF CommitRetireCategory, CommitsJob
<1>2. c \in CategoryIds /\ InUse(c) = {} /\ c \in RowsOf(job[t])
  BY <1>1, ClearFacts DEF Passes, JobNames, RowsOf
<1>4. /\ assetCategory' \in [CategoryIds -> {"ACTIVE", "RETIRED"}]
      /\ \A d \in CategoryIds \ {c} : assetCategory'[d] = assetCategory[d]
  BY <1>1, <1>2, AssetTypes
<1>5. \A u \in Jobs \ {t} : job'[u] = job[u] BY <1>1, AssetTypes
<1> HIDE DEF c
<1>7. \A u \in Jobs \ {t} : job[u].clear => c \notin RowsOf(job[u]) BY <1>1, <1>2, Alone
<1>8. \A u \in Jobs \ {t} : Ready(u)' BY <1>1, <1>4, <1>5, <1>7, ReadyStays
<1>9. JobsInv' /\ job' \in [Jobs -> JobRow] BY <1>1, <1>8, JobEnds
<1>10. AsTypeOK' BY <1>1, <1>4, <1>9 DEF AsInv, AsTypeOK, JobRow
<1>11. \A b \in AssetIds : AssetInv(b)'
  BY <1>1, <1>2, <1>4 DEF AsInv, AssetInv, ActiveAllocations, InUse
<1>12. \A l \in AllocationIds : AllocationInv(l)' BY <1>1 DEF AsInv, AllocationInv
<1> QED BY <1>9, <1>10, <1>11, <1>12 DEF AsInv

LEMMA AssignKeeps ==
  ASSUME AsInv, NEW t \in Jobs, NEW l \in AllocationIds, CommitAssign(t, l)
  PROVE  AsInv'
<1> DEFINE a == job[t].asset
           s == job[t].employee
           row == [asset[a] EXCEPT !.status = "ASSIGNED"]
           held == [status |-> "ACTIVE", asset |-> a, employee |-> s, logs |-> 0]
<1>1. /\ job[t].op = "assign" /\ job[t].clear /\ job' = [job EXCEPT ![t] = NoJob]
      /\ allocation[l].status = "NONE" /\ allocation' = [allocation EXCEPT ![l] = held]
      /\ asset' = [asset EXCEPT ![a].status = "ASSIGNED"]
      /\ UNCHANGED <<assetCategory, atWork>>
  BY DEF CommitAssign, CommitsJob
<1>2. /\ a \in AssetIds /\ s \in AssetHolders /\ asset[a].status = "AVAILABLE" /\ a \in RowsOf(job[t])
  BY <1>1, ClearFacts DEF Passes, JobNames, RowsOf
<1>3. /\ row \in AssetRow /\ row.status = "ASSIGNED" /\ row.category = asset[a].category
      /\ held \in AllocationRow /\ held.status = "ACTIVE" /\ held.asset = a /\ held.logs = 0
  BY <1>2, AssetTypes DEF AssetRow, AllocationRow
<1>4. /\ asset' \in [AssetIds -> AssetRow] /\ asset'[a] = row
      /\ \A b \in AssetIds \ {a} : asset'[b] = asset[b]
      /\ allocation' \in [AllocationIds -> AllocationRow] /\ allocation'[l] = held
      /\ \A k \in AllocationIds \ {l} : allocation'[k] = allocation[k]
  BY <1>1, <1>2, <1>3, AssetTypes
<1>5. \A u \in Jobs \ {t} : job'[u] = job[u] BY <1>1, AssetTypes
<1> HIDE DEF row, held, a, s
<1>6. \A k \in AllocationIds : allocation[k].status # "NONE" =>
        allocation'[k].status # "NONE" /\ allocation'[k].asset = allocation[k].asset
  BY <1>1, <1>4
<1>7. \A u \in Jobs \ {t} : job[u].clear => a \notin RowsOf(job[u]) BY <1>1, <1>2, Alone
<1>8. \A u \in Jobs \ {t} : Ready(u)'
  <2> SUFFICES ASSUME NEW u \in Jobs \ {t} PROVE Ready(u)' OBVIOUS
  <2>1. job[u].clear => \A k \in AllocationIds : k \in RowsOf(job[u]) => k # l
    <3> SUFFICES ASSUME job[u].clear, l \in RowsOf(job[u]) PROVE FALSE OBVIOUS
    <3>1. JobNames(job[u]) /\ Passes(job[u]) BY ClearFacts
    <3>2. job[u].op = "return" /\ (job[u].allocation = l \/ allocation[job[u].allocation].asset = l)
      BY <3>1, Kinds DEF RowsOf, JobNames
    <3>3. allocation[job[u].allocation].asset \in AssetIds
      BY <3>1, <3>2 DEF JobNames, AsInv, AllocationInv
    <3> QED BY <1>1, <3>1, <3>2, <3>3, Kinds DEF JobNames
  <2>2. \A c \in CategoryIds, b \in AssetIds :
          asset'[b].category = c /\ asset'[b].status \in {"AVAILABLE", "ASSIGNED"} =>
          asset[b].category = c /\ asset[b].status \in {"AVAILABLE", "ASSIGNED"}
    BY <1>2, <1>3, <1>4
  <2>3. \A b \in AssetIds : b # a => asset'[b].status = asset[b].status BY <1>4
  <2>4. \A b \in AssetIds \ {a}, k \in AllocationIds :
          allocation'[k].asset = b /\ allocation'[k].status = "ACTIVE" =>
          allocation[k].asset = b /\ allocation[k].status = "ACTIVE"
    BY <1>3, <1>4
  <2>5. \A k \in AllocationIds : k # l => allocation'[k].status = allocation[k].status BY <1>4
  <2>6. assetCategory' = assetCategory /\ atWork' = atWork /\ job'[u] = job[u] BY <1>1, <1>5
  <2> QED BY <1>6, <1>7, <2>1, <2>2, <2>3, <2>4, <2>5, <2>6, ReadyStays
<1>9. JobsInv' /\ job' \in [Jobs -> JobRow] BY <1>1, <1>6, <1>8, JobEnds
<1>10. AsTypeOK' BY <1>1, <1>4, <1>9 DEF AsInv, AsTypeOK, JobRow, AssetRow, AllocationRow
<1>11. \A b \in AssetIds : AssetInv(b)'
  <2>1. ActiveAllocations(a) = {} BY <1>2 DEF AsInv, AssetInv
  <2>2. \A b \in AssetIds : b = a => ActiveAllocations(b)' = {l}
    BY <1>3, <1>4, <2>1 DEF ActiveAllocations
  <2>3. \A b \in AssetIds \ {a} : ActiveAllocations(b)' = ActiveAllocations(b)
    BY <1>1, <1>3, <1>4 DEF ActiveAllocations
  <2>4. \A b \in AssetIds : b = a => AssetInv(b)'
    BY <1>1, <1>2, <1>3, <1>4, <2>2 DEF AsInv, AssetInv
  <2>5. \A b \in AssetIds \ {a} : AssetInv(b)' BY <1>1, <1>4, <2>3 DEF AsInv, AssetInv
  <2> QED BY <2>4, <2>5
<1>12. \A k \in AllocationIds : AllocationInv(k)' BY <1>2, <1>3, <1>4 DEF AsInv, AllocationInv
<1> QED BY <1>9, <1>10, <1>11, <1>12 DEF AsInv

LEMMA ReturnKeeps ==
  ASSUME AsInv, NEW t \in Jobs, CommitReturn(t)
  PROVE  AsInv'
<1> DEFINE l == job[t].allocation
           a == allocation[l].asset
           row == [asset[a] EXCEPT !.status = "AVAILABLE"]
           back == [allocation[l] EXCEPT !.status = "RETURNED", !.logs = 1]
<1>1. /\ job[t].op = "return" /\ job[t].clear /\ job' = [job EXCEPT ![t] = NoJob]
      /\ allocation' = [allocation EXCEPT ![l].status = "RETURNED", ![l].logs = @ + 1]
      /\ asset' = [asset EXCEPT ![a].status = "AVAILABLE"]
      /\ UNCHANGED <<assetCategory, atWork>>
  BY DEF CommitReturn, CommitsJob
<1>2. /\ l \in AllocationIds /\ a \in AssetIds /\ allocation[l].status = "ACTIVE" /\ allocation[l].logs = 0
      /\ l \in RowsOf(job[t]) /\ a \in RowsOf(job[t])
  BY <1>1, ClearFacts DEF Passes, JobNames, RowsOf, AsInv, AllocationInv
<1>3. /\ row \in AssetRow /\ row.status = "AVAILABLE" /\ row.category = asset[a].category
      /\ back \in AllocationRow /\ back.status = "RETURNED" /\ back.asset = a /\ back.logs = 1
  <2>1. row \in AssetRow /\ row.status = "AVAILABLE" /\ row.category = asset[a].category
    BY <1>2, AssetTypes DEF AssetRow
  <2>2. allocation[l] \in AllocationRow BY <1>2, AssetTypes
  <2>3. back \in AllocationRow /\ back.status = "RETURNED" /\ back.asset = a /\ back.logs = 1
    BY <1>2, <2>2 DEF AllocationRow
  <2> QED BY <2>1, <2>3
<1>4. /\ asset' \in [AssetIds -> AssetRow] /\ asset'[a] = row
      /\ \A b \in AssetIds \ {a} : asset'[b] = asset[b]
      /\ allocation' \in [AllocationIds -> AllocationRow] /\ allocation'[l] = back
      /\ \A k \in AllocationIds \ {l} : allocation'[k] = allocation[k]
  <2>1. allocation' = [allocation EXCEPT ![l] = back]
    <3>1. allocation[l].logs + 1 = 1 BY <1>2
    <3>2. allocation' = [allocation EXCEPT ![l] =
                           [allocation[l] EXCEPT !.status = "RETURNED", !.logs = allocation[l].logs + 1]]
      BY <1>1, <1>2, AssetTypes
    <3> QED BY ONLY <3>1, <3>2
  <2> HIDE DEF back
  <2>2. asset' = [asset EXCEPT ![a] = row] BY <1>1, <1>2, AssetTypes
  <2> HIDE DEF row, a, l
  <2> QED BY <1>2, <1>3, <2>1, <2>2, AssetTypes
<1>5. \A u \in Jobs \ {t} : job'[u] = job[u] BY <1>1, AssetTypes
<1>6. a = allocation[l].asset OBVIOUS
<1> HIDE DEF row, back, a, l
<1>7. \A k \in AllocationIds : allocation[k].status # "NONE" =>
        allocation'[k].status # "NONE" /\ allocation'[k].asset = allocation[k].asset
  BY <1>3, <1>4, <1>6
<1>8. \A u \in Jobs \ {t} : job[u].clear => a \notin RowsOf(job[u]) /\ l \notin RowsOf(job[u])
  BY <1>1, <1>2, Alone
<1>9. l \in ActiveAllocations(a) BY <1>2, <1>6 DEF ActiveAllocations
<1>10. asset[a].status = "ASSIGNED" /\ ActiveAllocations(a) = {l}
  BY <1>2, <1>9 DEF AsInv, AssetInv
<1>11. \A u \in Jobs \ {t} : Ready(u)' BY <1>1, <1>3, <1>4, <1>5, <1>7, <1>8, <1>10, ReadyStays
<1>12. JobsInv' /\ job' \in [Jobs -> JobRow] BY <1>1, <1>7, <1>11, JobEnds
<1>13. AsTypeOK' BY <1>1, <1>4, <1>12 DEF AsInv, AsTypeOK, JobRow, AssetRow, AllocationRow
<1>14. \A b \in AssetIds : AssetInv(b)'
  <2>1. \A b \in AssetIds : b = a => ActiveAllocations(b)' = {}
    BY <1>3, <1>4, <1>10 DEF ActiveAllocations
  <2>2. \A b \in AssetIds \ {a} : ActiveAllocations(b)' = ActiveAllocations(b)
    BY <1>3, <1>4, <1>6 DEF ActiveAllocations
  <2>3. \A b \in AssetIds : b = a => AssetInv(b)'
    BY <1>1, <1>2, <1>3, <1>4, <1>10, <2>1 DEF AsInv, AssetInv
  <2>4. \A b \in AssetIds \ {a} : AssetInv(b)' BY <1>1, <1>4, <2>2 DEF AsInv, AssetInv
  <2> QED BY <2>3, <2>4
<1>15. \A k \in AllocationIds : AllocationInv(k)' BY <1>2, <1>3, <1>4 DEF AsInv, AllocationInv
<1> QED BY <1>12, <1>13, <1>14, <1>15 DEF AsInv

LEMMA HolderLeavesKeeps ==
  ASSUME AsInv, NEW s \in AssetHolders, HolderLeaves(s)
  PROVE  AsInv'
<1>1. /\ s \in atWork /\ \A t \in Jobs : s \notin JobHolds(t)
      /\ atWork' = atWork \ {s} /\ UNCHANGED <<asset, assetCategory, allocation, job>>
  BY DEF HolderLeaves
<1>2. AsTypeOK' BY <1>1 DEF AsInv, AsTypeOK
<1>3. \A u \in Jobs : job[u].clear => s \notin RowsOf(job[u]) BY <1>1, ClearHolds
<1>4. \A u \in Jobs : Ready(u)' BY <1>1, <1>3, ReadyStays
<1>5. \A u \in Jobs : LocksOf(job[u])' = LocksOf(job[u]) /\ JobHolds(u)' = JobHolds(u)
  BY <1>1, LocksStay
<1>6. \A u \in Jobs : JobNames(job[u])' /\ (job[u].locks <= Len(LocksOf(job[u])))'
  BY <1>1, <1>5 DEF AsInv, JobsInv, JobNames
<1>7. JobsInv' BY <1>4, <1>5, <1>6 DEF AsInv, JobsInv, Exclusive
<1>8. \A a \in AssetIds : AssetInv(a)' BY <1>1 DEF AsInv, AssetInv, ActiveAllocations
<1>9. \A l \in AllocationIds : AllocationInv(l)' BY <1>1 DEF AsInv, AllocationInv
<1> QED BY <1>2, <1>7, <1>8, <1>9 DEF AsInv

LEMMA AsBegins == AsInit => AsInv
<1> SUFFICES ASSUME AsInit PROVE AsInv OBVIOUS
<1>1. NoJob \in JobRow /\ NoAsset \in AssetRow /\ NoAllocation \in AllocationRow
  BY DEF NoJob, JobRow, NoAsset, AssetRow, NoAllocation, AllocationRow
<1>2. AsTypeOK BY <1>1 DEF AsInit, AsTypeOK, JobRow, AssetRow, AllocationRow
<1>3. \A t \in Jobs : job[t] = NoJob /\ LocksOf(job[t]) = <<>>
  BY DEF AsInit, LocksOf, LockOrder, NoJob
<1>4. \A t \in Jobs : JobHolds(t) = {}
  <2>1. SubSeq(<<>>, 1, 0) = <<>> OBVIOUS
  <2> QED BY <1>3, <2>1 DEF JobHolds, NoJob, Range
<1>5. JobsInv BY <1>3, <1>4 DEF JobsInv, JobNames, Ready, Exclusive, NoJob
<1>6. \A a \in AssetIds : AssetInv(a)
  BY DEF AsInit, AssetInv, ActiveAllocations, NoAsset, NoAllocation
<1>7. \A l \in AllocationIds : AllocationInv(l) BY DEF AsInit, AllocationInv, NoAllocation
<1> QED BY <1>2, <1>5, <1>6, <1>7 DEF AsInv

LEMMA AsKeeps == AsInv /\ [AsNext]_asVars => AsInv'
<1> SUFFICES ASSUME AsInv, [AsNext]_asVars PROVE AsInv' OBVIOUS
<1>1. ASSUME NEW t \in Jobs, BeginAnyJob(t) PROVE AsInv' BY <1>1, BeginKeeps
<1>2. ASSUME NEW t \in Jobs, TakeLock(t) PROVE AsInv' BY <1>2, TakeLockKeeps
<1>3. ASSUME NEW t \in Jobs, CheckJob(t) PROVE AsInv' BY <1>3, CheckJobKeeps
<1>4. ASSUME NEW t \in Jobs, CommitJob(t) PROVE AsInv'
  BY <1>4, CreateAssetKeeps, SaveAssetKeeps, RetireAssetKeeps, RetireCategoryKeeps, ReturnKeeps,
     AssignKeeps DEF CommitJob
<1>5. ASSUME NEW t \in Jobs, RollbackJob(t) PROVE AsInv' BY <1>5, RollbackKeeps DEF RollbackJob
<1>6. ASSUME NEW s \in AssetHolders, HolderLeaves(s) PROVE AsInv' BY <1>6, HolderLeavesKeeps
<1>7. CASE UNCHANGED asVars
  <2>1. UNCHANGED <<asset, assetCategory, allocation, atWork, job>> BY <1>7 DEF asVars
  <2>2. AsTypeOK' BY <2>1 DEF AsInv, AsTypeOK
  <2>3. \A u \in Jobs : Ready(u)' BY <2>1, ReadyStays
  <2>4. \A u \in Jobs : LocksOf(job[u])' = LocksOf(job[u]) /\ JobHolds(u)' = JobHolds(u)
    BY <2>1, LocksStay
  <2>5. \A u \in Jobs : JobNames(job[u])' /\ (job[u].locks <= Len(LocksOf(job[u])))'
    BY <2>1, <2>4 DEF AsInv, JobsInv, JobNames
  <2>6. JobsInv' BY <2>3, <2>4, <2>5 DEF AsInv, JobsInv, Exclusive
  <2>7. \A a \in AssetIds : AssetInv(a)' BY <2>1 DEF AsInv, AssetInv, ActiveAllocations
  <2>8. \A l \in AllocationIds : AllocationInv(l)' BY <2>1 DEF AsInv, AllocationInv
  <2> QED BY <2>2, <2>6, <2>7, <2>8 DEF AsInv
<1> QED BY <1>1, <1>2, <1>3, <1>4, <1>5, <1>6, <1>7 DEF AsNext

\* Assets, categories and allocations agree, for any number of each and of transactions.
THEOREM AssetsStayTogether == AsSpec => []AssetsAgree
<1>1. AsInv => AssetsAgree
  <2> SUFFICES ASSUME AsInv PROVE AssetsAgree OBVIOUS
  <2>1. \A l : Cardinality({l}) = 1 BY FS_Singleton
  <2>2. Cardinality({}) = 0 BY FS_EmptySet
  <2>3. \A a \in AssetIds : Cardinality(ActiveAllocations(a)) =
                              IF asset[a].status = "ASSIGNED" THEN 1 ELSE 0
    BY <2>1, <2>2 DEF AsInv, AssetInv
  <2> QED BY <2>3 DEF AsInv, AssetInv, AllocationInv, AssetsAgree
<1> QED BY <1>1, AsBegins, AsKeeps, PTL DEF AsSpec
=============================================================================
