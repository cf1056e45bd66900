---------------------------- MODULE LeaveProofs ----------------------------
(***************************************************************************)
(* What is proved of Leave, for any number of employees, types, requests    *)
(* and steps of a workflow.                                                  *)
(***************************************************************************)
EXTENDS Leave, SumTheorems

\* What an active request asks for was valid when it was submitted.
PeriodInv == \A r \in Requests : Active(r) => ValidPeriod(TypeOf[r], period[r])

\* The numbers of the defined steps differ.
SeqInv == \A s, t \in Defined : seq[s] = seq[t] => s = t

\* A pending request whose definition was not edited stands at a step, and those
\* who acted on it are the steps before.
RouteInv ==
  \A r \in Requests :
    /\ status[r] = "NONE" => acted[r] = {}
    /\ status[r] = "PENDING" /\ r \notin edited
         => /\ cur[r] \in Defined /\ route[r] = Defined
            /\ acted[r] = {s \in Defined : seq[s] < seq[cur[r]]}

SlotInv == TypeOK /\ PeriodInv /\ NoHalfDayTwice
FlowInv == TypeOK /\ WorkflowAgrees
StepInv == TypeOK /\ SeqInv /\ RouteInv /\ ApprovedByEveryStep

-----------------------------------------------------------------------------
\* The days of a period are a natural number.
LEMMA DaysType ==
  ASSUME NEW t \in Types, NEW p \in Periods
  PROVE  Days(t, p) \in Nat
<1>1. p.from \in Int /\ p.to \in Int
  BY LeaveAssumption DEF Period
<1>2. IsFiniteSet(p.from..p.to)
  BY <1>1, FS_Interval
<1>3. ChargeableDates(t, p) \in SUBSET (p.from..p.to)
  BY DEF ChargeableDates
<1>4. Cardinality(ChargeableDates(t, p)) \in Nat
  BY <1>2, <1>3, FS_Subset, FS_CardinalityType
<1> QED
  BY <1>4 DEF Days

\* Balances keep their type through a movement.
LEMMA MovementType ==
  ASSUME NEW b \in Balance, NEW d \in Nat
  PROVE  /\ Reserve(b, d) \in Balance
         /\ Use(b, d) \in Balance
         /\ Release(b, d) \in Balance
<1>1. b.used + d \in Int /\ b.pending + d \in Int /\ b.pending - d \in Int
      /\ b.available + d \in Int /\ b.available - d \in Int
  BY DEF Balance
<1>2. \A c \in Balance, n \in Int : /\ [c EXCEPT !.used = n] \in Balance
                                   /\ [c EXCEPT !.pending = n] \in Balance
                                   /\ [c EXCEPT !.available = n] \in Balance
  BY DEF Balance
<1> QED
  BY Zenon, <1>1, <1>2 DEF Reserve, Use, Release

\* A movement that HR's operations write has the type of a balance.
LEMMA ComponentsType ==
  ASSUME NEW e \in Int, NEW c \in Int, NEW u \in Int, NEW p \in Int
  PROVE  Components(e, c, u, p) \in Balance
BY DEF Components, Balance

LEMMA KeyType ==
  ASSUME NEW r \in Requests
  PROVE  Key(r) \in Keys /\ TypeOf[r] \in Types /\ Owner[r] \in Employees
BY LeaveAssumption DEF Key, Keys

\* A settlement writes balances of the right type.
LEMMA SettleType ==
  ASSUME TypeOK, NEW r \in Requests, NEW b \in Balance, Settle(r, b)
  PROVE  bal' \in [Keys -> Balance]
BY KeyType DEF Settle, TypeOK

-----------------------------------------------------------------------------
\* Every variable keeps its type.
THEOREM TypeCorrect == Spec => []TypeOK
<1>1. Init => TypeOK
  <2> SUFFICES ASSUME Init PROVE TypeOK
    OBVIOUS
  <2>1. AnyPeriod \in Periods
    BY LeaveAssumption DEF AnyPeriod
  <2>2. EmptyBalance \in Balance
    BY ComponentsType DEF EmptyBalance
  <2> QED
    BY <2>1, <2>2, LeaveAssumption DEF Init, TypeOK, Status, InstanceStatus
<1>2. TypeOK /\ [Next]_vars => TypeOK'
  <2> SUFFICES ASSUME TypeOK, [Next]_vars PROVE TypeOK'
    OBVIOUS
  <2>1. ASSUME NEW r \in Requests, NEW p \in Periods, Submit(r, p) PROVE TypeOK'
    <3>1. Days(TypeOf[r], p) \in Nat
      BY KeyType, DaysType
    <3>2. bal' \in [Keys -> Balance]
      <4>1. Reserve(bal[Key(r)], Days(TypeOf[r], p)) \in Balance
        BY <3>1, KeyType, MovementType DEF TypeOK
      <4> QED
        BY <2>1, <4>1, KeyType DEF Submit, TypeOK
    <3>3. /\ status' \in [Requests -> Status]
          /\ period' \in [Requests -> Periods]
          /\ charged' \in [Requests -> Nat]
          /\ inst' \in [Requests -> InstanceStatus]
      BY <2>1, <3>1 DEF Submit, TypeOK, Status, InstanceStatus
    <3>4. /\ cur' \in [Requests -> Steps \cup {NoStep}]
          /\ route' \in [Requests -> SUBSET Steps]
          /\ held' \in SUBSET Requests
      BY <2>1 DEF Submit, TypeOK, Defined
    <3> QED
      BY Zenon, <2>1, <3>2, <3>3, <3>4
         DEF Submit, TypeOK, flowVars, typeVars
  <2>2. ASSUME NEW a \in Employees, NEW r \in Requests, NEW s \in Steps, ApproveStep(a, r, s)
        PROVE TypeOK'
    <3>1. /\ cur' \in [Requests -> Steps \cup {NoStep}]
          /\ acted' \in [Requests -> SUBSET Steps]
      BY <2>2 DEF ApproveStep, TypeOK
    <3> QED
      BY Zenon, <2>2, <3>1
         DEF ApproveStep, TypeOK, flowVars, typeVars, balanceVars, historyVars
  <2>3. ASSUME NEW a \in Employees, NEW r \in Requests, NEW s \in Steps, ApproveFinal(a, r, s)
        PROVE TypeOK'
    <3>1. bal' \in [Keys -> Balance]
      <4>1. Use(bal[Key(r)], charged[r]) \in Balance
        BY KeyType, MovementType DEF TypeOK
      <4> QED
        BY <2>3, <4>1, SettleType DEF ApproveFinal
    <3>2. /\ status' \in [Requests -> Status]
          /\ inst' \in [Requests -> InstanceStatus]
          /\ cur' \in [Requests -> Steps \cup {NoStep}]
          /\ acted' \in [Requests -> SUBSET Steps]
          /\ events' \in [Requests -> Nat]
      BY <2>3 DEF ApproveFinal, TypeOK, Status, InstanceStatus
    <3> QED
      BY Zenon, <2>3, <3>1, <3>2
         DEF ApproveFinal, TypeOK, flowVars, typeVars, historyVars
  <2>4. ASSUME NEW a \in Employees, NEW r \in Requests, NEW s \in Steps, Reject(a, r, s)
        PROVE TypeOK'
    <3>1. bal' \in [Keys -> Balance]
      <4>1. Release(bal[Key(r)], charged[r]) \in Balance
        BY KeyType, MovementType DEF TypeOK
      <4> QED
        BY <2>4, <4>1, SettleType DEF Reject
    <3>2. /\ status' \in [Requests -> Status]
          /\ inst' \in [Requests -> InstanceStatus]
          /\ cur' \in [Requests -> Steps \cup {NoStep}]
          /\ acted' \in [Requests -> SUBSET Steps]
      BY <2>4 DEF Reject, TypeOK, Status, InstanceStatus
    <3> QED
      BY Zenon, <2>4, <3>1, <3>2
         DEF Reject, TypeOK, flowVars, typeVars, historyVars
  <2>5. ASSUME NEW r \in Requests, Withdraw(r) PROVE TypeOK'
    <3>1. bal' \in [Keys -> Balance]
      <4>1. Release(bal[Key(r)], charged[r]) \in Balance
        BY KeyType, MovementType DEF TypeOK
      <4> QED
        BY <2>5, <4>1, SettleType DEF Withdraw
    <3>2. /\ status' \in [Requests -> Status]
          /\ inst' \in [Requests -> InstanceStatus]
          /\ cur' \in [Requests -> Steps \cup {NoStep}]
      BY <2>5 DEF Withdraw, TypeOK, Status, InstanceStatus, StatusCancelled
    <3> QED
      BY Zenon, <2>5, <3>1, <3>2
         DEF Withdraw, TypeOK, flowVars, typeVars, historyVars
  <2>6. ASSUME NEW s \in Steps, CreateStep(s) PROVE TypeOK'
    <3>1. seq' \in [Steps -> Nat] /\ edits' \in Nat
      BY <2>6, LeaveAssumption DEF CreateStep, TypeOK
    <3>2. edited' \in SUBSET Requests
      BY <2>6 DEF CreateStep, TypeOK
    <3> QED
      BY Zenon, <2>6, <3>1, <3>2
         DEF CreateStep, TypeOK, requestVars, typeVars, balanceVars
  <2>7. ASSUME NEW s \in Steps, DeleteStep(s) PROVE TypeOK'
    <3>1. seq' \in [Steps -> Nat] /\ edits' \in Nat
      BY <2>7 DEF DeleteStep, TypeOK
    <3>2. edited' \in SUBSET Requests /\ cur' \in [Requests -> Steps \cup {NoStep}]
      BY <2>7 DEF DeleteStep, TypeOK
    <3> QED
      BY Zenon, <2>7, <3>1, <3>2
         DEF DeleteStep, TypeOK, typeVars, balanceVars
  <2>8. CASE ReorderSteps
    <3>1. PICK f \in [Steps -> 0..Cardinality(Steps)] : seq' = f
      BY <2>8 DEF ReorderSteps
    <3>2. seq' \in [Steps -> Nat] /\ edits' \in Nat
      <4>1. Cardinality(Steps) \in Nat
        BY LeaveAssumption, FS_CardinalityType
      <4> QED
        BY <2>8, <3>1, <4>1 DEF ReorderSteps, TypeOK
    <3>3. edited' \in SUBSET Requests
      BY <2>8 DEF ReorderSteps, TypeOK
    <3> QED
      BY Zenon, <2>8, <3>2, <3>3
         DEF ReorderSteps, TypeOK, requestVars, typeVars, balanceVars
  <2>9. ASSUME NEW k \in Keys, NEW c \in Corrections, UpsertBalance(k, c) PROVE TypeOK'
    <3>1. /\ bal' \in [Keys -> Balance]
          /\ provisioned' \in SUBSET Keys /\ disturbed' \in SUBSET Keys
      BY <2>9, LeaveAssumption DEF UpsertBalance, TypeOK
    <3> QED
      BY Zenon, <2>9, <3>1
         DEF UpsertBalance, TypeOK, nonBalanceVars, typeVars, requestVars, flowVars
  <2>10. ASSUME NEW k \in Keys, NEW d \in Deltas, AdjustEntitlement(k, d) PROVE TypeOK'
    <3>0. bal[k] \in Balance /\ d \in Int
      BY LeaveAssumption DEF TypeOK
    <3>1. Components(bal[k].entitled + d, bal[k].carried, bal[k].used, bal[k].pending) \in Balance
      <4>1. /\ bal[k].entitled + d \in Int /\ bal[k].carried \in Int
            /\ bal[k].used \in Int /\ bal[k].pending \in Int
        BY <3>0 DEF Balance
      <4> QED
        BY <4>1, ComponentsType
    <3>2. bal' \in [Keys -> Balance]
      BY <2>10, <3>1 DEF AdjustEntitlement, TypeOK
    <3> QED
      BY Zenon, <2>10, <3>2
         DEF AdjustEntitlement, TypeOK, nonBalanceVars, typeVars, requestVars, flowVars
  <2>11. CASE ProvisionBalances
    <3>1. \A k \in Keys : Provisioned(k) \in Balance
      <4> TAKE k \in Keys
      <4>1. bal[k] \in Balance /\ policy[k[2]] \in Nat
        BY DEF TypeOK, Keys
      <4>2. /\ policy[k[2]] \in Int /\ bal[k].carried \in Int
            /\ bal[k].used \in Int /\ bal[k].pending \in Int
        BY <4>1 DEF Balance
      <4> QED
        BY <4>2, ComponentsType DEF Provisioned
    <3>2. bal' \in [Keys -> Balance] /\ provisioned' \in SUBSET Keys
      BY <2>11, <3>1 DEF ProvisionBalances, TypeOK
    <3> QED
      BY Zenon, <2>11, <3>2
         DEF ProvisionBalances, TypeOK, nonBalanceVars, typeVars, requestVars, flowVars
  <2>12. ASSUME NEW t \in Types, NEW n \in Policies, SetPolicy(t, n) PROVE TypeOK'
    <3>1. policy' \in [Types -> Nat]
      BY <2>12, LeaveAssumption DEF SetPolicy, TypeOK
    <3> QED
      BY Zenon, <2>12, <3>1
         DEF SetPolicy, TypeOK, nonBalanceVars, balanceVars, requestVars, flowVars
  <2>13. ASSUME NEW t \in Types, FlipPaid(t) PROVE TypeOK'
    <3>1. paid' \in [Types -> BOOLEAN]
      BY Zenon, <2>13 DEF FlipPaid, TypeOK
    <3>2. disturbed' \in SUBSET Keys
      BY <2>13, KeyType DEF FlipPaid, TypeOK
    <3> QED
      BY Zenon, <2>13, <3>1, <3>2
         DEF FlipPaid, TypeOK, nonBalanceVars, balanceVars, requestVars, flowVars
  <2>14. ASSUME NEW t \in Types, DeleteType(t) PROVE TypeOK'
    <3>1. live' \in [Types -> BOOLEAN]
      BY <2>14 DEF DeleteType, TypeOK
    <3> QED
      BY Zenon, <2>14, <3>1
         DEF DeleteType, TypeOK, nonBalanceVars, balanceVars, requestVars, flowVars
  <2>15. ASSUME NEW e \in Employees, SetEmployment(e) PROVE TypeOK'
    <3>1. employed' \in SUBSET Employees
      BY <2>15 DEF SetEmployment, TypeOK
    <3> QED
      BY Zenon, <2>15, <3>1
         DEF SetEmployment, TypeOK, requestVars, flowVars, typeVars, balanceVars, historyVars
  <2>16. CASE UNCHANGED vars
    BY Zenon, <2>16 DEF vars, TypeOK, requestVars, flowVars, typeVars, balanceVars, historyVars
  <2> QED
    BY Zenon, <2>1, <2>2, <2>3, <2>4, <2>5, <2>6, <2>7, <2>8, <2>9, <2>10, <2>11, <2>12,
       <2>13, <2>14, <2>15, <2>16 DEF Next, Decide
<1> QED
  BY <1>1, <1>2, PTL DEF Spec

-----------------------------------------------------------------------------
\* A balance whose parts add up and which is not overdrawn
Sound(b) ==
  /\ b.available = b.entitled + b.carried - b.used - b.pending
  /\ b.available >= 0

\* No movement and no correction unbalances a balance.
LEMMA MovementSound ==
  ASSUME NEW b \in Balance, Sound(b), NEW d \in Nat
  PROVE  /\ b.available >= d => Sound(Reserve(b, d))
         /\ Sound(Use(b, d))
         /\ Sound(Release(b, d))
<1>0. /\ b.used \in Int /\ b.pending \in Int /\ b.available \in Int
      /\ b.entitled \in Int /\ b.carried \in Int
  BY DEF Balance
<1>1. ASSUME b.available >= d PROVE Sound(Reserve(b, d))
  <2> DEFINE c == Reserve(b, d)
  <2>1. /\ c.used = b.used /\ c.pending = b.pending + d /\ c.available = b.available - d
        /\ c.entitled = b.entitled /\ c.carried = b.carried
    BY Zenon DEF Reserve, Balance
  <2> HIDE DEF c
  <2>2. Sound(c)
    BY <1>0, <1>1, <2>1 DEF Sound
  <2> QED
    BY <2>2 DEF c
<1>2. Sound(Use(b, d))
  <2> DEFINE c == Use(b, d)
  <2>1. /\ c.used = b.used + d /\ c.pending = b.pending - d /\ c.available = b.available
        /\ c.entitled = b.entitled /\ c.carried = b.carried
    BY Zenon DEF Use, Balance
  <2> HIDE DEF c
  <2>2. Sound(c)
    BY <1>0, <2>1 DEF Sound
  <2> QED
    BY <2>2 DEF c
<1>3. Sound(Release(b, d))
  <2> DEFINE c == Release(b, d)
  <2>1. /\ c.used = b.used /\ c.pending = b.pending - d /\ c.available = b.available + d
        /\ c.entitled = b.entitled /\ c.carried = b.carried
    BY Zenon DEF Release, Balance
  <2> HIDE DEF c
  <2>2. Sound(c)
    BY <1>0, <2>1 DEF Sound
  <2> QED
    BY <2>2 DEF c
<1> QED
  BY <1>1, <1>2, <1>3

LEMMA ComponentsSound ==
  ASSUME NEW e \in Int, NEW c \in Int, NEW u \in Int, NEW p \in Int,
         Components(e, c, u, p).available >= 0
  PROVE  Sound(Components(e, c, u, p))
BY DEF Components, Sound

\* A settlement that writes a sound balance leaves every balance sound.
LEMMA SettleSound ==
  ASSUME TypeOK, BalanceAdds, NEW r \in Requests, NEW b, Sound(b), Settle(r, b)
  PROVE  BalanceAdds'
BY KeyType DEF Settle, TypeOK, BalanceAdds, Sound

\* The balance that is stored is what its parts leave, and never negative.
THEOREM BalancesAddUp == Spec => []BalanceAdds
<1>1. Init => BalanceAdds
  BY DEF Init, BalanceAdds, EmptyBalance, Components
<1>2. TypeOK /\ BalanceAdds /\ [Next]_vars => BalanceAdds'
  <2> SUFFICES ASSUME TypeOK, BalanceAdds, [Next]_vars PROVE BalanceAdds'
    OBVIOUS
  <2>0. \A k \in Keys : Sound(bal[k]) /\ bal[k] \in Balance
    BY DEF BalanceAdds, Sound, TypeOK
  <2>a. ASSUME NEW r \in Requests PROVE Key(r) \in Keys /\ charged[r] \in Nat
    BY KeyType DEF TypeOK
  <2>b. ASSUME UNCHANGED bal PROVE BalanceAdds'
    BY <2>b DEF BalanceAdds
  <2>1. ASSUME NEW r \in Requests, NEW p \in Periods, Submit(r, p) PROVE BalanceAdds'
    <3>1. CASE paid[TypeOf[r]]
      <4> DEFINE d == Days(TypeOf[r], p)
      <4>1. d \in Nat /\ bal[Key(r)].available >= d
        BY <2>1, <3>1, KeyType, DaysType DEF Submit
      <4>2. bal' = [bal EXCEPT ![Key(r)] = Reserve(@, d)]
        BY <2>1, <3>1 DEF Submit
      <4>3. Sound(Reserve(bal[Key(r)], d))
        BY <2>0, <2>a, <4>1, MovementSound
      <4> HIDE DEF d
      <4> QED
        BY <2>0, <2>a, <4>2, <4>3 DEF BalanceAdds, Sound, TypeOK
    <3>2. CASE ~ paid[TypeOf[r]]
      BY <2>1, <2>b, <3>2 DEF Submit
    <3> QED
      BY <3>1, <3>2
  <2>2. ASSUME NEW a \in Employees, NEW r \in Requests, NEW s \in Steps, ApproveFinal(a, r, s)
        PROVE BalanceAdds'
    <3>1. Sound(Use(bal[Key(r)], charged[r]))
      BY <2>0, <2>a, MovementSound
    <3> QED
      BY <2>2, <3>1, SettleSound DEF ApproveFinal
  <2>3. ASSUME NEW a \in Employees, NEW r \in Requests, NEW s \in Steps, Reject(a, r, s)
        PROVE BalanceAdds'
    <3>1. Sound(Release(bal[Key(r)], charged[r]))
      BY <2>0, <2>a, MovementSound
    <3> QED
      BY <2>3, <3>1, SettleSound DEF Reject
  <2>4. ASSUME NEW r \in Requests, Withdraw(r) PROVE BalanceAdds'
    <3>1. Sound(Release(bal[Key(r)], charged[r]))
      BY <2>0, <2>a, MovementSound
    <3> QED
      BY <2>4, <3>1, SettleSound DEF Withdraw
  <2>5. ASSUME NEW k \in Keys, NEW c \in Corrections, UpsertBalance(k, c) PROVE BalanceAdds'
    <3>0. /\ c = Components(c.entitled, c.carried, c.used, c.pending) /\ c \in Balance
          /\ c.available >= 0
      BY <2>5, LeaveAssumption DEF UpsertBalance
    <3>1. /\ c.entitled \in Int /\ c.carried \in Int /\ c.used \in Int /\ c.pending \in Int
      BY <3>0 DEF Balance
    <3>2. Sound(c)
      BY Zenon, <3>0, <3>1, ComponentsSound
    <3>3. bal' = [bal EXCEPT ![k] = c]
      BY <2>5 DEF UpsertBalance
    <3> QED
      BY <2>0, <3>2, <3>3 DEF BalanceAdds, Sound, TypeOK
  <2>6. ASSUME NEW k \in Keys, NEW d \in Deltas, AdjustEntitlement(k, d) PROVE BalanceAdds'
    <3> DEFINE c == Components(bal[k].entitled + d, bal[k].carried, bal[k].used, bal[k].pending)
    <3>1. /\ bal[k].entitled + d \in Int /\ bal[k].carried \in Int
          /\ bal[k].used \in Int /\ bal[k].pending \in Int
      BY <2>0, LeaveAssumption DEF Balance
    <3>2. c.available >= 0 /\ bal' = [bal EXCEPT ![k] = c]
      BY <2>6 DEF AdjustEntitlement
    <3>3. Sound(c)
      BY <3>1, <3>2, ComponentsSound
    <3> HIDE DEF c
    <3> QED
      BY <2>0, <3>2, <3>3 DEF BalanceAdds, Sound, TypeOK
  <2>7. CASE ProvisionBalances
    <3>1. PICK K : /\ \A k \in K : k \in Keys /\ Provisioned(k).available >= 0
                   /\ bal' = [k \in Keys |-> IF k \in K THEN Provisioned(k) ELSE bal[k]]
      BY <2>7 DEF ProvisionBalances
    <3>2. ASSUME NEW k \in K PROVE Sound(Provisioned(k))
      <4>1. bal[k] \in Balance /\ policy[k[2]] \in Nat /\ Provisioned(k).available >= 0
        BY <2>0, <3>1 DEF TypeOK, Keys
      <4>2. /\ policy[k[2]] \in Int /\ bal[k].carried \in Int
            /\ bal[k].used \in Int /\ bal[k].pending \in Int
        BY <4>1 DEF Balance
      <4> QED
        BY <4>1, <4>2, ComponentsSound DEF Provisioned
    <3>3. \A k \in Keys : Sound(bal'[k])
      BY Zenon, <2>0, <3>1, <3>2
    <3> QED
      BY <3>3 DEF BalanceAdds, Sound
  <2>8. ASSUME NEW t \in Types,
               \/ \E n \in Policies : SetPolicy(t, n)
               \/ FlipPaid(t) \/ DeleteType(t)
        PROVE UNCHANGED bal
    BY <2>8 DEF SetPolicy, FlipPaid, DeleteType, balanceVars
  <2>9. ASSUME \/ ReorderSteps
               \/ \E s \in Steps : CreateStep(s) \/ DeleteStep(s)
               \/ \E e \in Employees : SetEmployment(e)
               \/ \E a \in Employees, r \in Requests, s \in Steps : ApproveStep(a, r, s)
               \/ UNCHANGED vars
        PROVE UNCHANGED bal
    BY Zenon, <2>9 DEF ReorderSteps, CreateStep, DeleteStep, SetEmployment, ApproveStep, vars, balanceVars
  <2> QED
    BY Zenon, <2>b, <2>1, <2>2, <2>3, <2>4, <2>5, <2>6, <2>7, <2>8, <2>9 DEF Next, Decide
<1> QED
  BY <1>1, <1>2, TypeCorrect, PTL DEF Spec

-----------------------------------------------------------------------------
\* A request and its workflow instance end together, an instance in progress stands
\* at a step unless the definition was edited under it, and exactly the approved
\* requests have an event in the outbox, one each.
THEOREM RequestsAgree == Spec => []WorkflowAgrees
<1>1. Init => WorkflowAgrees
  BY DEF Init, WorkflowAgrees
<1>2. FlowInv /\ [Next]_vars => WorkflowAgrees'
  <2> SUFFICES ASSUME FlowInv, [Next]_vars PROVE WorkflowAgrees'
    OBVIOUS
  <2> DEFINE Goal == WorkflowAgrees
  <2>t. TypeOK /\ WorkflowAgrees
    BY DEF FlowInv
  <2>u. /\ status \in [Requests -> Status] /\ inst \in [Requests -> InstanceStatus]
        /\ cur \in [Requests -> Steps \cup {NoStep}] /\ events \in [Requests -> Nat]
        /\ edited \in SUBSET Requests
    BY <2>t DEF TypeOK
  <2>v. ASSUME UNCHANGED <<requestVars, seq, edited>> PROVE Goal'
    BY <2>t, <2>v DEF WorkflowAgrees, requestVars, Defined
  \* an edit of the definition excuses every pending request
  <2>w. ASSUME UNCHANGED <<status, inst, events>>,
               edited' = edited \cup {r \in Requests : status[r] = "PENDING"},
               \A r \in Requests : cur'[r] \in {cur[r], NoStep}
        PROVE Goal'
    BY <2>t, <2>w DEF WorkflowAgrees
  <2>1. ASSUME NEW r \in Requests, NEW p \in Periods, Submit(r, p) PROVE Goal'
    <3>1. PICK s \in Steps : IsFirst(s) /\ cur' = [cur EXCEPT ![r] = s]
      BY <2>1 DEF Submit
    <3>2. s \in Defined
      BY <3>1 DEF IsFirst
    <3>3. /\ status[r] = "NONE"
          /\ status' = [status EXCEPT ![r] = "PENDING"]
          /\ inst' = [inst EXCEPT ![r] = "IN_PROGRESS"]
          /\ UNCHANGED <<seq, edited, events>>
      BY <2>1 DEF Submit, flowVars
    <3> QED
      BY <2>t, <2>u, <3>1, <3>2, <3>3 DEF WorkflowAgrees, Defined
  <2>2. ASSUME NEW a \in Employees, NEW r \in Requests, NEW s \in Steps, ApproveStep(a, r, s)
        PROVE Goal'
    <3>1. PICK t \in Steps : IsNext(t, s) /\ cur' = [cur EXCEPT ![r] = t]
      BY <2>2 DEF ApproveStep
    <3>2. t \in Defined
      BY <3>1 DEF IsNext, Later
    <3>3. status[r] = "PENDING" /\ UNCHANGED <<status, inst, events, seq, edited>>
      BY <2>2 DEF ApproveStep, MayDecide, flowVars, historyVars
    <3> QED
      BY <2>t, <2>u, <3>1, <3>2, <3>3 DEF WorkflowAgrees, Defined
  <2>3. ASSUME NEW a \in Employees, NEW r \in Requests, NEW s \in Steps, ApproveFinal(a, r, s)
        PROVE Goal'
    <3>1. /\ status[r] = "PENDING"
          /\ status' = [status EXCEPT ![r] = "APPROVED"]
          /\ inst' = [inst EXCEPT ![r] = "COMPLETED"]
          /\ cur' = [cur EXCEPT ![r] = NoStep]
          /\ events' = [events EXCEPT ![r] = @ + 1]
          /\ UNCHANGED <<seq, edited>>
      BY <2>3 DEF ApproveFinal, MayDecide, flowVars, historyVars
    <3> QED
      BY <2>t, <2>u, <3>1 DEF WorkflowAgrees, Defined
  <2>4. ASSUME NEW a \in Employees, NEW r \in Requests, NEW s \in Steps, Reject(a, r, s)
        PROVE Goal'
    <3>1. /\ status[r] = "PENDING"
          /\ status' = [status EXCEPT ![r] = "REJECTED"]
          /\ inst' = [inst EXCEPT ![r] = "REJECTED"]
          /\ cur' = [cur EXCEPT ![r] = NoStep]
          /\ UNCHANGED <<seq, edited, events>>
      BY <2>4 DEF Reject, MayDecide, flowVars, historyVars
    <3> QED
      BY <2>t, <2>u, <3>1 DEF WorkflowAgrees, Defined
  <2>5. ASSUME NEW r \in Requests, Withdraw(r) PROVE Goal'
    <3>1. /\ status[r] = "PENDING"
          /\ status' = [status EXCEPT ![r] = "CANCELLED"]
          /\ inst' = [inst EXCEPT ![r] = "CANCELLED"]
          /\ cur' = [cur EXCEPT ![r] = NoStep]
          /\ UNCHANGED <<seq, edited, events>>
      BY <2>5 DEF Withdraw, flowVars, historyVars, StatusCancelled
    <3> QED
      BY <2>t, <2>u, <3>1 DEF WorkflowAgrees, Defined
  <2>6. ASSUME ReorderSteps \/ \E s \in Steps : CreateStep(s) PROVE Goal'
    BY <2>6, <2>w DEF ReorderSteps, CreateStep, requestVars
  <2>7. ASSUME NEW s \in Steps, DeleteStep(s) PROVE Goal'
    BY <2>7, <2>w, <2>u DEF DeleteStep
  <2>8. ASSUME \/ \E k \in Keys : \/ \E c \in Corrections : UpsertBalance(k, c)
                                 \/ \E d \in Deltas : AdjustEntitlement(k, d)
               \/ ProvisionBalances
               \/ \E t \in Types : \/ \E n \in Policies : SetPolicy(t, n)
                                  \/ FlipPaid(t) \/ DeleteType(t)
        PROVE UNCHANGED nonBalanceVars
    BY Zenon, <2>8 DEF UpsertBalance, AdjustEntitlement, ProvisionBalances, SetPolicy, FlipPaid, DeleteType
  <2>9. ASSUME \/ UNCHANGED nonBalanceVars
               \/ UNCHANGED vars
               \/ \E e \in Employees : SetEmployment(e)
        PROVE UNCHANGED <<requestVars, seq, edited>>
    BY Zenon, <2>9 DEF nonBalanceVars, vars, SetEmployment, flowVars, historyVars
  <2> HIDE DEF Goal
  <2>10. Goal'
    BY Zenon, <2>v, <2>1, <2>2, <2>3, <2>4, <2>5, <2>6, <2>7, <2>8, <2>9 DEF Next, Decide
  <2> QED
    BY <2>10 DEF Goal
<1>3. TypeOK /\ WorkflowAgrees => FlowInv
  BY DEF FlowInv
<1> QED
  BY <1>1, <1>2, <1>3, TypeCorrect, PTL DEF Spec

-----------------------------------------------------------------------------
\* What leave_ranges_conflict lets pass covers different half days.
LEMMA NoConflictDisjoint ==
  ASSUME NEW t \in Types, NEW u \in Types, NEW p \in Periods, NEW q \in Periods,
         ValidPeriod(t, p), ValidPeriod(u, q), ~ Conflict(p, q)
  PROVE  Slots(p) \cap Slots(q) = {}
<1>1. /\ p.from \in Nat /\ p.to \in Nat /\ q.from \in Nat /\ q.to \in Nat
      /\ p.half \in Halves /\ q.half \in Halves
  BY LeaveAssumption DEF Period
<1>2. SUFFICES ASSUME NEW x, x \in Slots(p), x \in Slots(q) PROVE FALSE
  OBVIOUS
<1>3. /\ x[1] \in p.from..p.to /\ x[1] \in q.from..q.to
      /\ p.half \in {"NONE", x[2]} /\ q.half \in {"NONE", x[2]}
  BY <1>2 DEF Slots
<1>4. p.from <= q.to /\ q.from <= p.to
  BY <1>1, <1>3
<1> QED
  BY <1>3, <1>4 DEF Conflict

\* No half day is taken twice, whatever requests an employee submits, and however
\* they are decided, withdrawn or stranded.
THEOREM NoDoubleLeave == Spec => []NoHalfDayTwice
<1>1. Init => PeriodInv /\ NoHalfDayTwice
  BY DEF Init, PeriodInv, NoHalfDayTwice, Active
<1>2. SlotInv /\ [Next]_vars => (PeriodInv /\ NoHalfDayTwice)'
  <2> SUFFICES ASSUME SlotInv, [Next]_vars PROVE (PeriodInv /\ NoHalfDayTwice)'
    OBVIOUS
  <2> DEFINE Goal == PeriodInv /\ NoHalfDayTwice
  <2>t. TypeOK /\ PeriodInv /\ NoHalfDayTwice
    BY DEF SlotInv
  <2>u. status \in [Requests -> Status] /\ period \in [Requests -> Periods]
    BY <2>t DEF TypeOK
  \* nothing but a submission makes a request active or changes its dates
  <2>v. ASSUME period' = period, \A r \in Requests : Active(r)' => Active(r)
        PROVE Goal'
    BY <2>t, <2>v DEF PeriodInv, NoHalfDayTwice
  <2>1. ASSUME NEW r \in Requests, NEW p \in Periods, Submit(r, p) PROVE Goal'
    <3>1. /\ status[r] = "NONE" /\ ValidPeriod(TypeOf[r], p) /\ Free(r, p)
          /\ status' = [status EXCEPT ![r] = "PENDING"]
          /\ period' = [period EXCEPT ![r] = p]
      BY <2>1 DEF Submit
    <3>2. /\ period'[r] = p /\ ~ Active(r)
          /\ \A q \in Requests \ {r} : (Active(q)' <=> Active(q)) /\ period'[q] = period[q]
      BY <2>u, <3>1 DEF Active
    <3>3. PeriodInv'
      BY <2>t, <3>1, <3>2 DEF PeriodInv
    <3>4. ASSUME NEW q \in Requests \ {r}, Owner[q] = Owner[r], Active(q)
          PROVE Slots(period[q]) \cap Slots(p) = {}
      <4>1. ~ Conflict(p, period[q])
        BY <3>1, <3>4 DEF Free
      <4>2. ValidPeriod(TypeOf[q], period[q]) /\ period[q] \in Periods
        BY <2>t, <2>u, <3>4 DEF PeriodInv
      <4>3. TypeOf[q] \in Types /\ TypeOf[r] \in Types
        BY KeyType
      <4> QED
        BY <3>1, <4>1, <4>2, <4>3, NoConflictDisjoint
    <3>5. ASSUME NEW q \in Requests, NEW w \in Requests, q # w, Owner[q] = Owner[w],
                 Active(q)', Active(w)'
          PROVE Slots(period'[q]) \cap Slots(period'[w]) = {}
      <4>1. CASE q = r
        BY <3>2, <3>4, <3>5, <4>1
      <4>2. CASE w = r
        BY <3>2, <3>4, <3>5, <4>2
      <4>3. CASE q # r /\ w # r
        BY <2>t, <3>2, <3>5, <4>3 DEF NoHalfDayTwice
      <4> QED
        BY <4>1, <4>2, <4>3
    <3>6. NoHalfDayTwice'
      BY <3>5 DEF NoHalfDayTwice
    <3> QED
      BY <3>3, <3>6
  <2>2. ASSUME NEW a \in Employees, NEW r \in Requests, NEW s \in Steps,
               ApproveFinal(a, r, s) \/ Reject(a, r, s)
        PROVE Goal'
    <3>1. /\ status[r] = "PENDING" /\ period' = period
          /\ \E x \in {"APPROVED", "REJECTED"} : status' = [status EXCEPT ![r] = x]
      BY <2>2 DEF ApproveFinal, Reject, MayDecide
    <3> QED
      BY <2>u, <2>v, <3>1 DEF Active
  <2>3. ASSUME NEW r \in Requests, Withdraw(r) PROVE Goal'
    <3>1. period' = period /\ status' = [status EXCEPT ![r] = "CANCELLED"]
      BY <2>3 DEF Withdraw, StatusCancelled
    <3> QED
      BY <2>u, <2>v, <3>1 DEF Active
  <2>4. ASSUME UNCHANGED <<status, period>> PROVE Goal'
    BY <2>v, <2>4 DEF Active
  <2>5. ASSUME \/ \E k \in Keys : \/ \E c \in Corrections : UpsertBalance(k, c)
                                 \/ \E d \in Deltas : AdjustEntitlement(k, d)
               \/ ProvisionBalances
               \/ \E t \in Types : \/ \E n \in Policies : SetPolicy(t, n)
                                  \/ FlipPaid(t) \/ DeleteType(t)
               \/ UNCHANGED vars
        PROVE UNCHANGED requestVars
    BY Zenon, <2>5 DEF UpsertBalance, AdjustEntitlement, ProvisionBalances, SetPolicy,
       FlipPaid, DeleteType, nonBalanceVars, vars
  <2>6. ASSUME \/ UNCHANGED requestVars
               \/ ReorderSteps
               \/ \E s \in Steps : CreateStep(s) \/ DeleteStep(s)
               \/ \E e \in Employees : SetEmployment(e)
               \/ \E a \in Employees, r \in Requests, s \in Steps : ApproveStep(a, r, s)
        PROVE UNCHANGED <<status, period>>
    BY Zenon, <2>6 DEF ReorderSteps, CreateStep, DeleteStep, SetEmployment, ApproveStep, requestVars
  <2> HIDE DEF Goal
  <2>7. Goal'
    BY Zenon, <2>1, <2>2, <2>3, <2>4, <2>5, <2>6 DEF Next, Decide
  <2> QED
    BY <2>7 DEF Goal
<1>3. TypeOK /\ PeriodInv /\ NoHalfDayTwice => SlotInv
  BY DEF SlotInv
<1> QED
  BY <1>1, <1>2, <1>3, TypeCorrect, PTL DEF Spec

-----------------------------------------------------------------------------
\* The steps before the first one are none; those before the next one are those
\* before the current one and itself; with nothing to come, they are all of them.
LEMMA StepOrder ==
  ASSUME TypeOK, SeqInv, NEW s \in Defined
  PROVE  /\ IsFirst(s) => {u \in Defined : seq[u] < seq[s]} = {}
         /\ \A t \in Steps : IsNext(t, s) =>
              {u \in Defined : seq[u] < seq[t]} = {u \in Defined : seq[u] < seq[s]} \cup {s}
         /\ Later(s) = {} => Defined = {u \in Defined : seq[u] < seq[s]} \cup {s}
<1>1. \A u \in Defined : u \in Steps /\ seq[u] \in Nat
  BY DEF Defined, TypeOK
<1>2. \A u \in Defined : \/ seq[u] < seq[s]
                         \/ u = s
                         \/ u \in Later(s)
  BY <1>1 DEF SeqInv, Later
<1>3. IsFirst(s) => {u \in Defined : seq[u] < seq[s]} = {}
  BY <1>1 DEF IsFirst
<1>4. ASSUME NEW t \in Steps, IsNext(t, s)
      PROVE  {u \in Defined : seq[u] < seq[t]} = {u \in Defined : seq[u] < seq[s]} \cup {s}
  <2>1. t \in Defined /\ seq[s] < seq[t] /\ \A u \in Later(s) : seq[t] <= seq[u]
    BY <1>1, <1>4 DEF IsNext, Later
  <2>2. ASSUME NEW u \in Defined
        PROVE  seq[u] < seq[t] <=> seq[u] < seq[s] \/ u = s
    BY <1>1, <1>2, <2>1
  <2> QED
    BY <2>2
<1>5. Later(s) = {} => Defined = {u \in Defined : seq[u] < seq[s]} \cup {s}
  BY <1>2
<1> QED
  BY <1>3, <1>4, <1>5

\* An approved leave was approved at every step that was defined when it was
\* submitted, unless the definition was edited while it was pending.
THEOREM EveryStepApproves == Spec => []ApprovedByEveryStep
<1>1. Init => SeqInv /\ RouteInv /\ ApprovedByEveryStep
  <2> SUFFICES ASSUME Init PROVE SeqInv /\ RouteInv /\ ApprovedByEveryStep
    OBVIOUS
  <2>1. SeqInv
    BY LeaveAssumption DEF Init, SeqInv, Defined
  <2>2. RouteInv /\ ApprovedByEveryStep
    BY DEF Init, RouteInv, ApprovedByEveryStep
  <2> QED
    BY <2>1, <2>2
<1>2. StepInv /\ [Next]_vars => (SeqInv /\ RouteInv /\ ApprovedByEveryStep)'
  <2> SUFFICES ASSUME StepInv, [Next]_vars PROVE (SeqInv /\ RouteInv /\ ApprovedByEveryStep)'
    OBVIOUS
  <2> DEFINE Goal == SeqInv /\ RouteInv /\ ApprovedByEveryStep
  <2>t. TypeOK /\ SeqInv /\ RouteInv /\ ApprovedByEveryStep
    BY DEF StepInv
  <2>u. /\ status \in [Requests -> Status] /\ seq \in [Steps -> Nat]
        /\ cur \in [Requests -> Steps \cup {NoStep}]
        /\ acted \in [Requests -> SUBSET Steps] /\ route \in [Requests -> SUBSET Steps]
    BY <2>t DEF TypeOK
  \* a request of its own, the others and the definition left alone
  <2>v. ASSUME NEW r \in Requests, UNCHANGED <<seq, edited>>,
               \A q \in Requests \ {r} : /\ status'[q] = status[q] /\ cur'[q] = cur[q]
                                        /\ acted'[q] = acted[q] /\ route'[q] = route[q],
               status'[r] # "NONE",
               status'[r] = "PENDING" /\ r \notin edited
                 => /\ cur'[r] \in Defined /\ route'[r] = Defined
                    /\ acted'[r] = {s \in Defined : seq[s] < seq[cur'[r]]},
               status'[r] = "APPROVED" /\ r \notin edited => acted'[r] = route'[r]
        PROVE  Goal'
    <3>1. Defined' = Defined /\ seq' = seq /\ edited' = edited
      BY <2>v DEF Defined
    <3>2. SeqInv'
      BY <2>t, <3>1 DEF SeqInv
    <3>3. RouteInv'
      BY <2>t, <2>v, <3>1 DEF RouteInv
    <3>4. ApprovedByEveryStep'
      BY <2>t, <2>v, <3>1 DEF ApprovedByEveryStep
    <3> QED
      BY <3>2, <3>3, <3>4
  \* an edit that keeps the numbers apart
  <2>w. ASSUME SeqInv', UNCHANGED <<status, acted, route>>,
               edited' = edited \cup {r \in Requests : status[r] = "PENDING"}
        PROVE  Goal'
    BY <2>t, <2>w DEF RouteInv, ApprovedByEveryStep
  <2>x. ASSUME UNCHANGED <<status, acted, cur, seq, route, edited>> PROVE Goal'
    BY <2>t, <2>x DEF SeqInv, RouteInv, ApprovedByEveryStep, Defined
  <2>1. ASSUME NEW r \in Requests, NEW p \in Periods, Submit(r, p) PROVE Goal'
    <3>1. PICK s \in Steps : IsFirst(s) /\ cur' = [cur EXCEPT ![r] = s]
      BY <2>1 DEF Submit
    <3>2. s \in Defined /\ {u \in Defined : seq[u] < seq[s]} = {}
      BY <2>t, <3>1, StepOrder DEF IsFirst
    <3>3. /\ status[r] = "NONE" /\ status' = [status EXCEPT ![r] = "PENDING"]
          /\ route' = [route EXCEPT ![r] = Defined]
          /\ UNCHANGED <<acted, seq, edited>>
      BY <2>1 DEF Submit, flowVars
    <3>4. acted[r] = {}
      BY <2>t, <3>3 DEF RouteInv
    <3> QED
      BY <2>u, <2>v, <3>1, <3>2, <3>3, <3>4
  <2>2. ASSUME NEW a \in Employees, NEW r \in Requests, NEW s \in Steps, ApproveStep(a, r, s)
        PROVE Goal'
    <3>1. PICK t \in Steps : IsNext(t, s) /\ cur' = [cur EXCEPT ![r] = t]
      BY <2>2 DEF ApproveStep
    <3>2. /\ status[r] = "PENDING" /\ cur[r] = s /\ s \in Defined
          /\ acted' = [acted EXCEPT ![r] = @ \cup {s}]
          /\ UNCHANGED <<status, seq, edited, route>>
      BY <2>2 DEF ApproveStep, MayDecide, flowVars, historyVars
    <3>3. t \in Defined
      BY <3>1 DEF IsNext, Later
    <3>4. {u \in Defined : seq[u] < seq[t]} = {u \in Defined : seq[u] < seq[s]} \cup {s}
      BY <2>t, <3>1, <3>2, StepOrder
    <3>5. r \notin edited => /\ route[r] = Defined
                             /\ acted[r] = {u \in Defined : seq[u] < seq[s]}
      BY <2>t, <3>2 DEF RouteInv
    <3> QED
      BY <2>u, <2>v, <3>1, <3>2, <3>3, <3>4, <3>5
  <2>3. ASSUME NEW a \in Employees, NEW r \in Requests, NEW s \in Steps, ApproveFinal(a, r, s)
        PROVE Goal'
    <3>1. /\ status[r] = "PENDING" /\ cur[r] = s /\ s \in Defined /\ Later(s) = {}
          /\ status' = [status EXCEPT ![r] = "APPROVED"]
          /\ cur' = [cur EXCEPT ![r] = NoStep]
          /\ acted' = [acted EXCEPT ![r] = @ \cup {s}]
          /\ UNCHANGED <<seq, edited, route>>
      BY <2>3 DEF ApproveFinal, MayDecide, flowVars, historyVars
    <3>2. Defined = {u \in Defined : seq[u] < seq[s]} \cup {s}
      BY <2>t, <3>1, StepOrder
    <3>3. r \notin edited => /\ route[r] = Defined
                             /\ acted[r] = {u \in Defined : seq[u] < seq[s]}
      BY <2>t, <3>1 DEF RouteInv
    <3>4. /\ status'[r] = "APPROVED"
          /\ r \notin edited => acted'[r] = route'[r]
      BY <2>u, <3>1, <3>2, <3>3
    <3> QED
      BY <2>u, <2>v, <3>1, <3>4
  <2>4. ASSUME NEW a \in Employees, NEW r \in Requests, NEW s \in Steps, Reject(a, r, s)
        PROVE Goal'
    <3>1. /\ status' = [status EXCEPT ![r] = "REJECTED"]
          /\ cur' = [cur EXCEPT ![r] = NoStep]
          /\ acted' = [acted EXCEPT ![r] = @ \cup {s}]
          /\ UNCHANGED <<seq, edited, route>>
      BY <2>4 DEF Reject, flowVars, historyVars
    <3> QED
      BY <2>u, <2>v, <3>1
  <2>5. ASSUME NEW r \in Requests, Withdraw(r) PROVE Goal'
    <3>1. /\ status' = [status EXCEPT ![r] = "CANCELLED"]
          /\ cur' = [cur EXCEPT ![r] = NoStep]
          /\ UNCHANGED <<acted, seq, edited, route>>
      BY <2>5 DEF Withdraw, flowVars, historyVars, StatusCancelled
    <3> QED
      BY <2>u, <2>v, <3>1
  <2>6. ASSUME NEW s \in Steps, CreateStep(s) PROVE Goal'
    <3>1. PICK n \in 1..MaxSeq : /\ \A t \in Steps : seq[t] # n
                                 /\ seq' = [seq EXCEPT ![s] = n]
      BY <2>6 DEF CreateStep
    <3>2. SeqInv'
      BY <2>t, <2>u, <3>1 DEF SeqInv, Defined
    <3> QED
      BY <2>6, <2>w, <3>2 DEF CreateStep, requestVars
  <2>7. ASSUME NEW s \in Steps, DeleteStep(s) PROVE Goal'
    <3>1. seq' = [seq EXCEPT ![s] = 0]
      BY <2>7 DEF DeleteStep
    <3>2. SeqInv'
      BY <2>t, <2>u, <3>1 DEF SeqInv, Defined
    <3> QED
      BY <2>7, <2>w, <3>2 DEF DeleteStep
  <2>8. ASSUME ReorderSteps PROVE Goal'
    <3>1. PICK f \in [Steps -> 0..Cardinality(Steps)] :
            /\ \A s \in Steps : f[s] = 0 <=> s \notin Defined
            /\ \A s, t \in Defined : f[s] = f[t] => s = t
            /\ seq' = f
      BY <2>8 DEF ReorderSteps
    <3>2. SeqInv'
      BY <3>1 DEF SeqInv, Defined
    <3> QED
      BY <2>8, <2>w, <3>2 DEF ReorderSteps, requestVars
  <2>9. ASSUME \/ \E k \in Keys : \/ \E c \in Corrections : UpsertBalance(k, c)
                                 \/ \E d \in Deltas : AdjustEntitlement(k, d)
               \/ ProvisionBalances
               \/ \E t \in Types : \/ \E n \in Policies : SetPolicy(t, n)
                                  \/ FlipPaid(t) \/ DeleteType(t)
        PROVE UNCHANGED nonBalanceVars
    BY Zenon, <2>9 DEF UpsertBalance, AdjustEntitlement, ProvisionBalances, SetPolicy, FlipPaid, DeleteType
  <2>10. ASSUME \/ UNCHANGED nonBalanceVars
                \/ UNCHANGED vars
                \/ \E e \in Employees : SetEmployment(e)
         PROVE UNCHANGED <<status, acted, cur, seq, route, edited>>
    BY Zenon, <2>10 DEF nonBalanceVars, vars, SetEmployment, requestVars, flowVars, historyVars
  <2> HIDE DEF Goal
  <2>11. Goal'
    BY Zenon, <2>x, <2>1, <2>2, <2>3, <2>4, <2>5, <2>6, <2>7, <2>8, <2>9, <2>10 DEF Next, Decide
  <2> QED
    BY <2>11 DEF Goal
<1>3. TypeOK /\ SeqInv /\ RouteInv /\ ApprovedByEveryStep => StepInv
  BY DEF StepInv
<1> QED
  BY <1>1, <1>2, <1>3, TypeCorrect, PTL DEF Spec


-----------------------------------------------------------------------------
(* The ledger of balances against the requests *)

\* The requests that hold days of a balance, by status, and the days they hold.
Holding(k, s) == {r \in held : Key(r) = k /\ status[r] = s}
HeldDays(k, s) == SumFunctionOnSet(charged, Holding(k, s))

\* A pending request holds days exactly if its type is paid now, unless HR changed that
\* or wrote over its balance; a request that holds days was submitted.
HoldInv ==
  /\ IsFiniteSet(held) /\ \A r \in held : status[r] # "NONE"
  /\ \A r \in Requests :
       status[r] = "PENDING" /\ Key(r) \notin disturbed => (r \in held <=> paid[TypeOf[r]])

Ledger ==
  \A k \in Keys \ disturbed :
    bal[k].pending = HeldDays(k, "PENDING") /\ bal[k].used = HeldDays(k, "APPROVED")

LedgerInv == TypeOK /\ HoldInv /\ Ledger

LEMMA HoldingIs ==
  ASSUME TypeOK, HoldInv
  PROVE  \A k, s : /\ Holding(k, s) \in SUBSET held /\ IsFiniteSet(Holding(k, s))
                   /\ \A r \in Holding(k, s) : r \in Requests /\ charged[r] \in Nat
                   /\ HeldDays(k, s) \in Nat
<1> TAKE k, s
<1>1. Holding(k, s) \in SUBSET held /\ held \in SUBSET Requests BY DEF Holding, TypeOK
<1>2. IsFiniteSet(Holding(k, s)) BY <1>1, FS_Subset DEF HoldInv
<1>3. \A r \in Holding(k, s) : r \in Requests /\ charged[r] \in Nat BY <1>1 DEF TypeOK
<1>4. HeldDays(k, s) \in Nat BY <1>2, <1>3, SumNat DEF HeldDays
<1> QED BY <1>1, <1>2, <1>3, <1>4

\* A step that leaves the requests, what they hold and the days of every balance alone.
LEMMA LedgerElsewhere ==
  ASSUME LedgerInv, TypeOK', UNCHANGED <<status, charged, held>>, disturbed \subseteq disturbed',
         \A k \in Keys \ disturbed' : bal'[k].pending = bal[k].pending /\ bal'[k].used = bal[k].used,
         \A r \in Requests : status[r] = "PENDING" /\ Key(r) \notin disturbed'
                               => paid'[TypeOf[r]] = paid[TypeOf[r]]
  PROVE  LedgerInv'
<1>1. HoldInv' BY DEF LedgerInv, HoldInv
<1>2. \A k, s : HeldDays(k, s)' = HeldDays(k, s) BY DEF HeldDays, Holding
<1>3. Ledger' BY <1>2 DEF LedgerInv, Ledger
<1> QED BY <1>1, <1>3 DEF LedgerInv

LEMMA SubmitLedger ==
  ASSUME LedgerInv, TypeOK', NEW r \in Requests, NEW p \in Periods, Submit(r, p)
  PROVE  LedgerInv'
<1> DEFINE d == Days(TypeOf[r], p)
<1>1. /\ status[r] = "NONE" /\ status' = [status EXCEPT ![r] = "PENDING"]
      /\ bal' = IF paid[TypeOf[r]] THEN [bal EXCEPT ![Key(r)] = Reserve(@, d)] ELSE bal
      /\ charged' = [charged EXCEPT ![r] = d]
      /\ held' = IF paid[TypeOf[r]] THEN held \cup {r} ELSE held
      /\ disturbed' = disturbed /\ paid' = paid
  BY DEF Submit, typeVars
<1>2. TypeOK /\ HoldInv /\ Ledger /\ Key(r) \in Keys BY KeyType DEF LedgerInv
<1>3. r \notin held /\ held \in SUBSET Requests BY <1>1, <1>2 DEF HoldInv, TypeOK
<1>4. /\ status'[r] = "PENDING" /\ charged'[r] = d /\ charged'[r] \in Nat
      /\ \A q \in Requests : q # r => status'[q] = status[q] /\ charged'[q] = charged[q]
  BY <1>1, <1>2 DEF TypeOK
<1>5. HoldInv'
  <2>1. IsFiniteSet(held') BY <1>1, <1>2, FS_AddElement DEF HoldInv
  <2>2. \A q \in held' : status'[q] # "NONE" BY <1>1, <1>2, <1>3, <1>4 DEF HoldInv
  <2>3. \A q \in Requests : status'[q] = "PENDING" /\ Key(q) \notin disturbed'
                              => (q \in held' <=> paid'[TypeOf[q]])
    BY <1>1, <1>2, <1>3, <1>4 DEF HoldInv
  <2> QED BY <2>1, <2>2, <2>3 DEF HoldInv
<1> HIDE DEF d
<1>6. ASSUME NEW k \in Keys \ disturbed
      PROVE  bal'[k].pending = HeldDays(k, "PENDING")' /\ bal'[k].used = HeldDays(k, "APPROVED")'
  <2>1. /\ bal[k].pending = HeldDays(k, "PENDING") /\ bal[k].used = HeldDays(k, "APPROVED")
        /\ bal[k] \in Balance
    BY <1>2 DEF Ledger, TypeOK
  <2>2. \A s : /\ IsFiniteSet(Holding(k, s)) /\ r \notin Holding(k, s)
               /\ \A q \in Holding(k, s) : charged[q] \in Nat /\ charged'[q] = charged[q]
               /\ HeldDays(k, s) \in Nat
               /\ SumFunctionOnSet(charged', Holding(k, s)) = HeldDays(k, s)
    <3> TAKE s
    <3>1. IsFiniteSet(Holding(k, s)) /\ HeldDays(k, s) \in Nat BY <1>2, HoldingIs
    <3>2. r \notin Holding(k, s) BY <1>3 DEF Holding
    <3>3. \A q \in Holding(k, s) : charged[q] \in Nat /\ charged'[q] = charged[q]
      BY <1>2, <1>4, <3>2, HoldingIs
    <3>4. SumFunctionOnSet(charged', Holding(k, s)) = SumFunctionOnSet(charged, Holding(k, s))
      BY <3>1, <3>3, SumSame
    <3> QED BY <3>1, <3>2, <3>3, <3>4 DEF HeldDays
  <2>3. Holding(k, "APPROVED")' = Holding(k, "APPROVED") BY <1>1, <1>3, <1>4 DEF Holding, Key
  <2>4. HeldDays(k, "APPROVED")' = HeldDays(k, "APPROVED") BY <2>2, <2>3 DEF HeldDays
  <2>5. CASE ~ (paid[TypeOf[r]] /\ Key(r) = k)
    <3>1. bal'[k] = bal[k] BY <1>1, <1>2, <2>5 DEF TypeOK
    <3>2. Holding(k, "PENDING")' = Holding(k, "PENDING") BY <1>1, <1>3, <1>4, <2>5 DEF Holding, Key
    <3>3. HeldDays(k, "PENDING")' = HeldDays(k, "PENDING") BY <2>2, <3>2 DEF HeldDays
    <3> QED BY <2>1, <2>4, <3>1, <3>3
  <2>6. CASE paid[TypeOf[r]] /\ Key(r) = k
    <3>1. bal'[k] = Reserve(bal[k], d) BY <1>1, <1>2, <2>6 DEF TypeOK
    <3>2. bal'[k].pending = bal[k].pending + d /\ bal'[k].used = bal[k].used
      BY <2>1, <3>1 DEF Reserve, Balance
    <3>3. Holding(k, "PENDING")' = Holding(k, "PENDING") \cup {r}
      BY <1>1, <1>3, <1>4, <2>6 DEF Holding, Key
    <3>4. \A q \in Holding(k, "PENDING") \cup {r} : charged'[q] \in Int BY <1>4, <2>2
    <3>5. SumFunctionOnSet(charged', Holding(k, "PENDING") \cup {r})
            = charged'[r] + SumFunctionOnSet(charged', Holding(k, "PENDING"))
      BY <2>2, <3>4, SumAdd
    <3>6. HeldDays(k, "PENDING")' = d + HeldDays(k, "PENDING")
      BY <1>4, <2>2, <3>3, <3>5 DEF HeldDays
    <3> QED BY <1>4, <2>1, <2>2, <2>4, <3>2, <3>6
  <2> QED BY <2>5, <2>6
<1>7. Ledger' BY <1>1, <1>6 DEF Ledger
<1> QED BY <1>5, <1>7 DEF LedgerInv

\* What a final approval, a rejection and a withdrawal have in common.
LEMMA DecisionLedger ==
  ASSUME LedgerInv, TypeOK', NEW r \in Requests, NEW s \in {"APPROVED", "REJECTED", "CANCELLED"}, NEW after,
         status[r] = "PENDING", status' = [status EXCEPT ![r] = s],
         UNCHANGED <<charged, held, disturbed, paid>>, Settle(r, after),
         after.pending = bal[Key(r)].pending - charged[r],
         after.used = IF s = "APPROVED" THEN bal[Key(r)].used + charged[r] ELSE bal[Key(r)].used
  PROVE  LedgerInv'
<1>1. bal' = IF paid[TypeOf[r]] THEN [bal EXCEPT ![Key(r)] = after] ELSE bal BY DEF Settle
<1>2. TypeOK /\ HoldInv /\ Ledger /\ Key(r) \in Keys BY KeyType DEF LedgerInv
<1>3. held \in SUBSET Requests /\ charged[r] \in Nat BY <1>2 DEF TypeOK
<1>4. status'[r] = s /\ \A q \in Requests : q # r => status'[q] = status[q] BY <1>2 DEF TypeOK
<1>5. HoldInv' BY <1>2, <1>3, <1>4 DEF HoldInv
<1>6. ASSUME NEW k \in Keys \ disturbed
      PROVE  bal'[k].pending = HeldDays(k, "PENDING")' /\ bal'[k].used = HeldDays(k, "APPROVED")'
  <2>1. /\ bal[k].pending = HeldDays(k, "PENDING") /\ bal[k].used = HeldDays(k, "APPROVED")
        /\ bal[k] \in Balance
    BY <1>2 DEF Ledger, TypeOK
  <2>2. \A t : /\ IsFiniteSet(Holding(k, t)) /\ HeldDays(k, t) \in Nat
               /\ \A q \in Holding(k, t) : charged[q] \in Int
    BY <1>2, HoldingIs
  <2>3. CASE Key(r) # k \/ r \notin held
    <3>1. bal'[k] = bal[k]
      <4>1. Key(r) = k => ~ paid[TypeOf[r]] BY <1>2, <2>3 DEF HoldInv
      <4> QED BY <1>1, <1>2, <4>1 DEF TypeOK
    <3>2. \A t : Holding(k, t)' = Holding(k, t) BY <1>3, <1>4, <2>3 DEF Holding, Key
    <3>3. \A t : HeldDays(k, t)' = HeldDays(k, t) BY <3>2 DEF HeldDays
    <3> QED BY <2>1, <3>1, <3>3
  <2>4. CASE Key(r) = k /\ r \in held
    <3>1. bal'[k] = after
      <4>1. paid[TypeOf[r]] BY <1>2, <2>4 DEF HoldInv
      <4> QED BY <1>1, <1>2, <2>4, <4>1 DEF TypeOK
    <3>2. r \in Holding(k, "PENDING") /\ Holding(k, "PENDING")' = Holding(k, "PENDING") \ {r}
      BY <1>3, <1>4, <2>4 DEF Holding, Key
    <3>3. HeldDays(k, "PENDING") = charged[r] + SumFunctionOnSet(charged, Holding(k, "PENDING") \ {r})
      BY <2>2, <3>2, SumRemove DEF HeldDays
    <3>4. HeldDays(k, "PENDING")' = SumFunctionOnSet(charged, Holding(k, "PENDING") \ {r})
      BY <3>2 DEF HeldDays
    <3>5. HeldDays(k, "PENDING")' \in Nat
      <4>1. IsFiniteSet(Holding(k, "PENDING") \ {r}) BY <2>2, FS_RemoveElement
      <4>2. \A q \in Holding(k, "PENDING") \ {r} : charged[q] \in Nat BY <1>2, HoldingIs
      <4> QED BY <3>4, <4>1, <4>2, SumNat
    <3>6. CASE s = "APPROVED"
      <4>1. r \notin Holding(k, "APPROVED") /\ Holding(k, "APPROVED")' = Holding(k, "APPROVED") \cup {r}
        BY <1>3, <1>4, <2>4, <3>6 DEF Holding, Key
      <4>2. \A q \in Holding(k, "APPROVED") \cup {r} : charged[q] \in Int BY <1>3, <2>2
      <4>3. SumFunctionOnSet(charged, Holding(k, "APPROVED") \cup {r})
              = charged[r] + SumFunctionOnSet(charged, Holding(k, "APPROVED"))
        BY <2>2, <4>1, <4>2, SumAdd
      <4>4. HeldDays(k, "APPROVED")' = charged[r] + HeldDays(k, "APPROVED")
        BY <4>1, <4>3 DEF HeldDays
      <4>5. after.used = bal[k].used + charged[r] BY <2>4, <3>6
      <4> QED BY <1>3, <2>1, <2>2, <2>4, <3>1, <3>3, <3>4, <3>5, <4>4, <4>5
    <3>7. CASE s # "APPROVED"
      <4>1. Holding(k, "APPROVED")' = Holding(k, "APPROVED") BY <1>3, <1>4, <3>7 DEF Holding, Key
      <4>2. HeldDays(k, "APPROVED")' = HeldDays(k, "APPROVED") BY <4>1 DEF HeldDays
      <4>3. after.used = bal[k].used BY <2>4, <3>7
      <4> QED BY <1>3, <2>1, <2>2, <2>4, <3>1, <3>3, <3>4, <3>5, <4>2, <4>3
    <3> QED BY <3>6, <3>7
  <2> QED BY <2>3, <2>4
<1>7. Ledger' BY <1>6 DEF Ledger
<1> QED BY <1>5, <1>7 DEF LedgerInv

LEMMA LedgerNext == LedgerInv /\ TypeOK' /\ [Next]_vars => LedgerInv'
<1> SUFFICES ASSUME LedgerInv, TypeOK', [Next]_vars PROVE LedgerInv'
  OBVIOUS
<1>1. TypeOK /\ \A k \in Keys : bal[k] \in Balance BY DEF LedgerInv, TypeOK
<1>a. ASSUME NEW r \in Requests PROVE Key(r) \in Keys /\ bal[Key(r)] \in Balance
  BY <1>1, KeyType
<1>b. ASSUME UNCHANGED <<status, charged, held, disturbed, bal, paid>> PROVE LedgerInv'
  BY <1>b, LedgerElsewhere
<1>2. ASSUME NEW r \in Requests, NEW p \in Periods, Submit(r, p) PROVE LedgerInv'
  BY <1>2, SubmitLedger
<1>3. ASSUME NEW a \in Employees, NEW r \in Requests, NEW s \in Steps, ApproveFinal(a, r, s)
      PROVE LedgerInv'
  <2> DEFINE after == Use(bal[Key(r)], charged[r])
  <2>1. /\ after.pending = bal[Key(r)].pending - charged[r]
        /\ after.used = bal[Key(r)].used + charged[r]
    BY <1>a DEF Use, Balance
  <2>2. /\ status[r] = "PENDING" /\ status' = [status EXCEPT ![r] = "APPROVED"] /\ Settle(r, after)
        /\ UNCHANGED <<charged, held, disturbed, paid>>
    BY <1>3 DEF ApproveFinal, MayDecide, typeVars, historyVars
  <2> HIDE DEF after
  <2> QED BY <2>1, <2>2, DecisionLedger
<1>4. ASSUME NEW a \in Employees, NEW r \in Requests, NEW s \in Steps, Reject(a, r, s)
      PROVE LedgerInv'
  <2> DEFINE after == Release(bal[Key(r)], charged[r])
  <2>1. after.pending = bal[Key(r)].pending - charged[r] /\ after.used = bal[Key(r)].used
    BY <1>a DEF Release, Balance
  <2>2. /\ status[r] = "PENDING" /\ status' = [status EXCEPT ![r] = "REJECTED"] /\ Settle(r, after)
        /\ UNCHANGED <<charged, held, disturbed, paid>>
    BY <1>4 DEF Reject, MayDecide, typeVars, historyVars
  <2> HIDE DEF after
  <2> QED BY <2>1, <2>2, DecisionLedger
<1>5. ASSUME NEW r \in Requests, Withdraw(r) PROVE LedgerInv'
  <2> DEFINE after == Release(bal[Key(r)], charged[r])
  <2>1. after.pending = bal[Key(r)].pending - charged[r] /\ after.used = bal[Key(r)].used
    BY <1>a DEF Release, Balance
  <2>2. /\ status[r] = "PENDING" /\ status' = [status EXCEPT ![r] = "CANCELLED"] /\ Settle(r, after)
        /\ UNCHANGED <<charged, held, disturbed, paid>>
    BY <1>5 DEF Withdraw, typeVars, historyVars, StatusCancelled
  <2> HIDE DEF after
  <2> QED BY <2>1, <2>2, DecisionLedger
<1>6. ASSUME NEW k \in Keys, NEW c \in Corrections, UpsertBalance(k, c) PROVE LedgerInv'
  <2>1. /\ bal' = [bal EXCEPT ![k] = c] /\ disturbed' = disturbed \cup {k}
        /\ UNCHANGED <<status, charged, held, paid>>
    BY <1>6 DEF UpsertBalance, nonBalanceVars, requestVars, typeVars
  <2>2. \A l \in Keys \ disturbed' : bal'[l] = bal[l] BY <1>1, <2>1 DEF TypeOK
  <2> QED BY <2>1, <2>2, LedgerElsewhere
<1>7. ASSUME NEW k \in Keys, NEW d \in Deltas, AdjustEntitlement(k, d) PROVE LedgerInv'
  <2>1. /\ bal' = [bal EXCEPT ![k] = Components(bal[k].entitled + d, bal[k].carried, bal[k].used, bal[k].pending)]
        /\ UNCHANGED <<status, charged, held, disturbed, paid>>
    BY <1>7 DEF AdjustEntitlement, nonBalanceVars, requestVars, typeVars
  <2>2. \A l \in Keys : bal'[l].pending = bal[l].pending /\ bal'[l].used = bal[l].used
    BY <1>1, <2>1 DEF TypeOK, Components
  <2> QED BY <2>1, <2>2, LedgerElsewhere
<1>8. CASE ProvisionBalances
  <2>1. /\ \E K : bal' = [k \in Keys |-> IF k \in K THEN Provisioned(k) ELSE bal[k]]
        /\ UNCHANGED <<status, charged, held, disturbed, paid>>
    BY <1>8 DEF ProvisionBalances, nonBalanceVars, requestVars, typeVars
  <2>2. \A k : Provisioned(k).pending = bal[k].pending /\ Provisioned(k).used = bal[k].used
    BY DEF Provisioned, Components
  <2>3. \A l \in Keys : bal'[l].pending = bal[l].pending /\ bal'[l].used = bal[l].used
    BY <2>1, <2>2
  <2> QED BY <2>1, <2>3, LedgerElsewhere
<1>9. ASSUME NEW t \in Types, FlipPaid(t) PROVE LedgerInv'
  <2>1. /\ paid' = [paid EXCEPT ![t] = ~ @]
        /\ disturbed' = disturbed \cup {Key(r) : r \in {q \in Requests : TypeOf[q] = t /\ status[q] = "PENDING"}}
        /\ UNCHANGED <<status, charged, held, bal>>
    BY <1>9 DEF FlipPaid, nonBalanceVars, requestVars, balanceVars
  <2>2. \A r \in Requests : status[r] = "PENDING" /\ Key(r) \notin disturbed' => TypeOf[r] # t
    BY <2>1
  <2>3. \A r \in Requests : TypeOf[r] # t => paid'[TypeOf[r]] = paid[TypeOf[r]]
    BY <1>1, <2>1, KeyType DEF TypeOK
  <2>4. disturbed \subseteq disturbed' BY <2>1
  <2> QED BY <2>1, <2>2, <2>3, <2>4, LedgerElsewhere
<1>10. ASSUME \/ \E t \in Types : (\E n \in Policies : SetPolicy(t, n)) \/ DeleteType(t)
              \/ ReorderSteps \/ \E s \in Steps : CreateStep(s) \/ DeleteStep(s)
              \/ \E e \in Employees : SetEmployment(e)
              \/ \E a \in Employees, r \in Requests, s \in Steps : ApproveStep(a, r, s)
              \/ UNCHANGED vars
       PROVE  UNCHANGED <<status, charged, held, disturbed, bal, paid>>
  BY Zenon, <1>10 DEF SetPolicy, DeleteType, ReorderSteps, CreateStep, DeleteStep, SetEmployment, ApproveStep,
     vars, requestVars, typeVars, balanceVars, historyVars, nonBalanceVars
<1> QED
  BY Zenon, <1>b, <1>2, <1>3, <1>4, <1>5, <1>6, <1>7, <1>8, <1>9, <1>10 DEF Next, Decide

\* What a submission holds is kept with the counters, in every state.
LEMMA LedgerAlways == Spec => []LedgerInv
<1>1. Init => HoldInv /\ Ledger
  <2> SUFFICES ASSUME Init PROVE HoldInv /\ Ledger OBVIOUS
  <2>1. HoldInv BY FS_EmptySet DEF Init, HoldInv
  <2>2. \A k, s : HeldDays(k, s) = 0
    <3>1. \A k, s : Holding(k, s) = {} BY DEF Init, Holding
    <3> QED BY <3>1, SumEmpty DEF HeldDays
  <2>3. Ledger BY <2>2 DEF Init, Ledger, EmptyBalance, Components
  <2> QED BY <2>1, <2>3
<1>2. TypeOK /\ HoldInv /\ Ledger => LedgerInv BY DEF LedgerInv
<1> QED
  BY <1>1, <1>2, LedgerNext, TypeCorrect, PTL DEF Spec

\* The pending days of every balance are those of the pending requests that hold days
\* of it and its used days those of the approved ones, unless HR wrote over the balance
\* or changed the type under a pending request.
THEOREM LedgerAgrees == Spec => []LedgerMatchesRequests
<1>1. LedgerInv => LedgerMatchesRequests
  <2> SUFFICES ASSUME LedgerInv PROVE LedgerMatchesRequests OBVIOUS
  <2>1. \A k, s : ChargedTo(k, {s}) = HeldDays(k, s)
    <3> TAKE k, s
    <3>1. {r \in held : Key(r) = k /\ status[r] \in {s}} = Holding(k, s) BY DEF Holding
    <3> QED BY <3>1 DEF ChargedTo, HeldDays
  <2> QED BY <2>1 DEF LedgerInv, Ledger, LedgerMatchesRequests
<1> QED
  BY <1>1, LedgerAlways, PTL

-----------------------------------------------------------------------------
BookInv == LedgerInv /\ BalanceAdds

\* A balance promises no more than it grants.
LEMMA SoundGrants ==
  ASSUME NEW b \in Balance, Sound(b)
  PROVE  /\ b.pending \in Int /\ b.used \in Int /\ b.entitled + b.carried \in Int
         /\ b.pending + b.used <= b.entitled + b.carried
BY DEF Balance, Sound

\* What the reservations see of a state
LEMMA BookFacts ==
  ASSUME BookInv
  PROVE  /\ TypeOK /\ HoldInv
         /\ PendingDays \in [Keys -> Int] /\ UsedDays \in [Keys -> Int]
         /\ GrantedDays \in [Keys -> Int] /\ Shares \in [Requests -> [Keys -> Nat]]
         /\ \A k \in Keys : PendingDays[k] + UsedDays[k] <= GrantedDays[k]
<1>1. TypeOK /\ HoldInv BY DEF BookInv, LedgerInv
<1>2. \A k \in Keys : bal[k] \in Balance /\ Sound(bal[k])
  BY <1>1 DEF TypeOK, BookInv, BalanceAdds, Sound
<1>3. Shares \in [Requests -> [Keys -> Nat]] BY <1>1 DEF TypeOK, Share, Shares
<1> QED BY <1>1, <1>2, <1>3, SoundGrants DEF PendingDays, UsedDays, GrantedDays

\* ... and of the next one
LEMMA BookFactsNext ==
  ASSUME BookInv'
  PROVE  /\ TypeOK'
         /\ PendingDays' \in [Keys -> Int] /\ UsedDays' \in [Keys -> Int]
         /\ GrantedDays' \in [Keys -> Int] /\ Shares' \in [Requests -> [Keys -> Nat]]
         /\ \A k \in Keys : PendingDays'[k] + UsedDays'[k] <= GrantedDays'[k]
<1>1. TypeOK' BY DEF BookInv, LedgerInv
<1>2. \A k \in Keys : bal'[k] \in Balance /\ Sound(bal'[k])
  BY <1>1 DEF TypeOK, BookInv, BalanceAdds, Sound
<1>3. Shares' \in [Requests -> [Keys -> Nat]] BY <1>1 DEF TypeOK, Share, Shares
<1> QED BY <1>1, <1>2, <1>3, SoundGrants DEF PendingDays, UsedDays, GrantedDays

\* What the requests take changes only with held and charged.
LEMMA SharesKept ==
  ASSUME UNCHANGED <<held, charged>>
  PROVE  Shares' = Shares
BY DEF Shares, Share, Key

\* A step that leaves the requests and the balances alone is none of the reservations.
LEMMA BooksStutter ==
  ASSUME UNCHANGED <<status, charged, held, disturbed, bal>>
  PROVE  UNCHANGED Books!reservationVars
BY SharesKept DEF Books!reservationVars, PendingDays, UsedDays, GrantedDays

LEMMA SubmitBooks ==
  ASSUME BookInv, BookInv', NEW r \in Requests, NEW p \in Periods, Submit(r, p)
  PROVE  Books!Hold(r)
<1> DEFINE d == Days(TypeOf[r], p)
<1>1. /\ status[r] = "NONE" /\ status' = [status EXCEPT ![r] = "PENDING"]
      /\ bal' = IF paid[TypeOf[r]] THEN [bal EXCEPT ![Key(r)] = Reserve(@, d)] ELSE bal
      /\ charged' = [charged EXCEPT ![r] = d]
      /\ held' = IF paid[TypeOf[r]] THEN held \cup {r} ELSE held
      /\ disturbed' = disturbed
  BY DEF Submit
<1>2. TypeOK /\ HoldInv /\ Key(r) \in Keys BY BookFacts, KeyType
<1>3. r \notin held BY <1>1, <1>2 DEF HoldInv
<1>4. charged'[r] = d /\ \A q \in Requests : q # r => charged'[q] = charged[q]
  BY <1>1, <1>2 DEF TypeOK
<1> HIDE DEF d
<1>5. Shares' = [Shares EXCEPT ![r] = Shares'[r]]
  <2>1. \A q \in Requests \ {r}, k \in Keys : Share(q, k)' = Share(q, k)
    BY <1>1, <1>4 DEF Share, Key
  <2>2. \A q \in Requests \ {r} : Shares'[q] = Shares[q] BY <2>1 DEF Shares
  <2> QED BY <2>2, BookFacts, BookFactsNext
<1>6. \A k \in Keys : /\ PendingDays'[k] = PendingDays[k] + Shares'[r][k]
                      /\ UsedDays'[k] = UsedDays[k] /\ GrantedDays'[k] = GrantedDays[k]
  <2> TAKE k \in Keys
  <2>1. Shares'[r][k] = Share(r, k)' BY DEF Shares
  <2>2. bal[k] \in Balance BY <1>2 DEF TypeOK
  <2>3. CASE paid[TypeOf[r]] /\ Key(r) = k
    <3>1. bal'[k] = Reserve(bal[k], d) BY <1>1, <1>2, <2>3 DEF TypeOK
    <3>2. /\ bal'[k].pending = bal[k].pending + d /\ bal'[k].used = bal[k].used
          /\ bal'[k].entitled = bal[k].entitled /\ bal'[k].carried = bal[k].carried
      BY <2>2, <3>1 DEF Reserve, Balance
    <3>3. Share(r, k)' = d BY <1>1, <1>4, <2>3 DEF Share, Key
    <3> QED BY <2>1, <3>2, <3>3 DEF PendingDays, UsedDays, GrantedDays
  <2>4. CASE ~ (paid[TypeOf[r]] /\ Key(r) = k)
    <3>1. bal'[k] = bal[k] BY <1>1, <1>2, <2>4 DEF TypeOK
    <3>2. Share(r, k)' = 0 BY <1>1, <1>3, <2>4 DEF Share, Key
    <3>3. PendingDays[k] \in Int BY BookFacts
    <3> QED BY <2>1, <3>1, <3>2, <3>3 DEF PendingDays, UsedDays, GrantedDays
  <2> QED BY <2>3, <2>4
<1>7. UsedDays' = UsedDays /\ GrantedDays' = GrantedDays
  BY <1>6 DEF UsedDays, GrantedDays
<1>8. PendingDays' = [k \in Keys |-> PendingDays[k] + Shares'[r][k]]
  BY <1>6, BookFactsNext
<1>9. Shares'[r] \in [Keys -> Nat] BY BookFactsNext
<1>10. \A k \in Keys : PendingDays'[k] + UsedDays[k] <= GrantedDays[k]
  BY <1>7, BookFactsNext
<1> QED BY <1>1, <1>5, <1>7, <1>8, <1>9, <1>10 DEF Books!Hold

\* What a final approval, a rejection and a withdrawal have in common, as the
\* reservations see it.
LEMMA DecisionBooks ==
  ASSUME BookInv, BookInv', NEW r \in Requests, NEW s \in {"APPROVED", "REJECTED", "CANCELLED"}, NEW after,
         status[r] = "PENDING", status' = [status EXCEPT ![r] = s],
         UNCHANGED <<charged, held, disturbed>>, Settle(r, after),
         after.pending = bal[Key(r)].pending - charged[r],
         after.used = IF s = "APPROVED" THEN bal[Key(r)].used + charged[r] ELSE bal[Key(r)].used,
         after.entitled = bal[Key(r)].entitled, after.carried = bal[Key(r)].carried
  PROVE  Books!Spend(r) \/ Books!Release(r)
<1>1. bal' = IF paid[TypeOf[r]] THEN [bal EXCEPT ![Key(r)] = after] ELSE bal BY DEF Settle
<1>2. TypeOK /\ HoldInv /\ Key(r) \in Keys /\ charged[r] \in Nat BY BookFacts, KeyType DEF TypeOK
<1>3. /\ PendingDays \in [Keys -> Int] /\ UsedDays \in [Keys -> Int]
      /\ PendingDays' \in [Keys -> Int] /\ UsedDays' \in [Keys -> Int]
      /\ \A k \in Keys : Shares[r][k] \in Nat
  BY BookFacts, BookFactsNext
<1>4. \A k \in Keys : bal'[k] = IF paid[TypeOf[r]] /\ k = Key(r) THEN after ELSE bal[k]
  BY <1>1, <1>2 DEF TypeOK
<1>5. GrantedDays' = GrantedDays BY <1>4 DEF GrantedDays
<1>6. ASSUME NEW k \in Keys \ disturbed
      PROVE  /\ PendingDays'[k] = PendingDays[k] - Shares[r][k]
             /\ UsedDays'[k] = IF s = "APPROVED" THEN UsedDays[k] + Shares[r][k] ELSE UsedDays[k]
  <2>1. Shares[r][k] = IF paid[TypeOf[r]] /\ k = Key(r) THEN charged[r] ELSE 0
    BY <1>2 DEF HoldInv, Share, Shares
  <2>2. /\ PendingDays[k] \in Int /\ PendingDays[k] = bal[k].pending
        /\ UsedDays[k] \in Int /\ UsedDays[k] = bal[k].used
        /\ PendingDays'[k] = bal'[k].pending /\ UsedDays'[k] = bal'[k].used
    BY <1>3 DEF PendingDays, UsedDays
  <2> QED BY <1>2, <1>4, <2>1, <2>2
<1>7. \A k \in Keys : PendingDays'[k] + UsedDays'[k] <= PendingDays[k] + UsedDays[k]
  <2> TAKE k \in Keys
  <2>1. /\ PendingDays[k] \in Int /\ PendingDays[k] = bal[k].pending
        /\ UsedDays[k] \in Int /\ UsedDays[k] = bal[k].used
        /\ PendingDays'[k] = bal'[k].pending /\ UsedDays'[k] = bal'[k].used
    BY <1>3 DEF PendingDays, UsedDays
  <2> QED BY <1>2, <1>4, <2>1
<1>8. Shares' = Shares /\ disturbed \subseteq Keys BY <1>2, SharesKept DEF TypeOK
<1>9. CASE s = "APPROVED"
  <2>1. \A k \in Keys \ disturbed : /\ PendingDays'[k] = PendingDays[k] - Shares[r][k]
                                    /\ UsedDays'[k] = UsedDays[k] + Shares[r][k]
    BY <1>6, <1>9
  <2> QED BY <1>3, <1>5, <1>7, <1>8, <1>9, <2>1 DEF Books!Spend, Books!Settles
<1>10. CASE s # "APPROVED"
  <2>1. \A k \in Keys \ disturbed : /\ PendingDays'[k] = PendingDays[k] - Shares[r][k]
                                    /\ UsedDays'[k] = UsedDays[k]
    BY <1>6, <1>10
  <2> QED BY <1>3, <1>5, <1>7, <1>8, <1>10, <2>1 DEF Books!Release, Books!Settles
<1> QED BY <1>9, <1>10

\* HR's adjustments and the provisioning change what a balance grants, and nothing else.
LEMMA GrantBooks ==
  ASSUME BookInv, BookInv', UNCHANGED <<status, charged, held, disturbed>>,
         \A k \in Keys : bal'[k].pending = bal[k].pending /\ bal'[k].used = bal[k].used
  PROVE  Books!Grant
<1>1. PendingDays' = PendingDays /\ UsedDays' = UsedDays BY DEF PendingDays, UsedDays
<1>2. /\ GrantedDays' \in [Keys -> Int]
      /\ \A k \in Keys : PendingDays[k] + UsedDays[k] <= GrantedDays'[k]
  BY <1>1, BookFactsNext
<1>3. Shares' = Shares BY SharesKept
<1> QED BY <1>1, <1>2, <1>3 DEF Books!Grant

\* A correction, or a type that turns paid or unpaid, overrules accounts.
LEMMA OverruleBooks ==
  ASSUME BookInv, BookInv', UNCHANGED <<status, charged, held>>, disturbed \subseteq disturbed',
         \A k \in Keys \ disturbed' : bal'[k] = bal[k]
  PROVE  Books!Overrule
<1>1. disturbed' \in SUBSET Keys BY BookFactsNext DEF TypeOK
<1>2. Shares' = Shares BY SharesKept
<1>3. \A k \in Keys \ disturbed' : /\ PendingDays'[k] = PendingDays[k] /\ UsedDays'[k] = UsedDays[k]
                                   /\ GrantedDays'[k] = GrantedDays[k]
  BY DEF PendingDays, UsedDays, GrantedDays
<1>4. \A k \in disturbed' : PendingDays'[k] + UsedDays'[k] <= GrantedDays'[k]
  BY <1>1, BookFactsNext
<1> QED BY <1>1, <1>2, <1>3, <1>4, BookFactsNext DEF Books!Overrule

LEMMA BooksNext == BookInv /\ BookInv' /\ [Next]_vars => [Books!Next]_Books!reservationVars
<1> SUFFICES ASSUME BookInv, BookInv', [Next]_vars
             PROVE  Books!Next \/ UNCHANGED Books!reservationVars
  OBVIOUS
<1>1. TypeOK /\ \A k \in Keys : bal[k] \in Balance BY BookFacts DEF TypeOK
<1>a. ASSUME NEW r \in Requests PROVE Key(r) \in Keys /\ bal[Key(r)] \in Balance
  BY <1>1, KeyType
<1>2. ASSUME NEW r \in Requests, NEW p \in Periods, Submit(r, p) PROVE Books!Next
  BY <1>2, SubmitBooks DEF Books!Next
<1>3. ASSUME NEW a \in Employees, NEW r \in Requests, NEW s \in Steps, ApproveFinal(a, r, s)
      PROVE Books!Next
  <2> DEFINE after == Use(bal[Key(r)], charged[r])
  <2>1. /\ after.pending = bal[Key(r)].pending - charged[r]
        /\ after.used = bal[Key(r)].used + charged[r] /\ after.entitled = bal[Key(r)].entitled /\ after.carried = bal[Key(r)].carried
    BY <1>a DEF Use, Balance
  <2>2. /\ status[r] = "PENDING" /\ status' = [status EXCEPT ![r] = "APPROVED"] /\ Settle(r, after)
        /\ UNCHANGED <<charged, held, disturbed>>
    BY <1>3 DEF ApproveFinal, MayDecide, typeVars, historyVars
  <2> HIDE DEF after
  <2> QED BY <2>1, <2>2, DecisionBooks DEF Books!Next
<1>4. ASSUME NEW a \in Employees, NEW r \in Requests, NEW s \in Steps, Reject(a, r, s)
      PROVE Books!Next
  <2> DEFINE after == Release(bal[Key(r)], charged[r])
  <2>1. /\ after.pending = bal[Key(r)].pending - charged[r] /\ after.used = bal[Key(r)].used
        /\ after.entitled = bal[Key(r)].entitled /\ after.carried = bal[Key(r)].carried
    BY <1>a DEF Release, Balance
  <2>2. /\ status[r] = "PENDING" /\ status' = [status EXCEPT ![r] = "REJECTED"] /\ Settle(r, after)
        /\ UNCHANGED <<charged, held, disturbed>>
    BY <1>4 DEF Reject, MayDecide, typeVars, historyVars
  <2> HIDE DEF after
  <2> QED BY <2>1, <2>2, DecisionBooks DEF Books!Next
<1>5. ASSUME NEW r \in Requests, Withdraw(r) PROVE Books!Next
  <2> DEFINE after == Release(bal[Key(r)], charged[r])
  <2>1. /\ after.pending = bal[Key(r)].pending - charged[r] /\ after.used = bal[Key(r)].used
        /\ after.entitled = bal[Key(r)].entitled /\ after.carried = bal[Key(r)].carried
    BY <1>a DEF Release, Balance
  <2>2. /\ status[r] = "PENDING" /\ status' = [status EXCEPT ![r] = "CANCELLED"] /\ Settle(r, after)
        /\ UNCHANGED <<charged, held, disturbed>>
    BY <1>5 DEF Withdraw, typeVars, historyVars, StatusCancelled
  <2> HIDE DEF after
  <2> QED BY <2>1, <2>2, DecisionBooks DEF Books!Next
<1>6. ASSUME NEW k \in Keys, NEW c \in Corrections, UpsertBalance(k, c) PROVE Books!Next
  <2>1. /\ bal' = [bal EXCEPT ![k] = c] /\ disturbed' = disturbed \cup {k}
        /\ UNCHANGED <<status, charged, held>>
    BY <1>6 DEF UpsertBalance, nonBalanceVars, requestVars
  <2>2. \A l \in Keys \ disturbed' : bal'[l] = bal[l] BY <1>1, <2>1 DEF TypeOK
  <2> QED BY <2>1, <2>2, OverruleBooks DEF Books!Next
<1>7. ASSUME NEW k \in Keys, NEW d \in Deltas, AdjustEntitlement(k, d) PROVE Books!Next
  <2>1. /\ bal' = [bal EXCEPT ![k] = Components(bal[k].entitled + d, bal[k].carried, bal[k].used, bal[k].pending)]
        /\ UNCHANGED <<status, charged, held, disturbed>>
    BY <1>7 DEF AdjustEntitlement, nonBalanceVars, requestVars
  <2>2. \A l \in Keys : bal'[l].pending = bal[l].pending /\ bal'[l].used = bal[l].used
    BY <1>1, <2>1 DEF TypeOK, Components
  <2> QED BY <2>1, <2>2, GrantBooks DEF Books!Next
<1>8. ASSUME ProvisionBalances PROVE Books!Next
  <2>1. /\ \E K : bal' = [k \in Keys |-> IF k \in K THEN Provisioned(k) ELSE bal[k]]
        /\ UNCHANGED <<status, charged, held, disturbed>>
    BY <1>8 DEF ProvisionBalances, nonBalanceVars, requestVars
  <2>2. \A k : Provisioned(k).pending = bal[k].pending /\ Provisioned(k).used = bal[k].used
    BY DEF Provisioned, Components
  <2>3. \A l \in Keys : bal'[l].pending = bal[l].pending /\ bal'[l].used = bal[l].used
    BY <2>1, <2>2
  <2> QED BY <2>1, <2>3, GrantBooks DEF Books!Next
<1>9. ASSUME NEW t \in Types, FlipPaid(t) PROVE Books!Next
  <2>1. disturbed \subseteq disturbed' /\ UNCHANGED <<status, charged, held, bal>>
    BY <1>9 DEF FlipPaid, nonBalanceVars, requestVars, balanceVars
  <2> QED BY <2>1, OverruleBooks DEF Books!Next
<1>10. ASSUME \/ \E t \in Types : (\E n \in Policies : SetPolicy(t, n)) \/ DeleteType(t)
              \/ ReorderSteps \/ \E s \in Steps : CreateStep(s) \/ DeleteStep(s)
              \/ \E e \in Employees : SetEmployment(e)
              \/ \E a \in Employees, r \in Requests, s \in Steps : ApproveStep(a, r, s)
              \/ UNCHANGED vars
       PROVE  UNCHANGED <<status, charged, held, disturbed, bal>>
  BY Zenon, <1>10 DEF SetPolicy, DeleteType, ReorderSteps, CreateStep, DeleteStep, SetEmployment, ApproveStep,
     vars, requestVars, typeVars, balanceVars, historyVars, nonBalanceVars
<1> QED
  BY Zenon, <1>2, <1>3, <1>4, <1>5, <1>6, <1>7, <1>8, <1>9, <1>10, BooksStutter DEF Next, Decide

\* What a submission charged is what the decision moves, once, and nothing else moves a
\* counter of a balance: the leave requests implement reservations, except on balances
\* that HR wrote over or whose type changed under a pending request.
THEOREM ImplementsReservations == Spec => KeepsBooks
<1>1. Init => Books!Init
  BY DEF Init, Books!Init, Books!Zero, EmptyBalance, Components, Shares, Share,
     PendingDays, UsedDays, GrantedDays
<1>2. LedgerInv /\ BalanceAdds => BookInv
  BY DEF BookInv
<1> QED
  BY <1>1, <1>2, BooksNext, LedgerAlways, BalancesAddUp, PTL DEF Spec, KeepsBooks, Books!Spec
=============================================================================
