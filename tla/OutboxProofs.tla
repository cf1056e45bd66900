---------------------------- MODULE OutboxProofs ----------------------------
(* Theorems about Outbox, for any number of rows, workers and subscriptions. *)
EXTENDS Outbox, TLAPS

\* A claim transaction holds its row, which is still PENDING.
LockInv ==
  \A w \in Workers : pc[w] = "commit" => rowLock[ev[w]] = w /\ status[ev[w]] = "PENDING"

\* A delivery in progress owns its row unless the row was taken from it.
HoldInv ==
  \A w \in Workers :
    pc[w] \in Delivering /\ ev[w] \notin reset => status[ev[w]] = "PROCESSING"

\* A worker that is about to count a failure saw it happen.
CountInv ==
  \A w \in Workers :
    /\ pc[w] \in Delivering => prevRetry[w] <= failures[ev[w]]
    /\ pc[w] \in {"failRead", "failWrite"} => prevRetry[w] + 1 <= failures[ev[w]]

\* What a delivery has not POSTed to yet is on its list; after it, nothing is left.
AckInv ==
  /\ AlwaysOn \subseteq active
  /\ \A w \in Workers :
       /\ pc[w] = "post" => Required(ev[w]) \subseteq acked[ev[w]] \cup todo[w]
       /\ pc[w] \in {"okRead", "okWrite"} => Required(ev[w]) \subseteq acked[ev[w]]

RaceInv == TypeOK /\ LockInv /\ HoldInv /\ SoleDeliverer
FailInv == TypeOK /\ CountInv /\ GivenUpAfterCap
DoneInv == TypeOK /\ AckInv /\ AckedBeforeProcessed

-----------------------------------------------------------------------------
\* Every variable keeps its type.
THEOREM TypeCorrect == Spec => []TypeOK
<1>1. Init => TypeOK
  BY OutboxAssumption DEF Init, TypeOK, Status, PC, Delivering, MaxAge, AnyEvent, Subs
<1>2. TypeOK /\ [Next]_vars => TypeOK'
  <2> SUFFICES ASSUME TypeOK, [Next]_vars PROVE TypeOK'
    OBVIOUS
  <2> USE DEF TypeOK
  <2>1. ASSUME NEW e \in Events, Publish(e) PROVE TypeOK'
    BY <2>1 DEF Publish, Status, rowVars, configVars, workerVars, hrVars, historyVars
  <2>2. ASSUME NEW e \in Events, SetEntitlement(e) PROVE TypeOK'
    BY <2>2 DEF SetEntitlement, rowVars, configVars, workerVars, hrVars, historyVars
  <2>3. ASSUME NEW s \in Subs, SetSubscription(s) PROVE TypeOK'
    BY <2>3 DEF SetSubscription, rowVars, configVars, workerVars, hrVars, historyVars
  <2>4. ASSUME NEW w \in Workers, BeginSweep(w) PROVE TypeOK'
    <3>1. status' \in [Events -> Status]
      BY <2>4, OutboxAssumption DEF BeginSweep, Stale, Status
    <3>2. claimAge' \in [Events -> 0..MaxAge]
      BY <2>4, OutboxAssumption DEF BeginSweep, Stale, MaxAge
    <3>3. reset' \in SUBSET Events
      BY <2>4, OutboxAssumption DEF BeginSweep, Stale
    <3>4. pc' \in [Workers -> PC]
      BY <2>4, OutboxAssumption DEF BeginSweep, Stale, PC, Delivering
    <3> QED
      BY Zenon, <2>4, <3>1, <3>2, <3>3, <3>4 DEF BeginSweep, rowVars, configVars, workerVars, hrVars, historyVars
  <2>5. ASSUME NEW w \in Workers, LoadEntitlements(w) PROVE TypeOK'
    BY <2>5 DEF LoadEntitlements, PC, Delivering, rowVars, configVars, workerVars, hrVars, historyVars
  <2>6. ASSUME NEW w \in Workers, ClaimPick(w) PROVE TypeOK'
    <3>0. PICK e \in Claimable(w) : /\ rowLock' = [rowLock EXCEPT ![e] = w]
                                   /\ ev' = [ev EXCEPT ![w] = e]
      BY <2>6 DEF ClaimPick
    <3>a. e \in Events
      BY OutboxAssumption DEF Claimable
    <3>1. rowLock' \in [Events -> Workers \cup {NoWorker}]
      BY <3>0, <3>a
    <3>2. ev' \in [Workers -> Events]
      BY <3>0, <3>a
    <3>3. pc' \in [Workers -> PC]
      BY <2>6 DEF ClaimPick, Claimable, PC, Delivering
    <3> QED
      BY Zenon, <2>6, <3>1, <3>2, <3>3 DEF ClaimPick, rowVars, configVars, workerVars, hrVars, historyVars
  <2>7. ASSUME NEW w \in Workers, ClaimNone(w) PROVE TypeOK'
    BY <2>7 DEF ClaimNone, PC, Delivering, rowVars, configVars, workerVars, hrVars, historyVars
  <2>8. ASSUME NEW w \in Workers, ClaimCommit(w) PROVE TypeOK'
    <3>1. status' \in [Events -> Status]
      BY <2>8, OutboxAssumption DEF ClaimCommit, Status
    <3>2. claimAge' \in [Events -> 0..MaxAge]
      BY <2>8, OutboxAssumption DEF ClaimCommit, MaxAge
    <3>3. rowLock' \in [Events -> Workers \cup {NoWorker}]
      BY <2>8, OutboxAssumption DEF ClaimCommit
    <3>4. prevRetry' \in [Workers -> Nat]
      BY <2>8, OutboxAssumption DEF ClaimCommit
    <3>5. pc' \in [Workers -> PC]
      BY <2>8, OutboxAssumption DEF ClaimCommit, PC, Delivering
    <3> QED
      BY Zenon, <2>8, <3>1, <3>2, <3>3, <3>4, <3>5 DEF ClaimCommit, rowVars, configVars, workerVars, hrVars, historyVars
  <2>9. ASSUME NEW w \in Workers, LoadSubs(w) PROVE TypeOK'
    <3>0. Targets(ev[w]) \subseteq Hooks
      <4>1. active \subseteq Hooks /\ Global \in Hooks
        BY OutboxAssumption DEF Subs, Global, Hooks
      <4>2. QED
        BY <4>1 DEF Targets
    <3>1. todo' \in [Workers -> SUBSET Hooks]
      BY <2>9, <3>0 DEF LoadSubs
    <3>2. spent' \in [Workers -> Nat]
      BY <2>9 DEF LoadSubs, Targets
    <3>3. pc' \in [Workers -> PC]
      BY <2>9 DEF LoadSubs, Targets, PC, Delivering
    <3> QED
      BY Zenon, <2>9, <3>1, <3>2, <3>3 DEF LoadSubs, rowVars, configVars, workerVars, hrVars, historyVars
  <2>10. ASSUME NEW w \in Workers, PostAcked(w) PROVE TypeOK'
    <3>0. PICK s \in todo[w] : acked' = [acked EXCEPT ![ev[w]] = @ \cup {s}]
      BY <2>10 DEF PostAcked
    <3>1. acked' \in [Events -> SUBSET Hooks]
      BY <3>0
    <3>2. todo' \in [Workers -> SUBSET Hooks]
      BY <2>10 DEF PostAcked
    <3>3. spent' \in [Workers -> Nat]
      BY <2>10 DEF PostAcked
    <3>4. pc' \in [Workers -> PC]
      BY <2>10 DEF PostAcked, PC, Delivering
    <3> QED
      BY Zenon, <2>10, <3>1, <3>2, <3>3, <3>4 DEF PostAcked, rowVars, configVars, workerVars, hrVars, historyVars
  <2>11. ASSUME NEW w \in Workers, DeliveryFails(w) PROVE TypeOK'
    <3>0. failures' = [failures EXCEPT ![ev[w]] = @ + 1] /\ ev[w] \in Events
      BY <2>11 DEF DeliveryFails
    <3>1. failures' \in [Events -> Nat]
      BY <3>0
    <3>2. todo' \in [Workers -> SUBSET Hooks]
      BY <2>11 DEF DeliveryFails
    <3>3. spent' \in [Workers -> Nat]
      BY <2>11 DEF DeliveryFails
    <3>4. pc' \in [Workers -> PC]
      BY <2>11 DEF DeliveryFails, PC, Delivering
    <3> QED
      BY Zenon, <2>11, <3>1, <3>2, <3>3, <3>4 DEF DeliveryFails, rowVars, configVars, workerVars, hrVars, historyVars
  <2>12. ASSUME NEW w \in Workers, MarkRead(w) PROVE TypeOK'
    <3>1. ev' \in [Workers -> Events]
      BY <2>12, OutboxAssumption DEF MarkRead, Forget, AnyEvent
    <3>2. prevRetry' \in [Workers -> Nat]
      BY <2>12, OutboxAssumption DEF MarkRead, Forget, AnyEvent
    <3>3. pc' \in [Workers -> PC]
      BY <2>12, OutboxAssumption DEF MarkRead, PC, Delivering
    <3> QED
      BY Zenon, <2>12, <3>1, <3>2, <3>3 DEF MarkRead, rowVars, configVars, workerVars, hrVars, historyVars
  <2>13. ASSUME NEW w \in Workers, MarkProcessed(w) PROVE TypeOK'
    BY <2>13, OutboxAssumption DEF MarkProcessed, Forget, AnyEvent, Status, MaxAge, PC, Delivering, rowVars, configVars, workerVars, hrVars, historyVars
  <2>14. ASSUME NEW w \in Workers, MarkFailure(w) PROVE TypeOK'
    BY <2>14, OutboxAssumption DEF MarkFailure, AfterFailure, Forget, AnyEvent, Status, MaxAge, PC, Delivering, rowVars, configVars, workerVars, hrVars, historyVars
  <2>15. ASSUME NEW w \in Workers, Abandon(w) PROVE TypeOK'
    BY <2>15, OutboxAssumption DEF Abandon, Forget, AnyEvent, PC, Delivering, rowVars, configVars, workerVars, hrVars, historyVars
  <2>16. ASSUME NEW e \in Events, RequeueRead(e) PROVE TypeOK'
    BY <2>16 DEF RequeueRead, rowVars, configVars, workerVars, hrVars, historyVars
  <2>17. ASSUME NEW e \in Events, RequeueWrite(e) PROVE TypeOK'
    BY <2>17, OutboxAssumption DEF RequeueWrite, Status, MaxAge, rowVars, configVars, workerVars, hrVars, historyVars
  <2>18. CASE Tick
    <3>1. claimAge' \in [Events -> 0..MaxAge]
      BY <2>18, OutboxAssumption DEF Tick, MaxAge
    <3>2. spent' \in [Workers -> Nat]
      BY <2>18, OutboxAssumption DEF Tick
    <3> QED
      BY Zenon, <2>18, <3>1, <3>2 DEF Tick, rowVars, configVars, workerVars, hrVars, historyVars
  <2>19. CASE UNCHANGED vars
    BY <2>19 DEF vars, rowVars, configVars, workerVars, hrVars, historyVars
  <2> HIDE DEF TypeOK
  <2>20. QED
    BY <2>1, <2>2, <2>3, <2>4, <2>5, <2>6, <2>7, <2>8, <2>9, <2>10, <2>11, <2>12,
       <2>13, <2>14, <2>15, <2>16, <2>17, <2>18, <2>19 DEF Next, WorkerStep
<1>3. QED
  BY <1>1, <1>2, PTL DEF Spec

-----------------------------------------------------------------------------
\* No step breaks the ownership of rows: a claim transaction locks its row, a
\* delivery owns its row until a reclaim or a requeue takes it.
LEMMA RaceStep == RaceInv /\ TypeOK' /\ [Next]_vars => LockInv' /\ HoldInv' /\ SoleDeliverer'
<1> SUFFICES ASSUME RaceInv, TypeOK', [Next]_vars
             PROVE  LockInv' /\ HoldInv' /\ SoleDeliverer'
  OBVIOUS
<1> DEFINE Goal == LockInv /\ HoldInv /\ SoleDeliverer
<1>t. /\ pc \in [Workers -> PC] /\ ev \in [Workers -> Events]
      /\ status \in [Events -> Status] /\ rowLock \in [Events -> Workers \cup {NoWorker}]
      /\ claimAge \in [Events -> 0..MaxAge]
  BY DEF RaceInv, TypeOK
<1> USE <1>t DEF LockInv, HoldInv, SoleDeliverer, Holds, Delivering
<1>i. LockInv /\ HoldInv /\ SoleDeliverer
  BY DEF RaceInv
<1>1. ASSUME NEW e \in Events, Publish(e) PROVE Goal'
  BY <1>1, <1>i DEF Publish, workerVars, historyVars
<1>2. ASSUME UNCHANGED <<status, rowLock, pc, ev, reset>> PROVE Goal'
  BY <1>2, <1>i
<1>3. ASSUME NEW w \in Workers, BeginSweep(w) PROVE Goal'
  BY <1>3, <1>i DEF BeginSweep, Stale
<1>4. ASSUME NEW w \in Workers, UNCHANGED <<status, rowLock, ev, reset>>,
             NEW b \in {"claim", "idle", "post", "okRead", "failRead"},
             pc' = [pc EXCEPT ![w] = b], pc[w] \in Delivering \/ b \in {"claim", "idle"}
      PROVE Goal'
  BY <1>4, <1>i
<1>5. ASSUME NEW w \in Workers, ClaimPick(w) PROVE Goal'
  <2>1. PICK e \in Claimable(w) : /\ rowLock' = [rowLock EXCEPT ![e] = w]
                                 /\ ev' = [ev EXCEPT ![w] = e]
    BY <1>5 DEF ClaimPick
  <2>2. e \in Events /\ status[e] = "PENDING" /\ rowLock[e] = NoWorker
    BY OutboxAssumption DEF Claimable, RaceInv, TypeOK
  <2>3. pc[w] = "claim" /\ pc' = [pc EXCEPT ![w] = "commit"] /\ UNCHANGED <<status, reset>>
    BY <1>5 DEF ClaimPick, historyVars
  <2>4. LockInv'
    BY <1>i, <2>1, <2>2, <2>3, OutboxAssumption
  <2>5. HoldInv' /\ SoleDeliverer'
    BY <1>i, <2>1, <2>2, <2>3
  <2>6. QED
    BY <2>4, <2>5
<1>6. ASSUME NEW w \in Workers, ClaimCommit(w) PROVE Goal'
  <2>1. /\ pc[w] = "commit" /\ pc' = [pc EXCEPT ![w] = "subs"]
        /\ status' = [status EXCEPT ![ev[w]] = "PROCESSING"]
        /\ rowLock' = [rowLock EXCEPT ![ev[w]] = NoWorker]
        /\ UNCHANGED <<ev, reset>>
    BY <1>6 DEF ClaimCommit, historyVars
  <2>2. rowLock[ev[w]] = w /\ status[ev[w]] = "PENDING"
    BY <1>i, <2>1
  <2>3. LockInv'
    BY <1>i, <2>1, <2>2
  <2>4. HoldInv'
    BY <1>i, <2>1
  <2>5. SoleDeliverer'
    BY <1>i, <2>1, <2>2
  <2>6. QED
    BY <2>3, <2>4, <2>5
<1>7. ASSUME NEW w \in Workers, MarkRead(w) PROVE Goal'
  BY <1>7, <1>i DEF MarkRead, Forget, rowVars, historyVars
<1>8. ASSUME NEW w \in Workers, MarkProcessed(w) \/ MarkFailure(w) PROVE Goal'
  <2>1. /\ pc[w] \in {"okWrite", "failWrite"} /\ pc' = [pc EXCEPT ![w] = "load"]
        /\ rowLock[ev[w]] = NoWorker
        /\ \A e \in Events : e # ev[w] => status'[e] = status[e]
        /\ \A v \in Workers : v # w => ev'[v] = ev[v]
        /\ UNCHANGED <<rowLock, reset>>
    BY <1>8 DEF MarkProcessed, MarkFailure, Forget, historyVars
  <2>2. \A v \in Workers : pc[v] = "commit" => ev[v] # ev[w]
    BY <1>i, <2>1, OutboxAssumption
  <2>3. \A v \in Workers : v # w /\ Holds(v, ev[w]) => ev[w] \in reset
    BY <1>i, <2>1
  <2>4. LockInv'
    BY <1>i, <2>1, <2>2
  <2>5. HoldInv'
    BY <1>i, <2>1, <2>3
  <2>6. SoleDeliverer'
    BY <1>i, <2>1
  <2>7. QED
    BY <2>4, <2>5, <2>6
<1>10. ASSUME NEW w \in Workers, Abandon(w) PROVE Goal'
  BY <1>10, <1>i DEF Abandon, Forget, historyVars
<1>11. ASSUME NEW e \in Events, RequeueWrite(e) PROVE Goal'
  <2>1. /\ rowLock[e] = NoWorker /\ status' = [status EXCEPT ![e] = "PENDING"]
        /\ reset' = reset \cup {e} /\ UNCHANGED <<rowLock, pc, ev>>
    BY <1>11 DEF RequeueWrite, workerVars
  <2>2. \A v \in Workers : pc[v] = "commit" => ev[v] # e
    BY <1>i, <2>1, OutboxAssumption
  <2>3. QED
    BY <1>i, <2>1, <2>2
<1>12. ASSUME NEW w \in Workers, WorkerStep(w) PROVE Goal'
  <2>1. CASE LoadEntitlements(w)
    <3>1. UNCHANGED <<status, rowLock, ev, reset>>
      BY <2>1 DEF LoadEntitlements, rowVars, historyVars
    <3>2. pc[w] = "load" /\ pc' = [pc EXCEPT ![w] = "claim"]
      BY <2>1 DEF LoadEntitlements
    <3>3. QED
      BY <3>1, <3>2, <1>4
  <2>2. CASE ClaimNone(w)
    <3>1. UNCHANGED <<status, rowLock, ev, reset>>
      BY <2>2 DEF ClaimNone, rowVars, historyVars
    <3>2. pc[w] = "claim" /\ pc' = [pc EXCEPT ![w] = "idle"]
      BY <2>2 DEF ClaimNone
    <3>3. QED
      BY <3>1, <3>2, <1>4
  <2>3. CASE LoadSubs(w)
    <3>1. UNCHANGED <<status, rowLock, ev, reset>>
      BY <2>3 DEF LoadSubs, rowVars, historyVars
    <3>2. PICK b \in {"post", "okRead"} : pc[w] = "subs" /\ pc' = [pc EXCEPT ![w] = b]
      BY <2>3 DEF LoadSubs
    <3>3. QED
      BY <3>1, <3>2, <1>4
  <2>4. CASE PostAcked(w)
    <3>1. UNCHANGED <<status, rowLock, ev, reset>>
      BY <2>4 DEF PostAcked, rowVars
    <3>2. PICK b \in {"post", "okRead"} : pc[w] = "post" /\ pc' = [pc EXCEPT ![w] = b]
      BY <2>4 DEF PostAcked
    <3>3. QED
      BY <3>1, <3>2, <1>4
  <2>5. CASE DeliveryFails(w)
    BY <2>5, <1>4 DEF DeliveryFails, rowVars
  <2>6. QED
    BY <1>12, <1>3, <1>5, <1>6, <1>7, <1>8, <2>1, <2>2, <2>3, <2>4, <2>5
       DEF WorkerStep
<1>13. ASSUME NEW e \in Events, SetEntitlement(e) \/ RequeueRead(e) PROVE Goal'
  BY <1>13, <1>2 DEF SetEntitlement, RequeueRead, rowVars, workerVars, historyVars
<1>14. ASSUME NEW s \in Subs, SetSubscription(s) PROVE Goal'
  BY <1>14, <1>2 DEF SetSubscription, rowVars, workerVars, historyVars
<1>15. ASSUME Tick PROVE Goal'
  BY <1>15, <1>2 DEF Tick
<1>16. ASSUME UNCHANGED vars PROVE Goal'
  BY <1>16, <1>2 DEF vars, rowVars, workerVars, historyVars
<1> HIDE <1>t DEF Goal, LockInv, HoldInv, SoleDeliverer, Holds, Delivering
<1>17. Goal'
  BY <1>1, <1>10, <1>11, <1>12, <1>13, <1>14, <1>15, <1>16 DEF Next
<1>18. QED
  BY <1>17 DEF Goal

\* The ownership of rows is an invariant.
LEMMA RaceInvariant == Spec => []RaceInv
<1>1. Init => RaceInv
  <2>1. Init => TypeOK
    BY OutboxAssumption DEF Init, TypeOK, Status, PC, Delivering, MaxAge, AnyEvent, Subs
  <2>2. Init => LockInv /\ HoldInv /\ SoleDeliverer
    BY DEF Init, LockInv, HoldInv, SoleDeliverer, Holds, Delivering
  <2>3. QED
    BY <2>1, <2>2 DEF RaceInv
<1>2. RaceInv /\ TypeOK' /\ [Next]_vars => RaceInv'
  BY RaceStep DEF RaceInv
<1>3. QED
  BY <1>1, <1>2, TypeCorrect, PTL DEF Spec

\* The claim's FOR UPDATE SKIP LOCKED: two workers deliver the same row at once
\* only after a reclaim or a manual requeue took it from one of them.
THEOREM OneDeliverer == Spec => []SoleDeliverer
<1>1. RaceInv => SoleDeliverer
  BY DEF RaceInv
<1>2. QED
  BY <1>1, RaceInvariant, PTL

\* mark_processed, mark_failure and requeue_outbox_event write by id after an
\* unlocked read; they reopen a delivered row only where a reclaim or a requeue
\* reached it first.
THEOREM DeliveredStays == Spec => ProcessedUnlessRaced
<1>1. RaceInv /\ [Next]_vars =>
        [\A e \in Events : status[e] = "PROCESSED" /\ e \notin reset \cup requeue
           => status'[e] = "PROCESSED"]_vars
  <2> SUFFICES ASSUME RaceInv, Next, NEW e \in Events,
                      status[e] = "PROCESSED", e \notin reset \cup requeue
               PROVE  status'[e] = "PROCESSED"
    OBVIOUS
  <2>1. /\ status \in [Events -> Status] /\ ev \in [Workers -> Events]
        /\ pc \in [Workers -> PC]
    BY DEF RaceInv, TypeOK
  <2>2. \A w \in Workers : ev[w] = e => pc[w] # "commit" /\ pc[w] \notin Delivering
    BY DEF RaceInv, LockInv, HoldInv
  <2>3. ASSUME NEW f \in Events, Publish(f) \/ SetEntitlement(f) \/ RequeueRead(f)
                                   \/ RequeueWrite(f)
        PROVE  status'[e] = "PROCESSED"
    BY <2>1, <2>3 DEF Publish, SetEntitlement, RequeueRead, RequeueWrite, rowVars
  <2>4. ASSUME NEW w \in Workers, WorkerStep(w) \/ Abandon(w)
        PROVE  status'[e] = "PROCESSED"
    <3>1. CASE BeginSweep(w)
      BY <3>1, <2>1 DEF BeginSweep, Stale
    <3>2. CASE ClaimCommit(w)
      BY <3>2, <2>1, <2>2 DEF ClaimCommit
    <3>3. CASE MarkProcessed(w) \/ MarkFailure(w)
      BY <3>3, <2>1, <2>2 DEF MarkProcessed, MarkFailure, Delivering
    <3>4. CASE LoadEntitlements(w) \/ ClaimPick(w) \/ ClaimNone(w) \/ LoadSubs(w)
                 \/ PostAcked(w) \/ DeliveryFails(w) \/ MarkRead(w) \/ Abandon(w)
      BY <3>4, Zenon DEF LoadEntitlements, ClaimPick, ClaimNone, LoadSubs, PostAcked,
         DeliveryFails, MarkRead, Abandon, rowVars
    <3>5. QED
      BY <2>4, <3>1, <3>2, <3>3, <3>4 DEF WorkerStep
  <2>5. CASE (\E s \in Subs : SetSubscription(s)) \/ Tick
    BY <2>5 DEF SetSubscription, Tick, rowVars
  <2>6. QED
    BY <2>3, <2>4, <2>5 DEF Next
<1>2. QED
  BY <1>1, RaceInvariant, PTL DEF Spec, ProcessedUnlessRaced

-----------------------------------------------------------------------------
\* No step makes retry_count exceed the failures seen, or gives a row up early.
LEMMA FailStep == FailInv /\ TypeOK' /\ [Next]_vars => CountInv' /\ GivenUpAfterCap'
<1> SUFFICES ASSUME FailInv, TypeOK', [Next]_vars PROVE CountInv' /\ GivenUpAfterCap'
  OBVIOUS
<1> DEFINE Goal == CountInv /\ GivenUpAfterCap
<1>t. /\ pc \in [Workers -> PC] /\ ev \in [Workers -> Events]
      /\ status \in [Events -> Status] /\ prevRetry \in [Workers -> Nat]
      /\ retry \in [Events -> Nat] /\ failures \in [Events -> Nat] /\ Cap \in Nat
  BY OutboxAssumption DEF FailInv, TypeOK
<1>i. CountInv /\ GivenUpAfterCap
  BY DEF FailInv
<1> USE <1>t DEF CountInv, GivenUpAfterCap, Delivering
<1>1. ASSUME UNCHANGED <<retry, failures, pc, ev, prevRetry>>,
             \A e \in Events : status'[e] = "FAILED" => status[e] = "FAILED"
      PROVE  Goal'
  BY <1>1, <1>i
<1>2. ASSUME NEW w \in Workers, UNCHANGED <<retry, failures>>,
             \A e \in Events : status'[e] = "FAILED" => status[e] = "FAILED",
             \A v \in Workers : v # w => /\ pc'[v] = pc[v] /\ ev'[v] = ev[v]
                                         /\ prevRetry'[v] = prevRetry[v],
             pc'[w] \notin Delivering
      PROVE  Goal'
  BY <1>2, <1>i
<1>3. ASSUME NEW w \in Workers, UNCHANGED <<retry, failures, ev, prevRetry, status>>,
             NEW b \in Delivering, pc' = [pc EXCEPT ![w] = b], pc[w] \in Delivering,
             b \in {"failRead", "failWrite"} => pc[w] \in {"failRead", "failWrite"}
      PROVE  Goal'
  BY <1>3, <1>i
<1>4. ASSUME NEW w \in Workers, ClaimCommit(w) PROVE Goal'
  BY <1>4, <1>i DEF ClaimCommit, historyVars
<1>5. ASSUME NEW w \in Workers, DeliveryFails(w) PROVE Goal'
  <2>1. /\ failures' = [failures EXCEPT ![ev[w]] = @ + 1]
        /\ pc[w] \in Delivering /\ pc' = [pc EXCEPT ![w] = "failRead"]
        /\ UNCHANGED <<retry, status, ev, prevRetry>>
    BY <1>5 DEF DeliveryFails, rowVars
  <2>2. QED
    BY <1>i, <2>1
<1>6. ASSUME NEW w \in Workers, MarkFailure(w) PROVE Goal'
  <2>1. /\ pc[w] = "failWrite" /\ pc' = [pc EXCEPT ![w] = "load"]
        /\ retry' = [retry EXCEPT ![ev[w]] = prevRetry[w] + 1]
        /\ status' = [status EXCEPT ![ev[w]] = AfterFailure(w)]
        /\ \A v \in Workers : v # w => ev'[v] = ev[v] /\ prevRetry'[v] = prevRetry[v]
        /\ UNCHANGED failures
    BY <1>6 DEF MarkFailure, Forget, historyVars
  <2>2. prevRetry[w] + 1 <= failures[ev[w]]
    BY <1>i, <2>1
  <2>3. AfterFailure(w) = "FAILED" => failures[ev[w]] >= Cap
    BY <2>2 DEF AfterFailure
  <2>4. CountInv'
    BY <1>i, <2>1
  <2>5. GivenUpAfterCap'
    BY <1>i, <2>1, <2>2, <2>3
  <2>6. QED
    BY <2>4, <2>5
<1>7. ASSUME NEW w \in Workers, MarkRead(w) PROVE Goal'
  <2>1. CASE status[ev[w]] = "PROCESSING"
    <3>1. UNCHANGED <<retry, failures, ev, prevRetry, status>>
      BY <1>7, <2>1 DEF MarkRead, rowVars, historyVars
    <3>2. CASE pc[w] = "okRead"
      BY <1>7, <2>1, <3>1, <3>2, <1>3 DEF MarkRead
    <3>3. CASE pc[w] = "failRead"
      BY <1>7, <2>1, <3>1, <3>3, <1>3 DEF MarkRead
    <3>4. QED
      BY <1>7, <3>2, <3>3 DEF MarkRead
  <2>2. CASE status[ev[w]] # "PROCESSING"
    BY <1>7, <2>2, <1>2 DEF MarkRead, Forget, rowVars, historyVars
  <2>3. QED
    BY <2>1, <2>2
<1>8. ASSUME NEW w \in Workers, LoadSubs(w) \/ PostAcked(w) PROVE Goal'
  <2>1. UNCHANGED <<retry, failures, ev, prevRetry, status>>
    BY <1>8 DEF LoadSubs, PostAcked, rowVars, historyVars
  <2>2. PICK b \in {"post", "okRead"} : pc[w] \in Delivering /\ pc' = [pc EXCEPT ![w] = b]
    BY <1>8 DEF LoadSubs, PostAcked
  <2>3. QED
    BY <2>1, <2>2, <1>3
<1>9. ASSUME NEW w \in Workers, MarkProcessed(w) \/ Abandon(w) PROVE Goal'
  BY <1>9, <1>2 DEF MarkProcessed, Abandon, Forget, historyVars
<1>10. ASSUME NEW w \in Workers,
              BeginSweep(w) \/ LoadEntitlements(w) \/ ClaimPick(w) \/ ClaimNone(w)
       PROVE  Goal'
  <2>1. UNCHANGED <<retry, failures, prevRetry>>
    BY <1>10 DEF BeginSweep, LoadEntitlements, ClaimPick, ClaimNone, rowVars, historyVars
  <2>2. \A e \in Events : status'[e] = "FAILED" => status[e] = "FAILED"
    BY <1>10 DEF BeginSweep, LoadEntitlements, ClaimPick, ClaimNone, rowVars
  <2>3. /\ pc'[w] \notin Delivering
        /\ \A v \in Workers : v # w => pc'[v] = pc[v] /\ ev'[v] = ev[v]
    BY <1>10 DEF BeginSweep, LoadEntitlements, ClaimPick, ClaimNone
  <2>4. QED
    BY <2>1, <2>2, <2>3, <1>2
<1>11. ASSUME NEW e \in Events,
              Publish(e) \/ SetEntitlement(e) \/ RequeueRead(e) \/ RequeueWrite(e)
       PROVE  Goal'
  BY <1>11, <1>1 DEF Publish, SetEntitlement, RequeueRead, RequeueWrite, rowVars,
     workerVars, historyVars
<1>12. ASSUME (\E s \in Subs : SetSubscription(s)) \/ Tick \/ UNCHANGED vars PROVE Goal'
  BY <1>12, <1>1 DEF SetSubscription, Tick, vars, rowVars, workerVars, historyVars
<1> HIDE <1>t DEF Goal, CountInv, GivenUpAfterCap, Delivering
<1>13. Goal'
  BY <1>4, <1>5, <1>6, <1>7, <1>8, <1>9, <1>10, <1>11, <1>12 DEF Next, WorkerStep
<1>14. QED
  BY <1>13 DEF Goal

\* Failures are counted right.
LEMMA FailInvariant == Spec => []FailInv
<1>1. Init => FailInv
  <2>1. Init => TypeOK
    BY OutboxAssumption DEF Init, TypeOK, Status, PC, Delivering, MaxAge, AnyEvent, Subs
  <2>2. Init => CountInv /\ GivenUpAfterCap
    BY DEF Init, CountInv, GivenUpAfterCap, Delivering
  <2>3. QED
    BY <2>1, <2>2 DEF FailInv
<1>2. FailInv /\ TypeOK' /\ [Next]_vars => FailInv'
  BY FailStep DEF FailInv
<1>3. QED
  BY <1>1, <1>2, TypeCorrect, PTL DEF Spec

\* A row is given up only after OUTBOX_MAX_RETRIES deliveries of it failed, and
\* retry_count never claims more failures than there were.
THEOREM CapHonoured == Spec => []GivenUpAfterCap
<1>1. FailInv => GivenUpAfterCap
  BY DEF FailInv
<1>2. QED
  BY <1>1, FailInvariant, PTL

-----------------------------------------------------------------------------
\* No step forgets an endpoint that must answer before the row is PROCESSED.
LEMMA DoneStep == DoneInv /\ TypeOK' /\ [Next]_vars => AckInv' /\ AckedBeforeProcessed'
<1> SUFFICES ASSUME DoneInv, TypeOK', [Next]_vars PROVE AckInv' /\ AckedBeforeProcessed'
  OBVIOUS
<1> DEFINE Goal == AckInv /\ AckedBeforeProcessed
<1>t. /\ pc \in [Workers -> PC] /\ ev \in [Workers -> Events]
      /\ status \in [Events -> Status] /\ todo \in [Workers -> SUBSET Hooks]
      /\ acked \in [Events -> SUBSET Hooks]
  BY DEF DoneInv, TypeOK
<1>i. AckInv /\ AckedBeforeProcessed
  BY DEF DoneInv
<1> USE <1>t DEF AckInv, AckedBeforeProcessed
<1>1. ASSUME UNCHANGED <<active, acked, todo, pc, ev>>,
             \A e \in Events : status'[e] = "PROCESSED" => status[e] = "PROCESSED"
      PROVE  Goal'
  BY <1>1, <1>i
<1>2. ASSUME NEW w \in Workers, UNCHANGED <<active, acked>>,
             \A e \in Events : status'[e] = "PROCESSED" => status[e] = "PROCESSED",
             \A v \in Workers : v # w => /\ pc'[v] = pc[v] /\ ev'[v] = ev[v]
                                         /\ todo'[v] = todo[v],
             pc'[w] \notin {"post", "okRead", "okWrite"}
      PROVE  Goal'
  BY <1>2, <1>i
<1>3. ASSUME NEW w \in Workers, LoadSubs(w) PROVE Goal'
  <2>1. /\ todo' = [todo EXCEPT ![w] = Targets(ev[w])]
        /\ pc' = [pc EXCEPT ![w] = IF Targets(ev[w]) = {} THEN "okRead" ELSE "post"]
        /\ UNCHANGED <<active, acked, ev, status>>
    BY <1>3 DEF LoadSubs, rowVars, configVars, historyVars
  <2>2. Required(ev[w]) \subseteq Targets(ev[w])
    BY <1>i DEF Required, Targets
  <2>3. QED
    BY <1>i, <2>1, <2>2
<1>4. ASSUME NEW w \in Workers, PostAcked(w) PROVE Goal'
  <2>1. PICK s \in todo[w] :
          /\ acked' = [acked EXCEPT ![ev[w]] = @ \cup {s}]
          /\ todo' = [todo EXCEPT ![w] = @ \ {s}]
          /\ pc' = [pc EXCEPT ![w] = IF todo[w] = {s} THEN "okRead" ELSE "post"]
    BY <1>4 DEF PostAcked
  <2>2. pc[w] = "post" /\ UNCHANGED <<active, ev, status>>
    BY <1>4 DEF PostAcked, rowVars, configVars
  <2>3. Required(ev[w]) \subseteq acked[ev[w]] \cup todo[w]
    BY <1>i, <2>2
  <2>4. AckInv'
    <3>1. \A v \in Workers : acked[ev[v]] \subseteq acked'[ev[v]]
      BY <2>1
    <3>2. Required(ev[w]) \subseteq acked'[ev[w]] \cup todo'[w]
      BY <2>1, <2>3
    <3>3. todo[w] = {s} => Required(ev[w]) \subseteq acked'[ev[w]]
      BY <2>1, <2>3
    <3>4. \A v \in Workers : v # w => pc'[v] = pc[v] /\ todo'[v] = todo[v]
      BY <2>1
    <3>5. pc'[w] = IF todo[w] = {s} THEN "okRead" ELSE "post"
      BY <2>1
    <3>6. QED
      BY <1>i, <2>2, <3>1, <3>2, <3>3, <3>4, <3>5
  <2>5. AckedBeforeProcessed'
    BY <1>i, <2>1, <2>2
  <2>6. QED
    BY <2>4, <2>5
<1>5. ASSUME NEW w \in Workers, MarkRead(w) PROVE Goal'
  <2>1. CASE status[ev[w]] = "PROCESSING"
    BY <1>5, <2>1, <1>i DEF MarkRead, rowVars, configVars, historyVars
  <2>2. CASE status[ev[w]] # "PROCESSING"
    BY <1>5, <2>2, <1>2 DEF MarkRead, Forget, rowVars, configVars, historyVars
  <2>3. QED
    BY <2>1, <2>2
<1>6. ASSUME NEW w \in Workers, MarkProcessed(w) PROVE Goal'
  <2>1. /\ pc[w] = "okWrite" /\ pc' = [pc EXCEPT ![w] = "load"]
        /\ status' = [status EXCEPT ![ev[w]] = "PROCESSED"]
        /\ \A v \in Workers : v # w => ev'[v] = ev[v]
        /\ UNCHANGED <<active, acked, todo>>
    BY <1>6 DEF MarkProcessed, Forget, configVars, historyVars
  <2>2. QED
    BY <1>i, <2>1
<1>7. ASSUME NEW w \in Workers, MarkFailure(w) PROVE Goal'
  BY <1>7, <1>2 DEF MarkFailure, AfterFailure, Forget, configVars, historyVars
<1>8. ASSUME NEW w \in Workers,
             BeginSweep(w) \/ LoadEntitlements(w) \/ ClaimPick(w) \/ ClaimNone(w)
               \/ ClaimCommit(w) \/ DeliveryFails(w) \/ Abandon(w)
      PROVE  Goal'
  <2>1. UNCHANGED <<active, acked>>
    BY <1>8 DEF BeginSweep, LoadEntitlements, ClaimPick, ClaimNone, ClaimCommit,
       DeliveryFails, Abandon, configVars, historyVars
  <2>2. \A e \in Events : status'[e] = "PROCESSED" => status[e] = "PROCESSED"
    BY <1>8 DEF BeginSweep, LoadEntitlements, ClaimPick, ClaimNone, ClaimCommit,
       DeliveryFails, Abandon, rowVars
  <2>3. /\ pc'[w] \notin {"post", "okRead", "okWrite"}
        /\ \A v \in Workers : v # w => pc'[v] = pc[v] /\ ev'[v] = ev[v] /\ todo'[v] = todo[v]
    BY <1>8 DEF BeginSweep, LoadEntitlements, ClaimPick, ClaimNone, ClaimCommit,
       DeliveryFails, Abandon, Forget
  <2>4. QED
    BY <2>1, <2>2, <2>3, <1>2
<1>9. ASSUME NEW e \in Events,
             Publish(e) \/ SetEntitlement(e) \/ RequeueRead(e) \/ RequeueWrite(e)
      PROVE  Goal'
  BY <1>9, <1>1 DEF Publish, SetEntitlement, RequeueRead, RequeueWrite, rowVars,
     configVars, workerVars, historyVars
<1>10. ASSUME NEW s \in Subs, SetSubscription(s) PROVE Goal'
  BY <1>10, <1>i DEF SetSubscription, rowVars, workerVars, historyVars
<1>11. ASSUME Tick \/ UNCHANGED vars PROVE Goal'
  BY <1>11, <1>1 DEF Tick, vars, rowVars, configVars, workerVars, historyVars
<1> HIDE <1>t DEF Goal, AckInv, AckedBeforeProcessed
<1>12. Goal'
  BY <1>3, <1>4, <1>5, <1>6, <1>7, <1>8, <1>9, <1>10, <1>11 DEF Next, WorkerStep
<1>13. QED
  BY <1>12 DEF Goal

\* No endpoint that must answer is forgotten.
LEMMA DoneInvariant == Spec => []DoneInv
<1>1. Init => DoneInv
  <2>1. Init => TypeOK
    BY OutboxAssumption DEF Init, TypeOK, Status, PC, Delivering, MaxAge, AnyEvent, Subs
  <2>2. Init => AckInv /\ AckedBeforeProcessed
    BY DEF Init, AckInv, AckedBeforeProcessed
  <2>3. QED
    BY <2>1, <2>2 DEF DoneInv
<1>2. DoneInv /\ TypeOK' /\ [Next]_vars => DoneInv'
  BY DoneStep DEF DoneInv
<1>3. QED
  BY <1>1, <1>2, TypeCorrect, PTL DEF Spec

\* A PROCESSED row was answered 2xx by the global hook and by every matching
\* subscription that was active throughout.
THEOREM DeliveredToAll == Spec => []AckedBeforeProcessed
<1>1. DoneInv => AckedBeforeProcessed
  BY DEF DoneInv
<1>2. QED
  BY <1>1, DoneInvariant, PTL

-----------------------------------------------------------------------------
\* Only rows that were committed are delivered, taken back or requeued.
SentInv ==
  /\ \A w \in Workers : pc[w] \in Delivering => status[ev[w]] # "NONE"
  /\ \A e \in requeue \cup reset : status[e] # "NONE"

\* A committed row never becomes one that is not there.
LEMMA StaysSent == TypeOK /\ Next => \A e \in Events : status[e] # "NONE" => status'[e] # "NONE"
<1> SUFFICES ASSUME TypeOK, Next, NEW e \in Events, status[e] # "NONE"
             PROVE  status'[e] # "NONE"
  OBVIOUS
<1>t. status \in [Events -> Status] /\ ev \in [Workers -> Events]
  BY DEF TypeOK
<1>1. ASSUME NEW f \in Events, Publish(f) \/ RequeueWrite(f) PROVE status'[e] # "NONE"
  BY <1>1, <1>t DEF Publish, RequeueWrite
<1>2. ASSUME NEW w \in Workers, BeginSweep(w) PROVE status'[e] # "NONE"
  BY <1>2, <1>t DEF BeginSweep
<1>3. ASSUME NEW w \in Workers, ClaimCommit(w) \/ MarkProcessed(w) \/ MarkFailure(w)
      PROVE  status'[e] # "NONE"
  BY <1>3, <1>t DEF ClaimCommit, MarkProcessed, MarkFailure, AfterFailure
<1>4. ASSUME UNCHANGED status PROVE status'[e] # "NONE"
  BY <1>4
<1>5. ASSUME NEW w \in Workers,
             LoadEntitlements(w) \/ ClaimPick(w) \/ ClaimNone(w) \/ LoadSubs(w)
               \/ PostAcked(w) \/ DeliveryFails(w) \/ MarkRead(w) \/ Abandon(w)
      PROVE  UNCHANGED status
  BY <1>5, Zenon DEF LoadEntitlements, ClaimPick, ClaimNone, LoadSubs, PostAcked,
     DeliveryFails, MarkRead, Abandon, rowVars
<1>6. ASSUME NEW f \in Events, SetEntitlement(f) \/ RequeueRead(f) PROVE UNCHANGED status
  BY <1>6 DEF SetEntitlement, RequeueRead, rowVars
<1>7. ASSUME (\E s \in Subs : SetSubscription(s)) \/ Tick PROVE UNCHANGED status
  BY <1>7 DEF SetSubscription, Tick, rowVars
<1>8. QED
  BY <1>1, <1>2, <1>3, <1>4, <1>5, <1>6, <1>7 DEF Next, WorkerStep

\* Delivery, reclaim and requeue begin with a row that is there.
LEMMA SentStep == RaceInv /\ SentInv /\ TypeOK' /\ [Next]_vars => SentInv'
<1> SUFFICES ASSUME RaceInv, SentInv, TypeOK', [Next]_vars PROVE SentInv'
  OBVIOUS
<1>t. /\ pc \in [Workers -> PC] /\ ev \in [Workers -> Events]
      /\ status \in [Events -> Status] /\ requeue \subseteq Events /\ reset \subseteq Events
  BY DEF RaceInv, TypeOK
<1>i. /\ \A w \in Workers : pc[w] \in Delivering => status[ev[w]] # "NONE"
      /\ \A e \in requeue \cup reset : status[e] # "NONE"
  BY DEF SentInv
<1>s. Next => \A e \in Events : status[e] # "NONE" => status'[e] # "NONE"
  BY StaysSent DEF RaceInv
<1>1. ASSUME Next, NEW w \in Workers, pc'[w] \in Delivering PROVE status'[ev'[w]] # "NONE"
  <2>1. ASSUME pc[w] \in Delivering, ev'[w] = ev[w] PROVE status'[ev'[w]] # "NONE"
    BY <1>1, <2>1, <1>t, <1>i, <1>s
  <2>2. ASSUME NEW v \in Workers, WorkerStep(v) \/ Abandon(v), v # w
        PROVE  pc'[w] = pc[w] /\ ev'[w] = ev[w]
    BY <2>2, <1>t DEF WorkerStep, BeginSweep, LoadEntitlements, ClaimPick, ClaimNone, ClaimCommit,
       LoadSubs, PostAcked, DeliveryFails, MarkRead, MarkProcessed, MarkFailure, Abandon, Forget
  <2>3. ASSUME ClaimCommit(w) PROVE status'[ev'[w]] # "NONE"
    BY <2>3, <1>t DEF ClaimCommit
  <2>4. ASSUME LoadSubs(w) \/ PostAcked(w) \/ DeliveryFails(w)
        PROVE  pc[w] \in Delivering /\ ev'[w] = ev[w]
    BY <2>4, <1>t DEF LoadSubs, PostAcked, DeliveryFails, Delivering
  <2>5. ASSUME MarkRead(w) PROVE pc[w] \in Delivering /\ ev'[w] = ev[w]
    <3>1. pc' # [pc EXCEPT ![w] = "load"]
      BY <1>1, <1>t DEF Delivering
    <3>2. QED
      BY <2>5, <3>1 DEF MarkRead, Delivering
  <2>6. ASSUME BeginSweep(w) \/ LoadEntitlements(w) \/ ClaimPick(w) \/ ClaimNone(w)
                 \/ MarkProcessed(w) \/ MarkFailure(w) \/ Abandon(w)
        PROVE  FALSE
    BY <1>1, <2>6, <1>t DEF BeginSweep, LoadEntitlements, ClaimPick, ClaimNone, MarkProcessed,
       MarkFailure, Abandon, Delivering
  <2>7. ASSUME NEW e \in Events,
               Publish(e) \/ SetEntitlement(e) \/ RequeueRead(e) \/ RequeueWrite(e)
        PROVE  UNCHANGED <<pc, ev>>
    BY <2>7 DEF Publish, SetEntitlement, RequeueRead, RequeueWrite, workerVars
  <2>8. ASSUME (\E s \in Subs : SetSubscription(s)) \/ Tick PROVE UNCHANGED <<pc, ev>>
    BY <2>8 DEF SetSubscription, Tick, workerVars
  <2>9. ASSUME NEW v \in Workers, WorkerStep(v) \/ Abandon(v) PROVE status'[ev'[w]] # "NONE"
    <3>1. CASE v # w
      BY <1>1, <2>1, <2>2, <2>9, <3>1
    <3>2. CASE v = w
      BY <2>1, <2>3, <2>4, <2>5, <2>6, <2>9, <3>2 DEF WorkerStep
    <3>3. QED
      BY <3>1, <3>2
  <2>10. ASSUME UNCHANGED <<pc, ev>> PROVE status'[ev'[w]] # "NONE"
    BY <1>1, <2>1, <2>10
  <2>11. QED
    BY <1>1, <2>7, <2>8, <2>9, <2>10 DEF Next
<1>2. ASSUME Next, NEW e \in requeue' \cup reset' PROVE status'[e] # "NONE"
  <2>1. ASSUME NEW w \in Workers, BeginSweep(w) PROVE status'[e] # "NONE"
    BY <1>2, <2>1, <1>t, <1>i, <1>s DEF BeginSweep, Stale, hrVars
  <2>2. ASSUME NEW f \in Events, RequeueRead(f) \/ RequeueWrite(f) PROVE status'[e] # "NONE"
    BY <1>2, <2>2, <1>t, <1>i, <1>s DEF RequeueRead, RequeueWrite, rowVars, historyVars
  <2>3. ASSUME UNCHANGED <<requeue, reset>> PROVE status'[e] # "NONE"
    BY <1>2, <2>3, <1>t, <1>i, <1>s
  <2>4. ASSUME NEW w \in Workers, WorkerStep(w) \/ Abandon(w), ~ BeginSweep(w)
        PROVE  UNCHANGED <<requeue, reset>>
    BY <2>4, Zenon DEF WorkerStep, LoadEntitlements, ClaimPick, ClaimNone, ClaimCommit, LoadSubs,
       PostAcked, DeliveryFails, MarkRead, MarkProcessed, MarkFailure, Abandon, hrVars, historyVars
  <2>5. ASSUME NEW f \in Events, Publish(f) \/ SetEntitlement(f) PROVE UNCHANGED <<requeue, reset>>
    BY <2>5 DEF Publish, SetEntitlement, hrVars, historyVars
  <2>6. ASSUME (\E s \in Subs : SetSubscription(s)) \/ Tick PROVE UNCHANGED <<requeue, reset>>
    BY <2>6 DEF SetSubscription, Tick, hrVars, historyVars
  <2>7. QED
    BY <1>2, <2>1, <2>2, <2>3, <2>4, <2>5, <2>6 DEF Next
<1>3. ASSUME UNCHANGED vars PROVE SentInv'
  BY <1>3, <1>i DEF SentInv, vars, rowVars, workerVars, hrVars, historyVars
<1>4. QED
  BY <1>1, <1>2, <1>3 DEF SentInv

\* All that the refinement needs to know of a state.
MapInv == RaceInv /\ FailInv /\ DoneInv /\ SentInv

LEMMA MapInvariant == Spec => []MapInv
<1>1. Init => SentInv
  BY DEF Init, SentInv, Delivering
<1>2. SentInv /\ RaceInv /\ TypeOK' /\ [Next]_vars => SentInv'
  BY SentStep
<1>3. Spec => []SentInv
  BY <1>1, <1>2, RaceInvariant, TypeCorrect, PTL DEF Spec
<1>4. QED
  BY <1>3, RaceInvariant, FailInvariant, DoneInvariant, PTL DEF MapInv

-----------------------------------------------------------------------------
\* A step that touches neither statuses nor what was acknowledged, failed or taken
\* back is none of Delivery.
LEMMA Stutters ==
  UNCHANGED <<status, acked, failures, reset>> => UNCHANGED Promise!deliveryVars
BY DEF Promise!deliveryVars

\* Every step of the outbox is a step of Delivery or leaves it alone.
LEMMA StepMaps == MapInv /\ TypeOK' /\ [Next]_vars => [Promise!Next]_Promise!deliveryVars
<1> SUFFICES ASSUME MapInv, TypeOK', [Next]_vars
             PROVE  Promise!Next \/ UNCHANGED Promise!deliveryVars
  OBVIOUS
<1>t. /\ pc \in [Workers -> PC] /\ ev \in [Workers -> Events]
      /\ status \in [Events -> Status] /\ todo \in [Workers -> SUBSET Hooks]
      /\ acked \in [Events -> SUBSET Hooks] /\ failures \in [Events -> Nat]
      /\ reset \subseteq Events
  BY DEF MapInv, RaceInv, TypeOK
<1>s. /\ \A w \in Workers : pc[w] \in Delivering => status[ev[w]] # "NONE"
      /\ \A e \in requeue \cup reset : status[e] # "NONE"
  BY DEF MapInv, SentInv
<1>h. \A w \in Workers :
        pc[w] \in Delivering /\ ev[w] \notin reset => status[ev[w]] = "PROCESSING"
  BY DEF MapInv, RaceInv, HoldInv
<1> USE DEF Delivering
<1>m. \A e \in Events : status[e] # "NONE" => e \in Promise!Sent
  BY DEF Promise!Sent
<1>u. \A w \in Workers : pc[w] \in Delivering =>
        ev[w] \in Promise!Unsettled \cup (Promise!Sent \cap reset)
  BY <1>t, <1>s, <1>h DEF Promise!Sent, Promise!Unsettled
<1>1. ASSUME NEW e \in Events, Publish(e) PROVE Promise!Next
  <2>1. Promise!Send(e)
    BY <1>1, <1>t DEF Publish, historyVars, Promise!Send
  <2>2. QED
    BY <1>1, <2>1 DEF Publish, Promise!Next
<1>2. ASSUME NEW w \in Workers, BeginSweep(w) PROVE Promise!Next
  <2>1. PICK S \in SUBSET Events : S = {e \in Events : Stale(e)}
    OBVIOUS
  <2>2. Promise!TakeBack(S)
    BY <1>2, <1>t, <2>1 DEF BeginSweep, Stale, Promise!TakeBack
  <2>3. S \in SUBSET Promise!Sent
    BY <1>m, <2>1 DEF Stale
  <2>4. QED
    BY <2>2, <2>3 DEF Promise!Next
<1>3. ASSUME NEW w \in Workers, ClaimCommit(w) PROVE UNCHANGED Promise!deliveryVars
  <2>1. status[ev[w]] = "PENDING"
    BY <1>3 DEF ClaimCommit, MapInv, RaceInv, LockInv
  <2>2. QED
    BY <1>3, <2>1, <1>t DEF ClaimCommit, historyVars, Promise!deliveryVars
<1>4. ASSUME NEW w \in Workers, PostAcked(w) PROVE Promise!Next
  <2>1. PICK h \in todo[w] : acked' = [acked EXCEPT ![ev[w]] = @ \cup {h}]
    BY <1>4 DEF PostAcked
  <2>2. Promise!Reach(ev[w], h)
    BY <1>4, <2>1 DEF PostAcked, rowVars, Promise!Reach
  <2>3. h \in Hooks /\ ev[w] \in Promise!Sent
    BY <1>4, <1>t, <1>s, <1>m DEF PostAcked
  <2>4. QED
    BY <2>2, <2>3 DEF Promise!Next
<1>5. ASSUME NEW w \in Workers, DeliveryFails(w) PROVE Promise!Next
  <2>1. Promise!Miss(ev[w])
    BY <1>5 DEF DeliveryFails, rowVars, Promise!Miss
  <2>2. ev[w] \in Promise!Sent
    BY <1>5, <1>t, <1>s, <1>m DEF DeliveryFails
  <2>3. QED
    BY <2>1, <2>2 DEF Promise!Next
<1>6. ASSUME NEW w \in Workers, MarkProcessed(w) PROVE Promise!Next
  <2>1. PICK m \in Events : m = ev[w]
    BY <1>t
  <2>2. /\ pc[w] = "okWrite" /\ status' = [status EXCEPT ![m] = "PROCESSED"]
        /\ UNCHANGED <<acked, failures, reset>>
    BY <1>6, <2>1 DEF MarkProcessed, historyVars
  <2>3. Required(m) \subseteq acked[m] /\ status[m] # "NONE"
    BY <1>s, <2>1, <2>2 DEF MapInv, DoneInv, AckInv
  <2>4. Promise!Deliver(m)
    <3>1. /\ {e \in Events : status'[e] = "PROCESSED"}
               = {e \in Events : status[e] = "PROCESSED"} \cup {m}
          /\ {e \in Events : status'[e] = "FAILED"}
               = {e \in Events : status[e] = "FAILED"} \ {m}
          /\ {e \in Events : status'[e] = "NONE"} = {e \in Events : status[e] = "NONE"}
      BY <1>t, <2>2, <2>3
    <3>2. QED
      BY <2>2, <2>3, <3>1 DEF Promise!Deliver
  <2>5. m \in Promise!Unsettled \cup (Promise!Sent \cap reset)
    BY <1>u, <2>1, <2>2
  <2>6. QED
    BY <2>4, <2>5 DEF Promise!Next
<1>7. ASSUME NEW w \in Workers, MarkFailure(w) PROVE Promise!Next
  <2>1. PICK m \in Events : m = ev[w]
    BY <1>t
  <2>2. /\ pc[w] = "failWrite" /\ status' = [status EXCEPT ![m] = AfterFailure(w)]
        /\ UNCHANGED <<acked, failures, reset>>
    BY <1>7, <2>1 DEF MarkFailure, historyVars
  <2>3. m \in Promise!Unsettled \cup (Promise!Sent \cap reset) /\ status[m] # "NONE"
    BY <1>s, <1>u, <2>1, <2>2
  <2>4. CASE AfterFailure(w) = "FAILED"
    <3>1. failures[m] >= Cap
      <4>1. prevRetry[w] + 1 <= failures[m]
        BY <2>1, <2>2 DEF MapInv, FailInv, CountInv
      <4>2. prevRetry[w] \in Nat /\ failures[m] \in Nat /\ Cap \in Nat
        BY <1>t, OutboxAssumption DEF MapInv, FailInv, TypeOK
      <4>3. QED
        BY <2>4, <4>1, <4>2 DEF AfterFailure
    <3>2. /\ {e \in Events : status'[e] = "FAILED"}
               = {e \in Events : status[e] = "FAILED"} \cup {m}
          /\ {e \in Events : status'[e] = "PROCESSED"}
               = {e \in Events : status[e] = "PROCESSED"} \ {m}
          /\ {e \in Events : status'[e] = "NONE"} = {e \in Events : status[e] = "NONE"}
      BY <1>t, <2>2, <2>3, <2>4
    <3>3. Promise!GiveUp(m)
      BY <2>2, <3>1, <3>2 DEF Promise!GiveUp
    <3>4. QED
      BY <2>3, <3>3 DEF Promise!Next
  <2>5. CASE AfterFailure(w) = "PENDING"
    <3>1. /\ {e \in Events : status'[e] = "FAILED"}
               = {e \in Events : status[e] = "FAILED"} \ {m}
          /\ {e \in Events : status'[e] = "PROCESSED"}
               = {e \in Events : status[e] = "PROCESSED"} \ {m}
          /\ {e \in Events : status'[e] = "NONE"} = {e \in Events : status[e] = "NONE"}
      BY <1>t, <2>2, <2>3, <2>5
    <3>2. Promise!Reopen(m)
      BY <2>2, <3>1 DEF Promise!Reopen
    <3>3. QED
      BY <2>3, <3>2 DEF Promise!Next
  <2>6. QED
    BY <2>4, <2>5 DEF AfterFailure
<1>8. ASSUME NEW e \in Events, RequeueWrite(e) PROVE Promise!Next
  <2>1. status[e] # "NONE"
    BY <1>8, <1>s DEF RequeueWrite
  <2>2. Promise!TakeBack({e})
    BY <1>8, <1>t, <2>1 DEF RequeueWrite, Promise!TakeBack
  <2>3. {e} \in SUBSET Promise!Sent
    BY <2>1, <1>m
  <2>4. QED
    BY <2>2, <2>3 DEF Promise!Next
<1>9. ASSUME NEW w \in Workers,
             LoadEntitlements(w) \/ ClaimPick(w) \/ ClaimNone(w) \/ LoadSubs(w)
               \/ MarkRead(w) \/ Abandon(w)
      PROVE  UNCHANGED <<status, acked, failures, reset>>
  BY <1>9, Zenon DEF LoadEntitlements, ClaimPick, ClaimNone, LoadSubs, MarkRead, Abandon,
     rowVars, historyVars
<1>10. ASSUME NEW e \in Events, SetEntitlement(e) \/ RequeueRead(e)
       PROVE  UNCHANGED <<status, acked, failures, reset>>
  BY <1>10 DEF SetEntitlement, RequeueRead, rowVars, historyVars
<1>11. ASSUME (\E s \in Subs : SetSubscription(s)) \/ Tick \/ UNCHANGED vars
       PROVE  UNCHANGED <<status, acked, failures, reset>>
  BY <1>11 DEF SetSubscription, Tick, vars, rowVars, historyVars
<1>12. QED
  BY <1>1, <1>2, <1>3, <1>4, <1>5, <1>6, <1>7, <1>8, <1>9, <1>10, <1>11, Stutters
     DEF Next, WorkerStep

\* The workers' sweeps, the reclaims and the requeues of HR deliver every message at
\* least once, give none up early, and undo a settlement only where somebody called it
\* in question.
THEOREM ImplementsDelivery == Spec => DeliversAtLeastOnce
<1>1. Init => Promise!Init
  BY DEF Init, Promise!Init
<1>2. MapInv /\ TypeOK' /\ [Next]_vars => [Promise!Next]_Promise!deliveryVars
  BY StepMaps
<1>3. QED
  BY <1>1, <1>2, MapInvariant, TypeCorrect, PTL DEF Spec, DeliversAtLeastOnce, Promise!Spec
=============================================================================
