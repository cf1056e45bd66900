---------------------------- MODULE Offboarding ----------------------------
(***************************************************************************)
(* Separations of the employee whose accounts Sessions models: filed and     *)
(* decided by HR (separation_service.rs), carried out when the last working  *)
(* day has passed by the approval itself or by the worker's sweep            *)
(* (due_offboarding.rs).  An offboarding is one transaction; the sweep reads *)
(* its list before, and gives up at the first one that fails.                *)
(***************************************************************************)
EXTENDS Sessions

CONSTANTS
  Separations,
  Sweepers,     \* worker processes
  BatchSize,    \* DEFAULT_BATCH_SIZE
  MaxFaults     \* bound: transactions of a sweep that fail

ASSUME OffboardingAssumption ==
  IsFiniteSet(Separations) /\ BatchSize \in Nat \ {0} /\ MaxFaults \in Nat

VARIABLES
  separation, \* separation.status; NONE before it is filed
  due,        \* the separations whose last_working_date the business date has reached
  dueOrder,   \* per separation that is due, its place by last_working_date, id
  offboarded, \* those with offboarded_at set
  sweepRest,  \* per worker: the rest of its list
  faults,     \* number of failed transactions
  leavings    \* history: employee.offboarded rows written, per separation

separationVars == <<separation, due, dueOrder, offboarded, leavings>>
offVars == <<sessVars, separationVars, sweepRest, faults>>

OffTypeOK ==
  /\ SessTypeOK
  /\ separation \in [Separations -> {"NONE", "PENDING", "APPROVED", "REJECTED"}]
  /\ due \in SUBSET Separations /\ dueOrder \in [Separations -> Nat]
  /\ offboarded \in SUBSET Separations
  /\ sweepRest \in [Sweepers -> SUBSET Separations]
  /\ faults \in 0..MaxFaults /\ leavings \in [Separations -> Nat]

OffInit ==
  /\ SessInit
  /\ separation = [s \in Separations |-> "NONE"] /\ due = {}
  /\ dueOrder = [s \in Separations |-> 0]
  /\ offboarded = {} /\ sweepRest = [w \in Sweepers |-> {}] /\ faults = 0
  /\ leavings = [s \in Separations |-> 0]

LeavesSessions == UNCHANGED sessVars

\* insert_separation
File(s) ==
  /\ separation[s] = "NONE"
  /\ separation' = [separation EXCEPT ![s] = "PENDING"]
  /\ UNCHANGED <<due, dueOrder, offboarded, leavings, sweepRest, faults>> /\ LeavesSessions

\* the business date reaches the last working date
LastDayComes(s) ==
  /\ s \notin due
  /\ due' = due \cup {s} /\ dueOrder' = [dueOrder EXCEPT ![s] = Cardinality(due)]
  /\ UNCHANGED <<separation, offboarded, leavings, sweepRest, faults>> /\ LeavesSessions

\* bug: the update looks at offboarded_at no more
GateWithoutFlag(s, status) == status = "APPROVED" /\ s \in due

\* the conditions of the UPDATE that lets one caller through
Gate(s, status) == status = "APPROVED" /\ s \in due /\ s \notin offboarded

\* offboard_approved_separation_in_transaction
Offboard(s) ==
  /\ offboarded' = offboarded \cup {s}
  /\ leavings' = [leavings EXCEPT ![s] = @ + 1]
  /\ employment' = "INACTIVE"
  /\ IF linked = NoUser THEN UNCHANGED <<account, sessionVars>>
     ELSE /\ account' = [account EXCEPT ![linked].active = FALSE]
          /\ Revoke(linked)
  /\ UNCHANGED <<linked, access, changes>>

\* resolve_separation with approval (the settlement and clearance it creates are those of
\* Settlement); its business date was drawn before the transaction
Approve(s) ==
  /\ separation[s] = "PENDING"
  /\ separation' = [separation EXCEPT ![s] = "APPROVED"]
  /\ \/ Gate(s, "APPROVED") /\ Offboard(s)
     \/ UNCHANGED <<offboarded, leavings>> /\ LeavesSessions
  /\ UNCHANGED <<due, dueOrder, sweepRest, faults>>

RejectSeparation(s) ==
  /\ separation[s] = "PENDING"
  /\ separation' = [separation EXCEPT ![s] = "REJECTED"]
  /\ UNCHANGED <<due, dueOrder, offboarded, leavings, sweepRest, faults>> /\ LeavesSessions

\* what the list takes of rows: at most BatchSize of them, the earliest first
Batch(rows) ==
  {list \in SUBSET rows :
     /\ Cardinality(list) = IF Cardinality(rows) < BatchSize THEN Cardinality(rows) ELSE BatchSize
     /\ \A s \in list, t \in rows \ list : dueOrder[s] < dueOrder[t]}

\* bug: the list has what is offboarded already
ScanAgain(w) ==
  /\ sweepRest[w] = {} /\ \E s \in Separations : Gate(s, separation[s])
  /\ \E list \in Batch({s \in due : separation[s] = "APPROVED"}) :
       sweepRest' = [sweepRest EXCEPT ![w] = list]
  /\ UNCHANGED <<separationVars, faults>> /\ LeavesSessions

\* process_due_separations: the list
Scan(w) ==
  /\ sweepRest[w] = {} /\ \E s \in Separations : Gate(s, separation[s])
  /\ \E list \in Batch({s \in Separations : Gate(s, separation[s])}) :
       sweepRest' = [sweepRest EXCEPT ![w] = list]
  /\ UNCHANGED <<separationVars, faults>> /\ LeavesSessions

\* its next transaction
SweepOne(w) ==
  /\ \E s \in sweepRest[w] :
       /\ \A t \in sweepRest[w] : dueOrder[s] <= dueOrder[t]
       /\ sweepRest' = [sweepRest EXCEPT ![w] = @ \ {s}]
       /\ \/ Gate(s, separation[s]) /\ Offboard(s)
          \/ ~ Gate(s, separation[s]) /\ UNCHANGED <<offboarded, leavings>> /\ LeavesSessions
  /\ UNCHANGED <<separation, due, dueOrder, faults>>

\* an error ends the sweep, as the death of the worker does
SweepFails(w) ==
  /\ sweepRest[w] # {} /\ faults < MaxFaults
  /\ sweepRest' = [sweepRest EXCEPT ![w] = {}]
  /\ faults' = faults + 1
  /\ UNCHANGED separationVars /\ LeavesSessions

Sweeping == \E w \in Sweepers : Scan(w) \/ SweepOne(w)

OffNext ==
  \/ SessNext /\ UNCHANGED <<separationVars, sweepRest, faults>>
  \/ \E s \in Separations : File(s) \/ LastDayComes(s) \/ Approve(s) \/ RejectSeparation(s)
  \/ Sweeping
  \/ \E w \in Sweepers : SweepFails(w)

OffFairness == WF_offVars(Sweeping)

OffSpec == OffInit /\ [][OffNext]_offVars /\ OffFairness

-----------------------------------------------------------------------------
(* Properties *)

\* Two workers and an approval may all come for one separation: it is carried out
\* once, with one event, and only if it was approved and is due.
OffboardedOnce ==
  /\ OffTypeOK
  /\ \A s \in Separations :
     /\ leavings[s] = IF s \in offboarded THEN 1 ELSE 0
     /\ s \in offboarded => separation[s] = "APPROVED" /\ s \in due

\* Every separation that is approved and due is carried out in the end, although a
\* failure ends the sweep of all that follow it (process_due_separations).
DueOffboarded ==
  \A s \in Separations :
     (separation[s] = "APPROVED" /\ s \in due) ~> s \in offboarded
=============================================================================
