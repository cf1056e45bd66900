------------------------------- MODULE Leave -------------------------------
(***************************************************************************)
(* Leave requests of one tenant: the annual balances they draw on, the     *)
(* approval workflow they pass through, and the administration that may    *)
(* change both while requests are pending (kabipay-leave, the workflow     *)
(* definitions of kabipay-workflow).                                       *)
(*                                                                         *)
(* submit, approve, reject and withdraw are one database transaction each, *)
(* which holds the employee's row FOR UPDATE from its first read on; they  *)
(* are one action each.  Days are counted in halves, a balance is that of  *)
(* the year of the request's first date.  Comp-off leave is in CompOff.    *)
(***************************************************************************)
EXTENDS Integers, FiniteSets, Functions

CONSTANTS
  Employees, Types, Requests, Steps,
  Owner,         \* Owner[r]: the employee who may submit r
  TypeOf,        \* TypeOf[r]: the leave type r asks for
  Periods,       \* the date ranges an employee may ask for
  WorkingDates,  \* dates that are neither weekly off nor holiday
  Sandwich,      \* types that also charge the days off within the range
  HalfDay,       \* types with half_day_allowed
  Approvers,     \* Approvers[s]: employees whom step s lets decide
  InitialSeq,    \* sequence_order of each step at first; 0 when not defined
  Policies,      \* entitlements a leave policy may grant (0 when it has none)
  Corrections,   \* balances HR may write over an existing one
  Deltas,        \* entitlement adjustments HR may make
  MaxEntitled,   \* bound: entitlement reached by adjustments
  MaxEdits,      \* bound: edits of the workflow definition
  MaxSeq,        \* bound: sequence_order of a new step
  Removable,     \* steps HR may delete
  Changeable,    \* types HR may turn paid or unpaid, or delete
  Steady,        \* employees whose employment stays active
  NoStep         \* a cleared current_step_id

Keys == Employees \X Types
Halves == {"NONE", "FIRST_HALF", "SECOND_HALF"}
Period == [from : Nat, to : Nat, half : Halves]
Balance == [entitled : Int, carried : Int, used : Int, pending : Int,
            available : Int]

\* balance_days_from_components, the balance stored with its parts
Components(e, c, u, p) ==
  [entitled |-> e, carried |-> c, used |-> u, pending |-> p,
   available |-> e + c - u - p]

ASSUME LeaveAssumption ==
  /\ Owner \in [Requests -> Employees] /\ TypeOf \in [Requests -> Types]
  /\ Periods \subseteq Period /\ Periods # {} /\ WorkingDates \subseteq Nat
  /\ Sandwich \subseteq Types /\ HalfDay \subseteq Types
  /\ Changeable \subseteq Types
  /\ Approvers \in [Steps -> SUBSET Employees] /\ NoStep \notin Steps
  /\ InitialSeq \in [Steps -> Nat] /\ Removable \subseteq Steps
  /\ \A s, t \in Steps : InitialSeq[s] > 0 /\ InitialSeq[s] = InitialSeq[t] => s = t
  /\ IsFiniteSet(Steps)
  /\ Policies \subseteq Nat
  /\ Corrections \subseteq Balance
  /\ \A c \in Corrections :
       c = Components(c.entitled, c.carried, c.used, c.pending)
  /\ Deltas \subseteq Int /\ MaxEntitled \in Nat
  /\ MaxEdits \in Nat /\ MaxSeq \in Nat /\ Steady \subseteq Employees

VARIABLES
  status,      \* leave_request.status; NONE before it is submitted
  period,      \* its from_date, to_date and half-day session
  charged,     \* its days_requested, in halves
  inst,        \* workflow_instance.status; NONE before there is one
  cur,         \* workflow_instance.current_step_id
  acted,       \* steps with a workflow_action of the request's instance
  seq,         \* workflow_step.sequence_order; 0 for a step that is not defined
  edits,       \* number of edits of the definition
  paid, live,  \* leave_type.is_paid, and not is_deleted
  policy,      \* entitlement of the type's leave_policy
  bal,         \* leave_balance rows ...
  provisioned, \* ... of the employees and types that have one
  employed,    \* employees with an active employment status
  events,      \* leave_request.approved rows in the outbox
  route,       \* history: the steps defined when the request was submitted
  edited,      \* history: requests that were pending during an edit
  held,        \* history: requests whose submission reserved a balance
  disturbed    \* history: balances HR wrote over, or whose type changed
               \* between paid and unpaid with requests pending

requestVars == <<status, period, charged, inst, cur, acted, events>>
flowVars    == <<seq, edits>>
typeVars    == <<paid, live, policy>>
balanceVars == <<bal, provisioned>>
historyVars == <<route, edited, held, disturbed>>
vars == <<requestVars, flowVars, typeVars, balanceVars, employed, historyVars>>

Status == {"NONE", "PENDING", "APPROVED", "REJECTED", "CANCELLED"}
InstanceStatus == {"NONE", "IN_PROGRESS", "COMPLETED", "REJECTED", "CANCELLED"}

\* bug: misspelt
StatusMisspelt == "CANCELED"

StatusCancelled == "CANCELLED"

AnyPeriod == CHOOSE p \in Periods : TRUE
EmptyBalance == Components(0, 0, 0, 0)

TypeOK ==
  /\ status \in [Requests -> Status]
  /\ period \in [Requests -> Periods]
  /\ charged \in [Requests -> Nat]
  /\ inst \in [Requests -> InstanceStatus]
  /\ cur \in [Requests -> Steps \cup {NoStep}]
  /\ acted \in [Requests -> SUBSET Steps]
  /\ seq \in [Steps -> Nat] /\ edits \in Nat
  /\ paid \in [Types -> BOOLEAN] /\ live \in [Types -> BOOLEAN]
  /\ policy \in [Types -> Nat]
  /\ bal \in [Keys -> Balance] /\ provisioned \in SUBSET Keys
  /\ employed \in SUBSET Employees
  /\ events \in [Requests -> Nat]
  /\ route \in [Requests -> SUBSET Steps]
  /\ edited \in SUBSET Requests /\ held \in SUBSET Requests
  /\ disturbed \in SUBSET Keys

Init ==
  /\ status = [r \in Requests |-> "NONE"]
  /\ period = [r \in Requests |-> AnyPeriod]
  /\ charged = [r \in Requests |-> 0]
  /\ inst = [r \in Requests |-> "NONE"]
  /\ cur = [r \in Requests |-> NoStep]
  /\ acted = [r \in Requests |-> {}]
  /\ seq = InitialSeq /\ edits = 0
  /\ paid = [t \in Types |-> TRUE] /\ live = [t \in Types |-> TRUE]
  /\ policy \in [Types -> Policies]
  /\ bal = [k \in Keys |-> EmptyBalance] /\ provisioned = {}
  /\ employed = Employees
  /\ events = [r \in Requests |-> 0]
  /\ route = [r \in Requests |-> {}]
  /\ edited = {} /\ held = {} /\ disturbed = {}

-----------------------------------------------------------------------------
(* What a request asks for *)

Key(r) == <<Owner[r], TypeOf[r]>>
Active(r) == status[r] \in {"PENDING", "APPROVED"}

\* normalize_half_day_request and the checks that open submit_leave_request
ValidPeriod(t, p) ==
  /\ p.from <= p.to
  /\ p.half # "NONE" => p.from = p.to /\ t \in HalfDay

\* bug: half days of one date never conflict
ConflictSessionsIgnored(p, q) ==
  /\ p.from <= q.to /\ q.from <= p.to
  /\ ~ (p.half # "NONE" /\ q.half # "NONE")

\* leave_ranges_conflict: overlapping, unless the two halves of one day
Conflict(p, q) ==
  /\ p.from <= q.to /\ q.from <= p.to
  /\ ~ (p.half # "NONE" /\ q.half # "NONE" /\ p.half # q.half)

\* build_leave_date_units
ChargeableDates(t, p) ==
  IF p.half # "NONE" \/ t \in Sandwich THEN p.from..p.to
  ELSE {d \in p.from..p.to : d \in WorkingDates}

Days(t, p) ==
  IF p.half # "NONE" THEN 1 ELSE 2 * Cardinality(ChargeableDates(t, p))

-----------------------------------------------------------------------------
(* The balance: apply_balance_movement *)

Reserve(b, d) == [b EXCEPT !.pending = @ + d, !.available = @ - d]

\* bug: the approved days are taken from the available ones a second time
UseTwice(b, d) == [b EXCEPT !.used = @ + d, !.pending = @ - d, !.available = @ - d]

\* bug: the approved days stay pending
UseUnreserved(b, d) == [b EXCEPT !.used = @ + d, !.available = @ - d]

Use(b, d) == [b EXCEPT !.used = @ + d, !.pending = @ - d]

\* bug: the released days stay pending
ReleaseNothing(b, d) == [b EXCEPT !.available = @]

Release(b, d) == [b EXCEPT !.pending = @ - d, !.available = @ + d]

\* request_uses_leave_balance reads the type as it is now: a deleted one is an
\* error, one that is unpaid by now skips the movement; a balance that holds
\* less than the request is a conflict.
Settle(r, after) ==
  /\ live[TypeOf[r]]
  /\ paid[TypeOf[r]] => /\ Key(r) \in provisioned
                        /\ bal[Key(r)].pending >= charged[r]
  /\ bal' = IF paid[TypeOf[r]] THEN [bal EXCEPT ![Key(r)] = after] ELSE bal

-----------------------------------------------------------------------------
(* The workflow definition *)

Defined == {s \in Steps : seq[s] > 0}
IsFirst(s) == s \in Defined /\ \A t \in Defined : seq[s] <= seq[t]

\* bug: the steps that were passed are still to come
OtherSteps(s) == {t \in Defined : seq[t] # seq[s]}

Later(s) == {t \in Defined : seq[t] > seq[s]}

IsNext(t, s) == t \in Later(s) /\ \A u \in Later(s) : seq[t] <= seq[u]

\* create_workflow_step: the number is free (unique constraint)
CreateStep(s) ==
  /\ edits < MaxEdits /\ seq[s] = 0
  /\ \E n \in 1..MaxSeq :
       /\ \A t \in Steps : seq[t] # n
       /\ seq' = [seq EXCEPT ![s] = n]
  /\ edits' = edits + 1
  /\ edited' = edited \cup {r \in Requests : status[r] = "PENDING"}
  /\ UNCHANGED <<requestVars, typeVars, balanceVars, employed, route, held,
                 disturbed>>

\* delete_workflow_step: refused once the step has a workflow_action; the
\* foreign key clears current_step_id in the instances that stand at the step
DeleteStep(s) ==
  /\ edits < MaxEdits /\ s \in Removable /\ seq[s] > 0
  /\ \A r \in Requests : s \notin acted[r]
  /\ seq' = [seq EXCEPT ![s] = 0]
  /\ cur' = [r \in Requests |-> IF cur[r] = s THEN NoStep ELSE cur[r]]
  /\ edits' = edits + 1
  /\ edited' = edited \cup {r \in Requests : status[r] = "PENDING"}
  /\ UNCHANGED <<status, period, charged, inst, acted, events, typeVars,
                 balanceVars, employed, route, held, disturbed>>

\* reorder_workflow_steps numbers the steps 1..n in any order
ReorderSteps ==
  /\ edits < MaxEdits
  /\ \E f \in [Steps -> 0..Cardinality(Steps)] :
       /\ \A s \in Steps : f[s] = 0 <=> s \notin Defined
       /\ \A s, t \in Defined : f[s] = f[t] => s = t
       /\ \A s \in Defined : f[s] <= Cardinality(Defined)
       /\ f # seq /\ seq' = f
  /\ edits' = edits + 1
  /\ edited' = edited \cup {r \in Requests : status[r] = "PENDING"}
  /\ UNCHANGED <<requestVars, typeVars, balanceVars, employed, route, held,
                 disturbed>>

-----------------------------------------------------------------------------
(* Requests *)

Free(r, p) ==
  \A q \in Requests : Owner[q] = Owner[r] /\ Active(q) => ~ Conflict(p, period[q])

\* submit_leave_request
Submit(r, p) ==
  LET t == TypeOf[r]  d == Days(t, p) IN
  /\ status[r] = "NONE" /\ Owner[r] \in employed
  /\ ValidPeriod(t, p) /\ Free(r, p) /\ live[t] /\ d > 0
  /\ \E s \in Steps :
       /\ IsFirst(s)
       /\ cur' = [cur EXCEPT ![r] = s]
  /\ paid[t] => Key(r) \in provisioned /\ bal[Key(r)].available >= d
  /\ bal' = IF paid[t] THEN [bal EXCEPT ![Key(r)] = Reserve(@, d)] ELSE bal
  /\ status' = [status EXCEPT ![r] = "PENDING"]
  /\ period' = [period EXCEPT ![r] = p]
  /\ charged' = [charged EXCEPT ![r] = d]
  /\ inst' = [inst EXCEPT ![r] = "IN_PROGRESS"]
  /\ route' = [route EXCEPT ![r] = Defined]
  /\ held' = IF paid[t] THEN held \cup {r} ELSE held
  /\ UNCHANGED <<acted, flowVars, typeVars, provisioned, employed, events,
                 edited, disturbed>>

\* lock_and_validate_decision_employees, the PENDING row of another employee,
\* lock_current_leave_workflow with the step the approver was shown, and
\* assert_workflow_step_actor
MayDecide(a, r, s) ==
  /\ status[r] = "PENDING" /\ Owner[r] # a
  /\ a \in employed /\ Owner[r] \in employed
  /\ inst[r] = "IN_PROGRESS" /\ cur[r] = s /\ s \in Defined
  /\ a \in Approvers[s]

\* approve_leave_request with a step to come: the instance moves on to it
ApproveStep(a, r, s) ==
  /\ MayDecide(a, r, s)
  /\ \E t \in Steps : IsNext(t, s) /\ cur' = [cur EXCEPT ![r] = t]
  /\ acted' = [acted EXCEPT ![r] = @ \cup {s}]
  /\ UNCHANGED <<status, period, charged, inst, events, flowVars, typeVars,
                 balanceVars, employed, historyVars>>

\* bug: a step that follows is not looked for
ApproveAtOnce(a, r, s) ==
  /\ MayDecide(a, r, s)
  /\ Settle(r, Use(bal[Key(r)], charged[r]))
  /\ status' = [status EXCEPT ![r] = "APPROVED"]
  /\ inst' = [inst EXCEPT ![r] = "COMPLETED"]
  /\ cur' = [cur EXCEPT ![r] = NoStep]
  /\ acted' = [acted EXCEPT ![r] = @ \cup {s}]
  /\ events' = [events EXCEPT ![r] = @ + 1]
  /\ UNCHANGED <<period, charged, flowVars, typeVars, provisioned, employed,
                 historyVars>>

\* approve_leave_request at the last step, with finalize_leave_approval
ApproveFinal(a, r, s) ==
  /\ MayDecide(a, r, s) /\ Later(s) = {}
  /\ Settle(r, Use(bal[Key(r)], charged[r]))
  /\ status' = [status EXCEPT ![r] = "APPROVED"]
  /\ inst' = [inst EXCEPT ![r] = "COMPLETED"]
  /\ cur' = [cur EXCEPT ![r] = NoStep]
  /\ acted' = [acted EXCEPT ![r] = @ \cup {s}]
  /\ events' = [events EXCEPT ![r] = @ + 1]
  /\ UNCHANGED <<period, charged, flowVars, typeVars, provisioned, employed,
                 historyVars>>

\* reject_leave_request, at any step
Reject(a, r, s) ==
  /\ MayDecide(a, r, s)
  /\ Settle(r, Release(bal[Key(r)], charged[r]))
  /\ status' = [status EXCEPT ![r] = "REJECTED"]
  /\ inst' = [inst EXCEPT ![r] = "REJECTED"]
  /\ cur' = [cur EXCEPT ![r] = NoStep]
  /\ acted' = [acted EXCEPT ![r] = @ \cup {s}]
  /\ UNCHANGED <<period, charged, events, flowVars, typeVars, provisioned,
                 employed, historyVars>>

\* bug: the workflow instance is left open
WithdrawOnly(r) ==
  /\ status[r] = "PENDING" /\ Owner[r] \in employed /\ inst[r] = "IN_PROGRESS"
  /\ Settle(r, Release(bal[Key(r)], charged[r]))
  /\ status' = [status EXCEPT ![r] = "CANCELLED"]
  /\ UNCHANGED <<period, charged, inst, cur, acted, events, flowVars, typeVars,
                 provisioned, employed, historyVars>>

\* cancel_leave_request, by the employee, wherever the instance stands
Withdraw(r) ==
  /\ status[r] = "PENDING" /\ Owner[r] \in employed /\ inst[r] = "IN_PROGRESS"
  /\ Settle(r, Release(bal[Key(r)], charged[r]))
  /\ status' = [status EXCEPT ![r] = StatusCancelled]
  /\ inst' = [inst EXCEPT ![r] = "CANCELLED"]
  /\ cur' = [cur EXCEPT ![r] = NoStep]
  /\ UNCHANGED <<period, charged, acted, events, flowVars, typeVars,
                 provisioned, employed, historyVars>>

-----------------------------------------------------------------------------
(* Balances and types, by HR *)

nonBalanceVars == <<requestVars, flowVars, employed, route, edited, held>>

\* upsert_leave_balance writes every component
UpsertBalance(k, c) ==
  /\ c \in Corrections /\ c.available >= 0 /\ live[k[2]]
  /\ bal' = [bal EXCEPT ![k] = c]
  /\ provisioned' = provisioned \cup {k}
  /\ disturbed' = disturbed \cup {k}
  /\ UNCHANGED <<typeVars, nonBalanceVars>>

\* adjust_leave_balance_entitlement
AdjustEntitlement(k, d) ==
  LET b == bal[k]
      c == Components(b.entitled + d, b.carried, b.used, b.pending) IN
  /\ k \in provisioned /\ d \in Deltas
  /\ c.entitled \in 0..MaxEntitled /\ c.available >= 0
  /\ bal' = [bal EXCEPT ![k] = c]
  /\ UNCHANGED <<provisioned, disturbed, typeVars, nonBalanceVars>>

Provisioned(k) ==
  Components(policy[k[2]], bal[k].carried, bal[k].used, bal[k].pending)

\* provision_leave_balances_from_policies resets every entitlement to the
\* policy's; one that would go below zero rolls all of them back
ProvisionBalances ==
  LET K == {k \in Keys : k[1] \in employed /\ policy[k[2]] > 0} IN
  /\ \A k \in K : Provisioned(k).available >= 0
  /\ bal' = [k \in Keys |-> IF k \in K THEN Provisioned(k) ELSE bal[k]]
  /\ provisioned' = provisioned \cup K
  /\ UNCHANGED <<disturbed, typeVars, nonBalanceVars>>

\* upsert_leave_policy and delete_leave_policy
SetPolicy(t, n) ==
  /\ n > 0 => live[t]
  /\ policy' = [policy EXCEPT ![t] = n]
  /\ UNCHANGED <<paid, live, balanceVars, disturbed, nonBalanceVars>>

\* upsert_leave_type turns a type paid or unpaid
FlipPaid(t) ==
  /\ t \in Changeable
  /\ paid' = [paid EXCEPT ![t] = ~ @]
  /\ disturbed' = disturbed \cup
       {Key(r) : r \in {q \in Requests : TypeOf[q] = t /\ status[q] = "PENDING"}}
  /\ UNCHANGED <<live, policy, balanceVars, nonBalanceVars>>

\* soft_delete_leave_type
DeleteType(t) ==
  /\ t \in Changeable /\ live[t]
  /\ live' = [live EXCEPT ![t] = FALSE]
  /\ UNCHANGED <<paid, policy, balanceVars, disturbed, nonBalanceVars>>

\* The employment status changes (offboarding, or an HR correction)
SetEmployment(e) ==
  /\ e \in Employees \ Steady
  /\ employed' = IF e \in employed THEN employed \ {e} ELSE employed \cup {e}
  /\ UNCHANGED <<requestVars, flowVars, typeVars, balanceVars, historyVars>>

Decide(r) ==
  \E a \in Employees, s \in Steps :
    ApproveStep(a, r, s) \/ ApproveFinal(a, r, s) \/ Reject(a, r, s)

Next ==
  \/ \E r \in Requests : \/ \E p \in Periods : Submit(r, p)
                         \/ Decide(r) \/ Withdraw(r)
  \/ \E s \in Steps : CreateStep(s) \/ DeleteStep(s)
  \/ ReorderSteps
  \/ \E k \in Keys : \/ \E c \in Corrections : UpsertBalance(k, c)
                     \/ \E d \in Deltas : AdjustEntitlement(k, d)
  \/ ProvisionBalances
  \/ \E t \in Types : (\E n \in Policies : SetPolicy(t, n)) \/ FlipPaid(t) \/ DeleteType(t)
  \/ \E e \in Employees : SetEmployment(e)

Spec == Init /\ [][Next]_vars

\* An approver who can decide a request does so in the end.
LeaveFairness == \A r \in Requests : WF_vars(Decide(r))
FairSpec == Spec /\ LeaveFairness

-----------------------------------------------------------------------------
(* Properties *)

\* The half days a period covers
Slots(p) == {x \in (p.from..p.to) \X {"FIRST_HALF", "SECOND_HALF"} :
               p.half \in {"NONE", x[2]}}

\* Two requests of one employee that are pending or approved never share half a
\* day, in whatever order they were submitted, decided and withdrawn
\* (leave_ranges_conflict under the employee's lock).
NoHalfDayTwice ==
  \A q, r \in Requests :
    q # r /\ Owner[q] = Owner[r] /\ Active(q) /\ Active(r)
      => Slots(period[q]) \cap Slots(period[r]) = {}

\* The stored balance_days is what entitled, carried, used and pending leave, and
\* is never negative, through movements, corrections and provisioning.
BalanceAdds ==
  \A k \in Keys :
    /\ bal[k].available = bal[k].entitled + bal[k].carried - bal[k].used - bal[k].pending
    /\ bal[k].available >= 0

ChargedTo(k, S) ==
  SumFunctionOnSet(charged, {r \in held : Key(r) = k /\ status[r] \in S})

\* Reserve, Approve and Release pair up: pending days are those of the pending
\* requests and used days those of the approved ones, unless HR wrote over the
\* balance or changed the type between submission and decision.
LedgerMatchesRequests ==
  \A k \in Keys \ disturbed :
    /\ bal[k].pending = ChargedTo(k, {"PENDING"})
    /\ bal[k].used = ChargedTo(k, {"APPROVED"})

\* A request and its workflow instance end together, an instance in progress stands
\* at a step that exists unless the definition was edited under it, and exactly the
\* approved requests have an event in the outbox, one each (finalize_leave_approval).
WorkflowAgrees ==
  \A r \in Requests :
    /\ status[r] = "PENDING" <=> inst[r] = "IN_PROGRESS"
    /\ status[r] = "APPROVED" <=> inst[r] = "COMPLETED"
    /\ status[r] = "PENDING" /\ r \notin edited => cur[r] \in Defined
    /\ status[r] # "PENDING" => cur[r] = NoStep
    /\ events[r] = IF status[r] = "APPROVED" THEN 1 ELSE 0

\* A leave is approved only after every step that was defined when it was
\* submitted, unless the definition was edited while it was pending.
ApprovedByEveryStep ==
  \A r \in Requests \ edited : status[r] = "APPROVED" => acted[r] = route[r]

\* The balances as reservations see them: what r takes of k, and the counters of each k
Share(r, k) == IF r \in held /\ k = Key(r) THEN charged[r] ELSE 0
Shares == [r \in Requests |-> [k \in Keys |-> Share(r, k)]]
PendingDays == [k \in Keys |-> bal[k].pending]
UsedDays == [k \in Keys |-> bal[k].used]
GrantedDays == [k \in Keys |-> bal[k].entitled + bal[k].carried]

Books == INSTANCE Reservations WITH
  Accounts <- Keys, stage <- status, share <- Shares, reserved <- PendingDays,
  spent <- UsedDays, limit <- GrantedDays, overruled <- disturbed

\* Submission, decision and withdrawal move on the balance what the submission
\* charged, and nothing else moves it, except where HR wrote it or turned the type
\* paid or unpaid: the leave requests implement reservations.
KeepsBooks == Books!Spec

\* While steps are added and reordered, but none is deleted, a pending request of
\* an active employee is decided in the end.
EventuallyDecided ==
  \A r \in Requests : status[r] = "PENDING" ~> status[r] # "PENDING"

\* What workflow_current_step says of a cleared current_step_id ("We recover by
\* picking the first step"): the instance gets a step again, or is decided.
RecoversFromDeletedStep ==
  \A r \in Requests :
    status[r] = "PENDING" /\ cur[r] = NoStep
      ~> status[r] # "PENDING" \/ cur[r] # NoStep

\* What reject_leave_request says ("Reject a PENDING request, release the balance
\* hold"): days that the submission reserved are no longer pending.
RejectReleasesHold ==
  [][\A r \in held : status[r] = "PENDING" /\ status'[r] = "REJECTED"
       => bal'[Key(r)].pending = bal[Key(r)].pending - charged[r]]_vars

=============================================================================
