------------------------------ MODULE CompOff ------------------------------
(***************************************************************************)
(* Compensatory leave of one employee (kabipay-leave, comp_off.rs): a claim *)
(* for a day that was worked, once approved, becomes a credit that expires; *)
(* a leave request reserves units of credits and uses them when approved.   *)
(*                                                                          *)
(* Every operation is one transaction that holds the employee's row from    *)
(* its first write on, and is one action.  The business date it works with  *)
(* was read before: it may be Lag days old.  Units are counted in halves.   *)
(* The approval workflow of the leave request is in Leave.                  *)
(***************************************************************************)
EXTENDS Integers, FiniteSets, Functions

CONSTANTS
  Claims, Requests,
  Want,      \* Want[r]: units of leave on each date of r that is charged
  Clash,     \* pairs of requests that leave_ranges_conflict keeps apart
  Policies,  \* what HR may configure; a limit left empty is one never reached
  Worked,    \* dates that may be claimed
  MaxDay,    \* bound: last business date
  Lag,       \* how many days the date of a call may be behind
  Month, Year, \* of a business date
  NoClaim

Dates == 1..MaxDay
Policy == [enabled : BOOLEAN, deadline : Nat, validity : Nat, monthly : Nat,
           yearly : Nat, unused : Nat, cancel : BOOLEAN]
AllocationStatus == {"RESERVED", "USED", "RELEASED", "EXPIRED"}

ASSUME CompOffAssumption ==
  /\ IsFiniteSet(Claims) /\ NoClaim \notin Claims
  /\ MaxDay \in Nat \ {0} /\ Lag \in Nat /\ Worked \subseteq Dates
  /\ \A r \in Requests : /\ DOMAIN Want[r] # {} /\ IsFiniteSet(DOMAIN Want[r])
                         /\ DOMAIN Want[r] \subseteq Nat
                         /\ Want[r] \in [DOMAIN Want[r] -> {1, 2}]
  /\ Clash \subseteq Requests \X Requests
  /\ Policies \subseteq Policy /\ Policies # {}
  /\ Month \in [Dates -> Nat] /\ Year \in [Dates -> Nat]

VARIABLES
  today,     \* the tenant's business date
  policy,    \* the policy that select_policy finds for the employee
  cstatus,   \* comp_off_claim.status; NONE before it is submitted
  worked,    \* its worked_date and units
  snap,      \* the policy as the claim stored it
  credited,  \* comp_off_credit: approval_business_date (0 for none), expires_at
  expires,
  reserved,  \* its reserved_units and used_units
  used,
  rstatus,   \* leave_request.status
  allocs,    \* comp_off_allocation rows
  last,      \* history: the claim approved last
  lateCancel \* history: a leave was cancelled on or after its first date

claimVars  == <<cstatus, worked, snap>>
creditVars == <<credited, expires, reserved, used>>
leaveVars  == <<rstatus, allocs>>
vars == <<today, policy, claimVars, creditVars, leaveVars, last, lateCancel>>

Status == {"NONE", "PENDING", "APPROVED", "REJECTED", "CANCELLED"}
Open == {"PENDING", "APPROVED"}
Allocation == [credit : Claims, request : Requests, date : Nat, units : Nat,
               status : AllocationStatus]

Released == "RELEASED"

TypeOK ==
  /\ today \in Dates /\ policy \in Policies
  /\ cstatus \in [Claims -> Status]
  /\ worked \in [Claims -> [date : Dates, units : {1, 2}]]
  /\ snap \in [Claims -> Policies]
  /\ credited \in [Claims -> Nat] /\ expires \in [Claims -> Nat]
  /\ reserved \in [Claims -> Int] /\ used \in [Claims -> Int]
  /\ rstatus \in [Requests -> Status]
  /\ allocs \in SUBSET Allocation
  /\ last \in Claims \cup {NoClaim} /\ lateCancel \in BOOLEAN

Init ==
  /\ today = 1 /\ policy \in Policies
  /\ cstatus = [c \in Claims |-> "NONE"]
  /\ worked = [c \in Claims |-> [date |-> 1, units |-> 1]]
  /\ snap = [c \in Claims |-> policy]
  /\ credited = [c \in Claims |-> 0] /\ expires = [c \in Claims |-> 0]
  /\ reserved = [c \in Claims |-> 0] /\ used = [c \in Claims |-> 0]
  /\ rstatus = [r \in Requests |-> "NONE"] /\ allocs = {}
  /\ last = NoClaim /\ lateCancel = FALSE

SumOf(f(_), S) == SumFunctionOnSet([x \in S |-> f(x)], S)
UnitsOf(S) == SumOf(LAMBDA a : a.units, S)
Earned(c) == worked[c].units

CallDates == {d \in Dates : today - Lag <= d /\ d <= today}
Credits == {c \in Claims : credited[c] > 0}
Live(d) == {c \in Credits : expires[c] > d}
Rows(c, S) == {a \in allocs : a.credit = c /\ a.status \in S}
RowsFor(r, s) == {a \in allocs : a.request = r /\ a.status = s}

-----------------------------------------------------------------------------
(* Claims *)

\* bug: claims that are not decided yet do not count
ClaimedApproved(w) ==
  SumOf(Earned, {c \in Claims : cstatus[c] = "APPROVED" /\ worked[c].date = w})

Claimed(w) ==
  SumOf(Earned, {c \in Claims : cstatus[c] \in Open /\ worked[c].date = w})

\* submit_claim; the claim keeps a copy of the policy
SubmitClaim(c, d, w, u) ==
  /\ cstatus[c] = "NONE" /\ policy.enabled
  /\ w <= d /\ d - w <= policy.deadline
  /\ Claimed(w) + u <= 2
  /\ cstatus' = [cstatus EXCEPT ![c] = "PENDING"]
  /\ worked' = [worked EXCEPT ![c] = [date |-> w, units |-> u]]
  /\ snap' = [snap EXCEPT ![c] = policy]
  /\ UNCHANGED <<today, policy, creditVars, leaveVars, last, lateCancel>>

\* bug: approved leave that lies ahead is taken for spent
UnusedWithoutFuture(d) == SumOf(LAMBDA c : Earned(c) - used[c], Live(d))

\* unused_with_future_approved, over the credits that have not expired
Unused(d) ==
  SumOf(LAMBDA c : Earned(c) - used[c], Live(d))
    + UnitsOf({a \in allocs : a.credit \in Live(d) /\ a.status = "USED" /\ a.date > d})

\* validate_earning_limits, with the limits that the claim stored
WithinLimits(c, d) ==
  /\ SumOf(Earned, {b \in Credits : Month[credited[b]] = Month[d] /\ Year[credited[b]] = Year[d]})
       + Earned(c) <= snap[c].monthly
  /\ SumOf(Earned, {b \in Credits : Year[credited[b]] = Year[d]}) + Earned(c) <= snap[c].yearly
  /\ Unused(d) + Earned(c) <= snap[c].unused

\* decide_claim, approving
ApproveClaim(c, d) ==
  /\ cstatus[c] = "PENDING" /\ WithinLimits(c, d)
  /\ cstatus' = [cstatus EXCEPT ![c] = "APPROVED"]
  /\ credited' = [credited EXCEPT ![c] = d]
  /\ expires' = [expires EXCEPT ![c] = d + snap[c].validity]
  /\ last' = c
  /\ UNCHANGED <<today, policy, worked, snap, reserved, used, leaveVars, lateCancel>>

\* decide_claim, rejecting, and cancel_claim
CloseClaim(c, s) ==
  /\ cstatus[c] = "PENDING"
  /\ cstatus' = [cstatus EXCEPT ![c] = s]
  /\ UNCHANGED <<today, policy, worked, snap, creditVars, leaveVars, last, lateCancel>>

-----------------------------------------------------------------------------
(* Leave *)

Least(m, n) == IF m <= n THEN m ELSE n
Available(c) == Earned(c) - reserved[c] - used[c]

\* credits by expiry; the database orders those that expire together as it likes
ByExpiry(S) ==
  {rank \in [S -> 1..Cardinality(S)] :
     \A b, c \in S : /\ rank[b] = rank[c] => b = c
                     /\ expires[b] < expires[c] => rank[b] < rank[c]}

Covers(c, x) == x < expires[c]

\* one date: credit by credit that covers it, as much as is left of the credit
\* and still wanted
TakenOn(left, x, want, rank) ==
  LET open == {c \in DOMAIN left : Covers(c, x) /\ left[c] > 0}
      before(c) == SumFunctionOnSet(left, {b \in open : rank[b] < rank[c]})
  IN [c \in DOMAIN left |->
        IF c \in open /\ before(c) < want THEN Least(left[c], want - before(c)) ELSE 0]

\* what the dates before x leave of each credit
LeftBefore(r, take, S, x) ==
  [c \in S |-> Available(c) - SumOf(LAMBDA y : take[y][c], {y \in DOMAIN Want[r] : y < x})]

\* plan_allocations, date by date
Plan(r, S, rank) ==
  LET take[x \in DOMAIN Want[r]] == TakenOn(LeftBefore(r, take, S, x), x, Want[r][x], rank)
  IN take

Reservation(r, take, S) ==
  {[credit |-> c, request |-> r, date |-> x, units |-> take[x][c],
    status |-> "RESERVED"] : c \in S, x \in DOMAIN Want[r]}

\* submit_leave_request with reserve_for_leave
SubmitLeave(r, d) ==
  LET S == Live(d) IN
  /\ rstatus[r] = "NONE" /\ policy.enabled
  /\ \A q \in Requests : <<q, r>> \in Clash => rstatus[q] \notin Open
  /\ \E rank \in ByExpiry(S) :
       LET take == Plan(r, S, rank)
           rows == {a \in Reservation(r, take, S) : a.units > 0} IN
       /\ \A x \in DOMAIN Want[r] : SumOf(LAMBDA c : take[x][c], S) = Want[r][x]
       /\ reserved' = [c \in Claims |-> reserved[c] + UnitsOf({a \in rows : a.credit = c})]
       /\ allocs' = allocs \cup rows
  /\ rstatus' = [rstatus EXCEPT ![r] = "PENDING"]
  /\ UNCHANGED <<today, policy, claimVars, credited, expires, used, last, lateCancel>>

\* released_allocation_status
ReleasedOn(c, d) == IF expires[c] <= d THEN "EXPIRED" ELSE Released

\* the rows of S written with the status that s gives for their credit
Rewritten(S, s(_)) == (allocs \ S) \cup {[a EXCEPT !.status = s(a.credit)] : a \in S}

\* bug: approved units stay reserved
UseOnly(r, s) ==
  /\ rstatus' = [rstatus EXCEPT ![r] = s]
  /\ UNCHANGED reserved
  /\ used' = [c \in Claims |->
                used[c] + UnitsOf({a \in RowsFor(r, "RESERVED") : a.credit = c})]
  /\ allocs' = Rewritten(RowsFor(r, "RESERVED"), LAMBDA c : "USED")

\* finalize_leave_allocations of an approval
UseReserved(r, s) ==
  /\ rstatus' = [rstatus EXCEPT ![r] = s]
  /\ reserved' = [c \in Claims |->
                    reserved[c] - UnitsOf({a \in RowsFor(r, "RESERVED") : a.credit = c})]
  /\ used' = [c \in Claims |->
                used[c] + UnitsOf({a \in RowsFor(r, "RESERVED") : a.credit = c})]
  /\ allocs' = Rewritten(RowsFor(r, "RESERVED"), LAMBDA c : "USED")

\* bug: the rows of the request stay reserved
ReleaseUnitsOnly(r, s, d) ==
  /\ rstatus' = [rstatus EXCEPT ![r] = s]
  /\ reserved' = [c \in Claims |->
                    reserved[c] - UnitsOf({a \in RowsFor(r, "RESERVED") : a.credit = c})]
  /\ UNCHANGED <<used, allocs>>

\* finalize_leave_allocations of a rejection or a withdrawal
ReleaseReserved(r, s, d) ==
  /\ rstatus' = [rstatus EXCEPT ![r] = s]
  /\ reserved' = [c \in Claims |->
                    reserved[c] - UnitsOf({a \in RowsFor(r, "RESERVED") : a.credit = c})]
  /\ used' = used
  /\ allocs' = Rewritten(RowsFor(r, "RESERVED"), LAMBDA c : ReleasedOn(c, d))

ApproveLeave(r) ==
  /\ rstatus[r] = "PENDING"
  /\ UseReserved(r, "APPROVED")
  /\ UNCHANGED <<today, policy, claimVars, credited, expires, last, lateCancel>>

\* reject_leave_request and cancel_leave_request
CloseLeave(r, s, d) ==
  /\ rstatus[r] = "PENDING"
  /\ ReleaseReserved(r, s, d)
  /\ UNCHANGED <<today, policy, claimVars, credited, expires, last, lateCancel>>

\* cancel_approved_comp_off_leave
CancelApproved(r, d) ==
  LET S == RowsFor(r, "USED") IN
  /\ rstatus[r] = "APPROVED" /\ policy.enabled /\ policy.cancel
  /\ \A x \in DOMAIN Want[r] : x > d
  /\ \A a \in S : a.date > d
  /\ rstatus' = [rstatus EXCEPT ![r] = "CANCELLED"]
  /\ used' = [c \in Claims |-> used[c] - UnitsOf({a \in S : a.credit = c})]
  /\ allocs' = Rewritten(S, LAMBDA c : ReleasedOn(c, d))
  /\ lateCancel' = (lateCancel \/ \E x \in DOMAIN Want[r] : x <= today)
  /\ UNCHANGED <<today, policy, claimVars, credited, expires, reserved, last>>

-----------------------------------------------------------------------------
\* upsert_policy
SetPolicy(p) ==
  /\ policy' = p
  /\ UNCHANGED <<today, claimVars, creditVars, leaveVars, last, lateCancel>>

\* midnight in the tenant's time zone
NextDay ==
  /\ today < MaxDay
  /\ today' = today + 1
  /\ UNCHANGED <<policy, claimVars, creditVars, leaveVars, last, lateCancel>>

Next ==
  \/ \E c \in Claims, d \in CallDates :
       \/ \E w \in Worked, u \in {1, 2} : SubmitClaim(c, d, w, u)
       \/ ApproveClaim(c, d)
  \/ \E c \in Claims, s \in {"REJECTED", "CANCELLED"} : CloseClaim(c, s)
  \/ \E r \in Requests, d \in CallDates :
       \/ SubmitLeave(r, d)
       \/ \E s \in {"REJECTED", "CANCELLED"} : CloseLeave(r, s, d)
       \/ CancelApproved(r, d)
  \/ \E r \in Requests : ApproveLeave(r)
  \/ \E p \in Policies : SetPolicy(p)
  \/ NextDay

Spec == Init /\ [][Next]_vars

-----------------------------------------------------------------------------
(* Properties *)

\* reserved_units and used_units of a credit are what its RESERVED and USED
\* allocations add up to, and together never more than was earned, through
\* reservation, approval, rejection, withdrawal and late cancellation.
CreditsAccount ==
  /\ TypeOK
  /\ \A c \in Claims :
    /\ reserved[c] = UnitsOf(Rows(c, {"RESERVED"}))
    /\ used[c] = UnitsOf(Rows(c, {"USED"}))
    /\ c \in Credits => reserved[c] + used[c] <= Earned(c)
    /\ c \notin Credits => reserved[c] + used[c] = 0

\* A request that is pending or approved holds exactly the units it asked for on
\* every one of its dates, all of them reserved, or all of them used; one that
\* was rejected, withdrawn or cancelled holds none.  No date is covered by a credit
\* that has expired by then, whatever date the call believed it was.
LeaveIsCovered ==
  /\ \A r \in Requests :
       LET held(s, x) == UnitsOf({a \in RowsFor(r, s) : a.date = x}) IN
       \A x \in DOMAIN Want[r] :
         /\ held("RESERVED", x) = IF rstatus[r] = "PENDING" THEN Want[r][x] ELSE 0
         /\ held("USED", x) = IF rstatus[r] = "APPROVED" THEN Want[r][x] ELSE 0
  /\ \A a \in allocs : a.status \in {"RESERVED", "USED"} => a.date < expires[a.credit]

\* What the rows say of the units of credits and of requests
AllocationsHold == CreditsAccount /\ LeaveIsCovered

\* The credits as reservations see them: what a request takes of each, which its rows
\* say whatever became of them, and what each earned
Taken(r, c) == UnitsOf({a \in allocs : a.request = r /\ a.credit = c})
TakenUnits == [r \in Requests |-> [c \in Claims |-> Taken(r, c)]]
EarnedUnits == [c \in Claims |-> IF c \in Credits THEN Earned(c) ELSE 0]

CreditBooks == INSTANCE Reservations WITH
  Accounts <- Claims, stage <- rstatus, share <- TakenUnits, spent <- used,
  limit <- EarnedUnits, overruled <- {}

\* The decision on a leave, and its cancellation after that, move on every credit what
\* the submission took of it, whichever of its rows were rewritten on the way, and
\* nothing else moves a credit's units: compensatory leave implements reservations.
KeepsCreditBooks == CreditBooks!Spec

\* The claims for one worked date that are pending or became credits never
\* exceed one day.
WorkedDayOnce ==
  \A w \in Worked :
    SumOf(Earned, {c \in Claims : cstatus[c] \in Open /\ worked[c].date = w}) <= 2

\* What an employee has earned and not spent by the end of today
Outstanding ==
  SumOf(Earned, Live(today))
    - UnitsOf({a \in allocs : a.credit \in Live(today) /\ a.status = "USED" /\ a.date <= today})

\* validate_earning_limits: after an approval the earnings of the month and the
\* year stay within the limits of the claim approved last, and what is earned and
\* not spent never grows over its limit again by deciding or cancelling leave,
\* unless a cancellation that read the date before midnight took effect after it.
EarningCaps ==
  last # NoClaim =>
    LET on == credited[last]
        inYear == {c \in Credits : Year[credited[c]] = Year[on]} IN
    /\ SumOf(Earned, {c \in inYear : Month[credited[c]] = Month[on]}) <= snap[last].monthly
    /\ SumOf(Earned, inYear) <= snap[last].yearly
    /\ lateCancel \/ Outstanding <= snap[last].unused

\* The rules of earning, per worked date and per month, year and balance
EarningRules == WorkedDayOnce /\ EarningCaps
=============================================================================
