------------------------------ MODULE Payroll ------------------------------
(***************************************************************************)
(* Payroll months: a draft is calculated, reviewed, and finalised into       *)
(* payslips (payroll_draft.rs, payroll_finalize.rs, payroll_fingerprint.rs). *)
(* Calculation and finalisation lock every input table, so each is one       *)
(* action; the writers of those tables are transactions that commit before   *)
(* or after.  The fingerprint digests all rows with their revisions and      *)
(* dates, and never returns to an earlier value: it is the number of writes. *)
(*                                                                          *)
(* A line holds what the tables decide: the pay, the arrears and the unpaid  *)
(* days of leave.  One request for unpaid leave of one employee, filed       *)
(* before working dates were recorded, has a day in every month.             *)
(***************************************************************************)
EXTENDS Naturals, FiniteSets

CONSTANTS
  PayMonths,   \* months, each with one day of the leave
  CycleIds,    \* payroll_cycle ids
  Payees,      \* employees
  OnLeave,     \* the one whose unpaid leave is modelled
  ArrearIds,
  Pays,        \* amounts a salary or a monthly input may be
  PayClerks,   \* HR users
  MaxWrites,   \* bound: writes of the input tables
  MaxRevision, \* the largest revision of a draft
  NoCycle

ASSUME PayrollAssumption ==
  /\ Pays \subseteq Nat \ {0} /\ MaxWrites \in Nat /\ MaxRevision \in Nat /\ NoCycle \notin CycleIds
  /\ OnLeave \in Payees /\ IsFiniteSet(PayMonths) /\ PayMonths # {}
  /\ IsFiniteSet(Payees) /\ IsFiniteSet(CycleIds)

VARIABLES
  cycle,    \* the payroll_cycle rows
  review,   \* the payroll_draft_calculation rows
  payslip,  \* per cycle and employee, the payslip
  salary,   \* the salary in force; 0: none assigned
  period,   \* the payroll_period_input rows
  arrear,   \* the payroll_arrear rows
  leave,    \* the request: approved, and the dates that payroll froze
  holiday,  \* the month whose day of the leave is a holiday
  writes,   \* the fingerprint
  desk,     \* per HR user: what they have on the screen
  shown,    \* history: per cycle, the lines that whoever finalised it had reviewed
  owed,     \* history: per cycle, the lines the tables gave when it was finalised
  twins     \* history: months of which two creations overlapped

payInputs == <<salary, period, arrear, leave, holiday>>
payHistory == <<shown, owed, twins>>
payVars == <<cycle, review, payslip, payInputs, writes, desk, payHistory>>

NoInput == [kind |-> "none", value |-> 0]
Line == [pay : Pays \cup {0}, arrears : SUBSET ArrearIds, days : SUBSET PayMonths]
NoLine == [pay |-> 0, arrears |-> {}, days |-> {}]
NoLines == [e \in Payees |-> NoLine]
NoReview == [revision |-> 0, stamp |-> 0, final |-> FALSE, lines |-> NoLines]
AwayFromDesk == [cycle |-> NoCycle, creates |-> {}, seen |-> NoReview]

PayTypeOK ==
  /\ cycle \in [CycleIds -> [status : {"NONE", "DRAFT", "PROCESSED"}, month : PayMonths]]
  /\ review \in [CycleIds -> [revision : 0..MaxRevision, stamp : 0..MaxWrites, final : BOOLEAN,
                              lines : [Payees -> Line]]]
  /\ payslip \in [CycleIds -> [Payees -> Line]]
  /\ salary \in [Payees -> Pays \cup {0}]
  /\ period \in [PayMonths \X Payees -> [kind : {"none", "auto", "manual"}, value : Pays \cup {0}]]
  /\ arrear \in [ArrearIds -> [status : {"NONE", "PENDING", "APPLIED"}, payee : Payees,
                               cycle : CycleIds \cup {NoCycle}]]
  /\ leave \in [approved : BOOLEAN, frozen : SUBSET PayMonths] /\ holiday \in PayMonths
  /\ writes \in 0..MaxWrites /\ twins \in SUBSET PayMonths
  /\ \A u \in PayClerks : desk[u].cycle \in CycleIds \cup {NoCycle} /\ desk[u].creates \in SUBSET PayMonths

\* some salaries, inputs, cycles, arrears and the leave may be there already
PayInit ==
  /\ cycle \in [CycleIds -> [status : {"NONE", "DRAFT"}, month : PayMonths]]
  /\ \A c \in CycleIds : cycle[c].status = "NONE" => cycle[c].month = CHOOSE m \in PayMonths : TRUE
  /\ \A m \in PayMonths : Cardinality({c \in CycleIds : cycle[c] = [status |-> "DRAFT", month |-> m]}) <= 1
  /\ review = [c \in CycleIds |-> NoReview] /\ payslip = [c \in CycleIds |-> NoLines]
  /\ salary \in [Payees -> Pays \cup {0}]
  /\ period \in [PayMonths \X Payees -> {NoInput} \cup [kind : {"manual"}, value : Pays]]
  /\ arrear \in [ArrearIds -> {[status |-> s, payee |-> OnLeave, cycle |-> NoCycle] :
                                 s \in {"NONE", "PENDING"}}]
  /\ leave \in [approved : BOOLEAN, frozen : {{}}] /\ holiday \in PayMonths
  /\ writes = 0 /\ desk = [u \in PayClerks |-> AwayFromDesk]
  /\ shown = [c \in CycleIds |-> NoLines] /\ owed = [c \in CycleIds |-> NoLines] /\ twins = {}

Writes(n) == writes + n <= MaxWrites /\ writes' = writes + n
Paid(c) == {e \in Payees : payslip[c][e] # NoLine}
CyclesOf(m) == {c \in CycleIds : cycle[c].status # "NONE" /\ cycle[c].month = m}

-----------------------------------------------------------------------------
(* Cycles *)

\* create_payroll_cycle finds no cycle of the month ...
SeekCycle(u, m) ==
  /\ desk[u] = AwayFromDesk /\ CyclesOf(m) = {}
  /\ desk' = [desk EXCEPT ![u].creates = {m}]
  /\ twins' = twins \cup {t \in {m} : \E o \in PayClerks : m \in desk[o].creates}
  /\ UNCHANGED <<cycle, review, payslip, payInputs, writes, shown, owed>>

\* ... and inserts one
InsertCycle(u, c) ==
  /\ desk[u].creates # {} /\ cycle[c].status = "NONE" /\ Writes(1)
  /\ \E m \in desk[u].creates : cycle' = [cycle EXCEPT ![c] = [status |-> "DRAFT", month |-> m]]
  /\ desk' = [desk EXCEPT ![u] = AwayFromDesk]
  /\ UNCHANGED <<review, payslip, payInputs, payHistory>>

-----------------------------------------------------------------------------
(* Inputs *)

\* period_input.save looks at one of the cycles of the month, if there is any
Editable(m) ==
  CyclesOf(m) # {} => \E c \in CyclesOf(m) : cycle[c].status = "DRAFT" /\ Paid(c) = {}

SavePeriod(m, e, v) ==
  /\ Editable(m) /\ period[<<m, e>>] # [kind |-> "manual", value |-> v] /\ Writes(1)
  /\ period' = [period EXCEPT ![<<m, e>>] = [kind |-> "manual", value |-> v]]
  /\ UNCHANGED <<cycle, review, payslip, salary, arrear, leave, holiday, desk, payHistory>>

AssignSalary(e, v) ==
  /\ salary[e] # v /\ Writes(1)
  /\ salary' = [salary EXCEPT ![e] = v]
  /\ UNCHANGED <<cycle, review, payslip, period, arrear, leave, holiday, desk, payHistory>>

CreateArrear(a, e) ==
  /\ arrear[a].status = "NONE" /\ Writes(1)
  /\ arrear' = [arrear EXCEPT ![a] = [status |-> "PENDING", payee |-> e, cycle |-> NoCycle]]
  /\ UNCHANGED <<cycle, review, payslip, salary, period, leave, holiday, desk, payHistory>>

ApproveUnpaidLeave ==
  /\ ~leave.approved /\ Writes(1)
  /\ leave' = [leave EXCEPT !.approved = TRUE]
  /\ UNCHANGED <<cycle, review, payslip, salary, period, arrear, holiday, desk, payHistory>>

MoveHoliday(m) ==
  /\ holiday # m /\ holiday' = m /\ Writes(1)
  /\ UNCHANGED <<cycle, review, payslip, salary, period, arrear, leave, desk, payHistory>>

\* a new revision of the company's rules, equal or not in what it pays
SavePolicy ==
  /\ Writes(1)
  /\ UNCHANGED <<cycle, review, payslip, payInputs, desk, payHistory>>

-----------------------------------------------------------------------------
(* Calculation *)

\* allocate_dates: the working days of the request, which must be as many as were approved
AllocateDates == PayMonths \ {holiday}

\* bug: the dates are worked out afresh for every month
LeaveDatesAfresh == AllocateDates

\* once payroll has consumed a day of the request, its dates stay
LeaveDates == IF leave.frozen # {} THEN leave.frozen ELSE AllocateDates

LeaveDays(e, m) == IF e = OnLeave /\ leave.approved THEN LeaveDates \cap {m} ELSE {}

Pending(e) == {a \in ArrearIds : arrear[a].status = "PENDING" /\ arrear[a].payee = e}

PayOf(e, m) == IF period[<<m, e>>].kind = "manual" THEN period[<<m, e>>].value ELSE salary[e]

\* prepare: the line of an employee whose pay can be worked out
LineOf(e, m) == IF PayOf(e, m) = 0 THEN NoLine
                ELSE [pay |-> PayOf(e, m), arrears |-> Pending(e), days |-> LeaveDays(e, m)]

\* A month without a manual input gets its automatic one, or a new revision of it.
Stored(m, e) ==
  IF period[<<m, e>>].kind = "manual" THEN period[<<m, e>>] ELSE [kind |-> "auto", value |-> salary[e]]

\* When the month has another cycle that is closed, the save may find that one and refuse.
HeldBack(m) ==
  {e \in Payees : period[<<m, e>>].kind # "manual" /\ \E o \in CyclesOf(m) : cycle[o].status # "DRAFT"}

\* the inputs that are stored, and the draft that is written
Calculates(c, m, refused) ==
  LET saved == {e \in Payees \ refused : period[<<m, e>>] # Stored(m, e)}
      lines == [e \in Payees |-> IF e \in refused THEN NoLine ELSE LineOf(e, m)]
  IN /\ Writes(Cardinality(saved))
     /\ period' = [k \in PayMonths \X Payees |->
                     IF k[1] = m /\ k[2] \in saved THEN Stored(m, k[2]) ELSE period[k]]
     /\ review' = [review EXCEPT ![c] =
          [revision |-> @.revision + 1, stamp |-> writes', lines |-> lines,
           final |-> Payees # {} /\ \A e \in Payees : lines[e] # NoLine]]

CalculatePayrollCycle(u) ==
  LET c == desk[u].cycle IN
  /\ c # NoCycle /\ cycle[c].status = "DRAFT"
  /\ desk[u].seen.revision = review[c].revision /\ review[c].revision < MaxRevision
  /\ \E refused \in SUBSET HeldBack(cycle[c].month) : Calculates(c, cycle[c].month, refused)
  /\ desk' = [desk EXCEPT ![u].seen = review'[c]]
  /\ UNCHANGED <<cycle, payslip, salary, arrear, leave, holiday, payHistory>>

OpenReview(u, c) ==
  /\ cycle[c].status # "NONE" /\ desk[u].creates = {}
  /\ desk' = [desk EXCEPT ![u] = [cycle |-> c, creates |-> {}, seen |-> review[c]]]
  /\ UNCHANGED <<cycle, review, payslip, payInputs, writes, payHistory>>

-----------------------------------------------------------------------------
(* Finalisation *)

\* bug: the tables are not digested again
FreshWhenReviewed(c, seen) == review[c].revision = seen.revision /\ review[c].stamp = seen.stamp

\* the revision and the fingerprint are those that were reviewed, and nothing was written since
Fresh(c, seen) ==
  /\ review[c].revision = seen.revision /\ review[c].stamp = seen.stamp
  /\ writes = seen.stamp

\* persist_reviewed compares the arrears and the dated leave with the line again
Persistable(e, m, line) == Pending(e) = line.arrears /\ LeaveDays(e, m) = line.days

FinalizePayrollCycle(u) ==
  LET c == desk[u].cycle
      m == cycle[c].month
      lines == review[c].lines
      consumed == UNION {lines[e].arrears : e \in Payees}
  IN /\ c # NoCycle /\ cycle[c].status = "DRAFT"
     /\ review[c].revision > 0 /\ Fresh(c, desk[u].seen) /\ review[c].final
     /\ Paid(c) = {} /\ \A e \in Payees : Persistable(e, m, lines[e])
     /\ Writes(1)
     /\ payslip' = [payslip EXCEPT ![c] = lines]
     /\ arrear' = [a \in ArrearIds |-> IF a \in consumed
                     THEN [arrear[a] EXCEPT !.status = "APPLIED", !.cycle = c] ELSE arrear[a]]
     \* every approved request that touches the month is frozen
     /\ leave' = [leave EXCEPT !.frozen = IF leave.approved THEN LeaveDates ELSE @]
     /\ cycle' = [cycle EXCEPT ![c].status = "PROCESSED"]
     /\ shown' = [shown EXCEPT ![c] = desk[u].seen.lines]
     /\ owed' = [owed EXCEPT ![c] = [e \in Payees |-> LineOf(e, m)]]
     /\ desk' = [desk EXCEPT ![u] = AwayFromDesk]
     /\ UNCHANGED <<review, salary, period, holiday, twins>>

PayNext ==
  \/ \E u \in PayClerks :
       \/ \E m \in PayMonths : SeekCycle(u, m)
       \/ \E c \in CycleIds : InsertCycle(u, c) \/ OpenReview(u, c)
       \/ CalculatePayrollCycle(u) \/ FinalizePayrollCycle(u)
  \/ \E e \in Payees, v \in Pays : AssignSalary(e, v) \/ \E m \in PayMonths : SavePeriod(m, e, v)
  \/ \E a \in ArrearIds, e \in Payees : CreateArrear(a, e)
  \/ ApproveUnpaidLeave \/ SavePolicy
  \/ \E m \in PayMonths : MoveHoliday(m)

PaySpec == PayInit /\ [][PayNext]_payVars

-----------------------------------------------------------------------------
(* Properties *)

\* What is paid is what HR had reviewed, and what the salaries, inputs, arrears and leave of
\* that moment give: no edit slips in between review and finalisation.
PaidAsReviewed ==
  \A c \in CycleIds : cycle[c].status = "PROCESSED" =>
    payslip[c] = shown[c] /\ payslip[c] = owed[c]

\* An arrear is on one payslip exactly when it is applied; an employee is paid once for a month
\* unless two creations of its cycle overlapped; and of a leave no more days are deducted than
\* were approved, although the calendar changes between the months it spans.
PaidOnce ==
  /\ \A a \in ArrearIds :
       LET on == {c \in CycleIds : \E e \in Payees : a \in payslip[c][e].arrears}
       IN on = IF arrear[a].status = "APPLIED" THEN {arrear[a].cycle} ELSE {}
  /\ \A m \in PayMonths \ twins : Cardinality({c \in CyclesOf(m) : Paid(c) # {}}) <= 1
  /\ LET charged == UNION {payslip[c][OnLeave].days : c \in CycleIds}
     IN Cardinality(charged) < Cardinality(PayMonths)

\* Everybody is paid what was reviewed, and for nothing twice.
PayHolds == PayTypeOK /\ PaidAsReviewed /\ PaidOnce
=============================================================================
