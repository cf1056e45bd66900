----------------------------- MODULE Attendance -----------------------------
(***************************************************************************)
(* Attendance days of a tenant (services/attendance_day, attendance_day_     *)
(* runtime.rs) and the punches that fall into them (attendance_service.rs,    *)
(* attendance_regularization_service.rs): the versions of the day boundary,   *)
(* the windows frozen from them, punches in and out, manual and managed       *)
(* corrections, and the worker's expiry of punches without an end.           *)
(*                                                                          *)
(* Every operation takes the tenant's policy lock first and reads the clock   *)
(* after it, so each is one action; a sweep reads its list before and runs    *)
(* one transaction per entry.  Time passes in units of which a day has        *)
(* DayLength; an offset is a boundary in minutes plus the time zone.          *)
(* A command with a stale revision, or whose row moved while it waited for    *)
(* the locks, is refused and changes nothing: those are left out.             *)
(***************************************************************************)
EXTENDS Integers, FiniteSets, FiniteSetsExt, Functions, Sequences

CONSTANTS
  Staff,        \* employees
  DayLength,      \* 24 hours
  LastDay,        \* bound: the days the model looks at are 1..LastDay
  LastInstant,    \* bound: and time stops here
  Zones,          \* offsets of the tenant's time zone; 0 to begin with
  Boundaries,     \* boundary_minutes that may be asked for
  DefaultBoundary,\* 300 minutes
  MaxPunches,     \* bound: rows of attendance
  SweepLimit,     \* 50 in the worker
  MaxFailures     \* bound: transactions of the sweep that fail

ASSUME AttendanceAssumption ==
  /\ DayLength \in Nat \ {0} /\ LastDay \in Nat \ {0} /\ LastInstant \in Nat
  /\ 0 \in Zones /\ Zones \subseteq (1 - DayLength)..(DayLength - 1)
  /\ Boundaries \cup {DefaultBoundary} \subseteq 0..(DayLength - 1)
  /\ MaxPunches \in Nat \ {0} /\ SweepLimit \in Nat \ {0} /\ MaxFailures \in Nat

VARIABLES
  instant,      \* now
  zone,         \* the configured time zone
  historic,     \* attendance existed before there was a profile
  profiled,     \* the row of attendance_day_profile exists
  versions,     \* its live versions: effective_work_date to offset
  frozen,       \* attendance_day_window
  punches,      \* attendance
  sweepList,    \* the rest of the worker's candidates: their employees
  failures      \* number of transactions that failed

attVars == <<instant, zone, historic, profiled, versions, frozen, punches, sweepList, failures>>

Dates == 1..LastDay
FirstDay == 1
FirstInstant == FirstDay * DayLength + DefaultBoundary
Baseline == 0   \* 0001-01-01
Still == 0      \* no check-out
Put(f, d, x) == [e \in DOMAIN f \cup {d} |-> IF e = d THEN x ELSE f[e]]

Windows == [from : Int, to : Int]
Punches == [who : Staff, day : Dates, from : Int, to : Int,
            status : {"OPEN", "COMPLETE", "INCOMPLETE"}, manual : BOOLEAN]

AttTypeOK ==
  /\ instant \in Nat /\ zone \in Zones /\ historic \in BOOLEAN /\ profiled \in BOOLEAN
  /\ DOMAIN versions \subseteq Nat /\ \A d \in DOMAIN versions : versions[d] \in Int
  /\ DOMAIN frozen \subseteq Dates /\ \A d \in DOMAIN frozen : frozen[d] \in Windows
  /\ punches \in Seq(Punches) /\ Len(punches) <= MaxPunches
  /\ sweepList \in Seq(Staff) /\ failures \in 0..MaxFailures

-----------------------------------------------------------------------------
(* Versions and windows *)

LocalDate == (instant - zone) \div DayLength

\* policy: without a profile, the days of a tenant with history begin at midnight
LiveVersions ==
  IF profiled THEN versions
  ELSE [d \in {Baseline} |-> zone + (IF historic THEN 0 ELSE DefaultBoundary)]

\* prepare_initialization: the default comes into force tomorrow
PreparedVersions ==
  IF profiled \/ ~historic THEN LiveVersions
  ELSE Put(LiveVersions, LocalDate + 1, zone + DefaultBoundary)

Governing(vs, d) == vs[Max({e \in DOMAIN vs : e <= d})]

\* resolve_window
ResolvedWindow(vs, d) ==
  [from |-> d * DayLength + Governing(vs, IF d \in DOMAIN vs THEN d - 1 ELSE d),
   to   |-> (d + 1) * DayLength + Governing(vs, d)]

Increasing(w) == w.from < w.to
Holds(w, t) == w.from <= t /\ t < w.to

\* resolve_current_window: the one day that has the instant
ResolvedDay(vs, d) ==
  {e \in Dates : Increasing(ResolvedWindow(vs, e)) /\ Holds(ResolvedWindow(vs, e), instant)} = {d}

\* window_for_date
WindowOf(vs, d) == IF d \in DOMAIN frozen THEN frozen[d] ELSE ResolvedWindow(vs, d)

\* current_window
CurrentDay(d) ==
  IF \E f \in DOMAIN frozen : Holds(frozen[f], instant)
  THEN d \in DOMAIN frozen /\ Holds(frozen[d], instant)
       /\ \A f \in DOMAIN frozen : Holds(frozen[f], instant) => frozen[f].from <= frozen[d].from
  ELSE ResolvedDay(LiveVersions, d)

\* ensure_window, for every day of a set
Freezes(days) ==
  LET fresh == days \ DOMAIN frozen
      window(d) == WindowOf(PreparedVersions, d)
  IN /\ fresh # {} => \E d \in Dates : ResolvedDay(LiveVersions, d)
     /\ \A d \in fresh :
          /\ Increasing(window(d))
          /\ d - 1 \in DOMAIN frozen \cup fresh => window(d - 1).to = window(d).from
          /\ d + 1 \in DOMAIN frozen \cup fresh => window(d + 1).from = window(d).to
     /\ frozen' = [d \in DOMAIN frozen \cup fresh |-> window(d)]
     /\ IF fresh = {} THEN UNCHANGED <<profiled, versions>>
        ELSE profiled' = TRUE /\ versions' = PreparedVersions

\* propose_policy_change and schedule_policy: replaces what has not begun yet
Schedule(d, minutes) ==
  \E active \in Dates :
    LET before == PreparedVersions
        pending == {e \in DOMAIN before : e > active}
        after == Put([e \in DOMAIN before \ pending |-> before[e]], d, zone + minutes)
    IN /\ ResolvedDay(LiveVersions, active)
       /\ d > active
       /\ \A f \in DOMAIN frozen : f < Min(pending \cup {d})
       /\ Increasing(ResolvedWindow(after, d)) /\ Increasing(ResolvedWindow(after, d + 1))
       /\ ResolvedWindow(after, d).from > instant
       /\ ResolvedWindow(after, d).to = ResolvedWindow(after, d + 1).from
       /\ versions' = after /\ profiled' = TRUE
       /\ UNCHANGED <<instant, zone, historic, frozen, punches, sweepList, failures>>

-----------------------------------------------------------------------------
(* Punches *)

Span(p) == IF p.to = Still THEN 0 ELSE p.to - p.from
Overlaps(p, q) == p.to > p.from /\ q.to > q.from /\ p.from < q.to /\ p.to > q.from
OpenPunches == {r \in DOMAIN punches : punches[r].status = "OPEN"}
DayRows(e, d) == {r \in DOMAIN punches : punches[r].who = e /\ punches[r].day = d}
Worked(rs) == SumFunctionOnSet([r \in DOMAIN punches |-> Span(punches[r])], rs)

\* derive_expiry
Missed(r) == r \in OpenPunches /\ instant >= WindowOf(PreparedVersions, punches[r].day).to
MissedBy(e) == {r \in DOMAIN punches : punches[r].who = e /\ Missed(r)}

\* expire_employee: status and reason only, never a check-out
Expired(e) == [r \in DOMAIN punches |->
  IF r \in MissedBy(e) THEN [punches[r] EXCEPT !.status = "INCOMPLETE"] ELSE punches[r]]

DaysMissedBy(e) == {punches[r].day : r \in MissedBy(e)}

\* punch_today_with_clock
PunchIn(e) ==
  \E d \in Dates :
    /\ CurrentDay(d) /\ Freezes({d} \cup DaysMissedBy(e))
    /\ \A r \in OpenPunches : punches[r].who = e /\ punches[r].day = d => Missed(r)
    /\ Len(punches) < MaxPunches
    /\ punches' = Append(Expired(e), [who |-> e, day |-> d, from |-> instant, to |-> Still,
                                      status |-> "OPEN", manual |-> FALSE])
    /\ UNCHANGED <<instant, zone, historic, sweepList, failures>>

PunchOut(e, r) ==
  /\ r \in OpenPunches /\ punches[r].who = e /\ ~Missed(r)
  /\ CurrentDay(punches[r].day) /\ Freezes({punches[r].day} \cup DaysMissedBy(e))
  /\ Worked(DayRows(e, punches[r].day) \ {r}) + (instant - punches[r].from) < DayLength
  /\ punches' = [Expired(e) EXCEPT ![r].to = instant, ![r].status = "COMPLETE"]
  /\ UNCHANGED <<instant, zone, historic, sweepList, failures>>

\* bug: the segments that are there already are only added up
FitsAmongUncompared(p, others) ==
  Worked(others) + Span(p) < DayLength /\ \A r \in others : punches[r].to # Still

\* validate_resolved_segment_against_rows
FitsAmong(p, others) ==
  /\ \A r \in others : punches[r].to # Still /\ ~Overlaps(p, punches[r])
  /\ Worked(others) + Span(p) < DayLength

\* validate_segment_with_connection and to_window_instants: the segments that may be
\* asked for.  An employee is held to the last max_self_adjust_days besides; HR is not,
\* so what an employee may do HR may do.
Segments(e, d) ==
  LET w == WindowOf(PreparedVersions, d) IN
  IF d > LocalDate \/ w.from > instant THEN {}
  ELSE {[who |-> e, day |-> d, from |-> t[1], to |-> t[2], status |-> "COMPLETE", manual |-> TRUE] :
          t \in {u \in (w.from..w.to) \X (w.from..w.to) : u[1] < u[2]}}

AddSegment(p) ==
  /\ Len(punches) < MaxPunches
  /\ FitsAmong(p, DayRows(p.who, p.day)) /\ Freezes({p.day})
  /\ punches' = Append(punches, p)
  /\ UNCHANGED <<instant, zone, historic, sweepList, failures>>

\* update_manual_attendance_segment, orchestrate_managed_update: any row, of any status
AmendSegment(r, p) ==
  /\ punches[r].who = p.who
  /\ FitsAmong(p, DayRows(p.who, p.day) \ {r}) /\ Freezes({p.day})
  /\ punches' = [punches EXCEPT ![r] = p]
  /\ UNCHANGED <<instant, zone, historic, sweepList, failures>>

-----------------------------------------------------------------------------
(* The worker's sweep, time, and the operator *)

\* bug: the latest days first
NewestFirst(rs) ==
  {s \in [1..Min({SweepLimit, Cardinality(rs)}) -> rs] :
     /\ \A i, j \in DOMAIN s : i < j => s[i] # s[j] /\ punches[s[i]].day >= punches[s[j]].day
     /\ \A i \in DOMAIN s : \A r \in rs :
          (\A j \in DOMAIN s : s[j] # r) => punches[r].day <= punches[s[i]].day}

\* the first rows by work_date; the order of the ids within a day may be any
OldestFirst(rs) ==
  {s \in [1..Min({SweepLimit, Cardinality(rs)}) -> rs] :
     /\ \A i, j \in DOMAIN s : i < j => s[i] # s[j] /\ punches[s[i]].day <= punches[s[j]].day
     /\ \A i \in DOMAIN s : \A r \in rs :
          (\A j \in DOMAIN s : s[j] # r) => punches[s[i]].day <= punches[r].day}

\* the candidates are all open rows, whether their day is over or not
SweepScan ==
  /\ sweepList = <<>> /\ \E r \in DOMAIN punches : Missed(r)
  /\ \E s \in OldestFirst(OpenPunches) :
       sweepList' = [i \in DOMAIN s |-> punches[s[i]].who]
  /\ UNCHANGED <<instant, zone, historic, profiled, versions, frozen, punches, failures>>

SweepNext ==
  /\ sweepList # <<>>
  /\ sweepList' = Tail(sweepList)
  /\ \/ /\ Freezes(DaysMissedBy(Head(sweepList)))
        /\ punches' = Expired(Head(sweepList))
        /\ failures' = failures
     \/ /\ failures < MaxFailures /\ failures' = failures + 1
        /\ UNCHANGED <<profiled, versions, frozen, punches>>
  /\ UNCHANGED <<instant, zone, historic>>

\* the worker dies, or its connection does
SweepAborts ==
  /\ sweepList # <<>> /\ failures < MaxFailures
  /\ sweepList' = <<>> /\ failures' = failures + 1
  /\ UNCHANGED <<instant, zone, historic, profiled, versions, frozen, punches>>

TimePasses ==
  /\ instant < LastInstant /\ instant' = instant + 1
  /\ UNCHANGED <<zone, historic, profiled, versions, frozen, punches, sweepList, failures>>

\* the operator changes the time zone of the tenant, in the operators' database
ZoneChanges ==
  /\ zone' \in Zones \ {zone}
  /\ UNCHANGED <<instant, historic, profiled, versions, frozen, punches, sweepList, failures>>

\* with attendance from before the profile, a punch of today may still be open
AttInit ==
  /\ instant = FirstInstant /\ zone = 0 /\ historic \in BOOLEAN
  /\ profiled = FALSE /\ versions = [d \in {} |-> 0] /\ frozen = [d \in {} |-> 0]
  /\ punches \in {<<>>} \cup IF historic
                  THEN {<<[who |-> e, day |-> FirstDay, from |-> instant, to |-> Still,
                           status |-> "OPEN", manual |-> FALSE]>> : e \in Staff}
                  ELSE {}
  /\ sweepList = <<>> /\ failures = 0

Sweep == SweepScan \/ SweepNext

AttNext ==
  \/ \E d \in Dates, m \in Boundaries : Schedule(d, m)
  \/ \E e \in Staff : PunchIn(e) \/ \E r \in DOMAIN punches : PunchOut(e, r)
  \/ \E e \in Staff, d \in Dates : \E p \in Segments(e, d) :
       AddSegment(p) \/ \E r \in DOMAIN punches : AmendSegment(r, p)
  \/ Sweep \/ SweepAborts
  \/ TimePasses \/ ZoneChanges

AttFairness == WF_attVars(Sweep)

AttSpec == AttInit /\ [][AttNext]_attVars /\ AttFairness

-----------------------------------------------------------------------------
(* Properties *)

\* Whatever boundaries were scheduled and replaced, and whatever became of the time
\* zone, the days cover the time line: each begins where the one before ends, whether
\* it is frozen or still follows the policy (resolve_window, propose_policy_change).
DaysTile ==
  \A d \in Dates :
    LET w == WindowOf(LiveVersions, d) IN
    /\ Increasing(w)
    /\ d + 1 \in Dates => WindowOf(LiveVersions, d + 1).from = w.to

\* The punch that was open when there was no profile yet.  Its day begins anew when the time
\* zone changes, so that it may have begun before it.
Legacy(r) ==
  /\ historic /\ ~punches[r].manual
  /\ punches[r].day = FirstDay /\ punches[r].from = FirstInstant

\* An employee has one open punch at most while its day lasts; what is closed lies in
\* its day, but for the beginning of a punch from before the profile; corrections of a
\* day do not overlap one another; and no day adds up to 24 hours, however long a
\* transition made it (assert_total_attendance_*).
DaysAddUp ==
  \A e \in Staff :
    /\ Cardinality({r \in OpenPunches : punches[r].who = e /\ ~Missed(r)}) <= 1
    /\ \A d \in Dates :
        LET rs == DayRows(e, d) IN
        /\ Worked(rs) < DayLength
        /\ \A r \in rs : punches[r].to # Still =>
              (Legacy(r) \/ punches[r].from >= WindowOf(LiveVersions, d).from)
              /\ punches[r].to <= WindowOf(LiveVersions, d).to
        /\ \A r, q \in rs : r # q /\ punches[r].manual /\ punches[q].manual =>
              ~Overlaps(punches[r], punches[q])

\* Days cover time, and what is worked lies in its day and adds up to less than one.
DaysHold == AttTypeOK /\ DaysTile /\ DaysAddUp

\* A punch without an end does not stay open after its day, although a sweep looks at
\* a bounded number of rows and some of its transactions fail (sweep_with_clock).
MissedPunchesExpire ==
  \A r \in 1..MaxPunches :
    (r \in DOMAIN punches /\ Missed(r)) ~> (r \in DOMAIN punches /\ ~Missed(r))
=============================================================================
