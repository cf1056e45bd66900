---------------------------- MODULE Performance ----------------------------
(***************************************************************************)
(* Performance cycles (kabipay-performance): a program launches one cycle    *)
(* per period with a snapshot of its participants; the cycle moves through   *)
(* its stages by hand, by a retry or by the deadline sweep; participants     *)
(* agree on goals, assess, are calibrated and acknowledge, and HR may reopen *)
(* a submitted review in a new revision.  Every operation on a review holds  *)
(* its cycle's row lock to the end, so each is one action; what precedes the *)
(* lock is a step of its own: the reading of a program that is activated,    *)
(* and the sweep's list of due cycles.  An open exception only records why a *)
(* cycle is blocked and is left out: to retry it is to advance the cycle.    *)
(***************************************************************************)
EXTENDS Naturals, FiniteSets, Functions

CONSTANTS
  CycleIds,      \* the review_cycle rows one period of the program may get
  Reviewees,     \* employees with a login
  GoalIds,       \* goals of one participant
  GoalWeights,   \* the weight a goal may have
  FullWeight,    \* one hundred percent
  Deadline,      \* per stage the day its deadline falls on
  LastDeadline,  \* bound: the last day
  MaxRevisions   \* bound on the revisions of a review

ASSUME PerformanceAssumption ==
  /\ GoalWeights \subseteq Nat \ {0} /\ FullWeight \in Nat \ {0}
  /\ MaxRevisions \in Nat \ {0} /\ LastDeadline \in Nat
  /\ \A s \in DOMAIN Deadline : Deadline[s] \in Nat

VARIABLES
  program,     \* the performance_program row
  activating,  \* an activation has read the program and not yet written it
  reviewCycle, \* the review_cycle rows
  review,      \* per cycle and employee the performance_participant row
  goals,       \* per cycle and employee the goal rows
  snapshot,    \* per cycle, employee and revision the performance_participant_revision row
  businessDay,
  listed,      \* the deadline sweep's date, and the cycles it has listed and not yet come to
  early        \* a deadline moved a cycle out of a stage that was not due

perfVars == <<program, activating, reviewCycle, review, goals, snapshot, businessDay, listed, early>>

ReviewStages == {"GOAL_SETTING", "SELF_REVIEW", "MANAGER_REVIEW", "HR_CALIBRATION",
                 "EMPLOYEE_ACKNOWLEDGEMENT", "CLOSED"}
NoReview == [in |-> FALSE, excluded |-> FALSE, revision |-> 1, self |-> FALSE,
             manager |-> FALSE, acknowledged |-> FALSE, rating |-> "none"]
NoSnapshot == [self |-> FALSE, manager |-> FALSE, acknowledged |-> FALSE, rating |-> "none",
               exists |-> FALSE, calibrated |-> FALSE]
NoGoal == [status |-> "NONE", weight |-> 0]

PerfTypeOK ==
  /\ program \in [status : {"DRAFT", "ACTIVE", "ARCHIVED"}, required : GoalWeights \cup {FullWeight},
                  calibrates : BOOLEAN, acknowledges : BOOLEAN]
  /\ activating \in BOOLEAN
  /\ reviewCycle \in [CycleIds -> [stage : ReviewStages \cup {"NONE"},
                                   status : {"NONE", "ACTIVE", "COMPLETED"}]]
  /\ review \in [CycleIds -> [Reviewees ->
       [in : BOOLEAN, excluded : BOOLEAN, revision : 1..MaxRevisions, self : BOOLEAN,
        manager : BOOLEAN, acknowledged : BOOLEAN, rating : {"none", "manager", "hr"}]]]
  /\ goals \in [CycleIds -> [Reviewees -> [GoalIds ->
       [status : {"NONE", "PROPOSED", "APPROVED"}, weight : GoalWeights \cup {0}]]]]
  /\ snapshot \in [CycleIds -> [Reviewees -> [1..MaxRevisions ->
       [self : BOOLEAN, manager : BOOLEAN, acknowledged : BOOLEAN, rating : {"none", "manager", "hr"},
        exists : BOOLEAN, calibrated : BOOLEAN]]]]
  /\ businessDay \in 0..LastDeadline /\ early \in BOOLEAN
  /\ listed \in [on : 0..LastDeadline, cycles : SUBSET CycleIds]

DraftPrograms == [status : {"DRAFT"}, required : GoalWeights \cup {FullWeight},
                  calibrates : BOOLEAN, acknowledges : BOOLEAN]

PerfInit ==
  /\ program \in DraftPrograms
  /\ activating = FALSE
  /\ reviewCycle = [c \in CycleIds |-> [stage |-> "NONE", status |-> "NONE"]]
  /\ review = [c \in CycleIds |-> [e \in Reviewees |-> NoReview]]
  /\ goals = [c \in CycleIds |-> [e \in Reviewees |-> [g \in GoalIds |-> NoGoal]]]
  /\ snapshot = [c \in CycleIds |-> [e \in Reviewees |-> [r \in 1..MaxRevisions |-> NoSnapshot]]]
  /\ businessDay = 0 /\ listed = [on |-> 0, cycles |-> {}] /\ early = FALSE

-----------------------------------------------------------------------------
(* Programs and launches *)

\* Only a draft is edited; the row lock is held.
SaveProgram(required, calibrates, acknowledges) ==
  /\ program.status = "DRAFT"
  /\ program' = [program EXCEPT !.required = required, !.calibrates = calibrates,
                                !.acknowledges = acknowledges]
  /\ UNCHANGED <<activating, reviewCycle, review, goals, snapshot, businessDay, listed, early>>

\* The activation checks the status it read without a lock, then writes.
ReadForActivation ==
  /\ program.status # "ARCHIVED" /\ ~activating /\ activating' = TRUE
  /\ UNCHANGED <<program, reviewCycle, review, goals, snapshot, businessDay, listed, early>>

ActivateProgram ==
  /\ activating /\ activating' = FALSE /\ program' = [program EXCEPT !.status = "ACTIVE"]
  /\ UNCHANGED <<reviewCycle, review, goals, snapshot, businessDay, listed, early>>

ArchiveProgram ==
  /\ program.status # "ARCHIVED" /\ program' = [program EXCEPT !.status = "ARCHIVED"]
  /\ UNCHANGED <<activating, reviewCycle, review, goals, snapshot, businessDay, listed, early>>

Launched(c) == reviewCycle[c].stage # "NONE"

\* uq_review_cycle_program_period
PeriodIsFree == \A c \in CycleIds : ~Launched(c)

\* The status is checked again under the program's lock; the population is whoever is
\* eligible at this moment.
LaunchCycle(c, population) ==
  /\ program.status = "ACTIVE" /\ PeriodIsFree
  /\ reviewCycle' = [reviewCycle EXCEPT ![c] = [stage |-> "GOAL_SETTING", status |-> "ACTIVE"]]
  /\ review' = [review EXCEPT ![c] = [e \in Reviewees |-> [NoReview EXCEPT !.in = e \in population]]]
  /\ UNCHANGED <<program, activating, goals, snapshot, businessDay, listed, early>>

\* HR's launch is refused when nobody matches; the sweep keeps the empty cycle.
LaunchByHand(c, population) == population # {} /\ LaunchCycle(c, population)
LaunchBySweep(c, population) == LaunchCycle(c, population)

-----------------------------------------------------------------------------
(* Goals *)

AtStage(c, e, stage) == reviewCycle[c].stage = stage /\ review[c][e].in
Included(c, e) == review[c][e].in /\ ~review[c][e].excluded
GoalsOpen(c, e) == AtStage(c, e, "GOAL_SETTING") /\ Included(c, e)

GoalsOf(c, e) == {g \in GoalIds : goals[c][e][g].status # "NONE"}
WeightOf(c, e) == SumFunctionOnSet([g \in GoalIds |-> goals[c][e][g].weight], GoalsOf(c, e))

\* A goal that is new or changed awaits approval.
SaveGoal(c, e, g, weight) ==
  /\ GoalsOpen(c, e)
  /\ goals' = [goals EXCEPT ![c][e][g] = [status |-> "PROPOSED", weight |-> weight]]
  /\ UNCHANGED <<program, activating, reviewCycle, review, snapshot, businessDay, listed, early>>

\* what is left must be approved again
DeleteGoal(c, e, g) ==
  /\ GoalsOpen(c, e) /\ g \in GoalsOf(c, e)
  /\ goals' = [goals EXCEPT ![c][e] = [h \in GoalIds |->
       IF h \in GoalsOf(c, e) \ {g} THEN [@[h] EXCEPT !.status = "PROPOSED"] ELSE NoGoal]]
  /\ UNCHANGED <<program, activating, reviewCycle, review, snapshot, businessDay, listed, early>>

\* A target that is saved or deleted sends its goal back, an excluded participant's too.
ChangeKpiTarget(c, e, g) ==
  /\ AtStage(c, e, "GOAL_SETTING") /\ g \in GoalsOf(c, e)
  /\ goals' = [goals EXCEPT ![c][e][g].status = "PROPOSED"]
  /\ UNCHANGED <<program, activating, reviewCycle, review, snapshot, businessDay, listed, early>>

\* All goals at once, and only if they add up to a hundred, whatever the program requires.
ApproveGoals(c, e) ==
  /\ GoalsOpen(c, e) /\ GoalsOf(c, e) # {} /\ WeightOf(c, e) = FullWeight
  /\ goals' = [goals EXCEPT ![c][e] = [g \in GoalIds |->
       IF g \in GoalsOf(c, e) THEN [@[g] EXCEPT !.status = "APPROVED"] ELSE @[g]]]
  /\ UNCHANGED <<program, activating, reviewCycle, review, snapshot, businessDay, listed, early>>

SetExcluded(c, e, excluded) ==
  /\ AtStage(c, e, "GOAL_SETTING") /\ review' = [review EXCEPT ![c][e].excluded = excluded]
  /\ UNCHANGED <<program, activating, reviewCycle, goals, snapshot, businessDay, listed, early>>

-----------------------------------------------------------------------------
(* Reviews *)

\* The row of the current revision takes over the participant's data and keeps its decision.
TakenSnapshot(row, data) ==
  [self |-> data.self, manager |-> data.manager, acknowledged |-> data.acknowledged,
   rating |-> data.rating, exists |-> TRUE, calibrated |-> row.calibrated]

\* writes the participant and the snapshot of its revision
SaveReview(c, e, data) ==
  /\ review' = [review EXCEPT ![c][e] = data]
  /\ snapshot' = [snapshot EXCEPT ![c][e][data.revision] = TakenSnapshot(@, data)]
  /\ UNCHANGED <<program, activating, reviewCycle, goals, businessDay, listed, early>>

\* The three submissions name the revision their author saw: only the current one passes.
SubmitSelfAppraisal(c, e) ==
  /\ AtStage(c, e, "SELF_REVIEW") /\ Included(c, e) /\ ~review[c][e].self
  /\ SaveReview(c, e, [review[c][e] EXCEPT !.self = TRUE])

SubmitManagerAppraisal(c, e) ==
  /\ AtStage(c, e, "MANAGER_REVIEW") /\ Included(c, e) /\ review[c][e].self /\ ~review[c][e].manager
  /\ SaveReview(c, e, [review[c][e] EXCEPT !.manager = TRUE,
                         !.rating = IF program.calibrates THEN "none" ELSE "manager"])

AcknowledgeReview(c, e) ==
  /\ AtStage(c, e, "EMPLOYEE_ACKNOWLEDGEMENT") /\ Included(c, e) /\ ~review[c][e].acknowledged
  /\ SaveReview(c, e, [review[c][e] EXCEPT !.acknowledged = TRUE])

\* Actual values are taken from anybody in the cycle, submitted or excluded.
SubmitKpiActual(c, e) ==
  /\ AtStage(c, e, "SELF_REVIEW") \/ AtStage(c, e, "MANAGER_REVIEW")
  /\ GoalsOf(c, e) # {} /\ SaveReview(c, e, review[c][e])

\* The decision is recorded with the revision it was made about.
Calibrate(c, e) ==
  LET r == review[c][e].revision IN
  /\ AtStage(c, e, "HR_CALIBRATION") /\ Included(c, e) /\ review[c][e].manager
  /\ review' = [review EXCEPT ![c][e].rating = "hr"]
  /\ snapshot' = [snapshot EXCEPT ![c][e][r] =
       [TakenSnapshot(@, review'[c][e]) EXCEPT !.calibrated = TRUE]]
  /\ UNCHANGED <<program, activating, reviewCycle, goals, businessDay, listed, early>>

\* bug: the manager's assessment of the old revision stays
ReopenedKeepingManager(data, stage) ==
  [data EXCEPT !.revision = @ + 1, !.self = @ /\ stage = "MANAGER_REVIEW",
               !.acknowledged = FALSE, !.rating = "none"]

ReopenedReview(data, stage) ==
  [data EXCEPT !.revision = @ + 1, !.self = @ /\ stage = "MANAGER_REVIEW", !.manager = FALSE,
               !.acknowledged = FALSE, !.rating = "none"]

\* A submitted review begins a new revision, and the whole cycle goes back to that stage,
\* from any stage, closed or not.
ReopenReview(c, e, stage) ==
  LET old == review[c][e]
      new == ReopenedReview(old, stage) IN
  /\ stage \in {"SELF_REVIEW", "MANAGER_REVIEW"} /\ Included(c, e) /\ old.revision < MaxRevisions
  /\ old.self /\ (stage = "MANAGER_REVIEW" => old.manager)
  /\ review' = [review EXCEPT ![c][e] = new]
  /\ snapshot' = [snapshot EXCEPT ![c][e][old.revision] = TakenSnapshot(@, old),
                                  ![c][e][new.revision] = [NoSnapshot EXCEPT !.exists = TRUE,
                                                                             !.self = new.self]]
  /\ reviewCycle' = [reviewCycle EXCEPT ![c] = [stage |-> stage, status |-> "ACTIVE"]]
  /\ UNCHANGED <<program, activating, goals, businessDay, listed, early>>

-----------------------------------------------------------------------------
(* Stages *)

\* what every included participant owes before the cycle leaves a stage
Done(c, e, stage) ==
  CASE stage = "GOAL_SETTING" ->
         /\ GoalsOf(c, e) # {} /\ WeightOf(c, e) = program.required
         /\ \A g \in GoalsOf(c, e) : goals[c][e][g].status = "APPROVED"
    [] stage = "SELF_REVIEW" -> review[c][e].self
    [] stage = "MANAGER_REVIEW" -> review[c][e].manager
    [] stage = "HR_CALIBRATION" -> snapshot[c][e][review[c][e].revision].calibrated
    [] stage = "EMPLOYEE_ACKNOWLEDGEMENT" -> review[c][e].acknowledged
    [] OTHER -> FALSE

NextStage(stage) ==
  LET last == IF program.acknowledges THEN "EMPLOYEE_ACKNOWLEDGEMENT" ELSE "CLOSED" IN
  CASE stage = "GOAL_SETTING" -> "SELF_REVIEW"
    [] stage = "SELF_REVIEW" -> "MANAGER_REVIEW"
    [] stage = "MANAGER_REVIEW" -> IF program.calibrates THEN "HR_CALIBRATION" ELSE last
    [] stage = "HR_CALIBRATION" -> last
    [] OTHER -> "CLOSED"

\* A cycle without participants is blocked, one whose participants are all excluded is not.
MayAdvance(c) ==
  /\ reviewCycle[c].stage \notin {"NONE", "CLOSED"} /\ \E e \in Reviewees : review[c][e].in
  /\ \A e \in Reviewees : Included(c, e) => Done(c, e, reviewCycle[c].stage)

\* The rows of the participants take the stage as their status, which nothing reads.
AdvanceStage(c) ==
  LET next == NextStage(reviewCycle[c].stage) IN
  reviewCycle' = [reviewCycle EXCEPT ![c] =
    [stage |-> next, status |-> IF next = "CLOSED" THEN "COMPLETED" ELSE @.status]]

AdvanceByHand(c) ==
  /\ MayAdvance(c) /\ AdvanceStage(c)
  /\ UNCHANGED <<program, activating, review, goals, snapshot, businessDay, listed, early>>

DueOn(c, day) == reviewCycle[c].stage \in DOMAIN Deadline /\ Deadline[reviewCycle[c].stage] <= day

ListDueCycles ==
  /\ listed.cycles = {}
  /\ listed' = [on |-> businessDay,
                cycles |-> {c \in CycleIds : reviewCycle[c].status = "ACTIVE" /\ DueOn(c, businessDay)}]
  /\ UNCHANGED <<program, activating, reviewCycle, review, goals, snapshot, businessDay, early>>

\* The deadline of the stage is read again under the cycle's lock.
StillDue(c) == DueOn(c, listed.on)

AdvanceDueCycle(c) ==
  /\ c \in listed.cycles /\ listed' = [listed EXCEPT !.cycles = @ \ {c}]
  /\ IF StillDue(c) /\ MayAdvance(c)
     THEN AdvanceStage(c) /\ early' = (early \/ ~DueOn(c, businessDay))
     ELSE UNCHANGED <<reviewCycle, early>>
  /\ UNCHANGED <<program, activating, review, goals, snapshot, businessDay>>

DayEnds ==
  /\ businessDay < LastDeadline /\ businessDay' = businessDay + 1
  /\ UNCHANGED <<program, activating, reviewCycle, review, goals, snapshot, listed, early>>

GoalStep(c, e) ==
  \/ \E g \in GoalIds : DeleteGoal(c, e, g) \/ ChangeKpiTarget(c, e, g)
                        \/ \E w \in GoalWeights : SaveGoal(c, e, g, w)
  \/ ApproveGoals(c, e)
  \/ \E x \in BOOLEAN : SetExcluded(c, e, x)

ReviewStep(c, e) ==
  \/ SubmitSelfAppraisal(c, e) \/ SubmitManagerAppraisal(c, e) \/ AcknowledgeReview(c, e)
  \/ SubmitKpiActual(c, e) \/ Calibrate(c, e) \/ \E s \in ReviewStages : ReopenReview(c, e, s)

PerfNext ==
  \/ \E w \in GoalWeights \cup {FullWeight}, x, y \in BOOLEAN : SaveProgram(w, x, y)
  \/ ReadForActivation \/ ActivateProgram \/ ArchiveProgram \/ ListDueCycles \/ DayEnds
  \/ \E c \in CycleIds :
       \/ \E people \in SUBSET Reviewees : LaunchByHand(c, people) \/ LaunchBySweep(c, people)
       \/ AdvanceByHand(c) \/ AdvanceDueCycle(c)
       \/ \E e \in Reviewees : GoalStep(c, e) \/ ReviewStep(c, e)

PerfSpec == PerfInit /\ [][PerfNext]_perfVars

-----------------------------------------------------------------------------
(* Properties *)

\* what an included participant has to show for the stage its cycle is in
Earned(c, e) ==
  LET stage == reviewCycle[c].stage
      row == snapshot[c][e][review[c][e].revision] IN
  /\ stage # "GOAL_SETTING" => Done(c, e, "GOAL_SETTING")
  /\ review[c][e].manager => review[c][e].self
  /\ stage \in {"HR_CALIBRATION", "EMPLOYEE_ACKNOWLEDGEMENT", "CLOSED"} => review[c][e].manager
  /\ stage \in {"EMPLOYEE_ACKNOWLEDGEMENT", "CLOSED"} =>
       review[c][e].rating = (IF program.calibrates THEN "hr" ELSE "manager")
  /\ stage = "CLOSED" /\ program.acknowledges => review[c][e].acknowledged
  /\ row.exists => row = TakenSnapshot(row, review[c][e])
  /\ row.calibrated => review[c][e].rating = "hr"

\* However often reviews are reopened, and whoever moves the cycle on: a period gets one
\* cycle, an empty cycle never leaves goal setting, no deadline moves a stage that is not
\* due, and whoever is in a cycle that has gone past a stage has done, in the current
\* revision, what the stage asked for, with the revision's snapshot to show it.
CyclesHold ==
  /\ PerfTypeOK
  /\ Cardinality({c \in CycleIds : Launched(c)}) <= 1 /\ ~early
  /\ \A c \in CycleIds : Launched(c) =>
       /\ (reviewCycle[c].stage = "CLOSED") = (reviewCycle[c].status = "COMPLETED")
       /\ (\A e \in Reviewees : ~review[c][e].in) => reviewCycle[c].stage = "GOAL_SETTING"
       /\ \A e \in Reviewees : Included(c, e) => Earned(c, e)
=============================================================================
