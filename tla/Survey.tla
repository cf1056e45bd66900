------------------------------- MODULE Survey -------------------------------
(***************************************************************************)
(* Surveys (kabipay-survey): a draft is saved, published to the employees it *)
(* matches at that moment, opened early or by schedule, answered without a   *)
(* name and closed by hand or by the worker's sweep.  Every operation holds  *)
(* the survey's row lock and reads the clock after it, so each is one        *)
(* action; the sweep is many: it pages through the published surveys by id,  *)
(* works on each in a transaction of its own and records a failure in        *)
(* another.  Departments stand for the three kinds of targets (locations and *)
(* chosen employees are treated alike).  Questionnaires, their answers and   *)
(* their aggregation are left out.                                           *)
(***************************************************************************)
EXTENDS Naturals, FiniteSets, FiniteSetsExt

CONSTANTS
  SurveyIds,       \* the survey rows, numbered as the sweep's pages order them
  Respondents,     \* employees with a login
  Units,           \* departments
  Audiences,       \* the sets of departments a draft may be saved with; {} is everybody
  Schedules,       \* opens_at and closes_at of a draft
  SurveyWorkers,
  PageSize,        \* 100 in the code
  LastTick         \* bound: the last instant

ASSUME SurveyAssumption ==
  /\ SurveyIds \subseteq Nat \ {0} /\ IsFiniteSet(SurveyIds)
  /\ PageSize \in Nat \ {0} /\ LastTick \in Nat /\ "none" \notin Units
  /\ Audiences \subseteq SUBSET Units
  /\ Schedules \subseteq [opens : Nat, closes : Nat]

VARIABLES
  survey,      \* survey rows with the saved audience
  assigned,    \* per survey and employee the survey_assignment row
  responses,   \* per survey and department the survey_response rows
  auditLog,    \* per survey what the audit log says of its transitions
  staff,       \* per employee the department and whether a survey may go there
  liveUnits,   \* departments that are not deleted
  tick,
  scan,        \* per worker its sweep
  stuck        \* the survey whose transitions fail, if any

survVars == <<survey, assigned, responses, auditLog, staff, liveUnits, tick, scan, stuck>>

Kinds == {"ALL", "DEPARTMENT", "MISSING"}
NoAssignment == [unit |-> "none", done |-> FALSE]
NoScan == [at |-> "idle", cursor |-> 0, page |-> {}, full |-> FALSE]
Assigned(s) == {e \in Respondents : assigned[s][e].unit # "none"}
Openings(s) == auditLog[s].opened

SurvTypeOK ==
  /\ \A s \in SurveyIds :
       /\ survey[s].status \in {"DRAFT", "PUBLISHED", "CLOSED"} /\ survey[s].kind \in Kinds
       /\ survey[s].targets \subseteq Units /\ survey[s].opens \in Nat /\ survey[s].closes \in Nat
       /\ \A e \in Respondents : assigned[s][e] \in [unit : Units \cup {"none"}, done : BOOLEAN]
       /\ responses[s] \in [Units -> Nat]
       /\ auditLog[s] \in [opened : Nat, failed : Nat, last : {"none", "OPENED", "CLOSED", "FAILED"}]
  /\ staff \in [Respondents -> [unit : Units, eligible : BOOLEAN]]
  /\ liveUnits \subseteq Units /\ tick \in 0..LastTick /\ stuck \subseteq SurveyIds
  /\ scan \in [SurveyWorkers -> [at : {"idle", "page", "failing"}, cursor : SurveyIds \cup {0},
                                 page : SUBSET SurveyIds, full : BOOLEAN]]

\* Old drafts have no saved scope.
SurveyDrafts == [status : {"DRAFT"}, kind : {"MISSING"}, targets : Audiences,
                 opens : {0}, closes : {LastTick + 1}]

SurvInit ==
  /\ survey \in [SurveyIds -> SurveyDrafts]
  /\ assigned = [s \in SurveyIds |-> [e \in Respondents |-> NoAssignment]]
  /\ responses = [s \in SurveyIds |-> [u \in Units |-> 0]]
  /\ auditLog = [s \in SurveyIds |-> [opened |-> 0, failed |-> 0, last |-> "none"]]
  /\ staff \in [Respondents -> [unit : Units, eligible : {TRUE}]]
  /\ liveUnits = Units /\ tick = 0 /\ scan = [w \in SurveyWorkers |-> NoScan]
  /\ stuck \in {{}} \cup {{s} : s \in SurveyIds}

-----------------------------------------------------------------------------
(* Administration *)

\* Any live departments, or none for everybody; the saved scope says which was meant.
SaveSurvey(s, targets, schedule) ==
  /\ survey[s].status = "DRAFT" /\ targets \subseteq liveUnits
  /\ survey' = [survey EXCEPT ![s] = [status |-> "DRAFT", targets |-> targets,
       kind |-> IF targets = {} THEN "ALL" ELSE "DEPARTMENT",
       opens |-> schedule.opens, closes |-> schedule.closes]]
  /\ UNCHANGED <<assigned, responses, auditLog, staff, liveUnits, tick, scan, stuck>>

\* A missing scope passes only with departments that speak for themselves.
ScopeStands(row) ==
  \/ row.kind = "ALL" /\ row.targets = {}
  \/ row.kind \in {"DEPARTMENT", "MISSING"} /\ row.targets # {}

Matches(row, e) == staff[e].eligible /\ (row.targets = {} \/ staff[e].unit \in row.targets)

\* One assignment for everybody who matches now, with the department of this moment.
PublishSurvey(s) ==
  LET people == {e \in Respondents : Matches(survey[s], e)} IN
  /\ survey[s].status = "DRAFT" /\ tick < survey[s].closes
  /\ ScopeStands(survey[s]) /\ survey[s].targets \subseteq liveUnits /\ people # {}
  /\ assigned' = [assigned EXCEPT ![s] = [e \in Respondents |->
       IF e \in people THEN [unit |-> staff[e].unit, done |-> FALSE] ELSE NoAssignment]]
  /\ survey' = [survey EXCEPT ![s].status = "PUBLISHED"]
  /\ UNCHANGED <<responses, auditLog, staff, liveUnits, tick, scan, stuck>>

Logged(s, what) == [auditLog EXCEPT ![s].last = what, ![s].opened = IF what = "OPENED" THEN @ + 1 ELSE @,
                                  ![s].failed = IF what = "FAILED" THEN @ + 1 ELSE @]

\* Only a schedule that lies ahead is opened by hand.
OpenSurvey(s) ==
  /\ survey[s].status = "PUBLISHED" /\ survey[s].opens > tick /\ tick < survey[s].closes
  /\ survey' = [survey EXCEPT ![s].opens = tick] /\ auditLog' = Logged(s, "OPENED")
  /\ UNCHANGED <<assigned, responses, staff, liveUnits, tick, scan, stuck>>

\* A closing by hand leaves no event that the sweep would look for.
CloseSurvey(s) ==
  /\ survey[s].status = "PUBLISHED" /\ survey' = [survey EXCEPT ![s].status = "CLOSED"]
  /\ UNCHANGED <<assigned, responses, auditLog, staff, liveUnits, tick, scan, stuck>>

\* bug: the department of today
CohortToday(s, e) == staff[e].unit

\* the department an answer counts for
Cohort(s, e) == assigned[s][e].unit

SubmitSurvey(s, e) ==
  /\ survey[s].status = "PUBLISHED" /\ survey[s].opens <= tick /\ tick < survey[s].closes
  /\ e \in Assigned(s) /\ ~assigned[s][e].done
  /\ responses' = [responses EXCEPT ![s][Cohort(s, e)] = @ + 1]
  /\ assigned' = [assigned EXCEPT ![s][e].done = TRUE]
  /\ UNCHANGED <<survey, auditLog, staff, liveUnits, tick, scan, stuck>>

-----------------------------------------------------------------------------
(* The worker *)

Published == {s \in SurveyIds : survey[s].status = "PUBLISHED"}

Firsts(n, ids) == {s \in ids : Cardinality({t \in ids : t <= s}) <= n}

\* bug: the cursor stays
PageAgain(w) == Firsts(PageSize, Published)

\* the next page of the published surveys
PageAfter(w) == Firsts(PageSize, {s \in Published : s > scan[w].cursor})

FetchPage(w) ==
  LET page == PageAfter(w) IN
  /\ scan[w].at = "idle" \/ (scan[w].at = "page" /\ scan[w].page = {} /\ scan[w].full)
  /\ scan' = [scan EXCEPT ![w] = IF page = {} THEN NoScan ELSE
       [at |-> "page", cursor |-> Max(page), page |-> page, full |-> Cardinality(page) = PageSize]]
  /\ UNCHANGED <<survey, assigned, responses, auditLog, staff, liveUnits, tick, stuck>>

\* a short page is the last one
EndSweep(w) ==
  /\ scan[w].at = "page" /\ scan[w].page = {} /\ ~scan[w].full /\ scan' = [scan EXCEPT ![w] = NoScan]
  /\ UNCHANGED <<survey, assigned, responses, auditLog, staff, liveUnits, tick, stuck>>

DueAction(s) ==
  IF survey[s].status # "PUBLISHED" THEN "none"
  ELSE IF survey[s].closes <= tick THEN "CLOSED"
  ELSE IF Openings(s) = 0 /\ survey[s].opens <= tick THEN "OPENED" ELSE "none"

Next1(w) == Min(scan[w].page)
Passed(w) == [scan EXCEPT ![w].page = @ \ {Next1(w)}, ![w].at = "page"]

ProcessSurvey(w) ==
  /\ scan[w].at = "page" /\ scan[w].page # {} /\ Next1(w) \notin stuck
  /\ LET s == Next1(w) IN
       /\ survey' = [survey EXCEPT ![s].status = IF DueAction(s) = "CLOSED" THEN "CLOSED" ELSE @]
       /\ auditLog' = IF DueAction(s) = "none" THEN auditLog ELSE Logged(s, DueAction(s))
  /\ scan' = Passed(w)
  /\ UNCHANGED <<assigned, responses, staff, liveUnits, tick, stuck>>

\* The transaction rolls back and the sweep goes on.
ProcessFails(w) ==
  /\ scan[w].at = "page" /\ scan[w].page # {} /\ Next1(w) \in stuck
  /\ scan' = [scan EXCEPT ![w].at = "failing"]
  /\ UNCHANGED <<survey, assigned, responses, auditLog, staff, liveUnits, tick, stuck>>

\* Said once, until something else happens to the survey.
RecordFailure(w) ==
  /\ scan[w].at = "failing" /\ scan' = Passed(w)
  /\ LET s == Next1(w) IN
       auditLog' = IF survey[s].status = "PUBLISHED" /\ auditLog[s].last # "FAILED" THEN Logged(s, "FAILED") ELSE auditLog
  /\ UNCHANGED <<survey, assigned, responses, staff, liveUnits, tick, stuck>>

SurveyWork(w) == FetchPage(w) \/ EndSweep(w) \/ ProcessSurvey(w) \/ ProcessFails(w) \/ RecordFailure(w)

-----------------------------------------------------------------------------
(* The world around *)

Moves(e, unit, eligible) ==
  /\ staff' = [staff EXCEPT ![e] = [unit |-> unit, eligible |-> eligible]]
  /\ UNCHANGED <<survey, assigned, responses, auditLog, liveUnits, tick, scan, stuck>>

UnitDeleted(u) ==
  /\ liveUnits' = liveUnits \ {u}
  /\ UNCHANGED <<survey, assigned, responses, auditLog, staff, tick, scan, stuck>>

Recovers ==
  /\ stuck # {} /\ stuck' = {}
  /\ UNCHANGED <<survey, assigned, responses, auditLog, staff, liveUnits, tick, scan>>

Tick ==
  /\ tick < LastTick /\ tick' = tick + 1
  /\ UNCHANGED <<survey, assigned, responses, auditLog, staff, liveUnits, scan, stuck>>

SurvNext ==
  \/ \E s \in SurveyIds :
       \/ \E targets \in Audiences, schedule \in Schedules : SaveSurvey(s, targets, schedule)
       \/ PublishSurvey(s) \/ OpenSurvey(s) \/ CloseSurvey(s) \/ \E e \in Respondents : SubmitSurvey(s, e)
  \/ \E w \in SurveyWorkers : SurveyWork(w)
  \/ \E e \in Respondents, u \in Units, x \in BOOLEAN : Moves(e, u, x)
  \/ \E u \in Units : UnitDeleted(u)
  \/ Recovers \/ Tick

\* A worker's poll loop comes round again.
SurvFairness == \A w \in SurveyWorkers : WF_survVars(SurveyWork(w))

SurvSpec == SurvInit /\ [][SurvNext]_survVars /\ SurvFairness

-----------------------------------------------------------------------------
(* Properties *)

\* A survey reaches whom its saved audience meant and nobody else, whatever became of the
\* people and departments since (publication_employees, new_assignment); an answer counts
\* once, for the department frozen at publication (submit_survey); a survey opens once, by
\* hand or by the sweep, and nobody answered before; and a transition that keeps failing is
\* reported once (record_transition_failure).
SurveysHold ==
  /\ SurvTypeOK
  /\ \A s \in SurveyIds :
       LET row == survey[s] IN
       /\ (Assigned(s) = {}) = (row.status = "DRAFT")
       /\ \A e \in Assigned(s) : row.kind = "ALL" \/ assigned[s][e].unit \in row.targets
       /\ \A u \in Units :
            responses[s][u] = Cardinality({e \in Assigned(s) : assigned[s][e].done /\ assigned[s][e].unit = u})
       /\ tick < row.opens => Openings(s) = 0 /\ \A u \in Units : responses[s][u] = 0
       /\ Openings(s) <= 1 /\ auditLog[s].failed <= Openings(s) + 1

\* A survey whose time is over is closed although another one fails in every sweep
\* (process_due_surveys pages by id and goes on after an error).
DueSurveysClose ==
  \A s \in SurveyIds :
    (survey[s].status = "PUBLISHED" /\ survey[s].closes <= tick /\ s \notin stuck) ~> survey[s].status = "CLOSED"
=============================================================================
