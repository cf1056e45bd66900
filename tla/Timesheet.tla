----------------------------- MODULE Timesheet -----------------------------
(***************************************************************************)
(* The timesheet rows and the weekly submissions of one employee            *)
(* (timesheet_batch_service.rs, timesheet_policy.rs and the entry functions *)
(* of attendance_service.rs).  A row is checked and written by two          *)
(* statements on the pool; a submission reads its rows before its           *)
(* transaction begins; a decision is one transaction that locks the batch.  *)
(* The days of a week are one: the daily and the weekly limit are WeekLimit. *)
(***************************************************************************)
EXTENDS Naturals, FiniteSets, Functions, Sequences, Approval

CONSTANTS
  Rows,      \* timesheet_entry ids
  Weeks,     \* the Mondays
  Batches,   \* timesheet_week_batch ids
  Hours,     \* what an entry may record
  WeekLimit, \* MAX_TIMESHEET_WEEK_HOURS
  Clients,   \* the employee's requests in flight
  Approvers, \* logins that hold timesheet:approve
  Flow,      \* the steps of the TIMESHEET_WEEK_BATCH workflow, a sequence
  NoBatch

ASSUME TimesheetAssumption ==
  /\ Hours \subseteq Nat \ {0} /\ WeekLimit \in Nat /\ NoBatch \notin Batches /\ Weeks # {}
  /\ Flow \in Seq(Range(Flow)) /\ Flow # <<>>

VARIABLES
  entry,      \* the timesheet_entry rows
  batch,      \* the timesheet_week_batch rows, each with the step of its instance
  tsRules,    \* the lock policy, the weeks still editable, whether the workflow is active
  manager,    \* the login of the employee's reporting manager
  client,     \* per request: where it is and what it is about to write
  filed,      \* history: per row, the hours when it was submitted
  signed,     \* history: per batch, the steps acted on since it was last submitted
  disturbed,  \* history: rows whose edit and submission overlapped
  doubled     \* history: weeks of which two first submissions overlapped

tsVars == <<entry, batch, tsRules, manager, client, filed, signed, disturbed, doubled>>

NoRow == [state |-> "NONE", live |-> FALSE, week |-> CHOOSE w \in Weeks : TRUE,
          batch |-> NoBatch, hours |-> 0]
NotYet == [status |-> "NONE", week |-> CHOOSE w \in Weeks : TRUE, step |-> 0]
Ready == [pc |-> "idle", rows |-> {}, week |-> CHOOSE w \in Weeks : TRUE, hours |-> 0]

TsTypeOK ==
  /\ entry \in [Rows -> [state : {"NONE", "DRAFT", "SUBMITTED", "APPROVED"}, live : BOOLEAN,
                         week : Weeks, batch : Batches \cup {NoBatch}, hours : Hours \cup {0}]]
  /\ batch \in [Batches -> [status : {"NONE", "PENDING", "APPROVED", "REJECTED"}, week : Weeks,
                            step : {0} \cup DOMAIN Flow]]
  /\ tsRules \in [lockApproved : BOOLEAN, editable : SUBSET Weeks, workflowOn : BOOLEAN]
  /\ manager \in Approvers
  /\ client \in [Clients -> [pc : {"idle", "create", "update", "delete", "submit", "insert"},
                             rows : SUBSET Rows, week : Weeks, hours : Hours \cup {0}]]
  /\ filed \in [Rows -> Hours \cup {0}]
  /\ signed \in [Batches -> SUBSET DOMAIN Flow]
  /\ disturbed \in SUBSET Rows /\ doubled \in SUBSET Weeks

\* without a policy row the default is no lock (derive(Default))
TsInit ==
  /\ entry = [e \in Rows |-> NoRow] /\ batch = [b \in Batches |-> NotYet]
  /\ tsRules \in [lockApproved : BOOLEAN, editable : {Weeks}, workflowOn : BOOLEAN]
  /\ manager \in Approvers /\ client = [q \in Clients |-> Ready]
  /\ filed = [e \in Rows |-> 0] /\ signed = [b \in Batches |-> {}]
  /\ disturbed = {} /\ doubled = {}

-----------------------------------------------------------------------------
(* Rows *)

RowsOf(w) == {e \in Rows : entry[e].live /\ entry[e].week = w}
Drafts(w) == {e \in RowsOf(w) : entry[e].state = "DRAFT" /\ entry[e].batch = NoBatch}
HoursOf(rows) == FoldFunctionOnSet(+, 0, [e \in Rows |-> entry[e].hours], rows)

\* assert_week_has_no_active_submission
ActiveFor(w) == {b \in Batches : batch[b].week = w /\ batch[b].status \in {"PENDING", "APPROVED"}}

\* assert_work_date_allowed_for_entry
DateAllowed(w) == w \in tsRules.editable

\* assert_entry_mut_allowed
Mutable(e) ==
  /\ entry[e].live /\ entry[e].state # "SUBMITTED"
  /\ ~(tsRules.lockApproved /\ entry[e].state = "APPROVED")
  /\ DateAllowed(entry[e].week)

\* assert_week_hours_with_entry_change
FitsWith(e, w, h) == HoursOf(RowsOf(w) \ {e}) + h <= WeekLimit

Starts(q, work) == client[q].pc = "idle" /\ client' = [client EXCEPT ![q] = work]
Ends(q) == client' = [client EXCEPT ![q] = Ready]

\* rows that some request is about to change; rows that some submission has read
BeingEdited == UNION {client[q].rows : q \in {p \in Clients : client[p].pc \in {"update", "delete"}}}
BeingSubmitted == UNION {client[q].rows : q \in {p \in Clients : client[p].pc \in {"submit", "insert"}}}

CheckCreate(q, e, w, h) ==
  /\ entry[e].state = "NONE" /\ DateAllowed(w) /\ ActiveFor(w) = {} /\ FitsWith(e, w, h)
  /\ \A p \in Clients : e \notin client[p].rows
  /\ Starts(q, [pc |-> "create", rows |-> {e}, week |-> w, hours |-> h])
  /\ UNCHANGED <<entry, batch, tsRules, manager, filed, signed, disturbed, doubled>>

\* a row that is approved may change within its week, if approved rows are not locked;
\* of a draft only the week it goes to must have no submission
CheckUpdate(q, e, w, h) ==
  /\ Mutable(e) /\ DateAllowed(w) /\ FitsWith(e, w, h)
  /\ IF entry[e].state = "APPROVED" THEN w = entry[e].week ELSE ActiveFor(w) = {}
  /\ Starts(q, [pc |-> "update", rows |-> {e}, week |-> w, hours |-> h])
  /\ UNCHANGED <<entry, batch, tsRules, manager, filed, signed, disturbed, doubled>>

CheckDelete(q, e) ==
  /\ Mutable(e) /\ entry[e].state = "DRAFT"
  /\ Starts(q, [Ready EXCEPT !.pc = "delete", !.rows = {e}])
  /\ UNCHANGED <<entry, batch, tsRules, manager, filed, signed, disturbed, doubled>>

Overlap == disturbed \cup (BeingSubmitted \cap BeingEdited)

WriteCreate(q) ==
  /\ client[q].pc = "create"
  /\ entry' = [e \in Rows |-> IF e \notin client[q].rows THEN entry[e]
                 ELSE [state |-> "DRAFT", live |-> TRUE, week |-> client[q].week,
                       batch |-> NoBatch, hours |-> client[q].hours]]
  /\ Ends(q)
  /\ UNCHANGED <<batch, tsRules, manager, filed, signed, disturbed, doubled>>

\* neither write touches the row's status or batch, nor looks at them again
WriteUpdate(q) ==
  /\ client[q].pc = "update"
  /\ entry' = [e \in Rows |-> IF e \notin client[q].rows THEN entry[e]
                 ELSE [entry[e] EXCEPT !.week = client[q].week, !.hours = client[q].hours]]
  /\ disturbed' = Overlap
  /\ Ends(q)
  /\ UNCHANGED <<batch, tsRules, manager, filed, signed, doubled>>

WriteDelete(q) ==
  /\ client[q].pc = "delete"
  /\ entry' = [e \in Rows |-> IF e \notin client[q].rows THEN entry[e]
                 ELSE [entry[e] EXCEPT !.live = FALSE]]
  /\ disturbed' = Overlap
  /\ Ends(q)
  /\ UNCHANGED <<batch, tsRules, manager, filed, signed, doubled>>

-----------------------------------------------------------------------------
(* Submission *)

FirstStep == IF tsRules.workflowOn THEN 1 ELSE 0

\* assert_week_hours_for_submission, the search for a submission and for the drafts:
\* three reads before the transaction
ReadDrafts(q, w) ==
  /\ DateAllowed(w) /\ HoursOf(Drafts(w)) <= WeekLimit
  /\ ActiveFor(w) = {} /\ Drafts(w) # {}
  /\ Starts(q, [Ready EXCEPT !.pc = "submit", !.rows = Drafts(w), !.week = w])
  /\ UNCHANGED <<entry, batch, tsRules, manager, filed, signed, disturbed, doubled>>

\* the rows that were read, whatever became of them
FileRows(rows, b) ==
  /\ entry' = [e \in Rows |-> IF e \in rows
                 THEN [entry[e] EXCEPT !.state = "SUBMITTED", !.batch = b] ELSE entry[e]]
  /\ filed' = [e \in Rows |-> IF e \in rows THEN entry[e].hours ELSE filed[e]]
  /\ disturbed' = disturbed \cup (rows \cap BeingEdited)
  /\ signed' = [signed EXCEPT ![b] = {}]

\* the transaction finds the rejected batch, locks it and opens it again
Resubmit(q, b) ==
  /\ client[q].pc = "submit"
  /\ batch[b].week = client[q].week /\ batch[b].status = "REJECTED"
  /\ batch' = [batch EXCEPT ![b].status = "PENDING", ![b].step = FirstStep]
  /\ FileRows(client[q].rows, b)
  /\ Ends(q)
  /\ UNCHANGED <<tsRules, manager, doubled>>

\* or it finds that the week was submitted meanwhile
RefuseSubmission(q) ==
  /\ client[q].pc = "submit" /\ ActiveFor(client[q].week) # {}
  /\ Ends(q)
  /\ UNCHANGED <<entry, batch, tsRules, manager, filed, signed, disturbed, doubled>>

\* bug: the transaction inserts without looking for the batch of the week
InsertBlindly(q) ==
  /\ client[q].pc = "submit"
  /\ client' = [client EXCEPT ![q].pc = "insert"]
  /\ UNCHANGED <<entry, batch, tsRules, manager, filed, signed, disturbed, doubled>>

\* or it finds none: there is no row to lock
FindNone(q) ==
  /\ client[q].pc = "submit"
  /\ \A b \in Batches : batch[b].status = "NONE" \/ batch[b].week # client[q].week
  /\ client' = [client EXCEPT ![q].pc = "insert"]
  /\ doubled' = IF \E p \in Clients : client[p].pc = "insert" /\ client[p].week = client[q].week
                THEN doubled \cup {client[q].week} ELSE doubled
  /\ UNCHANGED <<entry, batch, tsRules, manager, filed, signed, disturbed>>

InsertBatch(q, b) ==
  /\ client[q].pc = "insert" /\ batch[b].status = "NONE"
  /\ batch' = [batch EXCEPT ![b] =
                 [status |-> "PENDING", week |-> client[q].week, step |-> FirstStep]]
  /\ FileRows(client[q].rows, b)
  /\ Ends(q)
  /\ UNCHANGED <<tsRules, manager, doubled>>

RequestDies(q) ==
  /\ client[q].pc # "idle"
  /\ Ends(q)
  /\ UNCHANGED <<entry, batch, tsRules, manager, filed, signed, disturbed, doubled>>

-----------------------------------------------------------------------------
(* Decisions *)

Subject == [employee |-> "subject", managerLogin |-> manager]
Approver(a) == [who |-> a, employee |-> a, scope |-> {"subject"}, permission |-> "timesheet:approve"]

\* lock_current_timesheet_workflow: a batch without an instance is never actionable
Actionable(a, b, seen) ==
  /\ batch[b].status = "PENDING" /\ batch[b].step # 0 /\ batch[b].step = seen
  /\ MayAct(Approver(a), Subject, Flow[seen])

RowsIn(b) == {e \in Rows : entry[e].live /\ entry[e].batch = b}

\* bug: an approval is the last one whatever the step
ApproveAtOnce(a, b, seen) ==
  /\ Actionable(a, b, seen)
  /\ signed' = [signed EXCEPT ![b] = @ \cup {seen}]
  /\ batch' = [batch EXCEPT ![b].step = 0, ![b].status = "APPROVED"]
  /\ entry' = [e \in Rows |-> IF e \in RowsIn(b)
                 THEN [entry[e] EXCEPT !.state = "APPROVED"] ELSE entry[e]]
  /\ UNCHANGED <<tsRules, manager, client, filed, disturbed, doubled>>

ApproveBatch(a, b, seen) ==
  LET last == seen = Len(Flow) IN
  /\ Actionable(a, b, seen)
  /\ signed' = [signed EXCEPT ![b] = @ \cup {seen}]
  /\ batch' = [batch EXCEPT ![b].step = IF last THEN 0 ELSE seen + 1,
                            ![b].status = IF last THEN "APPROVED" ELSE @]
  /\ entry' = [e \in Rows |-> IF last /\ e \in RowsIn(b)
                 THEN [entry[e] EXCEPT !.state = "APPROVED"] ELSE entry[e]]
  /\ UNCHANGED <<tsRules, manager, client, filed, disturbed, doubled>>

RejectBatch(a, b, seen) ==
  /\ Actionable(a, b, seen)
  /\ signed' = [signed EXCEPT ![b] = {}]
  /\ batch' = [batch EXCEPT ![b].step = 0, ![b].status = "REJECTED"]
  /\ entry' = [e \in Rows |-> IF e \in RowsIn(b)
                 THEN [entry[e] EXCEPT !.state = "DRAFT", !.batch = NoBatch] ELSE entry[e]]
  /\ filed' = [e \in Rows |-> IF e \in RowsIn(b) THEN 0 ELSE filed[e]]
  /\ UNCHANGED <<tsRules, manager, client, disturbed, doubled>>

-----------------------------------------------------------------------------
(* The surroundings *)

\* a week leaves the editable span
CloseWeek(w) ==
  /\ w \in tsRules.editable
  /\ tsRules' = [tsRules EXCEPT !.editable = @ \ {w}]
  /\ UNCHANGED <<entry, batch, manager, client, filed, signed, disturbed, doubled>>

\* upsert_timesheet_lock_policy: HR may also widen the span again
SetLockPolicy(lock) ==
  /\ tsRules' = [tsRules EXCEPT !.lockApproved = lock, !.editable = Weeks]
  /\ UNCHANGED <<entry, batch, manager, client, filed, signed, disturbed, doubled>>

ChangeManager(a) ==
  /\ manager # a /\ manager' = a
  /\ UNCHANGED <<entry, batch, tsRules, client, filed, signed, disturbed, doubled>>

TsNext ==
  \/ \E q \in Clients :
       \/ WriteCreate(q) \/ WriteUpdate(q) \/ WriteDelete(q)
       \/ RefuseSubmission(q) \/ FindNone(q) \/ RequestDies(q)
       \/ \E e \in Rows : CheckDelete(q, e)
       \/ \E e \in Rows, w \in Weeks, h \in Hours : CheckCreate(q, e, w, h) \/ CheckUpdate(q, e, w, h)
       \/ \E w \in Weeks : ReadDrafts(q, w)
       \/ \E b \in Batches : Resubmit(q, b) \/ InsertBatch(q, b)
  \/ \E a \in Approvers, b \in Batches, seen \in DOMAIN Flow :
       ApproveBatch(a, b, seen) \/ RejectBatch(a, b, seen)
  \/ \E w \in Weeks : CloseWeek(w)
  \/ \E lock \in BOOLEAN : SetLockPolicy(lock)
  \/ \E a \in Approvers : ChangeManager(a)

TsSpec == TsInit /\ [][TsNext]_tsVars

-----------------------------------------------------------------------------
(* Properties *)

\* A row agrees with its batch: submitted in a pending one, approved in an approved one,
\* and a draft is in none, however edits, submissions and decisions interleave.  A week
\* has one pending or approved batch unless two first submissions of it overlapped.
WeekAgrees ==
  /\ \A e \in Rows : entry[e].live =>
       CASE entry[e].state = "DRAFT" -> entry[e].batch = NoBatch
         [] entry[e].state = "SUBMITTED" -> batch[entry[e].batch].status = "PENDING"
         [] OTHER -> batch[entry[e].batch].status = "APPROVED"
  /\ \A w \in Weeks \ doubled : Cardinality(ActiveFor(w)) <= 1

\* The hours and the week of a submitted row are those that were submitted, unless an
\* edit of it that had passed its checks overlapped the submission.
SubmittedHoursStand ==
  \A e \in Rows \ disturbed : entry[e].state = "SUBMITTED" =>
    /\ entry[e].live /\ entry[e].hours = filed[e]
    /\ entry[e].week = batch[entry[e].batch].week

\* A batch is approved only after every step of the workflow was acted on since it was
\* last submitted: an approval of an earlier round does not count.
EveryStepSigned ==
  \A b \in Batches : batch[b].status = "APPROVED" => signed[b] = DOMAIN Flow

\* A week's rows, its batch and the signatures under it belong together, and nobody's
\* edit reaches what was submitted.
WeekHolds == TsTypeOK /\ WeekAgrees /\ EveryStepSigned /\ SubmittedHoursStand
=============================================================================
