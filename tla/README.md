# Formal models of the KabiPay HRMS services

TLA+ models of `hrms-svc`, the Rust back end of the KabiPay HRMS, with the TLC
runs that check them on small instances and the proofs that TLAPS checks for
every instance.  Paths are relative to `src/crates/` unless they start with
`src/`.

## 1. The system

Every `kabipay-<domain>` crate is a GraphQL subgraph over one PostgreSQL database
per tenant; `kabipay-common` holds what they share.  A mutation is one request
handled by one async task: it opens a transaction (or issues autocommitted
statements), locks the rows it needs, checks, writes, commits, and then does best
effort work outside the transaction (notifications, object storage).  Several
replicas of every service run at once, so two requests interleave at every
statement that holds no common lock.  `kabipay-outbox-worker` is the only
background process: for each tenant, in turn, it reclaims and delivers outbox
rows, deletes private files, expires upload stages, offboards leavers, and moves
surveys and performance cycles along.  Nothing is kept in memory but caches.

| Component | State | Operations | Correct when |
|---|---|---|---|
| Outbox worker (`kabipay-outbox-worker`), requeue and subscriptions (`kabipay-analytics`), entitlements (`kabipay-common/src/entitlements.rs`) | `outbox_event` (status, retry_count, claimed_at), `webhook_subscription`, module subscriptions | claim, deliver, mark, reclaim, requeue | a delivered row was delivered to everybody, a row is given up only after the cap, every row is settled |
| Leave (`kabipay-leave`) | `leave_request`, `leave_balance`, `leave_type`, `leave_policy`, `workflow_instance`, `workflow_action` | submit, approve, reject, withdraw, correct, adjust, provision | balances account for requests, no half day taken twice, approved only by every step |
| Comp-off (`kabipay-leave/src/services/comp_off.rs`) | `comp_off_claim`, `comp_off_credit`, `comp_off_allocation`, policies | claim, decide, reserve, use, release, cancel | credits are never overdrawn or used after expiry, earning caps hold |
| Workflow definitions (`kabipay-workflow`) and approval rules (`kabipay-common/src/workflow_*.rs`) | `workflow`, `workflow_step` | create, delete, reorder, authorise | editing a definition strands no request and skips no step silently |
| Private files (`kabipay-common/src/private_file_cleanup.rs`, uploads in several crates) | `file_storage`, `file_upload_stage`, `private_file_cleanup_task`, objects in S3 or on disk | upload, claim, sweep, delete, retry | a referenced object is never deleted, an unreferenced one is in the end |
| Offboarding (`kabipay-common/src/due_offboarding.rs`, separation in `kabipay-employee`) | `separation`, `employee.status`, `user.is_active`, `user_session` | approve, revert, offboard | an offboarded user has no session, one event per separation |
| Authentication (`kabipay-auth`) | `user`, `user_session`, refresh tokens, roles | log in, refresh, log out, reset | an inactive user gets no token |
| Employee records (`kabipay-employee`) | profiles, documents, change requests, candidates, assets of leavers | request, approve, reject, upload | a change request is applied once, on the value it was made for |
| Attendance (`kabipay-attendance`) | `attendance`, punches, regularisations, `timesheet` and week batches, calendars | punch, sweep, regularise, submit, decide | a day is settled once, an approved week is not changed |
| Expense and travel (`kabipay-expense`) | `expense`, `travel_request`, policies, payment status | submit, approve in part, reject, pay | paid only if approved, approved amount within the claim |
| Assets (`kabipay-assets`) | `asset`, `asset_allocation`, return log | create, assign, return, retire | at most one holder, retired assets have none |
| Payroll (`kabipay-payroll`) | payroll runs, payslips, arrears, components | draft, recompute, finalise | a finalised payslip is what was previewed, arrears are paid once |
| Tax (`kabipay-tax`) | declarations, proofs, regimes | declare, submit proof, verify | the total is that of the approved proofs |
| Performance (`kabipay-performance`) | cycles, stages, reviews | open, submit, calibrate, publish, deadlines | nobody is in a stage without what the earlier ones ask for, deadlines apply once |
| Survey (`kabipay-survey`) | surveys, targets, responses | publish, submit, close | one response per target, none after closing |
| Notification (`kabipay-notification`) | notifications, announcements, videos, celebrations | send, dedupe, upload | an announcement keeps its files, nobody is told of an occasion twice |
| Tenant provisioning and import (`kabipay-ops`, `kabipay-tenant-import`) | tenants, databases, import batches | provision, preview, apply, reset | an import is applied once or not at all |
| Shared infrastructure (`kabipay-common`) | tenant pool cache, business clock, working calendar, data scopes | resolve, lock, bump | readers of a calendar see one revision |
| Analytics, benefits, compensation, grievance, LMS, recruitment, succession | one table each or reports | create, read, update | row-level rules |
| `kabipay-db-entities` | generated entities | none | not applicable |

Interactions.  Business services and the worker share the outbox table (producer
and consumer); leave, expense, travel and timesheets share the workflow tables and
the approval rules; offboarding changes the employment status that every decision
reads; the working calendar is read by leave and attendance under a tenant lock;
the worker and the upload services share the upload stages and cleanup tasks.

What is hard.  (a) Statements that check and then write by id without a lock.
(b) Definitions, types and balances that HR edits under requests in flight.
(c) Claims that outlive their worker, and workers that outlive their claims.
(d) Work after the commit that may not happen.  (e) Objects in a store that no
transaction covers.  The full list, line by line, is under `hazards` in
`PROJECT.json`.

## 2. Plan

The modules came in the order of what would hurt most if it were wrong.

| # | Module | State | What it is for |
|---|---|---|---|
| 1 | `Outbox`, `Delivery`, `OutboxProofs` | done, refined, proved | every business event leaves through it |
| 2 | `Leave`, `LeaveProofs`, `Reservations` | done, refined, proved | balances, overlap, approval by steps, edited workflows |
| 3 | `CompOff` | done, refined, proved | credits with expiry and limits over leave and cancellation |
| 4 | `FileCleanup` | done, proved | objects and rows across crashes |
| 5 | `Sessions`, `Offboarding`, `Settlement` | done, proved | accounts, leavers, what they are paid in the end |
| 6 | `Approval`, `Timesheet`, `Claims` | done, proved | weeks, expense claims and trips under approval by steps |
| 7 | `Attendance`, `Payroll`, `Performance`, `Survey` | done, proved | day windows and open punches; a draft whose inputs change; stages that move on and are reopened; audiences and answers |
| 8 | `Profile`, `Assets`, `Tax` | done, proved | reviewed details; one holder per asset and an order of locks; the total of approved proofs |
| 9 | `Prejoining`, `Announcements`, `Celebrations` | done, proved | who joins is whom HR approved; files that follow their announcement; notices under consent, once |
| 10 | `SumTheorems`, `OfficeProofs`, `PeopleProofs`, `WorkProofs`, `AnnouncementsProofs`, `FileTaxProofs` | done | the safety invariants of 3 to 9 for every instance, and the facts about sums that they need |

"Proved" is said of the safety properties that the runs check; liveness is checked only.

Left, in this order: an abstract specification of approval by steps, which `Leave`,
`Timesheet` and `Claims` should be shown to implement; action properties for
what the proofs use in passing (a decided request stays decided, a frozen day stays where
it is, a processed payslip is never written again); revisions of the working calendar, and
the import of a tenant's data.

Composition.  `Offboarding` extends `Sessions`: an offboarding switches off the account
that log in, refresh and HR's operations work on, and all of their steps interleave.
`Timesheet` and `Claims` use the operators of `Approval`.  `Leave` inserts the rows that
`Outbox` delivers (its `events` are `Publish` there), and so do `Offboarding`
(`leavings`), `Profile` (`decided`) and `Claims` (`approvedEvents`): each of these
modules shows that an event is written exactly once with its cause, in the same
transaction, and `Outbox` shows what becomes of a written row (the one of an offboarding
stays PENDING, its aggregate type being none that `outbox_aggregates` names).  `Delivery` is the
abstract specification of the outbox: messages, endpoints, "delivered" and "given up",
without workers, claims, locks or clocks.  `Reservations` is the abstract specification
of an account that leave is taken from, implemented twice: by the balances of `Leave`
and by the credits of `CompOff`.

## 3. The modules

Conventions.  A database transaction that holds a common row lock from its first
read on is one action; where the code reads without a lock and writes later, the
read and the write are two actions.  Variables marked "history" in a module are not
in the program: they record what happened so that a property can speak of it.
Bounds carry names that begin with `Max`.  Definitions under a comment "bug:" belong
to no specification; each is the mutated form of the definition that follows it,
named under `mutants` in `PROJECT.json`, and shows that a property of the runs
notices such a bug.

### Outbox

`outbox_event` rows are `status`, `retry`, `claimAge` (how long ago `claimed_at` is,
in ticks) and `rowLock` (FOR UPDATE SKIP LOCKED).  A worker's sweep is
`BeginSweep` (reclaims what is stale), `LoadEntitlements`, `ClaimPick`, `ClaimCommit`,
`LoadSubs`, one `PostAcked` per endpoint or `DeliveryFails`, `MarkRead` and
`MarkProcessed` or `MarkFailure`: `mark_processed` and `mark_failure` read the row in
one statement and write it by id in another.  `Abandon` is a crash, or an error that
ends the sweep.  HR's `requeue_outbox_event` is `RequeueRead` and `RequeueWrite`.
Payloads, signatures and the delivery log are left out.  A POST may take until its
timeout (`PostTicks`), and `Tick` cannot pass a POST that is due to time out.

Seen while modelling, and stated by no property because the repository promises
nothing about it: a first endpoint that keeps failing keeps the later ones from
being posted to; a manual requeue leaves `retry_count` at its cap, so the row gets
one more attempt; a failed row is due again at once, although the header of
`kabipay-outbox-worker/src/main.rs` speaks of a backoff.

### Leave

A request is its `status`, `period`, `charged` days, workflow instance (`inst`,
`cur`) and the steps that acted on it; a balance is a record with the stored
`available` beside its parts, because the code stores all of them.  `Submit`,
`ApproveStep`, `ApproveFinal`, `Reject` and `Withdraw` are one transaction each.
`CreateStep`, `DeleteStep` and `ReorderSteps` edit the definition that instances
stand in, `UpsertBalance`, `AdjustEntitlement` and `ProvisionBalances` write
balances, `FlipPaid`, `DeleteType` and `SetPolicy` change the types.  Days are
counted in halves, the calendar is given (`WorkingDates`), roles and scopes of
approvers are the sets `Approvers[s]`.

### CompOff

One employee.  Claims and the credits they become are functions over `Claims`;
`allocs` is the set of `comp_off_allocation` rows.  Every call draws the business
date `d` it works with from the last `Lag` days: the resolvers read the tenant's
clock before the transaction begins.  `SubmitLeave` reserves in the order of expiry
(`plan_allocations`), `ApproveLeave` and `CloseLeave` settle, `CancelApproved` gives
used units back before the leave begins.  The policy that `select_policy` finds is
one variable that HR sets; a claim stores the policy it was made under (`snap`).

### Reservations

What both kinds of leave promise about the accounts they draw on.  A request takes its
`share` of every account when it is submitted (`Hold`), which must fit within what the
account was granted; its decision moves exactly that share (`Spend`, `Release`), as does
the cancellation of an approved leave (`Refund`); grants change, but not below what is
promised (`Grant`).  `Overrule` is HR writing over an account: from then on its counters
may move otherwise, but a decision never adds to what it promises.  There are no
workflows, dates, calendars or allocation rows.

`Leave` maps a balance key to an account (`Books`): `PendingDays` and `UsedDays` are its
counters, `Shares` what a request charged to it, and the overruled accounts are the
`disturbed` balances.  In `CompOff` every credit is an account (`CreditBooks`): `TakenUnits`
adds up the rows of a request, whatever their status has become, `EarnedUnits` is what
the claim earned, and nothing is ever overruled.  The first says that the decision, which
asks the leave type whether it is paid and the request for its `days_requested`, moves
what the submission reserved; the second, that rewriting the rows of a request moves what
the plan had spread over credits and dates.

### Delivery

The promise of the outbox for one message: sent, reached, missed, delivered, given up,
taken back.  `Outbox` defines the mapping (`Promise`, with `done` the PROCESSED rows and
`dead` the FAILED ones, `taken` the rows a reclaim or a requeue took from their worker)
and the property `DeliversAtLeastOnce`.

### FileCleanup

Uploads of company documents are `Uploading`: three separate writes (one to the store,
two autocommitted inserts), each with its error (a reported error may hide a committed
row) and its compensation (a tombstone for the object, or for the new file).
`Publishing` turns the stage into a document under the stage's lock, or compensates a
publication that failed; `SweepStage` removes an upload that expired, `DeleteDocument`
one with its document.  A tombstone runs through the steps of `Working`: claimed, the
object deleted or not, the outcome recorded; the claim token is the worker that drew it,
and `ClaimAges` and `RetryDue` are the passing of time.  Two things are left open by the
code and are recorded in `lost`: an upload whose process dies between its writes, and a
write to the store that reports an error after it left bytes there; no tombstone names
them.  That a stage disappears with its file is a foreign key in migrations that are not
in the repository; the comments at `private_file_cleanup.rs:552` and
`company_document_service.rs:254` say so.

### Sessions, Offboarding

No handler of `kabipay-auth` opens a transaction, so `LoginRead` and `Issue`,
`RefreshLookup`, `RefreshCheck`, `RefreshConsume` and `Issue`, `ChangeRead`,
`ChangeWrite` and `ChangeRevoke` are one statement each, and a request may die between
them.  HR's operations read the employee without a lock, so `ProvisionRead` and
`ProvisionWrite`, `UpdateRead` and `UpdateWrite` are two steps each.  A request notes
whether it began after the account was switched off, which is what
`InactiveGetsNoToken` speaks of: a login that read the account before may leave a
session behind, and does.  `Offboarding` adds `File`, `Approve`, `RejectSeparation`,
`LastDayComes` and the worker's sweep: a list of due separations read outside any
transaction, one transaction for each, and the end of the sweep at the first failure.

### Settlement

The settlement of one separation and its clearance lines.  Only the creation with the
approval is a transaction; `BackfillRead` and `BackfillWrite`, `EditRead` and
`EditWrite`, `FinalizeRead` and `FinalizeWrite` are separate and unlocked.  The two
histories `seeding` and `edited` mark exactly the overlaps that the code does not
exclude.

### Profile

One employee's details (a row each for PAN, Aadhaar and bank account in the code, one
kind here), change requests and HR's direct writes of the same rows, and education and
work records with evidence.  Reviews lock the row they decide; the rows of a detail and
the links of evidence are read first and written later (`SubmitRead`/`SubmitInsert`,
`ApproveRead`/`ApproveWrite`, `UpsertRead`/`UpsertWrite`, `LinkCheck`/`LinkInsert`/
`LinkMark`).

### Approval, Timesheet, Claims

`Approval` holds the rules of `workflow_approval.rs` as operators.  In `Timesheet` an
entry is checked (`CheckCreate`, `CheckUpdate`, `CheckDelete`) and written (`Write...`) by
two statements; a submission reads its drafts (`ReadDrafts`), and then looks for the
week's batch, which it locks if there is one (`Resubmit`) and inserts if there is none
(`FindNone`, `InsertBatch`); `ApproveBatch` and `RejectBatch` take the step the approver
has seen.  In `Claims` a submission reads the rules and the month (`ReadForClaim`) and
commits (`CommitClaim`), possibly after another one; `AdvanceRequest`, `GrantClaim`,
`GrantTrip` and `RefuseRequest` decide a step; `MarkPayment` is the payment desk.
`overlapped` and `reached` mark what the code does not promise: overlapping
submissions, and rules that change after a claim was made.

### Assets

Every operation is a transaction that takes its row locks one at a time (`TakeLock`),
then checks (`CheckJob`), then commits or rolls back.  The lock lists are those of the
code, in its order: that is what makes `JobsFinish` worth checking.

### Attendance

Time is a number of units, of which a day has `DayLength`; a boundary version shifts the
days from its date on, a time zone shifts all that are not frozen.  `Schedule` is the
proposal of a policy change with its transition day; a day's window is frozen by the
first punch or correction in it.  `PunchIn`, `PunchOut`, `AddSegment` and `AmendSegment`
are one action each, because all of them take the tenant's policy lock before they read
the clock.  `Sweep` reads a list of at most `SweepLimit` rows and expires them one
transaction at a time, each of which may fail.  A punch that was open when the tenant had
no profile yet is `Legacy`: until the first operation that needs a window its day is not
frozen, so that a change of the time zone moves the day away from under it, and it may
begin before its day does.  Everything else that is closed lies in its day.

### Payroll

`CalculatePayrollCycle` and `FinalizePayrollCycle` lock all input tables, `OpenReview`
shows a draft to a clerk, and the writers of salaries, inputs, arrears, leave and
holidays commit before or after.  The fingerprint digests all rows with their revisions
and never returns to an earlier value; it is the number of writes.  `SeekCycle` and
`InsertCycle` are the unlocked creation of a month's cycle.

### Performance

`ReadForActivation` and `ActivateProgram` are apart, as is the sweep's `ListDueCycles`
from `AdvanceDueCycle`; everything on a review holds its cycle's lock and is one action.
`GoalStep` and `ReviewStep` are what participants, managers and HR do in a stage,
reopening in a new revision included.

### Survey

`SaveSurvey`, `PublishSurvey` (which freezes the audience with its departments),
`OpenSurvey`, `SubmitSurvey` and `CloseSurvey` hold the survey's lock.  `SurveyWork` is
the worker: it pages by id, works on each survey in a transaction of its own and records
a failure once.  `stuck` is a survey whose transition keeps failing.

### Tax

A request is a list of statements, each of which may be the last: `BeginSubmission`, the
locks of the employee and the line, the sum, the write and the commit; a decision takes
the line first and the employee last, which is why a deadlock is among its ends.  HR's
settings and definitions and the history of earnings run in the same way.
`stale` marks a request whose sum was read before another one committed a total, and
`outdated` the employees whose total was written from such a sum; the run `tax_overlap` shows that this happens.

### Prejoining

A candidate's row is `applicant`: status, revision, form, the requirements it was
invited under and the link that is valid.  Every write locks the row and compares the
revision the caller sends (`ActsOn`, `CheckRevision`), so `Reissue`, `Review`, `Confirm`,
`SaveAnswers`, `Upload` and `DeleteDocument` are one action each.  The reads are not in a
transaction: `OpenScreen` is the row and `LoadFiles` the documents, later.  `approvedAs`
is the history that `ApprovedAsShown` compares with: what the approving HR user saw.
`Confirm` and `HireDirectly` compete for emails and employee codes, which are unique in
the database.

### Announcements

Attachments are written before the transaction (`Begin`, then `InsertRow`), so a call may
die or fail with a file that nothing refers to; `CleanUp` is `cleanup_attachment_ids`.  When
the store reports an error (`StoreFails`), the upload returns before there is a row or a
tombstone, and a part of the object or all of it may be there.  When the insert is reported
as failed (`InsertFails`) the object gets a tombstone, whether or not the row was committed:
if it was, the row stays and its object goes.  The fallback from S3 to local files is a
further `Begin` with another file.  A commit whose answer is lost (`answered` is FALSE)
sends a call that succeeded into its own clean-up.  A video is a `stage`: `Prepare`, an upload
under the stage's lock (`BeginUpload`, `WriteBody`, `FinishUpload`, `AbandonUpload`), the
claim in `CreateAnnouncement` or `UpdateAnnouncement`, or `SweepStage`.  An S3 upload has
a second path, the quarantine copy, which is `spool`.  `Purge` is the worker of
`FileCleanup`, taken as one step.  Two history variables name what the code leaves behind:
`lost` the files of calls that died, of writes that the store reported as failed, and of
databases that were out when a tombstone was due; `unanswered` the rows of inserts that
committed and were reported as failed.  `NothingLost` says that nothing else is left: not
the bytes of an `unanswered` file either, once the worker has been there.

### Celebrations

A sweep of one worker: `ReadClock`, `ReadSettings`, `ReadEmployees`, `ReadUsers`, then one
`Tell` per recipient, which is the transaction of a notification and its row in the
ledger; `SweepEnds` is an error, the death of the worker, or too early an hour.  HR's
settings and the employees' consents are saved at any moment.  Dates are real ones,
because which day stands for the 29th of February is the point.  Employees who leave
during a sweep are left out.

### The instances

`MCPeople`, `MCWork`, `MCOffice` and `MCProgress` extend several modules that share no
table.  Their variable `part` chooses, in the initial state, one of them: in a behaviour
that component takes its steps and the others keep one initial state.  Components
without a common variable would only multiply each other's states, so nothing is lost
by taking one at a time, and one run checks a group of them.  (In `MCOffice`, `Tax` is
three parts: proofs, settings and history, which share the rows of tax settings at
most.)

## 4. The runs

| Run | Instance | What it shows |
|---|---|---|
| `outbox_safety` | 2 workers, 2 rows, a subscription and the global hook, cap 2, one crash, one requeue | a PROCESSED row was acknowledged by all it had to be, the cap is honoured, two deliver one row only after a reclaim or requeue, and `Outbox` implements `Delivery` |
| `outbox_drains` | 1 worker, 2 rows (the older a legacy row whose module comes and goes), 2 subscriptions, one crash, one requeue | rows of entitled modules settle, also behind one that stays PENDING |
| `outbox_requeue_race` | 1 worker, one requeue | violated: a PROCESSED row is reopened |
| `leave_safety` | 2 requests of one employee, 1 type, 2 steps and a third that HR may create, one edit, corrections and adjustments, an employee who leaves and comes back | all safety properties of `Leave`, and that it implements `Reservations` |
| `leave_deleted_step` | 1 request, one deletion | violated: the request never gets a step again |
| `leave_unpaid_hold` | 1 request, the type may turn unpaid | violated: a rejection leaves the days pending |
| `office_safety` | comp-off: 3 claims for 2 worked days, 2 leave requests, 4 days, 2 policies, dates a day old; one survey, 2 workers; one asset, 2 categories, 2 transactions; 2 proof lines, 2 employees with settings, 2 history entries | the safety properties of `CompOff`, `Survey`, `Assets`, `Tax`, and that `CompOff` implements `Reservations` |
| `people` | 2 accounts, 2 requests, 2 sweepers; 2 clerks and 2 managers on 2 requests and records; 2 officers; 2 files, callers and workers; 3 days with 2 zones and 2 boundaries; 2 participants, 2 goals, 2 revisions | the safety properties of `Sessions`, `Offboarding`, `Profile`, `Settlement`, `FileCleanup`, `Attendance`, `Performance` |
| `work` | one row in two weeks, 2 batches, 2 requests of the employee; 2 claims and a trip; 2 cycles over 2 months, 2 clerks; a candidate, 2 screens, 4 revisions, one upload; 2 days, 2 workers | the safety properties of `Timesheet`, `Claims`, `Payroll`, `Prejoining`, `Celebrations` |
| `announcements` | 2 announcements, 2 attachments (so that one can replace the other), a video, 2 calls of one user, local and S3 stages | `Announcements`: files stay readable and unshared, and only what the model names as left behind is left |
| `progress` | 2 separations and 2 sweepers; 2 employees; one asset, 2 transactions; 2 uploads, 2 workers; 2 surveys, one of which may fail; 1 leave request under a workflow that is edited three times | what must happen in the end, under fairness |
| `tax_overlap` | 2 decisions on 2 lines of one employee | violated: the stored total lacks an approved line |

The liveness properties of `progress`: a due separation is carried out although a
failure ends the sweep of those behind it (`DueOffboarded`); a punch without an end
expires although a sweep takes a bounded number (`MissedPunchesExpire`); transactions on
assets end whatever they wait for (`JobsFinish`); tombstones are completed and stages are
swept (`CleanupFinishes`); a survey whose time is over closes although another one fails
in every sweep (`DueSurveysClose`); a pending leave request is decided while steps are
added and reordered (`EventuallyDecided`).

Each invariant of a run of several parts whose name ends in `Hold` or `Holds`, or is
`OffboardedOnce`, `SettledOnce`, `FilesAgree` or `AssetsAgree`, is a conjunction:
the type invariant of its module (for `TokensHold` it is in `OffboardedOnce`) and its named
parts, each with its own comment.

Why these bounds are enough.  Two of a kind are what a race needs: two workers on a
row, two requests for a day, two publications of a stage, two clerks on a record, two
submissions of a week; a second row or file makes the queue matter.  One crash and one
manual intervention beside them put each at every point of a delivery.  A cap of two
failures separates "failed" from "given up".  Two steps, with one added or deleted, let
an edit fall before, at and after the current one.  Four days of comp-off hold two
worked days, a deadline, two expiries, a month's end (after day 2) and a year's end
(after day 3); the limits of the policies are below what the claims could add up to, so
that each of them refuses some approval.  A daily or monthly limit of two with amounts
of one and two is met exactly, by one claim and by two, and exceeded.  Three dates
around a boundary change hold the day before it, the transition and the day after.  Two
payroll months hold a leave that spans both.  Four revisions of a candidate are enough
for a form, a submission and an approval with one more write between any two of
them, or with the joining.  A 28th of February in a year without
and a 29th in a year with one are the two days that may stand for that date.  A batch of
one in a sweep is the case in which what fails first could starve the rest.  Symmetry is used only in runs
without liveness, over sets that no constant of the run tells apart; an id of one part
serves another part as well, since a behaviour has only one part that moves.

Fairness.  `Outbox`: the worker loops for ever and each POST has a timeout, so its
steps, the end of a requeue call and time are weakly fair; subscriptions, HR and
crashes are not.  `Leave`: only deciding a request is fair (an approver who can
decide does so), which is an assumption about people and not about the code; edits,
submissions and withdrawals are not.  `FileCleanup`: time and the worker's loop are
weakly fair, and the deletion and the completion are strongly fair while the worker
still owns its claim: among attempts made again and again, some delete the object and
record it within the five minutes.  Without it the store could fail for ever, or
every worker be too slow for ever, and no code could help.  `Offboarding`, `Attendance`,
`Survey`: the poll loop of a worker comes round again; faults are not fair and are
bounded.  `Assets`: a lock request is strongly fair, because PostgreSQL queues those who
wait, and a transaction that has all its locks goes on; nothing makes a waiting one give
up, so that a cycle of waits would show.  Nothing is fair about what users do.  A part
that does not move in a behaviour of `progress` has no fair step enabled in the initial
state it keeps.

Deadlock is checked in the runs of `Outbox` and `Leave`.  `announcements` and the runs of
several parts turn the check off (`CHECK_DEADLOCK FALSE`): each of their components really stops, when
everything that the instance has was uploaded, decided, paid, deleted or removed.

### Disagreements found

1. `requeue_outbox_event` says that only FAILED or PROCESSING rows can be requeued; its
   check and its write are separate statements, and a row that is marked PROCESSED in
   between is reopened (`outbox_requeue_race`).
2. `workflow_current_step.rs` promises that a cleared `current_step_id` is repaired by
   the mutations; none of them calls the repair, and approve and reject refuse the
   request for good (`leave_deleted_step`).
3. `reject_leave_request` releases the hold only if the type is paid at that moment, not
   if the submission reserved anything (`leave_unpaid_hold`).
4. `recompute_total_deductions_from_approved_proofs` says that it writes the sum of the
   approved lines; it reads that sum before it takes the employee's lock, and of two
   decisions that overlap the second writes a sum without the first (`tax_overlap`).

### Seen while modelling

What the modules show, or the reading for them did, and no property states because the
repository promises nothing, or nothing clear, about it.

- Outbox: rows of disabled or unknown domains stay PENDING without retries, as the worker's
  comment says (`kabipay-outbox-worker/src/main.rs:484`); the offboarding event's type
  `separation` is one of those unknown to `outbox_aggregates`.  A first endpoint that keeps
  failing keeps later ones from being posted to; a requeue leaves `retry_count` at its cap; error texts are cut at a byte index
  (`kabipay-outbox-worker/src/main.rs:305`), which panics inside a multi-byte character
  before `retry_count` is stored.
- Sessions: a refresh in flight survives a password change that "revokes all refresh
  sessions" (`kabipay-auth/src/handlers.rs:421`); two provisionings at once leave an active
  account that no employee refers to; activating an employee again does not activate the
  account.
- Settlement: an edit that had read the draft changes a settlement after it was processed.
- Profile: two first writes leave two primary rows; one document may be evidence of two
  records, and its rejection shows at both.
- Timesheet: two first submissions of a week leave two batches; a draft created while its
  week is submitted stays behind; a batch submitted without a workflow stays PENDING and
  locks its week; an approver who saw step 1 of an earlier round may approve step 1 of
  this one.
- Claims: the monthly limit is not locked; a claim may name a rejected trip; PAID may be
  reverted; the pending claims of a leaver cannot be decided.
- Payroll: two creations of a month's cycle at once leave two; an edit by HR or the
  finalisation of another cycle makes every draft stale.
- Performance: an activation that had read a program brings it back after it was archived;
  a program that requires less than the full goal weight never leaves goal setting;
  reopening one participant to an earlier stage and another to a later one strands the
  first until somebody reopens again.
- Pre-joining: deleting a document does not give its share of the upload limit back.
- Announcements: one that is scheduled for later notifies nobody, because visibility is
  looked at only when it is created; a call that dies between storing an attachment and
  its transaction, or a write that the store reports as failed, leaves an object that nobody
  looks for; an insert whose answer is lost leaves a row whose object is deleted.
- Celebrations: one message that cannot be made (a name too long for its template) ends
  the sweep for everybody behind.
- Tax: the locks of a submission and a decision are taken in opposite orders, and the
  database ends one of two that meet; an approval may accept a resubmission nobody saw.

## 5. The proofs

TLC sees the instances above; the theorems hold for every value of the constants
that satisfies the module's assumption.  Every safety property that a passing run checks
is stated by a theorem.  The assumptions say what kind of thing each constant is, that
names of different things differ (`NoFile` is no file, an id of one table is none of
another), and that what the code adds up or takes the maximum of is finite.  A few say
more: in `Leave`, that no two steps share a number at first; in `Claims`, that a policy for
everybody applies to the claim; in `Attendance`, that a boundary lies within the day and a
time zone is less than a day away from the clock.

### How the proofs go

For each specification there is an inductive invariant, with a lemma that the initial
states satisfy it, one that every step keeps it (one step per action, under it one per
conjunct that the action can disturb), and a last one that it implies the property.  TLC
checked each of them as an invariant of a small instance before it was proved.  Where an
action writes a record with many fields, a lemma says first what becomes of each row, and
the rest of the proof speaks of rows only.

Many of the properties are about sums: units of a credit, hours of a week, days of a
balance, claims of a month, lines of a declaration, the worked part of a day.  The models
add with `SumFunctionOnSet`, and `SumTheorems` proves what the others cite: that a sum over
a finite set is the fold that defines it (`SumRecurs`), may be split, changed at one
element, carried along an injection or taken part by part (`SumParts`), is monotone, and
that finite sets of numbers have a least and a greatest member.  The induction theorems of
the library take an operator as a parameter and cannot be used here; each of these facts is
proved from a smallest counterexample instead, which exists because the subsets of a finite
set are well founded under inclusion (`SmallestSubset`).

### What is proved, and from which invariant

`OutboxProofs`.  `TypeCorrect`.  `OneDeliverer` and `DeliveredStays` rest on `RaceInv`: a
worker at `commit` holds the row's lock and the row is PENDING (`LockInv`), and a
delivery in progress whose row was never taken back finds it PROCESSING (`HoldInv`).
`SoleDeliverer` alone is not inductive: without `HoldInv` a second worker could claim a
row that is in delivery.  `CapHonoured` needs `CountInv`: `retry_count` as read at the
claim never exceeds the failures seen, and is strictly behind them once a failure is
about to be counted.  `DeliveredToAll` needs `AckInv`: what must answer and has not is
still on the worker's list.  `ImplementsDelivery` shows that `Outbox` implements `Delivery`: `MapInvariant`
puts the three invariants together with "a row in somebody's hands was written"
(`SentStep`, `StaysSent`), and `StepMaps` takes each action to a step of `Delivery` or, for
those that only move a worker (`Stutters`), to none.

`LeaveProofs`.  `TypeCorrect`.  `BalancesAddUp` goes through each movement
(`MovementSound`) and each way HR writes a balance (`ComponentsSound`).
`RequestsAgree`, the one event of an approval included, is inductive with the type invariant.  `NoDoubleLeave` needs
`PeriodInv` (the period of an active request passed `normalize_half_day_request`), from
which `NoConflictDisjoint` shows that what `leave_ranges_conflict` lets pass covers
different half days.  `EveryStepApproves` needs `SeqInv` (numbers of defined steps
differ) and `RouteInv` (those who acted on a pending, unedited request are exactly the
steps before its current one); `StepOrder` is the argument about first, next and last
steps.  `LedgerAgrees` is about
what the stored numbers mean: pending and used days of a balance are sums over the requests
that hold it.  It needs `HoldInv`: a pending request holds days exactly if its type is paid
now, because rejection asks the type and not the request; where HR changed that, the balance
counts as disturbed.  `ImplementsReservations` takes each action to a step of `Reservations`
or to none (`SubmitBooks`, `DecisionBooks`, `GrantBooks`, `OverruleBooks`, `BooksStutter`,
`BooksNext`); that a grant never falls below what is promised is `BalanceAdds` after the
step, and that the decision finds the days which the submission charged is `HoldInv`.

`OfficeProofs`.  `AllocationsAgree` (`CreditsAddUp` and `LeaveCovered`) rests on `OffInv`: every allocation row has
the status that its request's decision gives it and lies on a credit that covers its date
(`RowsFit`), the columns of a credit are sums over those rows (`Accounts`), and so is what
each date of a request holds (`Covered`).  The plan of a reservation takes dates in order and
from each credit what the earlier dates left; that it never takes more than is there is an
argument along the dates (by the least date where it fails).  `EarningsAreCapped` adds what
the last approval found (`CapsKept`): later decisions of leave, cancellations and days
that pass do not raise what is earned and not spent.  The caps are those stored with the
claim; of a cancellation that straddles midnight nothing is claimed.
`CreditsImplementReservations` needs one thing more (`ClosedRows`): a row is released or
expired only if its request was rejected, withdrawn or cancelled.  Then all rows of a request
in progress have the status that its decision looks for (`OneStatus`), so what the decision
moves on a credit is all that the request took of it (`DecisionMoves`), and rewriting those
rows loses none of it (`TakenByReplaced`).
`AssetsStayTogether` needs `Ready` and `Exclusive`: what a transaction has checked stays
true while it waits to commit, because it holds all its locks and no two hold the same one.
Only rows of employees are shared, and no check depends on those.

`PeopleProofs`.  `RefreshTokensHold` rests on the one who deleted a session's row being
alone in the right to insert its heir (`RequestInv`), and on `inactive` being cleared when a
request looks and may enter; `TokensHoldWhileLeaving` keeps the same invariant under the
steps of `Offboarding`.  `SeparationsLeaveOnce`: who is offboarded was approved and due, and
has one event.  `SettlementsSettleOnce`: outside the overlaps recorded in `seeding` and
`edited`, a backfill that found nothing is alone and nothing has come since (`SeedInv`), and
no edit can reach a processed row (`RowInv`).  `ProfilesAreReviewed`: a change request is
inserted or applied by one clerk, and while it is being applied it is pending.
`ReviewsAreEarned` needs the order of what a participant does (the manager's assessment comes
after the employee's, HR's rating after the manager's; the snapshot of the current revision
shows all three, `DataInv`), that nothing is submitted before goal setting is over
(`FreshInv`), and that the program of a launched cycle is not edited (`CycleInv`); an
excluded participant owes nothing until included again, which checks what the stages
passed ask for.  `DaysStayWhole`: the windows that versions yield follow one another
whatever the versions are (`WindowsMeet`), so the invariant has to keep them increasing
(`WellFormed`) and the frozen ones equal to what the versions give (`WindowInv`).  `Scheduled` is
the heart of it: the code looks at two days of a new policy only, and every other day is as
long as a day or as it was.  An open punch that is not over is of the current day
(`OpenToday`), hence one per employee; sums of a day follow from `OneRowChanges`.

`WorkProofs`.  `CandidatesJoinAsApproved`: a screen whose revision is the row's shows what
is stored (`ScreenInv`), so an approval approves it, and a joined candidate has exactly one
employee (`EmployeeInv`).  `WeeksHold`: an entry of a submitted week is what its batch has
(`EntryInv`), steps acted on are those before the current one (`SignedInv`), and outside
`doubled` a request about to insert a batch is the only one and there is none (`OneInsert`).
`ClaimsStayCovered` needs that a submission in flight is alone unless one overlapped, and
that the month has room for it (`RoomForNext`): the limit itself is not inductive, for the
check and the insert are two steps.  `PaymentsHold`: a complete review under today's
fingerprint says what the tables say (`Reviewed`), a screen shows what the review was at that
revision (`SeenOnce`), an arrear is APPLIED exactly when it is on a payslip (`ArrearInv`).

`AnnouncementsProofs`.  `AnnouncementsStayWhole`: a call's attachment is no announcement's
before it commits, nor a row whose insert went unanswered (`CallInv`); an attachment with any
other row is whole (`AttachmentInv`), and a video is at one step of its stage (`VideoInv`).
`SurveysStayTrue`: the count of a department is the number of those who answered for it
(`Counts`), and a failure is reported again only after an opening (`Reported`).
`CelebrationsStayPrivate`: what a sweep has read was agreed on its day or later, and those
left on its list may be told (`SweepHolds`).

`FileTaxProofs`.  `FilesStayReadable` and `CompletedForGood`: where the rows and bytes of a
file are at each step of its upload (`FileInv`), and that a worker about to record a deletion
has seen it happen (`WorkInv`).  `DeductionsAddUp`: past its first step a request
holds its employee's lock, but for a decision, which reads its sum before it takes it
(`LockInv`); a sum that was read is true until another request commits a total
(`SumInv`); the line in hand stays what it was when it was locked (`LineInv`).  That
exception in `LockInv` is the disagreement of `tax_overlap`, which is why the theorem speaks
of employees who are not `outdated`.

### What the proofs changed

An invariant that would not go through pointed at the model four times.  `DueAction` of
`Survey` and `NextStage` of `Performance` were CASE expressions whose guards overlap, which
says that TLC may pick one; they now decide in the order of the code.
`InactiveGetsNoToken` was kept by TLC's bounds only: a request that looked again and found the
account active kept the mark of its first look.  In `Tax`, requests were marked stale that had
not read any sum.  And in `Attendance`, with a time zone farther away than the default boundary,
a punch from before the profile begins before its day (`Legacy`); the run now has such a zone.

### Only model-checked

The liveness properties (`DueOffboarded`, `MissedPunchesExpire`, `JobsFinish`,
`CleanupFinishes`, `DueSurveysClose`, `EventuallyDecided` and that of `outbox_drains`), because fairness
and ENABLED are beyond the prover; the violations of the four runs that expect one; and that
the composed runs of several parts, which add nothing to their parts, start them together.

## 6. Not modelled

`PROJECT.json` lists every component with its status and what is left out.  In short:

- Arithmetic on decimals: salary structures, tax slabs, proration, encashment.  Pay and
  amounts are small numbers; what is paid to whom, when and from which inputs is modelled.
- Questionnaires, feedback, KPI values and the aggregation of answers; receipts, places of
  punches, names and descriptions: data that no property tells apart.
- GraphQL resolvers as such.  They check a role, read the tenant's clock, call the service
  and send notifications after the commit; the services are what the actions stand for.
  Queries write nothing.
- Tenant pools, caches, encryption, tokens, mail.
- Tenant provisioning and import, and the revisions of the working calendar: not yet.
- Benefits, compensation, grievances, LMS, recruitment, succession: tables that are
  created, read and updated row by row.
