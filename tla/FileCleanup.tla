---------------------------- MODULE FileCleanup ----------------------------
(***************************************************************************)
(* Private files of one tenant: the upload of a company document behind a   *)
(* stage that expires, its publication, and the durable removal of what is  *)
(* left over (kabipay-employee, private_file_cleanup.rs of kabipay-common). *)
(*                                                                          *)
(* Object storage and database are written one after the other, so a crash  *)
(* or an error may fall between them.  A database transaction is one        *)
(* action: all of them lock the stage or the tombstone they decide about.   *)
(***************************************************************************)
EXTENDS Naturals, Sequences, FiniteSets, SequencesExt

CONSTANTS
  Files,      \* uploads, each with its own file id and storage path
  Callers,    \* requests that publish documents
  Workers,    \* outbox worker processes
  MaxCrashes, \* bound: processes that die, and database errors
  NoFile, NoWorker

ASSUME FileAssumption ==
  /\ IsFiniteSet(Files) /\ MaxCrashes \in Nat
  /\ NoFile \notin Files /\ NoWorker \notin Workers

VARIABLES
  up,      \* how far the upload request has come
  object,  \* files whose bytes are in storage
  meta,    \* files with a file_storage row
  stage,   \* file_upload_stage: NONE, OPEN (claimed_at is null) or CLAIMED
  expiredStages, \* stages whose expires_at has passed
  docs,    \* number of company_document rows
  task,    \* private_file_cleanup_task.status; NONE when there is no tombstone
  token,   \* its claim_token, as the worker that drew it
  stale,   \* tombstones that were claimed more than five minutes ago
  dueTasks,     \* PENDING and FAILED ones whose next_attempt_at has passed, by that time
  call,    \* per caller: the file whose stage it publishes
  cpc,     \* ... and where it is
  wtask,   \* per worker: the tombstone it works on
  wpc,     \* ... and where it is
  crashes, \* number of crashes and database errors
  lost     \* history: uploads that a crash or an error left to nobody

uploadVars == <<up, lost>>
rowVars    == <<object, meta, stage, expiredStages, docs>>
taskVars   == <<task, token, stale, dueTasks>>
callVars   == <<call, cpc>>
workVars   == <<wtask, wpc>>
fileVars == <<uploadVars, rowVars, taskVars, callVars, workVars, crashes>>

UploadSteps == {"new", "written", "stored", "rowFailed", "stageFailed", "done", "failed"}
TaskStatus == {"NONE", "PENDING", "PROCESSING", "FAILED", "COMPLETED"}
Unfinished == {"PENDING", "PROCESSING", "FAILED"}

Completed == "COMPLETED"

FilesTypeOK ==
  /\ up \in [Files -> UploadSteps] /\ lost \in SUBSET Files
  /\ object \in SUBSET Files /\ meta \in SUBSET Files
  /\ stage \in [Files -> {"NONE", "OPEN", "CLAIMED"}] /\ expiredStages \in SUBSET Files
  /\ docs \in [Files -> Nat]
  /\ task \in [Files -> TaskStatus] /\ token \in [Files -> Workers \cup {NoWorker}]
  /\ stale \in SUBSET Files /\ dueTasks \in Seq(Files)
  /\ call \in [Callers -> Files \cup {NoFile}]
  /\ cpc \in [Callers -> {"idle", "publish", "cleanup"}]
  /\ wtask \in [Workers -> Files \cup {NoFile}]
  /\ wpc \in [Workers -> {"idle", "delete", "complete", "fail"}]
  /\ crashes \in 0..MaxCrashes

FilesInit ==
  /\ up = [f \in Files |-> "new"] /\ lost = {}
  /\ object = {} /\ meta = {} /\ stage = [f \in Files |-> "NONE"] /\ expiredStages = {}
  /\ docs = [f \in Files |-> 0]
  /\ task = [f \in Files |-> "NONE"] /\ token = [f \in Files |-> NoWorker]
  /\ stale = {} /\ dueTasks = <<>>
  /\ call = [c \in Callers |-> NoFile] /\ cpc = [c \in Callers |-> "idle"]
  /\ wtask = [w \in Workers |-> NoFile] /\ wpc = [w \in Workers |-> "idle"]
  /\ crashes = 0

UploadGoes(f, step) == up' = [up EXCEPT ![f] = step]
Fails == crashes < MaxCrashes /\ crashes' = crashes + 1

-----------------------------------------------------------------------------
(* Tombstones *)

\* cleanup_task_insert: a second tombstone for the same coordinates is no new one
Entomb(f) ==
  IF task[f] = "NONE"
  THEN /\ task' = [task EXCEPT ![f] = "PENDING"]
       /\ dueTasks' = Append(dueTasks, f)
       /\ UNCHANGED <<token, stale>>
  ELSE UNCHANGED taskVars

\* enqueue_and_delete_private_file; the stage goes with the file it refers to
EntombAndDelete(f) ==
  /\ f \in meta
  /\ Entomb(f)
  /\ meta' = meta \ {f}
  /\ stage' = [stage EXCEPT ![f] = "NONE"]

-----------------------------------------------------------------------------
(* Upload: upload_company_document_file *)

\* the object is written before any row
WriteObject(f) ==
  /\ up[f] = "new"
  /\ object' = object \cup {f}
  /\ UploadGoes(f, "written")
  /\ UNCHANGED <<meta, stage, expiredStages, docs, taskVars, callVars, workVars, crashes, lost>>

\* the write reports an error: no tombstone is written for what it may have left
WriteObjectFails(f) ==
  /\ up[f] = "new" /\ Fails
  /\ object' \in {object, object \cup {f}}
  /\ UploadGoes(f, "failed")
  /\ lost' = lost \cup {f}
  /\ UNCHANGED <<meta, stage, expiredStages, docs, taskVars, callVars, workVars>>

InsertRow(f) ==
  /\ up[f] = "written"
  /\ meta' = meta \cup {f}
  /\ UploadGoes(f, "stored")
  /\ UNCHANGED <<object, stage, expiredStages, docs, taskVars, callVars, workVars, crashes, lost>>

\* insert_file_storage reports an error: the row may be there all the same
InsertRowFails(f) ==
  /\ up[f] = "written" /\ Fails
  /\ meta' \in {meta, meta \cup {f}}
  /\ UploadGoes(f, "rowFailed")
  /\ UNCHANGED <<object, stage, expiredStages, docs, taskVars, callVars, workVars, lost>>

\* enqueue_failed_object_write_cleanup
TombstoneObject(f) ==
  /\ up[f] = "rowFailed"
  /\ Entomb(f)
  /\ UploadGoes(f, "failed")
  /\ UNCHANGED <<rowVars, callVars, workVars, crashes, lost>>

InsertStage(f) ==
  /\ up[f] = "stored"
  /\ stage' = [stage EXCEPT ![f] = "OPEN"]
  /\ UploadGoes(f, "done")
  /\ UNCHANGED <<object, meta, expiredStages, docs, taskVars, callVars, workVars, crashes, lost>>

\* the insert reports an error: the row may be there all the same
InsertStageFails(f) ==
  /\ up[f] = "stored" /\ Fails
  /\ stage' \in {stage, [stage EXCEPT ![f] = "OPEN"]}
  /\ UploadGoes(f, "stageFailed")
  /\ UNCHANGED <<object, meta, expiredStages, docs, taskVars, callVars, workVars, lost>>

\* cleanup_known_new_file; the sweep of expired stages may have come first
CleanupNewFile(f) ==
  /\ up[f] = "stageFailed"
  /\ IF f \in meta THEN EntombAndDelete(f) ELSE UNCHANGED <<meta, stage, taskVars>>
  /\ UploadGoes(f, "failed")
  /\ UNCHANGED <<object, expiredStages, docs, callVars, workVars, crashes, lost>>

\* The process dies, or the tombstone cannot be written: nobody comes back to
\* the object, or to a row without a stage.
UploadDies(f) ==
  /\ up[f] \in {"written", "stored", "rowFailed", "stageFailed"} /\ Fails
  /\ UploadGoes(f, "failed")
  /\ lost' = lost \cup {f}
  /\ UNCHANGED <<rowVars, taskVars, callVars, workVars>>

-----------------------------------------------------------------------------
(* Publication and removal of company documents *)

\* create_company_document reads the time before it waits for the stage
BeginPublish(c, f) ==
  /\ cpc[c] = "idle" /\ up[f] = "done" /\ f \notin expiredStages
  /\ stage[f] # "NONE"
  /\ call' = [call EXCEPT ![c] = f] /\ cpc' = [cpc EXCEPT ![c] = "publish"]
  /\ UNCHANGED <<uploadVars, rowVars, taskVars, workVars, crashes>>

\* bug: that the stage was claimed is not noticed
PublishAgain(c) ==
  LET f == call[c] IN
  /\ cpc[c] = "publish" /\ stage[f] \in {"OPEN", "CLAIMED"} /\ f \in meta
  /\ docs' = [docs EXCEPT ![f] = @ + 1]
  /\ stage' = [stage EXCEPT ![f] = "CLAIMED"]
  /\ call' = [call EXCEPT ![c] = NoFile] /\ cpc' = [cpc EXCEPT ![c] = "idle"]
  /\ UNCHANGED <<uploadVars, object, meta, expiredStages, taskVars, workVars, crashes>>

\* create_company_document, with the stage locked
Publish(c) ==
  LET f == call[c] IN
  /\ cpc[c] = "publish" /\ stage[f] = "OPEN" /\ f \in meta
  /\ docs' = [docs EXCEPT ![f] = @ + 1]
  /\ stage' = [stage EXCEPT ![f] = "CLAIMED"]
  /\ call' = [call EXCEPT ![c] = NoFile] /\ cpc' = [cpc EXCEPT ![c] = "idle"]
  /\ UNCHANGED <<uploadVars, object, meta, expiredStages, taskVars, workVars, crashes>>

\* create_company_document refuses: the input, or a stage that is no longer free
PublishFails(c) ==
  /\ cpc[c] = "publish"
  /\ cpc' = [cpc EXCEPT ![c] = "cleanup"]
  /\ UNCHANGED <<uploadVars, rowVars, taskVars, call, workVars, crashes>>

\* cleanup_unlinked_company_upload: only while the stage is not claimed
Compensate(c) ==
  LET f == call[c] IN
  /\ cpc[c] = "cleanup"
  /\ IF stage[f] = "OPEN" THEN EntombAndDelete(f)
     ELSE UNCHANGED <<meta, stage, taskVars>>
  /\ call' = [call EXCEPT ![c] = NoFile] /\ cpc' = [cpc EXCEPT ![c] = "idle"]
  /\ UNCHANGED <<uploadVars, object, expiredStages, docs, workVars, crashes>>

CallerDies(c) ==
  /\ cpc[c] # "idle" /\ Fails
  /\ call' = [call EXCEPT ![c] = NoFile] /\ cpc' = [cpc EXCEPT ![c] = "idle"]
  /\ UNCHANGED <<uploadVars, rowVars, taskVars, workVars>>

\* delete_company_document removes the claimed stage, the document and the file
DeleteDocument(f) ==
  /\ docs[f] > 0
  /\ docs' = [docs EXCEPT ![f] = @ - 1]
  /\ EntombAndDelete(f)
  /\ UNCHANGED <<uploadVars, object, expiredStages, callVars, workVars, crashes>>

\* fifteen minutes after the upload
Expire(f) ==
  /\ stage[f] # "NONE" /\ f \notin expiredStages
  /\ expiredStages' = expiredStages \cup {f}
  /\ UNCHANGED <<uploadVars, object, meta, stage, docs, taskVars, callVars, workVars, crashes>>

\* bug: the filter on claimed_at the wrong way round
SweepClaimedStage(f) ==
  /\ f \in expiredStages /\ stage[f] = "CLAIMED"
  /\ EntombAndDelete(f)
  /\ UNCHANGED <<uploadVars, object, expiredStages, docs, callVars, workVars, crashes>>

\* sweep_expired_company_upload_stages.  (It quarantines a stage without a file;
\* the operations here leave none behind.)
SweepStage(f) ==
  /\ f \in expiredStages /\ stage[f] = "OPEN"
  /\ EntombAndDelete(f)
  /\ UNCHANGED <<uploadVars, object, expiredStages, docs, callVars, workVars, crashes>>

-----------------------------------------------------------------------------
(* The cleanup worker *)

\* bug: claims that went stale are left alone
NoStale == {}

Reclaimable == {f \in stale : task[f] = "PROCESSING"}

\* claim_due_task: one stale claim fails and is due again, then the tombstone that
\* has been due longest is claimed
ClaimTask(w) ==
  \E R \in SUBSET Reclaimable :
    LET queue == dueTasks \o SetToSeq(R)  f == Head(queue) IN
    /\ wpc[w] = "idle" /\ Len(queue) > 0
    /\ Cardinality(R) = IF Reclaimable = {} THEN 0 ELSE 1
    /\ task' = [g \in Files |-> IF g = f THEN "PROCESSING"
                                ELSE IF g \in R THEN "FAILED" ELSE task[g]]
    /\ token' = [g \in Files |-> IF g = f THEN w
                                 ELSE IF g \in R THEN NoWorker ELSE token[g]]
    /\ stale' = stale \ (R \cup {f})
    /\ dueTasks' = Tail(queue)
    /\ wtask' = [wtask EXCEPT ![w] = f] /\ wpc' = [wpc EXCEPT ![w] = "delete"]
    /\ UNCHANGED <<uploadVars, rowVars, callVars, crashes>>

\* delete_physical_object; an object that is gone counts as deleted
DeleteObject(w) ==
  /\ wpc[w] = "delete"
  /\ object' = object \ {wtask[w]}
  /\ wpc' = [wpc EXCEPT ![w] = "complete"]
  /\ UNCHANGED <<uploadVars, meta, stage, expiredStages, docs, taskVars, callVars, wtask, crashes>>

\* bug: an error of the storage is taken for a deleted object
DeleteErrorIgnored(w) ==
  /\ wpc[w] = "delete"
  /\ wpc' = [wpc EXCEPT ![w] = "complete"]
  /\ UNCHANGED <<uploadVars, rowVars, taskVars, callVars, wtask, crashes>>

\* ... or an error, with the object deleted or not
DeleteObjectFails(w) ==
  /\ wpc[w] = "delete"
  /\ object' \in {object, object \ {wtask[w]}}
  /\ wpc' = [wpc EXCEPT ![w] = "fail"]
  /\ UNCHANGED <<uploadVars, meta, stage, expiredStages, docs, taskVars, callVars, wtask, crashes>>

\* bug: the outcome is written whoever holds the row by now
OwnsAlways(w) == TRUE

\* the WHERE of complete_task_update and fail_task_update
Owns(w) == task[wtask[w]] = "PROCESSING" /\ token[wtask[w]] = w

\* complete_task or fail_task; nothing is written when the claim was lost
Record(w) ==
  LET f == wtask[w] IN
  /\ wpc[w] \in {"complete", "fail"}
  /\ IF Owns(w)
     THEN /\ task' = [task EXCEPT ![f] = IF wpc[w] = "complete" THEN Completed ELSE "FAILED"]
          /\ token' = [token EXCEPT ![f] = NoWorker]
          /\ stale' = stale \ {f}
     ELSE UNCHANGED <<task, token, stale>>
  /\ wtask' = [wtask EXCEPT ![w] = NoFile] /\ wpc' = [wpc EXCEPT ![w] = "idle"]
  /\ UNCHANGED <<uploadVars, rowVars, dueTasks, callVars, crashes>>

WorkerDies(w) ==
  /\ wpc[w] # "idle" /\ Fails
  /\ wtask' = [wtask EXCEPT ![w] = NoFile] /\ wpc' = [wpc EXCEPT ![w] = "idle"]
  /\ UNCHANGED <<uploadVars, rowVars, taskVars, callVars>>

\* five minutes after the claim
ClaimAges(f) ==
  /\ task[f] = "PROCESSING" /\ f \notin stale
  /\ stale' = stale \cup {f}
  /\ UNCHANGED <<uploadVars, rowVars, task, token, dueTasks, callVars, workVars, crashes>>

\* retry_delay has passed
RetryDue(f) ==
  /\ task[f] = "FAILED" /\ ~ Contains(dueTasks, f)
  /\ dueTasks' = Append(dueTasks, f)
  /\ UNCHANGED <<uploadVars, rowVars, task, token, stale, callVars, workVars, crashes>>

-----------------------------------------------------------------------------
Uploading(f) ==
  \/ WriteObject(f) \/ WriteObjectFails(f) \/ UploadDies(f)
  \/ InsertRow(f) \/ InsertRowFails(f) \/ TombstoneObject(f)
  \/ InsertStage(f) \/ InsertStageFails(f) \/ CleanupNewFile(f)

Publishing(c) ==
  \/ \E f \in Files : BeginPublish(c, f)
  \/ Publish(c) \/ PublishFails(c) \/ Compensate(c) \/ CallerDies(c)

Working(w) == ClaimTask(w) \/ DeleteObject(w) \/ DeleteObjectFails(w) \/ Record(w)

FilesNext ==
  \/ \E f \in Files : \/ Uploading(f) \/ DeleteDocument(f) \/ Expire(f) \/ SweepStage(f)
                      \/ ClaimAges(f) \/ RetryDue(f)
  \/ \E c \in Callers : Publishing(c)
  \/ \E w \in Workers : Working(w) \/ WorkerDies(w)

FilesSpec == FilesInit /\ [][FilesNext]_fileVars

\* A worker that has not lost its claim gets the outcome of its deletion.
DeletesInTime(w)   == wpc[w] = "delete" /\ Owns(w) /\ DeleteObject(w)
CompletesInTime(w) == wpc[w] = "complete" /\ Owns(w) /\ Record(w)

\* Time passes, some worker keeps sweeping, and of the attempts that are made again and
\* again some delete the object and record it within five minutes.
FilesFairness ==
  /\ \A f \in Files : /\ WF_fileVars(Expire(f)) /\ WF_fileVars(SweepStage(f))
                      /\ WF_fileVars(ClaimAges(f)) /\ WF_fileVars(RetryDue(f))
  /\ WF_fileVars(\E w \in Workers : Working(w))
  /\ SF_fileVars(\E w \in Workers : DeletesInTime(w))
  /\ SF_fileVars(\E w \in Workers : CompletesInTime(w))

FilesFairSpec == FilesSpec /\ FilesFairness

-----------------------------------------------------------------------------
(* Properties *)

\* A stage becomes at most one document, and a document has its file, its bytes
\* and no tombstone, whichever of publication, compensation of a failed one,
\* expiry sweep and deletion comes first.
DocumentsReadable ==
  \A f \in Files :
    /\ docs[f] <= 1
    /\ docs[f] = 1 => /\ f \in object /\ f \in meta
                      /\ stage[f] = "CLAIMED" /\ task[f] = "NONE"

\* "business/file metadata" and tombstone change in one transaction: bytes that no
\* row refers to have a tombstone that is not finished, unless the upload died
\* between its two writes or its write to the storage reported an error.
NothingLeaks ==
  \A f \in object \ (meta \cup lost) :
    up[f] \in {"done", "failed"} => task[f] \in Unfinished

\* Every document has its file, and every file its document or its tombstone.
FilesAgree == FilesTypeOK /\ DocumentsReadable /\ NothingLeaks

\* Only the current claim writes a tombstone's outcome: once COMPLETED, when its
\* coordinates have been cleared, no late worker makes it fail or run again.
CompletedIsFinal == [][\A f \in Files : task[f] = Completed => task'[f] = Completed]_fileVars

\* Every tombstone is completed in the end, through errors of the storage, crashes
\* of workers and claims that go stale.
TombstonesComplete == \A f \in Files : task[f] # "NONE" ~> task[f] = Completed

\* A stage that nobody publishes is swept in the end, the one included that its
\* upload does not know of.
StagesSettle == \A f \in Files : stage[f] = "OPEN" ~> stage[f] # "OPEN"

\* Nothing that an upload leaves behind stays for ever.
CleanupFinishes == TombstonesComplete /\ StagesSettle

=============================================================================
