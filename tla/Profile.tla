------------------------------ MODULE Profile ------------------------------
(***************************************************************************)
(* The profile of one employee, Owner: change requests that HR reviews       *)
(* (profile_change_service.rs), HR's direct writes of the same details       *)
(* (profile_extras_service.rs), and education and work records with their    *)
(* evidence (profile_record_service.rs).                                    *)
(*                                                                          *)
(* One kind of detail stands for PAN, Aadhaar and bank account, whose rows   *)
(* are treated alike.  Decisions lock the row they decide; the rows of a     *)
(* detail and the links of evidence are read without a lock and written      *)
(* later: two actions.                                                      *)
(***************************************************************************)
EXTENDS Naturals, FiniteSets

CONSTANTS
  Owner,
  Managers,       \* users with employee:write
  ChangeRequests,
  Records,        \* education and work records
  Documents,
  Clerks,         \* requests in flight
  MaxValues,      \* bound: values of details and contents of records
  NoOne

ASSUME ProfileAssumption ==
  NoOne \notin {Owner} \cup Managers \cup ChangeRequests \cup Records \cup Documents /\ MaxValues \in Nat

VARIABLES
  change,   \* per change request
  detail,   \* the rows of the detail, in the order they were inserted; value 0: no row
  record,   \* per record
  evidence, \* its linked documents
  document, \* status of the employee's documents; NONE: no such row
  clerk,    \* per request in flight: what it has read so far
  values,   \* number of values used
  accepted, \* history: values that a reviewer has approved
  reviewed, \* history: per record, the content that a reviewer verified last
  decided   \* history: per change request, the decision events

changeVars == <<change, detail, accepted, decided>>
recordVars == <<record, evidence, reviewed>>
profVars == <<changeVars, recordVars, document, clerk, values>>

People == {Owner} \cup Managers
DetailRows == 1..2
Final == {"APPROVED", "REJECTED", "CANCELLED"}
NoDetail == [value |-> 0, primary |-> FALSE, verified |-> FALSE]
NoChange == [status |-> "NONE", by |-> NoOne, value |-> 0, sealed |-> FALSE, doc |-> NoOne]
AtRest == [pc |-> "idle", req |-> NoOne, rec |-> NoOne, doc |-> NoOne, by |-> NoOne, rows |-> {}]

ProfTypeOK ==
  /\ change \in [ChangeRequests -> [status : {"NONE", "PENDING"} \cup Final, by : People \cup {NoOne},
                               value : 0..MaxValues, sealed : BOOLEAN, doc : Documents \cup {NoOne}]]
  /\ detail \in [DetailRows -> [value : 0..MaxValues, primary : BOOLEAN, verified : BOOLEAN]]
  /\ record \in [Records -> [content : 0..MaxValues, deleted : BOOLEAN,
                             status : {"UNVERIFIED", "PENDING", "VERIFIED", "REJECTED"}]]
  /\ evidence \in [Records -> SUBSET Documents]
  /\ document \in [Documents -> {"NONE", "PENDING", "APPROVED", "REJECTED"}]
  /\ clerk \in [Clerks -> [pc : {"idle", "insert", "apply", "write", "link", "mark", "decide"},
                           req : ChangeRequests \cup {NoOne}, rec : Records \cup {NoOne},
                           doc : Documents \cup {NoOne}, by : People \cup {NoOne}, rows : SUBSET DetailRows]]
  /\ values \in 0..MaxValues /\ accepted \in SUBSET (1..MaxValues)
  /\ reviewed \in [Records -> 0..MaxValues] /\ decided \in [ChangeRequests -> Nat]

ProfInit ==
  /\ change = [r \in ChangeRequests |-> NoChange] /\ detail = [i \in DetailRows |-> NoDetail]
  /\ record = [k \in Records |-> [content |-> 0, deleted |-> FALSE, status |-> "UNVERIFIED"]]
  /\ evidence = [k \in Records |-> {}] /\ document = [d \in Documents |-> "NONE"]
  /\ clerk = [c \in Clerks |-> AtRest]
  /\ values = 0 /\ accepted = {} /\ reviewed = [k \in Records |-> 0]
  /\ decided = [r \in ChangeRequests |-> 0]

NewValue == values < MaxValues /\ values' = values + 1
Takes(c, work) == clerk[c].pc = "idle" /\ clerk' = [clerk EXCEPT ![c] = work]
Rests(c) == clerk' = [clerk EXCEPT ![c] = AtRest]
On(c, step) == clerk[c].pc = step
\* bug: resolve_request reads the row without a lock
NoLock(r) == FALSE
\* somebody in flight holds the lock of the row
Locked(r) == \E c \in Clerks : On(c, "apply") /\ clerk[c].req = r

-----------------------------------------------------------------------------
(* Documents *)

\* upload_employee_document: approved at once when a manager uploads it
Upload(d, p) ==
  /\ document[d] = "NONE"
  /\ document' = [document EXCEPT ![d] = IF p \in Managers THEN "APPROVED" ELSE "PENDING"]
  /\ UNCHANGED <<changeVars, recordVars, clerk, values>>

\* resolve_employee_document_status reads a pending document ...
DocumentRead(c, d) ==
  /\ document[d] = "PENDING"
  /\ Takes(c, [AtRest EXCEPT !.pc = "decide", !.doc = d])
  /\ UNCHANGED <<changeVars, recordVars, document, values>>

\* ... and writes the row by its id
DocumentDecided(c, approved) ==
  /\ On(c, "decide")
  /\ document' = [document EXCEPT ![clerk[c].doc] = IF @ = "NONE" THEN @
                                                    ELSE IF approved THEN "APPROVED" ELSE "REJECTED"]
  /\ Rests(c)
  /\ UNCHANGED <<changeVars, recordVars, values>>

Stamp(docs, approved) ==
  document' = [d \in Documents |-> IF d \in docs /\ document[d] # "NONE"
                                   THEN IF approved THEN "APPROVED" ELSE "REJECTED"
                                   ELSE document[d]]

-----------------------------------------------------------------------------
(* Change requests *)

\* submit_request finds no pending request of this type
SubmitRead(c, r, p, d) ==
  /\ change[r].status = "NONE" /\ \A e \in Clerks : clerk[e].req # r
  /\ d # NoOne => document[d] # "NONE"
  /\ \A q \in ChangeRequests : change[q].status # "PENDING"
  /\ Takes(c, [AtRest EXCEPT !.pc = "insert", !.req = r, !.by = p, !.doc = d])
  /\ UNCHANGED <<changeVars, recordVars, document, values>>

SubmitInsert(c) ==
  /\ On(c, "insert") /\ NewValue
  /\ change' = [change EXCEPT ![clerk[c].req] =
       [status |-> "PENDING", by |-> clerk[c].by, value |-> values + 1, sealed |-> TRUE,
        doc |-> clerk[c].doc]]
  /\ Rests(c)
  /\ UNCHANGED <<detail, accepted, decided, recordVars, document>>

\* the payload is erased with the decision
Close(r, status) ==
  /\ change' = [change EXCEPT ![r].status = status, ![r].sealed = FALSE]
  /\ decided' = [decided EXCEPT ![r] = @ + 1]

\* cancel_request: by who filed it, or by a manager
Cancel(r, p) ==
  /\ change[r].status = "PENDING" /\ ~Locked(r)
  /\ p = change[r].by \/ p \in Managers
  /\ Close(r, "CANCELLED")
  /\ UNCHANGED <<detail, accepted, recordVars, document, clerk, values>>

\* resolve_request: a manager, and not who filed it
MayResolve(r, p) == change[r].status = "PENDING" /\ p \in Managers /\ p # change[r].by

RejectChange(r, p) ==
  /\ MayResolve(r, p) /\ ~Locked(r)
  /\ Close(r, "REJECTED")
  /\ Stamp({change[r].doc}, FALSE)
  /\ UNCHANGED <<detail, accepted, recordVars, clerk, values>>

DetailsFound == {i \in DetailRows : detail[i] # NoDetail}

\* apply_primary_pan, apply_primary_aadhaar and apply_primary_bank read the rows
ApproveRead(c, r, p) ==
  /\ MayResolve(r, p) /\ ~Locked(r)
  /\ Takes(c, [AtRest EXCEPT !.pc = "apply", !.req = r, !.by = p, !.rows = DetailsFound])
  /\ UNCHANGED <<changeVars, recordVars, document, values>>

\* A first row is inserted; otherwise the primary one among the rows read, or else
\* the first, gets the value, and the others are primary no more.
WriteDetail(rows, v, verified) ==
  LET new == [value |-> v, primary |-> TRUE, verified |-> verified] IN
  IF rows = {}
  THEN \E i \in DetailRows \ DetailsFound : (\A j \in DetailRows \ DetailsFound : i <= j) /\ detail' = [detail EXCEPT ![i] = new]
  ELSE \E target \in rows :
         /\ detail[target].primary \/ \A i \in rows : ~detail[i].primary /\ target <= i
         /\ detail' = [i \in DetailRows |-> IF i = target THEN new
                                      ELSE IF i \in rows THEN [detail[i] EXCEPT !.primary = FALSE]
                                      ELSE detail[i]]

ApproveWrite(c) ==
  LET r == clerk[c].req IN
  /\ On(c, "apply")
  /\ WriteDetail(clerk[c].rows, change[r].value, TRUE)
  /\ accepted' = accepted \cup {change[r].value}
  /\ Stamp({change[r].doc}, TRUE)
  /\ Close(r, "APPROVED")
  /\ Rests(c)
  /\ UNCHANGED <<recordVars, values>>

\* upsert_primary_bank, _pan, _aadhaar: by a manager
UpsertRead(c) ==
  /\ Takes(c, [AtRest EXCEPT !.pc = "write", !.rows = DetailsFound])
  /\ UNCHANGED <<changeVars, recordVars, document, values>>

\* bug: a row that was verified stays so
UpsertKeepsVerified(c) ==
  /\ On(c, "write") /\ NewValue
  /\ WriteDetail(clerk[c].rows, values + 1, \E i \in clerk[c].rows : detail[i].verified)
  /\ Rests(c)
  /\ UNCHANGED <<change, accepted, decided, recordVars, document>>

UpsertWrite(c) ==
  /\ On(c, "write") /\ NewValue
  /\ WriteDetail(clerk[c].rows, values + 1, FALSE)
  /\ Rests(c)
  /\ UNCHANGED <<change, accepted, decided, recordVars, document>>

-----------------------------------------------------------------------------
(* Education and work records *)

Live(k) == record[k].content # 0 /\ ~record[k].deleted

\* save_education, save_work_experience: new, or edited, which undoes a verification
SaveRecord(k) ==
  /\ ~record[k].deleted /\ NewValue
  /\ record' = [record EXCEPT ![k] = [content |-> values + 1, deleted |-> FALSE, status |-> "UNVERIFIED"]]
  /\ UNCHANGED <<changeVars, evidence, reviewed, document, clerk>>

DeleteRecord(k) ==
  /\ Live(k)
  /\ record' = [record EXCEPT ![k].deleted = TRUE]
  /\ UNCHANGED <<changeVars, evidence, reviewed, document, clerk, values>>

Elsewhere(k, d) == \E j \in Records \ {k} : d \in evidence[j]

\* link_education_evidence, link_work_evidence: the checks, the link, the status
LinkCheck(c, k, d) ==
  /\ document[d] # "NONE" /\ Live(k) /\ ~Elsewhere(k, d)
  /\ Takes(c, [AtRest EXCEPT !.pc = IF d \in evidence[k] THEN "mark" ELSE "link", !.rec = k, !.doc = d])
  /\ UNCHANGED <<changeVars, recordVars, document, values>>

LinkInsert(c) ==
  LET k == clerk[c].rec IN
  /\ On(c, "link")
  /\ evidence' = [evidence EXCEPT ![k] = @ \cup {clerk[c].doc}]
  /\ clerk' = [clerk EXCEPT ![c].pc = "mark"]
  /\ UNCHANGED <<changeVars, record, reviewed, document, values>>

LinkMark(c) ==
  /\ On(c, "mark")
  /\ record' = [record EXCEPT ![clerk[c].rec].status = "PENDING"]
  /\ Rests(c)
  /\ UNCHANGED <<changeVars, evidence, reviewed, document, values>>

\* cleanup_unlinked_employee_document, when the record is gone or the document is linked elsewhere
UploadUndone(d, k) ==
  /\ document[d] # "NONE" /\ ~Live(k)
  /\ \A j \in Records : d \notin evidence[j]
  /\ \A c \in Clerks : clerk[c].doc # d
  /\ \A r \in ChangeRequests : change[r].doc # d
  /\ document' = [document EXCEPT ![d] = "NONE"]
  /\ UNCHANGED <<changeVars, recordVars, clerk, values>>

\* review_education, review_work_experience: a manager, and not the employee
ReviewRecord(k, p, approved) ==
  /\ Live(k) /\ record[k].status = "PENDING" /\ evidence[k] # {}
  /\ p \in Managers \ {Owner}
  /\ Stamp(evidence[k], approved)
  /\ record' = [record EXCEPT ![k].status = IF approved THEN "VERIFIED" ELSE "REJECTED"]
  /\ reviewed' = IF approved THEN [reviewed EXCEPT ![k] = record[k].content] ELSE reviewed
  /\ UNCHANGED <<changeVars, evidence, clerk, values>>

\* a transaction that is rolled back, or a request that dies between two statements
GivesUp(c) ==
  /\ clerk[c].pc # "idle"
  /\ Rests(c)
  /\ UNCHANGED <<changeVars, recordVars, document, values>>

ProfNext ==
  \/ \E d \in Documents, p \in People : Upload(d, p)
  \/ \E c \in Clerks :
       \/ \E d \in Documents : DocumentRead(c, d)
       \/ \E approved \in BOOLEAN : DocumentDecided(c, approved)
       \/ \E r \in ChangeRequests, p \in People :
            (\E d \in Documents \cup {NoOne} : SubmitRead(c, r, p, d)) \/ ApproveRead(c, r, p)
       \/ SubmitInsert(c) \/ ApproveWrite(c) \/ UpsertRead(c) \/ UpsertWrite(c)
       \/ \E k \in Records, d \in Documents : LinkCheck(c, k, d)
       \/ LinkInsert(c) \/ LinkMark(c) \/ GivesUp(c)
  \/ \E r \in ChangeRequests, p \in People : Cancel(r, p) \/ RejectChange(r, p)
  \/ \E k \in Records :
       \/ SaveRecord(k) \/ DeleteRecord(k)
       \/ \E d \in Documents : UploadUndone(d, k)
       \/ \E p \in People, approved \in BOOLEAN : ReviewRecord(k, p, approved)

ProfSpec == ProfInit /\ [][ProfNext]_profVars

-----------------------------------------------------------------------------
(* Properties *)

\* What a profile shows as verified is what somebody with employee:write has seen and
\* accepted: a detail's row carries the value of an approved request, and a record the
\* content that was reviewed, whatever was written or edited in between
\* (upsert_primary_*, "resets verification"; save_education, save_work_experience).
VerifiedWasReviewed ==
  /\ \A i \in DetailRows : detail[i].verified => detail[i].value \in accepted
  /\ \A k \in Records : record[k].status = "VERIFIED" => record[k].content = reviewed[k]

\* A change request is decided once, with one event, although reviewers and the requester may
\* all act on it, and its payload is kept exactly as long as it is pending.
DecidedOnce ==
  \A r \in ChangeRequests :
     /\ decided[r] = IF change[r].status \in Final THEN 1 ELSE 0
     /\ change[r].sealed <=> change[r].status = "PENDING"

\* What a reviewer decides is decided once, and nothing else verifies anything.
ReviewsHold == ProfTypeOK /\ VerifiedWasReviewed /\ DecidedOnce
=============================================================================
