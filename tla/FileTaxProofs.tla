---------------------------- MODULE FileTaxProofs ----------------------------
(***************************************************************************)
(* What is proved of FileCleanup and Tax, for any files, callers, workers,  *)
(* employees, proof lines and requests.                                      *)
(***************************************************************************)
EXTENDS FileCleanup, Tax, SumTheorems, SequenceTheorems

\* Where a file's rows and bytes are at each step of its upload and afterwards: a stage
\* has its file and no tombstone, a document is a claimed stage, and what has no row any
\* more has a tombstone.
FileInv(f) ==
  /\ up[f] = "new" => f \notin object /\ f \notin meta
  /\ up[f] \in {"written", "stored", "rowFailed"} => f \in object
  /\ up[f] \in {"new", "written", "stored", "rowFailed"} => stage[f] = "NONE" /\ task[f] = "NONE"
  /\ up[f] = "stored" => f \in meta
  /\ up[f] = "stageFailed" => f \in meta \/ task[f] # "NONE"
  /\ stage[f] # "NONE" => f \in meta /\ f \in object /\ task[f] = "NONE"
  /\ docs[f] = IF stage[f] = "CLAIMED" THEN 1 ELSE 0
  /\ stage[f] = "CLAIMED" => up[f] = "done"
  /\ up[f] \in {"done", "failed"} => f \in meta \/ f \in lost \/ task[f] # "NONE"
  /\ task[f] = "COMPLETED" => f \notin object

\* Who publishes found the upload done.
CallInv(c) == cpc[c] # "idle" => call[c] \in Files /\ up[call[c]] = "done"

\* Who deletes has a tombstone, and the object is gone before that is recorded.
WorkInv(w) ==
  /\ wpc[w] # "idle" => wtask[w] \in Files /\ task[wtask[w]] # "NONE"
  /\ wpc[w] = "complete" => wtask[w] \notin object

\* What is due waits, and once.
QueueInv ==
  /\ \A i \in DOMAIN dueTasks : task[dueTasks[i]] \in {"PENDING", "FAILED"}
  /\ \A i, j \in DOMAIN dueTasks : dueTasks[i] = dueTasks[j] => i = j

FilesInv ==
  /\ FilesTypeOK
  /\ \A f \in Files : FileInv(f)
  /\ \A c \in Callers : CallInv(c)
  /\ \A w \in Workers : WorkInv(w)
  /\ QueueInv

-----------------------------------------------------------------------------
(* The queue *)

\* claim_due_task appends at most one reclaimed tombstone, and as it is in the set.
LEMMA OneReclaimed ==
  ASSUME NEW R, IsFiniteSet(R), Cardinality(R) \in {0, 1}
  PROVE  /\ SetToSeq(R) \in Seq(R)
         /\ \A i, j \in DOMAIN SetToSeq(R) : SetToSeq(R)[i] = SetToSeq(R)[j] => i = j
<1>1. SetToSeq(R) \in [1..Cardinality(R) -> R] /\ IsInjective(SetToSeq(R))
  <2>1. \E g \in [1..Cardinality(R) -> R] : IsInjective(g)
    <3>1. CASE Cardinality(R) = 0
      <4>1. [i \in 1..0 |-> i] \in [1..0 -> R]
        OBVIOUS
      <4>2. IsInjective([i \in 1..0 |-> i])
        BY DEF IsInjective
      <4>3. QED
        BY <3>1, <4>1, <4>2
    <3>2. CASE Cardinality(R) = 1
      <4>1. PICK x : R = {x}
        BY <3>2, FS_Singleton
      <4>2. [i \in 1..1 |-> x] \in [1..1 -> R]
        BY <4>1
      <4>3. IsInjective([i \in 1..1 |-> x])
        BY DEF IsInjective
      <4>4. QED
        BY <3>2, <4>2, <4>3
    <3>3. QED
      BY <3>1, <3>2
  <2>2. QED
    BY <2>1 DEF SetToSeq
<1>2. QED
  BY <1>1 DEF IsInjective

\* The tombstones a worker looks at wait and are different, those of a stale claim included.
Waiting(R, queue) ==
  /\ queue \in Seq(Files)
  /\ R \subseteq Files /\ \A f \in R : task[f] = "PROCESSING"
  /\ \A i \in 1..Len(queue) : queue[i] \in R \/ task[queue[i]] \in {"PENDING", "FAILED"}
  /\ \A i, j \in 1..Len(queue) : queue[i] = queue[j] => i = j

LEMMA QueueSound ==
  ASSUME FilesInv, NEW R \in SUBSET Reclaimable,
         Cardinality(R) = IF Reclaimable = {} THEN 0 ELSE 1,
         NEW queue, queue = dueTasks \o SetToSeq(R)
  PROVE  Waiting(R, queue)
<1>1. Reclaimable \subseteq Files /\ IsFiniteSet(Files)
  BY FileAssumption DEF FilesInv, FilesTypeOK, Reclaimable
<1>2. IsFiniteSet(R) /\ Cardinality(R) \in {0, 1}
  BY <1>1, FS_Subset
<1>3. /\ SetToSeq(R) \in Seq(R)
      /\ \A i, j \in DOMAIN SetToSeq(R) : SetToSeq(R)[i] = SetToSeq(R)[j] => i = j
  BY <1>2, OneReclaimed
<1>4. R \subseteq Files /\ \A f \in R : task[f] = "PROCESSING"
  BY <1>1 DEF Reclaimable
<1>5. PICK tail : tail = SetToSeq(R)
  OBVIOUS
<1>6. tail \in Seq(R) /\ tail \in Seq(Files) /\ dueTasks \in Seq(Files)
  BY <1>3, <1>4, <1>5 DEF FilesInv, FilesTypeOK
<1>7. /\ queue \in Seq(Files) /\ Len(queue) = Len(dueTasks) + Len(tail)
      /\ \A i \in 1..Len(queue) :
           queue[i] = IF i <= Len(dueTasks) THEN dueTasks[i] ELSE tail[i - Len(dueTasks)]
  BY <1>5, <1>6
<1>8. /\ \A i \in 1..Len(dueTasks) : task[dueTasks[i]] \in {"PENDING", "FAILED"}
      /\ \A i, j \in 1..Len(dueTasks) : dueTasks[i] = dueTasks[j] => i = j
  BY <1>6 DEF FilesInv, QueueInv
<1>9. /\ \A i \in 1..Len(tail) : tail[i] \in R
      /\ \A i, j \in 1..Len(tail) : tail[i] = tail[j] => i = j
  BY <1>3, <1>5, <1>6
<1>10. Len(dueTasks) \in Nat /\ Len(tail) \in Nat
  BY <1>6
<1>11. ASSUME NEW i \in 1..Len(queue)
       PROVE  /\ i <= Len(dueTasks) => queue[i] = dueTasks[i] /\ i \in 1..Len(dueTasks)
              /\ i > Len(dueTasks) => /\ queue[i] = tail[i - Len(dueTasks)]
                                      /\ i - Len(dueTasks) \in 1..Len(tail)
  BY <1>7, <1>10
<1>12. ASSUME NEW i \in 1..Len(queue)
       PROVE  queue[i] \in R \/ task[queue[i]] \in {"PENDING", "FAILED"}
  <2>1. CASE i <= Len(dueTasks) BY <1>8, <1>11, <2>1
  <2>2. CASE i > Len(dueTasks) BY <1>9, <1>11, <2>2
  <2> QED BY <1>10, <2>1, <2>2
<1>13. ASSUME NEW i \in 1..Len(queue), NEW j \in 1..Len(queue), queue[i] = queue[j]
       PROVE  i = j
  <2>1. CASE i <= Len(dueTasks) /\ j <= Len(dueTasks)
    BY <2>1, <1>8, <1>11, <1>13
  <2>2. CASE i > Len(dueTasks) /\ j > Len(dueTasks)
    <3>1. i - Len(dueTasks) = j - Len(dueTasks)
      BY <2>2, <1>9, <1>11, <1>13
    <3>2. QED
      BY <3>1, <1>10
  <2>3. ASSUME NEW k \in 1..Len(queue), NEW l \in 1..Len(queue),
               k <= Len(dueTasks), l > Len(dueTasks)
        PROVE  queue[k] # queue[l]
    <3>1. task[queue[k]] \in {"PENDING", "FAILED"}
      BY <2>3, <1>8, <1>11
    <3>2. queue[l] \in R
      BY <2>3, <1>9, <1>11
    <3>3. task[queue[l]] = "PROCESSING"
      BY <3>2, <1>4
    <3>4. QED
      BY <3>1, <3>3
  <2>4. QED
    BY <1>10, <1>13, <2>1, <2>2, <2>3
<1>14. QED
  BY <1>4, <1>7, <1>12, <1>13 DEF Waiting

\* A claim takes the first tombstone f of a queue in which every one waits, and once; the
\* stale ones R change besides.
ClaimOf(w, R, queue, f) ==
  /\ Waiting(R, queue) /\ Len(queue) > 0 /\ f = Head(queue)
  /\ task' = [g \in Files |-> IF g = f THEN "PROCESSING"
                              ELSE IF g \in R THEN "FAILED" ELSE task[g]]
  /\ token' = [g \in Files |-> IF g = f THEN w ELSE IF g \in R THEN NoWorker ELSE token[g]]
  /\ stale' = stale \ (R \cup {f}) /\ dueTasks' = Tail(queue)
  /\ wtask' = [wtask EXCEPT ![w] = f] /\ wpc' = [wpc EXCEPT ![w] = "delete"]
  /\ UNCHANGED <<uploadVars, rowVars, callVars, crashes>>

LEMMA Claimed ==
  ASSUME FilesInv, NEW w \in Workers, ClaimTask(w)
  PROVE  \E R \in SUBSET Files, queue \in Seq(Files), f \in Files : ClaimOf(w, R, queue, f)
<1>1. PICK R \in SUBSET Reclaimable : ClaimTask(w)!(R)
  BY DEF ClaimTask
<1>2. PICK queue : queue = dueTasks \o SetToSeq(R)
  OBVIOUS
<1>3. Len(queue) > 0 /\ Cardinality(R) = IF Reclaimable = {} THEN 0 ELSE 1
  BY <1>1, <1>2
<1>4. Waiting(R, queue)
  BY <1>2, <1>3, QueueSound
<1>5. PICK f \in Files : f = Head(queue)
  BY <1>3, <1>4 DEF Waiting
<1>6. /\ task' = [g \in Files |-> IF g = f THEN "PROCESSING"
                                  ELSE IF g \in R THEN "FAILED" ELSE task[g]]
      /\ token' = [g \in Files |-> IF g = f THEN w
                                   ELSE IF g \in R THEN NoWorker ELSE token[g]]
      /\ stale' = stale \ (R \cup {f}) /\ dueTasks' = Tail(queue)
      /\ wtask' = [wtask EXCEPT ![w] = f] /\ wpc' = [wpc EXCEPT ![w] = "delete"]
      /\ UNCHANGED <<uploadVars, rowVars, callVars, crashes>>
  BY <1>1, <1>2, <1>5
<1>7. ClaimOf(w, R, queue, f)
  BY <1>3, <1>4, <1>5, <1>6 DEF ClaimOf
<1>8. R \in SUBSET Files /\ queue \in Seq(Files)
  BY <1>4 DEF Waiting
<1>9. QED
  BY <1>7, <1>8

-----------------------------------------------------------------------------
(* Types *)

LEMMA InitTypeOK == FilesInit => FilesTypeOK
  BY FileAssumption DEF FilesInit, FilesTypeOK, UploadSteps, TaskStatus

\* A tombstone that is written keeps the types of its table.
LEMMA EntombTypes ==
  ASSUME FilesTypeOK, NEW f \in Files, Entomb(f)
  PROVE  /\ task' \in [Files -> TaskStatus] /\ token' \in [Files -> Workers \cup {NoWorker}]
         /\ stale' \in SUBSET Files /\ dueTasks' \in Seq(Files)
<1>1. CASE task[f] = "NONE"
  <2>1. dueTasks' = Append(dueTasks, f) /\ dueTasks \in Seq(Files)
    BY <1>1 DEF Entomb, FilesTypeOK
  <2>2. dueTasks' \in Seq(Files)
    BY <2>1
  <2>3. QED
    BY <1>1, <2>2 DEF Entomb, FilesTypeOK, TaskStatus
<1>2. CASE task[f] # "NONE"
  BY <1>2 DEF Entomb, FilesTypeOK, taskVars
<1>3. QED
  BY <1>1, <1>2

\* So does the claim of one.
LEMMA ClaimTypes ==
  ASSUME FilesInv, NEW w \in Workers, ClaimTask(w)
  PROVE  FilesTypeOK'
<1>1. PICK R \in SUBSET Files, queue \in Seq(Files), f \in Files : ClaimOf(w, R, queue, f)
  BY Claimed
<1>2. dueTasks' \in Seq(Files)
  BY <1>1 DEF ClaimOf
<1>3. QED
  BY <1>1, <1>2 DEF ClaimOf, FilesInv, FilesTypeOK, TaskStatus, uploadVars, rowVars, callVars

-----------------------------------------------------------------------------
(* What a step leaves alone *)

\* Calls do not notice steps of others, which leave a finished upload finished.
LEMMA CallsKept ==
  ASSUME \A c \in Callers : CallInv(c), UNCHANGED callVars,
         \A f \in Files : up[f] = "done" => up'[f] = "done"
  PROVE  \A c \in Callers : CallInv(c)'
  BY DEF CallInv, callVars

\* Nor do workers notice new tombstones, or new objects of files that have none.
LEMMA WorkKept ==
  ASSUME \A w \in Workers : WorkInv(w), UNCHANGED workVars,
         \A f \in Files : task[f] # "NONE" => task'[f] # "NONE",
         \A f \in object' : f \in object \/ task[f] = "NONE"
  PROVE  \A w \in Workers : WorkInv(w)'
  BY DEF WorkInv, workVars

\* A new tombstone goes to the end of the queue, and it is not there yet.
LEMMA EntombQueue ==
  ASSUME FilesTypeOK, QueueInv, NEW f \in Files, Entomb(f)
  PROVE  /\ QueueInv' /\ task' \in [Files -> TaskStatus]
         /\ \A g \in Files : task'[g] = IF g = f /\ task[f] = "NONE" THEN "PENDING" ELSE task[g]
<1>1. CASE task[f] = "NONE"
  <2>1. /\ dueTasks' = Append(dueTasks, f) /\ dueTasks \in Seq(Files)
        /\ task' = [task EXCEPT ![f] = "PENDING"] /\ task \in [Files -> TaskStatus]
    BY <1>1 DEF Entomb, FilesTypeOK
  <2>2. \A i \in 1..Len(dueTasks) : dueTasks[i] \in Files /\ dueTasks[i] # f
    BY <1>1, <2>1 DEF QueueInv
  <2>3. /\ DOMAIN dueTasks' = 1..(Len(dueTasks) + 1) /\ dueTasks'[Len(dueTasks) + 1] = f
        /\ \A i \in 1..Len(dueTasks) : dueTasks'[i] = dueTasks[i]
        /\ DOMAIN dueTasks = 1..Len(dueTasks) /\ Len(dueTasks) \in Nat
    BY <2>1
  <2>4. \A i \in DOMAIN dueTasks' : i = Len(dueTasks) + 1 \/ i \in 1..Len(dueTasks)
    BY <2>3
  <2>5. QueueInv'
    BY <2>1, <2>2, <2>3, <2>4 DEF QueueInv
  <2>6. QED
    BY <1>1, <2>1, <2>5 DEF TaskStatus
<1>2. CASE task[f] # "NONE"
  BY <1>2 DEF Entomb, taskVars, QueueInv, FilesTypeOK
<1>3. QED
  BY <1>1, <1>2

\* A step that writes no tombstone leaves the queue as it is.
LEMMA QueueKept ==
  ASSUME QueueInv, UNCHANGED taskVars PROVE QueueInv'
  BY DEF QueueInv, taskVars

-----------------------------------------------------------------------------
(* The steps *)

\* Every step keeps the invariant.
LEMMA StepKeepsFilesInv == FilesInv /\ [FilesNext]_fileVars => FilesInv'
<1> SUFFICES ASSUME FilesInv, [FilesNext]_fileVars PROVE FilesInv'
  OBVIOUS
<1> USE DEF FilesInv
<1>1. ASSUME NEW f \in Files, WriteObject(f) PROVE FilesInv'
  <2>1. FilesTypeOK'
    BY <1>1, FileAssumption DEF WriteObject, UploadGoes, Fails, FilesTypeOK, UploadSteps, uploadVars, rowVars, taskVars, callVars, workVars
  <2>2. ASSUME NEW g \in Files PROVE FileInv(g)'
    BY <1>1 DEF WriteObject, UploadGoes, Fails, FileInv, FilesTypeOK, uploadVars, rowVars, taskVars, callVars, workVars
  <2>3. \A c \in Callers : CallInv(c)'
    BY <1>1, CallsKept DEF WriteObject, UploadGoes, Fails, FilesTypeOK, uploadVars, rowVars, taskVars, callVars, workVars
  <2>4. \A w \in Workers : WorkInv(w)'
    BY <1>1, WorkKept DEF WriteObject, UploadGoes, Fails, FileInv, uploadVars, rowVars, taskVars, callVars, workVars
  <2>5. QueueInv'
    BY <1>1, QueueKept DEF WriteObject, uploadVars, rowVars, taskVars, callVars, workVars
  <2>6. QED
    BY <2>1, <2>2, <2>3, <2>4, <2>5
<1>2. ASSUME NEW f \in Files, WriteObjectFails(f) PROVE FilesInv'
  <2>1. FilesTypeOK'
    BY <1>2, FileAssumption DEF WriteObjectFails, UploadGoes, Fails, FilesTypeOK, UploadSteps, uploadVars, rowVars, taskVars, callVars, workVars
  <2>2. ASSUME NEW g \in Files PROVE FileInv(g)'
    BY <1>2 DEF WriteObjectFails, UploadGoes, Fails, FileInv, FilesTypeOK, uploadVars, rowVars, taskVars, callVars, workVars
  <2>3. \A c \in Callers : CallInv(c)'
    BY <1>2, CallsKept DEF WriteObjectFails, UploadGoes, Fails, FilesTypeOK, uploadVars, rowVars, taskVars, callVars, workVars
  <2>4. \A w \in Workers : WorkInv(w)'
    BY <1>2, WorkKept DEF WriteObjectFails, UploadGoes, Fails, FileInv, uploadVars, rowVars, taskVars, callVars, workVars
  <2>5. QueueInv'
    BY <1>2, QueueKept DEF WriteObjectFails, uploadVars, rowVars, taskVars, callVars, workVars
  <2>6. QED
    BY <2>1, <2>2, <2>3, <2>4, <2>5
<1>3. ASSUME NEW f \in Files, InsertRow(f) PROVE FilesInv'
  <2>1. FilesTypeOK'
    BY <1>3, FileAssumption DEF InsertRow, UploadGoes, Fails, FilesTypeOK, UploadSteps, uploadVars, rowVars, taskVars, callVars, workVars
  <2>2. ASSUME NEW g \in Files PROVE FileInv(g)'
    BY <1>3 DEF InsertRow, UploadGoes, Fails, FileInv, FilesTypeOK, uploadVars, rowVars, taskVars, callVars, workVars
  <2>3. \A c \in Callers : CallInv(c)'
    BY <1>3, CallsKept DEF InsertRow, UploadGoes, Fails, FilesTypeOK, uploadVars, rowVars, taskVars, callVars, workVars
  <2>4. \A w \in Workers : WorkInv(w)'
    BY <1>3, WorkKept DEF InsertRow, UploadGoes, Fails, FileInv, uploadVars, rowVars, taskVars, callVars, workVars
  <2>5. QueueInv'
    BY <1>3, QueueKept DEF InsertRow, uploadVars, rowVars, taskVars, callVars, workVars
  <2>6. QED
    BY <2>1, <2>2, <2>3, <2>4, <2>5
<1>4. ASSUME NEW f \in Files, InsertRowFails(f) PROVE FilesInv'
  <2>1. FilesTypeOK'
    BY <1>4, FileAssumption DEF InsertRowFails, UploadGoes, Fails, FilesTypeOK, UploadSteps, uploadVars, rowVars, taskVars, callVars, workVars
  <2>2. ASSUME NEW g \in Files PROVE FileInv(g)'
    BY <1>4 DEF InsertRowFails, UploadGoes, Fails, FileInv, FilesTypeOK, uploadVars, rowVars, taskVars, callVars, workVars
  <2>3. \A c \in Callers : CallInv(c)'
    BY <1>4, CallsKept DEF InsertRowFails, UploadGoes, Fails, FilesTypeOK, uploadVars, rowVars, taskVars, callVars, workVars
  <2>4. \A w \in Workers : WorkInv(w)'
    BY <1>4, WorkKept DEF InsertRowFails, UploadGoes, Fails, FileInv, uploadVars, rowVars, taskVars, callVars, workVars
  <2>5. QueueInv'
    BY <1>4, QueueKept DEF InsertRowFails, uploadVars, rowVars, taskVars, callVars, workVars
  <2>6. QED
    BY <2>1, <2>2, <2>3, <2>4, <2>5
<1>5. ASSUME NEW f \in Files, InsertStage(f) PROVE FilesInv'
  <2>1. FilesTypeOK'
    BY <1>5, FileAssumption DEF InsertStage, UploadGoes, Fails, FilesTypeOK, UploadSteps, uploadVars, rowVars, taskVars, callVars, workVars
  <2>2. ASSUME NEW g \in Files PROVE FileInv(g)'
    BY <1>5 DEF InsertStage, UploadGoes, Fails, FileInv, FilesTypeOK, uploadVars, rowVars, taskVars, callVars, workVars
  <2>3. \A c \in Callers : CallInv(c)'
    BY <1>5, CallsKept DEF InsertStage, UploadGoes, Fails, FilesTypeOK, uploadVars, rowVars, taskVars, callVars, workVars
  <2>4. \A w \in Workers : WorkInv(w)'
    BY <1>5, WorkKept DEF InsertStage, UploadGoes, Fails, FileInv, uploadVars, rowVars, taskVars, callVars, workVars
  <2>5. QueueInv'
    BY <1>5, QueueKept DEF InsertStage, uploadVars, rowVars, taskVars, callVars, workVars
  <2>6. QED
    BY <2>1, <2>2, <2>3, <2>4, <2>5
<1>6. ASSUME NEW f \in Files, InsertStageFails(f) PROVE FilesInv'
  <2>1. FilesTypeOK'
    BY <1>6, FileAssumption DEF InsertStageFails, UploadGoes, Fails, FilesTypeOK, UploadSteps, uploadVars, rowVars, taskVars, callVars, workVars
  <2>2. ASSUME NEW g \in Files PROVE FileInv(g)'
    BY <1>6 DEF InsertStageFails, UploadGoes, Fails, FileInv, FilesTypeOK, uploadVars, rowVars, taskVars, callVars, workVars
  <2>3. \A c \in Callers : CallInv(c)'
    BY <1>6, CallsKept DEF InsertStageFails, UploadGoes, Fails, FilesTypeOK, uploadVars, rowVars, taskVars, callVars, workVars
  <2>4. \A w \in Workers : WorkInv(w)'
    BY <1>6, WorkKept DEF InsertStageFails, UploadGoes, Fails, FileInv, uploadVars, rowVars, taskVars, callVars, workVars
  <2>5. QueueInv'
    BY <1>6, QueueKept DEF InsertStageFails, uploadVars, rowVars, taskVars, callVars, workVars
  <2>6. QED
    BY <2>1, <2>2, <2>3, <2>4, <2>5
<1>7. ASSUME NEW f \in Files, UploadDies(f) PROVE FilesInv'
  <2>1. FilesTypeOK'
    BY <1>7, FileAssumption DEF UploadDies, UploadGoes, Fails, FilesTypeOK, UploadSteps, uploadVars, rowVars, taskVars, callVars, workVars
  <2>2. ASSUME NEW g \in Files PROVE FileInv(g)'
    BY <1>7 DEF UploadDies, UploadGoes, Fails, FileInv, FilesTypeOK, uploadVars, rowVars, taskVars, callVars, workVars
  <2>3. \A c \in Callers : CallInv(c)'
    BY <1>7, CallsKept DEF UploadDies, UploadGoes, Fails, FilesTypeOK, uploadVars, rowVars, taskVars, callVars, workVars
  <2>4. \A w \in Workers : WorkInv(w)'
    BY <1>7, WorkKept DEF UploadDies, UploadGoes, Fails, FileInv, uploadVars, rowVars, taskVars, callVars, workVars
  <2>5. QueueInv'
    BY <1>7, QueueKept DEF UploadDies, uploadVars, rowVars, taskVars, callVars, workVars
  <2>6. QED
    BY <2>1, <2>2, <2>3, <2>4, <2>5
<1>8. ASSUME NEW f \in Files, Expire(f) PROVE FilesInv'
  <2>1. FilesTypeOK'
    BY <1>8, FileAssumption DEF Expire, UploadGoes, Fails, FilesTypeOK, UploadSteps, uploadVars, rowVars, taskVars, callVars, workVars
  <2>2. ASSUME NEW g \in Files PROVE FileInv(g)'
    BY <1>8 DEF Expire, UploadGoes, Fails, FileInv, FilesTypeOK, uploadVars, rowVars, taskVars, callVars, workVars
  <2>3. \A c \in Callers : CallInv(c)'
    BY <1>8, CallsKept DEF Expire, UploadGoes, Fails, FilesTypeOK, uploadVars, rowVars, taskVars, callVars, workVars
  <2>4. \A w \in Workers : WorkInv(w)'
    BY <1>8, WorkKept DEF Expire, UploadGoes, Fails, FileInv, uploadVars, rowVars, taskVars, callVars, workVars
  <2>5. QueueInv'
    BY <1>8, QueueKept DEF Expire, uploadVars, rowVars, taskVars, callVars, workVars
  <2>6. QED
    BY <2>1, <2>2, <2>3, <2>4, <2>5
<1>9. ASSUME NEW f \in Files, TombstoneObject(f) PROVE FilesInv'
  <2>1. Entomb(f) \/ UNCHANGED taskVars
    BY <1>9 DEF TombstoneObject, EntombAndDelete, taskVars
  <2>2. /\ task' \in [Files -> TaskStatus] /\ token' \in [Files -> Workers \cup {NoWorker}]
        /\ stale' \in SUBSET Files /\ dueTasks' \in Seq(Files) /\ QueueInv'
        /\ \A g \in Files : g # f \/ task[g] # "NONE" => task'[g] = task[g]
        /\ Entomb(f) => task'[f] # "NONE" /\ (task[f] = "NONE" => task'[f] = "PENDING")
    <3>1. CASE Entomb(f)
      BY <3>1, EntombTypes, EntombQueue
    <3>2. CASE UNCHANGED taskVars
      BY <3>2, QueueKept DEF taskVars, FilesTypeOK, Entomb
    <3>3. QED
      BY <2>1, <3>1, <3>2
  <2>3. FilesTypeOK'
    BY <1>9, <2>2 DEF TombstoneObject, EntombAndDelete, UploadGoes, FilesTypeOK, UploadSteps, uploadVars, rowVars, callVars, workVars
  <2>4. ASSUME NEW g \in Files PROVE FileInv(g)'
    BY <1>9, <2>2, <2>3 DEF TombstoneObject, EntombAndDelete, UploadGoes, FileInv, FilesTypeOK, uploadVars, rowVars, callVars, workVars
  <2>5. \A c \in Callers : CallInv(c)'
    BY <1>9, CallsKept DEF TombstoneObject, CallInv, UploadGoes, FilesTypeOK, uploadVars, rowVars, callVars, workVars
  <2>6. \A w \in Workers : WorkInv(w)'
    BY <1>9, <2>2, WorkKept DEF TombstoneObject, EntombAndDelete, UploadGoes, FilesTypeOK, uploadVars, rowVars, callVars, workVars
  <2>7. QED
    BY <2>2, <2>3, <2>4, <2>5, <2>6
<1>10. ASSUME NEW f \in Files, CleanupNewFile(f) PROVE FilesInv'
  <2>1. Entomb(f) \/ UNCHANGED taskVars
    BY <1>10 DEF CleanupNewFile, EntombAndDelete, taskVars
  <2>2. /\ task' \in [Files -> TaskStatus] /\ token' \in [Files -> Workers \cup {NoWorker}]
        /\ stale' \in SUBSET Files /\ dueTasks' \in Seq(Files) /\ QueueInv'
        /\ \A g \in Files : g # f \/ task[g] # "NONE" => task'[g] = task[g]
        /\ Entomb(f) => task'[f] # "NONE" /\ (task[f] = "NONE" => task'[f] = "PENDING")
    <3>1. CASE Entomb(f)
      BY <3>1, EntombTypes, EntombQueue
    <3>2. CASE UNCHANGED taskVars
      BY <3>2, QueueKept DEF taskVars, FilesTypeOK, Entomb
    <3>3. QED
      BY <2>1, <3>1, <3>2
  <2>3. FilesTypeOK'
    BY <1>10, <2>2 DEF CleanupNewFile, EntombAndDelete, UploadGoes, FilesTypeOK, UploadSteps, uploadVars, rowVars, callVars, workVars
  <2>4. ASSUME NEW g \in Files PROVE FileInv(g)'
    BY <1>10, <2>2, <2>3 DEF CleanupNewFile, EntombAndDelete, UploadGoes, FileInv, FilesTypeOK, uploadVars, rowVars, callVars, workVars
  <2>5. \A c \in Callers : CallInv(c)'
    BY <1>10, CallsKept DEF CleanupNewFile, CallInv, UploadGoes, FilesTypeOK, uploadVars, rowVars, callVars, workVars
  <2>6. \A w \in Workers : WorkInv(w)'
    BY <1>10, <2>2, WorkKept DEF CleanupNewFile, EntombAndDelete, UploadGoes, FilesTypeOK, uploadVars, rowVars, callVars, workVars
  <2>7. QED
    BY <2>2, <2>3, <2>4, <2>5, <2>6
<1>11. ASSUME NEW f \in Files, DeleteDocument(f) PROVE FilesInv'
  <2>1. Entomb(f) \/ UNCHANGED taskVars
    BY <1>11 DEF DeleteDocument, EntombAndDelete, taskVars
  <2>2. /\ task' \in [Files -> TaskStatus] /\ token' \in [Files -> Workers \cup {NoWorker}]
        /\ stale' \in SUBSET Files /\ dueTasks' \in Seq(Files) /\ QueueInv'
        /\ \A g \in Files : g # f \/ task[g] # "NONE" => task'[g] = task[g]
        /\ Entomb(f) => task'[f] # "NONE" /\ (task[f] = "NONE" => task'[f] = "PENDING")
    <3>1. CASE Entomb(f)
      BY <3>1, EntombTypes, EntombQueue
    <3>2. CASE UNCHANGED taskVars
      BY <3>2, QueueKept DEF taskVars, FilesTypeOK, Entomb
    <3>3. QED
      BY <2>1, <3>1, <3>2
  <2>3. docs[f] \in Nat /\ docs[f] > 0 /\ docs' = [docs EXCEPT ![f] = docs[f] - 1]
    BY <1>11 DEF DeleteDocument, FilesTypeOK
  <2>4. docs' \in [Files -> Nat]
    BY <2>3 DEF FilesTypeOK
  <2>5. FilesTypeOK'
    BY <1>11, <2>2, <2>4 DEF DeleteDocument, EntombAndDelete, FilesTypeOK, uploadVars, rowVars, callVars, workVars
  <2>6. ASSUME NEW g \in Files PROVE FileInv(g)'
    BY <1>11, <2>2, <2>3, <2>5 DEF DeleteDocument, EntombAndDelete, UploadGoes, FileInv, FilesTypeOK, uploadVars, rowVars, callVars, workVars
  <2>7. \A c \in Callers : CallInv(c)'
    BY <1>11, CallsKept DEF DeleteDocument, CallInv, UploadGoes, FilesTypeOK, uploadVars, rowVars, callVars, workVars
  <2>8. \A w \in Workers : WorkInv(w)'
    BY <1>11, <2>2, WorkKept DEF DeleteDocument, EntombAndDelete, UploadGoes, FilesTypeOK, uploadVars, rowVars, callVars, workVars
  <2>9. QED
    BY <2>2, <2>5, <2>6, <2>7, <2>8
<1>12. ASSUME NEW f \in Files, SweepStage(f) PROVE FilesInv'
  <2>1. Entomb(f) \/ UNCHANGED taskVars
    BY <1>12 DEF SweepStage, EntombAndDelete, taskVars
  <2>2. /\ task' \in [Files -> TaskStatus] /\ token' \in [Files -> Workers \cup {NoWorker}]
        /\ stale' \in SUBSET Files /\ dueTasks' \in Seq(Files) /\ QueueInv'
        /\ \A g \in Files : g # f \/ task[g] # "NONE" => task'[g] = task[g]
        /\ Entomb(f) => task'[f] # "NONE" /\ (task[f] = "NONE" => task'[f] = "PENDING")
    <3>1. CASE Entomb(f)
      BY <3>1, EntombTypes, EntombQueue
    <3>2. CASE UNCHANGED taskVars
      BY <3>2, QueueKept DEF taskVars, FilesTypeOK, Entomb
    <3>3. QED
      BY <2>1, <3>1, <3>2
  <2>3. FilesTypeOK'
    BY <1>12, <2>2 DEF SweepStage, EntombAndDelete, UploadGoes, FilesTypeOK, UploadSteps, uploadVars, rowVars, callVars, workVars
  <2>4. ASSUME NEW g \in Files PROVE FileInv(g)'
    BY <1>12, <2>2, <2>3 DEF SweepStage, EntombAndDelete, UploadGoes, FileInv, FilesTypeOK, uploadVars, rowVars, callVars, workVars
  <2>5. \A c \in Callers : CallInv(c)'
    BY <1>12, CallsKept DEF SweepStage, CallInv, UploadGoes, FilesTypeOK, uploadVars, rowVars, callVars, workVars
  <2>6. \A w \in Workers : WorkInv(w)'
    BY <1>12, <2>2, WorkKept DEF SweepStage, EntombAndDelete, UploadGoes, FilesTypeOK, uploadVars, rowVars, callVars, workVars
  <2>7. QED
    BY <2>2, <2>3, <2>4, <2>5, <2>6
<1>13. ASSUME NEW c \in Callers, NEW f \in Files, BeginPublish(c, f) PROVE FilesInv'
  <2>1. FilesTypeOK'
    BY <1>13, FileAssumption DEF BeginPublish, Fails, FilesTypeOK, CallInv, uploadVars, rowVars, taskVars, callVars, workVars
  <2>2. ASSUME NEW g \in Files PROVE FileInv(g)'
    BY <1>13 DEF BeginPublish, FileInv, FilesTypeOK, CallInv, uploadVars, rowVars, taskVars, callVars, workVars
  <2>3. \A d \in Callers : CallInv(d)'
    BY <1>13 DEF BeginPublish, CallInv, FilesTypeOK, uploadVars, rowVars, taskVars, callVars, workVars
  <2>4. \A w \in Workers : WorkInv(w)'
    BY <1>13, WorkKept DEF BeginPublish, Fails, uploadVars, rowVars, taskVars, callVars, workVars
  <2>5. QueueInv'
    BY <1>13, QueueKept DEF BeginPublish, uploadVars, rowVars, taskVars, callVars, workVars
  <2>6. QED
    BY <2>1, <2>2, <2>3, <2>4, <2>5
<1>14. ASSUME NEW c \in Callers, Publish(c) PROVE FilesInv'
  <2>1. FilesTypeOK'
    BY <1>14, FileAssumption DEF Publish, Fails, FilesTypeOK, CallInv, uploadVars, rowVars, taskVars, callVars, workVars
  <2>2. ASSUME NEW g \in Files PROVE FileInv(g)'
    BY <1>14 DEF Publish, FileInv, FilesTypeOK, CallInv, uploadVars, rowVars, taskVars, callVars, workVars
  <2>3. \A d \in Callers : CallInv(d)'
    BY <1>14 DEF Publish, CallInv, FilesTypeOK, uploadVars, rowVars, taskVars, callVars, workVars
  <2>4. \A w \in Workers : WorkInv(w)'
    BY <1>14, WorkKept DEF Publish, Fails, uploadVars, rowVars, taskVars, callVars, workVars
  <2>5. QueueInv'
    BY <1>14, QueueKept DEF Publish, uploadVars, rowVars, taskVars, callVars, workVars
  <2>6. QED
    BY <2>1, <2>2, <2>3, <2>4, <2>5
<1>15. ASSUME NEW c \in Callers, PublishFails(c) PROVE FilesInv'
  <2>1. FilesTypeOK'
    BY <1>15, FileAssumption DEF PublishFails, Fails, FilesTypeOK, CallInv, uploadVars, rowVars, taskVars, callVars, workVars
  <2>2. ASSUME NEW g \in Files PROVE FileInv(g)'
    BY <1>15 DEF PublishFails, FileInv, FilesTypeOK, CallInv, uploadVars, rowVars, taskVars, callVars, workVars
  <2>3. \A d \in Callers : CallInv(d)'
    BY <1>15 DEF PublishFails, CallInv, FilesTypeOK, uploadVars, rowVars, taskVars, callVars, workVars
  <2>4. \A w \in Workers : WorkInv(w)'
    BY <1>15, WorkKept DEF PublishFails, Fails, uploadVars, rowVars, taskVars, callVars, workVars
  <2>5. QueueInv'
    BY <1>15, QueueKept DEF PublishFails, uploadVars, rowVars, taskVars, callVars, workVars
  <2>6. QED
    BY <2>1, <2>2, <2>3, <2>4, <2>5
<1>16. ASSUME NEW c \in Callers, CallerDies(c) PROVE FilesInv'
  <2>1. FilesTypeOK'
    BY <1>16, FileAssumption DEF CallerDies, Fails, FilesTypeOK, CallInv, uploadVars, rowVars, taskVars, callVars, workVars
  <2>2. ASSUME NEW g \in Files PROVE FileInv(g)'
    BY <1>16 DEF CallerDies, FileInv, FilesTypeOK, CallInv, uploadVars, rowVars, taskVars, callVars, workVars
  <2>3. \A d \in Callers : CallInv(d)'
    BY <1>16 DEF CallerDies, CallInv, FilesTypeOK, uploadVars, rowVars, taskVars, callVars, workVars
  <2>4. \A w \in Workers : WorkInv(w)'
    BY <1>16, WorkKept DEF CallerDies, Fails, uploadVars, rowVars, taskVars, callVars, workVars
  <2>5. QueueInv'
    BY <1>16, QueueKept DEF CallerDies, uploadVars, rowVars, taskVars, callVars, workVars
  <2>6. QED
    BY <2>1, <2>2, <2>3, <2>4, <2>5
<1>17. ASSUME NEW c \in Callers, Compensate(c) PROVE FilesInv'
  <2>1. PICK f \in Files : f = call[c] /\ up[f] = "done"
    BY <1>17 DEF Compensate, CallInv
  <2>2. Entomb(f) \/ UNCHANGED taskVars
    BY <1>17, <2>1 DEF Compensate, EntombAndDelete, taskVars
  <2>3. /\ task' \in [Files -> TaskStatus] /\ token' \in [Files -> Workers \cup {NoWorker}]
        /\ stale' \in SUBSET Files /\ dueTasks' \in Seq(Files) /\ QueueInv'
        /\ \A g \in Files : g # f \/ task[g] # "NONE" => task'[g] = task[g]
        /\ Entomb(f) => task'[f] # "NONE" /\ (task[f] = "NONE" => task'[f] = "PENDING")
    <3>1. CASE Entomb(f)
      BY <3>1, EntombTypes, EntombQueue
    <3>2. CASE UNCHANGED taskVars
      BY <3>2, QueueKept DEF taskVars, FilesTypeOK, Entomb
    <3>3. QED
      BY <2>2, <3>1, <3>2
  <2>4. FilesTypeOK'
    BY <1>17, <2>1, <2>3 DEF Compensate, EntombAndDelete, UploadGoes, FilesTypeOK, UploadSteps, uploadVars, rowVars, callVars, workVars
  <2>5. ASSUME NEW g \in Files PROVE FileInv(g)'
    <3>1. CASE stage[f] = "OPEN"
      BY <1>17, <2>1, <2>3, <2>4, <3>1 DEF Compensate, EntombAndDelete, Entomb, FileInv, FilesTypeOK, uploadVars, rowVars, callVars, workVars
    <3>2. CASE stage[f] # "OPEN"
      BY <1>17, <2>1, <3>2 DEF Compensate, FileInv, FilesTypeOK, uploadVars, rowVars, taskVars, workVars
    <3>3. QED
      BY <3>1, <3>2
  <2>6. \A b \in Callers : CallInv(b)'
    BY <1>17, <2>1 DEF Compensate, CallInv, UploadGoes, FilesTypeOK, uploadVars, rowVars, callVars, workVars
  <2>7. \A w \in Workers : WorkInv(w)'
    BY <1>17, <2>1, <2>3, WorkKept DEF Compensate, EntombAndDelete, UploadGoes, FilesTypeOK, uploadVars, rowVars, callVars, workVars
  <2>8. QED
    BY <2>3, <2>4, <2>5, <2>6, <2>7
<1>18. ASSUME NEW w \in Workers, DeleteObject(w) PROVE FilesInv'
  <2>1. FilesTypeOK'
    BY <1>18, FileAssumption DEF DeleteObject, Fails, FilesTypeOK, uploadVars, rowVars, taskVars, callVars, workVars
  <2>2. ASSUME NEW g \in Files PROVE FileInv(g)'
    BY <1>18 DEF DeleteObject, FileInv, WorkInv, FilesTypeOK, uploadVars, rowVars, taskVars, callVars, workVars
  <2>3. \A c \in Callers : CallInv(c)'
    BY <1>18, CallsKept DEF DeleteObject, uploadVars, rowVars, taskVars, callVars, workVars
  <2>4. ASSUME NEW v \in Workers PROVE WorkInv(v)'
    BY <1>18 DEF DeleteObject, WorkInv, FilesTypeOK, uploadVars, rowVars, taskVars, callVars, workVars
  <2>5. QueueInv'
    BY <1>18, QueueKept DEF DeleteObject, uploadVars, rowVars, taskVars, callVars, workVars
  <2>6. QED
    BY <2>1, <2>2, <2>3, <2>4, <2>5
<1>19. ASSUME NEW w \in Workers, DeleteObjectFails(w) PROVE FilesInv'
  <2>1. FilesTypeOK'
    BY <1>19, FileAssumption DEF DeleteObjectFails, Fails, FilesTypeOK, uploadVars, rowVars, taskVars, callVars, workVars
  <2>2. ASSUME NEW g \in Files PROVE FileInv(g)'
    BY <1>19 DEF DeleteObjectFails, FileInv, WorkInv, FilesTypeOK, uploadVars, rowVars, taskVars, callVars, workVars
  <2>3. \A c \in Callers : CallInv(c)'
    BY <1>19, CallsKept DEF DeleteObjectFails, uploadVars, rowVars, taskVars, callVars, workVars
  <2>4. ASSUME NEW v \in Workers PROVE WorkInv(v)'
    BY <1>19 DEF DeleteObjectFails, WorkInv, FilesTypeOK, uploadVars, rowVars, taskVars, callVars, workVars
  <2>5. QueueInv'
    BY <1>19, QueueKept DEF DeleteObjectFails, uploadVars, rowVars, taskVars, callVars, workVars
  <2>6. QED
    BY <2>1, <2>2, <2>3, <2>4, <2>5
<1>20. ASSUME NEW w \in Workers, WorkerDies(w) PROVE FilesInv'
  <2>1. FilesTypeOK'
    BY <1>20, FileAssumption DEF WorkerDies, Fails, FilesTypeOK, uploadVars, rowVars, taskVars, callVars, workVars
  <2>2. ASSUME NEW g \in Files PROVE FileInv(g)'
    BY <1>20 DEF WorkerDies, FileInv, WorkInv, FilesTypeOK, uploadVars, rowVars, taskVars, callVars, workVars
  <2>3. \A c \in Callers : CallInv(c)'
    BY <1>20, CallsKept DEF WorkerDies, uploadVars, rowVars, taskVars, callVars, workVars
  <2>4. ASSUME NEW v \in Workers PROVE WorkInv(v)'
    BY <1>20 DEF WorkerDies, WorkInv, FilesTypeOK, uploadVars, rowVars, taskVars, callVars, workVars
  <2>5. QueueInv'
    BY <1>20, QueueKept DEF WorkerDies, uploadVars, rowVars, taskVars, callVars, workVars
  <2>6. QED
    BY <2>1, <2>2, <2>3, <2>4, <2>5
<1>21. ASSUME NEW w \in Workers, ClaimTask(w) PROVE FilesInv'
  <2>1. FilesInv
    BY DEF FilesInv
  <2>2. PICK R \in SUBSET Files, queue \in Seq(Files), f \in Files :
          ClaimOf(w, R, queue, f)
    BY <1>21, Claimed, <2>1
  <2>3. f \in R \/ task[f] \in {"PENDING", "FAILED"}
    BY <2>2 DEF ClaimOf, Waiting
  <2>4. FilesTypeOK'
    BY <1>21, <2>1, ClaimTypes
  <2>5. ASSUME NEW g \in Files PROVE FileInv(g)'
    BY <2>2, <2>3 DEF ClaimOf, Waiting, FileInv, FilesTypeOK, uploadVars, rowVars
  <2>6. \A c \in Callers : CallInv(c)'
    BY <2>2, CallsKept DEF ClaimOf, uploadVars, callVars
  <2>7. ASSUME NEW v \in Workers PROVE WorkInv(v)'
    BY <2>2, <2>3 DEF ClaimOf, Waiting, WorkInv, FilesTypeOK, rowVars
  <2>8. QueueInv'
    <3>1. PICK rest : rest = Tail(queue)
      OBVIOUS
    <3>2. /\ DOMAIN rest = 1..(Len(queue) - 1) /\ Len(queue) \in Nat
          /\ \A i \in 1..(Len(queue) - 1) : rest[i] = queue[i + 1]
      BY <2>2, <3>1 DEF ClaimOf, Waiting
    <3>3. f = queue[1]
      BY <2>2 DEF ClaimOf, Waiting
    <3>4. \A i \in DOMAIN rest : rest[i] \in Files /\ rest[i] = queue[i + 1] /\ i + 1 \in 1..Len(queue)
      BY <2>2, <3>2 DEF ClaimOf, Waiting
    <3>5. \A i \in DOMAIN rest : rest[i] # f
      BY <2>2, <3>2, <3>3, <3>4 DEF ClaimOf, Waiting
    <3>6. \A i \in DOMAIN rest : task'[rest[i]] \in {"PENDING", "FAILED"}
      BY <2>2, <3>4, <3>5 DEF ClaimOf, Waiting
    <3>7. \A i, j \in DOMAIN rest : rest[i] = rest[j] => i = j
      BY SMTT(60), <2>2, <3>2, <3>4 DEF ClaimOf, Waiting
    <3>8. QED
      BY <2>2, <3>1, <3>6, <3>7 DEF QueueInv, ClaimOf, Waiting
  <2>9. QED
    BY <2>4, <2>5, <2>6, <2>7, <2>8
<1>22. ASSUME NEW w \in Workers, Record(w) PROVE FilesInv'
  <2>1. wtask[w] \in Files
    BY <1>22 DEF Record, WorkInv
  <2>2. FilesTypeOK'
    BY ZenonT(60), <1>22, <2>1 DEF Record, FilesTypeOK, TaskStatus, Completed, uploadVars, rowVars, callVars
  <2>3. ASSUME NEW g \in Files PROVE FileInv(g)'
    BY <1>22, <2>1 DEF Record, Owns, Completed, FileInv, WorkInv, FilesTypeOK, uploadVars, rowVars
  <2>4. \A c \in Callers : CallInv(c)'
    BY <1>22, CallsKept DEF Record, uploadVars, callVars
  <2>5. ASSUME NEW v \in Workers PROVE WorkInv(v)'
    BY <1>22, <2>1 DEF Record, Owns, Completed, WorkInv, FilesTypeOK, rowVars
  <2>6. QueueInv'
    BY <1>22, <2>1 DEF Record, Owns, QueueInv, FilesTypeOK
  <2>7. QED
    BY <2>2, <2>3, <2>4, <2>5, <2>6
<1>23. ASSUME NEW f \in Files, ClaimAges(f) PROVE FilesInv'
  <2>1. FilesTypeOK' /\ \A g \in Files : FileInv(g)'
    BY <1>23 DEF ClaimAges, FilesTypeOK, FileInv, uploadVars, rowVars, callVars, workVars
  <2>2. \A c \in Callers : CallInv(c)'
    BY <1>23, CallsKept DEF ClaimAges, uploadVars
  <2>3. \A w \in Workers : WorkInv(w)'
    BY <1>23, WorkKept DEF ClaimAges, rowVars
  <2>4. QueueInv'
    BY <1>23 DEF ClaimAges, QueueInv
  <2>5. QED
    BY <2>1, <2>2, <2>3, <2>4
<1>24. ASSUME NEW f \in Files, RetryDue(f) PROVE FilesInv'
  <2>1. /\ dueTasks' = Append(dueTasks, f) /\ dueTasks \in Seq(Files)
        /\ task[f] = "FAILED" /\ ~ Contains(dueTasks, f)
        /\ UNCHANGED <<uploadVars, rowVars, task, token, stale, callVars, workVars, crashes>>
    BY <1>24 DEF RetryDue, FilesTypeOK
  <2>2. dueTasks' \in Seq(Files)
    BY <2>1
  <2>3. FilesTypeOK' /\ \A g \in Files : FileInv(g)'
    BY <2>1, <2>2 DEF FilesTypeOK, FileInv, uploadVars, rowVars, callVars, workVars
  <2>4. \A c \in Callers : CallInv(c)'
    BY <2>1, CallsKept DEF uploadVars
  <2>5. \A w \in Workers : WorkInv(w)'
    BY <2>1, WorkKept DEF rowVars
  <2>6. QueueInv'
    <3>1. /\ DOMAIN dueTasks' = 1..(Len(dueTasks) + 1) /\ dueTasks'[Len(dueTasks) + 1] = f
          /\ \A i \in 1..Len(dueTasks) : dueTasks'[i] = dueTasks[i]
          /\ DOMAIN dueTasks = 1..Len(dueTasks) /\ Len(dueTasks) \in Nat
      BY <2>1
    <3>2. \A i \in DOMAIN dueTasks' : i = Len(dueTasks) + 1 \/ i \in 1..Len(dueTasks)
      BY <3>1
    <3>3. \A i \in 1..Len(dueTasks) : dueTasks[i] # f
      BY <2>1 DEF Contains
    <3>4. QED
      BY <2>1, <3>1, <3>2, <3>3 DEF QueueInv
  <2>7. QED
    BY <2>3, <2>4, <2>5, <2>6
<1>25. CASE UNCHANGED fileVars
  BY <1>25 DEF fileVars, FilesTypeOK, FileInv, CallInv, WorkInv, QueueInv, uploadVars, rowVars, taskVars, callVars, workVars
<1>26. QED
  BY <1>1, <1>2, <1>3, <1>4, <1>5, <1>6, <1>7, <1>8, <1>9, <1>10, <1>11, <1>12, <1>13, <1>14, <1>15, <1>16, <1>17, <1>18, <1>19, <1>20, <1>21, <1>22, <1>23, <1>24, <1>25
     DEF FilesNext, Uploading, Publishing, Working

-----------------------------------------------------------------------------
(* The theorems *)

LEMMA FilesInvariant == FilesSpec => []FilesInv
<1>1. FilesInit => FilesInv
  BY InitTypeOK DEF FilesInit, FilesInv, FileInv, CallInv, WorkInv, QueueInv
<1>2. QED
  BY <1>1, StepKeepsFilesInv, PTL DEF FilesSpec

\* A document has its file, its bytes and no tombstone, and bytes without a row have a
\* tombstone that is not finished, whichever of upload, publication, compensation, sweep,
\* deletion, claims and crashes come in which order.
THEOREM FilesStayReadable == FilesSpec => []FilesAgree
<1>1. FilesInv => FilesAgree
  BY DEF FilesInv, FilesAgree, FilesTypeOK, DocumentsReadable, NothingLeaks, FileInv, TaskStatus,
     Unfinished
<1>2. QED
  BY <1>1, FilesInvariant, PTL

\* A tombstone that was completed stays so: claims, reclaims and late workers take it up
\* no more.
THEOREM CompletedForGood == FilesSpec => CompletedIsFinal
<1> DEFINE Final == \A f \in Files : task[f] = Completed => task'[f] = Completed
<1>1. ASSUME FilesInv, [FilesNext]_fileVars PROVE [Final]_fileVars
  <2> USE <1>1 DEF FilesInv, Completed
  <2>1. ASSUME NEW f \in Files,
               TombstoneObject(f) \/ CleanupNewFile(f) \/ DeleteDocument(f) \/ SweepStage(f)
        PROVE  Final
    BY <2>1 DEF TombstoneObject, CleanupNewFile, DeleteDocument, SweepStage, EntombAndDelete,
       Entomb, taskVars, FilesTypeOK
  <2>2. ASSUME NEW c \in Callers, Compensate(c) PROVE Final
    BY <2>2 DEF Compensate, EntombAndDelete, Entomb, taskVars, FilesTypeOK
  <2>3. ASSUME NEW w \in Workers, ClaimTask(w) PROVE Final
    <3>1. FilesInv
      BY DEF FilesInv
    <3>2. PICK R \in SUBSET Files, queue \in Seq(Files), f \in Files :
          ClaimOf(w, R, queue, f)
      BY <2>3, <3>1, Claimed
    <3>3. task[f] # Completed
      BY <3>2 DEF ClaimOf, Waiting
    <3>4. QED
      BY <3>2, <3>3 DEF ClaimOf, Waiting
  <2>4. ASSUME NEW w \in Workers, Record(w) PROVE Final
    BY <2>4 DEF Record, Owns, FilesTypeOK
  <2>5. CASE UNCHANGED task
    BY <2>5
  <2>6. ASSUME NEW f \in Files, \/ WriteObject(f) \/ WriteObjectFails(f) \/ UploadDies(f)
                                \/ InsertRow(f) \/ InsertRowFails(f) \/ InsertStage(f)
                                \/ InsertStageFails(f) \/ Expire(f) \/ ClaimAges(f) \/ RetryDue(f)
        PROVE  UNCHANGED task
    BY <2>6, Zenon DEF WriteObject, WriteObjectFails, UploadDies, InsertRow, InsertRowFails, InsertStage,
       InsertStageFails, Expire, ClaimAges, RetryDue, taskVars
  <2>7. ASSUME NEW c \in Callers, \/ \E f \in Files : BeginPublish(c, f)
                                  \/ Publish(c) \/ PublishFails(c) \/ CallerDies(c)
        PROVE  UNCHANGED task
    BY <2>7 DEF BeginPublish, Publish, PublishFails, CallerDies, taskVars
  <2>8. ASSUME NEW w \in Workers, DeleteObject(w) \/ DeleteObjectFails(w) \/ WorkerDies(w)
        PROVE  UNCHANGED task
    BY <2>8 DEF DeleteObject, DeleteObjectFails, WorkerDies, taskVars
  <2>9. QED
    BY <1>1, <2>1, <2>2, <2>3, <2>4, <2>5, <2>6, <2>7, <2>8
       DEF FilesNext, Uploading, Publishing, Working
<1>2. QED
  BY <1>1, FilesInvariant, PTL DEF FilesSpec, CompletedIsFinal



-----------------------------------------------------------------------------
(* Tax declarations *)

TaxSteps == {"idle", "lock", "define", "saveSettings", "resolve", "declare", "write", "sum",
             "saveTotal", "overlap", "saveHistory"}
Decisions == {"APPROVED", "REJECTED"}
CallRow == [pc : TaxSteps, next : TaxSteps, then : TaxSteps, employee : TaxPayers \cup {NoCall},
            regime : Regimes \cup {"NONE"}, version : Nat, section : Sections \cup {NoLine},
            amount : Nat, line : ProofLines \cup {NoLine}, to : Decisions \cup {"NONE", "PENDING"},
            sum : Int, stale : BOOLEAN, source : Sources \cup {NoLine},
            months : SUBSET UNION Spans, seen : Nat]
ProofRow == [status : Decisions \cup {"NONE", "PENDING"}, owner : TaxPayers \cup {NoCall}, version : Nat,
             section : Sections \cup {NoLine}, amount : Nat, regime : Regimes \cup {"NONE"}]
DefinitionRow == [regime : Regimes, active : BOOLEAN, automatic : BOOLEAN, replaced : BOOLEAN]
EntryRow == [revision : Nat, months : SUBSET UNION Spans]

RowTypes ==
  /\ proof \in [ProofLines -> ProofRow] /\ total \in [TaxPayers -> Int]
  /\ settings \in [TaxPayers -> [revision : Nat, regime : Regimes \cup {"NONE"}]]
  /\ definition \in Seq(DefinitionRow)
  /\ declared \in [TaxPayers -> [version : Nat, regime : Regimes \cup {"NONE"}]]
  /\ earned \in [Claimants -> [Sources -> EntryRow]]
  /\ summed \in [TaxPayers -> Nat] /\ outdated \in SUBSET TaxPayers

CallTypes ==
  /\ taxCall \in [TaxCalls -> CallRow]
  /\ taxLock \in [TaxPayers -> TaxCalls \cup {NoCall}] /\ defLock \in [Regimes -> TaxCalls \cup {NoCall}]
  /\ proofLock \in [ProofLines -> TaxCalls \cup {NoCall}]

\* What is filed names a definition of the regime it was filed under.
FiledInv(l) ==
  proof[l].status # "NONE" =>
    /\ proof[l].owner \in TaxPayers /\ proof[l].section \in Sections
    /\ proof[l].version \in DOMAIN definition /\ definition[proof[l].version].regime = proof[l].regime

DeclaredInv(e) ==
  declared[e].version # 0 =>
    /\ declared[e].version \in DOMAIN definition
    /\ definition[declared[e].version].regime = declared[e].regime

\* Definitions are born active, and only HR's edits change that.
ReplacedInv == \A d \in DOMAIN definition : ~definition[d].active => definition[d].replaced

RowInv == RowTypes /\ (\A l \in ProofLines : FiledInv(l)) /\ (\A e \in TaxPayers : DeclaredInv(e))
          /\ ReplacedInv /\ DefinedOnce /\ OneLinePerSection /\ HistoryApart /\ TotalIsApproved

\* Past its first step a request holds its employee's lock, but for a decision, which takes
\* it when it has read its sum.
LockInv(c) ==
  LET t == taxCall[c] IN
  /\ t.pc # "idle" => t.employee \in TaxPayers
  /\ t.pc = "lock" => t.next \in {"define", "resolve", "overlap", "saveTotal"}
  /\ t.pc = "lock" /\ t.next = "saveTotal" => t.to \in Decisions
  /\ t.pc = "resolve" \/ (t.pc = "lock" /\ t.next = "resolve") =>
       t.then \in {"write", "declare"} /\ (t.then = "write" => t.to = "PENDING")
  /\ t.pc = "write" => t.to = "PENDING"
  /\ t.pc \in {"sum", "saveTotal"} => t.to # "NONE"
  /\ t.pc = "sum" /\ t.to \in Decisions => t.next = "saveTotal"
  /\ t.pc \in {"overlap", "saveHistory"} \/ (t.pc = "lock" /\ t.next = "overlap") =>
       t.employee \in Claimants /\ t.source \in Sources
  /\ t.pc \notin {"idle", "lock"} /\ ~(t.pc = "sum" /\ t.to \in Decisions) => taxLock[t.employee] = c

\* The request means a definition: one that is there, or one that it alone will add.
Means(c) ==
  \/ taxCall[c].pc \in {"saveSettings", "declare", "write"}
  \/ taxCall[c].pc \in {"sum", "saveTotal"} /\ taxCall[c].to = "PENDING"

Unreplaced(r) ==
  {d \in DOMAIN definition : definition[d].regime = r /\ definition[d].automatic /\ ~definition[d].replaced}

MeansInv(c) ==
  LET t == taxCall[c] IN
  Means(c) =>
    /\ t.regime \in Regimes
    /\ t.version # 0 => t.version \in DOMAIN definition /\ definition[t.version].regime = t.regime
    /\ t.version = 0 => defLock[t.regime] = c /\ Unreplaced(t.regime) = {}
    /\ t.pc # "saveSettings" => settings[t.employee].regime = t.regime

\* The line in hand stays what it was when the request locked it, and if there was none of
\* the section there is none.
HasLine(c) == taxCall[c].pc = "sum" \/ SumIsRead(c)

LineInv(c) ==
  LET t == taxCall[c] IN
  HasLine(c) =>
    /\ t.line # NoLine =>
         /\ t.line \in ProofLines /\ proofLock[t.line] = c /\ t.line \in LinesOf(t.employee, t.version)
         /\ t.to \in Decisions => proof[t.line].status = "PENDING"
         /\ t.to = "PENDING" => proof[t.line].section = t.section
    /\ t.to \in Decisions => t.line # NoLine
    /\ t.to = "PENDING" => t.section \in Sections
    /\ t.to = "PENDING" /\ t.line = NoLine =>
         \A l \in LinesOf(t.employee, t.version) : proof[l].section # t.section

\* The sum that was read is true until another request commits a total.
SumInv(c) == SumIsRead(c) /\ ~taxCall[c].stale => taxCall[c].sum = SumOfApproved(c)

ApartInv(c) ==
  LET t == taxCall[c] IN
  t.pc = "saveHistory" =>
    \A k \in Sources \ {t.source} : earned[t.employee][k].months \intersect t.months = {}

DealInv(c) == LockInv(c) /\ MeansInv(c) /\ LineInv(c) /\ SumInv(c) /\ ApartInv(c)

TaxInv == RowInv /\ CallTypes /\ \A c \in TaxCalls : DealInv(c)

\* A sum is decided by the lines it is over and their amounts.
LEMMA SameAmounts ==
  ASSUME NEW S \in SUBSET ProofLines, \A l \in S : proof'[l].amount = proof[l].amount
  PROVE  AmountOf(S)' = AmountOf(S)
<1> DEFINE f == [l \in ProofLines |-> proof[l].amount]
           g == [l \in ProofLines |-> proof'[l].amount]
<1>1. IsFiniteSet(S) BY TaxAssumption, FS_Subset
<1>2. \A l \in S : f[l] = g[l] OBVIOUS
<1> HIDE DEF f, g
<1>3. SumFunctionOnSet(f, S) = SumFunctionOnSet(g, S) BY <1>1, <1>2, SumSame
<1> QED BY <1>3 DEF AmountOf, f, g

LEMMA SameSum ==
  ASSUME NEW e, NEW v, ApprovedLines(e, v)' = ApprovedLines(e, v),
         \A l \in ApprovedLines(e, v) : proof'[l].amount = proof[l].amount
  PROVE  AmountOf(ApprovedLines(e, v))' = AmountOf(ApprovedLines(e, v))
<1>1. PICK S \in SUBSET ProofLines : S = ApprovedLines(e, v) BY DEF ApprovedLines, LinesOf
<1>2. AmountOf(S)' = AmountOf(S) BY <1>1, SameAmounts
<1>3. AmountOf(ApprovedLines(e, v))' = AmountOf(S)' BY <1>1 DEF AmountOf
<1> QED BY <1>1, <1>2, <1>3

LEMMA RowsStay ==
  ASSUME RowInv, UNCHANGED <<taxRows, totalHistory>>
  PROVE  RowInv'
<1>1. /\ proof' = proof /\ total' = total /\ settings' = settings /\ definition' = definition
      /\ declared' = declared /\ earned' = earned /\ summed' = summed /\ outdated' = outdated
  BY DEF taxRows, totalHistory
<1>2. RowTypes' BY <1>1 DEF RowInv, RowTypes
<1>3. (\A l \in ProofLines : FiledInv(l))' /\ (\A e \in TaxPayers : DeclaredInv(e))' /\ ReplacedInv'
  BY <1>1 DEF RowInv, FiledInv, DeclaredInv, ReplacedInv
<1>4. DefinedOnce' BY <1>1 DEF RowInv, DefinedOnce
<1>5. OneLinePerSection' BY <1>1 DEF RowInv, OneLinePerSection
<1>6. HistoryApart' BY <1>1 DEF RowInv, HistoryApart
<1>7. TotalIsApproved'
  <2> SUFFICES ASSUME NEW e \in TaxPayers, e \notin outdated
               PROVE  total[e] = AmountOf(ApprovedLines(e, summed[e]))'
    BY <1>1 DEF TotalIsApproved
  <2>1. PICK v : v = summed[e] OBVIOUS
  <2>2. ApprovedLines(e, v)' = ApprovedLines(e, v) BY <1>1 DEF ApprovedLines, LinesOf
  <2>3. AmountOf(ApprovedLines(e, v))' = AmountOf(ApprovedLines(e, v)) BY <1>1, <2>2, SameSum
  <2>4. AmountOf(ApprovedLines(e, summed[e]))' = AmountOf(ApprovedLines(e, v))'
    BY <1>1, <2>1 DEF AmountOf, ApprovedLines, LinesOf
  <2> QED BY <2>1, <2>3, <2>4 DEF RowInv, TotalIsApproved
<1> QED BY <1>2, <1>3, <1>4, <1>5, <1>6, <1>7 DEF RowInv

\* Nobody takes another request's locks away.
KeepsLocks(d) ==
  /\ \A e \in TaxPayers : taxLock[e] = d => taxLock'[e] = d
  /\ \A r \in Regimes : defLock[r] = d => defLock'[r] = d
  /\ \A l \in ProofLines : proofLock[l] = d => proofLock'[l] = d

\* What a request relies on is behind its locks: it holds while what they cover stays.
LEMMA OthersStay ==
  ASSUME NEW d \in TaxCalls, DealInv(d), CallTypes, KeepsLocks(d),
         taxCall'[d] = taxCall[d] \/ taxCall'[d] = [taxCall[d] EXCEPT !.stale = TRUE],
         LET t == taxCall[d] IN
         /\ DOMAIN definition \subseteq DOMAIN definition'
         /\ \A x \in DOMAIN definition : definition'[x].regime = definition[x].regime
         /\ \A r \in Regimes : defLock[r] = d /\ Unreplaced(r) = {} => Unreplaced(r)' = {}
         /\ taxLock[t.employee] = d => /\ settings'[t.employee] = settings[t.employee]
                                       /\ earned'[t.employee] = earned[t.employee]
                                       /\ \A v \in Nat : LinesOf(t.employee, v)' = LinesOf(t.employee, v)
         /\ \A l \in ProofLines : (proofLock[l] = d /\ proof[l].status # "NONE")
                                  \/ (taxLock[t.employee] = d /\ proof[l].owner = t.employee
                                      /\ proof[l].status # "NONE") => proof'[l] = proof[l],
         SumInv(d)'
  PROVE  DealInv(d)'
<1> DEFINE t == taxCall[d]
<1>1. t \in CallRow BY DEF CallTypes
<1> HIDE DEF t
<1>2. /\ taxCall'[d].pc = t.pc /\ taxCall'[d].next = t.next /\ taxCall'[d].then = t.then
      /\ taxCall'[d].employee = t.employee /\ taxCall'[d].regime = t.regime
      /\ taxCall'[d].version = t.version /\ taxCall'[d].section = t.section
      /\ taxCall'[d].line = t.line /\ taxCall'[d].to = t.to /\ taxCall'[d].source = t.source
      /\ taxCall'[d].months = t.months
  BY <1>1 DEF CallRow, t
<1>3. LockInv(d)'
  <2>1. t.pc # "idle" => t.employee \in TaxPayers BY DEF DealInv, LockInv, t
  <2> QED BY <1>2, <2>1 DEF DealInv, LockInv, KeepsLocks, t
<1>4. MeansInv(d)'
  <2>1. Means(d) => taxLock[t.employee] = d BY DEF DealInv, LockInv, Means, Decisions, t
  <2> SUFFICES ASSUME Means(d) PROVE MeansInv(d)' BY <1>2 DEF MeansInv, Means, t
  <2>2. t.regime \in Regimes BY DEF DealInv, MeansInv, t
  <2>3. t.version # 0 => t.version \in DOMAIN definition' /\ definition'[t.version].regime = t.regime
    BY DEF DealInv, MeansInv, t
  <2>4. PICK r \in Regimes : r = t.regime BY <2>2
  <2>5. t.version = 0 => defLock'[r] = d /\ Unreplaced(r)' = {}
    BY <2>4 DEF DealInv, MeansInv, KeepsLocks, t
  <2>6. t.pc # "saveSettings" => settings'[t.employee].regime = t.regime
    BY <2>1 DEF DealInv, MeansInv, t
  <2> QED BY <1>2, <2>2, <2>3, <2>4, <2>5, <2>6 DEF MeansInv, Unreplaced
<1>5. LineInv(d)'
  <2>1. HasLine(d)' <=> HasLine(d) BY <1>2 DEF HasLine, SumIsRead, At, t
  <2> SUFFICES ASSUME HasLine(d) PROVE LineInv(d)' BY <2>1 DEF LineInv
  <2>2. t.line # NoLine =>
          /\ t.line \in ProofLines /\ proofLock'[t.line] = d /\ proof'[t.line] = proof[t.line]
          /\ t.line \in LinesOf(t.employee, t.version)
    BY DEF DealInv, LineInv, LinesOf, KeepsLocks, t
  <2>3. t.line # NoLine => t.line \in LinesOf(t.employee, t.version)'
    BY <1>2, <2>2 DEF LinesOf, t
  <2>4. t.to = "PENDING" =>
          /\ LinesOf(t.employee, t.version)' = LinesOf(t.employee, t.version)
          /\ \A l \in LinesOf(t.employee, t.version) : proof'[l] = proof[l]
    <3> SUFFICES ASSUME t.to = "PENDING"
                 PROVE  /\ LinesOf(t.employee, t.version)' = LinesOf(t.employee, t.version)
                        /\ \A l \in LinesOf(t.employee, t.version) : proof'[l] = proof[l]
      OBVIOUS
    <3>1. taxLock[t.employee] = d
      BY DEF DealInv, LockInv, HasLine, SumIsRead, At, Decisions, t
    <3>2. PICK v \in Nat : v = t.version BY <1>1 DEF CallRow
    <3>3. PICK e : e = t.employee OBVIOUS
    <3>4. LinesOf(e, v)' = LinesOf(e, v) BY <3>1, <3>2, <3>3, <1>2 DEF LinesOf, t
    <3> QED BY <1>2, <3>1, <3>2, <3>3, <3>4 DEF LinesOf, t
  <2>5. t.to \in Decisions \cup {"NONE", "PENDING"} BY <1>1 DEF CallRow
  <2> QED BY <1>2, <2>2, <2>3, <2>4, <2>5 DEF DealInv, LineInv, t
<1>6. ApartInv(d)'
  <2>1. t.pc = "saveHistory" => taxLock[t.employee] = d BY DEF DealInv, LockInv, Decisions, t
  <2> QED BY <1>2, <2>1 DEF DealInv, ApartInv, t
<1> QED BY <1>3, <1>4, <1>5, <1>6 DEF DealInv


LEMMA SumStays ==
  ASSUME NEW d \in TaxCalls, NEW e, NEW v, SumInv(d), taxCall'[d] = taxCall[d],
         e = taxCall[d].employee, v = taxCall[d].version,
         SumIsRead(d) /\ ~taxCall[d].stale =>
           /\ ApprovedLines(e, v)' = ApprovedLines(e, v)
           /\ \A l \in ApprovedLines(e, v) : proof'[l].amount = proof[l].amount
           /\ taxCall[d].to = "APPROVED" => proof'[taxCall[d].line].amount = proof[taxCall[d].line].amount
  PROVE  SumInv(d)'
<1> SUFFICES ASSUME SumIsRead(d), ~taxCall[d].stale PROVE SumInv(d)'
  BY DEF SumInv, SumIsRead, At
<1>1. PICK x : x = taxCall[d].line OBVIOUS
<1>2. AmountOf(ApprovedLines(e, v) \ {x})' = AmountOf(ApprovedLines(e, v) \ {x})
  <2>1. /\ ApprovedLines(e, v)' = ApprovedLines(e, v)
        /\ \A l \in ApprovedLines(e, v) : proof'[l].amount = proof[l].amount
    OBVIOUS
  <2>2. PICK T \in SUBSET ProofLines : T = ApprovedLines(e, v) \ {x}
    BY DEF ApprovedLines, LinesOf
  <2>3. AmountOf(T)' = AmountOf(T) BY <2>1, <2>2, SameAmounts
  <2>4. AmountOf(ApprovedLines(e, v) \ {x})' = AmountOf(T)' BY <2>1, <2>2 DEF AmountOf
  <2> QED BY <2>2, <2>3, <2>4
<1>3. SumOfApproved(d) = AmountOf(ApprovedLines(e, v) \ {x})
        + (IF taxCall[d].to = "APPROVED" THEN proof[taxCall[d].line].amount ELSE 0)
  BY <1>1 DEF SumOfApproved
<1>4. AmountOf(ApprovedLines(e, v) \ {x})' =
        AmountOf(ApprovedLines(taxCall[d].employee, taxCall[d].version) \ {taxCall[d].line})'
  BY <1>1 DEF AmountOf, ApprovedLines, LinesOf
<1>5. SumOfApproved(d)' = AmountOf(ApprovedLines(e, v) \ {x})'
        + (IF taxCall[d].to = "APPROVED" THEN proof'[taxCall[d].line].amount ELSE 0)
  BY <1>4 DEF SumOfApproved
<1>6. SumOfApproved(d)' = SumOfApproved(d) BY <1>2, <1>3, <1>5
<1> QED BY <1>6 DEF SumInv, SumIsRead, At

\* A step that stores nothing touches its own request alone.
LEMMA QuietForOthers ==
  ASSUME TaxInv, NEW d \in TaxCalls, UNCHANGED <<taxRows, totalHistory>>, taxCall'[d] = taxCall[d],
         KeepsLocks(d)
  PROVE  DealInv(d)'
<1>1. proof' = proof /\ definition' = definition /\ settings' = settings /\ earned' = earned
  BY DEF taxRows
<1>2. DealInv(d) /\ CallTypes BY DEF TaxInv
<1>3. \A e, v : /\ LinesOf(e, v)' = LinesOf(e, v)
                /\ ApprovedLines(e, v)' = ApprovedLines(e, v)
  BY <1>1 DEF LinesOf, ApprovedLines
<1>4. \A r : Unreplaced(r)' = Unreplaced(r) BY <1>1 DEF Unreplaced
<1>5. PICK e, v : e = taxCall[d].employee /\ v = taxCall[d].version OBVIOUS
<1>6. SumInv(d) BY <1>2 DEF DealInv
<1>7. SumInv(d)' BY <1>1, <1>3, <1>5, <1>6, SumStays
<1>8. \A n \in Nat : LinesOf(e, n)' = LinesOf(e, n) BY <1>3
<1>9. \A n \in Nat : LinesOf(taxCall[d].employee, n)' = LinesOf(taxCall[d].employee, n)
  BY <1>5, <1>8 DEF LinesOf
<1>10. \A r \in Regimes : Unreplaced(r) = {} => Unreplaced(r)' = {} BY <1>4
<1> QED BY <1>1, <1>2, <1>7, <1>9, <1>10, OthersStay

LEMMA QuietKeeps ==
  ASSUME TaxInv, NEW c \in TaxCalls, UNCHANGED <<taxRows, totalHistory>>, CallTypes', DealInv(c)',
         \A d \in TaxCalls \ {c} : taxCall'[d] = taxCall[d] /\ KeepsLocks(d)
  PROVE  TaxInv'
<1>1. RowInv' BY RowsStay DEF TaxInv
<1>2. \A d \in TaxCalls \ {c} : DealInv(d)' BY QuietForOthers
<1> QED BY <1>1, <1>2 DEF TaxInv

LEMMA RestingRow ==
  /\ Resting \in CallRow /\ Resting.pc = "idle" /\ Resting.next = "idle" /\ Resting.version = 0
  /\ Resting.line = NoLine /\ Resting.to = "NONE" /\ ~Resting.stale
BY DEF Resting, CallRow, TaxSteps

\* A request that does not run, or has only begun, relies on nothing.
LEMMA AtRest ==
  ASSUME NEW c \in TaxCalls, taxCall'[c] = Resting
  PROVE  DealInv(c)'
BY RestingRow DEF DealInv, LockInv, MeansInv, Means, LineInv, HasLine, SumInv, SumIsRead, ApartInv, At,
                  Decisions

LEMMA ReleasesKeep ==
  ASSUME NEW c \in TaxCalls, CallTypes, Releases(c)
  PROVE  /\ \A d \in TaxCalls \ {c} : KeepsLocks(d)
         /\ taxLock' \in [TaxPayers -> TaxCalls \cup {NoCall}]
         /\ defLock' \in [Regimes -> TaxCalls \cup {NoCall}]
         /\ proofLock' \in [ProofLines -> TaxCalls \cup {NoCall}]
BY DEF Releases, CallTypes, KeepsLocks

LEMMA AbortKeeps ==
  ASSUME TaxInv, NEW c \in TaxCalls, Abort(c)
  PROVE  TaxInv'
<1>1. CallTypes BY DEF TaxInv
<1>2. /\ taxCall' = [taxCall EXCEPT ![c] = Resting] /\ Releases(c)
      /\ UNCHANGED <<taxRows, totalHistory>>
  BY DEF Abort
<1>3. /\ taxCall'[c] = Resting /\ \A d \in TaxCalls \ {c} : taxCall'[d] = taxCall[d]
      /\ taxCall' \in [TaxCalls -> CallRow]
  BY <1>1, <1>2, RestingRow DEF CallTypes
<1>4. CallTypes' BY <1>1, <1>2, <1>3, ReleasesKeep DEF CallTypes
<1> QED BY <1>1, <1>2, <1>3, <1>4, AtRest, QuietKeeps, ReleasesKeep

\* The first step of a request: it waits for its employee's lock.
LEMMA BeginsKeeps ==
  ASSUME TaxInv, NEW c \in TaxCalls, NEW work \in CallRow, Begins(c, work),
         UNCHANGED <<taxRows, lockVars, totalHistory>>,
         work.pc = "lock" /\ work.employee \in TaxPayers,
         \/ work.next = "define"
         \/ work.next = "resolve" /\ work.then = "declare"
         \/ work.next = "resolve" /\ work.then = "write" /\ work.to = "PENDING"
         \/ work.next = "overlap" /\ work.employee \in Claimants /\ work.source \in Sources
  PROVE  TaxInv'
<1>1. CallTypes BY DEF TaxInv
<1>2. /\ taxCall'[c] = work /\ \A d \in TaxCalls \ {c} : taxCall'[d] = taxCall[d]
      /\ taxCall' \in [TaxCalls -> CallRow]
  BY <1>1 DEF Begins, CallTypes
<1>3. taxLock' = taxLock /\ defLock' = defLock /\ proofLock' = proofLock BY DEF lockVars
<1>4. CallTypes' BY <1>1, <1>2, <1>3 DEF CallTypes
<1>5. DealInv(c)'
  <2>1. work.next # "saveTotal" OBVIOUS
  <2> QED BY <1>2, <2>1 DEF DealInv, LockInv, MeansInv, Means, LineInv, HasLine, SumInv, SumIsRead, ApartInv, At
<1>6. \A d \in TaxCalls \ {c} : KeepsLocks(d) BY <1>3 DEF KeepsLocks
<1> QED BY <1>2, <1>4, <1>5, <1>6, QuietKeeps

LEMMA LockEmployeeKeeps ==
  ASSUME TaxInv, NEW c \in TaxCalls, LockEmployee(c)
  PROVE  TaxInv'
<1> DEFINE t == taxCall[c]
           work == [t EXCEPT !.pc = t.next]
<1>1. CallTypes /\ DealInv(c) /\ t \in CallRow BY DEF TaxInv, CallTypes
<1>2. t.pc = "lock" /\ t.employee \in TaxPayers BY <1>1 DEF LockEmployee, At, DealInv, LockInv
<1>3. taxLock[t.employee] = NoCall /\ taxLock' = [taxLock EXCEPT ![t.employee] = c]
      /\ UNCHANGED <<taxRows, defLock, proofLock, totalHistory>>
  BY DEF LockEmployee
<1>4. taxCall' = [taxCall EXCEPT ![c] = work] BY <1>1 DEF LockEmployee, Goes, CallTypes
<1> HIDE DEF t
<1>5. /\ work \in CallRow /\ work.pc = t.next /\ work.employee = t.employee /\ work.to = t.to
      /\ work.then = t.then /\ work.source = t.source /\ work.version = t.version /\ work.line = t.line
      /\ work.section = t.section /\ work.sum = t.sum /\ work.stale = t.stale
  BY <1>1 DEF CallRow
<1> HIDE DEF work
<1>6. /\ taxCall'[c] = work /\ \A d \in TaxCalls \ {c} : taxCall'[d] = taxCall[d]
      /\ taxCall' \in [TaxCalls -> CallRow]
  BY <1>1, <1>4, <1>5 DEF CallTypes
<1>7. /\ taxLock'[t.employee] = c /\ \A e \in TaxPayers \ {t.employee} : taxLock'[e] = taxLock[e]
      /\ taxLock' \in [TaxPayers -> TaxCalls \cup {NoCall}]
  BY <1>1, <1>2, <1>3 DEF CallTypes
<1>8. CallTypes' BY <1>1, <1>3, <1>6, <1>7 DEF CallTypes
<1>9. \A d \in TaxCalls \ {c} : KeepsLocks(d)
  BY <1>3, <1>7, TaxAssumption DEF KeepsLocks
<1>10. t.next \in {"define", "resolve", "overlap", "saveTotal"} BY <1>1, <1>2 DEF DealInv, LockInv, t
<1>11. LockInv(c)' BY <1>1, <1>2, <1>5, <1>6, <1>7, <1>10 DEF DealInv, LockInv, Decisions, t
<1>12. MeansInv(c)'
  <2>1. t.next = "saveTotal" => t.to \in Decisions BY <1>1, <1>2 DEF DealInv, LockInv, t
  <2> QED BY <1>5, <1>6, <1>10, <2>1 DEF MeansInv, Means, Decisions
<1>13. LineInv(c)'
  <2>1. HasLine(c)' => HasLine(c) BY <1>2, <1>5, <1>6, <1>10 DEF HasLine, SumIsRead, At, t
  <2>2. proof' = proof /\ proofLock' = proofLock BY <1>3 DEF taxRows
  <2> QED BY <1>1, <1>5, <1>6, <2>1, <2>2 DEF DealInv, LineInv, LinesOf, t
<1>14. SumInv(c)'
  <2>1. SumIsRead(c)' => SumIsRead(c) BY <1>2, <1>5, <1>6, <1>10 DEF SumIsRead, At, t
  <2>2. SumOfApproved(c)' = SumOfApproved(c)
    BY ZenonT(60), <1>3, <1>5, <1>6 DEF SumOfApproved, AmountOf, ApprovedLines, LinesOf, taxRows, t
  <2> QED BY <1>1, <1>5, <1>6, <2>1, <2>2 DEF DealInv, SumInv, t
<1>15. ApartInv(c)' BY <1>5, <1>6, <1>10 DEF ApartInv
<1> QED BY <1>3, <1>6, <1>8, <1>9, <1>11, <1>12, <1>13, <1>14, <1>15, QuietKeeps DEF DealInv


\* Requests begin.
LEMMA BeginSettingsKeeps ==
  ASSUME TaxInv, NEW c \in TaxCalls, NEW e \in TaxPayers, BeginSettings(c, e)
  PROVE  TaxInv'
<1> DEFINE work == [Resting EXCEPT !.pc = "lock", !.next = "define", !.employee = e,
                                   !.seen = settings[e].revision]
<1>1. settings[e].revision \in Nat BY DEF TaxInv, RowInv, RowTypes
<1>2. work \in CallRow
  <2> DEFINE bound == [Resting EXCEPT !.pc = "lock", !.next = "define"]
             named == [bound EXCEPT !.employee = e]
  <2>1. bound \in CallRow
    <3>1. "lock" \in TaxSteps /\ "define" \in TaxSteps BY DEF TaxSteps
    <3> QED BY ZenonT(60), <3>1, RestingRow DEF CallRow
  <2>2. work = [named EXCEPT !.seen = settings[e].revision] BY RestingRow DEF CallRow
  <2> HIDE DEF bound
  <2>3. named \in CallRow BY ZenonT(60), <2>1 DEF CallRow
  <2> HIDE DEF named, work
  <2> QED BY ZenonT(60), <1>1, <2>2, <2>3 DEF CallRow
<1>3. work.pc = "lock" /\ work.next = "define" /\ work.employee = e BY RestingRow DEF CallRow
<1>4. Begins(c, work) /\ UNCHANGED <<taxRows, lockVars, totalHistory>> BY DEF BeginSettings
<1> HIDE DEF work
<1> QED BY <1>2, <1>3, <1>4, BeginsKeeps

LEMMA BeginSubmissionKeeps ==
  ASSUME TaxInv, NEW c \in TaxCalls, NEW e \in Claimants, BeginSubmission(c, e)
  PROVE  TaxInv'
<1> DEFINE work == [Resting EXCEPT !.pc = "lock", !.next = "resolve", !.then = "write",
                                   !.employee = e, !.to = "PENDING"]
<1>1. e \in TaxPayers BY TaxAssumption
<1>2. work \in CallRow
  <2>1. {"lock", "resolve", "write"} \subseteq TaxSteps BY DEF TaxSteps
  <2> QED BY ZenonT(60), <1>1, <2>1, RestingRow DEF CallRow
<1>3. /\ work.pc = "lock" /\ work.next = "resolve" /\ work.then = "write" /\ work.employee = e
      /\ work.to = "PENDING"
  BY RestingRow DEF CallRow
<1>4. Begins(c, work) /\ UNCHANGED <<taxRows, lockVars, totalHistory>> BY DEF BeginSubmission
<1> HIDE DEF work
<1> QED BY <1>1, <1>2, <1>3, <1>4, BeginsKeeps

LEMMA BeginDeclarationKeeps ==
  ASSUME TaxInv, NEW c \in TaxCalls, NEW e \in Claimants, BeginDeclaration(c, e)
  PROVE  TaxInv'
<1> DEFINE work == [Resting EXCEPT !.pc = "lock", !.next = "resolve", !.then = "declare",
                                   !.employee = e]
<1>1. e \in TaxPayers BY TaxAssumption
<1>2. work \in CallRow
  <2>1. {"lock", "resolve", "declare"} \subseteq TaxSteps BY DEF TaxSteps
  <2> QED BY ZenonT(60), <1>1, <2>1, RestingRow DEF CallRow
<1>3. work.pc = "lock" /\ work.next = "resolve" /\ work.then = "declare" /\ work.employee = e
  BY RestingRow DEF CallRow
<1>4. Begins(c, work) /\ UNCHANGED <<taxRows, lockVars, totalHistory>> BY DEF BeginDeclaration
<1> HIDE DEF work
<1> QED BY <1>1, <1>2, <1>3, <1>4, BeginsKeeps

LEMMA BeginHistoryKeeps ==
  ASSUME TaxInv, NEW c \in TaxCalls, NEW e \in Claimants, NEW k \in Sources, BeginHistory(c, e, k)
  PROVE  TaxInv'
<1> DEFINE work == [Resting EXCEPT !.pc = "lock", !.next = "overlap", !.employee = e, !.source = k,
                                   !.seen = earned[e][k].revision]
<1>1. e \in TaxPayers BY TaxAssumption
<1>2. earned[e][k] \in EntryRow BY DEF TaxInv, RowInv, RowTypes
<1>3. earned[e][k].revision \in Nat BY <1>2 DEF EntryRow
<1>4. work \in CallRow
  <2>1. {"lock", "overlap"} \subseteq TaxSteps BY DEF TaxSteps
  <2> QED BY ZenonT(60), <1>1, <1>3, <2>1, RestingRow DEF CallRow
<1>5. /\ work.pc = "lock" /\ work.next = "overlap" /\ work.employee = e /\ work.source = k
  BY RestingRow DEF CallRow
<1>6. Begins(c, work) /\ UNCHANGED <<taxRows, lockVars, totalHistory>> BY DEF BeginHistory
<1> HIDE DEF work
<1> QED BY <1>1, <1>4, <1>5, <1>6, BeginsKeeps

\* The definition a request goes by: the first in force, and if there is none the request
\* holds the right to add one, no other automatic one being unedited.
LEMMA DefinedIsThere ==
  ASSUME TaxInv, NEW r \in Regimes
  PROVE  /\ Defined(r) \in Nat
         /\ Defined(r) # 0 => Defined(r) \in DOMAIN definition /\ definition[Defined(r)].regime = r
         /\ Defined(r) = 0 => Unreplaced(r) = {}
<1> DEFINE Ds == {d \in DOMAIN definition : definition[d].active /\ definition[d].regime = r}
<1>1. definition \in Seq(DefinitionRow) BY DEF TaxInv, RowInv, RowTypes
<1>2. DOMAIN definition = 1 .. Len(definition) /\ Len(definition) \in Nat BY <1>1
<1>3. Defined(r) = IF Ds = {} THEN 0 ELSE Min(Ds) BY DEF Defined
<1>4. CASE Ds = {}
  <2>1. Unreplaced(r) = {} BY <1>4 DEF Unreplaced, TaxInv, RowInv, ReplacedInv
  <2> QED BY <1>3, <1>4, <2>1
<1>5. CASE Ds # {}
  <2>1. Ds \subseteq Nat BY <1>2
  <2> HIDE DEF Ds
  <2>2. \E x \in Ds : \A y \in Ds : x <= y BY <1>5, <2>1, LeastNatural
  <2>3. Min(Ds) \in Ds BY <2>2 DEF Min
  <2>4. Min(Ds) # 0 /\ Min(Ds) \in Nat BY <1>2, <2>3 DEF Ds
  <2> QED BY <1>3, <1>5, <2>3, <2>4 DEF Ds
<1> QED BY <1>4, <1>5

\* ensure_definition
LEMMA EnsureKeeps ==
  ASSUME TaxInv, NEW c \in TaxCalls, NEW r \in Regimes, NEW next, Ensure(c, r, next),
         UNCHANGED <<taxRows, taxLock, proofLock, totalHistory>>,
         \/ At(c, "define") /\ next = "saveSettings"
         \/ At(c, "resolve") /\ next = taxCall[c].then /\ settings[taxCall[c].employee].regime = r
  PROVE  TaxInv'
<1> DEFINE t == taxCall[c]
           work == [t EXCEPT !.pc = next, !.regime = r, !.version = Defined(r)]
<1>1. CallTypes /\ DealInv(c) /\ t \in CallRow BY DEF TaxInv, CallTypes
<1>2. defLock[r] = NoCall /\ defLock' = [defLock EXCEPT ![r] = c] BY DEF Ensure
<1>3. taxCall' = [taxCall EXCEPT ![c] = work] BY <1>1 DEF Ensure, CallTypes
<1>4. /\ next \in {"saveSettings", "write", "declare"} /\ (next = "write" => t.to = "PENDING")
      /\ t.employee \in TaxPayers /\ taxLock[t.employee] = c
      /\ next # "saveSettings" => settings[t.employee].regime = r
  BY <1>1 DEF At, DealInv, LockInv
<1>5. /\ Defined(r) \in Nat
      /\ Defined(r) # 0 => Defined(r) \in DOMAIN definition /\ definition[Defined(r)].regime = r
      /\ Defined(r) = 0 => Unreplaced(r) = {}
  BY DefinedIsThere
<1> HIDE DEF t
<1>6. work \in CallRow /\ work.pc = next /\ work.employee = t.employee /\ work.to = t.to
      /\ work.regime = r /\ work.version = Defined(r)
  <2>1. next \in TaxSteps BY <1>4 DEF TaxSteps
  <2> QED BY ZenonT(60), <1>1, <1>5, <2>1 DEF CallRow
<1> HIDE DEF work
<1>7. /\ taxCall'[c] = work /\ \A d \in TaxCalls \ {c} : taxCall'[d] = taxCall[d]
      /\ taxCall' \in [TaxCalls -> CallRow]
  BY <1>1, <1>3, <1>6 DEF CallTypes
<1>8. /\ defLock'[r] = c /\ \A x \in Regimes \ {r} : defLock'[x] = defLock[x]
      /\ defLock' \in [Regimes -> TaxCalls \cup {NoCall}]
  BY <1>1, <1>2 DEF CallTypes
<1>9. CallTypes' BY <1>1, <1>7, <1>8 DEF CallTypes
<1>10. \A d \in TaxCalls \ {c} : KeepsLocks(d) BY <1>2, <1>8, TaxAssumption DEF KeepsLocks
<1>11. LockInv(c)' BY <1>4, <1>6, <1>7 DEF LockInv
<1>12. definition' = definition /\ settings' = settings BY DEF taxRows
<1>13. MeansInv(c)'
  <2>1. Unreplaced(r)' = Unreplaced(r) BY <1>12 DEF Unreplaced
  <2> QED BY <1>4, <1>5, <1>6, <1>7, <1>8, <1>12, <2>1 DEF MeansInv, Unreplaced
<1>14. LineInv(c)' /\ SumInv(c)' /\ ApartInv(c)'
  BY <1>4, <1>6, <1>7 DEF LineInv, HasLine, SumInv, SumIsRead, ApartInv, At
<1> QED BY <1>7, <1>9, <1>10, <1>11, <1>13, <1>14, QuietKeeps DEF DealInv, lockVars

LEMMA DefineForSettingsKeeps ==
  ASSUME TaxInv, NEW c \in TaxCalls, NEW r \in Regimes, DefineForSettings(c, r)
  PROVE  TaxInv'
BY EnsureKeeps DEF DefineForSettings

LEMMA ResolveKeeps ==
  ASSUME TaxInv, NEW c \in TaxCalls, Resolve(c)
  PROVE  TaxInv'
<1> DEFINE t == taxCall[c]  r == settings[t.employee].regime  next == t.then
<1>1. CallTypes /\ DealInv(c) /\ t \in CallRow BY DEF TaxInv, CallTypes
<1>2. At(c, "resolve") /\ r # "NONE" /\ UNCHANGED <<taxRows, taxLock, proofLock, totalHistory>>
  BY DEF Resolve
<1>3. /\ next \in {"write", "declare"} /\ (next = "write" => t.to = "PENDING")
      /\ t.employee \in TaxPayers /\ taxLock[t.employee] = c
  BY <1>1, <1>2 DEF At, DealInv, LockInv
<1>4. r \in Regimes BY <1>2, <1>3 DEF TaxInv, RowInv, RowTypes
<1>5. CASE Ensure(c, r, next) BY <1>2, <1>4, <1>5, EnsureKeeps
<1>6. ASSUME NEW wanted \in DOMAIN definition, definition[wanted].regime = r, UNCHANGED defLock,
             taxCall' = [taxCall EXCEPT ![c].pc = next, ![c].regime = r, ![c].version = wanted]
      PROVE  TaxInv'
  <2> DEFINE work == [t EXCEPT !.pc = next, !.regime = r, !.version = wanted]
  <2>1. taxCall' = [taxCall EXCEPT ![c] = work] BY <1>1, <1>6 DEF CallTypes
  <2>2. wanted \in Nat /\ wanted # 0
    <3>1. definition \in Seq(DefinitionRow) BY DEF TaxInv, RowInv, RowTypes
    <3> QED BY <3>1
  <2> HIDE DEF t, r, next
  <2>3. work \in CallRow /\ work.pc = next /\ work.employee = t.employee /\ work.to = t.to
        /\ work.regime = r /\ work.version = wanted
    <3>1. next \in TaxSteps BY <1>3 DEF TaxSteps
    <3> QED BY ZenonT(60), <1>1, <1>4, <2>2, <3>1 DEF CallRow
  <2> HIDE DEF work
  <2>4. /\ taxCall'[c] = work /\ \A d \in TaxCalls \ {c} : taxCall'[d] = taxCall[d]
        /\ taxCall' \in [TaxCalls -> CallRow]
    BY <1>1, <2>1, <2>3 DEF CallTypes
  <2>5. taxLock' = taxLock /\ defLock' = defLock /\ proofLock' = proofLock BY <1>2, <1>6
  <2>6. CallTypes' BY <1>1, <2>4, <2>5 DEF CallTypes
  <2>7. \A d \in TaxCalls \ {c} : KeepsLocks(d) BY <2>5 DEF KeepsLocks
  <2>8. LockInv(c)' BY <1>3, <2>3, <2>4, <2>5 DEF LockInv
  <2>9. definition' = definition /\ settings' = settings BY <1>2 DEF taxRows
  <2>10. MeansInv(c)' BY ZenonT(60), <1>3, <1>4, <1>6, <2>2, <2>3, <2>4, <2>9 DEF MeansInv, r
  <2>11. LineInv(c)' /\ SumInv(c)' /\ ApartInv(c)'
    BY <1>3, <2>3, <2>4 DEF LineInv, HasLine, SumInv, SumIsRead, ApartInv, At
  <2> QED BY <1>2, <2>4, <2>6, <2>7, <2>8, <2>10, <2>11, QuietKeeps DEF DealInv
<1> QED BY <1>5, <1>6 DEF Resolve


LEMMA WriteProofKeeps ==
  ASSUME TaxInv, NEW c \in TaxCalls, NEW s \in Sections, NEW a \in ProofAmounts, WriteProof(c, s, a)
  PROVE  TaxInv'
<1> DEFINE t == taxCall[c]
           existing == {l \in LinesOf(t.employee, t.version) : proof[l].section = s}
<1>1. CallTypes /\ DealInv(c) /\ t \in CallRow BY DEF TaxInv, CallTypes
<1>2. At(c, "write") /\ UNCHANGED <<taxRows, taxLock, defLock, totalHistory>> BY DEF WriteProof
<1>3. /\ t.to = "PENDING" /\ t.employee \in TaxPayers /\ taxLock[t.employee] = c
      /\ t.pc = "write"
  BY <1>1, <1>2 DEF At, DealInv, LockInv, Decisions
<1>4. PICK l \in ProofLines \cup {NoLine} :
        /\ taxCall' = [taxCall EXCEPT ![c].pc = "sum", ![c].line = l, ![c].section = s, ![c].amount = a]
        /\ \/ l \in existing /\ proofLock[l] = NoCall /\ proofLock' = [proofLock EXCEPT ![l] = c]
           \/ l = NoLine /\ existing = {} /\ proofLock' = proofLock
  BY DEF WriteProof, LinesOf
<1> DEFINE work == [t EXCEPT !.pc = "sum", !.line = l, !.section = s, !.amount = a]
<1>5. taxCall' = [taxCall EXCEPT ![c] = work] BY <1>1, <1>4 DEF CallTypes
<1>6. a \in Nat /\ "sum" \in TaxSteps BY TaxAssumption DEF TaxSteps
<1> HIDE DEF t
<1>7. /\ work \in CallRow /\ work.pc = "sum" /\ work.employee = t.employee /\ work.to = t.to
      /\ work.regime = t.regime /\ work.version = t.version /\ work.line = l /\ work.section = s
  BY ZenonT(60), <1>1, <1>6 DEF CallRow
<1> HIDE DEF work
<1>8. /\ taxCall'[c] = work /\ \A d \in TaxCalls \ {c} : taxCall'[d] = taxCall[d]
      /\ taxCall' \in [TaxCalls -> CallRow]
  BY <1>1, <1>5, <1>7 DEF CallTypes
<1>9. /\ proofLock' \in [ProofLines -> TaxCalls \cup {NoCall}]
      /\ \A k \in ProofLines : proofLock'[k] = proofLock[k] \/ proofLock[k] = NoCall
      /\ l \in existing => proofLock'[l] = c
  <2>1. l \in existing => l \in ProofLines BY DEF LinesOf
  <2>2. existing = {} => l \notin existing OBVIOUS
  <2> HIDE DEF existing
  <2> QED BY <1>1, <1>4, <2>1, <2>2 DEF CallTypes
<1>10. CallTypes' BY <1>1, <1>2, <1>8, <1>9 DEF CallTypes
<1>11. \A d \in TaxCalls \ {c} : KeepsLocks(d) BY <1>2, <1>9, TaxAssumption DEF KeepsLocks
<1>12. LockInv(c)' BY <1>2, <1>3, <1>7, <1>8 DEF LockInv, Decisions
<1>13. definition' = definition /\ settings' = settings /\ proof' = proof BY <1>2 DEF taxRows
<1>14. MeansInv(c)' BY <1>1, <1>2, <1>3, <1>7, <1>8, <1>13 DEF DealInv, MeansInv, Means, Unreplaced, t
<1>15. LineInv(c)'
  <2>1. PICK e, v : e = t.employee /\ v = t.version OBVIOUS
  <2>2. LinesOf(e, v)' = LinesOf(e, v) BY <1>13 DEF LinesOf
  <2>3. existing = {k \in LinesOf(e, v) : proof[k].section = s} BY <2>1
  <2>4. l # NoLine => /\ l \in ProofLines /\ proofLock'[l] = c
                      /\ l \in LinesOf(e, v)' /\ proof'[l].section = s
    BY <1>4, <1>9, <1>13, <2>2, <2>3
  <2>5. NoLine \notin LinesOf(e, v) BY TaxAssumption DEF LinesOf
  <2>6. l = NoLine => \A k \in LinesOf(e, v)' : proof'[k].section # s
    BY <1>4, <1>13, <2>2, <2>3, <2>5
  <2>7. LinesOf(taxCall[c].employee, taxCall[c].version)' = LinesOf(e, v)'
    BY <1>7, <1>8, <2>1 DEF LinesOf
  <2> HIDE DEF existing
  <2> QED BY <1>3, <1>7, <1>8, <2>4, <2>6, <2>7 DEF LineInv, Decisions
<1>16. SumInv(c)' /\ ApartInv(c)' BY <1>7, <1>8 DEF SumInv, SumIsRead, ApartInv, At
<1> QED BY <1>2, <1>8, <1>10, <1>11, <1>12, <1>14, <1>15, <1>16, QuietKeeps DEF DealInv

LEMMA BeginDecisionKeeps ==
  ASSUME TaxInv, NEW c \in TaxCalls, NEW l \in ProofLines, NEW s \in Decisions, BeginDecision(c, l, s)
  PROVE  TaxInv'
<1> DEFINE work == [Resting EXCEPT !.pc = "sum", !.next = "saveTotal", !.employee = proof[l].owner,
                                   !.version = proof[l].version, !.line = l, !.to = s]
<1>1. CallTypes /\ FiledInv(l) /\ proof[l] \in ProofRow BY DEF TaxInv, RowInv, RowTypes
<1>2. /\ proof[l].status = "PENDING" /\ proofLock[l] = NoCall
      /\ proofLock' = [proofLock EXCEPT ![l] = c]
      /\ UNCHANGED <<taxRows, taxLock, defLock, totalHistory>>
  BY DEF BeginDecision
<1>3. taxCall' = [taxCall EXCEPT ![c] = work] BY DEF BeginDecision, Begins
<1>4. proof[l].owner \in TaxPayers /\ proof[l].version \in Nat BY <1>1, <1>2 DEF FiledInv, ProofRow
<1>5. "sum" \in TaxSteps /\ "saveTotal" \in TaxSteps BY DEF TaxSteps
<1>6. PICK e \in TaxPayers, v \in Nat : e = proof[l].owner /\ v = proof[l].version BY <1>4
<1>7. work = [Resting EXCEPT !.pc = "sum", !.next = "saveTotal", !.employee = e,
                             !.version = v, !.line = l, !.to = s]
  BY <1>6
<1> HIDE DEF work
<1>8. /\ work \in CallRow /\ work.pc = "sum" /\ work.next = "saveTotal" /\ work.employee = e
      /\ work.version = v /\ work.line = l /\ work.to = s
  BY ZenonT(60), <1>5, <1>7, RestingRow DEF CallRow
<1>9. /\ taxCall'[c] = work /\ \A d \in TaxCalls \ {c} : taxCall'[d] = taxCall[d]
      /\ taxCall' \in [TaxCalls -> CallRow]
  BY <1>1, <1>3, <1>8 DEF CallTypes
<1>10. /\ proofLock'[l] = c /\ \A k \in ProofLines \ {l} : proofLock'[k] = proofLock[k]
       /\ proofLock' \in [ProofLines -> TaxCalls \cup {NoCall}]
  BY <1>1, <1>2 DEF CallTypes
<1>11. CallTypes' BY <1>1, <1>2, <1>9, <1>10 DEF CallTypes
<1>12. \A d \in TaxCalls \ {c} : KeepsLocks(d) BY <1>2, <1>10, TaxAssumption DEF KeepsLocks
<1>13. LockInv(c)' BY <1>8, <1>9 DEF LockInv, Decisions
<1>14. MeansInv(c)' BY <1>8, <1>9 DEF MeansInv, Means, Decisions
<1>15. LineInv(c)'
  <2>1. l \in LinesOf(e, v)' /\ proof'[l].status = "PENDING" /\ l # NoLine /\ s # "PENDING"
    BY <1>2, <1>6, TaxAssumption DEF LinesOf, taxRows, Decisions
  <2> QED BY <1>8, <1>9, <1>10, <2>1 DEF LineInv, LinesOf
<1>16. SumInv(c)' /\ ApartInv(c)' BY <1>8, <1>9 DEF SumInv, SumIsRead, ApartInv, At
<1> QED BY <1>2, <1>9, <1>11, <1>12, <1>13, <1>14, <1>15, <1>16, QuietKeeps DEF DealInv

LEMMA AmountIsNat ==
  ASSUME RowTypes, NEW S \in SUBSET ProofLines
  PROVE  AmountOf(S) \in Nat
<1> DEFINE f == [l \in ProofLines |-> proof[l].amount]
<1>1. IsFiniteSet(S) BY TaxAssumption, FS_Subset
<1>2. \A l \in S : f[l] \in Nat BY DEF RowTypes, ProofRow
<1> HIDE DEF f
<1>3. SumFunctionOnSet(f, S) \in Nat BY <1>1, <1>2, SumNat
<1> QED BY <1>3 DEF AmountOf, f

LEMMA ReadSumKeeps ==
  ASSUME TaxInv, NEW c \in TaxCalls, ReadSum(c)
  PROVE  TaxInv'
<1> DEFINE t == taxCall[c]
           pc == IF taxLock[t.employee] = c THEN "saveTotal" ELSE "lock"
           sum == SumOfApproved(c)
           work == [t EXCEPT !.pc = pc, !.sum = sum]
<1>1. CallTypes /\ DealInv(c) /\ t \in CallRow BY DEF TaxInv, CallTypes
<1>2. At(c, "sum") /\ UNCHANGED <<taxRows, lockVars, totalHistory>> BY DEF ReadSum
<1>3. /\ taxLock' = taxLock /\ defLock' = defLock /\ proofLock' = proofLock
      /\ definition' = definition /\ settings' = settings /\ proof' = proof
  BY <1>2 DEF lockVars, taxRows
<1>4. taxCall' = [taxCall EXCEPT ![c] = work] BY <1>1 DEF ReadSum, CallTypes
<1>5. t.pc = "sum" BY <1>2 DEF At
<1>6. /\ t.employee \in TaxPayers /\ t.to \in Decisions \cup {"PENDING"}
      /\ t.to \in Decisions => t.next = "saveTotal"
      /\ t.to = "PENDING" => taxLock[t.employee] = c
  BY <1>1, <1>5 DEF DealInv, LockInv, CallRow, Decisions
<1>7. sum \in Int
  <2>1. PICK S \in SUBSET ProofLines : S = ApprovedLines(t.employee, t.version) \ {t.line}
    BY DEF ApprovedLines, LinesOf
  <2>2. AmountOf(S) \in Nat BY AmountIsNat DEF TaxInv, RowInv
  <2>3. t.to = "APPROVED" => proof[t.line].amount \in Nat
    <3>1. t.to = "APPROVED" => t.line \in ProofLines
      BY <1>1, <1>5 DEF DealInv, LineInv, HasLine, Decisions
    <3>2. \A l \in ProofLines : proof[l].amount \in Nat BY DEF TaxInv, RowInv, RowTypes, ProofRow
    <3> QED BY <3>1, <3>2
  <2>4. sum = AmountOf(S) + (IF t.to = "APPROVED" THEN proof[t.line].amount ELSE 0)
    BY <2>1 DEF SumOfApproved
  <2> HIDE DEF sum, t
  <2> QED BY <2>2, <2>3, <2>4
<1>8. pc \in TaxSteps /\ pc \in {"saveTotal", "lock"} BY DEF TaxSteps
<1>9. pc = "lock" => t.to \in Decisions /\ t.next = "saveTotal" BY <1>6
<1>10. pc = "saveTotal" => taxLock[t.employee] = c OBVIOUS
<1> HIDE DEF t, sum, pc
<1>11. /\ work \in CallRow /\ work.pc = pc /\ work.employee = t.employee /\ work.to = t.to
       /\ work.regime = t.regime /\ work.version = t.version /\ work.line = t.line
       /\ work.section = t.section /\ work.next = t.next /\ work.sum = sum
  BY ZenonT(60), <1>1, <1>7, <1>8 DEF CallRow
<1> HIDE DEF work
<1>12. /\ taxCall'[c] = work /\ \A d \in TaxCalls \ {c} : taxCall'[d] = taxCall[d]
       /\ taxCall' \in [TaxCalls -> CallRow]
  BY <1>1, <1>4, <1>11 DEF CallTypes
<1>13. CallTypes' BY <1>1, <1>3, <1>12 DEF CallTypes
<1>14. \A d \in TaxCalls \ {c} : KeepsLocks(d) BY <1>3 DEF KeepsLocks
<1>15. LockInv(c)' BY <1>3, <1>6, <1>8, <1>9, <1>10, <1>11, <1>12 DEF LockInv, Decisions
<1>16. MeansInv(c)'
  <2>1. Means(c)' => Means(c) BY <1>5, <1>8, <1>9, <1>11, <1>12 DEF Means, Decisions, t
  <2> QED BY <1>1, <1>3, <1>5, <1>8, <1>11, <1>12, <2>1 DEF DealInv, MeansInv, Unreplaced, t
<1>17. LineInv(c)'
  BY <1>1, <1>3, <1>5, <1>11, <1>12 DEF DealInv, LineInv, LinesOf, HasLine, t
<1>18. SumInv(c)'
  <2>1. SumOfApproved(c)' = SumOfApproved(c)
    BY ZenonT(60), <1>3, <1>11, <1>12 DEF SumOfApproved, AmountOf, ApprovedLines, LinesOf, t
  <2> QED BY <1>11, <1>12, <2>1 DEF SumInv, sum
<1>19. ApartInv(c)' BY <1>8, <1>11, <1>12 DEF ApartInv
<1> QED BY <1>2, <1>12, <1>13, <1>14, <1>15, <1>16, <1>17, <1>18, <1>19, QuietKeeps DEF DealInv

LEMMA CheckOverlapKeeps ==
  ASSUME TaxInv, NEW c \in TaxCalls, NEW m \in Spans, CheckOverlap(c, m)
  PROVE  TaxInv'
<1> DEFINE t == taxCall[c]
           work == [t EXCEPT !.pc = "saveHistory", !.months = m]
<1>1. CallTypes /\ DealInv(c) /\ t \in CallRow BY DEF TaxInv, CallTypes
<1>2. /\ At(c, "overlap") /\ UNCHANGED <<taxRows, lockVars, totalHistory>>
      /\ \A k \in Sources \ {t.source} : earned[t.employee][k].months \intersect m = {}
  BY DEF CheckOverlap
<1>3. taxLock' = taxLock /\ defLock' = defLock /\ proofLock' = proofLock /\ earned' = earned
  BY <1>2 DEF lockVars, taxRows
<1>4. taxCall' = [taxCall EXCEPT ![c] = work] BY <1>1 DEF CheckOverlap, CallTypes
<1>5. /\ t.employee \in TaxPayers /\ t.employee \in Claimants /\ t.source \in Sources
      /\ taxLock[t.employee] = c
  BY <1>1, <1>2 DEF At, DealInv, LockInv
<1>6. "saveHistory" \in TaxSteps /\ m \in SUBSET UNION Spans BY DEF TaxSteps
<1> HIDE DEF t
<1>7. /\ work \in CallRow /\ work.pc = "saveHistory" /\ work.employee = t.employee
      /\ work.source = t.source /\ work.months = m
  BY ZenonT(60), <1>1, <1>6 DEF CallRow
<1> HIDE DEF work
<1>8. /\ taxCall'[c] = work /\ \A d \in TaxCalls \ {c} : taxCall'[d] = taxCall[d]
      /\ taxCall' \in [TaxCalls -> CallRow]
  BY <1>1, <1>4, <1>7 DEF CallTypes
<1>9. CallTypes' BY <1>1, <1>3, <1>8 DEF CallTypes
<1>10. \A d \in TaxCalls \ {c} : KeepsLocks(d) BY <1>3 DEF KeepsLocks
<1>11. LockInv(c)' BY <1>3, <1>5, <1>7, <1>8 DEF LockInv
<1>12. MeansInv(c)' /\ LineInv(c)' /\ SumInv(c)'
  BY <1>7, <1>8 DEF MeansInv, Means, LineInv, HasLine, SumInv, SumIsRead, At
<1>13. ApartInv(c)' BY <1>2, <1>3, <1>7, <1>8 DEF ApartInv
<1> QED BY <1>2, <1>8, <1>9, <1>10, <1>11, <1>12, <1>13, QuietKeeps DEF DealInv


\* What commits may add a definition and changes none.
Grows(c) ==
  /\ definition' \in Seq(DefinitionRow) /\ DOMAIN definition \subseteq DOMAIN definition'
  /\ \A x \in DOMAIN definition : definition'[x] = definition[x]
  /\ ReplacedInv' /\ DefinedOnce'
  /\ \A r \in Regimes : defLock[r] # c /\ Unreplaced(r) = {} => Unreplaced(r)' = {}

LEMMA SameGrows ==
  ASSUME TaxInv, NEW c, definition' = definition
  PROVE  Grows(c)
<1>1. \A r : Unreplaced(r)' = Unreplaced(r) BY DEF Unreplaced
<1>2. ReplacedInv' /\ DefinedOnce' BY DEF TaxInv, RowInv, ReplacedInv, DefinedOnce
<1> QED BY <1>1, <1>2 DEF Grows, TaxInv, RowInv, RowTypes

LEMMA DefinedByGrows ==
  ASSUME TaxInv, NEW c \in TaxCalls, Means(c), definition' = DefinedBy(c, taxCall[c].regime)
  PROVE  /\ Grows(c)
         /\ VersionOf(c) \in DOMAIN definition' /\ VersionOf(c) \in Nat /\ VersionOf(c) # 0
         /\ definition'[VersionOf(c)].regime = taxCall[c].regime
         /\ taxCall[c].version = 0 => VersionOf(c) \notin DOMAIN definition
         /\ taxCall[c].version # 0 => VersionOf(c) = taxCall[c].version
<1>1. definition \in Seq(DefinitionRow) /\ ReplacedInv /\ DefinedOnce BY DEF TaxInv, RowInv, RowTypes
<1>2. MeansInv(c) BY DEF TaxInv, DealInv
<1>3. CASE taxCall[c].version # 0
  <2>1. definition' = definition /\ VersionOf(c) = taxCall[c].version BY <1>3 DEF DefinedBy, VersionOf
  <2>2. Grows(c) BY <2>1, SameGrows
  <2>3. VersionOf(c) \in DOMAIN definition /\ definition[VersionOf(c)].regime = taxCall[c].regime
    BY <1>2, <1>3, <2>1 DEF MeansInv
  <2>4. DOMAIN definition \subseteq Nat BY <1>1
  <2> QED BY <1>3, <2>1, <2>2, <2>3, <2>4
<1>4. CASE taxCall[c].version = 0
  <2>1. PICK r \in Regimes : r = taxCall[c].regime BY <1>2 DEF MeansInv
  <2>2. defLock[r] = c /\ Unreplaced(r) = {} BY <1>2, <1>4, <2>1 DEF MeansInv
  <2> DEFINE new == [regime |-> r, active |-> TRUE, automatic |-> TRUE, replaced |-> FALSE]
             n == Len(definition)
  <2>3. definition' = Append(definition, new) /\ VersionOf(c) = n + 1
    BY <1>4, <2>1 DEF DefinedBy, Added, VersionOf
  <2>4. /\ new \in DefinitionRow /\ new.regime = r /\ new.active /\ new.automatic /\ ~new.replaced
    BY DEF DefinitionRow
  <2> HIDE DEF new
  <2>5. /\ definition' \in Seq(DefinitionRow) /\ DOMAIN definition' = 1 .. n + 1 /\ n \in Nat
        /\ DOMAIN definition = 1 .. n /\ definition'[n + 1] = new
        /\ \A x \in DOMAIN definition : definition'[x] = definition[x]
    BY <1>1, <2>3, <2>4
  <2> HIDE DEF n
  <2>6. ReplacedInv' BY <1>1, <2>4, <2>5 DEF ReplacedInv
  <2>7. DefinedOnce'
    <3> SUFFICES ASSUME NEW d \in DOMAIN definition', NEW x \in DOMAIN definition', d < x,
                        definition'[d].regime = definition'[x].regime,
                        definition'[d].automatic, definition'[x].automatic
                 PROVE  definition'[d].replaced
      BY DEF DefinedOnce
    <3>1. d \in DOMAIN definition /\ definition'[d] = definition[d] BY <2>5
    <3>2. CASE x \in DOMAIN definition BY <1>1, <2>5, <3>1, <3>2 DEF DefinedOnce
    <3>3. CASE x = n + 1
      <4>1. definition[d].regime = r BY <2>4, <2>5, <3>1, <3>3
      <4> QED BY <2>2, <3>1, <4>1 DEF Unreplaced
    <3> QED BY <2>5, <3>2, <3>3
  <2>8. ASSUME NEW q \in Regimes, defLock[q] # c, Unreplaced(q) = {} PROVE Unreplaced(q)' = {}
    <3>1. q # r BY <2>2, <2>8
    <3> SUFFICES ASSUME NEW d \in DOMAIN definition', definition'[d].regime = q,
                        definition'[d].automatic, ~definition'[d].replaced
                 PROVE  FALSE
      BY DEF Unreplaced
    <3>2. d \in DOMAIN definition /\ definition'[d] = definition[d] BY <2>4, <2>5, <3>1
    <3> QED BY <2>8, <3>2 DEF Unreplaced
  <2>9. n + 1 \in DOMAIN definition' /\ n + 1 # 0 /\ n + 1 \notin DOMAIN definition /\ n + 1 \in Nat
        /\ DOMAIN definition \subseteq DOMAIN definition'
    BY <2>5
  <2>10. Grows(c) BY <2>5, <2>6, <2>7, <2>8, <2>9 DEF Grows
  <2> QED BY <1>4, <2>1, <2>3, <2>4, <2>5, <2>9, <2>10
<1> QED BY <1>3, <1>4

LEMMA IdleRests ==
  ASSUME NEW d \in TaxCalls, taxCall'[d].pc = "idle"
  PROVE  DealInv(d)'
BY DEF DealInv, LockInv, MeansInv, Means, LineInv, HasLine, SumInv, SumIsRead, ApartInv, At

\* A commit under the employee's lock that files no proof.
LEMMA CommitKeeps ==
  ASSUME TaxInv, NEW c \in TaxCalls, NEW e \in TaxPayers, taxLock[e] = c, Grows(c),
         taxCall' = [taxCall EXCEPT ![c] = Resting], Releases(c),
         proof' = proof, total' = total, totalHistory' = totalHistory,
         RowTypes', HistoryApart', \A x \in TaxPayers : DeclaredInv(x)',
         \A x \in TaxPayers \ {e} : settings'[x] = settings[x] /\ earned'[x] = earned[x]
  PROVE  TaxInv'
<1>1. CallTypes /\ RowInv BY DEF TaxInv
<1>2. /\ taxCall'[c] = Resting /\ \A d \in TaxCalls \ {c} : taxCall'[d] = taxCall[d]
      /\ taxCall' \in [TaxCalls -> CallRow]
  BY <1>1, RestingRow DEF CallTypes
<1>3. CallTypes' BY <1>1, <1>2, ReleasesKeep DEF CallTypes
<1>4. /\ \A k, v : LinesOf(k, v)' = LinesOf(k, v) /\ ApprovedLines(k, v)' = ApprovedLines(k, v)
      /\ summed' = summed /\ outdated' = outdated
  BY DEF LinesOf, ApprovedLines, totalHistory
<1>5. RowInv'
  <2>1. \A l \in ProofLines : FiledInv(l)' BY <1>1 DEF RowInv, FiledInv, Grows
  <2>2. OneLinePerSection' BY <1>1 DEF RowInv, OneLinePerSection
  <2>3. TotalIsApproved'
    <3> SUFFICES ASSUME NEW x \in TaxPayers, x \notin outdated
                 PROVE  total[x] = AmountOf(ApprovedLines(x, summed[x]))'
      BY <1>4 DEF TotalIsApproved
    <3>1. PICK v : v = summed[x] OBVIOUS
    <3>2. AmountOf(ApprovedLines(x, v))' = AmountOf(ApprovedLines(x, v)) BY <1>4, SameSum
    <3>3. AmountOf(ApprovedLines(x, summed[x]))' = AmountOf(ApprovedLines(x, v))'
      BY <1>4, <3>1 DEF AmountOf, ApprovedLines, LinesOf
    <3> QED BY <1>1, <3>1, <3>2, <3>3 DEF RowInv, TotalIsApproved
  <2> QED BY <2>1, <2>2, <2>3 DEF RowInv, Grows
<1>6. ASSUME NEW d \in TaxCalls \ {c} PROVE DealInv(d)'
  <2>1. DealInv(d) /\ taxCall'[d] = taxCall[d] /\ KeepsLocks(d) BY <1>1, <1>2, ReleasesKeep DEF TaxInv
  <2>2. CASE taxCall[d].pc = "idle" BY <2>1, <2>2, IdleRests
  <2>3. CASE taxCall[d].pc # "idle"
    <3>1. PICK k, v : k = taxCall[d].employee /\ v = taxCall[d].version OBVIOUS
    <3>2. k \in TaxPayers BY <2>1, <2>3, <3>1 DEF DealInv, LockInv
    <3>3. taxLock[k] = d => settings'[k] = settings[k] /\ earned'[k] = earned[k] BY <3>2
    <3>4. SumInv(d) BY <2>1 DEF DealInv
    <3>5. SumInv(d)' BY <1>4, <2>1, <3>1, <3>4, SumStays
    <3>6. \A n \in Nat : LinesOf(k, n)' = LinesOf(k, n) BY <1>4
    <3>7. \A n \in Nat : LinesOf(taxCall[d].employee, n)' = LinesOf(taxCall[d].employee, n)
      BY <2>1, <3>1, <3>6 DEF LinesOf
    <3>8. \A r \in Regimes : defLock[r] = d /\ Unreplaced(r) = {} => Unreplaced(r)' = {} BY DEF Grows
    <3>9. /\ DOMAIN definition \subseteq DOMAIN definition'
          /\ \A x \in DOMAIN definition : definition'[x].regime = definition[x].regime
      BY DEF Grows
    <3> QED BY <1>1, <2>1, <3>1, <3>3, <3>5, <3>7, <3>8, <3>9, OthersStay
  <2> QED BY <2>2, <2>3
<1> QED BY <1>2, <1>3, <1>5, <1>6, AtRest DEF TaxInv


LEMMA SameDeclared ==
  ASSUME RowInv, NEW c, Grows(c), NEW x \in TaxPayers, declared'[x] = declared[x]
  PROVE  DeclaredInv(x)'
BY DEF RowInv, DeclaredInv, Grows

LEMMA CommitSettingsKeeps ==
  ASSUME TaxInv, NEW c \in TaxCalls, CommitSettings(c)
  PROVE  TaxInv'
<1>1. CallTypes /\ RowInv /\ DealInv(c) BY DEF TaxInv
<1>2. PICK e, r : e = taxCall[c].employee /\ r = taxCall[c].regime OBVIOUS
<1>3. taxCall[c].pc = "saveSettings" BY DEF CommitSettings, At
<1>4. e \in TaxPayers /\ taxLock[e] = c /\ Means(c)
  BY <1>1, <1>2, <1>3 DEF DealInv, LockInv, Means
<1>5. r \in Regimes BY <1>1, <1>2, <1>4 DEF DealInv, MeansInv
<1>6. /\ definition' = DefinedBy(c, taxCall[c].regime)
      /\ settings' = [settings EXCEPT ![e] = [revision |-> settings[e].revision + 1, regime |-> r]]
      /\ taxCall' = [taxCall EXCEPT ![c] = Resting] /\ Releases(c)
      /\ proof' = proof /\ total' = total /\ declared' = declared /\ earned' = earned
      /\ totalHistory' = totalHistory
  BY <1>1, <1>2, <1>4 DEF CommitSettings, RowInv, RowTypes
<1>7. Grows(c) BY <1>4, <1>6, DefinedByGrows
<1>8. /\ settings' \in [TaxPayers -> [revision : Nat, regime : Regimes \cup {"NONE"}]]
      /\ \A x \in TaxPayers \ {e} : settings'[x] = settings[x]
  <2>1. settings \in [TaxPayers -> [revision : Nat, regime : Regimes \cup {"NONE"}]]
    BY <1>1 DEF RowInv, RowTypes
  <2>2. settings[e].revision \in Nat BY <1>4, <2>1
  <2> QED BY <1>4, <1>5, <1>6, <2>1, <2>2
<1>9. RowTypes' BY <1>1, <1>6, <1>7, <1>8 DEF RowInv, RowTypes, Grows, totalHistory
<1>10. HistoryApart' BY <1>1, <1>6 DEF RowInv, HistoryApart
<1>11. \A x \in TaxPayers : DeclaredInv(x)' BY <1>1, <1>6, <1>7, SameDeclared
<1> QED BY <1>4, <1>6, <1>7, <1>8, <1>9, <1>10, <1>11, CommitKeeps

LEMMA CommitDeclarationKeeps ==
  ASSUME TaxInv, NEW c \in TaxCalls, CommitDeclaration(c)
  PROVE  TaxInv'
<1>1. CallTypes /\ RowInv /\ DealInv(c) BY DEF TaxInv
<1>2. PICK e, r, v : e = taxCall[c].employee /\ r = settings[e].regime /\ v = VersionOf(c) OBVIOUS
<1>3. taxCall[c].pc = "declare" BY DEF CommitDeclaration, At
<1>4. e \in TaxPayers /\ taxLock[e] = c /\ Means(c)
  BY <1>1, <1>2, <1>3 DEF DealInv, LockInv, Means, Decisions
<1>5. r \in Regimes /\ r = taxCall[c].regime BY <1>1, <1>2, <1>3, <1>4 DEF DealInv, MeansInv
<1>6. /\ definition' = DefinedBy(c, taxCall[c].regime)
      /\ declared' = [declared EXCEPT ![e] = [version |-> v, regime |-> r]]
      /\ taxCall' = [taxCall EXCEPT ![c] = Resting] /\ Releases(c)
      /\ proof' = proof /\ total' = total /\ settings' = settings /\ earned' = earned
      /\ totalHistory' = totalHistory
  BY <1>2 DEF CommitDeclaration
<1>7. Grows(c) /\ v \in DOMAIN definition' /\ v \in Nat /\ definition'[v].regime = r
  BY <1>2, <1>4, <1>5, <1>6, DefinedByGrows
<1>8. /\ declared' \in [TaxPayers -> [version : Nat, regime : Regimes \cup {"NONE"}]]
      /\ \A x \in TaxPayers \ {e} : declared'[x] = declared[x]
      /\ declared'[e] = [version |-> v, regime |-> r]
  <2>1. declared \in [TaxPayers -> [version : Nat, regime : Regimes \cup {"NONE"}]]
    BY <1>1 DEF RowInv, RowTypes
  <2> QED BY <1>4, <1>5, <1>6, <1>7, <2>1
<1>9. RowTypes' BY <1>1, <1>6, <1>7, <1>8 DEF RowInv, RowTypes, Grows, totalHistory
<1>10. HistoryApart' BY <1>1, <1>6 DEF RowInv, HistoryApart
<1>11. ASSUME NEW x \in TaxPayers PROVE DeclaredInv(x)'
  <2>1. CASE x = e BY <1>7, <1>8, <2>1 DEF DeclaredInv
  <2>2. CASE x # e BY <1>1, <1>7, <1>8, <2>2, SameDeclared
  <2> QED BY <2>1, <2>2
<1>12. \A x \in TaxPayers \ {e} : settings'[x] = settings[x] /\ earned'[x] = earned[x] BY <1>6
<1> QED BY <1>4, <1>6, <1>7, <1>9, <1>10, <1>11, <1>12, CommitKeeps

LEMMA CommitHistoryKeeps ==
  ASSUME TaxInv, NEW c \in TaxCalls, CommitHistory(c)
  PROVE  TaxInv'
<1>1. CallTypes /\ RowInv /\ DealInv(c) /\ taxCall[c] \in CallRow BY DEF TaxInv, CallTypes
<1>2. PICK e, k, m, n : /\ e = taxCall[c].employee /\ k = taxCall[c].source
                        /\ m = taxCall[c].months /\ n = taxCall[c].seen + 1
  OBVIOUS
<1>3. taxCall[c].pc = "saveHistory" BY DEF CommitHistory, At
<1>4. e \in TaxPayers /\ taxLock[e] = c /\ e \in Claimants /\ k \in Sources
  BY <1>1, <1>2, <1>3 DEF DealInv, LockInv, Decisions
<1>5. m \in SUBSET UNION Spans /\ n \in Nat BY <1>1, <1>2 DEF CallRow
<1>6. \A j \in Sources \ {k} : earned[e][j].months \intersect m = {}
  BY <1>1, <1>2, <1>3 DEF DealInv, ApartInv
<1>7. /\ earned' = [earned EXCEPT ![e][k] = [revision |-> n, months |-> m]]
      /\ taxCall' = [taxCall EXCEPT ![c] = Resting] /\ Releases(c)
      /\ proof' = proof /\ total' = total /\ settings' = settings /\ definition' = definition
      /\ declared' = declared /\ totalHistory' = totalHistory
  BY <1>2 DEF CommitHistory
<1>8. [revision |-> n, months |-> m] \in EntryRow BY <1>5 DEF EntryRow
<1>9. earned \in [Claimants -> [Sources -> EntryRow]] BY <1>1 DEF RowInv, RowTypes
<1>10. /\ earned' \in [Claimants -> [Sources -> EntryRow]]
       /\ \A x \in Claimants, j \in Sources : x # e \/ j # k => earned'[x][j] = earned[x][j]
       /\ earned'[e][k].months = m
  BY <1>4, <1>7, <1>8, <1>9
<1>11. \A x \in TaxPayers \ {e} : earned'[x] = earned[x] BY <1>7, <1>9
<1>12. Grows(c) BY <1>7, SameGrows
<1>13. RowTypes' BY <1>1, <1>7, <1>10 DEF RowInv, RowTypes, totalHistory
<1>14. HistoryApart'
  <2> SUFFICES ASSUME NEW x \in Claimants, NEW i \in Sources, NEW j \in Sources, i # j
               PROVE  earned'[x][i].months \intersect earned'[x][j].months = {}
    BY DEF HistoryApart
  <2>1. earned[x][i].months \intersect earned[x][j].months = {} BY <1>1 DEF RowInv, HistoryApart
  <2>2. CASE x = e /\ i = k
    <3>1. earned'[x][j] = earned[x][j] BY <1>10, <2>2
    <3> QED BY <1>6, <1>10, <2>2, <3>1
  <2>3. CASE x = e /\ j = k
    <3>1. earned'[x][i] = earned[x][i] BY <1>10, <2>3
    <3> QED BY <1>6, <1>10, <2>3, <3>1
  <2>4. CASE x # e \/ (i # k /\ j # k)
    <3>1. earned'[x][i] = earned[x][i] /\ earned'[x][j] = earned[x][j] BY <1>10, <2>4
    <3> QED BY <2>1, <3>1
  <2> QED BY <2>2, <2>3, <2>4
<1>15. \A x \in TaxPayers : DeclaredInv(x)' BY <1>1, <1>7, <1>12, SameDeclared
<1> QED BY <1>4, <1>7, <1>11, <1>12, <1>13, <1>14, <1>15, CommitKeeps

\* HR's edits of definitions.
LEMMA AdminKeeps ==
  ASSUME TaxInv, AdminNext
  PROVE  TaxInv'
<1>1. /\ CallTypes /\ RowInv /\ definition \in Seq(DefinitionRow) /\ ReplacedInv /\ DefinedOnce
  BY DEF TaxInv, RowInv, RowTypes
<1>2. UNCHANGED <<proof, total, settings, declared, earned, taxCall, lockVars, totalHistory>>
  BY DEF AdminNext, CreateDefinition, SetActive
<1>3. DOMAIN definition = 1 .. Len(definition) /\ Len(definition) \in Nat BY <1>1
<1>4. /\ definition' \in Seq(DefinitionRow) /\ DOMAIN definition \subseteq DOMAIN definition'
      /\ \A x \in DOMAIN definition :
           /\ definition'[x].regime = definition[x].regime
           /\ definition'[x].automatic = definition[x].automatic
           /\ definition'[x] = definition[x] \/ definition'[x].replaced
      /\ \A x \in DOMAIN definition' \ DOMAIN definition :
           ~definition'[x].automatic /\ definition'[x].active
  <2>1. CASE \E r \in Regimes : CreateDefinition(r)
    <3>1. PICK r \in Regimes : CreateDefinition(r) BY <2>1
    <3> DEFINE new == [regime |-> r, active |-> TRUE, automatic |-> FALSE, replaced |-> FALSE]
    <3>2. definition' = Append(definition, new) BY <3>1 DEF CreateDefinition, Added
    <3>3. new \in DefinitionRow /\ ~new.automatic /\ new.active BY DEF DefinitionRow
    <3> HIDE DEF new
    <3> QED BY <1>1, <1>3, <3>2, <3>3
  <2>2. CASE \E d \in DOMAIN definition, a \in BOOLEAN : SetActive(d, a)
    <3>1. PICK d \in DOMAIN definition, a \in BOOLEAN : SetActive(d, a) BY <2>2
    <3> DEFINE new == [definition[d] EXCEPT !.active = a, !.replaced = TRUE]
    <3>2. definition' = [definition EXCEPT ![d] = new] BY <1>1, <3>1 DEF SetActive
    <3>3. definition[d] \in DefinitionRow BY <1>1
    <3>4. /\ new \in DefinitionRow /\ new.replaced /\ new.regime = definition[d].regime
          /\ new.automatic = definition[d].automatic
      BY <3>3 DEF DefinitionRow
    <3> HIDE DEF new
    <3>5. definition' \in Seq(DefinitionRow) /\ DOMAIN definition' = DOMAIN definition
      BY <1>1, <3>2, <3>4
    <3>6. definition'[d] = new /\ \A x \in DOMAIN definition \ {d} : definition'[x] = definition[x]
      BY <1>1, <3>2
    <3> QED BY <3>4, <3>5, <3>6
  <2> QED BY <2>1, <2>2 DEF AdminNext
<1>5. ReplacedInv' BY <1>1, <1>4 DEF ReplacedInv
<1>6. DefinedOnce' BY <1>1, <1>4 DEF DefinedOnce
<1>7. \A r \in Regimes : Unreplaced(r) = {} => Unreplaced(r)' = {} BY <1>4 DEF Unreplaced
<1>8. CallTypes' BY <1>1, <1>2 DEF CallTypes, lockVars
<1>9. /\ \A k, v : LinesOf(k, v)' = LinesOf(k, v) /\ ApprovedLines(k, v)' = ApprovedLines(k, v)
      /\ summed' = summed /\ outdated' = outdated
  BY <1>2 DEF LinesOf, ApprovedLines, totalHistory
<1>10. RowInv'
  <2>1. \A l \in ProofLines : FiledInv(l)' BY <1>1, <1>2, <1>4 DEF RowInv, FiledInv
  <2>2. \A x \in TaxPayers : DeclaredInv(x)' BY <1>1, <1>2, <1>4 DEF RowInv, DeclaredInv
  <2>3. OneLinePerSection' BY <1>1, <1>2 DEF RowInv, OneLinePerSection
  <2>4. HistoryApart' BY <1>1, <1>2 DEF RowInv, HistoryApart
  <2>5. RowTypes' BY <1>1, <1>2, <1>4, <1>9 DEF RowInv, RowTypes
  <2>6. TotalIsApproved'
    <3> SUFFICES ASSUME NEW x \in TaxPayers, x \notin outdated
                 PROVE  total[x] = AmountOf(ApprovedLines(x, summed[x]))'
      BY <1>2, <1>9 DEF TotalIsApproved
    <3>1. PICK v : v = summed[x] OBVIOUS
    <3>2. AmountOf(ApprovedLines(x, v))' = AmountOf(ApprovedLines(x, v)) BY <1>2, <1>9, SameSum
    <3>3. AmountOf(ApprovedLines(x, summed[x]))' = AmountOf(ApprovedLines(x, v))'
      BY <1>9, <3>1 DEF AmountOf, ApprovedLines, LinesOf
    <3> QED BY <1>1, <3>1, <3>2, <3>3 DEF RowInv, TotalIsApproved
  <2> QED BY <1>5, <1>6, <2>1, <2>2, <2>3, <2>4, <2>5, <2>6 DEF RowInv
<1>11. ASSUME NEW d \in TaxCalls PROVE DealInv(d)'
  <2>1. DealInv(d) /\ taxCall'[d] = taxCall[d] BY <1>2 DEF TaxInv
  <2>2. KeepsLocks(d) BY <1>2 DEF KeepsLocks, lockVars
  <2>3. PICK k, v : k = taxCall[d].employee /\ v = taxCall[d].version OBVIOUS
  <2>4. SumInv(d) BY <2>1 DEF DealInv
  <2>5. SumInv(d)' BY <1>2, <1>9, <2>1, <2>3, <2>4, SumStays
  <2>6. \A n \in Nat : LinesOf(k, n)' = LinesOf(k, n) BY <1>9
  <2>7. \A n \in Nat : LinesOf(taxCall[d].employee, n)' = LinesOf(taxCall[d].employee, n)
    BY <2>1, <2>3, <2>6 DEF LinesOf
  <2>8. settings' = settings /\ earned' = earned /\ proof' = proof BY <1>2
  <2> QED BY <1>1, <1>4, <1>7, <2>1, <2>2, <2>5, <2>7, <2>8, OthersStay
<1> QED BY <1>8, <1>10, <1>11 DEF TaxInv


\* A total is committed together with the line it follows from.
LEMMA CommitTotalKeeps ==
  ASSUME TaxInv, NEW c \in TaxCalls, NEW l \in ProofLines, NEW row \in ProofRow, CommitTotal(c, l, row),
         NEW e \in TaxPayers, e = taxCall[c].employee, taxLock[e] = c, Grows(c),
         UNCHANGED <<settings, declared, earned>>,
         row.owner = e, row.status # "NONE", row.section \in Sections,
         row.version \in DOMAIN definition', definition'[row.version].regime = row.regime,
         proof[l].status # "NONE" =>
           /\ proofLock[l] = c /\ proof[l].owner = e /\ proof[l].version = row.version
           /\ proof[l].section = row.section,
         proof[l].status = "NONE" =>
           \A k \in LinesOf(e, row.version) : proof[k].section # row.section,
         ~taxCall[c].stale => taxCall[c].sum = AmountOf(ApprovedLines(e, row.version))'
  PROVE  TaxInv'
<1>1. CallTypes /\ RowInv /\ RowTypes /\ DealInv(c) /\ taxCall[c] \in CallRow
  BY DEF TaxInv, RowInv, CallTypes
<1>2. PICK s, late : s = taxCall[c].sum /\ late = taxCall[c].stale OBVIOUS
<1>3. s \in Int /\ late \in BOOLEAN BY <1>1, <1>2 DEF CallRow
<1>4. /\ proof'[l] = row /\ \A k \in ProofLines \ {l} : proof'[k] = proof[k]
      /\ proof' \in [ProofLines -> ProofRow]
  BY <1>1 DEF CommitTotal, RowTypes
<1>5. /\ total'[e] = s /\ \A x \in TaxPayers \ {e} : total'[x] = total[x]
      /\ total' \in [TaxPayers -> Int]
  BY <1>1, <1>2, <1>3 DEF CommitTotal, RowTypes
<1>6. row.version \in Nat
  <2>1. definition' \in Seq(DefinitionRow) BY DEF Grows
  <2> QED BY <2>1
<1>7. /\ summed'[e] = row.version /\ \A x \in TaxPayers \ {e} : summed'[x] = summed[x]
      /\ summed' \in [TaxPayers -> Nat]
  BY <1>1, <1>6 DEF CommitTotal, RowTypes
<1>8. /\ outdated' = IF late THEN outdated \union {e} ELSE outdated \ {e}
      /\ outdated' \in SUBSET TaxPayers
  BY <1>1, <1>2 DEF CommitTotal, RowTypes
<1>9. settings' = settings /\ declared' = declared /\ earned' = earned OBVIOUS
<1>10. /\ taxCall'[c] = Resting
       /\ \A d \in TaxCalls \ {c} :
            taxCall'[d] = IF SumIsRead(d) /\ taxCall[d].employee = e
                          THEN [taxCall[d] EXCEPT !.stale = TRUE] ELSE taxCall[d]
  BY DEF CommitTotal
<1>11. taxCall' \in [TaxCalls -> CallRow]
  <2>1. \A d \in TaxCalls : [taxCall[d] EXCEPT !.stale = TRUE] \in CallRow
    <3> SUFFICES ASSUME NEW d \in TaxCalls PROVE [taxCall[d] EXCEPT !.stale = TRUE] \in CallRow OBVIOUS
    <3>1. taxCall[d] \in CallRow BY <1>1 DEF CallTypes
    <3> QED BY <3>1 DEF CallRow
  <2>2. \A d \in TaxCalls : taxCall'[d] \in CallRow BY <1>1, <1>10, <2>1, RestingRow DEF CallTypes
  <2>3. taxCall' = [d \in TaxCalls |-> taxCall'[d]] BY DEF CommitTotal
  <2> QED BY <2>2, <2>3
<1>12. Releases(c) BY DEF CommitTotal
<1>13. CallTypes' BY <1>1, <1>11, <1>12, ReleasesKeep DEF CallTypes
\* The lines of the others stay theirs.
<1>14. \A x \in TaxPayers \ {e} : \A v : /\ LinesOf(x, v)' = LinesOf(x, v)
                                        /\ \A k \in LinesOf(x, v) : proof'[k] = proof[k]
  BY <1>4 DEF LinesOf
<1>15. \A x \in TaxPayers \ {e} : \A v : /\ ApprovedLines(x, v)' = ApprovedLines(x, v)
                                        /\ \A k \in ApprovedLines(x, v) : proof'[k].amount = proof[k].amount
  BY <1>14 DEF ApprovedLines
<1>16. RowTypes' BY <1>1, <1>4, <1>5, <1>7, <1>8, <1>9 DEF RowTypes, Grows
<1>17. ASSUME NEW k \in ProofLines PROVE FiledInv(k)'
  <2>1. CASE k = l BY <1>4, <2>1 DEF FiledInv
  <2>2. CASE k # l BY <1>1, <1>4, <2>2 DEF RowInv, FiledInv, Grows
  <2> QED BY <2>1, <2>2
<1>18. \A x \in TaxPayers : DeclaredInv(x)' BY <1>1, <1>9, SameDeclared
<1>19. OneLinePerSection'
  <2>1. ASSUME NEW k \in ProofLines \ {l}, proof[k].status # "NONE", proof[k].owner = e,
               proof[k].version = row.version
        PROVE  proof[k].section # row.section
    <3>1. CASE proof[l].status = "NONE" BY <2>1, <3>1 DEF LinesOf
    <3>2. CASE proof[l].status # "NONE" BY <1>1, <2>1, <3>2 DEF RowInv, OneLinePerSection
    <3> QED BY <3>1, <3>2
  <2>2. OneLinePerSection BY <1>1 DEF RowInv
  <2> QED BY <1>4, <2>1, <2>2 DEF OneLinePerSection
<1>20. HistoryApart' BY <1>1, <1>9 DEF RowInv, HistoryApart
<1>21. TotalIsApproved'
  <2> SUFFICES ASSUME NEW x \in TaxPayers, x \notin outdated'
               PROVE  total'[x] = AmountOf(ApprovedLines(x, summed[x]))'
    BY DEF TotalIsApproved
  <2>1. PICK v : v = summed'[x] OBVIOUS
  <2>2. AmountOf(ApprovedLines(x, summed[x]))' = AmountOf(ApprovedLines(x, v))'
    BY <2>1 DEF AmountOf, ApprovedLines, LinesOf
  <2>3. CASE x = e
    <3>1. ~late /\ v = row.version BY <1>7, <1>8, <2>1, <2>3
    <3>2. s = AmountOf(ApprovedLines(e, row.version))' BY <1>2, <3>1
    <3> QED BY <1>5, <2>2, <2>3, <3>1, <3>2
  <2>4. CASE x # e
    <3>1. x \notin outdated /\ v = summed[x] /\ total'[x] = total[x] BY <1>5, <1>7, <1>8, <2>1, <2>4
    <3>2. total[x] = AmountOf(ApprovedLines(x, v)) BY <1>1, <3>1 DEF RowInv, TotalIsApproved
    <3>3. AmountOf(ApprovedLines(x, v))' = AmountOf(ApprovedLines(x, v)) BY <1>15, <2>4, SameSum
    <3> QED BY <2>2, <3>1, <3>2, <3>3
  <2> QED BY <2>3, <2>4
<1>22. RowInv' BY <1>16, <1>17, <1>18, <1>19, <1>20, <1>21 DEF RowInv, Grows
<1>23. ASSUME NEW d \in TaxCalls \ {c} PROVE DealInv(d)'
  <2>1. DealInv(d) /\ KeepsLocks(d) BY <1>1, <1>12, ReleasesKeep DEF TaxInv
  <2>2. taxCall'[d] = taxCall[d] \/ taxCall'[d] = [taxCall[d] EXCEPT !.stale = TRUE] BY <1>10
  <2>3. taxCall[d] \in CallRow BY <1>1 DEF CallTypes
  <2>4. CASE taxCall[d].pc = "idle"
    <3>1. taxCall'[d].pc = "idle" BY <2>2, <2>3, <2>4 DEF CallRow
    <3> QED BY <3>1, IdleRests
  <2>5. CASE taxCall[d].pc # "idle"
    <3>1. PICK k, v : k = taxCall[d].employee /\ v = taxCall[d].version OBVIOUS
    <3>2. k \in TaxPayers BY <2>1, <2>5, <3>1 DEF DealInv, LockInv
    <3>3. taxLock[k] = d => k # e OBVIOUS
    <3>4. taxLock[k] = d => \A n \in Nat : LinesOf(k, n)' = LinesOf(k, n) BY <1>14, <3>2, <3>3
    <3>5. taxLock[k] = d =>
            \A n \in Nat : LinesOf(taxCall[d].employee, n)' = LinesOf(taxCall[d].employee, n)
      <4>1. taxCall'[d].employee = k BY <2>2, <2>3, <3>1 DEF CallRow
      <4> QED BY <3>1, <3>4, <4>1 DEF LinesOf
    <3>6. \A j \in ProofLines : proofLock[j] = d /\ proof[j].status # "NONE" => j # l OBVIOUS
    <3>7. \A j \in ProofLines : taxLock[k] = d /\ proof[j].owner = k /\ proof[j].status # "NONE" => j # l
      BY <3>3
    <3>8. SumInv(d)'
      <4>1. CASE SumIsRead(d) /\ k = e
        <5>1. taxCall'[d].stale BY <1>10, <2>3, <3>1, <4>1 DEF CallRow
        <5> QED BY <5>1 DEF SumInv
      <4>2. CASE ~(SumIsRead(d) /\ k = e)
        <5>1. taxCall'[d] = taxCall[d] BY <1>10, <3>1, <4>2
        <5>2. SumIsRead(d) => k # e BY <4>2
        <5>3. SumIsRead(d) => /\ ApprovedLines(k, v)' = ApprovedLines(k, v)
                              /\ \A j \in ApprovedLines(k, v) : proof'[j].amount = proof[j].amount
          BY <1>15, <3>2, <5>2
        <5>4. SumIsRead(d) /\ taxCall[d].to = "APPROVED" =>
                proof'[taxCall[d].line].amount = proof[taxCall[d].line].amount
          <6> SUFFICES ASSUME SumIsRead(d), taxCall[d].to = "APPROVED"
                       PROVE  proof'[taxCall[d].line].amount = proof[taxCall[d].line].amount
            OBVIOUS
          <6>1. taxCall[d].line \in LinesOf(k, v)
            BY <2>1, <3>1 DEF DealInv, LineInv, HasLine, Decisions
          <6> QED BY <1>14, <3>2, <5>2, <6>1
        <5>5. SumInv(d) BY <2>1 DEF DealInv
        <5> QED BY <3>1, <5>1, <5>3, <5>4, <5>5, SumStays
      <4> QED BY <4>1, <4>2
    <3>9. /\ DOMAIN definition \subseteq DOMAIN definition'
          /\ \A x \in DOMAIN definition : definition'[x].regime = definition[x].regime
          /\ \A r \in Regimes : defLock[r] = d /\ Unreplaced(r) = {} => Unreplaced(r)' = {}
      BY DEF Grows
    <3>10. \A j \in ProofLines :
             (proofLock[j] = d /\ proof[j].status # "NONE")
             \/ (taxLock[taxCall[d].employee] = d /\ proof[j].owner = taxCall[d].employee
                 /\ proof[j].status # "NONE") => proof'[j] = proof[j]
      BY <1>4, <3>1, <3>6, <3>7
    <3> QED BY <1>1, <1>9, <2>1, <2>2, <3>1, <3>5, <3>8, <3>9, <3>10, OthersStay
  <2> QED BY <2>4, <2>5
<1> QED BY <1>10, <1>13, <1>22, <1>23, AtRest DEF TaxInv


LEMMA CommitSubmissionKeeps ==
  ASSUME TaxInv, NEW c \in TaxCalls, CommitSubmission(c)
  PROVE  TaxInv'
<1>1. CallTypes /\ RowInv /\ RowTypes /\ DealInv(c) /\ taxCall[c] \in CallRow
  BY DEF TaxInv, RowInv, CallTypes
<1>2. PICK e, v, w, s, a, r, g, x :
        /\ e = taxCall[c].employee /\ v = VersionOf(c) /\ w = taxCall[c].version
        /\ s = taxCall[c].section /\ a = taxCall[c].amount /\ r = settings[e].regime
        /\ g = taxCall[c].line /\ x = taxCall[c].sum
  OBVIOUS
<1>3. taxCall[c].pc = "saveTotal" /\ taxCall[c].to = "PENDING" BY DEF CommitSubmission, At
<1>4. /\ e \in TaxPayers /\ taxLock[e] = c /\ Means(c) /\ HasLine(c) /\ SumIsRead(c)
  BY <1>1, <1>2, <1>3 DEF DealInv, LockInv, Means, HasLine, SumIsRead, At, Decisions
<1>5. r \in Regimes /\ r = taxCall[c].regime BY <1>1, <1>2, <1>3, <1>4 DEF DealInv, MeansInv
<1>6. definition' = DefinedBy(c, taxCall[c].regime) /\ UNCHANGED <<settings, declared, earned>>
  BY DEF CommitSubmission
<1>7. /\ Grows(c) /\ v \in DOMAIN definition' /\ v \in Nat /\ v # 0 /\ definition'[v].regime = r
      /\ w = 0 => v \notin DOMAIN definition
      /\ w # 0 => v = w
  BY <1>2, <1>4, <1>5, <1>6, DefinedByGrows
<1>8. /\ g # NoLine => /\ g \in ProofLines /\ proofLock[g] = c /\ g \in LinesOf(e, w)
                       /\ proof[g].section = s
      /\ s \in Sections
      /\ g = NoLine => \A k \in LinesOf(e, w) : proof[k].section # s
  BY <1>1, <1>2, <1>3, <1>4 DEF DealInv, LineInv
<1>9. a \in Nat BY <1>1, <1>2 DEF CallRow
\* Nobody has filed anything under a definition that is not there.
<1>10. \A l \in ProofLines : proof[l].status # "NONE" => proof[l].version \in DOMAIN definition /\ proof[l].version # 0
  <2>1. 0 \notin DOMAIN definition
    <3>1. definition \in Seq(DefinitionRow) BY <1>1 DEF RowTypes
    <3> QED BY <3>1
  <2> QED BY <1>1, <2>1 DEF RowInv, FiledInv
<1>11. LinesOf(e, w) = LinesOf(e, v)
  <2>1. CASE w # 0 BY <1>7, <2>1
  <2>2. CASE w = 0
    <3>1. LinesOf(e, w) = {} /\ LinesOf(e, v) = {} BY <1>7, <1>10, <2>2 DEF LinesOf
    <3> QED BY <3>1
  <2> QED BY <2>1, <2>2
<1> DEFINE written == [status |-> "PENDING", owner |-> e, version |-> v, section |-> s, amount |-> a,
                       regime |-> r]
<1>12. PICK l \in IF g = NoLine THEN {k \in ProofLines : proof[k].status = "NONE"} ELSE {g} :
         CommitTotal(c, l, written)
  BY <1>2, <1>5 DEF CommitSubmission
<1>13. /\ written \in ProofRow /\ written.owner = e /\ written.status = "PENDING" /\ written.version = v
       /\ written.section = s /\ written.regime = r
  BY <1>4, <1>5, <1>7, <1>8, <1>9 DEF ProofRow
<1> HIDE DEF written
<1>14. PICK row \in ProofRow : row = written BY <1>13
<1>15. l \in ProofLines BY <1>8, <1>12
<1>16. proof[l].status # "NONE" =>
         /\ proofLock[l] = c /\ proof[l].owner = e /\ proof[l].version = v /\ proof[l].section = s
  BY <1>8, <1>11, <1>12 DEF LinesOf
<1>17. proof[l].status = "NONE" => \A k \in LinesOf(e, v) : proof[k].section # s
  BY <1>8, <1>11, <1>12 DEF LinesOf
<1>18. /\ proof'[l] = row /\ \A k \in ProofLines \ {l} : proof'[k] = proof[k]
  BY <1>1, <1>12, <1>14, <1>15 DEF CommitTotal, RowTypes
<1>19. ~taxCall[c].stale => x = AmountOf(ApprovedLines(e, v))'
  <2> SUFFICES ASSUME ~taxCall[c].stale PROVE x = AmountOf(ApprovedLines(e, v))' OBVIOUS
  <2>1. PICK T \in SUBSET ProofLines : T = ApprovedLines(e, w) \ {g} BY DEF ApprovedLines, LinesOf
  <2>2. SumOfApproved(c) = AmountOf(T) + 0 BY <1>2, <1>3, <2>1 DEF SumOfApproved
  <2>3. x = AmountOf(T)
    <3>1. AmountOf(T) \in Nat BY <1>1, AmountIsNat
    <3>2. x = SumOfApproved(c) BY <1>1, <1>2, <1>4 DEF DealInv, SumInv
    <3> QED BY <2>2, <3>1, <3>2
  <2>4. ApprovedLines(e, v)' = T
    <3>1. ApprovedLines(e, v) = ApprovedLines(e, w) BY <1>11 DEF ApprovedLines
    <3>2. ApprovedLines(e, v)' = ApprovedLines(e, v) \ {l}
      BY <1>13, <1>14, <1>15, <1>18 DEF ApprovedLines, LinesOf
    <3>3. ApprovedLines(e, v) \ {l} = ApprovedLines(e, v) \ {g}
      <4>1. CASE g = NoLine
        <5>1. l \notin ApprovedLines(e, v) BY <1>12, <4>1 DEF ApprovedLines, LinesOf
        <5>2. g \notin ApprovedLines(e, v) BY <4>1, TaxAssumption DEF ApprovedLines, LinesOf
        <5> QED BY <5>1, <5>2
      <4>2. CASE g # NoLine BY <1>12, <4>2
      <4> QED BY <4>1, <4>2
    <3> QED BY <2>1, <3>1, <3>2, <3>3
  <2>5. \A k \in T : proof'[k].amount = proof[k].amount
    <3>1. \A k \in T : k # l
      <4>1. CASE g = NoLine BY <1>12, <2>1, <4>1 DEF ApprovedLines, LinesOf
      <4>2. CASE g # NoLine BY <1>12, <2>1, <4>2
      <4> QED BY <4>1, <4>2
    <3> QED BY <1>18, <3>1
  <2>6. AmountOf(T)' = AmountOf(T) BY <2>5, SameAmounts
  <2>7. AmountOf(ApprovedLines(e, v))' = AmountOf(T)' BY <2>4 DEF AmountOf
  <2> QED BY <2>3, <2>6, <2>7
<1>20. CommitTotal(c, l, row) BY <1>12, <1>14
<1>21. row.owner = e /\ row.status # "NONE" /\ row.section = s /\ row.version = v /\ row.regime = r
  BY <1>13, <1>14
<1> QED BY <1>2, <1>4, <1>6, <1>7, <1>8, <1>15, <1>16, <1>17, <1>19, <1>20, <1>21, CommitTotalKeeps

LEMMA CommitDecisionKeeps ==
  ASSUME TaxInv, NEW c \in TaxCalls, CommitDecision(c)
  PROVE  TaxInv'
<1>1. CallTypes /\ RowInv /\ RowTypes /\ DealInv(c) /\ taxCall[c] \in CallRow
  BY DEF TaxInv, RowInv, CallTypes
<1>2. PICK e, v, l, to, x :
        /\ e = taxCall[c].employee /\ v = taxCall[c].version /\ l = taxCall[c].line
        /\ to = taxCall[c].to /\ x = taxCall[c].sum
  OBVIOUS
<1>3. taxCall[c].pc = "saveTotal" /\ to \in Decisions
  BY <1>1, <1>2 DEF CommitDecision, At, DealInv, LockInv, CallRow
<1>4. e \in TaxPayers /\ taxLock[e] = c /\ HasLine(c) /\ SumIsRead(c)
  BY <1>1, <1>2, <1>3 DEF DealInv, LockInv, HasLine, SumIsRead, At
<1>5. /\ l # NoLine /\ l \in ProofLines /\ proofLock[l] = c /\ l \in LinesOf(e, v)
      /\ proof[l].status = "PENDING"
  BY <1>1, <1>2, <1>3, <1>4 DEF DealInv, LineInv
<1>6. definition' = definition /\ UNCHANGED <<settings, declared, earned>> BY DEF CommitDecision
<1>7. Grows(c) BY <1>6, SameGrows
<1>8. proof[l] \in ProofRow /\ FiledInv(l) BY <1>1, <1>5 DEF RowInv, RowTypes
<1>9. PICK row : row = [proof[l] EXCEPT !.status = to] OBVIOUS
<1>10. /\ row \in ProofRow /\ row.status = to /\ row.owner = proof[l].owner
       /\ row.version = proof[l].version /\ row.section = proof[l].section
       /\ row.regime = proof[l].regime /\ row.amount = proof[l].amount
  BY <1>3, <1>8, <1>9 DEF ProofRow, Decisions
<1>11. CommitTotal(c, l, row) BY <1>2, <1>9 DEF CommitDecision
<1>12. /\ proof[l].owner = e /\ proof[l].version = v /\ row.owner = e /\ row.version = v
       /\ row.status # "NONE" /\ row.section \in Sections
       /\ row.version \in DOMAIN definition' /\ definition'[row.version].regime = row.regime
  BY <1>3, <1>5, <1>6, <1>8, <1>10 DEF LinesOf, FiledInv, Decisions
<1>13. /\ proof'[l] = row /\ \A k \in ProofLines \ {l} : proof'[k] = proof[k]
  BY <1>1, <1>5, <1>11 DEF CommitTotal, RowTypes
<1>14. ~taxCall[c].stale => x = AmountOf(ApprovedLines(e, v))'
  <2> SUFFICES ASSUME ~taxCall[c].stale PROVE x = AmountOf(ApprovedLines(e, v))' OBVIOUS
  <2>1. PICK T \in SUBSET ProofLines : T = ApprovedLines(e, v) BY DEF ApprovedLines, LinesOf
  <2>2. l \notin T BY <1>5, <2>1 DEF ApprovedLines
  <2>3. x = AmountOf(T) + (IF to = "APPROVED" THEN proof[l].amount ELSE 0)
    <3>1. ApprovedLines(e, v) \ {l} = T BY <2>1, <2>2
    <3>2. SumOfApproved(c) = AmountOf(T) + (IF to = "APPROVED" THEN proof[l].amount ELSE 0)
      BY <1>2, <3>1 DEF SumOfApproved
    <3>3. x = SumOfApproved(c) BY <1>1, <1>2, <1>4 DEF DealInv, SumInv
    <3> QED BY <3>2, <3>3
  <2>4. AmountOf(T) \in Nat BY <1>1, AmountIsNat
  <2>5. \A k \in T : proof'[k].amount = proof[k].amount BY <1>13, <2>2
  <2>6. AmountOf(T)' = AmountOf(T) BY <2>5, SameAmounts
  <2>7. CASE to = "APPROVED"
    <3>1. ApprovedLines(e, v)' = T \cup {l}
      BY <1>5, <1>10, <1>12, <1>13, <2>1, <2>7 DEF ApprovedLines, LinesOf
    <3> DEFINE f == [k \in ProofLines |-> proof'[k].amount]
    <3>2. IsFiniteSet(T) /\ \A k \in T \cup {l} : f[k] \in Int
      <4>1. IsFiniteSet(T) BY TaxAssumption, FS_Subset
      <4>2. \A k \in ProofLines : proof[k].amount \in Nat BY <1>1 DEF RowTypes, ProofRow
      <4> QED BY <1>5, <1>10, <1>13, <2>5, <4>1, <4>2
    <3>3. f[l] = proof[l].amount BY <1>5, <1>10, <1>13
    <3>4. AmountOf(ApprovedLines(e, v))' = SumFunctionOnSet(f, T \cup {l}) BY <3>1 DEF AmountOf
    <3>5. AmountOf(T)' = SumFunctionOnSet(f, T) BY DEF AmountOf
    <3> HIDE DEF f
    <3>6. SumFunctionOnSet(f, T \cup {l}) = f[l] + SumFunctionOnSet(f, T) BY <2>2, <3>2, SumAdd
    <3>7. proof[l].amount \in Nat BY <1>8 DEF ProofRow
    <3> QED BY <2>3, <2>4, <2>6, <2>7, <3>3, <3>4, <3>5, <3>6, <3>7
  <2>8. CASE to # "APPROVED"
    <3>1. ApprovedLines(e, v)' = T
      BY <1>5, <1>10, <1>12, <1>13, <2>1, <2>8 DEF ApprovedLines, LinesOf
    <3>2. AmountOf(ApprovedLines(e, v))' = AmountOf(T)' BY <3>1 DEF AmountOf
    <3> QED BY <2>3, <2>4, <2>6, <2>8, <3>2
  <2> QED BY <2>7, <2>8
<1> QED BY <1>2, <1>4, <1>5, <1>6, <1>7, <1>10, <1>11, <1>12, <1>14, CommitTotalKeeps

\* What the requests rely on, whatever runs between their statements.
LEMMA TaxInvariant == TaxSpec => []TaxInv
<1>1. TaxInit => TaxInv
  <2> SUFFICES ASSUME TaxInit PROVE TaxInv OBVIOUS
  <2>1. NoProof \in ProofRow /\ NoProof.status = "NONE" BY DEF NoProof, ProofRow
  <2>2. /\ \A l \in ProofLines : proof[l] = NoProof
        /\ \A e \in TaxPayers : total[e] = 0 /\ declared[e].version = 0 /\ summed[e] = 0
        /\ \A c \in TaxCalls : taxCall[c] = Resting
        /\ \A e \in Claimants : \A k \in Sources : earned[e][k].months = {}
        /\ definition = <<>> /\ outdated = {}
    BY DEF TaxInit
  <2>3. CallTypes BY RestingRow DEF TaxInit, CallTypes
  <2>4. RowTypes
    <3>1. [revision |-> 0, months |-> {}] \in EntryRow BY DEF EntryRow
    <3>2. earned \in [Claimants -> [Sources -> EntryRow]] BY <3>1 DEF TaxInit
    <3>3. definition \in Seq(DefinitionRow) BY <2>2
    <3>4. /\ settings \in [TaxPayers -> [revision : Nat, regime : Regimes \cup {"NONE"}]]
          /\ declared \in [TaxPayers -> [version : Nat, regime : Regimes \cup {"NONE"}]]
      BY DEF TaxInit
    <3> QED BY <2>1, <3>2, <3>3, <3>4 DEF TaxInit, RowTypes
  <2>5. \A l \in ProofLines : proof[l].status = "NONE" BY <2>1, <2>2
  <2>6. TotalIsApproved
    <3> SUFFICES ASSUME NEW e \in TaxPayers PROVE total[e] = AmountOf(ApprovedLines(e, summed[e]))
      BY DEF TotalIsApproved
    <3>1. ApprovedLines(e, summed[e]) = {} BY <2>5 DEF ApprovedLines, LinesOf
    <3> QED BY <2>2, <3>1, SumEmpty DEF AmountOf
  <2>7. RowInv
    <3>1. (\A l \in ProofLines : FiledInv(l)) /\ OneLinePerSection
      BY <2>5 DEF FiledInv, OneLinePerSection
    <3>2. (\A e \in TaxPayers : DeclaredInv(e)) /\ HistoryApart
      BY <2>2 DEF DeclaredInv, HistoryApart
    <3>3. ReplacedInv /\ DefinedOnce BY <2>2 DEF ReplacedInv, DefinedOnce
    <3> QED BY <2>4, <2>6, <3>1, <3>2, <3>3 DEF RowInv
  <2>8. ASSUME NEW c \in TaxCalls PROVE DealInv(c)
    <3>1. taxCall[c].pc = "idle" BY <2>2, RestingRow
    <3> QED BY <3>1 DEF DealInv, LockInv, MeansInv, Means, LineInv, HasLine, SumInv, SumIsRead, ApartInv, At
  <2> QED BY <2>3, <2>7, <2>8 DEF TaxInv
<1>2. TaxInv /\ [TaxNext]_taxVars => TaxInv'
  <2> SUFFICES ASSUME TaxInv, [TaxNext]_taxVars PROVE TaxInv' OBVIOUS
  <2>1. CASE UNCHANGED taxVars
    <3>1. CallTypes' BY <2>1 DEF TaxInv, CallTypes, taxVars, lockVars
    <3>2. UNCHANGED <<taxRows, totalHistory>> BY <2>1 DEF taxVars
    <3>3. \A d \in TaxCalls : taxCall'[d] = taxCall[d] /\ KeepsLocks(d)
      BY <2>1 DEF taxVars, lockVars, KeepsLocks
    <3>4. \A d \in TaxCalls : DealInv(d)' BY <3>2, <3>3, QuietForOthers
    <3>5. RowInv' BY <3>2, RowsStay DEF TaxInv
    <3> QED BY <3>1, <3>4, <3>5 DEF TaxInv
  <2>2. ASSUME NEW c \in TaxCalls, Common(c) PROVE TaxInv'
    BY <2>2, AbortKeeps, LockEmployeeKeeps DEF Common
  <2>3. ASSUME NEW c \in TaxCalls, SettingsSteps(c, TaxPayers) PROVE TaxInv'
    BY <2>3, BeginSettingsKeeps, DefineForSettingsKeeps, CommitSettingsKeeps DEF SettingsSteps
  <2>4. ASSUME NEW c \in TaxCalls, DeclarationSteps(c) PROVE TaxInv'
    BY <2>4, BeginDeclarationKeeps, ResolveKeeps, CommitDeclarationKeeps DEF DeclarationSteps
  <2>5. ASSUME NEW c \in TaxCalls, ProofSteps(c) PROVE TaxInv'
    BY <2>5, BeginSubmissionKeeps, ResolveKeeps, WriteProofKeeps, BeginDecisionKeeps, ReadSumKeeps,
       CommitSubmissionKeeps, CommitDecisionKeeps DEF ProofSteps, Decisions
  <2>6. ASSUME NEW c \in TaxCalls, HistorySteps(c) PROVE TaxInv'
    BY <2>6, BeginHistoryKeeps, CheckOverlapKeeps, CommitHistoryKeeps DEF HistorySteps
  <2> QED BY <2>1, <2>2, <2>3, <2>4, <2>5, <2>6, AdminKeeps DEF TaxNext
<1> QED BY <1>1, <1>2, PTL DEF TaxSpec

\* An employee's approved total is the sum of the approved proof lines of the version last
\* worked on unless an overlapping commit outdated the sum, a section of a version has one
\* line, proofs and declarations stay under the regime assigned at the time, a regime gets one
\* automatic definition and no month of earnings is entered twice (lock_employee_tax,
\* ensure_definition, recompute_total_deductions_from_approved_proofs, require_no_overlap).
THEOREM DeductionsAddUp == TaxSpec => []DeductionsHold
<1>1. TaxInv => DeductionsHold
  <2> SUFFICES ASSUME TaxInv PROVE DeductionsHold OBVIOUS
  <2>1. RowTypes /\ RowInv BY DEF TaxInv, RowInv
  <2>2. definition \in Seq(DefinitionRow) BY <2>1 DEF RowTypes
  <2>3. \A d \in DOMAIN definition : definition[d].regime \in Regimes
    <3>1. \A d \in DOMAIN definition : definition[d] \in DefinitionRow BY <2>2
    <3> QED BY <3>1 DEF DefinitionRow
  <2>4. TaxTypeOK
    BY <2>1, <2>3 DEF TaxTypeOK, RowInv, RowTypes, ProofRow, FiledInv, Decisions
  <2>5. FiledUnderRegime BY <2>1 DEF FiledUnderRegime, RowInv, FiledInv, DeclaredInv
  <2> QED BY <2>1, <2>4, <2>5 DEF DeductionsHold, RowInv
<1> QED BY <1>1, TaxInvariant, PTL
=============================================================================
