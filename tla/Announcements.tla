--------------------------- MODULE Announcements ---------------------------
(***************************************************************************)
(* Announcements and their private files (kabipay-notification).  Images and *)
(* documents are written to the store and given a row before the transaction *)
(* that creates or edits the announcement; a call that fails afterwards      *)
(* cleans up what it stored.  A video is prepared as a stage with an expiry, *)
(* uploaded under the stage's row lock, and claimed by the transaction that  *)
(* creates or edits the announcement; a sweep removes stages nobody claimed. *)
(* Deletion leaves tombstones for the worker of FileCleanup, here Purge.     *)
(* Images and documents are treated alike, one slot stands for both.         *)
(* Texts, audiences, schedules and notifications are left out.               *)
(***************************************************************************)
EXTENDS Naturals

CONSTANTS
  Posts,           \* announcement ids
  Attachments,     \* files written by the call itself
  Videos,          \* files uploaded to a stage; the stage has the file's name
  Editors,         \* users who post and edit
  Calls,        \* calls in flight
  Providers,       \* what KABIPAY_FILE_STORAGE_MODE may say: "LOCAL", "S3"
  NoFile

ASSUME AnnouncementAssumption ==
  /\ Attachments \cap Videos = {} /\ Providers \subseteq {"LOCAL", "S3"}
  /\ NoFile \notin Attachments \cup Videos \cup Posts \cup Editors

VARIABLES
  post,        \* announcements: the file in each slot
  row,         \* files with a file_storage row
  object,      \* what the store has under each file's path
  spool,       \* what the quarantine path of an S3 upload has
  tombs,       \* paths with a tombstone: <<file, "object">> or <<file, "spool">>
  stage,       \* video stages
  call,     \* per call what it is about to do, with the file it stored
  lost,        \* history: files whose call died, that the store failed to take, or that no
               \* tombstone could be recorded for
  unanswered   \* history: files whose row is there although its insert was reported as failed

history == <<lost, unanswered>>
annVars == <<post, row, object, spool, tombs, stage, call, history>>

Files == Attachments \cup Videos
Paths == Files \X {"object", "spool"}
NoPost == [status |-> "none", attachment |-> NoFile, video |-> NoFile]
NoStage == [status |-> "none", by |-> NoFile, life |-> "live", provider |-> "LOCAL", locked |-> FALSE]
Idle == [at |-> "idle", post |-> NoFile, by |-> NoFile, file |-> NoFile]

AnnTypeOK ==
  /\ post \in [Posts -> [status : {"none", "live", "deleted"}, attachment : Attachments \cup {NoFile},
                         video : Videos \cup {NoFile}]]
  /\ row \subseteq Files /\ tombs \subseteq Paths /\ lost \subseteq Files /\ unanswered \subseteq Attachments
  /\ object \in [Files -> {"none", "part", "whole"}] /\ spool \in [Videos -> {"none", "part", "whole"}]
  /\ stage \in [Videos -> [status : {"none", "open", "uploaded", "claimed", "gone"},
       by : Editors \cup {NoFile}, life : {"live", "expired", "overdue"},
       provider : {"LOCAL", "S3"}, locked : BOOLEAN]]
  /\ call \in [Calls -> [at : {"idle", "writing", "ready", "failed"}, post : Posts \cup {NoFile},
       by : Editors \cup {NoFile}, file : Attachments \cup {NoFile}]]

AnnInit ==
  /\ post = [p \in Posts |-> NoPost] /\ row = {} /\ tombs = {} /\ lost = {} /\ unanswered = {}
  /\ object = [f \in Files |-> "none"] /\ spool = [v \in Videos |-> "none"]
  /\ stage = [v \in Videos |-> NoStage] /\ call = [r \in Calls |-> Idle]

Live == {p \in Posts : post[p].status = "live"}
Holds(p) == {post[p].attachment, post[p].video} \ {NoFile}
Unstored == {f \in Attachments \ (lost \cup row) : object[f] = "none" /\ <<f, "object">> \notin tombs
                                          /\ \A r \in Calls : call[r].file # f}

-----------------------------------------------------------------------------
(* Storing an attachment *)

\* A call about an announcement that exists, or is to be created.
MayBegin(r, p) ==
  /\ call[r] = Idle
  /\ \/ post[p].status = "live"
     \/ post[p].status = "none" /\ \A q \in Calls : call[q].post # p

\* Without a file, or with one that the store took: maybe_store_image and maybe_store_doc
\* come before the transaction.
Begin(r, p, e, f) ==
  /\ MayBegin(r, p) /\ (f = NoFile \/ f \in Unstored)
  /\ call' = [call EXCEPT ![r] =
       [at |-> IF f = NoFile THEN "ready" ELSE "writing", post |-> p, by |-> e, file |-> f]]
  /\ object' = IF f = NoFile THEN object ELSE [object EXCEPT ![f] = "whole"]
  /\ UNCHANGED <<post, row, spool, tombs, stage, history>>

\* The store reports an error: the upload returns before there is a row or a tombstone, and
\* what was written stays.  The local fallback for S3 is another Begin, with another file.
StoreFails(r, p, f, content) ==
  /\ MayBegin(r, p) /\ f \in Unstored
  /\ object' = [object EXCEPT ![f] = content] /\ lost' = lost \cup {f}
  /\ UNCHANGED <<post, row, spool, tombs, stage, call, unanswered>>

InsertRow(r) ==
  /\ call[r].at = "writing" /\ row' = row \cup {call[r].file}
  /\ call' = [call EXCEPT ![r].at = "ready"]
  /\ UNCHANGED <<post, object, spool, tombs, stage, history>>

\* The insert is reported as failed, after it committed or not: the object gets a tombstone
\* all the same, or nothing when the database is out.
InsertFails(r, committed, recorded) ==
  /\ call[r].at = "writing"
  /\ IF committed THEN row' = row \cup {call[r].file} /\ unanswered' = unanswered \cup {call[r].file}
     ELSE UNCHANGED <<row, unanswered>>
  /\ tombs' = IF recorded THEN tombs \cup {<<call[r].file, "object">>} ELSE tombs
  /\ lost' = IF recorded THEN lost ELSE lost \cup {call[r].file}
  /\ call' = [call EXCEPT ![r] = Idle]
  /\ UNCHANGED <<post, object, spool, stage>>

\* The process dies: what is in the store stays there.
CallDies(r) ==
  /\ call[r] # Idle /\ call' = [call EXCEPT ![r] = Idle]
  /\ lost' = lost \cup ({call[r].file} \ {NoFile})
  /\ UNCHANGED <<post, row, object, spool, tombs, stage, unanswered>>

-----------------------------------------------------------------------------
(* The transactions on an announcement *)

\* Whoever uploads or claims holds the stage's row; the sweep passes over it.
Claimable(v, e) ==
  stage[v].status = "uploaded" /\ stage[v].by = e /\ ~stage[v].locked /\ stage[v].life = "live"

\* Rows that are no longer referenced go with a tombstone each; a claimed stage goes too.
Dropped(files) ==
  /\ row' = row \ files
  /\ tombs' = tombs \cup {<<f, "object">> : f \in files \cap row}

WithClaim(v) == IF v = NoFile THEN stage ELSE [stage EXCEPT ![v].status = "claimed"]

\* the stages of dropped videos
WithoutStages(st, files) ==
  [v \in Videos |-> IF v \in files /\ st[v].status = "claimed" THEN [st[v] EXCEPT !.status = "gone"] ELSE st[v]]

\* answered: the caller learns of the commit.  When the connection breaks at that moment it
\* does not, and cleans up after a success.
Outcome(r, answered) ==
  call' = [call EXCEPT ![r] = IF answered THEN Idle ELSE [@ EXCEPT !.at = "failed"]]

CreateAnnouncement(r, v, answered) ==
  LET p == call[r].post IN
  /\ call[r].at = "ready" /\ post[p].status = "none"
  /\ v # NoFile => Claimable(v, call[r].by)
  /\ post' = [post EXCEPT ![p] = [status |-> "live", attachment |-> call[r].file, video |-> v]]
  /\ stage' = WithClaim(v) /\ Outcome(r, answered)
  /\ UNCHANGED <<row, object, spool, tombs, history>>

\* change: what becomes of the attachment and of the video
UpdateAnnouncement(r, change, v, answered) ==
  LET p == call[r].post
      file == CASE call[r].file # NoFile -> call[r].file
                [] change.clearFile -> NoFile
                [] OTHER -> post[p].attachment
      video == CASE v # NoFile -> v [] change.clearVideo -> NoFile [] OTHER -> post[p].video
      removed == Holds(p) \ {file, video} IN
  /\ call[r].at = "ready" /\ post[p].status = "live"
  /\ change.clearFile => call[r].file = NoFile /\ post[p].attachment # NoFile
  /\ change.clearVideo => v = NoFile /\ post[p].video # NoFile
  /\ v # NoFile => Claimable(v, call[r].by)
  /\ post' = [post EXCEPT ![p].attachment = file, ![p].video = video]
  /\ stage' = WithoutStages(WithClaim(v), removed) /\ Dropped(removed) /\ Outcome(r, answered)
  /\ UNCHANGED <<object, spool, history>>

\* The transaction fails: nobody's announcement, or a video that cannot be claimed.
Refused(r) ==
  /\ call[r].at = "ready" /\ call' = [call EXCEPT ![r].at = "failed"]
  /\ UNCHANGED <<post, row, object, spool, tombs, stage, history>>

DeleteAnnouncement(p) ==
  /\ post[p].status = "live" /\ post' = [post EXCEPT ![p] = [NoPost EXCEPT !.status = "deleted"]]
  /\ stage' = WithoutStages(stage, Holds(p)) /\ Dropped(Holds(p))
  /\ UNCHANGED <<object, spool, call, history>>

\* bug: the call takes it that nothing refers to what it stored
UnreferencedBlindly(f) == TRUE

Unreferenced(f) == \A p \in Posts : f \notin Holds(p)

\* cleanup_attachment_ids, whose own failure is only logged
CleanUp(r, works) ==
  LET f == call[r].file
      drop == {g \in {f} \cap row : Unreferenced(g)} IN
  /\ call[r].at = "failed" /\ call' = [call EXCEPT ![r] = Idle]
  /\ IF works THEN Dropped(drop) /\ lost' = lost ELSE UNCHANGED <<row, tombs>> /\ lost' = lost \cup drop
  /\ UNCHANGED <<post, object, spool, stage, unanswered>>

-----------------------------------------------------------------------------
(* Video stages *)

Prepare(v, e, provider) ==
  /\ stage[v].status = "none" /\ row' = row \cup {v}
  /\ stage' = [stage EXCEPT ![v] = [NoStage EXCEPT !.status = "open", !.by = e, !.provider = provider]]
  /\ UNCHANGED <<post, object, spool, tombs, call, history>>

Takes(v) == stage[v].status = "open" /\ stage[v].life = "live"

Written(v, content) ==
  IF stage[v].provider = "S3" THEN spool' = [spool EXCEPT ![v] = content] /\ object' = object
  ELSE object' = [object EXCEPT ![v] = content] /\ spool' = spool

\* The sink is created, and what an earlier upload left there is cut off.
BeginUpload(v) ==
  /\ Takes(v) /\ ~stage[v].locked
  /\ stage' = [stage EXCEPT ![v].locked = TRUE] /\ Written(v, "part")
  /\ UNCHANGED <<post, row, tombs, call, history>>

\* The body ends, an S3 object is put from the spool.
WriteBody(v) ==
  /\ stage[v].locked
  /\ \/ (IF stage[v].provider = "S3" THEN spool[v] ELSE object[v]) = "part" /\ Written(v, "whole")
     \/ /\ stage[v].provider = "S3" /\ spool[v] = "whole" /\ object[v] # "whole"
        /\ object' = [object EXCEPT ![v] = "whole"]
        /\ spool' = spool
  /\ UNCHANGED <<post, row, tombs, stage, call, history>>

\* The spool's tombstone goes with uploaded_at.
FinishUpload(v) ==
  /\ stage[v].locked /\ object[v] = "whole" /\ stage[v].life = "live"
  /\ stage[v].provider = "S3" => spool[v] = "whole"
  /\ stage' = [stage EXCEPT ![v].locked = FALSE, ![v].status = "uploaded"]
  /\ tombs' = IF stage[v].provider = "S3" THEN tombs \cup {<<v, "spool">>} ELSE tombs
  /\ UNCHANGED <<post, row, object, spool, call, history>>

\* A body that breaks off or is not what was announced ends the stage; a timeout of 300 s
\* or the death of the process rolls back and leaves it as it was.
AbandonUpload(v, failed) ==
  /\ stage[v].locked
  /\ stage' = [stage EXCEPT ![v].locked = FALSE,
                            ![v].life = IF failed /\ @ = "live" THEN "expired" ELSE @]
  /\ UNCHANGED <<post, row, object, spool, tombs, call, history>>

\* expires_at passes, and ten minutes later the sweep may come; no upload lasts that long.
Age(v) ==
  /\ stage[v].status \in {"open", "uploaded", "claimed"} /\ stage[v].life # "overdue"
  /\ stage[v].locked => stage[v].life = "live"
  /\ stage' = [stage EXCEPT ![v].life = IF @ = "live" THEN "expired" ELSE "overdue"]
  /\ UNCHANGED <<post, row, object, spool, tombs, call, history>>

\* sweep_expired on one stage; all of a sweep are one transaction, of rows it could lock.
SweepStage(v) ==
  /\ stage[v].status \in {"open", "uploaded"} /\ stage[v].life = "overdue" /\ ~stage[v].locked
  /\ Unreferenced(v)
  /\ stage' = [stage EXCEPT ![v].status = "gone"]
  /\ row' = row \ {v}
  /\ tombs' = tombs \cup {<<v, "object">>}
       \cup (IF stage[v].provider = "S3" THEN {<<v, "spool">>} ELSE {})
  /\ UNCHANGED <<post, object, spool, call, history>>

\* The cleanup worker deletes what a tombstone names.
Purge(path) ==
  /\ path \in tombs /\ tombs' = tombs \ {path}
  /\ IF path[2] = "object" THEN object' = [object EXCEPT ![path[1]] = "none"] /\ spool' = spool
     ELSE spool' = [spool EXCEPT ![path[1]] = "none"] /\ object' = object
  /\ UNCHANGED <<post, row, stage, call, history>>

AnnNext ==
  \/ \E r \in Calls :
       \/ \E p \in Posts, e \in Editors, f \in Attachments \cup {NoFile} : Begin(r, p, e, f)
       \/ InsertRow(r) \/ CallDies(r) \/ Refused(r)
       \/ \E p \in Posts, f \in Attachments, content \in {"part", "whole"} : StoreFails(r, p, f, content)
       \/ \E committed, recorded \in BOOLEAN : InsertFails(r, committed, recorded)
       \/ \E works \in BOOLEAN : CleanUp(r, works)
       \/ \E v \in Videos \cup {NoFile}, answered \in BOOLEAN :
            \/ CreateAnnouncement(r, v, answered)
            \/ \E change \in [clearFile : BOOLEAN, clearVideo : BOOLEAN] :
                 UpdateAnnouncement(r, change, v, answered)
  \/ \E p \in Posts : DeleteAnnouncement(p)
  \/ \E v \in Videos :
       \/ \E e \in Editors, provider \in Providers : Prepare(v, e, provider)
       \/ BeginUpload(v) \/ WriteBody(v) \/ FinishUpload(v) \/ Age(v) \/ SweepStage(v)
       \/ \E failed \in BOOLEAN : AbandonUpload(v, failed)
  \/ \E path \in tombs : Purge(path)

AnnSpec == AnnInit /\ [][AnnNext]_annVars

-----------------------------------------------------------------------------
(* Properties *)

\* Every file of an announcement can be read: it has its row, its whole object and no
\* tombstone, whatever cleanup, sweep, deletion or other edit went on beside it.
FilesReadable ==
  \A p \in Live : \A f \in Holds(p) :
    f \in row /\ object[f] = "whole" /\ <<f, "object">> \notin tombs

\* No file is in two announcements, and a video is where its stage was claimed.
FilesUnshared ==
  /\ \A p, q \in Live : p # q => Holds(p) \cap Holds(q) = {}
  /\ \A v \in Videos : stage[v].status = "claimed" <=> \E p \in Live : post[p].video = v

\* Everything in the store and every row is somebody's: an announcement's, a call's, a
\* stage's or the worker's.  Left behind is only what a call that died, a write that the
\* store failed or a database that was out leaves (lost), and of an insert that committed
\* without an answer the row, whose object the worker takes away.
NothingLost ==
  /\ \A f \in Attachments : object[f] # "none" \/ f \in row \ unanswered =>
       \/ ~Unreferenced(f) \/ <<f, "object">> \in tombs \/ f \in lost
       \/ \E r \in Calls : call[r].file = f
  /\ \A v \in Videos : stage[v].status \in {"none", "gone"} =>
       /\ v \notin row
       /\ object[v] # "none" => <<v, "object">> \in tombs
       /\ spool[v] # "none" => <<v, "spool">> \in tombs
  /\ \A v \in Videos : stage[v].status \in {"uploaded", "claimed"} /\ spool[v] # "none" =>
       <<v, "spool">> \in tombs

AnnouncementsHold == AnnTypeOK /\ FilesReadable /\ FilesUnshared /\ NothingLost
=============================================================================
