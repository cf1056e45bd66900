------------------------- MODULE AnnouncementsProofs -------------------------
(***************************************************************************)
(* What is proved of Announcements, Survey and Celebrations, for any posts,  *)
(* files, calls, surveys, employees, occasions and sweepers.                 *)
(***************************************************************************)
EXTENDS Announcements, Survey, Celebrations, SumTheorems

\* Some announcement has file f.
Used(f) == \E p \in Posts : post[p].attachment = f \/ post[p].video = f

\* What a call holds nobody else does: an attachment is no announcement's before the call
\* commits, and what became of it afterwards has a tombstone or is gone.
CallInv(r) ==
  LET f == call[r].file IN
  /\ call[r].at # "idle" => call[r].post \in Posts /\ call[r].by \in Editors
  /\ call[r].at = "idle" => f = NoFile
  /\ call[r].at = "writing" =>
       f # NoFile /\ f \notin row /\ object[f] = "whole" /\ <<f, "object">> \notin tombs /\ ~Used(f)
  /\ call[r].at = "ready" /\ f # NoFile => f \in row /\ ~Used(f)
  /\ call[r].at = "failed" /\ f # NoFile =>
       f \in row \/ <<f, "object">> \in tombs \/ object[f] = "none"
  /\ f \notin unanswered

CallsApart ==
  \A q, r \in Calls : q # r /\ call[q].file # NoFile => call[q].file # call[r].file

\* Only a live announcement has files, and no other one has them.
PostInv(p) == post[p].status # "live" => post[p].attachment = NoFile /\ post[p].video = NoFile

PostsApart ==
  \A p, q \in Posts : p # q =>
    /\ post[p].attachment # NoFile => post[p].attachment # post[q].attachment
    /\ post[p].video # NoFile => post[p].video # post[q].video

\* An attachment with a row is whole and has no tombstone, unless the insert of that row was
\* reported as failed; one that an announcement has has such a row, and what nothing refers
\* to is noted somewhere.
AttachmentInv(f) ==
  /\ f \in row \ unanswered => object[f] = "whole" /\ <<f, "object">> \notin tombs
  /\ Used(f) => f \in row \ unanswered
  /\ f \in unanswered => f \in row
  /\ object[f] # "none" \/ f \in row \ unanswered =>
       Used(f) \/ <<f, "object">> \in tombs \/ f \in lost \/ \E r \in Calls : call[r].file = f

\* A video at each step of its stage.
VideoInv(v) ==
  /\ stage[v].status = "none" =>
       v \notin row /\ object[v] = "none" /\ spool[v] = "none" /\ <<v, "spool">> \notin tombs
  /\ stage[v].status = "open" => <<v, "spool">> \notin tombs
  /\ stage[v].status \in {"open", "uploaded", "claimed"} => v \in row
  /\ stage[v].status # "gone" => <<v, "object">> \notin tombs
  /\ stage[v].status \in {"uploaded", "claimed"} => object[v] = "whole"
  /\ stage[v].status \in {"uploaded", "claimed", "gone"} /\ spool[v] # "none" => <<v, "spool">> \in tombs
  /\ stage[v].status = "gone" => v \notin row /\ (object[v] # "none" => <<v, "object">> \in tombs)
  /\ stage[v].status = "claimed" <=> Used(v)
  /\ stage[v].locked => stage[v].status = "open"
  /\ stage[v].provider = "LOCAL" => spool[v] = "none"

AnnInv ==
  /\ AnnTypeOK
  /\ \A r \in Calls : CallInv(r)
  /\ CallsApart
  /\ \A p \in Posts : PostInv(p)
  /\ PostsApart
  /\ \A f \in Attachments : AttachmentInv(f)
  /\ \A v \in Videos : VideoInv(v)

-----------------------------------------------------------------------------
(* Rows *)

PostRow == [status : {"none", "live", "deleted"}, attachment : Attachments \cup {NoFile},
            video : Videos \cup {NoFile}]
StageRow == [status : {"none", "open", "uploaded", "claimed", "gone"}, by : Editors \cup {NoFile},
             life : {"live", "expired", "overdue"}, provider : {"LOCAL", "S3"}, locked : BOOLEAN]
CallRow == [at : {"idle", "writing", "ready", "failed"}, post : Posts \cup {NoFile},
            by : Editors \cup {NoFile}, file : Attachments \cup {NoFile}]

LEMMA HoldsWhat ==
  ASSUME NEW p \in Posts
  PROVE  \A f : f \in Holds(p) <=> f # NoFile /\ (post[p].attachment = f \/ post[p].video = f)
  BY DEF Holds

\* How the outcome of a transaction shows in its call.
LEMMA Answered ==
  ASSUME AnnTypeOK, NEW r \in Calls, NEW ok \in BOOLEAN, Outcome(r, ok)
  PROVE  \E c \in CallRow :
           /\ call' = [call EXCEPT ![r] = c] /\ c.at \in {"idle", "failed"}
           /\ c.at = "idle" => c.file = NoFile
           /\ c.at = "failed" => c.file = call[r].file /\ c.post = call[r].post /\ c.by = call[r].by
<1>1. CASE ok
  <2>1. call' = [call EXCEPT ![r] = Idle] /\ Idle \in CallRow
    BY <1>1 DEF Outcome, Idle, CallRow
  <2>2. QED
    BY <2>1 DEF Idle
<1>2. CASE ~ok
  <2>1. PICK c : c = [call[r] EXCEPT !.at = "failed"]
    OBVIOUS
  <2>2. call' = [call EXCEPT ![r] = c]
    BY <1>2, <2>1 DEF Outcome
  <2>3. call[r] \in CallRow
    BY DEF AnnTypeOK, CallRow
  <2>4. c \in CallRow /\ c.at = "failed" /\ c.file = call[r].file /\ c.post = call[r].post /\ c.by = call[r].by
    BY <2>1, <2>3 DEF CallRow
  <2>5. QED
    BY <2>2, <2>4
<1>3. QED
  BY <1>1, <1>2

-----------------------------------------------------------------------------
(* The steps *)

\* Every step keeps the invariant.
LEMMA StepKeepsAnnInv == AnnInv /\ [AnnNext]_annVars => AnnInv'
<1> SUFFICES ASSUME AnnInv, [AnnNext]_annVars PROVE AnnInv'
  OBVIOUS
<1> USE DEF AnnInv, history
<1>1. ASSUME NEW r \in Calls, NEW p \in Posts, NEW e \in Editors, NEW f \in Attachments \cup {NoFile},
             Begin(r, p, e, f)
      PROVE  AnnInv'
  <2>1. AnnTypeOK'
    BY <1>1, AnnouncementAssumption DEF Begin, MayBegin, Unstored, Idle, AnnTypeOK, Files, Paths
  <2>2. ASSUME NEW q \in Calls PROVE CallInv(q)'
    <3>1. /\ f # NoFile => f \notin row /\ ~Used(f) /\ <<f, "object">> \notin tombs
          /\ f \notin unanswered
      BY <1>1, AnnouncementAssumption DEF Begin, MayBegin, Unstored, AttachmentInv, AnnTypeOK
    <3>2. CASE q = r
      BY <1>1, <3>1, <3>2, AnnouncementAssumption DEF Begin, MayBegin, CallInv, Used, AnnTypeOK, Files
    <3>3. CASE q # r
      <4>1. call'[q] = call[q] /\ UNCHANGED <<post, row, tombs, unanswered>>
        BY <1>1, <3>3 DEF Begin, MayBegin, AnnTypeOK
      <4>2. call[q].file # NoFile => object'[call[q].file] = object[call[q].file]
        BY <1>1, <3>3 DEF Begin, MayBegin, Unstored, AnnTypeOK
      <4>3. QED
        BY <4>1, <4>2 DEF CallInv, Used
    <3>4. QED
      BY <3>2, <3>3
  <2>3. CallsApart'
    BY <1>1 DEF Begin, MayBegin, Unstored, Idle, CallsApart, CallInv, AnnTypeOK
  <2>4. ASSUME NEW x \in Posts PROVE PostInv(x)'
    BY <1>1 DEF Begin, MayBegin, Unstored, Idle, PostInv, AnnTypeOK
  <2>5. PostsApart'
    BY <1>1 DEF Begin, MayBegin, Unstored, Idle, PostsApart, PostInv, AnnTypeOK
  <2>6. ASSUME NEW x \in Attachments PROVE AttachmentInv(x)'
    BY <1>1, AnnouncementAssumption DEF Begin, MayBegin, Unstored, Idle, AttachmentInv, CallInv, Used,
       AnnTypeOK
  <2>7. ASSUME NEW v \in Videos PROVE VideoInv(v)'
    BY <1>1, AnnouncementAssumption DEF Begin, MayBegin, Unstored, Idle, VideoInv, Used, AnnTypeOK, Files
  <2>8. QED
    BY <2>1, <2>2, <2>3, <2>4, <2>5, <2>6, <2>7
<1>2. ASSUME NEW r \in Calls, InsertRow(r) PROVE AnnInv'
  <2>1. AnnTypeOK'
    <3>1. call[r].file \in Attachments
      BY <1>2 DEF InsertRow, CallInv, AnnTypeOK
    <3>2. row' \subseteq Files
      BY <1>2, <3>1 DEF InsertRow, AnnTypeOK, Files
    <3>3. call' \in [Calls -> [at : {"idle", "writing", "ready", "failed"}, post : Posts \cup {NoFile},
                             by : Editors \cup {NoFile}, file : Attachments \cup {NoFile}]]
      <4>1. call \in [Calls -> CallRow] BY DEF AnnTypeOK, CallRow
      <4>2. [call[r] EXCEPT !.at = "ready"] \in CallRow BY <4>1 DEF CallRow
      <4>3. call' = [call EXCEPT ![r] = [call[r] EXCEPT !.at = "ready"]] BY <1>2, <4>1 DEF InsertRow
      <4> QED BY <4>1, <4>2, <4>3 DEF CallRow
    <3>4. QED
      BY <1>2, <3>2, <3>3 DEF InsertRow, AnnTypeOK
  <2>2. ASSUME NEW q \in Calls PROVE CallInv(q)'
    BY <1>2, AnnouncementAssumption DEF InsertRow, CallInv, Used, AnnTypeOK, CallsApart,
       AttachmentInv
  <2>3. CallsApart'
    BY <1>2 DEF InsertRow, CallsApart, CallInv, AnnTypeOK
  <2>4. ASSUME NEW p \in Posts PROVE PostInv(p)'
    BY <1>2 DEF InsertRow, PostInv, AnnTypeOK
  <2>5. PostsApart'
    BY <1>2 DEF InsertRow, PostsApart, PostInv, AnnTypeOK
  <2>6. ASSUME NEW f \in Attachments PROVE AttachmentInv(f)'
    BY <1>2, AnnouncementAssumption DEF InsertRow, AttachmentInv, CallInv, Used, AnnTypeOK
  <2>7. ASSUME NEW v \in Videos PROVE VideoInv(v)'
    BY <1>2, AnnouncementAssumption DEF InsertRow, VideoInv, Used, AnnTypeOK, Files
  <2>8. QED
    BY <2>1, <2>2, <2>3, <2>4, <2>5, <2>6, <2>7
<1>3. ASSUME NEW r \in Calls, CallDies(r) PROVE AnnInv'
  <2>1. AnnTypeOK'
    BY <1>3, AnnouncementAssumption DEF CallDies, Idle, AnnTypeOK, Files, Paths
  <2>2. ASSUME NEW q \in Calls PROVE CallInv(q)'
    BY <1>3, AnnouncementAssumption DEF CallDies, Idle, CallInv, Used, AnnTypeOK
  <2>3. CallsApart'
    BY <1>3 DEF CallDies, Idle, CallsApart, CallInv, AnnTypeOK
  <2>4. ASSUME NEW p \in Posts PROVE PostInv(p)'
    BY <1>3 DEF CallDies, Idle, PostInv, AnnTypeOK
  <2>5. PostsApart'
    BY <1>3 DEF CallDies, Idle, PostsApart, PostInv, AnnTypeOK
  <2>6. ASSUME NEW f \in Attachments PROVE AttachmentInv(f)'
    BY <1>3, AnnouncementAssumption DEF CallDies, Idle, AttachmentInv, CallInv, Used, AnnTypeOK
  <2>7. ASSUME NEW v \in Videos PROVE VideoInv(v)'
    BY <1>3, AnnouncementAssumption DEF CallDies, Idle, VideoInv, Used, AnnTypeOK, Files
  <2>8. QED
    BY <2>1, <2>2, <2>3, <2>4, <2>5, <2>6, <2>7
<1>4. ASSUME NEW r \in Calls, Refused(r) PROVE AnnInv'
  <2>1. AnnTypeOK'
    <3>1. call \in [Calls -> CallRow]
      BY DEF AnnTypeOK, CallRow
    <3>2. [call[r] EXCEPT !.at = "failed"] \in CallRow
      BY <3>1 DEF CallRow
    <3>3. call' \in [Calls -> CallRow]
      BY <1>4, <3>1, <3>2 DEF Refused
    <3>4. QED
      BY <1>4, <3>3 DEF Refused, AnnTypeOK, CallRow
  <2>2. ASSUME NEW q \in Calls PROVE CallInv(q)'
    BY <1>4, AnnouncementAssumption DEF Refused, CallInv, Used, AnnTypeOK
  <2>3. CallsApart'
    BY <1>4 DEF Refused, CallsApart, CallInv, AnnTypeOK
  <2>4. ASSUME NEW p \in Posts PROVE PostInv(p)'
    BY <1>4 DEF Refused, PostInv, AnnTypeOK
  <2>5. PostsApart'
    BY <1>4 DEF Refused, PostsApart, PostInv, AnnTypeOK
  <2>6. ASSUME NEW f \in Attachments PROVE AttachmentInv(f)'
    BY <1>4, AnnouncementAssumption DEF Refused, AttachmentInv, CallInv, Used, AnnTypeOK
  <2>7. ASSUME NEW v \in Videos PROVE VideoInv(v)'
    BY <1>4, AnnouncementAssumption DEF Refused, VideoInv, Used, AnnTypeOK, Files
  <2>8. QED
    BY <2>1, <2>2, <2>3, <2>4, <2>5, <2>6, <2>7
<1>5. ASSUME NEW r \in Calls, NEW committed \in BOOLEAN, NEW ok \in BOOLEAN,
             InsertFails(r, committed, ok)
      PROVE  AnnInv'
  <2>1. AnnTypeOK'
    <3>1. call[r].file \in Attachments
      BY <1>5 DEF InsertFails, CallInv, AnnTypeOK
    <3>2. /\ tombs' \subseteq Paths /\ lost' \subseteq Files
          /\ row' \subseteq Files /\ unanswered' \subseteq Attachments
      BY <1>5, <3>1 DEF InsertFails, AnnTypeOK, Files, Paths
    <3>3. call' \in [Calls -> [at : {"idle", "writing", "ready", "failed"}, post : Posts \cup {NoFile},
                             by : Editors \cup {NoFile}, file : Attachments \cup {NoFile}]]
      BY <1>5 DEF InsertFails, Idle, AnnTypeOK
    <3>4. QED
      BY <1>5, <3>2, <3>3 DEF InsertFails, AnnTypeOK
  <2>2. ASSUME NEW q \in Calls PROVE CallInv(q)'
    BY <1>5, AnnouncementAssumption DEF InsertFails, Idle, CallInv, Used, AnnTypeOK, CallsApart,
       AttachmentInv
  <2>3. CallsApart'
    BY <1>5 DEF InsertFails, Idle, CallsApart, CallInv, AnnTypeOK
  <2>4. ASSUME NEW p \in Posts PROVE PostInv(p)'
    BY <1>5 DEF InsertFails, Idle, PostInv, AnnTypeOK
  <2>5. PostsApart'
    BY <1>5 DEF InsertFails, Idle, PostsApart, PostInv, AnnTypeOK
  <2>6. ASSUME NEW f \in Attachments PROVE AttachmentInv(f)'
    BY <1>5, AnnouncementAssumption DEF InsertFails, Idle, AttachmentInv, CallInv, Used, AnnTypeOK
  <2>7. ASSUME NEW v \in Videos PROVE VideoInv(v)'
    BY <1>5, AnnouncementAssumption DEF InsertFails, Idle, VideoInv, Used, AnnTypeOK, Files
  <2>8. QED
    BY <2>1, <2>2, <2>3, <2>4, <2>5, <2>6, <2>7
<1>6. ASSUME NEW r \in Calls, NEW ok \in BOOLEAN, CleanUp(r, ok) PROVE AnnInv'
  <2>1. AnnTypeOK'
    BY <1>6, AnnouncementAssumption DEF CleanUp, Dropped, Unreferenced, Holds, Idle, AnnTypeOK,
       Files, Paths, CallInv
  <2>2. ASSUME NEW q \in Calls PROVE CallInv(q)'
    BY <1>6, AnnouncementAssumption DEF CleanUp, Dropped, Unreferenced, Holds, Idle, CallInv, Used,
       AnnTypeOK, CallsApart, AttachmentInv
  <2>3. CallsApart'
    BY <1>6 DEF CleanUp, Dropped, Unreferenced, Holds, Idle, CallsApart, CallInv, AnnTypeOK
  <2>4. ASSUME NEW p \in Posts PROVE PostInv(p)'
    BY <1>6 DEF CleanUp, Dropped, Unreferenced, Holds, Idle, PostInv, AnnTypeOK
  <2>5. PostsApart'
    BY <1>6 DEF CleanUp, Dropped, Unreferenced, Holds, Idle, PostsApart, PostInv, AnnTypeOK
  <2>6. ASSUME NEW f \in Attachments PROVE AttachmentInv(f)'
    BY SMTT(60), <1>6, AnnouncementAssumption DEF CleanUp, Dropped, Unreferenced, Holds, Idle, AttachmentInv,
       CallInv, Used, AnnTypeOK
  <2>7. ASSUME NEW v \in Videos PROVE VideoInv(v)'
    BY <1>6, AnnouncementAssumption DEF CleanUp, Dropped, Unreferenced, Holds, Idle, VideoInv, Used,
       AnnTypeOK, Files
  <2>8. QED
    BY <2>1, <2>2, <2>3, <2>4, <2>5, <2>6, <2>7
<1>7. ASSUME NEW r \in Calls, NEW v \in Videos \cup {NoFile}, NEW ok \in BOOLEAN,
             CreateAnnouncement(r, v, ok)
      PROVE  AnnInv'
  <2>1. PICK p \in Posts : p = call[r].post
    BY <1>7 DEF CallInv, CreateAnnouncement
  <2>2. PICK c \in CallRow :
          /\ call' = [call EXCEPT ![r] = c] /\ c.at \in {"idle", "failed"}
          /\ c.at = "idle" => c.file = NoFile
          /\ c.at = "failed" => c.file = call[r].file /\ c.post = p /\ c.by = call[r].by
    BY <1>7, <2>1, Answered DEF CreateAnnouncement
  <2>3. PICK f \in Attachments \cup {NoFile} : f = call[r].file
    BY DEF AnnTypeOK
  <2>4. /\ post[p].status = "none" /\ call[r].at = "ready"
        /\ post' = [post EXCEPT ![p] = [status |-> "live", attachment |-> f, video |-> v]]
        /\ UNCHANGED <<row, object, spool, tombs, history>>
    BY <1>7, <2>1, <2>3 DEF CreateAnnouncement
  <2>5. v # NoFile => stage[v].status = "uploaded" /\ ~stage[v].locked
    BY <1>7 DEF CreateAnnouncement, Claimable
  <2>6. /\ stage' \in [Videos -> StageRow]
        /\ \A u \in Videos : /\ stage'[u].status = IF u = v THEN "claimed" ELSE stage[u].status
                             /\ stage'[u].locked = stage[u].locked
                             /\ stage'[u].provider = stage[u].provider
    <3>1. stage \in [Videos -> StageRow]
      BY DEF AnnTypeOK, StageRow
    <3>2. CASE v = NoFile
      BY <1>7, <3>1, <3>2, AnnouncementAssumption DEF CreateAnnouncement, WithClaim
    <3>3. CASE v # NoFile
      <4>1. [stage[v] EXCEPT !.status = "claimed"] \in StageRow
        BY <3>1, <3>3 DEF StageRow
      <4>2. stage' = [stage EXCEPT ![v].status = "claimed"]
        BY <1>7, <3>3 DEF CreateAnnouncement, WithClaim
      <4>3. stage' \in [Videos -> StageRow]
        BY <3>1, <3>3, <4>1, <4>2
      <4>4. QED
        BY <3>1, <4>2, <4>3 DEF StageRow
    <3>4. QED
      BY <3>2, <3>3
  <2>7. (f # NoFile => f \in row /\ ~Used(f)) /\ f \notin unanswered
    BY <1>7, <2>3, <2>4 DEF CallInv
  <2>8. post' \in [Posts -> PostRow]
    BY <2>4 DEF AnnTypeOK, PostRow
  <2>9. AnnTypeOK'
    BY <2>2, <2>4, <2>6, <2>8 DEF AnnTypeOK, PostRow, StageRow, CallRow
  <2>10. ASSUME NEW q \in Calls PROVE CallInv(q)'
    <3>1. CASE q = r
      <4>1. NoFile \notin unanswered' /\ f \notin unanswered'
        BY <2>4, <2>7, AnnouncementAssumption DEF AnnTypeOK
      <4>2. QED
        BY <2>1, <2>2, <2>3, <2>4, <2>7, <3>1, <4>1 DEF CallInv, AnnTypeOK
    <3>2. CASE q # r
      <4>1. call'[q] = call[q] /\ call[q].file \in Attachments \cup {NoFile}
        BY <2>2, <3>2 DEF AnnTypeOK
      <4>2. call[q].file # NoFile => call[q].file # f /\ call[q].file # v
        BY <2>3, <3>2, <4>1, AnnouncementAssumption DEF CallsApart
      <4>3. call[q].file # NoFile /\ ~Used(call[q].file) => ~Used(call[q].file)'
        BY <2>4, <4>1, <4>2 DEF Used, AnnTypeOK
      <4>4. QED
        BY <2>4, <4>1, <4>3 DEF CallInv
    <3>3. QED
      BY <3>1, <3>2
  <2>11. CallsApart'
    BY <2>2 DEF CallsApart, CallInv, AnnTypeOK
  <2>12. ASSUME NEW q \in Posts PROVE PostInv(q)'
    BY <2>4 DEF PostInv, AnnTypeOK
  <2>13. v # NoFile => ~Used(v)
    BY <2>5 DEF VideoInv
  <2>14. PostsApart'
    BY <2>4, <2>7, <2>13 DEF PostsApart, Used, AnnTypeOK
  <2>15. ASSUME NEW g \in Attachments PROVE AttachmentInv(g)'
    <3>1. Used(g)' <=> g = f \/ Used(g)
      BY <2>4, AnnouncementAssumption DEF Used, AnnTypeOK, PostInv
    <3>2. call[r].file = g => g = f
      BY <2>3
    <3>3. \A q \in Calls : q # r => call'[q] = call[q]
      BY <2>2 DEF AnnTypeOK
    <3>4. QED
      <4>1. (\E q \in Calls : call[q].file = g) => Used(g)' \/ \E q \in Calls : call'[q].file = g
        BY <3>1, <3>2, <3>3
      <4>2. QED
        BY <2>4, <2>7, <3>1, <4>1, AnnouncementAssumption DEF AttachmentInv
  <2>16. ASSUME NEW u \in Videos PROVE VideoInv(u)'
    <3>1. Used(u)' <=> u = v \/ Used(u)
      BY <2>4, AnnouncementAssumption DEF Used, AnnTypeOK, PostInv
    <3>2. QED
      <4>1. CASE u = v
        BY <2>4, <2>5, <2>6, <3>1, <4>1, AnnouncementAssumption DEF VideoInv
      <4>2. CASE u # v
        BY <2>4, <2>6, <3>1, <4>2 DEF VideoInv
      <4>3. QED
        BY <4>1, <4>2
  <2>17. QED
    BY <2>9, <2>10, <2>11, <2>12, <2>14, <2>15, <2>16
<1>8. ASSUME NEW r \in Calls, NEW v \in Videos \cup {NoFile}, NEW ok \in BOOLEAN,
             NEW change \in [clearFile : BOOLEAN, clearVideo : BOOLEAN],
             UpdateAnnouncement(r, change, v, ok)
      PROVE  AnnInv'
  <2>1. PICK p \in Posts : p = call[r].post
    BY <1>8 DEF CallInv, UpdateAnnouncement
  <2>2. PICK c \in CallRow :
          /\ call' = [call EXCEPT ![r] = c] /\ c.at \in {"idle", "failed"}
          /\ c.at = "idle" => c.file = NoFile
          /\ c.at = "failed" => c.file = call[r].file /\ c.post = p /\ c.by = call[r].by
    BY <1>8, <2>1, Answered DEF UpdateAnnouncement
  <2>3. PICK f \in Attachments \cup {NoFile}, old \in Attachments \cup {NoFile},
             file \in Attachments \cup {NoFile} :
          /\ f = call[r].file /\ old = post[p].attachment
          /\ file = CASE f # NoFile -> f [] change.clearFile -> NoFile [] OTHER -> old
    BY <2>1 DEF AnnTypeOK
  <2>4. PICK was \in Videos \cup {NoFile}, video \in Videos \cup {NoFile} :
          /\ was = post[p].video
          /\ video = CASE v # NoFile -> v [] change.clearVideo -> NoFile [] OTHER -> was
    BY <2>1 DEF AnnTypeOK
  <2>5. PICK removed : removed = Holds(p) \ {file, video}
    BY ZenonT(60)
  <2>6. /\ \A g \in Attachments : g \in removed <=> g = old /\ g # file
        /\ \A u \in Videos : u \in removed <=> u = was /\ u # video
    BY <2>1, <2>3, <2>4, <2>5, HoldsWhat, AnnouncementAssumption
  <2>7. /\ post[p].status = "live" /\ call[r].at = "ready"
        /\ post' = [post EXCEPT ![p].attachment = file, ![p].video = video]
        /\ stage' = WithoutStages(WithClaim(v), removed) /\ Dropped(removed)
        /\ UNCHANGED <<object, spool, history>>
    BY <1>8, <2>1, <2>3, <2>4, <2>5 DEF UpdateAnnouncement
  <2>8. v # NoFile => stage[v].status = "uploaded" /\ ~stage[v].locked /\ ~Used(v) /\ video = v
    BY <1>8, <2>4 DEF UpdateAnnouncement, Claimable, VideoInv
  <2>9. /\ stage' \in [Videos -> StageRow]
        /\ \A u \in Videos :
             /\ stage'[u].status = IF u = v THEN "claimed"
                                   ELSE IF u = was /\ u # video /\ stage[u].status = "claimed" THEN "gone"
                                   ELSE stage[u].status
             /\ stage'[u].locked = stage[u].locked /\ stage'[u].provider = stage[u].provider
    <3>1. stage \in [Videos -> StageRow]
      BY DEF AnnTypeOK, StageRow
    <3>2. PICK st : st = WithClaim(v)
      OBVIOUS
    <3>3. /\ st \in [Videos -> StageRow]
          /\ \A u \in Videos : /\ st[u].status = IF u = v THEN "claimed" ELSE stage[u].status
                               /\ st[u].locked = stage[u].locked /\ st[u].provider = stage[u].provider
      <4>1. CASE v = NoFile
        BY <3>1, <3>2, <4>1, AnnouncementAssumption DEF WithClaim
      <4>2. CASE v # NoFile
        <5>1. [stage[v] EXCEPT !.status = "claimed"] \in StageRow
          BY <3>1, <4>2 DEF StageRow
        <5>2. st = [stage EXCEPT ![v].status = "claimed"]
          BY <3>2, <4>2 DEF WithClaim
        <5>3. st \in [Videos -> StageRow]
          BY <3>1, <4>2, <5>1, <5>2
        <5>4. QED
          BY <3>1, <5>2, <5>3 DEF StageRow
      <4>3. QED
        BY <4>1, <4>2
    <3>4. stage' = [u \in Videos |-> IF u \in removed /\ st[u].status = "claimed"
                                     THEN [st[u] EXCEPT !.status = "gone"] ELSE st[u]]
      BY <2>7, <3>2 DEF WithoutStages
    <3>5. ASSUME NEW u \in Videos PROVE [st[u] EXCEPT !.status = "gone"] \in StageRow
      BY <3>3 DEF StageRow
    <3>6. stage' \in [Videos -> StageRow]
      BY <3>3, <3>4, <3>5
    <3>7. ASSUME NEW u \in Videos
          PROVE  /\ stage'[u].status = IF u \in removed /\ st[u].status = "claimed" THEN "gone" ELSE st[u].status
                 /\ stage'[u].locked = st[u].locked /\ stage'[u].provider = st[u].provider
      BY <3>3, <3>4 DEF StageRow
    <3>8. \A u \in Videos : u \in removed => u # v
      BY <2>6, <2>8, AnnouncementAssumption
    <3>9. QED
      BY <2>6, <3>3, <3>6, <3>7, <3>8
  <2>10. /\ row' \subseteq Files /\ tombs' \subseteq Paths
         /\ \A g \in Files : /\ g \in row' <=> g \in row /\ g \notin removed
                             /\ <<g, "object">> \in tombs' <=>
                                  <<g, "object">> \in tombs \/ (g \in row /\ g \in removed)
                             /\ <<g, "spool">> \in tombs' <=> <<g, "spool">> \in tombs
    BY <2>7 DEF Dropped, AnnTypeOK, Files, Paths
  <2>11. /\ post' \in [Posts -> PostRow] /\ \A q \in Posts : q # p => post'[q] = post[q]
         /\ post'[p].attachment = file /\ post'[p].video = video /\ post'[p].status = "live"
    <3>1. post \in [Posts -> PostRow]
      BY DEF AnnTypeOK, PostRow
    <3>2. [post[p] EXCEPT !.attachment = file, !.video = video] \in PostRow
      BY <3>1 DEF PostRow
    <3>3. post' \in [Posts -> PostRow]
      BY <2>7, <3>1, <3>2
    <3>4. QED
      BY <2>7, <3>1, <3>3 DEF PostRow
  <2>12. AnnTypeOK'
    BY <2>2, <2>7, <2>9, <2>10, <2>11 DEF AnnTypeOK, PostRow, StageRow, CallRow
  <2>13. /\ f # NoFile => f \in row \ unanswered /\ ~Used(f) /\ file = f
         /\ f = NoFile => file = NoFile \/ file = old
         /\ v = NoFile => video = NoFile \/ video = was
    <3>1. (change.clearFile => f = NoFile) /\ (change.clearVideo => v = NoFile)
      BY <1>8, <2>3 DEF UpdateAnnouncement
    <3>2. f # NoFile => f \in row \ unanswered /\ ~Used(f)
      BY <2>3, <2>7 DEF CallInv
    <3>3. CASE f # NoFile
      BY <2>3, <2>4, <3>1, <3>2, <3>3
    <3>4. CASE f = NoFile
      BY <2>3, <2>4, <3>1, <3>4
    <3>5. QED
      BY <3>3, <3>4
  <2>14. /\ \A g \in Attachments : Used(g)' => g = file \/ Used(g)
         /\ \A g \in Attachments : Used(g) => g = old \/ Used(g)'
         /\ \A u \in Videos : Used(u)' => u = video \/ (Used(u) /\ u # was)
         /\ \A u \in Videos : Used(u) => u = was \/ Used(u)'
         /\ file # NoFile => Used(file)'
         /\ video # NoFile => Used(video)'
         /\ old # NoFile => Used(old)
         /\ was # NoFile => Used(was)
    <3>1. \A q \in Posts : /\ post[q].attachment \in Attachments \cup {NoFile}
                           /\ post[q].video \in Videos \cup {NoFile}
                           /\ post'[q].attachment \in Attachments \cup {NoFile}
                           /\ post'[q].video \in Videos \cup {NoFile}
      BY <2>12 DEF AnnTypeOK
    <3>2. \A q \in Posts : q # p /\ was # NoFile => post[q].video # was
      BY <2>4 DEF PostsApart
    <3>3. QED
      BY <2>3, <2>4, <2>11, <3>1, <3>2, AnnouncementAssumption DEF Used
  <2>15. ASSUME NEW q \in Calls PROVE CallInv(q)'
    <3>1. CASE q = r
      <4>1. f # NoFile => f \in row' /\ f # old
        BY <2>6, <2>10, <2>13, <2>14 DEF Files
      <4>2. call'[q] = c
        BY <2>2, <3>1 DEF AnnTypeOK
      <4>3. QED
        <5>1. call[r].post \in Posts /\ call[r].by \in Editors
          BY <2>7 DEF CallInv
        <5>2. NoFile \notin unanswered' /\ f \notin unanswered'
          BY <2>7, <2>13, AnnouncementAssumption DEF AnnTypeOK
        <5>3. c.at = "idle" => CallInv(q)'
          BY <4>2, <5>2, <2>2 DEF CallInv
        <5>4. c.at = "failed" => CallInv(q)'
          BY <4>1, <4>2, <5>1, <5>2, <2>1, <2>2, <2>3 DEF CallInv
        <5>5. QED
          BY <2>2, <5>3, <5>4
    <3>2. CASE q # r
      <4>1. call'[q] = call[q] /\ call[q].file \in Attachments \cup {NoFile}
        BY <2>2, <3>2 DEF AnnTypeOK
      <4>2. call[q].file # NoFile => call[q].file # f
        BY <2>3, <3>2, <4>1 DEF CallsApart
      <4>3. ASSUME call[q].file # NoFile, ~Used(call[q].file)
            PROVE  /\ ~Used(call[q].file)' /\ call[q].file \notin removed
                   /\ call[q].file \in row' <=> call[q].file \in row
                   /\ <<call[q].file, "object">> \in tombs' <=> <<call[q].file, "object">> \in tombs
        BY <4>1, <4>2, <4>3, <2>6, <2>10, <2>13, <2>14 DEF Files
      <4>4. ASSUME call[q].file # NoFile, call[q].file \in row
            PROVE  call[q].file \in row' \/ <<call[q].file, "object">> \in tombs'
        BY <4>1, <4>4, <2>10 DEF Files
      <4>5. call[q].file # NoFile /\ <<call[q].file, "object">> \in tombs =>
              <<call[q].file, "object">> \in tombs'
        BY <4>1, <2>10 DEF Files
      <4>6. QED
        BY <2>7, <4>1, <4>3, <4>4, <4>5 DEF CallInv
    <3>3. QED
      BY <3>1, <3>2
  <2>16. CallsApart'
    BY <2>2 DEF CallsApart, CallInv, AnnTypeOK
  <2>17. ASSUME NEW q \in Posts PROVE PostInv(q)'
    BY <2>11 DEF PostInv
  <2>18. PostsApart'
    <3>1. ASSUME NEW q \in Posts, q # p
          PROVE  /\ file # NoFile => post[q].attachment # file
                 /\ video # NoFile => post[q].video # video
      BY <3>1, <2>3, <2>4, <2>8, <2>13 DEF PostsApart, Used
    <3>2. QED
      BY <2>11, <3>1 DEF PostsApart
  <2>19. ASSUME NEW g \in Attachments PROVE AttachmentInv(g)'
    <3>1. \A q \in Calls : q # r => call'[q] = call[q]
      BY <2>2 DEF AnnTypeOK
    <3>2. call[r].file = g => Used(g)'
      BY <2>3, <2>13, <2>14, AnnouncementAssumption
    <3>3. (\E q \in Calls : call[q].file = g) => Used(g)' \/ \E q \in Calls : call'[q].file = g
      BY <3>1, <3>2
    <3>4. g \in Files /\ g # NoFile
      BY AnnouncementAssumption DEF Files
    <3>5. /\ g \in row' <=> g \in row /\ g \notin removed
          /\ <<g, "object">> \in tombs' <=> <<g, "object">> \in tombs \/ (g \in row /\ g \in removed)
          /\ g \in removed <=> g = old /\ g # file
      BY <2>6, <2>10, <3>4
    <3>6. g = file => g \in row \ unanswered
      <4>1. CASE f # NoFile
        BY <2>13, <4>1
      <4>2. CASE f = NoFile /\ g = file
        <5>1. g = old /\ Used(g)
          BY <2>13, <2>14, <3>4, <4>2
        <5>2. QED
          BY <5>1 DEF AttachmentInv
      <4>3. QED
        BY <4>1, <4>2
    <3>7. Used(g)' => g \in row' \ unanswered'
      <4>1. Used(g)' => g = file \/ (Used(g) /\ g # old)
        <5>1. \A q \in Posts : q # p /\ old # NoFile => post[q].attachment # old
          BY <2>3 DEF PostsApart
        <5>2. \A q \in Posts : post'[q].video # g
          BY <2>12, AnnouncementAssumption DEF AnnTypeOK
        <5>3. QED
          BY <2>11, <3>4, <5>1, <5>2 DEF Used
      <4>2. QED
        BY <2>7, <3>5, <3>6, <4>1 DEF AttachmentInv
    <3>8. QED
      BY <2>7, <2>14, <3>3, <3>4, <3>5, <3>6, <3>7 DEF AttachmentInv
  <2>20. ASSUME NEW u \in Videos PROVE VideoInv(u)'
    <3>1. u \in Files /\ u # NoFile
      BY AnnouncementAssumption DEF Files
    <3>2. /\ u \in row' <=> u \in row /\ u \notin removed
          /\ <<u, "object">> \in tombs' <=> <<u, "object">> \in tombs \/ (u \in row /\ u \in removed)
          /\ <<u, "spool">> \in tombs' <=> <<u, "spool">> \in tombs
          /\ u \in removed <=> u = was /\ u # video
      BY <2>6, <2>10, <3>1
    <3>3. CASE u = v
      BY <2>7, <2>8, <2>9, <2>14, <3>1, <3>2, <3>3 DEF VideoInv
    <3>4. CASE u # v /\ u = was /\ u # video
      BY <2>7, <2>9, <2>14, <3>1, <3>2, <3>4 DEF VideoInv
    <3>5. CASE u # v /\ ~(u = was /\ u # video)
      BY <2>7, <2>8, <2>9, <2>13, <2>14, <3>1, <3>2, <3>5 DEF VideoInv
    <3>6. QED
      BY <3>3, <3>4, <3>5
  <2>21. QED
    BY <2>12, <2>15, <2>16, <2>17, <2>18, <2>19, <2>20
<1>9. ASSUME NEW p \in Posts, DeleteAnnouncement(p) PROVE AnnInv'
  <2>1. AnnTypeOK'
    <3>1. post \in [Posts -> PostRow] /\ stage \in [Videos -> StageRow]
      BY DEF AnnTypeOK, PostRow, StageRow
    <3>2. [NoPost EXCEPT !.status = "deleted"] \in PostRow
      BY DEF NoPost, PostRow
    <3>3. post' \in [Posts -> PostRow]
      BY <1>9, <3>1, <3>2 DEF DeleteAnnouncement
    <3>4. \A v \in Videos : [stage[v] EXCEPT !.status = "gone"] \in StageRow
      BY <3>1 DEF StageRow
    <3>5. stage' \in [Videos -> StageRow]
      BY <1>9, <3>1, <3>4 DEF DeleteAnnouncement, WithoutStages
    <3>6. row' \subseteq Files /\ tombs' \subseteq Paths
      BY <1>9 DEF DeleteAnnouncement, Dropped, AnnTypeOK, Files, Paths
    <3>7. QED
      BY <1>9, <3>3, <3>5, <3>6 DEF DeleteAnnouncement, AnnTypeOK, PostRow, StageRow
  <2>2. ASSUME NEW q \in Calls PROVE CallInv(q)'
    BY <1>9, AnnouncementAssumption DEF DeleteAnnouncement, NoPost, WithoutStages, Dropped, Holds,
       CallInv, Used, AnnTypeOK, CallsApart, AttachmentInv, PostsApart
  <2>3. CallsApart'
    BY <1>9 DEF DeleteAnnouncement, NoPost, WithoutStages, Dropped, Holds, CallsApart, CallInv,
       AnnTypeOK
  <2>4. ASSUME NEW x \in Posts PROVE PostInv(x)'
    BY <1>9 DEF DeleteAnnouncement, NoPost, WithoutStages, Dropped, Holds, PostInv, AnnTypeOK
  <2>5. PostsApart'
    BY <1>9 DEF DeleteAnnouncement, NoPost, WithoutStages, Dropped, Holds, PostsApart, PostInv,
       AnnTypeOK
  <2>6. ASSUME NEW f \in Attachments PROVE AttachmentInv(f)'
    BY <1>9, AnnouncementAssumption DEF DeleteAnnouncement, NoPost, WithoutStages, Dropped, Holds,
       AttachmentInv, CallInv, Used, AnnTypeOK, PostsApart
  <2>7. ASSUME NEW v \in Videos PROVE VideoInv(v)'
    BY <1>9, AnnouncementAssumption DEF DeleteAnnouncement, NoPost, WithoutStages, Dropped, Holds,
       VideoInv, Used, AnnTypeOK, Files, PostsApart
  <2>8. QED
    BY <2>1, <2>2, <2>3, <2>4, <2>5, <2>6, <2>7
<1>10. ASSUME NEW v \in Videos, NEW e \in Editors, NEW provider \in Providers,
              Prepare(v, e, provider)
       PROVE  AnnInv'
  <2>1. AnnTypeOK'
    BY ZenonT(60), <1>10, AnnouncementAssumption DEF Prepare, NoStage, AnnTypeOK, Files, Paths, VideoInv
  <2>2. ASSUME NEW q \in Calls PROVE CallInv(q)'
    BY <1>10, AnnouncementAssumption DEF Prepare, NoStage, CallInv, Used, AnnTypeOK, VideoInv, Files
  <2>3. CallsApart'
    BY <1>10 DEF Prepare, NoStage, CallsApart, CallInv, AnnTypeOK
  <2>4. ASSUME NEW p \in Posts PROVE PostInv(p)'
    BY <1>10 DEF Prepare, NoStage, PostInv, AnnTypeOK
  <2>5. PostsApart'
    BY <1>10 DEF Prepare, NoStage, PostsApart, PostInv, AnnTypeOK
  <2>6. ASSUME NEW f \in Attachments PROVE AttachmentInv(f)'
    BY <1>10, AnnouncementAssumption DEF Prepare, NoStage, AttachmentInv, CallInv, Used, AnnTypeOK,
       VideoInv, Files
  <2>7. ASSUME NEW x \in Videos PROVE VideoInv(x)'
    BY <1>10, AnnouncementAssumption DEF Prepare, NoStage, VideoInv, Used, AnnTypeOK, Files
  <2>8. QED
    BY <2>1, <2>2, <2>3, <2>4, <2>5, <2>6, <2>7
<1>11. ASSUME NEW v \in Videos, BeginUpload(v) PROVE AnnInv'
  <2>1. AnnTypeOK'
    <3>1. stage \in [Videos -> StageRow]
      BY DEF AnnTypeOK, StageRow
    <3>2. [stage[v] EXCEPT !.locked = TRUE] \in StageRow
      BY ZenonT(60), <3>1 DEF StageRow
    <3>3. stage' \in [Videos -> StageRow]
      BY <1>11, <3>1, <3>2 DEF BeginUpload
    <3>4. /\ object' \in [Files -> {"none", "part", "whole"}]
          /\ spool' \in [Videos -> {"none", "part", "whole"}]
      BY <1>11 DEF BeginUpload, Written, AnnTypeOK
    <3>5. QED
      BY <1>11, <3>3, <3>4 DEF BeginUpload, AnnTypeOK, StageRow
  <2>2. ASSUME NEW q \in Calls PROVE CallInv(q)'
    BY <1>11, AnnouncementAssumption DEF BeginUpload, Takes, Written, CallInv, Used, AnnTypeOK,
       VideoInv, Files
  <2>3. CallsApart'
    BY <1>11 DEF BeginUpload, Takes, Written, CallsApart, CallInv, AnnTypeOK
  <2>4. ASSUME NEW p \in Posts PROVE PostInv(p)'
    BY <1>11 DEF BeginUpload, Takes, Written, PostInv, AnnTypeOK
  <2>5. PostsApart'
    BY <1>11 DEF BeginUpload, Takes, Written, PostsApart, PostInv, AnnTypeOK
  <2>6. ASSUME NEW f \in Attachments PROVE AttachmentInv(f)'
    BY <1>11, AnnouncementAssumption DEF BeginUpload, Takes, Written, AttachmentInv, CallInv, Used,
       AnnTypeOK, VideoInv, Files
  <2>7. ASSUME NEW x \in Videos PROVE VideoInv(x)'
    BY <1>11, AnnouncementAssumption DEF BeginUpload, Takes, Written, VideoInv, Used, AnnTypeOK,
       Files
  <2>8. QED
    BY <2>1, <2>2, <2>3, <2>4, <2>5, <2>6, <2>7
<1>12. ASSUME NEW v \in Videos, WriteBody(v) PROVE AnnInv'
  <2>1. AnnTypeOK'
    BY SMTT(60), <1>12, AnnouncementAssumption DEF WriteBody, Written, AnnTypeOK, Files, Paths, VideoInv
  <2>2. ASSUME NEW q \in Calls PROVE CallInv(q)'
    BY <1>12, AnnouncementAssumption DEF WriteBody, Written, CallInv, Used, AnnTypeOK, VideoInv,
       Files
  <2>3. CallsApart'
    BY <1>12 DEF WriteBody, Written, CallsApart, CallInv, AnnTypeOK
  <2>4. ASSUME NEW p \in Posts PROVE PostInv(p)'
    BY <1>12 DEF WriteBody, Written, PostInv, AnnTypeOK
  <2>5. PostsApart'
    BY <1>12 DEF WriteBody, Written, PostsApart, PostInv, AnnTypeOK
  <2>6. ASSUME NEW f \in Attachments PROVE AttachmentInv(f)'
    BY <1>12, AnnouncementAssumption DEF WriteBody, Written, AttachmentInv, CallInv, Used,
       AnnTypeOK, VideoInv, Files
  <2>7. ASSUME NEW x \in Videos PROVE VideoInv(x)'
    BY <1>12, AnnouncementAssumption DEF WriteBody, Written, VideoInv, Used, AnnTypeOK, Files
  <2>8. QED
    BY <2>1, <2>2, <2>3, <2>4, <2>5, <2>6, <2>7
<1>13. ASSUME NEW v \in Videos, FinishUpload(v) PROVE AnnInv'
  <2>1. AnnTypeOK'
    <3>1. stage \in [Videos -> StageRow]
      BY DEF AnnTypeOK, StageRow
    <3>2. [stage[v] EXCEPT !.locked = FALSE, !.status = "uploaded"] \in StageRow
      BY ZenonT(60), <3>1 DEF StageRow
    <3>3. stage' \in [Videos -> StageRow]
      BY <1>13, <3>1, <3>2 DEF FinishUpload
    <3>4. <<v, "spool">> \in Paths
      BY DEF Paths, Files
    <3>5. QED
      BY ZenonT(60), <1>13, <3>3, <3>4 DEF FinishUpload, AnnTypeOK, StageRow
  <2>2. ASSUME NEW q \in Calls PROVE CallInv(q)'
    BY <1>13, AnnouncementAssumption DEF FinishUpload, CallInv, Used, AnnTypeOK, VideoInv, Files
  <2>3. CallsApart'
    BY <1>13 DEF FinishUpload, CallsApart, CallInv, AnnTypeOK
  <2>4. ASSUME NEW p \in Posts PROVE PostInv(p)'
    BY <1>13 DEF FinishUpload, PostInv, AnnTypeOK
  <2>5. PostsApart'
    BY <1>13 DEF FinishUpload, PostsApart, PostInv, AnnTypeOK
  <2>6. ASSUME NEW f \in Attachments PROVE AttachmentInv(f)'
    BY <1>13, AnnouncementAssumption DEF FinishUpload, AttachmentInv, CallInv, Used, AnnTypeOK,
       VideoInv, Files
  <2>7. ASSUME NEW x \in Videos PROVE VideoInv(x)'
    BY <1>13, AnnouncementAssumption DEF FinishUpload, VideoInv, Used, AnnTypeOK, Files
  <2>8. QED
    BY <2>1, <2>2, <2>3, <2>4, <2>5, <2>6, <2>7
<1>14. ASSUME NEW v \in Videos, Age(v) PROVE AnnInv'
  <2>1. AnnTypeOK'
    BY SMTT(60), <1>14, AnnouncementAssumption DEF Age, AnnTypeOK, Files, Paths
  <2>2. ASSUME NEW q \in Calls PROVE CallInv(q)'
    BY <1>14, AnnouncementAssumption DEF Age, CallInv, Used, AnnTypeOK
  <2>3. CallsApart'
    BY <1>14 DEF Age, CallsApart, CallInv, AnnTypeOK
  <2>4. ASSUME NEW p \in Posts PROVE PostInv(p)'
    BY <1>14 DEF Age, PostInv, AnnTypeOK
  <2>5. PostsApart'
    BY <1>14 DEF Age, PostsApart, PostInv, AnnTypeOK
  <2>6. ASSUME NEW f \in Attachments PROVE AttachmentInv(f)'
    BY <1>14, AnnouncementAssumption DEF Age, AttachmentInv, CallInv, Used, AnnTypeOK
  <2>7. ASSUME NEW x \in Videos PROVE VideoInv(x)'
    BY <1>14, AnnouncementAssumption DEF Age, VideoInv, Used, AnnTypeOK, Files
  <2>8. QED
    BY <2>1, <2>2, <2>3, <2>4, <2>5, <2>6, <2>7
<1>15. ASSUME NEW v \in Videos, SweepStage(v) PROVE AnnInv'
  <2>1. AnnTypeOK'
    BY SMTT(60), <1>15, AnnouncementAssumption DEF SweepStage, Unreferenced, Holds, AnnTypeOK, Files, Paths
  <2>2. ASSUME NEW q \in Calls PROVE CallInv(q)'
    BY <1>15, AnnouncementAssumption DEF SweepStage, Unreferenced, Holds, CallInv, Used, AnnTypeOK
  <2>3. CallsApart'
    BY <1>15 DEF SweepStage, Unreferenced, Holds, CallsApart, CallInv, AnnTypeOK
  <2>4. ASSUME NEW p \in Posts PROVE PostInv(p)'
    BY <1>15 DEF SweepStage, Unreferenced, Holds, PostInv, AnnTypeOK
  <2>5. PostsApart'
    BY <1>15 DEF SweepStage, Unreferenced, Holds, PostsApart, PostInv, AnnTypeOK
  <2>6. ASSUME NEW f \in Attachments PROVE AttachmentInv(f)'
    BY <1>15, AnnouncementAssumption DEF SweepStage, Unreferenced, Holds, AttachmentInv, CallInv,
       Used, AnnTypeOK
  <2>7. ASSUME NEW x \in Videos PROVE VideoInv(x)'
    BY <1>15, AnnouncementAssumption DEF SweepStage, Unreferenced, Holds, VideoInv, Used, AnnTypeOK,
       Files
  <2>8. QED
    BY <2>1, <2>2, <2>3, <2>4, <2>5, <2>6, <2>7
<1>16. ASSUME NEW v \in Videos, NEW failed \in BOOLEAN, AbandonUpload(v, failed) PROVE AnnInv'
  <2>1. AnnTypeOK'
    <3>1. stage \in [Videos -> StageRow]
      BY DEF AnnTypeOK, StageRow
    <3>2. PICK life \in {"live", "expired", "overdue"} :
            life = IF failed /\ stage[v].life = "live" THEN "expired" ELSE stage[v].life
      BY <3>1 DEF StageRow
    <3>3. [stage[v] EXCEPT !.locked = FALSE, !.life = life] \in StageRow
      BY <3>1 DEF StageRow
    <3>4. stage' = [stage EXCEPT ![v] = [stage[v] EXCEPT !.locked = FALSE, !.life = life]]
      BY <1>16, <3>1, <3>2 DEF AbandonUpload, StageRow
    <3>5. stage' \in [Videos -> StageRow]
      BY <3>1, <3>3, <3>4
    <3>6. QED
      BY <1>16, <3>5 DEF AbandonUpload, AnnTypeOK, StageRow
  <2>2. ASSUME NEW q \in Calls PROVE CallInv(q)'
    BY <1>16, AnnouncementAssumption DEF AbandonUpload, CallInv, Used, AnnTypeOK, VideoInv, Files
  <2>3. CallsApart'
    BY <1>16 DEF AbandonUpload, CallsApart, CallInv, AnnTypeOK
  <2>4. ASSUME NEW p \in Posts PROVE PostInv(p)'
    BY <1>16 DEF AbandonUpload, PostInv, AnnTypeOK
  <2>5. PostsApart'
    BY <1>16 DEF AbandonUpload, PostsApart, PostInv, AnnTypeOK
  <2>6. ASSUME NEW f \in Attachments PROVE AttachmentInv(f)'
    BY SMTT(60), <1>16, AnnouncementAssumption DEF AbandonUpload, AttachmentInv, CallInv, Used, AnnTypeOK,
       VideoInv, Files
  <2>7. ASSUME NEW x \in Videos PROVE VideoInv(x)'
    BY <1>16, AnnouncementAssumption DEF AbandonUpload, VideoInv, Used, AnnTypeOK, Files
  <2>8. QED
    BY <2>1, <2>2, <2>3, <2>4, <2>5, <2>6, <2>7
<1>17. ASSUME NEW path \in tombs, Purge(path) PROVE AnnInv'
  <2>1. AnnTypeOK'
    BY SMTT(60), <1>17, AnnouncementAssumption DEF Purge, Paths, AnnTypeOK, Files, VideoInv
  <2>2. ASSUME NEW q \in Calls PROVE CallInv(q)'
    BY <1>17, AnnouncementAssumption DEF Purge, Paths, CallInv, Used, AnnTypeOK, VideoInv, Files
  <2>3. CallsApart'
    BY <1>17 DEF Purge, Paths, CallsApart, CallInv, AnnTypeOK
  <2>4. ASSUME NEW p \in Posts PROVE PostInv(p)'
    BY <1>17 DEF Purge, Paths, PostInv, AnnTypeOK
  <2>5. PostsApart'
    BY <1>17 DEF Purge, Paths, PostsApart, PostInv, AnnTypeOK
  <2>6. ASSUME NEW f \in Attachments PROVE AttachmentInv(f)'
    BY <1>17, AnnouncementAssumption DEF Purge, Paths, AttachmentInv, CallInv, Used, AnnTypeOK,
       VideoInv, Files
  <2>7. ASSUME NEW v \in Videos PROVE VideoInv(v)'
    BY <1>17, AnnouncementAssumption DEF Purge, Paths, VideoInv, Used, AnnTypeOK, Files
  <2>8. QED
    BY <2>1, <2>2, <2>3, <2>4, <2>5, <2>6, <2>7
<1>18. ASSUME NEW r \in Calls, NEW p \in Posts, NEW f \in Attachments,
              NEW content \in {"part", "whole"}, StoreFails(r, p, f, content)
       PROVE  AnnInv'
  <2>1. /\ f \notin row /\ ~Used(f) /\ <<f, "object">> \notin tombs /\ f \notin lost
        /\ \A q \in Calls : call[q].file # f
    BY <1>18 DEF StoreFails, Unstored, AttachmentInv
  <2>2. /\ object' \in [Files -> {"none", "part", "whole"}] /\ lost' = lost \cup {f} /\ f \in lost'
        /\ \A g \in Files : g # f => object'[g] = object[g]
        /\ UNCHANGED <<post, row, spool, tombs, stage, call, unanswered>>
    BY <1>18 DEF StoreFails, AnnTypeOK, Files
  <2>3. AnnTypeOK'
    BY <2>2 DEF AnnTypeOK, Files
  <2>4. ASSUME NEW q \in Calls PROVE CallInv(q)'
    BY <2>1, <2>2 DEF CallInv, Used, AnnTypeOK, Files
  <2>5. CallsApart'
    BY <2>2 DEF CallsApart
  <2>6. ASSUME NEW x \in Posts PROVE PostInv(x)'
    BY <2>2 DEF PostInv
  <2>7. PostsApart'
    BY <2>2 DEF PostsApart
  <2>8. ASSUME NEW x \in Attachments PROVE AttachmentInv(x)'
    BY <2>1, <2>2 DEF AttachmentInv, Used, Files
  <2>9. ASSUME NEW v \in Videos PROVE VideoInv(v)'
    BY <2>2, AnnouncementAssumption DEF VideoInv, Used, Files
  <2>10. QED
    BY <2>3, <2>4, <2>5, <2>6, <2>7, <2>8, <2>9
<1>19. CASE UNCHANGED annVars
  BY <1>19 DEF annVars, AnnTypeOK, AttachmentInv, CallInv, CallsApart, Files, Paths, PostInv,
     PostsApart, Used, VideoInv
<1>20. QED
  BY <1>1, <1>2, <1>3, <1>4, <1>5, <1>6, <1>7, <1>8, <1>9, <1>10, <1>11, <1>12, <1>13, <1>14, <1>15,
     <1>16, <1>17, <1>18, <1>19 DEF AnnNext

LEMMA AnnInvariant == AnnSpec => []AnnInv
<1>1. AnnInit => AnnInv
  BY AnnouncementAssumption DEF AnnInit, AnnInv, AnnTypeOK, CallInv, CallsApart, PostInv, PostsApart, AttachmentInv,
     VideoInv, Used, NoPost, NoStage, Idle, Files, Paths
<1>2. QED
  BY <1>1, StepKeepsAnnInv, PTL DEF AnnSpec

\* What an announcement shows can be read and is no other's, and what the store has is
\* somebody's, but for what dead calls, failed writes and a database that is out leave, and
\* but for the rows of unanswered inserts: whichever of edits, failed calls and their cleanup,
\* uploads, sweeps and the cleanup worker come in which order (upload_local, insert_fs_row,
\* cleanup_attachment_ids, sweep_expired).
THEOREM AnnouncementsStayWhole == AnnSpec => []AnnouncementsHold
<1>1. AnnInv => FilesReadable
  <2> SUFFICES ASSUME AnnInv, NEW p \in Live, NEW f \in Holds(p)
               PROVE  f \in row /\ object[f] = "whole" /\ <<f, "object">> \notin tombs
    BY DEF FilesReadable
  <2>1. p \in Posts /\ f # NoFile /\ (post[p].attachment = f \/ post[p].video = f)
    BY HoldsWhat DEF Live
  <2>2. Used(f)
    BY <2>1 DEF Used
  <2>3. f \in Attachments \/ f \in Videos
    BY <2>1 DEF AnnInv, AnnTypeOK
  <2>4. QED
    BY <2>2, <2>3 DEF AnnInv, AttachmentInv, VideoInv
<1>2. AnnInv => FilesUnshared
  <2> SUFFICES ASSUME AnnInv PROVE FilesUnshared
    OBVIOUS
  <2>1. ASSUME NEW p \in Live, NEW q \in Live, p # q PROVE Holds(p) \cap Holds(q) = {}
    <3> SUFFICES ASSUME NEW f \in Holds(p), f \in Holds(q) PROVE FALSE
      OBVIOUS
    <3>1. /\ p \in Posts /\ q \in Posts /\ f # NoFile
          /\ post[p].attachment = f \/ post[p].video = f
          /\ post[q].attachment = f \/ post[q].video = f
      BY HoldsWhat DEF Live
    <3>2. QED
      BY <2>1, <3>1, AnnouncementAssumption DEF AnnInv, PostsApart, AnnTypeOK
  <2>2. ASSUME NEW v \in Videos
        PROVE  stage[v].status = "claimed" <=> \E p \in Live : post[p].video = v
    <3>1. Used(v) <=> \E p \in Live : post[p].video = v
      BY AnnouncementAssumption DEF AnnInv, PostInv, AnnTypeOK, Live, Used
    <3>2. QED
      BY <3>1 DEF AnnInv, VideoInv
  <2>3. QED
    BY <2>1, <2>2 DEF FilesUnshared
<1>3. AnnInv => NothingLost
  <2> SUFFICES ASSUME AnnInv PROVE NothingLost
    OBVIOUS
  <2>1. ASSUME NEW f \in Attachments PROVE Unreferenced(f) <=> ~Used(f)
    BY HoldsWhat, AnnouncementAssumption DEF Unreferenced, Used
  <2>2. QED
    BY <2>1 DEF AnnInv, NothingLost, AttachmentInv, VideoInv
<1>4. AnnInv => AnnouncementsHold
  BY <1>1, <1>2, <1>3 DEF AnnouncementsHold, AnnInv
<1>5. QED
  BY <1>4, AnnInvariant, PTL


-----------------------------------------------------------------------------
(* Surveys *)

SurveyRow == [status : {"DRAFT", "PUBLISHED", "CLOSED"}, kind : Kinds, targets : SUBSET Units,
              opens : Nat, closes : Nat]
Assignment == [unit : Units \cup {"none"}, done : BOOLEAN]
AuditRow == [opened : Nat, failed : Nat, last : {"none", "OPENED", "CLOSED", "FAILED"}]
ScanRow == [at : {"idle", "page", "failing"}, cursor : SurveyIds \cup {0},
            page : SUBSET SurveyIds, full : BOOLEAN]

\* Who has answered for a department.
AnsweredFor(s, u) == {e \in Assigned(s) : assigned[s][e].done /\ assigned[s][e].unit = u}

SurveyTypes ==
  /\ survey \in [SurveyIds -> SurveyRow]
  /\ assigned \in [SurveyIds -> [Respondents -> Assignment]]
  /\ responses \in [SurveyIds -> [Units -> Nat]]
  /\ auditLog \in [SurveyIds -> AuditRow]
  /\ staff \in [Respondents -> [unit : Units, eligible : BOOLEAN]]
  /\ liveUnits \subseteq Units /\ tick \in 0..LastTick /\ stuck \subseteq SurveyIds
  /\ scan \in [SurveyWorkers -> ScanRow]
  /\ \A w \in SurveyWorkers : scan[w].at = "failing" => scan[w].page # {}

Reaches(s) ==
  /\ Assigned(s) = {} <=> survey[s].status = "DRAFT"
  /\ \A e \in Assigned(s) : survey[s].kind = "ALL" \/ assigned[s][e].unit \in survey[s].targets

Counts(s) ==
  \A u \in Units : IsFiniteSet(AnsweredFor(s, u)) /\ responses[s][u] = Cardinality(AnsweredFor(s, u))

NotBefore(s) == tick < survey[s].opens => Openings(s) = 0 /\ \A u \in Units : responses[s][u] = 0

\* A failure is reported again only once the survey has opened since.
Reported(s) ==
  /\ survey[s].status = "DRAFT" => Openings(s) = 0 /\ auditLog[s].failed = 0
  /\ Openings(s) <= 1 /\ auditLog[s].failed <= Openings(s) + 1
  /\ survey[s].status # "CLOSED" /\ auditLog[s].last # "FAILED" => auditLog[s].failed <= Openings(s)

SurveyInv(s) == Reaches(s) /\ Counts(s) /\ NotBefore(s) /\ Reported(s)

SurvInv == SurveyTypes /\ \A s \in SurveyIds : SurveyInv(s)

\* A survey whose rows a step leaves alone, while time does not run backwards.
LEMMA SurveyStays ==
  ASSUME SurvInv, NEW s \in SurveyIds, survey'[s] = survey[s], assigned'[s] = assigned[s],
         responses'[s] = responses[s], auditLog'[s] = auditLog[s], tick' \in Nat, tick <= tick'
  PROVE  SurveyInv(s)'
<1>1. Assigned(s)' = Assigned(s) /\ Openings(s)' = Openings(s) BY DEF Assigned, Openings
<1>2. \A u \in Units : AnsweredFor(s, u)' = AnsweredFor(s, u) BY <1>1 DEF AnsweredFor
<1>3. SurveyInv(s) BY DEF SurvInv
<1>4. tick \in Nat /\ survey[s].opens \in Nat BY DEF SurvInv, SurveyTypes, SurveyRow
<1>5. Reaches(s)' BY <1>1, <1>3 DEF SurveyInv, Reaches
<1>6. Counts(s)' BY <1>2, <1>3 DEF SurveyInv, Counts
<1>7. NotBefore(s)' BY <1>1, <1>3, <1>4 DEF SurveyInv, NotBefore
<1>8. Reported(s)' BY <1>1, <1>3 DEF SurveyInv, Reported
<1> QED BY <1>5, <1>6, <1>7, <1>8 DEF SurveyInv

\* Nobody has answered a draft, and it has not opened.
LEMMA DraftIsBlank ==
  ASSUME SurvInv, NEW s \in SurveyIds, survey[s].status = "DRAFT"
  PROVE  /\ Assigned(s) = {} /\ Openings(s) = 0 /\ auditLog[s].failed = 0
         /\ \A u \in Units : responses[s][u] = 0
<1>1. SurveyInv(s) BY DEF SurvInv
<1>2. Assigned(s) = {} BY <1>1 DEF SurveyInv, Reaches
<1>3. \A u \in Units : AnsweredFor(s, u) = {} BY <1>2 DEF AnsweredFor
<1>4. Cardinality({}) = 0 BY FS_EmptySet
<1>5. \A u \in Units : responses[s][u] = 0 BY <1>1, <1>3, <1>4 DEF SurveyInv, Counts
<1> QED BY <1>1, <1>2, <1>5 DEF SurveyInv, Reported

LEMMA SaveSurveyKeeps ==
  ASSUME SurvInv, NEW s \in SurveyIds, NEW targets \in Audiences, NEW schedule \in Schedules,
         SaveSurvey(s, targets, schedule)
  PROVE  SurvInv'
<1> DEFINE line == [status |-> "DRAFT", targets |-> targets,
                   kind |-> IF targets = {} THEN "ALL" ELSE "DEPARTMENT",
                   opens |-> schedule.opens, closes |-> schedule.closes]
<1>1. /\ survey[s].status = "DRAFT" /\ targets \subseteq liveUnits /\ survey' = [survey EXCEPT ![s] = line]
      /\ UNCHANGED <<assigned, responses, auditLog, staff, liveUnits, tick, scan, stuck>>
  BY DEF SaveSurvey
<1>2. schedule.opens \in Nat /\ schedule.closes \in Nat BY SurveyAssumption
<1>3. line \in SurveyRow /\ line.status = "DRAFT"
  BY <1>1, <1>2 DEF SurveyRow, Kinds, SurvInv, SurveyTypes
<1> HIDE DEF line
<1>4. /\ survey' \in [SurveyIds -> SurveyRow] /\ survey'[s] = line
      /\ \A o \in SurveyIds \ {s} : survey'[o] = survey[o]
  BY <1>1, <1>3 DEF SurvInv, SurveyTypes
<1>5. SurveyTypes' BY <1>1, <1>4 DEF SurvInv, SurveyTypes
<1>6. \A o \in SurveyIds \ {s} : SurveyInv(o)'
  BY <1>1, <1>4, SurveyStays DEF SurvInv, SurveyTypes
<1>7. SurveyInv(s)'
  <2>1. Assigned(s)' = {} /\ Openings(s)' = 0 /\ auditLog'[s].failed = 0
        /\ \A u \in Units : responses'[s][u] = 0
    BY <1>1, DraftIsBlank DEF Assigned, Openings
  <2>2. Reaches(s)' BY <1>3, <1>4, <2>1 DEF Reaches
  <2>3. \A u \in Units : AnsweredFor(s, u)' = {} BY <2>1 DEF AnsweredFor
  <2>4. Counts(s)' BY <2>1, <2>3, FS_EmptySet DEF Counts
  <2>5. NotBefore(s)' BY <2>1 DEF NotBefore
  <2>6. Reported(s)' BY <2>1 DEF Reported
  <2> QED BY <2>2, <2>4, <2>5, <2>6 DEF SurveyInv
<1> QED BY <1>5, <1>6, <1>7 DEF SurvInv

LEMMA PublishSurveyKeeps ==
  ASSUME SurvInv, NEW s \in SurveyIds, PublishSurvey(s)
  PROVE  SurvInv'
<1> DEFINE people == {e \in Respondents : Matches(survey[s], e)}
           rows == [e \in Respondents |->
                      IF e \in people THEN [unit |-> staff[e].unit, done |-> FALSE] ELSE NoAssignment]
           line == [survey[s] EXCEPT !.status = "PUBLISHED"]
<1>1. /\ survey[s].status = "DRAFT" /\ ScopeStands(survey[s]) /\ people # {}
      /\ assigned' = [assigned EXCEPT ![s] = rows]
      /\ survey' = [survey EXCEPT ![s] = line]
      /\ UNCHANGED <<responses, auditLog, staff, liveUnits, tick, scan, stuck>>
  BY DEF PublishSurvey, SurvInv, SurveyTypes
<1>2. /\ line \in SurveyRow /\ line.status = "PUBLISHED" /\ line.kind = survey[s].kind
      /\ line.targets = survey[s].targets /\ line.opens = survey[s].opens
  BY ZenonT(60) DEF SurvInv, SurveyTypes, SurveyRow
<1>3. /\ \A e \in Respondents : rows[e] \in Assignment /\ ~rows[e].done
      /\ \A e \in Respondents : e \in people => rows[e].unit = staff[e].unit /\ rows[e].unit # "none"
      /\ \A e \in Respondents : e \notin people => rows[e].unit = "none"
  BY SurveyAssumption DEF SurvInv, SurveyTypes, Assignment, NoAssignment
<1>4. rows \in [Respondents -> Assignment] BY <1>3
<1>5. /\ survey' \in [SurveyIds -> SurveyRow] /\ survey'[s] = line
      /\ \A o \in SurveyIds \ {s} : survey'[o] = survey[o]
      /\ assigned' \in [SurveyIds -> [Respondents -> Assignment]] /\ assigned'[s] = rows
      /\ \A o \in SurveyIds \ {s} : assigned'[o] = assigned[o]
  <2> HIDE DEF line, rows
  <2> QED BY <1>1, <1>2, <1>4 DEF SurvInv, SurveyTypes
<1>6. \A e \in people : survey[s].kind = "ALL" \/ staff[e].unit \in survey[s].targets
  BY <1>1 DEF ScopeStands, Matches
<1>7. people \subseteq Respondents OBVIOUS
<1> HIDE DEF people, rows, line
<1>8. SurveyTypes' BY <1>1, <1>5 DEF SurvInv, SurveyTypes
<1>9. \A o \in SurveyIds \ {s} : SurveyInv(o)'
  BY SMTT(60), <1>1, <1>5, SurveyStays DEF SurvInv, SurveyTypes
<1>10. SurveyInv(s)'
  <2>1. Openings(s)' = 0 /\ auditLog'[s].failed = 0 /\ \A u \in Units : responses'[s][u] = 0
    BY <1>1, DraftIsBlank DEF Openings
  <2>2. Assigned(s)' = people BY <1>3, <1>5, <1>7 DEF Assigned
  <2>3. Reaches(s)' BY <1>1, <1>2, <1>3, <1>5, <1>6, <1>7, <2>2 DEF Reaches
  <2>4. \A u \in Units : AnsweredFor(s, u)' = {} BY <1>3, <1>5, <1>7, <2>2 DEF AnsweredFor
  <2>5. Counts(s)' BY <2>1, <2>4, FS_EmptySet DEF Counts
  <2>6. NotBefore(s)' BY <2>1 DEF NotBefore
  <2>7. Reported(s)' BY <2>1 DEF Reported
  <2> QED BY <2>3, <2>5, <2>6, <2>7 DEF SurveyInv
<1> QED BY <1>8, <1>9, <1>10 DEF SurvInv

\* What a transition writes to the audit log.
LEMMA LoggedIs ==
  ASSUME SurvInv, NEW s \in SurveyIds, NEW what \in {"OPENED", "CLOSED", "FAILED"}
  PROVE  /\ Logged(s, what) \in [SurveyIds -> AuditRow]
         /\ Logged(s, what)[s].last = what
         /\ Logged(s, what)[s].opened = IF what = "OPENED" THEN Openings(s) + 1 ELSE Openings(s)
         /\ Logged(s, what)[s].failed = IF what = "FAILED" THEN auditLog[s].failed + 1 ELSE auditLog[s].failed
         /\ \A o \in SurveyIds \ {s} : Logged(s, what)[o] = auditLog[o]
<1> DEFINE opened == IF what = "OPENED" THEN auditLog[s].opened + 1 ELSE auditLog[s].opened
           failed == IF what = "FAILED" THEN auditLog[s].failed + 1 ELSE auditLog[s].failed
           line == [auditLog[s] EXCEPT !.last = what, !.opened = opened, !.failed = failed]
<1>1. auditLog[s] \in AuditRow BY DEF SurvInv, SurveyTypes
<1>2. opened \in Nat /\ failed \in Nat BY <1>1 DEF AuditRow
<1>3. Logged(s, what) = [auditLog EXCEPT ![s] = line] BY DEF Logged, SurvInv, SurveyTypes
<1>4. opened = IF what = "OPENED" THEN Openings(s) + 1 ELSE Openings(s) BY DEF Openings
<1>5. failed = IF what = "FAILED" THEN auditLog[s].failed + 1 ELSE auditLog[s].failed OBVIOUS
<1> HIDE DEF opened, failed
<1>6. line \in AuditRow /\ line.opened = opened /\ line.failed = failed /\ line.last = what
  BY <1>1, <1>2 DEF AuditRow
<1> HIDE DEF line
<1> QED BY <1>3, <1>4, <1>5, <1>6 DEF SurvInv, SurveyTypes

LEMMA OpenSurveyKeeps ==
  ASSUME SurvInv, NEW s \in SurveyIds, OpenSurvey(s)
  PROVE  SurvInv'
<1> DEFINE line == [survey[s] EXCEPT !.opens = tick]
<1>1. /\ survey[s].status = "PUBLISHED" /\ survey[s].opens > tick
      /\ survey' = [survey EXCEPT ![s] = line] /\ auditLog' = Logged(s, "OPENED")
      /\ UNCHANGED <<assigned, responses, staff, liveUnits, tick, scan, stuck>>
  BY DEF OpenSurvey, SurvInv, SurveyTypes
<1>2. tick \in Nat /\ survey[s] \in SurveyRow BY DEF SurvInv, SurveyTypes
<1>3. /\ line \in SurveyRow /\ line.status = "PUBLISHED" /\ line.kind = survey[s].kind
      /\ line.targets = survey[s].targets /\ line.opens = tick
  BY <1>1, <1>2 DEF SurveyRow
<1> HIDE DEF line
<1>4. /\ survey' \in [SurveyIds -> SurveyRow] /\ survey'[s] = line
      /\ \A o \in SurveyIds \ {s} : survey'[o] = survey[o]
  BY <1>1, <1>3 DEF SurvInv, SurveyTypes
<1>5. /\ auditLog' \in [SurveyIds -> AuditRow] /\ auditLog'[s].last = "OPENED"
      /\ auditLog'[s].opened = Openings(s) + 1 /\ auditLog'[s].failed = auditLog[s].failed
      /\ \A o \in SurveyIds \ {s} : auditLog'[o] = auditLog[o]
  BY <1>1, LoggedIs
<1>6. SurveyTypes' BY <1>1, <1>4, <1>5 DEF SurvInv, SurveyTypes
<1>7. \A o \in SurveyIds \ {s} : SurveyInv(o)'
  BY <1>1, <1>2, <1>4, <1>5, SurveyStays
<1>8. SurveyInv(s)'
  <2>1. SurveyInv(s) /\ survey[s].opens \in Nat BY <1>2 DEF SurvInv, SurveyRow
  <2>2. Openings(s) = 0 BY <1>1, <1>2, <2>1 DEF SurveyInv, NotBefore
  <2>3. Assigned(s)' = Assigned(s) BY <1>1 DEF Assigned
  <2>4. \A u \in Units : AnsweredFor(s, u)' = AnsweredFor(s, u) BY <1>1, <2>3 DEF AnsweredFor
  <2>5. Reaches(s)' BY <1>1, <1>3, <1>4, <2>1, <2>3 DEF SurveyInv, Reaches
  <2>6. Counts(s)' BY <1>1, <2>1, <2>4 DEF SurveyInv, Counts
  <2>7. NotBefore(s)' BY <1>1, <1>2, <1>3, <1>4 DEF NotBefore
  <2>8. auditLog[s].failed \in Nat /\ auditLog[s].failed <= 1
    BY <2>1, <2>2 DEF SurvInv, SurveyTypes, AuditRow, SurveyInv, Reported
  <2>9. Reported(s)' BY <1>3, <1>4, <1>5, <2>2, <2>8 DEF Reported, Openings
  <2> QED BY <2>5, <2>6, <2>7, <2>9 DEF SurveyInv
<1> QED BY <1>6, <1>7, <1>8 DEF SurvInv

\* A survey closes, in the sweep or by hand; the audit log says so or not.
LEMMA Closing ==
  ASSUME SurvInv, NEW s \in SurveyIds, survey[s].status = "PUBLISHED",
         survey' = [survey EXCEPT ![s].status = "CLOSED"],
         auditLog' = auditLog \/ auditLog' = Logged(s, "CLOSED"),
         UNCHANGED <<assigned, responses, tick>>
  PROVE  /\ survey' \in [SurveyIds -> SurveyRow] /\ auditLog' \in [SurveyIds -> AuditRow]
         /\ \A o \in SurveyIds : SurveyInv(o)'
<1> DEFINE line == [survey[s] EXCEPT !.status = "CLOSED"]
<1>1. survey' = [survey EXCEPT ![s] = line] BY DEF SurvInv, SurveyTypes
<1>2. tick \in Nat /\ survey[s] \in SurveyRow BY DEF SurvInv, SurveyTypes
<1>3. /\ line \in SurveyRow /\ line.status = "CLOSED" /\ line.kind = survey[s].kind
      /\ line.targets = survey[s].targets /\ line.opens = survey[s].opens
  BY <1>2 DEF SurveyRow
<1> HIDE DEF line
<1>4. /\ survey' \in [SurveyIds -> SurveyRow] /\ survey'[s] = line
      /\ \A o \in SurveyIds \ {s} : survey'[o] = survey[o]
  BY ZenonT(60), <1>1, <1>3 DEF SurvInv, SurveyTypes
<1>5. /\ auditLog' \in [SurveyIds -> AuditRow]
      /\ auditLog'[s].opened = Openings(s) /\ auditLog'[s].failed = auditLog[s].failed
      /\ \A o \in SurveyIds \ {s} : auditLog'[o] = auditLog[o]
  <2>1. CASE auditLog' = auditLog BY <2>1 DEF SurvInv, SurveyTypes, Openings
  <2>2. CASE auditLog' = Logged(s, "CLOSED") BY <2>2, LoggedIs
  <2> QED BY <2>1, <2>2
<1>6. \A o \in SurveyIds \ {s} : SurveyInv(o)'
  BY <1>2, <1>4, <1>5, SurveyStays
<1>7. SurveyInv(s)'
  <2>1. SurveyInv(s) BY DEF SurvInv
  <2>2. Assigned(s)' = Assigned(s) /\ Openings(s)' = Openings(s) BY <1>5 DEF Assigned, Openings
  <2>3. \A u \in Units : AnsweredFor(s, u)' = AnsweredFor(s, u) BY <2>2 DEF AnsweredFor
  <2>4. Reaches(s)' BY <1>3, <1>4, <2>1, <2>2 DEF SurveyInv, Reaches
  <2>5. Counts(s)' BY <2>1, <2>3 DEF SurveyInv, Counts
  <2>6. NotBefore(s)' BY <1>3, <1>4, <2>1, <2>2 DEF SurveyInv, NotBefore
  <2>7. Reported(s)' BY <1>3, <1>4, <1>5, <2>1, <2>2 DEF SurveyInv, Reported
  <2> QED BY <2>4, <2>5, <2>6, <2>7 DEF SurveyInv
<1> QED BY <1>4, <1>5, <1>6, <1>7

LEMMA CloseSurveyKeeps ==
  ASSUME SurvInv, NEW s \in SurveyIds, CloseSurvey(s)
  PROVE  SurvInv'
<1>1. /\ survey[s].status = "PUBLISHED" /\ survey' = [survey EXCEPT ![s].status = "CLOSED"]
      /\ auditLog' = auditLog
      /\ UNCHANGED <<assigned, responses, staff, liveUnits, tick, scan, stuck>>
  BY DEF CloseSurvey
<1>2. /\ survey' \in [SurveyIds -> SurveyRow] /\ auditLog' \in [SurveyIds -> AuditRow]
      /\ \A o \in SurveyIds : SurveyInv(o)'
  BY <1>1, Closing
<1>3. SurveyTypes' BY <1>1, <1>2 DEF SurvInv, SurveyTypes
<1> QED BY <1>2, <1>3 DEF SurvInv

LEMMA SubmitSurveyKeeps ==
  ASSUME SurvInv, NEW s \in SurveyIds, NEW e \in Respondents, SubmitSurvey(s, e)
  PROVE  SurvInv'
<1> DEFINE unit == Cohort(s, e)
           mine == [assigned[s][e] EXCEPT !.done = TRUE]
           rows == [assigned[s] EXCEPT ![e] = mine]
           answers == [responses[s] EXCEPT ![unit] = @ + 1]
<1>1. /\ survey[s].status = "PUBLISHED" /\ survey[s].opens <= tick
      /\ e \in Assigned(s) /\ ~assigned[s][e].done
      /\ UNCHANGED <<survey, auditLog, staff, liveUnits, tick, scan, stuck>>
  BY DEF SubmitSurvey
<1>2. /\ responses' = [responses EXCEPT ![s] = answers]
      /\ assigned' = [assigned EXCEPT ![s] = rows]
  BY DEF SubmitSurvey, SurvInv, SurveyTypes
<1>3. /\ assigned[s] \in [Respondents -> Assignment] /\ assigned[s][e] \in Assignment
      /\ responses[s] \in [Units -> Nat]
  BY DEF SurvInv, SurveyTypes
<1>4. unit \in Units /\ unit = assigned[s][e].unit
  BY <1>1, <1>3 DEF Assigned, Cohort, Assignment
<1>5. mine \in Assignment /\ mine.unit = unit /\ mine.done BY <1>3, <1>4 DEF Assignment
<1> HIDE DEF mine
<1>6. /\ rows \in [Respondents -> Assignment] /\ rows[e] = mine
      /\ \A x \in Respondents \ {e} : rows[x] = assigned[s][x]
  BY <1>3, <1>5
<1>7. /\ answers \in [Units -> Nat] /\ answers[unit] = responses[s][unit] + 1
      /\ \A u \in Units \ {unit} : answers[u] = responses[s][u]
  BY <1>3, <1>4
<1> HIDE DEF rows, answers, unit
<1>8. /\ responses' \in [SurveyIds -> [Units -> Nat]] /\ responses'[s] = answers
      /\ assigned' \in [SurveyIds -> [Respondents -> Assignment]] /\ assigned'[s] = rows
      /\ \A o \in SurveyIds \ {s} : responses'[o] = responses[o] /\ assigned'[o] = assigned[o]
  BY <1>2, <1>6, <1>7 DEF SurvInv, SurveyTypes
<1>9. SurveyTypes' BY <1>1, <1>8 DEF SurvInv, SurveyTypes
<1>10. \A o \in SurveyIds \ {s} : SurveyInv(o)'
  BY <1>1, <1>8, SurveyStays DEF SurvInv, SurveyTypes
<1>11. SurveyInv(s)'
  <2>1. SurveyInv(s) /\ tick \in Nat /\ survey[s].opens \in Nat
    BY DEF SurvInv, SurveyTypes, SurveyRow
  <2>2. \A x \in Respondents : rows[x].unit = assigned[s][x].unit
    BY <1>4, <1>5, <1>6
  <2>3. Assigned(s)' = Assigned(s) BY <1>8, <2>2 DEF Assigned
  <2>4. \A u \in Units \ {unit} : AnsweredFor(s, u)' = AnsweredFor(s, u)
    BY <1>1, <1>4, <1>5, <1>6, <1>8, <2>3 DEF AnsweredFor, Assigned
  <2>5. \A u \in Units : u = unit => AnsweredFor(s, u)' = AnsweredFor(s, u) \cup {e} /\ e \notin AnsweredFor(s, u)
    BY <1>1, <1>4, <1>5, <1>6, <1>8, <2>3 DEF AnsweredFor, Assigned
  <2>6. ASSUME NEW u \in Units
        PROVE  IsFiniteSet(AnsweredFor(s, u)') /\ responses'[s][u] = Cardinality(AnsweredFor(s, u)')
    <3>1. /\ IsFiniteSet(AnsweredFor(s, u)) /\ responses[s][u] = Cardinality(AnsweredFor(s, u))
          /\ responses[s][u] \in Nat
      BY <1>3, <2>1 DEF SurveyInv, Counts
    <3>2. CASE u = unit
      <4>1. AnsweredFor(s, u)' = AnsweredFor(s, u) \cup {e} /\ e \notin AnsweredFor(s, u) BY <2>5, <3>2
      <4>2. responses'[s][u] = responses[s][u] + 1 BY <1>7, <1>8, <3>2
      <4> QED BY <3>1, <4>1, <4>2, FS_AddElement
    <3>3. CASE u # unit
      <4>1. AnsweredFor(s, u)' = AnsweredFor(s, u) BY <2>4, <3>3
      <4>2. responses'[s][u] = responses[s][u] BY <1>7, <1>8, <3>3
      <4> QED BY <3>1, <4>1, <4>2
    <3> QED BY <3>2, <3>3
  <2>7. Reaches(s)' BY <1>1, <2>1, <2>2, <2>3, <1>8 DEF SurveyInv, Reaches, Assigned
  <2>8. Counts(s)' BY <2>6 DEF Counts
  <2>9. NotBefore(s)' BY <1>1, <2>1 DEF NotBefore
  <2>10. Reported(s)' BY <1>1, <2>1 DEF SurveyInv, Reported, Openings
  <2> QED BY <2>7, <2>8, <2>9, <2>10 DEF SurveyInv
<1> QED BY <1>9, <1>10, <1>11 DEF SurvInv

\* A step of the worker that leaves the surveys alone.
LEMMA OnlyScans ==
  ASSUME SurvInv, scan' \in [SurveyWorkers -> ScanRow],
         \A w \in SurveyWorkers : scan'[w].at = "failing" => scan'[w].page # {},
         UNCHANGED <<survey, assigned, responses, auditLog, staff, liveUnits, tick, stuck>>
  PROVE  SurvInv'
<1>1. SurveyTypes' BY DEF SurvInv, SurveyTypes
<1>2. tick \in Nat BY DEF SurvInv, SurveyTypes
<1>3. \A s \in SurveyIds : SurveyInv(s)' BY <1>2, SurveyStays
<1> QED BY <1>1, <1>3 DEF SurvInv

LEMMA FetchPageKeeps ==
  ASSUME SurvInv, NEW w \in SurveyWorkers, FetchPage(w)
  PROVE  SurvInv'
<1> DEFINE page == PageAfter(w)
           line == IF page = {} THEN NoScan ELSE
                    [at |-> "page", cursor |-> Max(page), page |-> page, full |-> Cardinality(page) = PageSize]
<1>1. /\ scan' = [scan EXCEPT ![w] = line]
      /\ UNCHANGED <<survey, assigned, responses, auditLog, staff, liveUnits, tick, stuck>>
  BY DEF FetchPage
<1>2. page \subseteq SurveyIds BY DEF PageAfter, Firsts, Published
<1>3. (Cardinality(page) = PageSize) \in BOOLEAN OBVIOUS
<1> HIDE DEF page
<1>4. page # {} => Max(page) \in SurveyIds
  <2> SUFFICES ASSUME page # {} PROVE Max(page) \in page BY <1>2
  <2>1. page \subseteq Nat /\ IsFiniteSet(page) BY <1>2, SurveyAssumption, FS_Subset
  <2>2. PICK n \in page : \A m \in page : m <= n BY <2>1, GreatestNatural
  <2>3. \A m \in page : n >= m BY <2>1, <2>2
  <2> QED BY <2>3 DEF Max
<1>5. line \in ScanRow /\ line.at # "failing"
  <2>1. CASE page = {} BY <2>1 DEF NoScan, ScanRow
  <2>2. CASE page # {} BY <1>2, <1>3, <1>4, <2>2 DEF ScanRow
  <2> QED BY <2>1, <2>2
<1> HIDE DEF line
<1>6. scan' \in [SurveyWorkers -> ScanRow]
      /\ \A x \in SurveyWorkers : scan'[x].at = "failing" => scan'[x].page # {}
  BY <1>1, <1>5 DEF SurvInv, SurveyTypes
<1> QED BY <1>1, <1>6, OnlyScans

LEMMA EndSweepKeeps ==
  ASSUME SurvInv, NEW w \in SurveyWorkers, EndSweep(w)
  PROVE  SurvInv'
<1>1. /\ scan' = [scan EXCEPT ![w] = NoScan]
      /\ UNCHANGED <<survey, assigned, responses, auditLog, staff, liveUnits, tick, stuck>>
  BY DEF EndSweep
<1>2. NoScan \in ScanRow /\ NoScan.at # "failing" BY DEF NoScan, ScanRow
<1>3. scan' \in [SurveyWorkers -> ScanRow]
      /\ \A x \in SurveyWorkers : scan'[x].at = "failing" => scan'[x].page # {}
  BY <1>1, <1>2 DEF SurvInv, SurveyTypes
<1> QED BY <1>1, <1>3, OnlyScans

LEMMA ProcessFailsKeeps ==
  ASSUME SurvInv, NEW w \in SurveyWorkers, ProcessFails(w)
  PROVE  SurvInv'
<1> DEFINE line == [scan[w] EXCEPT !.at = "failing"]
<1>1. /\ scan[w].page # {} /\ scan' = [scan EXCEPT ![w] = line]
      /\ UNCHANGED <<survey, assigned, responses, auditLog, staff, liveUnits, tick, stuck>>
  BY DEF ProcessFails, SurvInv, SurveyTypes
<1>2. line \in ScanRow /\ line.page # {} BY ZenonT(60), <1>1 DEF SurvInv, SurveyTypes, ScanRow
<1> HIDE DEF line
<1>3. scan' \in [SurveyWorkers -> ScanRow]
      /\ \A x \in SurveyWorkers : scan'[x].at = "failing" => scan'[x].page # {}
  BY <1>1, <1>2 DEF SurvInv, SurveyTypes
<1> QED BY <1>1, <1>3, OnlyScans

\* The survey a worker looks at is a survey, and the sweep goes on to the rest of the page.
LEMMA Passing ==
  ASSUME SurvInv, NEW w \in SurveyWorkers, scan[w].page # {}
  PROVE  /\ Next1(w) \in SurveyIds /\ Passed(w) \in [SurveyWorkers -> ScanRow]
         /\ \A x \in SurveyWorkers : Passed(w)[x].at = "failing" => Passed(w)[x].page # {}
<1>1. scan[w] \in ScanRow BY DEF SurvInv, SurveyTypes
<1>2. scan[w].page \subseteq SurveyIds BY <1>1 DEF ScanRow
<1>3. Next1(w) \in scan[w].page
  <2>1. scan[w].page \subseteq Nat BY <1>2, SurveyAssumption
  <2>2. \E n \in scan[w].page : \A m \in scan[w].page : n <= m BY <2>1, LeastNatural
  <2> QED BY <2>2 DEF Next1, Min
<1> DEFINE line == [scan[w] EXCEPT !.page = @ \ {Next1(w)}, !.at = "page"]
<1>4. Passed(w) = [scan EXCEPT ![w] = line] BY DEF Passed, SurvInv, SurveyTypes
<1>5. line \in ScanRow /\ line.at = "page" BY <1>1, <1>2 DEF ScanRow
<1> HIDE DEF line
<1> QED BY <1>2, <1>3, <1>4, <1>5 DEF SurvInv, SurveyTypes

\* What the sweep finds to do.
LEMMA DueIs ==
  ASSUME NEW s \in SurveyIds
  PROVE  \/ DueAction(s) = "none"
         \/ DueAction(s) = "CLOSED" /\ survey[s].status = "PUBLISHED"
         \/ /\ DueAction(s) = "OPENED" /\ survey[s].status = "PUBLISHED"
            /\ Openings(s) = 0 /\ survey[s].opens <= tick
<1>1. CASE survey[s].status # "PUBLISHED" BY <1>1 DEF DueAction
<1>2. CASE survey[s].status = "PUBLISHED" /\ survey[s].closes <= tick BY <1>2 DEF DueAction
<1>3. CASE survey[s].status = "PUBLISHED" /\ ~(survey[s].closes <= tick)
  BY <1>3 DEF DueAction
<1> QED BY <1>1, <1>2, <1>3

\* A survey that its schedule opens.
LEMMA Opening ==
  ASSUME SurvInv, NEW s \in SurveyIds, survey[s].status = "PUBLISHED",
         Openings(s) = 0, survey[s].opens <= tick,
         auditLog' = Logged(s, "OPENED"), UNCHANGED <<survey, assigned, responses, tick>>
  PROVE  auditLog' \in [SurveyIds -> AuditRow] /\ \A o \in SurveyIds : SurveyInv(o)'
<1>1. /\ auditLog' \in [SurveyIds -> AuditRow] /\ auditLog'[s].last = "OPENED"
      /\ auditLog'[s].opened = 1 /\ auditLog'[s].failed = auditLog[s].failed
      /\ \A o \in SurveyIds \ {s} : auditLog'[o] = auditLog[o]
  BY LoggedIs
<1>2. SurveyInv(s) /\ tick \in Nat /\ survey[s].opens \in Nat /\ auditLog[s].failed \in Nat
  BY DEF SurvInv, SurveyRow, SurveyTypes, AuditRow
<1>3. \A o \in SurveyIds \ {s} : SurveyInv(o)' BY <1>1, <1>2, SurveyStays
<1>4. Assigned(s)' = Assigned(s) BY DEF Assigned
<1>5. \A u \in Units : AnsweredFor(s, u)' = AnsweredFor(s, u) BY <1>4 DEF AnsweredFor
<1>6. Reaches(s)' BY <1>2, <1>4 DEF SurveyInv, Reaches
<1>7. Counts(s)' BY <1>2, <1>5 DEF SurveyInv, Counts
<1>8. NotBefore(s)' BY <1>2 DEF NotBefore
<1>9. Reported(s)' BY <1>1, <1>2 DEF SurveyInv, Reported, Openings
<1>10. SurveyInv(s)' BY <1>6, <1>7, <1>8, <1>9 DEF SurveyInv
<1> QED BY <1>1, <1>3, <1>10

\* What the sweep does to a survey.
LEMMA Processing ==
  ASSUME SurvInv, NEW s \in SurveyIds,
         survey' = [survey EXCEPT ![s].status = IF DueAction(s) = "CLOSED" THEN "CLOSED" ELSE @],
         auditLog' = IF DueAction(s) = "none" THEN auditLog ELSE Logged(s, DueAction(s)),
         UNCHANGED <<assigned, responses, tick>>
  PROVE  /\ survey' \in [SurveyIds -> SurveyRow] /\ auditLog' \in [SurveyIds -> AuditRow]
         /\ \A o \in SurveyIds : SurveyInv(o)'
<1>1. survey \in [SurveyIds -> SurveyRow] /\ auditLog \in [SurveyIds -> AuditRow] /\ tick \in Nat
  BY DEF SurvInv, SurveyTypes
<1>2. DueAction(s) # "CLOSED" => survey' = survey BY <1>1 DEF SurveyRow
<1>3. CASE DueAction(s) = "none"
  <2>1. survey' = survey /\ auditLog' = auditLog BY <1>2, <1>3
  <2> QED BY <1>1, <2>1, SurveyStays
<1>4. CASE DueAction(s) = "CLOSED" /\ survey[s].status = "PUBLISHED"
  <2>1. survey' = [survey EXCEPT ![s].status = "CLOSED"] /\ auditLog' = Logged(s, "CLOSED")
    BY <1>4
  <2> QED BY <1>4, <2>1, Closing
<1>5. CASE /\ DueAction(s) = "OPENED" /\ survey[s].status = "PUBLISHED"
           /\ Openings(s) = 0 /\ survey[s].opens <= tick
  <2>1. survey' = survey /\ auditLog' = Logged(s, "OPENED") BY <1>2, <1>5
  <2> QED BY <1>1, <1>5, <2>1, Opening
<1> QED BY <1>3, <1>4, <1>5, DueIs

LEMMA ProcessSurveyKeeps ==
  ASSUME SurvInv, NEW w \in SurveyWorkers, ProcessSurvey(w)
  PROVE  SurvInv'
<1>1. PICK s \in SurveyIds : s = Next1(w) BY Passing DEF ProcessSurvey
<1>2. /\ scan[w].page # {} /\ scan' = Passed(w)
      /\ survey' = [survey EXCEPT ![s].status = IF DueAction(s) = "CLOSED" THEN "CLOSED" ELSE @]
      /\ auditLog' = IF DueAction(s) = "none" THEN auditLog ELSE Logged(s, DueAction(s))
      /\ UNCHANGED <<assigned, responses, staff, liveUnits, tick, stuck>>
  BY <1>1 DEF ProcessSurvey
<1>3. /\ survey' \in [SurveyIds -> SurveyRow] /\ auditLog' \in [SurveyIds -> AuditRow]
      /\ \A o \in SurveyIds : SurveyInv(o)'
  BY <1>2, Processing
<1>4. /\ scan' \in [SurveyWorkers -> ScanRow]
      /\ \A x \in SurveyWorkers : scan'[x].at = "failing" => scan'[x].page # {}
  BY <1>2, Passing
<1>5. SurveyTypes' BY <1>2, <1>3, <1>4 DEF SurvInv, SurveyTypes
<1> QED BY <1>3, <1>5 DEF SurvInv

LEMMA RecordFailureKeeps ==
  ASSUME SurvInv, NEW w \in SurveyWorkers, RecordFailure(w)
  PROVE  SurvInv'
<1>1. scan[w].page # {} BY DEF RecordFailure, SurvInv, SurveyTypes
<1>2. PICK s \in SurveyIds : s = Next1(w) BY <1>1, Passing
<1>3. /\ scan' = Passed(w)
      /\ auditLog' = IF survey[s].status = "PUBLISHED" /\ auditLog[s].last # "FAILED" THEN Logged(s, "FAILED") ELSE auditLog
      /\ UNCHANGED <<survey, assigned, responses, staff, liveUnits, tick, stuck>>
  BY <1>2 DEF RecordFailure
<1>4. /\ scan' \in [SurveyWorkers -> ScanRow]
      /\ \A x \in SurveyWorkers : scan'[x].at = "failing" => scan'[x].page # {}
  BY <1>1, <1>3, Passing
<1>5. tick \in Nat /\ auditLog \in [SurveyIds -> AuditRow] BY DEF SurvInv, SurveyTypes
<1>6. CASE auditLog' = auditLog
  <2>1. \A o \in SurveyIds : SurveyInv(o)' BY <1>3, <1>5, <1>6, SurveyStays
  <2>2. SurveyTypes' BY <1>3, <1>4, <1>5, <1>6 DEF SurvInv, SurveyTypes
  <2> QED BY <2>1, <2>2 DEF SurvInv
<1>7. CASE /\ survey[s].status = "PUBLISHED" /\ auditLog[s].last # "FAILED"
           /\ auditLog' = Logged(s, "FAILED")
  <2>1. /\ auditLog' \in [SurveyIds -> AuditRow] /\ auditLog'[s].last = "FAILED"
        /\ auditLog'[s].opened = Openings(s) /\ auditLog'[s].failed = auditLog[s].failed + 1
        /\ \A o \in SurveyIds \ {s} : auditLog'[o] = auditLog[o]
    BY <1>7, LoggedIs
  <2>2. SurveyTypes' BY <1>3, <1>4, <2>1 DEF SurvInv, SurveyTypes
  <2>3. \A o \in SurveyIds \ {s} : SurveyInv(o)' BY <1>3, <1>5, <2>1, SurveyStays
  <2>4. SurveyInv(s) /\ auditLog[s].failed \in Nat /\ Openings(s) \in Nat
    BY <1>5 DEF SurvInv, AuditRow, Openings
  <2>5. Openings(s)' = Openings(s) /\ Assigned(s)' = Assigned(s) BY <1>3, <2>1 DEF Openings, Assigned
  <2>6. Reaches(s)' BY <1>3, <2>4, <2>5 DEF SurveyInv, Reaches
  <2>7. \A u \in Units : AnsweredFor(s, u)' = AnsweredFor(s, u) BY <1>3, <2>5 DEF AnsweredFor
  <2>8. Counts(s)' BY <1>3, <2>4, <2>7 DEF SurveyInv, Counts
  <2>9. NotBefore(s)' BY <1>3, <2>4, <2>5 DEF SurveyInv, NotBefore
  <2>10. Reported(s)' BY <1>3, <1>7, <2>1, <2>4, <2>5 DEF SurveyInv, Reported
  <2>11. SurveyInv(s)' BY <2>6, <2>8, <2>9, <2>10 DEF SurveyInv
  <2> QED BY <2>2, <2>3, <2>11 DEF SurvInv
<1> QED BY <1>3, <1>6, <1>7

\* What the rest of the company does changes no survey.
LEMMA SurveyWorldKeeps ==
  ASSUME SurvInv, \/ \E e \in Respondents, u \in Units, x \in BOOLEAN : Moves(e, u, x)
                  \/ \E u \in Units : UnitDeleted(u)
                  \/ Recovers \/ Tick
  PROVE  SurvInv'
<1>1. UNCHANGED <<survey, assigned, responses, auditLog, scan>>
  BY DEF Moves, UnitDeleted, Recovers, Tick
<1>2. tick \in 0..LastTick /\ tick' \in 0..LastTick /\ tick <= tick'
  BY SurveyAssumption DEF Moves, UnitDeleted, Recovers, Tick, SurvInv, SurveyTypes
<1>3. liveUnits' \subseteq Units /\ stuck' \subseteq SurveyIds
  BY DEF Moves, UnitDeleted, Recovers, Tick, SurvInv, SurveyTypes
<1>4. staff' \in [Respondents -> [unit : Units, eligible : BOOLEAN]]
  <2>1. staff \in [Respondents -> [unit : Units, eligible : BOOLEAN]] BY DEF SurvInv, SurveyTypes
  <2>2. ASSUME NEW e \in Respondents, NEW u \in Units, NEW x \in BOOLEAN, Moves(e, u, x)
        PROVE  staff' \in [Respondents -> [unit : Units, eligible : BOOLEAN]]
    <3>1. [unit |-> u, eligible |-> x] \in [unit : Units, eligible : BOOLEAN] BY <2>2
    <3> QED BY <2>1, <2>2, <3>1 DEF Moves
  <2>3. (\E u \in Units : UnitDeleted(u)) \/ Recovers \/ Tick => staff' = staff
    BY DEF UnitDeleted, Recovers, Tick
  <2> QED BY <2>1, <2>2, <2>3
<1>5. SurveyTypes' BY <1>1, <1>2, <1>3, <1>4 DEF SurvInv, SurveyTypes
<1>6. \A s \in SurveyIds : SurveyInv(s)' BY <1>1, <1>2, SurveyStays
<1> QED BY <1>5, <1>6 DEF SurvInv

LEMMA SurvBegins ==
  SurvInit => SurvInv
<1> SUFFICES ASSUME SurvInit PROVE SurvInv OBVIOUS
<1>1. \A s \in SurveyIds : survey[s] \in SurveyDrafts BY DEF SurvInit
<1>2. \A s \in SurveyIds : survey[s] \in SurveyRow /\ survey[s].status = "DRAFT"
  BY <1>1, SurveyAssumption DEF SurveyDrafts, SurveyRow, Kinds
<1>3. NoAssignment \in Assignment /\ NoAssignment.unit = "none" BY DEF NoAssignment, Assignment
<1>4. [opened |-> 0, failed |-> 0, last |-> "none"] \in AuditRow BY DEF AuditRow
<1>5. NoScan \in ScanRow /\ NoScan.at = "idle" BY DEF NoScan, ScanRow
<1>6. SurveyTypes
  <2>1. survey \in [SurveyIds -> SurveyRow] BY <1>2 DEF SurvInit
  <2>2. assigned \in [SurveyIds -> [Respondents -> Assignment]] BY <1>3 DEF SurvInit
  <2>3. responses \in [SurveyIds -> [Units -> Nat]] BY DEF SurvInit
  <2>4. auditLog \in [SurveyIds -> AuditRow] BY <1>4 DEF SurvInit
  <2>5. staff \in [Respondents -> [unit : Units, eligible : BOOLEAN]] BY DEF SurvInit
  <2>6. liveUnits \subseteq Units /\ tick \in 0..LastTick BY SurveyAssumption DEF SurvInit
  <2>7. stuck \subseteq SurveyIds BY DEF SurvInit
  <2>8. scan \in [SurveyWorkers -> ScanRow] /\ \A w \in SurveyWorkers : scan[w].at = "idle"
    BY <1>5 DEF SurvInit
  <2> QED BY <2>1, <2>2, <2>3, <2>4, <2>5, <2>6, <2>7, <2>8 DEF SurveyTypes
<1>7. ASSUME NEW s \in SurveyIds PROVE SurveyInv(s)
  <2>1. Assigned(s) = {} BY <1>3 DEF SurvInit, Assigned
  <2>2. \A u \in Units : AnsweredFor(s, u) = {} BY <2>1 DEF AnsweredFor
  <2>3. Openings(s) = 0 /\ auditLog[s].failed = 0 /\ \A u \in Units : responses[s][u] = 0
    BY DEF SurvInit, Openings
  <2>4. Counts(s) BY <2>2, <2>3, FS_EmptySet DEF Counts
  <2> QED BY <1>2, <2>1, <2>3, <2>4 DEF SurveyInv, Reaches, NotBefore, Reported
<1> QED BY <1>6, <1>7 DEF SurvInv

LEMMA SurvKeeps ==
  SurvInv /\ [SurvNext]_survVars => SurvInv'
<1> SUFFICES ASSUME SurvInv, [SurvNext]_survVars PROVE SurvInv' OBVIOUS
<1>1. ASSUME NEW s \in SurveyIds, NEW targets \in Audiences, NEW schedule \in Schedules,
             SaveSurvey(s, targets, schedule)
      PROVE  SurvInv'
  BY <1>1, SaveSurveyKeeps
<1>2. ASSUME NEW s \in SurveyIds, PublishSurvey(s) \/ OpenSurvey(s) \/ CloseSurvey(s)
      PROVE  SurvInv'
  BY <1>2, PublishSurveyKeeps, OpenSurveyKeeps, CloseSurveyKeeps
<1>3. ASSUME NEW s \in SurveyIds, NEW e \in Respondents, SubmitSurvey(s, e) PROVE SurvInv'
  BY <1>3, SubmitSurveyKeeps
<1>4. ASSUME NEW w \in SurveyWorkers, SurveyWork(w) PROVE SurvInv'
  BY <1>4, FetchPageKeeps, EndSweepKeeps, ProcessSurveyKeeps, ProcessFailsKeeps, RecordFailureKeeps
     DEF SurveyWork
<1>5. CASE \/ \E e \in Respondents, u \in Units, x \in BOOLEAN : Moves(e, u, x)
           \/ \E u \in Units : UnitDeleted(u)
           \/ Recovers \/ Tick
  BY <1>5, SurveyWorldKeeps
<1>6. CASE UNCHANGED survVars
  <2>1. tick \in Nat BY DEF SurvInv, SurveyTypes
  <2>2. \A s \in SurveyIds : SurveyInv(s)' BY <1>6, <2>1, SurveyStays DEF survVars
  <2>3. SurveyTypes' BY <1>6 DEF SurvInv, SurveyTypes, survVars
  <2> QED BY <2>2, <2>3 DEF SurvInv
<1> QED BY <1>1, <1>2, <1>3, <1>4, <1>5, <1>6 DEF SurvNext

LEMMA SurvInvariant ==
  SurvSpec => []SurvInv
BY SurvBegins, SurvKeeps, PTL DEF SurvSpec

\* A survey reaches whom its saved audience meant, counts each answer once and for the
\* department frozen at publication, opens once and after nobody has answered, and reports a
\* failing transition once (publish_survey, submit_survey, process_due_surveys).
THEOREM SurveysStayTrue ==
  SurvSpec => []SurveysHold
<1>1. SurvInv => SurvTypeOK
  <2> SUFFICES ASSUME SurvInv PROVE SurvTypeOK OBVIOUS
  <2>1. SurveyTypes BY DEF SurvInv
  <2>2. ASSUME NEW s \in SurveyIds
        PROVE  /\ survey[s].status \in {"DRAFT", "PUBLISHED", "CLOSED"} /\ survey[s].kind \in Kinds
               /\ survey[s].targets \subseteq Units /\ survey[s].opens \in Nat /\ survey[s].closes \in Nat
    <3>1. survey[s] \in SurveyRow BY <2>1 DEF SurveyTypes
    <3> QED BY <3>1 DEF SurveyRow
  <2>3. \A s \in SurveyIds : \A e \in Respondents : assigned[s][e] \in [unit : Units \cup {"none"}, done : BOOLEAN]
    BY <2>1 DEF SurveyTypes, Assignment
  <2>4. \A s \in SurveyIds : responses[s] \in [Units -> Nat] /\ auditLog[s] \in AuditRow
    BY <2>1 DEF SurveyTypes
  <2> QED BY <2>1, <2>2, <2>3, <2>4 DEF SurvTypeOK, SurveyTypes, AuditRow, ScanRow
<1>2. ASSUME SurvInv, NEW s \in SurveyIds
      PROVE  LET line == survey[s] IN
             /\ (Assigned(s) = {}) = (line.status = "DRAFT")
             /\ \A e \in Assigned(s) : line.kind = "ALL" \/ assigned[s][e].unit \in line.targets
             /\ \A u \in Units :
                  responses[s][u] = Cardinality({e \in Assigned(s) : assigned[s][e].done /\ assigned[s][e].unit = u})
             /\ tick < line.opens => Openings(s) = 0 /\ \A u \in Units : responses[s][u] = 0
             /\ Openings(s) <= 1 /\ auditLog[s].failed <= Openings(s) + 1
  <2>1. SurveyInv(s) BY <1>2 DEF SurvInv
  <2>2. Reaches(s) /\ NotBefore(s) /\ Reported(s) BY <2>1 DEF SurveyInv
  <2>3. \A u \in Units :
          responses[s][u] = Cardinality({e \in Assigned(s) : assigned[s][e].done /\ assigned[s][e].unit = u})
    BY <2>1 DEF SurveyInv, Counts, AnsweredFor
  <2>4. (Assigned(s) = {}) = (survey[s].status = "DRAFT") BY <2>2 DEF Reaches
  <2> QED BY <2>2, <2>3, <2>4 DEF Reaches, NotBefore, Reported
<1>3. SurvInv => SurveysHold BY <1>1, <1>2 DEF SurveysHold
<1> QED BY <1>3, SurvInvariant, PTL


-----------------------------------------------------------------------------
(* Celebrations *)

SweepRow == [at : {"resting", "settings", "employees", "users", "sweeping"}, day : Days,
             rules : RulesPool, consent : SUBSET OccasionIds, left : [OccasionIds -> SUBSET Users]]

CelTypes ==
  /\ today \in Days /\ rules \in RulesPool /\ consent \subseteq OccasionIds
  /\ ledger \subseteq Occurrences
  /\ sweep \in [Sweepers -> SweepRow]
  /\ agreed \in [open : 0..Len(Calendar), shared : [OccasionIds -> 0..Len(Calendar)]]

\* Each occurrence in the ledger was told of once.
OnceEach == DOMAIN notices = ledger /\ \A n \in ledger : notices[n] = 1

\* What is agreed now was agreed today, and nothing later than today.
AgreedToday ==
  /\ agreed.open <= today /\ (rules.share => agreed.open = today)
  /\ \A o \in OccasionIds : agreed.shared[o] <= today /\ (o \in consent => agreed.shared[o] = today)

\* User u may be told of occasion o for a day.
Tellable(o, u, day) ==
  /\ IsDue(o, Calendar[day])
  /\ u \notin Circle(o) => agreed.open >= day /\ agreed.shared[o] >= day

\* What a sweep has read was agreed on its day or later.
SweepHolds(s) ==
  /\ s.day <= today
  /\ s.at \in {"employees", "users"} /\ s.rules.share => agreed.open >= s.day
  /\ s.at = "users" => \A o \in s.consent : agreed.shared[o] >= s.day
  /\ \A o \in OccasionIds : \A u \in s.left[o] : Tellable(o, u, s.day)

CelInv ==
  /\ CelTypes /\ OnceEach /\ AgreedToday
  /\ \A n \in ledger : Tellable(n[1], n[2], n[3])
  /\ \A w \in Sweepers : SweepHolds(sweep[w])

LEMMA CalendarIs ==
  /\ Len(Calendar) \in Nat \ {0} /\ \A d \in Days : Calendar[d] \in Dates /\ d \in Nat
  /\ \A o \in OccasionIds : Occasions[o] \in [who : Users, kind : {"BIRTHDAY", "ANNIVERSARY"}, date : Dates]
  /\ \A o \in OccasionIds : Circle(o) \subseteq Users
  /\ Days \subseteq 0..Len(Calendar)
<1>1. Calendar \in Seq(Dates) /\ Calendar # <<>>
      /\ Occasions \in Seq([who : Users, kind : {"BIRTHDAY", "ANNIVERSARY"}, date : Dates])
  BY CelebrationAssumption
<1>2. Len(Calendar) \in Nat \ {0} /\ \A d \in Days : Calendar[d] \in Dates /\ d \in Nat
  BY <1>1 DEF Days
<1>3. \A o \in OccasionIds : Occasions[o] \in [who : Users, kind : {"BIRTHDAY", "ANNIVERSARY"}, date : Dates]
  <2> DEFINE Occasion == [who : Users, kind : {"BIRTHDAY", "ANNIVERSARY"}, date : Dates]
  <2>1. Occasions \in Seq(Occasion) BY <1>1
  <2> HIDE DEF Occasion
  <2>2. \A o \in OccasionIds : Occasions[o] \in Occasion BY <2>1 DEF OccasionIds
  <2> QED BY <2>2 DEF Occasion
<1>4. \A o \in OccasionIds : Circle(o) \subseteq Users
  BY <1>3, CelebrationAssumption DEF Circle
<1> QED BY <1>2, <1>3, <1>4 DEF Days

LEMMA RestingIs ==
  /\ Resting \in SweepRow /\ Resting.at = "resting" /\ Resting.day = 1
  /\ \A o \in OccasionIds : Resting.left[o] = {}
  /\ SomeRules \in RulesPool
<1>1. SomeRules \in RulesPool BY CelebrationAssumption DEF SomeRules
<1>2. NoOne \in [OccasionIds -> SUBSET Users] BY DEF NoOne
<1>3. 1 \in Days BY CalendarIs DEF Days
<1>4. {} \in SUBSET OccasionIds OBVIOUS
<1>5. Resting \in SweepRow BY <1>1, <1>2, <1>3, <1>4 DEF Resting, SweepRow
<1> QED BY <1>1, <1>5 DEF Resting, NoOne

\* Time and agreement only go forward: what a sweep may tell it may still tell.
LEMMA MoreAgreed ==
  ASSUME CelTypes, CelTypes', agreed.open <= agreed.open', today <= today',
         \A o \in OccasionIds : agreed.shared[o] <= agreed'.shared[o]
  PROVE  /\ \A o \in OccasionIds, day \in Days : \A u : Tellable(o, u, day) => Tellable(o, u, day)'
         /\ \A s \in SweepRow : SweepHolds(s) => SweepHolds(s)'
<1>1. /\ agreed.open \in Nat /\ agreed.open' \in Nat /\ today \in Nat /\ today' \in Nat
      /\ \A o \in OccasionIds : agreed.shared[o] \in Nat /\ agreed'.shared[o] \in Nat
  BY CalendarIs DEF CelTypes
<1>2. \A o \in OccasionIds, day \in Days : \A u : Tellable(o, u, day) => Tellable(o, u, day)'
  BY <1>1, CalendarIs DEF Tellable
<1>3. ASSUME NEW s \in SweepRow, SweepHolds(s) PROVE SweepHolds(s)'
  <2>1. s.day \in Days /\ s.day \in Nat /\ s.consent \subseteq OccasionIds
    BY CalendarIs DEF SweepRow
  <2>2. s.day <= today' BY <1>1, <1>3, <2>1 DEF SweepHolds
  <2>3. s.at \in {"employees", "users"} /\ s.rules.share => agreed'.open >= s.day
    BY <1>1, <1>3, <2>1 DEF SweepHolds
  <2>4. s.at = "users" => \A o \in s.consent : agreed'.shared[o] >= s.day
    BY <1>1, <1>3, <2>1 DEF SweepHolds
  <2>5. \A o \in OccasionIds : \A u \in s.left[o] : Tellable(o, u, s.day)'
    BY <1>2, <1>3, <2>1 DEF SweepHolds
  <2> QED BY <2>2, <2>3, <2>4, <2>5 DEF SweepHolds
<1> QED BY <1>2, <1>3

\* A step of a worker that only changes what the worker knows.
LEMMA SweepSteps ==
  ASSUME CelInv, NEW w \in Sweepers, NEW s \in SweepRow, SweepHolds(s), sweep' = [sweep EXCEPT ![w] = s],
         UNCHANGED <<today, rules, consent, agreed, notices, ledger>>
  PROVE  CelInv'
<1>1. CelTypes' BY DEF CelInv, CelTypes
<1>2. OnceEach' /\ AgreedToday' BY DEF CelInv, OnceEach, AgreedToday
<1>3. \A n \in ledger' : Tellable(n[1], n[2], n[3])' BY DEF CelInv, Tellable
<1>4. \A x \in Sweepers : sweep'[x] = s \/ sweep'[x] = sweep[x] BY DEF CelInv, CelTypes
<1>5. \A x \in Sweepers : SweepHolds(sweep'[x]) BY <1>4 DEF CelInv
<1>6. \A z : SweepHolds(z) => SweepHolds(z)' BY DEF SweepHolds, Tellable
<1>7. \A x \in Sweepers : SweepHolds(sweep[x])' BY <1>5, <1>6 DEF SweepHolds, Tellable
<1> QED BY <1>1, <1>2, <1>3, <1>7 DEF CelInv

LEMMA ReadClockKeeps ==
  ASSUME CelInv, NEW w \in Sweepers, ReadClock(w)
  PROVE  CelInv'
<1> DEFINE s == [Resting EXCEPT !.at = "settings", !.day = today]
<1>1. /\ sweep' = [sweep EXCEPT ![w] = s]
      /\ UNCHANGED <<today, rules, consent, agreed, notices, ledger>>
  BY DEF ReadClock, UnchangedRows
<1>2. today \in Days /\ today \in Nat BY CalendarIs DEF CelInv, CelTypes
<1>3. /\ s \in SweepRow /\ s.at = "settings" /\ s.day = today
      /\ \A o \in OccasionIds : s.left[o] = {}
  BY <1>2, RestingIs DEF SweepRow
<1>4. SweepHolds(s) BY <1>2, <1>3 DEF SweepHolds
<1> HIDE DEF s
<1> QED BY <1>1, <1>3, <1>4, SweepSteps

LEMMA ReadSettingsKeeps ==
  ASSUME CelInv, NEW w \in Sweepers, ReadSettings(w)
  PROVE  CelInv'
<1> DEFINE s == [sweep[w] EXCEPT !.at = "employees", !.rules = rules]
<1>1. /\ sweep' = [sweep EXCEPT ![w] = s]
      /\ UNCHANGED <<today, rules, consent, agreed, notices, ledger>>
  BY DEF ReadSettings, UnchangedRows, CelInv, CelTypes
<1>2. sweep[w] \in SweepRow /\ SweepHolds(sweep[w]) /\ rules \in RulesPool
  BY DEF CelInv, CelTypes
<1>3. /\ s \in SweepRow /\ s.at = "employees" /\ s.day = sweep[w].day /\ s.rules = rules
      /\ s.left = sweep[w].left
  BY <1>2 DEF SweepRow
<1>4. SweepHolds(s) BY <1>2, <1>3 DEF SweepHolds, CelInv, AgreedToday
<1> HIDE DEF s
<1> QED BY <1>1, <1>3, <1>4, SweepSteps

LEMMA ReadEmployeesKeeps ==
  ASSUME CelInv, NEW w \in Sweepers, ReadEmployees(w)
  PROVE  CelInv'
<1> DEFINE s == [sweep[w] EXCEPT !.at = "users", !.consent = consent]
<1>1. /\ sweep[w].at = "employees" /\ sweep' = [sweep EXCEPT ![w] = s]
      /\ UNCHANGED <<today, rules, consent, agreed, notices, ledger>>
  BY DEF ReadEmployees, UnchangedRows, CelInv, CelTypes
<1>2. sweep[w] \in SweepRow /\ SweepHolds(sweep[w]) /\ consent \subseteq OccasionIds
  BY DEF CelInv, CelTypes
<1>3. /\ s \in SweepRow /\ s.at = "users" /\ s.day = sweep[w].day /\ s.rules = sweep[w].rules
      /\ s.consent = consent /\ s.left = sweep[w].left
  BY <1>2 DEF SweepRow
<1>4. SweepHolds(s) BY <1>1, <1>2, <1>3 DEF SweepHolds, CelInv, AgreedToday
<1> HIDE DEF s
<1> QED BY <1>1, <1>3, <1>4, SweepSteps

LEMMA ReadUsersKeeps ==
  ASSUME CelInv, NEW w \in Sweepers, ReadUsers(w)
  PROVE  CelInv'
<1> DEFINE old == sweep[w]
           company == IF old.rules.share THEN Readers ELSE {}
           left == [o \in OccasionIds |-> IF o \in Reached(old) THEN Recipients(o, old, company) ELSE {}]
           s == [Resting EXCEPT !.at = "sweeping", !.day = old.day, !.left = left]
<1>1. /\ old.at = "users" /\ sweep' = [sweep EXCEPT ![w] = s]
      /\ UNCHANGED <<today, rules, consent, agreed, notices, ledger>>
  BY DEF ReadUsers, UnchangedRows
<1>2. old \in SweepRow /\ SweepHolds(old) BY DEF CelInv, CelTypes
<1>3. \A o \in OccasionIds : Recipients(o, old, company) \subseteq Users
  BY CalendarIs, CelebrationAssumption DEF Recipients
<1>4. left \in [OccasionIds -> SUBSET Users] BY <1>3
<1>5. ASSUME NEW o \in OccasionIds, NEW u \in left[o] PROVE Tellable(o, u, old.day)
  <2>1. o \in Reached(old) /\ u \in Recipients(o, old, company) BY <1>5
  <2>2. IsDue(o, Calendar[old.day]) BY <2>1 DEF Reached, DueOccasions
  <2>3. u \notin Circle(o) => old.rules.share /\ o \in old.consent BY <2>1 DEF Recipients
  <2>4. u \notin Circle(o) => agreed.open >= old.day /\ agreed.shared[o] >= old.day
    BY <1>1, <1>2, <2>3 DEF SweepHolds
  <2> QED BY <2>2, <2>4 DEF Tellable
<1> HIDE DEF left, old
<1>6. old.day \in Days /\ old.day <= today BY <1>2 DEF SweepRow, SweepHolds
<1>7. s \in SweepRow /\ s.at = "sweeping" /\ s.day = old.day /\ s.left = left
  BY <1>4, <1>6, RestingIs DEF SweepRow
<1>8. SweepHolds(s) BY <1>5, <1>6, <1>7 DEF SweepHolds
<1> HIDE DEF s
<1> QED BY <1>1, <1>7, <1>8, SweepSteps

LEMMA SweepEndsKeeps ==
  ASSUME CelInv, NEW w \in Sweepers, SweepEnds(w)
  PROVE  CelInv'
<1>1. /\ sweep' = [sweep EXCEPT ![w] = Resting]
      /\ UNCHANGED <<today, rules, consent, agreed, notices, ledger>>
  BY DEF SweepEnds, UnchangedRows
<1>2. today \in Nat /\ 1 <= today BY DEF CelInv, CelTypes, Days
<1>3. SweepHolds(Resting) BY <1>2, RestingIs DEF SweepHolds
<1> QED BY <1>1, <1>3, RestingIs, SweepSteps

\* A notification and the ledger's row for it are one transaction.
LEMMA TellKeeps ==
  ASSUME CelInv, NEW w \in Sweepers, NEW o \in OccasionIds, NEW u \in Users, Tell(w, o, u)
  PROVE  CelInv'
<1> DEFINE old == sweep[w]
           n == <<o, u, old.day>>
           some == [old.left EXCEPT ![o] = @ \ {u}]
           s == [old EXCEPT !.left = some]
<1>1. old \in SweepRow /\ SweepHolds(old) BY DEF CelInv, CelTypes
<1>2. /\ u \in old.left[o] /\ sweep' = [sweep EXCEPT ![w] = s]
      /\ UNCHANGED <<today, rules, consent, agreed>>
      /\ IF n \in ledger THEN UNCHANGED <<notices, ledger>>
         ELSE notices' = notices (+) SetToBag({n}) /\ ledger' = ledger \cup {n}
  BY <1>1 DEF Tell, UnchangedRows, Told, CelInv, CelTypes, SweepRow
<1>3. /\ some \in [OccasionIds -> SUBSET Users]
      /\ \A x \in OccasionIds : some[x] \subseteq old.left[x]
  BY <1>1 DEF SweepRow
<1> HIDE DEF some
<1>4. /\ s \in SweepRow /\ s.at = old.at /\ s.day = old.day /\ s.rules = old.rules
      /\ s.consent = old.consent /\ s.left = some
  BY <1>1, <1>3 DEF SweepRow
<1>5. SweepHolds(s) BY <1>1, <1>3, <1>4 DEF SweepHolds
<1>6. Tellable(o, u, old.day) /\ old.day \in Days BY <1>1, <1>2 DEF SweepHolds, SweepRow
<1>7. n \in Occurrences /\ n[1] = o /\ n[2] = u /\ n[3] = old.day BY <1>6 DEF Occurrences
<1> HIDE DEF s, old
<1>8. CASE n \in ledger
  <2>1. UNCHANGED <<notices, ledger>> BY <1>2, <1>8
  <2> QED BY <1>2, <1>4, <1>5, <2>1, SweepSteps
<1>9. CASE n \notin ledger
  <2>1. PICK m : m = n OBVIOUS
  <2>2. notices' = notices (+) SetToBag({m}) /\ ledger' = ledger \cup {m} /\ m \notin ledger
    BY <1>2, <1>9, <2>1
  <2>3. OnceEach BY DEF CelInv
  <2>4. DOMAIN notices' = DOMAIN notices \cup {m} BY <2>2 DEF (+), SetToBag
  <2>5. \A x \in ledger' : notices'[x] = 1
    BY <2>2, <2>3 DEF (+), SetToBag, OnceEach
  <2>6. OnceEach' BY <2>2, <2>3, <2>4, <2>5 DEF OnceEach
  <2>7. CelTypes' BY <1>2, <1>4, <1>7, <2>1, <2>2 DEF CelInv, CelTypes
  <2>8. \A x \in ledger' : Tellable(x[1], x[2], x[3])
    BY <1>6, <1>7, <2>1, <2>2 DEF CelInv
  <2>9. \A x \in ledger' : Tellable(x[1], x[2], x[3])' BY <1>2, <2>8 DEF Tellable
  <2>10. \A x \in Sweepers : sweep'[x] = s \/ sweep'[x] = sweep[x] BY <1>2 DEF CelInv, CelTypes
  <2>11. \A x \in Sweepers : SweepHolds(sweep'[x]) BY <1>5, <2>10 DEF CelInv
  <2>12. \A x \in Sweepers : SweepHolds(sweep[x])' BY <1>2, <2>11 DEF SweepHolds, Tellable
  <2>13. AgreedToday' BY <1>2 DEF CelInv, AgreedToday
  <2> QED BY <2>6, <2>7, <2>9, <2>12, <2>13 DEF CelInv
<1> QED BY <1>8, <1>9

\* Whatever is decided, or whichever day comes, agreement is written down and not taken back.
LEMMA AgreedSteps ==
  ASSUME CelInv, today' \in Days, today <= today', rules' \in RulesPool, consent' \subseteq OccasionIds,
         agreed' = Agreed(today', rules', consent'), UNCHANGED <<notices, ledger, sweep>>
  PROVE  CelInv'
<1>1. /\ today \in Nat /\ today' \in Nat /\ today' \in 0..Len(Calendar)
      /\ agreed \in [open : 0..Len(Calendar), shared : [OccasionIds -> 0..Len(Calendar)]]
  BY CalendarIs DEF CelInv, CelTypes
<1>2. /\ agreed'.open = IF rules'.share THEN today' ELSE agreed.open
      /\ \A o \in OccasionIds : agreed'.shared[o] = IF o \in consent' THEN today' ELSE agreed.shared[o]
      /\ agreed' \in [open : 0..Len(Calendar), shared : [OccasionIds -> 0..Len(Calendar)]]
  BY <1>1 DEF Agreed
<1>3. /\ agreed.open \in Nat /\ agreed.open <= today
      /\ \A o \in OccasionIds : agreed.shared[o] \in Nat /\ agreed.shared[o] <= today
  BY <1>1, CalendarIs DEF CelInv, AgreedToday
<1>4. AgreedToday' BY <1>1, <1>2, <1>3 DEF AgreedToday
<1>5. CelTypes /\ CelTypes' BY <1>2 DEF CelInv, CelTypes
<1>6. /\ agreed.open <= agreed'.open
      /\ \A o \in OccasionIds : agreed.shared[o] <= agreed'.shared[o]
  BY <1>1, <1>2, <1>3
<1>7. \A n \in ledger : n[1] \in OccasionIds /\ n[3] \in Days
  BY DEF CelInv, CelTypes, Occurrences
<1>8. \A o \in OccasionIds, day \in Days : \A u : Tellable(o, u, day) => Tellable(o, u, day)'
  BY <1>5, <1>6, MoreAgreed
<1>9. \A n \in ledger' : Tellable(n[1], n[2], n[3])' BY <1>7, <1>8 DEF CelInv
<1>10. \A s \in SweepRow : SweepHolds(s) => SweepHolds(s)' BY <1>5, <1>6, MoreAgreed
<1>11. \A w \in Sweepers : sweep[w] \in SweepRow /\ SweepHolds(sweep[w]) /\ sweep'[w] = sweep[w]
  BY DEF CelInv, CelTypes
<1>12. ASSUME NEW w \in Sweepers PROVE SweepHolds(sweep[w])'
  <2>1. PICK s \in SweepRow : s = sweep[w] /\ s = sweep'[w] BY <1>11
  <2>2. SweepHolds(s) BY <1>11, <2>1
  <2>3. SweepHolds(s)' BY <1>10, <2>2
  <2> QED BY <2>1, <2>3 DEF SweepHolds
<1>13. OnceEach' BY DEF CelInv, OnceEach
<1> QED BY <1>4, <1>5, <1>9, <1>12, <1>13 DEF CelInv

LEMMA CelBegins ==
  CelInit => CelInv
<1> SUFFICES ASSUME CelInit PROVE CelInv OBVIOUS
<1>1. today = 1 /\ 1 \in Days /\ 1 \in 0..Len(Calendar) /\ 0 \in 0..Len(Calendar)
  BY CalendarIs DEF CelInit, Days
<1>2. notices = EmptyBag /\ ledger = {} /\ consent = {} /\ rules \in RulesPool BY DEF CelInit
<1>3. \A w \in Sweepers : sweep[w] = Resting BY DEF CelInit
<1>4. sweep \in [Sweepers -> SweepRow] BY RestingIs DEF CelInit
<1>5. agreed = [open |-> IF rules.share THEN 1 ELSE 0, shared |-> [o \in OccasionIds |-> 0]]
  BY DEF CelInit
<1>6. agreed \in [open : 0..Len(Calendar), shared : [OccasionIds -> 0..Len(Calendar)]]
  BY <1>1, <1>5
<1>7. CelTypes BY <1>1, <1>2, <1>4, <1>6 DEF CelTypes
<1>8. OnceEach BY <1>2 DEF OnceEach, EmptyBag, SetToBag
<1>9. AgreedToday BY <1>1, <1>2, <1>5 DEF AgreedToday
<1>10. \A w \in Sweepers : SweepHolds(sweep[w]) BY <1>1, <1>3, RestingIs DEF SweepHolds
<1> QED BY <1>2, <1>7, <1>8, <1>9, <1>10 DEF CelInv

LEMMA CelKeeps ==
  CelInv /\ [CelNext]_celVars => CelInv'
<1> SUFFICES ASSUME CelInv, [CelNext]_celVars PROVE CelInv' OBVIOUS
<1>1. /\ today \in Days /\ today \in Nat /\ rules \in RulesPool /\ consent \subseteq OccasionIds
  BY CalendarIs DEF CelInv, CelTypes
<1>2. ASSUME NEW w \in Sweepers,
             ReadClock(w) \/ ReadSettings(w) \/ ReadEmployees(w) \/ ReadUsers(w) \/ SweepEnds(w)
      PROVE  CelInv'
  BY <1>2, ReadClockKeeps, ReadSettingsKeeps, ReadEmployeesKeeps, ReadUsersKeeps, SweepEndsKeeps
<1>3. ASSUME NEW w \in Sweepers, NEW o \in OccasionIds, NEW u \in Users, Tell(w, o, u)
      PROVE  CelInv'
  BY <1>3, TellKeeps
<1>4. ASSUME NEW r \in RulesPool, SaveAutomationSettings(r) PROVE CelInv'
  <2>1. /\ rules' = r /\ today' = today /\ consent' = consent /\ UNCHANGED <<notices, ledger, sweep>>
        /\ agreed' = Agreed(today', rules', consent')
    BY <1>4 DEF SaveAutomationSettings
  <2> QED BY <1>1, <2>1, AgreedSteps
<1>5. ASSUME NEW u \in Users, NEW shared \in SUBSET OccasionIds, SavePreferences(u, shared)
      PROVE  CelInv'
  <2>1. /\ consent' \subseteq consent \cup shared /\ today' = today /\ rules' = rules
        /\ UNCHANGED <<notices, ledger, sweep>> /\ agreed' = Agreed(today', rules', consent')
    BY <1>5 DEF SavePreferences
  <2> QED BY <1>1, <2>1, AgreedSteps
<1>6. CASE DayPasses
  <2>1. /\ today < Len(Calendar) /\ today' = today + 1 /\ rules' = rules /\ consent' = consent
        /\ UNCHANGED <<notices, ledger, sweep>> /\ agreed' = Agreed(today', rules', consent')
    BY <1>6 DEF DayPasses
  <2>2. today' \in Days /\ today <= today' BY <1>1, <2>1, CalendarIs DEF Days
  <2> QED BY <1>1, <2>1, <2>2, AgreedSteps
<1>7. CASE UNCHANGED celVars
  <2> USE <1>7 DEF celVars
  <2>1. CelTypes' BY DEF CelInv, CelTypes
  <2>2. OnceEach' /\ AgreedToday' BY DEF CelInv, OnceEach, AgreedToday
  <2>3. \A n \in ledger' : Tellable(n[1], n[2], n[3])' BY DEF CelInv, Tellable
  <2>4. \A w \in Sweepers : SweepHolds(sweep[w])' BY DEF CelInv, SweepHolds, Tellable
  <2> QED BY <2>1, <2>2, <2>3, <2>4 DEF CelInv
<1> QED BY <1>2, <1>3, <1>4, <1>5, <1>6, <1>7 DEF CelNext

\* Whatever is due for the same occasion in the same year is due on the same day.
LEMMA OneDayAYear ==
  ASSUME NEW o \in OccasionIds, NEW i \in Days, NEW j \in Days,
         IsDue(o, Calendar[i]), IsDue(o, Calendar[j]), Calendar[i].y = Calendar[j].y
  PROVE  i = j
<1>1. Observed(Occasions[o].date, Calendar[i].y) = Calendar[i]
      /\ Observed(Occasions[o].date, Calendar[j].y) = Calendar[j]
  BY DEF IsDue
<1>2. Calendar[i] = Calendar[j] BY <1>1
<1> QED BY <1>2, CelebrationAssumption DEF Days

\* The 28th stands for the 29th of February, and only in a year without one.
LEMMA DueAroundFebruary ==
  DueOnTheDay
<1> DEFINE DaysOf(y) == {[y |-> y, m |-> 2, d |-> d] : d \in 27..(IF Leap(y) THEN 29 ELSE 28)}
                          \cup {[y |-> y, m |-> 3, d |-> 1]}
           Before(c, e) == c.m < e.m \/ (c.m = e.m /\ c.d <= e.d)
           Until(date, y) == {c \in DaysOf(y) : Before(c, date)}
           Due(o, on) == /\ on \in Until(Occasions[o].date, on.y)
                         /\ \A c \in Until(Occasions[o].date, on.y) : Before(c, on)
<1>1. ASSUME NEW o \in OccasionIds, NEW y \in Occasions[o].date.y + 1..Occasions[o].date.y + 8,
             Occasions[o].date \in DaysOf(Occasions[o].date.y), NEW on \in DaysOf(y)
      PROVE  IsDue(o, on) <=> Due(o, on)
  <2>1. PICK date : date = Occasions[o].date OBVIOUS
  <2>2. /\ date \in Dates /\ date.y \in Nat /\ y \in Nat /\ y > date.y
    BY <1>1, <2>1, CalendarIs DEF Dates
  <2>3. on.y = y /\ (on = [y |-> y, m |-> 3, d |-> 1] \/ \E d \in 27..29 : on = [y |-> y, m |-> 2, d |-> d] /\ (Leap(y) \/ d # 29))
    BY <1>1
  <2>4. IsDue(o, on) <=> Observed(date, y) = on BY <2>1, <2>2, <2>3 DEF IsDue
  <2>5. \/ date.m = 3 /\ date.d = 1
        \/ date.m = 2 /\ date.d \in {27, 28, 29}
    BY <1>1, <2>1
  <2>6. Observed(date, y) = [y |-> y, m |-> date.m,
                             d |-> IF date.m = 2 /\ date.d = 29 /\ ~Leap(y) THEN 28 ELSE date.d]
    BY DEF Observed
  <2>7. Due(o, on) <=> /\ Before(on, date)
                       /\ \A c \in DaysOf(y) : Before(c, date) => Before(c, on)
    BY <1>1, <2>1, <2>3
  <2>8. CASE date.m = 3 /\ date.d = 1
    <3>1. Before(on, date) BY <2>3, <2>8
    <3>2. [y |-> y, m |-> 3, d |-> 1] \in DaysOf(y) OBVIOUS
    <3>3. (\A c \in DaysOf(y) : Before(c, date) => Before(c, on)) => on = [y |-> y, m |-> 3, d |-> 1]
      <4> DEFINE first == [y |-> y, m |-> 3, d |-> 1]
      <4>1. first.m = 3 /\ first.d = 1 /\ Before(first, date) BY <2>8
      <4>2. ASSUME NEW d \in 27..29, on = [y |-> y, m |-> 2, d |-> d] PROVE ~Before(first, on)
        BY <4>2
      <4> HIDE DEF first, Before
      <4>3. on # first => ~Before(first, on) BY <2>3, <4>2 DEF first
      <4> QED BY <3>2, <4>1, <4>3 DEF first
    <3>4. on = [y |-> y, m |-> 3, d |-> 1] => \A c \in DaysOf(y) : Before(c, on) OBVIOUS
    <3> QED BY <2>4, <2>6, <2>7, <2>8, <3>1, <3>3, <3>4
  <2>9. CASE date.m = 2 /\ date.d \in {27, 28, 29}
    <3> DEFINE last == IF date.d = 29 /\ ~Leap(y) THEN 28 ELSE date.d
               best == [y |-> y, m |-> 2, d |-> last]
    <3>1. Observed(date, y) = best BY <2>6, <2>9
    <3>2. last \in 27..29 /\ last <= date.d /\ (Leap(y) \/ last # 29) BY <2>9
    <3>3. \A d \in 27..29 : (Leap(y) \/ d # 29) /\ d <= date.d => d <= last BY <2>9
    <3> HIDE DEF last
    <3>4. best \in DaysOf(y) /\ Before(best, date) BY <2>9, <3>2
    <3>5. \A c \in DaysOf(y) : Before(c, date) => Before(c, best)
      <4> SUFFICES ASSUME NEW c \in DaysOf(y), Before(c, date) PROVE Before(c, best) OBVIOUS
      <4>1. PICK d \in 27..29 : c = [y |-> y, m |-> 2, d |-> d] /\ (Leap(y) \/ d # 29) /\ d <= date.d
        BY <2>9
      <4> QED BY <3>2, <3>3, <4>1
    <3>6. Before(best, on) /\ Before(on, date) => on = best
      <4> SUFFICES ASSUME Before(best, on), Before(on, date) PROVE on = best OBVIOUS
      <4>1. PICK d \in 27..29 : on = [y |-> y, m |-> 2, d |-> d] /\ (Leap(y) \/ d # 29) /\ d <= date.d
        BY <2>3, <2>9
      <4>2. d <= last /\ last <= d BY <3>2, <3>3, <4>1
      <4> QED BY <3>2, <4>1, <4>2
    <3> QED BY ZenonT(60), <2>4, <2>7, <3>1, <3>4, <3>5, <3>6
  <2> QED BY <2>5, <2>8, <2>9
<1> QED BY <1>1 DEF DueOnTheDay

LEMMA CelInvariant ==
  CelSpec => []CelInv
BY CelBegins, CelKeeps, PTL DEF CelSpec

\* Whoever sweeps, is broken off or begins again: nobody is told of an occasion twice in a
\* year, and who is neither the employee nor the manager only while both the tenant and the
\* employee agreed (create_notification_once, select_recipient_user_ids).
THEOREM CelebrationsStayPrivate ==
  CelSpec => []CelebrationsHold
<1>1. CelInv => CelTypeOK /\ ToldWithConsent
  <2> SUFFICES ASSUME CelInv PROVE CelTypeOK /\ ToldWithConsent OBVIOUS
  <2>1. BagToSet(notices) = ledger BY DEF CelInv, OnceEach, BagToSet
  <2>2. CelTypeOK BY <2>1 DEF CelInv, CelTypes, CelTypeOK, SweepRow
  <2>3. ToldWithConsent BY <2>1 DEF CelInv, ToldWithConsent, Tellable
  <2> QED BY <2>2, <2>3
<1>2. CelInv => OnceAYear
  <2> SUFFICES ASSUME CelInv, NEW n \in BagToSet(notices), NEW other \in BagToSet(notices)
               PROVE  /\ notices[n] = 1
                      /\ n # other /\ n[1] = other[1] /\ n[2] = other[2]
                           => Calendar[n[3]].y # Calendar[other[3]].y
    BY DEF OnceAYear
  <2>1. n \in ledger /\ other \in ledger /\ notices[n] = 1 BY DEF CelInv, OnceEach, BagToSet
  <2>2. n \in Occurrences /\ other \in Occurrences BY <2>1 DEF CelInv, CelTypes
  <2>3. /\ n[1] \in OccasionIds /\ n[3] \in Days /\ n = <<n[1], n[2], n[3]>>
        /\ other[3] \in Days /\ other = <<other[1], other[2], other[3]>>
    BY <2>2 DEF Occurrences
  <2>4. IsDue(n[1], Calendar[n[3]]) /\ IsDue(other[1], Calendar[other[3]])
    BY <2>1 DEF CelInv, Tellable
  <2> QED BY <2>1, <2>3, <2>4, OneDayAYear
<1>3. CelInv => CelebrationsHold BY <1>1, <1>2, DueAroundFebruary DEF CelebrationsHold
<1> QED BY <1>3, CelInvariant, PTL
=============================================================================
