----------------------------- MODULE WorkProofs -----------------------------
(***************************************************************************)
(* What is proved of Prejoining, Timesheet, Claims and Payroll, for any      *)
(* number of candidates, screens, rows, weeks, claims, trips, employees,     *)
(* cycles and requests.                                                      *)
(***************************************************************************)
EXTENDS Prejoining, Timesheet, Claims, Payroll, SumTheorems, SequenceTheorems

-----------------------------------------------------------------------------
(* Candidates who join *)

Row == [status : Statuses, revision : 0..MaxRevisions, form : Forms,
        needs : SUBSET Needs, link : 0..MaxRevisions + 1]

View == [of : SUBSET Applicants, revision : 0..MaxRevisions,
         link : 0..MaxRevisions + 1, loaded : BOOLEAN, shows : Contents]

Employee == [email : Emails, code : Codes, from : SUBSET Applicants, files : SUBSET (1..MaxRevisions)]

\* A screen whose revision is still the row's shows the row, and its documents once
\* they are loaded; and nobody looks at a candidate who was not invited.
ScreenInv(s) ==
  \A a \in Applicants : screen[s].of = {a} =>
    /\ screen[s].revision <= applicant[a].revision /\ applicant[a].status # "NONE"
    /\ screen[s].revision = applicant[a].revision =>
         /\ screen[s].shows.form = applicant[a].form
         /\ screen[s].loaded => screen[s].shows.files = files[a]

CandidateInv(a) ==
  /\ applicant[a].status \in {"APPROVED", "JOINED"} =>
       approvedAs[a] = [form |-> applicant[a].form, files |-> files[a]]
  /\ applicant[a].status \in {"SUBMITTED", "APPROVED", "JOINED"} => Complete(a)
  /\ applicant[a].status \in Closed => applicant[a].link = 0
  /\ applicant[a].status = "JOINED" => \E h \in hired : h.from = {a}

\* Who was hired from a candidate's row joined with what was approved.
EmployeeInv(h) ==
  \A a \in Applicants : h.from = {a} =>
    /\ applicant[a].status = "JOINED"
    /\ h.email = approvedAs[a].form
    /\ h.files = {approvedAs[a].files[n] : n \in Needs} \ {0}
    /\ \A g \in hired : g.from = {a} => g = h

Unshared == \A g, h \in hired : g # h => g.email # h.email /\ g.code # h.code

PjInv ==
  /\ applicant \in [Applicants -> Row]
  /\ files \in [Applicants -> [Needs -> 0..MaxRevisions]]
  /\ uploads \in [Applicants -> 0..MaxUploads]
  /\ hired \in SUBSET Employee
  /\ screen \in [Screens -> View]
  /\ approvedAs \in [Applicants -> Contents]
  /\ \A s \in Screens : ScreenInv(s)
  /\ \A a \in Applicants : CandidateInv(a)
  /\ \A h \in hired : EmployeeInv(h)
  /\ Unshared

LEMMA NoFilesTyped == NoFiles \in [Needs -> 0..MaxRevisions]
  BY PrejoiningAssumption DEF NoFiles

LEMMA EmptyTyped == Empty \in Contents
  BY NoFilesTyped DEF Empty, Contents, Forms

LEMMA BlankView == Blank \in View /\ Blank.of = {}
  BY EmptyTyped, PrejoiningAssumption DEF Blank, View

LEMMA Moves ==
  /\ \A what \in DOMAIN Transition :
       /\ what \in {"APPROVE", "REQUEST_CHANGES", "CANCEL"}
       /\ Transition[what].to \in Statuses
       /\ Transition[what].from \cap (Closed \cup {"NONE"}) = {}
  /\ Transition["APPROVE"].from = {"SUBMITTED"} /\ Transition["APPROVE"].to = "APPROVED"
  /\ Transition["REQUEST_CHANGES"].to = "CHANGES_REQUESTED"
  /\ Transition["CANCEL"].to = "CANCELLED"
  BY DEF Transition, Statuses, Closed

\* A caller whose revision is current sees the row as it is, and the screen closes.
LEMMA ActsOnEffect ==
  ASSUME PjInv, NEW s \in Screens, NEW a \in Applicants, NEW byLink \in BOOLEAN, ActsOn(s, a, byLink)
  PROVE  /\ screen' \in [Screens -> View] /\ screen'[s].of = {}
         /\ \A t \in Screens \ {s} : screen'[t] = screen[t]
         /\ applicant[a].revision + 1 \in 0..MaxRevisions
         /\ applicant[a].revision + 2 \in 0..MaxRevisions + 1
         /\ applicant[a].status \notin Closed \cup {"NONE"}
         /\ screen[s].shows = [form |-> applicant[a].form, files |-> files[a]]
<1> USE DEF PjInv
<1>1. screen' = [screen EXCEPT ![s] = Blank] /\ screen[s].of = {a} /\ screen[s].loaded
      /\ applicant[a].status \notin Closed \cup {"NONE"}
      /\ applicant[a].revision = screen[s].revision /\ applicant[a].revision < MaxRevisions
  BY DEF ActsOn, Admits, CheckRevision
<1>2. applicant[a].revision \in 0..MaxRevisions /\ screen[s].shows \in Contents
  BY DEF Row, View
<1>3. screen[s].shows.form = applicant[a].form /\ screen[s].shows.files = files[a]
  BY <1>1 DEF ScreenInv
<1>4. screen[s].shows = [form |-> applicant[a].form, files |-> files[a]]
  BY <1>2, <1>3 DEF Contents
<1>5. QED
  BY <1>1, <1>2, <1>4, BlankView, PrejoiningAssumption

\* Every write moves the revision on, so that what other screens show is stale.
LEMMA ScreensStale ==
  ASSUME PjInv, NEW a \in Applicants, NEW row \in Row, row.revision = applicant[a].revision + 1,
         row.status # "NONE", applicant' = [applicant EXCEPT ![a] = row],
         \A b \in Applicants \ {a} : files'[b] = files[b],
         \A t \in Screens : screen'[t] = screen[t] \/ screen'[t].of = {}
  PROVE  \A t \in Screens : ScreenInv(t)'
<1> SUFFICES ASSUME NEW t \in Screens, screen'[t] = screen[t], NEW b \in Applicants, screen[t].of = {b}
             PROVE  /\ screen[t].revision <= applicant'[b].revision /\ applicant'[b].status # "NONE"
                    /\ screen[t].revision = applicant'[b].revision =>
                         /\ screen[t].shows.form = applicant'[b].form
                         /\ screen[t].loaded => screen[t].shows.files = files'[b]
  BY DEF ScreenInv
<1>1. screen[t].revision \in Nat /\ applicant[b].revision \in Nat
      /\ screen[t].revision <= applicant[b].revision
  BY DEF PjInv, ScreenInv, View, Row
<1>2. CASE b = a
  BY <1>1, <1>2 DEF PjInv
<1>3. CASE b # a
  BY <1>3 DEF PjInv, ScreenInv
<1>4. QED
  BY <1>2, <1>3

LEMMA EmployeesKept ==
  ASSUME PjInv, hired' = hired,
         \A b \in Applicants : applicant[b].status = "JOINED" =>
           applicant'[b].status = "JOINED" /\ approvedAs'[b] = approvedAs[b]
  PROVE  (\A h \in hired : EmployeeInv(h))' /\ Unshared'
<1>1. ASSUME NEW h \in hired PROVE EmployeeInv(h)'
  <2>1. EmployeeInv(h)
    BY DEF PjInv
  <2>2. QED
    BY <2>1 DEF EmployeeInv
<1>2. QED
  BY <1>1 DEF PjInv, Unshared

LEMMA CandidateKept ==
  ASSUME PjInv, NEW b \in Applicants, applicant'[b] = applicant[b], files'[b] = files[b],
         approvedAs'[b] = approvedAs[b], hired \subseteq hired'
  PROVE  CandidateInv(b)'
<1>1. Complete(b)' <=> Complete(b)
  BY DEF Complete
<1>2. QED
  BY <1>1 DEF PjInv, CandidateInv

LEMMA StepKeepsPjInv == PjInv /\ [PjNext]_pjVars => PjInv'
<1> SUFFICES ASSUME PjInv, [PjNext]_pjVars PROVE PjInv'
  OBVIOUS
<1> USE DEF PjInv
<1>1. ASSUME NEW a \in Applicants, Expire(a) PROVE PjInv'
  <2>1. PICK row \in Row :
          /\ applicant' = [applicant EXCEPT ![a] = row]
          /\ row.status = applicant[a].status /\ row.form = applicant[a].form
          /\ row.needs = applicant[a].needs /\ row.revision = applicant[a].revision /\ row.link = 0
    <3> DEFINE row == [applicant[a] EXCEPT !.link = 0]
    <3>1. applicant[a] \in Row
      OBVIOUS
    <3>a. 0 \in 0..MaxRevisions + 1
      BY <3>1, PrejoiningAssumption DEF Row
    <3>2. row \in Row
      BY <3>1, <3>a, PjInv DEF Row
    <3>3. /\ row.status = applicant[a].status /\ row.form = applicant[a].form
          /\ row.needs = applicant[a].needs /\ row.revision = applicant[a].revision /\ row.link = 0
      BY <3>1 DEF Row
    <3>4. applicant' = [applicant EXCEPT ![a] = row]
      BY <1>1 DEF Expire
    <3> HIDE DEF row
    <3>5. QED
      BY <3>2, <3>3, <3>4
  <2>2. (applicant \in [Applicants -> Row])'
    BY <2>1
  <2>3. (files \in [Applicants -> [Needs -> 0..MaxRevisions]])'
    BY <1>1, <2>1 DEF Expire
  <2>4. (uploads \in [Applicants -> 0..MaxUploads])'
    BY <1>1, <2>1 DEF Expire
  <2>5. (hired \in SUBSET Employee)'
    BY <1>1, <2>1 DEF Expire
  <2>6. (screen \in [Screens -> View])'
    BY <1>1, <2>1, BlankView DEF Expire
  <2>7. (approvedAs \in [Applicants -> Contents])'
    BY <1>1, <2>1, EmptyTyped DEF Expire
  <2>8. (\A t \in Screens : ScreenInv(t))'
    BY <1>1, <2>1 DEF Expire, ScreenInv
  <2>9. (\A b \in Applicants : CandidateInv(b))'
    <3>1. ASSUME NEW b \in Applicants \ {a} PROVE CandidateInv(b)'
      BY <1>1, <2>1, CandidateKept DEF Expire
    <3>2. Complete(a)' <=> Complete(a)
      BY <1>1, <2>1 DEF Expire, Complete
    <3>3. CandidateInv(a)'
      <4>1. applicant'[a] = row /\ files' = files /\ approvedAs' = approvedAs /\ hired' = hired
        BY <1>1, <2>1 DEF Expire
      <4>2. CandidateInv(a)
        OBVIOUS
      <4>3. QED
        BY <2>1, <3>2, <4>1, <4>2 DEF CandidateInv
    <3>4. QED
      BY <3>1, <3>3
  <2>10. (\A h \in hired : EmployeeInv(h))'
    BY <1>1, <2>1, EmployeesKept DEF Expire
  <2>11. Unshared'
    BY <1>1, <2>1, EmployeesKept DEF Expire
  <2>12. QED
    BY <2>2, <2>3, <2>4, <2>5, <2>6, <2>7, <2>8, <2>9, <2>10, <2>11
<1>2. ASSUME NEW a \in Applicants, NEW needs \in SUBSET Needs, Invite(a, needs) PROVE PjInv'
  <2>1. PICK row \in Row :
          /\ applicant' = [applicant EXCEPT ![a] = row]
          /\ row.status = "DRAFT"
    <3> DEFINE row == [status |-> "DRAFT", revision |-> 0, form |-> NoForm, needs |-> needs, link |-> 1]
    <3>1. applicant[a] \in Row
      OBVIOUS
    <3>2. row \in Row
      BY <3>1, PrejoiningAssumption DEF Row, Statuses, Forms
    <3>3. row.status = "DRAFT"
      BY <3>1 DEF Row
    <3>4. applicant' = [applicant EXCEPT ![a] = row]
      BY <1>2 DEF Invite
    <3> HIDE DEF row
    <3>5. QED
      BY <3>2, <3>3, <3>4
  <2>2. applicant[a].status = "NONE"
    BY <1>2 DEF Invite
  <2>3. (applicant \in [Applicants -> Row])'
    BY <2>1
  <2>4. (files \in [Applicants -> [Needs -> 0..MaxRevisions]])'
    BY <1>2, <2>1, <2>2 DEF Invite
  <2>5. (uploads \in [Applicants -> 0..MaxUploads])'
    BY <1>2, <2>1, <2>2 DEF Invite
  <2>6. (hired \in SUBSET Employee)'
    BY <1>2, <2>1, <2>2 DEF Invite
  <2>7. (screen \in [Screens -> View])'
    BY <1>2, <2>1, <2>2, BlankView DEF Invite
  <2>8. (approvedAs \in [Applicants -> Contents])'
    BY <1>2, <2>1, <2>2, EmptyTyped DEF Invite
  <2>9. (\A t \in Screens : ScreenInv(t))'
    <3>1. \A t \in Screens : screen[t].of # {a}
      BY <2>2 DEF ScreenInv
    <3>2. QED
      BY <1>2, <2>1, <3>1 DEF Invite, ScreenInv
  <2>10. (\A b \in Applicants : CandidateInv(b))'
    <3>1. ASSUME NEW b \in Applicants \ {a} PROVE CandidateInv(b)'
      BY <1>2, <2>1, CandidateKept DEF Invite
    <3>2. CandidateInv(a)'
      BY <2>1 DEF CandidateInv, Closed
    <3>3. QED
      BY <3>1, <3>2
  <2>11. (\A h \in hired : EmployeeInv(h))'
    BY <1>2, <2>1, <2>2, EmployeesKept DEF Invite
  <2>12. Unshared'
    BY <1>2, <2>1, <2>2, EmployeesKept DEF Invite
  <2>13. QED
    BY <2>3, <2>4, <2>5, <2>6, <2>7, <2>8, <2>9, <2>10, <2>11, <2>12
<1>3. ASSUME NEW s \in Screens, NEW a \in Applicants, NEW link \in {0, applicant[a].link},
             OpenScreen(s, a, link)
      PROVE  PjInv'
  <2>1. PICK view \in View :
          /\ screen' = [screen EXCEPT ![s] = view]
          /\ view.of = {a} /\ view.revision = applicant[a].revision /\ view.loaded = FALSE
          /\ view.shows.form = applicant[a].form
    <3> DEFINE view == [of |-> {a}, revision |-> applicant[a].revision, link |-> link, loaded |-> FALSE,
           shows |-> [form |-> applicant[a].form, files |-> NoFiles]]
    <3>1. [form |-> applicant[a].form, files |-> NoFiles] \in Contents
      BY NoFilesTyped DEF Contents, Row
    <3>2. link \in 0..MaxRevisions + 1
      BY PrejoiningAssumption DEF Row
    <3>3. view \in View
      BY <3>1, <3>2 DEF View, Row
    <3>4. QED
      BY <1>3, <3>3 DEF OpenScreen
  <2>2. applicant[a].status # "NONE" /\ applicant[a].revision \in Nat
    BY <1>3 DEF OpenScreen, Admits, Row
  <2>3. (applicant \in [Applicants -> Row])'
    BY <1>3, <2>1, <2>2 DEF OpenScreen, Admits
  <2>4. (files \in [Applicants -> [Needs -> 0..MaxRevisions]])'
    BY <1>3, <2>1, <2>2 DEF OpenScreen, Admits
  <2>5. (uploads \in [Applicants -> 0..MaxUploads])'
    BY <1>3, <2>1, <2>2 DEF OpenScreen, Admits
  <2>6. (hired \in SUBSET Employee)'
    BY <1>3, <2>1, <2>2 DEF OpenScreen, Admits
  <2>7. (screen \in [Screens -> View])'
    BY <2>1
  <2>8. (approvedAs \in [Applicants -> Contents])'
    BY <1>3, <2>1, <2>2, EmptyTyped DEF OpenScreen, Admits
  <2>9. (\A t \in Screens : ScreenInv(t))'
    <3>1. ASSUME NEW t \in Screens PROVE ScreenInv(t)'
      <4>1. CASE t = s
        <5>1. screen'[t] = view /\ \A b \in Applicants : view.of = {b} => b = a
          BY <2>1, <4>1
        <5>2. applicant' = applicant /\ files' = files
          BY <1>3 DEF OpenScreen
        <5>3. /\ view.revision <= applicant'[a].revision /\ applicant'[a].status # "NONE"
              /\ view.shows.form = applicant'[a].form /\ ~view.loaded
          BY <2>1, <2>2, <5>2
        <5>4. QED
          BY <5>1, <5>3 DEF ScreenInv
      <4>2. CASE t # s
        BY <1>3, <2>1, <4>2 DEF OpenScreen, ScreenInv
      <4>3. QED
        BY <4>1, <4>2
    <3>2. QED
      BY <3>1
  <2>10. (\A b \in Applicants : CandidateInv(b))'
    BY <1>3, CandidateKept DEF OpenScreen
  <2>11. (\A h \in hired : EmployeeInv(h))'
    BY <1>3, EmployeesKept DEF OpenScreen
  <2>12. Unshared'
    BY <1>3, EmployeesKept DEF OpenScreen
  <2>13. QED
    BY <2>3, <2>4, <2>5, <2>6, <2>7, <2>8, <2>9, <2>10, <2>11, <2>12
<1>4. ASSUME NEW s \in Screens, NEW a \in Applicants, LoadFiles(s, a) PROVE PjInv'
  <2>1. PICK view \in View :
          /\ screen' = [screen EXCEPT ![s] = view]
          /\ view.of = {a} /\ view.revision = screen[s].revision
          /\ view.shows.form = screen[s].shows.form /\ view.shows.files = files[a]
    <3>1. [screen[s].shows EXCEPT !.files = files[a]] \in Contents
          /\ [screen[s].shows EXCEPT !.files = files[a]].form = screen[s].shows.form
          /\ [screen[s].shows EXCEPT !.files = files[a]].files = files[a]
      BY ZenonT(60) DEF View, Contents
    <3> DEFINE view == [screen[s] EXCEPT !.loaded = TRUE, !.shows = [screen[s].shows EXCEPT !.files = files[a]]]
    <3>2. view \in View /\ view.of = screen[s].of /\ view.revision = screen[s].revision
          /\ view.shows = [screen[s].shows EXCEPT !.files = files[a]]
      BY ZenonT(60), <3>1 DEF View
    <3>3. screen' = [screen EXCEPT ![s] = view] /\ screen[s].of = {a}
      BY ZenonT(60), <1>4 DEF LoadFiles
    <3> HIDE DEF view
    <3>4. QED
      BY <3>1, <3>2, <3>3
  <2>2. (applicant \in [Applicants -> Row])'
    BY <1>4, <2>1 DEF LoadFiles
  <2>3. (files \in [Applicants -> [Needs -> 0..MaxRevisions]])'
    BY <1>4, <2>1 DEF LoadFiles
  <2>4. (uploads \in [Applicants -> 0..MaxUploads])'
    BY <1>4, <2>1 DEF LoadFiles
  <2>5. (hired \in SUBSET Employee)'
    BY <1>4, <2>1 DEF LoadFiles
  <2>6. (screen \in [Screens -> View])'
    BY <2>1
  <2>7. (approvedAs \in [Applicants -> Contents])'
    BY <1>4, <2>1, EmptyTyped DEF LoadFiles
  <2>8. (\A t \in Screens : ScreenInv(t))'
    <3>1. ASSUME NEW t \in Screens PROVE ScreenInv(t)'
      <4>1. CASE t = s
        <5>1. screen'[t] = view /\ \A b \in Applicants : view.of = {b} => b = a
          BY <2>1, <4>1
        <5>2. applicant' = applicant /\ files' = files
          BY <1>4 DEF LoadFiles
        <5>3. screen[s].of = {a} /\ ScreenInv(s)
          BY <1>4 DEF LoadFiles
        <5>4. QED
          BY ZenonT(60), <2>1, <4>1, <5>1, <5>2, <5>3 DEF ScreenInv
      <4>2. CASE t # s
        BY SMTT(60), <1>4, <2>1, <4>2 DEF LoadFiles, ScreenInv
      <4>3. QED
        BY <4>1, <4>2
    <3>2. QED
      BY <3>1
  <2>9. (\A b \in Applicants : CandidateInv(b))'
    BY <1>4, CandidateKept DEF LoadFiles
  <2>10. (\A h \in hired : EmployeeInv(h))'
    BY <1>4, EmployeesKept DEF LoadFiles
  <2>11. Unshared'
    BY <1>4, EmployeesKept DEF LoadFiles
  <2>12. QED
    BY <2>2, <2>3, <2>4, <2>5, <2>6, <2>7, <2>8, <2>9, <2>10, <2>11
<1>5. ASSUME NEW s \in Screens, NEW a \in Applicants, Reissue(s, a) PROVE PjInv'
  <2>1. /\ screen' \in [Screens -> View] /\ screen'[s].of = {}
        /\ \A t \in Screens \ {s} : screen'[t] = screen[t]
        /\ applicant[a].revision + 1 \in 0..MaxRevisions
        /\ applicant[a].revision + 2 \in 0..MaxRevisions + 1
        /\ applicant[a].status \notin Closed \cup {"NONE"}
        /\ screen[s].shows = [form |-> applicant[a].form, files |-> files[a]]
    BY <1>5, ActsOnEffect DEF Reissue
  <2>2. PICK row \in Row :
          /\ applicant' = [applicant EXCEPT ![a] = row]
          /\ row.revision = applicant[a].revision + 1
          /\ row.status = applicant[a].status /\ row.form = applicant[a].form
          /\ row.needs = applicant[a].needs
    <3> DEFINE row == [applicant[a] EXCEPT !.revision = applicant[a].revision + 1, !.link = applicant[a].revision + 2]
    <3>1. applicant[a] \in Row
      OBVIOUS
    <3>2. row \in Row
      BY <3>1, <2>1, <1>5 DEF Row
    <3>3. /\ row.revision = applicant[a].revision + 1
          /\ row.status = applicant[a].status /\ row.form = applicant[a].form
          /\ row.needs = applicant[a].needs
      BY <3>1 DEF Row
    <3>4. applicant' = [applicant EXCEPT ![a] = row]
      BY <1>5 DEF Reissue
    <3> HIDE DEF row
    <3>5. QED
      BY <3>2, <3>3, <3>4
  <2>3. (applicant \in [Applicants -> Row])'
    BY <2>2
  <2>4. (files \in [Applicants -> [Needs -> 0..MaxRevisions]])'
    BY <1>5, <2>1, <2>2 DEF Reissue
  <2>5. (uploads \in [Applicants -> 0..MaxUploads])'
    BY <1>5, <2>1, <2>2 DEF Reissue
  <2>6. (hired \in SUBSET Employee)'
    BY <1>5, <2>1, <2>2 DEF Reissue
  <2>7. (screen \in [Screens -> View])'
    BY <2>1
  <2>8. (approvedAs \in [Applicants -> Contents])'
    BY <1>5, <2>1, <2>2, EmptyTyped DEF Reissue
  <2>9. (\A t \in Screens : ScreenInv(t))'
    <3>1. (\A b \in Applicants \ {a} : files'[b] = files[b]) /\ row.status # "NONE"
      BY <1>5, <2>1, <2>2 DEF Reissue
    <3>2. QED
      BY <2>1, <2>2, <3>1, ScreensStale
  <2>10. (\A b \in Applicants : CandidateInv(b))'
    <3>1. ASSUME NEW b \in Applicants \ {a} PROVE CandidateInv(b)'
      BY <1>5, <2>2, CandidateKept DEF Reissue
    <3>2. CandidateInv(a)'
      BY <1>5, <2>1, <2>2 DEF Reissue, CandidateInv, Complete, Closed
    <3>3. QED
      BY <3>1, <3>2
  <2>11. (\A h \in hired : EmployeeInv(h))'
    BY <1>5, <2>1, <2>2, EmployeesKept DEF Reissue, Closed
  <2>12. Unshared'
    BY <1>5, <2>1, <2>2, EmployeesKept DEF Reissue, Closed
  <2>13. QED
    BY <2>3, <2>4, <2>5, <2>6, <2>7, <2>8, <2>9, <2>10, <2>11, <2>12
<1>6. ASSUME NEW s \in Screens, NEW a \in Applicants, NEW what \in DOMAIN Transition,
             Review(s, a, what)
      PROVE  PjInv'
  <2>1. /\ screen' \in [Screens -> View] /\ screen'[s].of = {}
        /\ \A t \in Screens \ {s} : screen'[t] = screen[t]
        /\ applicant[a].revision + 1 \in 0..MaxRevisions
        /\ applicant[a].revision + 2 \in 0..MaxRevisions + 1
        /\ applicant[a].status \notin Closed \cup {"NONE"}
        /\ screen[s].shows = [form |-> applicant[a].form, files |-> files[a]]
    BY <1>6, ActsOnEffect DEF Review
  <2>2. /\ applicant[a].status \in Transition[what].from /\ what \in {"APPROVE", "REQUEST_CHANGES", "CANCEL"}
        /\ approvedAs' = [approvedAs EXCEPT ![a] = IF what = "APPROVE" THEN screen[s].shows ELSE Empty]
    BY <1>6, Moves DEF Review
  <2>3. Transition[what].to \in {"APPROVED", "CHANGES_REQUESTED", "CANCELLED"} \cap Statuses
        /\ (Transition[what].to = "APPROVED" <=> what = "APPROVE")
    BY <2>2, Moves
  <2>4. PICK row \in Row :
          /\ applicant' = [applicant EXCEPT ![a] = row]
          /\ row.revision = applicant[a].revision + 1
          /\ row.status = Transition[what].to /\ row.form = applicant[a].form
          /\ row.needs = applicant[a].needs /\ (what = "APPROVE" \/ row.link = 0)
    <3> DEFINE row == [applicant[a] EXCEPT !.status = Transition[what].to, !.revision = applicant[a].revision + 1,
                                       !.link = IF what = "APPROVE" THEN applicant[a].link ELSE 0]
    <3>1. applicant[a] \in Row
      OBVIOUS
    <3>a. (IF what = "APPROVE" THEN applicant[a].link ELSE 0) \in 0..MaxRevisions + 1
      BY <3>1, PrejoiningAssumption DEF Row
    <3>2. row \in Row
      BY <3>1, <3>a, <2>1, <2>3 DEF Row
    <3>3. /\ row.revision = applicant[a].revision + 1
          /\ row.status = Transition[what].to /\ row.form = applicant[a].form
          /\ row.needs = applicant[a].needs /\ (what = "APPROVE" \/ row.link = 0)
      BY <3>1 DEF Row
    <3>4. applicant' = [applicant EXCEPT ![a] = row]
      BY <1>6 DEF Review
    <3> HIDE DEF row
    <3>5. QED
      BY <3>2, <3>3, <3>4
  <2>5. (applicant \in [Applicants -> Row])'
    BY <2>4
  <2>6. (files \in [Applicants -> [Needs -> 0..MaxRevisions]])'
    BY <1>6, <2>1, <2>2, <2>3, <2>4 DEF Review
  <2>7. (uploads \in [Applicants -> 0..MaxUploads])'
    BY <1>6, <2>1, <2>2, <2>3, <2>4 DEF Review
  <2>8. (hired \in SUBSET Employee)'
    BY <1>6, <2>1, <2>2, <2>3, <2>4 DEF Review
  <2>9. (screen \in [Screens -> View])'
    BY <2>1
  <2>10. (approvedAs \in [Applicants -> Contents])'
    <3>1. screen[s].shows \in Contents
      BY DEF View
    <3>2. QED
      BY <2>2, <3>1, EmptyTyped
  <2>11. (\A t \in Screens : ScreenInv(t))'
    <3>1. (\A b \in Applicants \ {a} : files'[b] = files[b]) /\ row.status # "NONE"
      BY <1>6, <2>1, <2>3, <2>4 DEF Review
    <3>2. QED
      BY <2>1, <2>4, <3>1, ScreensStale
  <2>12. (\A b \in Applicants : CandidateInv(b))'
    <3>1. ASSUME NEW b \in Applicants \ {a} PROVE CandidateInv(b)'
      BY <1>6, <2>4, CandidateKept DEF Review
    <3>2. CandidateInv(a)'
      <4>1. CASE what = "APPROVE"
        <5>1. applicant[a].status = "SUBMITTED" /\ row.status = "APPROVED"
          BY <2>2, <2>4, <4>1, Moves
        <5>2. approvedAs'[a] = [form |-> applicant[a].form, files |-> files[a]]
          BY <2>1, <2>2, <4>1
        <5>3. Complete(a)' <=> Complete(a)
          BY <1>6, <2>4 DEF Review, Complete
        <5>4. QED
          BY <1>6, <2>4, <5>1, <5>2, <5>3 DEF Review, CandidateInv, Closed
      <4>2. CASE what # "APPROVE"
        <5>1. row.status \in {"CHANGES_REQUESTED", "CANCELLED"} /\ row.link = 0
          BY <2>3, <2>4, <4>2
        <5>2. QED
          BY <2>4, <5>1 DEF CandidateInv, Closed
      <4>3. QED
        BY <4>1, <4>2
    <3>3. QED
      BY <3>1, <3>2
  <2>13. (\A h \in hired : EmployeeInv(h))'
    BY <1>6, <2>1, <2>2, <2>3, <2>4, EmployeesKept DEF Review, Closed
  <2>14. Unshared'
    BY <1>6, <2>1, <2>2, <2>3, <2>4, EmployeesKept DEF Review, Closed
  <2>15. QED
    BY <2>5, <2>6, <2>7, <2>8, <2>9, <2>10, <2>11, <2>12, <2>13, <2>14
<1>7. ASSUME NEW s \in Screens, NEW a \in Applicants, NEW code \in Codes,
             Confirm(s, a, code)
      PROVE  PjInv'
  <2>1. /\ screen' \in [Screens -> View] /\ screen'[s].of = {}
        /\ \A t \in Screens \ {s} : screen'[t] = screen[t]
        /\ applicant[a].revision + 1 \in 0..MaxRevisions
        /\ applicant[a].revision + 2 \in 0..MaxRevisions + 1
        /\ applicant[a].status \notin Closed \cup {"NONE"}
        /\ screen[s].shows = [form |-> applicant[a].form, files |-> files[a]]
    BY <1>7, ActsOnEffect DEF Confirm
  <2>2. PICK row \in Row :
          /\ applicant' = [applicant EXCEPT ![a] = row]
          /\ row.revision = applicant[a].revision + 1
          /\ row.status = "JOINED" /\ row.form = applicant[a].form
          /\ row.needs = applicant[a].needs /\ row.link = 0
    <3> DEFINE row == [applicant[a] EXCEPT !.status = "JOINED", !.revision = applicant[a].revision + 1, !.link = 0]
    <3>1. applicant[a] \in Row
      OBVIOUS
    <3>a. 0 \in 0..MaxRevisions + 1 /\ "JOINED" \in Statuses
      BY <3>1, PrejoiningAssumption DEF Row, Statuses, Closed
    <3>2. row \in Row
      BY <3>1, <3>a, <2>1 DEF Row
    <3>3. /\ row.revision = applicant[a].revision + 1
          /\ row.status = "JOINED" /\ row.form = applicant[a].form
          /\ row.needs = applicant[a].needs /\ row.link = 0
      BY <3>1 DEF Row
    <3>4. applicant' = [applicant EXCEPT ![a] = row]
      BY <1>7 DEF Confirm
    <3> HIDE DEF row
    <3>5. QED
      BY <3>2, <3>3, <3>4
  <2>3. /\ applicant[a].status = "APPROVED" /\ Complete(a) /\ Free(applicant[a].form, code)
        /\ files' = files /\ approvedAs' = approvedAs
        /\ approvedAs[a] = [form |-> applicant[a].form, files |-> files[a]]
    BY <1>7 DEF Confirm, CandidateInv
  <2>4. PICK new \in Employee :
          /\ hired' = hired \cup {new} /\ new.email = applicant[a].form /\ new.code = code
          /\ new.from = {a} /\ new.files = {files[a][n] : n \in Needs} \ {0}
    <3> DEFINE new == [email |-> applicant[a].form, code |-> code, from |-> {a},
                       files |-> {files[a][n] : n \in Needs} \ {0}]
    <3>1. applicant[a].form \in Emails
      BY <2>3 DEF Complete, Row, Forms
    <3>2. {files[a][n] : n \in Needs} \ {0} \in SUBSET (1..MaxRevisions)
      BY PrejoiningAssumption
    <3>3. new \in Employee
      BY <3>1, <3>2 DEF Employee
    <3>4. QED
      BY <1>7, <3>3 DEF Confirm
  <2>5. \A h \in hired : h.from # {a}
    BY <2>3 DEF EmployeeInv
  <2>6. \A h \in hired : h.email # new.email /\ h.code # new.code
    BY <2>3, <2>4 DEF Free
  <2>7. (applicant \in [Applicants -> Row])'
    BY <2>2
  <2>8. (files \in [Applicants -> [Needs -> 0..MaxRevisions]])'
    BY <1>7, <2>1, <2>2, <2>3, <2>4, <2>5, <2>6 DEF Confirm
  <2>9. (uploads \in [Applicants -> 0..MaxUploads])'
    BY <1>7, <2>1, <2>2, <2>3, <2>4, <2>5, <2>6 DEF Confirm
  <2>10. (hired \in SUBSET Employee)'
    BY <2>4
  <2>11. (screen \in [Screens -> View])'
    BY <2>1
  <2>12. (approvedAs \in [Applicants -> Contents])'
    BY <1>7, <2>1, <2>2, <2>3, <2>4, <2>5, <2>6, EmptyTyped DEF Confirm
  <2>13. (\A t \in Screens : ScreenInv(t))'
    <3>1. (\A b \in Applicants \ {a} : files'[b] = files[b]) /\ row.status # "NONE"
      BY <1>7, <2>1, <2>2 DEF Confirm
    <3>2. QED
      BY <2>1, <2>2, <3>1, ScreensStale
  <2>14. (\A b \in Applicants : CandidateInv(b))'
    <3>1. ASSUME NEW b \in Applicants \ {a} PROVE CandidateInv(b)'
      BY <2>2, <2>3, <2>4, CandidateKept
    <3>2. Complete(a)' <=> Complete(a)
      BY <2>2, <2>3 DEF Complete
    <3>3. CandidateInv(a)'
      BY <2>2, <2>3, <2>4, <3>2 DEF CandidateInv, Closed
    <3>4. QED
      BY <3>1, <3>3
  <2>15. (\A h \in hired : EmployeeInv(h))'
    <3>1. ASSUME NEW h \in hired PROVE EmployeeInv(h)'
      <4>1. \A b \in Applicants : h.from = {b} => b # a
        BY <2>5
      <4>2. ASSUME NEW b \in Applicants, h.from = {b}
            PROVE  /\ applicant'[b] = applicant[b] /\ approvedAs'[b] = approvedAs[b]
                   /\ \A g \in hired' : g.from = {b} => g \in hired
        BY <2>2, <2>3, <2>4, <4>1, <4>2
      <4>3. ASSUME NEW b \in Applicants, h.from = {b}
            PROVE  /\ applicant'[b].status = "JOINED" /\ h.email = approvedAs'[b].form
                   /\ h.files = {approvedAs'[b].files[n] : n \in Needs} \ {0}
                   /\ \A g \in hired' : g.from = {b} => g = h
        <5>1. /\ applicant[b].status = "JOINED" /\ h.email = approvedAs[b].form
              /\ h.files = {approvedAs[b].files[n] : n \in Needs} \ {0}
              /\ \A g \in hired : g.from = {b} => g = h
          BY <4>3 DEF EmployeeInv
        <5>2. QED
          BY <4>2, <4>3, <5>1
      <4>4. QED
        BY <4>3 DEF EmployeeInv
    <3>2. EmployeeInv(new)'
      <4>1. \A b \in Applicants : new.from = {b} => b = a
        BY <2>4
      <4>2. \A g \in hired' : g.from = {a} => g = new
        BY <2>4, <2>5
      <4>3. new.files = {approvedAs[a].files[n] : n \in Needs} \ {0} /\ new.email = approvedAs[a].form
        BY <2>3, <2>4
      <4>4. QED
        BY <2>2, <2>3, <4>1, <4>2, <4>3 DEF EmployeeInv
    <3>3. QED
      BY <2>4, <3>1, <3>2
  <2>16. Unshared'
    BY <2>4, <2>6 DEF Unshared
  <2>17. QED
    BY <2>7, <2>8, <2>9, <2>10, <2>11, <2>12, <2>13, <2>14, <2>15, <2>16
<1>8. ASSUME NEW s \in Screens, NEW a \in Applicants, NEW form \in Forms, NEW submit \in BOOLEAN,
             SaveAnswers(s, a, form, submit)
      PROVE  PjInv'
  <2>1. /\ screen' \in [Screens -> View] /\ screen'[s].of = {}
        /\ \A t \in Screens \ {s} : screen'[t] = screen[t]
        /\ applicant[a].revision + 1 \in 0..MaxRevisions
        /\ applicant[a].revision + 2 \in 0..MaxRevisions + 1
        /\ applicant[a].status \notin Closed \cup {"NONE"}
        /\ screen[s].shows = [form |-> applicant[a].form, files |-> files[a]]
    BY <1>8, ActsOnEffect DEF SaveAnswers
  <2>2. PICK row \in Row :
          /\ applicant' = [applicant EXCEPT ![a] = row]
          /\ row.revision = applicant[a].revision + 1
          /\ row.form = form /\ row.needs = applicant[a].needs
          /\ row.status = IF submit THEN "SUBMITTED" ELSE applicant[a].status
    <3> DEFINE row == [applicant[a] EXCEPT !.form = form, !.revision = applicant[a].revision + 1,
                                       !.status = IF submit THEN "SUBMITTED" ELSE applicant[a].status]
    <3>1. applicant[a] \in Row
      OBVIOUS
    <3>2. row \in Row
      BY <3>1, <2>1, <1>8 DEF Row, Statuses
    <3>3. /\ row.revision = applicant[a].revision + 1
          /\ row.form = form /\ row.needs = applicant[a].needs
          /\ row.status = IF submit THEN "SUBMITTED" ELSE applicant[a].status
      BY <3>1 DEF Row
    <3>4. applicant' = [applicant EXCEPT ![a] = row]
      BY <1>8 DEF SaveAnswers
    <3> HIDE DEF row
    <3>5. QED
      BY <3>2, <3>3, <3>4
  <2>3. (applicant \in [Applicants -> Row])'
    BY <2>2
  <2>4. (files \in [Applicants -> [Needs -> 0..MaxRevisions]])'
    BY <1>8, <2>1, <2>2 DEF SaveAnswers
  <2>5. (uploads \in [Applicants -> 0..MaxUploads])'
    BY <1>8, <2>1, <2>2 DEF SaveAnswers
  <2>6. (hired \in SUBSET Employee)'
    BY <1>8, <2>1, <2>2 DEF SaveAnswers
  <2>7. (screen \in [Screens -> View])'
    BY <2>1
  <2>8. (approvedAs \in [Applicants -> Contents])'
    BY <1>8, <2>1, <2>2, EmptyTyped DEF SaveAnswers
  <2>9. (\A t \in Screens : ScreenInv(t))'
    <3>1. (\A b \in Applicants \ {a} : files'[b] = files[b]) /\ row.status # "NONE"
      BY <1>8, <2>1, <2>2 DEF SaveAnswers
    <3>2. QED
      BY <2>1, <2>2, <3>1, ScreensStale
  <2>10. (\A b \in Applicants : CandidateInv(b))'
    <3>1. ASSUME NEW b \in Applicants \ {a} PROVE CandidateInv(b)'
      BY <1>8, <2>2, CandidateKept DEF SaveAnswers
    <3>2. CandidateInv(a)'
      BY <1>8, <2>1, <2>2 DEF SaveAnswers, OpenToEdits, CandidateInv, Complete, Closed
    <3>3. QED
      BY <3>1, <3>2
  <2>11. (\A h \in hired : EmployeeInv(h))'
    BY <1>8, <2>1, <2>2, EmployeesKept DEF SaveAnswers, OpenToEdits, Closed
  <2>12. Unshared'
    BY <1>8, <2>1, <2>2, EmployeesKept DEF SaveAnswers, OpenToEdits, Closed
  <2>13. QED
    BY <2>3, <2>4, <2>5, <2>6, <2>7, <2>8, <2>9, <2>10, <2>11, <2>12
<1>9. ASSUME NEW s \in Screens, NEW a \in Applicants, NEW n \in Needs, Upload(s, a, n) PROVE PjInv'
  <2>1. /\ screen' \in [Screens -> View] /\ screen'[s].of = {}
        /\ \A t \in Screens \ {s} : screen'[t] = screen[t]
        /\ applicant[a].revision + 1 \in 0..MaxRevisions
        /\ applicant[a].revision + 2 \in 0..MaxRevisions + 1
        /\ applicant[a].status \notin Closed \cup {"NONE"}
        /\ screen[s].shows = [form |-> applicant[a].form, files |-> files[a]]
    BY <1>9, ActsOnEffect DEF Upload
  <2>2. PICK row \in Row :
          /\ applicant' = [applicant EXCEPT ![a] = row]
          /\ row.revision = applicant[a].revision + 1
          /\ row.status = applicant[a].status /\ row.form = applicant[a].form
          /\ row.needs = applicant[a].needs
    <3> DEFINE row == [applicant[a] EXCEPT !.revision = applicant[a].revision + 1]
    <3>1. applicant[a] \in Row
      OBVIOUS
    <3>2. row \in Row
      BY <3>1, <2>1, <1>9 DEF Row
    <3>3. /\ row.revision = applicant[a].revision + 1
          /\ row.status = applicant[a].status /\ row.form = applicant[a].form
          /\ row.needs = applicant[a].needs
      BY <3>1 DEF Row
    <3>4. applicant' = [applicant EXCEPT ![a] = row]
      BY <1>9 DEF Upload
    <3> HIDE DEF row
    <3>5. QED
      BY <3>2, <3>3, <3>4
  <2>3. (applicant \in [Applicants -> Row])'
    BY <2>2
  <2>4. (files \in [Applicants -> [Needs -> 0..MaxRevisions]])'
    <3>1. [files[a] EXCEPT ![n] = applicant[a].revision + 1] \in [Needs -> 0..MaxRevisions]
      BY <2>1, PrejoiningAssumption
    <3>2. files' = [files EXCEPT ![a] = [files[a] EXCEPT ![n] = applicant[a].revision + 1]]
      BY <1>9 DEF Upload
    <3>3. QED
      BY <3>1, <3>2
  <2>5. (uploads \in [Applicants -> 0..MaxUploads])'
    <3>1. uploads[a] \in 0..MaxUploads /\ uploads[a] < MaxUploads
      BY <1>9 DEF Upload
    <3>2. uploads[a] + 1 \in 0..MaxUploads
      BY <3>1, PrejoiningAssumption
    <3>3. QED
      BY <1>9, <3>2 DEF Upload
  <2>6. (hired \in SUBSET Employee)'
    BY <1>9, <2>1, <2>2 DEF Upload
  <2>7. (screen \in [Screens -> View])'
    BY <2>1
  <2>8. (approvedAs \in [Applicants -> Contents])'
    BY <1>9, <2>1, <2>2, EmptyTyped DEF Upload
  <2>9. (\A t \in Screens : ScreenInv(t))'
    <3>1. (\A b \in Applicants \ {a} : files'[b] = files[b]) /\ row.status # "NONE"
      BY <1>9, <2>1, <2>2 DEF Upload
    <3>2. QED
      BY <2>1, <2>2, <3>1, ScreensStale
  <2>10. (\A b \in Applicants : CandidateInv(b))'
    <3>1. ASSUME NEW b \in Applicants \ {a} PROVE CandidateInv(b)'
      BY <1>9, <2>2, CandidateKept DEF Upload
    <3>2. CandidateInv(a)'
      BY <1>9, <2>1, <2>2 DEF Upload, OpenToEdits, CandidateInv, Closed
    <3>3. QED
      BY <3>1, <3>2
  <2>11. (\A h \in hired : EmployeeInv(h))'
    BY <1>9, <2>1, <2>2, EmployeesKept DEF Upload, Closed
  <2>12. Unshared'
    BY <1>9, <2>1, <2>2, EmployeesKept DEF Upload, Closed
  <2>13. QED
    BY <2>3, <2>4, <2>5, <2>6, <2>7, <2>8, <2>9, <2>10, <2>11, <2>12
<1>10. ASSUME NEW s \in Screens, NEW a \in Applicants, NEW n \in Needs,
              DeleteDocument(s, a, n)
       PROVE  PjInv'
  <2>1. /\ screen' \in [Screens -> View] /\ screen'[s].of = {}
        /\ \A t \in Screens \ {s} : screen'[t] = screen[t]
        /\ applicant[a].revision + 1 \in 0..MaxRevisions
        /\ applicant[a].revision + 2 \in 0..MaxRevisions + 1
        /\ applicant[a].status \notin Closed \cup {"NONE"}
        /\ screen[s].shows = [form |-> applicant[a].form, files |-> files[a]]
    BY <1>10, ActsOnEffect DEF DeleteDocument
  <2>2. PICK row \in Row :
          /\ applicant' = [applicant EXCEPT ![a] = row]
          /\ row.revision = applicant[a].revision + 1
          /\ row.status = applicant[a].status /\ row.form = applicant[a].form
          /\ row.needs = applicant[a].needs
    <3> DEFINE row == [applicant[a] EXCEPT !.revision = applicant[a].revision + 1]
    <3>1. applicant[a] \in Row
      OBVIOUS
    <3>2. row \in Row
      BY <3>1, <2>1, <1>10 DEF Row
    <3>3. /\ row.revision = applicant[a].revision + 1
          /\ row.status = applicant[a].status /\ row.form = applicant[a].form
          /\ row.needs = applicant[a].needs
      BY <3>1 DEF Row
    <3>4. applicant' = [applicant EXCEPT ![a] = row]
      BY <1>10 DEF DeleteDocument
    <3> HIDE DEF row
    <3>5. QED
      BY <3>2, <3>3, <3>4
  <2>3. (applicant \in [Applicants -> Row])'
    BY <2>2
  <2>4. (files \in [Applicants -> [Needs -> 0..MaxRevisions]])'
    <3>1. [files[a] EXCEPT ![n] = 0] \in [Needs -> 0..MaxRevisions]
      BY <2>1, PrejoiningAssumption
    <3>2. files' = [files EXCEPT ![a] = [files[a] EXCEPT ![n] = 0]]
      BY <1>10 DEF DeleteDocument
    <3>3. QED
      BY <3>1, <3>2
  <2>5. (uploads \in [Applicants -> 0..MaxUploads])'
    BY <1>10, <2>1, <2>2 DEF DeleteDocument
  <2>6. (hired \in SUBSET Employee)'
    BY <1>10, <2>1, <2>2 DEF DeleteDocument
  <2>7. (screen \in [Screens -> View])'
    BY <2>1
  <2>8. (approvedAs \in [Applicants -> Contents])'
    BY <1>10, <2>1, <2>2, EmptyTyped DEF DeleteDocument
  <2>9. (\A t \in Screens : ScreenInv(t))'
    <3>1. (\A b \in Applicants \ {a} : files'[b] = files[b]) /\ row.status # "NONE"
      BY <1>10, <2>1, <2>2 DEF DeleteDocument
    <3>2. QED
      BY <2>1, <2>2, <3>1, ScreensStale
  <2>10. (\A b \in Applicants : CandidateInv(b))'
    <3>1. ASSUME NEW b \in Applicants \ {a} PROVE CandidateInv(b)'
      BY <1>10, <2>2, CandidateKept DEF DeleteDocument
    <3>2. CandidateInv(a)'
      BY <1>10, <2>1, <2>2 DEF DeleteDocument, OpenToEdits, CandidateInv, Closed
    <3>3. QED
      BY <3>1, <3>2
  <2>11. (\A h \in hired : EmployeeInv(h))'
    BY <1>10, <2>1, <2>2, EmployeesKept DEF DeleteDocument, Closed
  <2>12. Unshared'
    BY <1>10, <2>1, <2>2, EmployeesKept DEF DeleteDocument, Closed
  <2>13. QED
    BY <2>3, <2>4, <2>5, <2>6, <2>7, <2>8, <2>9, <2>10, <2>11, <2>12
<1>11. ASSUME NEW s \in Screens, CloseScreen(s) PROVE PjInv'
  <2>1. (applicant \in [Applicants -> Row])'
    BY <1>11 DEF CloseScreen
  <2>2. (files \in [Applicants -> [Needs -> 0..MaxRevisions]])'
    BY <1>11 DEF CloseScreen
  <2>3. (uploads \in [Applicants -> 0..MaxUploads])'
    BY <1>11 DEF CloseScreen
  <2>4. (hired \in SUBSET Employee)'
    BY <1>11 DEF CloseScreen
  <2>5. (screen \in [Screens -> View])'
    BY <1>11, BlankView DEF CloseScreen
  <2>6. (approvedAs \in [Applicants -> Contents])'
    BY <1>11, EmptyTyped DEF CloseScreen
  <2>7. (\A t \in Screens : ScreenInv(t))'
    BY ZenonT(60), <1>11, BlankView DEF CloseScreen, ScreenInv
  <2>8. (\A b \in Applicants : CandidateInv(b))'
    BY <1>11, CandidateKept DEF CloseScreen
  <2>9. (\A h \in hired : EmployeeInv(h))'
    BY <1>11, EmployeesKept DEF CloseScreen
  <2>10. Unshared'
    BY <1>11, EmployeesKept DEF CloseScreen
  <2>11. QED
    BY <2>1, <2>2, <2>3, <2>4, <2>5, <2>6, <2>7, <2>8, <2>9, <2>10
<1>12. ASSUME NEW email \in Emails, NEW code \in Codes, HireDirectly(email, code) PROVE PjInv'
  <2>1. PICK new \in Employee :
          /\ hired' = hired \cup {new} /\ new.email = email /\ new.code = code /\ new.from = {}
    <3>1. [email |-> email, code |-> code, from |-> {}, files |-> {}] \in Employee
      BY DEF Employee
    <3>2. QED
      BY <1>12, <3>1 DEF HireDirectly
  <2>2. \A h \in hired : h.email # new.email /\ h.code # new.code
    BY <1>12, <2>1 DEF HireDirectly, Free
  <2>3. (applicant \in [Applicants -> Row])'
    BY <1>12, <2>1, <2>2 DEF HireDirectly, Free
  <2>4. (files \in [Applicants -> [Needs -> 0..MaxRevisions]])'
    BY <1>12, <2>1, <2>2 DEF HireDirectly, Free
  <2>5. (uploads \in [Applicants -> 0..MaxUploads])'
    BY <1>12, <2>1, <2>2 DEF HireDirectly, Free
  <2>6. (hired \in SUBSET Employee)'
    BY <2>1
  <2>7. (screen \in [Screens -> View])'
    BY <1>12, <2>1, <2>2, BlankView DEF HireDirectly, Free
  <2>8. (approvedAs \in [Applicants -> Contents])'
    BY <1>12, <2>1, <2>2, EmptyTyped DEF HireDirectly, Free
  <2>9. (\A t \in Screens : ScreenInv(t))'
    BY <1>12, <2>1, <2>2, BlankView DEF HireDirectly, Free, ScreenInv
  <2>10. (\A b \in Applicants : CandidateInv(b))'
    BY <1>12, <2>1, CandidateKept DEF HireDirectly
  <2>11. (\A h \in hired : EmployeeInv(h))'
    <3>1. ASSUME NEW h \in hired PROVE EmployeeInv(h)'
      <4>1. \A b \in Applicants : \A g \in hired' : g.from = {b} => g \in hired
        BY <2>1
      <4>2. applicant' = applicant /\ approvedAs' = approvedAs
        BY <1>12 DEF HireDirectly
      <4>3. ASSUME NEW b \in Applicants, h.from = {b}
            PROVE  /\ applicant'[b].status = "JOINED" /\ h.email = approvedAs'[b].form
                   /\ h.files = {approvedAs'[b].files[n] : n \in Needs} \ {0}
                   /\ \A g \in hired' : g.from = {b} => g = h
        <5>1. /\ applicant[b].status = "JOINED" /\ h.email = approvedAs[b].form
              /\ h.files = {approvedAs[b].files[n] : n \in Needs} \ {0}
              /\ \A g \in hired : g.from = {b} => g = h
          BY <4>3 DEF EmployeeInv
        <5>2. QED
          BY <4>1, <4>2, <4>3, <5>1
      <4>4. QED
        BY <4>3 DEF EmployeeInv
    <3>2. EmployeeInv(new)'
      BY <2>1 DEF EmployeeInv
    <3>3. QED
      BY <2>1, <3>1, <3>2
  <2>12. Unshared'
    BY <2>1, <2>2 DEF Unshared
  <2>13. QED
    BY <2>3, <2>4, <2>5, <2>6, <2>7, <2>8, <2>9, <2>10, <2>11, <2>12
<1>13. CASE UNCHANGED pjVars
  <2>1. UNCHANGED <<applicant, files, uploads, hired, screen, approvedAs>>
    BY <1>13 DEF pjVars
  <2>2. (\A b \in Applicants : CandidateInv(b))' /\ (\A h \in hired : EmployeeInv(h))' /\ Unshared'
    BY <2>1, CandidateKept, EmployeesKept
  <2>3. (\A t \in Screens : ScreenInv(t))'
    BY <2>1 DEF ScreenInv
  <2>4. QED
    BY <2>1, <2>2, <2>3
<1>14. QED
  BY <1>1, <1>2, <1>3, <1>4, <1>5, <1>6, <1>7, <1>8, <1>9, <1>10, <1>11, <1>12, <1>13 DEF PjNext

LEMMA PjInvInit == PjInit => PjInv
<1> SUFFICES ASSUME PjInit PROVE PjInv
  OBVIOUS
<1> USE DEF PjInit
<1>1. applicant \in [Applicants -> Row] /\ \A a \in Applicants : applicant[a].status = "NONE"
  BY PrejoiningAssumption DEF Row, Statuses, Forms
<1>2. /\ files \in [Applicants -> [Needs -> 0..MaxRevisions]]
      /\ uploads \in [Applicants -> 0..MaxUploads]
  BY NoFilesTyped, PrejoiningAssumption
<1>3. screen \in [Screens -> View] /\ \A s \in Screens : screen[s].of = {}
  BY BlankView
<1>4. approvedAs \in [Applicants -> Contents]
  BY EmptyTyped
<1>5. \A a \in Applicants : CandidateInv(a)
  BY <1>1 DEF CandidateInv, Closed
<1>6. \A s \in Screens : ScreenInv(s)
  BY <1>3 DEF ScreenInv
<1>7. QED
  BY <1>1, <1>2, <1>3, <1>4, <1>5, <1>6 DEF PjInv, Unshared

\* One employee for each row that joined, and none for any other.
LEMMA HiredOnce ==
  ASSUME PjInv, NEW a \in Applicants
  PROVE  Cardinality(HiredFrom(a)) = (IF applicant[a].status = "JOINED" THEN 1 ELSE 0)
<1>1. CASE applicant[a].status = "JOINED"
  <2>1. PICK h \in hired : h.from = {a}
    BY <1>1 DEF PjInv, CandidateInv
  <2>2. HiredFrom(a) = {h}
    BY <2>1 DEF PjInv, EmployeeInv, HiredFrom
  <2>3. QED
    BY <1>1, <2>2, FS_Singleton
<1>2. CASE applicant[a].status # "JOINED"
  <2>1. HiredFrom(a) = {}
    BY <1>2 DEF PjInv, EmployeeInv, HiredFrom
  <2>2. QED
    BY <1>2, <2>1, FS_EmptySet
<1>3. QED
  BY <1>1, <1>2

\* Whatever HR and the invited persons have on their screens, and however stale: what was
\* approved is what the screen showed and what the person joins with, once, complete by
\* the configuration of the invitation (services/prejoining: review, submit, confirm).
THEOREM CandidatesJoinAsApproved == PjSpec => []PrejoiningHolds
<1>1. PjInit => PjInv
  BY PjInvInit
<1>2. PjInv /\ [PjNext]_pjVars => PjInv'
  BY StepKeepsPjInv
<1>3. PjInv => PrejoiningHolds
  <2> SUFFICES ASSUME PjInv PROVE PrejoiningHolds
    OBVIOUS
  <2>1. PjTypeOK
    BY DEF PjInv, PjTypeOK, Row, View, Employee
  <2>2. ApprovedAsShown /\ SubmittedComplete /\ ClosedToLinks
    BY DEF PjInv, CandidateInv, ApprovedAsShown, SubmittedComplete, ClosedToLinks, Standing
  <2>3. JoinedOnce
    BY ZenonT(60), HiredOnce DEF PjInv, EmployeeInv, Unshared, JoinedOnce, HiredFrom
  <2>4. QED
    BY <2>1, <2>2, <2>3 DEF PrejoiningHolds
<1>4. QED
  BY <1>1, <1>2, <1>3, PTL DEF PjSpec

-----------------------------------------------------------------------------
(* Timesheet weeks *)

EntryRow == [state : {"NONE", "DRAFT", "SUBMITTED", "APPROVED"}, live : BOOLEAN,
             week : Weeks, batch : Batches \cup {NoBatch}, hours : Hours \cup {0}]

BatchRow == [status : {"NONE", "PENDING", "APPROVED", "REJECTED"}, week : Weeks,
             step : {0} \cup DOMAIN Flow]

Request == [pc : {"idle", "create", "update", "delete", "submit", "insert"},
            rows : SUBSET Rows, week : Weeks, hours : Hours \cup {0}]

TsTyped ==
  /\ entry \in [Rows -> EntryRow]
  /\ batch \in [Batches -> BatchRow]
  /\ client \in [Clients -> Request]
  /\ tsRules \in [lockApproved : BOOLEAN, editable : SUBSET Weeks, workflowOn : BOOLEAN]
  /\ manager \in Approvers
  /\ filed \in [Rows -> Hours \cup {0}]
  /\ signed \in [Batches -> SUBSET DOMAIN Flow]
  /\ disturbed \in SUBSET Rows
  /\ doubled \in SUBSET Weeks

\* A row and the batch it is in.
EntryInv(e) ==
  /\ entry[e].live => entry[e].state # "NONE"
  /\ entry[e].live /\ entry[e].state = "DRAFT" => entry[e].batch = NoBatch
  /\ entry[e].live /\ entry[e].state \in {"SUBMITTED", "APPROVED"} =>
       /\ entry[e].batch \in Batches
       /\ batch[entry[e].batch].status = (IF entry[e].state = "SUBMITTED" THEN "PENDING" ELSE "APPROVED")
  /\ entry[e].state = "SUBMITTED" /\ e \notin disturbed =>
       /\ entry[e].live /\ entry[e].hours = filed[e]
       /\ entry[e].week = batch[entry[e].batch].week

\* A request and the rows it has looked at, whatever has become of them since.
RequestInv(q) ==
  \A e \in client[q].rows :
    /\ client[q].pc = "create" =>
         entry[e].state = "NONE" /\ \A p \in Clients \ {q} : e \notin client[p].rows
    /\ client[q].pc \in {"update", "delete"} =>
         entry[e].state # "NONE" /\ (entry[e].state = "SUBMITTED" => e \in disturbed)
    /\ client[q].pc \in {"submit", "insert"} =>
         /\ entry[e].state # "NONE"
         /\ e \notin disturbed => entry[e].live /\ entry[e].week = client[q].week

\* The steps acted on are those before the current one.
SignedInv(b) ==
  /\ batch[b].status = "PENDING" /\ batch[b].step # 0 => signed[b] = 1..batch[b].step - 1
  /\ batch[b].status = "APPROVED" => signed[b] = DOMAIN Flow

\* A week has one batch, or none while a request is about to insert the first, unless
\* two first submissions overlapped.
OneBatch ==
  \A b, c \in Batches :
    batch[b].status # "NONE" /\ batch[c].status # "NONE" /\ batch[b].week = batch[c].week
      => b = c \/ batch[b].week \in doubled

OneInsert ==
  \A q \in Clients : client[q].pc = "insert" /\ client[q].week \notin doubled =>
    /\ \A b \in Batches : batch[b].status # "NONE" => batch[b].week # client[q].week
    /\ \A p \in Clients \ {q} : client[p].pc = "insert" => client[p].week # client[q].week

TsInv ==
  /\ TsTyped
  /\ \A e \in Rows : EntryInv(e)
  /\ \A q \in Clients : RequestInv(q)
  /\ \A b \in Batches : SignedInv(b)
  /\ OneBatch
  /\ OneInsert

LEMMA FlowFacts == /\ DOMAIN Flow = 1..Len(Flow) /\ Len(Flow) \in Nat /\ Len(Flow) >= 1
                   /\ FirstStep \in {0, 1} /\ FirstStep \in {0} \cup DOMAIN Flow
<1>1. DOMAIN Flow = 1..Len(Flow) /\ Len(Flow) \in Nat /\ Flow # <<>>
  BY TimesheetAssumption
<1>2. Len(Flow) # 0
  BY <1>1, TimesheetAssumption, EmptySeq
<1>3. QED
  BY <1>1, <1>2 DEF FirstStep

LEMMA ReadyRequest == Ready \in Request /\ Ready.pc = "idle" /\ Ready.rows = {}
<1>1. (CHOOSE w \in Weeks : TRUE) \in Weeks
  BY TimesheetAssumption
<1>2. QED
  BY <1>1 DEF Ready, Request

LEMMA TsInvInit == TsInit => TsInv
<1> SUFFICES ASSUME TsInit PROVE TsInv
  OBVIOUS
<1>1. (CHOOSE w \in Weeks : TRUE) \in Weeks
  BY TimesheetAssumption
<1>2. entry \in [Rows -> EntryRow] /\ \A e \in Rows : entry[e].live = FALSE /\ entry[e].state = "NONE"
  BY <1>1 DEF TsInit, NoRow, EntryRow
<1>3. batch \in [Batches -> BatchRow] /\ \A b \in Batches : batch[b].status = "NONE"
  BY <1>1 DEF TsInit, NotYet, BatchRow
<1>4. client \in [Clients -> Request] /\ \A q \in Clients : client[q].pc = "idle" /\ client[q].rows = {}
  BY ReadyRequest DEF TsInit
<1>5. TsTyped
  BY <1>2, <1>3, <1>4 DEF TsInit, TsTyped
<1>6. QED
  BY <1>2, <1>3, <1>4, <1>5 DEF TsInv, EntryInv, RequestInv, SignedInv, OneBatch, OneInsert

\* What neither rows, nor batches, nor requests depend on.
LEMMA SurroundingsKept ==
  ASSUME TsInv, UNCHANGED <<entry, batch, client, filed, signed, disturbed, doubled>>,
         tsRules' \in [lockApproved : BOOLEAN, editable : SUBSET Weeks, workflowOn : BOOLEAN],
         manager' \in Approvers
  PROVE  TsInv'
  BY DEF TsInv, TsTyped, EntryInv, RequestInv, SignedInv, OneBatch, OneInsert

\* A row keeps its agreement with its batch when neither changes in what matters.
LEMMA EntriesKept ==
  ASSUME TsInv, UNCHANGED <<entry, filed>>, disturbed \subseteq disturbed',
         \A b \in Batches : batch'[b].status = batch[b].status /\ batch'[b].week = batch[b].week
  PROVE  \A e \in Rows : EntryInv(e)'
<1> SUFFICES ASSUME NEW e \in Rows PROVE EntryInv(e)'
  OBVIOUS
<1>1. EntryInv(e) /\ entry[e].state \in {"NONE", "DRAFT", "SUBMITTED", "APPROVED"}
  BY DEF TsInv, TsTyped, EntryRow
<1>2. QED
  BY <1>1 DEF EntryInv

\* A request that is not the one that moves.
LEMMA RequestKept ==
  ASSUME TsInv, NEW q \in Clients, client'[q] = client[q], disturbed \subseteq disturbed',
         \A e \in client[q].rows :
           /\ entry'[e].state = "NONE" <=> entry[e].state = "NONE"
           /\ client[q].pc = "create" => \A p \in Clients \ {q} : e \notin client'[p].rows
           /\ client[q].pc \in {"update", "delete"} /\ entry'[e].state = "SUBMITTED" =>
                entry[e].state = "SUBMITTED" \/ e \in disturbed'
           /\ client[q].pc \in {"submit", "insert"} /\ e \notin disturbed' =>
                entry'[e].live = entry[e].live /\ entry'[e].week = entry[e].week
  PROVE  RequestInv(q)'
<1>1. RequestInv(q)
  BY DEF TsInv
<1>2. QED
  BY <1>1 DEF RequestInv

\* A request begins: what it has looked at is as it says.
LEMMA RequestBegins ==
  ASSUME TsInv, NEW q \in Clients, NEW work \in Request, client' = [client EXCEPT ![q] = work],
         work.pc \in {"create", "update", "delete", "submit"},
         UNCHANGED <<entry, batch, tsRules, manager, filed, signed, disturbed, doubled>>,
         \A e \in work.rows :
           /\ work.pc = "create" => entry[e].state = "NONE" /\ \A p \in Clients : e \notin client[p].rows
           /\ work.pc \in {"update", "delete"} => entry[e].state \notin {"NONE", "SUBMITTED"}
           /\ work.pc = "submit" => /\ entry[e].state # "NONE"
                                    /\ entry[e].live /\ entry[e].week = work.week
  PROVE  TsInv'
<1>1. client' \in [Clients -> Request] /\ client'[q] = work /\ \A p \in Clients \ {q} : client'[p] = client[p]
  BY DEF TsInv, TsTyped
<1>2. TsTyped'
  BY <1>1 DEF TsInv, TsTyped
<1>3. \A e \in Rows : EntryInv(e)'
  BY EntriesKept
<1>4. \A p \in Clients : RequestInv(p)'
  <2>1. RequestInv(q)'
    BY <1>1 DEF RequestInv
  <2>2. ASSUME NEW p \in Clients \ {q} PROVE RequestInv(p)'
    <3>1. ASSUME NEW e \in client[p].rows, client[p].pc = "create" PROVE e \notin work.rows
      <4>1. entry[e].state = "NONE"
        BY <3>1 DEF TsInv, RequestInv
      <4>2. QED
        BY <4>1
    <3>2. \A e \in client[p].rows : client[p].pc = "create" => \A r \in Clients \ {p} : e \notin client'[r].rows
      <4>1. RequestInv(p)
        BY DEF TsInv
      <4>2. QED
        BY <1>1, <3>1, <4>1 DEF RequestInv
    <3>3. QED
      BY <1>1, <3>2, RequestKept
  <2>3. QED
    BY <2>1, <2>2
<1>5. (\A b \in Batches : SignedInv(b))' /\ OneBatch'
  BY DEF TsInv, SignedInv, OneBatch
<1>6. OneInsert'
  BY <1>1 DEF TsInv, OneInsert
<1>7. QED
  BY <1>2, <1>3, <1>4, <1>5, <1>6 DEF TsInv

LEMMA EndsEffect ==
  ASSUME TsInv, NEW q \in Clients, Ends(q)
  PROVE  /\ client' \in [Clients -> Request] /\ client'[q].pc = "idle" /\ client'[q].rows = {}
         /\ \A p \in Clients \ {q} : client'[p] = client[p]
         /\ RequestInv(q)'
<1>1. client' = [client EXCEPT ![q] = Ready]
  BY DEF Ends
<1>2. client' \in [Clients -> Request] /\ client'[q] = Ready /\ \A p \in Clients \ {q} : client'[p] = client[p]
  BY <1>1, ReadyRequest DEF TsInv, TsTyped
<1>3. QED
  BY <1>2, ReadyRequest DEF RequestInv

\* What a request that creates is about to create, no other request has looked at.
LEMMA ApartFromOthers ==
  ASSUME TsInv, NEW q \in Clients, NEW p \in Clients \ {q}, client[q].pc = "create"
  PROVE  \A e \in client[p].rows : e \notin client[q].rows
  BY DEF TsInv, RequestInv

\* The same, seen from the other side, after a request has ended.
LEMMA StillApart ==
  ASSUME TsInv, NEW q \in Clients, Ends(q), NEW p \in Clients \ {q}, client[p].pc = "create"
  PROVE  \A e \in client[p].rows : \A r \in Clients \ {p} : e \notin client'[r].rows
<1>1. RequestInv(p)
  BY DEF TsInv
<1>2. QED
  BY <1>1, EndsEffect DEF RequestInv

LEMMA InsertsKept ==
  ASSUME TsInv, NEW q \in Clients, Ends(q), doubled' = doubled,
         \A b \in Batches : batch'[b].status = "NONE" <=> batch[b].status = "NONE",
         \A b \in Batches : batch'[b].week = batch[b].week
  PROVE  OneBatch' /\ OneInsert'
<1>1. OneBatch'
  BY DEF TsInv, OneBatch
<1>2. OneInsert'
  BY EndsEffect DEF TsInv, OneInsert
<1>3. QED
  BY <1>1, <1>2

LEMMA RequestEnds ==
  ASSUME TsInv, NEW q \in Clients, Ends(q),
         UNCHANGED <<entry, batch, tsRules, manager, filed, signed, disturbed, doubled>>
  PROVE  TsInv'
<1>1. TsTyped'
  BY EndsEffect DEF TsInv, TsTyped
<1>2. \A e \in Rows : EntryInv(e)'
  BY EntriesKept
<1>3. ASSUME NEW p \in Clients PROVE RequestInv(p)'
  BY EndsEffect, StillApart, RequestKept
<1>4. \A b \in Batches : SignedInv(b)'
  BY DEF TsInv, SignedInv
<1>5. OneBatch' /\ OneInsert'
  BY InsertsKept
<1>6. QED
  BY <1>1, <1>2, <1>3, <1>4, <1>5 DEF TsInv

\* What a write of a row does to the rows: those of the request, and only as it may.
LEMMA RowsWritten ==
  ASSUME TsInv, NEW q \in Clients, Ends(q), UNCHANGED <<batch, tsRules, manager, filed, signed, doubled>>,
         entry' \in [Rows -> EntryRow], disturbed' \in SUBSET Rows, disturbed \subseteq disturbed',
         \A e \in Rows \ client[q].rows : entry'[e] = entry[e],
         \A e \in client[q].rows : EntryInv(e)',
         \A p \in Clients \ {q} : \A e \in client[p].rows \cap client[q].rows :
           /\ client[p].pc # "create" /\ entry'[e].state = entry[e].state
           /\ client[p].pc \in {"submit", "insert"} => e \in disturbed'
  PROVE  TsInv'
<1>1. TsTyped'
  BY EndsEffect DEF TsInv, TsTyped
<1>2. ASSUME NEW e \in Rows PROVE EntryInv(e)'
  <2>1. CASE e \in client[q].rows
    BY <2>1
  <2>2. CASE e \notin client[q].rows
    <3>1. entry'[e] = entry[e] /\ EntryInv(e)
      BY <2>2 DEF TsInv
    <3>2. QED
      BY <3>1 DEF EntryInv
  <2>3. QED
    BY <2>1, <2>2
<1>3. ASSUME NEW p \in Clients PROVE RequestInv(p)'
  <2>1. CASE p = q
    BY <2>1, EndsEffect
  <2>2. CASE p # q
    <3>1. client'[p] = client[p] /\ client[p].rows \in SUBSET Rows
      BY <2>2, EndsEffect DEF TsInv, TsTyped, Request
    <3>2. \A e \in client[p].rows : client[p].pc = "create" => \A r \in Clients \ {p} : e \notin client'[r].rows
      BY <2>2, StillApart
    <3>3. QED
      BY <2>2, <3>1, <3>2, RequestKept
  <2>3. QED
    BY <2>1, <2>2
<1>4. \A b \in Batches : SignedInv(b)'
  BY DEF TsInv, SignedInv
<1>5. OneBatch' /\ OneInsert'
  BY InsertsKept
<1>6. QED
  BY <1>1, <1>2, <1>3, <1>4, <1>5 DEF TsInv

LEMMA CreateKeeps == ASSUME TsInv, NEW q \in Clients, WriteCreate(q) PROVE TsInv'
<1>1. Ends(q) /\ client[q].pc = "create" /\ UNCHANGED <<batch, tsRules, manager, filed, signed, disturbed, doubled>>
  BY DEF WriteCreate
<1>2. client[q] \in Request /\ client[q].rows \in SUBSET Rows
  BY DEF TsInv, TsTyped, Request
<1> DEFINE row == [state |-> "DRAFT", live |-> TRUE, week |-> client[q].week, batch |-> NoBatch,
                   hours |-> client[q].hours]
<1>3. row \in EntryRow /\ row.state = "DRAFT" /\ row.batch = NoBatch
  BY <1>2 DEF Request, EntryRow
<1>4. entry' = [e \in Rows |-> IF e \notin client[q].rows THEN entry[e] ELSE row]
  BY DEF WriteCreate
<1> HIDE DEF row
<1>5. entry' \in [Rows -> EntryRow]
  BY <1>3, <1>4 DEF TsInv, TsTyped
<1>6. \A e \in client[q].rows : EntryInv(e)'
  BY <1>2, <1>3, <1>4 DEF EntryInv
<1>7. ASSUME NEW p \in Clients \ {q} PROVE client[p].rows \cap client[q].rows = {}
  BY <1>1, ApartFromOthers
<1>8. QED
  BY <1>1, <1>4, <1>5, <1>6, <1>7, RowsWritten DEF TsInv, TsTyped

\* An update or a deletion that has passed its checks.
LEMMA EditKeeps ==
  ASSUME TsInv, NEW q \in Clients, Ends(q), client[q].pc \in {"update", "delete"}, disturbed' = Overlap,
         UNCHANGED <<batch, tsRules, manager, filed, signed, doubled>>,
         entry' \in [Rows -> EntryRow],
         \A e \in Rows \ client[q].rows : entry'[e] = entry[e],
         \A e \in client[q].rows :
           /\ entry'[e].state = entry[e].state /\ entry'[e].batch = entry[e].batch
           /\ entry'[e].live => entry[e].live
  PROVE  TsInv'
<1>1. client[q].rows \in SUBSET Rows /\ RequestInv(q)
  BY DEF TsInv, TsTyped, Request
<1>2. disturbed' \in SUBSET Rows /\ disturbed \subseteq disturbed'
  <2>1. BeingEdited \in SUBSET Rows
    BY DEF TsInv, TsTyped, Request, BeingEdited
  <2>2. QED
    BY <2>1 DEF Overlap, TsInv, TsTyped
<1>3. ASSUME NEW e \in client[q].rows PROVE EntryInv(e)'
  <2>1. EntryInv(e) /\ (entry[e].state = "SUBMITTED" => e \in disturbed)
    BY <1>1 DEF TsInv, RequestInv
  <2>2. QED
    BY <1>2, <2>1 DEF EntryInv
<1>4. ASSUME NEW p \in Clients \ {q}, NEW e \in client[p].rows \cap client[q].rows
      PROVE  /\ client[p].pc # "create"
             /\ client[p].pc \in {"submit", "insert"} => e \in disturbed'
  <2>1. client[p].pc # "create"
    BY DEF TsInv, RequestInv
  <2>2. e \in BeingEdited /\ (client[p].pc \in {"submit", "insert"} => e \in BeingSubmitted)
    BY DEF BeingEdited, BeingSubmitted
  <2>3. QED
    BY <2>1, <2>2 DEF Overlap
<1>5. QED
  BY <1>2, <1>3, <1>4, RowsWritten

\* The transaction of a submission: the rows that were read go into the batch.
LEMMA FilingKeeps ==
  ASSUME TsInv, NEW q \in Clients, NEW b \in Batches, NEW row \in BatchRow,
         client[q].pc \in {"submit", "insert"}, Ends(q), FileRows(client[q].rows, b),
         batch' = [batch EXCEPT ![b] = row], UNCHANGED <<tsRules, manager, doubled>>,
         batch[b].status \in {"NONE", "REJECTED"}, row.status = "PENDING", row.step \in {0, 1},
         row.week = client[q].week,
         client[q].week \notin doubled => \A c \in Batches \ {b} : batch[c].status = "NONE" \/ batch[c].week # row.week,
         \A p \in Clients \ {q} : client[p].pc = "insert" /\ client[p].week \notin doubled => client[p].week # row.week
  PROVE  TsInv'
<1> DEFINE rows == client[q].rows
<1>1. rows \in SUBSET Rows /\ RequestInv(q) /\ entry \in [Rows -> EntryRow]
  BY DEF TsInv, TsTyped, Request
<1>2. /\ batch' \in [Batches -> BatchRow] /\ batch'[b] = row
      /\ \A c \in Batches \ {b} : batch'[c] = batch[c]
  BY DEF TsInv, TsTyped
<1>3. ASSUME NEW e \in rows
      PROVE  /\ entry'[e] \in EntryRow /\ entry'[e].state = "SUBMITTED" /\ entry'[e].batch = b
             /\ entry'[e].live = entry[e].live /\ entry'[e].week = entry[e].week
             /\ entry'[e].hours = entry[e].hours /\ filed'[e] = entry[e].hours
  <2>1. entry[e] \in EntryRow /\ e \in Rows
    BY <1>1
  <2>2. [entry[e] EXCEPT !.state = "SUBMITTED", !.batch = b] \in EntryRow
    BY <2>1 DEF EntryRow
  <2>3. entry'[e] = [entry[e] EXCEPT !.state = "SUBMITTED", !.batch = b] /\ filed'[e] = entry[e].hours
    BY <2>1 DEF FileRows
  <2>4. QED
    BY <2>1, <2>2, <2>3 DEF EntryRow
<1>4. \A e \in Rows \ rows : entry'[e] = entry[e] /\ filed'[e] = filed[e]
  BY DEF FileRows
<1>5. /\ entry' \in [Rows -> EntryRow] /\ filed' \in [Rows -> Hours \cup {0}]
      /\ disturbed' = disturbed \cup (rows \cap BeingEdited)
      /\ signed' = [signed EXCEPT ![b] = {}]
  <2>1. \A e \in Rows : entry'[e] \in EntryRow /\ filed'[e] \in Hours \cup {0}
    BY <1>1, <1>3, <1>4 DEF TsInv, TsTyped, EntryRow
  <2>2. QED
    BY <2>1 DEF FileRows
<1>6. signed' \in [Batches -> SUBSET DOMAIN Flow] /\ signed'[b] = {} /\ \A c \in Batches \ {b} : signed'[c] = signed[c]
  BY <1>5 DEF TsInv, TsTyped
<1>7. disturbed' \in SUBSET Rows /\ disturbed \subseteq disturbed'
  BY <1>1, <1>5 DEF TsInv, TsTyped
<1>8. TsTyped'
  BY <1>2, <1>5, <1>6, <1>7, EndsEffect DEF TsInv, TsTyped
<1>9. ASSUME NEW e \in Rows PROVE EntryInv(e)'
  <2>1. CASE e \in rows
    <3>1. e \notin disturbed' => entry[e].live /\ entry[e].week = client[q].week
      BY <1>1, <1>7, <2>1 DEF RequestInv
    <3>2. QED
      BY <1>2, <1>3, <2>1, <3>1 DEF EntryInv
  <2>2. CASE e \notin rows
    <3>1. entry'[e] = entry[e] /\ filed'[e] = filed[e] /\ EntryInv(e)
          /\ entry[e].state \in {"NONE", "DRAFT", "SUBMITTED", "APPROVED"}
      BY <1>1, <1>4, <2>2 DEF TsInv, EntryRow
    <3>2. entry[e].live /\ entry[e].state \in {"SUBMITTED", "APPROVED"} =>
            entry[e].batch \in Batches /\ batch'[entry[e].batch] = batch[entry[e].batch]
      BY <1>2, <3>1 DEF EntryInv
    <3>3. QED
      BY <1>7, <3>1, <3>2 DEF EntryInv
  <2>3. QED
    BY <2>1, <2>2
<1>10. ASSUME NEW p \in Clients PROVE RequestInv(p)'
  <2>1. CASE p = q
    BY <2>1, EndsEffect
  <2>2. CASE p # q
    <3>1. client'[p] = client[p] /\ client[p].rows \in SUBSET Rows
      BY <2>2, EndsEffect DEF TsInv, TsTyped, Request
    <3>2. \A e \in client[p].rows : client[p].pc = "create" => \A r \in Clients \ {p} : e \notin client'[r].rows
      BY <2>2, StillApart
    <3>3. ASSUME NEW e \in client[p].rows
          PROVE  /\ entry'[e].state = "NONE" <=> entry[e].state = "NONE"
                 /\ entry'[e].live = entry[e].live /\ entry'[e].week = entry[e].week
                 /\ client[p].pc \in {"update", "delete"} /\ entry'[e].state = "SUBMITTED" =>
                      entry[e].state = "SUBMITTED" \/ e \in disturbed'
      <4>1. CASE e \in rows
        <5>1. entry[e].state # "NONE"
          BY <1>1, <4>1 DEF RequestInv
        <5>2. client[p].pc \in {"update", "delete"} => e \in BeingEdited
          BY <2>2 DEF BeingEdited
        <5>3. QED
          BY <1>3, <1>5, <4>1, <5>1, <5>2
      <4>2. CASE e \notin rows
        BY <1>4, <3>1, <4>2
      <4>3. QED
        BY <4>1, <4>2
    <3>4. QED
      BY <1>7, <3>1, <3>2, <3>3, RequestKept
  <2>3. QED
    BY <2>1, <2>2
<1>11. ASSUME NEW c \in Batches PROVE SignedInv(c)'
  <2>1. CASE c = b
    BY SMTT(60), <1>2, <1>6, <2>1 DEF SignedInv
  <2>2. CASE c # b
    <3>1. SignedInv(c)
      BY DEF TsInv
    <3>2. QED
      BY <1>2, <1>6, <2>2, <3>1 DEF SignedInv
  <2>3. QED
    BY <2>1, <2>2
<1>12. OneBatch'
  BY <1>2 DEF TsInv, OneBatch
<1>13. OneInsert'
  BY <1>2, EndsEffect DEF TsInv, OneInsert
<1>14. QED
  BY <1>8, <1>9, <1>10, <1>11, <1>12, <1>13 DEF TsInv

\* The rows of a pending batch are all submitted.
LEMMA PendingRows ==
  ASSUME TsInv, NEW b \in Batches, batch[b].status = "PENDING", NEW e \in RowsIn(b)
  PROVE  e \in Rows /\ entry[e].live /\ entry[e].batch = b /\ entry[e].state = "SUBMITTED"
<1>1. e \in Rows /\ entry[e].live /\ entry[e].batch = b
  BY DEF RowsIn
<1>2. EntryInv(e) /\ entry[e].state \in {"NONE", "DRAFT", "SUBMITTED", "APPROVED"} /\ b # NoBatch
  BY <1>1, TimesheetAssumption DEF TsInv, TsTyped, EntryRow
<1>3. QED
  BY <1>1, <1>2 DEF EntryInv

\* A decision moves the batch and all its rows alike.
LEMMA DecisionKeeps ==
  ASSUME TsInv, NEW b \in Batches, NEW row \in BatchRow, batch[b].status = "PENDING",
         batch' = [batch EXCEPT ![b] = row], row.status \in {"PENDING", "APPROVED", "REJECTED"},
         row.week = batch[b].week, UNCHANGED <<tsRules, manager, client, disturbed, doubled>>,
         signed' \in [Batches -> SUBSET DOMAIN Flow], SignedInv(b)',
         \A c \in Batches \ {b} : signed'[c] = signed[c],
         entry' \in [Rows -> EntryRow], filed' \in [Rows -> Hours \cup {0}],
         \A e \in Rows : e \notin RowsIn(b) \/ row.status = "PENDING" =>
           entry'[e] = entry[e] /\ filed'[e] = filed[e],
         \A e \in RowsIn(b) :
           /\ entry'[e].live = entry[e].live /\ entry'[e].week = entry[e].week
           /\ row.status = "APPROVED" => entry'[e].state = "APPROVED" /\ entry'[e].batch = b
           /\ row.status = "REJECTED" => entry'[e].state = "DRAFT" /\ entry'[e].batch = NoBatch
  PROVE  TsInv'
<1>1. /\ batch' \in [Batches -> BatchRow] /\ batch'[b] = row
      /\ \A c \in Batches \ {b} : batch'[c] = batch[c]
  BY DEF TsInv, TsTyped
<1>2. TsTyped'
  BY <1>1 DEF TsInv, TsTyped
<1>3. ASSUME NEW e \in Rows PROVE EntryInv(e)'
  <2>1. EntryInv(e) /\ entry[e].state \in {"NONE", "DRAFT", "SUBMITTED", "APPROVED"}
    BY DEF TsInv, TsTyped, EntryRow
  <2>2. CASE e \in RowsIn(b) /\ row.status # "PENDING"
    BY <1>1, <2>2, PendingRows DEF EntryInv
  <2>3. CASE e \in RowsIn(b) /\ row.status = "PENDING"
    BY <1>1, <2>1, <2>3, PendingRows DEF EntryInv
  <2>4. CASE e \notin RowsIn(b)
    <3>1. entry'[e] = entry[e] /\ filed'[e] = filed[e]
      BY <2>4
    <3>2. entry[e].live => entry[e].batch # b
      BY <2>4 DEF RowsIn
    <3>3. entry[e].live /\ entry[e].state \in {"SUBMITTED", "APPROVED"} =>
            entry[e].batch \in Batches /\ batch'[entry[e].batch] = batch[entry[e].batch]
      BY <1>1, <2>1, <3>2 DEF EntryInv
    <3>4. QED
      BY <2>1, <3>1, <3>3 DEF EntryInv
  <2>5. QED
    BY <2>2, <2>3, <2>4
<1>4. ASSUME NEW q \in Clients PROVE RequestInv(q)'
  <2>1. RequestInv(q) /\ client[q].rows \in SUBSET Rows
    BY DEF TsInv, TsTyped, Request
  <2>2. ASSUME NEW e \in client[q].rows
        PROVE  /\ entry'[e].state = "NONE" <=> entry[e].state = "NONE"
               /\ entry'[e].live = entry[e].live /\ entry'[e].week = entry[e].week
               /\ entry'[e].state = "SUBMITTED" => entry[e].state = "SUBMITTED"
    <3>1. CASE e \in RowsIn(b) /\ row.status # "PENDING"
      BY <3>1, PendingRows
    <3>2. CASE e \notin RowsIn(b) \/ row.status = "PENDING"
      BY <2>1, <3>2
    <3>3. QED
      BY <3>1, <3>2
  <2>3. \A e \in client[q].rows : client[q].pc = "create" => \A p \in Clients \ {q} : e \notin client'[p].rows
    BY <2>1 DEF RequestInv
  <2>4. QED
    BY <2>2, <2>3, RequestKept
<1>5. ASSUME NEW c \in Batches PROVE SignedInv(c)'
  <2>1. CASE c # b
    <3>1. SignedInv(c)
      BY DEF TsInv
    <3>2. QED
      BY <1>1, <2>1, <3>1 DEF SignedInv
  <2>2. QED
    BY <2>1
<1>6. OneBatch' /\ OneInsert'
  BY <1>1 DEF TsInv, OneBatch, OneInsert
<1>7. QED
  BY <1>2, <1>3, <1>4, <1>5, <1>6 DEF TsInv

LEMMA ApproveKeeps ==
  ASSUME TsInv, NEW a \in Approvers, NEW b \in Batches, NEW seen \in DOMAIN Flow, ApproveBatch(a, b, seen)
  PROVE  TsInv'
<1>1. batch[b].status = "PENDING" /\ batch[b].step = seen /\ seen # 0 /\ batch[b] \in BatchRow
  BY DEF ApproveBatch, Actionable, TsInv, TsTyped
<1>2. signed[b] = 1..seen - 1 /\ seen \in 1..Len(Flow)
  BY <1>1, FlowFacts DEF TsInv, SignedInv
<1> DEFINE last == seen = Len(Flow)
           row == [batch[b] EXCEPT !.step = IF last THEN 0 ELSE seen + 1,
                                   !.status = IF last THEN "APPROVED" ELSE batch[b].status]
<1>3. /\ row \in BatchRow /\ row.week = batch[b].week
      /\ row.status = (IF last THEN "APPROVED" ELSE "PENDING") /\ row.step = (IF last THEN 0 ELSE seen + 1)
  <2>1. (IF last THEN 0 ELSE seen + 1) \in {0} \cup DOMAIN Flow
    BY <1>2, FlowFacts
  <2>2. QED
    BY <1>1, <2>1 DEF BatchRow
<1>4. batch' = [batch EXCEPT ![b] = row] /\ signed' = [signed EXCEPT ![b] = @ \cup {seen}]
      /\ entry' = [e \in Rows |-> IF last /\ e \in RowsIn(b)
                     THEN [entry[e] EXCEPT !.state = "APPROVED"] ELSE entry[e]]
      /\ UNCHANGED <<tsRules, manager, client, filed, disturbed, doubled>>
  BY DEF ApproveBatch
<1> HIDE DEF row
<1>5. /\ signed' \in [Batches -> SUBSET DOMAIN Flow] /\ signed'[b] = 1..seen
      /\ \A c \in Batches \ {b} : signed'[c] = signed[c]
  BY <1>2, <1>4 DEF TsInv, TsTyped
<1>6. SignedInv(b)'
  <2>1. batch'[b] = row
    BY <1>4 DEF TsInv, TsTyped
  <2>2. QED
    BY <1>2, <1>3, <1>5, <2>1, FlowFacts DEF SignedInv
<1>7. ASSUME NEW e \in Rows
      PROVE  /\ entry'[e] \in EntryRow
             /\ e \notin RowsIn(b) \/ row.status = "PENDING" => entry'[e] = entry[e]
             /\ entry'[e].live = entry[e].live /\ entry'[e].week = entry[e].week
             /\ entry'[e].batch = entry[e].batch
             /\ e \in RowsIn(b) /\ row.status = "APPROVED" => entry'[e].state = "APPROVED"
  <2>1. entry[e] \in EntryRow
    BY DEF TsInv, TsTyped
  <2>2. [entry[e] EXCEPT !.state = "APPROVED"] \in EntryRow
    BY <2>1 DEF EntryRow
  <2>3. QED
    BY <1>3, <1>4, <2>1, <2>2 DEF EntryRow
<1>8. entry' \in [Rows -> EntryRow] /\ filed' \in [Rows -> Hours \cup {0}]
  BY <1>4, <1>7 DEF TsInv, TsTyped
<1>9. /\ \A e \in Rows : e \notin RowsIn(b) \/ row.status = "PENDING" =>
           entry'[e] = entry[e] /\ filed'[e] = filed[e]
      /\ \A e \in RowsIn(b) :
           /\ entry'[e].live = entry[e].live /\ entry'[e].week = entry[e].week
           /\ row.status = "APPROVED" => entry'[e].state = "APPROVED" /\ entry'[e].batch = b
  <2>1. \A e \in RowsIn(b) : e \in Rows /\ entry[e].batch = b
    BY DEF RowsIn
  <2>2. QED
    BY ZenonT(60), <1>4, <1>7, <2>1
<1>10. row \in BatchRow /\ row.week = batch[b].week /\ row.status \in {"PENDING", "APPROVED"}
  BY <1>3
<1>11. batch' = [batch EXCEPT ![b] = row] /\ UNCHANGED <<tsRules, manager, client, disturbed, doubled>>
  BY <1>4
<1> HIDE DEF last
<1>12. QED
  BY <1>1, <1>5, <1>6, <1>8, <1>9, <1>10, <1>11, DecisionKeeps

LEMMA RejectKeeps ==
  ASSUME TsInv, NEW a \in Approvers, NEW b \in Batches, NEW seen \in DOMAIN Flow, RejectBatch(a, b, seen)
  PROVE  TsInv'
<1>1. batch[b].status = "PENDING" /\ batch[b] \in BatchRow
  BY DEF RejectBatch, Actionable, TsInv, TsTyped
<1> DEFINE row == [batch[b] EXCEPT !.step = 0, !.status = "REJECTED"]
<1>2. row \in BatchRow /\ row.week = batch[b].week /\ row.status = "REJECTED"
  BY <1>1 DEF BatchRow
<1>3. batch' = [batch EXCEPT ![b] = row] /\ signed' = [signed EXCEPT ![b] = {}]
      /\ entry' = [e \in Rows |-> IF e \in RowsIn(b)
                     THEN [entry[e] EXCEPT !.state = "DRAFT", !.batch = NoBatch] ELSE entry[e]]
      /\ filed' = [e \in Rows |-> IF e \in RowsIn(b) THEN 0 ELSE filed[e]]
      /\ UNCHANGED <<tsRules, manager, client, disturbed, doubled>>
  BY DEF RejectBatch
<1> HIDE DEF row
<1>4. /\ signed' \in [Batches -> SUBSET DOMAIN Flow]
      /\ \A c \in Batches \ {b} : signed'[c] = signed[c]
  BY <1>3 DEF TsInv, TsTyped
<1>5. SignedInv(b)'
  <2>1. batch'[b] = row
    BY <1>3 DEF TsInv, TsTyped
  <2>2. QED
    BY <1>2, <2>1 DEF SignedInv
<1>6. ASSUME NEW e \in Rows
      PROVE  /\ entry'[e] \in EntryRow /\ filed'[e] \in Hours \cup {0}
             /\ e \notin RowsIn(b) => entry'[e] = entry[e] /\ filed'[e] = filed[e]
             /\ entry'[e].live = entry[e].live /\ entry'[e].week = entry[e].week
             /\ e \in RowsIn(b) => entry'[e].state = "DRAFT" /\ entry'[e].batch = NoBatch
  <2>1. entry[e] \in EntryRow /\ filed[e] \in Hours \cup {0}
    BY DEF TsInv, TsTyped
  <2>2. [entry[e] EXCEPT !.state = "DRAFT", !.batch = NoBatch] \in EntryRow
    BY <2>1 DEF EntryRow
  <2>3. QED
    BY <1>3, <2>1, <2>2 DEF EntryRow
<1>7. entry' \in [Rows -> EntryRow] /\ filed' \in [Rows -> Hours \cup {0}]
  BY <1>3, <1>6
<1>8. \A e \in RowsIn(b) : e \in Rows
  BY DEF RowsIn
<1>9. QED
  BY <1>1, <1>2, <1>3, <1>4, <1>5, <1>6, <1>7, <1>8, DecisionKeeps

\* A week without a batch: whoever looks first may insert, and so may who looks before
\* the insertion.
LEMMA FindNoneKeeps == ASSUME TsInv, NEW q \in Clients, FindNone(q) PROVE TsInv'
<1>1. /\ client[q].pc = "submit" /\ client[q] \in Request
      /\ \A b \in Batches : batch[b].status # "NONE" => batch[b].week # client[q].week
      /\ UNCHANGED <<entry, batch, tsRules, manager, filed, signed, disturbed>>
  BY DEF FindNone, TsInv, TsTyped
<1> DEFINE work == [client[q] EXCEPT !.pc = "insert"]
<1>2. /\ work \in Request /\ work.pc = "insert"
      /\ work.rows = client[q].rows /\ work.week = client[q].week
  BY <1>1 DEF Request
<1>3. client' = [client EXCEPT ![q] = work]
  BY DEF FindNone
<1> HIDE DEF work
<1>4. client' \in [Clients -> Request] /\ client'[q] = work /\ \A p \in Clients \ {q} : client'[p] = client[p]
  BY <1>2, <1>3 DEF TsInv, TsTyped
<1>5. /\ doubled' \in SUBSET Weeks /\ doubled \subseteq doubled'
      /\ (\E p \in Clients : client[p].pc = "insert" /\ client[p].week = client[q].week) => client[q].week \in doubled'
  BY <1>1 DEF FindNone, TsInv, TsTyped, Request
<1>6. TsTyped'
  BY <1>1, <1>4, <1>5 DEF TsInv, TsTyped
<1>7. \A e \in Rows : EntryInv(e)'
  BY <1>1, EntriesKept
<1>8. ASSUME NEW p \in Clients PROVE RequestInv(p)'
  <2>1. RequestInv(p) /\ RequestInv(q) /\ \A r \in Clients : client'[r].rows = client[r].rows
    BY <1>2, <1>4 DEF TsInv
  <2>2. CASE p = q
    BY <1>1, <1>2, <1>4, <2>1, <2>2 DEF RequestInv
  <2>3. CASE p # q
    <3>1. \A e \in client[p].rows : client[p].pc = "create" => \A r \in Clients \ {p} : e \notin client'[r].rows
      BY <2>1 DEF RequestInv
    <3>2. QED
      BY <1>1, <1>4, <2>3, <3>1, RequestKept
  <2>4. QED
    BY <2>2, <2>3
<1>9. (\A b \in Batches : SignedInv(b))' /\ OneBatch'
  BY <1>1, <1>5 DEF TsInv, SignedInv, OneBatch
<1>10. OneInsert'
  BY <1>1, <1>2, <1>4, <1>5 DEF TsInv, OneInsert
<1>11. QED
  BY <1>6, <1>7, <1>8, <1>9, <1>10 DEF TsInv

LEMMA ResubmitKeeps == ASSUME TsInv, NEW q \in Clients, NEW b \in Batches, Resubmit(q, b) PROVE TsInv'
<1>1. /\ client[q].pc = "submit" /\ batch[b].week = client[q].week /\ batch[b].status = "REJECTED"
      /\ FileRows(client[q].rows, b) /\ Ends(q) /\ UNCHANGED <<tsRules, manager, doubled>>
      /\ batch[b] \in BatchRow
  BY DEF Resubmit, TsInv, TsTyped
<1> DEFINE row == [batch[b] EXCEPT !.status = "PENDING", !.step = FirstStep]
<1>2. row \in BatchRow /\ row.status = "PENDING" /\ row.step \in {0, 1} /\ row.week = client[q].week
  BY <1>1, FlowFacts DEF BatchRow
<1>3. batch' = [batch EXCEPT ![b] = row]
  BY DEF Resubmit
<1> HIDE DEF row
<1>4. /\ client[q].week \notin doubled =>
           \A c \in Batches \ {b} : batch[c].status = "NONE" \/ batch[c].week # row.week
      /\ \A p \in Clients \ {q} : client[p].pc = "insert" /\ client[p].week \notin doubled => client[p].week # row.week
  BY <1>1, <1>2 DEF TsInv, OneBatch, OneInsert
<1>5. QED
  BY <1>1, <1>2, <1>3, <1>4, FilingKeeps

LEMMA InsertKeeps == ASSUME TsInv, NEW q \in Clients, NEW b \in Batches, InsertBatch(q, b) PROVE TsInv'
<1>1. /\ client[q].pc = "insert" /\ batch[b].status = "NONE"
      /\ FileRows(client[q].rows, b) /\ Ends(q) /\ UNCHANGED <<tsRules, manager, doubled>>
      /\ client[q] \in Request
  BY DEF InsertBatch, TsInv, TsTyped
<1> DEFINE row == [status |-> "PENDING", week |-> client[q].week, step |-> FirstStep]
<1>2. row \in BatchRow /\ row.status = "PENDING" /\ row.step \in {0, 1} /\ row.week = client[q].week
  BY <1>1, FlowFacts DEF BatchRow, Request
<1>3. batch' = [batch EXCEPT ![b] = row]
  BY DEF InsertBatch
<1> HIDE DEF row
<1>4. /\ client[q].week \notin doubled =>
           \A c \in Batches \ {b} : batch[c].status = "NONE" \/ batch[c].week # row.week
      /\ \A p \in Clients \ {q} : client[p].pc = "insert" /\ client[p].week \notin doubled => client[p].week # row.week
  BY <1>1, <1>2 DEF TsInv, OneInsert
<1>5. QED
  BY <1>1, <1>2, <1>3, <1>4, FilingKeeps

LEMMA StepKeepsTsInv == TsInv /\ [TsNext]_tsVars => TsInv'
<1> SUFFICES ASSUME TsInv, [TsNext]_tsVars PROVE TsInv'
  OBVIOUS
<1>1. ASSUME NEW q \in Clients, NEW e \in Rows, NEW w \in Weeks, NEW h \in Hours, CheckCreate(q, e, w, h)
      PROVE  TsInv'
  <2>1. [pc |-> "create", rows |-> {e}, week |-> w, hours |-> h] \in Request
    BY DEF Request
  <2>2. QED
    BY <1>1, <2>1, RequestBegins DEF CheckCreate, Starts
<1>2. ASSUME NEW q \in Clients, NEW e \in Rows, NEW w \in Weeks, NEW h \in Hours, CheckUpdate(q, e, w, h)
      PROVE  TsInv'
  <2>1. [pc |-> "update", rows |-> {e}, week |-> w, hours |-> h] \in Request
    BY DEF Request
  <2>2. entry[e].state \notin {"NONE", "SUBMITTED"}
    BY <1>2 DEF CheckUpdate, Mutable, TsInv, EntryInv
  <2>3. QED
    BY <1>2, <2>1, <2>2, RequestBegins DEF CheckUpdate, Starts
<1>3. ASSUME NEW q \in Clients, NEW e \in Rows, CheckDelete(q, e) PROVE TsInv'
  <2> DEFINE work == [Ready EXCEPT !.pc = "delete", !.rows = {e}]
  <2>1. work \in Request /\ work.pc = "delete" /\ work.rows = {e}
    BY ReadyRequest DEF Request
  <2>2. /\ client' = [client EXCEPT ![q] = work] /\ entry[e].state = "DRAFT"
        /\ UNCHANGED <<entry, batch, tsRules, manager, filed, signed, disturbed, doubled>>
    BY <1>3 DEF CheckDelete, Starts
  <2> HIDE DEF work
  <2>3. QED
    BY <2>1, <2>2, RequestBegins
<1>4. ASSUME NEW q \in Clients, NEW w \in Weeks, ReadDrafts(q, w) PROVE TsInv'
  <2> DEFINE work == [Ready EXCEPT !.pc = "submit", !.rows = Drafts(w), !.week = w]
  <2>1. /\ Drafts(w) \in SUBSET Rows
        /\ \A e \in Drafts(w) : entry[e].live /\ entry[e].week = w /\ entry[e].state = "DRAFT"
    BY DEF Drafts, RowsOf
  <2>2. work \in Request /\ work.pc = "submit" /\ work.rows = Drafts(w) /\ work.week = w
    BY <2>1, ReadyRequest DEF Request
  <2>3. /\ client' = [client EXCEPT ![q] = work]
        /\ UNCHANGED <<entry, batch, tsRules, manager, filed, signed, disturbed, doubled>>
    BY <1>4 DEF ReadDrafts, Starts
  <2> HIDE DEF work
  <2>4. QED
    BY <2>1, <2>2, <2>3, RequestBegins
<1>5. ASSUME NEW q \in Clients, WriteUpdate(q) PROVE TsInv'
  <2>1. client[q] \in Request /\ client[q].rows \in SUBSET Rows
    BY DEF TsInv, TsTyped, Request
  <2>2. ASSUME NEW e \in Rows
        PROVE  /\ entry'[e] \in EntryRow
               /\ e \notin client[q].rows => entry'[e] = entry[e]
               /\ entry'[e].state = entry[e].state /\ entry'[e].batch = entry[e].batch
               /\ entry'[e].live = entry[e].live
    <3>1. entry[e] \in EntryRow
      BY DEF TsInv, TsTyped
    <3>2. [entry[e] EXCEPT !.week = client[q].week, !.hours = client[q].hours] \in EntryRow
      BY <2>1, <3>1 DEF EntryRow, Request
    <3>3. QED
      BY <1>5, <3>1, <3>2 DEF WriteUpdate, EntryRow
  <2>3. entry' \in [Rows -> EntryRow]
    BY <1>5, <2>2 DEF WriteUpdate
  <2>4. QED
    BY <1>5, <2>1, <2>2, <2>3, EditKeeps DEF WriteUpdate
<1>6. ASSUME NEW q \in Clients, WriteDelete(q) PROVE TsInv'
  <2>1. client[q].rows \in SUBSET Rows
    BY DEF TsInv, TsTyped, Request
  <2>2. ASSUME NEW e \in Rows
        PROVE  /\ entry'[e] \in EntryRow
               /\ e \notin client[q].rows => entry'[e] = entry[e]
               /\ entry'[e].state = entry[e].state /\ entry'[e].batch = entry[e].batch
               /\ entry'[e].live => entry[e].live
    <3>1. entry[e] \in EntryRow
      BY DEF TsInv, TsTyped
    <3>2. [entry[e] EXCEPT !.live = FALSE] \in EntryRow
      BY <3>1 DEF EntryRow
    <3>3. QED
      BY <1>6, <3>1, <3>2 DEF WriteDelete, EntryRow
  <2>3. entry' \in [Rows -> EntryRow]
    BY <1>6, <2>2 DEF WriteDelete
  <2>4. QED
    BY <1>6, <2>1, <2>2, <2>3, EditKeeps DEF WriteDelete
<1>7. ASSUME NEW q \in Clients, RefuseSubmission(q) \/ RequestDies(q) PROVE TsInv'
  BY <1>7, RequestEnds DEF RefuseSubmission, RequestDies
<1>8. ASSUME NEW w \in Weeks, CloseWeek(w) PROVE TsInv'
  <2>1. tsRules' \in [lockApproved : BOOLEAN, editable : SUBSET Weeks, workflowOn : BOOLEAN]
    BY <1>8 DEF CloseWeek, TsInv, TsTyped
  <2>2. QED
    BY <1>8, <2>1, SurroundingsKept DEF CloseWeek, TsInv, TsTyped
<1>9. ASSUME NEW lock \in BOOLEAN, SetLockPolicy(lock) PROVE TsInv'
  <2>1. tsRules' \in [lockApproved : BOOLEAN, editable : SUBSET Weeks, workflowOn : BOOLEAN]
    BY <1>9 DEF SetLockPolicy, TsInv, TsTyped
  <2>2. QED
    BY <1>9, <2>1, SurroundingsKept DEF SetLockPolicy, TsInv, TsTyped
<1>10. ASSUME NEW a \in Approvers, ChangeManager(a) PROVE TsInv'
  BY <1>10, SurroundingsKept DEF ChangeManager, TsInv, TsTyped
<1>11. CASE UNCHANGED tsVars
  BY <1>11, SurroundingsKept DEF tsVars, TsInv, TsTyped
<1>12. QED
  BY <1>1, <1>2, <1>3, <1>4, <1>5, <1>6, <1>7, <1>8, <1>9, <1>10, <1>11, CreateKeeps, FindNoneKeeps,
     ResubmitKeeps, InsertKeeps, ApproveKeeps, RejectKeeps DEF TsNext

\* However edits, submissions and decisions of one employee's weeks interleave: a row
\* agrees with its batch, a batch is approved only with every step signed in this round,
\* and what was submitted stays as it was (timesheet_batch_service.rs and the entry
\* functions of attendance_service.rs).
THEOREM WeeksHold == TsSpec => []WeekHolds
<1>1. TsInit => TsInv
  BY TsInvInit
<1>2. TsInv /\ [TsNext]_tsVars => TsInv'
  BY StepKeepsTsInv
<1>3. TsInv => WeekHolds
  <2> SUFFICES ASSUME TsInv PROVE WeekHolds
    OBVIOUS
  <2>1. TsTypeOK
    BY DEF TsInv, TsTyped, TsTypeOK, EntryRow, BatchRow, Request
  <2>2. ASSUME NEW e \in Rows, entry[e].live
        PROVE  CASE entry[e].state = "DRAFT" -> entry[e].batch = NoBatch
                 [] entry[e].state = "SUBMITTED" -> batch[entry[e].batch].status = "PENDING"
                 [] OTHER -> batch[entry[e].batch].status = "APPROVED"
    BY <2>2 DEF TsInv, TsTyped, EntryRow, EntryInv
  <2>3. ASSUME NEW w \in Weeks \ doubled PROVE Cardinality(ActiveFor(w)) <= 1
    <3>1. \A b, c \in ActiveFor(w) : b = c
      BY DEF TsInv, OneBatch, ActiveFor
    <3>2. CASE ActiveFor(w) = {}
      BY <3>2, FS_EmptySet
    <3>3. CASE ActiveFor(w) # {}
      <4>1. PICK b \in ActiveFor(w) : TRUE
        BY <3>3
      <4>2. ActiveFor(w) = {b}
        BY <3>1, <4>1
      <4>3. QED
        <5>1. Cardinality({b}) = 1
          BY FS_Singleton
        <5>2. Cardinality(ActiveFor(w)) = 1
          BY <4>2, <5>1
        <5>3. QED
          BY <5>2
    <3>4. QED
      BY <3>2, <3>3
  <2>4. EveryStepSigned /\ SubmittedHoursStand
    BY DEF TsInv, SignedInv, EntryInv, EveryStepSigned, SubmittedHoursStand
  <2>5. QED
    BY <2>1, <2>2, <2>3, <2>4 DEF WeekHolds, WeekAgrees
<1>4. QED
  BY <1>1, <1>2, <1>3, PTL DEF TsSpec

-----------------------------------------------------------------------------
(* Expense claims *)

ClaimRow == [status : {"NONE", "PENDING", "REJECTED"} \cup Granted, step : Nat,
             amount : ClaimAmounts \cup {0}, granted : Nat, payment : Payments,
             trip : TripIds \cup {NoTrip}]

Amounts == [c \in ClaimIds |-> request[c].amount]

Within(sum) == MonthLimit = None \/ sum <= MonthLimit

SubmissionsAlone ==
  \A c, o \in ClaimIds : submitting[c] > 0 /\ submitting[o] > 0 => c = o

\* The month has room for the claim that has passed its checks.
RoomForNext ==
  /\ Within(MonthSum)
  /\ \A c \in ClaimIds : submitting[c] > 0 => Within(MonthSum + submitting[c])

\* What the monthly limit needs to be inductive: a submission in flight is of a claim that
\* is not made yet, it is alone unless two overlapped, and what it adds was checked.
LimitInv ==
  /\ IsFiniteSet(Counted)
  /\ \A c \in ClaimIds : submitting[c] > 0 => request[c].status = "NONE"
  /\ overlapped \/ SubmissionsAlone
  /\ overlapped \/ reached \/ RoomForNext

ClInv == ClTypeOK /\ ReimbursedOnce /\ LimitInv

LEMMA ClaimTypes ==
  ASSUME ClTypeOK
  PROVE  /\ request \in [Requests -> ClaimRow]
         /\ \A r \in Requests : request[r] \in ClaimRow
         /\ \A c \in ClaimIds : c \in Requests /\ request[c].amount \in Nat /\ submitting[c] \in Nat
         /\ \A t \in TripIds : t \in Requests /\ t \notin ClaimIds
         /\ Counted \subseteq ClaimIds
<1>1. request \in [Requests -> ClaimRow] BY DEF ClTypeOK, ClaimRow
<1>2. \A r \in Requests : request[r] \in ClaimRow BY <1>1
<1>3. \A c \in ClaimIds : c \in Requests BY DEF Requests
<1>4. \A a \in ClaimAmounts \cup {0} : a \in Nat BY ClaimsAssumption
<1>5. \A c \in ClaimIds : request[c].amount \in ClaimAmounts \cup {0}
  BY <1>2, <1>3 DEF ClaimRow
<1>6. \A c \in ClaimIds : submitting[c] \in ClaimAmounts \cup {0} BY DEF ClTypeOK
<1>7. \A t \in TripIds : t \in Requests /\ t \notin ClaimIds
  BY ClaimsAssumption DEF Requests
<1> QED BY <1>1, <1>2, <1>3, <1>4, <1>5, <1>6, <1>7 DEF Counted

LEMMA LimitTyped == ClTypeOK => MonthLimit \in Nat
<1> SUFFICES ASSUME ClTypeOK PROVE MonthLimit \in Nat OBVIOUS
<1> DEFINE L == Positive({p.perMonth : p \in Tier})
<1>1. L \subseteq Nat
  BY ClaimsAssumption DEF ClTypeOK, Positive, Tier, ClaimPolicy
<1>2. MonthLimit = Tightest(L) BY DEF MonthLimit
<1> HIDE DEF L
<1>3. CASE L = {} BY <1>2, <1>3 DEF Tightest, None
<1>4. CASE L # {}
  <2>1. \E n \in L : \A m \in L : n <= m BY <1>1, <1>4, LeastNatural
  <2>2. Min(L) \in L BY <2>1 DEF Min
  <2> QED BY <1>1, <1>2, <1>4, <2>2 DEF Tightest
<1> QED BY <1>3, <1>4

LEMMA LimitStays == ASSUME UNCHANGED policies PROVE MonthLimit' = MonthLimit
BY DEF MonthLimit, Tier

LEMMA SumIs == MonthSum = SumFunctionOnSet(Amounts, Counted)
BY DEF MonthSum, Claimed, Amounts

LEMMA SumTyped == ClInv => MonthSum \in Nat
<1> SUFFICES ASSUME ClInv PROVE MonthSum \in Nat OBVIOUS
<1>1. \A c \in Counted : Amounts[c] \in Nat BY ClaimTypes DEF ClInv, Amounts
<1>2. IsFiniteSet(Counted) BY DEF ClInv, LimitInv
<1> QED BY <1>1, <1>2, SumNat, SumIs

\* A step after which the same claims count for as much as before leaves the month alone.
LEMMA MonthStays ==
  ASSUME ClInv, \A c \in ClaimIds : request'[c].amount = request[c].amount, Counted' = Counted
  PROVE  MonthSum' = MonthSum
<1>1. \A c \in Counted : Amounts'[c] = Amounts[c] BY ClaimTypes DEF ClInv, Amounts
<1>2. IsFiniteSet(Counted) BY DEF ClInv, LimitInv
<1>3. SumFunctionOnSet(Amounts', Counted) = SumFunctionOnSet(Amounts, Counted)
  BY ONLY <1>1, <1>2, SumSame
<1>4. MonthSum' = SumFunctionOnSet(Amounts', Counted') BY DEF MonthSum, Claimed, Amounts
<1> QED BY ONLY <1>3, <1>4, SumIs, Counted' = Counted

\* Decisions that grant, advance or pay, and what becomes of a trip.
LEMMA LimitKept ==
  ASSUME ClInv, \A c \in ClaimIds : request'[c].amount = request[c].amount,
         Counted' = Counted, \A c \in ClaimIds : request[c].status = "NONE" => request'[c].status = "NONE",
         UNCHANGED <<policies, submitting, reached, overlapped>>
  PROVE  LimitInv'
<1>1. MonthSum' = MonthSum /\ MonthLimit' = MonthLimit BY MonthStays, LimitStays
<1>2. RoomForNext => RoomForNext' BY <1>1 DEF RoomForNext, Within
<1> QED BY <1>2 DEF ClInv, LimitInv, SubmissionsAlone

LEMMA ReadForClaimKeeps ==
  ASSUME ClInv, NEW c \in ClaimIds, NEW amount \in ClaimAmounts, ReadForClaim(c, amount)
  PROVE  ClInv'
<1>1. amount \in Nat /\ amount > 0 BY ClaimsAssumption
<1>2. /\ submitting' = [submitting EXCEPT ![c] = amount] /\ submitting[c] = 0
      /\ request[c].status = "NONE" /\ Permitted(amount)
      /\ UNCHANGED <<request, category, policies, claimFlow, claimant, approvedEvents, reached>>
      /\ overlapped' = (overlapped \/ \E o \in ClaimIds : submitting[o] > 0)
  BY DEF ReadForClaim, claimRules
<1>3. submitting' \in [ClaimIds -> ClaimAmounts \cup {0}] /\ overlapped' \in BOOLEAN
  BY <1>2 DEF ClInv, ClTypeOK
<1>4. ClTypeOK' BY <1>2, <1>3 DEF ClInv, ClTypeOK
<1>5. ReimbursedOnce' BY <1>2 DEF ClInv, ReimbursedOnce
<1>6. /\ submitting'[c] = amount /\ \A o \in ClaimIds \ {c} : submitting'[o] = submitting[o]
  BY <1>2 DEF ClInv, ClTypeOK
<1>7. Counted' = Counted /\ MonthSum' = MonthSum /\ MonthLimit' = MonthLimit
  BY <1>2, LimitStays DEF Counted, MonthSum, Claimed
<1>8. ~overlapped' => ~overlapped /\ \A o \in ClaimIds \ {c} : ~(submitting'[o] > 0)
  BY <1>2, <1>6
<1>9. Within(MonthSum + amount) BY <1>2 DEF Permitted, ClaimedThisMonth, Within
<1>10. RoomForNext /\ ~overlapped' => RoomForNext'
  BY <1>6, <1>7, <1>8, <1>9 DEF RoomForNext, Within
<1>11. LimitInv'
  BY <1>2, <1>6, <1>7, <1>8, <1>10 DEF ClInv, LimitInv, SubmissionsAlone
<1> QED BY <1>4, <1>5, <1>11 DEF ClInv

LEMMA CommitClaimKeeps ==
  ASSUME ClInv, NEW c \in ClaimIds, NEW trip \in TripIds \cup {NoTrip}, CommitClaim(c, trip)
  PROVE  ClInv'
<1> DEFINE row == [status |-> "PENDING", step |-> 1, amount |-> submitting[c], granted |-> 0,
                   payment |-> "NONE", trip |-> trip]
<1>1. /\ submitting[c] > 0 /\ request' = [request EXCEPT ![c] = row]
      /\ submitting' = [submitting EXCEPT ![c] = 0]
      /\ UNCHANGED <<category, policies, claimFlow, claimant, approvedEvents, reached, overlapped>>
  BY DEF CommitClaim, claimRules, claimHistory
<1>2. row \in ClaimRow BY DEF ClaimRow, ClInv, ClTypeOK, Payments
<1>3. /\ c \in Requests /\ \A o \in ClaimIds : o \in Requests
      /\ request \in [Requests -> ClaimRow] /\ submitting \in [ClaimIds -> ClaimAmounts \cup {0}]
  BY ClaimTypes DEF ClInv, ClTypeOK
<1>4. /\ request' \in [Requests -> ClaimRow] /\ request'[c] = row
      /\ \A o \in ClaimIds \ {c} : request'[o] = request[o]
  BY <1>1, <1>2, <1>3
<1>5. /\ submitting' \in [ClaimIds -> ClaimAmounts \cup {0}] /\ submitting'[c] = 0
      /\ \A o \in ClaimIds \ {c} : submitting'[o] = submitting[o]
  BY <1>1, <1>3
<1>6. ClTypeOK' BY <1>1, <1>4, <1>5 DEF ClInv, ClTypeOK, ClaimRow
<1>7. /\ request[c].status = "NONE" /\ approvedEvents[c] = 0 /\ approvedEvents' = approvedEvents
  BY <1>1 DEF ClInv, LimitInv, ReimbursedOnce, Granted
<1>8. row.status = "PENDING" /\ row.payment = "NONE" /\ row.granted = 0 /\ row.amount = submitting[c]
  OBVIOUS
<1> HIDE DEF row
<1>9. ReimbursedOnce' BY <1>4, <1>7, <1>8 DEF ClInv, ReimbursedOnce, Granted
<1>10. c \notin Counted /\ Counted' = Counted \cup {c}
  BY <1>4, <1>7, <1>8, ClaimTypes DEF Counted, Granted
<1>11. IsFiniteSet(Counted) /\ IsFiniteSet(Counted')
  BY <1>10, FS_AddElement DEF ClInv, LimitInv
<1>12. \A o \in Counted \cup {c} : Amounts'[o] \in Int
  <2>1. \A o \in ClaimIds : request'[o].amount \in ClaimAmounts \cup {0}
    BY <1>3, <1>4 DEF ClaimRow
  <2>2. \A a \in ClaimAmounts \cup {0} : a \in Int BY ClaimsAssumption
  <2> QED BY <2>1, <2>2 DEF Amounts, Counted
<1>13. \A o \in Counted : Amounts'[o] = Amounts[o] BY <1>4, <1>10 DEF Amounts, Counted
<1>14. SumFunctionOnSet(Amounts', Counted') = Amounts'[c] + SumFunctionOnSet(Amounts', Counted)
  BY ONLY <1>10, <1>11, <1>12, SumAdd
<1>15. SumFunctionOnSet(Amounts', Counted) = SumFunctionOnSet(Amounts, Counted)
  BY ONLY <1>11, <1>13, SumSame
<1>16. MonthSum' = SumFunctionOnSet(Amounts', Counted') BY DEF MonthSum, Claimed, Amounts
<1>17. Amounts'[c] = submitting[c] BY <1>4, <1>8 DEF Amounts
<1>18. MonthSum \in Nat /\ submitting[c] \in Nat BY SumTyped, ClaimTypes DEF ClInv
<1>19. MonthSum' = MonthSum + submitting[c]
  BY ONLY <1>14, <1>15, <1>16, <1>17, <1>18, SumIs
<1>20. MonthLimit' = MonthLimit BY <1>1, LimitStays
<1>21. ~overlapped => \A o \in ClaimIds : ~(submitting'[o] > 0)
  BY <1>1, <1>5 DEF ClInv, LimitInv, SubmissionsAlone
<1>22. RoomForNext /\ ~overlapped => RoomForNext'
  BY <1>1, <1>19, <1>20, <1>21 DEF RoomForNext, Within
<1>23. overlapped' \/ SubmissionsAlone'
  BY <1>1, <1>21 DEF SubmissionsAlone
<1>24. \A o \in ClaimIds : submitting'[o] > 0 => request'[o].status = "NONE"
  BY <1>4, <1>5 DEF ClInv, LimitInv
<1>25. LimitInv' BY <1>1, <1>11, <1>22, <1>23, <1>24 DEF ClInv, LimitInv
<1> QED BY <1>6, <1>9, <1>25 DEF ClInv

LEMMA AbandonClaimKeeps ==
  ASSUME ClInv, NEW c \in ClaimIds, AbandonClaim(c)
  PROVE  ClInv'
<1>1. /\ submitting' = [submitting EXCEPT ![c] = 0]
      /\ UNCHANGED <<request, category, policies, claimFlow, claimant, approvedEvents, reached, overlapped>>
  BY DEF AbandonClaim, claimRules, claimHistory
<1>2. /\ submitting' \in [ClaimIds -> ClaimAmounts \cup {0}]
      /\ \A o \in ClaimIds : submitting'[o] > 0 => submitting[o] > 0 /\ submitting'[o] = submitting[o]
  BY <1>1 DEF ClInv, ClTypeOK
<1>3. ClTypeOK' BY <1>1, <1>2 DEF ClInv, ClTypeOK
<1>4. ReimbursedOnce' BY <1>1 DEF ClInv, ReimbursedOnce
<1>5. Counted' = Counted /\ MonthSum' = MonthSum /\ MonthLimit' = MonthLimit
  BY <1>1, LimitStays DEF Counted, MonthSum, Claimed
<1>6. RoomForNext => RoomForNext' BY <1>2, <1>5 DEF RoomForNext, Within
<1>7. LimitInv' BY <1>1, <1>2, <1>5, <1>6 DEF ClInv, LimitInv, SubmissionsAlone
<1> QED BY <1>3, <1>4, <1>7 DEF ClInv

\* What a step that writes one row of request, and no rule, does to the rest.
LEMMA OneRow ==
  ASSUME ClInv, NEW r \in Requests, NEW row \in ClaimRow, request' = [request EXCEPT ![r] = row],
         UNCHANGED <<category, policies, claimFlow, claimant, submitting, reached, overlapped>>,
         approvedEvents' \in [ClaimIds -> Nat]
  PROVE  /\ ClTypeOK' /\ request'[r] = row
         /\ \A o \in Requests \ {r} : request'[o] = request[o]
<1>1. request' \in [Requests -> ClaimRow] BY ClaimTypes DEF ClInv
<1>2. ClTypeOK' BY <1>1 DEF ClInv, ClTypeOK, ClaimRow
<1> QED BY <1>2, ClaimTypes DEF ClInv

\* A row whose claim goes on counting for as much.
LEMMA RowKeeps ==
  ASSUME ClInv, NEW r \in Requests, NEW row \in ClaimRow, request' = [request EXCEPT ![r] = row],
         UNCHANGED <<category, policies, claimFlow, claimant, submitting, reached, overlapped>>,
         r \in ClaimIds => /\ row.amount = request[r].amount
                           /\ request[r].status # "NONE"
                           /\ r \in Counted /\ row.status \in {"PENDING"} \cup Granted
  PROVE  LimitInv'
<1>1. /\ request'[r] = row /\ \A o \in Requests \ {r} : request'[o] = request[o]
      /\ \A o \in ClaimIds : o \in Requests
  BY ClaimTypes DEF ClInv
<1>2. /\ \A c \in ClaimIds : request'[c].amount = request[c].amount
      /\ \A c \in ClaimIds : request[c].status = "NONE" => request'[c].status = "NONE"
  BY <1>1
<1>3. Counted' = Counted BY <1>1 DEF Counted
<1> QED BY <1>2, <1>3, LimitKept

LEMMA SubmitTripKeeps ==
  ASSUME ClInv, NEW t \in TripIds, SubmitTrip(t)
  PROVE  ClInv'
<1> DEFINE row == [request[t] EXCEPT !.status = "PENDING", !.step = IF claimFlow.trips THEN 1 ELSE 0]
<1>1. t \in Requests /\ t \notin ClaimIds /\ request[t] \in ClaimRow BY ClaimTypes DEF ClInv
<1>2. row \in ClaimRow BY <1>1 DEF ClaimRow
<1>3. /\ request' = [request EXCEPT ![t] = row] /\ approvedEvents' = approvedEvents
      /\ UNCHANGED <<category, policies, claimFlow, claimant, submitting, reached, overlapped>>
  BY <1>1, ClaimTypes DEF SubmitTrip, claimRules, claimHistory, ClInv
<1> HIDE DEF row
<1>4. approvedEvents' \in [ClaimIds -> Nat] BY <1>3 DEF ClInv, ClTypeOK
<1>5. /\ ClTypeOK' /\ \A o \in Requests \ {t} : request'[o] = request[o]
  BY <1>1, <1>2, <1>3, <1>4, OneRow
<1>6. LimitInv' BY <1>1, <1>2, <1>3, RowKeeps
<1>7. ReimbursedOnce' BY <1>1, <1>3, <1>5 DEF ClInv, ReimbursedOnce, Requests
<1> QED BY <1>5, <1>6, <1>7 DEF ClInv

LEMMA AdvanceKeeps ==
  ASSUME ClInv, NEW d, NEW r \in Requests, NEW seen, AdvanceRequest(d, r, seen)
  PROVE  ClInv'
<1> DEFINE row == [request[r] EXCEPT !.step = seen + 1]
<1>1. request[r] \in ClaimRow BY ClaimTypes DEF ClInv
<1>2. request[r].status = "PENDING" /\ seen \in Nat
  BY <1>1 DEF AdvanceRequest, DecisionCurrent, ClaimRow
<1>3. /\ row \in ClaimRow /\ row.amount = request[r].amount /\ row.status = request[r].status
      /\ row.payment = request[r].payment /\ row.granted = request[r].granted
  BY <1>1, <1>2 DEF ClaimRow
<1>4. /\ request' = [request EXCEPT ![r] = row] /\ approvedEvents' = approvedEvents
      /\ UNCHANGED <<category, policies, claimFlow, claimant, submitting, reached, overlapped>>
  BY <1>1, ClaimTypes DEF AdvanceRequest, claimRules, claimHistory, ClInv
<1> HIDE DEF row
<1>5. approvedEvents' \in [ClaimIds -> Nat] BY <1>4 DEF ClInv, ClTypeOK
<1>6. /\ ClTypeOK' /\ request'[r] = row /\ \A o \in Requests \ {r} : request'[o] = request[o]
  BY <1>3, <1>4, <1>5, OneRow
<1>7. r \in ClaimIds => r \in Counted BY <1>2 DEF Counted
<1>8. LimitInv' BY <1>2, <1>3, <1>4, <1>7, RowKeeps
<1>9. ReimbursedOnce' BY <1>3, <1>4, <1>6 DEF ClInv, ReimbursedOnce, Requests
<1> QED BY <1>6, <1>8, <1>9 DEF ClInv

LEMMA MarkPaymentKeeps ==
  ASSUME ClInv, NEW c \in ClaimIds, NEW payment \in Payments, MarkPayment(c, payment)
  PROVE  ClInv'
<1> DEFINE row == [request[c] EXCEPT !.payment = payment]
<1>1. c \in Requests /\ request[c] \in ClaimRow BY ClaimTypes DEF ClInv
<1>2. request[c].status \in Granted BY DEF MarkPayment
<1>3. /\ row \in ClaimRow /\ row.amount = request[c].amount /\ row.status = request[c].status
      /\ row.granted = request[c].granted
  BY <1>1 DEF ClaimRow
<1>4. /\ request' = [request EXCEPT ![c] = row] /\ approvedEvents' = approvedEvents
      /\ UNCHANGED <<category, policies, claimFlow, claimant, submitting, reached, overlapped>>
  BY <1>1, ClaimTypes DEF MarkPayment, claimRules, claimHistory, ClInv
<1> HIDE DEF row
<1>5. approvedEvents' \in [ClaimIds -> Nat] BY <1>4 DEF ClInv, ClTypeOK
<1>6. /\ ClTypeOK' /\ request'[c] = row /\ \A o \in Requests \ {c} : request'[o] = request[o]
  BY <1>1, <1>3, <1>4, <1>5, OneRow
<1>7. c \in Counted /\ request[c].status # "NONE" BY <1>2 DEF Counted, Granted
<1>8. LimitInv' BY <1>1, <1>2, <1>3, <1>4, <1>7, RowKeeps
<1>9. ReimbursedOnce' BY <1>2, <1>3, <1>4, <1>6 DEF ClInv, ReimbursedOnce, Requests
<1> QED BY <1>6, <1>8, <1>9 DEF ClInv

LEMMA GrantClaimKeeps ==
  ASSUME ClInv, NEW d, NEW c \in ClaimIds, NEW seen, NEW amount, GrantClaim(d, c, seen, amount)
  PROVE  ClInv'
<1> DEFINE status == IF amount < request[c].amount THEN "PARTIAL_APPROVED" ELSE "APPROVED"
           row == [request[c] EXCEPT !.step = 0, !.granted = amount, !.status = status,
                                     !.payment = "PENDING_PAYMENT"]
<1>1. c \in Requests /\ request[c] \in ClaimRow /\ request[c].amount \in Nat
  BY ClaimTypes DEF ClInv
<1>2. request[c].status = "PENDING" /\ amount \in 1..request[c].amount
  BY DEF GrantClaim, DecisionCurrent, Grantable
<1>3. /\ row \in ClaimRow /\ row.amount = request[c].amount /\ row.status \in Granted
      /\ row.granted = amount /\ (row.status = "APPROVED") = (amount = row.amount)
  <2>1. amount \in Nat /\ status \in {"APPROVED", "PARTIAL_APPROVED"}
    BY <1>1, <1>2
  <2>2. (status = "APPROVED") = (amount = request[c].amount) BY <1>1, <1>2
  <2> HIDE DEF status
  <2>3. row \in ClaimRow BY <1>1, <2>1 DEF ClaimRow, Payments, Granted
  <2>4. row.amount = request[c].amount /\ row.status = status /\ row.granted = amount
    BY <1>1 DEF ClaimRow
  <2> QED BY <2>1, <2>2, <2>3, <2>4 DEF Granted
<1>4. /\ request' = [request EXCEPT ![c] = row] /\ approvedEvents' = [approvedEvents EXCEPT ![c] = @ + 1]
      /\ UNCHANGED <<category, policies, claimFlow, claimant, submitting, reached, overlapped>>
  BY <1>1, ClaimTypes DEF GrantClaim, claimRules, claimHistory, ClInv
<1> HIDE DEF row
<1>5. approvedEvents[c] = 0 /\ approvedEvents \in [ClaimIds -> Nat]
  BY <1>2 DEF ClInv, ClTypeOK, ReimbursedOnce, Granted
<1>6. /\ approvedEvents' \in [ClaimIds -> Nat] /\ approvedEvents'[c] = 1
      /\ \A o \in ClaimIds \ {c} : approvedEvents'[o] = approvedEvents[o]
  BY <1>4, <1>5
<1>7. /\ ClTypeOK' /\ request'[c] = row /\ \A o \in Requests \ {c} : request'[o] = request[o]
  BY <1>1, <1>3, <1>4, <1>6, OneRow
<1>8. c \in Counted /\ request[c].status # "NONE" BY <1>2 DEF Counted, Granted
<1>9. LimitInv' BY <1>1, <1>3, <1>4, <1>8, RowKeeps
<1>10. 0 < amount /\ amount <= row.amount BY <1>1, <1>2, <1>3
<1>11. ReimbursedOnce'
  BY <1>3, <1>6, <1>7, <1>10 DEF ClInv, ReimbursedOnce, Requests
<1> QED BY <1>7, <1>9, <1>11 DEF ClInv

LEMMA GrantTripKeeps ==
  ASSUME ClInv, NEW d, NEW t \in TripIds, NEW seen, GrantTrip(d, t, seen)
  PROVE  ClInv'
<1> DEFINE row == [request[t] EXCEPT !.step = 0, !.status = "APPROVED"]
<1>1. t \in Requests /\ t \notin ClaimIds /\ request[t] \in ClaimRow BY ClaimTypes DEF ClInv
<1>2. row \in ClaimRow BY <1>1 DEF ClaimRow, Granted
<1>3. /\ request' = [request EXCEPT ![t] = row] /\ approvedEvents' = approvedEvents
      /\ UNCHANGED <<category, policies, claimFlow, claimant, submitting, reached, overlapped>>
  BY <1>1, ClaimTypes DEF GrantTrip, claimRules, claimHistory, ClInv
<1> HIDE DEF row
<1>4. approvedEvents' \in [ClaimIds -> Nat] BY <1>3 DEF ClInv, ClTypeOK
<1>5. /\ ClTypeOK' /\ \A o \in Requests \ {t} : request'[o] = request[o]
  BY <1>1, <1>2, <1>3, <1>4, OneRow
<1>6. LimitInv' BY <1>1, <1>2, <1>3, RowKeeps
<1>7. ReimbursedOnce' BY <1>1, <1>3, <1>5 DEF ClInv, ReimbursedOnce, Requests
<1> QED BY <1>5, <1>6, <1>7 DEF ClInv

LEMMA RefuseKeeps ==
  ASSUME ClInv, NEW d, NEW r \in Requests, NEW seen, RefuseRequest(d, r, seen)
  PROVE  ClInv'
<1> DEFINE row == [request[r] EXCEPT !.step = 0, !.status = "REJECTED", !.granted = 0,
                                     !.payment = "NONE"]
<1>1. request[r] \in ClaimRow /\ request[r].status = "PENDING"
  BY ClaimTypes DEF ClInv, RefuseRequest, DecisionCurrent
<1>2. /\ row \in ClaimRow /\ row.status = "REJECTED" /\ row.granted = 0 /\ row.payment = "NONE"
      /\ row.amount = request[r].amount
  BY <1>1 DEF ClaimRow, Payments
<1>3. /\ request' = [request EXCEPT ![r] = row] /\ approvedEvents' = approvedEvents
      /\ UNCHANGED <<category, policies, claimFlow, claimant, submitting, reached, overlapped>>
  BY <1>1, ClaimTypes DEF RefuseRequest, claimRules, claimHistory, ClInv
<1> HIDE DEF row
<1>4. approvedEvents' \in [ClaimIds -> Nat] BY <1>3 DEF ClInv, ClTypeOK
<1>5. /\ ClTypeOK' /\ request'[r] = row /\ \A o \in Requests \ {r} : request'[o] = request[o]
  BY <1>2, <1>3, <1>4, OneRow
<1>6. ReimbursedOnce'
  BY <1>1, <1>2, <1>3, <1>5 DEF ClInv, ReimbursedOnce, Requests, Granted
<1>7. Counted' = Counted \ {r}
  BY <1>2, <1>5, ClaimTypes DEF Counted, Granted, Requests
<1>8. IsFiniteSet(Counted) /\ IsFiniteSet(Counted') /\ Counted' \in SUBSET Counted
  BY <1>7, FS_Subset DEF ClInv, LimitInv
<1>9. \A c \in ClaimIds : request'[c].amount = request[c].amount
  BY <1>2, <1>5 DEF Requests
<1>10. \A c \in Counted : Amounts[c] \in Nat /\ Amounts'[c] = Amounts[c]
  BY <1>9, ClaimTypes DEF ClInv, Amounts
<1>11. SumFunctionOnSet(Amounts', Counted') = SumFunctionOnSet(Amounts, Counted')
  BY ONLY <1>8, <1>10, SumSame
<1>12. SumFunctionOnSet(Amounts, Counted') <= SumFunctionOnSet(Amounts, Counted)
  BY ONLY <1>8, <1>10, SumMonotone
<1>13. SumFunctionOnSet(Amounts, Counted') \in Nat BY ONLY <1>8, <1>10, SumNat
<1>14. MonthSum' = SumFunctionOnSet(Amounts', Counted') BY DEF MonthSum, Claimed, Amounts
<1>15. MonthSum \in Nat /\ MonthSum' \in Nat /\ MonthSum' <= MonthSum
  BY ONLY <1>11, <1>12, <1>13, <1>14, SumIs, SumTyped, ClInv
<1>16. MonthLimit' = MonthLimit /\ MonthLimit \in Nat BY <1>3, LimitStays, LimitTyped DEF ClInv
<1>17. \A c \in ClaimIds : submitting[c] \in Nat BY ClaimTypes DEF ClInv
<1>18. RoomForNext => RoomForNext'
  BY <1>3, <1>15, <1>16, <1>17 DEF RoomForNext, Within
<1>19. \A c \in ClaimIds : submitting[c] > 0 => request'[c].status = "NONE"
  BY <1>1, <1>5 DEF ClInv, LimitInv, Requests
<1>20. LimitInv' BY <1>3, <1>8, <1>18, <1>19 DEF ClInv, LimitInv, SubmissionsAlone
<1> QED BY <1>5, <1>6, <1>20 DEF ClInv

\* HR changes a rule, or the employee leaves.
LEMMA RulesKeep ==
  ASSUME ClInv, category' \in [live : BOOLEAN, maximum : CategoryMaxima], policies' \in SUBSET PolicyPool,
         claimant' \in BOOLEAN, reached' \in BOOLEAN, reached' \/ UNCHANGED <<policies, reached>>,
         UNCHANGED <<request, claimFlow, submitting, approvedEvents, overlapped>>
  PROVE  ClInv'
<1>1. ClTypeOK' BY DEF ClInv, ClTypeOK
<1>2. ReimbursedOnce' BY DEF ClInv, ReimbursedOnce
<1>3. Counted' = Counted /\ MonthSum' = MonthSum BY DEF Counted, MonthSum, Claimed
<1>4. /\ IsFiniteSet(Counted')
      /\ \A c \in ClaimIds : submitting'[c] > 0 => request'[c].status = "NONE"
      /\ overlapped' \/ SubmissionsAlone'
  BY <1>3 DEF ClInv, LimitInv, SubmissionsAlone
<1>5. CASE reached' = TRUE
  <2>1. overlapped' \/ reached' \/ RoomForNext' BY <1>5, Zenon
  <2> QED BY <1>1, <1>2, <1>4, <2>1 DEF ClInv, LimitInv
<1>6. CASE UNCHANGED <<policies, reached>>
  <2>1. MonthLimit' = MonthLimit BY <1>6, LimitStays
  <2>2. RoomForNext => RoomForNext' BY <1>3, <2>1 DEF RoomForNext, Within
  <2>3. overlapped \/ reached \/ RoomForNext BY DEF ClInv, LimitInv
  <2>4. overlapped' \/ reached' \/ RoomForNext' BY <1>6, <2>2, <2>3, Zenon
  <2> QED BY <1>1, <1>2, <1>4, <2>4 DEF ClInv, LimitInv
<1> QED BY <1>1, <1>2, <1>5, <1>6 DEF ClInv

LEMMA ClBegins == ClInit => ClInv
<1> SUFFICES ASSUME ClInit PROVE ClInv OBVIOUS
<1>1. NoRequest \in ClaimRow BY DEF NoRequest, ClaimRow, Payments
<1>2. request \in [Requests -> ClaimRow] BY <1>1 DEF ClInit
<1>3. ClTypeOK BY <1>2 DEF ClInit, ClTypeOK, ClaimRow
<1>4. \A c \in ClaimIds : request[c] = NoRequest BY DEF ClInit, Requests
<1>5. ReimbursedOnce BY <1>4 DEF ClInit, ReimbursedOnce, NoRequest, Granted
<1>6. Counted = {} BY <1>4 DEF Counted, NoRequest, Granted
<1>7. MonthSum = 0 BY <1>6, SumIs, SumEmpty
<1>8. MonthLimit \in Nat BY <1>3, LimitTyped
<1>9. RoomForNext BY <1>7, <1>8 DEF RoomForNext, Within, ClInit
<1>10. IsFiniteSet(Counted) BY <1>6, FS_EmptySet
<1>11. LimitInv BY <1>9, <1>10 DEF LimitInv, SubmissionsAlone, ClInit
<1> QED BY <1>3, <1>5, <1>11 DEF ClInv

LEMMA ClKeeps == ClInv /\ [ClNext]_clVars => ClInv'
<1> SUFFICES ASSUME ClInv, [ClNext]_clVars PROVE ClInv' OBVIOUS
<1>1. CASE \E c \in ClaimIds : AbandonClaim(c) BY <1>1, AbandonClaimKeeps
<1>2. CASE \E c \in ClaimIds, amount \in ClaimAmounts : ReadForClaim(c, amount)
  BY <1>2, ReadForClaimKeeps
<1>3. CASE \E c \in ClaimIds, trip \in TripIds \cup {NoTrip} : CommitClaim(c, trip)
  BY <1>3, CommitClaimKeeps
<1>4. CASE \E c \in ClaimIds, payment \in Payments : MarkPayment(c, payment)
  BY <1>4, MarkPaymentKeeps
<1>5. CASE \E c \in ClaimIds : \E d, seen, amount : GrantClaim(d, c, seen, amount)
  BY <1>5, GrantClaimKeeps
<1>6. CASE \E t \in TripIds : SubmitTrip(t) BY <1>6, SubmitTripKeeps
<1>7. CASE \E t \in TripIds : \E d, seen : GrantTrip(d, t, seen) BY <1>7, GrantTripKeeps
<1>8. CASE \E r \in Requests : \E d, seen : AdvanceRequest(d, r, seen) BY <1>8, AdvanceKeeps
<1>9. CASE \E r \in Requests : \E d, seen : RefuseRequest(d, r, seen) BY <1>9, RefuseKeeps
<1>10. CASE \/ \E maximum \in CategoryMaxima : SetCategory(maximum)
            \/ DeleteCategory \/ \E p \in PolicyPool : UpsertPolicy(p) \/ DropPolicy(p)
  <2>1. reached' = TRUE /\ UNCHANGED <<request, claimFlow, claimant, submitting, approvedEvents, overlapped>>
    BY <1>10 DEF SetCategory, DeleteCategory, UpsertPolicy, DropPolicy, RulesChanged
  <2>2. category \in [live : BOOLEAN, maximum : CategoryMaxima] /\ policies \in SUBSET PolicyPool
    BY DEF ClInv, ClTypeOK
  <2>3. category' \in [live : BOOLEAN, maximum : CategoryMaxima] /\ policies' \in SUBSET PolicyPool
    BY <1>10, <2>2 DEF SetCategory, DeleteCategory, UpsertPolicy, DropPolicy
  <2>4. claimant' \in BOOLEAN BY <2>1 DEF ClInv, ClTypeOK
  <2> QED BY <2>1, <2>3, <2>4, RulesKeep
<1>11. CASE ClaimantLeaves
  <2>1. /\ claimant' = FALSE
        /\ UNCHANGED <<request, category, policies, claimFlow, submitting, approvedEvents, reached, overlapped>>
    BY <1>11 DEF ClaimantLeaves, claimHistory
  <2>2. /\ category' \in [live : BOOLEAN, maximum : CategoryMaxima] /\ policies' \in SUBSET PolicyPool
        /\ reached' \in BOOLEAN
    BY <2>1 DEF ClInv, ClTypeOK
  <2> QED BY <2>1, <2>2, RulesKeep
<1>12. CASE UNCHANGED clVars
  <2>1. /\ UNCHANGED <<request, category, policies, claimFlow, claimant, submitting, approvedEvents,
                       reached, overlapped>>
    BY <1>12 DEF clVars
  <2>2. /\ category' \in [live : BOOLEAN, maximum : CategoryMaxima] /\ policies' \in SUBSET PolicyPool
        /\ reached' \in BOOLEAN /\ claimant' \in BOOLEAN
    BY <2>1 DEF ClInv, ClTypeOK
  <2> QED BY <2>1, <2>2, RulesKeep
<1> QED
  BY <1>1, <1>2, <1>3, <1>4, <1>5, <1>6, <1>7, <1>8, <1>9, <1>10, <1>11, <1>12 DEF ClNext

\* Claims stay within the monthly limit and are reimbursed once, whatever the policies, the
\* workflows and the number of claims and trips.
THEOREM ClaimsStayCovered == ClSpec => []ClaimsHold
<1>1. ClInv => ClaimsHold
  BY DEF ClInv, LimitInv, RoomForNext, Within, ClaimsHold, MonthlyLimitHeld
<1> QED BY <1>1, ClBegins, ClKeeps, PTL DEF ClSpec


-----------------------------------------------------------------------------
(* Payroll *)

CycleRow == [status : {"NONE", "DRAFT", "PROCESSED"}, month : PayMonths]
ReviewRow == [revision : 0..MaxRevision, stamp : 0..MaxWrites, final : BOOLEAN, lines : [Payees -> Line]]
InputRow == [kind : {"none", "auto", "manual"}, value : Pays \cup {0}]
ArrearRow == [status : {"NONE", "PENDING", "APPLIED"}, payee : Payees, cycle : CycleIds \cup {NoCycle}]
DeskRow == [cycle : CycleIds \cup {NoCycle}, creates : SUBSET PayMonths, seen : ReviewRow]

PayTypes ==
  /\ cycle \in [CycleIds -> CycleRow] /\ review \in [CycleIds -> ReviewRow]
  /\ payslip \in [CycleIds -> [Payees -> Line]]
  /\ salary \in [Payees -> Pays \cup {0}]
  /\ period \in [PayMonths \X Payees -> InputRow]
  /\ arrear \in [ArrearIds -> ArrearRow]
  /\ leave \in [approved : BOOLEAN, frozen : SUBSET PayMonths] /\ holiday \in PayMonths
  /\ writes \in 0..MaxWrites /\ twins \in SUBSET PayMonths
  /\ desk \in [PayClerks -> DeskRow]
  /\ shown \in [CycleIds -> [Payees -> Line]] /\ owed \in [CycleIds -> [Payees -> Line]]

\* A complete review under the fingerprint of today says what the tables say today.
Reviewed(c) ==
  /\ review[c].stamp <= writes
  /\ review[c].final /\ review[c].stamp = writes =>
       \A e \in Payees : review[c].lines[e] = LineOf(e, cycle[c].month)
  /\ cycle[c].status = "NONE" => ~review[c].final

\* What is on a screen was the review once, and is the review while the revision is the same.
SeenOnce(u) ==
  LET d == desk[u] IN
  d.cycle # NoCycle =>
    /\ d.seen.revision <= review[d.cycle].revision
    /\ d.seen.revision = review[d.cycle].revision => d.seen = review[d.cycle]

PaidInv(c) ==
  /\ cycle[c].status # "PROCESSED" => payslip[c] = NoLines
  /\ cycle[c].status = "PROCESSED" => payslip[c] = shown[c] /\ payslip[c] = owed[c]
  /\ \A e \in Payees : \A a \in payslip[c][e].arrears : arrear[a].status = "APPLIED" /\ arrear[a].cycle = c
  /\ payslip[c][OnLeave].days \subseteq leave.frozen

ArrearInv(a) ==
  arrear[a].status = "APPLIED" =>
    arrear[a].cycle \in CycleIds /\ \E e \in Payees : a \in payslip[arrear[a].cycle][e].arrears

\* Unless two creations overlapped, a month has one cycle, or one clerk who creates it.
MonthInv(m) ==
  m \notin twins =>
    /\ \A c, d \in CyclesOf(m) : c = d
    /\ \A u \in PayClerks : m \in desk[u].creates =>
         CyclesOf(m) = {} /\ \A o \in PayClerks : m \in desk[o].creates => o = u

PayInv ==
  /\ PayTypes
  /\ \A c \in CycleIds : Reviewed(c) /\ PaidInv(c)
  /\ \A u \in PayClerks : SeenOnce(u)
  /\ \A a \in ArrearIds : ArrearInv(a)
  /\ \A m \in PayMonths : MonthInv(m)
  /\ leave.frozen # PayMonths

LEMMA NothingReviewed ==
  /\ NoLine \in Line /\ NoLines \in [Payees -> Line] /\ NoReview \in ReviewRow
  /\ AwayFromDesk \in DeskRow /\ AwayFromDesk.creates = {} /\ AwayFromDesk.cycle = NoCycle
  /\ NoReview.revision = 0 /\ NoReview.stamp = 0 /\ ~NoReview.final
  /\ \A e \in Payees : NoLines[e].arrears = {} /\ NoLines[e].days = {}
<1>1. NoLine \in Line BY DEF NoLine, Line
<1>2. NoLines \in [Payees -> Line] BY <1>1 DEF NoLines
<1>3. NoReview \in ReviewRow BY <1>2, PayrollAssumption DEF NoReview, ReviewRow
<1>4. AwayFromDesk \in DeskRow BY <1>3 DEF AwayFromDesk, DeskRow
<1> QED BY <1>1, <1>2, <1>3, <1>4 DEF AwayFromDesk, NoReview, NoLines, NoLine

\* Whoever writes an input table changes the fingerprint, and with it what reviews are worth.
LEMMA InputStepKeeps ==
  ASSUME PayInv, PayTypes', Writes(1), UNCHANGED <<cycle, review, payslip, desk, payHistory>>,
         leave'.frozen = leave.frozen,
         \A a \in ArrearIds : \/ arrear'[a] = arrear[a]
                              \/ arrear[a].status = "NONE" /\ arrear'[a].status = "PENDING"
  PROVE  PayInv'
<1>1. writes \in Nat /\ writes' = writes + 1 BY DEF PayInv, PayTypes, Writes
<1>2. \A c \in CycleIds : review[c].stamp \in Nat /\ review[c].stamp <= writes
  BY DEF PayInv, PayTypes, ReviewRow, Reviewed
<1>3. UNCHANGED <<shown, owed, twins>> BY DEF payHistory
<1>4. ASSUME NEW c \in CycleIds PROVE Reviewed(c)'
  BY <1>1, <1>2 DEF PayInv, Reviewed
<1>5. ASSUME NEW c \in CycleIds PROVE PaidInv(c)'
  <2>1. PaidInv(c) BY DEF PayInv
  <2>2. \A e \in Payees : payslip[c][e] \in Line BY DEF PayInv, PayTypes
  <2>3. \A e \in Payees : \A a \in payslip[c][e].arrears :
          a \in ArrearIds /\ arrear[a].status = "APPLIED" /\ arrear[a].cycle = c
    BY <2>1, <2>2 DEF PaidInv, Line
  <2>4. \A e \in Payees : \A a \in payslip[c][e].arrears : arrear'[a] = arrear[a] BY <2>3
  <2> QED BY <1>3, <2>1, <2>3, <2>4 DEF PaidInv
<1>6. ASSUME NEW a \in ArrearIds PROVE ArrearInv(a)'
  BY DEF PayInv, ArrearInv
<1>7. ASSUME NEW u \in PayClerks PROVE SeenOnce(u)' BY DEF PayInv, SeenOnce
<1>8. ASSUME NEW m \in PayMonths PROVE MonthInv(m)'
  BY <1>3 DEF PayInv, MonthInv, CyclesOf
<1> QED BY <1>4, <1>5, <1>6, <1>7, <1>8 DEF PayInv

LEMMA PayWritersKeep ==
  ASSUME PayInv,
         \/ \E e \in Payees, v \in Pays : AssignSalary(e, v) \/ \E m \in PayMonths : SavePeriod(m, e, v)
         \/ \E a \in ArrearIds, e \in Payees : CreateArrear(a, e)
         \/ ApproveUnpaidLeave \/ SavePolicy
         \/ \E m \in PayMonths : MoveHoliday(m)
  PROVE  PayInv'
<1>1. PayTypes BY DEF PayInv
<1>2. Writes(1) => writes' \in 0..MaxWrites BY <1>1, PayrollAssumption DEF Writes, PayTypes
<1>3. ASSUME NEW e \in Payees, NEW v \in Pays, AssignSalary(e, v) PROVE PayInv'
  <2>1. /\ Writes(1) /\ salary' = [salary EXCEPT ![e] = v]
        /\ UNCHANGED <<cycle, review, payslip, period, arrear, leave, holiday, desk, payHistory>>
    BY <1>3 DEF AssignSalary
  <2>2. PayTypes' BY <1>1, <1>2, <2>1 DEF PayTypes, payHistory
  <2> QED BY <2>1, <2>2, InputStepKeeps
<1>4. ASSUME NEW e \in Payees, NEW v \in Pays, NEW m \in PayMonths, SavePeriod(m, e, v) PROVE PayInv'
  <2>1. /\ Writes(1) /\ period' = [period EXCEPT ![<<m, e>>] = [kind |-> "manual", value |-> v]]
        /\ UNCHANGED <<cycle, review, payslip, salary, arrear, leave, holiday, desk, payHistory>>
    BY <1>4 DEF SavePeriod
  <2>2. [kind |-> "manual", value |-> v] \in InputRow BY DEF InputRow
  <2>3. period' \in [PayMonths \X Payees -> InputRow] BY <1>1, <2>1, <2>2 DEF PayTypes
  <2>4. PayTypes' BY <1>1, <1>2, <2>1, <2>3 DEF PayTypes, payHistory
  <2> QED BY <2>1, <2>4, InputStepKeeps
<1>5. ASSUME NEW a \in ArrearIds, NEW e \in Payees, CreateArrear(a, e) PROVE PayInv'
  <2> DEFINE new == [status |-> "PENDING", payee |-> e, cycle |-> NoCycle]
  <2>1. /\ arrear[a].status = "NONE" /\ Writes(1) /\ arrear' = [arrear EXCEPT ![a] = new]
        /\ UNCHANGED <<cycle, review, payslip, salary, period, leave, holiday, desk, payHistory>>
    BY <1>5 DEF CreateArrear
  <2>2. new \in ArrearRow /\ new.status = "PENDING" BY DEF ArrearRow
  <2> HIDE DEF new
  <2>3. /\ arrear' \in [ArrearIds -> ArrearRow] /\ arrear'[a].status = "PENDING"
        /\ \A x \in ArrearIds \ {a} : arrear'[x] = arrear[x]
    BY <1>1, <2>1, <2>2 DEF PayTypes
  <2>4. PayTypes' BY <1>1, <1>2, <2>1, <2>3 DEF PayTypes, payHistory
  <2> QED BY <2>1, <2>3, <2>4, InputStepKeeps
<1>6. CASE ApproveUnpaidLeave
  <2>1. /\ Writes(1) /\ leave' = [leave EXCEPT !.approved = TRUE]
        /\ UNCHANGED <<cycle, review, payslip, salary, period, arrear, holiday, desk, payHistory>>
    BY <1>6 DEF ApproveUnpaidLeave
  <2>2. leave' \in [approved : BOOLEAN, frozen : SUBSET PayMonths] /\ leave'.frozen = leave.frozen
    BY <1>1, <2>1 DEF PayTypes
  <2>3. PayTypes' BY <1>1, <1>2, <2>1, <2>2 DEF PayTypes, payHistory
  <2> QED BY <2>1, <2>2, <2>3, InputStepKeeps
<1>7. CASE SavePolicy
  <2>1. Writes(1) /\ UNCHANGED <<cycle, review, payslip, payInputs, desk, payHistory>>
    BY <1>7 DEF SavePolicy
  <2>2. PayTypes' BY <1>1, <1>2, <2>1 DEF PayTypes, payHistory, payInputs
  <2> QED BY <2>1, <2>2, InputStepKeeps DEF payInputs
<1>8. ASSUME NEW m \in PayMonths, MoveHoliday(m) PROVE PayInv'
  <2>1. /\ holiday' = m /\ Writes(1)
        /\ UNCHANGED <<cycle, review, payslip, salary, period, arrear, leave, desk, payHistory>>
    BY <1>8 DEF MoveHoliday
  <2>2. PayTypes' BY <1>1, <1>2, <2>1 DEF PayTypes, payHistory
  <2> QED BY <2>1, <2>2, InputStepKeeps
<1> QED BY <1>3, <1>4, <1>5, <1>6, <1>7, <1>8


LEMMA SeekCycleKeeps ==
  ASSUME PayInv, NEW u \in PayClerks, NEW m \in PayMonths, SeekCycle(u, m)
  PROVE  PayInv'
<1> DEFINE row == [desk[u] EXCEPT !.creates = {m}]
<1>1. /\ desk[u] = AwayFromDesk /\ CyclesOf(m) = {} /\ desk' = [desk EXCEPT ![u] = row]
      /\ twins' = twins \cup {t \in {m} : \E o \in PayClerks : m \in desk[o].creates}
      /\ UNCHANGED <<cycle, review, payslip, payInputs, writes, shown, owed>>
  BY DEF SeekCycle, PayInv, PayTypes
<1>2. row \in DeskRow /\ row.cycle = NoCycle /\ row.creates = {m}
  BY <1>1, NothingReviewed DEF DeskRow
<1> HIDE DEF row
<1>3. desk' \in [PayClerks -> DeskRow] /\ desk'[u] = row /\ \A o \in PayClerks \ {u} : desk'[o] = desk[o]
  BY <1>1, <1>2 DEF PayInv, PayTypes
<1>4. UNCHANGED <<salary, period, arrear, leave, holiday>> BY <1>1 DEF payInputs
<1>5. PayTypes' BY <1>1, <1>3, <1>4 DEF PayInv, PayTypes
<1>6. ASSUME NEW c \in CycleIds PROVE Reviewed(c)' /\ PaidInv(c)'
  <2>1. \A e, n : LineOf(e, n)' = LineOf(e, n)
    BY <1>4 DEF LineOf, PayOf, Pending, LeaveDays, LeaveDates, AllocateDates
  <2> QED BY <1>1, <1>4, <2>1 DEF PayInv, Reviewed, PaidInv
<1>7. ASSUME NEW o \in PayClerks PROVE SeenOnce(o)'
  BY <1>1, <1>2, <1>3 DEF PayInv, SeenOnce
<1>8. ASSUME NEW a \in ArrearIds PROVE ArrearInv(a)' BY <1>1, <1>4 DEF PayInv, ArrearInv
<1>9. ASSUME NEW t \in PayMonths PROVE MonthInv(t)'
  <2>1. MonthInv(t) /\ CyclesOf(t)' = CyclesOf(t) BY <1>1 DEF PayInv, CyclesOf
  <2>2. CASE t # m
    <3>1. \A o \in PayClerks : t \in desk'[o].creates => t \in desk[o].creates
      BY <1>2, <1>3, <2>2
    <3> QED BY <1>1, <2>1, <3>1 DEF MonthInv
  <2>3. CASE t = m /\ \E o \in PayClerks : m \in desk[o].creates
    BY <1>1, <2>3 DEF MonthInv
  <2>4. CASE t = m /\ \A o \in PayClerks : m \notin desk[o].creates
    <3>1. \A o \in PayClerks : t \in desk'[o].creates => o = u BY <1>3, <2>4
    <3> QED BY <1>1, <2>1, <2>4, <3>1 DEF MonthInv
  <2> QED BY <2>2, <2>3, <2>4
<1> QED BY <1>4, <1>5, <1>6, <1>7, <1>8, <1>9 DEF PayInv

LEMMA InsertCycleKeeps ==
  ASSUME PayInv, NEW u \in PayClerks, NEW c \in CycleIds, InsertCycle(u, c)
  PROVE  PayInv'
<1>1. PICK m \in desk[u].creates : cycle' = [cycle EXCEPT ![c] = [status |-> "DRAFT", month |-> m]]
  BY DEF InsertCycle
<1> DEFINE row == [status |-> "DRAFT", month |-> m]
<1>2. /\ cycle[c].status = "NONE" /\ Writes(1) /\ desk' = [desk EXCEPT ![u] = AwayFromDesk]
      /\ UNCHANGED <<review, payslip, payInputs, payHistory>>
  BY DEF InsertCycle
<1>3. PayTypes /\ desk[u] \in DeskRow BY DEF PayInv, PayTypes
<1>4. m \in PayMonths BY <1>1, <1>3 DEF DeskRow
<1>5. row \in CycleRow /\ row.status = "DRAFT" /\ row.month = m BY <1>4 DEF CycleRow
<1> HIDE DEF row
<1>6. /\ cycle' \in [CycleIds -> CycleRow] /\ cycle'[c] = row
      /\ \A d \in CycleIds \ {c} : cycle'[d] = cycle[d]
  BY <1>1, <1>3, <1>5 DEF PayTypes, row
<1>7. /\ desk' \in [PayClerks -> DeskRow] /\ desk'[u] = AwayFromDesk
      /\ \A o \in PayClerks \ {u} : desk'[o] = desk[o]
  BY <1>2, <1>3, NothingReviewed DEF PayTypes
<1>8. /\ UNCHANGED <<salary, period, arrear, leave, holiday, shown, owed, twins>>
      /\ writes \in Nat /\ writes' = writes + 1 /\ writes' \in 0..MaxWrites
  BY <1>2, <1>3, PayrollAssumption DEF payInputs, payHistory, Writes, PayTypes
<1>9. PayTypes' BY <1>2, <1>3, <1>6, <1>7, <1>8 DEF PayTypes
<1>10. ASSUME NEW d \in CycleIds PROVE Reviewed(d)' /\ PaidInv(d)'
  <2>1. Reviewed(d) /\ PaidInv(d) BY DEF PayInv
  <2>2. review[d].stamp \in Nat /\ review[d].stamp <= writes
    BY <1>3, <2>1 DEF PayTypes, ReviewRow, Reviewed
  <2>3. Reviewed(d)' BY <1>2, <1>5, <1>6, <1>8, <2>1, <2>2 DEF Reviewed
  <2>4. PaidInv(d)' BY <1>2, <1>5, <1>6, <1>8, <2>1 DEF PaidInv
  <2> QED BY <2>3, <2>4
<1>11. ASSUME NEW o \in PayClerks PROVE SeenOnce(o)'
  BY <1>2, <1>7, NothingReviewed DEF PayInv, SeenOnce
<1>12. ASSUME NEW a \in ArrearIds PROVE ArrearInv(a)' BY <1>2, <1>8 DEF PayInv, ArrearInv
<1>13. ASSUME NEW t \in PayMonths PROVE MonthInv(t)'
  <2>1. MonthInv(t) BY DEF PayInv
  <2>2. \A o \in PayClerks : t \in desk'[o].creates => t \in desk[o].creates /\ o # u
    BY <1>7, NothingReviewed
  <2>3. CASE t # m
    <3>1. CyclesOf(t)' = CyclesOf(t) BY <1>2, <1>5, <1>6, <2>3 DEF CyclesOf
    <3> QED BY <1>8, <2>1, <2>2, <3>1 DEF MonthInv
  <2>4. CASE t = m
    <3>1. CyclesOf(t)' = CyclesOf(t) \cup {c} BY <1>5, <1>6, <2>4 DEF CyclesOf
    <3>2. t \notin twins => CyclesOf(t) = {} /\ \A o \in PayClerks : t \in desk[o].creates => o = u
      BY <1>1, <2>1, <2>4 DEF MonthInv
    <3> QED BY <1>8, <2>2, <3>1, <3>2 DEF MonthInv
  <2> QED BY <2>3, <2>4
<1> QED BY <1>8, <1>9, <1>10, <1>11, <1>12, <1>13 DEF PayInv

LEMMA OpenReviewKeeps ==
  ASSUME PayInv, NEW u \in PayClerks, NEW c \in CycleIds, OpenReview(u, c)
  PROVE  PayInv'
<1> DEFINE row == [cycle |-> c, creates |-> {}, seen |-> review[c]]
<1>1. /\ desk' = [desk EXCEPT ![u] = row]
      /\ UNCHANGED <<cycle, review, payslip, payInputs, writes, payHistory>>
  BY DEF OpenReview
<1>2. PayTypes /\ review[c] \in ReviewRow /\ review[c].revision \in Nat
  BY DEF PayInv, PayTypes, ReviewRow
<1>3. row \in DeskRow /\ row.cycle = c /\ row.creates = {} /\ row.seen = review[c]
  BY <1>2 DEF DeskRow
<1> HIDE DEF row
<1>4. desk' \in [PayClerks -> DeskRow] /\ desk'[u] = row /\ \A o \in PayClerks \ {u} : desk'[o] = desk[o]
  BY <1>1, <1>2, <1>3 DEF PayTypes
<1>5. UNCHANGED <<salary, period, arrear, leave, holiday, shown, owed, twins>>
  BY <1>1 DEF payInputs, payHistory
<1>6. PayTypes' BY <1>1, <1>2, <1>4, <1>5 DEF PayTypes
<1>7. ASSUME NEW d \in CycleIds PROVE Reviewed(d)' /\ PaidInv(d)'
  <2>1. \A e, n : LineOf(e, n)' = LineOf(e, n)
    BY <1>5 DEF LineOf, PayOf, Pending, LeaveDays, LeaveDates, AllocateDates
  <2> QED BY <1>1, <1>5, <2>1 DEF PayInv, Reviewed, PaidInv
<1>8. ASSUME NEW o \in PayClerks PROVE SeenOnce(o)'
  BY <1>1, <1>2, <1>3, <1>4 DEF PayInv, SeenOnce
<1>9. ASSUME NEW a \in ArrearIds PROVE ArrearInv(a)' BY <1>1, <1>5 DEF PayInv, ArrearInv
<1>10. ASSUME NEW t \in PayMonths PROVE MonthInv(t)'
  <2>1. CyclesOf(t)' = CyclesOf(t) BY <1>1 DEF CyclesOf
  <2>2. \A o \in PayClerks : t \in desk'[o].creates => t \in desk[o].creates BY <1>3, <1>4
  <2> QED BY <1>5, <2>1, <2>2 DEF PayInv, MonthInv
<1> QED BY <1>5, <1>6, <1>7, <1>8, <1>9, <1>10 DEF PayInv


\* A calculation stores the inputs that its lines rest on.
LEMMA CalculateKeeps ==
  ASSUME PayInv, NEW u \in PayClerks, CalculatePayrollCycle(u)
  PROVE  PayInv'
<1>1. PICK c \in CycleIds : c = desk[u].cycle
  BY DEF CalculatePayrollCycle, PayInv, PayTypes, DeskRow
<1>2. PICK m \in PayMonths : m = cycle[c].month BY DEF PayInv, PayTypes, CycleRow
<1>3. PICK refused \in SUBSET HeldBack(m) : Calculates(c, m, refused)
  BY <1>1, <1>2 DEF CalculatePayrollCycle
<1> DEFINE saved == {e \in Payees \ refused : period[<<m, e>>] # Stored(m, e)}
           lines == [e \in Payees |-> IF e \in refused THEN NoLine ELSE LineOf(e, m)]
           final == Payees # {} /\ \A e \in Payees : lines[e] # NoLine
           new == [revision |-> review[c].revision + 1, stamp |-> writes', lines |-> lines, final |-> final]
           row == [desk[u] EXCEPT !.seen = review'[c]]
<1>4. /\ cycle[c].status = "DRAFT" /\ review[c].revision < MaxRevision
      /\ desk' = [desk EXCEPT ![u] = row]
      /\ UNCHANGED <<cycle, payslip, salary, arrear, leave, holiday, payHistory>>
  BY <1>1 DEF CalculatePayrollCycle, PayInv, PayTypes
<1>5. PayTypes BY DEF PayInv
<1>6. saved \in SUBSET Payees /\ IsFiniteSet(saved) /\ Cardinality(saved) \in Nat
  BY PayrollAssumption, FS_Subset, FS_CardinalityType
<1>7. writes \in Nat /\ writes' = writes + Cardinality(saved) /\ writes' \in 0..MaxWrites
  BY <1>3, <1>5, <1>6, PayrollAssumption DEF Calculates, Writes, PayTypes
<1>8. /\ \A e \in Payees : Stored(m, e) \in InputRow
      /\ \A e \in Payees : Stored(m, e).kind # "manual" =>
           period[<<m, e>>].kind # "manual" /\ Stored(m, e).value = salary[e]
      /\ \A e \in Payees : Stored(m, e).kind = "manual" => e \notin saved
  <2>1. \A e \in Payees : <<m, e>> \in PayMonths \X Payees OBVIOUS
  <2>2. \A e \in Payees : period[<<m, e>>] \in InputRow BY <1>5, <2>1 DEF PayTypes
  <2>3. \A e \in Payees : salary[e] \in Pays \cup {0} BY <1>5 DEF PayTypes
  <2> QED BY <2>2, <2>3 DEF InputRow, Stored
<1>9. period' = [k \in PayMonths \X Payees |->
                   IF k[1] = m /\ k[2] \in saved THEN Stored(m, k[2]) ELSE period[k]]
  BY <1>3 DEF Calculates
<1>10. review' = [review EXCEPT ![c] = new] BY <1>3 DEF Calculates
<1>11. \A e \in Payees : LineOf(e, m) \in Line
  <2>1. \A e \in Payees : <<m, e>> \in PayMonths \X Payees OBVIOUS
  <2>2. \A e \in Payees : PayOf(e, m) \in Pays \cup {0}
    BY <1>5, <2>1 DEF PayOf, PayTypes, InputRow
  <2>3. \A e \in Payees : Pending(e) \subseteq ArrearIds BY DEF Pending
  <2>4. \A e \in Payees : LeaveDays(e, m) \subseteq PayMonths BY DEF LeaveDays
  <2> QED BY <2>2, <2>3, <2>4, NothingReviewed DEF LineOf, Line
<1>12. lines \in [Payees -> Line] BY <1>11, NothingReviewed
<1>13. final => \A e \in Payees : lines[e] = LineOf(e, m) OBVIOUS
<1>14. final \in BOOLEAN OBVIOUS
<1> HIDE DEF saved, lines, final
<1>15. /\ new \in ReviewRow /\ new.revision = review[c].revision + 1 /\ new.stamp = writes'
       /\ new.lines = lines /\ new.final = final /\ review[c].revision \in Nat
  BY <1>4, <1>5, <1>7, <1>12, <1>14, PayrollAssumption DEF PayTypes, ReviewRow
<1> HIDE DEF new
<1>16. /\ review' \in [CycleIds -> ReviewRow] /\ review'[c] = new
       /\ \A d \in CycleIds \ {c} : review'[d] = review[d]
  BY <1>5, <1>10, <1>15 DEF PayTypes
<1>17. row \in DeskRow /\ row.cycle = c /\ row.creates = desk[u].creates /\ row.seen = new
  BY ZenonT(60), <1>1, <1>5, <1>15, <1>16 DEF PayTypes, DeskRow
<1> HIDE DEF row
<1>18. desk' \in [PayClerks -> DeskRow] /\ desk'[u] = row /\ \A o \in PayClerks \ {u} : desk'[o] = desk[o]
  BY <1>4, <1>5, <1>17 DEF PayTypes
<1>19. period' \in [PayMonths \X Payees -> InputRow]
  <2>1. \A k \in PayMonths \X Payees : k[2] \in Payees /\ period[k] \in InputRow
    BY <1>5 DEF PayTypes
  <2> QED BY <1>8, <1>9, <2>1
<1>20. UNCHANGED <<shown, owed, twins>> BY <1>4 DEF payHistory
<1>21. PayTypes' BY <1>4, <1>5, <1>7, <1>16, <1>18, <1>19, <1>20 DEF PayTypes
<1>22. \A e \in Payees, n \in PayMonths :
         period'[<<n, e>>] = IF n = m /\ e \in saved THEN Stored(m, e) ELSE period[<<n, e>>]
  BY <1>9
<1>23. \A e \in Payees : PayOf(e, m)' = PayOf(e, m) BY <1>4, <1>8, <1>22 DEF PayOf
<1>24. \A e, n : Pending(e)' = Pending(e) /\ LeaveDays(e, n)' = LeaveDays(e, n)
  BY <1>4 DEF Pending, LeaveDays, LeaveDates, AllocateDates
<1>25. \A e \in Payees : LineOf(e, m)' = LineOf(e, m) BY <1>23, <1>24 DEF LineOf
<1>26. saved = {} => \A e \in Payees, n \in PayMonths : LineOf(e, n)' = LineOf(e, n)
  <2> SUFFICES ASSUME saved = {}, NEW e \in Payees, NEW n \in PayMonths
               PROVE  LineOf(e, n)' = LineOf(e, n)
    OBVIOUS
  <2>1. period'[<<n, e>>] = period[<<n, e>>] BY <1>22
  <2>2. PayOf(e, n)' = PayOf(e, n) BY <1>4, <2>1 DEF PayOf
  <2> QED BY <1>24, <2>2 DEF LineOf
<1>27. ASSUME NEW d \in CycleIds PROVE Reviewed(d)'
  <2>1. Reviewed(d) /\ review[d].stamp \in Nat /\ cycle[d].month \in PayMonths
    BY <1>5 DEF PayInv, PayTypes, ReviewRow, CycleRow
  <2>2. CASE d = c
    <3>1. review'[d].stamp = writes' /\ review'[d].final = final /\ review'[d].lines = lines
      BY <1>15, <1>16, <2>2
    <3>2. final => \A e \in Payees : lines[e] = LineOf(e, m)' BY <1>13, <1>25
    <3>3. cycle'[d].month = m /\ cycle'[d].status # "NONE" BY <1>2, <1>4, <2>2
    <3>4. review'[d].final => \A e \in Payees : review'[d].lines[e] = LineOf(e, cycle[d].month)'
      BY <3>1, <3>2, <3>3, <1>2, <2>2 DEF LineOf, PayOf, Pending, LeaveDays, LeaveDates, AllocateDates
    <3> QED BY <1>7, <3>1, <3>3, <3>4 DEF Reviewed
  <2>3. CASE d # c
    <3>1. review'[d] = review[d] /\ review[d].stamp <= writes' BY <1>6, <1>7, <1>16, <2>1, <2>3 DEF Reviewed
    <3>2. review[d].stamp = writes' => saved = {} /\ review[d].stamp = writes
      BY <1>6, <1>7, <2>1, FS_EmptySet DEF Reviewed
    <3>3. PICK n \in PayMonths : n = cycle[d].month BY <2>1
    <3>4. review[d].final /\ review[d].stamp = writes' => \A e \in Payees : review[d].lines[e] = LineOf(e, n)'
      BY <1>26, <2>1, <3>2, <3>3 DEF Reviewed
    <3>5. review[d].final /\ review[d].stamp = writes' => \A e \in Payees : review[d].lines[e] = LineOf(e, cycle[d].month)'
      BY <1>4, <3>3, <3>4 DEF LineOf, PayOf, Pending, LeaveDays, LeaveDates, AllocateDates
    <3> QED BY <1>4, <2>1, <3>1, <3>5 DEF Reviewed
  <2> QED BY <2>2, <2>3
<1>28. ASSUME NEW d \in CycleIds PROVE PaidInv(d)'
  BY <1>4, <1>20 DEF PayInv, PaidInv
<1>29. ASSUME NEW o \in PayClerks PROVE SeenOnce(o)'
  <2>1. SeenOnce(o) /\ desk[o] \in DeskRow BY <1>5 DEF PayInv, PayTypes
  <2>2. CASE o = u BY <1>15, <1>16, <1>17, <1>18, <2>2 DEF SeenOnce
  <2>3. CASE o # u /\ desk[o].cycle = c
    <3>1. desk[o].seen.revision \in Nat /\ desk[o].seen.revision <= review[c].revision
      BY <2>1, <2>3, PayrollAssumption DEF SeenOnce, DeskRow, ReviewRow
    <3> QED BY <1>15, <1>16, <1>18, <2>3, <3>1 DEF SeenOnce
  <2>4. CASE o # u /\ desk[o].cycle # c
    BY <1>16, <1>18, <2>1, <2>4 DEF SeenOnce, DeskRow
  <2> QED BY <2>2, <2>3, <2>4
<1>30. ASSUME NEW a \in ArrearIds PROVE ArrearInv(a)' BY <1>4 DEF PayInv, ArrearInv
<1>31. ASSUME NEW t \in PayMonths PROVE MonthInv(t)'
  <2>1. CyclesOf(t)' = CyclesOf(t) BY <1>4 DEF CyclesOf
  <2>2. \A o \in PayClerks : desk'[o].creates = desk[o].creates BY <1>17, <1>18
  <2> QED BY <1>20, <2>1, <2>2 DEF PayInv, MonthInv
<1> QED BY <1>4, <1>21, <1>27, <1>28, <1>29, <1>30, <1>31 DEF PayInv


\* A line is paid as it was reviewed, and the arrears and the days it holds are consumed.
LEMMA FinalizeKeeps ==
  ASSUME PayInv, NEW u \in PayClerks, FinalizePayrollCycle(u)
  PROVE  PayInv'
<1>1. PICK c \in CycleIds : c = desk[u].cycle
  BY DEF FinalizePayrollCycle, PayInv, PayTypes, DeskRow
<1>2. PICK m \in PayMonths : m = cycle[c].month BY DEF PayInv, PayTypes, CycleRow
<1> DEFINE lines == review[c].lines
           consumed == UNION {lines[e].arrears : e \in Payees}
           paid == [cycle[c] EXCEPT !.status = "PROCESSED"]
           due == [e \in Payees |-> LineOf(e, m)]
<1>3. /\ cycle[c].status = "DRAFT" /\ Fresh(c, desk[u].seen) /\ review[c].final
      /\ \A e \in Payees : Persistable(e, m, lines[e])
      /\ Writes(1)
      /\ arrear' = [a \in ArrearIds |-> IF a \in consumed
                      THEN [arrear[a] EXCEPT !.status = "APPLIED", !.cycle = c] ELSE arrear[a]]
      /\ desk' = [desk EXCEPT ![u] = AwayFromDesk]
      /\ UNCHANGED <<review, salary, period, holiday, twins>>
  BY <1>1, <1>2 DEF FinalizePayrollCycle
<1>4. /\ payslip' = [payslip EXCEPT ![c] = lines] /\ shown' = [shown EXCEPT ![c] = desk[u].seen.lines]
      /\ owed' = [owed EXCEPT ![c] = due]
  BY <1>1, <1>2 DEF FinalizePayrollCycle
<1>5. leave' = [leave EXCEPT !.frozen = IF leave.approved THEN LeaveDates ELSE leave.frozen]
  BY DEF FinalizePayrollCycle
<1>6. PayTypes BY DEF PayInv
<1>7. cycle' = [cycle EXCEPT ![c] = paid] BY <1>1, <1>6 DEF FinalizePayrollCycle, PayTypes
<1>8. paid \in CycleRow /\ paid.status = "PROCESSED" /\ paid.month = m
  BY ZenonT(60), <1>2, <1>6 DEF PayTypes, CycleRow
<1> HIDE DEF paid
<1>9. /\ cycle' \in [CycleIds -> CycleRow] /\ cycle'[c] = paid
      /\ \A d \in CycleIds \ {c} : cycle'[d] = cycle[d]
  BY <1>6, <1>7, <1>8 DEF PayTypes
<1>10. /\ writes \in Nat /\ writes' = writes + 1 /\ writes' \in 0..MaxWrites
       /\ review[c] \in ReviewRow /\ lines \in [Payees -> Line]
  <2>1. /\ writes \in Nat /\ writes' = writes + 1 /\ writes' \in 0..MaxWrites
    <3>1. writes + 1 <= MaxWrites /\ writes' = writes + 1 BY <1>3 DEF Writes
    <3>2. writes \in 0..MaxWrites /\ MaxWrites \in Nat BY <1>6, PayrollAssumption DEF PayTypes
    <3> QED BY ONLY <3>1, <3>2
  <2>2. review[c] \in ReviewRow BY <1>6 DEF PayTypes
  <2>3. lines \in [Payees -> Line] BY <2>2 DEF ReviewRow
  <2> QED BY <2>1, <2>2, <2>3
<1>11. review[c].stamp = writes BY <1>3 DEF Fresh
<1>12. \A e \in Payees : lines[e] = LineOf(e, m) BY <1>2, <1>3, <1>11 DEF PayInv, Reviewed
<1>13. due = lines BY <1>10, <1>12
<1>14. desk[u].seen.lines = lines
  <2>1. desk[u].cycle # NoCycle BY <1>1, PayrollAssumption
  <2>2. desk[u].seen = review[c] BY <1>1, <1>3, <2>1 DEF PayInv, SeenOnce, Fresh
  <2> QED BY <2>2
<1>15. /\ \A e \in Payees : lines[e].arrears = Pending(e) /\ lines[e].days = LeaveDays(e, m)
       /\ \A e \in Payees : lines[e] \in Line
  BY <1>3, <1>10 DEF Persistable
<1>16. /\ consumed \subseteq ArrearIds /\ \A a \in consumed : arrear[a].status = "PENDING"
       /\ \A e \in Payees : \A a \in lines[e].arrears : a \in consumed
       /\ \A a \in consumed : \E e \in Payees : a \in lines[e].arrears
  BY <1>15 DEF Pending
<1> HIDE DEF due, lines, consumed
<1>17. /\ payslip' \in [CycleIds -> [Payees -> Line]] /\ payslip'[c] = lines
       /\ shown' \in [CycleIds -> [Payees -> Line]] /\ shown'[c] = lines
       /\ owed' \in [CycleIds -> [Payees -> Line]] /\ owed'[c] = lines
       /\ \A d \in CycleIds \ {c} : payslip'[d] = payslip[d] /\ shown'[d] = shown[d] /\ owed'[d] = owed[d]
  BY <1>4, <1>6, <1>10, <1>13, <1>14 DEF PayTypes
<1>18. /\ \A a \in consumed : arrear'[a] = [arrear[a] EXCEPT !.status = "APPLIED", !.cycle = c]
       /\ \A a \in ArrearIds \ consumed : arrear'[a] = arrear[a]
  BY <1>3, <1>16
<1>19. /\ \A a \in consumed : arrear'[a] \in ArrearRow /\ arrear'[a].status = "APPLIED" /\ arrear'[a].cycle = c
       /\ arrear' \in [ArrearIds -> ArrearRow]
  <2>1. \A a \in ArrearIds : arrear[a] \in ArrearRow BY <1>6 DEF PayTypes
  <2>2. \A a \in consumed : arrear'[a] \in ArrearRow /\ arrear'[a].status = "APPLIED" /\ arrear'[a].cycle = c
    <3> SUFFICES ASSUME NEW a \in consumed
                 PROVE  arrear'[a] \in ArrearRow /\ arrear'[a].status = "APPLIED" /\ arrear'[a].cycle = c
      OBVIOUS
    <3>1. a \in ArrearIds /\ arrear[a] \in ArrearRow BY <1>16, <2>1
    <3>2. arrear'[a] = [arrear[a] EXCEPT !.status = "APPLIED", !.cycle = c] BY <1>18
    <3> QED BY <3>1, <3>2 DEF ArrearRow
  <2>3. \A a \in ArrearIds : arrear'[a] \in ArrearRow BY <1>18, <2>1, <2>2
  <2> QED BY <1>3, <2>2, <2>3
<1>20. /\ leave' \in [approved : BOOLEAN, frozen : SUBSET PayMonths] /\ leave'.frozen # PayMonths
       /\ leave.frozen \subseteq leave'.frozen /\ (leave.approved => leave'.frozen = LeaveDates)
  <2>1. /\ leave \in [approved : BOOLEAN, frozen : SUBSET PayMonths] /\ leave.frozen # PayMonths
        /\ holiday \in PayMonths
    BY <1>6 DEF PayInv, PayTypes
  <2>2. LeaveDates \in SUBSET PayMonths /\ LeaveDates # PayMonths /\ leave.frozen \subseteq LeaveDates
    BY <2>1 DEF LeaveDates, AllocateDates
  <2>3. leave'.frozen = IF leave.approved THEN LeaveDates ELSE leave.frozen BY <1>5, <2>1
  <2>4. leave' \in [approved : BOOLEAN, frozen : SUBSET PayMonths] BY <1>5, <2>1, <2>2
  <2> QED BY <2>1, <2>2, <2>3, <2>4
<1>21. desk' \in [PayClerks -> DeskRow] /\ desk'[u] = AwayFromDesk
       /\ \A o \in PayClerks \ {u} : desk'[o] = desk[o]
  BY <1>3, <1>6, NothingReviewed DEF PayTypes
<1>22. PayTypes' BY <1>3, <1>6, <1>9, <1>10, <1>17, <1>19, <1>20, <1>21 DEF PayTypes
<1>23. ASSUME NEW d \in CycleIds PROVE Reviewed(d)'
  <2>1. Reviewed(d) /\ review[d].stamp \in Nat BY <1>6 DEF PayInv, PayTypes, ReviewRow
  <2>2. /\ review'[d].stamp = review[d].stamp /\ review[d].stamp < writes'
        /\ review'[d].revision = review[d].revision
    <3>1. review[d].stamp <= writes /\ review' = review BY <1>3, <2>1 DEF Reviewed
    <3>2. writes \in Nat /\ writes' = writes + 1 BY <1>10
    <3> QED BY ONLY <2>1, <3>1, <3>2
  <2>3. cycle'[d].status = cycle[d].status \/ cycle'[d].status = "PROCESSED"
    BY <1>8, <1>9
  <2>4. review' = review BY <1>3
  <2>5. review'[d].stamp <= writes' /\ review'[d].stamp # writes'
    <3>1. writes' \in Nat BY <1>10
    <3> QED BY <2>1, <2>2, <3>1
  <2> QED BY <2>1, <2>3, <2>4, <2>5 DEF Reviewed
<1>24. ASSUME NEW d \in CycleIds PROVE PaidInv(d)'
  <2>1. PaidInv(d) /\ \A e \in Payees : payslip[d][e] \in Line BY <1>6 DEF PayInv, PayTypes
  <2>2. CASE d = c
    <3>1. lines[OnLeave].days \subseteq leave'.frozen
      BY <1>15, <1>20, PayrollAssumption DEF LeaveDays
    <3> QED BY <1>8, <1>9, <1>16, <1>17, <1>19, <2>2, <3>1 DEF PaidInv
  <2>3. CASE d # c
    <3>1. \A e \in Payees : \A a \in payslip[d][e].arrears :
            a \in ArrearIds /\ arrear[a].status = "APPLIED" /\ arrear[a].cycle = d
      BY <2>1 DEF PaidInv, Line
    <3>2. \A e \in Payees : \A a \in payslip[d][e].arrears : arrear'[a] = arrear[a]
      BY <1>16, <1>18, <3>1
    <3> QED BY <1>9, <1>17, <1>20, <2>1, <2>3, <3>1, <3>2 DEF PaidInv
  <2> QED BY <2>2, <2>3
<1>25. ASSUME NEW o \in PayClerks PROVE SeenOnce(o)'
  BY <1>3, <1>21, NothingReviewed DEF PayInv, SeenOnce
<1>26. ASSUME NEW a \in ArrearIds PROVE ArrearInv(a)'
  <2>1. CASE a \in consumed BY <1>16, <1>17, <1>19, <2>1 DEF ArrearInv
  <2>2. CASE a \notin consumed
    <3>1. ArrearInv(a) /\ arrear'[a] = arrear[a] BY <1>18, <2>2 DEF PayInv
    <3>2. \A e \in Payees : a \notin payslip[c][e].arrears
      BY ZenonT(60), <1>3, NothingReviewed DEF PayInv, PaidInv
    <3> QED BY ZenonT(60), <1>17, <3>1, <3>2 DEF ArrearInv
  <2> QED BY <2>1, <2>2
<1>27. ASSUME NEW t \in PayMonths PROVE MonthInv(t)'
  <2>1. CyclesOf(t)' = CyclesOf(t)
    <3>1. \A d \in CycleIds : cycle'[d].month = cycle[d].month
                             /\ (cycle'[d].status # "NONE" <=> cycle[d].status # "NONE")
      BY <1>2, <1>3, <1>8, <1>9
    <3> QED BY <3>1 DEF CyclesOf
  <2>2. \A o \in PayClerks : t \in desk'[o].creates => t \in desk[o].creates
    BY <1>21, NothingReviewed
  <2>3. twins' = twins /\ MonthInv(t) BY <1>3 DEF PayInv
  <2> QED BY <2>1, <2>2, <2>3 DEF MonthInv
<1> QED BY <1>20, <1>22, <1>23, <1>24, <1>25, <1>26, <1>27 DEF PayInv

\* A set with no more than one element, counted and looked at.
LEMMA AtMostOne ==
  ASSUME NEW S, IsFiniteSet(S)
  PROVE  Cardinality(S) <= 1 <=> \A x, y \in S : x = y
<1>1. ASSUME Cardinality(S) <= 1, NEW x \in S, NEW y \in S PROVE x = y
  <2>1. Cardinality(S) \in Nat BY FS_CardinalityType
  <2>2. Cardinality(S) # 0 BY FS_EmptySet
  <2>3. Cardinality(S) = 1 BY <1>1, <2>1, <2>2
  <2> QED BY <2>3, FS_Singleton
<1>2. ASSUME \A x, y \in S : x = y PROVE Cardinality(S) <= 1
  <2>1. CASE S = {} BY <2>1, FS_EmptySet
  <2>2. CASE S # {}
    <3>1. \E x : S = {x} BY <1>2, <2>2
    <3> QED BY <3>1, FS_Singleton
  <2> QED BY <2>1, <2>2
<1> QED BY <1>1, <1>2

LEMMA PayBegins ==
  PayInit => PayInv
<1> SUFFICES ASSUME PayInit PROVE PayInv OBVIOUS
<1>1. /\ cycle \in [CycleIds -> [status : {"NONE", "DRAFT"}, month : PayMonths]]
      /\ review = [c \in CycleIds |-> NoReview] /\ payslip = [c \in CycleIds |-> NoLines]
      /\ leave \in [approved : BOOLEAN, frozen : {{}}] /\ writes = 0
      /\ desk = [u \in PayClerks |-> AwayFromDesk] /\ twins = {}
  BY DEF PayInit
<1>2. \A a \in ArrearIds : arrear[a] \in ArrearRow /\ arrear[a].status # "APPLIED"
  BY PayrollAssumption DEF PayInit, ArrearRow
<1>3. PayTypes
  <2>1. cycle \in [CycleIds -> CycleRow] BY <1>1 DEF CycleRow
  <2>2. period \in [PayMonths \X Payees -> InputRow]
    <3>1. {NoInput} \cup [kind : {"manual"}, value : Pays] \subseteq InputRow BY DEF NoInput, InputRow
    <3> QED BY <3>1 DEF PayInit
  <2>3. arrear \in [ArrearIds -> ArrearRow] BY <1>2 DEF PayInit
  <2>4. leave \in [approved : BOOLEAN, frozen : SUBSET PayMonths] BY <1>1
  <2>5. writes \in 0..MaxWrites BY <1>1, PayrollAssumption
  <2>6. /\ review \in [CycleIds -> ReviewRow] /\ desk \in [PayClerks -> DeskRow]
        /\ payslip \in [CycleIds -> [Payees -> Line]]
    BY <1>1, NothingReviewed
  <2>7. shown \in [CycleIds -> [Payees -> Line]] /\ owed \in [CycleIds -> [Payees -> Line]]
    BY NothingReviewed DEF PayInit
  <2>8. salary \in [Payees -> Pays \cup {0}] /\ holiday \in PayMonths BY DEF PayInit
  <2> QED BY <1>1, <2>1, <2>2, <2>3, <2>4, <2>5, <2>6, <2>7, <2>8 DEF PayTypes
<1>4. ASSUME NEW c \in CycleIds PROVE Reviewed(c) /\ PaidInv(c)
  <2>1. review[c] = NoReview /\ payslip[c] = NoLines /\ cycle[c].status # "PROCESSED" BY <1>1
  <2> QED BY <1>1, <2>1, NothingReviewed, PayrollAssumption DEF Reviewed, PaidInv
<1>5. \A u \in PayClerks : SeenOnce(u) BY <1>1, NothingReviewed DEF SeenOnce
<1>6. \A a \in ArrearIds : ArrearInv(a) BY <1>2 DEF ArrearInv
<1>7. ASSUME NEW m \in PayMonths PROVE MonthInv(m)
  <2> DEFINE row == [status |-> "DRAFT", month |-> m]
             S == {c \in CycleIds : cycle[c] = row}
  <2>1. Cardinality(S) <= 1 BY DEF PayInit
  <2>2. IsFiniteSet(S) BY PayrollAssumption, FS_Subset
  <2>3. CyclesOf(m) = S
    <3>1. \A c \in CycleIds : cycle[c] \in [status : {"NONE", "DRAFT"}, month : PayMonths] BY <1>1
    <3> QED BY <3>1 DEF CyclesOf
  <2>4. \A c, d \in CyclesOf(m) : c = d BY <2>1, <2>2, <2>3, AtMostOne
  <2> QED BY <1>1, <2>4, NothingReviewed DEF MonthInv
<1>8. leave.frozen # PayMonths BY <1>1, PayrollAssumption
<1> QED BY <1>3, <1>4, <1>5, <1>6, <1>7, <1>8 DEF PayInv

LEMMA PayKeeps ==
  PayInv /\ [PayNext]_payVars => PayInv'
<1> SUFFICES ASSUME PayInv, [PayNext]_payVars PROVE PayInv' OBVIOUS
<1>1. ASSUME NEW u \in PayClerks, NEW m \in PayMonths, SeekCycle(u, m) PROVE PayInv'
  BY <1>1, SeekCycleKeeps
<1>2. ASSUME NEW u \in PayClerks, NEW c \in CycleIds, InsertCycle(u, c) \/ OpenReview(u, c)
      PROVE  PayInv'
  BY <1>2, InsertCycleKeeps, OpenReviewKeeps
<1>3. ASSUME NEW u \in PayClerks, CalculatePayrollCycle(u) \/ FinalizePayrollCycle(u)
      PROVE  PayInv'
  BY <1>3, CalculateKeeps, FinalizeKeeps
<1>4. CASE \/ \E e \in Payees, v \in Pays : AssignSalary(e, v) \/ \E m \in PayMonths : SavePeriod(m, e, v)
           \/ \E a \in ArrearIds, e \in Payees : CreateArrear(a, e)
           \/ ApproveUnpaidLeave \/ SavePolicy
           \/ \E m \in PayMonths : MoveHoliday(m)
  BY <1>4, PayWritersKeep
<1>5. CASE UNCHANGED payVars
  <2>1. UNCHANGED <<cycle, review, payslip, salary, period, arrear, leave, holiday, writes, desk, shown, owed, twins>>
    BY <1>5 DEF payVars, payInputs, payHistory
  <2>2. PayTypes' BY <2>1 DEF PayInv, PayTypes
  <2>3. \A e, n : LineOf(e, n)' = LineOf(e, n)
    BY <2>1 DEF LineOf, PayOf, Pending, LeaveDays, LeaveDates, AllocateDates
  <2>4. ASSUME NEW c \in CycleIds PROVE Reviewed(c)' /\ PaidInv(c)'
    BY <2>1, <2>3 DEF PayInv, Reviewed, PaidInv
  <2>5. \A u \in PayClerks : SeenOnce(u)' BY <2>1 DEF PayInv, SeenOnce
  <2>6. \A a \in ArrearIds : ArrearInv(a)' BY <2>1 DEF PayInv, ArrearInv
  <2>7. \A m \in PayMonths : MonthInv(m)' BY <2>1 DEF PayInv, MonthInv, CyclesOf
  <2> QED BY <2>1, <2>2, <2>4, <2>5, <2>6, <2>7 DEF PayInv
<1> QED BY <1>1, <1>2, <1>3, <1>4, <1>5 DEF PayNext

LEMMA PayInvariant ==
  PaySpec => []PayInv
BY PayBegins, PayKeeps, PTL DEF PaySpec

\* What is paid is what was reviewed and what the tables gave; an arrear is on one payslip
\* exactly when it is applied, nobody is paid twice for a month unless two creations of its
\* cycle overlapped, and no more days of a leave are deducted than were approved
\* (finalize_payroll_cycle, calculate_payroll_cycle, resolved_dates).
THEOREM PaymentsHold ==
  PaySpec => []PayHolds
<1>1. PayInv => PayTypeOK
  <2> SUFFICES ASSUME PayInv PROVE PayTypeOK OBVIOUS
  <2>1. PayTypes BY DEF PayInv
  <2>2. \A u \in PayClerks : desk[u] \in DeskRow BY <2>1 DEF PayTypes
  <2>3. \A u \in PayClerks : desk[u].cycle \in CycleIds \cup {NoCycle} /\ desk[u].creates \in SUBSET PayMonths
    BY <2>2 DEF DeskRow
  <2> QED BY <2>1, <2>3 DEF PayTypeOK, PayTypes, CycleRow, ReviewRow, InputRow, ArrearRow
<1>2. PayInv => PaidAsReviewed BY DEF PayInv, PaidInv, PaidAsReviewed
<1>3. PayInv => PaidOnce
  <2> SUFFICES ASSUME PayInv PROVE PaidOnce OBVIOUS
  <2>1. ASSUME NEW a \in ArrearIds
        PROVE  LET on == {c \in CycleIds : \E e \in Payees : a \in payslip[c][e].arrears}
               IN on = IF arrear[a].status = "APPLIED" THEN {arrear[a].cycle} ELSE {}
    BY DEF PayInv, PaidInv, ArrearInv
  <2>2. ASSUME NEW m \in PayMonths \ twins
        PROVE  Cardinality({c \in CyclesOf(m) : Paid(c) # {}}) <= 1
    <3> DEFINE S == {c \in CyclesOf(m) : Paid(c) # {}}
    <3>1. S \subseteq CycleIds BY DEF CyclesOf
    <3>2. IsFiniteSet(S) BY <3>1, PayrollAssumption, FS_Subset
    <3>3. \A c, d \in S : c = d BY DEF PayInv, MonthInv
    <3> HIDE DEF S
    <3>4. Cardinality(S) <= 1 BY <3>2, <3>3, AtMostOne
    <3> QED BY <3>4 DEF S
  <2>3. Cardinality(UNION {payslip[c][OnLeave].days : c \in CycleIds}) < Cardinality(PayMonths)
    <3> DEFINE charged == UNION {payslip[c][OnLeave].days : c \in CycleIds}
    <3>1. charged \subseteq leave.frozen BY DEF PayInv, PaidInv
    <3>2. leave.frozen \subseteq PayMonths /\ leave.frozen # PayMonths BY DEF PayInv, PayTypes
    <3>3. charged \in SUBSET PayMonths /\ charged # PayMonths BY <3>1, <3>2
    <3> HIDE DEF charged
    <3>4. /\ Cardinality(charged) <= Cardinality(PayMonths) /\ Cardinality(PayMonths) # Cardinality(charged)
          /\ IsFiniteSet(charged)
      BY <3>3, PayrollAssumption, FS_Subset
    <3>5. Cardinality(charged) \in Nat /\ Cardinality(PayMonths) \in Nat
      BY <3>4, PayrollAssumption, FS_CardinalityType
    <3>6. Cardinality(charged) < Cardinality(PayMonths) BY <3>4, <3>5
    <3> QED BY <3>6 DEF charged
  <2> QED BY <2>1, <2>2, <2>3 DEF PaidOnce
<1>4. PayInv => PayHolds BY <1>1, <1>2, <1>3 DEF PayHolds
<1> QED BY <1>4, PayInvariant, PTL
=============================================================================
