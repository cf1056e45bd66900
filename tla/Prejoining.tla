----------------------------- MODULE Prejoining -----------------------------
(***************************************************************************)
(* Pre-joining (kabipay-employee, services/prejoining): HR invites a person  *)
(* by a private link, the person fills in a form and uploads documents, HR   *)
(* reviews them, and on the day the person joins the form becomes an         *)
(* employee with a login.  Each write locks the candidate's row and compares *)
(* the revision the caller has on the screen, so each is one action.  What a *)
(* caller has on the screen is read in two steps, the row first and its      *)
(* documents afterwards.  A form is the email in it, or incomplete.  The     *)
(* event table, which copies the row after each write, mail and the checks   *)
(* of bytes and names are left out.                                          *)
(***************************************************************************)
EXTENDS Naturals, FiniteSets

CONSTANTS
  Applicants,      \* candidate rows
  Emails,
  Codes,           \* employee codes, with the username that goes with each
  Needs,           \* document requirements of a configuration
  Screens,         \* browsers of HR users and of invited persons
  NoForm,          \* the answers lack something that is required
  MaxRevisions,     \* bound: revisions of a row
  MaxUploads       \* documents one candidate may ever upload (512 MiB in the code)

ASSUME PrejoiningAssumption ==
  MaxRevisions \in Nat /\ MaxUploads \in Nat /\ NoForm \notin Emails

VARIABLES
  applicant,   \* candidate rows; link is 0 when there is none or its time is over
  files,       \* per candidate and requirement the current document, named by its revision
  uploads,     \* per candidate how many documents are stored, current or not
  hired,       \* employees with their logins
  screen,      \* per screen what it shows of which candidate
  approvedAs   \* history: per candidate what the screen showed on which HR approved

pjVars == <<applicant, files, uploads, hired, screen, approvedAs>>

Closed == {"JOINED", "CANCELLED"}
Statuses == {"NONE", "DRAFT", "SUBMITTED", "CHANGES_REQUESTED", "APPROVED"} \cup Closed
Forms == Emails \cup {NoForm}
Contents == [form : Forms, files : [Needs -> 0..MaxRevisions]]
NoFiles == [n \in Needs |-> 0]
Empty == [form |-> NoForm, files |-> NoFiles]
Blank == [of |-> {}, revision |-> 0, link |-> 0, loaded |-> FALSE, shows |-> Empty]

PjTypeOK ==
  /\ applicant \in [Applicants -> [status : Statuses, revision : 0..MaxRevisions, form : Forms,
       needs : SUBSET Needs, link : 0..MaxRevisions + 1]]
  /\ files \in [Applicants -> [Needs -> 0..MaxRevisions]]
  /\ uploads \in [Applicants -> 0..MaxUploads]
  /\ hired \subseteq [email : Emails, code : Codes, from : SUBSET Applicants, files : SUBSET (1..MaxRevisions)]
  /\ screen \in [Screens -> [of : SUBSET Applicants, revision : 0..MaxRevisions,
       link : 0..MaxRevisions + 1, loaded : BOOLEAN, shows : Contents]]
  /\ approvedAs \in [Applicants -> Contents]

PjInit ==
  /\ applicant = [a \in Applicants |-> [status |-> "NONE", revision |-> 0, form |-> NoForm,
                                        needs |-> {}, link |-> 0]]
  /\ files = [a \in Applicants |-> NoFiles] /\ uploads = [a \in Applicants |-> 0]
  /\ hired = {} /\ screen = [s \in Screens |-> Blank]
  /\ approvedAs = [a \in Applicants |-> Empty]

-----------------------------------------------------------------------------
(* Screens *)

\* link 0 stands for HR's own view; what HR sees of a closed row leads nowhere.
Admits(row, link) ==
  /\ row.status \notin Closed \cup {"NONE"}
  /\ link # 0 => row.link = link

OpenScreen(s, a, link) ==
  /\ screen[s] = Blank /\ Admits(applicant[a], link)
  /\ screen' = [screen EXCEPT ![s] = [of |-> {a}, revision |-> applicant[a].revision, link |-> link,
       loaded |-> FALSE, shows |-> [form |-> applicant[a].form, files |-> NoFiles]]]
  /\ UNCHANGED <<applicant, files, uploads, hired, approvedAs>>

\* The documents are read after the row, in a query of their own.
LoadFiles(s, a) ==
  /\ screen[s].of = {a} /\ ~screen[s].loaded
  /\ screen' = [screen EXCEPT ![s].loaded = TRUE, ![s].shows.files = files[a]]
  /\ UNCHANGED <<applicant, files, uploads, hired, approvedAs>>

CloseScreen(s) ==
  /\ screen[s] # Blank /\ screen' = [screen EXCEPT ![s] = Blank]
  /\ UNCHANGED <<applicant, files, uploads, hired, approvedAs>>

\* bug: the revision is not compared
AnyRevision(row, revision) == TRUE

CheckRevision(row, revision) == row.revision = revision

\* HR, or the person who holds the link, acts on what the screen shows.
ActsOn(s, a, byLink) ==
  /\ screen[s].of = {a} /\ screen[s].loaded /\ (screen[s].link # 0) = byLink
  /\ Admits(applicant[a], screen[s].link)
  /\ CheckRevision(applicant[a], screen[s].revision)
  /\ applicant[a].revision < MaxRevisions
  /\ screen' = [screen EXCEPT ![s] = Blank]

-----------------------------------------------------------------------------
(* HR *)

\* The tenant's configuration of this moment goes with the invitation; HR saves another one
\* whenever it likes, for those invited later.
Invite(a, needs) ==
  /\ applicant[a].status = "NONE"
  /\ applicant' = [applicant EXCEPT ![a] = [status |-> "DRAFT", revision |-> 0, form |-> NoForm,
       needs |-> needs, link |-> 1]]
  /\ UNCHANGED <<files, uploads, hired, screen, approvedAs>>

\* expires_at passes
Expire(a) ==
  /\ applicant[a].link # 0 /\ applicant' = [applicant EXCEPT ![a].link = 0]
  /\ UNCHANGED <<files, uploads, hired, screen, approvedAs>>

\* A new link takes the place of the old one and leaves the status alone.
Reissue(s, a) ==
  /\ ActsOn(s, a, FALSE) /\ applicant[a].status \notin Closed
  /\ applicant' = [applicant EXCEPT ![a].revision = @ + 1, ![a].link = applicant[a].revision + 2]
  /\ UNCHANGED <<files, uploads, hired, approvedAs>>

Transition == [
  APPROVE |-> [from |-> {"SUBMITTED"}, to |-> "APPROVED"],
  REQUEST_CHANGES |-> [from |-> {"SUBMITTED", "APPROVED"}, to |-> "CHANGES_REQUESTED"],
  CANCEL |-> [from |-> Statuses \ (Closed \cup {"NONE"}), to |-> "CANCELLED"]]

\* Only an approval leaves the link as it is.
Review(s, a, what) ==
  /\ ActsOn(s, a, FALSE) /\ applicant[a].status \in Transition[what].from
  /\ applicant' = [applicant EXCEPT ![a].status = Transition[what].to, ![a].revision = @ + 1,
       ![a].link = IF what = "APPROVE" THEN @ ELSE 0]
  /\ approvedAs' = [approvedAs EXCEPT ![a] = IF what = "APPROVE" THEN screen[s].shows ELSE Empty]
  /\ UNCHANGED <<files, uploads, hired>>

Complete(a) ==
  /\ applicant[a].form # NoForm
  /\ \A n \in applicant[a].needs : files[a][n] # 0

Free(email, code) == \A h \in hired : h.email # email /\ h.code # code

\* Account, employee and private files in one transaction; a second call finds JOINED and
\* returns the row.  The row it read outside, before it, decides nothing else.
Confirm(s, a, code) ==
  /\ ActsOn(s, a, FALSE) /\ applicant[a].status = "APPROVED"
  /\ Complete(a) /\ Free(applicant[a].form, code)
  /\ hired' = hired \cup {[email |-> applicant[a].form, code |-> code, from |-> {a},
                           files |-> {files[a][n] : n \in Needs} \ {0}]}
  /\ applicant' = [applicant EXCEPT ![a].status = "JOINED", ![a].revision = @ + 1, ![a].link = 0]
  /\ UNCHANGED <<files, uploads, approvedAs>>

\* an employee who was not invited
HireDirectly(email, code) ==
  /\ Free(email, code)
  /\ hired' = hired \cup {[email |-> email, code |-> code, from |-> {}, files |-> {}]}
  /\ UNCHANGED <<applicant, files, uploads, screen, approvedAs>>

-----------------------------------------------------------------------------
(* The invited person *)

OpenToEdits(row) == row.status \in {"DRAFT", "CHANGES_REQUESTED"}

\* A draft may lack anything; a submission may not.
SaveAnswers(s, a, form, submit) ==
  /\ ActsOn(s, a, TRUE) /\ OpenToEdits(applicant[a])
  /\ submit => form # NoForm /\ \A n \in applicant[a].needs : files[a][n] # 0
  /\ applicant' = [applicant EXCEPT ![a].form = form, ![a].revision = @ + 1,
       ![a].status = IF submit THEN "SUBMITTED" ELSE @]
  /\ UNCHANGED <<files, uploads, hired, approvedAs>>

\* The document it replaces is kept and counts.
Upload(s, a, n) ==
  /\ ActsOn(s, a, TRUE) /\ OpenToEdits(applicant[a]) /\ uploads[a] < MaxUploads
  /\ files' = [files EXCEPT ![a][n] = applicant[a].revision + 1]
  /\ uploads' = [uploads EXCEPT ![a] = @ + 1]
  /\ applicant' = [applicant EXCEPT ![a].revision = @ + 1]
  /\ UNCHANGED <<hired, approvedAs>>

DeleteDocument(s, a, n) ==
  /\ ActsOn(s, a, TRUE) /\ OpenToEdits(applicant[a])
  /\ files[a][n] # 0 /\ screen[s].shows.files[n] = files[a][n]
  /\ files' = [files EXCEPT ![a][n] = 0]
  /\ applicant' = [applicant EXCEPT ![a].revision = @ + 1]
  /\ UNCHANGED <<uploads, hired, approvedAs>>

PjNext ==
  \/ \E a \in Applicants : Expire(a) \/ \E needs \in SUBSET Needs : Invite(a, needs)
  \/ \E s \in Screens, a \in Applicants :
       \/ \E link \in {0, applicant[a].link} : OpenScreen(s, a, link)
       \/ LoadFiles(s, a) \/ Reissue(s, a)
       \/ \E what \in DOMAIN Transition : Review(s, a, what)
       \/ \E code \in Codes : Confirm(s, a, code)
       \/ \E form \in Forms, submit \in BOOLEAN : SaveAnswers(s, a, form, submit)
       \/ \E n \in Needs : Upload(s, a, n) \/ DeleteDocument(s, a, n)
  \/ \E s \in Screens : CloseScreen(s)
  \/ \E email \in Emails, code \in Codes : HireDirectly(email, code)

PjSpec == PjInit /\ [][PjNext]_pjVars

-----------------------------------------------------------------------------
(* Properties *)

Standing(a) == [form |-> applicant[a].form, files |-> files[a]]
HiredFrom(a) == {h \in hired : h.from = {a}}

\* What HR approved is what its screen showed, though row and documents were read apart,
\* and it stays so until the person joins, in spite of new links, other screens and edits
\* begun before.
ApprovedAsShown ==
  \A a \in Applicants : applicant[a].status \in {"APPROVED", "JOINED"} => Standing(a) = approvedAs[a]

\* What was submitted stays complete by the configuration it was invited under, whatever
\* has become of the tenant's since.
SubmittedComplete ==
  \A a \in Applicants : applicant[a].status \in {"SUBMITTED", "APPROVED", "JOINED"} => Complete(a)

\* One employee for each person who joined and for nobody else, with the form and the
\* documents that were approved; no login and no code is given twice.
JoinedOnce ==
  /\ \A a \in Applicants :
       /\ Cardinality(HiredFrom(a)) = (IF applicant[a].status = "JOINED" THEN 1 ELSE 0)
       /\ \A h \in HiredFrom(a) : /\ h.email = approvedAs[a].form
                                  /\ h.files = {approvedAs[a].files[n] : n \in Needs} \ {0}
  /\ \A g, h \in hired : g # h => g.email # h.email /\ g.code # h.code

\* No link opens what is cancelled or joined.
ClosedToLinks == \A a \in Applicants : applicant[a].status \in Closed => applicant[a].link = 0

PrejoiningHolds == PjTypeOK /\ ApprovedAsShown /\ SubmittedComplete /\ JoinedOnce /\ ClosedToLinks
=============================================================================
