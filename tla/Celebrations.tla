---------------------------- MODULE Celebrations ----------------------------
(***************************************************************************)
(* Birthday and anniversary notices (kabipay-notification,                   *)
(* services/automated_events and automation_settings).  Each worker reads    *)
(* the business date, the settings, the employees with their consents and    *)
(* the company's users one after the other, and then writes one notification *)
(* per recipient, in a transaction with a row of the occurrence ledger.      *)
(* Several workers may sweep at once, HR and employees change their minds    *)
(* meanwhile, and a sweep may end at any step.  Templates and texts are left *)
(* out, except that a message may be too long to be made.                    *)
(***************************************************************************)
EXTENDS Naturals, Sequences, Bags

CONSTANTS
  Calendar,     \* days that may pass, as [y, m, d], in order
  Occasions,    \* [who, kind, date], in the order of a sweep: by employee, birthday first
  Users,
  Manager,      \* per user the reporting manager; who has none stands for themselves
  Readers,      \* users who may read notifications
  RulesPool,    \* what HR may save: [on, share, long]; long are those whose message would be too long
  Sweepers      \* workers

Dates == [y : Nat, m : 1..12, d : 1..31]

ASSUME CelebrationAssumption ==
  /\ Calendar \in Seq(Dates) /\ Calendar # <<>>
  /\ \A i, j \in 1..Len(Calendar) : i # j => Calendar[i] # Calendar[j]
  /\ Occasions \in Seq([who : Users, kind : {"BIRTHDAY", "ANNIVERSARY"}, date : Dates])
  /\ Manager \in [Users -> Users] /\ Readers \subseteq Users
  /\ RulesPool # {}
  /\ RulesPool \subseteq [on : SUBSET {"BIRTHDAY", "ANNIVERSARY"}, share : BOOLEAN, long : SUBSET Users]

VARIABLES
  today,        \* position in Calendar
  rules,        \* notification_automation_setting
  consent,      \* occasions the employee agreed to share, employee_celebration_preference
  notices,      \* the bag of notifications: an occasion, who is told of it, the day it is for
  ledger,       \* automated_notification_occurrence
  sweep,        \* per worker what it has read, and whom it will still tell of what
  agreed        \* history: the last day on which sharing was set, and each occasion shared

celVars == <<today, rules, consent, notices, ledger, sweep, agreed>>

Days == 1..Len(Calendar)
OccasionIds == 1..Len(Occasions)
Occurrences == OccasionIds \X Users \X Days
SomeRules == CHOOSE r \in RulesPool : TRUE
NoOne == [o \in OccasionIds |-> {}]
Resting == [at |-> "resting", day |-> 1, rules |-> SomeRules, consent |-> {}, left |-> NoOne]

CelTypeOK ==
  /\ today \in Days /\ rules \in RulesPool /\ consent \subseteq OccasionIds
  /\ BagToSet(notices) \subseteq Occurrences /\ ledger \subseteq Occurrences
  /\ sweep \in [Sweepers -> [at : {"resting", "settings", "employees", "users", "sweeping"},
       day : Days, rules : RulesPool, consent : SUBSET OccasionIds, left : [OccasionIds -> SUBSET Users]]]
  /\ agreed \in [open : 0..Len(Calendar), shared : [OccasionIds -> 0..Len(Calendar)]]

\* what has been agreed once a day has seen these settings and consents
Agreed(day, setting, shared) ==
  [open |-> IF setting.share THEN day ELSE agreed.open,
   shared |-> [o \in OccasionIds |-> IF o \in shared THEN day ELSE agreed.shared[o]]]

CelInit ==
  /\ today = 1 /\ rules \in RulesPool /\ consent = {}
  /\ notices = EmptyBag /\ ledger = {}
  /\ sweep = [w \in Sweepers |-> Resting]
  /\ agreed = [open |-> IF rules.share THEN 1 ELSE 0, shared |-> [o \in OccasionIds |-> 0]]

-----------------------------------------------------------------------------
(* What is due *)

Leap(y) == (y % 4 = 0 /\ y % 100 # 0) \/ y % 400 = 0

Observed(date, y) ==
  [y |-> y, m |-> date.m, d |-> IF date.m = 2 /\ date.d = 29 /\ ~Leap(y) THEN 28 ELSE date.d]

\* An anniversary is one from the first completed year on.
IsDue(o, on) ==
  LET date == Occasions[o].date IN
  Observed(date, on.y) = on /\ (Occasions[o].kind = "ANNIVERSARY" => on.y > date.y)

\* the employee and the manager
Circle(o) == {Occasions[o].who, Manager[Occasions[o].who]}

\* Everybody if the tenant and the employee agree; the employee and the manager otherwise.
Recipients(o, s, company) ==
  IF s.rules.share /\ o \in s.consent THEN company ELSE Circle(o)

DueOccasions(s) ==
  {o \in OccasionIds :
     Occasions[o].kind \in s.rules.on /\ IsDue(o, Calendar[s.day])}

\* The first message that cannot be made ends the sweep.
Reached(s) ==
  {o \in DueOccasions(s) : \A p \in DueOccasions(s) : p <= o => Occasions[p].who \notin s.rules.long}

-----------------------------------------------------------------------------
(* The sweep *)

UnchangedRows == UNCHANGED <<today, rules, consent, agreed>>

\* A worker that is through begins again at its next poll.
ReadClock(w) ==
  /\ sweep[w].at = "resting" \/ (sweep[w].at = "sweeping" /\ sweep[w].left = NoOne)
  /\ sweep' = [sweep EXCEPT ![w] = [Resting EXCEPT !.at = "settings", !.day = today]]
  /\ UnchangedRows /\ UNCHANGED <<notices, ledger>>

\* Before the hour HR has set, SweepEnds follows.
ReadSettings(w) ==
  /\ sweep[w].at = "settings"
  /\ sweep' = [sweep EXCEPT ![w].at = "employees", ![w].rules = rules]
  /\ UnchangedRows /\ UNCHANGED <<notices, ledger>>

ReadEmployees(w) ==
  /\ sweep[w].at = "employees"
  /\ sweep' = [sweep EXCEPT ![w].at = "users", ![w].consent = consent]
  /\ UnchangedRows /\ UNCHANGED <<notices, ledger>>

\* The company's users are the last thing it reads: from here on it is settled whom it tells.
ReadUsers(w) ==
  LET s == sweep[w]
      company == IF s.rules.share THEN Readers ELSE {}
      left == [o \in OccasionIds |-> IF o \in Reached(s) THEN Recipients(o, s, company) ELSE {}] IN
  /\ s.at = "users"
  /\ sweep' = [sweep EXCEPT ![w] = [Resting EXCEPT !.at = "sweeping", !.day = s.day, !.left = left]]
  /\ UnchangedRows /\ UNCHANGED <<notices, ledger>>

\* bug: the ledger is not asked
NeverTold(occurrence) == FALSE

Told(occurrence) == occurrence \in ledger

\* create_notification_once: the notification is rolled back when the ledger has its row.  A
\* writer waits for the one that has inserted the same row.
Tell(w, o, u) ==
  LET occurrence == <<o, u, sweep[w].day>> IN
  /\ u \in sweep[w].left[o] /\ \A p \in 1..o - 1 : sweep[w].left[p] = {}
  /\ sweep' = [sweep EXCEPT ![w].left[o] = @ \ {u}]
  /\ IF Told(occurrence) THEN UNCHANGED <<notices, ledger>>
     ELSE /\ notices' = notices (+) SetToBag({occurrence})
          /\ ledger' = ledger \cup {occurrence}
  /\ UnchangedRows

\* It is too early in the day, or an error, or the death of the worker: what was committed stays.
SweepEnds(w) ==
  /\ sweep[w] # Resting /\ sweep' = [sweep EXCEPT ![w] = Resting]
  /\ UnchangedRows /\ UNCHANGED <<notices, ledger>>

-----------------------------------------------------------------------------
(* Meanwhile *)

SaveAutomationSettings(r) ==
  /\ rules' = r /\ agreed' = Agreed(today, r, consent)
  /\ UNCHANGED <<today, consent, notices, ledger, sweep>>

SavePreferences(u, shared) ==
  LET own == {o \in OccasionIds : Occasions[o].who = u} IN
  /\ shared \subseteq own
  /\ consent' = (consent \ own) \cup shared /\ agreed' = Agreed(today, rules, consent')
  /\ UNCHANGED <<today, rules, notices, ledger, sweep>>

DayPasses ==
  /\ today < Len(Calendar) /\ today' = today + 1
  /\ agreed' = Agreed(today', rules, consent)
  /\ UNCHANGED <<rules, consent, notices, ledger, sweep>>

CelNext ==
  \/ \E w \in Sweepers :
       \/ ReadClock(w) \/ ReadSettings(w) \/ ReadEmployees(w) \/ ReadUsers(w) \/ SweepEnds(w)
       \/ \E o \in OccasionIds, u \in Users : Tell(w, o, u)
  \/ \E r \in RulesPool : SaveAutomationSettings(r)
  \/ \E u \in Users, shared \in SUBSET OccasionIds : SavePreferences(u, shared)
  \/ DayPasses

CelSpec == CelInit /\ [][CelNext]_celVars

-----------------------------------------------------------------------------
(* Properties *)

\* Nobody is told of an occasion twice in a year, however many workers sweep, how often one
\* is broken off and started again, and whichever day stands for the 29th of February.
OnceAYear ==
  \A n, other \in BagToSet(notices) :
    /\ notices[n] = 1
    /\ n # other /\ n[1] = other[1] /\ n[2] = other[2] => Calendar[n[3]].y # Calendar[other[3]].y

\* Who is neither the employee nor the manager is told only if tenant and employee both
\* agreed on the day or later: what was withdrawn before it is respected.
ToldWithConsent ==
  \A n \in BagToSet(notices) :
    n[2] \notin Circle(n[1]) => agreed.open >= n[3] /\ agreed.shared[n[1]] >= n[3]

\* For a date around the end of February the day that is due in a year is the last one not
\* after it: the 28th stands for the 29th, and only when there is none.
DueOnTheDay ==
  LET DaysOf(y) == {[y |-> y, m |-> 2, d |-> d] : d \in 27..(IF Leap(y) THEN 29 ELSE 28)}
                     \cup {[y |-> y, m |-> 3, d |-> 1]}
      Before(c, e) == c.m < e.m \/ (c.m = e.m /\ c.d <= e.d)
      Until(date, y) == {c \in DaysOf(y) : Before(c, date)}
      Due(o, on) == /\ on \in Until(Occasions[o].date, on.y)
                    /\ \A c \in Until(Occasions[o].date, on.y) : Before(c, on) IN
  \A o \in OccasionIds : \A y \in Occasions[o].date.y + 1..Occasions[o].date.y + 8 :
    Occasions[o].date \in DaysOf(Occasions[o].date.y) => \A on \in DaysOf(y) : IsDue(o, on) <=> Due(o, on)

CelebrationsHold == CelTypeOK /\ OnceAYear /\ ToldWithConsent /\ DueOnTheDay
=============================================================================
