------------------------------ MODULE MCOffice ------------------------------
(***************************************************************************)
(* Compensatory leave, surveys, assets and tax declarations, for TLC.  The   *)
(* parts share no table, so a behaviour follows one of them while the others *)
(* keep an initial state.  Tax declarations are three parts.                 *)
(***************************************************************************)
EXTENDS CompOff, Survey, Assets, Tax, TLC

CONSTANTS a1, a2, b1, b2, c1, c2, c3, e1, e2, q1, q2, r1, t1, w1, w2

VARIABLE part

officeVars == <<part, vars, survVars, asVars, taxVars>>

\* A day and a half over two dates, and half of the second date
MCWant == (q1 :> (3 :> 1 @@ 4 :> 2)) @@ (q2 :> (3 :> 1))
MCClash == {}
MCPolicies ==
  {[enabled |-> TRUE, deadline |-> 1, validity |-> 3, monthly |-> 2, yearly |-> 3,
    unused |-> 3, cancel |-> TRUE],
   [enabled |-> TRUE, deadline |-> 1, validity |-> 2, monthly |-> 3, yearly |-> 3,
    unused |-> 1, cancel |-> FALSE]}
\* Two months; the second one runs into the next year
MCMonth == <<1, 1, 2, 2>>
MCYear == <<1, 1, 1, 2>>
MCSchedules == {[opens |-> 0, closes |-> 3], [opens |-> 1, closes |-> 2]}
MCAudiences == {{}, {w1}}
MCSpans == {{1}, {1, 2}}

\* An id of one part may serve another.
MCSymmetry == Permutations({a1, a2}) \cup Permutations({c1, c2, c3})

\* what the other parts begin with
QuietCompOff == policy = CHOOSE p \in Policies : TRUE
QuietSurvey ==
  /\ survey = [i \in SurveyIds |-> CHOOSE d \in SurveyDrafts : d.targets = {}]
  /\ staff = [e \in Respondents |-> [unit |-> w1, eligible |-> TRUE]] /\ stuck = {}

OfficeInit ==
  /\ part \in {"comp off", "survey", "assets", "proofs", "tax settings", "tax history"}
  /\ Init /\ SurvInit /\ AsInit /\ TaxInit
  /\ part = "comp off" \/ QuietCompOff
  /\ part = "survey" \/ QuietSurvey

OfficeNext ==
  /\ UNCHANGED part
  /\ \/ part = "comp off" /\ Next /\ UNCHANGED <<survVars, asVars, taxVars>>
     \/ part = "survey" /\ SurvNext /\ UNCHANGED <<vars, asVars, taxVars>>
     \/ part = "assets" /\ AsNext /\ UNCHANGED <<vars, survVars, taxVars>>
     \/ part = "proofs" /\ ProofNext /\ UNCHANGED <<vars, survVars, asVars>>
     \/ part = "tax settings" /\ SettingsNext /\ UNCHANGED <<vars, survVars, asVars>>
     \/ part = "tax history" /\ HistoryNext /\ UNCHANGED <<vars, survVars, asVars>>

OfficeSpec == OfficeInit /\ [][OfficeNext]_officeVars

\* Proofs alone
ProofsSpec == OfficeInit /\ part = "proofs" /\ [][OfficeNext]_officeVars
=============================================================================
