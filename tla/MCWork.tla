------------------------------- MODULE MCWork -------------------------------
(***************************************************************************)
(* Timesheet weeks, expense claims with their trips, payroll, pre-joining    *)
(* and celebrations, for TLC.  The parts share no table, so a behaviour      *)
(* follows one of them while the others keep an initial state.               *)
(***************************************************************************)
EXTENDS Timesheet, Claims, Payroll, Prejoining, Celebrations, TLC

CONSTANTS a1, a2, b1, b2, c1, c2, e1, r1, t1, w1, w2

VARIABLE part

workVars == <<part, tsVars, clVars, payVars, pjVars, celVars>>

Step(approver, permission) == [approver |-> approver, permission |-> permission]

\* The manager first, then whoever holds the permission
MCFlow == <<Step("REPORTING_MANAGER", "none"), Step("PERMISSION", "timesheet:approve")>>
MCClaimFlow == <<Step("REPORTING_MANAGER", "none"),
                 Step("REPORTING_MANAGER_OR_PERMISSION", "expense:approve")>>
MCTripFlow == <<Step("PERMISSION", "travel:approve")>>

\* A policy for everybody with a daily and a monthly limit, one for the department
MCPolicies ==
  {[to |-> "ALL", applies |-> TRUE, perClaim |-> 0, perDay |-> 2, perMonth |-> 2],
   [to |-> "DEPARTMENT", applies |-> TRUE, perClaim |-> 0, perDay |-> 0, perMonth |-> 3]}
MCMaxima == {{}, {0}}

\* The ends of two Februaries, and the anniversary of who joined on the 29th
MCCalendar == <<[y |-> 2027, m |-> 2, d |-> 28], [y |-> 2028, m |-> 2, d |-> 29]>>
MCOccasions == <<[who |-> e1, kind |-> "ANNIVERSARY", date |-> [y |-> 2020, m |-> 2, d |-> 29]]>>
MCManager == [u \in {e1, r1, t1} |-> r1]
MCRules ==
  {[on |-> {"BIRTHDAY", "ANNIVERSARY"}, share |-> TRUE, long |-> {}],
   [on |-> {"BIRTHDAY"}, share |-> FALSE, long |-> {e1}]}

\* An id of one part may serve another, except those of the approvers: each part but the
\* first has one of them in its initial state.  The manager of the claims is one of two
\* deciders, who are not alike.
MCSymmetry == Permutations({a1, a2}) \cup Permutations({b1, b2}) \cup Permutations({c1, c2})

\* what the other parts begin with
QuietTimesheet ==
  /\ tsRules = [lockApproved |-> FALSE, editable |-> Weeks, workflowOn |-> TRUE]
  /\ manager = c1
QuietClaims ==
  /\ category = [live |-> TRUE, maximum |-> CHOOSE m \in CategoryMaxima : TRUE]
  /\ policies = {} /\ claimFlow = [claims |-> TRUE, trips |-> TRUE]
QuietPayroll ==
  LET month == CHOOSE m \in PayMonths : TRUE IN
  /\ cycle = [c \in CycleIds |-> [status |-> "NONE", month |-> month]]
  /\ salary = [e \in Payees |-> 0] /\ period = [i \in PayMonths \X Payees |-> NoInput]
  /\ leave = [approved |-> FALSE, frozen |-> {}] /\ holiday = month
  /\ arrear = [a \in ArrearIds |-> [status |-> "NONE", payee |-> OnLeave, cycle |-> NoCycle]]

QuietCelebrations == rules = CHOOSE r \in RulesPool : TRUE

WorkInit ==
  /\ part \in {"timesheet", "claims", "payroll", "prejoining", "celebrations"}
  /\ IF part = "timesheet" THEN TRUE ELSE QuietTimesheet
  /\ IF part = "claims" THEN claimFlow \in {[claims |-> on, trips |-> on] : on \in BOOLEAN}
     ELSE QuietClaims
  /\ IF part = "payroll" THEN TRUE ELSE QuietPayroll
  /\ TsInit /\ ClInit /\ PayInit /\ PjInit /\ CelInit
  /\ part = "celebrations" \/ QuietCelebrations

WorkNext ==
  /\ UNCHANGED part
  /\ \/ /\ part = "timesheet" /\ TsNext
        /\ UNCHANGED <<clVars, payVars, pjVars, celVars>>
     \/ part = "claims" /\ ClNext /\ UNCHANGED <<tsVars, payVars, pjVars, celVars>>
     \/ part = "payroll" /\ PayNext /\ UNCHANGED <<tsVars, clVars, pjVars, celVars>>
     \/ /\ part = "prejoining" /\ PjNext
        /\ UNCHANGED <<tsVars, clVars, payVars, celVars>>
     \/ /\ part = "celebrations" /\ CelNext
        /\ UNCHANGED <<tsVars, clVars, payVars, pjVars>>

WorkSpec == WorkInit /\ [][WorkNext]_workVars
=============================================================================
