------------------------------ MODULE Claims ------------------------------
(***************************************************************************)
(* The expense claims and travel requests of one employee in one month and  *)
(* category (expense_service.rs, travel_request_service.rs,                 *)
(* approval_authority.rs).  A submission is one transaction, but it locks   *)
(* nothing: what it reads and what it commits are two actions.  A decision  *)
(* locks the request, both employees and the workflow.                      *)
(***************************************************************************)
EXTENDS Naturals, FiniteSets, Functions, FiniteSetsExt, Sequences, Approval

CONSTANTS
  ClaimIds, TripIds, \* expense and travel_request ids
  ClaimAmounts,      \* what may be claimed
  PolicyPool,        \* the expense policies HR may define for the category
  CategoryMaxima,    \* what HR may set as the category's maximum: {} for none, {n}
  ClaimFlow,         \* the steps of the EXPENSE workflow
  TripFlow,          \* the steps of the TRAVEL_REQUEST workflow
  Deciders,          \* logins that may hold expense:approve and travel:approve
  NoTrip

Requests == ClaimIds \cup TripIds
ClaimPolicy == [to : {"ALL", "ROLE", "DESIGNATION", "DEPARTMENT"}, applies : BOOLEAN,
                perClaim : Nat, perDay : Nat, perMonth : Nat]

ASSUME ClaimsAssumption ==
  /\ ClaimAmounts \subseteq Nat \ {0} /\ CategoryMaxima \subseteq SUBSET Nat
  /\ NoTrip \notin Requests /\ ClaimIds \cap TripIds = {}
  /\ PolicyPool \subseteq ClaimPolicy
  /\ \A p \in PolicyPool : p.to = "ALL" => p.applies

VARIABLES
  request,   \* the expense and travel_request rows, with the step of their instance
  category,  \* the category is not deleted, and its maximum
  policies,  \* the expense_policy rows of the category
  claimFlow, \* which of the two workflows are active
  claimant,  \* the employee is ACTIVE
  submitting,\* submissions in flight that have passed their checks
  approvedEvents, \* history: expense.approved events per claim
  reached,   \* history: the sum of the month may exceed the limit now in force
  overlapped \* history: two submissions have overlapped

clVars == <<request, category, policies, claimFlow, claimant, submitting, approvedEvents,
            reached, overlapped>>
claimRules == <<category, policies, claimFlow, claimant>>
claimHistory == <<approvedEvents, reached, overlapped>>

NoRequest == [status |-> "NONE", step |-> 0, amount |-> 0, granted |-> 0, payment |-> "NONE",
              trip |-> NoTrip]
\* HELD: FAILED or ON_HOLD
Payments == {"NONE", "PENDING_PAYMENT", "PAID", "HELD"}
Granted == {"APPROVED", "PARTIAL_APPROVED"}

ClTypeOK ==
  /\ request \in [Requests -> [status : {"NONE", "PENDING", "REJECTED"} \cup Granted, step : Nat,
                    amount : ClaimAmounts \cup {0}, granted : Nat, payment : Payments,
                    trip : TripIds \cup {NoTrip}]]
  /\ category \in [live : BOOLEAN, maximum : CategoryMaxima]
  /\ policies \in SUBSET PolicyPool
  /\ claimFlow \in [claims : BOOLEAN, trips : BOOLEAN] /\ claimant \in BOOLEAN
  /\ submitting \in [ClaimIds -> ClaimAmounts \cup {0}]
  /\ approvedEvents \in [ClaimIds -> Nat] /\ reached \in BOOLEAN /\ overlapped \in BOOLEAN

ClInit ==
  /\ request = [r \in Requests |-> NoRequest]
  /\ category \in [live : {TRUE}, maximum : CategoryMaxima]
  /\ policies \in SUBSET PolicyPool
  /\ claimFlow \in [claims : BOOLEAN, trips : BOOLEAN] /\ claimant = TRUE
  /\ submitting = [c \in ClaimIds |-> 0]
  /\ approvedEvents = [c \in ClaimIds |-> 0] /\ reached = FALSE /\ overlapped = FALSE

-----------------------------------------------------------------------------
(* What a claim may be *)

Specificity(p) == CASE p.to = "DEPARTMENT" -> 4 [] p.to = "DESIGNATION" -> 3
                    [] p.to = "ROLE" -> 2 [] OTHER -> 1

\* the policies that apply most specifically to the employee
Tier == LET matching == {p \in policies : p.applies}
        IN  {p \in matching : \A o \in matching : Specificity(o) <= Specificity(p)}

Positive(limits) == limits \ {0}
None == 0
Tightest(limits) == IF limits = {} THEN None ELSE Min(limits)

\* a maximum of zero forbids every claim when no policy applies, and none when one does
ClaimCaps == IF Tier = {} THEN category.maximum
             ELSE Positive(category.maximum \cup {p.perClaim : p \in Tier}
                                            \cup {p.perDay : p \in Tier})

MonthLimit == Tightest(Positive({p.perMonth : p \in Tier}))

\* sum_month_claimed_for_category: the amounts claimed, not those granted
Counted == {c \in ClaimIds : request[c].status \in {"PENDING"} \cup Granted}
Claimed(claims) == SumFunctionOnSet([c \in ClaimIds |-> request[c].amount], claims)
MonthSum == Claimed(Counted)

\* bug: a claim that waits for its decision is not counted
MonthSumOfGranted == Claimed({c \in ClaimIds : request[c].status \in Granted})
ClaimedThisMonth == MonthSum

Permitted(amount) ==
  /\ category.live
  /\ \A cap \in ClaimCaps : amount <= cap
  /\ MonthLimit = None \/ ClaimedThisMonth + amount <= MonthLimit

-----------------------------------------------------------------------------
(* Submission *)

ReadForClaim(c, amount) ==
  /\ request[c].status = "NONE" /\ submitting[c] = 0 /\ Permitted(amount)
  /\ submitting' = [submitting EXCEPT ![c] = amount]
  /\ overlapped' = (overlapped \/ \E o \in ClaimIds : submitting[o] > 0)
  /\ UNCHANGED <<request, claimRules, approvedEvents, reached>>

\* the trip it names is the employee's, in whatever status; there must be a workflow
CommitClaim(c, trip) ==
  /\ submitting[c] > 0 /\ claimFlow.claims
  /\ trip # NoTrip => request[trip].status # "NONE"
  /\ request' = [request EXCEPT ![c] =
       [status |-> "PENDING", step |-> 1, amount |-> submitting[c], granted |-> 0,
        payment |-> "NONE", trip |-> trip]]
  /\ submitting' = [submitting EXCEPT ![c] = 0]
  /\ UNCHANGED <<claimRules, claimHistory>>

AbandonClaim(c) ==
  /\ submitting[c] > 0
  /\ submitting' = [submitting EXCEPT ![c] = 0]
  /\ UNCHANGED <<request, claimRules, claimHistory>>

\* a travel request without a workflow is inserted all the same
SubmitTrip(t) ==
  /\ request[t].status = "NONE"
  /\ request' = [request EXCEPT ![t].status = "PENDING",
                                ![t].step = IF claimFlow.trips THEN 1 ELSE 0]
  /\ UNCHANGED <<claimRules, submitting, claimHistory>>

-----------------------------------------------------------------------------
(* Decisions *)

FlowOf(r) == IF r \in ClaimIds THEN ClaimFlow ELSE TripFlow
PermissionFor(r) == IF r \in ClaimIds THEN "expense:approve" ELSE "travel:approve"
Decider(d, r) == [who |-> d, employee |-> d, scope |-> {"claimant"}, permission |-> PermissionFor(r)]
\* the first login is the reporting manager's
Claimant == [employee |-> "claimant", managerLogin |-> CHOOSE d \in Deciders : TRUE]

\* the row is locked and PENDING, both employees are ACTIVE, the step is the one seen
DecisionCurrent(d, r, seen) ==
  /\ request[r].status = "PENDING" /\ claimant
  /\ request[r].step # 0 /\ request[r].step = seen
  /\ MayAct(Decider(d, r), Claimant, FlowOf(r)[seen])

LastStep(r, seen) == seen = Len(FlowOf(r))

AdvanceRequest(d, r, seen) ==
  /\ DecisionCurrent(d, r, seen) /\ ~LastStep(r, seen)
  /\ request' = [request EXCEPT ![r].step = seen + 1]
  /\ UNCHANGED <<claimRules, submitting, claimHistory>>

\* bug: the amount granted is whatever the approver wrote
GrantAnything(c) == 1..(request[c].amount + 1)

\* resolve_final_approved_amount: the whole claim, or a part of it
Grantable(c) == 1..request[c].amount

GrantClaim(d, c, seen, amount) ==
  /\ DecisionCurrent(d, c, seen) /\ LastStep(c, seen) /\ amount \in Grantable(c)
  /\ request' = [request EXCEPT ![c].step = 0, ![c].granted = amount,
       ![c].status = IF amount < request[c].amount THEN "PARTIAL_APPROVED" ELSE "APPROVED",
       ![c].payment = "PENDING_PAYMENT"]
  /\ approvedEvents' = [approvedEvents EXCEPT ![c] = @ + 1]
  /\ UNCHANGED <<claimRules, submitting, reached, overlapped>>

GrantTrip(d, t, seen) ==
  /\ DecisionCurrent(d, t, seen) /\ LastStep(t, seen)
  /\ request' = [request EXCEPT ![t].step = 0, ![t].status = "APPROVED"]
  /\ UNCHANGED <<claimRules, submitting, claimHistory>>

RefuseRequest(d, r, seen) ==
  /\ DecisionCurrent(d, r, seen)
  /\ request' = [request EXCEPT ![r].step = 0, ![r].status = "REJECTED", ![r].granted = 0,
                                ![r].payment = "NONE"]
  /\ UNCHANGED <<claimRules, submitting, claimHistory>>

\* mark_expense_payment_status: from any payment status to any other
MarkPayment(c, payment) ==
  /\ request[c].status \in Granted
  /\ request' = [request EXCEPT ![c].payment = payment]
  /\ UNCHANGED <<claimRules, submitting, claimHistory>>

-----------------------------------------------------------------------------
(* What HR changes meanwhile *)

\* a change of the rules asks nothing of the claims already made
RulesChanged ==
  /\ reached' = TRUE
  /\ UNCHANGED <<request, claimFlow, claimant, submitting, approvedEvents, overlapped>>

SetCategory(maximum) ==
  /\ category.live /\ maximum # category.maximum
  /\ category' = [category EXCEPT !.maximum = maximum]
  /\ UNCHANGED policies /\ RulesChanged

DeleteCategory ==
  /\ category.live /\ category' = [category EXCEPT !.live = FALSE]
  /\ UNCHANGED policies /\ RulesChanged

UpsertPolicy(p) ==
  /\ category.live /\ p \notin policies /\ policies' = policies \cup {p}
  /\ UNCHANGED category /\ RulesChanged

DropPolicy(p) ==
  /\ p \in policies /\ policies' = policies \ {p}
  /\ UNCHANGED category /\ RulesChanged

ClaimantLeaves ==
  /\ claimant /\ claimant' = FALSE
  /\ UNCHANGED <<request, category, policies, claimFlow, submitting, claimHistory>>

ClNext ==
  \/ \E c \in ClaimIds :
       \/ AbandonClaim(c)
       \/ \E amount \in ClaimAmounts : ReadForClaim(c, amount)
       \/ \E trip \in TripIds \cup {NoTrip} : CommitClaim(c, trip)
       \/ \E payment \in Payments : MarkPayment(c, payment)
       \/ \E d \in Deciders, seen \in DOMAIN ClaimFlow :
            \E amount \in 1..(Max(ClaimAmounts) + 1) : GrantClaim(d, c, seen, amount)
  \/ \E t \in TripIds :
       SubmitTrip(t) \/ \E d \in Deciders, seen \in DOMAIN TripFlow : GrantTrip(d, t, seen)
  \/ \E r \in Requests : \E d \in Deciders, seen \in DOMAIN FlowOf(r) :
       AdvanceRequest(d, r, seen) \/ RefuseRequest(d, r, seen)
  \/ \E maximum \in CategoryMaxima : SetCategory(maximum)
  \/ DeleteCategory
  \/ \E p \in PolicyPool : UpsertPolicy(p) \/ DropPolicy(p)
  \/ ClaimantLeaves

ClSpec == ClInit /\ [][ClNext]_clVars

-----------------------------------------------------------------------------
(* Properties *)

\* The claims of a month that are pending or granted stay within the monthly limit,
\* unless two submissions overlapped or HR changed the rules after claims were made.
MonthlyLimitHeld ==
  overlapped \/ reached \/ MonthLimit = None \/ MonthSum <= MonthLimit

\* Money is asked for once: a claim has its one expense.approved event exactly when it was
\* granted, it was granted no more than it claimed, PARTIAL exactly when less, and a
\* claim that was not granted is never due for payment.
ReimbursedOnce ==
  \A c \in ClaimIds :
    LET r == request[c] IN
    /\ approvedEvents[c] = IF r.status \in Granted THEN 1 ELSE 0
    /\ r.status \in Granted => /\ 0 < r.granted /\ r.granted <= r.amount
                               /\ (r.status = "APPROVED") = (r.granted = r.amount)
    /\ r.status \notin Granted => r.payment = "NONE" /\ r.granted = 0

\* What is granted is within the rules and is paid for once.
ClaimsHold == ClTypeOK /\ MonthlyLimitHeld /\ ReimbursedOnce
=============================================================================
