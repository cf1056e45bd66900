---------------------------- MODULE Settlement ----------------------------
(***************************************************************************)
(* The full and final settlement and the clearance of one separation         *)
(* (offboarding_fnf_service.rs).  Only the creation is a transaction, and    *)
(* nothing is locked: what an operation reads and what it writes are two     *)
(* actions.                                                                 *)
(***************************************************************************)
EXTENDS Naturals, FiniteSets

CONSTANTS
  Amounts,     \* what HR enters: [due, recovery], the sum of the payable parts and the recovery
  Departments, \* DEFAULT_CLEARANCE
  Officers     \* requests of HR in flight

ASSUME SettlementAssumption ==
  \A a \in Amounts : a \in [due : Nat, recovery : Nat]

VARIABLES
  approved,   \* the separation's status is APPROVED
  fnf,        \* the fnf_settlement rows of the separation, at most one per officer
  clearance,  \* per department, how many lines are open and how many are cleared
  officer,    \* per request: what it is about to write
  paidOut,    \* history: per row, the net amount when it was processed
  seeding,    \* history: two creations have overlapped
  edited      \* history: rows that an edit was in flight for when they were processed

fnfVars == <<fnf, paidOut, edited>>
setVars == <<approved, fnfVars, clearance, officer, seeding>>

Unset == [due |-> 0, recovery |-> 0]
NoFnf == [status |-> "NONE", amounts |-> Unset, net |-> 0]
Draft == [status |-> "DRAFT", amounts |-> Unset, net |-> 0]
Free == [pc |-> "idle", row |-> 0, seeds |-> FALSE, clears |-> FALSE]
FnfRows == 1..2
Money == {0} \cup UNION {0..a.due : a \in Amounts}

SetTypeOK ==
  /\ approved \in BOOLEAN /\ seeding \in BOOLEAN /\ edited \in SUBSET FnfRows
  /\ fnf \in [FnfRows -> [status : {"NONE", "DRAFT", "PROCESSED"}, amounts : Amounts \cup {Unset},
                          net : Money]]
  /\ clearance \in [Departments -> [open : Nat, cleared : Nat]]
  /\ officer \in [Officers -> [pc : {"idle", "seed", "edit", "finalize"}, row : FnfRows \cup {0},
                               seeds : BOOLEAN, clears : BOOLEAN]]
  /\ paidOut \in [FnfRows -> Money]

\* a separation that was approved before settlements existed has none
SetInit ==
  /\ approved \in BOOLEAN /\ fnf = [i \in FnfRows |-> NoFnf]
  /\ clearance = [d \in Departments |-> [open |-> 0, cleared |-> 0]]
  /\ officer = [o \in Officers |-> Free]
  /\ paidOut = [i \in FnfRows |-> 0] /\ seeding = FALSE /\ edited = {}

Existing == {i \in FnfRows : fnf[i].status # "NONE"}
Seeded == \E d \in Departments : clearance[d].open + clearance[d].cleared > 0
Opens(o, work) == officer[o].pc = "idle" /\ officer' = [officer EXCEPT ![o] = work]
Finishes(o) == officer' = [officer EXCEPT ![o] = Free]

\* the two inserts of ensure_artifacts_on_approval
Create(settlement, lines) ==
  /\ fnf' = IF settlement /\ Existing # FnfRows
            THEN [fnf EXCEPT ![CHOOSE i \in FnfRows \ Existing : TRUE] = Draft] ELSE fnf
  /\ clearance' = IF lines THEN [d \in Departments |-> [clearance[d] EXCEPT !.open = @ + 1]]
                  ELSE clearance

\* resolve_separation: the row of the separation is locked meanwhile
ApproveSeparation ==
  /\ ~approved /\ approved' = TRUE
  /\ Create(Existing = {}, ~Seeded)
  /\ UNCHANGED <<officer, paidOut, seeding, edited>>

\* backfill_approved_artifacts finds the separation approved, and looks for what is missing
BackfillRead(o) ==
  /\ approved
  /\ Opens(o, [Free EXCEPT !.pc = "seed", !.seeds = (Existing = {}), !.clears = ~Seeded])
  /\ seeding' = (seeding \/ \E p \in Officers : officer[p].pc = "seed")
  /\ UNCHANGED <<approved, fnfVars, clearance>>

\* bug: a backfill creates the rows without looking for them
BackfillBlindly(o) ==
  /\ officer[o].pc = "seed"
  /\ Create(TRUE, TRUE)
  /\ Finishes(o)
  /\ UNCHANGED <<approved, paidOut, seeding, edited>>

\* ... and creates it in a transaction of its own, with no lock between
BackfillWrite(o) ==
  /\ officer[o].pc = "seed"
  /\ Create(officer[o].seeds, officer[o].clears)
  /\ Finishes(o)
  /\ UNCHANGED <<approved, paidOut, seeding, edited>>

\* upsert_fnf_settlement: whatever row it finds, in DRAFT
EditRead(o, i) ==
  /\ fnf[i].status = "DRAFT"
  /\ Opens(o, [Free EXCEPT !.pc = "edit", !.row = i])
  /\ UNCHANGED <<approved, fnfVars, clearance, seeding>>

\* never below zero
Net(a) == IF a.due >= a.recovery THEN a.due - a.recovery ELSE 0

EditWrite(o, a) ==
  LET i == officer[o].row IN
  /\ officer[o].pc = "edit"
  /\ fnf' = [fnf EXCEPT ![i].amounts = a, ![i].net = Net(a)]
  /\ Finishes(o)
  /\ UNCHANGED <<approved, clearance, paidOut, seeding, edited>>

\* finalize_fnf_settlement
FinalizeRead(o, i) ==
  /\ fnf[i].status = "DRAFT"
  /\ Opens(o, [Free EXCEPT !.pc = "finalize", !.row = i])
  /\ UNCHANGED <<approved, fnfVars, clearance, seeding>>

FinalizeWrite(o) ==
  LET i == officer[o].row IN
  /\ officer[o].pc = "finalize"
  /\ fnf' = [fnf EXCEPT ![i].status = "PROCESSED"]
  /\ paidOut' = [paidOut EXCEPT ![i] = fnf[i].net]
  /\ edited' = IF \E p \in Officers : officer[p].pc = "edit" /\ officer[p].row = i
               THEN edited \cup {i} ELSE edited
  /\ Finishes(o)
  /\ UNCHANGED <<approved, clearance, seeding>>

\* set_clearance_cleared, either way and at any time
ToggleClearance(d, cleared) ==
  /\ IF cleared THEN clearance[d].open > 0 ELSE clearance[d].cleared > 0
  /\ clearance' = [clearance EXCEPT ![d] =
       IF cleared THEN [open |-> @.open - 1, cleared |-> @.cleared + 1]
       ELSE [open |-> @.open + 1, cleared |-> @.cleared - 1]]
  /\ UNCHANGED <<approved, fnfVars, officer, seeding>>

OfficerDies(o) ==
  /\ officer[o].pc # "idle"
  /\ Finishes(o)
  /\ UNCHANGED <<approved, fnfVars, clearance, seeding>>

SetNext ==
  \/ ApproveSeparation
  \/ \E o \in Officers :
       \/ BackfillRead(o) \/ BackfillWrite(o) \/ FinalizeWrite(o) \/ OfficerDies(o)
       \/ \E i \in FnfRows : EditRead(o, i) \/ FinalizeRead(o, i)
       \/ \E a \in Amounts : EditWrite(o, a)
  \/ \E d \in Departments, cleared \in BOOLEAN : ToggleClearance(d, cleared)

SetSpec == SetInit /\ [][SetNext]_setVars

-----------------------------------------------------------------------------
(* Properties *)

\* A separation has one settlement, and each department one line, unless two backfills
\* of an old separation overlapped; a settlement that was processed keeps the amount
\* that was paid, unless an edit that had read the draft was in flight.
SettledOnce ==
  /\ SetTypeOK
  /\ seeding \/ /\ Cardinality(Existing) <= 1
                /\ \A d \in Departments : clearance[d].open + clearance[d].cleared <= 1
  /\ \A i \in FnfRows \ edited : fnf[i].status = "PROCESSED" => fnf[i].net = paidOut[i]
  /\ ~approved => Existing = {}
=============================================================================
