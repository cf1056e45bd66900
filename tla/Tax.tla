-------------------------------- MODULE Tax --------------------------------
(***************************************************************************)
(* Tax declarations of employees: proof lines submitted and decided, the     *)
(* total of approved deductions, tax settings with the definitions they      *)
(* need, and the history of earnings.                                        *)
(*   crates/kabipay-tax/src/services/{tax_service, tax_submission,           *)
(*   tax_settings, tax_declarations, tax_history}.rs                         *)
(* Every operation is a transaction of several statements; what it writes is *)
(* visible to the others when it commits.  It may fail at any time: an error,*)
(* a lost connection, the victim of a deadlock.  One financial year.         *)
(***************************************************************************)
EXTENDS Integers, Sequences, FiniteSets, FiniteSetsExt, Functions

CONSTANTS
  TaxPayers,     \* employees
  Claimants,     \* those of them who submit proofs and record history
  ProofLines,    \* ids of proof lines
  Sections,      \* section codes
  ProofAmounts,  \* amounts a proof may show
  TaxCalls,      \* requests under way at a time
  Sources,       \* source keys of history entries
  Spans,         \* sets of months an entry may cover
  MaxDefinitions,  \* bound: definitions HR writes or replaces
  MaxSettings,   \* bound: tax settings saved
  MaxRevisions,  \* bound: revisions of a history entry
  NoLine, NoCall

ASSUME TaxAssumption ==
  /\ Claimants \subseteq TaxPayers /\ ProofAmounts \subseteq Nat /\ IsFiniteSet(ProofLines)
  /\ NoCall \notin TaxCalls \cup TaxPayers /\ NoLine \notin ProofLines \cup Sections \cup Sources

Regimes == {"OLD", "NEW"}

VARIABLES
  proof,       \* tax_proof_line rows
  total,       \* employee_tax_declaration.approved_deductions
  settings,    \* employee_tax_settings, the latest: revision and regime
  definition,  \* tax_configuration_version rows in the order of creation
  declared,    \* employee_tax_declaration.payload: the version declared for
  earned,      \* employee_tax_history: latest revision and months of each key
  taxCall,     \* the transactions
  taxLock,     \* lock_employee_tax: who holds it
  defLock,     \* the lock of ensure_definition
  proofLock,   \* row locks of tax_proof_line
  summed,      \* history: the version whose lines the total was last taken from
  outdated     \* history: employees whose total was written from a sum that
               \* another transaction had changed since

taxRows == <<proof, total, settings, definition, declared, earned>>
lockVars == <<taxLock, defLock, proofLock>>
totalHistory == <<summed, outdated>>
taxVars == <<taxRows, taxCall, lockVars, totalHistory>>

NoProof == [status |-> "NONE", owner |-> NoCall, version |-> 0, section |-> NoLine,
            amount |-> 0, regime |-> "NONE"]
\* no request: each kind of request uses some of the fields
Resting == [pc |-> "idle", next |-> "idle", then |-> "idle", employee |-> NoCall, regime |-> "NONE",
            version |-> 0, section |-> NoLine, amount |-> 0, line |-> NoLine, to |-> "NONE",
            sum |-> 0, stale |-> FALSE, source |-> NoLine, months |-> {}, seen |-> 0]

TaxInit ==
  /\ proof = [l \in ProofLines |-> NoProof]
  /\ total = [e \in TaxPayers |-> 0]
  /\ settings = [e \in TaxPayers |-> [revision |-> 0, regime |-> "NONE"]]
  /\ definition = <<>>
  /\ declared = [e \in TaxPayers |-> [version |-> 0, regime |-> "NONE"]]
  /\ earned = [e \in Claimants |-> [k \in Sources |-> [revision |-> 0, months |-> {}]]]
  /\ taxCall = [c \in TaxCalls |-> Resting]
  /\ taxLock = [e \in TaxPayers |-> NoCall]
  /\ defLock = [r \in Regimes |-> NoCall]
  /\ proofLock = [l \in ProofLines |-> NoCall]
  /\ summed = [e \in TaxPayers |-> 0]
  /\ outdated = {}

-----------------------------------------------------------------------------
(* Transactions *)

Begins(c, work) == taxCall[c].pc = "idle" /\ taxCall' = [taxCall EXCEPT ![c] = work]
At(c, pc) == taxCall[c].pc = pc
Goes(c, pc) == taxCall' = [taxCall EXCEPT ![c].pc = pc]

Releases(c) ==
  /\ taxLock' = [e \in TaxPayers |-> IF taxLock[e] = c THEN NoCall ELSE taxLock[e]]
  /\ defLock' = [r \in Regimes |-> IF defLock[r] = c THEN NoCall ELSE defLock[r]]
  /\ proofLock' = [l \in ProofLines |-> IF proofLock[l] = c THEN NoCall ELSE proofLock[l]]

\* rollback
Abort(c) ==
  /\ ~At(c, "idle")
  /\ taxCall' = [taxCall EXCEPT ![c] = Resting]
  /\ Releases(c) /\ UNCHANGED <<taxRows, totalHistory>>

\* bug: a transaction does not wait for the lock of the employee
GoesOnUnlocked(c) ==
  /\ At(c, "lock") /\ Goes(c, taxCall[c].next)
  /\ UNCHANGED <<taxRows, lockVars, totalHistory>>

\* lock_employee_tax
LockEmployee(c) ==
  LET e == taxCall[c].employee IN
  /\ At(c, "lock") /\ taxLock[e] = NoCall
  /\ taxLock' = [taxLock EXCEPT ![e] = c]
  /\ Goes(c, taxCall[c].next)
  /\ UNCHANGED <<taxRows, defLock, proofLock, totalHistory>>

-----------------------------------------------------------------------------
(* Definitions *)

\* The first active definition of a regime; 0 when there is none
Defined(r) ==
  LET Ds == {d \in DOMAIN definition : definition[d].active /\ definition[d].regime = r}
  IN IF Ds = {} THEN 0 ELSE Min(Ds)

\* ensure_definition: version 0 stands for the one this transaction inserts
Ensure(c, r, next) ==
  /\ defLock[r] = NoCall
  /\ defLock' = [defLock EXCEPT ![r] = c]
  /\ taxCall' = [taxCall EXCEPT ![c].pc = next, ![c].regime = r, ![c].version = Defined(r)]

Added(r, automatic) ==
  Append(definition, [regime |-> r, active |-> TRUE, automatic |-> automatic, replaced |-> FALSE])

\* The definitions when the transaction commits, and the version it meant
DefinedBy(c, r) == IF taxCall[c].version = 0 THEN Added(r, TRUE) ELSE definition
VersionOf(c) == IF taxCall[c].version = 0 THEN Len(definition) + 1 ELSE taxCall[c].version

\* upsert_tax_configuration_version
CreateDefinition(r) ==
  /\ Len(definition) < MaxDefinitions
  /\ definition' = Added(r, FALSE)
  /\ UNCHANGED <<proof, total, settings, declared, earned, taxCall, lockVars, totalHistory>>

SetActive(d, active) ==
  /\ d \in DOMAIN definition /\ active # definition[d].active
  /\ ~active => Len(definition) < MaxDefinitions
  /\ definition' = [definition EXCEPT ![d].active = active, ![d].replaced = TRUE]
  /\ UNCHANGED <<proof, total, settings, declared, earned, taxCall, lockVars, totalHistory>>

-----------------------------------------------------------------------------
(* save_tax_settings *)

Saved == SumFunctionOnSet([e \in TaxPayers |-> settings[e].revision], TaxPayers)

BeginSettings(c, e) ==
  /\ Saved < MaxSettings
  /\ Begins(c, [Resting EXCEPT !.pc = "lock", !.next = "define", !.employee = e,
                               !.seen = settings[e].revision])
  /\ UNCHANGED <<taxRows, lockVars, totalHistory>>

\* check_revision, then ensure_definition
DefineForSettings(c, r) ==
  LET t == taxCall[c] IN
  /\ At(c, "define") /\ settings[t.employee].revision = t.seen
  /\ Ensure(c, r, "saveSettings")
  /\ UNCHANGED <<taxRows, taxLock, proofLock, totalHistory>>

CommitSettings(c) ==
  LET t == taxCall[c] IN
  /\ At(c, "saveSettings") /\ Saved < MaxSettings
  /\ definition' = DefinedBy(c, t.regime)
  /\ settings' = [settings EXCEPT ![t.employee] =
                    [revision |-> @.revision + 1, regime |-> t.regime]]
  /\ taxCall' = [taxCall EXCEPT ![c] = Resting]
  /\ Releases(c) /\ UNCHANGED <<proof, total, declared, earned, totalHistory>>

-----------------------------------------------------------------------------
(* Proof lines *)

LinesOf(e, v) ==
  {l \in ProofLines : proof[l].status # "NONE" /\ proof[l].owner = e /\ proof[l].version = v}

AmountOf(lines) == SumFunctionOnSet([l \in ProofLines |-> proof[l].amount], lines)
ApprovedLines(e, v) == {l \in LinesOf(e, v) : proof[l].status = "APPROVED"}

\* submit_tax_proof_line
BeginSubmission(c, e) ==
  /\ Begins(c, [Resting EXCEPT !.pc = "lock", !.next = "resolve", !.then = "write",
                               !.employee = e, !.to = "PENDING"])
  /\ UNCHANGED <<taxRows, lockVars, totalHistory>>

\* upsert_tax_computation
BeginDeclaration(c, e) ==
  /\ Begins(c, [Resting EXCEPT !.pc = "lock", !.next = "resolve", !.then = "declare",
                               !.employee = e])
  /\ UNCHANGED <<taxRows, lockVars, totalHistory>>

\* resolve_version: of the regime assigned, the definition the request names, or any
Resolve(c) ==
  LET r == settings[taxCall[c].employee].regime  next == taxCall[c].then IN
  /\ At(c, "resolve") /\ r # "NONE"
  /\ \/ \E wanted \in DOMAIN definition :
          /\ definition[wanted].active /\ definition[wanted].regime = r
          /\ taxCall' = [taxCall EXCEPT ![c].pc = next, ![c].regime = r, ![c].version = wanted]
          /\ UNCHANGED defLock
     \/ Ensure(c, r, next)
  /\ UNCHANGED <<taxRows, taxLock, proofLock, totalHistory>>

\* save_declaration leaves the approved total alone.
CommitDeclaration(c) ==
  LET t == taxCall[c] IN
  /\ At(c, "declare")
  /\ definition' = DefinedBy(c, t.regime)
  /\ declared' = [declared EXCEPT ![t.employee] =
                    [version |-> VersionOf(c), regime |-> settings[t.employee].regime]]
  /\ taxCall' = [taxCall EXCEPT ![c] = Resting]
  /\ Releases(c) /\ UNCHANGED <<proof, total, settings, earned, totalHistory>>

\* The line of the section is written when there is one, and inserted otherwise.
WriteProof(c, s, a) ==
  LET t == taxCall[c]
      existing == {l \in LinesOf(t.employee, t.version) : proof[l].section = s}
      written(l) == [taxCall EXCEPT ![c].pc = "sum", ![c].line = l, ![c].section = s,
                                    ![c].amount = a]
  IN
  /\ At(c, "write")
  /\ \/ \E l \in existing :
          /\ proofLock[l] = NoCall /\ proofLock' = [proofLock EXCEPT ![l] = c]
          /\ taxCall' = written(l)
     \/ existing = {} /\ taxCall' = written(NoLine) /\ UNCHANGED proofLock
  /\ UNCHANGED <<taxRows, taxLock, defLock, totalHistory>>

\* approve_tax_proof_line and reject_tax_proof_line: lock_pending_tax_proof, then the status
BeginDecision(c, l, s) ==
  /\ proof[l].status = "PENDING" /\ proofLock[l] = NoCall
  /\ proofLock' = [proofLock EXCEPT ![l] = c]
  /\ Begins(c, [Resting EXCEPT !.pc = "sum", !.next = "saveTotal", !.employee = proof[l].owner,
                               !.version = proof[l].version, !.line = l, !.to = s])
  /\ UNCHANGED <<taxRows, taxLock, defLock, totalHistory>>

\* recompute_total_deductions_from_approved_proofs: what the transaction sees, its own
\* change included
SumOfApproved(c) ==
  LET t == taxCall[c] IN
  AmountOf(ApprovedLines(t.employee, t.version) \ {t.line})
    + (IF t.to = "APPROVED" THEN proof[t.line].amount ELSE 0)

ReadSum(c) ==
  LET t == taxCall[c] IN
  /\ At(c, "sum")
  /\ taxCall' = [taxCall EXCEPT ![c].pc = IF taxLock[t.employee] = c THEN "saveTotal" ELSE "lock",
                                ![c].sum = SumOfApproved(c)]
  /\ UNCHANGED <<taxRows, lockVars, totalHistory>>

\* has its sum and not yet written it
SumIsRead(c) == At(c, "saveTotal") \/ (At(c, "lock") /\ taxCall[c].next = "saveTotal")

\* save_approved_total and commit.  Sums the others have read are no longer true.
CommitTotal(c, l, row) ==
  LET t == taxCall[c] IN
  /\ proof' = [proof EXCEPT ![l] = row]
  /\ total' = [total EXCEPT ![t.employee] = t.sum]
  /\ taxCall' = [d \in TaxCalls |->
       IF d = c THEN Resting
       ELSE IF SumIsRead(d) /\ taxCall[d].employee = t.employee
            THEN [taxCall[d] EXCEPT !.stale = TRUE]
            ELSE taxCall[d]]
  /\ summed' = [summed EXCEPT ![t.employee] = row.version]
  /\ outdated' = IF t.stale THEN outdated \union {t.employee} ELSE outdated \ {t.employee}
  /\ Releases(c)

CommitSubmission(c) ==
  LET t == taxCall[c] IN
  /\ At(c, "saveTotal") /\ t.to = "PENDING"
  /\ definition' = DefinedBy(c, t.regime)
  /\ \E l \in IF t.line = NoLine THEN {k \in ProofLines : proof[k].status = "NONE"} ELSE {t.line} :
       CommitTotal(c, l, [status |-> "PENDING", owner |-> t.employee, version |-> VersionOf(c),
                          section |-> t.section, amount |-> t.amount,
                          regime |-> settings[t.employee].regime])
  /\ UNCHANGED <<settings, declared, earned>>

CommitDecision(c) ==
  LET t == taxCall[c] IN
  /\ At(c, "saveTotal") /\ t.to # "PENDING"
  /\ CommitTotal(c, t.line, [proof[t.line] EXCEPT !.status = t.to])
  /\ UNCHANGED <<settings, definition, declared, earned>>

-----------------------------------------------------------------------------
(* save_tax_history, for one employer *)

BeginHistory(c, e, k) ==
  /\ earned[e][k].revision < MaxRevisions
  /\ Begins(c, [Resting EXCEPT !.pc = "lock", !.next = "overlap", !.employee = e, !.source = k,
                               !.seen = earned[e][k].revision])
  /\ UNCHANGED <<taxRows, lockVars, totalHistory>>

\* check_revision and require_no_overlap.  An entry that is already there is the answer.
CheckOverlap(c, months) ==
  LET t == taxCall[c] IN
  /\ At(c, "overlap")
  /\ earned[t.employee][t.source].months # months
  /\ earned[t.employee][t.source].revision = t.seen
  /\ \A k \in Sources \ {t.source} : earned[t.employee][k].months \intersect months = {}
  /\ taxCall' = [taxCall EXCEPT ![c].pc = "saveHistory", ![c].months = months]
  /\ UNCHANGED <<taxRows, lockVars, totalHistory>>

CommitHistory(c) ==
  LET t == taxCall[c] IN
  /\ At(c, "saveHistory")
  /\ earned' = [earned EXCEPT ![t.employee][t.source] =
                  [revision |-> t.seen + 1, months |-> t.months]]
  /\ taxCall' = [taxCall EXCEPT ![c] = Resting]
  /\ Releases(c) /\ UNCHANGED <<proof, total, settings, definition, declared, totalHistory>>

-----------------------------------------------------------------------------
Common(c) == Abort(c) \/ LockEmployee(c)

SettingsSteps(c, employees) ==
  \/ \E e \in employees : BeginSettings(c, e)
  \/ \E r \in Regimes : DefineForSettings(c, r)
  \/ CommitSettings(c)

ProofSteps(c) ==
  \/ \E e \in Claimants : BeginSubmission(c, e)
  \/ Resolve(c) \/ \E s \in Sections, a \in ProofAmounts : WriteProof(c, s, a)
  \/ \E l \in ProofLines, s \in {"APPROVED", "REJECTED"} : BeginDecision(c, l, s)
  \/ ReadSum(c) \/ CommitSubmission(c) \/ CommitDecision(c)

DeclarationSteps(c) ==
  \/ \E e \in Claimants : BeginDeclaration(c, e)
  \/ Resolve(c) \/ CommitDeclaration(c)

AdminNext ==
  \/ \E r \in Regimes : CreateDefinition(r)
  \/ \E d \in DOMAIN definition, a \in BOOLEAN : SetActive(d, a)

HistorySteps(c) ==
  \/ \E e \in Claimants, k \in Sources : BeginHistory(c, e, k)
  \/ \E m \in Spans : CheckOverlap(c, m)
  \/ CommitHistory(c)

TaxNext ==
  \/ \E c \in TaxCalls : \/ Common(c) \/ SettingsSteps(c, TaxPayers) \/ DeclarationSteps(c)
                        \/ ProofSteps(c) \/ HistorySteps(c)
  \/ AdminNext

\* Three subsets of these steps: proofs while the settings of their owner change, settings and
\* declarations of several employees while HR edits definitions, and history.
ProofNext == \E c \in TaxCalls : Common(c) \/ SettingsSteps(c, Claimants) \/ ProofSteps(c)
SettingsNext == \/ AdminNext
                \/ \E c \in TaxCalls :
                     Common(c) \/ SettingsSteps(c, TaxPayers) \/ DeclarationSteps(c)
HistoryNext == \E c \in TaxCalls : Common(c) \/ HistorySteps(c)

-----------------------------------------------------------------------------
(* Properties *)

TaxTypeOK ==
  /\ \A l \in ProofLines :
       /\ proof[l].status \in {"NONE", "PENDING", "APPROVED", "REJECTED"}
       /\ proof[l].status # "NONE" => proof[l].version \in DOMAIN definition
  /\ \A d \in DOMAIN definition : definition[d].regime \in Regimes
  /\ outdated \subseteq TaxPayers

\* The total shown to an employee is the sum of the approved lines of the version
\* last worked on, after any sequence of submissions, resubmissions and decisions,
\* unless the transaction that wrote it last had read a sum another one outdated.
TotalIsApproved ==
  \A e \in TaxPayers \ outdated : total[e] = AmountOf(ApprovedLines(e, summed[e]))

\* One line of a section and a version, however submissions interleave: a proof
\* handed in again replaces the one before and is never counted twice.
OneLinePerSection ==
  \A k, l \in ProofLines :
    k # l /\ proof[k].status # "NONE" /\ proof[l].status # "NONE" =>
      \/ proof[k].owner # proof[l].owner \/ proof[k].version # proof[l].version
      \/ proof[k].section # proof[l].section

\* A proof is filed, and income declared, under the regime that was assigned at the time,
\* although HR may assign another one while the request is under way.
FiledUnderRegime ==
  /\ \A l \in ProofLines :
       proof[l].status # "NONE" => definition[proof[l].version].regime = proof[l].regime
  /\ \A e \in TaxPayers :
       declared[e].version # 0 => definition[declared[e].version].regime = declared[e].regime

\* ensure_definition, called for several employees at once, adds a definition of a
\* regime only when there is none in force.
DefinedOnce ==
  \A d, x \in DOMAIN definition :
    /\ d < x /\ definition[d].regime = definition[x].regime
    /\ definition[d].automatic /\ definition[x].automatic
    => definition[d].replaced

\* No month of an employer's earnings is in two entries of the history.
HistoryApart ==
  \A e \in Claimants : \A j, k \in Sources :
    j # k => earned[e][j].months \intersect earned[e][k].months = {}

DeductionsHold ==
  /\ TaxTypeOK /\ TotalIsApproved /\ OneLinePerSection /\ FiledUnderRegime
  /\ DefinedOnce /\ HistoryApart

\* What the comment of recompute_total_deductions_from_approved_proofs says, without the
\* exception: two decisions that overlap refute it.
TotalAlwaysApproved ==
  \A e \in TaxPayers : total[e] = AmountOf(ApprovedLines(e, summed[e]))

TaxSpec == TaxInit /\ [][TaxNext]_taxVars
=============================================================================
