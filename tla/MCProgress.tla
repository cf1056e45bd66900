----------------------------- MODULE MCProgress -----------------------------
(***************************************************************************)
(* What must happen in the end, for TLC: due separations are carried out,    *)
(* missed punches expire, transactions on assets finish, files are cleaned   *)
(* up, surveys close and leave is decided.  A behaviour follows one part     *)
(* while the others keep an initial state.                                   *)
(***************************************************************************)
EXTENDS Offboarding, Attendance, Assets, FileCleanup, Survey, Leave, TLC

CONSTANTS a1, b1, l1, t1, t2, e1, e2, s1, s2, s3, f1, f2, r1, w1, w2

VARIABLE part

progressVars == <<part, offVars, attVars, asVars, fileVars, survVars, vars>>

MCSchedules == {[opens |-> 0, closes |-> 1]}
MCAudiences == {{}}

\* One working date; three approval steps, of which the third may be created later; an
\* approver who stays and one who comes and goes
MCOwner == r1 :> e1
MCType == r1 :> t1
MCPeriods == {[from |-> 1, to |-> 1, half |-> "NONE"]}
MCApprovers == (s1 :> {a1}) @@ (s2 :> {a1, e1}) @@ (s3 :> {a1, b1})
MCSeq == (s1 :> 1) @@ (s2 :> 3) @@ (s3 :> 0)
MCNone == {}

ProgressInit ==
  /\ part \in {"offboarding", "attendance", "assets", "files", "surveys", "leave"}
  /\ OffInit /\ AttInit /\ AsInit /\ FilesInit /\ SurvInit /\ Init
  /\ part = "attendance" \/ ~ historic
  /\ part = "surveys" \/ stuck = {}
  /\ part = "leave" \/ \A t \in Types : policy[t] = 0

ProgressNext ==
  /\ UNCHANGED part
  /\ \/ part = "offboarding" /\ OffNext /\ UNCHANGED <<attVars, asVars, fileVars, survVars, vars>>
     \/ part = "attendance" /\ AttNext /\ UNCHANGED <<offVars, asVars, fileVars, survVars, vars>>
     \/ part = "assets" /\ AsNext /\ UNCHANGED <<offVars, attVars, fileVars, survVars, vars>>
     \/ part = "files" /\ FilesNext /\ UNCHANGED <<offVars, attVars, asVars, survVars, vars>>
     \/ part = "surveys" /\ SurvNext /\ UNCHANGED <<offVars, attVars, asVars, fileVars, vars>>
     \/ part = "leave" /\ Next /\ UNCHANGED <<offVars, attVars, asVars, fileVars, survVars>>

\* The worker's loops come round again, and the database grants locks.  In its initial
\* state a part has nothing that fairness would make it do.
ProgressSpec ==
  /\ ProgressInit /\ [][ProgressNext]_progressVars
  /\ OffFairness /\ AttFairness /\ AsFairness /\ FilesFairness /\ SurvFairness
  /\ LeaveFairness
=============================================================================
