------------------------------ MODULE MCPeople ------------------------------
(***************************************************************************)
(* Offboarding with the login accounts, profiles and their verification,     *)
(* final settlements, private files, attendance days and performance cycles, *)
(* for TLC.  The parts share no table, so a behaviour follows one of them    *)
(* while the others keep an initial state.                                   *)
(***************************************************************************)
EXTENDS Offboarding, Profile, Settlement, FileCleanup, Attendance, Performance, TLC

CONSTANTS a1, a2, b1, b2, c1, c2, e1, s1, d1, r1, r2

VARIABLE part

peopleVars == <<part, offVars, profVars, setVars, fileVars, attVars, perfVars>>

MCAmounts == {[due |-> 2, recovery |-> 1], [due |-> 1, recovery |-> 2]}

MCDeadline == [s \in {"GOAL_SETTING"} |-> 1]

\* An id of one part may serve another.
MCSymmetry == Permutations({a1, a2}) \cup Permutations({b1, b2}) \cup Permutations({c1, c2})

PeopleInit ==
  /\ part \in {"offboarding", "profile", "settlement", "files", "attendance", "performance"}
  /\ OffInit /\ ProfInit /\ SetInit /\ FilesInit /\ AttInit /\ PerfInit
  /\ part = "settlement" \/ ~ approved
  /\ part = "attendance" \/ ~ historic
  /\ part = "performance" \/ program = CHOOSE p \in DraftPrograms : TRUE

PeopleNext ==
  /\ UNCHANGED part
  /\ \/ part = "offboarding" /\ OffNext /\ UNCHANGED <<profVars, setVars, fileVars, attVars, perfVars>>
     \/ part = "profile" /\ ProfNext /\ UNCHANGED <<offVars, setVars, fileVars, attVars, perfVars>>
     \/ part = "settlement" /\ SetNext /\ UNCHANGED <<offVars, profVars, fileVars, attVars, perfVars>>
     \/ part = "files" /\ FilesNext /\ UNCHANGED <<offVars, profVars, setVars, attVars, perfVars>>
     \/ part = "attendance" /\ AttNext /\ UNCHANGED <<offVars, profVars, setVars, fileVars, perfVars>>
     \/ part = "performance" /\ PerfNext /\ UNCHANGED <<offVars, profVars, setVars, fileVars, attVars>>

PeopleSpec == PeopleInit /\ [][PeopleNext]_peopleVars
=============================================================================
