------------------------------ MODULE MCLeave ------------------------------
(* Small instances of Leave for TLC. *)
EXTENDS Leave, TLC

CONSTANTS e1, a1, b1, t1, r1, r2, s1, s2, s3

MCOwner == (r1 :> e1) @@ (r2 :> e1)
MCType == (r1 :> t1) @@ (r2 :> t1)
MCOwnerOne == (r1 :> e1)
MCTypeOne == (r1 :> t1)

\* Two days off and a working day, which is also taken in halves
MCPeriods == {[from |-> 1, to |-> 3, half |-> "NONE"],
              [from |-> 3, to |-> 3, half |-> "FIRST_HALF"],
              [from |-> 3, to |-> 3, half |-> "SECOND_HALF"]}
MCDay == {[from |-> 3, to |-> 3, half |-> "FIRST_HALF"]}

MCApprovers == (s1 :> {a1}) @@ (s2 :> {a1, e1}) @@ (s3 :> {a1})
\* Two steps, and a third that HR may create
MCSeq == (s1 :> 1) @@ (s2 :> 2) @@ (s3 :> 0)

MCCorrections == {Components(1, 0, 0, 0)}
MCDeltas == {1}
MCNone == {}
MCSymmetry == Permutations(Requests)
=============================================================================
