------------------------------ MODULE MCOutbox ------------------------------
(* Small instances of Outbox for TLC. *)
EXTENDS Outbox, TLC

CONSTANTS w1, w2

MCEvents == {1, 2}
\* Subscription 1 listens to everything, subscription 2 to the first row's type.
MCFilter == <<{1, 2}, {1}>>
MCFilterOne == <<{1, 2}>>
MCSymmetry == Permutations(Workers)
=============================================================================
