-------------------------- MODULE MCAnnouncements --------------------------
(* Announcements for TLC. *)
EXTENDS Announcements, TLC

CONSTANTS p1, p2, f1, f2, v1, u1, c1, c2

\* Announcements, attachments, videos, editors and calls are alike.
MCSymmetry ==
  Permutations(Posts) \cup Permutations(Attachments) \cup Permutations(Videos)
    \cup Permutations(Editors) \cup Permutations(Calls)
=============================================================================
