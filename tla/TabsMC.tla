------------------------------- MODULE TabsMC -------------------------------
(***************************************************************************)
(* Three sessions for TLC: a tab to the left and one to the right of the   *)
(* one that is closed.                                                     *)
(***************************************************************************)
EXTENDS Tabs, TLC

CONSTANTS s1, s2, s3

SessionSymmetry == Permutations(Session)
=============================================================================
