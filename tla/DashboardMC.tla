---------------------------- MODULE DashboardMC ----------------------------
(***************************************************************************)
(* Two boxes, so that one body can undo the other's tick, and refreshes    *)
(* that can overlap the poll.                                              *)
(***************************************************************************)
EXTENDS Dashboard

CONSTANTS b1, b2, r1
=============================================================================
