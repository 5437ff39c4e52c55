---------------------------- MODULE MC_PollDeadline ----------------------------
(***************************************************************************)
(* Small instances of PollDeadline for TLC.                                *)
(***************************************************************************)
EXTENDS PollDeadline

===============================================================================
