---------------------------- MODULE MC_UserptrStream ----------------------------
(***************************************************************************)
(* Small instances of UserptrStream for TLC.                               *)
(***************************************************************************)
EXTENDS UserptrStream

===============================================================================
