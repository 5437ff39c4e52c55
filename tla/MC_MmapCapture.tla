---------------------------- MODULE MC_MmapCapture ----------------------------
(***************************************************************************)
(* Small instances of MmapCapture for TLC.                                 *)
(***************************************************************************)
EXTENDS MmapCapture

===============================================================================
