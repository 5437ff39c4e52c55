---------------------------- MODULE MC_MmapOutput ----------------------------
(***************************************************************************)
(* Small instances of MmapOutput for TLC.                                  *)
(***************************************************************************)
EXTENDS MmapOutput

===============================================================================
