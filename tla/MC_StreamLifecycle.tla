-------------------------- MODULE MC_StreamLifecycle --------------------------
(***************************************************************************)
(* Small instances of StreamLifecycle for TLC.                             *)
(***************************************************************************)
EXTENDS StreamLifecycle

MCErrorSets == SUBSET Syscalls

===============================================================================
