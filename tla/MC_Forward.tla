------------------------------- MODULE MC_Forward -------------------------------
(***************************************************************************)
(* A small instance of Forward for TLC.                                    *)
(***************************************************************************)
EXTENDS Forward

===============================================================================
