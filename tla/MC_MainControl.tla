--------------------------- MODULE MC_MainControl ---------------------------
(***************************************************************************)
(* Model-checking instance of MainControl; constants in the .cfg files.    *)
(***************************************************************************)
EXTENDS MainControl
=============================================================================
