------------------------- MODULE MC_DfuHostSession -------------------------
(***************************************************************************)
(* Model-checking instance of the refinement; constants in the .cfg files. *)
(***************************************************************************)
EXTENDS DfuHostSession
=============================================================================
