---------------------------- MODULE MC_DfuHost ----------------------------
(***************************************************************************)
(* Model-checking instance of DfuHost: the constants are set in the .cfg   *)
(* files.  It extends the refinement mapping, so runs can check it too.    *)
(***************************************************************************)
EXTENDS DfuHostSession
=============================================================================
