----------------------------- MODULE MC_Backoff -----------------------------
(***************************************************************************)
(* TLC instance of Backoff with the arguments do_dfu_full passes to        *)
(* wait_for_device (max_attempts = 10, timeout = 5.0, max_backoff = 5.0),  *)
(* in tenths of a second.                                                  *)
(***************************************************************************)
EXTENDS Backoff

MC_MaxAttempts == 10
MC_Timeout == 50
MC_MaxBackoff == 50
=============================================================================
