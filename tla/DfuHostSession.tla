---------------------------- MODULE DfuHostSession ----------------------------
(***************************************************************************)
(* DfuHost implements the session of DfuSession: the host's program       *)
(* counter maps to the session state, its phase to the session's phase,    *)
(* and the chunks counted in bytes_sent to the delivered chunks.  The      *)
(* transport, the retries and the device are hidden.                       *)
(***************************************************************************)
EXTENDS DfuHost

\* The session state the host is in at each point of do_dfu_*: the init
\* wait, the chunk loop with its retries, the apply with its URC wait or
\* the liveness polling after the firmware apply.
StateOf(p) ==
    CASE p = "init"                              -> "Idle"
      [] p = "initWait"                          -> "Initializing"
      [] p \in {"write", "writeOk", "writeUrc"}  -> "Transferring"
      [] p \in {"apply", "applyUrc", "ping", "pingWait"} -> "Applying"
      [] p = "done"                              -> "Completed"
      [] p = "failed"                            -> "Failed"

SessionState == StateOf(pc)

Session == INSTANCE DfuSession
               WITH state <- SessionState, sphase <- phase, done <- delivered

\* do_dfu_app, do_dfu_delta and do_dfu_full follow the session of section
\* 4.4: every step of the driver is a session step or leaves the session
\* unchanged, chunks are counted delivered one by one in order, an apply
\* only follows the last chunk of its phase, and the driver ends.
SessionRefined == Session!SSpec
\* When do_dfu_* returns True, every chunk of the file (both segments for
\* modem-full) has been counted delivered: no chunk is skipped by the
\* loops, the retries or the phase switch.
SessionCompleteAll == Session!SCompleteAll
=============================================================================
