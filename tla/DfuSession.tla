------------------------------ MODULE DfuSession ------------------------------
(***************************************************************************)
(* The update session of the spec (section 4.4) as the host driver         *)
(* promises it: Idle -> Initializing -> Transferring -> Applying ->        *)
(* Completed or Failed, modem-full going through Transferring/Applying     *)
(* once for the bootloader segment and once for the firmware segments.    *)
(* A chunk is delivered in order, only while transferring, and the phase's *)
(* apply comes after its last chunk; a phase without chunks goes straight  *)
(* to its apply.  Which answers the device gives is left open: any         *)
(* non-final state may fail.                                               *)
(***************************************************************************)
EXTENDS Naturals

CONSTANTS DfuType, NChunks, NBoot

VARIABLES
    state,    \* the session state of section 4.4
    sphase,   \* "boot" or "main": the segment being transferred
    done      \* chunks delivered (acknowledged with a status-0 URC)

svars == <<state, sphase, done>>

States == {"Idle", "Initializing", "Transferring", "Applying",
           "Completed", "Failed"}

Full == DfuType = "modem-full"

\* The chunks of each phase: boot-segment chunks first for modem-full.
SegChunks(ph) ==
    IF ph = "boot" THEN IF Full THEN 1..NBoot ELSE {}
    ELSE IF Full THEN (NBoot + 1)..NChunks ELSE 1..NChunks

Pending == SegChunks(sphase) \ done

Enter(ph) ==
    /\ sphase' = ph
    /\ state' = IF SegChunks(ph) = {} THEN "Applying" ELSE "Transferring"

STypeOK ==
    /\ state \in States
    /\ sphase \in {"boot", "main"}
    /\ done \subseteq 1..NChunks

SInit ==
    /\ state = "Idle"
    /\ sphase = "main"
    /\ done = {}

Begin ==
    /\ state = "Idle"
    /\ state' = "Initializing"
    /\ UNCHANGED <<sphase, done>>

InitOk ==
    /\ state = "Initializing"
    /\ Enter(IF Full THEN "boot" ELSE "main")
    /\ UNCHANGED done

\* The lowest pending chunk of the phase is delivered; after the last one
\* the phase is applied.
Deliver ==
    /\ state = "Transferring"
    /\ \E c \in Pending :
          /\ \A d \in Pending : c <= d
          /\ done' = done \cup {c}
          /\ state' = IF Pending = {c} THEN "Applying" ELSE "Transferring"
    /\ UNCHANGED sphase

ApplyOk ==
    /\ state = "Applying"
    /\ IF sphase = "boot" THEN Enter("main")
       ELSE state' = "Completed" /\ UNCHANGED sphase
    /\ UNCHANGED done

Fail ==
    /\ state \in {"Initializing", "Transferring", "Applying"}
    /\ state' = "Failed"
    /\ UNCHANGED <<sphase, done>>

SNext == Begin \/ InitOk \/ Deliver \/ ApplyOk \/ Fail

\* The driver always reaches an end: every state but the final ones can
\* take a step.
SSpec == SInit /\ [][SNext]_svars /\ WF_svars(SNext)

\* A completed session has delivered every chunk of the image.
SCompleteAll == state = "Completed" => done = 1..NChunks
=============================================================================
