----------------------------- MODULE MainControl -----------------------------
(***************************************************************************)
(* main() of app/scripts/sm_dfu_host.py: argument validation, the serial   *)
(* port's lifecycle (init_serial, close_serial in a finally), the choice   *)
(* of one operation (do_ping, do_reset, do_modem_reset or a DFU) and the   *)
(* exit code.  The DFU is the session of DfuSession, which DfuHost         *)
(* implements (DfuHostSession).  A KeyboardInterrupt may arrive at any     *)
(* point; a SerialException may end any step that uses the open port.      *)
(***************************************************************************)
EXTENDS Integers

CONSTANTS
    DfuType, NChunks, NBoot    \* the DFU the --type and --file select

ASSUME MainAssumption ==
    /\ DfuType \in {"application", "modem-delta", "modem-full"}
    /\ NChunks \in Nat
    /\ NBoot \in 0..NChunks

VARIABLES
    ping, reset, modemReset,  \* --ping, --reset, --modem-reset
    fileArg,                  \* --file: "none", "missing" (not a file), "present"
    typeArg,                  \* --type given
    pc,           \* "start", "open", "run", "close", "exit"
    portOpen,     \* the process holds the serial port (ser is not None)
    success,      \* main's success variable
    raised,       \* exception propagating out of the try: "none", "Other"
    exitCode,     \* -1 while running; 0, 1, or 130 for an uncaught Ctrl-C
    state, sphase, done   \* the DFU session

args == <<ping, reset, modemReset, fileArg, typeArg>>
mvars == <<pc, portOpen, success, raised, exitCode>>
svars == <<state, sphase, done>>
vars == <<args, mvars, svars>>

Session == INSTANCE DfuSession

UtilityMode == ping \/ reset \/ modemReset
DfuMode == ~UtilityMode

NUtilities ==
    (IF ping THEN 1 ELSE 0) + (IF reset THEN 1 ELSE 0)
        + (IF modemReset THEN 1 ELSE 0)

TypeOK ==
    /\ {ping, reset, modemReset, typeArg} \subseteq BOOLEAN
    /\ fileArg \in {"none", "missing", "present"}
    /\ pc \in {"start", "open", "run", "close", "exit"}
    /\ portOpen \in BOOLEAN
    /\ success \in BOOLEAN
    /\ raised \in {"none", "Other"}
    /\ exitCode \in {-1, 0, 1, 130}
    /\ Session!STypeOK

\* argparse hands main any combination of the options.
Init ==
    /\ ping \in BOOLEAN /\ reset \in BOOLEAN /\ modemReset \in BOOLEAN
    /\ fileArg \in {"none", "missing", "present"}
    /\ typeArg \in BOOLEAN
    /\ pc = "start"
    /\ portOpen = FALSE
    /\ success = FALSE
    /\ raised = "none"
    /\ exitCode = -1
    /\ Session!SInit

\* Mutant of ArgsValid: the count of utility options is not checked.
ArgsValidNoCount ==
    IF UtilityMode THEN fileArg = "none" /\ ~typeArg
    ELSE fileArg # "none" /\ typeArg

\* The validation of main: a utility excludes --file and --type and the
\* other utilities; a DFU needs both --file and --type.
ArgsValid ==
    IF UtilityMode THEN fileArg = "none" /\ ~typeArg /\ NUtilities = 1
    ELSE fileArg # "none" /\ typeArg

Validate ==
    /\ pc = "start"
    /\ IF ArgsValid THEN pc' = "open" /\ UNCHANGED exitCode
                    ELSE pc' = "exit" /\ exitCode' = 1
    /\ UNCHANGED <<args, portOpen, success, raised, svars>>

\* A Ctrl-C before the try: KeyboardInterrupt ends the process (status 130).
InterruptBeforeTry ==
    /\ pc = "start"
    /\ pc' = "exit"
    /\ exitCode' = 130
    /\ UNCHANGED <<args, portOpen, success, raised, svars>>

\* init_serial: serial.Serial(...) opens the port and ser holds it.
OpenPort ==
    /\ pc = "open"
    /\ portOpen' = TRUE
    /\ pc' = "run"
    /\ UNCHANGED <<args, success, raised, exitCode, svars>>

\* serial.Serial(...) raises SerialException (no such port): ser stays None.
OpenFails ==
    /\ pc = "open"
    /\ pc' = "close"
    /\ success' = FALSE
    /\ UNCHANGED <<args, portOpen, raised, exitCode, svars>>

\* except KeyboardInterrupt / except SerialException inside the try.
Abort ==
    /\ \/ pc = "open"
       \/ pc = "run" /\ portOpen
    /\ pc' = "close"
    /\ success' = FALSE
    /\ UNCHANGED <<args, portOpen, raised, exitCode, svars>>

\* do_ping: AT, then wait_for_response("OK", 3.0).
DoPing ==
    /\ pc = "run" /\ ping
    /\ \E ok \in BOOLEAN : success' = ok
    /\ pc' = "close"
    /\ UNCHANGED <<args, portOpen, raised, exitCode, svars>>

\* do_reset / do_modem_reset send their command and count as success.
DoReset ==
    /\ pc = "run" /\ ~ping /\ (reset \/ modemReset)
    /\ success' = TRUE
    /\ pc' = "close"
    /\ UNCHANGED <<args, portOpen, raised, exitCode, svars>>

\* Mutant of FileMissing: the file check returns 1 before the try, past
\* the finally.
FileMissingOutsideTry ==
    /\ pc = "run" /\ DfuMode /\ fileArg = "missing"
    /\ success' = FALSE
    /\ pc' = "exit"
    /\ exitCode' = 1
    /\ UNCHANGED <<args, portOpen, raised, svars>>

\* "File not found": return 1 from inside the try, through the finally.
FileMissing ==
    /\ pc = "run" /\ DfuMode /\ fileArg = "missing"
    /\ success' = FALSE
    /\ pc' = "close"
    /\ UNCHANGED <<args, portOpen, raised, exitCode, svars>>

\* parse_chunks_cbor raises on a malformed package (cbor2 error, IndexError
\* on an odd segment table) before dfu_init; nothing catches it in main.
BadPackage ==
    /\ pc = "run" /\ DfuMode /\ fileArg = "present"
    /\ DfuType = "modem-full" /\ state = "Idle"
    /\ raised' = "Other"
    /\ pc' = "close"
    /\ UNCHANGED <<args, portOpen, success, exitCode, svars>>

\* One step of do_dfu_app / do_dfu_delta / do_dfu_full.
DfuStep ==
    /\ pc = "run" /\ DfuMode /\ fileArg = "present"
    /\ Session!SNext
    /\ UNCHANGED <<args, mvars>>

\* Mutant of DfuReturn: the result of do_dfu_* is not used.
DfuReturnIgnored ==
    /\ pc = "run" /\ DfuMode /\ fileArg = "present"
    /\ state \in {"Completed", "Failed"}
    /\ success' = TRUE
    /\ pc' = "close"
    /\ UNCHANGED <<args, portOpen, raised, exitCode, svars>>

\* success = do_dfu_*(...) once the session has ended.
DfuReturn ==
    /\ pc = "run" /\ DfuMode /\ fileArg = "present"
    /\ state \in {"Completed", "Failed"}
    /\ success' = (state = "Completed")
    /\ pc' = "close"
    /\ UNCHANGED <<args, portOpen, raised, exitCode, svars>>

\* finally: close_serial(); then return 0 if success else 1, or the
\* exception goes on and Python exits with status 1.
Close ==
    /\ pc = "close"
    /\ portOpen' = FALSE
    /\ pc' = "exit"
    /\ exitCode' = IF success /\ raised = "none" THEN 0 ELSE 1
    /\ UNCHANGED <<args, success, raised, svars>>

\* A Ctrl-C inside close_serial before ser.close(): KeyboardInterrupt
\* leaves the finally with the port still open; the process then ends and
\* the operating system closes the port.
InterruptInClose ==
    /\ pc = "close" /\ portOpen
    /\ pc' = "exit"
    /\ exitCode' = 130
    /\ UNCHANGED <<args, portOpen, success, raised, svars>>

Next ==
    \/ Validate \/ InterruptBeforeTry \/ OpenPort \/ OpenFails \/ Abort
    \/ DoPing \/ DoReset \/ FileMissing \/ BadPackage \/ DfuStep \/ DfuReturn
    \/ Close \/ InterruptInClose

\* Only safety is checked: main is straight-line code and ends by its shape.
Spec == Init /\ [][Next]_vars

(***************************************************************************)
(* Properties.                                                             *)
(***************************************************************************)
\* The port is opened only for one operation: never for arguments that
\* main rejects, never for two utilities, a utility with --file/--type, or
\* a DFU without both --file and --type (section 6: exactly one of ping,
\* reset, modem-reset or a DFU run).
OneOperationPerPort ==
    portOpen =>
        \/ NUtilities = 1 /\ fileArg = "none" /\ ~typeArg
        \/ NUtilities = 0 /\ fileArg # "none" /\ typeArg

\* Exit status 0 only when the operation asked for succeeded: for a DFU,
\* the session completed with every chunk delivered and no exception was
\* pending (section 6: success exit vs. failure exit).
ExitZeroSound ==
    exitCode = 0 =>
        /\ raised = "none"
        /\ DfuMode => state = "Completed" /\ done = 1..NChunks

\* Section 5: the serial channel is released on every exit path (normal
\* completion, validation failure, a missing file, device error, user
\* interruption, channel loss): whenever main returns, or an exception
\* leaves it with status 1, its finally has run close_serial.  Only a
\* Ctrl-C inside close_serial itself (status 130) leaves the port to the
\* operating system.
PortReleasedOnExit == exitCode \in {0, 1} => ~portOpen

=============================================================================
