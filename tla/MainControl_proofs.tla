------------------------- MODULE MainControl_proofs -------------------------
(***************************************************************************)
(* Proofs of main's safety properties (MainControl): the port is opened    *)
(* only for one valid operation, released on every exit with status 0 or  *)
(* 1, and status 0 means the operation succeeded.  The DFU session's own   *)
(* invariant comes from DfuSession_proofs, instantiated with main's        *)
(* session variables.                                                      *)
(***************************************************************************)
EXTENDS MainControl, TLAPS

SP == INSTANCE DfuSession_proofs

(***************************************************************************)
(* The port and the exit status: the port is opened only after valid      *)
(* arguments, not before OpenPort; the process has an exit status exactly *)
(* when main is done; a port still open at the exit can only be the one a *)
(* Ctrl-C left in close_serial.                                            *)
(***************************************************************************)
PortInv ==
    /\ (pc \in {"open", "run", "close"} \/ portOpen) => ArgsValid
    /\ pc \in {"start", "open"} => ~portOpen
    /\ pc = "exit" <=> exitCode # -1
    /\ portOpen /\ pc = "exit" => exitCode = 130

(***************************************************************************)
(* success: false until an operation returns; for a DFU, true only once   *)
(* the session completed; status 0 only with no pending exception and,    *)
(* for a DFU, a completed session.                                         *)
(***************************************************************************)
SuccessInv ==
    /\ pc \in {"start", "open", "run"} => ~success
    /\ success /\ DfuMode => state = "Completed"
    /\ exitCode = 0 => raised = "none" /\ (DfuMode => state = "Completed")

MInv == TypeOK /\ SP!SInv /\ PortInv /\ SuccessInv

LEMMA SessionConstantsHold == SP!SessionConstants
BY MainAssumption DEF SP!SessionConstants

\* main's session steps are the session's steps, and its type is the
\* session's type.
LEMMA SameSession ==
    /\ Session!SNext <=> SP!SNext
    /\ Session!SInit <=> SP!SInit
    /\ Session!STypeOK <=> SP!STypeOK
    /\ Session!svars = SP!svars
BY DEF Session!SNext, SP!SNext, Session!Begin, SP!Begin, Session!InitOk,
       SP!InitOk, Session!Deliver, SP!Deliver, Session!ApplyOk, SP!ApplyOk,
       Session!Fail, SP!Fail, Session!Enter, SP!Enter, Session!Pending,
       SP!Pending, Session!SegChunks, SP!SegChunks, Session!Full, SP!Full,
       Session!SInit, SP!SInit, Session!STypeOK, SP!STypeOK, Session!States,
       SP!States, Session!svars, SP!svars

\* The arguments main accepts are those of exactly one operation.
LEMMA ArgsValidOneOperation ==
    ASSUME {ping, reset, modemReset, typeArg} \subseteq BOOLEAN
    PROVE  ArgsValid <=>
               \/ NUtilities = 1 /\ fileArg = "none" /\ ~typeArg
               \/ NUtilities = 0 /\ fileArg # "none" /\ typeArg
BY DEF ArgsValid, UtilityMode, NUtilities

LEMMA InitMInv == Init => MInv
<1> SUFFICES ASSUME Init PROVE MInv OBVIOUS
<1>1. TypeOK /\ SP!SInv
  <2>1. SP!SInit BY SameSession DEF Init
  <2>2. SP!SInv BY <2>1, SessionConstantsHold, SP!SInitInv
  <2>3. QED BY <2>2, SameSession DEF Init, TypeOK, SP!SInv
<1>2. QED BY <1>1 DEF Init, MInv, PortInv, SuccessInv

\* A step that leaves the session alone keeps its invariant.
LEMMA SessionUnchanged ==
    ASSUME SP!SInv, UNCHANGED svars
    PROVE  SP!SInv'
BY SessionConstantsHold, SP!SNextInv DEF svars, SP!svars

\* A DFU step of main keeps main's invariant: the session moves only in
\* pc = "run", where success is false and no status is set.
LEMMA DfuStepMInv ==
    ASSUME MInv, DfuStep
    PROVE  MInv'
<1>1. SP!SInv'
  BY SessionConstantsHold, SP!SNextInv, SameSession DEF DfuStep, MInv
<1>2. Session!STypeOK'
  BY <1>1 DEF SP!SInv, SP!STypeOK, Session!STypeOK, SP!States,
     Session!States
<1>3. TypeOK' BY <1>2 DEF DfuStep, MInv, TypeOK, args, mvars
<1>4. ~success /\ exitCode = -1 /\ pc = "run"
  BY DEF DfuStep, MInv, SuccessInv, PortInv
<1>5. QED BY <1>1, <1>3, <1>4 DEF DfuStep, MInv, PortInv, SuccessInv,
             args, mvars, UtilityMode, DfuMode, ArgsValid, NUtilities

\* Every step of main keeps its invariant.
LEMMA NextMInv ==
    ASSUME MInv, [Next]_vars
    PROVE  MInv'
<1>1. CASE DfuStep BY <1>1, DfuStepMInv
<1>2. CASE ~DfuStep
  <2>1. UNCHANGED svars
    BY <1>2 DEF Next, vars, Validate, InterruptBeforeTry, OpenPort,
       OpenFails, Abort, DoPing, DoReset, FileMissing, BadPackage,
       DfuReturn, Close, InterruptInClose
  <2>2. SP!SInv' BY <2>1, SessionUnchanged DEF MInv
  <2>3. Session!STypeOK'
    BY <2>2 DEF SP!SInv, SP!STypeOK, Session!STypeOK, SP!States,
       Session!States
  <2>4. UNCHANGED args
    BY <1>2 DEF Next, vars, Validate, InterruptBeforeTry, OpenPort,
       OpenFails, Abort, DoPing, DoReset, FileMissing, BadPackage,
       DfuReturn, Close, InterruptInClose
  <2>5. (UtilityMode' = UtilityMode) /\ (DfuMode' = DfuMode)
        /\ (ArgsValid' = ArgsValid)
    BY <2>4 DEF args, UtilityMode, DfuMode, ArgsValid, NUtilities
  <2>6. (state' = state) /\ (done' = done) BY <2>1 DEF svars
  <2>7. CASE Validate
    BY <2>7, <2>3, <2>2, <2>4, <2>5, <2>6 DEF MInv, args, Validate, TypeOK, PortInv,
       SuccessInv
  <2>8. CASE InterruptBeforeTry
    BY <2>8, <2>3, <2>2, <2>4, <2>5, <2>6 DEF MInv, args, InterruptBeforeTry, TypeOK,
       PortInv, SuccessInv
  <2>9. CASE OpenPort
    BY <2>9, <2>3, <2>2, <2>4, <2>5, <2>6 DEF MInv, args, OpenPort, TypeOK, PortInv,
       SuccessInv
  <2>10. CASE OpenFails
    BY <2>10, <2>3, <2>2, <2>4, <2>5, <2>6 DEF MInv, args, OpenFails, TypeOK, PortInv,
       SuccessInv
  <2>11. CASE Abort
    BY <2>11, <2>3, <2>2, <2>4, <2>5, <2>6 DEF MInv, args, Abort, TypeOK, PortInv,
       SuccessInv
  <2>12. CASE DoPing
    BY <2>12, <2>3, <2>2, <2>4, <2>5, <2>6 DEF MInv, args, DoPing, TypeOK, PortInv,
       SuccessInv, DfuMode, UtilityMode
  <2>13. CASE DoReset
    BY <2>13, <2>3, <2>2, <2>4, <2>5, <2>6 DEF MInv, args, DoReset, TypeOK, PortInv,
       SuccessInv, DfuMode, UtilityMode
  <2>14. CASE FileMissing
    BY <2>14, <2>3, <2>2, <2>4, <2>5, <2>6 DEF MInv, args, FileMissing, TypeOK, PortInv,
       SuccessInv
  <2>15. CASE BadPackage
    BY <2>15, <2>3, <2>2, <2>4, <2>5, <2>6 DEF MInv, args, BadPackage, TypeOK, PortInv,
       SuccessInv
  <2>16. CASE DfuReturn
    BY <2>16, <2>3, <2>2, <2>4, <2>5, <2>6 DEF MInv, args, DfuReturn, TypeOK, PortInv,
       SuccessInv
  <2>17. CASE Close
    <3>1. /\ pc' = "exit" /\ portOpen' = FALSE
          /\ exitCode' = IF success /\ raised = "none" THEN 0 ELSE 1
          /\ UNCHANGED <<success, raised>>
      BY <2>17 DEF Close
    <3>2. exitCode' = 0 => raised' = "none" /\ (DfuMode' => state' = "Completed")
      BY <3>1, <2>5, <2>6 DEF MInv, SuccessInv
    <3>3. TypeOK' BY <3>1, <2>3, <2>4 DEF MInv, TypeOK, args
    <3>4. PortInv' BY <3>1 DEF PortInv
    <3>5. SuccessInv' BY <3>1, <3>2, <2>5, <2>6 DEF MInv, SuccessInv
    <3>6. QED BY <2>2, <3>3, <3>4, <3>5 DEF MInv
  <2>18. CASE InterruptInClose
    BY <2>18, <2>3, <2>2, <2>4, <2>5, <2>6 DEF MInv, args, InterruptInClose, TypeOK,
       PortInv, SuccessInv
  <2>19. CASE UNCHANGED vars
    BY <2>19, <2>3, <2>2, <2>4, <2>5, <2>6 DEF MInv, args, vars, args, mvars, TypeOK,
       PortInv, SuccessInv
  <2>20. QED
    BY <1>2, <2>7, <2>8, <2>9, <2>10, <2>11, <2>12, <2>13, <2>14, <2>15,
       <2>16, <2>17, <2>18, <2>19 DEF Next
<1>3. QED BY <1>1, <1>2

LEMMA MInvSpec == Spec => []MInv
<1>1. Init => MInv BY InitMInv
<1>2. MInv /\ [Next]_vars => MInv' BY NextMInv
<1>3. QED BY <1>1, <1>2, PTL DEF Spec

\* The port is opened only for one operation the options select: never for
\* arguments main rejects (OneOperationPerPort, main's validation block).
THEOREM PortForOneOperation == Spec => []OneOperationPerPort
<1>1. MInv => OneOperationPerPort
  BY ArgsValidOneOperation DEF MInv, TypeOK, PortInv, OneOperationPerPort
<1>2. QED BY <1>1, MInvSpec, PTL

\* Whenever main returns, or an exception leaves it with status 1, its
\* finally has closed the port (PortReleasedOnExit, close_serial).
THEOREM PortReleased == Spec => []PortReleasedOnExit
<1>1. MInv => PortReleasedOnExit BY DEF MInv, PortInv, PortReleasedOnExit
<1>2. QED BY <1>1, MInvSpec, PTL

\* Status 0 only when no exception is pending and, for a DFU, the session
\* completed with every chunk delivered (ExitZeroSound, main's return of
\* 0 if success else 1).
THEOREM ExitZeroMeansDone == Spec => []ExitZeroSound
<1>1. ASSUME MInv PROVE ExitZeroSound
  <2>1. SP!SCompleteAll BY <1>1, SessionConstantsHold, SP!SInvCompleteAll
                          DEF MInv
  <2>2. QED BY <1>1, <2>1 DEF MInv, SuccessInv, ExitZeroSound,
                              SP!SCompleteAll
<1>2. QED BY <1>1, MInvSpec, PTL
=============================================================================
