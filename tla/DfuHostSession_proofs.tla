----------------------- MODULE DfuHostSession_proofs -----------------------
(***************************************************************************)
(* Proof that DfuHost implements the safety part of DfuSession: every      *)
(* initial state maps to the session's initial state and every step maps   *)
(* to a session step or leaves the session unchanged.                      *)
(***************************************************************************)
EXTENDS DfuHostSession, DfuHostBoot_proofs, TLAPS

(***************************************************************************)
(* The mapping alone is not enough to show that a chunk delivery is the    *)
(* session's Deliver: the session delivers the lowest pending chunk of the *)
(* phase and applies after the last one.  The invariant says which chunks  *)
(* the host has counted at each point of do_dfu_*: none before the chunk   *)
(* loop, every chunk below idx inside it, every chunk of the phases so far *)
(* at its apply, and the liveness polling and the end only after the       *)
(* firmware phase.                                                         *)
(***************************************************************************)
SessionInv ==
    /\ pc \in {"init", "initWait"} => delivered = {} /\ phase = "main"
    /\ pc \in {"write", "writeOk", "writeUrc"} => delivered = 1..(idx - 1)
    /\ pc \in {"apply", "applyUrc", "ping", "pingWait", "done"} =>
           delivered = 1..PhaseHi(phase)
    /\ pc \in {"ping", "pingWait", "done"} => phase = "main"

RInv == IInv /\ SessionInv

USE ConstantsAssumption

\* The session's chunks of a phase are the host's.
LEMMA SegChunksEq ==
    \A ph \in {"boot", "main"} : Session!SegChunks(ph) = PhaseChunks(ph)
BY DEF Session!SegChunks, Session!Full, PhaseChunks, PhaseLo, PhaseHi,
       BootCount, IsFull

\* The session state of each host point.
LEMMA StateOfPcs ==
    /\ StateOf("init") = "Idle"
    /\ StateOf("initWait") = "Initializing"
    /\ \A p \in {"write", "writeOk", "writeUrc"} : StateOf(p) = "Transferring"
    /\ \A p \in {"apply", "applyUrc", "ping", "pingWait"} : StateOf(p) = "Applying"
    /\ StateOf("done") = "Completed"
    /\ StateOf("failed") = "Failed"
BY DEF StateOf

\* The host starts in the session's initial state, with nothing delivered.
LEMMA InitSession == Init => SessionInv /\ Session!SInit
BY StateOfPcs DEF Init, SessionInv, Session!SInit, SessionState
\* A host step as the session sees it.
AbsStep == Session!SNext \/ UNCHANGED Session!svars

\* Starting a phase (after dfu_init or the boot apply) is the session's
\* Enter: the phase's chunk loop, or its apply straight away.
LEMMA StartSession ==
    ASSUME NEW ph \in {"boot", "main"}, StartPhase(ph)
    PROVE  /\ Session!Enter(ph)
           /\ pc' \in {"write", "apply"}
           /\ pc' = "write" => idx' \in PhaseChunks(ph) /\ 1..(idx' - 1) = 1..(PhaseLo(ph) - 1)
           /\ pc' = "apply" => 1..PhaseHi(ph) = 1..(PhaseLo(ph) - 1)
<1>1. Session!SegChunks(ph) = PhaseChunks(ph) BY SegChunksEq
<1>2. /\ pc' = IF PhaseChunks(ph) = {} THEN "apply" ELSE "write"
      /\ phase' = ph
      /\ idx' = PhaseLo(ph)
  BY DEF StartPhase
<1>3. StateOf(pc') = IF PhaseChunks(ph) = {} THEN "Applying" ELSE "Transferring"
  BY <1>2, StateOfPcs
<1>4. Session!Enter(ph) BY <1>1, <1>2, <1>3 DEF Session!Enter, SessionState
<1>5. PhaseChunks(ph) # {} => PhaseLo(ph) \in PhaseChunks(ph) BY PhaseBounds
<1>6. PhaseChunks(ph) = {} => PhaseHi(ph) = PhaseLo(ph) - 1
  BY DEF PhaseChunks, PhaseLo, PhaseHi, BootCount
<1>7. QED BY <1>2, <1>4, <1>5, <1>6

\* A chunk acknowledged with a status-0 URC is the session's Deliver of the
\* lowest pending chunk of the phase, and the apply follows the last one.
LEMMA DeliverSession ==
    ASSUME RInv, pc = "writeUrc", AfterWriteUrc(TRUE)
    PROVE  SessionInv' /\ Session!Deliver
<1>1. /\ idx \in PhaseChunks(phase) /\ delivered = 1..(idx - 1)
      /\ phase \in {"boot", "main"} /\ idx \in Nat
  BY DEF RInv, IInv, LoopIdxOk, SessionInv, TypeOK
<1>2. /\ delivered' = delivered \cup {idx}
      /\ phase' = phase
      /\ idx = PhaseHi(phase) => pc' = "apply"
      /\ idx # PhaseHi(phase) => pc' = "write" /\ idx' = idx + 1
  BY DEF AfterWriteUrc
<1>3. Session!Pending = idx..PhaseHi(phase)
  <2>1. Session!SegChunks(phase) = PhaseChunks(phase) BY <1>1, SegChunksEq
  <2>2. PhaseChunks(phase) = PhaseLo(phase)..PhaseHi(phase) BY DEF PhaseChunks
  <2>3. PhaseLo(phase) \in Nat \ {0} /\ PhaseHi(phase) \in Nat
    BY <1>1 DEF PhaseLo, PhaseHi, BootCount
  <2>4. QED BY <1>1, <2>1, <2>2, <2>3 DEF Session!Pending
<1>4. /\ idx \in Session!Pending
      /\ \A d \in Session!Pending : idx <= d
      /\ Session!Pending = {idx} <=> idx = PhaseHi(phase)
  <2>1. PhaseHi(phase) \in Nat BY <1>1 DEF PhaseHi, BootCount
  <2>2. idx <= PhaseHi(phase) BY <1>1 DEF PhaseChunks
  <2>3. QED BY <1>1, <1>3, <2>1, <2>2
<1>5. SessionInv'
  <2>0. idx \in 1..NChunks BY <1>1, PhaseBounds DEF Chunks
  <2>1. delivered' = 1..idx BY <1>1, <1>2, <2>0
  <2>2. CASE idx = PhaseHi(phase)
    BY <1>2, <2>1, <2>2 DEF SessionInv
  <2>3. CASE idx # PhaseHi(phase)
    <3>1. delivered' = 1..(idx' - 1) BY <1>2, <2>1, <2>3
    <3>2. QED BY <1>2, <2>3, <3>1 DEF SessionInv
  <2>4. QED BY <2>2, <2>3
<1>6. SessionState' = IF Session!Pending = {idx} THEN "Applying" ELSE "Transferring"
  BY <1>2, <1>4, StateOfPcs DEF SessionState
<1>7. SessionState = "Transferring" BY StateOfPcs DEF SessionState
<1>8. Session!Deliver BY <1>2, <1>4, <1>6, <1>7 DEF Session!Deliver
<1>9. QED BY <1>5, <1>8

\* A failed write attempt either retries the same chunk, which the session
\* does not see, or fails the session.
LEMMA AttemptSession ==
    ASSUME SessionInv, pc \in {"writeOk", "writeUrc"}, AttemptFailed
    PROVE  SessionInv' /\ AbsStep
<1>1. pc' \in {"write", "failed"} /\ UNCHANGED <<phase, idx, delivered>>
  BY DEF AttemptFailed
<1>2. CASE pc' = "write"
  <2>1. UNCHANGED Session!svars BY <1>1, <1>2, StateOfPcs DEF Session!svars, SessionState
  <2>2. QED BY <1>1, <1>2, <2>1 DEF SessionInv, AbsStep
<1>3. CASE pc' = "failed"
  <2>1. Session!Fail
    BY <1>1, <1>3, StateOfPcs DEF Session!Fail, SessionState
  <2>2. QED BY <1>3, <2>1 DEF SessionInv, AbsStep, Session!SNext
<1>4. QED BY <1>1, <1>2, <1>3

\* Whatever a wait returns, the host's continuation is a session step or
\* invisible to the session, and keeps the invariant.
LEMMA ResumeSession ==
    ASSUME RInv, pc \in WaitPcs, NEW ok \in BOOLEAN, Resume(ok)
    PROVE  SessionInv' /\ AbsStep
<1>0. phase \in {"boot", "main"} /\ SessionInv BY DEF RInv, IInv, TypeOK
<1>1. CASE pc = "initWait"
  <2>1. AfterInit(ok) BY <1>1 DEF Resume
  <2>2. delivered = {} BY <1>0, <1>1 DEF SessionInv
  <2>3. CASE ok
    <3> DEFINE ph == IF IsFull THEN "boot" ELSE "main"
    <3>1. StartPhase(ph) /\ UNCHANGED delivered BY <2>1, <2>3 DEF AfterInit
    <3>2. /\ Session!Enter(ph)
          /\ pc' \in {"write", "apply"}
          /\ pc' = "write" => 1..(idx' - 1) = 1..(PhaseLo(ph) - 1)
          /\ pc' = "apply" => 1..PhaseHi(ph) = 1..(PhaseLo(ph) - 1)
      BY <3>1, StartSession
    <3>3. PhaseLo(ph) = 1 BY DEF PhaseLo, BootCount, IsFull
    <3>4. phase' = ph BY <3>1 DEF StartPhase
    <3>5. 1..(PhaseLo(ph) - 1) = {} BY <3>3
    <3>6. delivered' = {} BY <2>2, <3>1
    <3>7. pc' = "write" => delivered' = 1..(idx' - 1) BY <3>2, <3>5, <3>6
    <3>8. pc' = "apply" => delivered' = 1..PhaseHi(phase') BY <3>2, <3>4, <3>5, <3>6
    <3>9. SessionInv' BY <3>2, <3>7, <3>8 DEF SessionInv
    <3>10. Session!InitOk
      BY <1>1, <3>1, <3>2, StateOfPcs
      DEF Session!InitOk, Session!Full, IsFull, SessionState
    <3>11. QED BY <3>9, <3>10 DEF AbsStep, Session!SNext
  <2>4. CASE ~ok
    <3>1. pc' = "failed" /\ UNCHANGED <<phase, delivered>> BY <2>1, <2>4 DEF AfterInit
    <3>2. Session!Fail BY <1>1, <3>1, StateOfPcs DEF Session!Fail, SessionState
    <3>3. QED BY <3>1, <3>2 DEF SessionInv, AbsStep, Session!SNext
  <2>5. QED BY <2>3, <2>4
<1>2. CASE pc = "writeOk"
  <2>1. AfterWriteOk(ok) BY <1>2 DEF Resume
  <2>2. CASE ok
    <3>1. pc' = "writeUrc" /\ UNCHANGED <<phase, idx, delivered>>
      BY <2>1, <2>2 DEF AfterWriteOk
    <3>2. UNCHANGED Session!svars
      BY <1>2, <3>1, StateOfPcs DEF Session!svars, SessionState
    <3>3. QED BY <1>0, <1>2, <3>1, <3>2 DEF SessionInv, AbsStep
  <2>3. CASE ~ok BY <1>0, <1>2, <2>1, <2>3, AttemptSession DEF AfterWriteOk
  <2>4. QED BY <2>2, <2>3
<1>3. CASE pc = "writeUrc"
  <2>1. AfterWriteUrc(ok) BY <1>3 DEF Resume
  <2>2. CASE ok BY <1>3, <2>1, <2>2, DeliverSession DEF AbsStep, Session!SNext
  <2>3. CASE ~ok BY <1>0, <1>3, <2>1, <2>3, AttemptSession DEF AfterWriteUrc
  <2>4. QED BY <2>2, <2>3
<1>4. CASE pc = "applyUrc"
  <2>1. AfterApply(ok) BY <1>4 DEF Resume
  <2>2. delivered = 1..PhaseHi(phase) BY <1>0, <1>4 DEF SessionInv
  <2>3. SessionState = "Applying" BY <1>4, StateOfPcs DEF SessionState
  <2>4. CASE ok /\ phase = "boot"
    <3>1. StartPhase("main") /\ UNCHANGED delivered BY <2>1, <2>4 DEF AfterApply
    <3>2. /\ Session!Enter("main")
          /\ pc' \in {"write", "apply"}
          /\ pc' = "write" => 1..(idx' - 1) = 1..(PhaseLo("main") - 1)
          /\ pc' = "apply" => 1..PhaseHi("main") = 1..(PhaseLo("main") - 1)
      BY <3>1, StartSession
    <3>3. PhaseHi("boot") = PhaseLo("main") - 1 BY DEF PhaseLo, PhaseHi, BootCount
    <3>4. phase' = "main" BY <3>1 DEF StartPhase
    <3>5. SessionInv' BY <2>2, <2>4, <3>1, <3>2, <3>3, <3>4 DEF SessionInv
    <3>6. Session!ApplyOk BY <2>3, <2>4, <3>1, <3>2 DEF Session!ApplyOk
    <3>7. QED BY <3>5, <3>6 DEF AbsStep, Session!SNext
  <2>5. CASE ok /\ phase # "boot"
    <3>1. pc' = "done" /\ UNCHANGED <<phase, delivered>> BY <2>1, <2>5 DEF AfterApply
    <3>2. phase = "main" BY <1>0, <2>5
    <3>3. SessionInv' BY <2>2, <3>1, <3>2 DEF SessionInv
    <3>4. Session!ApplyOk
      BY <2>3, <2>5, <3>1, StateOfPcs DEF Session!ApplyOk, SessionState
    <3>5. QED BY <3>3, <3>4 DEF AbsStep, Session!SNext
  <2>6. CASE ~ok
    <3>1. pc' = "failed" /\ UNCHANGED <<phase, delivered>> BY <2>1, <2>6 DEF AfterApply
    <3>2. Session!Fail BY <2>3, <3>1, StateOfPcs DEF Session!Fail, SessionState
    <3>3. QED BY <3>1, <3>2 DEF SessionInv, AbsStep, Session!SNext
  <2>7. QED BY <2>4, <2>5, <2>6
<1>5. CASE pc = "pingWait"
  <2>1. AfterPing(ok) BY <1>5 DEF Resume
  <2>2. delivered = 1..PhaseHi(phase) /\ phase = "main" BY <1>0, <1>5 DEF SessionInv
  <2>3. SessionState = "Applying" BY <1>5, StateOfPcs DEF SessionState
  <2>4. UNCHANGED <<phase, delivered>> BY <2>1 DEF AfterPing
  <2>5. CASE ok
    <3>1. pc' = "done" BY <2>1, <2>5 DEF AfterPing
    <3>2. SessionInv' BY <2>2, <2>4, <3>1 DEF SessionInv
    <3>3. Session!ApplyOk
      BY <2>2, <2>3, <2>4, <3>1, StateOfPcs DEF Session!ApplyOk, SessionState
    <3>4. QED BY <3>2, <3>3 DEF AbsStep, Session!SNext
  <2>6. CASE ~ok
    <3>1. pc' \in {"ping", "failed"} BY <2>1, <2>6 DEF AfterPing
    <3>2. CASE pc' = "ping"
      <4>1. UNCHANGED Session!svars
        BY <1>5, <2>4, <3>2, StateOfPcs DEF Session!svars, SessionState
      <4>2. QED BY <2>2, <2>4, <3>2, <4>1 DEF SessionInv, AbsStep
    <3>3. CASE pc' = "failed"
      <4>1. Session!Fail BY <2>3, <2>4, <3>3, StateOfPcs DEF Session!Fail, SessionState
      <4>2. QED BY <3>3, <4>1 DEF SessionInv, AbsStep, Session!SNext
    <3>4. QED BY <3>1, <3>2, <3>3
  <2>7. QED BY <2>5, <2>6
<1>6. QED BY <1>1, <1>2, <1>3, <1>4, <1>5 DEF WaitPcs

\* A step that leaves the host's program counter, phase and delivered
\* chunks alone is invisible to the session.
LEMMA HostUnchanged ==
    ASSUME SessionInv, UNCHANGED hostVars
    PROVE  SessionInv' /\ AbsStep
BY DEF SessionInv, AbsStep, hostVars, Session!svars, SessionState

\* Every step of the host or the device is a session step or a stutter,
\* and keeps the invariant.
LEMMA NextSession == RInv /\ [Next]_vars => SessionInv' /\ AbsStep
<1> SUFFICES ASSUME RInv, [Next]_vars PROVE SessionInv' /\ AbsStep OBVIOUS
<1>0. SessionInv BY DEF RInv
<1>1. CASE SendInit
  <2>1. pc = "init" /\ pc' = "initWait" /\ UNCHANGED <<phase, delivered>>
    BY <1>1 DEF SendInit
  <2>2. Session!Begin BY <2>1, StateOfPcs DEF Session!Begin, SessionState
  <2>3. QED BY <1>0, <2>1, <2>2 DEF SessionInv, AbsStep, Session!SNext
<1>2. CASE SendWrite
  <2>1. pc = "write" /\ pc' = "writeOk" /\ UNCHANGED <<phase, idx, delivered>>
    BY <1>2 DEF SendWrite
  <2>2. UNCHANGED Session!svars BY <2>1, StateOfPcs DEF Session!svars, SessionState
  <2>3. QED BY <1>0, <2>1, <2>2 DEF SessionInv, AbsStep
<1>3. CASE SendApply
  <2>1. /\ pc = "apply" /\ pc' \in {"ping", "applyUrc"}
        /\ pc' = "ping" => phase = "main"
        /\ UNCHANGED <<phase, delivered>>
    BY <1>3 DEF SendApply
  <2>2. UNCHANGED Session!svars BY <2>1, StateOfPcs DEF Session!svars, SessionState
  <2>3. QED BY <1>0, <2>1, <2>2 DEF SessionInv, AbsStep
<1>4. CASE SendPing
  <2>1. pc = "ping" /\ pc' = "pingWait" /\ UNCHANGED <<phase, delivered>>
    BY <1>4 DEF SendPing
  <2>2. UNCHANGED Session!svars BY <2>1, StateOfPcs DEF Session!svars, SessionState
  <2>3. QED BY <1>0, <2>1, <2>2 DEF SessionInv, AbsStep
<1>5. CASE Poll
  <2>1. pc \in WaitPcs /\ (UNCHANGED <<hostVars, tx>> \/ \E ok \in BOOLEAN : Resume(ok))
    BY <1>5, PollCases
  <2>2. CASE UNCHANGED <<hostVars, tx>> BY <1>0, <2>2, HostUnchanged
  <2>3. CASE \E ok \in BOOLEAN : Resume(ok) BY <2>1, <2>3, ResumeSession
  <2>4. QED BY <2>1, <2>2, <2>3
<1>6. CASE Timeout BY <1>6, ResumeSession DEF Timeout
<1>7. CASE DevNext
  <2>1. UNCHANGED hostVars
    BY <1>7 DEF DevNext, DevInit, DevWrite, DevGarbage, DevPayload, DevApply,
                DevAt, DevDrop, DevBoot
  <2>2. QED BY <1>0, <2>1, HostUnchanged
<1>8. CASE UNCHANGED vars BY <1>0, <1>8, HostUnchanged DEF vars, hostVars
<1>9. QED BY <1>1, <1>2, <1>3, <1>4, <1>5, <1>6, <1>7, <1>8 DEF Next, HostNext

\* do_dfu_app, do_dfu_delta and do_dfu_full implement the session of
\* section 4.4 (the safety part of SessionRefined): the driver starts
\* idle, and each of its steps and each of the device's is a step of the
\* session or leaves the session unchanged, so chunks are counted
\* delivered in order, one at a time, and each apply follows the last
\* chunk of its phase, for every number of chunks and retries.
THEOREM SessionRefinement ==
    Spec => Session!SInit /\ [][Session!SNext]_(Session!svars)
<1>1. Init => RInv /\ Session!SInit BY InitIInv, InitSession DEF RInv
<1>2. RInv /\ [Next]_vars => RInv' BY NextIInv, NextSession DEF RInv
<1>3. RInv /\ [Next]_vars => [Session!SNext]_(Session!svars)
  BY NextSession DEF AbsStep
<1>4. QED BY <1>1, <1>2, <1>3, PTL DEF Spec

\* When do_dfu_* reports success every chunk has been counted delivered,
\* for every number of chunks, boot chunks and retries.
THEOREM CompletedDeliversAll == Spec => []SessionCompleteAll
<1>1. RInv => SessionCompleteAll
  <2> SUFFICES ASSUME RInv, SessionState = "Completed" PROVE delivered = 1..NChunks
    BY DEF SessionCompleteAll, Session!SCompleteAll
  <2>1. pc = "done" BY DEF SessionState, StateOf, RInv, IInv, TypeOK, HostPcs
  <2>2. delivered = 1..PhaseHi(phase) /\ phase = "main" BY <2>1 DEF RInv, SessionInv
  <2>3. QED BY <2>2 DEF PhaseHi
<1>2. QED BY <1>1, InitIInv, InitSession, NextIInv, NextSession, PTL DEF Spec, RInv
=============================================================================
