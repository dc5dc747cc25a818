------------------------- MODULE DfuHostCount_proofs -------------------------
(***************************************************************************)
(* Proof of ChunkCountedWhenStored for every DFU type: dfu_write counts a *)
(* chunk in bytes_sent only when it reads the write URC of that chunk,    *)
(* never twice, and, while no wait has hit its deadline, only when the    *)
(* device holds the chunk's own payload.                                   *)
(*                                                                         *)
(* The lock-step of DfuHostSync_proofs is extended here to modem-full, up *)
(* to the firmware apply: do_dfu_full's init is answered by the           *)
(* bootloader's READY, the boot apply by a URC that also switches the     *)
(* device to its firmware phase.  After the firmware apply nothing is     *)
(* claimed: the host only pings and counts no chunk.                       *)
(***************************************************************************)
EXTENDS DfuHostSync_proofs

\* The answer of the device to AT#XDFUINIT when it accepts it.
InitAnswer == Line(IF IsFull THEN "READY" ELSE "OK")

\* The device's phase once it has answered the apply of the host's phase
\* with the given status: only a boot apply with status 0 moves it on.
AppliedPhase(st) == IF phase = "boot" /\ st # 0 THEN "boot" ELSE "main"

\* The channel and the device at each point of the host from the start to
\* the last apply it reads, while no wait has timed out.
WriteLockStep ==
    ~timedOut =>
    /\ pc \in {"init", "write", "apply"} => Quiet /\ dphase = phase
    /\ pc = "initWait" =>
          /\ dmode = "cmd" /\ phase = "main"
          /\ \/ tx = <<Item("INIT", 0)>> /\ rx = <<>> /\ dphase = "main"
             \/ /\ tx = <<>> /\ rx = <<InitAnswer>>
                /\ dphase = IF IsFull THEN "boot" ELSE "main"
             \/ tx = <<>> /\ rx = <<Line("ERROR")>> /\ dphase = "main"
    /\ pc = "writeOk" =>
          /\ dphase = phase
          /\ \/ tx = <<Item("WRITE", idx)>> /\ rx = <<>> /\ dmode = "cmd"
             \/ tx = <<>> /\ rx = <<Line("OK")>> /\ dmode = "data" /\ dchunk = idx
             \/ tx = <<>> /\ rx = <<Line("ERROR")>> /\ dmode = "cmd"
    /\ pc = "writeUrc" =>
          /\ dphase = phase
          /\ \/ tx = <<Item("DATA", idx)>> /\ rx = <<>> /\ dmode = "data"
                /\ dchunk = idx
             \/ /\ tx = <<>> /\ dmode = "cmd"
                /\ \E st \in 0..1 : rx = <<Urc(1, st)>>
                                     /\ (st = 0 => stored[idx] = "good")
    /\ pc = "applyUrc" =>
          /\ dmode = "cmd" /\ (IsFull => phase = "boot")
          /\ \/ tx = <<Item("APPLY", 0)>> /\ rx = <<>> /\ dphase = phase
             \/ tx = <<>> /\ \E st \in 0..1 : rx = <<Urc(2, st)>>
                                               /\ dphase = AppliedPhase(st)

CInv == RInv /\ WriteLockStep

USE ConstantsAssumption

(***************************************************************************)
(* Reading the one answer in the input buffer, for every DFU type.        *)
(***************************************************************************)
\* wait_for_response reads the string it waits for: the wait returns True.
LEMMA ReadAnswer ==
    ASSUME pc \in {"initWait", "writeOk"}, rx = <<Line(Expected)>>, Poll
    PROVE  rx' = <<>> /\ Resume(TRUE) /\ UNCHANGED <<devVars, timedOut>>
<1>1. Expected \in {"OK", "READY"} BY DEF Expected
<1>2. Line(Expected) \in Lines BY <1>1 DEF Line, Lines, LineKinds
<1>3. WaitEnds(<<Line(Expected)>>) /\ WaitOk(<<Line(Expected)>>)
  BY <1>1, <1>2, OneLine DEF WaitEnds, WaitOk, ResponseEnds, ResponseOk, Line,
                                LineKinds
<1>4. WaitOk(<<Line(Expected)>>) = TRUE BY <1>3
<1>5. QED BY <1>2, <1>3, <1>4, PollOne

\* ... or reads ERROR: the wait returns False.
LEMMA ReadErr ==
    ASSUME pc \in {"initWait", "writeOk"}, rx = <<Line("ERROR")>>, Poll
    PROVE  rx' = <<>> /\ Resume(FALSE) /\ UNCHANGED <<devVars, timedOut>>
<1>1. Expected \in {"OK", "READY"} BY DEF Expected
<1>2. Line("ERROR") \in Lines BY DEF Line, Lines, LineKinds
<1>3. WaitEnds(<<Line("ERROR")>>) /\ ~WaitOk(<<Line("ERROR")>>)
  BY <1>1, <1>2, OneLine DEF WaitEnds, WaitOk, ResponseEnds, ResponseOk, Line,
                                LineKinds
<1>4. WaitOk(<<Line("ERROR")>>) = FALSE
  BY <1>3 DEF WaitOk, UrcOk, ResponseOk, HasKind
<1>5. QED BY <1>2, <1>3, <1>4, PollOne

\* A returning wait changes bytes_sent only in dfu_write's URC wait, when
\* it returns True, and then by the chunk of the loop.
LEMMA ResumeDelivered ==
    ASSUME pc \in WaitPcs, NEW ok \in BOOLEAN, Resume(ok), delivered' # delivered
    PROVE  pc = "writeUrc" /\ ok /\ delivered' = delivered \cup {idx}
<1>1. CASE pc = "initWait" BY <1>1 DEF Resume, AfterInit
<1>2. CASE pc = "writeOk" BY <1>2 DEF Resume, AfterWriteOk, AttemptFailed
<1>3. CASE pc = "writeUrc" BY <1>3 DEF Resume, AfterWriteUrc, AttemptFailed
<1>4. CASE pc = "applyUrc" BY <1>4 DEF Resume, AfterApply
<1>5. CASE pc = "pingWait" BY <1>5 DEF Resume, AfterPing
<1>6. QED BY <1>1, <1>2, <1>3, <1>4, <1>5 DEF WaitPcs

\* Entering a phase leaves nothing in flight: the chunk loop or the apply
\* starts in the device's phase.
LEMMA StartQuiet ==
    ASSUME NEW ph \in {"boot", "main"}, StartPhase(ph), Quiet', dphase' = ph
    PROVE  WriteLockStep'
BY DEF StartPhase, WriteLockStep

(***************************************************************************)
(* A poll keeps the lock-step: it reads the answer of the one command in  *)
(* flight, and the host sends its next command only after that.           *)
(***************************************************************************)
LEMMA PollCount ==
    ASSUME TypeOK, WriteLockStep, timedOut = FALSE, Poll
    PROVE  WriteLockStep'
<1>0. pc \in WaitPcs /\ rx # <<>> /\ UNCHANGED <<devVars, timedOut>> BY DEF Poll
<1>1. CASE pc = "initWait"
  <2>1. /\ tx = <<>> /\ dmode = "cmd" /\ phase = "main"
        /\ \/ rx = <<InitAnswer>> /\ dphase = IF IsFull THEN "boot" ELSE "main"
           \/ rx = <<Line("ERROR")>>
    BY <1>0, <1>1 DEF WriteLockStep
  <2>2. CASE rx = <<InitAnswer>> /\ dphase = IF IsFull THEN "boot" ELSE "main"
    <3>1. InitAnswer = Line(Expected) BY <1>1 DEF InitAnswer, Expected
    <3>2. rx' = <<>> /\ AfterInit(TRUE) /\ UNCHANGED <<devVars, timedOut>>
      BY <1>1, <2>2, <3>1, ReadAnswer DEF Resume
    <3>3. StartPhase(IF IsFull THEN "boot" ELSE "main") /\ UNCHANGED tx
      BY <3>2 DEF AfterInit
    <3>4. Quiet' /\ dphase' = IF IsFull THEN "boot" ELSE "main"
      BY <2>1, <2>2, <3>2, <3>3 DEF Quiet, devVars
    <3>5. QED BY <3>3, <3>4, StartQuiet
  <2>3. CASE rx = <<Line("ERROR")>>
    <3>1. Resume(FALSE) BY <1>1, <2>3, ReadErr
    <3>2. pc' = "failed" BY <1>1, <3>1 DEF Resume, AfterInit
    <3>3. QED BY <3>2 DEF WriteLockStep
  <2>4. QED BY <2>1, <2>2, <2>3
<1>2. CASE pc = "writeOk"
  <2>1. /\ tx = <<>> /\ dphase = phase
        /\ \/ rx = <<Line("OK")>> /\ dmode = "data" /\ dchunk = idx
           \/ rx = <<Line("ERROR")>> /\ dmode = "cmd"
    BY <1>0, <1>2 DEF WriteLockStep
  <2>2. CASE rx = <<Line("OK")>>
    <3>1. Expected = "OK" BY <1>2 DEF Expected
    <3>2. rx' = <<>> /\ AfterWriteOk(TRUE) /\ UNCHANGED <<devVars, timedOut>>
      BY <1>2, <2>2, <3>1, ReadAnswer DEF Resume
    <3>3. /\ tx' = <<Item("DATA", idx)>> /\ pc' = "writeUrc"
          /\ UNCHANGED <<phase, idx>>
      BY <2>1, <3>2 DEF AfterWriteOk
    <3>4. dmode = "data" /\ dchunk = idx BY <2>1, <2>2 DEF Line
    <3>5. QED BY <2>1, <3>2, <3>3, <3>4 DEF WriteLockStep, devVars
  <2>3. CASE rx = <<Line("ERROR")>>
    <3>1. rx' = <<>> /\ Resume(FALSE) /\ UNCHANGED <<devVars, timedOut>>
      BY <1>2, <2>3, ReadErr
    <3>2. pc' \in {"write", "failed"} /\ UNCHANGED <<phase, tx>>
      BY <1>2, <3>1, FailedWrite
    <3>3. dmode = "cmd" BY <2>1, <2>3 DEF Line
    <3>4. QED BY <2>1, <3>1, <3>2, <3>3 DEF WriteLockStep, Quiet, devVars
  <2>4. QED BY <2>1, <2>2, <2>3
<1>3. CASE pc = "writeUrc"
  <2>1. /\ tx = <<>> /\ dmode = "cmd" /\ dphase = phase
        /\ \E st \in 0..1 : rx = <<Urc(1, st)>>
    BY <1>0, <1>3 DEF WriteLockStep
  <2>2. PICK st \in 0..1 : rx = <<Urc(1, st)>> BY <2>1
  <2>3. rx' = <<>> /\ Resume(st = 0) /\ UNCHANGED <<devVars, timedOut>>
    BY <1>3, <2>2, ReadUrc
  <2>4. CASE st = 0
    <3>1. AfterWriteUrc(TRUE) BY <1>3, <2>3, <2>4 DEF Resume
    <3>2. pc' \in {"apply", "write"} /\ UNCHANGED <<phase, tx>>
      BY <3>1 DEF AfterWriteUrc
    <3>3. QED BY <2>1, <2>3, <3>2 DEF WriteLockStep, Quiet, devVars
  <2>5. CASE st # 0
    <3>1. Resume(FALSE) BY <2>3, <2>5
    <3>2. pc' \in {"write", "failed"} /\ UNCHANGED <<phase, tx>>
      BY <1>3, <3>1, FailedWrite
    <3>3. QED BY <2>1, <2>3, <3>2 DEF WriteLockStep, Quiet, devVars
  <2>6. QED BY <2>4, <2>5
<1>4. CASE pc = "applyUrc"
  <2>1. /\ tx = <<>> /\ dmode = "cmd"
        /\ \E st \in 0..1 : rx = <<Urc(2, st)>> /\ dphase = AppliedPhase(st)
    BY <1>0, <1>4 DEF WriteLockStep
  <2>2. PICK st \in 0..1 : rx = <<Urc(2, st)>> /\ dphase = AppliedPhase(st)
    BY <2>1
  <2>3. rx' = <<>> /\ Resume(st = 0) /\ UNCHANGED <<devVars, timedOut>>
    BY <1>4, <2>2, ReadUrc
  <2>4. AfterApply(st = 0) /\ UNCHANGED tx BY <1>4, <2>3 DEF Resume, AfterApply
  <2>5. CASE st = 0 /\ phase = "boot"
    <3>1. StartPhase("main") BY <2>4, <2>5 DEF AfterApply
    <3>2. Quiet' /\ dphase' = "main"
      BY <2>1, <2>2, <2>3, <2>4, <2>5 DEF Quiet, devVars, AppliedPhase
    <3>3. QED BY <3>1, <3>2, StartQuiet
  <2>6. CASE ~(st = 0 /\ phase = "boot")
    <3>1. pc' \in {"done", "failed"} BY <2>4, <2>6 DEF AfterApply
    <3>2. QED BY <3>1 DEF WriteLockStep
  <2>7. QED BY <2>5, <2>6
<1>5. CASE pc = "pingWait"
  <2>1. PICK ok \in BOOLEAN : Resume(ok) \/ UNCHANGED <<hostVars, tx>>
    BY <1>0, PollCases
  <2>2. pc' \in {"done", "ping", "failed", "pingWait"}
    BY <1>5, <2>1 DEF Resume, AfterPing, hostVars
  <2>3. QED BY <2>2 DEF WriteLockStep
<1>6. QED BY <1>0, <1>1, <1>2, <1>3, <1>4, <1>5 DEF WaitPcs

(***************************************************************************)
(* Every step keeps the lock-step while no wait has timed out.  A device  *)
(* step takes the one command in flight; at the points the invariant does *)
(* not describe (the pings, the end) the host stays where it is.          *)
(***************************************************************************)
LEMMA NextCount ==
    ASSUME TypeOK, LoopIdxOk, SessionInv, WriteLockStep, [Next]_vars,
           timedOut' = FALSE
    PROVE  WriteLockStep'
<1>0. timedOut = FALSE BY TimedOutStays
<1>a. /\ Item("INIT", 0) \in Items /\ Item("APPLY", 0) \in Items
      /\ \A c \in Chunks : Item("WRITE", c) \in Items /\ Item("DATA", c) \in Items
  BY DEF Item, Items, ItemKinds, Chunks
<1>c. pc \in HostPcs /\ phase \in {"boot", "main"} BY DEF TypeOK
<1>1. CASE SendInit
  <2>1. pc = "init" /\ phase = "main" BY <1>1 DEF SendInit, SessionInv
  <2>2. QED BY <1>0, <1>1, <2>1 DEF SendInit, WriteLockStep, Quiet, devVars
<1>2. CASE SendWrite
  BY <1>0, <1>2 DEF SendWrite, WriteLockStep, Quiet, devVars
<1>3. CASE SendApply
  <2>1. CASE IsFull /\ phase = "main"
    BY <1>3, <2>1 DEF SendApply, WriteLockStep
  <2>2. CASE ~(IsFull /\ phase = "main")
    <3>1. pc' = "applyUrc" /\ (IsFull => phase = "boot") BY <1>3, <1>c, <2>2 DEF SendApply
    <3>2. QED BY <1>0, <1>3, <3>1 DEF SendApply, WriteLockStep, Quiet, devVars
  <2>3. QED BY <2>1, <2>2
<1>4. CASE SendPing
  BY <1>4 DEF SendPing, WriteLockStep
<1>5. CASE Poll
  BY <1>0, <1>5, PollCount
<1>6. CASE Timeout
  BY <1>6 DEF Timeout
<1>7. CASE DevNext
  <2>1. UNCHANGED hostVars /\ timedOut' = timedOut
    BY <1>7 DEF DevNext, DevInit, DevWrite, DevGarbage, DevPayload, DevApply,
                DevAt, DevDrop, DevBoot
  <2>2. CASE pc \in {"ping", "pingWait", "done", "failed"}
    BY <2>1, <2>2 DEF WriteLockStep, hostVars
  <2>3. CASE pc \notin {"ping", "pingWait", "done", "failed"}
    <3> DEFINE Covered == pc \in {"init", "initWait", "write", "writeOk",
                                  "writeUrc", "apply", "applyUrc"}
    <3>0. Covered BY <1>c, <2>3 DEF HostPcs
    <3>1. CASE DevInit
      <4>1. pc = "initWait" /\ tx = <<Item("INIT", 0)>> /\ rx = <<>>
            /\ dphase = "main" /\ phase = "main"
        BY <1>0, <3>0, <3>1 DEF DevInit, WriteLockStep, Quiet, Item
      <4>2. Tail(tx) = <<>> BY <4>1, <1>a, HeadOne
      <4>3. /\ tx' = <<>>
            /\ \/ rx' = <<InitAnswer>> /\ dphase' = IF IsFull THEN "boot" ELSE "main"
               \/ rx' = <<Line("ERROR")>> /\ dphase' = "main"
        BY <3>1, <4>1, <4>2 DEF DevInit, Emit, InitAnswer
      <4>4. QED BY <2>1, <3>1, <4>1, <4>3 DEF DevInit, WriteLockStep, hostVars
    <3>2. CASE DevWrite
      <4>1. /\ pc = "writeOk" /\ tx = <<Item("WRITE", idx)>> /\ rx = <<>>
            /\ dphase = phase
        BY <1>0, <3>0, <3>2 DEF DevWrite, WriteLockStep, Quiet, Item
      <4>2. idx \in Chunks BY <4>1, <1>c, PhaseBounds DEF LoopIdxOk
      <4>3. Head(tx) = Item("WRITE", idx) /\ Tail(tx) = <<>>
        BY <4>1, <4>2, <1>a, HeadOne
      <4>4. /\ tx' = <<>>
            /\ \/ rx' = <<Line("OK")>> /\ dmode' = "data" /\ dchunk' = idx
               \/ rx' = <<Line("ERROR")>> /\ dmode' = "cmd"
        BY <3>2, <4>1, <4>3 DEF DevWrite, Emit, Item
      <4>5. QED BY <2>1, <3>2, <4>1, <4>4 DEF DevWrite, WriteLockStep, hostVars
    <3>3. CASE DevGarbage
      BY <1>0, <3>0, <3>3 DEF DevGarbage, WriteLockStep, Quiet, Item
    <3>4. CASE DevPayload
      <4>1. /\ pc = "writeUrc" /\ tx = <<Item("DATA", idx)>> /\ rx = <<>>
            /\ dchunk = idx /\ dphase = phase
        BY <1>0, <3>0, <3>4 DEF DevPayload, WriteLockStep, Quiet
      <4>2. idx \in Chunks BY <4>1, <1>c, PhaseBounds DEF LoopIdxOk
      <4>3. Head(tx) = Item("DATA", idx) /\ Tail(tx) = <<>>
        BY <4>1, <4>2, <1>a, HeadOne
      <4>4. PICK st \in 0..1 :
              /\ rx' = <<Urc(1, st)>>
              /\ stored' = IF st = 0 THEN [stored EXCEPT ![idx] = "good"]
                                     ELSE stored
        BY <3>4, <4>1, <4>3 DEF DevPayload, Emit
      <4>5. st = 0 => stored'[idx] = "good" BY <4>2, <4>4 DEF TypeOK
      <4>6. tx' = <<>> /\ dmode' = "cmd" BY <3>4, <4>3 DEF DevPayload
      <4>7. QED BY <2>1, <3>4, <4>1, <4>4, <4>5, <4>6
               DEF DevPayload, WriteLockStep, hostVars
    <3>5. CASE DevApply
      <4>1. /\ pc = "applyUrc" /\ tx = <<Item("APPLY", 0)>> /\ rx = <<>>
            /\ dphase = phase /\ dmode = "cmd" /\ (IsFull => phase = "boot")
        BY <1>0, <3>0, <3>5 DEF DevApply, WriteLockStep, Quiet, Item
      <4>2. Tail(tx) = <<>> BY <4>1, <1>a, HeadOne
      <4>3. PICK st \in 0..1 :
              /\ rx' = <<Urc(2, st)>>
              /\ IF dphase = "boot"
                    THEN /\ bootCommitted' = (bootCommitted \/ st = 0)
                         /\ dphase' = IF st = 0 THEN "main" ELSE "boot"
                         /\ UNCHANGED <<dmode, dApplied>>
                    ELSE /\ dApplied' = st
                         /\ dmode' = IF IsFull /\ st = 0 THEN "rebooting" ELSE "cmd"
                         /\ UNCHANGED <<dphase, bootCommitted>>
        BY <3>5, <4>1, <4>2 DEF DevApply, Emit
      <4>4. dmode' = "cmd" /\ dphase' = AppliedPhase(st)
        BY <4>1, <4>3, <1>c DEF AppliedPhase
      <4>5. tx' = <<>> BY <3>5, <4>2 DEF DevApply
      <4>6. QED BY <2>1, <4>1, <4>3, <4>4, <4>5 DEF WriteLockStep, hostVars,
                                                   AppliedPhase
    <3>6. CASE DevAt
      BY <1>0, <3>0, <3>6 DEF DevAt, WriteLockStep, Quiet, Item
    <3>7. CASE DevDrop
      BY <1>0, <3>0, <3>7 DEF DevDrop, WriteLockStep, Quiet
    <3>8. CASE DevBoot
      BY <1>0, <3>0, <3>8 DEF DevBoot, WriteLockStep, Quiet
    <3>9. QED BY <1>7, <3>1, <3>2, <3>3, <3>4, <3>5, <3>6, <3>7, <3>8 DEF DevNext
  <2>4. QED BY <2>2, <2>3
<1>8. CASE UNCHANGED vars
  BY <1>8 DEF vars, WriteLockStep, Quiet, AppliedPhase, InitAnswer, Expected
<1>9. QED BY <1>1, <1>2, <1>3, <1>4, <1>5, <1>6, <1>7, <1>8 DEF Next, HostNext

\* The host starts quiet, in step with the device.
LEMMA InitCInv == Init => CInv
<1> SUFFICES ASSUME Init PROVE CInv OBVIOUS
<1>1. RInv BY InitIInv, InitSession DEF RInv
<1>2. WriteLockStep BY DEF Init, WriteLockStep, Quiet
<1>3. QED BY <1>1, <1>2 DEF CInv

\* Every step keeps the invariant.
LEMMA NextCInv == CInv /\ [Next]_vars => CInv'
<1> SUFFICES ASSUME CInv, [Next]_vars PROVE CInv' OBVIOUS
<1>1. RInv' BY NextIInv, NextSession DEF CInv, RInv
<1>2. CASE timedOut' = FALSE
  BY <1>1, <1>2, NextCount DEF CInv, RInv, IInv
<1>3. CASE timedOut' # FALSE
  BY <1>1, <1>3 DEF CInv, WriteLockStep, RInv, IInv, TypeOK
<1>4. QED BY <1>2, <1>3

(***************************************************************************)
(* The step that counts a chunk: a poll of dfu_write's URC wait that      *)
(* returns True.  Under the lock-step the line it reads is the URC of the *)
(* chunk's own payload, so the wait returns True only if that payload is  *)
(* stored.                                                                 *)
(***************************************************************************)
LEMMA CountStep ==
    ASSUME CInv, [Next]_vars, delivered' # delivered
    PROVE  /\ pc = "writeUrc"
           /\ idx \notin delivered
           /\ delivered' = delivered \cup {idx}
           /\ (~timedOut' => stored[idx] = "good")
<1>1. Poll \/ Timeout
  BY DEF Next, HostNext, DevNext, SendInit, SendWrite, SendApply, SendPing,
         DevInit, DevWrite, DevGarbage, DevPayload, DevApply, DevAt, DevDrop,
         DevBoot, vars, hostVars
<1>2. CASE Timeout
  <2>1. pc \in WaitPcs /\ Resume(FALSE) BY <1>2 DEF Timeout
  <2>2. FALSE BY <2>1, ResumeDelivered
  <2>3. QED BY <2>2
<1>3. CASE Poll
  <2>1. pc \in WaitPcs /\ \E ok \in BOOLEAN : Resume(ok)
    BY <1>3, PollCases DEF hostVars
  <2>2. PICK ok \in BOOLEAN : Resume(ok) BY <2>1
  <2>3. pc = "writeUrc" /\ ok /\ delivered' = delivered \cup {idx}
    BY <2>1, <2>2, ResumeDelivered
  <2>4. idx \notin delivered BY <2>3 DEF CInv, RInv, SessionInv
  <2>5. ASSUME ~timedOut' PROVE stored[idx] = "good"
    <3>1. timedOut = FALSE /\ rx # <<>> BY <1>3, <2>5 DEF Poll
    <3>2. PICK st \in 0..1 : rx = <<Urc(1, st)>> /\ (st = 0 => stored[idx] = "good")
      BY <2>3, <3>1 DEF CInv, WriteLockStep
    <3>3. Resume(st = 0) BY <1>3, <2>3, <3>2, ReadUrc
    <3>4. st = 0 BY <2>1, <2>3, <3>3, ResumeDelivered
    <3>5. QED BY <3>2, <3>4
  <2>6. QED BY <2>3, <2>4, <2>5
<1>4. QED BY <1>1, <1>2, <1>3

\* For every DFU type and every number of chunks, boot chunks and retries:
\* dfu_write counts a chunk in bytes_sent only when it reads the write URC
\* of that chunk, never twice, and, while no wait has hit its deadline,
\* only when the device holds the chunk's own payload
\* (ChunkCountedWhenStored).
THEOREM CountedOnlyWhenStored == Spec => ChunkCountedWhenStored
<1>1. CInv /\ [Next]_vars =>
        [delivered' # delivered =>
            /\ pc = "writeUrc"
            /\ idx \notin delivered
            /\ delivered' = delivered \cup {idx}
            /\ (~timedOut' => stored[idx] = "good")]_vars
  BY CountStep
<1>2. QED BY <1>1, InitCInv, NextCInv, PTL DEF Spec, ChunkCountedWhenStored

=============================================================================
