-------------------------- MODULE DfuHostBoot_proofs --------------------------
(***************************************************************************)
(* Proof that do_dfu_full sends no firmware chunk to the device's flash    *)
(* before the device has committed the new bootloader                      *)
(* (FwOnlyAfterBootCommit), for every number of chunks and retries.        *)
(*                                                                         *)
(* The property rests on the host and the device being in lock-step from   *)
(* AT#XDFUINIT to the boot apply: boot chunks are not retried, so every    *)
(* failed wait of that stretch ends the DFU and no answer can be carried   *)
(* over to a later wait.  BootLockStep gives, for each point of the host,  *)
(* the only contents the channel and the device can have; FwUntouched      *)
(* says that while the bootloader is not committed nothing on the wire or *)
(* in the device names a firmware chunk.                                   *)
(***************************************************************************)
EXTENDS DfuHost_proofs, TLAPS, SequenceTheorems

FwChunks == PhaseChunks("main")

\* Nothing is in flight and the device waits for a command.
Quiet == tx = <<>> /\ rx = <<>> /\ dmode = "cmd"

\* modem-full: the channel and the device at each point of the host from
\* the start to the boot apply.
BootLockStep ==
    IsFull =>
    /\ pc = "init" =>
          Quiet /\ dphase = "main" /\ ~bootCommitted
    /\ pc = "initWait" =>
          /\ dmode = "cmd" /\ ~bootCommitted
          /\ \/ tx = <<Item("INIT", 0)>> /\ rx = <<>> /\ dphase = "main"
             \/ tx = <<>> /\ rx = <<Line("READY")>> /\ dphase = "boot"
             \/ tx = <<>> /\ rx = <<Line("ERROR")>> /\ dphase = "main"
    /\ pc \in {"write", "apply"} /\ phase = "boot" =>
          Quiet /\ dphase = "boot" /\ ~bootCommitted
    /\ pc = "writeOk" /\ phase = "boot" =>
          /\ dphase = "boot" /\ ~bootCommitted
          /\ \/ tx = <<Item("WRITE", idx)>> /\ rx = <<>> /\ dmode = "cmd"
             \/ tx = <<>> /\ rx = <<Line("OK")>> /\ dmode = "data" /\ dchunk = idx
             \/ tx = <<>> /\ rx = <<Line("ERROR")>> /\ dmode = "cmd"
    /\ pc = "writeUrc" /\ phase = "boot" =>
          /\ dphase = "boot" /\ ~bootCommitted
          /\ \/ tx = <<Item("DATA", idx)>> /\ rx = <<>> /\ dmode = "data" /\ dchunk = idx
             \/ tx = <<>> /\ dmode = "cmd" /\ \E st \in 0..1 : rx = <<Urc(1, st)>>
    /\ pc = "applyUrc" /\ phase = "boot" =>
          /\ dmode = "cmd"
          /\ \/ tx = <<Item("APPLY", 0)>> /\ rx = <<>> /\ dphase = "boot" /\ ~bootCommitted
             \/ tx = <<>> /\ \E st \in 0..1 : rx = <<Urc(2, st)>> /\ (st = 0 => bootCommitted)

\* modem-full, while the bootloader is not committed: no firmware chunk is
\* stored, announced to the device or queued as a write, and the host has
\* not started the firmware phase.
FwUntouched ==
    IsFull /\ ~bootCommitted =>
        /\ \A i \in FwChunks : stored[i] = "none"
        /\ dmode = "data" => dchunk \notin FwChunks
        /\ \A j \in 1..Len(tx) : tx[j].k = "WRITE" => tx[j].c \notin FwChunks
        /\ phase = "main" => pc \in {"init", "initWait", "failed"}

BInv == IInv /\ BootLockStep /\ FwUntouched

USE ConstantsAssumption

\* The firmware chunks and the chunks of the boot phase do not overlap.
LEMMA BootNotFw ==
    ASSUME NEW i \in PhaseChunks("boot") PROVE i \notin FwChunks
BY DEF FwChunks, PhaseChunks, PhaseLo, PhaseHi, BootCount

\* One line read on its own: what the wait helpers make of it.
LEMMA OneLine ==
    ASSUME NEW l \in Lines
    PROVE  /\ \A kind \in LineKinds : HasKind(<<l>>, kind) <=> l.k = kind
           /\ UrcEnds(<<l>>) <=> l.k = "URC"
           /\ l.k = "URC" => (UrcOk(<<l>>) <=> l.st = 0)
<1>1. \A kind \in LineKinds : HasKind(<<l>>, kind) <=> l.k = kind BY DEF HasKind
<1>2. UrcLines(<<l>>) = IF l.k = "URC" THEN {1} ELSE {} BY DEF UrcLines
<1>3. UrcEnds(<<l>>) <=> l.k = "URC" BY <1>2 DEF UrcEnds
<1>4. l.k = "URC" => (UrcOk(<<l>>) <=> l.st = 0) BY <1>2 DEF UrcOk
<1>5. QED BY <1>1, <1>3, <1>4

\* A one-element sequence read from its start is that sequence.
LEMMA SubSeqOne ==
    ASSUME NEW S, NEW l \in S, NEW r, r = <<l>> PROVE SubSeq(r, 1, 1) = <<l>>
<1>1. SubSeq(r, 1, 1) \in Seq(S) /\ Len(SubSeq(r, 1, 1)) = 1 /\ SubSeq(r, 1, 1)[1] = l
  BY SubSeqProperties
<1>2. <<l>> \in Seq(S) /\ Len(<<l>>) = 1 /\ <<l>>[1] = l OBVIOUS
<1>3. \A i \in 1..Len(SubSeq(r, 1, 1)) : SubSeq(r, 1, 1)[i] = <<l>>[i] BY <1>1, <1>2
<1>4. QED BY <1>1, <1>2, <1>3, SeqEqual, Zenon

\* A poll while the input buffer holds one line reads that line.
LEMMA PollOne ==
    ASSUME NEW l \in Lines, rx = <<l>>, Poll
    PROVE  /\ rx' = <<>>
           /\ IF WaitEnds(<<l>>) THEN Resume(WaitOk(<<l>>))
                                 ELSE UNCHANGED <<hostVars, tx>>
           /\ UNCHANGED <<devVars, timedOut>>
<1>1. PICK k \in 1..Len(rx) :
         /\ rx' = SubSeq(rx, k + 1, Len(rx))
         /\ IF WaitEnds(SubSeq(rx, 1, k))
               THEN Resume(WaitOk(SubSeq(rx, 1, k)))
               ELSE UNCHANGED <<hostVars, timedOut, tx>>
  BY DEF Poll
<1>2. k = 1 BY <1>1
<1>3. SubSeq(rx, 1, 1) = <<l>> BY SubSeqOne
<1>4. SubSeq(rx, 2, 1) = <<>> BY SubSeqEmpty
<1>5. SubSeq(rx, k + 1, Len(rx)) = <<>> /\ SubSeq(rx, 1, k) = <<l>> BY <1>2, <1>3, <1>4
<1>6. QED BY <1>1, <1>5, Zenon DEF Poll

\* The initial state satisfies the lock-step and firmware invariants.
LEMMA InitBoot == Init => BootLockStep /\ FwUntouched
<1> SUFFICES ASSUME Init PROVE BootLockStep /\ FwUntouched OBVIOUS
<1>1. BootLockStep BY DEF Init, BootLockStep, Quiet
<1>2. FwChunks \subseteq Chunks BY PhaseBounds DEF FwChunks
<1>3. FwUntouched BY <1>2 DEF Init, FwUntouched
<1>4. QED BY <1>1, <1>3

\* A wait that returns never moves the host back to init, and it enters
\* the boot phase only from dfu_init.
LEMMA ResumeShape ==
    ASSUME pc \in WaitPcs, NEW ok \in BOOLEAN, Resume(ok)
    PROVE  /\ pc' \notin {"init", "initWait"}
           /\ phase' = "boot" => phase = "boot" \/ pc = "initWait"
<1>1. CASE pc = "initWait" BY <1>1 DEF Resume, AfterInit, StartPhase
<1>2. CASE pc = "writeOk" BY <1>2 DEF Resume, AfterWriteOk, AttemptFailed
<1>3. CASE pc = "writeUrc" BY <1>3 DEF Resume, AfterWriteUrc, AttemptFailed
<1>4. CASE pc = "applyUrc" BY <1>4 DEF Resume, AfterApply, StartPhase
<1>5. CASE pc = "pingWait" BY <1>5 DEF Resume, AfterPing
<1>6. QED BY <1>1, <1>2, <1>3, <1>4, <1>5 DEF WaitPcs

\* A wait of the boot phase or of dfu_init that fails ends the DFU: boot
\* chunks are not retried (do_dfu_full) and a failed init aborts.
LEMMA ResumeFailBoot ==
    ASSUME pc \in WaitPcs \ {"pingWait"}, phase = "boot" \/ pc = "initWait",
           Resume(FALSE)
    PROVE  pc' = "failed"
<1>1. CASE pc = "initWait" BY <1>1 DEF Resume, AfterInit
<1>2. CASE pc = "writeOk" BY <1>2 DEF Resume, AfterWriteOk, AttemptFailed
<1>3. CASE pc = "writeUrc" BY <1>3 DEF Resume, AfterWriteUrc, AttemptFailed
<1>4. CASE pc = "applyUrc" BY <1>4 DEF Resume, AfterApply
<1>5. QED BY <1>1, <1>2, <1>3, <1>4 DEF WaitPcs

\* A poll either leaves the host where it is or returns from its wait.
LEMMA PollCases ==
    ASSUME Poll
    PROVE  /\ pc \in WaitPcs
           /\ UNCHANGED <<hostVars, tx>> \/ \E ok \in BOOLEAN : Resume(ok)
<1>1. PICK k \in 1..Len(rx) :
         IF WaitEnds(SubSeq(rx, 1, k))
            THEN Resume(WaitOk(SubSeq(rx, 1, k)))
            ELSE UNCHANGED <<hostVars, timedOut, tx>>
  BY DEF Poll
<1>2. WaitOk(SubSeq(rx, 1, k)) \in BOOLEAN BY DEF WaitOk, UrcOk, ResponseOk, HasKind
<1>3. QED BY <1>1, <1>2 DEF Poll

\* A host step that leaves the boot stretch, or stays outside it, keeps
\* the lock-step invariant without looking at the channel.
LEMMA LeaveBoot ==
    ASSUME pc' \notin {"init", "initWait"},
           phase' # "boot" \/ pc' \in {"failed", "done", "ping", "pingWait"}
    PROVE  BootLockStep'
BY DEF BootLockStep

\* A timed-out wait of the boot stretch ends the DFU.
LEMMA LockStepTimeout ==
    ASSUME TypeOK, Timeout PROVE BootLockStep'
<1>1. pc \in WaitPcs /\ Resume(FALSE) BY DEF Timeout
<1>2. pc' \notin {"init", "initWait"} /\ (phase' = "boot" => phase = "boot" \/ pc = "initWait")
  BY <1>1, ResumeShape
<1>3. CASE pc = "pingWait"
  <2>1. pc' \in {"failed", "done", "ping"} BY <1>1, <1>3 DEF Resume, AfterPing
  <2>2. QED BY <1>2, <2>1, LeaveBoot
<1>4. CASE pc # "pingWait" /\ (phase = "boot" \/ pc = "initWait")
  BY <1>1, <1>2, <1>4, ResumeFailBoot, LeaveBoot
<1>5. CASE pc # "pingWait" /\ ~(phase = "boot" \/ pc = "initWait")
  BY <1>2, <1>5, LeaveBoot
<1>6. QED BY <1>3, <1>4, <1>5

\* The poll that ends the boot apply's wait reads the apply URC; a status 0
\* there was reported by a device that committed the bootloader.
LEMMA BootApplyRead ==
    ASSUME IsFull, BootLockStep, Poll, pc = "applyUrc", phase = "boot"
    PROVE  \E st \in 0..1 : (st = 0 => bootCommitted) /\ Resume(st = 0)
<1>1. PICK st \in 0..1 : rx = <<Urc(2, st)>> /\ (st = 0 => bootCommitted)
  BY DEF BootLockStep, Poll
<1>2. Urc(2, st) \in Lines /\ Urc(2, st).k = "URC" /\ Urc(2, st).st = st
  BY DEF Urc, Lines, LineKinds
<1>3. WaitEnds(<<Urc(2, st)>>) /\ (WaitOk(<<Urc(2, st)>>) <=> st = 0)
  BY <1>2, OneLine DEF WaitEnds, WaitOk
<1>4. Resume(WaitOk(<<Urc(2, st)>>)) BY <1>1, <1>2, <1>3, PollOne
<1>5. WaitOk(<<Urc(2, st)>>) = (st = 0) BY <1>3 DEF WaitOk, UrcOk, ResponseOk, HasKind
<1>6. QED BY <1>1, <1>4, <1>5

\* A poll in the boot stretch reads the one answer the device has sent,
\* and the host moves on in step with the device or ends the DFU.
LEMMA LockStepPoll ==
    ASSUME TypeOK, IsFull, BootLockStep, Poll PROVE BootLockStep'
<1>1. pc \in WaitPcs /\ (UNCHANGED <<hostVars, tx>> \/ \E ok \in BOOLEAN : Resume(ok))
  BY PollCases
<1>2. UNCHANGED <<devVars, timedOut>> BY DEF Poll
<1>3. CASE pc = "pingWait"
  <2>1. pc' \in {"failed", "done", "ping", "pingWait"} BY <1>1, <1>3 DEF Resume, AfterPing, hostVars
  <2>2. pc' \notin {"init", "initWait"} BY <2>1
  <2>3. QED BY <2>1, <2>2, LeaveBoot
<1>4. CASE pc # "initWait" /\ phase # "boot"
  <2>1. pc' \notin {"init", "initWait"} /\ phase' # "boot"
    BY <1>1, <1>4, ResumeShape DEF hostVars, WaitPcs
  <2>2. QED BY <2>1, LeaveBoot
<1>5. CASE pc = "initWait"
  <2>1. /\ tx = <<>> /\ dmode = "cmd" /\ ~bootCommitted
        /\ \/ rx = <<Line("READY")>> /\ dphase = "boot"
           \/ rx = <<Line("ERROR")>>
    BY <1>5, <1>1 DEF BootLockStep, Poll
  <2>2. Line("READY") \in Lines /\ Line("ERROR") \in Lines BY DEF Line, Lines, LineKinds
  <2>3. Expected = "READY" BY <1>5 DEF Expected
  <2>4. CASE rx = <<Line("READY")>>
    <3>1. WaitEnds(<<Line("READY")>>) /\ WaitOk(<<Line("READY")>>)
      BY <1>5, <2>2, <2>3, OneLine DEF WaitEnds, WaitOk, ResponseEnds, ResponseOk, Line, LineKinds
    <3>2. rx' = <<>> /\ AfterInit(TRUE) BY <1>5, <2>2, <2>4, <3>1, PollOne DEF Resume
    <3>3. phase' = "boot" /\ pc' \in {"write", "apply"} /\ tx' = tx
      BY <3>2 DEF AfterInit, StartPhase
    <3>4. dphase = "boot" BY <2>1, <2>4 DEF Line
    <3>5. QED BY <1>2, <2>1, <3>2, <3>3, <3>4 DEF BootLockStep, Quiet, devVars
  <2>5. CASE rx = <<Line("ERROR")>>
    <3>1. WaitEnds(<<Line("ERROR")>>) /\ ~WaitOk(<<Line("ERROR")>>)
      BY <1>5, <2>2, <2>3, OneLine DEF WaitEnds, WaitOk, ResponseEnds, ResponseOk, Line, LineKinds
    <3>2. Resume(WaitOk(<<Line("ERROR")>>)) BY <2>2, <2>5, <3>1, PollOne
    <3>5. WaitOk(<<Line("ERROR")>>) = FALSE BY <3>1 DEF WaitOk, UrcOk, ResponseOk, HasKind
    <3>6. Resume(FALSE) BY <3>2, <3>5
    <3>3. pc' = "failed" BY <1>5, <3>6, ResumeFailBoot DEF WaitPcs
    <3>4. QED BY <3>3, LeaveBoot
  <2>6. QED BY <2>1, <2>4, <2>5
<1>6. CASE pc = "writeOk" /\ phase = "boot"
  <2>1. /\ tx = <<>> /\ dphase = "boot" /\ ~bootCommitted
        /\ \/ rx = <<Line("OK")>> /\ dmode = "data" /\ dchunk = idx
           \/ rx = <<Line("ERROR")>>
    BY <1>6, <1>1 DEF BootLockStep, Poll
  <2>2. Line("OK") \in Lines /\ Line("ERROR") \in Lines BY DEF Line, Lines, LineKinds
  <2>3. Expected = "OK" BY <1>6 DEF Expected
  <2>4. CASE rx = <<Line("OK")>>
    <3>1. WaitEnds(<<Line("OK")>>) /\ WaitOk(<<Line("OK")>>)
      BY <1>6, <2>2, <2>3, OneLine DEF WaitEnds, WaitOk, ResponseEnds, ResponseOk, Line, LineKinds
    <3>2. rx' = <<>> /\ AfterWriteOk(TRUE) BY <1>6, <2>2, <2>4, <3>1, PollOne DEF Resume
    <3>3. tx' = <<Item("DATA", idx)>> /\ pc' = "writeUrc" /\ UNCHANGED <<phase, idx>>
      BY <2>1, <3>2 DEF AfterWriteOk
    <3>4. dmode = "data" /\ dchunk = idx BY <2>1, <2>4 DEF Line
    <3>5. QED BY <1>2, <1>6, <2>1, <3>2, <3>3, <3>4 DEF BootLockStep, devVars
  <2>5. CASE rx = <<Line("ERROR")>>
    <3>1. WaitEnds(<<Line("ERROR")>>) /\ ~WaitOk(<<Line("ERROR")>>)
      BY <1>6, <2>2, <2>3, OneLine DEF WaitEnds, WaitOk, ResponseEnds, ResponseOk, Line, LineKinds
    <3>2. Resume(WaitOk(<<Line("ERROR")>>)) BY <2>2, <2>5, <3>1, PollOne
    <3>5. WaitOk(<<Line("ERROR")>>) = FALSE BY <3>1 DEF WaitOk, UrcOk, ResponseOk, HasKind
    <3>6. Resume(FALSE) BY <3>2, <3>5
    <3>3. pc' = "failed" BY <1>6, <3>6, ResumeFailBoot DEF WaitPcs
    <3>4. QED BY <3>3, LeaveBoot
  <2>6. QED BY <2>1, <2>4, <2>5
<1>7. CASE pc = "writeUrc" /\ phase = "boot"
  <2>1. tx = <<>> /\ dmode = "cmd" /\ dphase = "boot" /\ ~bootCommitted
    BY <1>7, <1>1 DEF BootLockStep, Poll
  <2>2. PICK st \in 0..1 : rx = <<Urc(1, st)>> BY <1>7, <1>1 DEF BootLockStep, Poll
  <2>3. Urc(1, st) \in Lines /\ Urc(1, st).k = "URC" /\ Urc(1, st).st = st
    BY DEF Urc, Lines, LineKinds
  <2>4. WaitEnds(<<Urc(1, st)>>) /\ (WaitOk(<<Urc(1, st)>>) <=> st = 0)
    BY <1>7, <2>3, OneLine DEF WaitEnds, WaitOk
  <2>5. rx' = <<>> /\ Resume(WaitOk(<<Urc(1, st)>>)) BY <2>2, <2>3, <2>4, PollOne
  <2>6. WaitOk(<<Urc(1, st)>>) = (st = 0) BY <2>4 DEF WaitOk, UrcOk, ResponseOk, HasKind
  <2>7. rx' = <<>> /\ Resume(st = 0) BY <2>5, <2>6
  <2>8. CASE st = 0
    <3>1. pc' \in {"apply", "write"} /\ UNCHANGED <<phase, tx>>
      BY <1>7, <2>7, <2>8 DEF Resume, AfterWriteUrc
    <3>2. QED BY <1>2, <1>7, <2>1, <2>7, <3>1 DEF BootLockStep, Quiet, devVars
  <2>9. CASE st # 0
    <3>1. Resume(FALSE) BY <2>7, <2>9
    <3>2. pc' = "failed" BY <1>7, <3>1, ResumeFailBoot DEF WaitPcs
    <3>3. QED BY <3>2, LeaveBoot
  <2>10. QED BY <2>8, <2>9
<1>8. CASE pc = "applyUrc" /\ phase = "boot"
  <2>1. PICK st \in 0..1 : (st = 0 => bootCommitted) /\ Resume(st = 0)
    BY <1>8, BootApplyRead
  <2>2. CASE st = 0
    <3>1. phase' = "main" /\ pc' \in {"write", "apply"}
      BY <1>8, <2>1, <2>2 DEF Resume, AfterApply, StartPhase
    <3>2. QED BY <3>1, LeaveBoot
  <2>3. CASE st # 0
    <3>1. Resume(FALSE) BY <2>1, <2>3
    <3>2. pc' = "failed" BY <1>8, <3>1, ResumeFailBoot DEF WaitPcs
    <3>3. QED BY <3>2, LeaveBoot
  <2>4. QED BY <2>2, <2>3
<1>9. QED BY <1>1, <1>3, <1>4, <1>5, <1>6, <1>7, <1>8 DEF WaitPcs, TypeOK

\* Every step keeps the host and the device in lock-step from AT#XDFUINIT
\* to the boot apply.
LEMMA NextLockStep ==
    IInv /\ BootLockStep /\ [Next]_vars => BootLockStep'
<1> SUFFICES ASSUME IInv, BootLockStep, [Next]_vars, IsFull PROVE BootLockStep'
  BY DEF BootLockStep
<1>0. TypeOK BY DEF IInv
<1>1. CASE SendInit
  BY <1>1, <1>0 DEF SendInit, BootLockStep, Quiet, devVars
<1>2. CASE SendWrite
  <2>1. pc' = "writeOk" /\ UNCHANGED <<phase, idx, rx, devVars>> BY <1>2 DEF SendWrite
  <2>2. CASE phase = "boot"
    <3>1. Quiet /\ dphase = "boot" /\ ~bootCommitted BY <1>2, <2>2 DEF SendWrite, BootLockStep
    <3>2. tx' = <<Item("WRITE", idx)>> BY <1>2, <3>1 DEF SendWrite, Quiet
    <3>3. QED BY <2>1, <3>1, <3>2 DEF BootLockStep, Quiet, devVars
  <2>3. CASE phase # "boot" BY <2>1, <2>3 DEF BootLockStep
  <2>4. QED BY <2>2, <2>3
<1>3. CASE SendApply
  <2>1. UNCHANGED <<phase, idx, rx, devVars>> BY <1>3 DEF SendApply
  <2>2. CASE phase = "boot"
    <3>1. Quiet /\ dphase = "boot" /\ ~bootCommitted BY <1>3, <2>2 DEF SendApply, BootLockStep
    <3>2. tx' = <<Item("APPLY", 0)>> BY <1>3, <3>1 DEF SendApply, Quiet
    <3>3. pc' = "applyUrc" BY <1>3, <2>2 DEF SendApply
    <3>4. QED BY <2>1, <2>2, <3>1, <3>2, <3>3 DEF BootLockStep, Quiet, devVars
  <2>3. CASE phase # "boot"
    <3>1. pc' = "ping" BY <1>3, <2>3, <1>0 DEF SendApply, TypeOK
    <3>2. QED BY <2>1, <3>1 DEF BootLockStep
  <2>4. QED BY <2>2, <2>3
<1>4. CASE SendPing
  BY <1>4 DEF SendPing, BootLockStep
<1>5. CASE Poll
  BY <1>5, <1>0, LockStepPoll
<1>6. CASE Timeout
  BY <1>6, <1>0, LockStepTimeout
<1>7. CASE DevInit
  BY <1>7, <1>0 DEF DevInit, Emit, BootLockStep, Quiet, Item, hostVars
<1>8. CASE DevWrite
  BY <1>8, <1>0 DEF DevWrite, Emit, BootLockStep, Quiet, Item, hostVars
<1>9. CASE DevGarbage
  BY <1>9, <1>0 DEF DevGarbage, Emit, BootLockStep, Quiet, Item, hostVars, devVars
<1>10. CASE DevPayload
  <2>1. UNCHANGED <<hostVars, dchunk, dphase, bootCommitted>> /\ dmode' = "cmd"
    BY <1>10 DEF DevPayload
  <2>2. PICK st \in 0..1 : rx' = Append(rx, Urc(1, st)) BY <1>10 DEF DevPayload, Emit
  <2>3. CASE pc = "writeUrc" /\ phase = "boot"
    <3>1. tx = <<Item("DATA", idx)>> /\ rx = <<>> /\ dphase = "boot" /\ ~bootCommitted
      BY <1>10, <2>3 DEF DevPayload, BootLockStep
    <3>2. tx' = <<>> /\ rx' = <<Urc(1, st)>> BY <1>10, <2>2, <3>1 DEF DevPayload
    <3>3. QED BY <2>1, <2>3, <3>1, <3>2 DEF BootLockStep, hostVars
  <2>4. CASE ~(pc = "writeUrc" /\ phase = "boot")
    <3>1. dmode = "data" /\ tx # <<>> BY <1>10 DEF DevPayload
    <3>2. QED BY <2>1, <2>4, <3>1 DEF BootLockStep, Quiet, hostVars
  <2>5. QED BY <2>3, <2>4
<1>11. CASE DevApply
  <2>1. UNCHANGED <<hostVars, dchunk>> BY <1>11 DEF DevApply
  <2>2. PICK st \in 0..1 :
           /\ rx' = Append(rx, Urc(2, st))
           /\ IF dphase = "boot"
                 THEN /\ bootCommitted' = (bootCommitted \/ st = 0)
                      /\ dphase' = IF st = 0 THEN "main" ELSE "boot"
                      /\ UNCHANGED <<dmode, dApplied>>
                 ELSE /\ dApplied' = st
                      /\ dmode' = IF IsFull /\ st = 0 THEN "rebooting" ELSE "cmd"
                      /\ UNCHANGED <<dphase, bootCommitted>>
    BY <1>11 DEF DevApply, Emit
  <2>3. CASE pc = "applyUrc" /\ phase = "boot"
    <3>1. tx = <<Item("APPLY", 0)>> /\ rx = <<>> /\ dphase = "boot" /\ dmode = "cmd"
      BY <1>11, <2>3 DEF DevApply, BootLockStep, Item
    <3>2. tx' = <<>> /\ rx' = <<Urc(2, st)>> BY <1>11, <2>2, <3>1 DEF DevApply
    <3>3. dmode' = "cmd" /\ (st = 0 => bootCommitted') BY <2>2, <3>1
    <3>4. QED BY <2>1, <2>3, <3>2, <3>3 DEF BootLockStep, hostVars
  <2>4. CASE ~(pc = "applyUrc" /\ phase = "boot")
    <3>1. tx # <<>> /\ Head(tx).k = "APPLY" /\ dmode = "cmd" BY <1>11 DEF DevApply
    <3>2. QED BY <2>1, <2>4, <3>1 DEF BootLockStep, Quiet, hostVars, Item
  <2>5. QED BY <2>3, <2>4
<1>12. CASE DevAt
  BY <1>12, <1>0 DEF DevAt, Emit, BootLockStep, Quiet, Item, hostVars, devVars
<1>13. CASE DevDrop
  BY <1>13 DEF DevDrop, BootLockStep, Quiet, hostVars, devVars
<1>14. CASE DevBoot
  BY <1>14 DEF DevBoot, BootLockStep, Quiet, hostVars
<1>15. CASE UNCHANGED vars
  BY <1>15 DEF vars, BootLockStep, Quiet
<1>16. QED
  BY <1>1, <1>2, <1>3, <1>4, <1>5, <1>6, <1>7, <1>8, <1>9, <1>10, <1>11,
     <1>12, <1>13, <1>14, <1>15 DEF Next, HostNext, DevNext

\* A wait that fails leaves the host in its phase.
LEMMA ResumeFalsePhase ==
    ASSUME pc \in WaitPcs, Resume(FALSE) PROVE phase' = phase
BY DEF WaitPcs, Resume, AfterInit, AfterWriteOk, AfterWriteUrc, AttemptFailed,
       AfterApply, AfterPing

\* modem-full: a returning wait moves the host from the boot phase to the
\* firmware phase only through the boot apply, and it leaves the phase
\* before the boot phase (pc "initWait") only for the boot phase or the
\* end of the DFU.
LEMMA ResumeFwPhase ==
    ASSUME IsFull, pc \in WaitPcs, pc # "applyUrc", phase \in {"boot", "main"},
           NEW ok \in BOOLEAN, Resume(ok), phase' = "main"
    PROVE  phase = "main" /\ (pc = "initWait" => pc' = "failed")
<1>1. CASE pc = "initWait" BY <1>1 DEF Resume, AfterInit, StartPhase
<1>2. CASE pc = "writeOk" BY <1>2 DEF Resume, AfterWriteOk, AttemptFailed
<1>3. CASE pc = "writeUrc" BY <1>3 DEF Resume, AfterWriteUrc, AttemptFailed
<1>4. CASE pc = "pingWait" BY <1>4 DEF Resume, AfterPing
<1>5. QED BY <1>1, <1>2, <1>3, <1>4 DEF WaitPcs

\* Every step keeps firmware chunks away from the device's flash, the
\* wire and the host's loop while the bootloader is not committed.
LEMMA NextFwUntouched ==
    IInv /\ BootLockStep /\ FwUntouched /\ [Next]_vars => FwUntouched'
<1> SUFFICES ASSUME IInv, BootLockStep, FwUntouched, [Next]_vars,
                    IsFull, ~bootCommitted'
             PROVE  /\ \A i \in FwChunks : stored'[i] = "none"
                    /\ dmode' = "data" => dchunk' \notin FwChunks
                    /\ \A j \in 1..Len(tx') : tx'[j].k = "WRITE" => tx'[j].c \notin FwChunks
                    /\ phase' = "main" => pc' \in {"init", "initWait", "failed"}
  BY DEF FwUntouched
<1>0. TypeOK /\ LoopIdxOk BY DEF IInv
<1>1. ~bootCommitted
  <2>1. CASE DevApply
    BY <2>1 DEF DevApply
  <2>2. CASE ~DevApply
    BY <2>2 DEF Next, HostNext, DevNext, SendInit, SendWrite, SendApply, SendPing,
                Poll, Timeout, DevInit, DevWrite, DevGarbage, DevPayload, DevAt,
                DevDrop, DevBoot, vars, devVars
  <2>3. QED BY <2>1, <2>2
<1>2. /\ \A i \in FwChunks : stored[i] = "none"
      /\ dmode = "data" => dchunk \notin FwChunks
      /\ \A j \in 1..Len(tx) : tx[j].k = "WRITE" => tx[j].c \notin FwChunks
      /\ phase = "main" => pc \in {"init", "initWait", "failed"}
  BY <1>1 DEF FwUntouched
<1>3. CASE SendInit
  BY <1>0, <1>2, <1>3 DEF SendInit, Item, devVars, TypeOK
<1>4. CASE SendWrite
  <2>1. phase = "boot" BY <1>0, <1>2, <1>4 DEF SendWrite, TypeOK
  <2>2. idx \in PhaseChunks("boot") BY <1>0, <1>4, <2>1 DEF SendWrite, LoopIdxOk
  <2>3. idx \notin FwChunks BY <2>2, BootNotFw
  <2>4. QED BY <1>0, <1>2, <1>4, <2>1, <2>3 DEF SendWrite, Item, devVars, TypeOK
<1>5. CASE SendApply
  <2>1. phase = "boot" BY <1>0, <1>2, <1>5 DEF SendApply, TypeOK
  <2>2. QED BY <1>0, <1>2, <1>5, <2>1 DEF SendApply, Item, devVars, TypeOK
<1>6. CASE SendPing
  <2>1. phase = "boot" BY <1>0, <1>2, <1>6 DEF SendPing, TypeOK
  <2>2. QED BY <1>0, <1>2, <1>6, <2>1 DEF SendPing, Item, devVars, TypeOK
<1>7. CASE Poll
  <2>1. UNCHANGED devVars BY <1>7 DEF Poll
  <2>2. pc \in WaitPcs /\ (UNCHANGED <<hostVars, tx>> \/ \E ok \in BOOLEAN : Resume(ok))
    BY <1>7, PollCases
  <2>3. tx' = tx \/ tx' = Append(tx, Item("DATA", idx))
    <3>1. CASE UNCHANGED <<hostVars, tx>> BY <3>1
    <3>2. CASE \E ok \in BOOLEAN : Resume(ok)
      BY <2>2, <3>2 DEF WaitPcs, Resume, AfterInit, AfterWriteOk, AfterWriteUrc,
                       AttemptFailed, AfterApply, AfterPing
    <3>3. QED BY <2>2, <3>1, <3>2
  <2>4. \A j \in 1..Len(tx') : tx'[j].k = "WRITE" => tx'[j].c \notin FwChunks
    BY <1>0, <1>2, <2>3 DEF TypeOK, Item
  <2>5. phase' = "main" => pc' \in {"init", "initWait", "failed"}
    <3>1. CASE pc = "applyUrc" /\ phase = "boot"
      <4>1. PICK st \in 0..1 : (st = 0 => bootCommitted) /\ Resume(st = 0)
        BY <1>7, <3>1, BootApplyRead
      <4>2. st # 0 BY <1>1, <4>1
      <4>3. phase' = "boot" BY <3>1, <4>1, <4>2, ResumeFalsePhase DEF WaitPcs
      <4>4. QED BY <4>3
    <3>2. CASE ~(pc = "applyUrc" /\ phase = "boot")
      <4>1. CASE UNCHANGED <<hostVars, tx>> BY <1>2, <4>1 DEF hostVars
      <4>2. CASE \E ok \in BOOLEAN : Resume(ok)
        <5>1. pc # "applyUrc" BY <1>0, <1>2, <2>2, <3>2 DEF WaitPcs, TypeOK
        <5>2. QED BY <1>0, <1>2, <2>2, <4>2, <5>1, ResumeFwPhase DEF WaitPcs, TypeOK
      <4>3. QED BY <2>2, <4>1, <4>2
    <3>3. QED BY <3>1, <3>2
  <2>6. QED BY <1>2, <2>1, <2>4, <2>5 DEF devVars
<1>8. CASE Timeout
  <2>1. pc \in WaitPcs /\ Resume(FALSE) /\ UNCHANGED devVars BY <1>8 DEF Timeout
  <2>2. phase' = phase BY <2>1, ResumeFalsePhase
  <2>3. UNCHANGED tx BY <2>1 DEF WaitPcs, Resume, AfterInit, AfterWriteOk, AfterWriteUrc,
                                 AttemptFailed, AfterApply, AfterPing
  <2>4. phase = "main" => pc' = "failed"
    BY <1>2, <2>1 DEF WaitPcs, Resume, AfterInit
  <2>5. QED BY <1>2, <2>1, <2>2, <2>3, <2>4 DEF devVars
<1>9. CASE DevWrite
  <2>1. tx # <<>> /\ Head(tx).k = "WRITE" BY <1>9 DEF DevWrite
  <2>2. Head(tx).c \notin FwChunks BY <1>2, <2>1
  <2>3. \A j \in 1..Len(tx') : tx'[j] = tx[j + 1] BY <1>0, <1>9, <2>1 DEF DevWrite, TypeOK
  <2>4. QED BY <1>0, <1>2, <1>9, <2>2, <2>3 DEF DevWrite, hostVars, TypeOK
<1>10. CASE DevPayload
  <2>1. dmode = "data" /\ tx # <<>> BY <1>10 DEF DevPayload
  <2>2. dchunk \notin FwChunks BY <1>2, <2>1
  <2>3. \A j \in 1..Len(tx') : tx'[j] = tx[j + 1] BY <1>0, <1>10, <2>1 DEF DevPayload, TypeOK
  <2>4. \A i \in FwChunks : stored'[i] = stored[i]
    BY <1>10, <2>2 DEF DevPayload
  <2>5. QED BY <1>0, <1>2, <1>10, <2>3, <2>4 DEF DevPayload, hostVars, TypeOK
<1>11. CASE DevInit \/ DevGarbage \/ DevApply \/ DevAt \/ DevDrop
  <2>1. tx # <<>> /\ tx' = Tail(tx) /\ UNCHANGED <<hostVars, dchunk, stored>>
    BY <1>11 DEF DevInit, DevGarbage, DevApply, DevAt, DevDrop, devVars
  <2>2. dmode' = "data" => dmode = "data"
    BY <1>11 DEF DevInit, DevGarbage, DevApply, DevAt, DevDrop, devVars
  <2>3. \A j \in 1..Len(tx') : tx'[j] = tx[j + 1] BY <1>0, <2>1 DEF TypeOK
  <2>4. QED BY <1>0, <1>2, <2>1, <2>2, <2>3 DEF hostVars, TypeOK
<1>12. CASE DevBoot \/ UNCHANGED vars
  BY <1>2, <1>12 DEF DevBoot, hostVars, vars
<1>13. QED
  BY <1>3, <1>4, <1>5, <1>6, <1>7, <1>8, <1>9, <1>10, <1>11, <1>12
  DEF Next, HostNext, DevNext

\* modem-full: in every behaviour, no firmware chunk is written to the
\* device's flash before the device has committed the new bootloader,
\* whatever the number of chunks and retries (do_dfu_full, phase 2 only
\* after the boot apply reports status 0).
THEOREM FirmwareAfterBootCommit == Spec => []FwOnlyAfterBootCommit
<1>1. Init => BInv BY InitIInv, InitBoot DEF BInv
<1>2. BInv /\ [Next]_vars => BInv' BY NextIInv, NextLockStep, NextFwUntouched DEF BInv
<1>3. BInv => FwOnlyAfterBootCommit BY DEF BInv, FwUntouched, FwOnlyAfterBootCommit, FwChunks
<1>4. QED BY <1>1, <1>2, <1>3, PTL DEF Spec
=============================================================================
