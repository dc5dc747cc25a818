-------------------------- MODULE DfuHostSync_proofs --------------------------
(***************************************************************************)
(* Proof of SyncSuccessSound for do_dfu_app and do_dfu_delta: when no     *)
(* wait of the host ever hits its deadline, a DFU reported successful was *)
(* applied by the device with status 0 and every chunk holds its own      *)
(* payload.                                                                *)
(*                                                                         *)
(* Without a timeout the host and the device stay in lock-step for the    *)
(* whole DFU: every command gets its one answer before the host sends the *)
(* next, and each wait reads that answer and nothing else.  SyncLockStep  *)
(* gives, for each point of the host, the only contents the channel and   *)
(* the device can have; DeliveredGood says that a chunk counted in        *)
(* bytes_sent holds its own payload.  The property does not hold for      *)
(* modem-full, whose last apply is never read (finding 3).                *)
(***************************************************************************)
EXTENDS DfuHostSession_proofs, TLAPS

\* An application or delta DFU in which no wait has timed out.
Prompt == ~IsFull /\ ~timedOut

\* The channel and the device at each point of the host.
AppLockStep ==
    /\ phase = "main" /\ dphase = "main"
    /\ pc \in {"init", "write", "apply", "failed"} => Quiet
    /\ pc = "done" => Quiet /\ dApplied = 0
    /\ pc \notin {"ping", "pingWait"}
    /\ pc = "initWait" =>
          /\ dmode = "cmd"
          /\ \/ tx = <<Item("INIT", 0)>> /\ rx = <<>>
             \/ tx = <<>> /\ rx = <<Line("OK")>>
             \/ tx = <<>> /\ rx = <<Line("ERROR")>>
    /\ pc = "writeOk" =>
          \/ tx = <<Item("WRITE", idx)>> /\ rx = <<>> /\ dmode = "cmd"
          \/ tx = <<>> /\ rx = <<Line("OK")>> /\ dmode = "data" /\ dchunk = idx
          \/ tx = <<>> /\ rx = <<Line("ERROR")>> /\ dmode = "cmd"
    /\ pc = "writeUrc" =>
          \/ tx = <<Item("DATA", idx)>> /\ rx = <<>> /\ dmode = "data"
             /\ dchunk = idx
          \/ /\ tx = <<>> /\ dmode = "cmd"
             /\ \E st \in 0..1 : rx = <<Urc(1, st)>>
                                  /\ (st = 0 => stored[idx] = "good")
    /\ pc = "applyUrc" =>
          /\ dmode = "cmd"
          /\ \/ tx = <<Item("APPLY", 0)>> /\ rx = <<>>
             \/ tx = <<>> /\ \E st \in 0..1 : rx = <<Urc(2, st)>> /\ dApplied = st

\* A chunk counted in bytes_sent holds its own payload on the device.
StoredGood == \A i \in delivered : stored[i] = "good"

SyncLockStep == Prompt => AppLockStep
DeliveredGood == Prompt => StoredGood

SInvSync == RInv /\ SyncLockStep /\ DeliveredGood

USE ConstantsAssumption

(***************************************************************************)
(* Reading the one answer in the input buffer.                             *)
(***************************************************************************)
\* dfu_init's and dfu_write's wait_for_response reads OK: the wait returns
\* True.
LEMMA ReadOk ==
    ASSUME ~IsFull, pc \in {"initWait", "writeOk"}, rx = <<Line("OK")>>, Poll
    PROVE  rx' = <<>> /\ Resume(TRUE) /\ UNCHANGED <<devVars, timedOut>>
<1>1. Line("OK") \in Lines BY DEF Line, Lines, LineKinds
<1>2. Expected = "OK" BY DEF Expected
<1>3. WaitEnds(<<Line("OK")>>) /\ WaitOk(<<Line("OK")>>)
  BY <1>1, <1>2, OneLine DEF WaitEnds, WaitOk, ResponseEnds, ResponseOk, Line,
                                LineKinds
<1>4. WaitOk(<<Line("OK")>>) = TRUE BY <1>3
<1>5. QED BY <1>1, <1>3, <1>4, PollOne

\* ... or reads ERROR: the wait returns False.
LEMMA ReadError ==
    ASSUME ~IsFull, pc \in {"initWait", "writeOk"}, rx = <<Line("ERROR")>>, Poll
    PROVE  rx' = <<>> /\ Resume(FALSE) /\ UNCHANGED <<devVars, timedOut>>
<1>1. Line("ERROR") \in Lines BY DEF Line, Lines, LineKinds
<1>2. Expected = "OK" BY DEF Expected
<1>3. WaitEnds(<<Line("ERROR")>>) /\ ~WaitOk(<<Line("ERROR")>>)
  BY <1>1, <1>2, OneLine DEF WaitEnds, WaitOk, ResponseEnds, ResponseOk, Line,
                                LineKinds
<1>4. WaitOk(<<Line("ERROR")>>) = FALSE
  BY <1>3 DEF WaitOk, UrcOk, ResponseOk, HasKind
<1>5. QED BY <1>1, <1>3, <1>4, PollOne

\* wait_for_urc reads a #XDFU URC: the caller's check is status = 0.
LEMMA ReadUrc ==
    ASSUME pc \in {"writeUrc", "applyUrc"}, NEW op \in 1..2, NEW st \in 0..1,
           rx = <<Urc(op, st)>>, Poll
    PROVE  rx' = <<>> /\ Resume(st = 0) /\ UNCHANGED <<devVars, timedOut>>
<1>1. Urc(op, st) \in Lines /\ Urc(op, st).k = "URC" /\ Urc(op, st).st = st
  BY DEF Urc, Lines, LineKinds
<1>2. WaitEnds(<<Urc(op, st)>>) /\ (WaitOk(<<Urc(op, st)>>) <=> st = 0)
  BY <1>1, OneLine DEF WaitEnds, WaitOk
<1>3. WaitOk(<<Urc(op, st)>>) = (st = 0)
  BY <1>2 DEF WaitOk, UrcOk, ResponseOk, HasKind
<1>4. QED BY <1>1, <1>2, <1>3, PollOne

\* A failed dfu_write of an application or delta chunk retries it or ends
\* the DFU, with the channel left as it was.
LEMMA FailedWrite ==
    ASSUME pc \in {"writeOk", "writeUrc"}, Resume(FALSE)
    PROVE  pc' \in {"write", "failed"} /\ UNCHANGED <<phase, idx, delivered, tx>>
BY DEF Resume, AfterWriteOk, AfterWriteUrc, AttemptFailed

(***************************************************************************)
(* A poll keeps the lock-step: it reads the one answer of the command     *)
(* sent last, and the host goes on with its next command, its retry or    *)
(* its return, with nothing left in flight.                                *)
(***************************************************************************)
LEMMA PollSync ==
    ASSUME TypeOK, LoopIdxOk, ~IsFull, AppLockStep, StoredGood, Poll
    PROVE  AppLockStep' /\ StoredGood'
<1>1. pc \in WaitPcs /\ rx # <<>> BY DEF Poll
<1>2. CASE pc = "initWait"
  <2>1. tx = <<>> /\ dmode = "cmd" /\ dphase = "main"
        /\ (rx = <<Line("OK")>> \/ rx = <<Line("ERROR")>>)
    BY <1>1, <1>2 DEF AppLockStep
  <2>2. CASE rx = <<Line("OK")>>
    <3>1. rx' = <<>> /\ AfterInit(TRUE) /\ UNCHANGED <<devVars, timedOut>>
      BY <1>2, <2>2, ReadOk DEF Resume
    <3>2. StartPhase("main") /\ UNCHANGED <<delivered, tx>>
      BY <3>1 DEF AfterInit, IsFull
    <3>3. phase' = "main" /\ pc' \in {"write", "apply"} BY <3>2 DEF StartPhase
    <3>4. QED BY <2>1, <3>1, <3>2, <3>3 DEF AppLockStep, Quiet, devVars,
                                           StoredGood
  <2>3. CASE rx = <<Line("ERROR")>>
    <3>1. rx' = <<>> /\ AfterInit(FALSE) /\ UNCHANGED <<devVars, timedOut>>
      BY <1>2, <2>3, ReadError DEF Resume
    <3>2. pc' = "failed" /\ UNCHANGED <<phase, delivered, tx>>
      BY <3>1 DEF AfterInit
    <3>3. QED BY <2>1, <3>1, <3>2 DEF AppLockStep, Quiet, devVars, StoredGood
  <2>4. QED BY <2>1, <2>2, <2>3
<1>3. CASE pc = "writeOk"
  <2>1. tx = <<>> /\ phase = "main" /\ dphase = "main"
        /\ \/ rx = <<Line("OK")>> /\ dmode = "data" /\ dchunk = idx
           \/ rx = <<Line("ERROR")>> /\ dmode = "cmd"
    BY <1>1, <1>3 DEF AppLockStep
  <2>2. CASE rx = <<Line("OK")>>
    <3>1. rx' = <<>> /\ AfterWriteOk(TRUE) /\ UNCHANGED <<devVars, timedOut>>
      BY <1>3, <2>2, ReadOk DEF Resume
    <3>2. /\ tx' = <<Item("DATA", idx)>> /\ pc' = "writeUrc"
          /\ UNCHANGED <<phase, idx, delivered>>
      BY <2>1, <3>1 DEF AfterWriteOk
    <3>3. dmode = "data" /\ dchunk = idx BY <2>1, <2>2 DEF Line
    <3>4. QED BY <2>1, <3>1, <3>2, <3>3 DEF AppLockStep, devVars, StoredGood
  <2>3. CASE rx = <<Line("ERROR")>>
    <3>1. rx' = <<>> /\ Resume(FALSE) /\ UNCHANGED <<devVars, timedOut>>
      BY <1>3, <2>3, ReadError
    <3>2. pc' \in {"write", "failed"} /\ UNCHANGED <<phase, delivered, tx>>
      BY <1>3, <3>1, FailedWrite
    <3>3. dmode = "cmd" BY <2>1, <2>3 DEF Line
    <3>4. QED BY <2>1, <3>1, <3>2, <3>3 DEF AppLockStep, Quiet, devVars,
                                           StoredGood
  <2>4. QED BY <2>1, <2>2, <2>3
<1>4. CASE pc = "writeUrc"
  <2>1. /\ tx = <<>> /\ dmode = "cmd" /\ phase = "main" /\ dphase = "main"
        /\ \E st \in 0..1 : rx = <<Urc(1, st)>> /\ (st = 0 => stored[idx] = "good")
    BY <1>1, <1>4 DEF AppLockStep
  <2>2. PICK st \in 0..1 : rx = <<Urc(1, st)>> /\ (st = 0 => stored[idx] = "good")
    BY <2>1
  <2>3. rx' = <<>> /\ Resume(st = 0) /\ UNCHANGED <<devVars, timedOut>>
    BY <1>4, <2>2, ReadUrc
  <2>4. CASE st = 0
    <3>1. AfterWriteUrc(TRUE) BY <1>4, <2>3, <2>4 DEF Resume
    <3>2. /\ delivered' = delivered \cup {idx}
          /\ pc' \in {"apply", "write"}
          /\ UNCHANGED <<phase, tx>>
      BY <3>1 DEF AfterWriteUrc
    <3>3. stored[idx] = "good" BY <2>2, <2>4
    <3>4. StoredGood' BY <2>3, <3>2, <3>3 DEF StoredGood, devVars
    <3>5. QED BY <2>1, <2>3, <3>2, <3>4 DEF AppLockStep, Quiet, devVars
  <2>5. CASE st # 0
    <3>1. Resume(FALSE) BY <2>3, <2>5
    <3>2. pc' \in {"write", "failed"} /\ UNCHANGED <<phase, delivered, tx>>
      BY <1>4, <3>1, FailedWrite
    <3>3. QED BY <2>1, <2>3, <3>2 DEF AppLockStep, Quiet, devVars, StoredGood
  <2>6. QED BY <2>4, <2>5
<1>5. CASE pc = "applyUrc"
  <2>1. /\ tx = <<>> /\ dmode = "cmd" /\ phase = "main" /\ dphase = "main"
        /\ \E st \in 0..1 : rx = <<Urc(2, st)>> /\ dApplied = st
    BY <1>1, <1>5 DEF AppLockStep
  <2>2. PICK st \in 0..1 : rx = <<Urc(2, st)>> /\ dApplied = st BY <2>1
  <2>3. rx' = <<>> /\ Resume(st = 0) /\ UNCHANGED <<devVars, timedOut>>
    BY <1>5, <2>2, ReadUrc
  <2>4. AfterApply(st = 0) BY <1>5, <2>3 DEF Resume
  <2>5. /\ pc' = IF st = 0 THEN "done" ELSE "failed"
        /\ UNCHANGED <<phase, delivered, tx>>
    BY <2>1, <2>4 DEF AfterApply
  <2>6. QED BY <2>1, <2>2, <2>3, <2>5 DEF AppLockStep, Quiet, devVars,
                                         StoredGood
<1>6. CASE pc = "pingWait" BY <1>6 DEF AppLockStep
<1>7. QED BY <1>1, <1>2, <1>3, <1>4, <1>5, <1>6 DEF WaitPcs
\* A device step that takes the one command in flight answers it.
LEMMA HeadOne ==
    ASSUME NEW it \in Items PROVE Head(<<it>>) = it /\ Tail(<<it>>) = <<>>
OBVIOUS

(***************************************************************************)
(* Every step of a prompt application or delta DFU keeps the lock-step:   *)
(* the host sends one command when nothing is in flight, the device       *)
(* answers it with one line, and the host reads that line.                 *)
(***************************************************************************)
LEMMA NextSync ==
    ASSUME TypeOK, LoopIdxOk, ~IsFull, AppLockStep, StoredGood, [Next]_vars,
           timedOut' = FALSE
    PROVE  AppLockStep' /\ StoredGood'
<1>0. /\ Item("INIT", 0) \in Items /\ Item("APPLY", 0) \in Items
      /\ idx \in Chunks => Item("WRITE", idx) \in Items /\ Item("DATA", idx) \in Items
  BY DEF Item, Items, ItemKinds, Chunks
<1>1. CASE SendInit
  BY <1>1 DEF SendInit, AppLockStep, Quiet, devVars, StoredGood
<1>2. CASE SendWrite
  BY <1>2 DEF SendWrite, AppLockStep, Quiet, devVars, StoredGood
<1>3. CASE SendApply
  <2>1. pc' = "applyUrc" BY <1>3 DEF SendApply
  <2>2. QED BY <1>3, <2>1 DEF SendApply, AppLockStep, Quiet, devVars, StoredGood
<1>4. CASE SendPing
  BY <1>4 DEF SendPing, AppLockStep
<1>5. CASE Poll
  BY <1>5, PollSync
<1>6. CASE Timeout
  BY <1>6 DEF Timeout
<1>7. CASE DevInit
  <2>1. pc = "initWait" /\ tx = <<Item("INIT", 0)>> /\ rx = <<>>
    BY <1>7 DEF DevInit, AppLockStep, Quiet, Item, TypeOK, HostPcs
  <2>2. tx' = <<>> /\ (rx' = <<Line("OK")>> \/ rx' = <<Line("ERROR")>>)
        /\ dphase' = "main"
    <3>1. Tail(tx) = <<>> BY <2>1, <1>0, HeadOne
    <3>2. dphase = "main" BY DEF AppLockStep
    <3>3. QED BY <1>7, <2>1, <3>1, <3>2 DEF DevInit, Emit
  <2>3. QED BY <1>7, <2>1, <2>2 DEF DevInit, AppLockStep, hostVars, StoredGood
<1>8. CASE DevWrite
  <2>1. pc = "writeOk" /\ tx = <<Item("WRITE", idx)>> /\ rx = <<>>
    BY <1>8 DEF DevWrite, AppLockStep, Quiet, Item, TypeOK, HostPcs
  <2>2. idx \in Chunks BY <2>1, PhaseBounds DEF LoopIdxOk, TypeOK
  <2>3. Head(tx) = Item("WRITE", idx) /\ Tail(tx) = <<>> BY <2>1, <2>2, <1>0, HeadOne
  <2>4. /\ tx' = <<>>
        /\ \/ rx' = <<Line("OK")>> /\ dmode' = "data" /\ dchunk' = idx
           \/ rx' = <<Line("ERROR")>> /\ dmode' = "cmd"
    BY <1>8, <2>1, <2>3 DEF DevWrite, Emit, Item, AppLockStep
  <2>5. QED BY <1>8, <2>1, <2>4 DEF DevWrite, AppLockStep, hostVars, StoredGood
<1>9. CASE DevGarbage
  BY <1>9 DEF DevGarbage, AppLockStep, Quiet, Item, TypeOK, HostPcs
<1>10. CASE DevPayload
  <2>1. pc = "writeUrc" /\ tx = <<Item("DATA", idx)>> /\ rx = <<>> /\ dchunk = idx
    BY <1>10 DEF DevPayload, AppLockStep, Quiet, TypeOK, HostPcs
  <2>2. idx \in Chunks BY <2>1, PhaseBounds DEF LoopIdxOk, TypeOK
  <2>3. Head(tx) = Item("DATA", idx) /\ Tail(tx) = <<>> BY <2>1, <2>2, <1>0, HeadOne
  <2>4. PICK st \in 0..1 :
          /\ rx' = <<Urc(1, st)>>
          /\ stored' = IF st = 0 THEN [stored EXCEPT ![idx] = "good"] ELSE stored
    BY <1>10, <2>1, <2>3 DEF DevPayload, Emit
  <2>5. st = 0 => stored'[idx] = "good" BY <2>2, <2>4 DEF TypeOK
  <2>6. \A i \in delivered : stored'[i] = "good"
    BY <2>4 DEF StoredGood, TypeOK
  <2>7. tx' = <<>> /\ dmode' = "cmd" BY <1>10, <2>3 DEF DevPayload
  <2>8. QED BY <1>10, <2>1, <2>4, <2>5, <2>6, <2>7
           DEF DevPayload, AppLockStep, hostVars, StoredGood
<1>11. CASE DevApply
  <2>1. pc = "applyUrc" /\ tx = <<Item("APPLY", 0)>> /\ rx = <<>> /\ dphase = "main"
    BY <1>11 DEF DevApply, AppLockStep, Quiet, Item, TypeOK, HostPcs
  <2>2. Head(tx) = Item("APPLY", 0) /\ Tail(tx) = <<>> BY <2>1, <1>0, HeadOne
  <2>3. PICK st \in 0..1 :
          /\ rx' = <<Urc(2, st)>>
          /\ dApplied' = st /\ dmode' = "cmd" /\ dphase' = "main"
    BY <1>11, <2>1, <2>2 DEF DevApply, Emit
  <2>4. QED BY <1>11, <2>1, <2>2, <2>3 DEF DevApply, AppLockStep, hostVars, StoredGood
<1>12. CASE DevAt
  BY <1>12 DEF DevAt, AppLockStep, Quiet, Item, TypeOK, HostPcs
<1>13. CASE DevDrop
  BY <1>13 DEF DevDrop, AppLockStep, Quiet, TypeOK, HostPcs
<1>14. CASE DevBoot
  BY <1>14 DEF DevBoot, AppLockStep, Quiet, TypeOK, HostPcs
<1>15. CASE UNCHANGED vars
  BY <1>15 DEF vars, AppLockStep, Quiet, StoredGood
<1>16. QED
  BY <1>1, <1>2, <1>3, <1>4, <1>5, <1>6, <1>7, <1>8, <1>9, <1>10, <1>11,
     <1>12, <1>13, <1>14, <1>15 DEF Next, HostNext, DevNext
\* The host starts quiet, in step with the device, with nothing delivered.
LEMMA InitSync == Init => SInvSync
<1> SUFFICES ASSUME Init PROVE SInvSync OBVIOUS
<1>1. RInv BY InitIInv, InitSession DEF RInv
<1>2. AppLockStep /\ StoredGood BY DEF Init, AppLockStep, Quiet, StoredGood
<1>3. QED BY <1>1, <1>2 DEF SInvSync, SyncLockStep, DeliveredGood

\* No step clears the record of a wait that hit its deadline.
LEMMA TimedOutStays ==
    ASSUME [Next]_vars, timedOut' = FALSE PROVE timedOut = FALSE
BY DEF Next, HostNext, DevNext, SendInit, SendWrite, SendApply, SendPing, Poll,
       Timeout, DevInit, DevWrite, DevGarbage, DevPayload, DevApply, DevAt,
       DevDrop, DevBoot, vars

\* Every step keeps the strengthened invariant.
LEMMA NextSInvSync == SInvSync /\ [Next]_vars => SInvSync'
<1> SUFFICES ASSUME SInvSync, [Next]_vars PROVE SInvSync' OBVIOUS
<1>1. RInv' BY NextIInv, NextSession DEF SInvSync, RInv
<1>2. CASE Prompt'
  <2>1. ~IsFull /\ timedOut' = FALSE /\ timedOut = FALSE
    BY <1>2, TimedOutStays, NextIInv DEF Prompt, IsFull, SInvSync, RInv, IInv,
                                        TypeOK
  <2>2. Prompt BY <2>1 DEF Prompt
  <2>3. TypeOK /\ LoopIdxOk /\ AppLockStep /\ StoredGood
    BY <2>2 DEF SInvSync, RInv, IInv, SyncLockStep, DeliveredGood
  <2>4. AppLockStep' /\ StoredGood' BY <2>1, <2>3, NextSync
  <2>5. QED BY <1>1, <2>4 DEF SInvSync, SyncLockStep, DeliveredGood
<1>3. CASE ~Prompt' BY <1>1, <1>3 DEF SInvSync, SyncLockStep, DeliveredGood
<1>4. QED BY <1>2, <1>3

\* do_dfu_app and do_dfu_delta, for every number of chunks and retries:
\* when no wait hit its deadline, a DFU reported successful was applied by
\* the device with status 0 and every chunk holds its own payload
\* (SyncSuccessSound).  modem-full is excluded: do_dfu_full never reads
\* the answer of its firmware apply.
THEOREM SyncSuccess ==
    ASSUME DfuType \in {"application", "modem-delta"}
    PROVE  Spec => []SyncSuccessSound
<1>1. SInvSync => SyncSuccessSound
  <2> SUFFICES ASSUME SInvSync, pc = "done", ~timedOut
               PROVE  dApplied = 0 /\ \A i \in Chunks : stored[i] = "good"
    BY DEF SyncSuccessSound
  <2>1. Prompt BY DEF Prompt, IsFull
  <2>2. AppLockStep /\ StoredGood BY <2>1 DEF SInvSync, SyncLockStep, DeliveredGood
  <2>3. delivered = Chunks BY <2>2 DEF SInvSync, RInv, SessionInv, AppLockStep,
                                         PhaseHi, Chunks
  <2>4. QED BY <2>2, <2>3 DEF AppLockStep, StoredGood
<1>2. QED BY <1>1, InitSync, NextSInvSync, PTL DEF Spec
=============================================================================
