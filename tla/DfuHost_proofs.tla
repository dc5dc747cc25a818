-------------------------- MODULE DfuHost_proofs --------------------------
(***************************************************************************)
(* Proofs about DfuHost for every value of the constants.                 *)
(***************************************************************************)
EXTENDS DfuHost, TLAPS

(***************************************************************************)
(* TypeOK is not inductive as it stands: SendWrite appends the chunk of    *)
(* the host's loop to tx, and DevWrite copies the chunk of a queued write  *)
(* to dchunk, which DevPayload then uses as an index into stored.  The     *)
(* strengthening says that these chunk numbers are real chunks.            *)
(***************************************************************************)
\* While the host is inside the chunk loop, idx is a chunk of its phase.
LoopIdxOk == pc \in {"write", "writeOk", "writeUrc"} => idx \in PhaseChunks(phase)

\* Every write announcement and payload on the wire names a real chunk.
TxChunksOk == \A j \in 1..Len(tx) : tx[j].k \in {"WRITE", "DATA"} => tx[j].c \in Chunks

\* A device waiting for a payload knows which real chunk it is for.
DataChunkOk == dmode = "data" => dchunk \in Chunks

IInv == TypeOK /\ LoopIdxOk /\ TxChunksOk /\ DataChunkOk

USE ConstantsAssumption

\* The initial state satisfies the strengthened invariant.
LEMMA InitIInv == Init => IInv
<1> SUFFICES ASSUME Init PROVE IInv OBVIOUS
<1>1. TypeOK
  <2>1. tx \in Seq(Items) /\ rx \in Seq(Lines) BY DEF Init
  <2>2. stored \in [Chunks -> {"none", "good", "bad"}] BY DEF Init
  <2>3. idx \in 1..(NChunks + 1) /\ attempt \in 1..Retries /\ pings \in 1..PingAttempts
    BY DEF Init
  <2>4. pc \in HostPcs /\ phase \in {"boot", "main"} /\ delivered \subseteq Chunks
    BY DEF Init, HostPcs
  <2>5. dmode \in {"cmd", "data", "rebooting"} /\ dchunk \in 0..NChunks
        /\ dphase \in {"boot", "main"}
    BY DEF Init
  <2>6. bootCommitted \in BOOLEAN /\ timedOut \in BOOLEAN
    BY DEF Init
  <2>8. dApplied \in {-1, 0, 1}
    BY DEF Init
  <2>7. QED BY <2>1, <2>2, <2>3, <2>4, <2>5, <2>6, <2>8 DEF TypeOK
<1>2. LoopIdxOk /\ TxChunksOk /\ DataChunkOk BY DEF Init, LoopIdxOk, TxChunksOk, DataChunkOk
<1>3. QED BY <1>1, <1>2 DEF IInv

\* The chunks of a phase are real chunks; a non-empty phase starts at
\* PhaseLo, and every chunk of it but the last is followed by another.
LEMMA PhaseBounds ==
    \A ph \in {"boot", "main"} :
        /\ PhaseLo(ph) \in 1..(NChunks + 1)
        /\ PhaseChunks(ph) \subseteq Chunks
        /\ PhaseChunks(ph) # {} => PhaseLo(ph) \in PhaseChunks(ph)
        /\ \A i \in PhaseChunks(ph) : i # PhaseHi(ph) => i + 1 \in PhaseChunks(ph)
BY DEF PhaseLo, PhaseHi, PhaseChunks, BootCount, Chunks

\* Appending an item that names a real chunk keeps tx well-formed.
LEMMA TxAppend ==
    ASSUME NEW q \in Seq(Items),
           \A j \in 1..Len(q) : q[j].k \in {"WRITE", "DATA"} => q[j].c \in Chunks,
           NEW it \in Items,
           it.k \in {"WRITE", "DATA"} => it.c \in Chunks
    PROVE  /\ Append(q, it) \in Seq(Items)
           /\ \A j \in 1..Len(Append(q, it)) :
                 Append(q, it)[j].k \in {"WRITE", "DATA"} => Append(q, it)[j].c \in Chunks
OBVIOUS

\* Removing the head keeps tx well-formed.
LEMMA TxTail ==
    ASSUME NEW q \in Seq(Items), q # <<>>,
           \A j \in 1..Len(q) : q[j].k \in {"WRITE", "DATA"} => q[j].c \in Chunks
    PROVE  /\ Tail(q) \in Seq(Items)
           /\ Head(q) \in Items
           /\ \A j \in 1..Len(Tail(q)) :
                 Tail(q)[j].k \in {"WRITE", "DATA"} => Tail(q)[j].c \in Chunks
           /\ Head(q).k \in {"WRITE", "DATA"} => Head(q).c \in Chunks
OBVIOUS

\* Whatever a wait returns, the host's continuation keeps the invariant.
LEMMA ResumeIInv ==
    ASSUME IInv, pc \in WaitPcs, NEW ok \in BOOLEAN, Resume(ok),
           rx' \in Seq(Lines), UNCHANGED devVars, timedOut' \in BOOLEAN
    PROVE  IInv'
<1> USE DEF IInv, TypeOK, LoopIdxOk, TxChunksOk, DataChunkOk, devVars
<1>1. CASE pc = "initWait"
  <2>1. AfterInit(ok) BY <1>1 DEF Resume
  <2>2. CASE ok
    <3>1. StartPhase(IF IsFull THEN "boot" ELSE "main") BY <2>1, <2>2 DEF AfterInit
    <3>2. QED BY <3>1, <2>1, PhaseBounds DEF StartPhase, AfterInit, HostPcs
  <2>3. CASE ~ok BY <2>1, <2>3 DEF AfterInit, HostPcs
  <2>4. QED BY <2>2, <2>3
<1>2. CASE pc = "writeOk"
  <2>1. AfterWriteOk(ok) BY <1>2 DEF Resume
  <2>2. idx \in Chunks BY <1>2, PhaseBounds
  <2>3. CASE ok
    <3>1. Item("DATA", idx) \in Items BY <2>2 DEF Item, Items, ItemKinds, Chunks
    <3>2. tx' = Append(tx, Item("DATA", idx)) /\ pc' = "writeUrc"
          /\ UNCHANGED <<phase, idx, attempt, pings, delivered>>
      BY <2>1, <2>3 DEF AfterWriteOk
    <3>3. tx' \in Seq(Items) /\ TxChunksOk'
      BY <3>1, <3>2, <2>2, TxAppend DEF Item
    <3>4. QED BY <3>2, <3>3, <1>2 DEF HostPcs
  <2>4. CASE ~ok BY <2>1, <2>4, <1>2 DEF AfterWriteOk, AttemptFailed, HostPcs
  <2>5. QED BY <2>3, <2>4
<1>3. CASE pc = "writeUrc"
  <2>1. AfterWriteUrc(ok) BY <1>3 DEF Resume
  <2>2. idx \in PhaseChunks(phase) BY <1>3
  <2>3. CASE ok
    <3>1. idx \in Chunks BY <2>2, PhaseBounds
    <3>2. idx # PhaseHi(phase) => idx + 1 \in PhaseChunks(phase) BY <2>2, PhaseBounds
    <3>3. delivered' \subseteq Chunks /\ UNCHANGED <<phase, pings, tx>>
      BY <2>1, <2>3, <3>1 DEF AfterWriteUrc
    <3>4. CASE idx = PhaseHi(phase)
      <4>1. pc' = "apply" /\ UNCHANGED <<idx, attempt>> BY <2>1, <2>3, <3>4 DEF AfterWriteUrc
      <4>2. QED BY <3>3, <4>1 DEF HostPcs
    <3>5. CASE idx # PhaseHi(phase)
      <4>1. pc' = "write" /\ idx' = idx + 1 /\ attempt' = 1
        BY <2>1, <2>3, <3>5 DEF AfterWriteUrc
      <4>2. idx' \in PhaseChunks(phase') BY <4>1, <3>2, <3>3, <3>5
      <4>3. idx' \in 1..(NChunks + 1)
        <5>1. phase' \in {"boot", "main"} BY <3>3
        <5>2. idx' \in Chunks BY <4>2, <5>1, PhaseBounds
        <5>3. QED BY <5>2 DEF Chunks
      <4>4. QED BY <3>3, <4>1, <4>2, <4>3 DEF HostPcs
    <3>6. QED BY <3>4, <3>5
  <2>4. CASE ~ok BY <2>1, <2>4, <1>3 DEF AfterWriteUrc, AttemptFailed, HostPcs
  <2>5. QED BY <2>3, <2>4
<1>4. CASE pc = "applyUrc"
  <2>1. AfterApply(ok) BY <1>4 DEF Resume
  <2>2. CASE ok /\ phase = "boot"
    <3>1. StartPhase("main") BY <2>1, <2>2 DEF AfterApply
    <3>2. QED BY <3>1, <2>1, PhaseBounds DEF StartPhase, AfterApply, HostPcs
  <2>3. CASE ~(ok /\ phase = "boot") BY <2>1, <2>3 DEF AfterApply, HostPcs
  <2>4. QED BY <2>2, <2>3
<1>5. CASE pc = "pingWait"
  <2>1. AfterPing(ok) BY <1>5 DEF Resume
  <2>2. QED BY <2>1 DEF AfterPing, HostPcs
<1>6. QED BY <1>1, <1>2, <1>3, <1>4, <1>5 DEF WaitPcs

\* A device line appended to the input buffer.
LEMMA RxAppend ==
    ASSUME NEW q \in Seq(Lines), NEW l \in Lines
    PROVE  Append(q, l) \in Seq(Lines)
OBVIOUS

\* What is left of the input buffer after a poll is still a line sequence.
LEMMA RxRest ==
    ASSUME NEW q \in Seq(Lines), NEW k \in 1..Len(q)
    PROVE  SubSeq(q, k + 1, Len(q)) \in Seq(Lines)
OBVIOUS

\* Every step of the host or the device keeps the strengthened invariant.
LEMMA NextIInv == IInv /\ [Next]_vars => IInv'
<1> SUFFICES ASSUME IInv, [Next]_vars PROVE IInv' OBVIOUS
<1> USE DEF IInv, TypeOK, LoopIdxOk, TxChunksOk, DataChunkOk
<1>1. CASE SendInit
  BY <1>1, TxAppend DEF SendInit, Item, Items, ItemKinds, devVars, HostPcs
<1>2. CASE SendWrite
  <2>1. idx \in Chunks BY <1>2, PhaseBounds DEF SendWrite
  <2>2. Item("WRITE", idx) \in Items BY <2>1 DEF Item, Items, ItemKinds, Chunks
  <2>3. tx' \in Seq(Items) /\ TxChunksOk'
    BY <1>2, <2>1, <2>2, TxAppend DEF SendWrite, Item
  <2>4. QED BY <1>2, <2>3 DEF SendWrite, devVars, HostPcs
<1>3. CASE SendApply
  BY <1>3, TxAppend DEF SendApply, Item, Items, ItemKinds, devVars, HostPcs
<1>4. CASE SendPing
  BY <1>4, TxAppend DEF SendPing, Item, Items, ItemKinds, devVars, HostPcs
<1>5. CASE Poll
  <2>1. PICK k \in 1..Len(rx) :
           /\ rx' = SubSeq(rx, k + 1, Len(rx))
           /\ IF WaitEnds(SubSeq(rx, 1, k))
                 THEN Resume(WaitOk(SubSeq(rx, 1, k)))
                 ELSE UNCHANGED <<hostVars, tx>>
    BY <1>5 DEF Poll
  <2>2. rx' \in Seq(Lines) BY <2>1, RxRest
  <2>3. UNCHANGED <<devVars, timedOut>> BY <1>5 DEF Poll
  <2>4. CASE WaitEnds(SubSeq(rx, 1, k))
    <3>1. WaitOk(SubSeq(rx, 1, k)) \in BOOLEAN
      BY DEF WaitOk, UrcOk, ResponseOk, HasKind
    <3>2. QED BY <1>5, <2>1, <2>2, <2>3, <2>4, <3>1, ResumeIInv DEF Poll
  <2>5. CASE ~WaitEnds(SubSeq(rx, 1, k))
    BY <2>1, <2>2, <2>3, <2>5 DEF hostVars, devVars
  <2>6. QED BY <2>4, <2>5
<1>6. CASE Timeout
  BY <1>6, ResumeIInv DEF Timeout
<1>7. CASE DevInit
  <2>1. tx # <<>> BY <1>7 DEF DevInit
  <2>2. Line("READY") \in Lines /\ Line("OK") \in Lines /\ Line("ERROR") \in Lines
    BY DEF Line, Lines, LineKinds
  <2>3. tx' \in Seq(Items) /\ TxChunksOk' BY <1>7, <2>1, TxTail DEF DevInit
  <2>4. rx' \in Seq(Lines) BY <1>7, <2>2, RxAppend DEF DevInit, Emit
  <2>5. QED BY <1>7, <2>3, <2>4 DEF DevInit, hostVars
<1>8. CASE DevWrite
  <2>1. tx # <<>> /\ Head(tx).k = "WRITE" BY <1>8 DEF DevWrite
  <2>2. Head(tx).c \in Chunks BY <2>1, TxTail
  <2>3. Line("OK") \in Lines /\ Line("ERROR") \in Lines
    BY DEF Line, Lines, LineKinds
  <2>4. tx' \in Seq(Items) /\ TxChunksOk' BY <1>8, <2>1, TxTail DEF DevWrite
  <2>5. rx' \in Seq(Lines) BY <1>8, <2>3, RxAppend DEF DevWrite, Emit
  <2>6. QED BY <1>8, <2>2, <2>4, <2>5 DEF DevWrite, hostVars, Chunks
<1>9. CASE DevGarbage
  <2>1. tx # <<>> BY <1>9 DEF DevGarbage
  <2>2. Line("ERROR") \in Lines BY DEF Line, Lines, LineKinds
  <2>3. tx' \in Seq(Items) /\ TxChunksOk' BY <1>9, <2>1, TxTail DEF DevGarbage
  <2>4. rx' \in Seq(Lines) BY <1>9, <2>2, RxAppend DEF DevGarbage, Emit
  <2>5. QED BY <1>9, <2>3, <2>4 DEF DevGarbage, hostVars, devVars
<1>10. CASE DevPayload
  <2>1. tx # <<>> /\ dmode = "data" BY <1>10 DEF DevPayload
  <2>2. PICK st \in 0..1 :
           /\ rx' = Append(rx, Urc(1, st))
           /\ stored' = IF st = 0
                          THEN [stored EXCEPT ![dchunk] =
                                  IF Head(tx) = Item("DATA", dchunk)
                                     THEN "good" ELSE "bad"]
                          ELSE stored
    BY <1>10 DEF DevPayload, Emit
  <2>3. Urc(1, st) \in Lines BY DEF Urc, Lines, LineKinds
  <2>4. stored' \in [Chunks -> {"none", "good", "bad"}] BY <2>1, <2>2
  <2>5. QED BY <1>10, <2>1, <2>3, <2>2, <2>4, TxTail, RxAppend DEF DevPayload, hostVars
<1>11. CASE DevApply
  <2>1. tx # <<>> BY <1>11 DEF DevApply
  <2>2. PICK st \in 0..1 :
           /\ rx' = Append(rx, Urc(2, st))
           /\ IF dphase = "boot"
                 THEN /\ bootCommitted' = (bootCommitted \/ st = 0)
                      /\ dphase' = IF st = 0 THEN "main" ELSE "boot"
                      /\ UNCHANGED <<dmode, dApplied>>
                 ELSE /\ dApplied' = st
                      /\ dmode' = IF IsFull /\ st = 0 THEN "rebooting" ELSE "cmd"
                      /\ UNCHANGED <<dphase, bootCommitted>>
    BY <1>11 DEF DevApply, Emit
  <2>3. Urc(2, st) \in Lines BY DEF Urc, Lines, LineKinds
  <2>4. rx' \in Seq(Lines) /\ tx' \in Seq(Items) /\ TxChunksOk'
    BY <1>11, <2>1, <2>2, <2>3, TxTail, RxAppend DEF DevApply
  <2>5. UNCHANGED <<hostVars, timedOut, dchunk, stored>> BY <1>11 DEF DevApply
  <2>6. CASE dphase = "boot"
    BY <2>2, <2>4, <2>5, <2>6, Zenon DEF hostVars
  <2>7. CASE dphase # "boot"
    <3>1. dApplied' \in {-1, 0, 1} BY <2>2, <2>7
    <3>2. dmode' \in {"cmd", "rebooting"} BY <2>2, <2>7
    <3>3. QED BY <2>2, <2>4, <2>5, <2>7, <3>1, <3>2 DEF hostVars
  <2>8. QED BY <2>6, <2>7
<1>12. CASE DevAt
  <2>1. tx # <<>> BY <1>12 DEF DevAt
  <2>2. Line("OK") \in Lines BY DEF Line, Lines, LineKinds
  <2>3. QED BY <1>12, <2>1, <2>2, TxTail, RxAppend DEF DevAt, Emit, hostVars, devVars
<1>13. CASE DevDrop
  <2>1. tx # <<>> BY <1>13 DEF DevDrop
  <2>2. QED BY <1>13, <2>1, TxTail DEF DevDrop, hostVars, devVars
<1>14. CASE DevBoot
  BY <1>14 DEF DevBoot, hostVars
<1>15. CASE UNCHANGED vars
  BY <1>15 DEF vars
<1>16. QED
  BY <1>1, <1>2, <1>3, <1>4, <1>5, <1>6, <1>7, <1>8, <1>9, <1>10, <1>11,
     <1>12, <1>13, <1>14, <1>15 DEF Next, HostNext, DevNext

\* TypeOK holds in every state of every behaviour of Spec.
THEOREM TypeCorrect == Spec => []TypeOK
<1>1. IInv => TypeOK BY DEF IInv
<1>2. QED BY InitIInv, NextIInv, <1>1, PTL DEF Spec
=============================================================================
