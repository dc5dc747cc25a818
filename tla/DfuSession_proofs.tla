-------------------------- MODULE DfuSession_proofs --------------------------
(***************************************************************************)
(* Proofs about the update session of section 4.4 (DfuSession): chunks    *)
(* are delivered as a prefix 1..k of the image, phase by phase, so a       *)
(* completed session has delivered every chunk.  The lemmas are stated    *)
(* under the constants' hypotheses, so that a component that instantiates *)
(* the session (MainControl) can cite them for its own constants.          *)
(***************************************************************************)
EXTENDS DfuSession, TLAPS

\* The sizes main and do_dfu_full give the session: a chunk count and a
\* boot-segment chunk count within it.
SessionConstants ==
    /\ NChunks \in Nat
    /\ NBoot \in 0..NChunks

\* First and last chunk of a phase: the phase's chunks are SLo..SHi.
SLo(ph) == IF ph = "main" /\ Full THEN NBoot + 1 ELSE 1
SHi(ph) == IF ph = "boot" THEN (IF Full THEN NBoot ELSE 0) ELSE NChunks

(***************************************************************************)
(* The inductive invariant: nothing is delivered before the init answer;  *)
(* while transferring, a prefix of the image that ends inside the current *)
(* phase (all earlier phases included); from the apply on, the whole       *)
(* phase; a completed session is in the firmware phase.                    *)
(***************************************************************************)
SInv ==
    /\ STypeOK
    /\ state \in {"Idle", "Initializing"} => done = {} /\ sphase = "main"
    /\ state = "Transferring" =>
           \E k \in (SLo(sphase) - 1)..(SHi(sphase) - 1) : done = 1..k
    /\ state \in {"Applying", "Completed"} => done = 1..SHi(sphase)
    /\ state = "Completed" => sphase = "main"

\* Each phase is the interval SLo..SHi, possibly empty, inside the image,
\* and the firmware phase starts right after the boot phase ends.
LEMMA PhaseInterval ==
    ASSUME SessionConstants, NEW ph \in {"boot", "main"}
    PROVE  /\ SegChunks(ph) = SLo(ph)..SHi(ph)
           /\ SLo(ph) \in 1..(NChunks + 1)
           /\ SHi(ph) \in (SLo(ph) - 1)..NChunks
           /\ SHi("boot") = SLo("main") - 1
           /\ SLo("boot") = 1
           /\ ~Full => SLo("main") = 1
BY DEF SessionConstants, SegChunks, SLo, SHi

\* The session starts with nothing delivered.
LEMMA SInitInv ==
    ASSUME SessionConstants
    PROVE  SInit => SInv
BY DEF SInit, SInv, STypeOK, States

\* Entering a phase with a prefix that ends just before it.
LEMMA EnterInv ==
    ASSUME SessionConstants, NEW ph \in {"boot", "main"},
           done = 1..(SLo(ph) - 1), Enter(ph), UNCHANGED done
    PROVE  SInv'
<1>1. /\ SegChunks(ph) = SLo(ph)..SHi(ph)
      /\ SLo(ph) \in 1..(NChunks + 1)
      /\ SHi(ph) \in (SLo(ph) - 1)..NChunks
  BY PhaseInterval
<1>2. /\ sphase' = ph
      /\ state' = IF SegChunks(ph) = {} THEN "Applying" ELSE "Transferring"
  BY DEF Enter
<1>3. CASE SegChunks(ph) = {}
  <2>1. SHi(ph) = SLo(ph) - 1 BY <1>1, <1>3
  <2>2. done' = 1..SHi(ph) BY <2>1
  <2>3. done' \subseteq 1..NChunks BY <1>1 DEF SessionConstants
  <2>4. QED BY <1>2, <1>3, <2>2, <2>3 DEF SInv, STypeOK, States
<1>4. CASE SegChunks(ph) # {}
  <2>1. SLo(ph) - 1 \in (SLo(ph) - 1)..(SHi(ph) - 1) BY <1>1, <1>4
  <2>2. done' \subseteq 1..NChunks BY <1>1 DEF SessionConstants
  <2>3. QED BY <1>2, <1>4, <2>1, <2>2 DEF SInv, STypeOK, States
<1>5. QED BY <1>3, <1>4

\* Delivering the lowest pending chunk extends the prefix by one chunk,
\* and the phase is applied exactly when its last chunk is delivered.
LEMMA DeliverInv ==
    ASSUME SessionConstants, SInv, Deliver
    PROVE  SInv'
<1>1. PICK k \in (SLo(sphase) - 1)..(SHi(sphase) - 1) : done = 1..k
  BY DEF Deliver, SInv
<1>2. /\ sphase \in {"boot", "main"}
      /\ SegChunks(sphase) = SLo(sphase)..SHi(sphase)
      /\ SLo(sphase) \in 1..(NChunks + 1)
      /\ SHi(sphase) \in (SLo(sphase) - 1)..NChunks
  BY PhaseInterval DEF SInv, STypeOK
<1>3. Pending = (k + 1)..SHi(sphase) BY <1>1, <1>2 DEF Pending
<1>4. PICK c \in Pending :
          /\ \A d \in Pending : c <= d
          /\ done' = done \cup {c}
          /\ state' = IF Pending = {c} THEN "Applying" ELSE "Transferring"
  BY DEF Deliver
<1>5. c = k + 1 BY <1>1, <1>2, <1>3, <1>4
<1>6. done' = 1..(k + 1) BY <1>1, <1>2, <1>4, <1>5
<1>7. (Pending = {c}) = (k + 1 = SHi(sphase)) BY <1>1, <1>2, <1>3, <1>5
<1>8. sphase' = sphase BY DEF Deliver
<1>9. done' \subseteq 1..NChunks BY <1>1, <1>2, <1>6 DEF SessionConstants
<1>10. CASE k + 1 = SHi(sphase)
  BY <1>4, <1>6, <1>7, <1>8, <1>9, <1>10, <1>2 DEF SInv, STypeOK, States
<1>11. CASE k + 1 # SHi(sphase)
  <2>1. k + 1 \in (SLo(sphase) - 1)..(SHi(sphase) - 1) BY <1>1, <1>2, <1>11
  <2>2. QED BY <1>4, <1>6, <1>7, <1>8, <1>9, <1>11, <2>1, <1>2
            DEF SInv, STypeOK, States
<1>12. QED BY <1>10, <1>11

\* Every session step keeps the invariant.
LEMMA SNextInv ==
    ASSUME SessionConstants, SInv, [SNext]_svars
    PROVE  SInv'
<1>1. CASE Begin BY <1>1 DEF Begin, SInv, STypeOK, States
<1>2. CASE InitOk
  <2>1. done = {} /\ state = "Initializing" BY <1>2 DEF InitOk, SInv
  <2>2. DEFINE ph == IF Full THEN "boot" ELSE "main"
  <2>3. ph \in {"boot", "main"} OBVIOUS
  <2>4. done = 1..(SLo(ph) - 1) BY <2>1, PhaseInterval
  <2>5. QED BY <1>2, <2>3, <2>4, EnterInv DEF InitOk
<1>3. CASE Deliver BY <1>3, DeliverInv
<1>4. CASE ApplyOk
  <2>1. /\ state = "Applying" /\ done = 1..SHi(sphase)
        /\ sphase \in {"boot", "main"} /\ UNCHANGED done
    BY <1>4 DEF ApplyOk, SInv, STypeOK
  <2>2. CASE sphase = "boot"
    <3>1. done = 1..(SLo("main") - 1) BY <2>1, <2>2, PhaseInterval
    <3>2. Enter("main") BY <1>4, <2>2 DEF ApplyOk
    <3>3. QED BY <2>1, <3>1, <3>2, EnterInv
  <2>3. CASE sphase = "main"
    <3>1. state' = "Completed" /\ sphase' = "main" BY <1>4, <2>3 DEF ApplyOk
    <3>2. QED BY <2>1, <2>3, <3>1 DEF SInv, STypeOK, States
  <2>4. QED BY <2>1, <2>2, <2>3
<1>5. CASE Fail BY <1>5 DEF Fail, SInv, STypeOK, States
<1>6. CASE UNCHANGED svars BY <1>6 DEF svars, SInv, STypeOK, States
<1>7. QED BY <1>1, <1>2, <1>3, <1>4, <1>5, <1>6 DEF SNext

\* The invariant gives the section 4.4 promise: a completed session
\* (do_dfu_* returning True) has delivered every chunk of the image.
LEMMA SInvCompleteAll ==
    ASSUME SessionConstants, SInv
    PROVE  SCompleteAll
BY DEF SInv, SCompleteAll, SHi

\* For every chunk count and boot-segment size: when the session
\* completes, done holds every chunk 1..NChunks (SCompleteAll).
THEOREM SessionCompletesAll ==
    ASSUME SessionConstants
    PROVE  SSpec => []SCompleteAll
<1>1. SInit => SInv BY SInitInv
<1>2. SInv /\ [SNext]_svars => SInv' BY SNextInv
<1>3. SInv => SCompleteAll BY SInvCompleteAll
<1>4. QED BY <1>1, <1>2, <1>3, PTL DEF SSpec
=============================================================================
