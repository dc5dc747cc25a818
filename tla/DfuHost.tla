------------------------------ MODULE DfuHost ------------------------------
(***************************************************************************)
(* One DFU invocation of app/scripts/sm_dfu_host.py (do_dfu_app,           *)
(* do_dfu_delta, do_dfu_full) against a device that answers over the AT    *)
(* serial channel.                                                         *)
(*                                                                         *)
(* The host is a single thread that alternates between writing to the      *)
(* serial port and polling it with a deadline (wait_for_response,          *)
(* wait_for_urc, the inline loop of dfu_init).  The channel is two FIFO    *)
(* queues: tx (host to device) and rx (device to host, the OS input        *)
(* buffer).  The input buffer is never flushed after init_serial, so a     *)
(* line that arrives after its wait timed out is read by the next wait.    *)
(*                                                                         *)
(* The device is the Serial Modem firmware, which is not part of the       *)
(* sources here; it is modelled from the protocol of the spec: one answer  *)
(* per command, in order, after an unbounded delay; after acknowledging    *)
(* AT#XDFUWRITE it takes the next bytes it receives as the chunk payload.  *)
(*                                                                         *)
(* Chunks are the indices 1..NChunks.  For modem-full the first NBoot of   *)
(* them are the bootloader segment's chunks and the rest the firmware      *)
(* segments' chunks; the other two types have a single "main" phase.      *)
(***************************************************************************)
EXTENDS Integers, Sequences

CONSTANTS
    DfuType,        \* "application", "modem-delta" or "modem-full"
    NChunks,        \* number of chunks of the file (both segments for full)
    NBoot,          \* number of bootloader chunks (modem-full only)
    Retries,        \* retries argument of do_dfu_* (default 3)
    PingAttempts    \* max_attempts of wait_for_device (10 in do_dfu_full)

DfuTypes == {"application", "modem-delta", "modem-full"}

ASSUME ConstantsAssumption ==
    /\ DfuType \in DfuTypes
    /\ NChunks \in Nat
    /\ NBoot \in 0..NChunks
    /\ Retries \in Nat \ {0}
    /\ PingAttempts \in Nat \ {0}

IsFull == DfuType = "modem-full"

Chunks == 1..NChunks

\* The boot chunks exist only for modem-full (parse_chunks_cbor); .bin files
\* give one sequence of chunks (parse_chunks_bin).
BootCount == IF IsFull THEN NBoot ELSE 0

PhaseLo(ph) == IF ph = "boot" THEN 1 ELSE BootCount + 1
PhaseHi(ph) == IF ph = "boot" THEN BootCount ELSE NChunks
PhaseChunks(ph) == PhaseLo(ph)..PhaseHi(ph)

(***************************************************************************)
(* What travels on the wire.  Every item and line has the same fields so   *)
(* that TLC can compare any two of them.  c is a chunk index (0 if none);  *)
(* a URC #XDFU:<type>,<op>,<status> has op 1 (write) or 2 (apply) and st   *)
(* 0 (success) or 1 (standing for any non-zero status).                    *)
(***************************************************************************)
ItemKinds == {"INIT", "WRITE", "DATA", "APPLY", "AT"}
Items == [k : ItemKinds, c : 0..NChunks]
Item(kind, c) == [k |-> kind, c |-> c]

LineKinds == {"OK", "ERROR", "READY", "URC"}
Lines == [k : LineKinds, op : 0..2, st : 0..1]
Line(kind) == [k |-> kind, op |-> 0, st |-> 0]
Urc(op, st) == [k |-> "URC", op |-> op, st |-> st]

HostPcs == {"init", "initWait", "write", "writeOk", "writeUrc",
            "apply", "applyUrc", "ping", "pingWait", "done", "failed"}
WaitPcs == {"initWait", "writeOk", "writeUrc", "applyUrc", "pingWait"}

VARIABLES
    pc,             \* host: where do_dfu_* is
    phase,          \* host: "boot" or "main" segment being sent
    idx,            \* host: chunk of the for loop
    attempt,        \* host: iteration of the retry loop (1-based)
    pings,          \* host: attempt of wait_for_device (1-based)
    delivered,      \* host: chunks counted in bytes_sent
    tx,             \* bytes written by the host, not yet read by the device
    rx,             \* lines emitted by the device, not yet read by the host
    dmode,          \* device: "cmd", "data" (awaiting payload), "rebooting"
    dchunk,         \* device: chunk announced by the last acknowledged write
    dphase,         \* device: "boot" (bootloader mode) or "main"
    stored,         \* device: what each chunk's flash area holds
    bootCommitted,  \* device: the new bootloader was applied
    dApplied,       \* device: status of the last main apply, -1 if none
    timedOut        \* history: some wait of the host ended on its deadline

hostVars == <<pc, phase, idx, attempt, pings, delivered>>
devVars == <<dmode, dchunk, dphase, stored, bootCommitted, dApplied>>
vars == <<pc, phase, idx, attempt, pings, delivered, tx, rx,
          dmode, dchunk, dphase, stored, bootCommitted, dApplied, timedOut>>

TypeOK ==
    /\ pc \in HostPcs
    /\ phase \in {"boot", "main"}
    /\ idx \in 1..(NChunks + 1)
    /\ attempt \in 1..Retries
    /\ pings \in 1..PingAttempts
    /\ delivered \subseteq Chunks
    /\ tx \in Seq(Items)
    /\ rx \in Seq(Lines)
    /\ dmode \in {"cmd", "data", "rebooting"}
    /\ dchunk \in 0..NChunks
    /\ dphase \in {"boot", "main"}
    /\ stored \in [Chunks -> {"none", "good", "bad"}]
    /\ bootCommitted \in BOOLEAN
    /\ dApplied \in {-1, 0, 1}
    /\ timedOut \in BOOLEAN

Init ==
    /\ pc = "init"
    /\ phase = "main"
    /\ idx = 1
    /\ attempt = 1
    /\ pings = 1
    /\ delivered = {}
    /\ tx = <<>>
    /\ rx = <<>>
    /\ dmode = "cmd"
    /\ dchunk = 0
    /\ dphase = "main"
    /\ stored = [i \in Chunks |-> "none"]
    /\ bootCommitted = FALSE
    /\ dApplied = -1
    /\ timedOut = FALSE

(***************************************************************************)
(* Reading the input buffer.  One poll (ser.read(ser.in_waiting)) takes    *)
(* some non-empty prefix of rx; the wait scans its whole local buffer, so  *)
(* a match ends the wait and every other line of that read is dropped     *)
(* with the buffer.  A line that holds neither is kept and polling goes on.*)
(***************************************************************************)
HasKind(lines, kind) == \E j \in 1..Len(lines) : lines[j].k = kind

\* The string wait_for_response / dfu_init waits for at this point.
Expected == IF pc = "initWait" /\ IsFull THEN "READY" ELSE "OK"

\* wait_for_response: the expected string is looked for before "ERROR".
ResponseEnds(lines) == HasKind(lines, Expected) \/ HasKind(lines, "ERROR")
ResponseOk(lines) == HasKind(lines, Expected)

\* wait_for_urc takes the first line with "#XDFU:" and returns its third
\* field, whatever the type and operation fields say; the caller compares
\* the status with 0.
UrcLines(lines) == {j \in 1..Len(lines) : lines[j].k = "URC"}
UrcEnds(lines) == UrcLines(lines) # {}
UrcOk(lines) ==
    LET first == CHOOSE j \in UrcLines(lines) :
                     \A i \in UrcLines(lines) : j <= i
    IN  lines[first].st = 0

WaitEnds(lines) ==
    IF pc \in {"writeUrc", "applyUrc"} THEN UrcEnds(lines) ELSE ResponseEnds(lines)
WaitOk(lines) ==
    IF pc \in {"writeUrc", "applyUrc"} THEN UrcOk(lines) ELSE ResponseOk(lines)

(***************************************************************************)
(* What the host does when a wait returns ok (TRUE) or fails (FALSE,      *)
(* ERROR, timeout or non-zero status).  Each sets every host variable and  *)
(* tx.                                                                     *)
(***************************************************************************)
\* Mutant of StartPhase: the first chunk is written even when the phase has
\* none.
StartPhaseNoEmptyCheck(ph) ==
    /\ phase' = ph
    /\ idx' = PhaseLo(ph)
    /\ attempt' = 1
    /\ pc' = "write"

\* Start sending the chunks of a phase; an empty list goes straight to apply.
StartPhase(ph) ==
    /\ phase' = ph
    /\ idx' = PhaseLo(ph)
    /\ attempt' = 1
    /\ pc' = IF PhaseChunks(ph) = {} THEN "apply" ELSE "write"

\* dfu_init / do_dfu_full: a failed init aborts the DFU.
AfterInit(ok) ==
    /\ IF ok THEN StartPhase(IF IsFull THEN "boot" ELSE "main")
             ELSE pc' = "failed" /\ UNCHANGED <<phase, idx, attempt>>
    /\ UNCHANGED <<pings, delivered, tx>>

\* Mutant of AttemptFailed: the retry loop runs one attempt too many
\* (range(retries + 1)).
AttemptFailedOffByOne ==
    /\ IF phase = "main" /\ attempt <= Retries
          THEN pc' = "write" /\ attempt' = attempt + 1
          ELSE pc' = "failed" /\ attempt' = attempt
    /\ UNCHANGED <<phase, idx, pings, delivered, tx>>

\* A failed dfu_write: boot chunks are not retried; other chunks are
\* retried until the retries are used up.
AttemptFailed ==
    /\ IF phase = "main" /\ attempt < Retries
          THEN pc' = "write" /\ attempt' = attempt + 1
          ELSE pc' = "failed" /\ attempt' = attempt
    /\ UNCHANGED <<phase, idx, pings, delivered, tx>>

\* dfu_write after wait_for_response("OK", 2.0): send the payload.
AfterWriteOk(ok) ==
    IF ok THEN /\ tx' = Append(tx, Item("DATA", idx))
               /\ pc' = "writeUrc"
               /\ UNCHANGED <<phase, idx, attempt, pings, delivered>>
          ELSE AttemptFailed

\* Mutant of AfterWriteUrc: dfu_write reports success whatever the URC
\* status.
AfterWriteUrcAnyStatus(ok) ==
    /\ delivered' = delivered \cup {idx}
    /\ IF idx = PhaseHi(phase)
          THEN pc' = "apply" /\ UNCHANGED <<idx, attempt>>
          ELSE pc' = "write" /\ idx' = idx + 1 /\ attempt' = 1
    /\ UNCHANGED <<phase, pings, tx>>

\* Mutant of AfterWriteUrc: the chunk before the last one is taken for the
\* last one, and the apply is sent one chunk early.
AfterWriteUrcEarlyApply(ok) ==
    IF ok THEN /\ delivered' = delivered \cup {idx}
               /\ IF idx >= PhaseHi(phase) - 1
                     THEN pc' = "apply" /\ UNCHANGED <<idx, attempt>>
                     ELSE pc' = "write" /\ idx' = idx + 1 /\ attempt' = 1
               /\ UNCHANGED <<phase, pings, tx>>
          ELSE AttemptFailed

\* dfu_write after wait_for_urc(10.0): the chunk is counted in bytes_sent
\* and the loop moves to the next chunk, or to the apply after the last.
AfterWriteUrc(ok) ==
    IF ok THEN /\ delivered' = delivered \cup {idx}
               /\ IF idx = PhaseHi(phase)
                     THEN pc' = "apply" /\ UNCHANGED <<idx, attempt>>
                     ELSE pc' = "write" /\ idx' = idx + 1 /\ attempt' = 1
               /\ UNCHANGED <<phase, pings, tx>>
          ELSE AttemptFailed

\* Mutant of AfterApply: the result of dfu_apply is not checked.
AfterApplyAnyStatus(ok) ==
    /\ IF phase = "boot" THEN StartPhase("main")
       ELSE /\ pc' = "done"
            /\ UNCHANGED <<phase, idx, attempt>>
    /\ UNCHANGED <<pings, delivered, tx>>

\* dfu_apply: after the boot segment it switches to the firmware chunks,
\* after an application or delta image it ends the DFU.
AfterApply(ok) ==
    /\ IF ok /\ phase = "boot" THEN StartPhase("main")
       ELSE /\ pc' = IF ok THEN "done" ELSE "failed"
            /\ UNCHANGED <<phase, idx, attempt>>
    /\ UNCHANGED <<pings, delivered, tx>>

\* wait_for_device: one AT per attempt, with a backoff sleep in between.
AfterPing(ok) ==
    /\ IF ok THEN pc' = "done" /\ pings' = pings
       ELSE IF pings < PingAttempts
               THEN pc' = "ping" /\ pings' = pings + 1
               ELSE pc' = "failed" /\ pings' = pings
    /\ UNCHANGED <<phase, idx, attempt, delivered, tx>>

Resume(ok) ==
    CASE pc = "initWait" -> AfterInit(ok)
      [] pc = "writeOk"  -> AfterWriteOk(ok)
      [] pc = "writeUrc" -> AfterWriteUrc(ok)
      [] pc = "applyUrc" -> AfterApply(ok)
      [] pc = "pingWait" -> AfterPing(ok)

(***************************************************************************)
(* Host actions.                                                           *)
(***************************************************************************)
\* send_command("AT#XDFUINIT", ...) of dfu_init / do_dfu_full.
SendInit ==
    /\ pc = "init"
    /\ tx' = Append(tx, Item("INIT", 0))
    /\ pc' = "initWait"
    /\ UNCHANGED <<phase, idx, attempt, pings, delivered, rx>>
    /\ UNCHANGED <<devVars, timedOut>>

\* send_command("AT#XDFUWRITE", type, addr, len(data)) of dfu_write.
SendWrite ==
    /\ pc = "write"
    /\ tx' = Append(tx, Item("WRITE", idx))
    /\ pc' = "writeOk"
    /\ UNCHANGED <<phase, idx, attempt, pings, delivered, rx>>
    /\ UNCHANGED <<devVars, timedOut>>

\* send_command("AT#XDFUAPPLY", type); the firmware apply of modem-full
\* goes on to wait_for_device without reading any answer.
SendApply ==
    /\ pc = "apply"
    /\ tx' = Append(tx, Item("APPLY", 0))
    /\ pc' = IF IsFull /\ phase = "main" THEN "ping" ELSE "applyUrc"
    /\ UNCHANGED <<phase, idx, attempt, pings, delivered, rx>>
    /\ UNCHANGED <<devVars, timedOut>>

\* send_command("AT") of one wait_for_device attempt.
SendPing ==
    /\ pc = "ping"
    /\ tx' = Append(tx, Item("AT", 0))
    /\ pc' = "pingWait"
    /\ UNCHANGED <<phase, idx, attempt, pings, delivered, rx>>
    /\ UNCHANGED <<devVars, timedOut>>

\* One poll of a wait loop that reads the first k lines of the input buffer.
Poll ==
    /\ pc \in WaitPcs
    /\ rx # <<>>
    /\ \E k \in 1..Len(rx) :
          LET lines == SubSeq(rx, 1, k)
          IN  /\ rx' = SubSeq(rx, k + 1, Len(rx))
              /\ IF WaitEnds(lines) THEN Resume(WaitOk(lines))
                                    ELSE UNCHANGED <<hostVars, timedOut, tx>>
    /\ UNCHANGED <<devVars, timedOut>>

\* Mutant of Timeout: a wait loop without a deadline keeps polling an
\* empty port.
TimeoutSpinning ==
    /\ pc \in WaitPcs
    /\ rx = <<>>
    /\ UNCHANGED vars

\* The deadline of a wait passes while nothing has arrived.
Timeout ==
    /\ pc \in WaitPcs
    /\ rx = <<>>
    /\ Resume(FALSE)
    /\ timedOut' = TRUE
    /\ UNCHANGED <<rx, devVars>>

(***************************************************************************)
(* Device actions (Serial Modem firmware, modelled from the spec).         *)
(***************************************************************************)
Emit(l) == rx' = Append(rx, l)

\* AT#XDFUINIT: OK for application/delta; for modem-full the device
\* reboots into its bootloader and prints "Bootloader mode ready".
DevInit ==
    /\ dmode = "cmd"
    /\ tx # <<>> /\ Head(tx).k = "INIT"
    /\ tx' = Tail(tx)
    /\ \/ /\ Emit(Line(IF IsFull THEN "READY" ELSE "OK"))
          /\ dphase' = IF IsFull THEN "boot" ELSE "main"
       \/ /\ Emit(Line("ERROR"))
          /\ UNCHANGED dphase
    /\ UNCHANGED <<hostVars, timedOut, dmode, dchunk, stored, bootCommitted, dApplied>>

\* AT#XDFUWRITE: acknowledge and take the next bytes as the payload.
DevWrite ==
    /\ dmode = "cmd"
    /\ tx # <<>> /\ Head(tx).k = "WRITE"
    /\ tx' = Tail(tx)
    /\ \/ /\ Emit(Line("OK"))
          /\ dmode' = "data"
          /\ dchunk' = Head(tx).c
       \/ /\ Emit(Line("ERROR"))
          /\ UNCHANGED <<dmode, dchunk>>
    /\ UNCHANGED <<hostVars, timedOut, dphase, stored, bootCommitted, dApplied>>

\* Payload bytes that reach the command parser are not a command.
DevGarbage ==
    /\ dmode = "cmd"
    /\ tx # <<>> /\ Head(tx).k = "DATA"
    /\ tx' = Tail(tx)
    /\ Emit(Line("ERROR")) \/ UNCHANGED rx
    /\ UNCHANGED <<hostVars, timedOut, devVars>>

\* The payload of the announced chunk: whatever is received next is
\* written; the write URC reports the flash write's status.
DevPayload ==
    /\ dmode = "data"
    /\ tx # <<>>
    /\ tx' = Tail(tx)
    /\ \E st \in 0..1 :
          /\ Emit(Urc(1, st))
          /\ stored' = IF st = 0
                         THEN [stored EXCEPT ![dchunk] =
                                 IF Head(tx) = Item("DATA", dchunk)
                                    THEN "good" ELSE "bad"]
                         ELSE stored
    /\ dmode' = "cmd"
    /\ UNCHANGED <<hostVars, timedOut, dchunk, dphase, bootCommitted, dApplied>>

\* AT#XDFUAPPLY: in bootloader mode it commits the bootloader and switches
\* to firmware mode; otherwise it applies the image, and the full modem
\* firmware apply reboots the device.
DevApply ==
    /\ dmode = "cmd"
    /\ tx # <<>> /\ Head(tx).k = "APPLY"
    /\ tx' = Tail(tx)
    /\ \E st \in 0..1 :
          /\ Emit(Urc(2, st))
          /\ IF dphase = "boot"
                THEN /\ bootCommitted' = (bootCommitted \/ st = 0)
                     /\ dphase' = IF st = 0 THEN "main" ELSE "boot"
                     /\ UNCHANGED <<dmode, dApplied>>
                ELSE /\ dApplied' = st
                     /\ dmode' = IF IsFull /\ st = 0 THEN "rebooting" ELSE "cmd"
                     /\ UNCHANGED <<dphase, bootCommitted>>
    /\ UNCHANGED <<hostVars, timedOut, dchunk, stored>>

\* AT: OK.
DevAt ==
    /\ dmode = "cmd"
    /\ tx # <<>> /\ Head(tx).k = "AT"
    /\ tx' = Tail(tx)
    /\ Emit(Line("OK"))
    /\ UNCHANGED <<hostVars, timedOut, devVars>>

\* Bytes sent while the device reboots are lost.
DevDrop ==
    /\ dmode = "rebooting"
    /\ tx # <<>>
    /\ tx' = Tail(tx)
    /\ UNCHANGED <<hostVars, timedOut, rx, devVars>>

DevBoot ==
    /\ dmode = "rebooting"
    /\ dmode' = "cmd"
    /\ UNCHANGED <<hostVars, timedOut, tx, rx, dchunk, dphase, stored, bootCommitted, dApplied>>

HostNext == SendInit \/ SendWrite \/ SendApply \/ SendPing \/ Poll \/ Timeout
DevNext == DevInit \/ DevWrite \/ DevGarbage \/ DevPayload \/ DevApply
           \/ DevAt \/ DevDrop \/ DevBoot

\* Once do_dfu_* has returned, main() closes the port and the process
\* exits: a state with pc "done" or "failed" and no device step left is
\* final.
Next == HostNext \/ DevNext

\* Every wait of the host has a deadline, so the host is never stuck.
Spec == Init /\ [][Next]_vars /\ WF_vars(HostNext)

(***************************************************************************)
(* Properties.                                                             *)
(***************************************************************************)
\* A DFU reported successful was applied by the device: the apply the host
\* took as the end of the update returned status 0 on the device
\* (do_dfu_app / do_dfu_delta return True only after dfu_apply).
SuccessMeansApplied == pc = "done" => dApplied = 0

\* A DFU reported successful left every chunk of the image in the device's
\* flash with its own payload (the spec: a chunk is delivered only after
\* the acknowledgment of its write and its URC with status 0).
ImageIntactOnSuccess == pc = "done" => \A i \in Chunks : stored[i] = "good"

\* When no wait of the host ever hit its deadline, a DFU reported
\* successful is what it claims: the device applied it with status 0 and
\* every chunk holds its own payload.  (With a prompt device the host's
\* reads stay in step with its commands.)
SyncSuccessSound ==
    (pc = "done" /\ ~timedOut) =>
        /\ dApplied = 0
        /\ \A i \in Chunks : stored[i] = "good"

\* dfu_write counts a chunk in bytes_sent only in the step that reads the
\* write URC of that chunk, never a chunk already counted, and, while no
\* wait has hit its deadline, only a chunk whose payload the device holds
\* at that moment (the spec: delivered only after the URC with status 0).
ChunkCountedWhenStored ==
    [][delivered' # delivered =>
          /\ pc = "writeUrc"
          /\ idx \notin delivered
          /\ delivered' = delivered \cup {idx}
          /\ (~timedOut' => stored[idx] = "good")]_vars

\* modem-full: no firmware segment reaches the device's flash before the
\* device has committed the new bootloader (do_dfu_full sends phase 2
\* only after the boot apply reports status 0).
FwOnlyAfterBootCommit ==
    \A i \in PhaseChunks("main") :
        IsFull /\ stored[i] # "none" => bootCommitted

\* Every DFU invocation ends, successfully or not: every wait has a
\* deadline and every retry loop a bound.
Termination == <>(pc \in {"done", "failed"})
=============================================================================
