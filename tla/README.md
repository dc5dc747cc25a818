# Verification of the Serial Modem DFU host driver

This directory holds TLA+ models of `src/app/scripts/sm_dfu_host.py`, the
host-side Device Firmware Update driver of the Serial Modem. The driver
updates the application image or the modem firmware of a device that it
reaches only through an AT command serial channel. The directory also
holds the TLC configurations that check the models, and TLAPS proofs
about them.

## 1. Inventory

### Components

| Component | Code | State | Operations |
|---|---|---|---|
| Transport transaction layer | `init_serial`, `close_serial`, `send_command`, `send_data`, `wait_for_response`, `wait_for_urc`, `wait_for_device` (lines 21-112) | the global port `ser`: the OS input buffer (never flushed after `init_serial`) and the output stream; each wait keeps a local `buffer` and a deadline | send a command line, send raw bytes, poll until a string, `ERROR` or the deadline; poll until a `#XDFU:` line and parse its status; ping with exponential backoff |
| Chunk splitting and manifest decoding | `parse_chunks_bin`, `parse_chunks_cbor` (137-200) | none (pure) | split a `.bin` into 4096-byte chunks from offset 0; decode the signed CBOR wrapper, the manifest and the segment list; slice the segments from the end of the wrapper; split each one into chunks, the first segment being the bootloader |
| Chunked transfer engine | `dfu_write` and the chunk loops of `do_dfu_*` (245-254, 285-298, 328-341, 376-384, 403-416) | loop index, retry counter, `bytes_sent` | `AT#XDFUWRITE`, wait for `OK` (2 s), send the payload, wait for the URC (10 s), retry up to `retries` times (boot chunks: no retry) |
| DFU session state machine | `dfu_init`, `dfu_apply`, `do_dfu_app`, `do_dfu_delta`, `do_dfu_full` (209-430) | the position in the procedure | init (OK in 5 s or 120 s; for modem-full "Bootloader mode ready" in 30 s), transfer, apply (URC in 10 s); modem-full has a boot phase and a firmware phase, and after its last apply it only pings |
| Utility commands and process control | `do_ping`, `do_reset`, `do_modem_reset`, `main` (433-523) | argument flags | validate the mode, open the port, run one mode, close the port on every exit path |
| Progress output | `print_progress` (115-134) | `_prev_line_len` | console line only |
| Device (Serial Modem firmware) | not in the sources | command mode / data mode, flash contents, bootloader mode, reboot | answers one line per command, in order; takes the bytes that follow an acknowledged write as the payload |
| Smoke tests | `src/app/pytest/test_serialmodem.py` | test fixtures | out of scope (a test harness) |

### How the components interact

The driver has one thread of control. The session state machine calls the
transfer engine, and both call the transport layer. The transport writes
to the port and then polls it. The device answers on the same port, after
a delay that the host cannot bound. Commands and answers are not matched
by any identifier: the host takes whatever line comes next in the input
buffer. Two things in the code break the lock-step this relies on:
- each wait gives up on its deadline and leaves the late answer in the OS
  buffer for the next wait;
- each wait drops the rest of the read in which it found its match.

### What is hard

- Timeouts racing late answers. A retry is sent while the previous attempt
  is still queued on the device, so later waits read the answers of
  earlier commands.
- Ordering. `wait_for_urc` does not look at the operation field, so a
  write URC can be taken for an apply URC.
- Data mode. After acknowledging a write, the device takes the next bytes
  it receives as the payload, even if they are a command line.
- Reboots. The modem-full init and the final apply reboot the device, and
  commands sent during a reboot are lost.
- Partial failure. Once a firmware segment of modem-full has been written,
  the modem stays unusable until the update completes. The code warns
  about this and attempts no recovery.

### What makes each component correct

- Transport and transfer: a chunk counts as delivered only after its own
  acknowledgment and its own URC with status 0 (spec §3). Every wait ends.
- Session: success is reported only when the device has applied an intact
  image. Modem-full sends firmware chunks only after the bootloader is
  committed.
- Chunk splitting: `ceil(N/C)` chunks, contiguous addresses, lengths that
  sum to N, no chunk longer than C. Manifest segments are contiguous from
  the end of the wrapper.

## 2. Modules

### `DfuHost.tla`: the host driver and the device (core)

**Constants.**
- `DfuType`: `"application"`, `"modem-delta"` or `"modem-full"`.
- `NChunks`: the number of chunks.
- `NBoot`: how many of the chunks are bootloader chunks (modem-full only).
- `Retries`: the `retries` argument of `do_dfu_*`.
- `PingAttempts`: the `max_attempts` of `wait_for_device`.

`ConstantsAssumption` states what these constants must satisfy.

**State.**
- The host's position in `do_dfu_*`: `pc`, `phase`, `idx`, `attempt` and
  `pings`, plus `delivered` (the chunks counted in `bytes_sent`).
- The port: `tx` (host to device) and `rx` (the OS input buffer). Both
  are FIFO sequences.
- The device: `dmode` (`cmd`, `data` or `rebooting`), `dchunk`, `dphase`
  (bootloader mode or not), `stored` (whether each chunk's flash area
  holds its own payload, other bytes, or nothing), `bootCommitted` and
  `dApplied`.
- `timedOut`, a history variable that records that some wait ended on its
  deadline.

**Host actions.**
- `SendInit`, `SendWrite`, `SendApply` and `SendPing` each model one
  `send_command` call.
- `Poll` models one `ser.read(ser.in_waiting)` of a wait loop. It takes a
  non-empty prefix of `rx`. If the prefix holds the awaited line (and, for
  `wait_for_response`, also if it holds `ERROR`), the wait returns and the
  rest of that read is dropped. Otherwise polling goes on.
- `Timeout` models a deadline that passes while nothing is waiting.
- `Resume` dispatches to what the code does when a wait returns: `AfterInit`,
  `AfterWriteOk` (send the payload), `AfterWriteUrc` (count the chunk,
  next chunk or apply), `AttemptFailed` (retry, or abort for a boot chunk or
  when the retries are used up), `AfterApply`, `AfterPing`.

**Device actions** (modelled from the spec): `DevInit`, `DevWrite`,
`DevPayload` (data mode), `DevGarbage` (payload bytes reaching the command
parser), `DevApply`, `DevAt`, `DevDrop` and `DevBoot` (reboot). The device
may answer with `ERROR` or a non-zero status at any command.

**Abstractions.**
- Lines arrive whole.
- Chunk payloads are chunk numbers.
- Time is abstracted to "a deadline may pass whenever the input buffer is
  empty". A real deadline can also pass just as data arrives; leaving that
  case out only removes behaviours.
- Application and delta DFU have the same control flow and differ only in
  the init timeout (5 s against 120 s). The runs use `"application"`.

### `MC_DfuHost.tla` and the `.cfg` files

`MC_DfuHost.tla` is the model-checking instance. Each `.cfg` file sets the
constants for one run. It extends `DfuHostSession`, so `full_dfu` also checks
the refinement. `MC_DfuHostSession.tla` is the instance for the run with an
empty boot segment.

### `DfuHost_proofs.tla`

This module holds the TLAPS proofs about `DfuHost`: the inductive
invariant `IInv`, the lemmas it uses, and the theorem `TypeCorrect`.

### `DfuHostBoot_proofs.tla`

This module proves `FwOnlyAfterBootCommit` (theorem
`FirmwareAfterBootCommit`). It defines the lock-step invariant
`BootLockStep` and the invariant `FwUntouched`, and proves them with the
lemmas they use.

### `DfuHostSync_proofs.tla`

This module proves `SyncSuccessSound` for application and modem-delta DFUs
(theorem `SyncSuccess`). It defines the lock-step invariant `AppLockStep`
for a prompt device, and `StoredGood` for the delivered chunks. See
section 4.

### `DfuHostCount_proofs.tla`

This module proves the action property `ChunkCountedWhenStored` for every
DFU type, modem-full included (theorem `CountedOnlyWhenStored`). It
defines the lock-step invariant `WriteLockStep`, which covers the host from
`dfu_init` to the last apply answer the host reads. See section 4.

### `DfuSession.tla` and `DfuHostSession.tla`: the session and the refinement

`DfuSession` is the session of spec §4.4 as the driver promises it, with
no transport in it. Its state is `state` (`Idle`, `Initializing`,
`Transferring`, `Applying`, `Completed`, `Failed`), the phase `sphase`
(`"boot"` or `"main"`) and the set `done` of delivered chunks. Its actions
are `Begin`, `InitOk`, `Deliver` (the lowest chunk not yet delivered of
the phase), `ApplyOk` (after a boot apply modem-full enters the firmware
phase) and `Fail`. A phase without chunks goes straight to `Applying`.

`DfuHostSession` maps `DfuHost` onto it: `StateOf(pc)` gives the session
state of each point of `do_dfu_*` (`init` is `Idle`, the wait for the
init answer is `Initializing`, the chunk loop is `Transferring`, the apply
and the pings are `Applying`), `sphase` is the host's `phase` and `done`
its `delivered`. `SessionRefined` is `DfuSession`'s specification, weak
fairness included, as a `PROPERTY` of `DfuHost`'s runs.

### `DfuHostSession_proofs.tla`

Proves the safety part of the refinement and `SessionCompleteAll`. See
section 4.

### `DfuSession_proofs.tla`

Proves that the abstract session completes only with every chunk
delivered (`SessionCompletesAll`). Its lemmas are stated under the
hypothesis `SessionConstants`, so that `MainControl_proofs` can cite them
for its own instance of the session.

### `Backoff.tla`

`wait_for_device` (lines 65-79), timed in tenths of a second. The state is
the loop's `attempt` and `backoff` and the time spent, `elapsed`.
`Answered`, `NoAnswer` (an `ERROR` or the deadline; the loop sleeps only
if another attempt follows) and `Sleep` (`min(backoff * 2, max_backoff)`)
are the three steps of the loop. `SleepRef` and `SleepTotal` give the
schedule of the spec (§4.1) as a reference. `MC_Backoff` uses the
arguments of `do_dfu_full` (10 attempts, 5 s, 5 s). `Backoff_proofs`
proves its type invariant.

### `ChunkRef.tla`, `ChunksBin.tla` and `ChunksCbor.tla`

`ChunkRef` defines a chunk as a record (flash address, file position,
length), Python's slice length on a file of a given length (`SliceLen`),
and the reference split of §8 (`IsSplit`: `ceil(N/C)` chunks of 1 to C
bytes, contiguous addresses, lengths that sum to N).

`ChunksBin` is the read loop of `parse_chunks_bin` over a file size:
`Read` appends a chunk of what `f.read(chunk_size)` returns, `Eof` ends on
an empty read.

`ChunksCbor` is `parse_chunks_cbor` from the decoded segment table on:
`AddSegment` and `OddTable` walk the table two entries at a time (an odd
table raises `IndexError`), `EndTable`, `SplitChunk` slices the raw file at
the segment's offset and splits the slice, boot chunks for segment 0 and
firmware chunks for the others, and `NextSegment` and `Finish` close the
loops. The file length is the header plus the declared bytes less a
`Shortfall`. The two `cbor2.loads` calls are not modelled; the model takes
the segment table and the header length as inputs.

### `MainControl.tla`

`main` (lines 456-523; the checks are lines 469-482, the missing-file
return 498-501, the DFU dispatch 505-513, the handlers 514-521): every combination of the options, `Validate`, the
port's `OpenPort` and `OpenFails`, the dispatch (`DoPing`, `DoReset`, the
DFU as `DfuStep` steps of a `DfuSession` instance, `FileMissing`,
`BadPackage` for a malformed package's exception, `DfuReturn`), the
`finally` (`Close`) and the environment's faults: `InterruptBeforeTry`,
`Abort` (a `KeyboardInterrupt` or `SerialException` caught inside the
`try`) and `InterruptInClose` (a Ctrl-C inside `close_serial`).
`MainControl_proofs` proves its three safety invariants.

## 3. Runs

| Run | Config | Expect | Checks |
|---|---|---|---|
| `app_dfu` | `MC_DfuHost_app.cfg` | pass | `TypeOK`, `SyncSuccessSound`, `Termination`, `ChunkCountedWhenStored` |
| `full_dfu` | `MC_DfuHost_full.cfg` | pass | `FwOnlyAfterBootCommit`, `Termination`, `SessionRefined`, `ChunkCountedWhenStored` |
| `app_stale_ok` | `MC_DfuHost_app_stale.cfg` | violation | `ImageIntactOnSuccess` |
| `app_urc_desync` | `MC_DfuHost_app_desync.cfg` | violation | `SuccessMeansApplied` |
| `full_apply_unchecked` | `MC_DfuHost_full_apply.cfg` | violation | `SuccessMeansApplied` |
| `session_noboot` | `MC_DfuHostSession_noboot.cfg` | pass | `SessionCompleteAll`, `SessionRefined` |
| `backoff_timing` | `MC_Backoff.cfg` | pass | `TypeOK`, `WithinWorstCase` |
| `backoff_spec_budget` | `MC_Backoff_budget.cfg` | violation | `WithinSpecBudget` |
| `bin_split` | `MC_ChunksBin.cfg` | pass | `BinSplitOk` |
| `cbor_split` | `MC_ChunksCbor.cfg` | pass | `ManifestChunksOk` |
| `cbor_truncated` | `MC_ChunksCbor_truncated.cfg` | violation | `ManifestChunksOk` |
| `main_control` | `MC_MainControl.cfg` | pass | `OneOperationPerPort`, `ExitZeroSound`, `PortReleasedOnExit` |

### The properties

- **`SyncSuccessSound`**: when no wait timed out, a reported success means
  two things. The device applied the image with status 0, and every chunk
  holds its own payload. So with a prompt device the host's reads stay in
  step with its commands, even when the device answers `ERROR` or a
  non-zero status and chunks are retried.
- **`ChunkCountedWhenStored`** (an action property): `dfu_write` adds a
  chunk to `bytes_sent` only in the step that reads the write URC of that
  chunk, and never a chunk it counted already. While no wait has hit its
  deadline, the device holds that chunk's own payload at that moment. This
  is the spec's rule that a chunk counts as delivered only after its URC
  with status 0. It holds for every DFU type, modem-full included: up to
  its last apply, modem-full keeps the same lock-step as the others.
  Its stored-payload part, like `SyncSuccessSound`, assumes that no wait
  has timed out. So neither property catches the stale answers of
  findings 1 and 2. The violation runs `app_stale_ok` and `app_urc_desync`
  cover those.
- **`FwOnlyAfterBootCommit`**: no firmware chunk reaches the device's flash
  before the bootloader is committed. It holds because boot chunks are
  not retried: any timeout in the boot phase aborts, so no stale answer
  survives into the boot apply.
- **`Termination`**: every invocation ends, whether the device answers
  late, never answers, or never comes back from its reboot.
- **`ImageIntactOnSuccess`** and **`SuccessMeansApplied`**: the spec's
  delivery invariant (§3), and the requirement that a reported success was
  applied on the device. Both are violated by what the code does. See the
  findings.

- **`SessionRefined`**: every behaviour of the driver against the
  unreliable device is a behaviour of the §4.4 session: chunks are
  delivered one at a time, in order, within their phase; the apply of a
  phase follows its last chunk; modem-full's firmware phase follows the
  boot apply; and (the fairness part) the session always ends.
- **`SessionCompleteAll`**: a completed DFU has delivered every chunk of
  the file, also when the boot segment is empty.
- **`WithinWorstCase`**: `wait_for_device` never lasts longer than its
  deadlines plus the capped, doubling sleeps between them. No sleep
  follows the last attempt.
- **`BinSplitOk`** and **`ManifestChunksOk`**: `parse_chunks_bin` and
  `parse_chunks_cbor` return the split of §8, for every file of up to 25
  bytes and every segment table of up to five entries over a file that
  holds what the table declares.
- **`OneOperationPerPort`**: the port is opened for exactly one operation
  that the options select.
- **`ExitZeroSound`**: status 0 means no exception is pending and, for a
  DFU, that the session completed with every chunk delivered.
- **`PortReleasedOnExit`**: whenever `main` returns, or an exception
  leaves it with status 1, the port has been closed.

### Findings

1. **Stale OK** (`app_stale_ok`, at `sm_dfu_host.py:248`).
   - The `OK` to the first `AT#XDFUWRITE` arrives after the 2 s deadline.
   - The retry's wait reads that late `OK` as its own acknowledgment, and
     the host streams the payload.
   - The device is already in data mode, so it stores the retry's command
     line as the chunk.
   - The host counts the chunk delivered, and the DFU reports success.
2. **URC desynchronisation** (`app_urc_desync`, at
   `sm_dfu_host.py:262`). This takes 3 retries.
   - Two timed-out writes are still queued on the device, so every later
     wait reads the answer of an earlier command.
   - `dfu_apply` takes a write URC (`#XDFU:0,1,0`) as the apply result.
   - `"Application DFU complete"` is printed while `AT#XDFUAPPLY` is still
     unread in the device's input.
3. **Unchecked final apply** (`full_apply_unchecked`, at
   `sm_dfu_host.py:425`). `do_dfu_full` never reads the status of its last
   apply. A failed apply is reported as complete when the device answers
   `AT`. Spec §4.4 prescribes this sequence, but §6 makes that URC the
   apply's success marker.

4. **Liveness polling longer than the spec's budget**
   (`backoff_spec_budget`, at `sm_dfu_host.py:425`). `wait_for_device(10,
   5.0, 5.0)` can take 10 × 5 s of waits plus 0.5 + 1 + 2 + 4 + 5 × 5 =
   32.5 s of sleeps, 82.5 s in all. §4.4 says "up to 10 attempts/50s".
5. **Truncated package** (`cbor_truncated`, at `sm_dfu_host.py:188`).
   `parse_chunks_cbor` never checks that the file holds the bytes the
   segment table declares. A short file gives short chunks and, past its
   end, chunks with no payload, announced as `AT#XDFUWRITE=2,<addr>,0`
   and sent. §8 says the segment lengths sum to the payload bytes.

### Bounds

- The pass runs use two chunks with 3 attempts each (the code's default)
  for the application DFU, and 1 boot chunk + 2 firmware chunks with 2
  attempts for modem-full. `PingAttempts = 2`.
- Two chunks are enough for an answer to be carried from one chunk to the
  next. Three attempts are enough for two stale writes to be queued at
  once, which is what finding 2 needs. Two pings cover both a lost ping
  and a retried one.
- The violation runs use the smallest instances that show the violation.
- `session_noboot` has an empty boot segment (`NBoot = 0`), the case
  where the boot apply follows `dfu_init` directly.
- `bin_split` covers every file of 0 to 25 bytes with 3-byte chunks (the
  empty file, exact multiples and short last chunks); `cbor_split` every
  table of up to five entries of 0 to 3 bytes with 2-byte chunks
  (empty segments, odd tables, several firmware segments).
- `backoff_timing` uses the real arguments in tenths of a second: the
  cap is reached at the fourth sleep, and all 10 attempts are taken.
- `main_control` takes every combination of the options; the DFU session
  has one boot and one firmware chunk.
- All runs finish in seconds.

### Fairness

`Spec` has weak fairness on the host's actions only. Every wait of the
host has a deadline (`time.time() < end_time`), so the host can always
take a step until it returns. The device gets no fairness: it may stop
answering at any point, and `Termination` must hold anyway.

`CHECK_DEADLOCK FALSE` is set because the process exits once `do_dfu_*`
returns. `Termination` rules out any other stop: a stuck host would
violate it.

`MainControl` has no fairness. `main` is straight-line code, so it ends
by its shape, and only its safety properties are checked.
`DfuSession`'s own fairness (weak, on its next-state relation) is part of
`SessionRefined`; `DfuHost`'s fairness on the host's steps implies it.
`Backoff`, `ChunksBin` and `ChunksCbor` have no fairness: they check
safety only, and their loops are bounded by the code.

### Mutants

Each property of a pass run is broken by a plausible bug of the code:
- `AttemptFailedOffByOne` (`range(retries + 1)`) breaks `TypeOK`;
- `AfterWriteUrcAnyStatus` (`dfu_write` ignores the status) breaks
  `SyncSuccessSound`, and on both DFU runs `ChunkCountedWhenStored`;
- `AfterApplyAnyStatus` (the result of `dfu_apply` is not checked) breaks
  `FwOnlyAfterBootCommit`;
- `TimeoutSpinning` (a wait loop without a deadline) breaks `Termination`;
- `AfterWriteUrcEarlyApply` (the apply is sent one chunk early) breaks
  `SessionRefined` and `SessionCompleteAll`; `StartPhaseNoEmptyCheck` (an
  empty phase enters the chunk loop) breaks `SessionRefined`;
- `NoAnswerSleepsAlways` (a sleep after the last attempt) breaks `TypeOK`
  and `WithinWorstCase`;
- `EofShortRead` (the loop stops at a short read) breaks `BinSplitOk`;
  `AddSegmentSameOffset` (every segment read from the end of the header)
  breaks `ManifestChunksOk`;
- `ArgsValidNoCount` breaks `OneOperationPerPort`; `DfuReturnIgnored`
  breaks `ExitZeroSound`; `FileMissingOutsideTry` breaks
  `PortReleasedOnExit`.

## 4. Proofs

`DfuHost_proofs.tla` proves `THEOREM TypeCorrect == Spec => []TypeOK` for
every value of the constants that satisfies `ConstantsAssumption`.

`TypeOK` alone is not inductive. `SendWrite` puts the loop's `idx` on the
wire, `DevWrite` copies a queued write's chunk into `dchunk`, and
`DevPayload` indexes `stored` with it. The strengthening `IInv` adds three
facts:
- `LoopIdxOk`: inside the chunk loop, `idx` is a chunk of the current
  phase;
- `TxChunksOk`: every write and payload on the wire names a real chunk;
- `DataChunkOk`: in data mode, `dchunk` is a real chunk.

TLC checked `IInv` as an invariant of both pass instances before the
proof was written.

The proof has three parts:
- `InitIInv` shows that the initial state satisfies `IInv`.
- `NextIInv` shows that every action keeps `IInv`. It has one step per
  action. The host's continuations are handled once, in `ResumeIInv`.
- Lemmas about the phase bounds (`PhaseBounds`) and about appending to and
  taking from the queues (`TxAppend`, `TxTail`, `RxAppend`, `RxRest`).

`DfuHostBoot_proofs.tla` proves
`THEOREM FirmwareAfterBootCommit == Spec => []FwOnlyAfterBootCommit`, for
every number of chunks, boot chunks and retries. The reason it holds is
that, from `AT#XDFUINIT` to the boot apply, the host and the device are in
lock-step. Every failed wait of that stretch ends the DFU: `dfu_init`
aborts, and boot chunks are not retried. So no late answer can be read by
a later wait, and the `#XDFU` URC with status 0 that lets `do_dfu_full`
start phase 2 can only be the boot apply's own answer. The inductive
invariant `BInv` has three parts:
- `IInv`, from above.
- `BootLockStep`: for each point of the host from `init` to the boot
  `applyUrc` (modem-full), the only contents the two queues and the
  device can have. There is at most one item in flight. While the boot
  apply is awaited, a URC with status 0 means the bootloader is
  committed.
- `FwUntouched`: while the bootloader is not committed, no firmware chunk
  is stored, announced to the device (`dchunk` in data mode) or queued as
  a write, and the host has not entered the firmware phase.

`BootLockStep` alone is not enough, because after a failure the host
stops while its last command may still reach the device. `FwUntouched`
covers those states.

TLC checked `BInv` as an invariant before the proof was written, on five
instances:
- modem-full with (chunks, boot chunks, retries) of (3,1,2), (3,2,3),
  (2,0,2) and (4,2,2);
- application with 2 chunks and 3 retries.

The proof has these parts:
- `NextLockStep`, with one step per action. The polls of the boot stretch
  are handled in `LockStepPoll`, using `PollOne` (a poll of a one-line
  buffer reads that line) and `OneLine` (what the wait helpers make of a
  single line). The boot apply's read is handled in `BootApplyRead`.
- `LockStepTimeout`: a timed-out wait of the boot stretch ends the DFU.
- `NextFwUntouched`.

`DfuHostSession_proofs.tla` proves
`THEOREM SessionRefinement == Spec => Session!SInit /\ [][Session!SNext]_(Session!svars)`:
the driver implements the safety part of `DfuSession`, for every value of
the constants. The invariant it needs, `SessionInv`, fixes what has been
delivered at each point of the host: nothing, in the main phase, before
the init answer; chunks `PhaseLo .. idx - 1` of the phase (and all boot
chunks before them) inside the chunk loop; the whole phase from the
apply on; and the main phase from the pings on. With `RInv == IInv /\
SessionInv` (checked by TLC on five instances first), `NextSession`
shows that each host step is a session step (`StartSession` for entering
a phase, `DeliverSession` for a write URC with status 0, `ResumeSession`
for each wait's continuation) and each device step a stutter.
`THEOREM CompletedDeliversAll == Spec => []SessionCompleteAll` follows
from `SessionInv`.

`DfuHostSync_proofs.tla` proves
`THEOREM SyncSuccess == ASSUME DfuType \in {"application", "modem-delta"} PROVE Spec => []SyncSuccessSound`,
for every number of chunks and retries. The theorem leaves out modem-full,
because the property is false there: `do_dfu_full` never reads the answer
of its firmware apply (finding 3, run `full_apply_unchecked`).

The argument is that, while no wait has timed out, the host and the device
stay in lock-step for the whole DFU:
1. The host sends a command only when nothing is in flight.
2. The device answers it with one line.
3. The host's next poll reads exactly that line.

So the URC that ends `dfu_apply`'s wait is the apply's own answer, and a
write URC with status 0 is the one for the chunk just written. The
inductive invariant `SInvSync` has three parts:
- `RInv`, from above.
- `SyncLockStep`: while `Prompt` holds (not modem-full, no timeout so
  far), `AppLockStep` gives, for each point of the host, the only
  contents the queues and the device can have. At `done` it also gives
  `dApplied = 0`.
- `DeliveredGood`: while `Prompt` holds, every chunk in `delivered` is
  `"good"` in `stored`. Together with `SessionInv`, which gives
  `delivered = 1..NChunks` at `done`, this gives the intact image.

Before the proof was written, TLC checked `SInvSync` on five instances:
- application with (chunks, retries) of (2,3), (0,1) and (1,3);
- modem-delta (3,2);
- modem-full (3,1,2), where it holds vacuously.

The proof has these parts:
- `ReadOk`, `ReadError` and `ReadUrc`: what one poll of a one-line buffer
  does at each wait.
- `PollSync`: one step per waiting point of the host.
- `NextSync`: one step per action. A device step takes the one command in
  flight, and a timeout makes `Prompt` false from then on
  (`TimedOutStays`).

`DfuHostCount_proofs.tla` proves
`THEOREM CountedOnlyWhenStored == Spec => ChunkCountedWhenStored`
for every DFU type, modem-full included, and every number of chunks, boot
chunks and retries. `ChunkCountedWhenStored` is an action property
(`[][...]_vars`). So the proof shows that `CInv /\ [Next]_vars` implies
the step formula (lemma `CountStep`), and that `CInv` is inductive
(`InitCInv`, `NextCInv`). PTL then combines the two.

`CInv == RInv /\ WriteLockStep`. `WriteLockStep` is the lock-step of
`AppLockStep`, with two changes. It holds while no wait has timed out,
whatever the DFU type. And it stops at the last apply answer the host
reads, so it says nothing of the pings. For each point of the host, it
gives the only contents the queues can have:
- at the init, write and apply commands, nothing is in flight;
- at the init wait, the INIT command, or its answer (`READY` for
  modem-full, `OK` otherwise), or `ERROR`;
- at the write waits, the command, its `OK` or `ERROR`, or the write URC;
  a URC with status 0 means the chunk is `"good"` in `stored`;
- at the apply wait, the command or its URC. For modem-full, this point is
  reached only in the boot phase.

The device's phase is tracked too (`AppliedPhase`), so that after a boot
apply with status 0 the device expects the firmware chunks.

Before the proof was written, TLC checked `CInv` on seven instances, given
as (chunks, boot chunks, retries):
- application (2,0,3) and (0,0,1);
- modem-delta (3,0,2);
- modem-full (3,1,2), (2,0,2), (3,2,2) and (1,1,3).

The proof has these parts:
- `ReadAnswer` and `ReadErr`: one poll of an expected line or of `ERROR`.
- `ResumeDelivered`: only the continuation of the write-URC wait changes
  `delivered`, and it adds `idx`.
- `PollCount`: one step per waiting point of the host.
- `NextCount`: one step per action.

`DfuSession_proofs.tla` proves
`THEOREM SessionCompletesAll == ASSUME SessionConstants PROVE SSpec => []SCompleteAll`.
The invariant `SInv` says that `done` is always a prefix `1..k` of the
image:
- empty before the init answer;
- while transferring, ending inside the current phase;
- from the apply on, ending with the phase;
- a completed session is in the firmware phase.

`SNextInv` has one step per session action. `Deliver` delivers the lowest
pending chunk, so it extends the prefix by exactly one (`DeliverInv`), and
entering a phase starts at the chunk after the previous phase
(`EnterInv`, `PhaseInterval`).

`MainControl_proofs.tla` proves three theorems for every DFU type and
size:
- `PortForOneOperation == Spec => []OneOperationPerPort`;
- `PortReleased == Spec => []PortReleasedOnExit`;
- `ExitZeroMeansDone == Spec => []ExitZeroSound`.

The invariant `MInv` has four parts:
- `TypeOK`.
- The session's `SInv`, from `DfuSession_proofs`, instantiated as `SP`
  with main's own variables. The lemma `SameSession` shows that this
  instance is the same as `MainControl`'s `Session`.
- `PortInv`: the port is open only after valid arguments, and not before
  `OpenPort`; `pc = "exit"` exactly when an exit status is set; a port
  still open at the exit means status 130.
- `SuccessInv`: `success` is false until the operation returns, and for a
  DFU it is true only once the session has completed; status 0 means no
  pending exception and, for a DFU, a completed session.

`ExitZeroSound`'s "every chunk delivered" comes from the session
invariant, through `SInvCompleteAll`.

`Backoff_proofs.tla` proves `THEOREM BackoffTypeCorrect == Spec => []TypeOK`
for every `MaxAttempts`, `Timeout` and `MaxBackoff` allowed by
`BackoffAssumption`. The strengthening is `SleepNotLast`: the loop sleeps
only when another attempt follows, so the attempt after a sleep is still
within `1..MaxAttempts`.

What stays with TLC, and why:
- Liveness: `Termination` and the fairness part of
  `SessionRefined`. These need fairness and ENABLED, which are out of the
  prover's reach.
- `WithinWorstCase`. Its reference
  `SleepRef` is `5 * 2^(k - 1)`, and the installed provers have no
  axioms for `^`: even `2^k = 2 * 2^(k - 1)` is not provable.
  `WithinWorstCase` also sums `SleepRef` with the recursive function
  `SleepTotal`, which is induction over data.
- `BinSplitOk` and `ManifestChunksOk`. They compare the read loops with
  the reference split of `ChunkRef`, whose sums (`LenSum`, the flattened
  chunk list) are recursive over the chunk sequence. A proof needs
  induction over that data, which the provers cannot instantiate.
- `SyncSuccessSound` for modem-full: it is false there (finding 3).

## 5. Not modelled

- Byte-level framing: partial lines and the substring matching on them.
- The port's settings.
- Progress output.
- The smoke tests.
- The CBOR decoding itself (`cbor2.loads` and the `CBORDecoder` that finds
  the end of the wrapper): library code; the model takes the decoded
  segment table and the header length.
- `argparse`: represented by every combination of the options.

### Next steps

1. `"modem-delta"` runs of `DfuHost` and the spec's "at most one
   outstanding command" (§5) as a violation run.
2. A composition of `MainControl` with `DfuHost` itself in place of the
   abstract session.
