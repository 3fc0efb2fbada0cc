# Verification project for PicoSDEmu

PicoSDEmu makes a Pico present itself to an SD host as an SD card in SPI mode.
The sectors live in an image file on a PC: the firmware fetches and stores them
over a line protocol on USB CDC, which a host process (`picosdemu serve`)
answers. This directory holds TLA+ models of that system, the configurations
TLC checks them with, and theorems about them that TLAPS checks.

Paths are relative to the repository: `protocol/` is `src/shared/protocol/`,
`firmware/` is `src/firmware/src/`, `terminal/` is `src/host/terminal/src/`.
`PROJECT.json` maps every definition to the lines it models.

To repeat a check: `tlc -config SdBridge.cfg MCSdBridge`, `tlapm RingQueueProofs.tla`.

## 1. The system

```
 SD client --SPI--> capture ring -> command/data framers -> card engine -> SdCardModel
                    transmit ring <-------------------------------'          | BlockBackend
                                                                       CdcSdBackend (bridge)
                                                                             |
                 CDC block service: WriteThroughBackend { pool, coordinator { client } }
                                                                             |
             shell (lines in), CDC device (one line out) --USB--> SessionDispatcher -> image file
```

The firmware is one loop (`firmware/main.cpp:33-41`): CDC device, shell, block
service, SD target. There are no threads; concurrency comes from the host
process, the USB link, the SD client and the DMA engines, which go on between
any two calls. Nothing below `main` blocks: an operation that cannot finish
returns *Pending* and is asked for again on a later pass.

| Component | State it keeps | Operations | What makes it correct |
|---|---|---|---|
| Session client (`cdc_session_client.cpp`) | pending request (kind, id), next id, session, negotiated | begin handshake/request, accept response, cancel, reset | a response completes only the request that is pending; no id is used twice in a session; the id space may run out |
| Deadline, retry controller, coordinator (`cdc_request_deadline.cpp`, `cdc_retry_controller.cpp`, `cdc_operation_coordinator.cpp`) | state, retained operation, deadline, retries scheduled, retry time | start, accept response, expire, poll, issue retry, cancel, resume, disconnect | bounded attempts; every wait ends; the operation sent again is the one retained; timer arithmetic does not wrap |
| Sector pool (`cdc_sector_buffer_pool.hpp`) | slots with sector, generation, state and data; order of last use | reserve, complete, release, find, invalidate | never evicts a slot in flight; evicts the oldest |
| Write-through backend (`cdc_write_through_backend.hpp`) | transfer in flight, media generation | begin read/write/prefetch, accept response, expire, deliver, invalidate, media changed | slot, transfer and operation agree; no stale copy is readable |
| Block service, shell, CDC device (`cdc_backend_service.cpp`, `cdc_shell.cpp`, `cdc_device.cpp`) | handshake/info flags, media info, transmit buffer | poll, handle response, begin read/write | each outstanding request has one owner; media only with a session; recovers |
| Host dispatcher (`terminal/session_dispatcher.cpp`) | established, last id, session, image | dispatch one line | a request is executed at most once per id, only in the session |
| SD bridge (`cdc_sd_backend.cpp`) | pending write | refresh media, read, write | *written* means stored in the image; *read* is the image |
| SD target (`sd_model.cpp`, `sd_card_state.cpp`, `sd_spi_card_engine.cpp`, framers, `sd_spi_target_worker.hpp`) | card state, stream, deferred read/write, framer mode, transmit queue | command, data block, stop token, poll, release, timeout | every answer belongs to what the client waits for; nothing survives its transaction |
| Ring queue (`fixed_ring_queue.hpp`) | values, head, tail, size | push, pop, clear | a bounded FIFO |
| Target monitor, worker (`sd_target_monitor.cpp`, `sd_spi_target_worker.hpp`) | CS as last seen, timed out, enabled; receive and transmit queue | poll, timeout, TARGET_ON/OFF | the bytes of a transaction, each once and in order; none of another transaction |
| SPI DMA rings (`spi_capture.cpp`, `spi_transmit.cpp`, `sd_spi_*.pio`) | ring indexes, active transfer, FIFO, shift registers | write, service, cancel, read, discard; DMA and PIO on their own | a bounded FIFO, over every wrap and cancel |
| Arbiter (`block_backend_arbiter.cpp`) | owner | expose, hide, begin and end host copy | one owner at a time |
| Media copier (`block_media_copier.cpp`) | position, ownership | copy to or from the card, observe cancellation | *complete* means copied; cancellation wins; the card is given back |
| Physical SD (`physical_sd_backend.cpp`) | initialized, blocks | initialize, read, write, flush | what it reports of the card |
| Codecs and registers (`codec.cpp`, `crc.cpp`, `text_line.cpp`, `sd_command.cpp`, `sd_registers.cpp`), storage status, host options | (almost) none | pure functions | not modelled |

**What is hard here.** A response may arrive after its request timed out and
another was sent (ids are the only protection). A host process may be replaced
without the device noticing: old lines, ids and sessions meet new ones. A write
that the host reports as failed may have reached the file. A retry that does not
fit the one-line transmit buffer is dropped without a result. The SD client may
raise CS at any moment, in the middle of a deferred operation; what is left of
its response is then spread over a queue, a ring, a FIFO and a shift register, and
the main loop notices a poll later. A card may be pulled out between any two calls
of a copy. Three modules
keep a view of the one operation in flight (pool slot, transfer, coordinator)
and must change it together on every failure path. `PROJECT.json` lists these
hazards with their lines and the property that would catch each.

## 2. Modules

| Module | Models | Built on |
|---|---|---|
| `SessionClient` | the client, as operators on its record | |
| `OperationCoordinator` | coordinator, deadline, retry schedule: one action per method | `SessionClient` |
| `OperationContract` | what the coordinator promises: abstract | |
| `RetryBackoff` | delay doubling and saturating addition on words | |
| `SectorBufferPool` | the pool, as operators on a record | |
| `WriteThroughBackend` | pool + coordinator + transfer: one action per method | `OperationCoordinator`, `SectorBufferPool` |
| `BackendService` | service, shell, transmit buffer, link, host, image | `WriteThroughBackend` |
| `SdBridge` | the bridge, as the SD target calls it | `BackendService` |
| `CardState` | `SdCardStateMachine`, as a table | |
| `BlockStore` | `BlockBackend`: what a call of it, or a late write, may do to the medium | |
| `BlockContract` | what a `BlockBackend` promises its caller: abstract | `BlockStore` |
| `SdCard` | SD target between a client and *any* `BlockStore` | `CardState`, `BlockStore` |
| `RingQueue`, `BoundedFifo` | the ring; the queue it implements | |
| `SpiTransmit` | transmit ring, DMA channel, FIFO, PIO program; implements `BoundedFifo` | |
| `SpiPath` | pins, capture ring, target monitor, worker queues, transmit path | `RingQueue`, `SpiTransmit` |
| `PhysicalSd` | the card in the socket and its driver | |
| `MediaCopy` | arbiter, copier, image, a client's writes | `PhysicalSd` |
| `OperationCoordinatorProofs`, `WriteThroughBackendProofs`, `BackendServiceProofs`, `SdBridgeProofs` | theorems, each built on the one before as the modules they are about | |
| `SdCardProofs`, `RingQueueProofs`, `SpiPathProofs`, `MediaCopyProofs` | theorems | |
| `MC*` | values of constants for TLC | |

Composition is by extension: each layer's actions are the layer below's actions
conjoined with the layer's own changes, as the C++ classes contain one another.
The SD side above the pins is cut in two at the `BlockBackend` interface. `SdCard` has a
backend that completes, defers, fails, or commits late, as it likes; `SdBridge` has a
client that reads, writes, retries on later passes and gives up as it likes. The two
sides meet in `BlockStore`: `SdCard` is built on its operators, and `SdBridge` is shown
to implement `BlockContract`, which puts the same operators into the protocol of
calls (`ImplementsStore`). So what is proved of the SD target holds over this bridge.
The same target is cut a second time, below the frames: `SpiPath` has the bytes and
an abstract engine that answers each frame with as many bytes, `SdCard` has the
engine and whole frames that arrive intact, which is what `ReceivedInOrder` and
`AnsweredInOrder` establish for an orderly client.

### How state and actions correspond

* **Session client.** `client` is a record of the class's members; request text
  is reduced to the id it carries. `nextId = 0` is the exhausted mark
  (`next_request_id_` past the largest word). Responses are records with the
  fields the client reads; a malformed line is a response that correlates with
  nothing.
* **Coordinator.** `state`, `operation`, `deadline`, `retry` are the members.
  `now` is the caller's clock: it stands for the largest word when it reaches
  `MaxTick`, where every addition saturates. A refused call is a stuttering step.
* **Pool.** `slots`, and `older`: for each used slot the set of those used less
  recently. The `last_used` stamps are only compared, so this order is all they
  carry. `release_generation` is called by tests only and left out.
* **Service.** `stage` names the part of the loop that ran last and keeps the
  loop's order; a part with nothing to do is no step. `flags` are the statics of
  `cdc_backend_service.cpp`; `tx` is the transmit buffer; `toHost` and
  `toDevice` carry whole lines. `ServicePoll` has one disjunct per branch of
  `poll_cdc_backend_service`, `ShellPoll` one per branch of the response handler.
  `Refusal` makes the dispatcher's checks in the order the code does. A host
  process is a session number; the next process has a new one and no memory.
* **Bridge.** `pendingWrite` is `write_pending_` with its sector and data;
  `call` is the SD operation in progress with the last result it was given.
  `refresh_media` runs on every pass before any other call, so its effect is
  applied to the step that takes the medium away. As a `BlockStore` the bridge's
  medium is `image`, and its late writes (`OpenWrites`) are those on their way to the
  serving host and the one the coordinator may send again.
* **SD target.** Frames are whole: a command, a block, a token; `tx` holds
  items and `Used` their room in the queue. `client` is what the SD host waits
  for. Each command branch of `SdCardModel::execute` is a disjunct of `Execute`;
  `Cleanup` is the chain of `chip_select_released` calls, which the 250 ms
  timeout makes too. `disk` and `late` are the backend's: its sectors, and
  the writes it took and has not finished.
* **Ring.** `head`, `tail`, `size`, `values` are the members; `Contents` maps
  them to the queue.
* **Transmit path.** `dma_queue`, `queue_head`, `queue_tail`, `queued_bytes`,
  `active_bytes` are the statics of `spi_transmit.cpp`; `HeadNow`, `QueuedNow` are
  their values after `finish_completed_transfer()`, with which every call begins.
  `moved` counts the words the DMA channel has read of the active span. `shifter`
  says which `wait` or `pull` the PIO program stands at; an edge of the clock is
  `PioClocked`.
* **Monitor.** `poll_sd_target_monitor` is cut into `PollStart` (CS sampled),
  `Cleanup`, `ReadByte`, `EndReading` (with the timeout, which may fire in any
  poll), `ProcessByte`, `DrainByte`, `EndDraining`: the pins, the PIO programs and the
  DMA channels act between any two. The capture ring is its unread part, because
  its reader compares offsets only: an overrun empties it. A byte carries its
  transaction and its place in the frame.
* **Physical card.** Each driver operation is one action at its return, with the
  results it may give in the card's state (`CardRead`, `CardWrite`, `CardFlush`).
  `programming` is a write the card accepted whose busy time outlasted the
  driver's wait; `Damaged` transfers are those a CRC would have caught.
* **Copy.** `pc` names the backend call or progress report the copier is at;
  `running` spans a call, whose return is an action of its own. The check of
  `cancelled()` and the decision after a call are one step, since nothing else is
  read between them. A call of the emulated client is two actions, the check of
  the owner and the call of the card.

## 3. What the runs check

All runs together take a few minutes. Passing runs:

| Run | States | Shows |
|---|---|---|
| `coordinator` | 9 thousand | The coordinator under every caller and response. `AwaitingIsGuarded`: who waits has a request out and a deadline running. `BackoffIsScheduled`, `OperationRetained`, `PendingIsNewest`. `IdsNeverReused`: what no step may do. `InFlightEnds`: each operation in flight ends. `ImplementsContract`: refinement of `OperationContract`. `TimersAreExact`: the delay and deadline arithmetic on words equals its definition on the integers |
| `backend` | 15 thousand | `SlotOwnership`, `TransferMatchesOperation`: pool, transfer and operation agree on every path. `UniqueSector`: no second copy. `CurrentMediumOnly`: no sector of an earlier generation. `EvictsOldest` |
| `bridge` | 1.4 million | Bridge, service, link and host end to end. `CoherentCache`: a sector the pool calls ready is the image's sector. `OutstandingHasOwner`, `MediaKnownOnlyInSession`, `OnlyTheActiveWriteExecutes`. `CompletedIsTheImage`: what the SD client is told is written or read is what the image holds. `PendingWriteIsCurrent`. `ImplementsStore`: refinement of `BlockContract` |
| `service_liveness` | 1 thousand | With one serving host and no session timeout, a connection leads to known media (`SessionComesUp`) and every transfer ends (`TransferEnds`), under every caller of the service |
| `sd_card` | 775 thousand | `AnswersMatch`: what is queued is what the client waits for, sectors with the content the medium has. `CommandsAnswered`: a selected card is never deaf. `AcceptedIsStored`: *accepted* means stored at the address the client means. `PendingHasClient`: a deferred operation never acts for another transaction |
| `spi_path` | 1.6 million | Whatever earlier transactions left behind, in an orderly one the bytes on their way to the engine are those the client sent and the engine has not answered (`ReceivedInOrder`), and MISO carries the answers of this transaction in order (`AnsweredInOrder`). `ImplementsFifo`, `TransmitImplementsFifo`: the receive queue, and ring + DMA channel + FIFO together, refine `BoundedFifo` in *all* transactions. `PathTypeOK` also says that the indexes of both rings are in step and the active span is queued and contiguous |
| `media_copy` | 465 thousand | `CompleteMeansCopied`: a copy that returns Complete has put every sector it counted on the destination, whatever was pulled out, busy, failed or, when it reads back, damaged meanwhile. `CancellationWins`: after a request no further backend call begins and the result is Cancelled. `OwnershipReturns`: the card is given back on every path. `CopyTypeOK` also says that the arbiter's owner is HostCopy exactly while a copy holds it |

`DeferredIsAnswered` of `sd_card` is the liveness of the SD target: a read or a
write the backend defers ends in its sector or verdict, in a fault, or with the
transaction.

Runs that end in a violation, each of a sentence in the documentation
(`PROJECT.json`, findings, has the quotes):

| Run | Shows |
|---|---|
| `timeout_recovery` | A handshake or GET_INFO wait expires; the service resets its ids to 1; the host keeps its last id and answers every new HELLO with STALE_ID, on which the service resets again. The session never comes up until the host process is restarted. |
| `bridge_read` | The SD worker retries a deferred read on the next pass; the service is busy with that very read, refuses, and the bridge turns this into *Failed*: the card faults. |
| `bridge_failed_write` | When the coordinator has given a write up, the bridge still answers *Pending*: the card is busy for ever. |
| `sd_stream_release` | `abort_pending_write` leaves `multi_read_active_` set: blocks of a CMD18 stream that CS release ended are sent in a later transaction. |
| `sd_stream_miss` | `read_next_multi_block` forgets a block the backend defers: the stream is silent for ever. |

### Divergences described but not run

Seen while modelling; the model contains the behaviour, no run states it.

* `resume_after_renegotiation` asks only whether a session is negotiated
  (`cdc_operation_coordinator.cpp:107`), which is still true of the session the
  host refused; the protocol document forbids same-session replay
  (`docs/cdc_text_protocol.md:103-104`). Only tests call it.
* `poll_cdc_backend_service` never resumes or resets a coordinator that an error
  such as BAD_SESSION parked in `Renegotiate` (`cdc_backend_service.cpp:128`).
  It needs a host process replaced unnoticed. `TransferEnds` is therefore
  checked for one process.
* `start` refuses everything in state `Failed` (`cdc_operation_coordinator.cpp:15`)
  and the service resets it only with the session: one operation abandoned, e.g.
  after repeated IO_ERROR, ends block I/O.
* The bridge's pending write outlives the transaction that was aborted and fails
  any other write afterwards (`cdc_sd_backend.cpp:47`).
* A read that fails has no error token (`sd_spi_card_engine.cpp:73`): the client
  gets R1 and then nothing. `DeferredIsAnswered` counts the fault as an end.
* The capture program stands at `wait 1 gpio 3` when CS rises without a further
  clock pulse, so the bits of an abandoned byte begin the next transaction; the
  comment at `sd_spi_capture.pio:18` and `docs/hardware_spi_target.md:65-68` say a
  partial byte does not survive.
* The transmit program keeps the byte it is shifting, and MISO as an output, until a
  clock pulse after CS is released; the same document says MISO becomes an input
  when CS is released and that a stale response does not cross transactions.
* CS raised for less than a poll is not noticed (`sd_target_monitor.cpp:49`): frames
  and responses of both transactions run on.
* `TARGET_ON` does not discard what was captured while the target was disabled
  (`sd_target_monitor.cpp:127`).
* The capture channel overruns its reader without a trace: the overflow counter
  counts the receive queue only (`spi_capture.cpp:50`).
* Between `media_present()` and `block_count()` the source card may be pulled out
  (`block_media_copier.cpp:87`): the count is 0 and the copy, verified or not, returns
  Complete with nothing copied; the header promises that every source sector is.
* A client's write that passed the arbiter's check before `hide_from_client` reaches
  the card during the copy that follows (`block_backend_arbiter.cpp:53`); the header
  says the arbiter grants exclusive access. `straddled` marks such copies.
* `PhysicalSdBackend::read` looks at neither the CRC nor the socket after the data
  token (`physical_sd_backend.cpp:236`), and without a card-detect pin an accepted
  write to a card pulled out completes: an unverified copy may be Complete and wrong.
  Error answers of the card are returned as Pending.

## 4. Bounds, and why they are enough

* **Ids** `MaxId` 3 to 7. A session needs one id for HELLO, one for GET_INFO and
  one per attempt; 6 or 7 leave a write, its retry and another operation, and
  then *run out*, so exhaustion is among the states checked.
* **Clock.** In `coordinator` the clock has 13 values and starts at 0 or next to
  the end, so every relation of `now`, deadline and retry time occurs, the
  saturated ones included. In `backend` it has two. In the service and the bridge
  `MaxTick = 0`: the clock is saturated for good, every deadline is due at any
  poll, and a poll may find it not due (`PollIdle`). This allows more
  interleavings of timeouts than a clock would, not fewer.
* **Retries** `MaximumRetries` 3 in `coordinator`, 1 above it. One retry already
  gives a late answer to an earlier attempt and a second execution of a write.
* **Words** 0..12 for delays, with every pair of limits: doubling overflows at
  the second retry.
* **Pool** 2 slots and 2 or 3 sectors: one in flight, one ready, and a choice of
  victim. **Blocks** 2: equal or not is all the properties tell apart.
* **Hosts** 2 in `bridge`: the second replaces the first, unnoticed or by a
  disconnect the device sees, with lines lost or left in the link. A third would meet
  what the second met.
* **Link** `MaxQueue` 2 lines in each direction: a late answer and a current one.
  `MaxTimeouts` 1: expired session waits are bounded because each returns to the
  initial state.
* **SD card** 2 sectors, so that a stream or a multi-block write runs over the
  end; queue room 5 with blocks of 3: as in the code (1024 and 515), one block
  and responses fit and two blocks do not.
  `MaxLate` 1: one write given up by an earlier transaction may still reach the medium.
* `DropsStreams` is FALSE in `sd_card` because `sd_stream_release` shows what
  happens when a client ends a stream by CS alone.
* **SPI path**: bytes of 2 bits and frames of 2 bytes: a byte and a frame may each be
  abandoned half way. Transmit ring of 3 words, FIFO of 1: a frame starts at every
  offset, so spans split at the end of the array. Receive queue 2, capture ring 3,
  one byte per poll stage: queue full, ring full and lapped. An orderly client sends
  up to 4 bytes in a transaction and any other `HastyBytes` = 1, which leaves its
  traces in every buffer; 2 transaction tags, one of which may still be in flight.
  The tags are a symmetry set (no liveness is checked there), and the VIEW leaves
  out slots outside the rings' contents and bytes already consumed, which no action
  reads.
* **Copy**: an image of 2 sectors and cards of 1, 2 and 3 (too small, equal,
  larger), one copy and one client write in a behaviour, from every state the card
  may be in when it starts; up to two damaged transfers. Two that are damaged alike
  cancel out, which no byte-for-byte comparison can see: the property excepts more
  than `Damage`, one when the copy verifies and none otherwise.

For safety the bounds only limit the runs: the theorems of section 6 hold for all
values, under the assumptions and the two hypotheses given there.

Deadlock is checked in every run.

## 5. Fairness

* `coordinator`: the clock ticks, the owner polls and issues ready retries, and
  calls the deadline check. Nothing obliges the host to answer.
* `service_liveness`, `timeout_recovery`, `bridge_failed_write`: weak fairness of
  device poll, shell and service poll (the loop runs for ever), of the link, of a
  host that answers lines, and of a due deadline or retry being taken
  (`PollDue`: time passes). The bridge adds the retry of a pending call, which the SD
  worker makes on every pass.
* `sd_card`, `sd_stream_miss`: the main loop polls, the client keeps clocking, and a
  late write reaches the medium or is out of the way in the end (weak fairness). A poll
  *that yields an answer* is treated with strong fairness, because the medium may come
  and go in between: without it a backend may defer for ever and no target could answer.
* `media_copy`: weak fairness of the copier's own steps and of a call's return:
  every wait in the driver has a deadline or a count. Nothing obliges the client
  behind the arbiter or the user with the card.

No fairness is assumed of a failure, an exit or a release of CS.

## 6. What is proved

Every invariant, action property and refinement a passing run checks is a theorem for
all values of the constants. The proofs rest on the named assumptions of the modules.
Two components add a hypothesis: the SD target that the client does not drop its
streams, and `ClientAnsweredInOrder` that the answers fit the transmit
queue.

| Assumption | Says |
|---|---|
| `SessionAssumption`, `CoordinatorAssumption` | there is an id; timeouts, retries and the clock are numbers; no operation is "none" |
| `PoolAssumption`, `BackendAssumption` | there is a slot, a sector and a blank block; generations are not 0; the coordinator's operations are the backend's reads and writes |
| `ServiceAssumption` | the link holds a line; host processes have session numbers; the generation the host reports is one |
| `SdAssumption` | the card has a block; the transmit queue has room for one block and two items more, not for two blocks; a backend may complete at once; the number of late writes has a bound, any |
| `BridgeAssumption` | "no pending write" is no write |
| `RingAssumption`, `TransmitAssumption` | queue, ring and FIFO hold an element; a byte has a bit; "no value" is no value |
| `PathAssumption` | frames and the capture ring hold a byte; a byte has more than one bit; one poll takes no more bytes than the receive queue holds; queue and transmit ring carry bytes |
| `CardAssumption`, `CopyAssumption` | cards and image have sectors, with contents; a damaged sector is told apart from any content |

Liveness and enabledness are out of the prover's reach: `InFlightEnds`,
`SessionComesUp`, `TransferEnds`, `DeferredIsAnswered` and `OwnershipReturns` are only
model-checked. What the library's induction theorems cannot be used for is proved by
the smallest counterexample (`SmallestOf`).

### The coordinator (`OperationCoordinatorProofs`)

The type invariant and the four invariants of the coordinator are inductive
together (`Inductive`). Together is necessary: that a deadline exists in
`AwaitingResponse` needs that no other state has one armed when `issue()` arms it;
that a retry finds its operation needs `OperationRetained`; that a completion is the
pending request's needs `PendingIsNewest`. The steps are grouped as the code is:
one lemma for `issue()`, one for the routing of failures, one for steps of the
client alone, and one step per action in `NextInductive`. `IdsAreSpentOnce` is the
action property. `Implements`: each step maps to a step of `OperationContract` or a
stutter.

`TimersNeverWrap` says of the words of any width what `TimersAreExact` checks on words
0..12. Its two halves are `SumsAreExact` and `BackoffIsExact`: the doubling loop stops
with `min(first * 2^n, largest)` of the integers. Powers of two and the passes of the
loop are recursive functions; that such functions exist, which no prover knows, is
itself proved, from their finite beginnings (`IteratesExist`, `PowersExist`).

### The write-through backend (`WriteThroughBackendProofs`)

`CoordinatorWithin`: each step of the backend is a step of the coordinator or leaves
it alone, so `Inductive` holds inside. To it `BackendInv` adds what relates pool,
transfer and operation: `SlotOwnership`, `TransferMatchesOperation`, `UniqueSector`,
`CurrentMediumOnly`, and that the order of last use is total. Each rests on
another: a read reserves a second slot for a sector unless ownership says nothing
is in flight and the lookup found no ready copy; the victim exists and is the
oldest only if the order is total (`VictimIsFreeOrOldest`), from which
`OldestIsEvicted` follows. The operators of the pool have a lemma each.

### The service end to end (`BackendServiceProofs`)

The theorems are about `ServiceUse`: the service under *any* calls a SD side makes
while media is ready, with hosts that exit, start and are replaced unnoticed, lines
that are lost, and a clock that moves. The specification of the liveness run is one
such use (`ServiceIsUse`), the bridge another.

`ServiceInv` relates the flags of the service to the client and gives every line
its shape (a HELLO has the first id and no session, other requests later ids and a
session); `OwnersAreUnique` and `MediaIsOfTheSession` follow. Coherence of the cache
needs to know which lines can still meet which host. `LinkInv` says it:

* sessions: a session on a line has been opened by a host; a greeting under way
  offers a session no line or reply has used yet, and greetings are in order;
* ids: what is under way in the session has a spent id, so the next request is
  told apart from it; nothing of the session is behind the outstanding request, and
  nothing of it is left when its answer is on the way. So an answer that correlates
  was given after every earlier request of the session was executed or lost;
* operation: a transfer line of the session is the retained operation's, and the
  answer to the outstanding request tells the image as it is;
* cache: a sector the host may still be told to write is not readable from the
  pool, and one that is readable is the image's (`CoherentCache`).

Each part is needed for another: the answer of a write is believed because no
other write can be executed between the answer and its arrival, which is the second
and third part; a write that was given up and is still on the line is harmless
because its slot was freed, which is the fourth. `CacheIsCoherent` and
`OnlyActiveWrites` follow.

### The bridge (`SdBridgeProofs`)

`BridgeIsUse`: whatever the bridge does is a call the theorems of the service are
about, so they hold under it (`BridgeKeepsService`). `CompletedIsStored` is the
invariant behind `CompletedIsStoredInTheImage`: what the
client was told stays true until its transaction is over, because neither a line the
host may still execute nor the retained operation writes that sector
(`NoWriteOf`). It holds when the result is given, since results come from a ready
copy; steps of service, link and host cannot break it, since they begin no operation
and send no write but the retained one (`ServiceMoves`, `ImageStands`).

`BridgeImplementsStore`: from the SD side, bridge, service, link, host process and
image file are *one* `BlockBackend`. Each step is a call with the result the contract
allows, or background: `ServiceIsBackground` says that service, link and host only
execute or lose writes that are open already, `ReadIsStoreRead` and `WriteIsStoreWrite`
that a result Complete is given only when no open write of that sector is left
(`OpenWritesStand`, from `LinkInv`: a ready copy means nothing of its sector is under
way) and that a call opens at most the write it was asked for. A write that fails opens
none, and an operation that failed or was dropped leaves open what was sent: that is
`late`. This is the assumption `SdCardProofs` makes of its backend, so
`AnswersAreExpected` and `AcceptedWasStored` hold of the image file. The contract says
nothing of *when* a call completes; the runs `bridge_read` and `bridge_failed_write`
show where the bridge keeps its callers waiting or fails them.

### The SD target (`SdCardProofs`)

For a client that ends its streams with CMD12 (`~DropsStreams`, as in the run; what
happens otherwise is the run `sd_stream_release`). The five invariants rest on one
about each phase of a transaction: what the client waits for, what is queued, what
is deferred and what the framer expects fit together. `CardIsTyped` includes that
the transmit queue never overflows: the refill of a stream asks for room first. The
phases are `ReadInv`, `StreamInv`, `WriteInv` and `DeferredWriteInv`; `FramerInv` says
when the framer is collecting a data block, `StoredInv` that a block whose acceptance
is queued is on the medium already, and `QueuedInv` that no late write can change a
sector or a block while an answer about it is queued: a backend that completed a read
with a write of the same sector still open would break both. Each
action has a lemma that it keeps `SdInv`.

### Rings and byte path (`RingQueueProofs`, `SpiPathProofs`)

`RingIsFifo`: under the mapping of the ring to `Contents` a push appends, since the
slot it writes lies in none of the queued positions, and a pop takes the head. For
the transmit path the mapping joins ring, active span, channel and FIFO; that the
span is queued and contiguous over every wrap is in `TransmitIsTyped`. In
`SpiPath` both hold in every transaction (`PathQueuesAreFifos`).
`EngineReceivesInOrder` and `ClientAnsweredInOrder` need an invariant on the order of
the bytes in all six places where they wait, and that what an earlier transaction
left is discarded before the first byte of an orderly one is taken. The second has the
hypothesis that the answers of a transaction fit the transmit queue
(`MaxBytes <= TransmitBytes`); without it the queue refuses answers, which the code
counts as overflow.

### The copy (`MediaCopyProofs`)

`CopyIsTyped` includes that the arbiter's owner is HostCopy exactly while the copier
holds it. `CopyInv` says in addition what place the copier can be at with what
(`PlacesOK`), that unless the copy is `straddled` the client stays out while it runs
(`ClientIsOut`) and that the card programs nothing from the first sector on
(`CardIsQuiet`). After an undamaged first pass image and card agree on the sectors
counted (`FirstPassCopies`); the second starts from such a copy, or one transfer was
damaged, what it reads is true, and the sectors it has passed agree
(`SecondPassCompares`). `CompleteIsCopied` follows;
`CancelIsFinal` that after a request every way on leads to Cancelled.

## 7. Left out of the models

* Bytes within a line or a frame: parsing, formatting, CRC arithmetic, the shell's
  line buffer and trace commands, the framers' byte states.
  A damaged frame or line is an input of its own.
* Requests the firmware never sends (EJECT, FLUSH, malformed fields) and
  read-only media.
* Statistics counters.
* `cdc_storage_status.cpp`: a pure classification nothing calls yet. (Arbiter, copier
  and physical SD driver are modelled although nothing instantiates them yet.)
* The bytes of the physical SD bus: `PhysicalSd` has the results of an exchange. A
  card exchanged for another during a copy, and a card initialized during one.
* Clock edges within a pulse, the capture channel's end after 2^32 bytes, the DMA
  and PIO set-up, the operating system's serial ports and file locking, option
  parsing.

## 8. Plan

Done, in this order: coordinator and its contract; backoff; pool and
backend; service with link and host; SD target; bridge; ring queue; transmit and
capture path; copier, arbiter and physical card; then the proofs, in the order of
section 6.

Next:

1. Shell line buffer, register and capacity arithmetic.
2. `PhysicalSd` and the RAM backend against `BlockContract`. The physical driver is not
   claimed to meet it: it reports a write as Pending that the card may still execute,
   and a read whatever was on the bus.
3. `PhysicalSd` and `SessionClient` operators that the proofs cite with lemmas of
   their own, where a definition is expanded more than once.
