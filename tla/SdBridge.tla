------------------------------- MODULE SdBridge -------------------------------
(***************************************************************************)
(* CdcSdBackend, the adapter between the SD card model and the CDC block   *)
(* service, under the calls the SD side makes: a read or a write command,  *)
(* its retry on every later pass of the main loop while it is pending, and *)
(* the release of CS, which drops it.                                      *)
(*                                                                         *)
(* The medium has generation 1 and is writable.  refresh_media() runs on   *)
(* every pass before any other call, so its effect is applied to the step  *)
(* that takes the medium away.                                             *)
(***************************************************************************)
EXTENDS BackendService

CONSTANT NoWrite   \* write_pending_ = false

ASSUME BridgeAssumption == NoWrite \notin Lbas \X Blocks

VARIABLES
    pendingWrite,   \* pending_write_lba_, pending_write_data_
    call            \* the SD operation and the last result it was given

bridgeVars == <<serviceVars, pendingWrite, call>>

\* The SD model holds a result until the client's transaction is over.
NoCall == [kind |-> "None", lba |-> 0, data |-> Blank, result |-> "None"]
Answer(kind, lba, data, result) ==
    [kind |-> kind, lba |-> lba, data |-> data, result |-> result]
Calls == {NoCall} \cup [kind : {"Read", "Write"}, lba : Lbas, data : Blocks,
                        result : {"Complete", "Pending", "Failed"}]

BridgeInit == ServiceInit /\ pendingWrite = NoWrite /\ call = NoCall

WriteKept == pendingWrite   \* faulty: the write outlives the medium
WriteAfterRefresh == IF MediaReady' THEN pendingWrite ELSE NoWrite
Refreshed == pendingWrite' = WriteAfterRefresh

-----------------------------------------------------------------------------
\* begin_cdc_read and begin_cdc_write return false when the backend refuses
\* (Busy), when the operation does not start, and when the line does not fit.
CanBegin == MediaReady /\ ReadyForTransfer /\ Selectable(Generation)
CompleteAtOnce == IF transfer' # NoTransfer THEN "Complete" ELSE "Failed"   \* faulty
BeginResult == IF transfer' # NoTransfer THEN "Pending" ELSE "Failed"
NothingSent == UNCHANGED <<allVars, tx>>

Cached(lba) == pool.slots[FindReady(pool, lba, Generation)].data
IsCached(lba) == MediaReady /\ FindReady(pool, lba, Generation) # NoHandle

BridgeRead(lba) ==
    /\ UNCHANGED pendingWrite
    /\ \/ /\ IsCached(lba)
          /\ Deliver(lba, Generation) /\ UNCHANGED tx
          /\ call' = Answer("Read", lba, Cached(lba), "Complete")
       \/ /\ ~IsCached(lba) /\ ~CanBegin
          /\ NothingSent
          /\ call' = Answer("Read", lba, Blank, "Failed")
       \/ /\ ~IsCached(lba) /\ CanBegin
          /\ BeginCdcRead(lba)
          /\ call' = Answer("Read", lba, Blank, BeginResult)

\* The first call dispatches the write.
FirstWrite(lba, data) ==
    /\ pendingWrite = NoWrite
    /\ \/ /\ ~CanBegin
          /\ NothingSent
          /\ UNCHANGED pendingWrite
          /\ call' = Answer("Write", lba, data, "Failed")
       \/ /\ CanBegin
          /\ BeginCdcWrite(lba, data)
          /\ pendingWrite' = IF transfer' # NoTransfer THEN <<lba, data>> ELSE NoWrite
          /\ call' = Answer("Write", lba, data, BeginResult)

\* A later call completes once the acknowledged sector is cached.
Acknowledged(lba, data) == IsCached(lba) /\ Cached(lba) = data

RepeatedWrite(lba, data) ==
    /\ pendingWrite = <<lba, data>>
    /\ IF IsCached(lba) THEN Deliver(lba, Generation) /\ UNCHANGED tx ELSE NothingSent
    /\ IF MediaReady /\ Acknowledged(lba, data)
         THEN /\ pendingWrite' = NoWrite
              /\ call' = Answer("Write", lba, data, "Complete")
         ELSE /\ UNCHANGED pendingWrite
              /\ call' = Answer("Write", lba, data, "Pending")

OtherWrite(lba, data) ==
    /\ pendingWrite \notin {NoWrite, <<lba, data>>}
    /\ NothingSent
    /\ UNCHANGED pendingWrite
    /\ call' = Answer("Write", lba, data, "Failed")

BridgeWrite(lba, data) ==
    FirstWrite(lba, data) \/ RepeatedWrite(lba, data) \/ OtherWrite(lba, data)

-----------------------------------------------------------------------------
\* poll_sd_target_monitor().  A pending operation is asked for again on a later
\* pass, that is after another service poll.
InTargetPoll ==
    /\ stage \in {"service", "target"} /\ stage' = "target"
    /\ UNCHANGED <<connected, flags, toHost, toDevice, hostVars, timeouts>>

SdOperation ==
    /\ call = NoCall
    /\ InTargetPoll
    /\ \E lba \in Lbas : BridgeRead(lba) \/ \E data \in Blocks : BridgeWrite(lba, data)

SdRetry ==
    /\ call.result = "Pending" /\ stage = "service"
    /\ InTargetPoll
    /\ \/ call.kind = "Read" /\ BridgeRead(call.lba)
       \/ call.kind = "Write" /\ BridgeWrite(call.lba, call.data)

\* The client takes its answer, or gives up: nothing of this reaches the bridge.
SdRelease ==
    /\ call # NoCall
    /\ InTargetPoll
    /\ call' = NoCall
    /\ UNCHANGED <<allVars, tx, pendingWrite>>

BridgeNext ==
    \/ (ServiceStep \/ HostLeaves) /\ Refreshed /\ UNCHANGED call
    \/ SdOperation
    \/ SdRetry
    \/ SdRelease

BridgeSpec == BridgeInit /\ [][BridgeNext]_bridgeVars

\* The worker retries a pending operation on every pass.
BridgeFairSpec == BridgeSpec /\ ServiceFairness /\ WF_bridgeVars(SdRetry)
-----------------------------------------------------------------------------
BridgeTypeOK ==
    /\ ServiceTypeOK
    /\ pendingWrite \in (Lbas \X Blocks) \cup {NoWrite}
    /\ call \in Calls

\* What the SD client is told, it is told of the image file: its block is written
\* only when the file holds it, through retries of the host write, duplicates of
\* it, aborted transactions and an earlier write of the same sector ("write
\* acceptance is emitted only after a matching host acknowledgement is retained",
\* README.md), and a sector handed to it is the sector of the file, both for as long
\* as the transaction lasts.
CompletedIsTheImage == call.result = "Complete" => image[call.lba] = call.data

\* The write the bridge waits for belongs to the medium that is mounted, and is in
\* flight, acknowledged or given up: no other write is in flight meanwhile.
PendingWriteIsCurrent ==
    pendingWrite # NoWrite =>
        /\ MediaReady
        /\ operation # NoOperation /\ operation.type = "Write" =>
               pendingWrite = <<operation.lba, operation.data>>

\* The writes that may still reach the image file: those on their way to the host
\* process that serves, and the one the coordinator may send again.
OpenWrites ==
    {<<m.op.lba, m.op.data>> : m \in
        {line \in {toHost[i] : i \in 1 .. Len(toHost)} \cup ({tx} \ {NoLine}) :
            line.kind = "WRITE_BLOCKS" /\ line.session = host.session}}
    \cup {<<op.lba, op.data>> : op \in {o \in {operation} \ {NoOperation} : o.type = "Write"}}

\* Bridge, service, link, host and image file together are the BlockBackend its
\* callers expect ("callers retry the same operation until it completes or fails",
\* sd_card_state.hpp): what is read stays so until it is written again, what is
\* written is not undone by a duplicate, and nothing else changes the medium.
Store == INSTANCE BlockContract WITH
    disk <- image, late <- OpenWrites, ready <- MediaReady, call <- call,
    Sectors <- Lbas, Contents <- Blocks, NoCall <- NoCall
ImplementsStore == Store!Spec

\* "cache misses enqueue CDC work, the SPI worker defers read data tokens while
\* those requests are pending" (README.md): a read that was deferred is not failed
\* while its request is still in flight.
DeferredReadSurvives ==
    [][call.kind = "Read" /\ call.result = "Pending" /\ call'.kind = "Read"
          /\ transfer # NoTransfer /\ UNCHANGED transfer => call'.result # "Failed"]_bridgeVars

\* "terminal failures explicitly release busy so the client sees an unavailable
\* medium or I/O failure instead of hanging forever" (docs/cdc_text_protocol.md): a
\* write the coordinator has given up is not left pending.
WritePending == call.kind = "Write" /\ call.result = "Pending"
FailedWriteIsReported ==
    WritePending /\ state = "Failed" /\ CanRequest(client) ~> ~WritePending
=============================================================================
