-------------------------------- MODULE SdCard --------------------------------
(***************************************************************************)
(* The SD target: SdCardStateMachine, SdCardModel, SdSpiCardEngine and the *)
(* transmit queue of SdSpiTargetWorker, between an SD client and any       *)
(* BlockBackend.                                                           *)
(*                                                                         *)
(* MOSI and MISO are sequences of whole frames: a command, a data block, a *)
(* stop token; a response, a data block, a data response.  The client is   *)
(* the external SD host: it takes one answer before it sends the next      *)
(* frame, ends a read stream with CMD12, releases CS after a write that    *)
(* was not accepted, and may give a transaction up by releasing CS at any  *)
(* moment.  The backend is a BlockStore: it completes an operation at once,*)
(* later or never, may fail it, and may store late what it did not finish. *)
(***************************************************************************)
EXTENDS Naturals, Sequences, FiniteSets, CardState, BlockStore

CONSTANTS
    CardBlocks,        \* sectors of the medium
    Payloads,          \* 512-byte blocks
    Blank,             \* the content of a new medium
    NoBlock,           \* write_pending_ = false
    TransmitCapacity,  \* room of the transmit queue, a response byte taking 1
    BlockSize,         \* room a data block takes in it
    Results,           \* what a backend may return
    MaxLate,           \* bound on the writes the backend has under way
    DropsStreams       \* the client also ends a stream by releasing CS

ASSUME SdAssumption ==
    /\ CardBlocks \in Nat \ {0}
    /\ Blank \in Payloads /\ NoBlock \notin Payloads
    /\ BlockSize \in Nat \ {0}
    /\ TransmitCapacity \in Nat /\ TransmitCapacity < 2 * BlockSize   \* 1024 < 2 * 515
    /\ TransmitCapacity >= BlockSize + 2
    /\ Results \subseteq {"Complete", "Pending", "Failed"} /\ "Complete" \in Results
    /\ MaxLate \in Nat
    /\ DropsStreams \in BOOLEAN

VARIABLES
    card,          \* SdCardStateMachine
    app,           \* app_command_pending_
    stream,        \* multi_read_active_, next_multi_read_lba_
    pendingRead,   \* pending_read_active_, pending_read_is_multi_, pending_read_lba_
    writing,       \* pending_write_lba_, multi_write_active_
    framer,        \* SdSpiDataFramer: "Idle", or its mode while receiving
    pendingWrite,  \* pending_write_block_, or NoBlock
    exposed,       \* registers_.exposed_blocks: 0 without a medium
    tx,            \* transmit_
    select,        \* "Released", "Selected", or "TimedOut" and still selected
    client         \* the answer the client waits for

modelVars == <<card, app, stream, pendingRead, writing>>
engineVars == <<framer, pendingWrite>>
sdVars == <<modelVars, engineVars, exposed, tx, select, storeVars, client>>

Lbas == 0 .. CardBlocks - 1
Commands == {"GoIdle", "IfCond", "Status", "Stop", "CrcOnOff", "App", "SendOp", "PreErase",
             "ReadOcr", "ReadReg", "BlockLen", "Read", "ReadMulti", "Write", "WriteMulti"}
BlockCommands == {"Read", "ReadMulti", "Write", "WriteMulti"}

R1(ok) == [type |-> "R1", ok |-> ok]
DataBlock(lba) == [type |-> "Block", lba |-> lba, data |-> disk[lba]]
Register == [type |-> "Register"]
Verdict(verdict) == [type |-> "Verdict", verdict |-> verdict]

\* What the client waits for; in "Frame" it is to send data, in "Release" to
\* release CS.
Awaiting(what) == [awaits |-> what, command |-> "Stop", lba |-> 0, data |-> Blank]
NoRead == [active |-> FALSE, multi |-> FALSE, lba |-> 0]
NoStream == [active |-> FALSE, next |-> 0]
NoWriting == [lba |-> 0, multi |-> FALSE]

SdInit ==
    /\ card = "PowerUp" /\ app = FALSE
    /\ stream = NoStream /\ pendingRead = NoRead /\ writing = NoWriting
    /\ framer = "Idle" /\ pendingWrite = NoBlock
    /\ exposed = 0
    /\ tx = <<>>
    /\ select = "Released"
    /\ disk = [lba \in Lbas |-> Blank] /\ late = {}
    /\ client = Awaiting("Nothing")

-----------------------------------------------------------------------------
\* enqueue_output(): the whole output fits or none of it is queued.
Blocks(items) == {i \in DOMAIN items : items[i].type = "Block"}
Used(items) == Len(items) + Cardinality(Blocks(items)) * (BlockSize - 1)
Enqueued(queue, items) ==
    IF Used(queue) + Used(items) <= TransmitCapacity THEN queue \o items ELSE queue
Enqueue(items) == tx' = Enqueued(tx, items)

\* BlockBackend::read and write, without a medium or with one.
ReadResults == IF exposed = 0 THEN {"Failed"} ELSE Results

BackendSettles ==
    /\ Settles
    /\ UNCHANGED <<modelVars, engineVars, exposed, tx, select, client>>

-----------------------------------------------------------------------------
\* SdCardModel::execute(): in which states a command is not illegal.
InTransfer == card \in {"Ready", "Transfer"}
Legal(command) ==
    CASE command \in {"GoIdle", "App", "BlockLen"} -> TRUE
      [] command = "IfCond" -> card = "Idle"
      [] command \in {"Status", "CrcOnOff"} -> card \notin {"PowerUp", "Fault"}
      [] command = "Stop" -> card = "Transfer"
      [] command = "SendOp" -> app /\ card = "Idle"
      [] command = "PreErase" -> app /\ InTransfer
      [] OTHER -> InTransfer

AddressValid(lba) == lba < exposed

\* A command that is refused, or only answers.
ExecuteSimple(command, lba) ==
    LET refused == ~Legal(command) \/ (command \in BlockCommands /\ ~AddressValid(lba))
    IN  /\ refused \/ command \notin {"GoIdle", "Stop", "SendOp"} \cup BlockCommands
        /\ app' = IF refused /\ command \in {"SendOp", "PreErase"} THEN app ELSE command = "App"
        /\ card' = IF ~refused /\ command = "ReadReg" THEN After(card, "begin_transfer") ELSE card
        /\ Enqueue(IF ~refused /\ command = "ReadReg" THEN <<R1(TRUE), Register>>
                                                      ELSE <<R1(~refused)>>)
        /\ UNCHANGED <<stream, pendingRead, writing, storeVars>>

ExecuteGoIdle ==
    /\ card' = After(card, "enter_idle")
    /\ app' = FALSE
    /\ stream' = [stream EXCEPT !.active = FALSE]
    /\ pendingRead' = [pendingRead EXCEPT !.active = FALSE]
    /\ writing' = [writing EXCEPT !.multi = FALSE]
    /\ Enqueue(<<R1(TRUE)>>)
    /\ UNCHANGED storeVars

ExecuteSendOp ==
    /\ Legal("SendOp")
    /\ card' = After(card, "make_ready")
    /\ app' = FALSE
    /\ Enqueue(<<R1(TRUE)>>)
    /\ UNCHANGED <<stream, pendingRead, writing, storeVars>>

GoesOn(s) == s   \* faulty: CMD12 answers and the stream goes on
Stopped(s) == [s EXCEPT !.active = FALSE]

ExecuteStop ==
    /\ Legal("Stop")
    /\ app' = FALSE
    /\ stream' = Stopped(stream)
    /\ pendingRead' = [pendingRead EXCEPT !.active = FALSE]
    /\ Enqueue(<<R1(TRUE)>>)
    /\ UNCHANGED <<card, writing, storeVars>>

Deferred(result) == result = "Pending"

ExecuteRead(command, lba) ==
    /\ InTransfer /\ AddressValid(lba)
    /\ card' = After(card, "begin_transfer")
    /\ app' = FALSE
    /\ \E result \in ReadResults :
          /\ StoreRead(lba, result)
          /\ pendingRead' = [active |-> Deferred(result), multi |-> command = "ReadMulti",
                             lba |-> lba]
          /\ stream' = IF command = "ReadMulti" /\ result = "Complete"
                         THEN [active |-> TRUE, next |-> lba + 1] ELSE stream
          /\ Enqueue(IF result = "Complete" THEN <<R1(TRUE), DataBlock(lba)>> ELSE <<R1(TRUE)>>)
    /\ UNCHANGED writing

ExecuteWrite(command, lba) ==
    /\ InTransfer /\ AddressValid(lba)
    /\ card' = After(After(card, "begin_transfer"), "begin_receiving_data")
    /\ app' = FALSE
    /\ writing' = [lba |-> lba, multi |-> command = "WriteMulti"]
    /\ Enqueue(<<R1(TRUE)>>)
    /\ UNCHANGED <<stream, pendingRead, storeVars>>

\* SdSpiCardEngine: the data framer starts whenever the card is receiving after
\* a write command, even one that was refused.
ModeAfter(command) ==
    IF card' = "ReceivingData" /\ command = "Write" THEN "Single"
    ELSE IF card' = "ReceivingData" /\ command = "WriteMulti" THEN "Multi"
    ELSE framer

Execute(command, lba) ==
    /\ \/ ExecuteSimple(command, lba)
       \/ command = "GoIdle" /\ ExecuteGoIdle
       \/ command = "SendOp" /\ ExecuteSendOp
       \/ command = "Stop" /\ ExecuteStop
       \/ command \in {"Read", "ReadMulti"} /\ ExecuteRead(command, lba)
       \/ command \in {"Write", "WriteMulti"} /\ ExecuteWrite(command, lba)
    /\ framer' = ModeAfter(command)
    /\ UNCHANGED pendingWrite

\* A command reaches the card, or the data framer takes its bytes for idle clocks,
\* or the transaction was abandoned already.
SendCommand(command, lba) ==
    /\ select # "Released"
    /\ \/ client.awaits = "Nothing"
       \/ client.awaits = "Block" /\ client.command = "ReadMulti" /\ command = "Stop"
    /\ client' = [awaits |-> "R1", command |-> command, lba |-> lba, data |-> Blank]
    /\ IF select = "Selected" /\ framer = "Idle"
         THEN Execute(command, lba)
         ELSE UNCHANGED <<modelVars, engineVars, tx, storeVars>>
    /\ UNCHANGED <<exposed, select>>

\* A frame damaged on the wire: a command with CRC checking on, or a data block.
DamagedCommand ==
    /\ select = "Selected" /\ framer = "Idle" /\ client.awaits = "Nothing"
    /\ card # "PowerUp"
    /\ Enqueue(<<R1(FALSE)>>)
    /\ client' = Awaiting("R1")
    /\ UNCHANGED <<modelVars, engineVars, exposed, select, storeVars>>

-----------------------------------------------------------------------------
\* SdCardModel::write_block() of an undamaged block.
StillBusy == After(card, "begin_busy")   \* faulty: busy is not released
Committed == After(After(card, "begin_busy"), "finish_busy")

Advance ==
    IF writing.multi
      THEN LET more == AddressValid(writing.lba + 1)
           IN  /\ writing' = [lba |-> writing.lba + 1, multi |-> more]
               /\ card' = IF more THEN After(Committed, "begin_receiving_data") ELSE Committed
      ELSE card' = Committed /\ UNCHANGED writing

AcceptedEarly(result) == result # "Failed"   \* faulty: accepted before it is committed
Accepted(result) == result = "Complete"

NotRemembered(data) == NoBlock   \* faulty: a deferred write is never retried
Remembered(data) == data

WriteBlock(data) ==
    \/ /\ card # "ReceivingData"
       /\ pendingWrite' = NoBlock
       /\ Enqueue(<<Verdict("CrcError")>>)
       /\ UNCHANGED <<card, writing, storeVars>>
    \/ \E result \in ReadResults :
          /\ card = "ReceivingData"
          /\ StoreWrite(writing.lba, data, result) /\ Cardinality(late') <= MaxLate
          /\ \/ /\ Accepted(result)
                /\ pendingWrite' = NoBlock
                /\ Advance
                /\ Enqueue(<<Verdict("Accepted")>>)
             \/ /\ result = "Failed"
                /\ pendingWrite' = NoBlock
                /\ card' = After(card, "fault")
                /\ Enqueue(<<Verdict("WriteError")>>)
                /\ UNCHANGED writing
             \/ /\ result = "Pending" /\ ~Accepted(result)
                /\ pendingWrite' = Remembered(data)
                /\ UNCHANGED <<card, writing, tx>>

KeepsReceiving == framer   \* faulty: single-block mode does not end
FramerAfterBlock == IF framer = "Multi" THEN "Multi" ELSE "Idle"

SendData(data) ==
    /\ select = "Selected" /\ framer # "Idle" /\ client.awaits = "Frame"
    /\ client' = [client EXCEPT !.awaits = "Verdict", !.data = data]
    /\ framer' = FramerAfterBlock
    /\ WriteBlock(data)
    /\ UNCHANGED <<app, stream, pendingRead, exposed, select>>

DamagedData ==
    /\ select = "Selected" /\ framer # "Idle" /\ client.awaits = "Frame"
    /\ client' = [client EXCEPT !.awaits = "Verdict"]
    /\ framer' = FramerAfterBlock
    /\ Enqueue(<<Verdict("CrcError")>>)
    /\ UNCHANGED <<modelVars, pendingWrite, exposed, select, storeVars>>

\* finish_multi_write() on the stop token of CMD25, which has no answer.
SendStopToken ==
    /\ select = "Selected" /\ framer = "Multi" /\ client.awaits = "Frame"
    /\ client' = Awaiting("Nothing")
    /\ framer' = "Idle"
    /\ writing' = [writing EXCEPT !.multi = FALSE]
    /\ card' = IF writing.multi THEN After(card, "finish_receiving_data") ELSE card
    /\ UNCHANGED <<app, stream, pendingRead, pendingWrite, exposed, tx, select, storeVars>>

-----------------------------------------------------------------------------
\* poll_pending_io(), while the transmit queue is empty.
RetryRead ==
    /\ pendingRead.active
    /\ \E result \in ReadResults :
          /\ StoreRead(pendingRead.lba, result)
          /\ pendingRead' = [pendingRead EXCEPT !.active = Deferred(result)]
          /\ stream' = IF result = "Complete" /\ pendingRead.multi
                         THEN [active |-> TRUE, next |-> pendingRead.lba + 1] ELSE stream
          /\ card' = IF result = "Failed" THEN After(card, "fault") ELSE card
          /\ Enqueue(IF result = "Complete" THEN <<DataBlock(pendingRead.lba)>> ELSE <<>>)
    /\ UNCHANGED <<app, writing, engineVars>>

RetryWrite ==
    /\ ~pendingRead.active /\ pendingWrite # NoBlock
    /\ WriteBlock(pendingWrite)
    /\ UNCHANGED <<app, stream, pendingRead, framer>>

PollPendingIo ==
    /\ select = "Selected" /\ tx = <<>>
    /\ RetryRead \/ RetryWrite
    /\ UNCHANGED <<exposed, select, client>>

\* The client clocks the oldest item out, and the worker refills an emptied queue
\* with the next block of a stream, if the backend has it.
ClientAfter(item) ==
    CASE item.type = "R1" /\ client.awaits = "R1" ->
            IF ~item.ok THEN Awaiting("Nothing")
            ELSE IF client.command \in {"Read", "ReadMulti"} THEN [client EXCEPT !.awaits = "Block"]
            ELSE IF client.command = "ReadReg" THEN [client EXCEPT !.awaits = "Register"]
            ELSE IF client.command \in {"Write", "WriteMulti"} THEN [client EXCEPT !.awaits = "Frame"]
            ELSE Awaiting("Nothing")
      [] item.type = "Block" /\ client.awaits = "Block" /\ client.command = "ReadMulti" ->
            [client EXCEPT !.lba = @ + 1]
      [] item.type = "Block" /\ client.awaits = "R1" /\ client.command = "Stop" -> client
      [] item.type = "Verdict" /\ item.verdict = "Accepted" /\ client.command = "WriteMulti" ->
            [client EXCEPT !.awaits = "Frame", !.lba = @ + 1]
      [] item.type = "Verdict" /\ item.verdict # "Accepted" -> Awaiting("Release")
      [] OTHER -> Awaiting("Nothing")

Refill ==
    IF Tail(tx) = <<>> /\ stream.active /\ stream.next < exposed
      THEN \/ /\ StoreRead(stream.next, "Complete")
              /\ tx' = <<DataBlock(stream.next)>>
              /\ stream' = [stream EXCEPT !.next = @ + 1]
           \/ /\ ReadResults \ {"Complete"} # {}
              /\ tx' = <<>>
              /\ UNCHANGED <<stream, storeVars>>
      ELSE tx' = Tail(tx) /\ UNCHANGED <<stream, storeVars>>

ClockOut ==
    /\ select = "Selected" /\ tx # <<>>
    /\ client' = ClientAfter(Head(tx))
    /\ Refill
    /\ UNCHANGED <<card, app, pendingRead, writing, engineVars, exposed, select>>

-----------------------------------------------------------------------------
\* chip_select_released() of worker, engine and model (abort_pending_write).
ReadKept == pendingRead   \* faulty: the read is retried for the next transaction
ReadDropped == [pendingRead EXCEPT !.active = FALSE]

Cleanup ==
    /\ tx' = <<>>
    /\ framer' = "Idle"
    /\ pendingWrite' = NoBlock
    /\ pendingRead' = ReadDropped
    /\ card' = After(card, "finish_receiving_data")
    /\ writing' = [writing EXCEPT !.multi = FALSE]
    /\ UNCHANGED <<app, stream, exposed, storeVars>>

Streaming == client.command = "ReadMulti" /\ client.awaits \in {"R1", "Block"}

ReleaseSelect ==
    /\ select # "Released" /\ (select = "TimedOut" \/ ~Streaming \/ DropsStreams)
    /\ select' = "Released"
    /\ client' = Awaiting("Nothing")
    /\ Cleanup

AssertSelect ==
    /\ select = "Released"
    /\ select' = "Selected"
    /\ UNCHANGED <<modelVars, engineVars, exposed, tx, storeVars, client>>

\* check_transaction_timeout(): no byte was captured for 250 ms.
TransactionTimeout ==
    /\ select = "Selected" /\ (~Streaming \/ DropsStreams)
    /\ select' = "TimedOut"
    /\ Cleanup
    /\ UNCHANGED client

\* refresh_media() and refresh_capacity() find the host's medium come or gone.
MediumChanges ==
    /\ exposed # 0 => "Failed" \in Results
    /\ exposed' = IF exposed = 0 THEN CardBlocks ELSE 0
    /\ UNCHANGED <<modelVars, engineVars, tx, select, storeVars, client>>

SdNext ==
    \/ \E command \in Commands, lba \in 0 .. CardBlocks : SendCommand(command, lba)
    \/ DamagedCommand
    \/ \E data \in Payloads : SendData(data)
    \/ DamagedData
    \/ SendStopToken
    \/ PollPendingIo
    \/ ClockOut
    \/ ReleaseSelect
    \/ AssertSelect
    \/ TransactionTimeout
    \/ MediumChanges
    \/ BackendSettles

SdSpec == SdInit /\ [][SdNext]_sdVars

\* The main loop polls, the client keeps clocking, and a backend that is asked again
\* and again finishes in the end, also when its medium is away now and then.  A client
\* need not send or release anything.
SdFairness ==
    /\ WF_sdVars(ClockOut)
    /\ WF_sdVars(BackendSettles /\ late' # late)
    /\ WF_sdVars(PollPendingIo)
    /\ SF_sdVars(PollPendingIo /\ tx' # <<>>)

SdFairSpec == SdSpec /\ SdFairness
-----------------------------------------------------------------------------
Items == [type : {"Block"}, lba : Lbas, data : Payloads] \cup {R1(ok) : ok \in BOOLEAN}
           \cup {Register} \cup {Verdict(v) : v \in {"Accepted", "CrcError", "WriteError"}}

SdTypeOK ==
    /\ card \in CardStates \ {"Busy"}
    /\ app \in BOOLEAN
    /\ stream \in [active : BOOLEAN, next : 0 .. CardBlocks]
    /\ pendingRead \in [active : BOOLEAN, multi : BOOLEAN, lba : Lbas]
    /\ writing \in [lba : 0 .. CardBlocks, multi : BOOLEAN]
    /\ framer \in {"Idle", "Single", "Multi"}
    /\ pendingWrite \in Payloads \cup {NoBlock}
    /\ exposed \in {0, CardBlocks}
    /\ tx \in Seq(Items) /\ Used(tx) <= TransmitCapacity
    /\ select \in {"Released", "Selected", "TimedOut"}
    /\ disk \in [Lbas -> Payloads]
    /\ late \in SUBSET (Lbas \X Payloads)
    /\ client \in [awaits : {"Nothing", "R1", "Block", "Register", "Frame", "Verdict", "Release"},
                   command : Commands, lba : 0 .. CardBlocks, data : Payloads]

\* Whatever is on its way to the client answers what the client waits for: the
\* response of its last command, then the sector it asked for or the next one of
\* its stream, as the medium has it, then nothing; no answer outlives its
\* transaction, and no late write makes a queued sector stale.
AnswersMatch ==
    CASE client.awaits = "R1" ->
            \/ tx = <<>>
            \/ \E ok \in BOOLEAN : tx = <<R1(ok)>>
            \/ client.command = "ReadReg" /\ tx = <<R1(TRUE), Register>>
            \/ client.command \in {"Read", "ReadMulti"} /\ tx = <<R1(TRUE), DataBlock(client.lba)>>
            \/ client.command = "Stop" /\ \E lba \in Lbas, ok \in BOOLEAN : tx = <<DataBlock(lba), R1(ok)>>
      [] client.awaits = "Block" -> tx = <<>> \/ tx = <<DataBlock(client.lba)>>
      [] client.awaits = "Register" -> tx = <<>> \/ tx = <<Register>>
      [] client.awaits = "Verdict" -> tx = <<>> \/ \E v \in {"Accepted", "CrcError", "WriteError"} : tx = <<Verdict(v)>>
      [] OTHER -> tx = <<>>

\* A selected card is never deaf: the response to a command is on its way until
\* the client has it, so no command is swallowed by the data framer and no
\* response is dropped for want of room in the transmit queue.
CommandsAnswered ==
    client.awaits = "R1" /\ select = "Selected" =>
        \E i \in DOMAIN tx : tx[i].type = "R1"

\* The client is told that a block is accepted only when the backend has stored
\* it at the address the client means ("write acceptance is emitted only after a
\* matching host acknowledgement", README.md).
AcceptedIsStored ==
    tx = <<Verdict("Accepted")>> => disk[client.lba] = client.data

\* At most one operation waits for the backend, and only while the client waits
\* for it: a retry never acts for a transaction that is over.
PendingHasClient ==
    /\ pendingRead.active =>
          /\ pendingWrite = NoBlock /\ card = "Transfer"
          /\ client.awaits \in {"R1", "Block"} /\ client.command \in {"Read", "ReadMulti"}
          /\ client.lba = pendingRead.lba
    /\ pendingWrite # NoBlock =>
          /\ card = "ReceivingData" /\ client.awaits = "Verdict"
          /\ client.lba = writing.lba /\ client.data = pendingWrite

\* A client that keeps its transaction open and its clock running gets the answer
\* to a write, and a deferred read is not deferred for ever: the sector comes or the
\* read fails, while media come and go and transactions time out.
AwaitsVerdict == select = "Selected" /\ client.awaits = "Verdict"
AwaitsDeferredRead == select = "Selected" /\ pendingRead.active /\ client.awaits = "Block"
DeferredIsAnswered ==
    /\ AwaitsVerdict ~> ~AwaitsVerdict
    /\ AwaitsDeferredRead ~> ~AwaitsDeferredRead

\* The stream "stops when CMD12, CS release, or the backend capacity ends the
\* sequence" (docs/hardware_spi_target.md): a client that waits for nothing, in a
\* transaction of its own, is sent no block of an earlier stream.
ReleaseEndsStream == client.awaits = "Nothing" => tx = <<>>

\* "cache misses enqueue CDC work, the SPI worker defers read data tokens while
\* those requests are pending" (README.md): each block of a stream comes.
AwaitsInStream(lba) ==
    /\ select = "Selected"
    /\ client.awaits = "Block" /\ client.command = "ReadMulti" /\ client.lba = lba
StreamContinues == \A lba \in Lbas : AwaitsInStream(lba) ~> ~AwaitsInStream(lba)
=============================================================================
