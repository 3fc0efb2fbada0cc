------------------------------- MODULE SpiPath -------------------------------
(***************************************************************************)
(* The byte path between the client's pins and the card engine: the PIO    *)
(* program sd_spi_capture with its DMA ring, the target monitor of the     *)
(* main loop, the receive and transmit queues of SdSpiTargetWorker, and    *)
(* SpiTransmit.                                                            *)
(*                                                                         *)
(* A poll of the monitor takes many steps, and the client, the PIO and the *)
(* DMA channels act between any two of them.  The engine is abstract: each *)
(* FrameLength bytes it takes are a frame, which it answers with as many.  *)
(* A byte is tagged with its transaction and its place in the frame.       *)
(***************************************************************************)
EXTENDS RingQueue, SpiTransmit

CONSTANTS
    Transactions,   \* tags; a tag in flight is not used again
    Garbled,        \* a byte put together from bits of different bytes
    FrameLength,
    MaxBytes,       \* bytes a client sends in an orderly transaction
    HastyBytes,     \* and in any other
    CaptureBytes,   \* size of the capture ring
    TransmitBytes,  \* capacity of transmit_
    MaxPerPoll      \* kMaximumBytesPerPoll

Byte(t, k) == <<t, k % FrameLength>>
Frame(t) == [i \in 1 .. FrameLength |-> Byte(t, i - 1)]
Bytes == {Byte(t, k) : t \in Transactions, k \in 0 .. FrameLength - 1} \cup {Garbled}

ASSUME PathAssumption ==
    /\ FrameLength \in Nat \ {0} /\ MaxBytes \in Nat /\ HastyBytes \in 0 .. MaxBytes
    /\ CaptureBytes \in Nat \ {0} /\ TransmitBytes \in Nat
    /\ MaxPerPoll \in 1 .. Capacity   \* 16 of kReceiveQueueBytes
    /\ BitsPerByte > 1
    /\ Values = Bytes /\ Responses = Bytes

VARIABLES
    transaction, sent, bit,   \* client: its transaction, bytes sent, bits of the next
    capturing, isr,           \* capture program: past "wait 0 gpio 2", bits shifted in
    captured,                 \* unread part of the capture ring
    enabled,                  \* target_enabled
    seen, timedOut,           \* chip_select_was_asserted, transaction_timed_out
    stage, budget,            \* where the poll is, and bytes it may still handle
    frame, pending,           \* bytes of an unfinished frame; transmit_
    answered,                 \* bytes answered in this transaction
    orderly, manners          \* history: see Orderly below

clientVars == <<selected, transaction, sent, bit>>
captureVars == <<capturing, isr, captured>>
monitorVars == <<enabled, seen, timedOut, stage, budget>>
workerVars == <<ringVars, frame, pending, answered>>
driverVars == <<ringState, moved, fifo>>
historyVars == <<orderly, manners>>
pathVars == <<clientVars, captureVars, monitorVars, workerVars, driverVars, pioState, historyVars>>

\* History of the client.  A transaction is orderly when its client left CS high until
\* the monitor had noticed and gave a clock meanwhile, did not stop in the middle of
\* a byte (or gave that clock before the monitor looked), was not faster than the
\* monitor by a whole capture ring, and the target was enabled throughout.
Settled == [noticed |-> TRUE, idled |-> TRUE, misaligned |-> FALSE, spoilt |-> FALSE]

PathInit ==
    /\ Init /\ TransmitInit
    /\ transaction \in Transactions /\ sent = 0 /\ bit = 0
    /\ capturing = FALSE /\ isr = <<>> /\ captured = <<>>
    /\ enabled = FALSE /\ seen = FALSE /\ timedOut = FALSE
    /\ stage = "Start" /\ budget = 0
    /\ frame = <<>> /\ pending = <<>> /\ answered = 0
    /\ orderly = FALSE /\ manners = Settled

-----------------------------------------------------------------------------
\* The capture program pushes a byte each BitsPerByte bits, and DMA puts it into a
\* ring whose reader only compares offsets: a full ring looks empty.
InFull(bits) == Len(bits) = BitsPerByte
Assembled(bits) == IF \A i \in DOMAIN bits : bits[i] = bits[1] THEN bits[1] ELSE Garbled
Laps(bits) == InFull(bits) /\ Len(captured) + 1 = CaptureBytes

Capture(bits) ==
    captured' = IF Laps(bits) THEN <<>>
                ELSE IF InFull(bits) THEN Append(captured, Assembled(bits))
                ELSE captured

Shifted == IF shifter = "Shift" THEN <<osr>> ELSE <<>>

\* Tags of bytes that still travel.
InFlight ==
    LET line == isr \o captured \o Contents \o frame \o pending \o Remaining \o Shifted
    IN  {t \in Transactions : \E i \in DOMAIN line, k \in 0 .. FrameLength - 1 :
            line[i] = Byte(t, k)}

AssertSelect ==
    /\ ~selected
    /\ transaction' \in Transactions \ (InFlight \cup {transaction})
    /\ selected' = TRUE
    /\ sent' = 0 /\ bit' = 0 /\ answered' = 0
    /\ capturing' = TRUE
    /\ orderly' = (enabled /\ manners = Settled)
    /\ manners' = [manners EXCEPT !.noticed = FALSE, !.idled = FALSE, !.spoilt = FALSE]
    /\ UNCHANGED <<isr, captured, monitorVars, ringVars, frame, pending, driverVars, pioState>>

\* The client may stop in the middle of a byte.
ReleaseSelect ==
    /\ selected
    /\ selected' = FALSE
    /\ manners' = [manners EXCEPT !.noticed = FALSE, !.misaligned = @ \/ bit # 0]
    /\ UNCHANGED <<transaction, sent, bit, captureVars, monitorVars, workerVars, driverVars,
                   pioState, orderly>>

ClockBit ==
    /\ selected /\ sent < (IF orderly THEN MaxBytes ELSE HastyBytes)
    /\ LET bits == Append(isr, Byte(transaction, sent))
       IN  /\ isr' = IF InFull(bits) THEN <<>> ELSE bits
           /\ Capture(bits)
           /\ orderly' = (orderly /\ ~Laps(bits))
    /\ bit' = (bit + 1) % BitsPerByte
    /\ sent' = IF bit' = 0 THEN sent + 1 ELSE sent
    /\ PioClocked
    /\ UNCHANGED <<selected, transaction, capturing, monitorVars, workerVars, manners>>

\* A clock pulse with CS high.  Only such a pulse brings the capture program from
\* "wait 1 gpio 3" to "mov isr, null", and it samples one more bit before that.
ClockIdle ==
    /\ ~selected
    /\ IF capturing THEN Capture(Append(isr, Garbled)) ELSE UNCHANGED captured
    /\ isr' = <<>> /\ capturing' = FALSE
    /\ PioClocked
    /\ manners' = [manners EXCEPT !.idled = TRUE, !.misaligned = FALSE,
                                  !.spoilt = @ \/ (manners.misaligned /\ manners.noticed)]
    /\ UNCHANGED <<clientVars, monitorVars, workerVars, orderly>>

-----------------------------------------------------------------------------
\* discard_spi_capture_bytes()
DiscardsNothing == captured   \* faulty
Discarded == <<>>

KeptResponse == pending   \* faulty: transmit_ is not cleared
ClearedResponse == <<>>

\* worker.chip_select_released() and cancel_spi_transmit().
AbandonTransaction ==
    /\ Clear
    /\ pending' = ClearedResponse
    /\ frame' = <<>>
    /\ Cancel
    /\ UNCHANGED answered

\* update_chip_select_state(): CS is sampled first and acted upon afterwards.
PollStart ==
    /\ enabled /\ stage = "Start"
    /\ stage' = IF seen /\ ~selected THEN "Cleanup" ELSE "Read"
    /\ timedOut' = (timedOut /\ ~(~seen /\ selected))
    /\ seen' = selected
    /\ budget' = MaxPerPoll
    /\ UNCHANGED <<clientVars, captureVars, enabled, workerVars, driverVars, pioState, historyVars>>

Cleanup ==
    /\ stage = "Cleanup"
    /\ AbandonTransaction
    /\ captured' = Discarded
    /\ timedOut' = FALSE
    /\ stage' = "Read"
    /\ orderly' = (orderly /\ selected)
    /\ manners' = [manners EXCEPT !.noticed = ~selected]
    /\ UNCHANGED <<clientVars, capturing, isr, enabled, seen, budget>>

\* capture_byte() of the next captured byte; a full receive queue refuses it.
ReadByte ==
    /\ stage = "Read" /\ budget > 0 /\ captured # <<>>
    /\ TryPush(Head(captured)) \/ (Full /\ UNCHANGED ringVars)
    /\ captured' = Tail(captured)
    /\ budget' = budget - 1
    /\ UNCHANGED <<clientVars, capturing, isr, enabled, seen, timedOut, stage, frame, pending,
                   answered, driverVars, pioState, historyVars>>

\* The loop ends and check_transaction_timeout() finds 250 ms without a byte, or not.
EndReading ==
    /\ stage = "Read" /\ (budget = 0 \/ captured = <<>>)
    /\ \/ /\ seen /\ ~timedOut
          /\ AbandonTransaction
          /\ timedOut' = TRUE
          /\ stage' = "Start" /\ budget' = 0
       \/ /\ stage' = IF timedOut THEN "Start" ELSE "Process"
          /\ budget' = IF timedOut THEN 0 ELSE MaxPerPoll
          /\ UNCHANGED <<timedOut, workerVars, driverVars, pioState>>
    /\ UNCHANGED <<clientVars, captureVars, enabled, seen, historyVars>>

\* One byte of worker.process(): the engine takes it, and answers a whole frame if
\* the output fits the transmit queue.
Reply(bytes) ==
    IF \E t \in Transactions : bytes = Frame(t)
      THEN bytes ELSE [i \in 1 .. FrameLength |-> Garbled]

ProcessByte ==
    /\ stage = "Process" /\ budget > 0
    /\ TryPop
    /\ LET bytes == Append(frame, output')
           whole == Len(bytes) = FrameLength
       IN  /\ frame' = IF whole THEN <<>> ELSE bytes
           /\ pending' = IF whole /\ Len(pending) + FrameLength <= TransmitBytes
                           THEN pending \o Reply(bytes) ELSE pending
           /\ answered' = IF whole THEN answered + FrameLength ELSE answered
    /\ budget' = budget - 1
    /\ UNCHANGED <<clientVars, captureVars, enabled, seen, timedOut, stage, driverVars,
                   pioState, historyVars>>

\* drain_transmit_queue(), and service_spi_transmit() at its end.
Draining == stage = "Drain" \/ (stage = "Process" /\ (budget = 0 \/ Empty))

DrainByte ==
    /\ Draining /\ pending # <<>>
    /\ TryWrite(Head(pending))
    /\ pending' = Tail(pending)
    /\ stage' = "Drain" /\ budget' = 0
    /\ UNCHANGED <<clientVars, captureVars, enabled, seen, timedOut, ringVars, frame, answered,
                   historyVars>>

EndDraining ==
    /\ Draining /\ (pending = <<>> \/ ~TransmitReady)
    /\ Service
    /\ stage' = "Start" /\ budget' = 0
    /\ UNCHANGED <<clientVars, captureVars, enabled, seen, timedOut, workerVars, historyVars>>

-----------------------------------------------------------------------------
\* TARGET_ON and TARGET_OFF, which the shell executes between two polls.
TargetOn ==
    /\ ~enabled /\ stage = "Start"
    /\ enabled' = TRUE
    /\ UNCHANGED <<clientVars, captureVars, seen, timedOut, stage, budget, workerVars,
                   driverVars, pioState, historyVars>>

TargetOff ==
    /\ enabled /\ stage = "Start"
    /\ enabled' = FALSE
    /\ AbandonTransaction
    /\ captured' = Discarded
    /\ seen' = FALSE /\ timedOut' = FALSE
    /\ orderly' = FALSE
    /\ manners' = [manners EXCEPT !.noticed = ~selected]
    /\ UNCHANGED <<clientVars, capturing, isr, stage, budget>>

\* poll_spi_capture_trace() reads the ring while the target is disabled.
TraceByte ==
    /\ ~enabled /\ captured # <<>>
    /\ captured' = Tail(captured)
    /\ UNCHANGED <<clientVars, capturing, isr, monitorVars, workerVars, driverVars, pioState, historyVars>>

HardwareStep ==
    /\ PioStep
    /\ UNCHANGED <<transaction, sent, bit, captureVars, monitorVars, workerVars, historyVars>>

PathNext ==
    \/ AssertSelect \/ ReleaseSelect \/ ClockBit \/ ClockIdle
    \/ PollStart \/ Cleanup \/ ReadByte \/ EndReading
    \/ ProcessByte \/ DrainByte \/ EndDraining
    \/ TargetOn \/ TargetOff \/ TraceByte
    \/ HardwareStep

PathSpec == PathInit /\ [][PathNext]_pathVars
-----------------------------------------------------------------------------
PathTypeOK ==
    /\ RingTypeOK /\ TailFollowsSize
    /\ TransmitTypeOK /\ SpanIsQueued
    /\ transaction \in Transactions /\ sent \in 0 .. MaxBytes /\ bit \in 0 .. BitsPerByte - 1
    /\ capturing \in BOOLEAN
    /\ isr \in Seq(Bytes) /\ Len(isr) < BitsPerByte
    /\ captured \in Seq(Bytes) /\ Len(captured) < CaptureBytes
    /\ enabled \in BOOLEAN /\ seen \in BOOLEAN /\ timedOut \in BOOLEAN
    /\ stage \in {"Start", "Cleanup", "Read", "Process", "Drain"}
    /\ budget \in 0 .. MaxPerPoll
    /\ frame \in Seq(Bytes) /\ Len(frame) < FrameLength
    /\ pending \in Seq(Bytes) /\ Len(pending) <= TransmitBytes
    /\ answered \in Nat
    /\ orderly \in BOOLEAN
    /\ manners \in [noticed : BOOLEAN, idled : BOOLEAN, misaligned : BOOLEAN, spoilt : BOOLEAN]

\* A line of bytes of the current transaction that ends with byte number last.
EndsWith(line, last) ==
    /\ Len(line) <= last
    /\ \A i \in DOMAIN line : line[i] = Byte(transaction, last - Len(line) + i - 1)

\* The last byte of a transaction that is over may be half a byte.
Orderly == orderly /\ ~timedOut /\ (selected \/ bit = 0)

\* In an orderly transaction, whatever earlier ones left behind, the bytes that are
\* on their way to the engine are exactly those the client sent and the engine has
\* not answered: none lost, repeated, reordered or of another transaction, and each
\* frame begins with its first byte.
ReceivedInOrder ==
    Orderly =>
        LET line == frame \o Contents \o captured
        IN  /\ EndsWith(line, sent)
            /\ sent - Len(line) = answered
            /\ isr = [i \in 1 .. bit |-> Byte(transaction, sent)]

\* In an orderly transaction MISO carries the answers of that transaction in order,
\* each byte once: none of an earlier one, although the PIO, the DMA channel and the
\* main loop each hold a part of the line.
AnsweredInOrder ==
    Orderly =>
        EndsWith(Shifted \o Remaining \o pending, answered)
=============================================================================
