----------------------------- MODULE SpiTransmit -----------------------------
(***************************************************************************)
(* From the card to MISO: the ring of spi_transmit.cpp, the DMA channel    *)
(* that moves contiguous spans of it into the TX FIFO, and the PIO program *)
(* sd_spi_transmit that shifts the FIFO out while CS is low.               *)
(*                                                                         *)
(* The main loop writes, services and cancels.  The DMA channel and the    *)
(* PIO run on their own, each step of theirs between any two of its steps. *)
(***************************************************************************)
EXTENDS Naturals, Sequences

CONSTANTS
    Responses, NoResponse,   \* NoResponse: what ring and OSR hold before the first byte
    DmaQueueBytes,           \* kDmaQueueBytes
    FifoDepth,               \* words of the TX FIFO
    BitsPerByte

ASSUME TransmitAssumption ==
    /\ DmaQueueBytes \in Nat \ {0}
    /\ FifoDepth \in Nat \ {0}
    /\ BitsPerByte \in Nat \ {0}
    /\ NoResponse \notin Responses

VARIABLES
    dma_queue, queue_head, queue_tail, queued_bytes, active_bytes,
    moved,      \* words of the active span the DMA channel has read
    fifo,       \* TX FIFO of the state machine
    shifter,    \* where the PIO program waits: for CS, for the FIFO, for SCK
    osr, left,  \* the byte it shifts, and how many bits of it are left
    selected    \* CS is low

ringState == <<dma_queue, queue_head, queue_tail, queued_bytes, active_bytes>>
pioState == <<shifter, osr, left>>
transmitVars == <<ringState, moved, fifo, pioState, selected>>

Offsets == 0 .. DmaQueueBytes - 1
Wrapped(offset) == IF offset < DmaQueueBytes THEN offset ELSE offset - DmaQueueBytes

TransmitInit ==
    /\ dma_queue = [offset \in Offsets |-> NoResponse]
    /\ queue_head = 0 /\ queue_tail = 0 /\ queued_bytes = 0
    /\ active_bytes = 0 /\ moved = 0
    /\ fifo = <<>>
    /\ shifter = "Select" /\ osr = NoResponse /\ left = 0
    /\ selected = FALSE

-----------------------------------------------------------------------------
\* finish_completed_transfer(), with which every operation of the main loop begins.
Finished == active_bytes # 0 /\ moved = active_bytes   \* the DMA channel is not busy
HeadNow == IF Finished THEN Wrapped(queue_head + active_bytes) ELSE queue_head
QueuedNow == IF Finished THEN queued_bytes - active_bytes ELSE queued_bytes
ActiveNow == IF Finished THEN 0 ELSE active_bytes
MovedNow == IF Finished THEN 0 ELSE moved

TransmitReady == QueuedNow < DmaQueueBytes

TryWrite(byte) ==
    /\ TransmitReady
    /\ dma_queue' = [dma_queue EXCEPT ![queue_tail] = byte]
    /\ queue_tail' = Wrapped(queue_tail + 1)
    /\ queue_head' = HeadNow
    /\ queued_bytes' = QueuedNow + 1
    /\ active_bytes' = ActiveNow
    /\ moved' = MovedNow
    /\ UNCHANGED <<fifo, pioState>>

\* The channel reads one span up to the end of the array; the rest waits for the
\* next call.
ContiguousSpan ==
    IF QueuedNow > DmaQueueBytes - HeadNow THEN DmaQueueBytes - HeadNow ELSE QueuedNow

Service ==
    /\ queue_head' = HeadNow
    /\ queued_bytes' = QueuedNow
    /\ active_bytes' = IF ActiveNow = 0 THEN ContiguousSpan ELSE ActiveNow
    /\ moved' = MovedNow
    /\ UNCHANGED <<dma_queue, queue_tail, fifo, pioState>>

KeptFifo == fifo   \* faulty: pio_sm_clear_fifos is missing
ClearedFifo == <<>>

\* cancel_spi_transmit(): the ring and the FIFO, not the byte the PIO is shifting.
Cancel ==
    /\ queue_head' = 0 /\ queue_tail' = 0 /\ queued_bytes' = 0 /\ active_bytes' = 0
    /\ moved' = 0
    /\ fifo' = ClearedFifo
    /\ UNCHANGED <<dma_queue, pioState>>

-----------------------------------------------------------------------------
DmaMoves ==
    /\ moved < active_bytes
    /\ Len(fifo) < FifoDepth
    /\ fifo' = Append(fifo, dma_queue[queue_head + moved])
    /\ moved' = moved + 1
    /\ UNCHANGED <<ringState, pioState, selected>>

PioSelected ==
    /\ shifter = "Select" /\ selected
    /\ shifter' = "Pull"
    /\ UNCHANGED <<ringState, moved, fifo, osr, left, selected>>

\* "pull block" also completes while CS is high, and then the byte is lost.
PioPulls ==
    /\ shifter = "Pull" /\ fifo # <<>>
    /\ osr' = Head(fifo)
    /\ fifo' = Tail(fifo)
    /\ IF selected
         THEN shifter' = "Shift" /\ left' = BitsPerByte
         ELSE shifter' = "Select" /\ left' = 0
    /\ UNCHANGED <<ringState, moved, selected>>

\* One clock pulse.  With CS low a bit goes out; a pulse with CS high is what makes
\* a program that is in the middle of a byte release MISO and drop the rest.
PioClocked ==
    /\ IF shifter # "Shift" THEN UNCHANGED <<shifter, left>>
       ELSE IF ~selected THEN shifter' = "Select" /\ left' = 0
       ELSE /\ left' = left - 1
            /\ shifter' = IF left = 1 THEN "Pull" ELSE "Shift"
    /\ UNCHANGED <<ringState, moved, fifo, osr>>

-----------------------------------------------------------------------------
MainLoopStep == (\E byte \in Responses : TryWrite(byte)) \/ Service \/ Cancel
PioStep == DmaMoves \/ PioSelected \/ PioPulls

TransmitNext ==
    \/ MainLoopStep /\ UNCHANGED selected
    \/ PioStep
    \/ PioClocked /\ UNCHANGED selected
    \/ selected' = ~selected /\ UNCHANGED <<ringState, moved, fifo, pioState>>

TransmitSpec == TransmitInit /\ [][TransmitNext]_transmitVars
-----------------------------------------------------------------------------
TransmitTypeOK ==
    /\ dma_queue \in [Offsets -> Responses \cup {NoResponse}]
    /\ queue_head \in Offsets /\ queue_tail \in Offsets
    /\ queued_bytes \in 0 .. DmaQueueBytes
    /\ active_bytes \in 0 .. DmaQueueBytes
    /\ moved \in 0 .. DmaQueueBytes
    /\ fifo \in Seq(Responses) /\ Len(fifo) <= FifoDepth
    /\ shifter \in {"Select", "Pull", "Shift"}
    /\ osr \in Responses \cup {NoResponse}
    /\ left \in 0 .. BitsPerByte
    /\ selected \in BOOLEAN

\* The indexes of the main loop agree with what the channel is doing: the active
\* span is queued, does not cross the end of the array, and the tail is where the
\* byte after the last queued one goes.
SpanIsQueued ==
    /\ moved <= active_bytes /\ active_bytes <= queued_bytes
    /\ queue_head + active_bytes <= DmaQueueBytes
    /\ queue_tail = Wrapped(queue_head + queued_bytes)

\* What has been written and not yet pulled: the FIFO, then the rest of the ring.
Unmoved == [i \in 1 .. queued_bytes - moved |-> dma_queue[Wrapped(queue_head + moved + i - 1)]]
Remaining == fifo \o Unmoved

Wire == INSTANCE BoundedFifo
            WITH Values <- Responses, NoValue <- NoResponse,
                 Capacity <- DmaQueueBytes + FifoDepth,
                 queue <- Remaining, output <- osr

\* Ring, DMA channel and FIFO together are one bounded FIFO: the PIO pulls the bytes
\* that were written, each once and in order, over every wrap of the ring and every
\* span, and nothing that was written before a cancel.
TransmitImplementsFifo == Wire!Spec
=============================================================================
