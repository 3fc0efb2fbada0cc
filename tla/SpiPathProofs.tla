----------------------------- MODULE SpiPathProofs -----------------------------
(***************************************************************************)
(* Proofs about SpiTransmit and SpiPath, for every size of the rings, the  *)
(* queues, the FIFO, a frame and a byte.                                   *)
(*                                                                         *)
(* The transmit side is a bounded FIFO: what the ring, the DMA span and    *)
(* the TX FIFO hold is one line, which finishing a span does not change.   *)
(* Around it, a byte of an orderly transaction has one place on the way to *)
(* the engine and its answer one place on the way back.                    *)
(***************************************************************************)
EXTENDS SpiPath, RingQueueProofs

USE TransmitAssumption

\* What the i-th queued byte of the ring is, counted from 0.
Queued(i) == dma_queue[Wrapped(queue_head + i)]

TransmitInv ==
    /\ TransmitTypeOK /\ SpanIsQueued
    /\ \A i \in 0 .. queued_bytes - 1 : Queued(i) \in Responses
    /\ shifter = "Shift" => left > 0

LEMMA InitTransmit == TransmitInit => TransmitInv
<1> SUFFICES ASSUME TransmitInit PROVE TransmitInv
  OBVIOUS
<1>1. TransmitTypeOK
  BY EmptySeq DEF TransmitInit, TransmitTypeOK, Offsets
<1> QED
  BY <1>1 DEF TransmitInit, TransmitInv, SpanIsQueued, Wrapped

\* A finished span is dropped before anything else is done; the line of bytes that
\* are not moved yet is the same before and after.
Finishing ==
    /\ HeadNow \in Offsets /\ QueuedNow \in 0 .. DmaQueueBytes
    /\ MovedNow \in Nat /\ ActiveNow \in Nat
    /\ MovedNow <= ActiveNow /\ ActiveNow <= QueuedNow
    /\ HeadNow + ActiveNow <= DmaQueueBytes
    /\ queue_tail = Wrapped(HeadNow + QueuedNow)
    /\ QueuedNow - MovedNow = queued_bytes - moved
    /\ \A i \in 0 .. QueuedNow - MovedNow :
           Wrapped(HeadNow + (MovedNow + i)) = Wrapped(queue_head + (moved + i))
    /\ \A i \in 0 .. QueuedNow - 1 : dma_queue[Wrapped(HeadNow + i)] \in Responses

LEMMA FinishingIsInvisible == TransmitInv => Finishing
<1> SUFFICES ASSUME TransmitInv PROVE Finishing
  OBVIOUS
<1>1. /\ queue_head \in 0 .. DmaQueueBytes - 1 /\ queued_bytes \in 0 .. DmaQueueBytes
      /\ active_bytes \in 0 .. DmaQueueBytes /\ moved \in 0 .. DmaQueueBytes
      /\ moved <= active_bytes /\ active_bytes <= queued_bytes
      /\ queue_head + active_bytes <= DmaQueueBytes
      /\ queue_tail = Wrapped(queue_head + queued_bytes)
  BY DEF TransmitInv, TransmitTypeOK, SpanIsQueued, Offsets
<1>2. CASE ~Finished
  <2>1. HeadNow = queue_head /\ QueuedNow = queued_bytes /\ MovedNow = moved /\ ActiveNow = active_bytes
    BY <1>2 DEF HeadNow, QueuedNow, MovedNow, ActiveNow
  <2> QED
    BY <1>1, <2>1 DEF Finishing, TransmitInv, Queued, Offsets
<1>3. CASE Finished
  <2>1. /\ moved = active_bytes /\ active_bytes # 0
        /\ HeadNow = Wrapped(queue_head + active_bytes) /\ QueuedNow = queued_bytes - active_bytes
        /\ MovedNow = 0 /\ ActiveNow = 0
    BY <1>3 DEF Finished, HeadNow, QueuedNow, MovedNow, ActiveNow
  <2>2. HeadNow \in 0 .. DmaQueueBytes - 1 /\ QueuedNow \in 0 .. DmaQueueBytes
    BY <1>1, <2>1 DEF Wrapped
  <2>3. ASSUME NEW i \in 0 .. QueuedNow
        PROVE  Wrapped(HeadNow + i) = Wrapped(queue_head + (active_bytes + i))
    BY <1>1, <2>1, <2>2 DEF Wrapped
  <2>4. queue_tail = Wrapped(HeadNow + QueuedNow)
    BY <1>1, <2>1, <2>2 DEF Wrapped
  <2>5. ASSUME NEW i \in 0 .. QueuedNow - 1
        PROVE  dma_queue[Wrapped(HeadNow + i)] \in Responses
    <3>1. active_bytes + i \in 0 .. queued_bytes - 1 /\ i \in 0 .. QueuedNow
      BY <1>1, <2>1
    <3>2. Queued(active_bytes + i) \in Responses
      BY <3>1 DEF TransmitInv
    <3> QED
      BY <2>3, <3>1, <3>2 DEF Queued
  <2>6. \A i \in 0 .. QueuedNow - MovedNow :
           Wrapped(HeadNow + (MovedNow + i)) = Wrapped(queue_head + (moved + i))
    BY <1>1, <2>1, <2>2, <2>3
  <2> QED
    BY <1>1, <2>1, <2>2, <2>4, <2>5, <2>6 DEF Finishing, Offsets
<1> QED
  BY <1>2, <1>3

-----------------------------------------------------------------------------
LEMMA TryWriteKeeps ==
    ASSUME TransmitInv, NEW byte \in Responses, TryWrite(byte), selected' \in BOOLEAN
    PROVE  TransmitInv'
<1>1. Finishing
  BY FinishingIsInvisible
<1>2. /\ QueuedNow < DmaQueueBytes
      /\ dma_queue' = [dma_queue EXCEPT ![queue_tail] = byte]
      /\ queue_tail' = Wrapped(queue_tail + 1) /\ queue_head' = HeadNow
      /\ queued_bytes' = QueuedNow + 1 /\ active_bytes' = ActiveNow /\ moved' = MovedNow
      /\ UNCHANGED <<fifo, shifter, osr, left>>
  BY DEF TryWrite, TransmitReady, pioState
<1>3. queue_tail \in Offsets
  BY DEF TransmitInv, TransmitTypeOK
<1>4. /\ HeadNow \in 0 .. DmaQueueBytes - 1 /\ QueuedNow \in 0 .. DmaQueueBytes - 1
      /\ MovedNow \in Nat /\ ActiveNow \in Nat
      /\ MovedNow <= ActiveNow /\ ActiveNow <= QueuedNow /\ HeadNow + ActiveNow <= DmaQueueBytes
      /\ queue_tail = Wrapped(HeadNow + QueuedNow)
  BY <1>1, <1>2 DEF Finishing, Offsets
<1>5. dma_queue' \in [Offsets -> Responses \cup {NoResponse}] /\ dma_queue'[queue_tail] = byte
  BY <1>2, <1>3 DEF TransmitInv, TransmitTypeOK
<1>6. TransmitTypeOK' /\ SpanIsQueued'
  <2>1. queue_tail' \in Offsets /\ queue_tail' = Wrapped(HeadNow + (QueuedNow + 1))
    BY <1>2, <1>4 DEF Wrapped, Offsets
  <2>2. /\ HeadNow \in Offsets /\ QueuedNow + 1 \in 0 .. DmaQueueBytes
        /\ ActiveNow \in 0 .. DmaQueueBytes /\ MovedNow \in 0 .. DmaQueueBytes
    BY <1>4 DEF Offsets
  <2> QED
    BY <1>2, <1>4, <1>5, <2>1, <2>2 DEF TransmitInv, TransmitTypeOK, SpanIsQueued
<1>7. ASSUME NEW i \in 0 .. queued_bytes' - 1 PROVE Queued(i)' \in Responses
  <2>1. Queued(i)' = dma_queue'[Wrapped(HeadNow + i)]
    BY <1>2 DEF Queued, Wrapped
  <2>2. CASE i = QueuedNow
    BY <1>4, <1>5, <2>1, <2>2
  <2>3. CASE i # QueuedNow
    <3>1. i \in 0 .. QueuedNow - 1
      BY <1>2, <1>4, <2>3
    <3>2. Wrapped(HeadNow + i) # queue_tail /\ Wrapped(HeadNow + i) \in Offsets
      BY <1>4, <3>1 DEF Wrapped, Offsets
    <3>3. dma_queue'[Wrapped(HeadNow + i)] = dma_queue[Wrapped(HeadNow + i)]
      BY <1>2, <3>2 DEF TransmitInv, TransmitTypeOK
    <3> QED
      BY <1>1, <2>1, <3>1, <3>3 DEF Finishing
  <2> QED
    BY <2>2, <2>3
<1> QED
  BY <1>2, <1>6, <1>7 DEF TransmitInv

LEMMA ServiceKeeps == ASSUME TransmitInv, Service, selected' \in BOOLEAN PROVE TransmitInv'
<1>1. Finishing
  BY FinishingIsInvisible
<1>2. /\ queue_head' = HeadNow /\ queued_bytes' = QueuedNow /\ moved' = MovedNow
      /\ active_bytes' = IF ActiveNow = 0 THEN ContiguousSpan ELSE ActiveNow
      /\ UNCHANGED <<dma_queue, queue_tail, fifo, shifter, osr, left>>
  BY DEF Service, pioState
<1>3. /\ HeadNow \in 0 .. DmaQueueBytes - 1 /\ QueuedNow \in 0 .. DmaQueueBytes
      /\ MovedNow \in Nat /\ ActiveNow \in Nat
      /\ MovedNow <= ActiveNow /\ ActiveNow <= QueuedNow /\ HeadNow + ActiveNow <= DmaQueueBytes
      /\ queue_tail = Wrapped(HeadNow + QueuedNow)
  BY <1>1 DEF Finishing, Offsets
<1>4. /\ active_bytes' \in 0 .. DmaQueueBytes /\ MovedNow <= active_bytes'
      /\ active_bytes' <= QueuedNow /\ HeadNow + active_bytes' <= DmaQueueBytes
  BY <1>2, <1>3 DEF ContiguousSpan
<1>5. TransmitTypeOK' /\ SpanIsQueued'
  BY <1>2, <1>3, <1>4 DEF TransmitInv, TransmitTypeOK, SpanIsQueued, Wrapped, Offsets
<1>6. \A i \in 0 .. queued_bytes' - 1 : Queued(i)' \in Responses
  BY <1>1, <1>2 DEF Finishing, Queued, Wrapped
<1> QED
  BY <1>2, <1>5, <1>6 DEF TransmitInv

LEMMA CancelKeeps == ASSUME TransmitInv, Cancel, selected' \in BOOLEAN PROVE TransmitInv'
<1>1. /\ queue_head' = 0 /\ queue_tail' = 0 /\ queued_bytes' = 0 /\ active_bytes' = 0 /\ moved' = 0
      /\ fifo' = <<>>
      /\ UNCHANGED <<dma_queue, shifter, osr, left>>
  BY DEF Cancel, ClearedFifo, pioState
<1>2. TransmitTypeOK'
  BY <1>1, EmptySeq DEF TransmitInv, TransmitTypeOK, Offsets
<1> QED
  BY <1>1, <1>2 DEF TransmitInv, SpanIsQueued, Wrapped

LEMMA DmaMovesKeeps == ASSUME TransmitInv, DmaMoves PROVE TransmitInv'
<1>1. /\ moved < active_bytes /\ Len(fifo) < FifoDepth
      /\ fifo' = Append(fifo, dma_queue[queue_head + moved]) /\ moved' = moved + 1
      /\ UNCHANGED <<dma_queue, queue_head, queue_tail, queued_bytes, active_bytes,
                     shifter, osr, left, selected>>
  BY DEF DmaMoves, ringState, pioState
<1>2. /\ queue_head \in 0 .. DmaQueueBytes - 1 /\ moved \in 0 .. DmaQueueBytes
      /\ active_bytes \in 0 .. DmaQueueBytes /\ queued_bytes \in 0 .. DmaQueueBytes
      /\ active_bytes <= queued_bytes /\ queue_head + active_bytes <= DmaQueueBytes
  BY DEF TransmitInv, TransmitTypeOK, SpanIsQueued, Offsets
<1>3. Queued(moved) \in Responses /\ Queued(moved) = dma_queue[queue_head + moved]
  <2>1. moved \in 0 .. queued_bytes - 1 /\ Wrapped(queue_head + moved) = queue_head + moved
    BY <1>1, <1>2 DEF Wrapped
  <2> QED
    BY <2>1 DEF TransmitInv, Queued
<1>4. fifo' \in Seq(Responses) /\ Len(fifo') <= FifoDepth
  BY <1>1, <1>3, AppendProperties, LenProperties DEF TransmitInv, TransmitTypeOK
<1>5. TransmitTypeOK' /\ SpanIsQueued'
  BY <1>1, <1>2, <1>4 DEF TransmitInv, TransmitTypeOK, SpanIsQueued, Wrapped
<1> QED
  BY <1>1, <1>5 DEF TransmitInv, Queued, Wrapped

LEMMA PioKeeps ==
    ASSUME TransmitInv, PioSelected \/ PioPulls \/ (PioClocked /\ UNCHANGED selected)
    PROVE  TransmitInv'
<1>1. UNCHANGED <<dma_queue, queue_head, queue_tail, queued_bytes, active_bytes, moved, selected>>
  BY DEF PioSelected, PioPulls, PioClocked, ringState
<1>2. /\ fifo' \in Seq(Responses) /\ Len(fifo') <= FifoDepth
      /\ osr' \in Responses \cup {NoResponse}
      /\ shifter' \in {"Select", "Pull", "Shift"} /\ left' \in 0 .. BitsPerByte
      /\ shifter' = "Shift" => left' > 0
  <2>1. CASE PioSelected
    BY <2>1 DEF PioSelected, TransmitInv, TransmitTypeOK
  <2>2. CASE PioPulls
    <3>1. /\ fifo \in Seq(Responses) /\ fifo # <<>>
          /\ fifo' = Tail(fifo) /\ osr' = Head(fifo)
      BY <2>2 DEF PioPulls, TransmitInv, TransmitTypeOK
    <3>2. Head(fifo) \in Responses /\ Tail(fifo) \in Seq(Responses) /\ Len(Tail(fifo)) = Len(fifo) - 1
      BY <3>1, HeadTailProperties
    <3>3. Len(fifo) \in Nat /\ Len(fifo) <= FifoDepth
      BY <3>1, LenProperties DEF TransmitInv, TransmitTypeOK
    <3>4. \/ shifter' = "Shift" /\ left' = BitsPerByte
          \/ shifter' = "Select" /\ left' = 0
      BY <2>2 DEF PioPulls
    <3> QED
      BY <3>1, <3>2, <3>3, <3>4
  <2>3. CASE PioClocked
    BY <2>3 DEF PioClocked, TransmitInv, TransmitTypeOK
  <2> QED
    BY <2>1, <2>2, <2>3
<1>3. TransmitTypeOK' /\ SpanIsQueued'
  BY <1>1, <1>2 DEF TransmitInv, TransmitTypeOK, SpanIsQueued, Wrapped
<1> QED
  BY <1>1, <1>2, <1>3 DEF TransmitInv, Queued, Wrapped

LEMMA NextKeepsTransmit == TransmitInv /\ [TransmitNext]_transmitVars => TransmitInv'
<1> SUFFICES ASSUME TransmitInv, [TransmitNext]_transmitVars PROVE TransmitInv'
  OBVIOUS
<1>1. selected \in BOOLEAN
  BY DEF TransmitInv, TransmitTypeOK
<1>2. CASE MainLoopStep /\ UNCHANGED selected
  BY <1>1, <1>2, TryWriteKeeps, ServiceKeeps, CancelKeeps DEF MainLoopStep
<1>3. CASE PioStep
  BY <1>3, DmaMovesKeeps, PioKeeps DEF PioStep
<1>4. CASE PioClocked /\ UNCHANGED selected
  BY <1>4, PioKeeps
<1>5. ASSUME UNCHANGED <<ringState, moved, fifo, pioState>>, selected' \in {selected, ~selected}
      PROVE  TransmitInv'
  <2>1. /\ UNCHANGED <<dma_queue, queue_head, queue_tail, queued_bytes, active_bytes, moved, fifo,
                       shifter, osr, left>>
        /\ selected' \in BOOLEAN
    BY <1>1, <1>5 DEF ringState, pioState
  <2> QED
    BY <2>1 DEF TransmitInv, TransmitTypeOK, SpanIsQueued, Queued, Wrapped
<1> QED
  BY <1>2, <1>3, <1>4, <1>5 DEF TransmitNext, transmitVars

-----------------------------------------------------------------------------
\* What the ring still has to give to the FIFO, element by element.
UnmovedOK ==
    /\ Unmoved \in Seq(Responses)
    /\ Len(Unmoved) = queued_bytes - moved
    /\ \A i \in 1 .. queued_bytes - moved : Unmoved[i] = Queued(moved + (i - 1))

LEMMA UnmovedTyped == TransmitInv => UnmovedOK
<1> SUFFICES ASSUME TransmitInv PROVE UnmovedOK
  OBVIOUS
<1>1. /\ queue_head \in Nat /\ moved \in Nat /\ queued_bytes \in Nat /\ moved <= queued_bytes
      /\ queued_bytes - moved \in Nat
  BY DEF TransmitInv, TransmitTypeOK, SpanIsQueued, Offsets
<1>2. ASSUME NEW i \in 1 .. queued_bytes - moved
      PROVE  /\ queue_head + moved + i - 1 = queue_head + (moved + (i - 1))
             /\ moved + (i - 1) \in 0 .. queued_bytes - 1
  BY <1>1
<1>3. \A i \in 1 .. queued_bytes - moved :
          /\ dma_queue[Wrapped(queue_head + moved + i - 1)] = Queued(moved + (i - 1))
          /\ Queued(moved + (i - 1)) \in Responses
  BY <1>2 DEF TransmitInv, Queued
<1>4. Unmoved \in [1 .. queued_bytes - moved -> Responses]
  BY <1>3 DEF Unmoved
<1>5. Unmoved \in Seq(Responses) /\ Len(Unmoved) = queued_bytes - moved
  BY <1>1, <1>4, FunctionIsSeq
<1> QED
  BY <1>3, <1>5 DEF UnmovedOK, Unmoved

LEMMA UnmovedTypedNext == TransmitInv' => UnmovedOK'
BY UnmovedTyped, PTL

\* Steps that move nothing leave the rest of the ring as it is.
LEMMA UnmovedKept ==
    ASSUME TransmitInv, TransmitInv',
           queued_bytes' - moved' = queued_bytes - moved,
           \A i \in 1 .. queued_bytes - moved :
               (Queued(moved + (i - 1)))' = Queued(moved + (i - 1))
    PROVE  Unmoved' = Unmoved
<1>1. UnmovedOK /\ UnmovedOK'
  BY UnmovedTyped, UnmovedTypedNext
<1> QED
  BY <1>1, SeqEqual DEF UnmovedOK

LEMMA ServiceKeepsLine == ASSUME TransmitInv, TransmitInv', Service PROVE Unmoved' = Unmoved
<1>1. Finishing
  BY FinishingIsInvisible
<1>2. queue_head' = HeadNow /\ queued_bytes' = QueuedNow /\ moved' = MovedNow /\ dma_queue' = dma_queue
  BY DEF Service
<1>3. queued_bytes \in Nat /\ moved \in Nat
  BY DEF TransmitInv, TransmitTypeOK
<1>4. ASSUME NEW i \in 1 .. queued_bytes - moved
      PROVE  (Queued(moved + (i - 1)))' = Queued(moved + (i - 1))
  <2>1. i - 1 \in 0 .. QueuedNow - MovedNow
    BY <1>1, <1>3 DEF Finishing
  <2>2. Wrapped(HeadNow + (MovedNow + (i - 1))) = Wrapped(queue_head + (moved + (i - 1)))
    BY <1>1, <2>1 DEF Finishing
  <2>3. (Queued(moved + (i - 1)))' = dma_queue[Wrapped(HeadNow + (MovedNow + (i - 1)))]
    BY <1>2 DEF Queued, Wrapped
  <2> QED
    BY <2>2, <2>3 DEF Queued
<1> QED
  BY <1>1, <1>2, <1>4, UnmovedKept DEF Finishing

LEMMA TryWriteAppends ==
    ASSUME TransmitInv, TransmitInv', NEW byte \in Responses, TryWrite(byte)
    PROVE  /\ Unmoved' = Append(Unmoved, byte)
           /\ Len(Unmoved) < DmaQueueBytes
<1>1. Finishing
  BY FinishingIsInvisible
<1>2. /\ QueuedNow < DmaQueueBytes
      /\ dma_queue' = [dma_queue EXCEPT ![queue_tail] = byte]
      /\ queue_head' = HeadNow /\ queued_bytes' = QueuedNow + 1 /\ moved' = MovedNow
  BY DEF TryWrite, TransmitReady
<1>3. queued_bytes \in Nat /\ moved \in Nat /\ moved <= queued_bytes /\ queue_tail \in Offsets
      /\ dma_queue \in [Offsets -> Responses \cup {NoResponse}]
  BY DEF TransmitInv, TransmitTypeOK, SpanIsQueued
<1>4. /\ HeadNow \in 0 .. DmaQueueBytes - 1 /\ QueuedNow \in 0 .. DmaQueueBytes - 1
      /\ MovedNow \in Nat /\ MovedNow <= QueuedNow
      /\ queue_tail = Wrapped(HeadNow + QueuedNow)
      /\ QueuedNow - MovedNow = queued_bytes - moved
  BY <1>1, <1>2 DEF Finishing, Offsets
<1>n. PICK n \in Nat : n = queued_bytes - moved
  BY <1>3
<1>5. UnmovedOK /\ UnmovedOK'
  BY UnmovedTyped, UnmovedTypedNext
<1>6. n < DmaQueueBytes /\ queued_bytes' - moved' = n + 1
  BY <1>2, <1>3, <1>4, <1>n
<1>7. /\ Append(Unmoved, byte) \in Seq(Responses) /\ Len(Append(Unmoved, byte)) = n + 1
      /\ \A i \in 1 .. n : Append(Unmoved, byte)[i] = Unmoved[i]
      /\ Append(Unmoved, byte)[n + 1] = byte
  BY <1>5, <1>n, AppendProperties DEF UnmovedOK
<1>8. ASSUME NEW i \in 1 .. n PROVE Unmoved'[i] = Unmoved[i]
  <2>1. i \in 1 .. n + 1 /\ i - 1 \in 0 .. QueuedNow - MovedNow
    BY <1>4, <1>6, <1>n
  <2>2. Unmoved'[i] = (Queued(moved + (i - 1)))'
    BY <1>5, <1>6, <1>n, <2>1 DEF UnmovedOK
  <2>3. (Queued(moved + (i - 1)))' = dma_queue'[Wrapped(HeadNow + (MovedNow + (i - 1)))]
    BY <1>2 DEF Queued, Wrapped
  <2>4. /\ Wrapped(HeadNow + (MovedNow + (i - 1))) # queue_tail
        /\ Wrapped(HeadNow + (MovedNow + (i - 1))) \in Offsets
    <3>1. MovedNow + (i - 1) \in 0 .. QueuedNow - 1
      BY <1>3, <1>4, <1>n
    <3> QED
      BY <1>4, <3>1 DEF Wrapped, Offsets
  <2>5. Wrapped(HeadNow + (MovedNow + (i - 1))) = Wrapped(queue_head + (moved + (i - 1)))
    BY <1>1, <2>1 DEF Finishing
  <2>6. dma_queue'[Wrapped(queue_head + (moved + (i - 1)))]
          = dma_queue[Wrapped(queue_head + (moved + (i - 1)))]
    BY <1>2, <1>3, <2>4, <2>5
  <2> QED
    BY <1>5, <1>n, <2>2, <2>3, <2>5, <2>6 DEF UnmovedOK, Queued
<1>9. Unmoved'[n + 1] = byte
  <2>1. n + 1 \in 1 .. n + 1 /\ MovedNow + ((n + 1) - 1) = QueuedNow
    BY <1>4, <1>6, <1>n
  <2>2. Unmoved'[n + 1] = (Queued(moved + ((n + 1) - 1)))'
    BY <1>5, <1>6, <1>n, <2>1 DEF UnmovedOK
  <2>3. (Queued(moved + ((n + 1) - 1)))' = dma_queue'[Wrapped(HeadNow + (MovedNow + ((n + 1) - 1)))]
    BY <1>2 DEF Queued, Wrapped
  <2> QED
    BY <1>2, <1>3, <1>4, <2>1, <2>2, <2>3
<1>10. \A i \in 1 .. n + 1 : Unmoved'[i] = Append(Unmoved, byte)[i]
  <2>1. \A i \in 1 .. n + 1 : i \in 1 .. n \/ i = n + 1
    BY <1>6
  <2> QED
    BY <1>7, <1>8, <1>9, <2>1
<1>11. Unmoved' = Append(Unmoved, byte)
  BY <1>5, <1>6, <1>7, <1>10, <1>n, SeqEqual DEF UnmovedOK
<1>12. Len(Unmoved) < DmaQueueBytes
  BY <1>5, <1>6, <1>n DEF UnmovedOK
<1> QED
  BY <1>11, <1>12

LEMMA DmaTakesHead ==
    ASSUME TransmitInv, TransmitInv', DmaMoves
    PROVE  /\ Unmoved # <<>>
           /\ Head(Unmoved) = dma_queue[queue_head + moved]
           /\ Unmoved' = Tail(Unmoved)
<1>1. /\ moved < active_bytes /\ moved' = moved + 1
      /\ UNCHANGED <<dma_queue, queue_head, queued_bytes>>
  BY DEF DmaMoves, ringState
<1>2. /\ queue_head \in 0 .. DmaQueueBytes - 1 /\ moved \in Nat
      /\ active_bytes \in Nat /\ queued_bytes \in Nat
      /\ active_bytes <= queued_bytes /\ queue_head + active_bytes <= DmaQueueBytes
  BY DEF TransmitInv, TransmitTypeOK, SpanIsQueued, Offsets
<1>3. UnmovedOK /\ UnmovedOK'
  BY UnmovedTyped, UnmovedTypedNext
<1>4. Unmoved # <<>>
  BY <1>1, <1>2, <1>3, EmptySeq DEF UnmovedOK
<1>5. Head(Unmoved) = dma_queue[queue_head + moved]
  <2>1. Unmoved[1] = Queued(moved + (1 - 1)) /\ Head(Unmoved) = Unmoved[1]
    BY <1>1, <1>2, <1>3, <1>4 DEF UnmovedOK
  <2>2. Wrapped(queue_head + (moved + (1 - 1))) = queue_head + moved
    BY <1>1, <1>2 DEF Wrapped
  <2> QED
    BY <2>1, <2>2 DEF Queued
<1>6. Unmoved' = Tail(Unmoved)
  <2>1. /\ Tail(Unmoved) \in Seq(Responses) /\ Len(Tail(Unmoved)) = queued_bytes - moved - 1
        /\ \A i \in 1 .. queued_bytes - moved - 1 : Tail(Unmoved)[i] = Unmoved[i + 1]
    BY <1>3, <1>4, HeadTailProperties DEF UnmovedOK
  <2>2. Len(Unmoved') = queued_bytes - moved - 1
    BY <1>1, <1>2, <1>3 DEF UnmovedOK
  <2>3. ASSUME NEW i \in 1 .. queued_bytes - moved - 1 PROVE Unmoved'[i] = Unmoved[i + 1]
    <3>1. i \in 1 .. queued_bytes' - moved' /\ i + 1 \in 1 .. queued_bytes - moved
      BY <1>1, <1>2
    <3>2. Unmoved'[i] = (Queued(moved + (i - 1)))' /\ Unmoved[i + 1] = Queued(moved + ((i + 1) - 1))
      BY <1>3, <3>1 DEF UnmovedOK
    <3>3. moved' + (i - 1) = moved + ((i + 1) - 1)
      BY <1>1, <1>2
    <3>4. (Queued(moved + (i - 1)))' = dma_queue[Wrapped(queue_head + (moved' + (i - 1)))]
      BY <1>1 DEF Queued, Wrapped
    <3> QED
      BY <3>2, <3>3, <3>4 DEF Queued
  <2> QED
    BY <1>3, <2>1, <2>2, <2>3, SeqEqual DEF UnmovedOK
<1> QED
  BY <1>4, <1>5, <1>6

-----------------------------------------------------------------------------
\* Moving the head of one sequence to the end of the one before it.
LEMMA MoveAcross ==
    ASSUME NEW S, NEW s \in Seq(S), NEW t \in Seq(S), t # <<>>
    PROVE  Append(s, Head(t)) \o Tail(t) = s \o t
<1>1. Head(t) \in S /\ Tail(t) \in Seq(S) /\ t = <<Head(t)>> \o Tail(t)
  <2>1. /\ Head(t) \in S /\ Tail(t) \in Seq(S) /\ Len(Tail(t)) = Len(t) - 1
        /\ \A i \in 1 .. Len(Tail(t)) : Tail(t)[i] = t[i + 1]
    BY HeadTailProperties
  <2>2. Len(t) \in Nat \ {0} /\ Head(t) = t[1]
    BY EmptySeq
  <2>3. <<Head(t)>> \in Seq(S) /\ Len(<<Head(t)>>) = 1 /\ <<Head(t)>>[1] = t[1]
    BY <2>1, <2>2
  <2>4. /\ <<Head(t)>> \o Tail(t) \in Seq(S) /\ Len(<<Head(t)>> \o Tail(t)) = Len(t)
        /\ \A i \in 1 .. Len(t) : (<<Head(t)>> \o Tail(t))[i] =
                                      IF i <= 1 THEN <<Head(t)>>[i] ELSE Tail(t)[i - 1]
    BY <2>1, <2>2, <2>3, ConcatProperties
  <2>5. ASSUME NEW i \in 1 .. Len(t) PROVE (<<Head(t)>> \o Tail(t))[i] = t[i]
    <3>1. CASE i = 1
      BY <2>3, <2>4, <3>1
    <3>2. CASE i # 1
      <4>1. i - 1 \in 1 .. Len(Tail(t)) /\ (i - 1) + 1 = i /\ ~(i <= 1)
        BY <2>1, <2>2, <3>2
      <4> QED
        BY <2>1, <2>4, <4>1
    <3> QED
      BY <3>1, <3>2
  <2> QED
    BY <2>1, <2>4, <2>5, SeqEqual
<1>2. Append(s, Head(t)) = s \o <<Head(t)>>
  BY <1>1, AppendIsConcat
<1>3. <<Head(t)>> \in Seq(S)
  BY <1>1
<1>4. (s \o <<Head(t)>>) \o Tail(t) = s \o (<<Head(t)>> \o Tail(t))
  BY <1>1, <1>3, ConcatAssociative
<1> QED
  BY <1>1, <1>2, <1>4

\* The head of a line is the head of its first part that is not empty.
LEMMA HeadOfConcat ==
    ASSUME NEW S, NEW s \in Seq(S), NEW t \in Seq(S), s # <<>>
    PROVE  s \o t # <<>> /\ Head(s \o t) = Head(s) /\ Tail(s \o t) = Tail(s) \o t
<1>1. /\ s \o t \in Seq(S) /\ Len(s \o t) = Len(s) + Len(t)
      /\ \A i \in 1 .. Len(s) + Len(t) : (s \o t)[i] = IF i <= Len(s) THEN s[i] ELSE t[i - Len(s)]
  BY ConcatProperties
<1>2. Len(s) \in Nat \ {0} /\ Len(t) \in Nat
  BY EmptySeq, LenProperties
<1>3. s \o t # <<>>
  BY <1>1, <1>2, EmptySeq
<1>4. Head(s \o t) = Head(s)
  <2>1. 1 \in 1 .. Len(s) + Len(t) /\ 1 <= Len(s)
    BY <1>2
  <2>2. (s \o t)[1] = s[1]
    BY <1>1, <2>1
  <2> QED
    BY <1>1, <1>3, <2>2
<1>5. Tail(s \o t) = Tail(s) \o t
  <2>1. /\ Tail(s) \in Seq(S) /\ Len(Tail(s)) = Len(s) - 1
        /\ \A i \in 1 .. Len(s) - 1 : Tail(s)[i] = s[i + 1]
    BY HeadTailProperties
  <2>2. /\ Tail(s \o t) \in Seq(S) /\ Len(Tail(s \o t)) = Len(s) + Len(t) - 1
        /\ \A i \in 1 .. Len(s) + Len(t) - 1 : Tail(s \o t)[i] = (s \o t)[i + 1]
    BY <1>1, <1>3, HeadTailProperties
  <2>3. /\ Tail(s) \o t \in Seq(S) /\ Len(Tail(s) \o t) = Len(s) - 1 + Len(t)
        /\ \A i \in 1 .. Len(s) - 1 + Len(t) :
               (Tail(s) \o t)[i] = IF i <= Len(s) - 1 THEN Tail(s)[i] ELSE t[i - (Len(s) - 1)]
    BY <2>1, ConcatProperties
  <2>4. ASSUME NEW i \in 1 .. Len(s) + Len(t) - 1
        PROVE  Tail(s \o t)[i] = (Tail(s) \o t)[i]
    <3>1. i + 1 \in 1 .. Len(s) + Len(t) /\ i \in 1 .. Len(s) - 1 + Len(t)
      BY <1>2
    <3>2. CASE i <= Len(s) - 1
      <4>1. i \in 1 .. Len(s) - 1 /\ i + 1 <= Len(s)
        BY <1>2, <3>2
      <4> QED
        BY <1>1, <2>1, <2>2, <2>3, <3>1, <3>2, <4>1
    <3>3. CASE ~(i <= Len(s) - 1)
      <4>1. ~(i + 1 <= Len(s)) /\ i + 1 - Len(s) = i - (Len(s) - 1)
        BY <1>2, <3>3
      <4> QED
        BY <1>1, <2>2, <2>3, <3>1, <3>3, <4>1
    <3> QED
      BY <3>2, <3>3
  <2> QED
    BY <1>2, <2>2, <2>3, <2>4, SeqEqual
<1> QED
  BY <1>3, <1>4, <1>5

LEMMA RemainingTyped ==
    TransmitInv => /\ fifo \in Seq(Responses) /\ Unmoved \in Seq(Responses)
                   /\ Remaining \in Seq(Responses)
                   /\ Len(Remaining) = Len(fifo) + Len(Unmoved)
<1> SUFFICES ASSUME TransmitInv
             PROVE  /\ fifo \in Seq(Responses) /\ Unmoved \in Seq(Responses)
                    /\ Remaining \in Seq(Responses)
                    /\ Len(Remaining) = Len(fifo) + Len(Unmoved)
  OBVIOUS
<1>1. fifo \in Seq(Responses) /\ Unmoved \in Seq(Responses)
  BY UnmovedTyped DEF TransmitInv, TransmitTypeOK, UnmovedOK
<1> QED
  BY <1>1, ConcatProperties DEF Remaining

\* What each step of the transmit side does to the line.
LEMMA TryWriteIsPush ==
    ASSUME TransmitInv, TransmitInv', NEW byte \in Responses, TryWrite(byte)
    PROVE  Wire!Push(byte)
<1>1. /\ fifo \in Seq(Responses) /\ Unmoved \in Seq(Responses)
      /\ Len(Remaining) = Len(fifo) + Len(Unmoved)
  BY RemainingTyped
<1>2. UNCHANGED <<fifo, osr>>
  BY DEF TryWrite, pioState
<1>3. Unmoved' = Append(Unmoved, byte) /\ Len(Unmoved) < DmaQueueBytes
  BY TryWriteAppends
<1>4. Len(Remaining) < DmaQueueBytes + FifoDepth
  BY <1>1, <1>3, LenProperties DEF TransmitInv, TransmitTypeOK
<1>5. Remaining' = Append(Remaining, byte)
  <2>1. <<byte>> \in Seq(Responses)
    OBVIOUS
  <2>2. Append(Unmoved, byte) = Unmoved \o <<byte>> /\ Append(Remaining, byte) = Remaining \o <<byte>>
    BY <1>1, RemainingTyped, AppendIsConcat
  <2>3. (fifo \o Unmoved) \o <<byte>> = fifo \o (Unmoved \o <<byte>>)
    BY <1>1, <2>1, ConcatAssociative
  <2> QED
    BY <1>2, <1>3, <2>2, <2>3 DEF Remaining
<1> QED
  BY <1>2, <1>4, <1>5 DEF Wire!Push

LEMMA CancelIsClear ==
    ASSUME TransmitInv, TransmitInv', Cancel
    PROVE  Wire!Clear /\ Remaining' = <<>>
<1>1. fifo' = <<>> /\ UNCHANGED osr
  BY DEF Cancel, ClearedFifo, pioState
<1>2. Unmoved' \in Seq(Responses) /\ Len(Unmoved') = 0
  BY UnmovedTypedNext DEF UnmovedOK, Cancel
<1>3. Unmoved' = <<>>
  BY <1>2, EmptySeq
<1>4. Remaining' = <<>>
  BY <1>1, <1>3 DEF Remaining
<1> QED
  BY <1>1, <1>4 DEF Wire!Clear

LEMMA DmaKeepsLine == ASSUME TransmitInv, TransmitInv', DmaMoves PROVE UNCHANGED <<Remaining, osr>>
<1>1. Unmoved # <<>> /\ Unmoved' = Tail(Unmoved) /\ fifo' = Append(fifo, Head(Unmoved)) /\ UNCHANGED osr
  BY DmaTakesHead DEF DmaMoves, pioState
<1>2. Append(fifo, Head(Unmoved)) \o Tail(Unmoved) = fifo \o Unmoved
  BY <1>1, RemainingTyped, MoveAcross
<1> QED
  BY <1>1, <1>2 DEF Remaining

LEMMA PioPullsIsPop == ASSUME TransmitInv, PioPulls PROVE Wire!Pop
<1>1. fifo # <<>> /\ osr' = Head(fifo) /\ fifo' = Tail(fifo) /\ Unmoved' = Unmoved
  BY DEF PioPulls, ringState, Unmoved, Wrapped
<1>2. /\ Remaining # <<>> /\ Head(Remaining) = Head(fifo)
      /\ Tail(Remaining) = Tail(fifo) \o Unmoved
  BY <1>1, RemainingTyped, HeadOfConcat DEF Remaining
<1> QED
  BY <1>1, <1>2 DEF Wire!Pop, Remaining

LEMMA OthersKeepLine ==
    ASSUME TransmitInv, TransmitInv',
           \/ Service
           \/ UNCHANGED <<dma_queue, queue_head, queued_bytes, moved, fifo, osr>>
    PROVE  UNCHANGED <<Remaining, osr>>
<1>1. CASE Service
  BY <1>1, ServiceKeepsLine DEF Service, Remaining, pioState
<1>2. CASE UNCHANGED <<dma_queue, queue_head, queued_bytes, moved, fifo, osr>>
  BY <1>2 DEF Remaining, Unmoved, Wrapped
<1> QED
  BY <1>1, <1>2

LEMMA TransmitStepRefines ==
    ASSUME TransmitInv, TransmitInv', [TransmitNext]_transmitVars
    PROVE  [Wire!Next]_<<Remaining, osr>>
<1>1. ASSUME NEW byte \in Responses, TryWrite(byte) PROVE Wire!Next
  BY <1>1, TryWriteIsPush DEF Wire!Next
<1>2. CASE Cancel
  BY <1>2, CancelIsClear DEF Wire!Next
<1>3. CASE PioPulls
  BY <1>3, PioPullsIsPop DEF Wire!Next
<1>4. CASE DmaMoves
  BY <1>4, DmaKeepsLine
<1>5. CASE Service
  BY <1>5, OthersKeepLine
<1>6. CASE \/ PioSelected \/ PioClocked
           \/ UNCHANGED <<ringState, moved, fifo, pioState>>
           \/ UNCHANGED transmitVars
  <2>1. UNCHANGED <<dma_queue, queue_head, queued_bytes, moved, fifo, osr>>
    BY <1>6 DEF PioSelected, PioClocked, ringState, pioState, transmitVars
  <2> QED
    BY <2>1, OthersKeepLine
<1> QED
  BY <1>1, <1>2, <1>3, <1>4, <1>5, <1>6 DEF TransmitNext, MainLoopStep, PioStep

LEMMA InitRefines == TransmitInit => Wire!Init
<1> SUFFICES ASSUME TransmitInit PROVE Wire!Init
  OBVIOUS
<1>1. TransmitInv
  BY InitTransmit
<1>2. Len(Unmoved) = 0 /\ Unmoved \in Seq(Responses)
  BY <1>1, UnmovedTyped DEF UnmovedOK, TransmitInit
<1>3. Unmoved = <<>> /\ fifo = <<>> /\ osr = NoResponse
  BY <1>2, EmptySeq DEF TransmitInit
<1> QED
  BY <1>3 DEF Wire!Init, Remaining

\* Indexes, span, FIFO and shift register keep their types.
THEOREM TransmitIsTyped == TransmitSpec => [](TransmitTypeOK /\ SpanIsQueued)
<1>1. TransmitInv => TransmitTypeOK /\ SpanIsQueued
  BY DEF TransmitInv
<1> QED
  BY <1>1, InitTransmit, NextKeepsTransmit, PTL DEF TransmitSpec

\* Ring, DMA channel and FIFO implement one bounded FIFO, for every size of each and
\* every moment at which a span ends, the channel moves a word or the line is cancelled.
THEOREM TransmitIsFifo == TransmitSpec => TransmitImplementsFifo
<1>1. TransmitInv /\ TransmitInv' /\ [TransmitNext]_transmitVars => [Wire!Next]_<<Remaining, osr>>
  BY TransmitStepRefines
<1> QED
  BY <1>1, InitTransmit, InitRefines, NextKeepsTransmit, PTL
     DEF TransmitSpec, TransmitImplementsFifo, Wire!Spec

-----------------------------------------------------------------------------
USE PathAssumption, RingAssumption

LEMMA ModSmall == ASSUME NEW m \in Nat \ {0}, NEW n \in 0 .. m - 1 PROVE n % m = n
OBVIOUS

LEMMA ModRange == ASSUME NEW m \in Nat \ {0}, NEW n \in Nat PROVE n % m \in 0 .. m - 1
OBVIOUS

LEMMA ModNext ==
    ASSUME NEW m \in Nat \ {0}, NEW n \in 0 .. m - 1
    PROVE  (n + 1) % m = IF n + 1 = m THEN 0 ELSE n + 1
OBVIOUS

LEMMA ModOfSum ==
    ASSUME NEW m \in Nat \ {0}, NEW q \in Nat, NEW n \in 0 .. m - 1
    PROVE  (m * q + n) % m = n
OBVIOUS

\* A byte of any number is a byte: its place in the frame is what counts.
LEMMA ByteTyped == \A t \in Transactions, k \in Nat : Byte(t, k) \in Bytes
<1> SUFFICES ASSUME NEW t \in Transactions, NEW k \in Nat PROVE Byte(t, k) \in Bytes
  OBVIOUS
<1>1. k % FrameLength \in 0 .. FrameLength - 1
  BY ModRange
<1>2. (k % FrameLength) % FrameLength = k % FrameLength
  BY <1>1, ModSmall
<1>3. Byte(t, k) = Byte(t, k % FrameLength)
  BY <1>2 DEF Byte
<1> QED
  BY <1>1, <1>3 DEF Bytes

LEMMA GarbledTyped == Garbled \in Bytes
BY DEF Bytes

LEMMA FrameTyped ==
    /\ \A t \in Transactions : Frame(t) \in Seq(Bytes) /\ Len(Frame(t)) = FrameLength
    /\ \A bytes : Reply(bytes) \in Seq(Bytes) /\ Len(Reply(bytes)) = FrameLength
<1>1. ASSUME NEW t \in Transactions PROVE Frame(t) \in [1 .. FrameLength -> Bytes]
  <2>1. \A i \in 1 .. FrameLength : Byte(t, i - 1) \in Bytes
    BY ByteTyped
  <2> QED
    BY <2>1 DEF Frame
<1>2. [i \in 1 .. FrameLength |-> Garbled] \in [1 .. FrameLength -> Bytes]
  BY GarbledTyped
<1>3. \A t \in Transactions : Frame(t) \in Seq(Bytes) /\ Len(Frame(t)) = FrameLength
  BY <1>1, FunctionIsSeq
<1>4. /\ [i \in 1 .. FrameLength |-> Garbled] \in Seq(Bytes)
      /\ Len([i \in 1 .. FrameLength |-> Garbled]) = FrameLength
  BY <1>2, FunctionIsSeq
<1>5. ASSUME NEW bytes PROVE Reply(bytes) \in Seq(Bytes) /\ Len(Reply(bytes)) = FrameLength
  <2>1. CASE \E t \in Transactions : bytes = Frame(t)
    BY <1>3, <2>1 DEF Reply
  <2>2. CASE ~\E t \in Transactions : bytes = Frame(t)
    BY <1>4, <2>2 DEF Reply
  <2> QED
    BY <2>1, <2>2
<1> QED
  BY <1>3, <1>5

-----------------------------------------------------------------------------
\* The types of each part of the path.
ClientTyped ==
    transaction \in Transactions /\ sent \in 0 .. MaxBytes /\ bit \in 0 .. BitsPerByte - 1

CaptureTyped ==
    /\ capturing \in BOOLEAN
    /\ isr \in Seq(Bytes) /\ Len(isr) < BitsPerByte
    /\ captured \in Seq(Bytes) /\ Len(captured) < CaptureBytes

MonitorTyped ==
    /\ enabled \in BOOLEAN /\ seen \in BOOLEAN /\ timedOut \in BOOLEAN
    /\ stage \in {"Start", "Cleanup", "Read", "Process", "Drain"}
    /\ budget \in 0 .. MaxPerPoll

WorkerTyped ==
    /\ frame \in Seq(Bytes) /\ Len(frame) < FrameLength
    /\ pending \in Seq(Bytes) /\ Len(pending) <= TransmitBytes
    /\ answered \in Nat

HistoryTyped ==
    /\ orderly \in BOOLEAN
    /\ manners \in [noticed : BOOLEAN, idled : BOOLEAN, misaligned : BOOLEAN, spoilt : BOOLEAN]

PathTyped ==
    /\ RingInv /\ Contents \in Seq(Bytes)
    /\ TransmitInv
    /\ ClientTyped /\ CaptureTyped /\ MonitorTyped /\ WorkerTyped /\ HistoryTyped

LEMMA InitPathTyped == PathInit => PathTyped
<1> SUFFICES ASSUME PathInit PROVE PathTyped
  OBVIOUS
<1>1. RingInv /\ TransmitInv
  BY InitRing, InitTransmit DEF PathInit
<1>2. Contents \in Seq(Bytes)
  BY EmptyContents, EmptySeq DEF PathInit, Init
<1>3. ClientTyped
  BY DEF PathInit, ClientTyped
<1>4. CaptureTyped /\ MonitorTyped /\ WorkerTyped
  <2>1. /\ <<>> \in Seq(Bytes) /\ Len(<<>>) = 0
        /\ 0 < BitsPerByte /\ 0 < CaptureBytes /\ 0 < FrameLength /\ 0 <= TransmitBytes
    BY EmptySeq
  <2>2. CaptureTyped
    <3>1. capturing = FALSE /\ isr = <<>> /\ captured = <<>>
      BY DEF PathInit
    <3>2. isr \in Seq(Bytes) /\ Len(isr) < BitsPerByte
      BY <2>1, <3>1
    <3>3. captured \in Seq(Bytes) /\ Len(captured) < CaptureBytes
      BY <2>1, <3>1
    <3>4. capturing \in BOOLEAN
      BY <3>1
    <3> QED
      BY <3>2, <3>3, <3>4 DEF CaptureTyped
  <2>3. MonitorTyped
    <3>1. enabled = FALSE /\ seen = FALSE /\ timedOut = FALSE /\ stage = "Start" /\ budget = 0
      BY DEF PathInit
    <3>2. enabled \in BOOLEAN /\ seen \in BOOLEAN /\ timedOut \in BOOLEAN
      BY <3>1
    <3>3. stage \in {"Start", "Cleanup", "Read", "Process", "Drain"}
      BY <3>1
    <3>4. MaxPerPoll \in Nat
      OBVIOUS
    <3>5. budget \in 0 .. MaxPerPoll
      BY <3>1, <3>4, SMT
    <3> QED
      BY <3>2, <3>3, <3>5 DEF MonitorTyped
  <2>4. WorkerTyped
    BY <2>1 DEF PathInit, WorkerTyped
  <2> QED
    BY <2>2, <2>3, <2>4
<1>5. HistoryTyped
  BY DEF PathInit, HistoryTyped, Settled
<1> QED
  BY <1>1, <1>2, <1>3, <1>4, <1>5 DEF PathTyped

\* Every step of the path is a step of the transmit side, or leaves it alone.
LEMMA TransmitWithin ==
    ASSUME PathTyped, [PathNext]_pathVars
    PROVE  [TransmitNext]_transmitVars
<1>1. selected \in BOOLEAN
  BY DEF PathTyped, TransmitInv, TransmitTypeOK
<1>2. CASE AssertSelect \/ ReleaseSelect
  BY <1>1, <1>2 DEF AssertSelect, ReleaseSelect, driverVars, TransmitNext
<1>3. CASE ClockBit \/ ClockIdle
  BY <1>3 DEF ClockBit, ClockIdle, clientVars, TransmitNext
<1>4. CASE Cleanup \/ TargetOff
  BY <1>4 DEF Cleanup, TargetOff, AbandonTransaction, clientVars, TransmitNext, MainLoopStep
<1>5. CASE EndReading
  <2>1. CASE AbandonTransaction
    BY <1>5, <2>1 DEF EndReading, AbandonTransaction, clientVars, TransmitNext, MainLoopStep
  <2>2. CASE UNCHANGED <<driverVars, pioState>>
    BY <1>5, <2>2 DEF EndReading, clientVars, driverVars, transmitVars
  <2> QED
    BY <1>5, <2>1, <2>2 DEF EndReading
<1>6. CASE DrainByte
  <2>1. pending \in Seq(Responses) /\ pending # <<>>
    BY <1>6 DEF DrainByte, PathTyped, WorkerTyped
  <2>2. Head(pending) \in Responses
    BY <2>1, HeadTailProperties
  <2> QED
    BY <1>6, <2>2 DEF DrainByte, clientVars, TransmitNext, MainLoopStep
<1>7. CASE EndDraining
  BY <1>7 DEF EndDraining, clientVars, TransmitNext, MainLoopStep
<1>8. CASE HardwareStep
  BY <1>8 DEF HardwareStep, TransmitNext
<1>9. CASE \/ PollStart \/ ReadByte \/ ProcessByte \/ TargetOn \/ TraceByte
           \/ UNCHANGED pathVars
  BY <1>9 DEF PollStart, ReadByte, ProcessByte, TargetOn, TraceByte, pathVars, clientVars,
     driverVars, transmitVars
<1> QED
  BY <1>2, <1>3, <1>4, <1>5, <1>6, <1>7, <1>8, <1>9 DEF PathNext

\* The same of the receive queue.
LEMMA RingWithin ==
    ASSUME PathTyped, [PathNext]_pathVars
    PROVE  [Next]_ringVars
<1>1. CASE Cleanup \/ TargetOff
  BY <1>1 DEF Cleanup, TargetOff, AbandonTransaction, Next
<1>2. CASE EndReading
  BY <1>2 DEF EndReading, AbandonTransaction, Next, workerVars
<1>3. CASE ReadByte
  <2>1. captured \in Seq(Bytes) /\ captured # <<>>
    BY <1>3 DEF ReadByte, PathTyped, CaptureTyped
  <2>2. Head(captured) \in Values
    BY <2>1, HeadTailProperties
  <2> QED
    BY <1>3, <2>2 DEF ReadByte, Next
<1>4. CASE ProcessByte
  BY <1>4 DEF ProcessByte, Next
<1>5. CASE \/ AssertSelect \/ ReleaseSelect \/ ClockBit \/ ClockIdle \/ PollStart
           \/ DrainByte \/ EndDraining \/ TargetOn \/ TraceByte \/ HardwareStep
           \/ UNCHANGED pathVars
  BY <1>5 DEF AssertSelect, ReleaseSelect, ClockBit, ClockIdle, PollStart, DrainByte, EndDraining,
     TargetOn, TraceByte, HardwareStep, pathVars, workerVars
<1> QED
  BY <1>1, <1>2, <1>3, <1>4, <1>5 DEF PathNext

\* What the ring holds has been pushed.
LEMMA ContentsStayBytes ==
    ASSUME RingInv, RingInv', Contents \in Seq(Bytes), [Next]_ringVars
    PROVE  Contents' \in Seq(Bytes)
<1>1. [Fifo!Next]_<<Contents, output>>
  BY StepRefines
<1>2. ASSUME NEW v \in Values, Fifo!Push(v) PROVE Contents' \in Seq(Bytes)
  BY <1>2, AppendProperties DEF Fifo!Push
<1>3. CASE Fifo!Pop
  BY <1>3, HeadTailProperties DEF Fifo!Pop
<1>4. CASE Fifo!Clear
  BY <1>4, EmptySeq DEF Fifo!Clear
<1>5. CASE UNCHANGED <<Contents, output>>
  BY <1>5
<1> QED
  BY <1>1, <1>2, <1>3, <1>4, <1>5 DEF Fifo!Next

LEMMA ClientStaysTyped ==
    ASSUME PathTyped, [PathNext]_pathVars
    PROVE  ClientTyped'
<1>1. CASE AssertSelect
  BY <1>1 DEF AssertSelect, PathTyped, ClientTyped
<1>2. CASE ClockBit
  <2>1. bit \in 0 .. BitsPerByte - 1 /\ sent \in 0 .. MaxBytes /\ transaction \in Transactions
    BY DEF PathTyped, ClientTyped
  <2>2. bit' = (bit + 1) % BitsPerByte /\ bit' \in 0 .. BitsPerByte - 1
    BY <1>2, <2>1, ModNext DEF ClockBit
  <2>3. sent < MaxBytes /\ sent' \in {sent, sent + 1}
    BY <1>2, <2>1 DEF ClockBit
  <2>4. transaction' = transaction
    BY <1>2 DEF ClockBit
  <2> QED
    BY <2>1, <2>2, <2>3, <2>4 DEF ClientTyped
<1>3. CASE \/ ReleaseSelect \/ ClockIdle \/ PollStart \/ Cleanup \/ ReadByte \/ EndReading
           \/ ProcessByte \/ DrainByte \/ EndDraining \/ TargetOn \/ TargetOff \/ TraceByte
           \/ HardwareStep \/ UNCHANGED pathVars
  <2>1. UNCHANGED <<transaction, sent, bit>>
    BY <1>3 DEF ReleaseSelect, ClockIdle, PollStart, Cleanup, ReadByte, EndReading, ProcessByte,
       DrainByte, EndDraining, TargetOn, TargetOff, TraceByte, HardwareStep, pathVars, clientVars
  <2> QED
    BY <2>1 DEF PathTyped, ClientTyped
<1> QED
  BY <1>1, <1>2, <1>3 DEF PathNext

\* What the capture program makes of one more bit.
LEMMA CaptureStaysTyped ==
    ASSUME CaptureTyped, NEW b \in Bytes, NEW bits, bits = Append(isr, b)
    PROVE  /\ bits \in Seq(Bytes) /\ Len(bits) = Len(isr) + 1 /\ Len(isr) \in Nat
           /\ InFull(bits) <=> Len(isr) + 1 = BitsPerByte
           /\ Capture(bits) => captured' \in Seq(Bytes) /\ Len(captured') < CaptureBytes
<1>1. /\ bits \in Seq(Bytes) /\ Len(bits) = Len(isr) + 1 /\ Len(isr) \in Nat
      /\ captured \in Seq(Bytes) /\ Len(captured) \in Nat /\ Len(captured) < CaptureBytes
  BY AppendProperties, LenProperties DEF CaptureTyped
<1>2. InFull(bits) <=> Len(isr) + 1 = BitsPerByte
  BY <1>1 DEF InFull
<1>3. Assembled(bits) \in Bytes
  <2>1. bits[1] \in Bytes
    BY <1>1, ElementOfSeq
  <2> QED
    BY <2>1, GarbledTyped DEF Assembled
<1>4. /\ Append(captured, Assembled(bits)) \in Seq(Bytes)
      /\ Len(Append(captured, Assembled(bits))) = Len(captured) + 1
  BY <1>1, <1>3, AppendProperties
<1>5. Capture(bits) => captured' \in Seq(Bytes) /\ Len(captured') < CaptureBytes
  <2>1. CASE Laps(bits)
    BY <2>1, EmptySeq DEF Capture
  <2>2. CASE ~Laps(bits) /\ InFull(bits)
    <3>1. Len(captured) + 1 # CaptureBytes
      BY <2>2 DEF Laps
    <3> QED
      BY <1>1, <1>4, <2>2, <3>1 DEF Capture
  <2>3. CASE ~Laps(bits) /\ ~InFull(bits)
    BY <1>1, <2>3 DEF Capture
  <2> QED
    BY <2>1, <2>2, <2>3
<1> QED
  BY <1>1, <1>2, <1>5

LEMMA CaptureSideStaysTyped ==
    ASSUME PathTyped, [PathNext]_pathVars
    PROVE  CaptureTyped'
<1>0. CaptureTyped /\ transaction \in Transactions /\ sent \in Nat
  BY DEF PathTyped, ClientTyped
<1>1. CASE AssertSelect
  BY <1>0, <1>1 DEF AssertSelect, CaptureTyped
<1>2. CASE ClockBit
  <2>1. PICK bits : bits = Append(isr, Byte(transaction, sent))
    OBVIOUS
  <2>2. /\ isr' = IF InFull(bits) THEN <<>> ELSE bits
        /\ Capture(bits) /\ capturing' = capturing
    BY <1>2, <2>1 DEF ClockBit
  <2>3. Byte(transaction, sent) \in Bytes
    BY <1>0, ByteTyped
  <2>4. /\ bits \in Seq(Bytes) /\ Len(bits) = Len(isr) + 1 /\ Len(isr) \in Nat
        /\ InFull(bits) <=> Len(isr) + 1 = BitsPerByte
        /\ captured' \in Seq(Bytes) /\ Len(captured') < CaptureBytes
    BY <1>0, <2>1, <2>2, <2>3, CaptureStaysTyped
  <2>5. isr' \in Seq(Bytes) /\ Len(isr') < BitsPerByte
    <3>1. <<>> \in Seq(Bytes) /\ Len(<<>>) = 0
      BY EmptySeq
    <3>2. CASE InFull(bits)
      BY <2>2, <3>1, <3>2
    <3>3. CASE ~InFull(bits)
      BY <1>0, <2>2, <2>4, <3>3 DEF CaptureTyped
    <3> QED
      BY <3>2, <3>3
  <2> QED
    BY <1>0, <2>2, <2>4, <2>5 DEF CaptureTyped
<1>3. CASE ClockIdle
  <2>1. captured' \in Seq(Bytes) /\ Len(captured') < CaptureBytes
    <3>1. CASE capturing
      <4>1. PICK bits : bits = Append(isr, Garbled)
        OBVIOUS
      <4> QED
        BY <1>0, <1>3, <3>1, <4>1, GarbledTyped, CaptureStaysTyped DEF ClockIdle
    <3>2. CASE ~capturing
      BY <1>0, <1>3, <3>2 DEF ClockIdle, CaptureTyped
    <3> QED
      BY <3>1, <3>2
  <2>2. isr' = <<>> /\ capturing' = FALSE
    BY <1>3 DEF ClockIdle
  <2>3. <<>> \in Seq(Bytes) /\ Len(<<>>) = 0 /\ 0 < BitsPerByte
    BY EmptySeq
  <2>4. isr' \in Seq(Bytes) /\ Len(isr') < BitsPerByte
    BY <2>2, <2>3
  <2> QED
    BY <2>1, <2>2, <2>4 DEF CaptureTyped
<1>4. CASE Cleanup \/ TargetOff
  <2>1. captured' = <<>> /\ UNCHANGED <<capturing, isr>>
    BY <1>4 DEF Cleanup, TargetOff, Discarded
  <2>2. <<>> \in Seq(Bytes) /\ Len(<<>>) = 0
    BY EmptySeq
  <2> QED
    BY <1>0, <2>1, <2>2 DEF CaptureTyped
<1>5. CASE ReadByte \/ TraceByte
  <2>1. captured # <<>> /\ captured' = Tail(captured) /\ UNCHANGED <<capturing, isr>>
    BY <1>5 DEF ReadByte, TraceByte
  <2>2. /\ captured \in Seq(Bytes) /\ Len(captured) \in Nat
        /\ Tail(captured) \in Seq(Bytes) /\ Len(Tail(captured)) = Len(captured) - 1
    BY <1>0, <2>1, HeadTailProperties, LenProperties DEF CaptureTyped
  <2> QED
    BY <1>0, <2>1, <2>2 DEF CaptureTyped
<1>6. CASE \/ ReleaseSelect \/ PollStart \/ EndReading \/ ProcessByte \/ DrainByte \/ EndDraining
           \/ TargetOn \/ HardwareStep \/ UNCHANGED pathVars
  <2>1. UNCHANGED <<capturing, isr, captured>>
    BY <1>6 DEF ReleaseSelect, PollStart, EndReading, ProcessByte, DrainByte, EndDraining, TargetOn,
       HardwareStep, pathVars, captureVars
  <2> QED
    BY <1>0, <2>1 DEF CaptureTyped
<1> QED
  BY <1>1, <1>2, <1>3, <1>4, <1>5, <1>6 DEF PathNext

LEMMA MonitorStaysTyped ==
    ASSUME PathTyped, [PathNext]_pathVars
    PROVE  MonitorTyped'
<1>0. MonitorTyped /\ selected \in BOOLEAN
  BY DEF PathTyped, TransmitInv, TransmitTypeOK
<1>1. CASE PollStart
  BY <1>0, <1>1 DEF PollStart, MonitorTyped
<1>2. CASE Cleanup
  BY <1>0, <1>2 DEF Cleanup, MonitorTyped
<1>3. CASE ReadByte \/ ProcessByte
  <2>1. /\ budget > 0 /\ budget' = budget - 1
        /\ UNCHANGED <<enabled, seen, timedOut, stage>>
    BY <1>3 DEF ReadByte, ProcessByte
  <2> QED
    BY <1>0, <2>1 DEF MonitorTyped
<1>4. CASE EndReading
  <2>1. /\ timedOut' \in {TRUE, timedOut} /\ stage' \in {"Start", "Process"}
        /\ budget' \in {0, MaxPerPoll} /\ UNCHANGED <<enabled, seen>>
    BY <1>4 DEF EndReading
  <2>2. budget' \in 0 .. MaxPerPoll
    BY <2>1
  <2>3. timedOut' \in BOOLEAN /\ stage' \in {"Start", "Cleanup", "Read", "Process", "Drain"}
    BY <1>0, <2>1 DEF MonitorTyped
  <2> QED
    BY <1>0, <2>1, <2>2, <2>3 DEF MonitorTyped
<1>5. CASE DrainByte \/ EndDraining
  BY <1>0, <1>5 DEF DrainByte, EndDraining, MonitorTyped
<1>6. CASE TargetOn \/ TargetOff
  BY <1>0, <1>6 DEF TargetOn, TargetOff, MonitorTyped
<1>7. CASE \/ AssertSelect \/ ReleaseSelect \/ ClockBit \/ ClockIdle \/ TraceByte \/ HardwareStep
           \/ UNCHANGED pathVars
  <2>1. UNCHANGED <<enabled, seen, timedOut, stage, budget>>
    BY <1>7 DEF AssertSelect, ReleaseSelect, ClockBit, ClockIdle, TraceByte, HardwareStep, pathVars,
       monitorVars
  <2> QED
    BY <1>0, <2>1 DEF MonitorTyped
<1> QED
  BY <1>1, <1>2, <1>3, <1>4, <1>5, <1>6, <1>7 DEF PathNext

\* A byte the engine takes.
LEMMA PoppedByte ==
    ASSUME PathTyped, TryPop, RingInv'
    PROVE  /\ Contents # <<>> /\ output' = Head(Contents) /\ Contents' = Tail(Contents)
           /\ output' \in Bytes
           /\ Append(frame, output') \in Seq(Bytes)
           /\ Len(Append(frame, output')) = Len(frame) + 1 /\ Len(frame) \in Nat
<1>1. Contents # <<>> /\ output' = Head(Contents) /\ Contents' = Tail(Contents)
  BY PopTakesHead DEF PathTyped
<1>2. output' \in Bytes
  BY <1>1, HeadTailProperties DEF PathTyped
<1> QED
  BY <1>1, <1>2, AppendProperties, LenProperties DEF PathTyped, WorkerTyped

LEMMA WorkerStaysTyped ==
    ASSUME PathTyped, [PathNext]_pathVars, RingInv'
    PROVE  WorkerTyped'
<1>0. WorkerTyped
  BY DEF PathTyped
<1>e. <<>> \in Seq(Bytes) /\ Len(<<>>) = 0
  BY EmptySeq
<1>1. CASE AssertSelect
  BY <1>0, <1>1 DEF AssertSelect, WorkerTyped
<1>2. CASE AbandonTransaction
  BY <1>0, <1>2, <1>e DEF AbandonTransaction, ClearedResponse, WorkerTyped
<1>3. CASE ProcessByte
  <2>1. PICK bytes : bytes = Append(frame, output')
    OBVIOUS
  <2>2. TryPop
    BY <1>3 DEF ProcessByte
  <2>3. bytes \in Seq(Bytes) /\ Len(bytes) = Len(frame) + 1 /\ Len(frame) \in Nat
    BY <2>1, <2>2, PoppedByte
  <2>4. /\ frame' = IF Len(bytes) = FrameLength THEN <<>> ELSE bytes
        /\ pending' = IF Len(bytes) = FrameLength /\ Len(pending) + FrameLength <= TransmitBytes
                        THEN pending \o Reply(bytes) ELSE pending
        /\ answered' = IF Len(bytes) = FrameLength THEN answered + FrameLength ELSE answered
    BY <1>3, <2>1 DEF ProcessByte
  <2>5. frame' \in Seq(Bytes) /\ Len(frame') < FrameLength
    BY <1>0, <1>e, <2>3, <2>4 DEF WorkerTyped
  <2>6. pending' \in Seq(Bytes) /\ Len(pending') <= TransmitBytes
    <3>1. Reply(bytes) \in Seq(Bytes) /\ Len(Reply(bytes)) = FrameLength
      BY FrameTyped
    <3>2. /\ pending \o Reply(bytes) \in Seq(Bytes)
          /\ Len(pending \o Reply(bytes)) = Len(pending) + FrameLength
      BY <1>0, <3>1, ConcatProperties DEF WorkerTyped
    <3> QED
      BY <1>0, <2>4, <3>2 DEF WorkerTyped
  <2>7. answered' \in Nat
    BY <1>0, <2>4 DEF WorkerTyped
  <2> QED
    BY <2>5, <2>6, <2>7 DEF WorkerTyped
<1>4. CASE DrainByte
  <2>1. pending # <<>> /\ pending' = Tail(pending) /\ UNCHANGED <<frame, answered>>
    BY <1>4 DEF DrainByte
  <2>2. /\ pending \in Seq(Bytes) /\ Len(pending) \in Nat
        /\ Tail(pending) \in Seq(Bytes) /\ Len(Tail(pending)) = Len(pending) - 1
    BY <1>0, <2>1, HeadTailProperties, LenProperties DEF WorkerTyped
  <2> QED
    BY <1>0, <2>1, <2>2 DEF WorkerTyped
<1>5. CASE \/ ReleaseSelect \/ ClockBit \/ ClockIdle \/ PollStart \/ ReadByte \/ EndDraining
           \/ TargetOn \/ TraceByte \/ HardwareStep \/ UNCHANGED workerVars
  <2>1. UNCHANGED <<frame, pending, answered>>
    BY <1>5 DEF ReleaseSelect, ClockBit, ClockIdle, PollStart, ReadByte, EndDraining, TargetOn,
       TraceByte, HardwareStep, workerVars
  <2> QED
    BY <1>0, <2>1 DEF WorkerTyped
<1>6. EndReading => AbandonTransaction \/ UNCHANGED workerVars
  BY DEF EndReading
<1>7. Cleanup \/ TargetOff => AbandonTransaction
  BY DEF Cleanup, TargetOff
<1>8. UNCHANGED pathVars => UNCHANGED workerVars
  BY DEF pathVars
<1> QED
  BY <1>1, <1>2, <1>3, <1>4, <1>5, <1>6, <1>7, <1>8 DEF PathNext

LEMMA HistoryStaysTyped ==
    ASSUME PathTyped, [PathNext]_pathVars
    PROVE  HistoryTyped'
<1>0. HistoryTyped /\ selected \in BOOLEAN /\ enabled \in BOOLEAN
  BY DEF PathTyped, TransmitInv, TransmitTypeOK, MonitorTyped
<1>1. CASE AssertSelect
  <2>1. /\ orderly' = (enabled /\ manners = Settled)
        /\ manners' = [manners EXCEPT !.noticed = FALSE, !.idled = FALSE, !.spoilt = FALSE]
    BY <1>1 DEF AssertSelect
  <2> QED
    BY <1>0, <2>1 DEF HistoryTyped
<1>2. CASE ReleaseSelect
  <2>1. manners' = [manners EXCEPT !.noticed = FALSE, !.misaligned = manners.misaligned \/ bit # 0]
        /\ orderly' = orderly
    BY <1>2 DEF ReleaseSelect
  <2>2. (manners.misaligned \/ bit # 0) \in BOOLEAN
    OBVIOUS
  <2> QED
    BY <1>0, <2>1, <2>2 DEF HistoryTyped
<1>3. CASE ClockBit
  <2>1. manners' = manners /\ orderly' \in BOOLEAN
    BY <1>3 DEF ClockBit
  <2> QED
    BY <1>0, <2>1 DEF HistoryTyped
<1>4. CASE ClockIdle
  <2>1. /\ manners' = [manners EXCEPT !.idled = TRUE, !.misaligned = FALSE,
                          !.spoilt = manners.spoilt \/ (manners.misaligned /\ manners.noticed)]
        /\ orderly' = orderly
    BY <1>4 DEF ClockIdle
  <2>2. (manners.spoilt \/ (manners.misaligned /\ manners.noticed)) \in BOOLEAN
    OBVIOUS
  <2> QED
    BY <1>0, <2>1, <2>2 DEF HistoryTyped
<1>5. CASE Cleanup \/ TargetOff
  <2>1. manners' = [manners EXCEPT !.noticed = ~selected]
    BY <1>5 DEF Cleanup, TargetOff
  <2>2. orderly' \in BOOLEAN
    <3>1. CASE Cleanup
      <4>1. orderly' = (orderly /\ selected)
        BY <3>1 DEF Cleanup
      <4>2. (orderly /\ selected) \in BOOLEAN
        OBVIOUS
      <4> QED
        BY <4>1, <4>2
    <3>2. CASE TargetOff
      <4>1. orderly' = FALSE
        BY <3>2 DEF TargetOff
      <4> QED
        BY <4>1
    <3> QED
      BY <1>5, <3>1, <3>2
  <2> QED
    BY <1>0, <2>1, <2>2 DEF HistoryTyped
<1>6. CASE \/ PollStart \/ ReadByte \/ EndReading \/ ProcessByte \/ DrainByte \/ EndDraining
           \/ TargetOn \/ TraceByte \/ HardwareStep \/ UNCHANGED pathVars
  <2>1. UNCHANGED <<orderly, manners>>
    BY <1>6 DEF PollStart, ReadByte, EndReading, ProcessByte, DrainByte, EndDraining, TargetOn,
       TraceByte, HardwareStep, pathVars, historyVars
  <2> QED
    BY <1>0, <2>1 DEF HistoryTyped
<1> QED
  BY <1>1, <1>2, <1>3, <1>4, <1>5, <1>6 DEF PathNext

LEMMA NextPathTyped == PathTyped /\ [PathNext]_pathVars => PathTyped'
<1> SUFFICES ASSUME PathTyped, [PathNext]_pathVars PROVE PathTyped'
  OBVIOUS
<1>1. [TransmitNext]_transmitVars /\ [Next]_ringVars
  BY TransmitWithin, RingWithin
<1>2. TransmitInv' /\ RingInv'
  BY <1>1, NextKeepsTransmit, NextKeepsRing DEF PathTyped
<1>3. Contents' \in Seq(Bytes)
  BY <1>1, <1>2, ContentsStayBytes DEF PathTyped
<1> QED
  BY <1>2, <1>3, ClientStaysTyped, CaptureSideStaysTyped, MonitorStaysTyped, WorkerStaysTyped,
     HistoryStaysTyped DEF PathTyped

THEOREM PathIsTypedInv == PathSpec => []PathTyped
BY InitPathTyped, NextPathTyped, PTL DEF PathSpec

\* Every variable of the path keeps its type, and every ring, queue and counter its
\* bound.
THEOREM PathIsTyped == PathSpec => []PathTypeOK
<1>1. PathTyped => PathTypeOK
  BY DEF PathTyped, PathTypeOK, RingInv, TransmitInv, ClientTyped, CaptureTyped, MonitorTyped,
     WorkerTyped, HistoryTyped
<1> QED
  BY <1>1, PathIsTypedInv, PTL

\* Within the path the receive queue and the transmit side are driven only by their
\* own operations, so what is proved of them alone holds in it.
THEOREM QueuesWithinPath == PathSpec => Spec /\ TransmitSpec
<1>1. PathInit => Init /\ TransmitInit
  BY DEF PathInit
<1>2. PathTyped /\ [PathNext]_pathVars => [Next]_ringVars /\ [TransmitNext]_transmitVars
  BY TransmitWithin, RingWithin
<1> QED
  BY <1>1, <1>2, PathIsTypedInv, PTL DEF PathSpec, Spec, TransmitSpec

THEOREM PathQueuesAreFifos == PathSpec => ImplementsFifo /\ TransmitImplementsFifo
BY QueuesWithinPath, RingIsFifo, TransmitIsFifo, PTL

-----------------------------------------------------------------------------
\* What the monitor's flags say of the client, whichever of the two moved last.
MonitorKnows ==
    /\ timedOut => seen \/ stage = "Cleanup"
    /\ stage = "Cleanup" => ~seen
    /\ orderly => enabled
    /\ orderly /\ selected => stage # "Cleanup"
    /\ manners.noticed => ~selected /\ ~seen /\ ~timedOut /\ stage # "Cleanup"

LEMMA MonitorStillKnows ==
    ASSUME PathTyped, PathTyped', MonitorKnows, [PathNext]_pathVars
    PROVE  MonitorKnows'
<1>0. /\ selected \in BOOLEAN /\ enabled \in BOOLEAN /\ seen \in BOOLEAN /\ timedOut \in BOOLEAN
      /\ orderly \in BOOLEAN
      /\ manners \in [noticed : BOOLEAN, idled : BOOLEAN, misaligned : BOOLEAN, spoilt : BOOLEAN]
  BY DEF PathTyped, TransmitInv, TransmitTypeOK, MonitorTyped, HistoryTyped
<1>1. CASE AssertSelect
  <2>1. /\ UNCHANGED <<enabled, seen, timedOut, stage>> /\ selected' = TRUE
        /\ manners'.noticed = FALSE
        /\ orderly' => enabled /\ manners = Settled
    BY <1>0, <1>1 DEF AssertSelect, monitorVars
  <2>2. orderly' => stage # "Cleanup"
    BY <2>1 DEF MonitorKnows, Settled
  <2> QED
    BY <2>1, <2>2 DEF MonitorKnows
<1>2. CASE ReleaseSelect
  <2>1. /\ UNCHANGED <<enabled, seen, timedOut, stage, orderly>> /\ selected' = FALSE
        /\ manners'.noticed = FALSE
    BY <1>0, <1>2 DEF ReleaseSelect, monitorVars
  <2> QED
    BY <2>1 DEF MonitorKnows
<1>3. CASE ClockBit
  <2>1. /\ UNCHANGED <<enabled, seen, timedOut, stage, selected, manners>>
        /\ orderly' => orderly
    BY <1>3 DEF ClockBit, monitorVars
  <2> QED
    BY <2>1 DEF MonitorKnows
<1>4. CASE ClockIdle
  <2>1. /\ UNCHANGED <<enabled, seen, timedOut, stage, selected, orderly>>
        /\ manners'.noticed = manners.noticed
    BY <1>0, <1>4 DEF ClockIdle, monitorVars, clientVars
  <2> QED
    BY <2>1 DEF MonitorKnows
<1>5. CASE PollStart
  <2>1. /\ UNCHANGED <<enabled, selected, orderly, manners>> /\ stage = "Start"
        /\ seen' = selected
        /\ timedOut' => timedOut /\ (seen \/ ~selected)
        /\ stage' = IF seen /\ ~selected THEN "Cleanup" ELSE "Read"
    BY <1>5 DEF PollStart, clientVars, historyVars
  <2> QED
    BY <1>0, <2>1 DEF MonitorKnows
<1>6. CASE Cleanup
  <2>1. /\ UNCHANGED <<enabled, seen, selected>> /\ stage = "Cleanup" /\ stage' = "Read"
        /\ timedOut' = FALSE
        /\ orderly' => orderly
        /\ manners'.noticed => ~selected
    BY <1>0, <1>6 DEF Cleanup, clientVars
  <2> QED
    BY <2>1 DEF MonitorKnows
<1>7. CASE ReadByte \/ ProcessByte \/ DrainByte \/ EndDraining \/ TraceByte \/ HardwareStep
  <2>1. /\ UNCHANGED <<enabled, seen, selected, timedOut, orderly, manners>>
        /\ stage' = stage \/ (stage # "Cleanup" /\ stage' # "Cleanup")
    BY <1>7 DEF ReadByte, ProcessByte, DrainByte, EndDraining, TraceByte, HardwareStep, Draining,
       clientVars, historyVars, monitorVars, PioStep, DmaMoves, PioSelected, PioPulls
  <2> QED
    BY <2>1 DEF MonitorKnows
<1>8. CASE EndReading
  <2>1. /\ UNCHANGED <<enabled, seen, selected, orderly, manners>>
        /\ stage # "Cleanup" /\ stage' # "Cleanup"
        /\ timedOut' = timedOut \/ seen
    BY <1>8 DEF EndReading, clientVars, historyVars
  <2> QED
    BY <2>1 DEF MonitorKnows
<1>9. CASE TargetOn
  <2>1. /\ UNCHANGED <<seen, selected, timedOut, stage, orderly, manners>> /\ enabled' = TRUE
    BY <1>9 DEF TargetOn, clientVars, historyVars
  <2> QED
    BY <2>1 DEF MonitorKnows
<1>10. CASE TargetOff
  <2>1. /\ selected' = selected /\ stage = "Start" /\ stage' = "Start"
        /\ seen' = FALSE /\ timedOut' = FALSE /\ orderly' = FALSE
        /\ manners'.noticed => ~selected
    BY <1>0, <1>10 DEF TargetOff, clientVars
  <2> QED
    BY <2>1 DEF MonitorKnows
<1>11. CASE UNCHANGED pathVars
  BY <1>11 DEF MonitorKnows, pathVars, clientVars, monitorVars, historyVars
<1> QED
  BY <1>1, <1>2, <1>3, <1>4, <1>5, <1>6, <1>7, <1>8, <1>9, <1>10, <1>11 DEF PathNext

\* A clock with CS high makes the PIO program let go of MISO, and the client is told
\* to have given one only while CS stays high.
IdleReleases == manners.idled => ~selected /\ shifter # "Shift"

LEMMA IdleStillReleases ==
    ASSUME PathTyped, PathTyped', IdleReleases, [PathNext]_pathVars
    PROVE  IdleReleases'
<1>0. /\ selected \in BOOLEAN
      /\ manners \in [noticed : BOOLEAN, idled : BOOLEAN, misaligned : BOOLEAN, spoilt : BOOLEAN]
  BY DEF PathTyped, TransmitInv, TransmitTypeOK, HistoryTyped
<1>1. CASE AssertSelect
  <2>1. manners'.idled = FALSE
    BY <1>0, <1>1 DEF AssertSelect
  <2> QED
    BY <2>1 DEF IdleReleases
<1>2. CASE ReleaseSelect
  <2>1. selected /\ manners'.idled = manners.idled
    BY <1>0, <1>2 DEF ReleaseSelect
  <2> QED
    BY <2>1 DEF IdleReleases
<1>3. CASE ClockBit
  <2>1. selected /\ manners' = manners
    BY <1>3 DEF ClockBit
  <2> QED
    BY <2>1 DEF IdleReleases
<1>4. CASE ClockIdle
  <2>1. ~selected /\ selected' = selected /\ shifter' # "Shift"
    BY <1>4 DEF ClockIdle, PioClocked, clientVars
  <2> QED
    BY <2>1 DEF IdleReleases
<1>5. CASE Cleanup \/ TargetOff
  <2>1. UNCHANGED <<selected, shifter>> /\ manners'.idled = manners.idled
    BY <1>0, <1>5 DEF Cleanup, TargetOff, AbandonTransaction, Cancel, clientVars, pioState
  <2> QED
    BY <2>1 DEF IdleReleases
<1>6. CASE HardwareStep
  <2>1. UNCHANGED <<selected, manners>> /\ (shifter' = "Shift" => shifter = "Shift" \/ selected)
    BY <1>6 DEF HardwareStep, historyVars, PioStep, DmaMoves, PioSelected, PioPulls, pioState
  <2> QED
    BY <2>1 DEF IdleReleases
<1>7. CASE \/ PollStart \/ ReadByte \/ EndReading \/ ProcessByte \/ DrainByte \/ EndDraining
           \/ TargetOn \/ TraceByte \/ UNCHANGED pathVars
  <2>1. UNCHANGED <<selected, manners, shifter>>
    BY <1>7 DEF PollStart, ReadByte, EndReading, ProcessByte, DrainByte, EndDraining, TargetOn,
       TraceByte, pathVars, historyVars, clientVars, AbandonTransaction, Cancel, TryWrite, Service,
       pioState
  <2> QED
    BY <2>1 DEF IdleReleases
<1> QED
  BY <1>1, <1>2, <1>3, <1>4, <1>5, <1>6, <1>7 DEF PathNext

\* Unless the client has stopped in the middle of a byte, the capture program counts
\* the same bits as the client.
CaptureAligned == ~manners.misaligned => IF selected THEN Len(isr) = bit ELSE isr = <<>>

LEMMA CaptureStaysAligned ==
    ASSUME PathTyped, PathTyped', CaptureAligned, [PathNext]_pathVars
    PROVE  CaptureAligned'
<1>0. /\ selected \in BOOLEAN /\ isr \in Seq(Bytes) /\ bit \in 0 .. BitsPerByte - 1
      /\ manners \in [noticed : BOOLEAN, idled : BOOLEAN, misaligned : BOOLEAN, spoilt : BOOLEAN]
  BY DEF PathTyped, TransmitInv, TransmitTypeOK, HistoryTyped, CaptureTyped, ClientTyped
<1>1. CASE AssertSelect
  <2>1. /\ manners'.misaligned = manners.misaligned /\ ~selected /\ selected' = TRUE
        /\ isr' = isr /\ bit' = 0
    BY <1>0, <1>1 DEF AssertSelect
  <2>2. Len(<<>>) = 0
    OBVIOUS
  <2> QED
    BY <2>1, <2>2 DEF CaptureAligned
<1>2. CASE ReleaseSelect
  <2>1. /\ selected /\ selected' = FALSE /\ isr' = isr
        /\ ~manners'.misaligned => ~manners.misaligned /\ bit = 0
    BY <1>0, <1>2 DEF ReleaseSelect, captureVars
  <2>2. Len(isr) = 0 => isr = <<>>
    BY <1>0
  <2> QED
    BY <2>1, <2>2 DEF CaptureAligned
<1>3. CASE ClockBit
  <2>1. /\ selected /\ selected' = selected /\ manners' = manners
        /\ bit' = (bit + 1) % BitsPerByte
        /\ isr' = IF InFull(Append(isr, Byte(transaction, sent)))
                    THEN <<>> ELSE Append(isr, Byte(transaction, sent))
    BY <1>3 DEF ClockBit
  <2>2. Len(Append(isr, Byte(transaction, sent))) = Len(isr) + 1 /\ Len(<<>>) = 0
    BY <1>0
  <2>3. bit' = IF bit + 1 = BitsPerByte THEN 0 ELSE bit + 1
    BY <1>0, <2>1, ModNext
  <2> QED
    BY <2>1, <2>2, <2>3 DEF CaptureAligned, InFull
<1>4. CASE ClockIdle
  <2>1. ~selected /\ selected' = selected /\ isr' = <<>>
    BY <1>4 DEF ClockIdle, clientVars
  <2> QED
    BY <2>1 DEF CaptureAligned
<1>5. CASE Cleanup \/ TargetOff
  <2>1. UNCHANGED <<selected, isr, bit>> /\ manners'.misaligned = manners.misaligned
    BY <1>0, <1>5 DEF Cleanup, TargetOff, clientVars
  <2> QED
    BY <2>1 DEF CaptureAligned
<1>6. CASE \/ PollStart \/ ReadByte \/ EndReading \/ ProcessByte \/ DrainByte \/ EndDraining
           \/ TargetOn \/ TraceByte \/ HardwareStep \/ UNCHANGED pathVars
  <2>1. UNCHANGED <<selected, isr, bit, manners>>
    BY <1>6 DEF PollStart, ReadByte, EndReading, ProcessByte, DrainByte, EndDraining, TargetOn,
       TraceByte, HardwareStep, PioStep, DmaMoves, PioSelected, PioPulls, pathVars, historyVars,
       clientVars, captureVars
  <2> QED
    BY <2>1 DEF CaptureAligned
<1> QED
  BY <1>1, <1>2, <1>3, <1>4, <1>5, <1>6 DEF PathNext

\* Once the monitor has noticed that CS is high, nothing of the transaction is left
\* in a queue, and no clock of a quiet client puts anything there.
NothingLeft ==
    manners.noticed /\ ~manners.spoilt =>
        /\ captured = <<>> /\ size = 0 /\ frame = <<>> /\ pending = <<>>
        /\ queued_bytes = 0 /\ fifo = <<>>

LEMMA StillNothingLeft ==
    ASSUME PathTyped, PathTyped', MonitorKnows, CaptureAligned, NothingLeft, [PathNext]_pathVars
    PROVE  NothingLeft'
<1>0. /\ selected \in BOOLEAN /\ isr \in Seq(Bytes)
      /\ manners \in [noticed : BOOLEAN, idled : BOOLEAN, misaligned : BOOLEAN, spoilt : BOOLEAN]
      /\ active_bytes <= queued_bytes /\ moved \in Nat
      /\ queued_bytes \in Nat /\ active_bytes \in Nat
  BY DEF PathTyped, TransmitInv, TransmitTypeOK, SpanIsQueued, HistoryTyped, CaptureTyped
<1>1. CASE AssertSelect \/ ReleaseSelect
  <2>1. manners'.noticed = FALSE
    BY <1>0, <1>1 DEF AssertSelect, ReleaseSelect
  <2> QED
    BY <2>1 DEF NothingLeft
<1>2. CASE ClockBit
  <2>1. selected /\ manners' = manners
    BY <1>2 DEF ClockBit
  <2> QED
    BY <2>1 DEF NothingLeft, MonitorKnows
<1>3. CASE ClockIdle
  <2>1. /\ ~selected /\ UNCHANGED <<size, frame, pending, queued_bytes, fifo>>
        /\ manners'.noticed = manners.noticed
        /\ ~manners'.spoilt => ~manners.spoilt /\ ~(manners.misaligned /\ manners.noticed)
    BY <1>0, <1>3 DEF ClockIdle, PioClocked, workerVars, ringVars, ringState
  <2>2. isr = <<>> => ~InFull(Append(isr, Garbled))
    BY <1>0 DEF InFull
  <2>3. ~InFull(Append(isr, Garbled)) => captured' = captured
    BY <1>3 DEF ClockIdle, Capture, Laps
  <2> QED
    BY <2>1, <2>2, <2>3 DEF NothingLeft, CaptureAligned
<1>4. CASE Cleanup \/ TargetOff
  BY <1>4 DEF NothingLeft, Cleanup, TargetOff, AbandonTransaction, Clear, Cancel,
     ClearedResponse, ClearedFifo, Discarded
<1>5. CASE PollStart \/ TargetOn \/ UNCHANGED pathVars
  <2>1. UNCHANGED <<manners, captured, size, frame, pending, queued_bytes, fifo>>
    BY <1>5 DEF PollStart, TargetOn, pathVars, historyVars, captureVars, workerVars, ringVars,
       driverVars, ringState
  <2> QED
    BY <2>1 DEF NothingLeft
<1>6. CASE ReadByte \/ TraceByte
  BY <1>6 DEF NothingLeft, ReadByte, TraceByte, historyVars
<1>7. CASE EndReading
  <2>1. UNCHANGED <<manners, captured>>
    BY <1>7 DEF EndReading, historyVars, captureVars
  <2>2. \/ UNCHANGED <<size, frame, pending, queued_bytes, fifo>>
        \/ AbandonTransaction
    BY <1>7 DEF EndReading, workerVars, ringVars, driverVars, ringState
  <2> QED
    BY <2>1, <2>2 DEF NothingLeft, AbandonTransaction, Clear, Cancel, ClearedResponse, ClearedFifo
<1>8. CASE ProcessByte
  BY <1>8 DEF NothingLeft, ProcessByte, TryPop, Empty, historyVars
<1>9. CASE DrainByte
  BY <1>9 DEF NothingLeft, DrainByte, historyVars
<1>10. CASE EndDraining
  <2>1. /\ UNCHANGED <<manners, captured, size, frame, pending, fifo>> /\ queued_bytes' = QueuedNow
    BY <1>10 DEF EndDraining, Service, historyVars, captureVars, workerVars, ringVars
  <2>2. queued_bytes = 0 => QueuedNow = 0
    BY <1>0 DEF QueuedNow, Finished
  <2> QED
    BY <2>1, <2>2 DEF NothingLeft
<1>11. CASE HardwareStep
  <2>1. UNCHANGED <<manners, captured, size, frame, pending>>
    BY <1>11 DEF HardwareStep, historyVars, captureVars, workerVars, ringVars
  <2>2. CASE DmaMoves
    BY <1>0, <2>1, <2>2 DEF NothingLeft, DmaMoves
  <2>3. CASE PioSelected \/ PioPulls
    BY <2>1, <2>3 DEF NothingLeft, PioSelected, PioPulls, ringState
  <2> QED
    BY <1>11, <2>2, <2>3 DEF HardwareStep, PioStep
<1> QED
  BY <1>1, <1>2, <1>3, <1>4, <1>5, <1>6, <1>7, <1>8, <1>9, <1>10, <1>11 DEF PathNext

\* A poll hands the engine all it has read, so the receive queue is empty when the
\* next one begins and takes all that one can read.
PollKeepsUp ==
    orderly /\ ~timedOut =>
        /\ stage \in {"Start", "Drain"} => size = 0
        /\ stage = "Read" => size + budget <= MaxPerPoll
        /\ stage = "Process" => size <= budget

LEMMA PollStillKeepsUp ==
    ASSUME PathTyped, PathTyped', MonitorKnows, NothingLeft, PollKeepsUp, [PathNext]_pathVars
    PROVE  PollKeepsUp'
<1>0. /\ selected \in BOOLEAN /\ seen \in BOOLEAN /\ timedOut \in BOOLEAN /\ orderly \in BOOLEAN
      /\ stage \in {"Start", "Cleanup", "Read", "Process", "Drain"}
      /\ budget \in 0 .. MaxPerPoll /\ size \in Nat /\ MaxPerPoll \in Nat
  BY DEF PathTyped, RingInv, RingTypeOK, TransmitInv, TransmitTypeOK, MonitorTyped, HistoryTyped
<1>1. CASE AssertSelect
  <2>1. /\ UNCHANGED <<timedOut, stage, budget, size>>
        /\ orderly' => manners = Settled
    BY <1>0, <1>1 DEF AssertSelect, monitorVars, ringVars
  <2>2. orderly' => size = 0
    BY <2>1 DEF NothingLeft, Settled
  <2> QED
    BY <1>0, <2>1, <2>2 DEF PollKeepsUp
<1>2. CASE ReleaseSelect \/ ClockBit \/ ClockIdle \/ HardwareStep
  <2>1. UNCHANGED <<timedOut, stage, budget, size>>
    BY <1>2 DEF ReleaseSelect, ClockBit, ClockIdle, HardwareStep, monitorVars, workerVars, ringVars
  <2>2. orderly' => orderly
    <3>1. ClockBit => orderly' = (orderly /\ ~Laps(Append(isr, Byte(transaction, sent))))
      BY DEF ClockBit
    <3>2. ~ClockBit => orderly' = orderly
      BY <1>2 DEF ReleaseSelect, ClockIdle, HardwareStep, historyVars
    <3> QED
      BY <3>1, <3>2
  <2> QED
    BY <2>1, <2>2 DEF PollKeepsUp
<1>3. CASE PollStart
  <2>1. /\ UNCHANGED <<orderly, size>> /\ stage = "Start" /\ stage' \in {"Cleanup", "Read"}
        /\ budget' = MaxPerPoll
        /\ timedOut' = (timedOut /\ ~(~seen /\ selected))
    BY <1>3 DEF PollStart, workerVars, ringVars, historyVars
  <2>2. timedOut => timedOut'
    BY <2>1 DEF MonitorKnows
  <2> QED
    BY <1>0, <2>1, <2>2 DEF PollKeepsUp
<1>4. CASE Cleanup
  <2>1. stage = "Cleanup" /\ (orderly' => orderly /\ selected)
    BY <1>4 DEF Cleanup
  <2> QED
    BY <2>1 DEF PollKeepsUp, MonitorKnows
<1>5. CASE ReadByte
  <2>1. /\ UNCHANGED <<orderly, timedOut, stage>> /\ stage = "Read"
        /\ budget > 0 /\ budget' = budget - 1
        /\ size' = size + 1 \/ size' = size
    BY <1>5 DEF ReadByte, TryPush, ringVars, historyVars
  <2> QED
    BY <1>0, <2>1 DEF PollKeepsUp
<1>6. CASE EndReading
  <2>1. orderly' = orderly /\ stage = "Read"
    BY <1>6 DEF EndReading, historyVars
  <2>2. CASE AbandonTransaction /\ timedOut' = TRUE
    BY <2>2 DEF PollKeepsUp
  <2>3. CASE /\ stage' = (IF timedOut THEN "Start" ELSE "Process")
             /\ budget' = (IF timedOut THEN 0 ELSE MaxPerPoll)
             /\ UNCHANGED <<timedOut, workerVars>>
    <3>1. UNCHANGED <<timedOut, size>>
      BY <2>3 DEF workerVars, ringVars
    <3> QED
      BY <1>0, <2>1, <2>3, <3>1 DEF PollKeepsUp
  <2> QED
    BY <1>6, <2>2, <2>3 DEF EndReading
<1>7. CASE ProcessByte
  <2>1. /\ UNCHANGED <<orderly, timedOut, stage>> /\ stage = "Process"
        /\ budget > 0 /\ budget' = budget - 1
        /\ size' = size - 1 /\ size # 0
    BY <1>7 DEF ProcessByte, TryPop, Empty, historyVars
  <2> QED
    BY <1>0, <2>1 DEF PollKeepsUp
<1>8. CASE DrainByte \/ EndDraining
  <2>1. /\ UNCHANGED <<orderly, timedOut, size>> /\ Draining /\ stage' \in {"Start", "Drain"}
    BY <1>8 DEF DrainByte, EndDraining, workerVars, ringVars, historyVars
  <2> QED
    BY <1>0, <2>1 DEF PollKeepsUp, Draining, Empty
<1>9. CASE TargetOn \/ TargetOff
  <2>1. orderly' => ~enabled /\ orderly
    BY <1>9 DEF TargetOn, TargetOff, historyVars
  <2> QED
    BY <2>1 DEF PollKeepsUp, MonitorKnows
<1>10. CASE TraceByte \/ UNCHANGED pathVars
  <2>1. UNCHANGED <<orderly, timedOut, stage, budget, size>>
    BY <1>10 DEF TraceByte, pathVars, monitorVars, workerVars, ringVars, historyVars
  <2> QED
    BY <2>1 DEF PollKeepsUp
<1> QED
  BY <1>1, <1>2, <1>3, <1>4, <1>5, <1>6, <1>7, <1>8, <1>9, <1>10 DEF PathNext

-----------------------------------------------------------------------------
\* A line of bytes of transaction t, one after the other, that begins with number first.
Follows(line, t, first) == \A i \in 1 .. Len(line) : line[i] = Byte(t, first + i - 1)

LEMMA FollowsEmpty == \A t, first : Follows(<<>>, t, first)
BY DEF Follows

LEMMA FollowsAppend ==
    ASSUME NEW line \in Seq(Bytes), NEW t, NEW first \in Nat, Follows(line, t, first),
           NEW x \in Bytes, x = Byte(t, first + Len(line))
    PROVE  Follows(Append(line, x), t, first)
<1>1. /\ Len(line) \in Nat /\ Len(Append(line, x)) = Len(line) + 1
      /\ \A i \in 1 .. Len(line) : Append(line, x)[i] = line[i]
      /\ Append(line, x)[Len(line) + 1] = x
  BY AppendProperties, LenProperties
<1>2. ASSUME NEW i \in 1 .. Len(line) + 1
      PROVE  Append(line, x)[i] = Byte(t, first + i - 1)
  <2>1. CASE i \in 1 .. Len(line)
    BY <1>1, <2>1 DEF Follows
  <2>2. CASE i = Len(line) + 1
    <3>1. first + i - 1 = first + Len(line)
      BY <1>1, <2>2
    <3> QED
      BY <1>1, <2>2, <3>1
  <2> QED
    BY <1>1, <2>1, <2>2
<1> QED
  BY <1>1, <1>2 DEF Follows

LEMMA FollowsTail ==
    ASSUME NEW line \in Seq(Bytes), NEW t, NEW first \in Nat, Follows(line, t, first), line # <<>>
    PROVE  /\ Head(line) = Byte(t, first) /\ Head(line) \in Bytes
           /\ Follows(Tail(line), t, first + 1)
           /\ Tail(line) \in Seq(Bytes) /\ Len(Tail(line)) = Len(line) - 1
           /\ Len(line) \in Nat \ {0}
<1>1. /\ Len(line) \in Nat \ {0} /\ Head(line) = line[1] /\ Head(line) \in Bytes
      /\ Tail(line) \in Seq(Bytes) /\ Len(Tail(line)) = Len(line) - 1
      /\ \A i \in 1 .. Len(Tail(line)) : Tail(line)[i] = line[i + 1]
  BY HeadTailProperties, EmptySeq, LenProperties
<1>2. line[1] = Byte(t, first)
  <2>1. 1 \in 1 .. Len(line) /\ first + 1 - 1 = first
    BY <1>1
  <2> QED
    BY <2>1 DEF Follows
<1>3. ASSUME NEW i \in 1 .. Len(Tail(line))
      PROVE  Tail(line)[i] = Byte(t, (first + 1) + i - 1)
  <2>1. i + 1 \in 1 .. Len(line) /\ first + (i + 1) - 1 = (first + 1) + i - 1
    BY <1>1
  <2> QED
    BY <1>1, <2>1 DEF Follows
<1> QED
  BY <1>1, <1>2, <1>3 DEF Follows

LEMMA FollowsConcat ==
    ASSUME NEW one \in Seq(Bytes), NEW two \in Seq(Bytes), NEW t, NEW first \in Nat,
           Follows(one, t, first), Follows(two, t, first + Len(one))
    PROVE  Follows(one \o two, t, first)
<1>1. /\ Len(one) \in Nat /\ Len(two) \in Nat /\ Len(one \o two) = Len(one) + Len(two)
      /\ \A i \in 1 .. Len(one \o two) :
             (one \o two)[i] = IF i <= Len(one) THEN one[i] ELSE two[i - Len(one)]
  BY ConcatProperties, LenProperties
<1>2. ASSUME NEW i \in 1 .. Len(one) + Len(two)
      PROVE  (one \o two)[i] = Byte(t, first + i - 1)
  <2>1. CASE i <= Len(one)
    BY <1>1, <2>1 DEF Follows
  <2>2. CASE ~(i <= Len(one))
    <3>1. /\ i - Len(one) \in 1 .. Len(two)
          /\ (first + Len(one)) + (i - Len(one)) - 1 = first + i - 1
      BY <1>1, <2>2
    <3>2. two[i - Len(one)] = Byte(t, (first + Len(one)) + (i - Len(one)) - 1)
      BY <3>1 DEF Follows
    <3> QED
      BY <1>1, <2>2, <3>1, <3>2
  <2> QED
    BY <2>1, <2>2
<1> QED
  BY <1>1, <1>2 DEF Follows

\* A line that follows and ends with byte number last.
LEMMA FollowsEndsWith ==
    ASSUME NEW line \in Seq(Bytes), NEW last \in Nat, Len(line) <= last,
           Follows(line, transaction, last - Len(line))
    PROVE  EndsWith(line, last)
BY LenProperties DEF Follows, EndsWith

LEMMA ConstantAppend ==
    ASSUME NEW n \in Nat, NEW c \in Bytes
    PROVE  Append([i \in 1 .. n |-> c], c) = [i \in 1 .. n + 1 |-> c]
<1>1. [i \in 1 .. n |-> c] \in Seq(Bytes) /\ Len([i \in 1 .. n |-> c]) = n
  BY FunctionIsSeq
<1>2. [i \in 1 .. n + 1 |-> c] \in Seq(Bytes) /\ Len([i \in 1 .. n + 1 |-> c]) = n + 1
  BY FunctionIsSeq
<1>3. /\ Append([i \in 1 .. n |-> c], c) \in Seq(Bytes)
      /\ Len(Append([i \in 1 .. n |-> c], c)) = n + 1
      /\ \A j \in 1 .. n : Append([i \in 1 .. n |-> c], c)[j] = c
      /\ Append([i \in 1 .. n |-> c], c)[n + 1] = c
  BY <1>1, AppendProperties
<1> QED
  BY <1>2, <1>3, SeqEqual

-----------------------------------------------------------------------------
\* The engine answers whole frames, so a frame begins where the answers end.
FramesAnswered == \E q \in Nat : answered = FrameLength * q

LEMMA AnswersStayWhole ==
    ASSUME PathTyped, FramesAnswered, [PathNext]_pathVars
    PROVE  FramesAnswered'
<1>1. PICK q \in Nat : answered = FrameLength * q
  BY DEF FramesAnswered
<1>2. \/ answered' = answered
      \/ answered' = 0
      \/ answered' = answered + FrameLength
  BY DEF PathNext, AssertSelect, ReleaseSelect, ClockBit, ClockIdle, PollStart, Cleanup,
     ReadByte, EndReading, ProcessByte, DrainByte, EndDraining, TargetOn, TargetOff, TraceByte,
     HardwareStep, AbandonTransaction, pathVars, workerVars
<1>3. FrameLength * 0 = 0 /\ FrameLength * (q + 1) = FrameLength * q + FrameLength /\ q + 1 \in Nat
  OBVIOUS
<1> QED
  BY <1>1, <1>2, <1>3 DEF FramesAnswered

\* Only selecting the card begins an orderly transaction, and it begins with nothing
\* of an earlier one on the way.
LEMMA OrderlyOnlyFromSelect ==
    ASSUME PathTyped, MonitorKnows, [PathNext]_pathVars, ~AssertSelect
    PROVE  (Orderly' => Orderly) /\ UNCHANGED transaction
<1>0. /\ selected \in BOOLEAN /\ seen \in BOOLEAN /\ timedOut \in BOOLEAN /\ orderly \in BOOLEAN
  BY DEF PathTyped, TransmitInv, TransmitTypeOK, MonitorTyped, HistoryTyped
<1>1. CASE ReleaseSelect
  <2>1. UNCHANGED <<transaction, bit, orderly, timedOut>> /\ selected
    BY <1>1 DEF ReleaseSelect, monitorVars
  <2> QED
    BY <2>1 DEF Orderly
<1>2. CASE ClockBit
  <2>1. /\ UNCHANGED <<transaction, selected, timedOut>> /\ selected
        /\ orderly' = (orderly /\ ~Laps(Append(isr, Byte(transaction, sent))))
    BY <1>2 DEF ClockBit, monitorVars
  <2> QED
    BY <2>1 DEF Orderly
<1>3. CASE PollStart
  <2>1. /\ UNCHANGED <<transaction, selected, bit, orderly>> /\ stage = "Start"
        /\ timedOut' = (timedOut /\ ~(~seen /\ selected))
    BY <1>3 DEF PollStart, clientVars, historyVars
  <2>2. timedOut => timedOut'
    BY <2>1 DEF MonitorKnows
  <2> QED
    BY <2>1, <2>2 DEF Orderly
<1>4. CASE Cleanup
  <2>1. /\ UNCHANGED <<transaction, selected, bit>> /\ stage = "Cleanup"
        /\ orderly' => orderly /\ selected
    BY <1>4 DEF Cleanup, clientVars
  <2> QED
    BY <2>1 DEF Orderly, MonitorKnows
<1>5. CASE EndReading
  <2>1. /\ UNCHANGED <<transaction, selected, bit, orderly>>
        /\ timedOut' = TRUE \/ timedOut' = timedOut
    BY <1>5 DEF EndReading, clientVars, historyVars
  <2> QED
    BY <2>1 DEF Orderly
<1>6. CASE TargetOff
  <2>1. UNCHANGED transaction /\ orderly' = FALSE
    BY <1>6 DEF TargetOff, clientVars
  <2> QED
    BY <2>1 DEF Orderly
<1>7. CASE \/ ClockIdle \/ ReadByte \/ ProcessByte \/ DrainByte \/ EndDraining
           \/ TargetOn \/ TraceByte \/ HardwareStep \/ UNCHANGED pathVars
  <2>1. UNCHANGED <<transaction, selected, bit, orderly, timedOut>>
    BY <1>7 DEF ClockIdle, ReadByte, ProcessByte, DrainByte, EndDraining, TargetOn, TraceByte,
       HardwareStep, PioStep, DmaMoves, PioSelected, PioPulls, pathVars, clientVars, monitorVars,
       historyVars
  <2> QED
    BY <2>1 DEF Orderly
<1> QED
  BY <1>1, <1>2, <1>3, <1>4, <1>5, <1>6, <1>7 DEF PathNext

LEMMA OrderlyBeginsEmpty ==
    ASSUME PathTyped, CaptureAligned, IdleReleases, NothingLeft, AssertSelect, Orderly'
    PROVE  /\ captured' = <<>> /\ isr' = <<>> /\ bit' = 0 /\ sent' = 0 /\ answered' = 0
           /\ size' = 0 /\ frame' = <<>> /\ pending' = <<>>
           /\ queued_bytes' = 0 /\ moved' = 0 /\ fifo' = <<>> /\ shifter' # "Shift"
<1>1. orderly'
  BY DEF Orderly
<1>2. manners = Settled
  BY <1>1 DEF AssertSelect
<1>3. ~manners.misaligned /\ manners.noticed /\ manners.idled /\ ~manners.spoilt
  BY <1>2 DEF Settled
<1>4. ~selected /\ bit' = 0 /\ sent' = 0 /\ answered' = 0
  BY DEF AssertSelect
<1>5. captured = <<>> /\ isr = <<>> /\ size = 0 /\ frame = <<>> /\ pending = <<>>
      /\ queued_bytes = 0 /\ fifo = <<>> /\ shifter # "Shift"
  BY <1>3, <1>4 DEF CaptureAligned, IdleReleases, NothingLeft
<1>6. moved = 0
  BY <1>5 DEF PathTyped, TransmitInv, TransmitTypeOK, SpanIsQueued
<1>7. UNCHANGED <<isr, captured, size, frame, pending, queued_bytes, moved, fifo, shifter>>
  BY DEF AssertSelect, ringVars, driverVars, ringState, pioState
<1> QED
  BY <1>4, <1>5, <1>6, <1>7

\* On the way to the engine: the unfinished frame, the receive queue and the capture
\* ring, each beginning where the one before it ends.
Received ==
    Orderly =>
        /\ Follows(frame, transaction, answered)
        /\ Follows(Contents, transaction, answered + Len(frame))
        /\ Follows(captured, transaction, answered + Len(frame) + size)
        /\ answered + Len(frame) + size + Len(captured) = sent
        /\ isr = [i \in 1 .. bit |-> Byte(transaction, sent)]

LEMMA ReceivedMeansInOrder == PathTyped /\ Received => ReceivedInOrder
<1> SUFFICES ASSUME PathTyped, Received, Orderly PROVE ReceivedInOrder
  BY DEF ReceivedInOrder
<1>1. /\ frame \in Seq(Bytes) /\ Contents \in Seq(Bytes) /\ captured \in Seq(Bytes)
      /\ answered \in Nat /\ sent \in Nat
  BY DEF PathTyped, WorkerTyped, CaptureTyped, ClientTyped
<1>2. Len(Contents) = size
  BY ContentsTyped DEF PathTyped, RingInv, ContentsOK
<1>3. /\ frame \o Contents \in Seq(Bytes) /\ Len(frame \o Contents) = Len(frame) + size
      /\ Len(frame) \in Nat /\ size \in Nat /\ Len(captured) \in Nat
  BY <1>1, <1>2, ConcatProperties, LenProperties
<1>4. Follows(frame \o Contents, transaction, answered)
  BY <1>1, FollowsConcat DEF Received
<1>5. /\ (frame \o Contents) \o captured \in Seq(Bytes)
      /\ Len((frame \o Contents) \o captured) = Len(frame) + size + Len(captured)
  BY <1>1, <1>3, ConcatProperties
<1>6. answered + Len(frame \o Contents) = answered + Len(frame) + size
  BY <1>1, <1>3
<1>7. Follows((frame \o Contents) \o captured, transaction, answered)
  BY <1>1, <1>3, <1>4, <1>6, FollowsConcat DEF Received
<1>8. /\ Len((frame \o Contents) \o captured) <= sent
      /\ sent - Len((frame \o Contents) \o captured) = answered
  BY <1>1, <1>3, <1>5 DEF Received
<1>9. EndsWith((frame \o Contents) \o captured, sent)
  BY <1>1, <1>5, <1>7, <1>8, FollowsEndsWith
<1> QED
  BY <1>8, <1>9 DEF Received, ReceivedInOrder

LEMMA EmptyContentsNext == ASSUME size' = 0 PROVE Contents' = <<>>
<1>1. Contents' = [i \in 1 .. 0 |-> values'[Slot(i)']]
  BY DEF Contents
<1> QED
  BY <1>1, SMT

\* What each step does to the way to the engine.
LEMMA ClockedInOrder ==
    ASSUME PathTyped, PathTyped', Received, Orderly, Orderly', ClockBit
    PROVE  Received'
<1>0. /\ frame \in Seq(Bytes) /\ Contents \in Seq(Bytes) /\ captured \in Seq(Bytes)
      /\ answered \in Nat /\ sent \in Nat /\ size \in Nat /\ transaction \in Transactions
      /\ bit \in 0 .. BitsPerByte - 1
  BY DEF PathTyped, WorkerTyped, CaptureTyped, ClientTyped, RingInv, RingTypeOK
<1>1. PICK c \in Bytes : c = Byte(transaction, sent)
  BY <1>0, ByteTyped
<1>2. PICK bits : bits = Append(isr, c)
  OBVIOUS
<1>3. /\ UNCHANGED <<transaction, frame, Contents, size, answered>>
      /\ orderly' = (orderly /\ ~Laps(bits))
      /\ bit' = (bit + 1) % BitsPerByte
      /\ sent' = IF bit' = 0 THEN sent + 1 ELSE sent
      /\ isr' = IF InFull(bits) THEN <<>> ELSE bits
      /\ Capture(bits)
  BY <1>1, <1>2 DEF ClockBit, workerVars, ringVars, Contents, Slot
<1>4. ~Laps(bits)
  BY <1>3 DEF Orderly
<1>5. isr = [i \in 1 .. bit |-> c]
  BY <1>1 DEF Received
<1>6. bits = [i \in 1 .. bit + 1 |-> c] /\ bits \in Seq(Bytes) /\ Len(bits) = bit + 1
  <2>1. bit \in Nat /\ bit + 1 \in Nat
    BY <1>0
  <2>2. [i \in 1 .. bit + 1 |-> c] \in [1 .. bit + 1 -> Bytes]
    OBVIOUS
  <2> QED
    BY <1>2, <1>5, <2>1, <2>2, ConstantAppend, FunctionIsSeq
<1>7. bit' = IF bit + 1 = BitsPerByte THEN 0 ELSE bit + 1
  BY <1>0, <1>3, ModNext
<1>8. CASE InFull(bits)
  <2>1. bit' = 0 /\ isr' = <<>> /\ sent' = sent + 1
    BY <1>3, <1>6, <1>7, <1>8 DEF InFull
  <2>2. Assembled(bits) = c
    <3>1. DOMAIN bits = 1 .. bit + 1 /\ 1 \in DOMAIN bits /\ \A i \in 1 .. bit + 1 : bits[i] = c
      BY <1>0, <1>6
    <3> QED
      BY <3>1 DEF Assembled
  <2>3. captured' = Append(captured, c)
    BY <1>3, <1>4, <1>8, <2>2 DEF Capture
  <2>4. /\ Len(captured') = Len(captured) + 1 /\ Len(captured) \in Nat /\ Len(frame) \in Nat
    BY <1>0, <2>3, AppendProperties, LenProperties
  <2>5. PICK start \in Nat : start = answered + Len(frame) + size
    BY <1>0, <2>4
  <2>6. start + Len(captured) = sent /\ Follows(captured, transaction, start)
    BY <2>5 DEF Received
  <2>7. Follows(captured', transaction, start)
    BY <1>0, <1>1, <2>3, <2>6, FollowsAppend
  <2>8. start + Len(captured') = sent'
    BY <2>1, <2>4, <2>6
  <2>9. isr' = [i \in 1 .. bit' |-> Byte(transaction', sent')]
    BY <2>1, SMT
  <2> QED
    BY <1>3, <2>5, <2>7, <2>8, <2>9 DEF Received
<1>9. CASE ~InFull(bits)
  <2>1. bit' = bit + 1 /\ isr' = bits /\ sent' = sent /\ captured' = captured
    BY <1>0, <1>3, <1>4, <1>6, <1>7, <1>9 DEF InFull, Capture, Laps
  <2>2. isr' = [i \in 1 .. bit' |-> Byte(transaction', sent')]
    BY <1>1, <1>3, <1>6, <2>1
  <2> QED
    BY <1>3, <2>1, <2>2 DEF Received
<1> QED
  BY <1>8, <1>9

LEMMA ReadInOrder ==
    ASSUME PathTyped, PathTyped', PollKeepsUp, Received, Orderly, ReadByte
    PROVE  Received'
<1>0. /\ captured \in Seq(Bytes) /\ Contents \in Seq(Bytes)
      /\ answered \in Nat /\ size \in Nat /\ budget \in 0 .. MaxPerPoll
      /\ Len(frame) \in Nat /\ MaxPerPoll \in 1 .. Capacity
  BY LenProperties DEF PathTyped, WorkerTyped, CaptureTyped, MonitorTyped, RingInv, RingTypeOK
<1>1. /\ stage = "Read" /\ budget > 0 /\ captured # <<>> /\ captured' = Tail(captured)
      /\ UNCHANGED <<transaction, frame, answered, sent, isr, bit>>
      /\ TryPush(Head(captured)) \/ Full
  BY DEF ReadByte, clientVars
<1>2. ~Full
  BY <1>0, <1>1 DEF PollKeepsUp, Orderly, Full
<1>3. PICK start \in Nat : start = answered + Len(frame)
  BY <1>0
<1>4. /\ Follows(Contents, transaction, start)
      /\ Follows(captured, transaction, start + size)
      /\ start + size + Len(captured) = sent
  BY <1>3 DEF Received
<1>5. Len(Contents) = size
  BY ContentsTyped DEF PathTyped, RingInv, ContentsOK
<1>6. /\ Head(captured) = Byte(transaction, start + size) /\ Head(captured) \in Bytes
      /\ Follows(Tail(captured), transaction, start + size + 1)
      /\ Len(Tail(captured)) = Len(captured) - 1 /\ Len(captured) \in Nat
  BY <1>0, <1>1, <1>4, FollowsTail
<1>7. Contents' = Append(Contents, Head(captured)) /\ size' = size + 1
  BY <1>1, <1>2, <1>6, PushAppends DEF PathTyped, TryPush
<1>8. Follows(Contents', transaction, start)
  BY <1>0, <1>4, <1>5, <1>6, <1>7, FollowsAppend
<1>9. /\ Follows(captured', transaction, start + size')
      /\ start + size' + Len(captured') = sent
  <2>1. start + size + 1 = start + size' /\ start + size' + (Len(captured) - 1) = sent
    BY <1>0, <1>4, <1>6, <1>7
  <2> QED
    BY <1>1, <1>6, <2>1
<1>10. isr = [i \in 1 .. bit |-> Byte(transaction, sent)] /\ Follows(frame, transaction, answered)
  BY DEF Received
<1> QED
  BY <1>1, <1>3, <1>8, <1>9, <1>10 DEF Received

\* A byte joins the frame, and the last one makes it the frame of the transaction.
LEMMA TakenInOrder ==
    ASSUME PathTyped, PathTyped', FramesAnswered, Received, Orderly, ProcessByte,
           NEW bytes, bytes = Append(frame, output')
    PROVE  /\ Received'
           /\ Len(bytes) = FrameLength => bytes = Frame(transaction)
           /\ bytes \in Seq(Bytes) /\ Follows(bytes, transaction, answered)
           /\ answered + Len(bytes) <= sent
<1>0. /\ captured \in Seq(Bytes) /\ Contents \in Seq(Bytes) /\ frame \in Seq(Bytes)
      /\ answered \in Nat /\ size \in Nat /\ sent \in Nat
      /\ Len(frame) \in Nat /\ Len(captured) \in Nat
  BY LenProperties DEF PathTyped, WorkerTyped, CaptureTyped, ClientTyped, RingInv, RingTypeOK
<1>1. /\ TryPop
      /\ frame' = IF Len(bytes) = FrameLength THEN <<>> ELSE bytes
      /\ answered' = IF Len(bytes) = FrameLength THEN answered + FrameLength ELSE answered
      /\ UNCHANGED <<transaction, captured, sent, isr, bit>>
  BY DEF ProcessByte, clientVars, captureVars
<1>2. /\ Contents # <<>> /\ output' = Head(Contents) /\ Contents' = Tail(Contents)
      /\ output' \in Bytes /\ bytes \in Seq(Bytes) /\ Len(bytes) = Len(frame) + 1
  BY <1>1, PoppedByte DEF PathTyped
<1>3. size' = size - 1 /\ size # 0
  BY <1>1 DEF TryPop, Empty
<1>4. PICK start \in Nat : start = answered + Len(frame)
  BY <1>0
<1>5. /\ Follows(frame, transaction, answered)
      /\ Follows(Contents, transaction, start)
      /\ Follows(captured, transaction, start + size)
      /\ start + size + Len(captured) = sent
      /\ isr = [i \in 1 .. bit |-> Byte(transaction, sent)]
  BY <1>4 DEF Received
<1>6. Head(Contents) = Byte(transaction, start) /\ Follows(Tail(Contents), transaction, start + 1)
  BY <1>0, <1>2, <1>5, FollowsTail
<1>7. Follows(bytes, transaction, answered)
  BY <1>0, <1>2, <1>4, <1>5, <1>6, FollowsAppend
<1>8. CASE Len(bytes) = FrameLength
  <2>1. frame' = <<>> /\ Len(<<>>) = 0 /\ answered' = start + 1 /\ answered' + 0 = start + 1
    BY <1>0, <1>1, <1>2, <1>4, <1>8
  <2>2. start + 1 + (size - 1) = start + size
    BY <1>0
  <2>3. Received'
    BY <1>0, <1>1, <1>2, <1>3, <1>5, <1>6, <2>1, <2>2, FollowsEmpty DEF Received
  <2>4. bytes = Frame(transaction)
    <3>1. PICK q \in Nat : answered = FrameLength * q
      BY DEF FramesAnswered
    <3>2. ASSUME NEW i \in 1 .. FrameLength PROVE bytes[i] = Byte(transaction, i - 1)
      <4>1. bytes[i] = Byte(transaction, answered + i - 1)
        BY <1>7, <1>8 DEF Follows
      <4>2. i - 1 \in 0 .. FrameLength - 1 /\ answered + i - 1 = FrameLength * q + (i - 1)
        BY <1>0, <3>1
      <4>3. (answered + i - 1) % FrameLength = i - 1 /\ (i - 1) % FrameLength = i - 1
        BY <4>2, ModOfSum, ModSmall
      <4> QED
        BY <4>1, <4>3 DEF Byte
    <3>3. transaction \in Transactions
      BY DEF PathTyped, ClientTyped
    <3>4. /\ Frame(transaction) \in Seq(Bytes) /\ Len(Frame(transaction)) = FrameLength
          /\ \A i \in 1 .. FrameLength : Frame(transaction)[i] = Byte(transaction, i - 1)
      BY <3>3, FrameTyped DEF Frame
    <3> QED
      BY <1>2, <1>8, <3>2, <3>4, SeqEqual
  <2> QED
    BY <1>0, <1>2, <1>3, <1>4, <1>5, <1>7, <2>3, <2>4
<1>9. CASE Len(bytes) # FrameLength
  <2>1. frame' = bytes /\ answered' = answered /\ answered + Len(bytes) = start + 1
    BY <1>0, <1>1, <1>2, <1>4, <1>9
  <2>2. start + 1 + (size - 1) = start + size
    BY <1>0
  <2>3. Received'
    BY <1>0, <1>1, <1>2, <1>3, <1>5, <1>6, <1>7, <2>1, <2>2 DEF Received
  <2> QED
    BY <1>0, <1>2, <1>3, <1>5, <1>7, <1>9, <2>1, <2>3
<1> QED
  BY <1>8, <1>9

LEMMA StillReceived ==
    ASSUME PathTyped, PathTyped', MonitorKnows, IdleReleases, CaptureAligned, NothingLeft,
           PollKeepsUp, FramesAnswered, Received, [PathNext]_pathVars
    PROVE  Received'
<1> SUFFICES ASSUME Orderly' PROVE Received'
  BY DEF Received
<1>1. CASE AssertSelect
  <2>1. /\ captured' = <<>> /\ isr' = <<>> /\ bit' = 0 /\ sent' = 0 /\ answered' = 0
        /\ size' = 0 /\ frame' = <<>>
    BY <1>1, OrderlyBeginsEmpty
  <2>2. Contents' = <<>>
    BY <2>1, EmptyContentsNext
  <2>3. isr' = [i \in 1 .. bit' |-> Byte(transaction', sent')]
    BY <2>1, SMT
  <2>4. Len(<<>>) = 0 /\ 0 + 0 + 0 + 0 = 0
    OBVIOUS
  <2> QED
    BY <2>1, <2>2, <2>3, <2>4, FollowsEmpty DEF Received
<1>2. CASE ~AssertSelect
  <2>0. Orderly /\ transaction' = transaction
    BY <1>2, OrderlyOnlyFromSelect
  <2>1. CASE ClockBit
    BY <2>0, <2>1, ClockedInOrder
  <2>2. CASE ReadByte
    BY <2>0, <2>2, ReadInOrder
  <2>3. CASE ProcessByte
    BY <2>0, <2>3, TakenInOrder
  <2>4. CASE ClockIdle
    <3>0. ~selected /\ bit = 0
      BY <2>0, <2>4 DEF ClockIdle, Orderly
    <3>1. isr = <<>>
      BY <2>0, <3>0, SMT DEF Received
    <3>2. ~InFull(Append(isr, Garbled))
      BY <3>1 DEF InFull
    <3>3. UNCHANGED <<captured, frame, Contents, size, answered, sent, bit>> /\ isr' = isr
      BY <2>4, <3>1, <3>2
         DEF ClockIdle, Capture, Laps, workerVars, ringVars, clientVars, Contents, Slot
    <3> QED
      BY <2>0, <3>3 DEF Received
  <2>5. CASE Cleanup \/ TargetOff
    <3>1. CASE Cleanup
      <4>1. stage = "Cleanup" /\ (orderly' => orderly /\ selected)
        BY <3>1 DEF Cleanup
      <4> QED
        BY <4>1 DEF MonitorKnows, Orderly
    <3>2. CASE TargetOff
      BY <3>2 DEF TargetOff, Orderly
    <3> QED
      BY <2>5, <3>1, <3>2
  <2>6. CASE EndReading
    <3>1. UNCHANGED ringVars /\ UNCHANGED <<frame, answered, captured, sent, bit, isr>>
      <4>1. ~timedOut'
        BY DEF Orderly
      <4> QED
        BY <2>6, <4>1 DEF EndReading, workerVars, clientVars, captureVars
    <3>2. UNCHANGED <<Contents, size>>
      BY <3>1 DEF ringVars, Contents, Slot
    <3> QED
      BY <2>0, <3>1, <3>2 DEF Received
  <2>7. CASE TraceByte
    <3>1. ~enabled
      BY <2>7 DEF TraceByte
    <3> QED
      BY <2>0, <3>1 DEF MonitorKnows, Orderly
  <2>8. CASE \/ ReleaseSelect \/ PollStart \/ DrainByte \/ EndDraining \/ TargetOn \/ HardwareStep
             \/ UNCHANGED pathVars
    <3>1. UNCHANGED <<ringVars, frame, answered, captured, sent, bit, isr>>
      BY <2>8 DEF ReleaseSelect, PollStart, DrainByte, EndDraining, TargetOn, HardwareStep, pathVars,
         workerVars, clientVars, captureVars
    <3>2. UNCHANGED <<Contents, size>>
      BY <3>1 DEF ringVars, Contents, Slot
    <3> QED
      BY <2>0, <3>1, <3>2 DEF Received
  <2> QED
    BY <1>2, <2>1, <2>2, <2>3, <2>4, <2>5, <2>6, <2>7, <2>8 DEF PathNext
<1> QED
  BY <1>1, <1>2

-----------------------------------------------------------------------------
\* On the way back: the byte the PIO shifts, what the FIFO and the ring hold, and the
\* transmit queue of the worker, the last of which ends with the last answer.
Answered ==
    Orderly =>
        /\ Len(Shifted) + Len(Remaining) + Len(pending) <= answered
        /\ Follows(pending, transaction, answered - Len(pending))
        /\ Follows(Remaining, transaction, answered - Len(pending) - Len(Remaining))
        /\ Follows(Shifted, transaction, answered - Len(pending) - Len(Remaining) - Len(Shifted))

LEMMA ShiftedLength == Len(Shifted) \in 0 .. 1
<1>1. Len(<<osr>>) = 1 /\ Len(<<>>) = 0
  OBVIOUS
<1>2. Shifted = <<osr>> \/ Shifted = <<>>
  BY DEF Shifted
<1> QED
  BY <1>1, <1>2

LEMMA BackTyped ==
    PathTyped =>
        /\ pending \in Seq(Bytes) /\ Remaining \in Seq(Bytes)
        /\ Len(pending) \in Nat /\ Len(Remaining) \in Nat /\ Len(Shifted) \in Nat
        /\ answered \in Nat
<1> SUFFICES ASSUME PathTyped
             PROVE  /\ pending \in Seq(Bytes) /\ Remaining \in Seq(Bytes)
                    /\ Len(pending) \in Nat /\ Len(Remaining) \in Nat /\ Len(Shifted) \in Nat
                    /\ answered \in Nat
  OBVIOUS
<1>1. pending \in Seq(Bytes) /\ Remaining \in Seq(Bytes) /\ answered \in Nat
  BY RemainingTyped DEF PathTyped, WorkerTyped
<1> QED
  BY <1>1, LenProperties, ShiftedLength

LEMMA AnsweredMeansInOrder == PathTyped /\ Answered => AnsweredInOrder
<1> SUFFICES ASSUME PathTyped, Answered, Orderly
             PROVE  EndsWith((Shifted \o Remaining) \o pending, answered)
  BY DEF AnsweredInOrder
<1>0. /\ pending \in Seq(Bytes) /\ Remaining \in Seq(Bytes)
      /\ Len(pending) \in Nat /\ Len(Remaining) \in Nat /\ Len(Shifted) \in Nat
      /\ answered \in Nat
  BY BackTyped
<1>1. /\ Len(Shifted) + Len(Remaining) + Len(pending) <= answered
      /\ Follows(pending, transaction, answered - Len(pending))
      /\ Follows(Remaining, transaction, answered - Len(pending) - Len(Remaining))
      /\ Follows(Shifted, transaction, answered - Len(pending) - Len(Remaining) - Len(Shifted))
  BY DEF Answered
<1>2. PICK first \in Nat : first = answered - Len(pending) - Len(Remaining) - Len(Shifted)
  <2>1. answered - Len(pending) - Len(Remaining) - Len(Shifted) \in Nat
    BY <1>0, <1>1
  <2> QED
    BY <2>1
<1>3. /\ first + Len(Shifted) = answered - Len(pending) - Len(Remaining)
      /\ first + (Len(Shifted) + Len(Remaining)) = answered - Len(pending)
      /\ answered - (Len(Shifted) + Len(Remaining) + Len(pending)) = first
  BY <1>0, <1>2
<1>4. Shifted \in Seq(Bytes)
  <2>1. CASE shifter = "Shift"
    <3>1. Shifted = <<osr>>
      BY <2>1 DEF Shifted
    <3>2. Len(<<osr>>) = 1 /\ <<osr>>[1] = osr
      OBVIOUS
    <3>3. osr = Byte(transaction, first + 1 - 1)
      BY <1>1, <1>2, <3>1, <3>2 DEF Follows
    <3>4. first + 1 - 1 \in Nat /\ transaction \in Transactions
      BY <1>2 DEF PathTyped, ClientTyped
    <3>5. osr \in Bytes
      BY <3>3, <3>4, ByteTyped
    <3> QED
      BY <3>1, <3>5
  <2>2. CASE shifter # "Shift"
    BY <2>2, EmptySeq DEF Shifted
  <2> QED
    BY <2>1, <2>2
<1>5. /\ Shifted \o Remaining \in Seq(Bytes)
      /\ Len(Shifted \o Remaining) = Len(Shifted) + Len(Remaining)
  BY <1>0, <1>4, ConcatProperties
<1>6. Follows(Shifted \o Remaining, transaction, first)
  BY <1>0, <1>1, <1>2, <1>3, <1>4, FollowsConcat
<1>7. /\ (Shifted \o Remaining) \o pending \in Seq(Bytes)
      /\ Len((Shifted \o Remaining) \o pending) = Len(Shifted) + Len(Remaining) + Len(pending)
  BY <1>0, <1>5, ConcatProperties
<1>8. Follows((Shifted \o Remaining) \o pending, transaction, first)
  BY <1>0, <1>1, <1>3, <1>5, <1>6, FollowsConcat
<1> QED
  BY <1>0, <1>1, <1>3, <1>7, <1>8, FollowsEndsWith

\* An answer that fits joins the transmit queue.
LEMMA AnswerJoins ==
    ASSUME PathTyped, PathTyped', FramesAnswered, Received, Answered, Orderly, ProcessByte,
           MaxBytes <= TransmitBytes
    PROVE  Answered'
<1>0. /\ pending \in Seq(Bytes) /\ Remaining \in Seq(Bytes)
      /\ Len(pending) \in Nat /\ Len(Remaining) \in Nat /\ Len(Shifted) \in Nat
      /\ answered \in Nat
  BY BackTyped
<1>1. PICK bytes : bytes = Append(frame, output')
  OBVIOUS
<1>2. /\ pending' = IF Len(bytes) = FrameLength /\ Len(pending) + FrameLength <= TransmitBytes
                      THEN pending \o Reply(bytes) ELSE pending
      /\ answered' = IF Len(bytes) = FrameLength THEN answered + FrameLength ELSE answered
      /\ UNCHANGED <<transaction, driverVars, pioState>>
  BY <1>1 DEF ProcessByte, clientVars
<1>3. UNCHANGED <<Remaining, Shifted>>
  <2>1. UNCHANGED <<dma_queue, queue_head, queued_bytes, moved, fifo, osr>>
    BY <1>2 DEF driverVars, ringState, pioState
  <2> QED
    BY <1>2, <2>1, OthersKeepLine DEF PathTyped, Shifted, pioState
<1>4. CASE Len(bytes) = FrameLength
  <2>1. /\ bytes = Frame(transaction) /\ bytes \in Seq(Bytes)
        /\ Follows(bytes, transaction, answered) /\ answered + FrameLength <= sent
    BY <1>1, <1>4, TakenInOrder
  <2>2. Reply(bytes) = bytes
    BY <2>1 DEF PathTyped, ClientTyped, Reply
  <2>3. Len(pending) <= answered
    BY <1>0 DEF Answered
  <2>4. Len(pending) + FrameLength <= TransmitBytes
    BY <1>0, <2>1, <2>3 DEF PathTyped, ClientTyped
  <2>5. /\ pending' = pending \o bytes /\ Len(pending \o bytes) = Len(pending) + FrameLength
        /\ answered' = answered + FrameLength
    BY <1>0, <1>2, <1>4, <2>1, <2>2, <2>4, ConcatProperties
  <2>6. PICK first \in Nat : first = answered - Len(pending)
    <3>1. answered - Len(pending) \in Nat
      BY <1>0, <2>3
    <3> QED
      BY <3>1
  <2>7. first + Len(pending) = answered /\ answered' - Len(pending') = first
    BY <1>0, <2>5, <2>6
  <2>8. Follows(pending, transaction, first)
    BY <2>6 DEF Answered
  <2>9. Follows(pending', transaction', answered' - Len(pending'))
    BY <1>0, <1>2, <2>1, <2>5, <2>7, <2>8, FollowsConcat
  <2>10. Len(Shifted) + Len(Remaining) + Len(pending') <= answered'
    BY <1>0, <2>5 DEF Answered
  <2> QED
    BY <1>2, <1>3, <2>6, <2>7, <2>9, <2>10 DEF Answered
<1>5. CASE Len(bytes) # FrameLength
  BY <1>2, <1>3, <1>5 DEF Answered
<1> QED
  BY <1>4, <1>5

\* A byte moves from the transmit queue to the ring.
LEMMA AnswerMoves ==
    ASSUME PathTyped, PathTyped', Answered, Orderly, DrainByte
    PROVE  Answered'
<1>0. /\ pending \in Seq(Bytes) /\ Remaining \in Seq(Bytes)
      /\ Len(pending) \in Nat /\ Len(Remaining) \in Nat /\ Len(Shifted) \in Nat
      /\ answered \in Nat
  BY BackTyped
<1>1. /\ pending # <<>> /\ pending' = Tail(pending) /\ TryWrite(Head(pending))
      /\ UNCHANGED <<transaction, answered, pioState>>
  BY DEF DrainByte, TryWrite, clientVars
<1>2. PICK first \in Nat : first = answered - Len(pending)
  BY <1>0 DEF Answered
<1>3. Follows(pending, transaction, first)
  BY <1>2 DEF Answered
<1>4. /\ Head(pending) = Byte(transaction, first) /\ Head(pending) \in Bytes
      /\ Follows(Tail(pending), transaction, first + 1)
      /\ Len(Tail(pending)) = Len(pending) - 1
  BY <1>0, <1>1, <1>3, FollowsTail
<1>5. Remaining' = Append(Remaining, Head(pending))
  BY <1>1, <1>4, TryWriteIsPush DEF PathTyped, Wire!Push
<1>6. Len(Remaining') = Len(Remaining) + 1
  BY <1>0, <1>4, <1>5, AppendProperties
<1>7. PICK begin \in Nat : begin = first - Len(Remaining)
  BY <1>0, <1>2 DEF Answered
<1>8. Follows(Remaining, transaction, begin) /\ begin + Len(Remaining) = first
  BY <1>0, <1>2, <1>7 DEF Answered
<1>9. Follows(Remaining', transaction, begin)
  BY <1>0, <1>4, <1>5, <1>8, FollowsAppend
<1>10. /\ answered - Len(pending') = first + 1
       /\ answered - Len(pending') - Len(Remaining') = begin
       /\ Len(Remaining') + Len(pending') = Len(Remaining) + Len(pending)
  BY <1>0, <1>1, <1>2, <1>4, <1>6, <1>7
<1>11. Shifted' = Shifted
  BY <1>1 DEF pioState, Shifted
<1>12. Follows(Shifted, transaction, begin - Len(Shifted))
  BY <1>2, <1>7 DEF Answered
<1>13. Len(Shifted) + Len(Remaining') + Len(pending') <= answered
  BY <1>0, <1>1, <1>4, <1>6 DEF Answered
<1> QED
  BY <1>1, <1>4, <1>9, <1>10, <1>11, <1>12, <1>13 DEF Answered

\* The PIO program takes the first byte of the line, and loses it when CS is high.
LEMMA AnswerPulled ==
    ASSUME PathTyped, PathTyped', Answered, Orderly, PioPulls,
           UNCHANGED <<transaction, pending, answered>>
    PROVE  Answered'
<1>0. /\ pending \in Seq(Bytes) /\ Remaining \in Seq(Bytes)
      /\ Len(pending) \in Nat /\ Len(Remaining) \in Nat /\ answered \in Nat
  BY BackTyped
<1>1. Remaining # <<>> /\ osr' = Head(Remaining) /\ Remaining' = Tail(Remaining)
  BY PioPullsIsPop DEF PathTyped, Wire!Pop
<1>2. Shifted = <<>> /\ (Shifted' = <<osr'>> \/ Shifted' = <<>>)
  BY DEF PioPulls, Shifted
<1>3. PICK first \in Nat : first = answered - Len(pending) - Len(Remaining)
  <2>1. Len(Shifted) = 0
    BY <1>2, EmptySeq
  <2>2. answered - Len(pending) - Len(Remaining) \in Nat
    BY <1>0, <2>1 DEF Answered
  <2> QED
    BY <2>2
<1>4. Follows(Remaining, transaction, first)
  BY <1>3 DEF Answered
<1>5. /\ Head(Remaining) = Byte(transaction, first)
      /\ Follows(Tail(Remaining), transaction, first + 1)
      /\ Len(Tail(Remaining)) = Len(Remaining) - 1
  BY <1>0, <1>1, <1>4, FollowsTail
<1>6. /\ answered - Len(pending) - Len(Remaining') = first + 1
      /\ Len(Remaining') + 1 + Len(pending) <= answered
  BY <1>0, <1>1, <1>3, <1>5
<1>7. Follows(pending, transaction, answered - Len(pending))
  BY DEF Answered
<1>8. CASE Shifted' = <<osr'>>
  <2>1. Len(Shifted') = 1 /\ Shifted'[1] = osr'
    BY <1>8
  <2>2. Follows(Shifted', transaction, first)
    <3>1. ASSUME NEW i \in 1 .. 1 PROVE Shifted'[i] = Byte(transaction, first + i - 1)
      <4>1. i = 1 /\ first + i - 1 = first
        OBVIOUS
      <4> QED
        BY <1>1, <1>5, <2>1, <4>1
    <3> QED
      BY <2>1, <3>1 DEF Follows
  <2>3. first + 1 - Len(Shifted') = first /\ Len(Shifted') + Len(Remaining') + Len(pending) <= answered
    BY <1>0, <1>1, <1>5, <1>6, <2>1
  <2> QED
    BY <1>1, <1>5, <1>6, <1>7, <2>2, <2>3 DEF Answered
<1>9. CASE Shifted' = <<>>
  <2>1. Len(Shifted') = 0 /\ Len(Shifted') + Len(Remaining') + Len(pending) <= answered
    BY <1>0, <1>1, <1>5, <1>6, <1>9
  <2> QED
    BY <1>1, <1>5, <1>6, <1>7, <1>9, <2>1, FollowsEmpty DEF Answered
<1> QED
  BY <1>2, <1>8, <1>9

LEMMA StillAnswered ==
    ASSUME PathTyped, PathTyped', MonitorKnows, IdleReleases, CaptureAligned, NothingLeft,
           FramesAnswered, Received, Answered, [PathNext]_pathVars, MaxBytes <= TransmitBytes
    PROVE  Answered'
<1> SUFFICES ASSUME Orderly' PROVE Answered'
  BY DEF Answered
<1>0. TransmitInv /\ TransmitInv'
  BY DEF PathTyped
<1>1. CASE AssertSelect
  <2>1. /\ queued_bytes' = 0 /\ moved' = 0 /\ fifo' = <<>> /\ shifter' # "Shift"
        /\ pending' = <<>> /\ answered' = 0
    BY <1>1, OrderlyBeginsEmpty
  <2>2. Unmoved' \in Seq(Responses) /\ Len(Unmoved') = 0
    BY <1>0, <2>1, UnmovedTypedNext DEF UnmovedOK
  <2>3. Remaining' = <<>>
    BY <2>1, <2>2, EmptySeq DEF Remaining
  <2>4. Shifted' = <<>>
    BY <2>1 DEF Shifted
  <2>5. Len(<<>>) = 0
    OBVIOUS
  <2> QED
    BY <2>1, <2>3, <2>4, <2>5, FollowsEmpty DEF Answered
<1>2. CASE ~AssertSelect
  <2>0. Orderly /\ transaction' = transaction
    BY <1>2, OrderlyOnlyFromSelect
  <2>1. CASE ProcessByte
    BY <2>0, <2>1, AnswerJoins
  <2>2. CASE DrainByte
    BY <2>0, <2>2, AnswerMoves
  <2>3. CASE HardwareStep /\ PioPulls
    <3>1. UNCHANGED <<pending, answered>>
      BY <2>3 DEF HardwareStep, workerVars
    <3> QED
      BY <2>0, <2>3, <3>1, AnswerPulled
  <2>4. CASE HardwareStep /\ (DmaMoves \/ PioSelected)
    <3>1. UNCHANGED <<pending, answered>>
      BY <2>4 DEF HardwareStep, workerVars
    <3>2. UNCHANGED Remaining
      <4>1. PioSelected => UNCHANGED <<dma_queue, queue_head, queued_bytes, moved, fifo, osr>>
        BY DEF PioSelected, ringState
      <4> QED
        BY <1>0, <2>4, <4>1, DmaKeepsLine, OthersKeepLine
    <3>3. UNCHANGED Shifted
      BY <2>4 DEF DmaMoves, PioSelected, pioState, Shifted
    <3> QED
      BY <2>0, <3>1, <3>2, <3>3 DEF Answered
  <2>5. CASE ClockBit \/ ClockIdle
    <3>1. UNCHANGED <<pending, answered, ringState, moved, fifo, osr>>
      BY <2>5 DEF ClockBit, ClockIdle, PioClocked, workerVars
    <3>2. UNCHANGED Remaining
      BY <1>0, <3>1, OthersKeepLine DEF ringState
    <3>3. Shifted' = Shifted \/ Shifted' = <<>>
      <4>1. shifter # "Shift" => shifter' = shifter
        BY <2>5 DEF ClockBit, ClockIdle, PioClocked
      <4> QED
        BY <3>1, <4>1 DEF Shifted
    <3>4. Len(<<>>) = 0
      OBVIOUS
    <3>5. Len(Remaining) + Len(pending) <= Len(Shifted) + Len(Remaining) + Len(pending)
      BY BackTyped
    <3>6. Len(Remaining) + Len(pending) <= answered
      BY <2>0, <3>5, BackTyped DEF Answered
    <3>7. 0 + Len(Remaining) + Len(pending) <= answered
      BY <3>6, BackTyped
    <3> QED
      BY <2>0, <3>1, <3>2, <3>3, <3>4, <3>7, FollowsEmpty DEF Answered
  <2>6. CASE EndDraining
    <3>1. UNCHANGED <<pending, answered, pioState>> /\ Service
      BY <2>6 DEF EndDraining, Service, workerVars
    <3>2. UNCHANGED Remaining
      BY <1>0, <3>1, OthersKeepLine
    <3> QED
      BY <2>0, <3>1, <3>2 DEF Answered, Shifted, pioState
  <2>7. CASE Cleanup \/ TargetOff
    <3>1. CASE Cleanup
      <4>1. stage = "Cleanup" /\ (orderly' => orderly /\ selected)
        BY <3>1 DEF Cleanup
      <4> QED
        BY <4>1 DEF MonitorKnows, Orderly
    <3>2. CASE TargetOff
      BY <3>2 DEF TargetOff, Orderly
    <3> QED
      BY <2>7, <3>1, <3>2
  <2>8. CASE \/ ReleaseSelect \/ PollStart \/ ReadByte \/ EndReading \/ TargetOn \/ TraceByte
             \/ UNCHANGED pathVars
    <3>1. UNCHANGED <<pending, answered, ringState, moved, fifo, pioState>>
      <4>1. CASE EndReading
        <5>1. ~timedOut'
          BY DEF Orderly
        <5> QED
          BY <4>1, <5>1 DEF EndReading, workerVars, driverVars
      <4>2. CASE ~EndReading
        BY <2>8, <4>2 DEF ReleaseSelect, PollStart, ReadByte, TargetOn, TraceByte, pathVars, workerVars,
           driverVars
      <4> QED
        BY <4>1, <4>2
    <3>2. UNCHANGED <<Remaining, Shifted>>
      <4>1. UNCHANGED <<dma_queue, queue_head, queued_bytes, moved, fifo, osr>>
        BY <3>1 DEF ringState, pioState
      <4> QED
        BY <1>0, <3>1, <4>1, OthersKeepLine DEF Shifted, pioState
    <3> QED
      BY <2>0, <3>1, <3>2 DEF Answered
  <2> QED
    BY <1>2, <2>1, <2>2, <2>3, <2>4, <2>5, <2>6, <2>7, <2>8 DEF PathNext, HardwareStep, PioStep
<1> QED
  BY <1>1, <1>2

-----------------------------------------------------------------------------
OrderInv ==
    /\ PathTyped
    /\ MonitorKnows /\ IdleReleases /\ CaptureAligned /\ NothingLeft /\ PollKeepsUp
    /\ FramesAnswered /\ Received

LEMMA InitOrder == PathInit => OrderInv /\ Answered
<1> SUFFICES ASSUME PathInit PROVE OrderInv /\ Answered
  OBVIOUS
<1>1. PathTyped
  BY InitPathTyped
<1>2. /\ enabled = FALSE /\ seen = FALSE /\ timedOut = FALSE /\ orderly = FALSE /\ stage = "Start"
      /\ manners = Settled /\ selected = FALSE /\ shifter = "Select" /\ isr = <<>>
      /\ captured = <<>> /\ frame = <<>> /\ pending = <<>> /\ fifo = <<>>
      /\ size = 0 /\ queued_bytes = 0 /\ answered = 0
  BY DEF PathInit, Init, TransmitInit
<1>3. MonitorKnows /\ IdleReleases /\ CaptureAligned /\ NothingLeft
  BY <1>2 DEF MonitorKnows, IdleReleases, CaptureAligned, NothingLeft
<1>4. PollKeepsUp /\ Received /\ Answered
  BY <1>2 DEF PollKeepsUp, Received, Answered, Orderly
<1>5. FramesAnswered
  <2>1. FrameLength * 0 = 0
    OBVIOUS
  <2> QED
    BY <1>2, <2>1 DEF FramesAnswered
<1> QED
  BY <1>1, <1>3, <1>4, <1>5 DEF OrderInv

LEMMA NextKeepsOrder == OrderInv /\ [PathNext]_pathVars => OrderInv'
<1> SUFFICES ASSUME OrderInv, [PathNext]_pathVars PROVE OrderInv'
  OBVIOUS
<1>1. PathTyped /\ PathTyped'
  BY NextPathTyped DEF OrderInv
<1>2. MonitorKnows' /\ IdleReleases' /\ CaptureAligned'
  BY <1>1, MonitorStillKnows, IdleStillReleases, CaptureStaysAligned DEF OrderInv
<1>3. NothingLeft' /\ PollKeepsUp'
  BY <1>1, StillNothingLeft, PollStillKeepsUp DEF OrderInv
<1>4. FramesAnswered' /\ Received'
  BY <1>1, AnswersStayWhole, StillReceived DEF OrderInv
<1> QED
  BY <1>1, <1>2, <1>3, <1>4 DEF OrderInv

\* In an orderly transaction the engine gets the bytes the client sent, each once and
\* in order, and no byte of another transaction, whatever those did.
THEOREM EngineReceivesInOrder == PathSpec => []ReceivedInOrder
<1>1. OrderInv => ReceivedInOrder
  BY ReceivedMeansInOrder DEF OrderInv
<1> QED
  BY <1>1, InitOrder, NextKeepsOrder, PTL DEF PathSpec

\* And the client gets the engine's answers likewise, if no transaction has more of
\* them than the transmit queue holds: the worker drops an answer that does not fit.
THEOREM ClientAnsweredInOrder ==
    ASSUME MaxBytes <= TransmitBytes
    PROVE  PathSpec => []AnsweredInOrder
<1>1. OrderInv /\ Answered => AnsweredInOrder
  BY AnsweredMeansInOrder DEF OrderInv
<1>2. OrderInv /\ Answered /\ [PathNext]_pathVars => OrderInv' /\ Answered'
  <2> SUFFICES ASSUME OrderInv, Answered, [PathNext]_pathVars PROVE OrderInv' /\ Answered'
    OBVIOUS
  <2>1. OrderInv'
    BY NextKeepsOrder
  <2> QED
    BY <2>1, StillAnswered DEF OrderInv
<1> QED
  BY <1>1, <1>2, InitOrder, PTL DEF PathSpec
=============================================================================
