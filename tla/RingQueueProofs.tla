--------------------------- MODULE RingQueueProofs ---------------------------
(***************************************************************************)
(* The ring implements the bounded FIFO for every capacity and every set   *)
(* of values.                                                              *)
(***************************************************************************)
EXTENDS RingQueue, SequenceTheorems, TLAPS

RingInv == RingTypeOK /\ TailFollowsSize

LEMMA InitRing == Init => RingInv
BY RingAssumption DEF Init, RingInv, RingTypeOK, TailFollowsSize, Indexes

LEMMA PushKeepsRing == ASSUME RingInv, NEW v \in Values, TryPush(v) PROVE RingInv'
BY RingAssumption DEF RingInv, RingTypeOK, TailFollowsSize, Indexes, TryPush, Advance, Full

LEMMA PopKeepsRing == ASSUME RingInv, TryPop PROVE RingInv'
BY RingAssumption DEF RingInv, RingTypeOK, TailFollowsSize, Indexes, TryPop, Advance, Empty

LEMMA ClearKeepsRing == ASSUME RingInv, Clear PROVE RingInv'
BY RingAssumption DEF RingInv, RingTypeOK, TailFollowsSize, Indexes, Clear

LEMMA NextKeepsRing == RingInv /\ [Next]_ringVars => RingInv'
<1> SUFFICES ASSUME RingInv, [Next]_ringVars PROVE RingInv'
  OBVIOUS
<1>1. CASE \E v \in Values : TryPush(v)
  BY <1>1, PushKeepsRing
<1>2. CASE TryPop
  BY <1>2, PopKeepsRing
<1>3. CASE Clear
  BY <1>3, ClearKeepsRing
<1>4. CASE UNCHANGED ringVars
  BY <1>4 DEF RingInv, RingTypeOK, TailFollowsSize, ringVars
<1> QED
  BY <1>1, <1>2, <1>3, <1>4 DEF Next

\* The indexes stay in range and the size within the capacity.
THEOREM RingIsTyped == Spec => []RingTypeOK
<1>1. RingInv => RingTypeOK
  BY DEF RingInv
<1> QED
  BY <1>1, InitRing, NextKeepsRing, PTL DEF Spec

\* The tail is determined by the head and the size.
THEOREM TailIsInStep == Spec => []TailFollowsSize
<1>1. RingInv => TailFollowsSize
  BY DEF RingInv
<1> QED
  BY <1>1, InitRing, NextKeepsRing, PTL DEF Spec

-----------------------------------------------------------------------------
Elements == Values \cup {NoValue}

LEMMA FunctionIsSeq ==
  ASSUME NEW n \in Nat, NEW S, NEW f \in [1 .. n -> S]
  PROVE  f \in Seq(S) /\ Len(f) = n
<1>1. f \in Seq(S)
  BY SeqDef
<1>2. Len(f) \in Nat /\ DOMAIN f = 1 .. Len(f) /\ DOMAIN f = 1 .. n
  BY <1>1, LenProperties
<1>3. Len(f) = n
  <2>1. CASE Len(f) > n
    <3>1. n + 1 \in 1 .. Len(f) /\ n + 1 \notin 1 .. n
      BY <1>2, <2>1
    <3> QED
      BY <1>2, <3>1
  <2>2. CASE Len(f) < n
    <3>1. n \in 1 .. n /\ n \notin 1 .. Len(f)
      BY <1>2, <2>2
    <3> QED
      BY <1>2, <3>1
  <2> QED
    BY <1>2, <2>1, <2>2
<1> QED
  BY <1>1, <1>3

ContentsOK ==
    /\ Contents \in Seq(Elements)
    /\ Len(Contents) = size
    /\ \A i \in 1 .. size : Contents[i] = values[Slot(i)]

LEMMA ContentsTyped == RingTypeOK => ContentsOK
<1> SUFFICES ASSUME RingTypeOK PROVE ContentsOK
  OBVIOUS
<1>1. \A i \in 1 .. size : Slot(i) \in Indexes
  BY RingAssumption DEF RingTypeOK, Slot, Indexes
<1>2. \A i \in 1 .. size : values[Slot(i)] \in Elements
  BY <1>1 DEF RingTypeOK, Elements
<1>3. size \in Nat
  BY RingAssumption DEF RingTypeOK
<1>4. Contents \in [1 .. size -> Elements]
  BY <1>2 DEF Contents
<1>5. Contents \in Seq(Elements) /\ Len(Contents) = size
  BY <1>3, <1>4, FunctionIsSeq
<1>6. \A i \in 1 .. size : Contents[i] = values[Slot(i)]
  BY DEF Contents
<1> QED
  BY <1>5, <1>6 DEF ContentsOK

LEMMA ContentsTypedNext == RingTypeOK' => ContentsOK'
BY ContentsTyped, PTL

\* An element that is queued does not lie in the slot a push writes.
LEMMA PushAppends ==
  ASSUME RingInv, NEW v \in Values, TryPush(v), RingInv'
  PROVE  Contents' = Append(Contents, v)
<1>1. /\ Contents \in Seq(Elements) /\ Len(Contents) = size
      /\ \A i \in 1 .. size : Contents[i] = values[Slot(i)]
  BY ContentsTyped DEF RingInv, ContentsOK
<1>2. /\ Contents' \in Seq(Elements) /\ Len(Contents') = size'
      /\ \A i \in 1 .. size' : Contents'[i] = values'[Slot(i)]
  BY ContentsTypedNext DEF RingInv, ContentsOK, TryPush, Slot
<1>3. size' = size + 1 /\ size \in Nat
  BY RingAssumption DEF TryPush, RingInv, RingTypeOK
<1>4. /\ Append(Contents, v) \in Seq(Elements)
      /\ Len(Append(Contents, v)) = size + 1
      /\ \A i \in 1 .. size : Append(Contents, v)[i] = Contents[i]
      /\ Append(Contents, v)[size + 1] = v
  <2>1. v \in Elements
    BY DEF Elements
  <2> QED
    BY <1>1, <1>3, <2>1, AppendProperties
<1>5. Slot(size + 1) = tail /\ tail \in Indexes
  BY RingAssumption DEF RingInv, RingTypeOK, TailFollowsSize, Slot, Indexes, TryPush, Full
<1>6. Contents'[size + 1] = v
  <2>1. values'[tail] = v
    BY <1>5 DEF TryPush, RingInv, RingTypeOK
  <2>2. size + 1 \in 1 .. size'
    BY <1>3
  <2> QED
    BY <1>2, <1>5, <2>1, <2>2
<1>7. ASSUME NEW i \in 1 .. size
      PROVE  Contents'[i] = Contents[i]
  <2>1. Slot(i) # tail /\ Slot(i) \in Indexes
    BY RingAssumption DEF RingInv, RingTypeOK, TailFollowsSize, Slot, Indexes, TryPush, Full
  <2>2. values'[Slot(i)] = values[Slot(i)]
    BY <2>1 DEF TryPush, RingInv, RingTypeOK
  <2>3. i \in 1 .. size'
    BY <1>3
  <2> QED
    BY <1>1, <1>2, <2>2, <2>3
<1>8. \A i \in 1 .. size + 1 : i = size + 1 \/ i \in 1 .. size
  BY <1>3
<1>9. \A i \in 1 .. Len(Contents') : Contents'[i] = Append(Contents, v)[i]
  <2>1. SUFFICES ASSUME NEW i \in 1 .. size + 1
                 PROVE  Contents'[i] = Append(Contents, v)[i]
    BY <1>2, <1>3
  <2>2. CASE i = size + 1
    BY <1>4, <1>6, <2>2
  <2>3. CASE i \in 1 .. size
    BY <1>4, <1>7, <2>3
  <2> QED
    BY <1>8, <2>2, <2>3
<1> QED
  BY <1>2, <1>3, <1>4, <1>9, SeqEqual

LEMMA PopTakesHead ==
  ASSUME RingInv, TryPop, RingInv'
  PROVE  /\ Contents # <<>>
         /\ output' = Head(Contents)
         /\ Contents' = Tail(Contents)
<1>1. /\ Contents \in Seq(Elements) /\ Len(Contents) = size
      /\ \A i \in 1 .. size : Contents[i] = values[Slot(i)]
  BY ContentsTyped DEF RingInv, ContentsOK
<1>2. size \in Nat /\ size # 0 /\ size' = size - 1
  BY RingAssumption DEF TryPop, Empty, RingInv, RingTypeOK
<1>3. Contents # <<>>
  BY <1>1, <1>2, EmptySeq
<1>4. /\ Head(Contents) = Contents[1]
      /\ Tail(Contents) \in Seq(Elements)
      /\ Len(Tail(Contents)) = size - 1
      /\ \A i \in 1 .. size - 1 : Tail(Contents)[i] = Contents[i + 1]
  BY <1>1, <1>3, HeadTailProperties
<1>5. output' = Head(Contents)
  <2>1. Slot(1) = head
    BY RingAssumption DEF Slot, RingInv, RingTypeOK, Indexes
  <2>2. 1 \in 1 .. size
    BY <1>2
  <2> QED
    BY <1>1, <1>4, <2>1, <2>2 DEF TryPop
<1>6. ASSUME NEW i \in 1 .. size - 1
      PROVE  Slot(i)' = Slot(i + 1)
  <2>1. /\ Capacity \in Nat \ {0} /\ head \in 0 .. Capacity - 1
        /\ size \in 0 .. Capacity /\ i \in Nat \ {0} /\ i <= size - 1
    BY RingAssumption DEF RingInv, RingTypeOK, Indexes
  <2>2. head' = IF head + 1 = Capacity THEN 0 ELSE head + 1
    BY DEF TryPop, Advance
  <2>3. Slot(i)' = IF head' + i <= Capacity THEN head' + i - 1 ELSE head' + i - 1 - Capacity
    BY DEF Slot
  <2>4. Slot(i + 1) = IF head + (i + 1) <= Capacity
                      THEN head + (i + 1) - 1 ELSE head + (i + 1) - 1 - Capacity
    BY DEF Slot
  <2>5. CASE head + 1 = Capacity
    BY <2>1, <2>2, <2>3, <2>4, <2>5
  <2>6. CASE head + 1 # Capacity
    BY <2>1, <2>2, <2>3, <2>4, <2>6
  <2> QED
    BY <2>5, <2>6
<1>7. /\ Contents' \in Seq(Elements) /\ Len(Contents') = size - 1
      /\ \A i \in 1 .. size - 1 : Contents'[i] = values[Slot(i + 1)]
  <2>1. /\ Contents' \in Seq(Elements) /\ Len(Contents') = size'
        /\ \A i \in 1 .. size' : Contents'[i] = values'[Slot(i)']
    BY ContentsTypedNext DEF RingInv, ContentsOK
  <2>2. values' = values
    BY DEF TryPop
  <2> QED
    BY <1>2, <1>6, <2>1, <2>2
<1>8. \A i \in 1 .. Len(Contents') : Contents'[i] = Tail(Contents)[i]
  <2>1. SUFFICES ASSUME NEW i \in 1 .. size - 1
                 PROVE  Contents'[i] = Tail(Contents)[i]
    BY <1>7
  <2>2. i + 1 \in 1 .. size
    BY <1>2
  <2> QED
    BY <1>1, <1>4, <1>7, <2>2
<1>9. Contents' = Tail(Contents)
  BY <1>4, <1>7, <1>8, SeqEqual
<1> QED
  BY <1>3, <1>5, <1>9

LEMMA EmptyContents == ASSUME size = 0 PROVE Contents = <<>>
<1>1. Contents = [i \in 1 .. 0 |-> values[Slot(i)]]
  BY DEF Contents
<1> QED
  BY <1>1, SMT

LEMMA StepRefines ==
  ASSUME RingInv, [Next]_ringVars
  PROVE  [Fifo!Next]_<<Contents, output>>
<1>0. RingInv'
  BY NextKeepsRing
<1>1. ASSUME NEW v \in Values, TryPush(v) PROVE Fifo!Push(v)
  <2>1. Len(Contents) < Capacity
    BY <1>1, RingAssumption, ContentsTyped DEF TryPush, Full, RingInv, RingTypeOK, ContentsOK
  <2> QED
    BY <1>0, <1>1, <2>1, PushAppends DEF TryPush, Fifo!Push
<1>2. CASE TryPop
  BY <1>0, <1>2, PopTakesHead DEF Fifo!Pop, Fifo!Next
<1>3. CASE Clear
  <2>1. Contents' = <<>>
    BY <1>3 DEF Clear, Contents
  <2> QED
    BY <1>3, <2>1 DEF Clear, Fifo!Clear, Fifo!Next
<1>4. CASE UNCHANGED ringVars
  BY <1>4 DEF ringVars, Contents, Slot
<1> QED
  BY <1>1, <1>2, <1>3, <1>4 DEF Next, Fifo!Next

\* Pushes append, pops take the head, refused calls change nothing: every
\* behaviour of the ring is one of the bounded FIFO.
THEOREM RingIsFifo == Spec => ImplementsFifo
<1>1. Init => Fifo!Init
  BY EmptyContents DEF Init, Fifo!Init
<1>2. RingInv /\ [Next]_ringVars => [Fifo!Next]_<<Contents, output>>
  BY StepRefines
<1> QED
  BY <1>1, <1>2, InitRing, NextKeepsRing, PTL DEF Spec, ImplementsFifo, Fifo!Spec
=============================================================================
