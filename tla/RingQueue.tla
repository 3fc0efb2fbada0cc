------------------------------ MODULE RingQueue ------------------------------
(***************************************************************************)
(* FixedRingQueue: an array used as a circle, with head, tail and size.    *)
(* A push into a full queue and a pop from an empty one are refused and    *)
(* change nothing.                                                         *)
(***************************************************************************)
EXTENDS Naturals, Sequences

CONSTANTS
    Values, Capacity,
    NoValue    \* what the array and the output hold before the first push and pop

ASSUME RingAssumption ==
    /\ Capacity \in Nat \ {0}   \* static_assert(Capacity > 0)
    /\ NoValue \notin Values

VARIABLES values, head, tail, size, output

ringVars == <<values, head, tail, size, output>>

Indexes == 0 .. Capacity - 1
Empty == size = 0
FullTooLate == size > Capacity   \* faulty: one element too many
Full == size = Capacity

RunningPast(index) == IF index = Capacity THEN 0 ELSE index + 1   \* faulty: wraps one late
Advance(index) == IF index + 1 = Capacity THEN 0 ELSE index + 1

Init ==
    /\ values = [i \in Indexes |-> NoValue]
    /\ head = 0 /\ tail = 0 /\ size = 0
    /\ output = NoValue

TryPush(v) ==
    /\ ~Full
    /\ values' = [values EXCEPT ![tail] = v]
    /\ tail' = Advance(tail)
    /\ size' = size + 1
    /\ UNCHANGED <<head, output>>

TryPop ==
    /\ ~Empty
    /\ output' = values[head]
    /\ head' = Advance(head)
    /\ size' = size - 1
    /\ UNCHANGED <<values, tail>>

Clear ==
    /\ head' = 0 /\ tail' = 0 /\ size' = 0
    /\ UNCHANGED <<values, output>>

Next == (\E v \in Values : TryPush(v)) \/ TryPop \/ Clear

Spec == Init /\ [][Next]_ringVars
-----------------------------------------------------------------------------
\* The slot of the i-th queued element, counted from the head.
Slot(i) == IF head + i <= Capacity THEN head + i - 1 ELSE head + i - 1 - Capacity
Contents == [i \in 1 .. size |-> values[Slot(i)]]

RingTypeOK ==
    /\ values \in [Indexes -> Values \cup {NoValue}]
    /\ head \in Indexes /\ tail \in Indexes
    /\ size \in 0 .. Capacity
    /\ output \in Values \cup {NoValue}

\* head, tail and size stay in step over every wrap and clear: the tail is where
\* the element after the last queued one goes.
TailFollowsSize ==
    tail = IF head + size < Capacity THEN head + size ELSE head + size - Capacity

Fifo == INSTANCE BoundedFifo WITH queue <- Contents

\* The ring is a bounded FIFO: no element is lost, repeated, reordered or
\* overwritten, also when the indexes wrap and when the queue is full or empty.
ImplementsFifo == Fifo!Spec
=============================================================================
