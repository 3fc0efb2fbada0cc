----------------------------- MODULE BoundedFifo -----------------------------
(***************************************************************************)
(* What a bounded handoff queue promises: what is taken out is what was    *)
(* put in, in order, and nothing is accepted beyond its capacity.          *)
(***************************************************************************)
EXTENDS Naturals, Sequences

CONSTANTS Values, Capacity, NoValue

VARIABLES queue, output   \* output: what the last pop returned

Init == queue = <<>> /\ output = NoValue

Push(v) ==
    /\ Len(queue) < Capacity
    /\ queue' = Append(queue, v)
    /\ UNCHANGED output

Pop ==
    /\ queue # <<>>
    /\ output' = Head(queue)
    /\ queue' = Tail(queue)

Clear == queue' = <<>> /\ UNCHANGED output

Next == (\E v \in Values : Push(v)) \/ Pop \/ Clear

Spec == Init /\ [][Next]_<<queue, output>>
=============================================================================
