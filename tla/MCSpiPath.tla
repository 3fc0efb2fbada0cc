------------------------------ MODULE MCSpiPath ------------------------------
(***************************************************************************)
(* Instance of SpiPath for TLC.  Tags are interchangeable, and states that *)
(* differ only in what the two rings hold outside their contents, or in a  *)
(* byte that has been shifted out or processed, are one: no action reads   *)
(* those.                                                                  *)
(***************************************************************************)
EXTENDS SpiPath, TLC

MCBytes == Bytes
TagSymmetry == Permutations(Transactions)

LiveState ==
    <<clientVars, captureVars, monitorVars, head, tail, size, Contents, frame, pending, answered,
      queue_head, queue_tail, queued_bytes, active_bytes, moved, Remaining,
      shifter, left, Shifted, historyVars>>
=============================================================================
