----------------------------- MODULE BlockContract -----------------------------
(***************************************************************************)
(* What the SD model is promised by its BlockBackend, one operation at a   *)
(* time: a pending operation is repeated until it completes or fails, or   *)
(* is dropped; a read that completes returns the sector as it is and as it *)
(* stays until the next write of it; a write that completes is stored for  *)
(* good; without a medium every call fails.                                *)
(***************************************************************************)
EXTENDS BlockStore

CONSTANTS Sectors, Contents, NoCall

VARIABLES
    ready,   \* a medium is present
    call     \* the operation of the caller and its last result

contractVars == <<storeVars, ready, call>>

Init ==
    /\ disk \in [Sectors -> Contents] /\ late = {}
    /\ ready \in BOOLEAN
    /\ call = NoCall

\* The call that begins an operation, or repeats the pending one.
Called(kind, lba, data, result) ==
    /\ ready \/ result = "Failed"
    /\ call' = [kind |-> kind, lba |-> lba, data |-> data, result |-> result]
    /\ UNCHANGED ready

Repeats(kind, lba) == call.result = "Pending" /\ call.kind = kind /\ call.lba = lba

Read(lba) ==
    /\ call = NoCall \/ Repeats("Read", lba)
    /\ \/ StoreRead(lba, "Complete") /\ Called("Read", lba, disk[lba], "Complete")
       \/ \E data \in Contents, result \in {"Pending", "Failed"} :
             StoreRead(lba, result) /\ Called("Read", lba, data, result)

Write(lba, data) ==
    /\ call = NoCall \/ (Repeats("Write", lba) /\ call.data = data)
    /\ \E result \in {"Complete", "Pending", "Failed"} :
          StoreWrite(lba, data, result) /\ Called("Write", lba, data, result)

Release == call' = NoCall /\ UNCHANGED <<storeVars, ready>>

Background == Settles /\ ready' \in BOOLEAN /\ UNCHANGED call

Next ==
    \/ \E lba \in Sectors : Read(lba) \/ \E data \in Contents : Write(lba, data)
    \/ Release
    \/ Background

Spec == Init /\ [][Next]_contractVars
=============================================================================
