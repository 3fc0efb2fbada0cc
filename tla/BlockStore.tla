------------------------------ MODULE BlockStore ------------------------------
(***************************************************************************)
(* BlockBackend, the storage boundary of the SD command model: what a call *)
(* of read() or write() may do to the medium, and what the medium may do   *)
(* between two calls.  A write that was not answered Complete may reach    *)
(* the medium at any later moment, more than once, or never.               *)
(***************************************************************************)
VARIABLES
    disk,   \* the contents of the sectors
    late    \* the writes that may still reach the medium, as <<lba, data>>

storeVars == <<disk, late>>

\* No write is under way that could change the sector.
Stands(lba) == \A write \in late : write[1] # lba

\* A read is complete with what is on the medium, and only once that is settled.
StoreRead(lba, result) ==
    /\ result = "Complete" => Stands(lba)
    /\ UNCHANGED storeVars

\* A write is complete when it is on the medium and no other can undo it.
StoreWrite(lba, data, result) ==
    \/ /\ result = "Complete"
       /\ disk' = [disk EXCEPT ![lba] = data]
       /\ late' = {write \in late : write[1] # lba}
    \/ /\ result = "Pending"
       /\ late' \in {late, late \cup {<<lba, data>>}}
       /\ UNCHANGED disk
    \/ result = "Failed" /\ UNCHANGED storeVars

\* Between two calls a late write reaches the medium, or is out of the way.
Settles ==
    /\ late' \in SUBSET late
    /\ disk' = disk \/ \E write \in late : disk' = [disk EXCEPT ![write[1]] = write[2]]
=============================================================================
