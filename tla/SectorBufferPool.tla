--------------------------- MODULE SectorBufferPool ---------------------------
(***************************************************************************)
(* CdcSectorBufferPool as pure operators.  A pool is a function from       *)
(* handles to slots plus the order of last use: last_used is only compared *)
(* and every use takes a fresh next_use_, so for each used slot the set of *)
(* those with a smaller last_used carries all of it.                       *)
(***************************************************************************)
EXTENDS Naturals

CONSTANTS
    Capacity,      \* number of slots
    MaxLba,        \* sectors 0 .. MaxLba exist
    Blocks,        \* possible 512-byte payloads
    Blank,         \* the all-zero payload of a cleared slot
    Generations    \* media generations

ASSUME PoolAssumption ==
    /\ Capacity \in Nat \ {0}
    /\ MaxLba \in Nat
    /\ Blank \in Blocks
    /\ Generations \subseteq Nat \ {0}   \* 0 stands for has_generation_ = false

Handles == 1 .. Capacity
NoHandle == 0
Lbas == 0 .. MaxLba
NoGeneration == 0

FreeSlot == [state |-> "Free", lba |-> 0, generation |-> NoGeneration, data |-> Blank]
Slots == {FreeSlot} \cup [state : {"Reading", "Ready", "Writing"}, lba : Lbas,
                          generation : Generations, data : Blocks]
Pools == [slots : [Handles -> Slots], older : [Handles -> SUBSET Handles]]
EmptyPool == [slots |-> [h \in Handles |-> FreeSlot], older |-> [h \in Handles |-> {}]]

-----------------------------------------------------------------------------
Holding(pool, states) == {h \in Handles : pool.slots[h].state \in states}
Used(pool) == Holding(pool, {"Reading", "Ready", "Writing"})

\* The loops over the slots take the first one that fits.
First(handles) == CHOOSE h \in handles : \A other \in handles : h <= other

IsSector(slot, lba, generation) == slot.lba = lba /\ slot.generation = generation

ReadyCopies(pool, lba, generation) ==
    {h \in Holding(pool, {"Ready"}) : IsSector(pool.slots[h], lba, generation)}

FindReady(pool, lba, generation) ==
    LET found == ReadyCopies(pool, lba, generation)
    IN  IF found = {} THEN NoHandle ELSE First(found)

HoldsSector(pool, lba, generation) ==
    \E h \in Used(pool) : IsSector(pool.slots[h], lba, generation)

\* last_used = next_use_++: every other used slot is older now.
Touch(pool, handle) ==
    [g \in Handles |-> IF g = handle THEN Used(pool) \ {handle} ELSE pool.older[g] \ {handle}]

MarkedFree(slot) == [slot EXCEPT !.state = "Free"]   \* faulty: keeps the sector's fields
Cleared(slot) == FreeSlot

Release(pool, handles) ==
    [slots |-> [h \in Handles |-> IF h \in handles THEN Cleared(pool.slots[h])
                                                   ELSE pool.slots[h]],
     older |-> [h \in Handles |-> IF h \in handles THEN {} ELSE pool.older[h] \ handles]]

InvalidateReady(pool, lba, generation) == Release(pool, ReadyCopies(pool, lba, generation))

-----------------------------------------------------------------------------
\* reserve(): the first free slot, else the least recently used ready slot.  The
\* variant takes the newest ready slot.
NewestVictim(pool) ==
    LET free == Holding(pool, {"Free"})
        ready == Holding(pool, {"Ready"})
        newest == {h \in ready : ready \ {h} \subseteq pool.older[h]}
    IN  IF free # {} THEN First(free)
        ELSE IF newest # {} THEN CHOOSE h \in newest : TRUE ELSE NoHandle

Victim(pool) ==
    LET free == Holding(pool, {"Free"})
        ready == Holding(pool, {"Ready"})
        oldest == {h \in ready : pool.older[h] \cap ready = {}}
    IN  IF free # {} THEN First(free)
        ELSE IF oldest # {} THEN CHOOSE h \in oldest : TRUE ELSE NoHandle

Reserve(pool, handle, state, lba, generation, data) ==
    [slots |-> [pool.slots EXCEPT ![handle] =
                   [state |-> state, lba |-> lba, generation |-> generation, data |-> data]],
     older |-> Touch(pool, handle)]

\* checked(): the slot still is the transfer it was reserved for.
Checked(pool, handle, state, lba, generation) ==
    /\ handle \in Handles
    /\ pool.slots[handle].state = state
    /\ IsSector(pool.slots[handle], lba, generation)

Complete(pool, handle, data) ==
    [slots |-> [pool.slots EXCEPT ![handle] = [state |-> "Ready", lba |-> @.lba,
                                               generation |-> @.generation, data |-> data]],
     older |-> pool.older]

\* copy_ready() counts as a use of the slot it copies.
CopyReady(pool, handle) == 
    [slots |-> pool.slots, older |-> Touch(pool, handle)]
=============================================================================
