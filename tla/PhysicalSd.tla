------------------------------ MODULE PhysicalSd ------------------------------
(***************************************************************************)
(* PhysicalSdBackend: the card in the physical socket as a block backend.  *)
(* Each operation is modelled at the moment it returns, by the results it  *)
(* may return and what it has then done to the card.  The card may be      *)
(* pulled out and put back at any moment, stay busy after a write, and     *)
(* answer any command with an error.                                       *)
(***************************************************************************)
EXTENDS Naturals

CONSTANTS
    CardSizes,       \* capacities in sectors, as the CSD tells them
    Contents,        \* contents of a sector
    Garbled,         \* a sector damaged on its way: neither direction checks CRCs
    NoWrite,         \* the card programs nothing
    MaxCorruptions   \* how many transfers of a copy may be damaged

\* What a sector holds at first.
CardData(lba) == <<"card", lba>>

ASSUME CardAssumption ==
    /\ CardSizes \subseteq Nat \ {0}
    /\ \A size \in CardSizes : \A lba \in 0 .. size - 1 : CardData(lba) \in Contents
    /\ Garbled \notin Contents
    /\ MaxCorruptions \in Nat

VARIABLES
    inserted, answering,   \* the card: in the socket; has been initialized since
    stored,                \* its sectors
    programming,           \* <<lba, data>> of a write it has accepted and not finished
    protected, detects,    \* write-protect switch; the card-detect pin is connected
    initialized, blocks,   \* initialized_, blocks_
    corruptions            \* transfers damaged so far

cardVars == <<inserted, answering, stored, programming, protected, detects,
              initialized, blocks, corruptions>>

CardInit ==
    /\ inserted = TRUE /\ answering = FALSE
    /\ \E size \in CardSizes : stored = [lba \in 0 .. size - 1 |-> CardData(lba)]
    /\ programming = NoWrite
    /\ protected \in BOOLEAN /\ detects \in BOOLEAN
    /\ initialized = FALSE /\ blocks = 0
    /\ corruptions = 0

-----------------------------------------------------------------------------
SocketHasCard == ~detects \/ inserted
MediaPresent == initialized /\ SocketHasCard
BlockCount == IF MediaPresent THEN blocks ELSE 0

\* select() finds the card ready and command() its answer without an error bit.
Responds == inserted /\ answering /\ programming = NoWrite

Damaged == corruptions < MaxCorruptions /\ corruptions' = corruptions + 1
Undamaged == UNCHANGED corruptions

\* Any error of the card, even in its status, is "Pending".  A sector that arrives
\* damaged, or while the card is being pulled out, completes like any other.
CardRead(lba, result, data) ==
    /\ \/ result = "Failed" /\ ~(MediaPresent /\ lba < blocks) /\ data = Garbled /\ Undamaged
       \/ result = "Pending" /\ MediaPresent /\ lba < blocks /\ data = Garbled /\ Undamaged
       \/ /\ result = "Complete" /\ MediaPresent /\ lba < blocks /\ Responds
          /\ \/ data = stored[lba] /\ Undamaged
             \/ data = Garbled /\ Damaged
    /\ UNCHANGED <<inserted, answering, stored, programming, protected, detects, initialized, blocks>>

\* "Pending" leaves the card as it was, or busy with the write.  Without card
\* detection a socket emptied after the card has accepted a write looks like a card
\* that has finished it.
CardWrite(lba, data, result) ==
    /\ \/ /\ result = "Failed" /\ (~MediaPresent \/ protected \/ lba >= blocks)
          /\ UNCHANGED <<stored, programming>> /\ Undamaged
       \/ /\ result = "Pending" /\ initialized /\ ~protected /\ lba < blocks
          /\ \/ UNCHANGED programming
             \/ Responds /\ programming' = <<lba, data>>
          /\ UNCHANGED stored /\ Undamaged
       \/ /\ result = "Complete" /\ MediaPresent /\ ~protected /\ lba < blocks /\ Responds
          /\ \/ stored' = [stored EXCEPT ![lba] = data] /\ Undamaged
             \/ stored' = [stored EXCEPT ![lba] = Garbled] /\ Damaged
             \/ ~detects /\ UNCHANGED stored /\ Damaged
          /\ UNCHANGED programming
    /\ UNCHANGED <<inserted, answering, protected, detects, initialized, blocks>>

CardFlush(result) ==
    /\ \/ result = "Failed"   \* no medium, or an error in the status
       \/ result = "Pending" /\ initialized
       \/ result = "Complete" /\ MediaPresent /\ Responds
    /\ UNCHANGED cardVars

\* initialize() begins with deinitialize(), and any command in it may fail.
Initialize ==
    /\ \/ initialized' = FALSE /\ blocks' = 0 /\ UNCHANGED answering
       \/ /\ inserted /\ programming = NoWrite
          /\ \E size \in CardSizes : DOMAIN stored = 0 .. size - 1 /\ blocks' = size
          /\ initialized' = TRUE /\ answering' = TRUE
    /\ UNCHANGED <<inserted, stored, programming, protected, detects, corruptions>>

-----------------------------------------------------------------------------
\* The card by itself.
Programmed ==
    /\ programming # NoWrite
    /\ stored' = [stored EXCEPT ![programming[1]] = programming[2]]
    /\ programming' = NoWrite
    /\ UNCHANGED <<inserted, answering, protected, detects, initialized, blocks, corruptions>>

\* A write the card has not finished is lost with the power.
Remove ==
    /\ inserted
    /\ inserted' = FALSE /\ answering' = FALSE /\ programming' = NoWrite
    /\ UNCHANGED <<stored, protected, detects, initialized, blocks, corruptions>>

Insert ==
    /\ ~inserted
    /\ inserted' = TRUE
    /\ UNCHANGED <<answering, stored, programming, protected, detects, initialized, blocks, corruptions>>

CardTypeOK ==
    /\ inserted \in BOOLEAN /\ answering \in BOOLEAN
    /\ \E size \in CardSizes :
        /\ stored \in [0 .. size - 1 -> Contents \cup {Garbled}]
        /\ programming \in ((0 .. size - 1) \X (Contents \cup {Garbled})) \cup {NoWrite}
        /\ blocks \in {0, size}
    /\ protected \in BOOLEAN /\ detects \in BOOLEAN
    /\ initialized \in BOOLEAN
    /\ corruptions \in 0 .. MaxCorruptions
=============================================================================
