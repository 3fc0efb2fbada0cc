------------------------------- MODULE MediaCopy -------------------------------
(***************************************************************************)
(* copy_to_exclusive_backend() and copy_from_exclusive_backend() between   *)
(* an image, which their caller owns, and the physical card behind         *)
(* BlockBackendArbiter, which the emulated SD client uses as well.         *)
(*                                                                         *)
(* A backend call of the copier is under way until CallReturns: meanwhile  *)
(* the caller may cancel, the client may call and the card may be pulled   *)
(* out.  A call of the client checks the owner when it begins and reaches  *)
(* the card later.                                                         *)
(***************************************************************************)
EXTENDS PhysicalSd

CONSTANTS
    ImageBlocks,      \* sectors of the image
    MaxCopies,        \* bound: copies in a behaviour
    MaxClientWrites,  \* bound: writes of the client in a behaviour
    NoCall            \* the client is not in a call

ImageLbas == 0 .. ImageBlocks - 1

\* Every sector of the image, as of the card, holds something of its own at first.
ImageData(l) == <<"image", l>>
ClientData(l) == <<"client", l>>

ASSUME CopyAssumption ==
    /\ ImageBlocks \in Nat \ {0}
    /\ \A l \in ImageLbas : ImageData(l) \in Contents
    /\ \A size \in CardSizes : \A l \in 0 .. size - 1 : ClientData(l) \in Contents
    /\ MaxCopies \in Nat /\ MaxClientWrites \in Nat
    /\ NoCall \notin Nat

VARIABLES
    owner,             \* owner_ of the arbiter
    image,             \* the sectors of the image
    toCard, verify,    \* the copy: its direction, and whether it reads back
    pc, running,       \* where the copier is, and whether the call it is at is under way
    answer,            \* what the last call returned; "Failed" for a query that says no
    total, lba,        \* blocks, lba
    sector, actual,    \* sector or expected, and actual
    acquired,          \* HostCopyOwnership
    cancel,            \* cancellation_requested()
    result,            \* what the last copy returned, "None" before
    copies,            \* copies begun
    clientCall,        \* sector of a client's write that has passed the arbiter
    clientWrites,      \* writes the client has begun
    straddled          \* history: such a write was under way when the copy began

copyVars == <<toCard, verify, pc, running, answer, total, lba, sector, actual, acquired, result>>
clientVars == <<clientCall, clientWrites>>
mediaVars == <<cardVars, owner, image, copyVars, cancel, copies, clientVars, straddled>>

SourceCalls == {"SourcePresent", "SourceBlocks", "Read", "VerifySource"}
DestinationCalls == {"DestinationPresent", "DestinationProtected", "DestinationBlocks",
                     "Write", "Flush", "VerifyDestination"}
Calls == SourceCalls \cup DestinationCalls

\* What the copy returns when a call does not complete.
RefusedBy ==
    [SourcePresent |-> "SourceUnavailable", DestinationPresent |-> "DestinationUnavailable",
     DestinationProtected |-> "DestinationWriteProtected", DestinationBlocks |-> "DestinationTooSmall",
     Read |-> "ReadFailed", Write |-> "WriteFailed", Flush |-> "FlushFailed",
     VerifySource |-> "ReadFailed", VerifyDestination |-> "ReadFailed"]

Results == {"None", "Cancelled", "ConfirmationRequired", "OwnershipUnavailable", "Complete",
            "VerificationFailed"} \cup {RefusedBy[call] : call \in DOMAIN RefusedBy}

\* The call or report that follows a call which has completed.
Following ==
    [SourcePresent |-> "DestinationPresent", DestinationPresent |-> "DestinationProtected",
     DestinationProtected |-> "SourceBlocks", SourceBlocks |-> "DestinationBlocks",
     DestinationBlocks |-> "Report", Read |-> "Write", Write |-> "Report",
     VerifySource |-> "VerifyDestination"]

MediaInit ==
    /\ CardInit
    /\ owner = "None"
    /\ image = [l \in ImageLbas |-> ImageData(l)]
    /\ toCard = FALSE /\ verify = FALSE
    /\ pc = "Idle" /\ running = FALSE /\ answer = "Complete"
    /\ total = 0 /\ lba = 0 /\ sector = Garbled /\ actual = Garbled
    /\ acquired = FALSE /\ cancel = FALSE /\ result = "None" /\ copies = 0
    /\ clientCall = NoCall /\ clientWrites = 0 /\ straddled = FALSE

-----------------------------------------------------------------------------
\* The arbiter, and the emulated client behind it.
Transition(expected, desired) == owner = expected /\ owner' = desired

HideIgnoringOwner == owner' = "None"   \* faulty: stores instead of comparing first
HideFromClient == Transition("EmulatedClient", "None")
ExposeToClient == Transition("None", "EmulatedClient")

Expose == ExposeToClient /\ UNCHANGED <<cardVars, image, copyVars, cancel, copies, clientVars, straddled>>
Hide == HideFromClient /\ UNCHANGED <<cardVars, image, copyVars, cancel, copies, clientVars, straddled>>

ClientWriteBegins ==
    /\ clientCall = NoCall /\ clientWrites < MaxClientWrites
    /\ owner = "EmulatedClient"
    /\ \E l \in DOMAIN stored : clientCall' = l
    /\ clientWrites' = clientWrites + 1
    /\ UNCHANGED <<cardVars, owner, image, copyVars, cancel, copies, straddled>>

ClientWriteReaches ==
    /\ clientCall # NoCall
    /\ \E r \in {"Complete", "Pending", "Failed"} : CardWrite(clientCall, ClientData(clientCall), r)
    /\ clientCall' = NoCall
    /\ UNCHANGED <<owner, image, copyVars, cancel, copies, clientWrites, straddled>>

-----------------------------------------------------------------------------
\* The copier.
StartCopy ==
    /\ pc = "Idle" /\ copies < MaxCopies
    /\ copies' = copies + 1 /\ cancel' = FALSE /\ corruptions' = 0 /\ straddled' = FALSE
    /\ toCard' \in BOOLEAN /\ verify' \in BOOLEAN
    /\ total' = 0 /\ lba' = 0 /\ sector' = Garbled /\ actual' = Garbled /\ answer' = "Complete"
    /\ \/ result' = "ConfirmationRequired" /\ UNCHANGED pc
       \/ result' = "None" /\ pc' = "Acquire"
    /\ UNCHANGED <<inserted, answering, stored, programming, protected, detects, initialized, blocks,
                   owner, image, running, acquired, clientVars>>

RequestCancel ==
    /\ pc # "Idle" /\ ~cancel /\ cancel' = TRUE
    /\ UNCHANGED <<cardVars, owner, image, copyVars, copies, clientVars, straddled>>

\* Arriving at a call begins it.
Arrive(next) == pc' = next /\ running' = (next \in Calls)
Keep == UNCHANGED <<toCard, verify, answer, total, sector, actual>>

\* The destructor of HostCopyOwnership.
KeptWhenCancelled(r) ==   \* faulty: the cancelled path forgets it
    IF acquired /\ r # "Cancelled" THEN Transition("HostCopy", "None") ELSE UNCHANGED owner
Released(r) == IF acquired THEN Transition("HostCopy", "None") ELSE UNCHANGED owner

Finish(r) ==
    /\ result' = r /\ Arrive("Idle") /\ acquired' = FALSE
    /\ Released(r)
    /\ UNCHANGED <<lba, straddled>> /\ Keep

GoTo(next) == Arrive(next) /\ UNCHANGED <<result, acquired, owner, straddled>> /\ Keep

\* cancelled() is checked wherever the copier is not in a call.
NoticedButAtReport == cancel /\ pc # "Report"   \* faulty: not before a sector is read
Noticed == cancel

Abandon == Noticed /\ Finish("Cancelled")

Acquire ==
    /\ pc = "Acquire" /\ ~Noticed
    /\ \/ Transition("None", "HostCopy") /\ acquired' = TRUE
       \/ owner # "None" /\ acquired' = FALSE /\ UNCHANGED owner
    /\ straddled' = (acquired' /\ clientCall # NoCall)
    /\ Arrive("Acquired") /\ UNCHANGED <<result, lba>> /\ Keep

Acquired ==
    /\ pc = "Acquired" /\ ~Noticed
    /\ \/ ~acquired /\ Finish("OwnershipUnavailable")
       \/ acquired /\ GoTo("SourcePresent") /\ UNCHANGED lba

\* The first check of a loop over the sectors is also the check after the last report.
NextSector ==
    /\ pc \in {"Report", "VerifyReport"} /\ ~Noticed
    /\ \/ lba < total /\ GoTo(IF pc = "Report" THEN "Read" ELSE "VerifySource") /\ UNCHANGED lba
       \/ lba = total /\ pc = "Report" /\ GoTo("Flush") /\ UNCHANGED lba
       \/ lba = total /\ pc = "VerifyReport" /\ Finish("Complete")

SkipsComparison == TRUE   \* faulty: reads back without comparing
SectorsAgree == sector = actual

AfterCall ==
    /\ pc \in Calls /\ ~Noticed
    /\ \/ answer # "Complete" /\ Finish(RefusedBy[pc])
       \/ /\ answer = "Complete" /\ pc \in DOMAIN Following
          /\ GoTo(Following[pc])
          /\ lba' = IF pc = "Write" THEN lba + 1 ELSE lba
       \/ /\ answer = "Complete" /\ pc = "Flush"
          /\ \/ ~verify /\ Finish("Complete")
             \/ verify /\ GoTo("VerifyReport") /\ lba' = 0
       \/ /\ answer = "Complete" /\ pc = "VerifyDestination"
          /\ \/ ~SectorsAgree /\ Finish("VerificationFailed")
             \/ SectorsAgree /\ GoTo("VerifyReport") /\ lba' = lba + 1

CopierStep ==
    /\ pc # "Idle" /\ ~running
    /\ Abandon \/ Acquire \/ Acquired \/ NextSector \/ AfterCall
    /\ UNCHANGED <<cardVars, image, cancel, copies, clientVars>>

-----------------------------------------------------------------------------
\* The calls of the copier.  Those to the card go through the host_copy_* methods.
OnCard == toCard <=> pc \in DestinationCalls
OwnsCard == owner = "HostCopy"

Says(yes) == answer' = (IF yes THEN "Complete" ELSE "Failed")

QueryReturns ==
    /\ \/ pc \in {"SourcePresent", "DestinationPresent"} /\ OnCard /\ Says(OwnsCard /\ MediaPresent)
       \/ pc = "DestinationProtected" /\ OnCard /\ Says(OwnsCard /\ ~protected)
       \/ pc \in {"SourcePresent", "DestinationPresent", "DestinationProtected"} /\ ~OnCard
          /\ answer' \in {"Complete", "Failed"}
    /\ UNCHANGED <<cardVars, image, total, sector, actual>>

Blocks == IF ~OnCard THEN ImageBlocks ELSE IF OwnsCard THEN BlockCount ELSE 0

BlocksReturn ==
    /\ \/ pc = "SourceBlocks" /\ total' = Blocks /\ Says(TRUE)
       \/ pc = "DestinationBlocks" /\ UNCHANGED total /\ Says(Blocks >= total)
    /\ UNCHANGED <<cardVars, image, sector, actual>>

FailsAlone == answer' = "Failed" /\ UNCHANGED <<cardVars, image>>

ReadReturns ==
    /\ pc \in {"Read", "VerifySource", "VerifyDestination"}
    /\ \E data \in Contents \cup {Garbled} :
        /\ \/ OnCard /\ OwnsCard /\ CardRead(lba, answer', data) /\ UNCHANGED image
           \/ ~OnCard /\ answer' = "Complete" /\ data = image[lba] /\ UNCHANGED <<cardVars, image>>
           \/ (OnCard => ~OwnsCard) /\ data = Garbled /\ FailsAlone
        /\ IF pc = "VerifyDestination" THEN actual' = data /\ UNCHANGED sector
           ELSE sector' = data /\ UNCHANGED actual
    /\ UNCHANGED total

WriteReturns ==
    /\ pc = "Write"
    /\ \/ OnCard /\ OwnsCard /\ CardWrite(lba, sector, answer') /\ UNCHANGED image
       \/ /\ ~OnCard /\ answer' = "Complete"
          /\ image' = [image EXCEPT ![lba] = sector] /\ UNCHANGED cardVars
       \/ (OnCard => ~OwnsCard) /\ FailsAlone
    /\ UNCHANGED <<total, sector, actual>>

FlushReturns ==
    /\ pc = "Flush"
    /\ \/ OnCard /\ OwnsCard /\ CardFlush(answer') /\ UNCHANGED image
       \/ ~OnCard /\ answer' = "Complete" /\ UNCHANGED <<cardVars, image>>
       \/ (OnCard => ~OwnsCard) /\ FailsAlone
    /\ UNCHANGED <<total, sector, actual>>

CallReturns ==
    /\ running /\ running' = FALSE
    /\ answer' \in {"Complete", "Pending", "Failed"}
    /\ QueryReturns \/ BlocksReturn \/ ReadReturns \/ WriteReturns \/ FlushReturns
    /\ UNCHANGED <<owner, toCard, verify, pc, lba, acquired, cancel, result, copies, clientVars,
                   straddled>>

\* Nobody initializes the card while it is copied, which would take ownership.
CardStep ==
    /\ \/ pc = "Idle" /\ Initialize
       \/ Programmed \/ Remove \/ Insert
    /\ UNCHANGED <<owner, image, copyVars, cancel, copies, clientVars, straddled>>

MediaNext ==
    \/ Expose \/ Hide \/ ClientWriteBegins \/ ClientWriteReaches
    \/ StartCopy \/ RequestCancel \/ CopierStep \/ CallReturns
    \/ CardStep

MediaSpec == MediaInit /\ [][MediaNext]_mediaVars /\ WF_mediaVars(CopierStep) /\ WF_mediaVars(CallReturns)
-----------------------------------------------------------------------------
\* The types.  The arbiter names the host copy as the owner exactly while the copier
\* holds HostCopyOwnership, whatever the emulated client asks for meanwhile.
CopyTypeOK ==
    /\ CardTypeOK
    /\ owner \in {"None", "EmulatedClient", "HostCopy"}
    /\ acquired <=> owner = "HostCopy"
    /\ image \in [ImageLbas -> Contents \cup {Garbled}]
    /\ toCard \in BOOLEAN /\ verify \in BOOLEAN
    /\ pc \in Calls \cup {"Idle", "Acquire", "Acquired", "Report", "VerifyReport"}
    /\ running => pc \in Calls
    /\ answer \in {"Complete", "Pending", "Failed"}
    /\ total \in {0, ImageBlocks} \cup CardSizes /\ lba \in 0 .. total
    /\ sector \in Contents \cup {Garbled} /\ actual \in Contents \cup {Garbled}
    /\ cancel \in BOOLEAN /\ result \in Results /\ straddled \in BOOLEAN
    /\ copies \in 0 .. MaxCopies /\ clientWrites \in 0 .. MaxClientWrites
    /\ clientCall \in DOMAIN stored \cup {NoCall}

\* Once cancellation is requested no further backend call begins, whichever check
\* comes next, and what the call under way returns does not reach the caller.
CancellationWins ==
    [][ pc # "Idle" /\ cancel
        => (running' => running) /\ (pc' = "Idle" => result' = "Cancelled") ]_mediaVars

\* A copy that returns Complete has put every sector of the source it counted on the
\* destination, and a card that was written has nothing left to program: although
\* the card may be pulled out and put back, stay busy, answer with errors or, when
\* the copy reads back, damage a sector on its way.  Two transfers damaged alike pass
\* the comparison, and a client's write that had passed the arbiter before the copy
\* took the card may still spoil it.
Damage == IF verify THEN 1 ELSE 0   \* damaged transfers a copy withstands
CompleteMeansCopied ==
    [][ pc # "Idle" /\ pc' = "Idle" /\ result' = "Complete" /\ ~straddled /\ corruptions <= Damage
        => /\ \A l \in 0 .. total - 1 : image[l] = stored[l]
           /\ toCard => programming = NoWrite ]_mediaVars

\* However a copy ends, the card is given back to whoever asks for it next.
OwnershipReturns == owner = "HostCopy" ~> owner = "None"
=============================================================================
