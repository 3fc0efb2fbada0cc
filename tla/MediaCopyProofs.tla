---------------------------- MODULE MediaCopyProofs ----------------------------
(***************************************************************************)
(* Proofs about MediaCopy for every size of image and card, every number   *)
(* of copies and of writes of the client, and any number of damaged        *)
(* transfers.                                                              *)
(***************************************************************************)
EXTENDS MediaCopy, TLAPS

FirstPass == {"Report", "Read", "Write", "Flush"}
SecondPass == {"VerifyReport", "VerifySource", "VerifyDestination"}
Opening == {"Acquire", "Acquired", "SourcePresent", "DestinationPresent", "DestinationProtected",
            "SourceBlocks", "DestinationBlocks"}

\* What the copier knows at each place: that it owns the card, which sector it is at,
\* and that the destination has room for what it counted.
PlacesOK ==
    /\ pc \in {"Idle", "Acquire"} => ~acquired
    /\ pc \in Calls \cup {"Report", "VerifyReport"} => acquired
    /\ pc \in Opening => lba = 0
    /\ pc \in {"Read", "Write", "VerifySource", "VerifyDestination"} => lba < total
    /\ pc = "Flush" => lba = total
    /\ pc = "SourceBlocks" /\ ~running => answer = "Complete"
    /\ IF toCard
         THEN \/ pc \in FirstPass \cup SecondPass \cup {"DestinationBlocks"}
              \/ pc = "SourceBlocks" /\ ~running
              => total = ImageBlocks
         ELSE \/ pc \in FirstPass \cup SecondPass
              \/ pc = "DestinationBlocks" /\ ~running /\ answer = "Complete"
              => total <= ImageBlocks

\* No write of the client is under way while the copier owns the card.
ClientIsOut == acquired /\ ~straddled => clientCall = NoCall

\* The copier is at a call, which did not complete: it will do no more than return.
Refused == pc \in Calls /\ ~running /\ answer # "Complete"
InPass(pass) == pc \in pass /\ ~straddled /\ ~Refused

AgreeBelow(n) == \A l \in 0 .. n - 1 : image[l] = stored[l]
Source == IF toCard THEN image ELSE stored
Destination == IF toCard THEN stored ELSE image

\* From the first sector the card has given or taken, it programs nothing.
CardIsQuiet ==
    /\ InPass(FirstPass) =>
          \/ programming = NoWrite
          \/ pc = "Report" /\ lba = 0
          \/ pc = "Read" /\ lba = 0 /\ (running \/ toCard)
          \/ pc = "Write" /\ lba = 0 /\ running /\ toCard
          \/ pc = "Flush" /\ lba = 0 /\ ~toCard
    /\ InPass(SecondPass) /\ total > 0 => programming = NoWrite

\* The first pass leaves a prefix of the source on the destination, unless a transfer
\* of it was damaged.
FirstPassCopies ==
    InPass(FirstPass) /\ corruptions = 0 =>
        /\ AgreeBelow(lba)
        /\ pc = "Write" \/ (pc = "Read" /\ ~running) => sector = Source[lba]
        /\ pc = "Write" /\ ~running => sector = Destination[lba]

\* The second pass has a true copy before it, or reads truly and finds the damage.
SecondPassCompares ==
    InPass(SecondPass) /\ corruptions <= 1 =>
        \/ AgreeBelow(total)
        \/ /\ corruptions = 1
           /\ AgreeBelow(lba)
           /\ pc = "VerifyDestination" \/ (pc = "VerifySource" /\ ~running) => sector = Source[lba]
           /\ pc = "VerifyDestination" /\ ~running => actual = Destination[lba]

CopyInv ==
    /\ CopyTypeOK
    /\ PlacesOK
    /\ ClientIsOut
    /\ CardIsQuiet
    /\ FirstPassCopies
    /\ SecondPassCompares

USE CardAssumption, CopyAssumption

-----------------------------------------------------------------------------
\* What the card holds stays typed, and its sectors stay the same, whatever is done
\* to it.
Sector == Contents \cup {Garbled}
CardKept == CardTypeOK' /\ DOMAIN stored' = DOMAIN stored

LEMMA CardStands ==
    ASSUME CardTypeOK, UNCHANGED cardVars
    PROVE  CardTypeOK' /\ UNCHANGED <<stored, programming, corruptions>>
BY DEF CardTypeOK, cardVars

LEMMA WriteKeepsCard ==
    ASSUME CardTypeOK, NEW l \in Nat, NEW data \in Sector, NEW r, CardWrite(l, data, r)
    PROVE  CardKept
<1>1. PICK size \in CardSizes :
        /\ stored \in [0 .. size - 1 -> Sector]
        /\ programming \in ((0 .. size - 1) \X Sector) \cup {NoWrite}
        /\ blocks \in {0, size}
  BY DEF CardTypeOK, Sector
<1>2. l < blocks => l \in 0 .. size - 1
  BY <1>1
<1>3. /\ stored' \in [0 .. size - 1 -> Sector]
      /\ DOMAIN stored' = DOMAIN stored
      /\ programming' \in ((0 .. size - 1) \X Sector) \cup {NoWrite}
      /\ blocks' \in {0, size}
  BY <1>1, <1>2 DEF CardWrite, Sector
<1>4. corruptions' \in 0 .. MaxCorruptions
  BY DEF CardWrite, CardTypeOK, Damaged, Undamaged
<1> QED
  BY <1>3, <1>4 DEF CardTypeOK, CardWrite, Sector, CardKept

LEMMA ReadKeepsCard ==
    ASSUME CardTypeOK, NEW l, NEW r, NEW data, CardRead(l, r, data)
    PROVE  CardKept
BY DEF CardTypeOK, CardRead, Damaged, Undamaged, CardKept

LEMMA FlushKeepsCard == ASSUME CardTypeOK, NEW r, CardFlush(r) PROVE CardKept
BY DEF CardTypeOK, CardFlush, cardVars, CardKept

LEMMA CardAlone ==
    ASSUME CardTypeOK, Initialize \/ Programmed \/ Remove \/ Insert
    PROVE  CardKept
<1>1. PICK size \in CardSizes :
        /\ stored \in [0 .. size - 1 -> Sector]
        /\ programming \in ((0 .. size - 1) \X Sector) \cup {NoWrite}
        /\ blocks \in {0, size}
  BY DEF CardTypeOK, Sector
<1>2. CASE Initialize
  <2>1. ASSUME NEW other \in CardSizes, DOMAIN stored = 0 .. other - 1
        PROVE  other = size
    <3>1. 0 .. other - 1 = 0 .. size - 1 /\ other \in Nat \ {0} /\ size \in Nat \ {0}
      BY <1>1, <2>1
    <3>2. other - 1 \in 0 .. size - 1 /\ size - 1 \in 0 .. other - 1
      BY <3>1
    <3> QED
      BY <3>1, <3>2
  <2>2. blocks' \in {0, size}
    BY <1>2, <2>1 DEF Initialize
  <2> QED
    BY <1>1, <1>2, <2>2 DEF Initialize, CardTypeOK, Sector, CardKept
<1>3. CASE Programmed
  <2>1. programming[1] \in 0 .. size - 1 /\ programming[2] \in Sector
    BY <1>1, <1>3 DEF Programmed
  <2>2. stored' \in [0 .. size - 1 -> Sector] /\ DOMAIN stored' = DOMAIN stored
    BY <1>1, <1>3, <2>1 DEF Programmed
  <2> QED
    BY <1>1, <1>3, <2>2 DEF Programmed, CardTypeOK, Sector, CardKept
<1>4. CASE Remove \/ Insert
  BY <1>1, <1>4 DEF Remove, Insert, CardTypeOK, Sector, CardKept
<1> QED
  BY <1>2, <1>3, <1>4

-----------------------------------------------------------------------------
\* The invariant holds at first.
LEMMA InitCopy == MediaInit => CopyInv
<1> SUFFICES ASSUME MediaInit PROVE CopyInv
  OBVIOUS
<1>1. CardTypeOK
  <2>1. PICK size \in CardSizes : stored = [l \in 0 .. size - 1 |-> CardData(l)]
    BY DEF MediaInit, CardInit
  <2>2. /\ stored \in [0 .. size - 1 -> Sector]
        /\ programming \in ((0 .. size - 1) \X Sector) \cup {NoWrite}
        /\ blocks \in {0, size}
    BY <2>1 DEF Sector, MediaInit, CardInit
  <2>3. /\ inserted \in BOOLEAN /\ answering \in BOOLEAN /\ protected \in BOOLEAN
        /\ detects \in BOOLEAN /\ initialized \in BOOLEAN
    BY Zenon DEF MediaInit, CardInit
  <2>4. corruptions \in 0 .. MaxCorruptions
    BY DEF MediaInit, CardInit
  <2> QED
    BY <2>2, <2>3, <2>4 DEF CardTypeOK, Sector
<1>2. image \in [ImageLbas -> Sector]
  BY DEF MediaInit, Sector
<1>3. "None" \in Results
  BY DEF Results
<1>4. /\ toCard \in BOOLEAN /\ verify \in BOOLEAN /\ cancel \in BOOLEAN /\ straddled \in BOOLEAN
      /\ ~acquired /\ ~running
  BY Zenon DEF MediaInit
<1>5. CopyTypeOK
  BY <1>1, <1>2, <1>3, <1>4 DEF MediaInit, CopyTypeOK, Sector
<1> QED
  BY <1>5 DEF MediaInit, CopyInv, PlacesOK, ClientIsOut, CardIsQuiet, FirstPassCopies,
              SecondPassCompares, InPass, FirstPass, SecondPass, Calls, SourceCalls,
              DestinationCalls, Opening

\* Nothing the copy relies on moved.
CopyStands ==
    /\ UNCHANGED <<toCard, verify, pc, running, answer, total, lba, sector, actual, acquired,
                   straddled, image>>

LEMMA PlacesStand == ASSUME PlacesOK, CopyStands PROVE PlacesOK'
BY DEF PlacesOK, CopyStands

LEMMA CopyDataStands ==
    ASSUME CardIsQuiet, FirstPassCopies, SecondPassCompares, CopyStands,
           UNCHANGED <<stored, programming, corruptions>>
    PROVE  CardIsQuiet' /\ FirstPassCopies' /\ SecondPassCompares'
BY DEF CopyStands, CardIsQuiet, FirstPassCopies, SecondPassCompares, InPass, Refused,
       AgreeBelow, Source, Destination

\* The arbiter and the client: none of their steps lets the client in while the copier
\* owns the card.
LEMMA ExposeKeepsInv == ASSUME CopyInv, Expose \/ Hide PROVE CopyInv'
<1>1. CopyStands /\ UNCHANGED <<cardVars, cancel, result, copies, clientVars>>
  BY DEF Expose, Hide, CopyStands, copyVars
<1>2. owner # "HostCopy" /\ owner' \in {"None", "EmulatedClient"}
  BY DEF Expose, Hide, ExposeToClient, HideFromClient, Transition
<1>3. CopyTypeOK'
  BY <1>1, <1>2, CardStands DEF CopyInv, CopyTypeOK, CopyStands, clientVars
<1>4. ClientIsOut'
  BY <1>1 DEF CopyInv, ClientIsOut, CopyStands, clientVars
<1> QED
  BY <1>1, <1>3, <1>4, PlacesStand, CopyDataStands DEF CopyInv, cardVars

LEMMA ClientBeginsKeepsInv == ASSUME CopyInv, ClientWriteBegins PROVE CopyInv'
<1>1. CopyStands /\ UNCHANGED <<cardVars, owner, cancel, result, copies>>
  BY DEF ClientWriteBegins, CopyStands, copyVars
<1>2. clientCall' \in DOMAIN stored /\ clientWrites' \in 0 .. MaxClientWrites /\ ~acquired
  BY DEF ClientWriteBegins, CopyInv, CopyTypeOK
<1>3. CopyTypeOK'
  BY <1>1, <1>2, CardStands DEF CopyInv, CopyTypeOK, CopyStands
<1>4. ClientIsOut'
  BY <1>1, <1>2 DEF ClientIsOut, CopyStands
<1> QED
  BY <1>1, <1>3, <1>4, PlacesStand, CopyDataStands DEF CopyInv, cardVars

\* A write of the client reaches the card only in a copy it straddles.
LEMMA NotInPass ==
    ASSUME PlacesOK, ~acquired \/ straddled
    PROVE  ~InPass(FirstPass) /\ ~InPass(SecondPass)
BY DEF PlacesOK, InPass, FirstPass, SecondPass, Calls, SourceCalls, DestinationCalls

LEMMA NotInPassNext == (PlacesOK /\ (~acquired \/ straddled) => ~InPass(FirstPass) /\ ~InPass(SecondPass))'
BY NotInPass, PTL

LEMMA ClientReachesKeepsInv == ASSUME CopyInv, ClientWriteReaches PROVE CopyInv'
<1>1. CopyStands /\ UNCHANGED <<owner, cancel, result, copies, clientWrites>>
  BY DEF ClientWriteReaches, CopyStands, copyVars
<1>2. PICK r : CardWrite(clientCall, ClientData(clientCall), r)
  BY DEF ClientWriteReaches
<1>3. CardKept
  <2>1. clientCall \in DOMAIN stored
    BY DEF ClientWriteReaches, CopyInv, CopyTypeOK
  <2>2. PICK size \in CardSizes : stored \in [0 .. size - 1 -> Sector]
    BY DEF CopyInv, CopyTypeOK, CardTypeOK, Sector
  <2>3. clientCall \in Nat /\ ClientData(clientCall) \in Sector
    BY <2>1, <2>2 DEF Sector
  <2> QED
    BY <1>2, <2>3, WriteKeepsCard DEF CopyInv, CopyTypeOK
<1>4. CopyTypeOK'
  BY <1>1, <1>3 DEF CopyInv, CopyTypeOK, CopyStands, CardKept, ClientWriteReaches
<1>5. PlacesOK' /\ ClientIsOut'
  BY <1>1, PlacesStand DEF CopyInv, ClientIsOut, CopyStands, ClientWriteReaches
<1>6. ~acquired' \/ straddled'
  BY <1>1 DEF CopyInv, ClientIsOut, CopyStands, ClientWriteReaches
<1>7. CardIsQuiet' /\ FirstPassCopies' /\ SecondPassCompares'
  BY <1>5, <1>6, NotInPassNext DEF CardIsQuiet, FirstPassCopies, SecondPassCompares
<1> QED
  BY <1>4, <1>5, <1>7 DEF CopyInv

LEMMA CancelKeepsInv == ASSUME CopyInv, RequestCancel PROVE CopyInv'
<1>1. CopyStands /\ UNCHANGED <<cardVars, owner, result, copies, clientVars>> /\ cancel' = TRUE
  BY DEF RequestCancel, CopyStands, copyVars
<1>2. CopyTypeOK' /\ ClientIsOut'
  BY <1>1, CardStands DEF CopyInv, CopyTypeOK, ClientIsOut, CopyStands, clientVars
<1> QED
  BY <1>1, <1>2, PlacesStand, CopyDataStands DEF CopyInv, cardVars

LEMMA StartKeepsInv == ASSUME CopyInv, StartCopy PROVE CopyInv'
<1>1. CardTypeOK' /\ DOMAIN stored' = DOMAIN stored
  BY DEF CopyInv, CopyTypeOK, CardTypeOK, StartCopy
<1>2. result' \in Results /\ pc' \in {"Idle", "Acquire"} /\ ~acquired' /\ ~running'
  <2>1. "ConfirmationRequired" \in Results /\ "None" \in Results
    BY DEF Results
  <2> QED
    BY <2>1 DEF CopyInv, CopyTypeOK, PlacesOK, StartCopy, Calls, SourceCalls, DestinationCalls
<1>3. cancel' \in BOOLEAN /\ straddled' \in BOOLEAN /\ toCard' \in BOOLEAN /\ verify' \in BOOLEAN
  BY Zenon DEF StartCopy
<1>4. CopyTypeOK'
  BY <1>1, <1>2, <1>3 DEF CopyInv, CopyTypeOK, StartCopy, clientVars
<1>5. PlacesOK' /\ ClientIsOut'
  BY <1>2 DEF PlacesOK, ClientIsOut, StartCopy, Calls, SourceCalls, DestinationCalls, FirstPass,
              SecondPass
<1>6. CardIsQuiet' /\ FirstPassCopies' /\ SecondPassCompares'
  BY <1>2, <1>5, NotInPassNext DEF CardIsQuiet, FirstPassCopies, SecondPassCompares
<1> QED
  BY <1>4, <1>5, <1>6 DEF CopyInv

-----------------------------------------------------------------------------
\* The copier between its calls.
CopierAlone == UNCHANGED <<cardVars, image, cancel, copies, clientVars>>

LEMMA FinishKeepsInv ==
    ASSUME CopyInv, CopierAlone, NEW r \in Results, Finish(r)
    PROVE  CopyInv'
<1>1. /\ pc' = "Idle" /\ ~running' /\ ~acquired' /\ result' = r
      /\ UNCHANGED <<lba, straddled, toCard, verify, answer, total, sector, actual>>
  BY DEF Finish, Arrive, Keep, Calls, SourceCalls, DestinationCalls
<1>2. owner' \in {"None", "EmulatedClient"}
  BY DEF CopyInv, CopyTypeOK, Finish, Released, Transition
<1>3. CopyTypeOK'
  <2>1. CardTypeOK'
    BY CardStands DEF CopyInv, CopyTypeOK, CopierAlone
  <2>2. stored' = stored
    BY DEF CopierAlone, cardVars
  <2> QED
    BY <1>1, <1>2, <2>1, <2>2 DEF CopyInv, CopyTypeOK, CopierAlone, clientVars
<1>4. PlacesOK' /\ ClientIsOut'
  BY <1>1 DEF PlacesOK, ClientIsOut, Calls, SourceCalls, DestinationCalls, Opening, FirstPass,
              SecondPass
<1>5. CardIsQuiet' /\ FirstPassCopies' /\ SecondPassCompares'
  BY <1>1, <1>4, NotInPassNext DEF CardIsQuiet, FirstPassCopies, SecondPassCompares
<1> QED
  BY <1>3, <1>4, <1>5 DEF CopyInv

\* What every step to another place keeps.
LEMMA GoToKeepsTypes ==
    ASSUME CopyInv, CopierAlone, NEW next \in Calls \cup {"Report", "VerifyReport"}, GoTo(next),
           lba' \in 0 .. total
    PROVE  /\ CopyTypeOK' /\ ClientIsOut'
           /\ pc' = next /\ (running' <=> next \in Calls)
           /\ UNCHANGED <<straddled, toCard, verify, answer, total, sector, actual, acquired,
                          image, stored, programming, corruptions>>
<1>1. /\ pc' = next /\ (running' <=> next \in Calls)
      /\ UNCHANGED <<owner, result, acquired, straddled, toCard, verify, answer, total, sector,
                     actual>>
  BY DEF GoTo, Arrive, Keep
<1>2. CardTypeOK' /\ UNCHANGED <<stored, programming, corruptions>>
  BY CardStands DEF CopyInv, CopyTypeOK, CopierAlone
<1>3. CopyTypeOK'
  BY <1>1, <1>2 DEF CopyInv, CopyTypeOK, CopierAlone, clientVars
<1> QED
  BY <1>1, <1>2, <1>3 DEF CopyInv, ClientIsOut, CopierAlone, clientVars

USE DEF Calls, SourceCalls, DestinationCalls

LEMMA AcquireKeepsInv == ASSUME CopyInv, CopierAlone, Acquire, ~running PROVE CopyInv'
<1>1. /\ pc = "Acquire" /\ pc' = "Acquired" /\ ~running' /\ ~acquired
      /\ UNCHANGED <<lba, result, toCard, verify, answer, total, sector, actual>>
  BY DEF Acquire, Arrive, Keep, CopyInv, PlacesOK
<1>2. acquired' <=> owner' = "HostCopy"
  BY <1>1 DEF Acquire, Transition, CopyInv, CopyTypeOK
<1>3. owner' \in {"None", "EmulatedClient", "HostCopy"} /\ straddled' \in BOOLEAN
  BY Zenon DEF Acquire, Transition, CopyInv, CopyTypeOK
<1>4. CopyTypeOK'
  BY <1>1, <1>2, <1>3, CardStands DEF CopyInv, CopyTypeOK, CopierAlone, clientVars
<1>5. PlacesOK'
  BY <1>1 DEF CopyInv, PlacesOK, Opening, FirstPass, SecondPass
<1>6. ClientIsOut'
  BY DEF Acquire, ClientIsOut, CopierAlone, clientVars
<1>7. CardIsQuiet' /\ FirstPassCopies' /\ SecondPassCompares'
  BY <1>1 DEF CardIsQuiet, FirstPassCopies, SecondPassCompares, InPass, FirstPass, SecondPass
<1> QED
  BY <1>4, <1>5, <1>6, <1>7 DEF CopyInv

LEMMA AcquiredKeepsInv == ASSUME CopyInv, CopierAlone, Acquired, ~running PROVE CopyInv'
<1>1. CASE Finish("OwnershipUnavailable")
  <2>1. "OwnershipUnavailable" \in Results
    BY DEF Results
  <2> QED
    BY <1>1, <2>1, FinishKeepsInv
<1>2. CASE acquired /\ GoTo("SourcePresent") /\ UNCHANGED lba
  <2>1. lba' = 0 /\ lba' \in 0 .. total
    BY <1>2 DEF Acquired, CopyInv, PlacesOK, Opening, CopyTypeOK
  <2>2. CopyTypeOK' /\ ClientIsOut' /\ pc' = "SourcePresent" /\ running' /\ acquired'
    BY <1>2, <2>1, GoToKeepsTypes
  <2>3. PlacesOK'
    BY <2>1, <2>2 DEF PlacesOK, FirstPass, SecondPass
  <2>4. CardIsQuiet' /\ FirstPassCopies' /\ SecondPassCompares'
    BY <2>2 DEF CardIsQuiet, FirstPassCopies, SecondPassCompares, InPass, FirstPass, SecondPass
  <2> QED
    BY <2>2, <2>3, <2>4 DEF CopyInv
<1> QED
  BY <1>1, <1>2 DEF Acquired

LEMMA NextSectorKeepsInv == ASSUME CopyInv, CopierAlone, NextSector, ~running PROVE CopyInv'
<1>0. pc \in {"Report", "VerifyReport"} /\ lba \in 0 .. total /\ total \in Nat
  BY DEF NextSector, CopyInv, CopyTypeOK
<1>1. CASE lba < total /\ pc = "Report" /\ GoTo("Read") /\ UNCHANGED lba
  <2>1. /\ CopyTypeOK' /\ ClientIsOut' /\ pc' = "Read" /\ running'
        /\ UNCHANGED <<straddled, toCard, total, acquired, image, stored, programming,
                       corruptions, lba>>
    BY <1>0, <1>1, GoToKeepsTypes
  <2>2. PlacesOK'
    BY <1>1, <2>1 DEF CopyInv, PlacesOK, Opening, FirstPass, SecondPass
  <2>3. CardIsQuiet' /\ FirstPassCopies' /\ SecondPassCompares'
    BY <1>1, <2>1 DEF CopyInv, CardIsQuiet, FirstPassCopies, SecondPassCompares, InPass,
                      FirstPass, SecondPass, Refused, AgreeBelow
  <2> QED
    BY <2>1, <2>2, <2>3 DEF CopyInv
<1>2. CASE lba < total /\ pc = "VerifyReport" /\ GoTo("VerifySource") /\ UNCHANGED lba
  <2>1. /\ CopyTypeOK' /\ ClientIsOut' /\ pc' = "VerifySource" /\ running'
        /\ UNCHANGED <<straddled, toCard, total, acquired, image, stored, programming,
                       corruptions, lba>>
    BY <1>0, <1>2, GoToKeepsTypes
  <2>2. PlacesOK'
    BY <1>2, <2>1 DEF CopyInv, PlacesOK, Opening, FirstPass, SecondPass
  <2>3. CardIsQuiet' /\ FirstPassCopies' /\ SecondPassCompares'
    BY <1>2, <2>1 DEF CopyInv, CardIsQuiet, FirstPassCopies, SecondPassCompares, InPass,
                      FirstPass, SecondPass, Refused, AgreeBelow
  <2> QED
    BY <2>1, <2>2, <2>3 DEF CopyInv
<1>3. CASE lba = total /\ pc = "Report" /\ GoTo("Flush") /\ UNCHANGED lba
  <2>1. /\ CopyTypeOK' /\ ClientIsOut' /\ pc' = "Flush" /\ running'
        /\ UNCHANGED <<straddled, toCard, total, acquired, image, stored, programming,
                       corruptions, lba>>
    BY <1>0, <1>3, GoToKeepsTypes
  <2>2. PlacesOK'
    BY <1>3, <2>1 DEF CopyInv, PlacesOK, Opening, FirstPass, SecondPass
  <2>3. CardIsQuiet' /\ FirstPassCopies' /\ SecondPassCompares'
    BY <1>3, <2>1 DEF CopyInv, CardIsQuiet, FirstPassCopies, SecondPassCompares, InPass,
                      FirstPass, SecondPass, Refused, AgreeBelow, PlacesOK
  <2> QED
    BY <2>1, <2>2, <2>3 DEF CopyInv
<1>4. CASE Finish("Complete")
  <2>1. "Complete" \in Results
    BY DEF Results
  <2> QED
    BY <1>4, <2>1, FinishKeepsInv
<1> QED
  BY <1>0, <1>1, <1>2, <1>3, <1>4 DEF NextSector

LEMMA AfterCallKeepsInv == ASSUME CopyInv, CopierAlone, AfterCall, ~running PROVE CopyInv'
<1>0. pc \in Calls /\ lba \in 0 .. total /\ total \in Nat
  BY DEF AfterCall, CopyInv, CopyTypeOK
<1>1. CASE answer # "Complete" /\ Finish(RefusedBy[pc])
  <2>1. pc \in DOMAIN RefusedBy
    BY <1>0, <1>1 DEF RefusedBy, CopyInv, PlacesOK
  <2>2. RefusedBy[pc] \in Results
    BY <2>1, Zenon DEF Results
  <2> QED
    BY <1>1, <2>2, FinishKeepsInv
<1>2. ASSUME answer = "Complete", pc \in DOMAIN Following, GoTo(Following[pc]),
             lba' = IF pc = "Write" THEN lba + 1 ELSE lba
      PROVE  CopyInv'
  <2>1. Following[pc] \in Calls \cup {"Report", "VerifyReport"} /\ lba' \in 0 .. total
    BY <1>0, <1>2 DEF Following, CopyInv, PlacesOK
  <2>2. /\ CopyTypeOK' /\ ClientIsOut'
        /\ pc' = Following[pc] /\ (running' <=> pc' \in Calls)
        /\ UNCHANGED <<straddled, toCard, verify, answer, total, sector, actual, acquired,
                       image, stored, programming, corruptions>>
    BY <1>2, <2>1, GoToKeepsTypes
  <2>3. CASE pc \in {"SourcePresent", "DestinationPresent", "DestinationProtected", "SourceBlocks"}
    <3>1. pc' \in {"DestinationPresent", "DestinationProtected", "SourceBlocks", "DestinationBlocks"}
          /\ running' /\ lba' = lba /\ (pc' = "DestinationBlocks" => pc = "SourceBlocks")
      BY <2>2, <2>3, <1>2 DEF Following
    <3>2. PlacesOK'
      BY <1>2, <2>2, <2>3, <3>1 DEF CopyInv, PlacesOK, Opening, FirstPass, SecondPass
    <3>3. CardIsQuiet' /\ FirstPassCopies' /\ SecondPassCompares'
      BY <3>1 DEF CardIsQuiet, FirstPassCopies, SecondPassCompares, InPass, FirstPass, SecondPass
    <3> QED
      BY <2>2, <3>2, <3>3 DEF CopyInv
  <2>4. CASE pc = "DestinationBlocks"
    <3>1. pc' = "Report" /\ ~running' /\ lba' = lba /\ lba = 0
      BY <2>2, <2>4, <1>2 DEF Following, CopyInv, PlacesOK, Opening
    <3>2. PlacesOK'
      BY <1>2, <2>2, <2>4, <3>1 DEF CopyInv, PlacesOK, Opening, FirstPass, SecondPass
    <3>3. CardIsQuiet' /\ FirstPassCopies' /\ SecondPassCompares'
      BY <3>1 DEF CardIsQuiet, FirstPassCopies, SecondPassCompares, InPass, FirstPass, SecondPass,
                  AgreeBelow
    <3> QED
      BY <2>2, <3>2, <3>3 DEF CopyInv
  <2>5. CASE pc = "Read"
    <3>1. pc' = "Write" /\ running' /\ lba' = lba
      BY <2>2, <2>5, <1>2 DEF Following
    <3>2. PlacesOK'
      BY <1>2, <2>2, <2>5, <3>1 DEF CopyInv, PlacesOK, Opening, FirstPass, SecondPass
    <3>3. CardIsQuiet' /\ FirstPassCopies' /\ SecondPassCompares'
      BY <1>2, <2>2, <2>5, <3>1 DEF CopyInv, CardIsQuiet, FirstPassCopies, SecondPassCompares,
            InPass, FirstPass, SecondPass, Refused, AgreeBelow, Source
    <3> QED
      BY <2>2, <3>2, <3>3 DEF CopyInv
  <2>6. CASE pc = "Write"
    <3>1. pc' = "Report" /\ ~running' /\ lba' = lba + 1
      BY <2>2, <2>6, <1>2 DEF Following
    <3>2. PlacesOK'
      BY <1>0, <1>2, <2>2, <2>6, <3>1 DEF CopyInv, PlacesOK, Opening, FirstPass, SecondPass
    <3>3. InPass(FirstPass)' => InPass(FirstPass)
      BY <1>2, <2>2, <2>6 DEF InPass, FirstPass, Refused
    <3>4. CardIsQuiet'
      BY <1>2, <2>2, <2>6, <3>1, <3>3 DEF CopyInv, CardIsQuiet, FirstPass, SecondPass, InPass
    <3>5. FirstPassCopies'
      <4>1. SUFFICES ASSUME InPass(FirstPass)', corruptions' = 0
                     PROVE  AgreeBelow(lba)'
        BY <3>1 DEF FirstPassCopies
      <4>2. AgreeBelow(lba) /\ sector = Source[lba] /\ sector = Destination[lba]
        BY <1>2, <2>2, <2>6, <3>3, <4>1 DEF CopyInv, FirstPassCopies
      <4>3. image[lba] = stored[lba]
        BY <4>2 DEF Source, Destination
      <4> QED
        BY <1>0, <2>2, <3>1, <4>2, <4>3 DEF AgreeBelow
    <3>6. SecondPassCompares'
      BY <3>1 DEF SecondPassCompares, InPass, SecondPass
    <3> QED
      BY <2>2, <3>2, <3>4, <3>5, <3>6 DEF CopyInv
  <2>7. CASE pc = "VerifySource"
    <3>1. pc' = "VerifyDestination" /\ running' /\ lba' = lba
      BY <2>2, <2>7, <1>2 DEF Following
    <3>2. PlacesOK'
      BY <1>2, <2>2, <2>7, <3>1 DEF CopyInv, PlacesOK, Opening, FirstPass, SecondPass
    <3>3. CardIsQuiet' /\ FirstPassCopies' /\ SecondPassCompares'
      BY <1>2, <2>2, <2>7, <3>1 DEF CopyInv, CardIsQuiet, FirstPassCopies, SecondPassCompares,
            InPass, FirstPass, SecondPass, Refused, AgreeBelow, Source
    <3> QED
      BY <2>2, <3>2, <3>3 DEF CopyInv
  <2> QED
    BY <1>2, <2>3, <2>4, <2>5, <2>6, <2>7 DEF Following
<1>3. CASE Finish("Complete") \/ Finish("VerificationFailed")
  <2>1. "Complete" \in Results /\ "VerificationFailed" \in Results
    BY DEF Results
  <2> QED
    BY <1>3, <2>1, FinishKeepsInv
<1>4. ASSUME answer = "Complete", pc = "Flush", GoTo("VerifyReport"), lba' = 0
      PROVE  CopyInv'
  <2>1. /\ CopyTypeOK' /\ ClientIsOut' /\ pc' = "VerifyReport" /\ ~running'
        /\ UNCHANGED <<straddled, toCard, verify, answer, total, sector, actual, acquired,
                       image, stored, programming, corruptions>>
    BY <1>0, <1>4, GoToKeepsTypes
  <2>2. PlacesOK' /\ lba = total
    BY <1>4, <2>1 DEF CopyInv, PlacesOK, Opening, FirstPass, SecondPass
  <2>3. InPass(SecondPass)' => InPass(FirstPass)
    BY <1>4, <2>1 DEF InPass, FirstPass, Refused
  <2>4. CardIsQuiet'
    BY <1>0, <1>4, <2>1, <2>2, <2>3 DEF CopyInv, CardIsQuiet, InPass, FirstPass, SecondPass
  <2>5. SecondPassCompares'
    <3>1. AgreeBelow(lba)' /\ corruptions \in Nat
      BY <1>4 DEF AgreeBelow, CopyInv, CopyTypeOK, CardTypeOK
    <3>2. CASE corruptions = 0
      BY <2>1, <2>2, <2>3, <3>2 DEF CopyInv, FirstPassCopies, SecondPassCompares, AgreeBelow
    <3>3. CASE corruptions # 0
      BY <2>1, <3>1, <3>3 DEF SecondPassCompares
    <3> QED
      BY <3>2, <3>3
  <2>6. FirstPassCopies'
    BY <2>1 DEF FirstPassCopies, InPass, FirstPass
  <2> QED
    BY <2>1, <2>2, <2>4, <2>5, <2>6 DEF CopyInv
<1>5. ASSUME answer = "Complete", pc = "VerifyDestination", SectorsAgree, GoTo("VerifyReport"),
             lba' = lba + 1
      PROVE  CopyInv'
  <2>0. lba < total
    BY <1>5 DEF CopyInv, PlacesOK
  <2>1. /\ CopyTypeOK' /\ ClientIsOut' /\ pc' = "VerifyReport" /\ ~running'
        /\ UNCHANGED <<straddled, toCard, verify, answer, total, sector, actual, acquired,
                       image, stored, programming, corruptions>>
    BY <1>0, <1>5, <2>0, GoToKeepsTypes
  <2>2. PlacesOK'
    BY <1>5, <2>1 DEF CopyInv, PlacesOK, Opening, FirstPass, SecondPass
  <2>3. InPass(SecondPass)' => InPass(SecondPass)
    BY <1>5, <2>1 DEF InPass, SecondPass, Refused
  <2>4. CardIsQuiet'
    BY <1>5, <2>1, <2>3 DEF CopyInv, CardIsQuiet, InPass, FirstPass, SecondPass
  <2>5. SecondPassCompares'
    <3>1. SUFFICES ASSUME InPass(SecondPass), corruptions <= 1, ~AgreeBelow(total)
                   PROVE  corruptions = 1 /\ AgreeBelow(lba)'
      BY <2>1, <2>3 DEF SecondPassCompares, AgreeBelow
    <3>2. /\ corruptions = 1 /\ AgreeBelow(lba)
          /\ sector = Source[lba] /\ actual = Destination[lba]
      BY <1>5, <3>1 DEF CopyInv, SecondPassCompares
    <3>3. image[lba] = stored[lba]
      BY <1>5, <3>2 DEF Source, Destination, SectorsAgree
    <3> QED
      BY <1>0, <1>5, <2>1, <3>2, <3>3 DEF AgreeBelow
  <2>6. FirstPassCopies'
    BY <2>1 DEF FirstPassCopies, InPass, FirstPass
  <2> QED
    BY <2>1, <2>2, <2>4, <2>5, <2>6 DEF CopyInv
<1> QED
  BY <1>1, <1>2, <1>3, <1>4, <1>5 DEF AfterCall

LEMMA CopierStepKeepsInv == ASSUME CopyInv, CopierStep PROVE CopyInv'
<1>1. CopierAlone /\ ~running
  BY DEF CopierStep, CopierAlone
<1>2. CASE Abandon
  <2>1. "Cancelled" \in Results
    BY DEF Results
  <2> QED
    BY <1>1, <1>2, <2>1, FinishKeepsInv DEF Abandon
<1> QED
  BY <1>1, <1>2, AcquireKeepsInv, AcquiredKeepsInv, NextSectorKeepsInv, AfterCallKeepsInv
     DEF CopierStep

-----------------------------------------------------------------------------
\* The copier while a call is under way.
CallStands ==
    /\ running /\ ~running'
    /\ UNCHANGED <<owner, toCard, verify, pc, lba, acquired, cancel, result, copies, clientVars,
                   straddled>>
    /\ answer' \in {"Complete", "Pending", "Failed"}

LEMMA QueryKeepsInv == ASSUME CopyInv, CallStands, QueryReturns PROVE CopyInv'
<1>1. UNCHANGED <<cardVars, image, total, sector, actual>>
  BY DEF QueryReturns
<1>2. pc \in {"SourcePresent", "DestinationPresent", "DestinationProtected"}
  BY DEF QueryReturns
<1>3. CardTypeOK' /\ stored' = stored
  BY <1>1, CardStands DEF CopyInv, CopyTypeOK
<1>4. CopyTypeOK'
  BY <1>1, <1>3 DEF CopyInv, CopyTypeOK, CallStands, clientVars
<1>5. PlacesOK' /\ ClientIsOut'
  BY <1>1, <1>2 DEF CopyInv, PlacesOK, ClientIsOut, CallStands, clientVars, Opening, FirstPass,
                    SecondPass
<1>6. CardIsQuiet' /\ FirstPassCopies' /\ SecondPassCompares'
  BY <1>2 DEF CardIsQuiet, FirstPassCopies, SecondPassCompares, InPass, FirstPass, SecondPass,
              CallStands
<1> QED
  BY <1>4, <1>5, <1>6 DEF CopyInv

LEMMA BlocksKeepInv == ASSUME CopyInv, CallStands, BlocksReturn PROVE CopyInv'
<1>1. UNCHANGED <<cardVars, image, sector, actual>>
  BY DEF BlocksReturn
<1>2. pc \in {"SourceBlocks", "DestinationBlocks"} /\ lba = 0
  BY DEF BlocksReturn, CopyInv, PlacesOK, Opening
<1>3. CardTypeOK' /\ stored' = stored
  BY <1>1, CardStands DEF CopyInv, CopyTypeOK
<1>4. Blocks \in {0, ImageBlocks} \cup CardSizes /\ (~OnCard => Blocks = ImageBlocks)
  BY DEF Blocks, BlockCount, CopyInv, CopyTypeOK, CardTypeOK
<1>5. /\ total' \in {0, ImageBlocks} \cup CardSizes
      /\ total' \in Nat
      /\ pc = "SourceBlocks" => answer' = "Complete" /\ (toCard => total' = ImageBlocks)
      /\ pc = "DestinationBlocks" =>
            total' = total /\ (~toCard /\ answer' = "Complete" => total <= ImageBlocks)
  <2>1. total \in {0, ImageBlocks} \cup CardSizes
    BY DEF CopyInv, CopyTypeOK
  <2>2. CASE pc = "SourceBlocks"
    BY <1>4, <2>1, <2>2 DEF BlocksReturn, Says, OnCard
  <2>3. CASE pc = "DestinationBlocks"
    BY <1>4, <2>1, <2>3 DEF BlocksReturn, Says, OnCard
  <2> QED
    BY <1>2, <2>2, <2>3
<1>6. CopyTypeOK'
  BY <1>1, <1>2, <1>3, <1>5 DEF CopyInv, CopyTypeOK, CallStands, clientVars
<1>7. PlacesOK' /\ ClientIsOut'
  BY <1>1, <1>2, <1>5 DEF CopyInv, PlacesOK, ClientIsOut, CallStands, clientVars, Opening,
                          FirstPass, SecondPass
<1>8. CardIsQuiet' /\ FirstPassCopies' /\ SecondPassCompares'
  BY <1>2 DEF CardIsQuiet, FirstPassCopies, SecondPassCompares, InPass, FirstPass, SecondPass,
              CallStands
<1> QED
  BY <1>6, <1>7, <1>8 DEF CopyInv

\* What a read that completes returns: the sector, or a damaged one in its place.
LEMMA ReadReturnsSector ==
    ASSUME CopyInv, CallStands, ReadReturns
    PROVE  /\ CardTypeOK' /\ UNCHANGED <<stored, image, programming, total>>
           /\ corruptions' \in {corruptions, corruptions + 1}
           /\ \E data \in Sector :
                /\ IF pc = "VerifyDestination" THEN actual' = data /\ sector' = sector
                                               ELSE sector' = data /\ actual' = actual
                /\ answer' = "Complete" /\ OnCard =>
                      /\ programming = NoWrite
                      /\ corruptions' = corruptions => data = stored[lba]
                /\ answer' = "Complete" /\ ~OnCard => corruptions' = corruptions /\ data = image[lba]
<1>1. PICK data \in Sector :
        /\ \/ OnCard /\ OwnsCard /\ CardRead(lba, answer', data) /\ UNCHANGED image
           \/ ~OnCard /\ answer' = "Complete" /\ data = image[lba] /\ UNCHANGED <<cardVars, image>>
           \/ (OnCard => ~OwnsCard) /\ data = Garbled /\ FailsAlone
        /\ IF pc = "VerifyDestination" THEN actual' = data /\ UNCHANGED sector
           ELSE sector' = data /\ UNCHANGED actual
  BY DEF ReadReturns, Sector
<1>2. UNCHANGED total
  BY DEF ReadReturns
<1>3. corruptions \in Nat
  BY DEF CopyInv, CopyTypeOK, CardTypeOK
<1>4. CASE OnCard /\ CardRead(lba, answer', data) /\ UNCHANGED image
  <2>1. CardTypeOK'
    BY <1>4, ReadKeepsCard DEF CopyInv, CopyTypeOK, CardKept
  <2>2. UNCHANGED <<stored, programming>> /\ corruptions' \in {corruptions, corruptions + 1}
    BY <1>4 DEF CardRead, Damaged, Undamaged
  <2>3. answer' = "Complete" =>
          /\ programming = NoWrite
          /\ corruptions' = corruptions => data = stored[lba]
    BY <1>3, <1>4 DEF CardRead, Damaged, Undamaged, Responds
  <2> QED
    BY <1>1, <1>2, <1>4, <2>1, <2>2, <2>3
<1>5. CASE ~OnCard /\ answer' = "Complete" /\ data = image[lba] /\ UNCHANGED <<cardVars, image>>
  <2>1. CardTypeOK'
    BY <1>5, CardStands DEF CopyInv, CopyTypeOK
  <2> QED
    BY <1>1, <1>2, <1>5, <2>1 DEF cardVars
<1>6. CASE FailsAlone
  <2>1. CardTypeOK'
    BY <1>6, CardStands DEF FailsAlone, CopyInv, CopyTypeOK
  <2> QED
    BY <1>1, <1>2, <1>6, <2>1 DEF FailsAlone, cardVars
<1> QED
  BY <1>1, <1>4, <1>5, <1>6

LEMMA ReadKeepsInv == ASSUME CopyInv, CallStands, ReadReturns PROVE CopyInv'
<1>1. PICK data \in Sector :
        /\ CardTypeOK' /\ UNCHANGED <<stored, image, programming, total>>
        /\ corruptions' \in {corruptions, corruptions + 1}
        /\ IF pc = "VerifyDestination" THEN actual' = data /\ sector' = sector
                                       ELSE sector' = data /\ actual' = actual
        /\ answer' = "Complete" /\ OnCard =>
              /\ programming = NoWrite
              /\ corruptions' = corruptions => data = stored[lba]
        /\ answer' = "Complete" /\ ~OnCard => corruptions' = corruptions /\ data = image[lba]
  BY ReadReturnsSector
<1>2. pc \in {"Read", "VerifySource", "VerifyDestination"}
  BY DEF ReadReturns
<1>3. corruptions \in Nat
  BY DEF CopyInv, CopyTypeOK, CardTypeOK
<1>4. CopyTypeOK'
  BY <1>1 DEF CopyInv, CopyTypeOK, CallStands, clientVars, Sector
<1>5. PlacesOK' /\ ClientIsOut'
  BY <1>1, <1>2 DEF CopyInv, PlacesOK, ClientIsOut, CallStands, clientVars, Opening, FirstPass,
                    SecondPass
<1>6. /\ pc' = pc /\ lba' = lba /\ running /\ ~running' /\ toCard' = toCard
      /\ straddled' = straddled /\ (Refused' <=> answer' # "Complete") /\ ~Refused
  BY <1>2 DEF CallStands, Refused
<1>7. CASE pc = "Read"
  <2>1. OnCard <=> ~toCard
    BY <1>7 DEF OnCard, CopyInv, CopyTypeOK
  <2>2. CardIsQuiet'
    BY <1>1, <1>6, <1>7, <2>1 DEF CopyInv, CardIsQuiet, InPass, FirstPass, SecondPass
  <2>3. FirstPassCopies'
    <3>1. SUFFICES ASSUME answer' = "Complete", ~straddled, corruptions' = 0
                   PROVE  AgreeBelow(lba)' /\ sector' = Source[lba]'
      BY <1>6, <1>7 DEF FirstPassCopies, InPass
    <3>2. corruptions = 0 /\ corruptions' = corruptions
      BY <1>1, <1>3, <3>1
    <3>3. AgreeBelow(lba)
      BY <1>6, <1>7, <3>1, <3>2 DEF CopyInv, FirstPassCopies, InPass, FirstPass
    <3>4. AgreeBelow(lba)'
      BY <1>1, <1>6, <3>3 DEF AgreeBelow
    <3>5. sector' = Source[lba]'
      BY <1>1, <1>6, <1>7, <2>1, <3>1, <3>2 DEF Source
    <3> QED
      BY <3>4, <3>5
  <2>4. SecondPassCompares'
    BY <1>6, <1>7 DEF SecondPassCompares, InPass, SecondPass
  <2> QED
    BY <1>4, <1>5, <2>2, <2>3, <2>4 DEF CopyInv
<1>8. CASE pc = "VerifySource"
  <2>1. OnCard <=> ~toCard
    BY <1>8 DEF OnCard, CopyInv, CopyTypeOK
  <2>2. CardIsQuiet' /\ FirstPassCopies'
    BY <1>1, <1>6, <1>8 DEF CopyInv, CardIsQuiet, FirstPassCopies, InPass, FirstPass, SecondPass
  <2>3. SecondPassCompares'
    <3>1. SUFFICES ASSUME answer' = "Complete", ~straddled, corruptions' <= 1, ~AgreeBelow(total)'
                   PROVE  corruptions' = 1 /\ AgreeBelow(lba)' /\ sector' = Source[lba]'
      BY <1>6, <1>8 DEF SecondPassCompares, InPass
    <3>2. corruptions <= 1 /\ ~AgreeBelow(total)
      BY <1>1, <1>3, <3>1 DEF AgreeBelow
    <3>3. corruptions = 1 /\ AgreeBelow(lba)
      BY <1>6, <1>8, <3>1, <3>2 DEF CopyInv, SecondPassCompares, InPass, SecondPass
    <3>4. corruptions' = corruptions
      BY <1>1, <3>1, <3>3
    <3>5. AgreeBelow(lba)'
      BY <1>1, <1>6, <3>3 DEF AgreeBelow
    <3>6. sector' = Source[lba]'
      BY <1>1, <1>6, <1>8, <2>1, <3>1, <3>4 DEF Source
    <3> QED
      BY <3>3, <3>4, <3>5, <3>6
  <2> QED
    BY <1>4, <1>5, <2>2, <2>3 DEF CopyInv
<1>9. CASE pc = "VerifyDestination"
  <2>1. OnCard <=> toCard
    BY <1>9 DEF OnCard, CopyInv, CopyTypeOK
  <2>2. CardIsQuiet' /\ FirstPassCopies'
    BY <1>1, <1>6, <1>9 DEF CopyInv, CardIsQuiet, FirstPassCopies, InPass, FirstPass, SecondPass
  <2>3. SecondPassCompares'
    <3>1. SUFFICES ASSUME answer' = "Complete", ~straddled, corruptions' <= 1, ~AgreeBelow(total)'
                   PROVE  /\ corruptions' = 1 /\ AgreeBelow(lba)'
                          /\ sector' = Source[lba]' /\ actual' = Destination[lba]'
      BY <1>6, <1>9 DEF SecondPassCompares, InPass
    <3>2. corruptions <= 1 /\ ~AgreeBelow(total)
      BY <1>1, <1>3, <3>1 DEF AgreeBelow
    <3>3. corruptions = 1 /\ AgreeBelow(lba) /\ sector = Source[lba]
      BY <1>6, <1>9, <3>1, <3>2 DEF CopyInv, SecondPassCompares, InPass, SecondPass
    <3>4. corruptions' = corruptions
      BY <1>1, <3>1, <3>3
    <3>5. AgreeBelow(lba)' /\ sector' = Source[lba]'
      BY <1>1, <1>6, <1>9, <3>3 DEF AgreeBelow, Source
    <3>6. actual' = Destination[lba]'
      BY <1>1, <1>6, <1>9, <2>1, <3>1, <3>4 DEF Destination
    <3> QED
      BY <3>3, <3>4, <3>5, <3>6
  <2> QED
    BY <1>4, <1>5, <2>2, <2>3 DEF CopyInv
<1> QED
  BY <1>2, <1>7, <1>8, <1>9

\* A write that completes puts the sector on the destination, or damages it.
LEMMA WriteKeepsInv == ASSUME CopyInv, CallStands, WriteReturns PROVE CopyInv'
<1>1. /\ pc = "Write" /\ UNCHANGED <<total, sector, actual>>
      /\ \/ OnCard /\ CardWrite(lba, sector, answer') /\ UNCHANGED image
         \/ /\ ~OnCard /\ answer' = "Complete"
            /\ image' = [image EXCEPT ![lba] = sector] /\ UNCHANGED cardVars
         \/ FailsAlone
  BY DEF WriteReturns
<1>2. /\ pc' = pc /\ lba' = lba /\ running /\ ~running' /\ UNCHANGED toCard
      /\ straddled' = straddled /\ (Refused' <=> answer' # "Complete") /\ ~Refused
      /\ lba \in Nat /\ lba < total /\ total \in Nat /\ (OnCard <=> toCard)
      /\ corruptions \in Nat
  BY <1>1 DEF CallStands, Refused, CopyInv, CopyTypeOK, CardTypeOK, PlacesOK, OnCard
<1>3. CardKept /\ image' \in [ImageLbas -> Sector]
  <2>1. sector \in Sector /\ CardTypeOK /\ image \in [ImageLbas -> Sector]
    BY DEF CopyInv, CopyTypeOK, Sector
  <2>2. CASE OnCard /\ CardWrite(lba, sector, answer') /\ UNCHANGED image
    BY <1>2, <2>1, <2>2, WriteKeepsCard
  <2>3. CASE UNCHANGED cardVars
    BY <1>1, <2>1, <2>3 DEF CardTypeOK, cardVars, CardKept, FailsAlone, CardWrite
  <2> QED
    BY <1>1, <2>2, <2>3 DEF FailsAlone
<1>4. CopyTypeOK'
  BY <1>1, <1>3 DEF CopyInv, CopyTypeOK, CallStands, clientVars, Sector, CardKept
<1>5. PlacesOK' /\ ClientIsOut'
  BY <1>1 DEF CopyInv, PlacesOK, ClientIsOut, CallStands, clientVars, Opening, FirstPass,
              SecondPass
<1>6. CardIsQuiet'
  <2>1. SUFFICES ASSUME answer' = "Complete", ~straddled
                 PROVE  programming' = NoWrite
    BY <1>1, <1>2 DEF CardIsQuiet, InPass, FirstPass, SecondPass
  <2>2. CASE toCard
    BY <1>1, <1>2, <2>1, <2>2 DEF CardWrite, Responds, FailsAlone
  <2>3. CASE ~toCard
    BY <1>1, <1>2, <2>1, <2>3 DEF CopyInv, CardIsQuiet, InPass, FirstPass, cardVars, FailsAlone
  <2> QED
    BY <2>2, <2>3
<1>7. FirstPassCopies'
  <2>1. SUFFICES ASSUME answer' = "Complete", ~straddled, corruptions' = 0
                 PROVE  /\ AgreeBelow(lba)'
                        /\ sector' = Source[lba]' /\ sector' = Destination[lba]'
    BY <1>1, <1>2 DEF FirstPassCopies, InPass
  <2>2. corruptions = 0
    BY <1>1, <1>2, <2>1 DEF CardWrite, Damaged, Undamaged, cardVars, FailsAlone
  <2>3. AgreeBelow(lba) /\ sector = Source[lba]
    BY <1>1, <1>2, <2>1, <2>2 DEF CopyInv, FirstPassCopies, InPass, FirstPass
  <2>4. CASE toCard
    <3>1. PICK size \in CardSizes :
            stored \in [0 .. size - 1 -> Sector] /\ blocks \in {0, size}
      BY DEF CopyInv, CopyTypeOK, CardTypeOK, Sector
    <3>2. /\ image' = image /\ lba < blocks
          /\ stored' = [stored EXCEPT ![lba] = sector]
      BY <1>1, <1>2, <2>1, <2>2, <2>4 DEF CardWrite, Damaged, FailsAlone
    <3>3. lba \in 0 .. size - 1
      BY <1>2, <3>1, <3>2
    <3>4. stored'[lba] = sector /\ \A l \in 0 .. lba - 1 : stored'[l] = stored[l]
      BY <1>2, <3>1, <3>2, <3>3
    <3> QED
      BY <1>1, <1>2, <2>3, <2>4, <3>2, <3>4 DEF AgreeBelow, Source, Destination
  <2>5. CASE ~toCard
    <3>1. image' = [image EXCEPT ![lba] = sector] /\ stored' = stored
      BY <1>1, <1>2, <2>1, <2>5 DEF cardVars, FailsAlone
    <3>2. lba \in ImageLbas /\ image \in [ImageLbas -> Sector]
      BY <1>1, <1>2, <2>5 DEF CopyInv, PlacesOK, FirstPass, ImageLbas, CopyTypeOK, Sector
    <3>3. image'[lba] = sector /\ \A l \in 0 .. lba - 1 : image'[l] = image[l]
      BY <1>2, <3>1, <3>2
    <3> QED
      BY <1>1, <1>2, <2>3, <2>5, <3>1, <3>3 DEF AgreeBelow, Source, Destination
  <2> QED
    BY <2>4, <2>5
<1>8. SecondPassCompares'
  BY <1>1, <1>2 DEF SecondPassCompares, InPass, SecondPass
<1> QED
  BY <1>4, <1>5, <1>6, <1>7, <1>8 DEF CopyInv

\* A card that answers a flush has nothing left to program.
LEMMA FlushKeepsInv == ASSUME CopyInv, CallStands, FlushReturns PROVE CopyInv'
<1>1. /\ pc = "Flush" /\ UNCHANGED <<total, sector, actual, cardVars, image>>
      /\ OnCard /\ answer' = "Complete" => programming = NoWrite
  BY DEF FlushReturns, CardFlush, FailsAlone, Responds
<1>2. /\ pc' = pc /\ lba' = lba /\ running /\ ~running' /\ toCard' = toCard
      /\ straddled' = straddled /\ (Refused' <=> answer' # "Complete") /\ ~Refused
      /\ (OnCard <=> toCard)
  BY <1>1 DEF CallStands, Refused, CopyInv, CopyTypeOK, OnCard
<1>3. CardTypeOK' /\ UNCHANGED <<stored, programming, corruptions>>
  BY <1>1, CardStands DEF CopyInv, CopyTypeOK
<1>4. CopyTypeOK'
  BY <1>1, <1>3 DEF CopyInv, CopyTypeOK, CallStands, clientVars
<1>5. PlacesOK' /\ ClientIsOut'
  BY <1>1 DEF CopyInv, PlacesOK, ClientIsOut, CallStands, clientVars, Opening, FirstPass,
              SecondPass
<1>6. CardIsQuiet' /\ FirstPassCopies' /\ SecondPassCompares'
  BY <1>1, <1>2, <1>3 DEF CopyInv, CardIsQuiet, FirstPassCopies, SecondPassCompares, InPass,
                          FirstPass, SecondPass, AgreeBelow
<1> QED
  BY <1>4, <1>5, <1>6 DEF CopyInv

LEMMA CallReturnsKeepsInv == ASSUME CopyInv, CallReturns PROVE CopyInv'
<1>1. CallStands
  BY DEF CallReturns, CallStands
<1> QED
  BY <1>1, QueryKeepsInv, BlocksKeepInv, ReadKeepsInv, WriteKeepsInv, FlushKeepsInv
     DEF CallReturns

-----------------------------------------------------------------------------
\* The card by itself finishes a write only before the copier has used it.
LEMMA CardStepKeepsInv == ASSUME CopyInv, CardStep PROVE CopyInv'
<1>1. /\ CopyStands /\ UNCHANGED <<owner, cancel, result, copies, clientVars>>
      /\ (pc = "Idle" /\ Initialize) \/ Programmed \/ Remove \/ Insert
  BY DEF CardStep, CopyStands, copyVars
<1>2. CardKept
  BY <1>1, CardAlone DEF CopyInv, CopyTypeOK
<1>3. CopyTypeOK'
  BY <1>1, <1>2 DEF CopyInv, CopyTypeOK, CopyStands, CardKept, clientVars
<1>4. PlacesOK' /\ ClientIsOut'
  BY <1>1, PlacesStand DEF CopyInv, ClientIsOut, CopyStands, clientVars
<1>5. \A pass : InPass(pass)' <=> InPass(pass)
  BY <1>1 DEF CopyStands, InPass, Refused
<1>6. CASE pc = "Idle"
  <2>1. ~InPass(FirstPass) /\ ~InPass(SecondPass)
    BY <1>6 DEF InPass, FirstPass, SecondPass
  <2>2. ~InPass(FirstPass)' /\ ~InPass(SecondPass)'
    BY <1>5, <2>1 DEF FirstPass, SecondPass
  <2> QED
    BY <1>3, <1>4, <2>2 DEF CopyInv, CardIsQuiet, FirstPassCopies, SecondPassCompares
<1>7. CASE Remove \/ Insert
  <2>1. programming' \in {programming, NoWrite} /\ UNCHANGED <<stored, corruptions>>
    BY <1>7 DEF Remove, Insert
  <2>2. CardIsQuiet'
    BY <1>1, <1>5, <2>1 DEF CopyInv, CardIsQuiet, CopyStands
  <2>3. FirstPassCopies' /\ SecondPassCompares'
    BY <1>1, <1>5, <2>1 DEF CopyInv, FirstPassCopies, SecondPassCompares, CopyStands, AgreeBelow,
                            Source, Destination
  <2> QED
    BY <1>3, <1>4, <2>2, <2>3 DEF CopyInv
<1>8. CASE Programmed /\ pc # "Idle"
  <2>1. programming # NoWrite /\ programming' = NoWrite /\ UNCHANGED corruptions
    BY <1>8 DEF Programmed
  <2>2. CardIsQuiet'
    BY <2>1 DEF CardIsQuiet
  <2>3. InPass(FirstPass) =>
          lba = 0 /\ (pc = "Write" \/ (pc = "Read" /\ ~running) => toCard)
                  /\ ~(pc = "Write" /\ ~running)
    BY <2>1 DEF CopyInv, CardIsQuiet
  <2>4. FirstPassCopies'
    BY <1>1, <1>5, <2>1, <2>3 DEF CopyInv, FirstPassCopies, CopyStands, AgreeBelow, Source
  <2>5. SecondPassCompares'
    <3>1. InPass(SecondPass) => total = 0
      <4>1. total \in Nat
        BY DEF CopyInv, CopyTypeOK
      <4> QED
        BY <2>1, <4>1 DEF CopyInv, CardIsQuiet
    <3> QED
      BY <1>1, <1>5, <3>1 DEF SecondPassCompares, CopyStands, AgreeBelow
  <2> QED
    BY <1>3, <1>4, <2>2, <2>4, <2>5 DEF CopyInv
<1> QED
  BY <1>1, <1>3, <1>4, <1>6, <1>7, <1>8 DEF CopyInv

LEMMA NextKeepsInv == CopyInv /\ [MediaNext]_mediaVars => CopyInv'
<1> SUFFICES ASSUME CopyInv, [MediaNext]_mediaVars PROVE CopyInv'
  OBVIOUS
<1>1. CASE UNCHANGED mediaVars
  <2>1. CopyStands /\ UNCHANGED <<cardVars, owner, cancel, result, copies, clientVars>>
    BY <1>1 DEF mediaVars, CopyStands, copyVars
  <2>2. CopyTypeOK' /\ ClientIsOut'
    BY <2>1, CardStands DEF CopyInv, CopyTypeOK, ClientIsOut, CopyStands, clientVars
  <2> QED
    BY <2>1, <2>2, PlacesStand, CopyDataStands DEF CopyInv, cardVars
<1> QED
  BY <1>1, ExposeKeepsInv, ClientBeginsKeepsInv, ClientReachesKeepsInv, StartKeepsInv,
     CancelKeepsInv, CopierStepKeepsInv, CallReturnsKeepsInv, CardStepKeepsInv DEF MediaNext

LEMMA CopyInvariant == MediaSpec => []CopyInv
BY InitCopy, NextKeepsInv, PTL DEF MediaSpec

\* The arbiter names the copy as the owner exactly while the copier holds the card, and
\* image, card, counters and places stay in their ranges: a copy never addresses a
\* sector it has not counted.
THEOREM CopyIsTyped == MediaSpec => []CopyTypeOK
<1>1. CopyInv => CopyTypeOK
  BY DEF CopyInv
<1> QED
  BY <1>1, CopyInvariant, PTL

-----------------------------------------------------------------------------
\* Once cancelled() is true the copier only releases the card and reports it; what a
\* call under way returns is not looked at.
THEOREM CancelIsFinal == MediaSpec => CancellationWins
<1> DEFINE Won == pc # "Idle" /\ cancel =>
                    (running' => running) /\ (pc' = "Idle" => result' = "Cancelled")
<1>1. [MediaNext]_mediaVars => Won \/ UNCHANGED mediaVars
  <2>1. SUFFICES ASSUME MediaNext, pc # "Idle", cancel
                 PROVE  (running' => running) /\ (pc' = "Idle" => result' = "Cancelled")
    BY DEF MediaNext
  <2>2. CASE CopierStep
    <3>1. Finish("Cancelled")
      BY <2>1, <2>2 DEF CopierStep, Abandon, Acquire, Acquired, NextSector, AfterCall, Noticed
    <3> QED
      BY <3>1 DEF Finish, Arrive
  <2>3. CASE CallReturns
    BY <2>1, <2>3 DEF CallReturns
  <2>4. CASE ~CopierStep /\ ~CallReturns
    <3>1. UNCHANGED <<pc, running>>
      BY <2>1, <2>4 DEF MediaNext, Expose, Hide, ClientWriteBegins, ClientWriteReaches, StartCopy,
                        RequestCancel, CardStep, copyVars
    <3> QED
      BY <2>1, <3>1
  <2> QED
    BY <2>2, <2>3, <2>4
<1> QED
  BY <1>1, PTL DEF MediaSpec, CancellationWins

\* A copy that reports Complete has copied every sector it counted, for every number of
\* damaged transfers up to the one a verified copy withstands.
THEOREM CompleteIsCopied == MediaSpec => CompleteMeansCopied
<1> DEFINE Copied == pc # "Idle" /\ pc' = "Idle" /\ result' = "Complete" /\ ~straddled
                        /\ corruptions <= Damage
                     => /\ \A l \in 0 .. total - 1 : image[l] = stored[l]
                        /\ toCard => programming = NoWrite
<1>1. CopyInv /\ [MediaNext]_mediaVars => Copied \/ UNCHANGED mediaVars
  <2>1. SUFFICES ASSUME CopyInv, MediaNext, pc # "Idle", pc' = "Idle", result' = "Complete",
                        ~straddled, corruptions <= Damage
                 PROVE  AgreeBelow(total) /\ (toCard => programming = NoWrite)
    BY DEF AgreeBelow
  <2>2. CopierStep
    BY <2>1 DEF MediaNext, Expose, Hide, ClientWriteBegins, ClientWriteReaches, StartCopy,
                RequestCancel, CardStep, CallReturns, copyVars
  <2>3. \/ pc = "VerifyReport" /\ lba = total
        \/ pc = "Flush" /\ answer = "Complete" /\ ~verify /\ ~running
    <3>1. \A call \in DOMAIN RefusedBy : RefusedBy[call] # "Complete"
      BY DEF RefusedBy
    <3>2. pc \in Calls /\ answer # "Complete" => pc \in DOMAIN RefusedBy \/ running
      BY <2>1 DEF RefusedBy, CopyInv, PlacesOK
    <3> QED
      BY <2>1, <2>2, <3>1, <3>2 DEF CopierStep, Abandon, Acquire, Acquired, NextSector, AfterCall,
                                    Finish, GoTo, Arrive, Following
  <2>4. corruptions \in Nat /\ corruptions <= 1 /\ (~verify => corruptions = 0)
    BY <2>1 DEF Damage, CopyInv, CopyTypeOK, CardTypeOK
  <2>5. CASE pc = "VerifyReport" /\ lba = total
    <3>1. InPass(SecondPass)
      BY <2>1, <2>5 DEF InPass, SecondPass, Refused
    <3>2. AgreeBelow(total)
      BY <2>1, <2>4, <2>5, <3>1 DEF CopyInv, SecondPassCompares
    <3>3. toCard => programming = NoWrite
      BY <2>1, <2>5, <3>1 DEF CopyInv, CardIsQuiet, PlacesOK, SecondPass
    <3> QED
      BY <3>2, <3>3
  <2>6. CASE pc = "Flush" /\ answer = "Complete" /\ ~verify /\ ~running
    <3>1. InPass(FirstPass) /\ lba = total
      BY <2>1, <2>6 DEF InPass, FirstPass, Refused, CopyInv, PlacesOK
    <3>2. AgreeBelow(total)
      BY <2>1, <2>4, <2>6, <3>1 DEF CopyInv, FirstPassCopies
    <3>3. toCard => programming = NoWrite
      BY <2>1, <2>6, <3>1 DEF CopyInv, CardIsQuiet, PlacesOK, FirstPass
    <3> QED
      BY <3>2, <3>3
  <2> QED
    BY <2>3, <2>5, <2>6
<1> QED
  BY <1>1, CopyInvariant, PTL DEF MediaSpec, CompleteMeansCopied
=============================================================================
