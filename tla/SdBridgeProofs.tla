---------------------------- MODULE SdBridgeProofs ----------------------------
(***************************************************************************)
(* Proofs about SdBridge for every value of its constants.  The bridge     *)
(* calls the service only the way TargetPoll allows, so what is proved of  *)
(* the service holds under it; what is added says what an SD client has    *)
(* been told.                                                              *)
(***************************************************************************)
EXTENDS SdBridge, BackendServiceProofs

BridgeTypes == pendingWrite \in (Lbas \X Blocks) \cup {NoWrite} /\ call \in Calls

\* No line the host may still execute, and no operation that may still send one,
\* writes the sector.
NoWriteOf(lba) ==
    /\ \A m \in Sent : m.kind = "WRITE_BLOCKS" /\ m.session = host.session => m.op.lba # lba
    /\ operation # NoOperation /\ operation.type = "Write" => operation.lba # lba

\* What the client was told stays so until its transaction is over.
CompletedIsStored ==
    call.result = "Complete" => image[call.lba] = call.data /\ NoWriteOf(call.lba)

BridgeInv == LinkInv /\ BridgeTypes /\ PendingWriteIsCurrent /\ CompletedIsStored

-----------------------------------------------------------------------------
\* The bridge stays within the calls of TargetPoll.
LEMMA CallIsPoll ==
    ASSUME InTargetPoll, NEW lba \in Lbas,
           BridgeRead(lba) \/ \E data \in Blocks : BridgeWrite(lba, data)
    PROVE  TargetPoll
<1>1. CASE UNCHANGED <<allVars, tx>>
  BY <1>1 DEF InTargetPoll, TargetPoll
<1>2. CASE IsCached(lba) /\ Deliver(lba, Generation) /\ UNCHANGED tx
  BY <1>2 DEF InTargetPoll, TargetPoll, IsCached
<1>3. CASE CanBegin /\ BeginCdcRead(lba)
  BY <1>3 DEF InTargetPoll, TargetPoll, CanBegin
<1>4. ASSUME NEW data \in Blocks, CanBegin, BeginCdcWrite(lba, data) PROVE TargetPoll
  BY <1>4 DEF InTargetPoll, TargetPoll, CanBegin
<1> QED
  BY <1>1, <1>2, <1>3, <1>4 DEF BridgeRead, BridgeWrite, FirstWrite, RepeatedWrite, OtherWrite,
     NothingSent

\* An operation of the SD side, new or asked for again, is one of its calls.
LEMMA OperationIsCall ==
    ASSUME BridgeTypes, SdOperation \/ SdRetry
    PROVE  /\ InTargetPoll
           /\ \E lba \in Lbas : BridgeRead(lba) \/ \E data \in Blocks : BridgeWrite(lba, data)
<1>1. CASE SdOperation
  BY <1>1 DEF SdOperation
<1>2. CASE SdRetry
  <2>1. call # NoCall
    BY <1>2 DEF SdRetry, NoCall
  <2>2. call.lba \in Lbas /\ call.data \in Blocks
    BY <2>1 DEF BridgeTypes, Calls
  <2> QED
    BY <1>2, <2>2 DEF SdRetry
<1> QED
  BY <1>1, <1>2

LEMMA BridgeStepIsUse ==
    ASSUME BridgeTypes, [BridgeNext]_bridgeVars
    PROVE  [UseNext]_serviceVars
<1>1. CASE SdOperation \/ SdRetry
  BY <1>1, OperationIsCall, CallIsPoll DEF UseNext
<1>2. CASE SdRelease
  BY <1>2 DEF SdRelease, InTargetPoll, UseNext, TargetPoll
<1> QED
  BY <1>1, <1>2 DEF BridgeNext, UseNext, bridgeVars

-----------------------------------------------------------------------------
\* Steps of service, link and host begin no operation, and send no write but the
\* one that is retained.
NoWriteBegins ==
    /\ operation' \in {operation, NoOperation}
    /\ \A m : m \in Sent' /\ m.kind = "WRITE_BLOCKS" /\ m.session = host'.session =>
          \/ m \in Sent /\ m.session = host.session
          \/ operation # NoOperation /\ operation.type = "Write" /\ m.op = operation

LEMMA NoWriteStands ==
    ASSUME NEW lba, NoWriteOf(lba), NoWriteBegins
    PROVE  NoWriteOf(lba)'
BY DEF NoWriteOf, NoWriteBegins

LEMMA HostStepMoves ==
    ASSUME LinkInv, HostStarts \/ HostLeaves \/ Dispatch \/ DevicePoll
    PROVE  /\ UNCHANGED <<client, state, operation, transfer>>
           /\ \A m : m \in Sent' /\ m.kind = "WRITE_BLOCKS" /\ m.session = host'.session =>
                  m \in Sent /\ m.session = host.session
<1> USE DEF LinkInv, ServiceInv
<1>1. CASE HostStarts \/ HostLeaves
  <2>1. /\ tx' \in {tx, NoLine} /\ UNCHANGED allVars
        /\ toHost' \in {toHost, <<>>} /\ host' \in {host, Serving(host.session + 1)}
    BY <1>1 DEF HostStarts, HostLeaves, HostExits, HostReplaced, LinkLoses, hostVars
  <2>2. UNCHANGED <<client, state, operation, transfer>>
    BY <2>1 DEF allVars, vars
  <2>3. Sent' \subseteq Sent
    BY <2>1, NoLines DEF Sent
  <2>4. ASSUME NEW m, m \in Sent', m.kind = "WRITE_BLOCKS", m.session = host'.session
        PROVE  m.session = host.session
    <3>1. m \in RequestLines /\ m \in Sent
      BY <2>3, <2>4, LinesAreTyped
    <3>2. m.session \in Sessions
      BY <2>4, <3>1, LineShapes
    <3>3. m.session <= host.session
      BY <3>1, <3>2 DEF LineInv, SessionsOpened, Opened
    <3>4. host.session \in Nat
      BY DEF LinkTyped
    <3>5. host' = host
      BY <2>1, <2>4, <3>3, <3>4 DEF Serving
    <3> QED
      BY <2>4, <3>5
  <2> QED
    BY <2>2, <2>3, <2>4
<1>2. CASE Dispatch
  <2>1. /\ toHost # <<>> /\ toHost' = Tail(toHost) /\ UNCHANGED <<allVars, tx>>
        /\ \/ host' = host
           \/ \E id : host' = [host EXCEPT !.established = TRUE, !.lastId = id]
    BY <1>2, Zenon DEF Dispatch, hostVars
  <2>2. UNCHANGED <<client, state, operation, transfer>>
    BY <2>1 DEF allVars, vars
  <2>3. Sent' \subseteq Sent
    BY <2>1, TailLines DEF Sent, LinkTyped
  <2>4. host'.session = host.session
    BY <2>1 DEF LinkTyped
  <2> QED
    BY <2>2, <2>3, <2>4
<1>3. CASE DevicePoll
  <2>1. /\ tx # NoLine /\ toHost' = Append(toHost, tx) /\ tx' = NoLine
        /\ UNCHANGED <<allVars, host>>
    BY <1>3 DEF DevicePoll, hostVars
  <2>2. UNCHANGED <<client, state, operation, transfer>>
    BY <2>1 DEF allVars, vars
  <2>3. Lines(toHost') = Lines(toHost) \cup {tx}
    BY <2>1, AppendLines DEF LinkTyped
  <2> QED
    BY <2>1, <2>2, <2>3 DEF Sent
<1> QED
  BY <1>1, <1>2, <1>3

LEMMA ShellMoves ==
    ASSUME LinkInv, ShellPoll
    PROVE  /\ UNCHANGED <<toHost, host>> /\ tx' \in {tx, Noise}
           /\ operation' \in {operation, NoOperation}
<1> USE DEF LinkInv, ServiceInv
<1>1. UNCHANGED <<toHost, host>>
  BY DEF ShellPoll, hostVars
<1>2. PICK r : OnHandshakeResponse(r) \/ OnInfoResponse(r)
                 \/ OnTransferResponse(r) \/ OnStrayLine
  BY DEF ShellPoll
<1>3. CASE OnHandshakeResponse(r)
  <2>1. tx' = tx /\ (BackendAcceptHandshake(r) \/ BackendDisconnect)
    BY <1>3 DEF OnHandshakeResponse
  <2> QED
    BY <1>1, <2>1, DisconnectResets DEF BackendAcceptHandshake, AcceptDirect
<1>4. CASE OnInfoResponse(r)
  <2>1. tx' = tx /\ (AcceptGetInfo(r) \/ BackendDisconnect)
    BY <1>4 DEF OnInfoResponse
  <2> QED
    BY <1>1, <2>1, DisconnectResets DEF AcceptGetInfo, MediaChangedWith, InvalidateMediaWith,
       CancelWith
<1>5. CASE OnTransferResponse(r)
  <2>1. tx' = tx /\ (AcceptTransferResponse(r) \/ UNCHANGED allVars)
    BY <1>5 DEF OnTransferResponse
  <2>2. CASE AcceptTransferResponse(r)
    BY <1>1, <2>1, <2>2, TransferMoves DEF vars
  <2>3. CASE UNCHANGED allVars
    BY <1>1, <2>1, <2>3 DEF allVars, vars
  <2> QED
    BY <2>1, <2>2, <2>3
<1>6. CASE OnStrayLine
  BY <1>1, <1>6 DEF OnStrayLine, SendIfFree, allVars, vars
<1> QED
  BY <1>2, <1>3, <1>4, <1>5, <1>6

LEMMA PollMoves ==
    ASSUME LinkInv, ServicePoll
    PROVE  /\ UNCHANGED <<toHost, host>> /\ operation' \in {operation, NoOperation}
           /\ \/ tx' = tx \/ tx'.kind # "WRITE_BLOCKS"
              \/ operation # NoOperation /\ operation.type = "Write" /\ tx'.op = operation
<1> USE DEF LinkInv, ServiceInv
<1>1. UNCHANGED <<toHost, host>>
  BY DEF ServicePoll, hostVars
<1>2. ASSUME BackendDisconnect, tx' = tx
      PROVE  tx' = tx /\ operation' = NoOperation
  BY <1>2, DisconnectResets
<1>3. CASE HostLost \/ SessionTimeout
  BY <1>1, <1>2, <1>3 DEF HostLost, SessionTimeout
<1>4. CASE SendHello
  <2>1. CASE BackendBeginHandshake /\ SendIfFree(Line("HELLO", NoOperation))
    <3>1. tx' = tx \/ tx' = Line("HELLO", NoOperation)
      BY <2>1 DEF SendIfFree
    <3>2. tx' = tx \/ tx'.kind = "HELLO"
      BY <3>1 DEF Line
    <3> QED
      BY <1>1, <2>1, <3>2, HelloMoves
  <2> QED
    BY <1>1, <1>2, <1>4, <2>1 DEF SendHello
<1>5. CASE SendGetInfo
  <2>1. CASE BackendBeginGetInfo /\ SendIfFree(Line("GET_INFO", NoOperation))
    <3>1. tx' = tx \/ tx' = Line("GET_INFO", NoOperation)
      BY <2>1 DEF SendIfFree
    <3>2. tx' = tx \/ tx'.kind = "GET_INFO"
      BY <3>1 DEF Line
    <3> QED
      BY <1>1, <2>1, <3>2, InfoMoves
  <2> QED
    BY <1>1, <1>2, <1>5, <2>1 DEF SendGetInfo
<1>6. CASE PollExpire
  <2>1. BackendExpire /\ tx' = tx
    BY <1>6 DEF PollExpire
  <2> QED
    BY <1>1, <2>1, ExpiryMoves DEF vars
<1>7. CASE PollRetry
  <2>1. /\ BackendIssueRetry
        /\ \/ tx' = tx
           \/ tx' = Line(IF operation.type = "Read" THEN "READ_BLOCKS" ELSE "WRITE_BLOCKS",
                         operation)
    BY <1>7 DEF PollRetry, SendIfFree
  <2>2. Issue(operation) /\ operation \in BackendOperations /\ operation # NoOperation
    BY <2>1, RetryMoves
  <2>3. operation' \in {operation, NoOperation}
    BY <2>2, IssueMoves
  <2>4. operation.type \in {"Read", "Write"}
    BY <2>2, OperationKinds
  <2>5. ASSUME tx' # tx, tx'.kind = "WRITE_BLOCKS"
        PROVE  operation.type = "Write" /\ tx'.op = operation
    BY <2>1, <2>4, <2>5 DEF Line
  <2> QED
    BY <1>1, <2>2, <2>3, <2>5
<1>8. CASE PollIdle
  BY <1>1, <1>8 DEF PollIdle, allVars, vars
<1> QED
  BY <1>3, <1>4, <1>5, <1>6, <1>7, <1>8 DEF ServicePoll

LEMMA ServiceMoves ==
    ASSUME LinkInv, ServiceStep \/ HostLeaves
    PROVE  NoWriteBegins
<1>1. CASE HostStarts \/ HostLeaves \/ Dispatch \/ DevicePoll
  <2>1. /\ operation' = operation
        /\ \A m : m \in Sent' /\ m.kind = "WRITE_BLOCKS" /\ m.session = host'.session =>
               m \in Sent /\ m.session = host.session
    BY <1>1, HostStepMoves
  <2> QED
    BY <2>1 DEF NoWriteBegins
<1>2. CASE ShellPoll
  <2>1. /\ UNCHANGED <<toHost, host>> /\ tx' \in {tx, Noise}
        /\ operation' \in {operation, NoOperation}
    BY <1>2, ShellMoves
  <2>2. \A m : m \in Sent' /\ m.kind = "WRITE_BLOCKS" => m \in Sent
    BY <2>1 DEF Sent, Noise
  <2> QED
    BY <2>1, <2>2 DEF NoWriteBegins
<1>3. CASE ServicePoll
  <2>1. /\ UNCHANGED <<toHost, host>> /\ operation' \in {operation, NoOperation}
        /\ \/ tx' = tx \/ tx'.kind # "WRITE_BLOCKS"
           \/ operation # NoOperation /\ operation.type = "Write" /\ tx'.op = operation
    BY <1>3, PollMoves
  <2>2. \A m : m \in Sent' /\ m.kind = "WRITE_BLOCKS" =>
            \/ m \in Sent
            \/ operation # NoOperation /\ operation.type = "Write" /\ m.op = operation
    BY <2>1 DEF Sent
  <2> QED
    BY <2>1, <2>2 DEF NoWriteBegins
<1> QED
  BY <1>1, <1>2, <1>3 DEF ServiceStep

\* So a sector that no write is under way to keeps its contents.
LEMMA ImageStands ==
    ASSUME LinkInv, ServiceStep \/ HostLeaves, NEW lba \in Lbas, NoWriteOf(lba)
    PROVE  image'[lba] = image[lba]
<1>1. CASE image' = image
  BY <1>1
<1>2. CASE image' # image
  <2>1. PICK m \in Sent : /\ m.kind = "WRITE_BLOCKS" /\ m.op \in SectorWrites
                          /\ m.session \in Sessions /\ m.session = host.session
                          /\ image' = [image EXCEPT ![m.op.lba] = m.op.data]
    BY <1>2, ImageMoves DEF UseNext
  <2>2. m.op.lba # lba
    BY <2>1 DEF NoWriteOf
  <2> QED
    BY <2>1, <2>2 DEF LinkInv, ServiceInv, LinkTyped
<1> QED
  BY <1>1, <1>2

\* A sector the bridge finds cached is the one of the image, and nothing is under
\* way to change it.
LEMMA CachedIsStored ==
    ASSUME LinkInv, NEW lba \in Lbas, IsCached(lba)
    PROVE  Cached(lba) = image[lba] /\ Cached(lba) \in Blocks /\ NoWriteOf(lba)
<1> USE DEF LinkInv, ServiceInv
<1> DEFINE h == FindReady(pool, lba, Generation)
<1>1. h \in ReadyCopies(pool, lba, Generation)
  <2>1. ReadyCopies(pool, lba, Generation) \subseteq Handles
    BY DEF ReadyCopies, Holding
  <2> QED
    BY <2>1, FirstIsMember DEF IsCached, FindReady
<1> HIDE DEF h
<1>2. h \in Holding(pool, {"Ready"}) /\ IsSector(pool.slots[h], lba, Generation)
  BY <1>1 DEF ReadyCopies
<1>3. pool.slots[h].lba = lba /\ pool.slots[h].data = image[lba]
  BY <1>2 DEF IsSector, CoherentCache
<1>4. Cached(lba) = image[lba] /\ Cached(lba) \in Blocks
  BY <1>3 DEF Cached, h, LinkTyped
<1>5. ASSUME NEW m \in Sent, m.kind = "WRITE_BLOCKS", m.session = host.session
      PROVE  m.op.lba # lba
  BY <1>2, <1>3, <1>5 DEF WritesAreUncached
<1>6. ASSUME operation # NoOperation, operation.type = "Write", operation.lba = lba
      PROVE  FALSE
  <2>1. transfer.type = "Write" /\ transfer.lba = lba /\ transfer # NoTransfer
    BY <1>6 DEF BackendInv, TransferMatchesOperation, NoTransfer
  <2> DEFINE k == transfer.handle
  <2>2. k \in Used(pool) /\ Checked(pool, k, OpState("Write"), lba, transfer.generation)
    BY <2>1, TransferHoldsSlot DEF BackendInv
  <2> HIDE DEF k
  <2>3. pool.slots[k].state = "Writing" /\ pool.slots[k].lba = lba
        /\ pool.slots[k].generation = media
    BY <2>2 DEF Checked, IsSector, OpState, BackendInv, PoolInv, CurrentMediumOnly
  <2>4. h \in Used(pool) /\ pool.slots[h].state = "Ready" /\ pool.slots[h].generation = media
    BY <1>2, ReadySlots
  <2>5. h = k
    BY <1>3, <2>2, <2>3, <2>4 DEF BackendInv, PoolInv, UniqueSector, IsSector
  <2> QED
    BY <2>3, <2>4, <2>5
<1> QED
  BY <1>4, <1>5, <1>6 DEF NoWriteOf

-----------------------------------------------------------------------------
\* The calls of the bridge, one result at a time.
BeginCall ==
    \/ \E lba \in Lbas : BeginCdcRead(lba) /\ UNCHANGED pendingWrite
    \/ \E lba \in Lbas, data \in Blocks :
          /\ pendingWrite = NoWrite /\ BeginCdcWrite(lba, data)
          /\ pendingWrite' = IF transfer' # NoTransfer THEN <<lba, data>> ELSE NoWrite

\* A call that begins no request changes nothing but the order of last use.
PlainCall ==
    /\ UNCHANGED <<client, operation, tx>> /\ pool'.slots = pool.slots
    /\ pendingWrite' \in {pendingWrite, NoWrite}

CompleteCall ==
    /\ PlainCall /\ IsCached(call'.lba)
    /\ call'.lba \in Lbas /\ call'.data = Cached(call'.lba)

LEMMA CallResults ==
    ASSUME NEW lba \in Lbas,
           BridgeRead(lba) \/ \E data \in Blocks : BridgeWrite(lba, data)
    PROVE  /\ (CanBegin /\ BeginCall) \/ PlainCall
           /\ call'.result = "Complete" => CompleteCall
           /\ LinkInv => call' \in Calls
<1>1. NothingSent => UNCHANGED <<client, operation, tx>> /\ pool' = pool
  BY DEF NothingSent, allVars, vars
<1>2. Deliver(lba, Generation) => UNCHANGED <<client, operation>> /\ pool'.slots = pool.slots
  BY DEF Deliver, vars, CopyReady
<1>3. Blank \in Blocks
  BY PoolAssumption
<1>4. ASSUME NEW kind \in {"Read", "Write"}, NEW data \in Blocks,
             NEW result \in {"Complete", "Pending", "Failed"}
      PROVE  /\ Answer(kind, lba, data, result) \in Calls
             /\ Answer(kind, lba, data, result).result = result
             /\ Answer(kind, lba, data, result).lba = lba
             /\ Answer(kind, lba, data, result).data = data
  BY DEF Answer, Calls
<1>5. BeginResult \in {"Pending", "Failed"}
  BY DEF BeginResult
<1>6. CASE BridgeRead(lba)
  <2>1. CASE /\ IsCached(lba)
             /\ Deliver(lba, Generation) /\ UNCHANGED tx
             /\ call' = Answer("Read", lba, Cached(lba), "Complete")
    <3>1. PlainCall
      BY <1>2, <1>6, <2>1 DEF PlainCall, BridgeRead
    <3>2. call'.lba = lba /\ call'.data = Cached(lba)
      BY <2>1 DEF Answer
    <3>3. LinkInv => call' \in Calls
      BY <1>4, <2>1, CachedIsStored
    <3> QED
      BY <2>1, <3>1, <3>2, <3>3 DEF CompleteCall
  <2>2. CASE NothingSent /\ call' = Answer("Read", lba, Blank, "Failed")
    BY <1>1, <1>3, <1>4, <1>6, <2>2 DEF PlainCall, BridgeRead
  <2>3. CASE CanBegin /\ BeginCdcRead(lba) /\ call' = Answer("Read", lba, Blank, BeginResult)
    <3>1. BeginCall
      BY <1>6, <2>3 DEF BeginCall, BridgeRead
    <3>2. call'.result # "Complete" /\ call' \in Calls
      BY <1>3, <1>4, <1>5, <2>3
    <3> QED
      BY <2>3, <3>1, <3>2
  <2> QED
    BY <1>6, <2>1, <2>2, <2>3 DEF BridgeRead
<1>7. ASSUME NEW data \in Blocks, BridgeWrite(lba, data)
      PROVE  /\ (CanBegin /\ BeginCall) \/ PlainCall
             /\ call'.result = "Complete" => CompleteCall
             /\ LinkInv => call' \in Calls
  <2>1. CASE CanBegin /\ FirstWrite(lba, data) /\ call' = Answer("Write", lba, data, BeginResult)
    <3>1. BeginCall
      BY <2>1 DEF BeginCall, FirstWrite
    <3>2. call'.result # "Complete" /\ call' \in Calls
      BY <1>4, <1>5, <2>1
    <3> QED
      BY <2>1, <3>1, <3>2
  <2>2. CASE /\ NothingSent /\ UNCHANGED pendingWrite
             /\ call' = Answer("Write", lba, data, "Failed")
    BY <1>1, <1>4, <2>2 DEF PlainCall
  <2>3. CASE RepeatedWrite(lba, data)
    <3>1. PlainCall
      BY <1>1, <1>2, <2>3 DEF PlainCall, RepeatedWrite
    <3>2. CASE Acknowledged(lba, data) /\ call' = Answer("Write", lba, data, "Complete")
      <4>1. IsCached(lba) /\ Cached(lba) = data
        BY <3>2 DEF Acknowledged
      <4>2. call' \in Calls /\ call'.lba = lba /\ call'.data = data
        BY <1>4, <3>2
      <4> QED
        BY <3>1, <4>1, <4>2 DEF CompleteCall
    <3>3. CASE call' = Answer("Write", lba, data, "Pending")
      BY <1>4, <3>1, <3>3
    <3> QED
      BY <2>3, <3>2, <3>3 DEF RepeatedWrite
  <2> QED
    BY <1>7, <2>1, <2>2, <2>3 DEF BridgeWrite, FirstWrite, OtherWrite
<1> QED
  BY <1>6, <1>7

\* No call of the SD side ends the session.
LEMMA CallKeepsSession ==
    ASSUME LinkInv, BeginCall
    PROVE  client'.negotiated = client.negotiated
<1>1. \A c : /\ ReserveRequest(c, FALSE).negotiated = c.negotiated
             /\ CancelPending(c).negotiated = c.negotiated
  BY DEF ReserveRequest, CancelPending
<1>2. \A op : Issue(op) => client'.negotiated = client.negotiated
  BY <1>1, IssueMoves
<1>3. UndoBegin => client'.negotiated = client.negotiated
  BY <1>1, UndoMoves
<1>4. ASSUME NEW p, NEW type, NEW lba, NEW g, NEW op, BeginTransfer(p, type, lba, g, op)
      PROVE  client'.negotiated = client.negotiated
  BY <1>2, <1>4, TransferBegins
<1> QED
  BY <1>3, <1>4 DEF BeginCall, BeginCdcRead, BeginCdcWrite, RequestRead, BeginWrite

\* A write that is begun is the operation from then on, and no read is one.
LEMMA CallBegins ==
    ASSUME BeginCall, ReadyForTransfer
    PROVE  operation' # NoOperation /\ operation'.type = "Write" =>
               pendingWrite' = <<operation'.lba, operation'.data>>
<1>1. UndoBegin => operation' = NoOperation
  BY UndoMoves
<1>2. ASSUME NEW p, NEW type, NEW lba, NEW g, NEW op, BeginTransfer(p, type, lba, g, op),
             type \in {"Read", "Write"}
      PROVE  \/ operation' = NoOperation
             \/ operation' = op /\ transfer' # NoTransfer
  <2>1. CASE state' = "AwaitingResponse"
    <3>1. transfer'.type = type
      BY <1>2, <2>1 DEF BeginTransfer
    <3>2. operation' = op
      BY <1>2, <2>1, TransferBegins, IssueMoves
    <3> QED
      BY <1>2, <3>1, <3>2 DEF NoTransfer
  <2>2. CASE state' # "AwaitingResponse"
    BY <1>2, <2>2, TransferBegins, IssueMoves
  <2> QED
    BY <2>1, <2>2
<1>3. ASSUME NEW lba \in Lbas, BeginCdcRead(lba), operation' # NoOperation
      PROVE  operation'.type = "Read"
  <2>1. BeginTransfer(pool, "Read", lba, Generation, ReadOperation(lba))
    BY <1>1, <1>3 DEF BeginCdcRead, RequestRead
  <2> QED
    BY <1>2, <1>3, <2>1 DEF ReadOperation
<1>4. ASSUME NEW lba \in Lbas, NEW data \in Blocks, BeginCdcWrite(lba, data),
             operation' # NoOperation
      PROVE  operation'.lba = lba /\ operation'.data = data /\ transfer' # NoTransfer
  <2>1. BeginTransfer(DroppingCopies(pool, lba, Generation), "Write", lba, Generation,
                      WriteOperation(lba, data))
    BY <1>1, <1>4 DEF BeginCdcWrite, BeginWrite
  <2> QED
    BY <1>2, <1>4, <2>1 DEF WriteOperation
<1> QED
  BY <1>3, <1>4 DEF BeginCall

-----------------------------------------------------------------------------
LEMMA BridgeTypesStand ==
    ASSUME LinkInv, BridgeTypes, [BridgeNext]_bridgeVars
    PROVE  BridgeTypes'
<1>1. CASE SdOperation \/ SdRetry
  <2>1. PICK lba \in Lbas : BridgeRead(lba) \/ \E data \in Blocks : BridgeWrite(lba, data)
    BY <1>1, OperationIsCall
  <2>2. call' \in Calls /\ (BeginCall \/ PlainCall)
    BY <2>1, CallResults
  <2>3. pendingWrite' \in (Lbas \X Blocks) \cup {NoWrite}
    BY <2>2 DEF BeginCall, PlainCall, BridgeTypes
  <2> QED
    BY <2>2, <2>3 DEF BridgeTypes
<1>2. CASE SdRelease
  BY <1>2 DEF SdRelease, Calls, BridgeTypes
<1>3. CASE (ServiceStep \/ HostLeaves) /\ Refreshed /\ UNCHANGED call
  BY <1>3 DEF Refreshed, WriteAfterRefresh, BridgeTypes
<1> QED
  BY <1>1, <1>2, <1>3 DEF BridgeNext, bridgeVars, BridgeTypes

LEMMA PendingWriteStands ==
    ASSUME LinkInv, BridgeTypes, PendingWriteIsCurrent, [BridgeNext]_bridgeVars
    PROVE  PendingWriteIsCurrent'
<1>1. CASE SdOperation \/ SdRetry
  <2>1. PICK lba \in Lbas : BridgeRead(lba) \/ \E data \in Blocks : BridgeWrite(lba, data)
    BY <1>1, OperationIsCall
  <2>2. mediaPresent' = mediaPresent
    BY <1>1, OperationIsCall DEF InTargetPoll, flags
  <2>3. CASE CanBegin /\ BeginCall
    <3>1. client'.negotiated = client.negotiated
      BY <2>3, CallKeepsSession
    <3>2. operation' # NoOperation /\ operation'.type = "Write" =>
              pendingWrite' = <<operation'.lba, operation'.data>>
      BY <2>3, CallBegins DEF CanBegin
    <3> QED
      BY <2>2, <2>3, <3>1, <3>2 DEF PendingWriteIsCurrent, MediaReady, CanBegin
  <2>4. CASE PlainCall
    BY <2>2, <2>4 DEF PlainCall, PendingWriteIsCurrent, MediaReady
  <2> QED
    BY <2>1, <2>3, <2>4, CallResults
<1>2. CASE (ServiceStep \/ HostLeaves) /\ Refreshed /\ UNCHANGED call
  <2>1. operation' \in {operation, NoOperation}
    BY <1>2, ServiceMoves DEF NoWriteBegins
  <2>2. pendingWrite' # NoWrite => MediaReady' /\ pendingWrite' = pendingWrite
    BY <1>2 DEF Refreshed, WriteAfterRefresh
  <2> QED
    BY <2>1, <2>2 DEF PendingWriteIsCurrent
<1>3. CASE SdRelease \/ UNCHANGED bridgeVars
  <2>1. UNCHANGED <<client, operation, mediaPresent, pendingWrite>>
    BY <1>3 DEF SdRelease, InTargetPoll, flags, allVars, vars, bridgeVars, serviceVars
  <2> QED
    BY <2>1 DEF PendingWriteIsCurrent, MediaReady
<1> QED
  BY <1>1, <1>2, <1>3 DEF BridgeNext

LEMMA CompletedStands ==
    ASSUME LinkInv, BridgeTypes, CompletedIsStored, [BridgeNext]_bridgeVars
    PROVE  CompletedIsStored'
<1>1. CASE SdOperation \/ SdRetry
  <2>1. UNCHANGED <<toHost, host, image>>
    BY <1>1, OperationIsCall DEF InTargetPoll, hostVars
  <2>2. ASSUME call'.result = "Complete"
        PROVE  \E lba \in Lbas : /\ lba = call'.lba /\ call'.data = image[lba]
                                 /\ NoWriteOf(lba) /\ UNCHANGED <<operation, tx>>
    <3>1. CompleteCall
      BY <1>1, <2>2, OperationIsCall, CallResults
    <3> QED
      BY <3>1, CachedIsStored DEF CompleteCall, PlainCall
  <2> QED
    BY <2>1, <2>2 DEF CompletedIsStored, NoWriteOf, Sent
<1>2. CASE (ServiceStep \/ HostLeaves) /\ Refreshed /\ UNCHANGED call
  <2> SUFFICES ASSUME call.result = "Complete" PROVE CompletedIsStored'
    BY <1>2 DEF CompletedIsStored
  <2>1. PICK lba \in Lbas : lba = call.lba
    BY DEF BridgeTypes, Calls, NoCall
  <2>2. image[lba] = call.data /\ NoWriteOf(lba)
    BY <2>1 DEF CompletedIsStored
  <2>3. image'[lba] = call.data /\ NoWriteOf(lba)'
    BY <1>2, <2>2, ImageStands, ServiceMoves, NoWriteStands
  <2> QED
    BY <1>2, <2>1, <2>3 DEF CompletedIsStored, NoWriteOf
<1>3. CASE SdRelease
  BY <1>3 DEF SdRelease, NoCall, CompletedIsStored
<1>4. CASE UNCHANGED bridgeVars
  <2>1. UNCHANGED <<operation, tx, toHost, host, image, call>>
    BY <1>4 DEF bridgeVars, serviceVars, allVars, vars, hostVars
  <2> QED
    BY <2>1 DEF CompletedIsStored, NoWriteOf, Sent
<1> QED
  BY <1>1, <1>2, <1>3, <1>4 DEF BridgeNext

LEMMA InitBridgeInv == BridgeInit => BridgeInv
<1> SUFFICES ASSUME BridgeInit PROVE BridgeInv
  OBVIOUS
<1>1. LinkInv
  BY InitLinkInv DEF BridgeInit
<1>2. BridgeTypes /\ CompletedIsStored
  BY DEF BridgeInit, BridgeTypes, CompletedIsStored, Calls, NoCall
<1>3. PendingWriteIsCurrent
  BY DEF BridgeInit, PendingWriteIsCurrent
<1> QED
  BY <1>1, <1>2, <1>3 DEF BridgeInv

LEMMA NextBridgeInv == BridgeInv /\ [BridgeNext]_bridgeVars => BridgeInv'
<1> SUFFICES ASSUME BridgeInv, [BridgeNext]_bridgeVars PROVE BridgeInv'
  OBVIOUS
<1>1. LinkInv'
  BY BridgeStepIsUse, NextLinkInv DEF BridgeInv
<1> QED
  BY <1>1, BridgeTypesStand, PendingWriteStands, CompletedStands DEF BridgeInv

\* What bridge, service, link, host and image satisfy together.
THEOREM BridgeInvariant == BridgeSpec => []BridgeInv
<1> QED
  BY InitBridgeInv, NextBridgeInv, PTL DEF BridgeSpec

\* The bridge calls the service only as TargetPoll allows.
THEOREM BridgeIsUse == BridgeSpec => ServiceUse
<1>1. BridgeInit => ServiceInit
  BY DEF BridgeInit
<1>2. BridgeInv /\ [BridgeNext]_bridgeVars => [UseNext]_serviceVars
  BY BridgeStepIsUse DEF BridgeInv
<1> QED
  BY <1>1, <1>2, BridgeInvariant, PTL DEF BridgeSpec, ServiceUse

\* The bridge keeps its types, and the service under it its own.
THEOREM BridgeIsTyped == BridgeSpec => []BridgeTypeOK
<1>1. BridgeInv /\ ServiceTypeOK => BridgeTypeOK
  BY DEF BridgeInv, BridgeTypes, BridgeTypeOK
<1> QED
  BY <1>1, BridgeInvariant, BridgeIsUse, ServiceIsTyped, PTL

\* A write the SD client was told is complete is in the image file, through
\* retries, duplicates and failures of host writes, aborted transactions and hosts
\* that are replaced; and a sector handed to it is the sector of the image file.
THEOREM CompletedIsStoredInTheImage == BridgeSpec => []CompletedIsTheImage
<1>1. BridgeInv => CompletedIsTheImage
  BY DEF BridgeInv, CompletedIsStored, CompletedIsTheImage
<1> QED
  BY <1>1, BridgeInvariant, PTL

\* The write the bridge waits for is of the mounted medium, and no other write is
\* in flight meanwhile.
THEOREM PendingWritesAreCurrent == BridgeSpec => []PendingWriteIsCurrent
<1>1. BridgeInv => PendingWriteIsCurrent
  BY DEF BridgeInv
<1> QED
  BY <1>1, BridgeInvariant, PTL

\* Under the bridge, as under any caller of the service: the cache agrees with the
\* image file, every outstanding request has one owner, media is offered only in
\* the session it was fetched in, and no other write is executed.
THEOREM BridgeKeepsService ==
    BridgeSpec => /\ []CoherentCache
                  /\ []OutstandingHasOwner
                  /\ []MediaKnownOnlyInSession
                  /\ OnlyTheActiveWriteExecutes
<1> QED
  BY BridgeIsUse, CacheIsCoherent, OwnersAreUnique, MediaIsOfTheSession, OnlyActiveWrites, PTL
-----------------------------------------------------------------------------
\* The bridge and what is under it as a block store: the late writes are the lines
\* the host may still execute and the operation that may still send one.
LEMMA OpenWritesAre ==
    \A w : w \in OpenWrites <=>
        \/ \E m \in Sent : /\ m.kind = "WRITE_BLOCKS" /\ m.session = host.session
                           /\ w = <<m.op.lba, m.op.data>>
        \/ /\ operation # NoOperation /\ operation.type = "Write"
           /\ w = <<operation.lba, operation.data>>
BY DEF OpenWrites, Sent, Lines

LEMMA OpenWritesBecome ==
    \A w : w \in OpenWrites' <=>
        \/ \E m \in Sent' : /\ m.kind = "WRITE_BLOCKS" /\ m.session = host'.session
                            /\ w = <<m.op.lba, m.op.data>>
        \/ /\ operation' # NoOperation /\ operation'.type = "Write"
           /\ w = <<operation'.lba, operation'.data>>
BY DEF OpenWrites, Sent, Lines

LEMMA StandsWithoutWrites ==
    ASSUME NEW lba, NoWriteOf(lba)
    PROVE  Store!Stands(lba)
BY OpenWritesAre DEF Store!Stands, NoWriteOf

LEMMA OpenWritesStand ==
    ASSUME UNCHANGED <<operation, tx, toHost, host>>
    PROVE  OpenWrites' = OpenWrites
BY DEF OpenWrites

\* A step of service, link or host is one of the background.
LEMMA ServiceIsBackground ==
    ASSUME LinkInv, ServiceStep \/ HostLeaves, UNCHANGED call
    PROVE  Store!Background
<1>1. OpenWrites' \in SUBSET OpenWrites
  <2>1. NoWriteBegins
    BY ServiceMoves
  <2> QED
    BY <2>1, OpenWritesAre, OpenWritesBecome DEF NoWriteBegins
<1>2. image' = image \/ \E w \in OpenWrites : image' = [image EXCEPT ![w[1]] = w[2]]
  <2> SUFFICES ASSUME image' # image
               PROVE  \E w \in OpenWrites : image' = [image EXCEPT ![w[1]] = w[2]]
    OBVIOUS
  <2>1. PICK m \in Sent : /\ m.kind = "WRITE_BLOCKS" /\ m.session = host.session
                          /\ image' = [image EXCEPT ![m.op.lba] = m.op.data]
    BY ImageMoves DEF UseNext
  <2> DEFINE w == <<m.op.lba, m.op.data>>
  <2>2. w \in OpenWrites
    BY <2>1, OpenWritesAre
  <2>3. image' = [image EXCEPT ![w[1]] = w[2]]
    BY <2>1
  <2> QED
    BY <2>2, <2>3
<1>3. MediaReady' \in BOOLEAN
  BY DEF MediaReady
<1> QED
  BY <1>1, <1>2, <1>3 DEF Store!Background, Store!Settles

\* A request that is begun finds no operation retained, and the link free when it
\* is sent.
LEMMA RequestBegins ==
    ASSUME LinkInv, NEW p, NEW type, NEW lba, NEW g, NEW op,
           BeginTransfer(p, type, lba, g, op), CanSend \/ ~CanRequest(client)
    PROVE  /\ operation = NoOperation
           /\ \/ operation' = NoOperation /\ state' # "AwaitingResponse"
              \/ operation' = op /\ state' = "AwaitingResponse" /\ tx = NoLine
<1> USE DEF LinkInv, ServiceInv
<1>1. state = "Idle" /\ Issue(op)
  BY TransferBegins
<1>2. operation = NoOperation
  BY <1>1 DEF BackendInv, Inductive, OperationRetained, InFlightStates, ParkedStates
<1> QED
  BY <1>1, <1>2, IssueMoves DEF CanSend

LEMMA ReadBeginsNoWrite ==
    ASSUME LinkInv, NEW lba \in Lbas, BeginCdcRead(lba), UNCHANGED <<toHost, host>>
    PROVE  OpenWrites' = OpenWrites
<1>1. CASE UndoBegin /\ UNCHANGED tx
  <2>1. operation' = NoOperation /\ operation = NoOperation
    BY <1>1, UndoMoves DEF LinkInv, ServiceInv, BackendInv, Inductive, OperationRetained,
       InFlightStates, ParkedStates
  <2> QED
    BY <1>1, <2>1, OpenWritesStand
<1>2. CASE ~(UndoBegin /\ UNCHANGED tx)
  <2>1. /\ BeginTransfer(pool, "Read", lba, Generation, ReadOperation(lba))
        /\ CanSend \/ ~CanRequest(client)
        /\ tx' = IF state' = "AwaitingResponse" THEN Line("READ_BLOCKS", operation') ELSE tx
    BY <1>2 DEF BeginCdcRead, RequestRead
  <2>2. /\ operation = NoOperation
        /\ \/ operation' = NoOperation /\ tx' = tx
           \/ /\ operation' = ReadOperation(lba) /\ tx = NoLine
              /\ tx' = Line("READ_BLOCKS", operation')
    BY <2>1, RequestBegins
  <2>3. CASE operation' = NoOperation /\ tx' = tx
    BY <2>2, <2>3, OpenWritesStand
  <2>4. CASE operation' = ReadOperation(lba) /\ tx = NoLine /\ tx' = Line("READ_BLOCKS", operation')
    <3>1. operation'.type # "Write" /\ tx'.kind # "WRITE_BLOCKS"
      BY <2>4 DEF ReadOperation, Line
    <3>2. Sent = Lines(toHost) /\ Sent' = Lines(toHost) \cup ({tx'} \ {NoLine})
      BY <2>4 DEF Sent
    <3>3. \A w : w \in OpenWrites' <=> w \in OpenWrites
      BY <2>2, <3>1, <3>2, OpenWritesAre, OpenWritesBecome
    <3> QED
      BY <3>3 DEF OpenWrites
  <2> QED
    BY <2>2, <2>3, <2>4
<1> QED
  BY <1>1, <1>2

\* A write that is begun is late from then on; one that is not leaves nothing.
LEMMA WriteBegins ==
    ASSUME LinkInv, NEW lba \in Lbas, NEW data \in Blocks, BeginCdcWrite(lba, data),
           UNCHANGED <<toHost, host>>
    PROVE  \/ OpenWrites' = OpenWrites
           \/ transfer' # NoTransfer /\ OpenWrites' = OpenWrites \cup {<<lba, data>>}
<1>1. CASE UndoBegin /\ UNCHANGED tx
  <2>1. operation' = NoOperation /\ operation = NoOperation
    BY <1>1, UndoMoves DEF LinkInv, ServiceInv, BackendInv, Inductive, OperationRetained,
       InFlightStates, ParkedStates
  <2> QED
    BY <1>1, <2>1, OpenWritesStand
<1>2. CASE ~(UndoBegin /\ UNCHANGED tx)
  <2>1. /\ BeginTransfer(DroppingCopies(pool, lba, Generation), "Write", lba, Generation,
                         WriteOperation(lba, data))
        /\ CanSend \/ ~CanRequest(client)
        /\ tx' = IF state' = "AwaitingResponse" THEN Line("WRITE_BLOCKS", operation') ELSE tx
    BY <1>2 DEF BeginCdcWrite, BeginWrite
  <2>2. /\ operation = NoOperation
        /\ \/ operation' = NoOperation /\ tx' = tx
           \/ /\ operation' = WriteOperation(lba, data) /\ tx = NoLine
              /\ state' = "AwaitingResponse" /\ tx' = Line("WRITE_BLOCKS", operation')
    BY <2>1, RequestBegins
  <2>3. CASE operation' = NoOperation /\ tx' = tx
    BY <2>2, <2>3, OpenWritesStand
  <2>4. CASE /\ operation' = WriteOperation(lba, data) /\ tx = NoLine
             /\ state' = "AwaitingResponse" /\ tx' = Line("WRITE_BLOCKS", operation')
    <3>1. operation'.type = "Write" /\ operation'.lba = lba /\ operation'.data = data
          /\ operation' # NoOperation
      BY <2>4, CoordinatorAssumption, BackendAssumption DEF WriteOperation, BackendOperations
    <3>2. tx'.op = operation'
      BY <2>4 DEF Line
    <3>3. Sent = Lines(toHost) /\ Sent' = Lines(toHost) \cup ({tx'} \ {NoLine})
      BY <2>4 DEF Sent
    <3>4. \A w : w \in OpenWrites' <=> w \in OpenWrites \cup {<<lba, data>>}
      BY <2>2, <3>1, <3>2, <3>3, OpenWritesAre, OpenWritesBecome
    <3>5. OpenWrites' = OpenWrites \cup {<<lba, data>>}
      BY <3>4 DEF OpenWrites
    <3>6. transfer' # NoTransfer
      <4>1. transfer'.type = "Write"
        BY <2>1, <2>4 DEF BeginTransfer
      <4> QED
        BY <4>1 DEF NoTransfer
    <3> QED
      BY <3>5, <3>6
  <2> QED
    BY <2>2, <2>3, <2>4
<1> QED
  BY <1>1, <1>2

\* Every result the bridge gives is one the contract allows.
LEMMA ReadIsStoreRead ==
    ASSUME LinkInv, NEW lba \in Lbas, BridgeRead(lba),
           call = NoCall \/ Store!Repeats("Read", lba),
           UNCHANGED <<toHost, host, image, mediaPresent>>
    PROVE  Store!Read(lba)
<1>1. ASSUME NEW data \in Blocks, NEW result \in {"Pending", "Failed"},
             MediaReady \/ result = "Failed", MediaReady' = MediaReady,
             OpenWrites' = OpenWrites, call' = Answer("Read", lba, data, result)
      PROVE  Store!Read(lba)
  <2>1. Store!StoreRead(lba, result)
    BY <1>1 DEF Store!StoreRead, Store!storeVars
  <2>2. Store!Called("Read", lba, data, result)
    BY <1>1 DEF Store!Called, Answer
  <2> QED
    BY <2>1, <2>2 DEF Store!Read
<1>2. CASE IsCached(lba)
  <2>1. /\ Deliver(lba, Generation) /\ UNCHANGED tx
        /\ call' = Answer("Read", lba, Cached(lba), "Complete")
    BY <1>2 DEF BridgeRead
  <2>2. UNCHANGED <<client, operation>>
    BY <2>1 DEF Deliver, vars
  <2>3. OpenWrites' = OpenWrites /\ MediaReady' = MediaReady
    BY <2>1, <2>2, OpenWritesStand DEF MediaReady
  <2>4. Store!StoreRead(lba, "Complete")
    BY <1>2, <2>3, CachedIsStored, StandsWithoutWrites DEF Store!StoreRead, Store!storeVars
  <2>5. Store!Called("Read", lba, image[lba], "Complete")
    BY <1>2, <2>1, <2>3, CachedIsStored DEF Store!Called, Answer, IsCached
  <2> QED
    BY <2>4, <2>5 DEF Store!Read
<1>3. CASE ~IsCached(lba) /\ ~CanBegin
  <2>1. NothingSent /\ call' = Answer("Read", lba, Blank, "Failed")
    BY <1>3 DEF BridgeRead
  <2>2. UNCHANGED <<client, operation, tx>>
    BY <2>1 DEF NothingSent, allVars, vars
  <2>3. OpenWrites' = OpenWrites /\ MediaReady' = MediaReady
    BY <2>2, OpenWritesStand DEF MediaReady
  <2> QED
    BY <1>1, <2>1, <2>3, PoolAssumption
<1>4. CASE ~IsCached(lba) /\ CanBegin
  <2>1. BeginCdcRead(lba) /\ UNCHANGED pendingWrite /\ call' = Answer("Read", lba, Blank, BeginResult)
    BY <1>4 DEF BridgeRead
  <2>2. OpenWrites' = OpenWrites
    BY <2>1, ReadBeginsNoWrite
  <2>3. MediaReady' = MediaReady /\ MediaReady
    BY <1>4, <2>1, CallKeepsSession DEF BeginCall, MediaReady, CanBegin
  <2>4. BeginResult \in {"Pending", "Failed"}
    BY DEF BeginResult
  <2> QED
    BY <1>1, <2>1, <2>2, <2>3, <2>4, PoolAssumption
<1> QED
  BY <1>2, <1>3, <1>4

LEMMA WriteIsStoreWrite ==
    ASSUME LinkInv, PendingWriteIsCurrent, NEW lba \in Lbas, NEW data \in Blocks,
           BridgeWrite(lba, data),
           call = NoCall \/ (Store!Repeats("Write", lba) /\ call.data = data),
           UNCHANGED <<toHost, host, image, mediaPresent>>
    PROVE  Store!Write(lba, data)
<1>1. ASSUME NEW result \in {"Complete", "Pending", "Failed"},
             Store!StoreWrite(lba, data, result),
             MediaReady \/ result = "Failed", MediaReady' = MediaReady,
             call' = Answer("Write", lba, data, result)
      PROVE  Store!Write(lba, data)
  BY <1>1 DEF Store!Write, Store!Called, Answer
<1>2. ASSUME NothingSent
      PROVE  OpenWrites' = OpenWrites /\ MediaReady' = MediaReady
  <2>1. UNCHANGED <<client, operation, tx>>
    BY <1>2 DEF NothingSent, allVars, vars
  <2> QED
    BY <2>1, OpenWritesStand DEF MediaReady
<1>3. CASE NothingSent /\ call' = Answer("Write", lba, data, "Failed")
  BY <1>1, <1>2, <1>3 DEF Store!StoreWrite, Store!storeVars
<1>4. CASE CanBegin /\ FirstWrite(lba, data)
  <2>1. /\ pendingWrite = NoWrite /\ BeginCdcWrite(lba, data)
        /\ pendingWrite' = IF transfer' # NoTransfer THEN <<lba, data>> ELSE NoWrite
        /\ call' = Answer("Write", lba, data, BeginResult)
    BY <1>4 DEF FirstWrite
  <2>2. \/ OpenWrites' = OpenWrites
        \/ transfer' # NoTransfer /\ OpenWrites' = OpenWrites \cup {<<lba, data>>}
    BY <2>1, WriteBegins
  <2>3. MediaReady' = MediaReady /\ MediaReady
    BY <1>4, <2>1, CallKeepsSession DEF BeginCall, MediaReady, CanBegin
  <2>4. Store!StoreWrite(lba, data, BeginResult) /\ BeginResult \in {"Pending", "Failed"}
    BY <2>2 DEF BeginResult, Store!StoreWrite, Store!storeVars
  <2> QED
    BY <1>1, <2>1, <2>3, <2>4
<1>5. CASE RepeatedWrite(lba, data)
  <2>1. pendingWrite = <<lba, data>> /\ pendingWrite # NoWrite /\ MediaReady
    BY <1>5, BridgeAssumption DEF RepeatedWrite, PendingWriteIsCurrent
  <2>2. OpenWrites' = OpenWrites /\ MediaReady' = MediaReady
    <3>1. CASE Deliver(lba, Generation) /\ UNCHANGED tx
      BY <3>1, OpenWritesStand DEF Deliver, vars, MediaReady
    <3> QED
      BY <1>2, <1>5, <3>1 DEF RepeatedWrite
  <2>3. CASE Acknowledged(lba, data) /\ call' = Answer("Write", lba, data, "Complete")
    <3>1. image[lba] = data /\ NoWriteOf(lba)
      BY <2>3, CachedIsStored DEF Acknowledged
    <3>2. OpenWrites = {w \in OpenWrites : w[1] # lba}
      BY <3>1, StandsWithoutWrites DEF Store!Stands
    <3>3. image = [image EXCEPT ![lba] = data]
      BY <3>1 DEF LinkInv, ServiceInv, LinkTyped
    <3>4. Store!StoreWrite(lba, data, "Complete")
      BY <2>2, <3>2, <3>3 DEF Store!StoreWrite
    <3> QED
      BY <1>1, <2>1, <2>2, <2>3, <3>4
  <2>4. CASE call' = Answer("Write", lba, data, "Pending")
    <3>1. Store!StoreWrite(lba, data, "Pending")
      BY <2>2 DEF Store!StoreWrite
    <3> QED
      BY <1>1, <2>1, <2>2, <2>4, <3>1
  <2> QED
    BY <1>5, <2>3, <2>4 DEF RepeatedWrite
<1> QED
  BY <1>3, <1>4, <1>5 DEF BridgeWrite, FirstWrite, OtherWrite

LEMMA BridgeStepIsStoreStep ==
    ASSUME BridgeInv, [BridgeNext]_bridgeVars
    PROVE  [Store!Next]_Store!contractVars
<1> USE DEF BridgeInv
<1>1. CASE (ServiceStep \/ HostLeaves) /\ Refreshed /\ UNCHANGED call
  BY <1>1, ServiceIsBackground DEF Store!Next
<1>2. CASE SdOperation \/ SdRetry
  <2>1. InTargetPoll
    BY <1>2, OperationIsCall
  <2>2. UNCHANGED <<toHost, host, image, mediaPresent>>
    BY <2>1 DEF InTargetPoll, hostVars, flags
  <2>3. \E lba \in Lbas :
           \/ BridgeRead(lba) /\ (call = NoCall \/ Store!Repeats("Read", lba))
           \/ \E data \in Blocks :
                 /\ BridgeWrite(lba, data)
                 /\ call = NoCall \/ (Store!Repeats("Write", lba) /\ call.data = data)
    <3>1. CASE SdOperation
      BY <3>1 DEF SdOperation
    <3>2. CASE SdRetry
      <4>1. call # NoCall
        BY <3>2 DEF SdRetry, NoCall
      <4>2. call.lba \in Lbas /\ call.data \in Blocks
        BY <4>1 DEF BridgeTypes, Calls
      <4> QED
        BY <3>2, <4>2 DEF SdRetry, Store!Repeats
    <3> QED
      BY <1>2, <3>1, <3>2
  <2> QED
    BY <2>2, <2>3, ReadIsStoreRead, WriteIsStoreWrite DEF Store!Next
<1>3. CASE SdRelease
  <2>1. UNCHANGED <<client, operation, tx, toHost, host, image, mediaPresent>> /\ call' = NoCall
    BY <1>3 DEF SdRelease, InTargetPoll, allVars, vars, hostVars, flags
  <2>2. OpenWrites' = OpenWrites /\ MediaReady' = MediaReady
    BY <2>1, OpenWritesStand DEF MediaReady
  <2> QED
    BY <2>1, <2>2 DEF Store!Next, Store!Release, Store!storeVars
<1>4. CASE UNCHANGED bridgeVars
  <2>1. UNCHANGED <<client, operation, tx, toHost, host, image, mediaPresent, call>>
    BY <1>4 DEF bridgeVars, serviceVars, allVars, vars, hostVars, flags
  <2>2. OpenWrites' = OpenWrites /\ MediaReady' = MediaReady
    BY <2>1, OpenWritesStand DEF MediaReady
  <2> QED
    BY <2>1, <2>2 DEF Store!contractVars, Store!storeVars
<1> QED
  BY <1>1, <1>2, <1>3, <1>4 DEF BridgeNext

LEMMA InitIsStoreInit == BridgeInit => Store!Init
<1> SUFFICES ASSUME BridgeInit PROVE Store!Init
  OBVIOUS
<1>1. /\ operation = NoOperation /\ tx = NoLine /\ toHost = <<>>
      /\ image \in [Lbas -> Blocks] /\ call = NoCall
  BY DEF BridgeInit, ServiceInit, BackendInit, Init
<1>2. OpenWrites = {}
  BY <1>1, NoLines, OpenWritesAre DEF Sent
<1>3. MediaReady \in BOOLEAN
  BY DEF MediaReady
<1> QED
  BY <1>1, <1>2, <1>3 DEF Store!Init

\* Bridge, service, link, host and image file implement the BlockBackend contract:
\* every step of them is a call the contract allows with the result it gave, or
\* the background of a medium that settles.
THEOREM BridgeImplementsStore == BridgeSpec => ImplementsStore
<1> QED
  BY BridgeInvariant, InitIsStoreInit, BridgeStepIsStoreStep, PTL
     DEF BridgeSpec, ImplementsStore, Store!Spec
=============================================================================
