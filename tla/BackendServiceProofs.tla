------------------------- MODULE BackendServiceProofs -------------------------
(***************************************************************************)
(* Proofs about BackendService for every value of its constants: firmware  *)
(* service, link and host under any calls of the SD side the service       *)
(* allows, with hosts that exit, start and are replaced, and lines lost.   *)
(*                                                                         *)
(* The backend in the service makes steps of WriteThroughBackend, so its   *)
(* invariant holds.  What is added relates it to the lines under way, the  *)
(* sessions and ids they carry, and the image.                             *)
(***************************************************************************)
EXTENDS BackendService, WriteThroughBackendProofs

USE SessionAssumption, BackendAssumption, ServiceAssumption

\* One poll of the SD side: nothing, or a call it may make with the medium ready.
TargetPoll ==
    /\ stage \in {"service", "target"} /\ stage' = "target"
    /\ UNCHANGED <<connected, flags, toHost, toDevice, hostVars, timeouts>>
    /\ \/ UNCHANGED <<allVars, tx>>
       \/ /\ MediaReady
          /\ \E lba \in Lbas :
                \/ Deliver(lba, Generation) /\ UNCHANGED tx
                \/ BeginCdcRead(lba)
                \/ \E data \in Blocks : BeginCdcWrite(lba, data)

\* The clock, which the runs leave saturated, may also move.
ClockTicks ==
    /\ Tick
    /\ UNCHANGED <<backendVars, connected, flags, stage, tx, toHost, toDevice, hostVars, timeouts>>

UseNext == ServiceStep \/ HostLeaves \/ TargetPoll \/ ClockTicks
ServiceUse == ServiceInit /\ [][UseNext]_serviceVars

\* The lines the firmware sends: HELLO with the first id, outside a session, and
\* requests with later ids, within one.
SectorReads == {ReadOperation(lba) : lba \in Lbas}
SectorWrites == {WriteOperation(lba, data) : lba \in Lbas, data \in Blocks}
LaterIds == Ids \ {1}
RequestLines ==
    [kind : {"HELLO"}, id : {1}, session : {NoSession}, op : {NoOperation}]
      \cup [kind : {"GET_INFO"}, id : LaterIds, session : Sessions, op : {NoOperation}]
      \cup [kind : {"READ_BLOCKS"}, id : LaterIds, session : Sessions, op : SectorReads]
      \cup [kind : {"WRITE_BLOCKS"}, id : LaterIds, session : Sessions, op : SectorWrites]
      \cup {Noise}

\* The lines the host answers.
BlockBodies == {BlockBody(lba, data) : lba \in Lbas, data \in Blocks}
AnswerBodies == {NoBody, InfoBody(TRUE, Generation)} \cup BlockBodies
Answers ==
    [kind : {"OK"}, id : Ids, session : Sessions, version : {TRUE}, body : AnswerBodies]
      \cup [kind : {"ERR"}, id : Ids \cup {0}, code : RemoteErrors]

LinkTyped ==
    /\ tx \in RequestLines \cup {NoLine}
    /\ toHost \in Seq(RequestLines)
    /\ toDevice \in Seq(Answers)
    /\ host \in [established : BOOLEAN, lastId : 0 .. MaxId, session : Nat]
    /\ connected => host.session \in Sessions
    /\ host.established => host.lastId # 0
    /\ image \in [Lbas -> Blocks]

\* A client without a session has sent nothing or its HELLO.
ClientShape ==
    IF client.negotiated
      THEN /\ client.session \in Sessions
           /\ ~client.pendingHandshake
           /\ client.nextId # 1 /\ client.pendingId # 1
      ELSE /\ client.session = NoSession
           /\ client = FreshClient \/ (client.pendingHandshake /\ client.pendingId = 1)

\* The flags of the service follow the client.
FlagsFollow ==
    /\ OutstandingHasOwner
    /\ MediaKnownOnlyInSession
    /\ infoPending => ~infoKnown /\ client.negotiated
    /\ ~wasConnected => ~client.negotiated /\ ~handshakePending /\ ~infoPending

ServiceInv == BackendInv /\ LinkTyped /\ ClientShape /\ FlagsFollow

-----------------------------------------------------------------------------
\* What the host answers is a response the backend can be given.
LEMMA AnswerIsResponse ==
    ASSUME NEW r \in Answers, r.kind = "OK" \/ r.id # 0
    PROVE  r \in BackendResponses
<1>1. \A body \in AnswerBodies : body \in Bodies
  <2> SUFFICES ASSUME NEW body \in AnswerBodies PROVE body \in Bodies
    OBVIOUS
  <2>1. CASE body = InfoBody(TRUE, Generation)
    <3>1. \E present \in BOOLEAN : \E g \in Generations : body = InfoBody(present, g)
      BY <2>1, Zenon
    <3>2. \A present \in BOOLEAN : \A g \in Generations : InfoBody(present, g) \in Bodies
      BY DEF Bodies
    <3> QED
      BY <3>1, <3>2, Zenon
  <2>2. CASE body # InfoBody(TRUE, Generation)
    BY <2>2 DEF AnswerBodies, BlockBodies, Bodies, InfoBody, NoBody, BlockBody
  <2> QED
    BY <2>1, <2>2
<1>2. CASE r.kind = "OK"
  <2>1. r \in [kind : {"OK"}, id : Ids, session : Sessions, version : {TRUE}, body : AnswerBodies]
    BY <1>2 DEF Answers
  <2> QED
    BY <1>1, <2>1 DEF BackendResponses
<1>3. CASE r.kind # "OK"
  <2>1. r \in [kind : {"ERR"}, id : Ids \cup {0}, code : RemoteErrors]
    BY <1>3 DEF Answers
  <2>2. r = [kind |-> "ERR", id |-> r.id, code |-> r.code] /\ r.id \in Ids
        /\ r.code \in RemoteErrors
    BY <1>3, <2>1
  <2> DEFINE Codes == RemoteErrors \cup {""}
  <2>3. r.code \in Codes /\ ErrResponses = [kind : {"ERR"}, id : Ids, code : Codes]
    BY <2>2, Zenon DEF ErrResponses
  <2> HIDE DEF Codes
  <2>4. r \in ErrResponses
    BY <2>2, <2>3
  <2> QED
    BY <2>4, Zenon DEF BackendResponses
<1> QED
  BY <1>2, <1>3

LEMMA SuccessIsResponse ==
    ASSUME NEW r \in Answers, NEW c, IsSuccess(c, r)
    PROVE  r \in BackendResponses /\ r.kind = "OK"
BY AnswerIsResponse DEF IsSuccess

\* The answer to a line without an id is ignored, or finds a failed retry.
LEMMA TransferAnswer ==
    ASSUME NEW r \in Answers, AcceptTransferResponse(r)
    PROVE  BackendNext
<1>1. CASE r.kind = "OK" \/ r.id # 0
  BY <1>1, AnswerIsResponse DEF BackendNext
<1>2. CASE ~(r.kind = "OK" \/ r.id # 0)
  <2>1. r.kind = "ERR" /\ r.id = 0
    BY <1>2 DEF Answers
  <2>2. ~AcceptSuccess(r) /\ ~AcceptError(r)
    BY <2>1 DEF AcceptSuccess, AcceptError, IsSuccess, IsRemoteError, Correlated, RequestPending
  <2> QED
    BY <2>2 DEF AcceptTransferResponse, BackendExpire, BackendNext
<1> QED
  BY <1>1, <1>2

LEMMA HeadAndTail ==
    ASSUME LinkTyped
    PROVE  /\ toHost # <<>> => Head(toHost) \in RequestLines /\ Tail(toHost) \in Seq(RequestLines)
           /\ toDevice # <<>> => Head(toDevice) \in Answers /\ Tail(toDevice) \in Seq(Answers)
BY DEF LinkTyped

-----------------------------------------------------------------------------
\* Whatever the service does, the backend inside it makes a step of its own, none,
\* or undoes a request that found the transmit buffer full.
LEMMA BackendWithin ==
    ASSUME LinkTyped, [UseNext]_serviceVars
    PROVE  [BackendNext]_allVars \/ UndoBegin
<1>1. CASE HostStarts \/ HostLeaves \/ Dispatch \/ DevicePoll
  BY <1>1 DEF HostStarts, HostLeaves, HostExits, HostReplaced, Dispatch, DevicePoll
<1>2. CASE ShellPoll
  <2>1. PICK r \in Answers : OnHandshakeResponse(r) \/ OnInfoResponse(r)
                               \/ OnTransferResponse(r) \/ OnStrayLine
    BY <1>2, HeadAndTail DEF ShellPoll
  <2>2. CASE OnHandshakeResponse(r)
    BY <2>2, SuccessIsResponse DEF OnHandshakeResponse, BackendNext
  <2>3. CASE OnInfoResponse(r)
    BY <2>3, SuccessIsResponse DEF OnInfoResponse, BackendNext
  <2>4. CASE OnTransferResponse(r)
    BY <2>4, TransferAnswer DEF OnTransferResponse
  <2>5. CASE OnStrayLine
    BY <2>5 DEF OnStrayLine
  <2> QED
    BY <2>1, <2>2, <2>3, <2>4, <2>5
<1>3. CASE ServicePoll
  BY <1>3 DEF ServicePoll, HostLost, SendHello, SendGetInfo, SessionTimeout, PollExpire,
     PollRetry, PollIdle, BackendNext
<1>4. CASE TargetPoll
  <2>1. ASSUME NEW lba \in Lbas, BeginCdcRead(lba) PROVE BackendNext \/ UndoBegin
    BY <2>1 DEF BeginCdcRead, BeginRead, BackendNext
  <2>2. ASSUME NEW lba \in Lbas, NEW data \in Blocks, BeginCdcWrite(lba, data)
        PROVE  BackendNext \/ UndoBegin
    BY <2>2 DEF BeginCdcWrite, BackendNext
  <2>3. ASSUME NEW lba \in Lbas, Deliver(lba, Generation) PROVE BackendNext
    BY <2>3 DEF BackendNext
  <2> QED
    BY <1>4, <2>1, <2>2, <2>3 DEF TargetPoll
<1>5. CASE ClockTicks
  BY <1>5 DEF ClockTicks, BackendNext
<1>6. CASE UNCHANGED serviceVars
  BY <1>6 DEF serviceVars
<1> QED
  BY <1>1, <1>2, <1>3, <1>4, <1>5, <1>6 DEF UseNext, ServiceStep

LEMMA UndoKeeps == BackendInv /\ UndoBegin => BackendInv'
<1> SUFFICES ASSUME BackendInv, UndoBegin PROVE BackendInv'
  OBVIOUS
<1>1. /\ CanRequest(client) /\ Forgotten /\ media' = NoGeneration
      /\ CancelWith(CancelPending(ReserveRequest(client, FALSE)))
  BY DEF UndoBegin
<1>2. client' \in Client /\ client'.pendingId = 0
  <2>1. ReserveRequest(client, FALSE) \in Client
    BY <1>1, ClientType DEF BackendInv, Inductive, TypeOK
  <2>2. CancelPending(ReserveRequest(client, FALSE)) \in Client
    BY <2>1, ClientType
  <2> QED
    BY <1>1, <2>2 DEF CancelWith, CancelPending
<1>3. TypeOK'
  BY <1>1, <1>2, RetryShapes DEF CancelWith, BackendInv, Inductive, TypeOK, States
<1>4. Inductive'
  BY <1>1, <1>2, <1>3 DEF CancelWith, Inductive, AwaitingIsGuarded, BackoffIsScheduled,
     OperationRetained, PendingIsNewest, RequestPending, DeadlineCleared, RetryCleared,
     InFlightStates, ParkedStates
<1>5. PoolInv' /\ TransferMatchesOperation'
  BY <1>1, ForgottenKeeps, NothingToMatch DEF Forgotten, CancelWith
<1> QED
  BY <1>4, <1>5 DEF BackendInv

LEMMA BackendInvStands ==
    ASSUME BackendInv, LinkTyped, [UseNext]_serviceVars
    PROVE  BackendInv'
BY BackendWithin, UndoKeeps, NextBackendInv


-----------------------------------------------------------------------------
\* What the calls of the backend do to client and operation.
LEMMA DisconnectResets ==
    ASSUME BackendDisconnect
    PROVE  /\ client' = FreshClient /\ state' = "Idle" /\ operation' = NoOperation
           /\ pool' = EmptyPool /\ transfer' = NoTransfer /\ media' = NoGeneration
BY DEF BackendDisconnect, Disconnect, Parks, Forgotten, Reset

LEMMA IssueMoves ==
    ASSUME NEW op, Issue(op)
    PROVE  \/ /\ state' = "AwaitingResponse" /\ operation' = op
              /\ CanRequest(client) /\ client' = ReserveRequest(client, FALSE)
           \/ /\ state' = "Failed" /\ operation' = NoOperation
              /\ \/ client' = client
                 \/ /\ CanRequest(client)
                    /\ client' = CancelPending(ReserveRequest(client, FALSE))
BY DEF Issue

\* A request that is begun takes a later id of the session.
LEMMA ReserveMoves ==
    ASSUME BackendInv, ClientShape, CanRequest(client)
    PROVE  /\ ReserveRequest(client, FALSE).pendingId = client.nextId
           /\ ReserveRequest(client, FALSE).session = client.session
           /\ client.nextId \in LaterIds /\ client.session \in Sessions
           /\ ReserveRequest(client, FALSE).negotiated
           /\ ~ReserveRequest(client, FALSE).pendingHandshake
           /\ ReserveRequest(client, FALSE).nextId = NextId(client.nextId)
<1>1. client.nextId \in 0 .. MaxId /\ client.nextId # 0 /\ client.negotiated
  BY DEF BackendInv, Inductive, TypeOK, Client, CanRequest
<1> QED
  BY <1>1 DEF ReserveRequest, ClientShape, LaterIds, Ids

LEMMA HelloMoves ==
    ASSUME ClientShape, BackendBeginHandshake
    PROVE  /\ client = FreshClient
           /\ client' = ReserveRequest(client, TRUE)
           /\ client'.pendingId = 1 /\ client'.session = NoSession
           /\ ~client'.negotiated /\ client'.pendingHandshake = TRUE
           /\ UNCHANGED <<now, state, operation, deadline, retry, pool, transfer, media>>
<1>1. client = FreshClient /\ client' = ReserveRequest(client, TRUE)
  BY DEF BackendBeginHandshake, BeginHandshake, CanHandshake, ClientShape, RequestPending
<1> QED
  BY <1>1 DEF BackendBeginHandshake, BeginHandshake, backendVars, ReserveRequest, FreshClient

LEMMA InfoMoves ==
    ASSUME BackendBeginGetInfo
    PROVE  /\ CanRequest(client) /\ client' = ReserveRequest(client, FALSE)
           /\ state = "Idle" /\ transfer = NoTransfer
           /\ UNCHANGED <<now, state, operation, deadline, retry, pool, transfer, media>>
BY DEF BackendBeginGetInfo, BeginGetInfo, ReadyForTransfer, backendVars

\* A greeting that is accepted opens its session.
LEMMA GreetingMoves ==
    ASSUME LinkTyped, ClientShape, NEW r \in Answers, IsSuccess(client, r),
           BackendAcceptHandshake(r)
    PROVE  /\ r.kind = "OK" /\ r.id = 1 /\ r.session \in Sessions
           /\ client.pendingHandshake /\ ~client.negotiated
           /\ client' = Establish(client, r.session)
           /\ state # "AwaitingResponse"
           /\ UNCHANGED <<now, state, operation, deadline, retry, pool, transfer, media>>
<1>1. /\ client.pendingHandshake /\ AcceptDirect(r) /\ UNCHANGED backendVars
  BY DEF BackendAcceptHandshake
<1>2. r.kind = "OK" /\ r.id = client.pendingId /\ client.pendingId # 0
  BY DEF IsSuccess, Correlated, RequestPending
<1>3. client.pendingId = 1 /\ ~client.negotiated
  BY <1>1, <1>2 DEF ClientShape, FreshClient
<1>4. client' = Establish(client, r.session)
  BY <1>1 DEF AcceptDirect, Accept
<1> QED
  BY <1>1, <1>2, <1>3, <1>4 DEF Answers, AcceptDirect, backendVars

\* The answer to a transfer ends its request, or changes nothing but the pool.
LEMMA TransferMoves ==
    ASSUME BackendInv, NEW r, AcceptTransferResponse(r)
    PROVE  /\ transfer # NoTransfer /\ transfer' \in {transfer, NoTransfer}
           /\ \/ /\ state = "AwaitingResponse" /\ IsSuccess(client, r)
                 /\ client' = CancelPending(client)
                 /\ state' = "Idle" /\ operation' = NoOperation
                 /\ ValidForTransfer(r) /\ FinishTransfer(r)
              \/ /\ state = "AwaitingResponse"
                 /\ client' = CancelPending(client)
                 /\ state' \notin {"Idle", "AwaitingResponse"}
                 /\ operation' \in {operation, NoOperation}
                 /\ pool' = pool \/ pool' = Release(pool, {transfer.handle})
              \/ /\ UNCHANGED vars
                 /\ pool' = pool \/ pool' = Release(pool, {transfer.handle})
<1> USE DEF BackendInv
<1>1. /\ transfer # NoTransfer /\ ValidForTransfer(r)
      /\ \/ AcceptSuccess(r) /\ FinishTransfer(r)
         \/ (AcceptError(r) \/ RetryFailed) /\ AbandonIfFailed
  BY DEF AcceptTransferResponse
<1>2. state = "AwaitingResponse" => ~client.pendingHandshake
  BY DEF Inductive, AwaitingIsGuarded
<1>3. CASE AcceptSuccess(r) /\ FinishTransfer(r)
  <2>1. client' = CancelPending(client)
    BY <1>2, <1>3 DEF AcceptSuccess, Accept
  <2> QED
    BY <1>1, <1>3, <2>1 DEF AcceptSuccess, FinishTransfer
<1>4. CASE AcceptError(r) /\ AbandonIfFailed
  <2>1. state = "AwaitingResponse" /\ IsRemoteError(client, r) /\ client' = Accept(client, r)
        /\ RouteFailure(RetryAdvice(r.code))
    BY <1>4 DEF AcceptError
  <2>2. client' = CancelPending(client)
    BY <1>2, <2>1 DEF Accept
  <2>3. /\ state' \notin {"Idle", "AwaitingResponse"}
        /\ operation' \in {operation, NoOperation}
    BY <2>1 DEF RouteFailure, ParkedStates
  <2> QED
    BY <1>1, <1>4, <2>1, <2>2, <2>3 DEF AbandonIfFailed, Abandon
<1>5. CASE RetryFailed /\ AbandonIfFailed
  BY <1>1, <1>5 DEF RetryFailed, AbandonIfFailed, Abandon
<1> QED
  BY <1>1, <1>3, <1>4, <1>5

LEMMA ExpiryMoves ==
    ASSUME BackendInv, BackendExpire
    PROVE  /\ transfer' \in {transfer, NoTransfer}
           /\ pool' = pool \/ pool' = Release(pool, {transfer.handle})
           /\ \/ /\ state = "AwaitingResponse"
                 /\ client' = CancelPending(client)
                 /\ state' \notin {"Idle", "AwaitingResponse"}
                 /\ operation' \in {operation, NoOperation}
              \/ UNCHANGED vars
<1> USE DEF BackendInv
<1>1. AbandonIfFailed
  BY DEF BackendExpire
<1>2. CASE ExpireIfDue
  <2>1. /\ state = "AwaitingResponse" /\ client' = CancelPending(client)
        /\ RouteFailure("RetrySameSession")
    BY <1>2 DEF ExpireIfDue, Inductive, AwaitingIsGuarded
  <2> QED
    BY <1>1, <2>1 DEF RouteFailure, ParkedStates, AbandonIfFailed, Abandon
<1>3. CASE RetryFailed
  BY <1>1, <1>3 DEF RetryFailed, AbandonIfFailed, Abandon
<1> QED
  BY <1>2, <1>3 DEF BackendExpire

LEMMA RetryMoves ==
    ASSUME BackendInv, BackendIssueRetry
    PROVE  /\ Issue(operation) /\ UNCHANGED <<pool, transfer, media>>
           /\ state \in {"WaitingRetry", "RetryReady"}
           /\ client.negotiated /\ ~RequestPending(client)
           /\ operation \in BackendOperations /\ operation # NoOperation
           /\ transfer # NoTransfer
<1>1. Issue(operation) /\ state \in {"WaitingRetry", "RetryReady"}
      /\ UNCHANGED <<pool, transfer, media>>
  BY DEF BackendIssueRetry, IssueRetry, backendVars
<1>2. client.negotiated /\ ~RequestPending(client)
  BY <1>1 DEF BackendInv, Inductive, BackoffIsScheduled
<1>3. transfer # NoTransfer /\ operation # NoOperation
  BY <1>1, RequestHasTransfer DEF InFlightStates
<1>4. operation \in BackendOperations
  BY <1>3 DEF BackendInv, Inductive, TypeOK
<1> QED
  BY <1>1, <1>2, <1>3, <1>4

\* A call of the SD side: the request is sent, could not be started, or is undone.
LEMMA TransferBegins ==
    ASSUME NEW p, NEW type, NEW lba, NEW g, NEW op, BeginTransfer(p, type, lba, g, op)
    PROVE  state = "Idle" /\ Issue(op)
BY DEF BeginTransfer, Start, Open

LEMMA UndoMoves ==
    ASSUME UndoBegin
    PROVE  /\ CanRequest(client) /\ state = "Idle"
           /\ client' = CancelPending(ReserveRequest(client, FALSE))
           /\ state' = "Idle" /\ operation' = NoOperation
           /\ pool' = EmptyPool /\ transfer' = NoTransfer
<1>1. CanRequest(client) /\ state = "Idle"
  BY DEF UndoBegin, ReadyForTransfer
<1> QED
  BY <1>1 DEF UndoBegin, CancelWith, Forgotten

-----------------------------------------------------------------------------
\* The client keeps its shape.
LEMMA ClientIsFresh ==
    ASSUME client' = FreshClient PROVE ClientShape'
BY DEF ClientShape, FreshClient

LEMMA ClientIsFreed ==
    ASSUME ClientShape, client.negotiated, client' = CancelPending(client)
    PROVE  ClientShape' /\ client'.negotiated /\ client'.session = client.session
           /\ ~RequestPending(client') /\ ~client'.pendingHandshake
BY DEF ClientShape, CancelPending, RequestPending

LEMMA ClientSpends ==
    ASSUME BackendInv, ClientShape, CanRequest(client),
           client' \in {ReserveRequest(client, FALSE),
                        CancelPending(ReserveRequest(client, FALSE))}
    PROVE  ClientShape' /\ client'.negotiated /\ client'.session = client.session
           /\ ~client'.pendingHandshake
<1>1. client.nextId \in 2 .. MaxId /\ client.negotiated
  BY DEF BackendInv, Inductive, TypeOK, Client, CanRequest, ClientShape
<1>2. NextId(client.nextId) # 1
  BY <1>1 DEF NextId
<1>3. /\ client'.nextId = NextId(client.nextId) /\ client'.negotiated
      /\ client'.session = client.session /\ client'.pendingHandshake = FALSE
      /\ client'.pendingId \in {client.nextId, 0}
  BY <1>1 DEF ReserveRequest, CancelPending
<1> QED
  BY <1>1, <1>2, <1>3 DEF ClientShape

LEMMA ClientGreets ==
    ASSUME ClientShape, client.pendingHandshake, ~client.negotiated, PendingIsNewest,
           RequestPending(client), NEW s \in Sessions, client' = Establish(client, s)
    PROVE  ClientShape'
<1>1. client.nextId # 1
  BY DEF ClientShape, PendingIsNewest, NextId, FreshClient
<1> QED
  BY <1>1 DEF ClientShape, Establish

LEMMA ClientSaysHello ==
    ASSUME ClientShape, BackendBeginHandshake PROVE ClientShape'
BY HelloMoves DEF ClientShape

-----------------------------------------------------------------------------
\* What a step of the firmware leaves of the link's types.
LEMMA LinkStaysTyped ==
    ASSUME LinkTyped, UNCHANGED <<connected, toHost, host, image>>,
           \/ toDevice' = toDevice
           \/ toDevice # <<>> /\ toDevice' = Tail(toDevice),
           tx' \in RequestLines \cup {NoLine}
    PROVE  LinkTyped'
BY HeadAndTail DEF LinkTyped

LEMMA NoiseIsLine == Noise \in RequestLines
BY DEF RequestLines

LEMMA HelloIsLine ==
    ASSUME ClientShape, BackendBeginHandshake PROVE Line("HELLO", NoOperation) \in RequestLines
BY HelloMoves DEF Line, RequestLines

LEMMA RequestIsLine ==
    ASSUME BackendInv, ClientShape, CanRequest(client),
           client' = ReserveRequest(client, FALSE)
    PROVE  /\ Line("GET_INFO", NoOperation) \in RequestLines
           /\ \A op \in SectorReads : Line("READ_BLOCKS", op) \in RequestLines
           /\ \A op \in SectorWrites : Line("WRITE_BLOCKS", op) \in RequestLines
BY ReserveMoves DEF Line, RequestLines

LEMMA OperationKinds ==
    ASSUME NEW op \in BackendOperations
    PROVE  \/ op.type = "Read" /\ op \in SectorReads
           \/ op.type = "Write" /\ op \in SectorWrites
BY DEF BackendOperations, SectorReads, SectorWrites, ReadOperation, WriteOperation

-----------------------------------------------------------------------------
\* Nothing of the client, the flags and the transfer moves.
LEMMA ShapeStands ==
    ASSUME ClientShape, FlagsFollow, UNCHANGED <<allVars, flags>>
    PROVE  ClientShape' /\ FlagsFollow'
BY DEF ClientShape, FlagsFollow, allVars, vars, flags, OutstandingHasOwner, InfoPending,
   MediaKnownOnlyInSession

\* After a reset nothing is outstanding and nothing is known, in the flags as well.
LEMMA ResetFollows ==
    ASSUME BackendDisconnect,
           ~handshakePending', ~infoPending', ~infoKnown', ~mediaPresent'
    PROVE  ClientShape' /\ FlagsFollow'
<1>1. client' = FreshClient /\ state' = "Idle" /\ transfer' = NoTransfer
  BY DisconnectResets
<1>2. ~RequestPending(client') /\ ~client'.negotiated
  BY <1>1 DEF FreshClient, RequestPending
<1> QED
  BY <1>1, <1>2, ClientIsFresh DEF FlagsFollow, OutstandingHasOwner, MediaKnownOnlyInSession,
     InfoPending, RequestPending

\* Within a session with known media nothing but transfers happens.
LEMMA TransferFollows ==
    ASSUME FlagsFollow, ClientShape, infoKnown, UNCHANGED flags,
           client'.negotiated, ~client'.pendingHandshake,
           state' = "Idle" => ~RequestPending(client')
    PROVE  FlagsFollow'
<1>1. ~infoPending /\ ~handshakePending
  BY DEF FlagsFollow, OutstandingHasOwner, MediaKnownOnlyInSession, ClientShape
<1> QED
  BY <1>1 DEF FlagsFollow, OutstandingHasOwner, MediaKnownOnlyInSession, InfoPending,
     RequestPending, flags

-----------------------------------------------------------------------------
\* What the host makes of a request, and what it answers.
LEMMA OutcomeShapes ==
    ASSUME LinkTyped, host.session \in Sessions, NEW m \in RequestLines, m.kind # "NOISE",
           NEW outcome \in Outcomes(m)
    PROVE  /\ outcome.answer \in Answers /\ outcome.image \in [Lbas -> Blocks]
           /\ outcome.answer.id = m.id
           /\ outcome.answer.kind = "OK" => outcome.answer.session = host.session
           /\ m.kind # "WRITE_BLOCKS" => outcome.image = image
           /\ m.kind = "READ_BLOCKS" /\ outcome.answer.kind = "OK" =>
                  outcome.answer.body = BlockBody(m.op.lba, image[m.op.lba])
           /\ m.kind = "WRITE_BLOCKS" =>
                  /\ outcome.image \in {image, [image EXCEPT ![m.op.lba] = m.op.data]}
                  /\ outcome.answer.kind = "OK" =>
                         outcome.image = [image EXCEPT ![m.op.lba] = m.op.data]
<1>1. \A body \in AnswerBodies : Ok(m.id, body) \in Answers
  BY DEF Ok, Answers, RequestLines, LaterIds, Ids, Noise
<1>2. Err(m.id, "IoError") \in Answers
  <2>1. m.id \in Ids \cup {0} /\ "IoError" \in RemoteErrors
    BY DEF RequestLines, LaterIds, Ids, Noise, RemoteErrors
  <2> QED
    BY <2>1 DEF Err, Answers
<1>3. /\ \A body : Ok(m.id, body).kind = "OK" /\ Ok(m.id, body).id = m.id
                   /\ Ok(m.id, body).session = host.session /\ Ok(m.id, body).body = body
      /\ Err(m.id, "IoError").kind = "ERR" /\ Err(m.id, "IoError").id = m.id
  BY DEF Ok, Err
<1>4. image \in [Lbas -> Blocks]
  BY DEF LinkTyped
<1>5. NoBody \in AnswerBodies /\ InfoBody(TRUE, Generation) \in AnswerBodies
  BY DEF AnswerBodies
<1>6. CASE m.kind = "HELLO"
  <2>1. outcome = [answer |-> Ok(m.id, NoBody), image |-> image]
    BY <1>6 DEF Outcomes
  <2> QED
    BY <1>1, <1>3, <1>4, <1>5, <1>6, <2>1
<1>7. CASE m.kind = "GET_INFO"
  <2>1. outcome = [answer |-> Ok(m.id, InfoBody(TRUE, Generation)), image |-> image]
    BY <1>7 DEF Outcomes
  <2> QED
    BY <1>1, <1>3, <1>4, <1>5, <1>7, <2>1
<1>8. CASE m.kind = "READ_BLOCKS"
  <2>1. outcome \in {[answer |-> Ok(m.id, BlockBody(m.op.lba, image[m.op.lba])), image |-> image],
                     [answer |-> Err(m.id, "IoError"), image |-> image]}
    BY <1>8 DEF Outcomes
  <2>2. m.op.lba \in Lbas
    BY <1>8 DEF RequestLines, SectorReads, ReadOperation, Noise
  <2>3. BlockBody(m.op.lba, image[m.op.lba]) \in AnswerBodies
    <3>1. image[m.op.lba] \in Blocks
      BY <1>4, <2>2
    <3>2. BlockBody(m.op.lba, image[m.op.lba]) \in BlockBodies
      BY <2>2, <3>1 DEF BlockBodies
    <3> QED
      BY <3>2, Zenon DEF AnswerBodies
  <2> QED
    BY <1>1, <1>2, <1>3, <1>4, <1>8, <2>1, <2>3
<1>9. CASE m.kind = "WRITE_BLOCKS"
  <2> DEFINE written == [image EXCEPT ![m.op.lba] = m.op.data]
  <2>1. outcome \in {[answer |-> Ok(m.id, NoBody), image |-> written],
                     [answer |-> Err(m.id, "IoError"), image |-> image],
                     [answer |-> Err(m.id, "IoError"), image |-> written]}
    BY <1>9 DEF Outcomes
  <2>2. m.op.lba \in Lbas /\ m.op.data \in Blocks
    BY <1>9 DEF RequestLines, SectorWrites, WriteOperation, Noise
  <2>3. written \in [Lbas -> Blocks]
    BY <1>4, <2>2
  <2> HIDE DEF written
  <2>4. /\ outcome.answer \in Answers /\ outcome.image \in [Lbas -> Blocks]
        /\ outcome.answer.id = m.id
        /\ outcome.answer.kind = "OK" => outcome.answer.session = host.session
        /\ outcome.image \in {image, written}
        /\ outcome.answer.kind = "OK" => outcome.image = written
    BY <1>1, <1>2, <1>3, <1>4, <1>5, <2>1, <2>3
  <2> QED
    BY <1>9, <2>4 DEF written
<1>10. m.kind \in {"HELLO", "GET_INFO", "READ_BLOCKS", "WRITE_BLOCKS"}
  BY DEF RequestLines, Noise
<1> QED
  BY <1>6, <1>7, <1>8, <1>9, <1>10

\* The steps of host and link leave the firmware alone.
LEMMA HostStepStands ==
    ASSUME ServiceInv, HostStarts \/ HostLeaves \/ Dispatch \/ DevicePoll
    PROVE  LinkTyped' /\ ClientShape' /\ FlagsFollow'
<1> USE DEF ServiceInv
<1>1. UNCHANGED <<allVars, flags>>
  BY DEF HostStarts, HostLeaves, HostExits, HostReplaced, Dispatch, DevicePoll
<1>2. LinkTyped'
  <2>1. CASE HostStarts
    BY <2>1 DEF HostStarts, Serving, LinkTyped
  <2>2. CASE HostLeaves
    <3>1. tx' \in {tx, NoLine} /\ UNCHANGED image /\ LinkLoses
          /\ \/ ~connected' /\ UNCHANGED host
             \/ host.session + 1 \in Sessions /\ host' = Serving(host.session + 1)
      <4>1. CASE HostExits
        BY <4>1 DEF HostExits, hostVars
      <4>2. CASE HostReplaced
        BY <4>2 DEF HostReplaced
      <4> QED
        BY <2>2, <4>1, <4>2 DEF HostLeaves
    <3>2. toHost' \in Seq(RequestLines) /\ toDevice' \in Seq(Answers)
      <4>1. /\ toHost \in Seq(RequestLines) /\ toDevice \in Seq(Answers)
            /\ <<>> \in Seq(RequestLines) /\ <<>> \in Seq(Answers)
        BY DEF LinkTyped
      <4> QED
        BY <3>1, <4>1 DEF LinkLoses
    <3>3. tx' \in RequestLines \cup {NoLine} /\ image' \in [Lbas -> Blocks]
      BY <3>1 DEF LinkTyped
    <3>4. CASE ~connected' /\ UNCHANGED host
      BY <3>2, <3>3, <3>4 DEF LinkTyped
    <3>5. CASE host.session + 1 \in Sessions /\ host' = Serving(host.session + 1)
      BY <3>2, <3>3, <3>5 DEF LinkTyped, Serving
    <3> QED
      BY <3>1, <3>4, <3>5
  <2>3. CASE DevicePoll
    <3>1. tx \in RequestLines /\ toHost' = Append(toHost, tx) /\ tx' = NoLine
          /\ UNCHANGED <<connected, toDevice, host, image>>
      BY <2>3 DEF DevicePoll, LinkTyped, hostVars
    <3> QED
      BY <3>1 DEF LinkTyped
  <2>4. CASE Dispatch
    <3>1. /\ connected /\ toHost # <<>> /\ toHost' = Tail(toHost)
          /\ UNCHANGED <<connected, tx>>
      BY <2>4 DEF Dispatch
    <3>2. PICK m \in RequestLines : m = Head(toHost)
      BY <3>1, HeadAndTail
    <3>3. host.session \in Sessions
      BY <3>1 DEF LinkTyped
    <3>4. CASE Refusal(m) # ""
      <4>1. toDevice' = Append(toDevice, Err(m.id, Refusal(m))) /\ UNCHANGED hostVars
        BY <2>4, <3>2, <3>4 DEF Dispatch
      <4>2. Err(m.id, Refusal(m)) \in Answers
        <5>1. m.id \in Ids \cup {0}
          BY <3>2 DEF RequestLines, Noise, LaterIds, Ids
        <5>2. Refusal(m) \in RemoteErrors
          BY <3>4 DEF Refusal, RemoteErrors, RenegotiateCodes, TerminalCodes
        <5> QED
          BY <5>1, <5>2 DEF Err, Answers
      <4>3. toDevice' \in Seq(Answers)
        BY <4>1, <4>2 DEF LinkTyped
      <4> QED
        BY <3>1, <4>1, <4>3, HeadAndTail DEF LinkTyped, hostVars
    <3>5. CASE Refusal(m) = ""
      <4>1. PICK outcome \in Outcomes(m) :
                /\ toDevice' = Append(toDevice, outcome.answer)
                /\ image' = outcome.image
        BY <2>4, <3>2, <3>5 DEF Dispatch
      <4>2. host' = [host EXCEPT !.established = TRUE, !.lastId = m.id]
        BY <2>4, <3>2, <3>5 DEF Dispatch
      <4>3. m.kind # "NOISE"
        BY <3>5 DEF Refusal
      <4>4. m.id \in Ids /\ m \in RequestLines \ {Noise}
        BY <3>2, <4>3 DEF RequestLines, Noise, LaterIds, Ids
      <4>5. outcome.answer \in Answers /\ outcome.image \in [Lbas -> Blocks]
        BY <3>2, <3>3, <4>1, <4>3, OutcomeShapes
      <4>6. toDevice' \in Seq(Answers)
        BY <4>1, <4>5 DEF LinkTyped
      <4>7. host' \in [established : BOOLEAN, lastId : 0 .. MaxId, session : Nat]
            /\ host'.session = host.session /\ host'.lastId = m.id /\ m.id # 0
        <5>1. m.id \in 0 .. MaxId /\ m.id # 0
              /\ host \in [established : BOOLEAN, lastId : 0 .. MaxId, session : Nat]
          BY <4>4 DEF LinkTyped, Ids
        <5> QED
          BY <4>2, <5>1
      <4> QED
        BY <3>1, <3>3, <4>1, <4>5, <4>6, <4>7, HeadAndTail DEF LinkTyped
    <3> QED
      BY <3>4, <3>5
  <2> QED
    BY <2>1, <2>2, <2>3, <2>4
<1> QED
  BY <1>1, <1>2, ShapeStands

-----------------------------------------------------------------------------
\* What a line from the host does to client and flags.
LEMMA ShellKeepsTypes ==
    ASSUME ServiceInv, ShellPoll
    PROVE  LinkTyped' /\ ClientShape' /\ FlagsFollow'
<1> USE DEF ServiceInv
<1>1. toDevice # <<>> /\ toDevice' = Tail(toDevice)
      /\ UNCHANGED <<connected, toHost, host, image>>
  BY DEF ShellPoll, hostVars
<1>2. PICK r \in Answers : OnHandshakeResponse(r) \/ OnInfoResponse(r)
                             \/ OnTransferResponse(r) \/ OnStrayLine
  BY <1>1, HeadAndTail DEF ShellPoll
<1>3. tx' \in RequestLines \cup {NoLine}
  <2>1. tx' = tx \/ tx' = Noise
    BY <1>2 DEF OnHandshakeResponse, OnInfoResponse, OnTransferResponse, OnStrayLine, SendIfFree
  <2> QED
    BY <2>1, NoiseIsLine DEF LinkTyped
<1>4. LinkTyped'
  BY <1>1, <1>3, LinkStaysTyped
<1>5. CASE OnHandshakeResponse(r)
  <2>1. /\ handshakePending /\ ~handshakePending'
        /\ UNCHANGED <<wasConnected, infoPending, infoKnown, mediaPresent>>
    BY <1>5 DEF OnHandshakeResponse
  <2>2. /\ RequestPending(client) /\ client.pendingHandshake /\ ~client.negotiated
        /\ ~infoPending /\ ~infoKnown /\ ~mediaPresent /\ wasConnected
    BY <2>1 DEF FlagsFollow, OutstandingHasOwner, MediaKnownOnlyInSession, ClientShape
  <2>3. CASE IsSuccess(client, r)
    <3>1. BackendAcceptHandshake(r)
      BY <1>5, <2>3 DEF OnHandshakeResponse
    <3>2. /\ r.session \in Sessions /\ client' = Establish(client, r.session)
          /\ UNCHANGED <<state, transfer>> /\ state # "AwaitingResponse"
      BY <2>3, <3>1, GreetingMoves
    <3>3. ClientShape'
      BY <2>2, <3>2, ClientGreets DEF BackendInv, Inductive
    <3>4. client'.negotiated /\ ~RequestPending(client') /\ ~client'.pendingHandshake
      BY <3>2 DEF Establish, RequestPending
    <3>5. FlagsFollow'
      BY <2>1, <2>2, <3>2, <3>4 DEF FlagsFollow, OutstandingHasOwner, MediaKnownOnlyInSession,
         InfoPending, RequestPending
    <3> QED
      BY <1>4, <3>3, <3>5
  <2>4. CASE ~IsSuccess(client, r)
    <3>1. BackendDisconnect
      BY <1>5, <2>4 DEF OnHandshakeResponse
    <3> QED
      BY <1>4, <2>1, <2>2, <3>1, ResetFollows
  <2> QED
    BY <2>3, <2>4
<1>6. CASE OnInfoResponse(r)
  <2>1. /\ ~handshakePending /\ infoPending /\ ~infoPending'
        /\ UNCHANGED <<wasConnected, handshakePending>>
    BY <1>6 DEF OnInfoResponse
  <2>2. /\ InfoPending /\ client.negotiated /\ wasConnected /\ transfer = NoTransfer
    BY <2>1 DEF FlagsFollow, OutstandingHasOwner, MediaKnownOnlyInSession
  <2>3. CASE IsSuccess(client, r) /\ r.body.type = "Info"
    <3>1. AcceptGetInfo(r) /\ infoKnown' = TRUE /\ mediaPresent' = r.body.present
      <4>1. infoKnown' = (IsSuccess(client, r) /\ r.body.type = "Info")
        BY <1>6 DEF OnInfoResponse
      <4>2. AcceptGetInfo(r) /\ mediaPresent' = r.body.present
        BY <1>6, <2>3 DEF OnInfoResponse
      <4> QED
        BY <2>3, <4>1, <4>2
    <3>2. client' = CancelPending(client)
      <4>1. Accept(client, r) = CancelPending(client)
        BY <2>2, <2>3, AcceptInIdle
      <4>2. CancelPending(CancelPending(client)) = CancelPending(client)
        BY DEF CancelPending
      <4> QED
        BY <3>1, <4>1, <4>2 DEF AcceptGetInfo, MediaChangedWith, InvalidateMediaWith, CancelWith
    <3>3. transfer' = NoTransfer /\ state' # "AwaitingResponse"
      <4>1. state = "Idle"
        BY <2>2 DEF InfoPending
      <4> QED
        BY <2>2, <3>1, <4>1 DEF AcceptGetInfo, MediaChangedWith, InvalidateMediaWith, CancelWith,
           Forgotten, backendVars
    <3>4. ClientShape' /\ client'.negotiated /\ ~RequestPending(client')
          /\ ~client'.pendingHandshake
      BY <2>2, <3>2, ClientIsFreed
    <3>5. FlagsFollow'
      BY <2>1, <2>2, <3>1, <3>3, <3>4 DEF FlagsFollow, OutstandingHasOwner,
         MediaKnownOnlyInSession, InfoPending, RequestPending
    <3> QED
      BY <1>4, <3>4, <3>5
  <2>4. CASE ~(IsSuccess(client, r) /\ r.body.type = "Info")
    <3>1. BackendDisconnect /\ mediaPresent' = FALSE
      BY <1>6, <2>4 DEF OnInfoResponse
    <3>2. ~infoKnown'
      <4>1. infoKnown' = (IsSuccess(client, r) /\ r.body.type = "Info")
        BY <1>6 DEF OnInfoResponse
      <4> QED
        BY <2>4, <4>1
    <3> QED
      BY <1>4, <2>1, <3>1, <3>2, ResetFollows
  <2> QED
    BY <2>3, <2>4
<1>7. CASE OnTransferResponse(r)
  <2>1. /\ transfer # NoTransfer /\ UNCHANGED flags
        /\ \/ AcceptTransferResponse(r)
           \/ UNCHANGED allVars
    BY <1>7 DEF OnTransferResponse
  <2>2. infoKnown /\ client.negotiated /\ ~client.pendingHandshake
    BY <2>1 DEF FlagsFollow, MediaKnownOnlyInSession, ClientShape
  <2>3. CASE UNCHANGED allVars
    BY <1>4, <2>1, <2>3, ShapeStands
  <2>4. CASE AcceptTransferResponse(r)
    <3>1. client' = CancelPending(client) \/ UNCHANGED vars
      BY <2>4, TransferMoves
    <3>2. CASE client' = CancelPending(client)
      BY <1>4, <2>1, <2>2, <3>2, ClientIsFreed, TransferFollows
    <3>3. CASE UNCHANGED vars
      <4>1. UNCHANGED <<client, state>> /\ ClientShape'
        BY <3>3 DEF vars, ClientShape
      <4>2. state = "Idle" => ~RequestPending(client)
        BY <1>7 DEF OnTransferResponse, FlagsFollow, OutstandingHasOwner, InfoPending
      <4> QED
        BY <1>4, <2>1, <2>2, <4>1, <4>2, TransferFollows
    <3> QED
      BY <3>1, <3>2, <3>3
  <2> QED
    BY <2>1, <2>3, <2>4
<1>8. CASE OnStrayLine
  BY <1>4, <1>8, ShapeStands DEF OnStrayLine
<1> QED
  BY <1>2, <1>5, <1>6, <1>7, <1>8

-----------------------------------------------------------------------------
\* What a poll of the service does to client and flags.
LEMMA PollKeepsTypes ==
    ASSUME ServiceInv, ServicePoll
    PROVE  LinkTyped' /\ ClientShape' /\ FlagsFollow'
<1> USE DEF ServiceInv
<1>1. UNCHANGED <<connected, toHost, toDevice, host, image>>
  BY DEF ServicePoll, hostVars
<1>2. ASSUME tx' \in RequestLines \cup {NoLine} PROVE LinkTyped'
  BY <1>1, <1>2, LinkStaysTyped
<1>3. ASSUME tx' = tx PROVE LinkTyped'
  BY <1>2, <1>3 DEF LinkTyped
<1>4. client.negotiated => wasConnected /\ ~handshakePending
  BY DEF FlagsFollow, OutstandingHasOwner, ClientShape
<1>5. CASE HostLost
  BY <1>3, <1>5, ResetFollows DEF HostLost, InfoForgotten
<1>6. CASE SessionTimeout
  BY <1>3, <1>6, ResetFollows DEF SessionTimeout, InfoForgotten
<1>7. CASE SendHello
  <2>1. ~client.negotiated /\ ~infoPending /\ ~infoKnown /\ ~mediaPresent
    BY <1>4, <1>7 DEF SendHello, NeedsHello, FlagsFollow, MediaKnownOnlyInSession
  <2>2. UNCHANGED <<infoPending, infoKnown, mediaPresent>> /\ wasConnected' = TRUE
    BY <1>7 DEF SendHello
  <2>3. CASE CanHandshake(client) /\ CanSend
    <3>1. BackendBeginHandshake /\ SendIfFree(Line("HELLO", NoOperation))
      BY <1>7, <2>3 DEF SendHello
    <3>2. handshakePending'
      BY <1>7, <2>3 DEF SendHello
    <3>3. LinkTyped'
      BY <1>2, <2>3, <3>1, HelloIsLine DEF SendIfFree
    <3>4. /\ ~client'.negotiated /\ client'.pendingHandshake /\ RequestPending(client')
          /\ UNCHANGED <<state, transfer>>
      <4>1. /\ client'.pendingId = 1 /\ ~client'.negotiated /\ client'.pendingHandshake = TRUE
            /\ UNCHANGED <<state, transfer>>
        BY <3>1, HelloMoves
      <4> QED
        BY <4>1 DEF RequestPending
    <3>5. state # "AwaitingResponse"
      BY <3>1, HelloMoves DEF BackendInv, Inductive, AwaitingIsGuarded, RequestPending, FreshClient
    <3>6. FlagsFollow'
      BY <2>1, <2>2, <3>2, <3>4, <3>5 DEF FlagsFollow, OutstandingHasOwner,
         MediaKnownOnlyInSession, InfoPending, RequestPending
    <3> QED
      BY <3>1, <3>3, <3>6, ClientSaysHello
  <2>4. CASE ~(CanHandshake(client) /\ CanSend)
    <3>1. BackendDisconnect /\ UNCHANGED tx
      BY <1>7, <2>4 DEF SendHello
    <3>2. ~handshakePending'
      BY <1>7, <2>4 DEF SendHello
    <3> QED
      BY <1>3, <2>1, <2>2, <3>1, <3>2, ResetFollows
  <2> QED
    BY <2>3, <2>4
<1>8. CASE SendGetInfo
  <2>1. /\ client.negotiated /\ ~infoPending /\ ~infoKnown /\ ~mediaPresent /\ transfer = NoTransfer
        /\ ~handshakePending /\ wasConnected
    BY <1>4, <1>8 DEF SendGetInfo, NeedsInfo, FlagsFollow, MediaKnownOnlyInSession
  <2>2. UNCHANGED <<wasConnected, handshakePending, infoKnown, mediaPresent>>
    BY <1>8 DEF SendGetInfo
  <2>3. CASE state = "Idle" /\ CanRequest(client) /\ CanSend
    <3>1. BackendBeginGetInfo /\ SendIfFree(Line("GET_INFO", NoOperation))
      BY <1>8, <2>3 DEF SendGetInfo
    <3>2. infoPending'
      BY <1>8, <2>3 DEF SendGetInfo
    <3>3. LinkTyped'
      BY <1>2, <2>3, <3>1, InfoMoves, RequestIsLine DEF SendIfFree
    <3>4. /\ client' = ReserveRequest(client, FALSE) /\ UNCHANGED <<state, transfer>>
      BY <3>1, InfoMoves
    <3>5. ClientShape' /\ client'.negotiated /\ ~client'.pendingHandshake
      BY <2>3, <3>4, ClientSpends
    <3>6. RequestPending(client')
      BY <2>3, <3>4 DEF ReserveRequest, RequestPending, CanRequest
    <3>7. FlagsFollow'
      BY <2>1, <2>2, <2>3, <3>2, <3>4, <3>5, <3>6 DEF FlagsFollow, OutstandingHasOwner,
         MediaKnownOnlyInSession, InfoPending, RequestPending
    <3> QED
      BY <3>3, <3>5, <3>7
  <2>4. CASE ~(state = "Idle" /\ CanRequest(client) /\ CanSend)
    <3>1. BackendDisconnect /\ UNCHANGED tx
      BY <1>8, <2>4 DEF SendGetInfo
    <3>2. ~infoPending'
      BY <1>8, <2>4 DEF SendGetInfo
    <3> QED
      BY <1>3, <2>1, <2>2, <3>1, <3>2, ResetFollows
  <2> QED
    BY <2>3, <2>4
<1>9. CASE PollExpire
  <2>1. BackendExpire /\ UNCHANGED <<flags, tx>> /\ ~handshakePending /\ ~infoPending
    BY <1>9 DEF PollExpire, PollingTransfers
  <2>2. \/ client' = CancelPending(client) /\ state = "AwaitingResponse"
        \/ UNCHANGED vars
    BY <2>1, ExpiryMoves
  <2>3. transfer # NoTransfer
    <3>1. CASE ExpireIfDue
      BY <3>1, RequestHasTransfer DEF ExpireIfDue, InFlightStates
    <3>2. CASE RetryFailed
      BY <3>2 DEF RetryFailed
    <3> QED
      BY <2>1, <3>1, <3>2 DEF BackendExpire
  <2>4. infoKnown /\ client.negotiated /\ ~client.pendingHandshake
    BY <2>3 DEF FlagsFollow, MediaKnownOnlyInSession, ClientShape
  <2>5. CASE client' = CancelPending(client)
    BY <1>3, <2>1, <2>4, <2>5, ClientIsFreed, TransferFollows
  <2>6. CASE UNCHANGED vars
    <3>1. UNCHANGED <<client, state>> /\ ClientShape'
      BY <2>6 DEF vars, ClientShape
    <3>2. state = "Idle" => ~RequestPending(client)
      BY <2>1, <2>4 DEF FlagsFollow, OutstandingHasOwner, InfoPending
    <3> QED
      BY <1>3, <2>1, <2>4, <3>1, <3>2, TransferFollows
  <2> QED
    BY <2>2, <2>5, <2>6
<1>10. CASE PollRetry
  <2>1. BackendIssueRetry /\ UNCHANGED flags
    BY <1>10 DEF PollRetry
  <2>2. /\ Issue(operation) /\ client.negotiated /\ ~RequestPending(client)
        /\ operation \in BackendOperations /\ transfer # NoTransfer
    BY <2>1, RetryMoves
  <2>3. infoKnown /\ ~client.pendingHandshake
    BY <2>2 DEF FlagsFollow, MediaKnownOnlyInSession, ClientShape
  <2>4. /\ ClientShape' /\ client'.negotiated /\ ~client'.pendingHandshake
        /\ state' # "Idle"
    <3>1. CASE client' = client
      BY <2>2, <2>3, <3>1, IssueMoves DEF ClientShape
    <3>2. CASE client' # client
      BY <2>2, <3>2, IssueMoves, ClientSpends
    <3> QED
      BY <3>1, <3>2
  <2>5. LinkTyped'
    <3>1. CASE state' = "AwaitingResponse"
      <4>1. CanRequest(client) /\ client' = ReserveRequest(client, FALSE)
        BY <2>2, <3>1, IssueMoves
      <4>2. Line(IF operation.type = "Read" THEN "READ_BLOCKS" ELSE "WRITE_BLOCKS", operation)
              \in RequestLines
        BY <2>2, <4>1, OperationKinds, RequestIsLine
      <4>3. tx' \in RequestLines \cup {NoLine}
        BY <1>10, <3>1, <4>2 DEF PollRetry, SendIfFree, LinkTyped
      <4> QED
        BY <1>2, <4>3
    <3>2. CASE state' # "AwaitingResponse"
      BY <1>3, <1>10, <3>2 DEF PollRetry
    <3> QED
      BY <3>1, <3>2
  <2> QED
    BY <2>1, <2>3, <2>4, <2>5, TransferFollows
<1>11. CASE PollIdle
  BY <1>3, <1>11, ShapeStands DEF PollIdle
<1> QED
  BY <1>5, <1>6, <1>7, <1>8, <1>9, <1>10, <1>11 DEF ServicePoll

-----------------------------------------------------------------------------
\* What a call of the SD side does to client and flags.
LEMMA TargetKeepsTypes ==
    ASSUME ServiceInv, TargetPoll
    PROVE  LinkTyped' /\ ClientShape' /\ FlagsFollow'
<1> USE DEF ServiceInv
<1>1. UNCHANGED <<connected, flags, toHost, toDevice, host, image>>
  BY DEF TargetPoll, hostVars
<1>2. ASSUME tx' \in RequestLines \cup {NoLine} PROVE LinkTyped'
  BY <1>1, <1>2, LinkStaysTyped
<1>3. ASSUME tx' = tx PROVE LinkTyped'
  BY <1>2, <1>3 DEF LinkTyped
<1>4. CASE UNCHANGED <<allVars, tx>>
  BY <1>1, <1>3, <1>4, ShapeStands
<1>5. ASSUME MediaReady
      PROVE  infoKnown /\ client.negotiated /\ ~client.pendingHandshake /\ ~infoPending
  BY <1>5 DEF MediaReady, FlagsFollow, MediaKnownOnlyInSession, ClientShape
<1>6. ASSUME MediaReady, NEW lba \in Lbas, Deliver(lba, Generation), UNCHANGED tx
      PROVE  LinkTyped' /\ ClientShape' /\ FlagsFollow'
  <2>1. UNCHANGED <<client, state>>
    BY <1>6 DEF Deliver, vars
  <2>2. state = "Idle" => ~RequestPending(client)
    BY <1>5, <1>6 DEF FlagsFollow, OutstandingHasOwner, InfoPending
  <2>3. ClientShape'
    BY <2>1 DEF ClientShape
  <2> QED
    BY <1>1, <1>3, <1>5, <1>6, <2>1, <2>2, <2>3, TransferFollows
<1>7. ASSUME MediaReady, UndoBegin, UNCHANGED tx
      PROVE  LinkTyped' /\ ClientShape' /\ FlagsFollow'
  <2>1. ClientShape' /\ client'.negotiated /\ ~client'.pendingHandshake
    BY <1>7, UndoMoves, ClientSpends
  <2>2. ~RequestPending(client')
    BY <1>7, UndoMoves DEF CancelPending, RequestPending
  <2> QED
    BY <1>1, <1>3, <1>5, <1>7, <2>1, <2>2, TransferFollows
<1>8. ASSUME MediaReady, NEW op, Issue(op),
             \/ tx' = tx
             \/ /\ state' = "AwaitingResponse"
                /\ \/ op \in SectorReads /\ tx' = Line("READ_BLOCKS", operation')
                   \/ op \in SectorWrites /\ tx' = Line("WRITE_BLOCKS", operation')
      PROVE  LinkTyped' /\ ClientShape' /\ FlagsFollow'
  <2>1. ClientShape' /\ client'.negotiated /\ ~client'.pendingHandshake /\ state' # "Idle"
    <3>1. CASE client' = client
      BY <1>5, <1>8, <3>1, IssueMoves DEF ClientShape
    <3>2. CASE client' # client
      BY <1>8, <3>2, IssueMoves, ClientSpends
    <3> QED
      BY <3>1, <3>2
  <2>2. LinkTyped'
    <3>1. CASE tx' = tx
      BY <1>3, <3>1
    <3>2. CASE tx' # tx
      <4>1. state' = "AwaitingResponse" /\ operation' = op
            /\ CanRequest(client) /\ client' = ReserveRequest(client, FALSE)
        BY <1>8, <3>2, IssueMoves
      <4>2. tx' \in RequestLines
        BY <1>8, <3>2, <4>1, RequestIsLine
      <4> QED
        BY <1>2, <4>2
    <3> QED
      BY <3>1, <3>2
  <2> QED
    BY <1>1, <1>5, <1>8, <2>1, <2>2, TransferFollows
<1>9. ASSUME MediaReady, NEW lba \in Lbas, BeginCdcRead(lba)
      PROVE  LinkTyped' /\ ClientShape' /\ FlagsFollow'
  <2>1. \/ UndoBegin /\ UNCHANGED tx
        \/ /\ RequestRead(lba, Generation)
           /\ tx' = IF state' = "AwaitingResponse" THEN Line("READ_BLOCKS", operation') ELSE tx
    BY <1>9 DEF BeginCdcRead
  <2>2. ReadOperation(lba) \in SectorReads
    BY DEF SectorReads
  <2>3. RequestRead(lba, Generation) => Issue(ReadOperation(lba))
    BY TransferBegins DEF RequestRead
  <2> QED
    BY <1>7, <1>8, <1>9, <2>1, <2>2, <2>3
<1>10. ASSUME MediaReady, NEW lba \in Lbas, NEW data \in Blocks, BeginCdcWrite(lba, data)
       PROVE  LinkTyped' /\ ClientShape' /\ FlagsFollow'
  <2>1. \/ UndoBegin /\ UNCHANGED tx
        \/ /\ BeginWrite(lba, Generation, data)
           /\ tx' = IF state' = "AwaitingResponse" THEN Line("WRITE_BLOCKS", operation') ELSE tx
    BY <1>10 DEF BeginCdcWrite
  <2>2. WriteOperation(lba, data) \in SectorWrites
    BY DEF SectorWrites
  <2>3. BeginWrite(lba, Generation, data) => Issue(WriteOperation(lba, data))
    BY TransferBegins DEF BeginWrite
  <2> QED
    BY <1>7, <1>8, <1>10, <2>1, <2>2, <2>3
<1> QED
  BY <1>4, <1>6, <1>9, <1>10 DEF TargetPoll

-----------------------------------------------------------------------------
LEMMA InitServiceInv == ServiceInit => ServiceInv
<1> SUFFICES ASSUME ServiceInit PROVE LinkTyped /\ ClientShape /\ FlagsFollow
  BY InitBackendInv DEF ServiceInv, ServiceInit
<1>1. client = FreshClient /\ state = "Idle" /\ transfer = NoTransfer
  BY DEF ServiceInit, BackendInit, Init
<1>2. LinkTyped
  BY DEF ServiceInit, LinkTyped
<1>3. ~RequestPending(client) /\ ~client.negotiated /\ client.session = NoSession
  BY <1>1 DEF FreshClient, RequestPending
<1> QED
  BY <1>1, <1>2, <1>3 DEF ServiceInit, ClientShape, FlagsFollow, OutstandingHasOwner,
     MediaKnownOnlyInSession, InfoPending

LEMMA NextServiceInv == ServiceInv /\ [UseNext]_serviceVars => ServiceInv'
<1> SUFFICES ASSUME ServiceInv, [UseNext]_serviceVars
             PROVE  LinkTyped' /\ ClientShape' /\ FlagsFollow'
  BY BackendInvStands DEF ServiceInv
<1>1. CASE ClockTicks
  <2>1. UNCHANGED <<client, state, transfer, connected, tx, toHost, toDevice, host, image>>
    BY <1>1 DEF ClockTicks, Tick, coordinatorVars, backendVars, hostVars
  <2>2. UNCHANGED flags
    BY <1>1 DEF ClockTicks
  <2> QED
    BY <2>1, <2>2 DEF ServiceInv, LinkTyped, ClientShape, FlagsFollow, OutstandingHasOwner,
       MediaKnownOnlyInSession, InfoPending, flags
<1>2. CASE UNCHANGED serviceVars
  BY <1>2, ShapeStands DEF serviceVars, ServiceInv, LinkTyped, hostVars
<1> QED
  BY <1>1, <1>2, HostStepStands, ShellKeepsTypes, PollKeepsTypes, TargetKeepsTypes
     DEF UseNext, ServiceStep

\* The invariant of the firmware's side of the service, for any calls and any hosts.
THEOREM ServiceInvariant == ServiceUse => []ServiceInv
<1> QED
  BY InitServiceInv, NextServiceInv, PTL DEF ServiceUse

\* The one outstanding request has one owner, however sessions, timeouts and
\* transfers interleave.
THEOREM OwnersAreUnique == ServiceUse => []OutstandingHasOwner
<1>1. ServiceInv => OutstandingHasOwner
  BY DEF ServiceInv, FlagsFollow
<1> QED
  BY <1>1, ServiceInvariant, PTL

\* Media is offered, and transfers run, only with metadata of the session that is
\* negotiated now.
THEOREM MediaIsOfTheSession == ServiceUse => []MediaKnownOnlyInSession
<1>1. ServiceInv => MediaKnownOnlyInSession
  BY DEF ServiceInv, FlagsFollow
<1> QED
  BY <1>1, ServiceInvariant, PTL

-----------------------------------------------------------------------------
\* The types the runs check, which the invariant above does not need.
FlagsTyped ==
    /\ connected \in BOOLEAN /\ wasConnected \in BOOLEAN
    /\ handshakePending \in BOOLEAN /\ infoPending \in BOOLEAN
    /\ infoKnown \in BOOLEAN /\ mediaPresent \in BOOLEAN
    /\ stage \in {"device", "shell", "service", "target"}
    /\ Len(toHost) <= MaxQueue /\ Len(toDevice) <= MaxQueue

LEMMA PollKeepsFlags ==
    ASSUME FlagsTyped, ServicePoll
    PROVE  /\ wasConnected' \in BOOLEAN /\ handshakePending' \in BOOLEAN
           /\ infoPending' \in BOOLEAN /\ infoKnown' \in BOOLEAN /\ mediaPresent' \in BOOLEAN
<1>1. CASE HostLost
  BY <1>1 DEF HostLost, InfoForgotten
<1>2. CASE SendHello
  BY <1>2 DEF SendHello, FlagsTyped
<1>3. CASE SendGetInfo
  BY <1>3 DEF SendGetInfo, FlagsTyped
<1>4. CASE SessionTimeout
  BY <1>4 DEF SessionTimeout, InfoForgotten, FlagsTyped
<1>5. CASE UNCHANGED flags
  BY <1>5 DEF flags, FlagsTyped
<1> QED
  BY <1>1, <1>2, <1>3, <1>4, <1>5 DEF ServicePoll, PollExpire, PollRetry, PollIdle

LEMMA ShellKeepsFlags ==
    ASSUME LinkTyped, FlagsTyped, ShellPoll
    PROVE  /\ wasConnected' \in BOOLEAN /\ handshakePending' \in BOOLEAN
           /\ infoPending' \in BOOLEAN /\ infoKnown' \in BOOLEAN /\ mediaPresent' \in BOOLEAN
<1>1. PICK r \in Answers : OnHandshakeResponse(r) \/ OnInfoResponse(r)
                             \/ OnTransferResponse(r) \/ OnStrayLine
  BY HeadAndTail DEF ShellPoll
<1>2. CASE OnHandshakeResponse(r)
  BY <1>2 DEF OnHandshakeResponse, FlagsTyped
<1>3. CASE OnInfoResponse(r)
  <2>1. mediaPresent' \in BOOLEAN
    <3>1. CASE IsSuccess(client, r) /\ r.body.type = "Info"
      <4>1. r.body = InfoBody(TRUE, Generation)
        <5>1. r.kind = "OK" /\ r.body.type = "Info"
          BY <3>1, SuccessIsResponse
        <5>2. r.body \in AnswerBodies
          BY <5>1 DEF Answers
        <5>3. NoBody.type = "None" /\ \A body \in BlockBodies : body.type = "Block"
          BY DEF NoBody, BlockBodies, BlockBody
        <5> QED
          BY <5>1, <5>2, <5>3 DEF AnswerBodies
      <4>2. r.body.present \in BOOLEAN
        BY <4>1 DEF InfoBody
      <4> QED
        BY <1>3, <3>1, <4>2 DEF OnInfoResponse
    <3>2. CASE ~(IsSuccess(client, r) /\ r.body.type = "Info")
      BY <1>3, <3>2 DEF OnInfoResponse
    <3> QED
      BY <3>1, <3>2
  <2> QED
    BY <1>3, <2>1 DEF OnInfoResponse, FlagsTyped
<1>4. CASE UNCHANGED flags
  BY <1>4 DEF flags, FlagsTyped
<1> QED
  BY <1>1, <1>2, <1>3, <1>4 DEF OnTransferResponse, OnStrayLine

LEMMA FlagsStayTyped ==
    ASSUME LinkTyped, FlagsTyped, [UseNext]_serviceVars
    PROVE  FlagsTyped'
<1>1. toHost \in Seq(RequestLines) /\ toDevice \in Seq(Answers)
  BY DEF LinkTyped
<1>2. /\ toHost # <<>> => Len(Tail(toHost)) <= MaxQueue
      /\ toDevice # <<>> => Len(Tail(toDevice)) <= MaxQueue
      /\ Len(<<>>) <= MaxQueue
  BY <1>1 DEF FlagsTyped
<1>3. /\ Len(toHost) < MaxQueue => \A m : Len(Append(toHost, m)) <= MaxQueue
      /\ Len(toDevice) < MaxQueue => \A m : Len(Append(toDevice, m)) <= MaxQueue
  BY <1>1
<1>4. CASE HostStarts \/ HostLeaves \/ DevicePoll
  BY <1>2, <1>3, <1>4 DEF HostStarts, HostLeaves, HostExits, HostReplaced, DevicePoll, LinkLoses,
     DeviceRuns, FlagsTyped, flags
<1>5. CASE Dispatch
  <2>1. /\ UNCHANGED <<connected, flags, stage>> /\ toHost # <<>> /\ toHost' = Tail(toHost)
        /\ Len(toDevice) < MaxQueue
        /\ \E m : toDevice' = Append(toDevice, m)
    <3> DEFINE line == Head(toHost)
    <3>1. /\ UNCHANGED <<connected, flags, stage>> /\ toHost # <<>> /\ toHost' = Tail(toHost)
          /\ Len(toDevice) < MaxQueue
          /\ \/ toDevice' = Append(toDevice, Err(line.id, Refusal(line)))
             \/ \E outcome \in Outcomes(line) : toDevice' = Append(toDevice, outcome.answer)
      BY <1>5, Zenon DEF Dispatch
    <3> QED
      BY <3>1
  <2> QED
    BY <1>2, <1>3, <2>1 DEF FlagsTyped, flags
<1>6. CASE ShellPoll
  <2>1. /\ UNCHANGED <<connected, toHost>> /\ stage' = "shell"
        /\ toDevice # <<>> /\ toDevice' = Tail(toDevice)
    BY <1>6 DEF ShellPoll
  <2> QED
    BY <1>2, <1>6, <2>1, ShellKeepsFlags DEF FlagsTyped
<1>7. CASE ServicePoll
  <2>1. /\ UNCHANGED <<connected, toHost, toDevice>> /\ stage' = "service"
    BY <1>7 DEF ServicePoll
  <2> QED
    BY <1>7, <2>1, PollKeepsFlags DEF FlagsTyped
<1>8. CASE TargetPoll
  BY <1>8 DEF TargetPoll, FlagsTyped, flags
<1>9. CASE ClockTicks
  BY <1>9 DEF ClockTicks, FlagsTyped, flags
<1>10. CASE UNCHANGED serviceVars
  BY <1>10 DEF serviceVars, FlagsTyped, flags
<1> QED
  BY <1>4, <1>5, <1>6, <1>7, <1>8, <1>9, <1>10 DEF UseNext, ServiceStep

LEMMA TypesAreChecked == ServiceInv /\ FlagsTyped => ServiceTypeOK
<1> SUFFICES ASSUME ServiceInv, FlagsTyped PROVE ServiceTypeOK
  OBVIOUS
<1>1. BackendTypeOK
  BY DEF ServiceInv, BackendInv, Inductive, PoolInv, BackendTypeOK
<1>2. <<connected, wasConnected, handshakePending, infoPending, infoKnown, mediaPresent>>
        \in [1 .. 6 -> BOOLEAN]
  BY DEF FlagsTyped
<1>3. \A m \in RequestLines : m \in Requests
  <2>1. \A op \in SectorReads \cup SectorWrites : op \in Operations
    BY DEF SectorReads, SectorWrites, BackendOperations
  <2>2. LaterIds \subseteq Ids /\ 1 \in Ids
    BY DEF LaterIds, Ids
  <2> QED
    BY <2>1, <2>2 DEF RequestLines, Requests
<1>4. /\ tx \in Requests \cup {NoLine} /\ toHost \in Seq(Requests)
      /\ image \in [Lbas -> Blocks]
  BY <1>3 DEF ServiceInv, LinkTyped
<1> QED
  BY <1>1, <1>2, <1>4 DEF FlagsTyped, ServiceTypeOK

\* Flags, queues, lines and image keep their types, for every length of the link.
THEOREM ServiceIsTyped == ServiceUse => []ServiceTypeOK
<1>1. ServiceInit => FlagsTyped
  <2>1. Len(<<>>) <= MaxQueue
    OBVIOUS
  <2> QED
    BY <2>1, Zenon DEF ServiceInit, FlagsTyped
<1>2. ServiceInv /\ FlagsTyped /\ [UseNext]_serviceVars => FlagsTyped'
  BY FlagsStayTyped DEF ServiceInv
<1> QED
  BY <1>1, <1>2, InitServiceInv, NextServiceInv, TypesAreChecked, PTL DEF ServiceUse

-----------------------------------------------------------------------------
\* The lines under way, without their order.
Lines(queue) == {queue[i] : i \in 1 .. Len(queue)}
Sent == Lines(toHost) \cup ({tx} \ {NoLine})
Replies == Lines(toDevice)

\* HELLO alone has id 1, so its answer alone does.
IsReply(r) == r.kind = "OK" /\ r.id # 1
IsGreeting(r) == r.kind = "OK" /\ r.id = 1

\* A session that is not the one of a host process yet to be greeted.
Opened(s) == s <= host.session /\ (s = host.session => host.established)

SessionsOpened ==
    /\ \A m \in Sent : m.session \in Sessions => Opened(m.session)
    /\ \A r \in Replies : r.kind = "OK" => Opened(r.session)
    /\ client.negotiated => Opened(client.session)

\* A greeting on its way offers a session nobody has used.
GreetingsAreNew ==
    \A g \in Replies : IsGreeting(g) =>
        /\ \A m \in Sent : m.session \in Sessions => m.session < g.session
        /\ \A r \in Replies : IsReply(r) => r.session < g.session
        /\ client.negotiated => client.session < g.session

GreetingsInOrder ==
    \A i, j \in 1 .. Len(toDevice) :
        i < j /\ IsGreeting(toDevice[i]) /\ IsGreeting(toDevice[j]) =>
            toDevice[i].session < toDevice[j].session

InSession(m) == client.negotiated /\ m.session = client.session
Spent(id) == client.nextId = 0 \/ id < client.nextId

SessionIsNewest ==
    client.negotiated => \A m \in Sent : m.session \in Sessions => m.session <= client.session

IdsAreSpent ==
    /\ \A m \in Sent : InSession(m) => Spent(m.id)
    /\ \A r \in Replies : IsReply(r) /\ InSession(r) => Spent(r.id)

\* Nothing of the session is behind the outstanding request, and nothing of it
\* is left when its answer is on the way.
PendingIsLast ==
    \A i \in 1 .. Len(toHost) :
        InSession(toHost[i]) /\ toHost[i].id = client.pendingId =>
            /\ \A j \in 1 .. Len(toHost) : i < j => ~InSession(toHost[j])
            /\ tx # NoLine => ~InSession(tx)

AnswersPending(r) == IsReply(r) /\ InSession(r) /\ r.id = client.pendingId
AnsweredIsAlone ==
    \A r \in Replies : AnswersPending(r) => \A m \in Sent : ~InSession(m)

\* A transfer line of the session belongs to the operation that is retained, or
\* to one that was given up and can only be followed by another session.
IsTransfer(m) == m.kind \in {"READ_BLOCKS", "WRITE_BLOCKS"}
TransfersAreCurrent ==
    \A m \in Sent : InSession(m) /\ IsTransfer(m) =>
        /\ state # "Idle"
        /\ operation # NoOperation => m.op = operation

PendingIsTransfer ==
    state = "AwaitingResponse" =>
        \A m \in Sent : InSession(m) /\ m.id = client.pendingId => IsTransfer(m)

\* The answer to the outstanding request tells the image as it is.
TellsTheImage(r) ==
    IF operation.type = "Read"
      THEN r.body = BlockBody(operation.lba, image[operation.lba])
      ELSE image[operation.lba] = operation.data
AnswerIsCurrent ==
    state = "AwaitingResponse" => \A r \in Replies : AnswersPending(r) => TellsTheImage(r)

\* A sector the host may still be told to write is not readable from the pool.
WritesAreUncached ==
    \A m \in Sent : m.kind = "WRITE_BLOCKS" /\ m.session = host.session =>
        \A h \in Holding(pool, {"Ready"}) : pool.slots[h].lba # m.op.lba

LineInv ==
    /\ SessionsOpened /\ GreetingsAreNew /\ GreetingsInOrder /\ SessionIsNewest
    /\ IdsAreSpent /\ PendingIsLast /\ AnsweredIsAlone
    /\ TransfersAreCurrent /\ PendingIsTransfer /\ AnswerIsCurrent

LinkInv == ServiceInv /\ LineInv /\ WritesAreUncached /\ CoherentCache

-----------------------------------------------------------------------------
\* Queues lose lines, give the first away, or take one more.
LEMMA TailLines ==
    ASSUME NEW S, NEW q \in Seq(S), q # <<>>
    PROVE  /\ Head(q) \in Lines(q) /\ Head(q) = q[1] /\ 1 \in 1 .. Len(q)
           /\ Lines(Tail(q)) \subseteq Lines(q)
           /\ Len(Tail(q)) = Len(q) - 1 /\ Len(q) \in Nat \ {0}
           /\ \A i \in 1 .. Len(Tail(q)) : Tail(q)[i] = q[i + 1]
<1>1. Len(q) \in Nat \ {0} /\ Len(Tail(q)) = Len(q) - 1
  OBVIOUS
<1>2. \A i \in 1 .. Len(Tail(q)) : Tail(q)[i] = q[i + 1] /\ i + 1 \in 1 .. Len(q)
  BY <1>1
<1>3. Head(q) = q[1] /\ 1 \in 1 .. Len(q)
  BY <1>1
<1> QED
  BY <1>1, <1>2, <1>3 DEF Lines

LEMMA AppendLines ==
    ASSUME NEW S, NEW q \in Seq(S), NEW m
    PROVE  /\ Lines(Append(q, m)) = Lines(q) \cup {m}
           /\ Len(Append(q, m)) = Len(q) + 1 /\ Len(q) \in Nat
           /\ \A i \in 1 .. Len(q) : Append(q, m)[i] = q[i]
           /\ Append(q, m)[Len(q) + 1] = m
<1>1. /\ Len(q) \in Nat /\ Len(Append(q, m)) = Len(q) + 1
      /\ \A i \in 1 .. Len(q) : Append(q, m)[i] = q[i]
      /\ Append(q, m)[Len(q) + 1] = m
  OBVIOUS
<1>2. 1 .. Len(q) + 1 = 1 .. Len(q) \cup {Len(q) + 1}
  BY <1>1
<1> QED
  BY <1>1, <1>2 DEF Lines

LEMMA NoLines == Lines(<<>>) = {}
<1>1. Len(<<>>) = 0 /\ 1 .. 0 = {}
  OBVIOUS
<1> QED
  BY <1>1 DEF Lines

LEMMA LinesAreTyped ==
    ASSUME LinkTyped
    PROVE  /\ Sent \subseteq RequestLines /\ Replies \subseteq Answers
           /\ tx # NoLine => tx \in Sent
<1>1. Lines(toHost) \subseteq RequestLines /\ Lines(toDevice) \subseteq Answers
  BY DEF LinkTyped, Lines
<1> QED
  BY <1>1 DEF LinkTyped, Sent, Replies

LEMMA AnswerShapes ==
    ASSUME NEW r \in Answers, r.kind = "OK"
    PROVE  r.id \in Ids /\ r.id # 0 /\ r.session \in Sessions
<1>1. r \in [kind : {"OK"}, id : Ids, session : Sessions, version : {TRUE}, body : AnswerBodies]
  BY DEF Answers
<1>2. \A id \in Ids : id # 0
  BY DEF Ids
<1> QED
  BY <1>1, <1>2

\* A line of a session carries a later id; a line of a transfer its operation.
LEMMA LineShapes ==
    ASSUME NEW m \in RequestLines
    PROVE  /\ m.session \in Sessions \cup {NoSession} /\ m.id \in Nat
           /\ m.session \in Sessions => m.id \in LaterIds /\ m.kind # "HELLO" /\ m.kind # "NOISE"
           /\ m.session \notin Sessions => m.kind \in {"HELLO", "NOISE"}
           /\ m.kind = "HELLO" => m.id = 1 /\ m.session = NoSession
           /\ m.kind = "NOISE" => m = Noise
           /\ m.kind = "READ_BLOCKS" => m.op \in SectorReads
           /\ m.kind = "WRITE_BLOCKS" => m.op \in SectorWrites
           /\ m.kind \in {"HELLO", "NOISE", "GET_INFO", "READ_BLOCKS", "WRITE_BLOCKS"}
<1>1. LaterIds \subseteq Nat /\ 1 \in Nat
  BY DEF LaterIds, Ids
<1>2. NoSession \notin Sessions
  OBVIOUS
<1>3. CASE m = Noise
  BY <1>2, <1>3 DEF Noise
<1>4. CASE m # Noise
  BY <1>1, <1>2, <1>4 DEF RequestLines
<1> QED
  BY <1>3, <1>4

\* Whatever the queues lose, the orders in them stay.
Shorter(after, before) ==
    \/ after \in {before, <<>>}
    \/ before # <<>> /\ after = Tail(before)

LEMMA ShorterLines ==
    ASSUME NEW S, NEW q \in Seq(S), NEW p, Shorter(p, q)
    PROVE  /\ Lines(p) \subseteq Lines(q) /\ Len(p) \in Nat
           /\ \E shift \in {0, 1} : \A i \in 1 .. Len(p) :
                  i + shift \in 1 .. Len(q) /\ p[i] = q[i + shift]
<1>1. CASE p = q
  <2>1. Len(q) \in Nat /\ \A i \in 1 .. Len(q) : i + 0 = i
    OBVIOUS
  <2> QED
    BY <1>1, <2>1
<1>2. CASE p = <<>>
  <2>1. Len(p) = 0 /\ 1 .. Len(p) = {}
    BY <1>2
  <2> QED
    BY <1>2, <2>1, NoLines
<1>3. CASE q # <<>> /\ p = Tail(q)
  <2>1. /\ Lines(p) \subseteq Lines(q) /\ Len(p) \in Nat
        /\ \A i \in 1 .. Len(p) : p[i] = q[i + 1] /\ i + 1 \in 1 .. Len(q)
    BY <1>3, TailLines
  <2> QED
    BY <2>1
<1> QED
  BY <1>1, <1>2, <1>3 DEF Shorter

LEMMA OrderStands ==
    ASSUME LinkTyped, GreetingsInOrder, Shorter(toDevice', toDevice)
    PROVE  GreetingsInOrder' /\ Replies' \subseteq Replies
<1>1. toDevice \in Seq(Answers)
  BY DEF LinkTyped
<1>2. Replies' \subseteq Replies
  BY <1>1, ShorterLines DEF Replies
<1>3. PICK shift \in {0, 1} : \A i \in 1 .. Len(toDevice') :
          i + shift \in 1 .. Len(toDevice) /\ toDevice'[i] = toDevice[i + shift]
  BY <1>1, ShorterLines
<1>4. Len(toDevice') \in Nat
  BY <1>1, ShorterLines
<1>5. ASSUME NEW i \in 1 .. Len(toDevice'), NEW j \in 1 .. Len(toDevice'), i < j,
             IsGreeting(toDevice'[i]), IsGreeting(toDevice'[j])
      PROVE  toDevice'[i].session < toDevice'[j].session
  <2>1. i + shift < j + shift
    BY <1>4, <1>5
  <2> QED
    BY <1>3, <1>5, <2>1 DEF GreetingsInOrder
<1> QED
  BY <1>2, <1>5 DEF GreetingsInOrder, IsGreeting

\* Nothing of the session is behind the outstanding request, once that request is
\* cancelled or the queue loses lines.
LEMMA LastStands ==
    ASSUME LinkTyped, ClientShape, PendingIsLast, Shorter(toHost', toHost),
           tx' \in {tx, NoLine, Noise},
           client'.negotiated = client.negotiated, client'.session = client.session,
           client'.pendingId \in {client.pendingId, 0}
    PROVE  PendingIsLast' /\ Sent' \subseteq Sent \cup {Noise}
<1>1. toHost \in Seq(RequestLines)
  BY DEF LinkTyped
<1>2. Sent' \subseteq Sent \cup {Noise}
  BY <1>1, ShorterLines DEF Sent
<1>3. PICK shift \in {0, 1} : \A i \in 1 .. Len(toHost') :
          i + shift \in 1 .. Len(toHost) /\ toHost'[i] = toHost[i + shift]
  BY <1>1, ShorterLines
<1>4. Len(toHost') \in Nat
  BY <1>1, ShorterLines
<1> DEFINE Mine(m) == client'.negotiated /\ m.session = client'.session
<1>5. ASSUME NEW m PROVE Mine(m) <=> InSession(m)
  BY DEF InSession
<1>6. ASSUME NEW m \in RequestLines, InSession(m) PROVE m.id # 0 /\ m # Noise
  <2>1. m.session \in Sessions /\ NoSession \notin Sessions
    BY <1>6 DEF InSession, ClientShape
  <2> QED
    BY <2>1, LineShapes DEF LaterIds, Ids, Noise
<1>7. ASSUME NEW i \in 1 .. Len(toHost'), Mine(toHost'[i]), toHost'[i].id = client'.pendingId
      PROVE  /\ \A j \in 1 .. Len(toHost') : i < j => ~Mine(toHost'[j])
             /\ tx' # NoLine => ~Mine(tx')
  <2>1. /\ InSession(toHost[i + shift]) /\ toHost[i + shift] \in RequestLines
        /\ i + shift \in 1 .. Len(toHost) /\ toHost'[i] = toHost[i + shift]
    BY <1>1, <1>3, <1>5, <1>7
  <2>2. toHost[i + shift].id = client.pendingId
    BY <1>6, <1>7, <2>1
  <2>3. /\ \A j \in 1 .. Len(toHost) : i + shift < j => ~InSession(toHost[j])
        /\ tx # NoLine => ~InSession(tx)
    BY <2>1, <2>2 DEF PendingIsLast
  <2>4. ASSUME NEW j \in 1 .. Len(toHost'), i < j PROVE ~Mine(toHost'[j])
    <3>1. j + shift \in 1 .. Len(toHost) /\ toHost'[j] = toHost[j + shift] /\ i + shift < j + shift
      BY <1>3, <1>4, <2>4
    <3> QED
      BY <1>5, <2>3, <3>1
  <2>5. tx' # NoLine => ~Mine(tx')
    BY <1>5, <1>6, <2>3, NoiseIsLine
  <2> QED
    BY <2>4, <2>5
<1> QED
  BY <1>2, <1>7 DEF PendingIsLast, InSession

-----------------------------------------------------------------------------
\* Of a session the client keeps, lines get lost, requests are given up, and host
\* processes come and go.
LEMMA LinesStand ==
    ASSUME LinkTyped, ClientShape, LineInv,
           Sent' \subseteq Sent \cup {Noise}, Replies' \subseteq Replies,
           GreetingsInOrder', PendingIsLast',
           client'.negotiated = client.negotiated, client'.session = client.session,
           client'.nextId = client.nextId, client'.pendingId \in {client.pendingId, 0},
           host' \in {host, Serving(host.session + 1)}, image' = image,
           operation' \in {operation, NoOperation},
           state' = "AwaitingResponse" =>
               state = "AwaitingResponse" /\ operation' = operation
                 /\ client'.pendingId = client.pendingId,
           state' = "Idle" /\ state # "Idle" => \A m \in Sent : ~InSession(m)
    PROVE  LineInv'
<1> USE DEF LineInv
<1>1. Sent \subseteq RequestLines /\ Replies \subseteq Answers
  BY LinesAreTyped
<1>2. ASSUME NEW m PROVE InSession(m)' <=> InSession(m)
  BY DEF InSession
<1>3. Noise.session \notin Sessions /\ ~InSession(Noise)
  BY DEF Noise, InSession, ClientShape
<1>4. \A m \in Sent' : m.session \in Sessions \/ InSession(m) => m \in Sent
  BY <1>3
<1>5. ASSUME NEW r \in Replies, AnswersPending(r)' PROVE AnswersPending(r)
  <2>1. r.kind = "OK" /\ IsReply(r) /\ InSession(r) /\ r.id = client'.pendingId
    BY <1>2, <1>5 DEF AnswersPending, IsReply
  <2>2. r.id # 0
    BY <1>1, <2>1, AnswerShapes
  <2> QED
    BY <2>1, <2>2 DEF AnswersPending
<1>6. SessionsOpened'
  <2>1. host.session \in Nat /\ \A s \in Sessions : s \in Nat
    BY DEF LinkTyped
  <2>2. \A s \in Sessions : Opened(s) => Opened(s)'
    BY <2>1 DEF Opened, Serving
  <2>3. \A m : m \in Sent' /\ m.session \in Sessions => Opened(m.session)'
    BY <1>4, <2>2 DEF SessionsOpened
  <2>4. \A r : r \in Replies' /\ r.kind = "OK" => Opened(r.session)'
    BY <1>1, <2>2 DEF SessionsOpened, Answers
  <2>5. ASSUME client.negotiated PROVE Opened(client.session)'
    <3>1. client.session \in Sessions /\ Opened(client.session) /\ client'.session = client.session
      BY <2>5 DEF ClientShape, SessionsOpened
    <3> QED
      BY <2>2, <3>1 DEF Opened
  <2> QED
    BY <2>3, <2>4, <2>5 DEF SessionsOpened
<1>7. GreetingsAreNew'
  BY <1>4 DEF GreetingsAreNew, IsGreeting, IsReply
<1>8. SessionIsNewest'
  BY <1>4 DEF SessionIsNewest
<1>9. IdsAreSpent'
  <2>1. \A id : Spent(id)' <=> Spent(id)
    BY DEF Spent
  <2>2. \A m : m \in Sent' /\ InSession(m)' => Spent(m.id)'
    BY <1>2, <1>4, <2>1 DEF IdsAreSpent
  <2>3. \A r : r \in Replies' /\ IsReply(r) /\ InSession(r)' => Spent(r.id)'
    BY <1>2, <2>1 DEF IdsAreSpent
  <2> QED
    BY <2>2, <2>3 DEF IdsAreSpent, IsReply
<1>10. AnsweredIsAlone'
  <2>1. ASSUME NEW r, r \in Replies', AnswersPending(r)', NEW m, m \in Sent' PROVE ~InSession(m)'
    BY <1>2, <1>4, <1>5, <2>1 DEF AnsweredIsAlone
  <2> QED
    BY <2>1 DEF AnsweredIsAlone
<1>11. TransfersAreCurrent'
  <2>1. ASSUME NEW m, m \in Sent', InSession(m)', IsTransfer(m)
        PROVE  state' # "Idle" /\ (operation' # NoOperation => m.op = operation')
    BY <1>2, <1>4, <2>1 DEF TransfersAreCurrent
  <2> QED
    BY <2>1 DEF TransfersAreCurrent, IsTransfer
<1>12. PendingIsTransfer'
  <2>1. ASSUME state' = "AwaitingResponse", NEW m, m \in Sent', InSession(m)', m.id = client'.pendingId
        PROVE  IsTransfer(m)
    BY <1>2, <1>4, <2>1 DEF PendingIsTransfer
  <2> QED
    BY <2>1 DEF PendingIsTransfer, IsTransfer
<1>13. AnswerIsCurrent'
  <2>1. ASSUME state' = "AwaitingResponse", NEW r, r \in Replies', AnswersPending(r)'
        PROVE  TellsTheImage(r)'
    <3>1. TellsTheImage(r)
      BY <1>5, <2>1 DEF AnswerIsCurrent
    <3> QED
      BY <2>1, <3>1 DEF TellsTheImage
  <2> QED
    BY <2>1 DEF AnswerIsCurrent
<1> QED
  BY <1>6, <1>7, <1>8, <1>9, <1>10, <1>11, <1>12, <1>13

\* Outside a session only the greetings matter.
LEMMA LinesOutOfSession ==
    ASSUME LinkTyped, LineInv,
           \A m \in Sent' : m \in Sent \/ m.session \notin Sessions,
           Replies' \subseteq Replies, GreetingsInOrder',
           ~client'.negotiated, host' = host
    PROVE  LineInv'
<1> USE DEF LineInv
<1>1. \A s : Opened(s)' <=> Opened(s)
  BY DEF Opened
<1>2. SessionsOpened'
  <2>1. \A m : m \in Sent' /\ m.session \in Sessions => Opened(m.session)'
    BY <1>1 DEF SessionsOpened
  <2>2. \A r : r \in Replies' /\ r.kind = "OK" => Opened(r.session)'
    BY <1>1 DEF SessionsOpened
  <2> QED
    BY <2>1, <2>2 DEF SessionsOpened, Opened
<1>3. GreetingsAreNew'
  BY DEF GreetingsAreNew, IsGreeting, IsReply
<1>4. SessionIsNewest' /\ IdsAreSpent' /\ PendingIsLast'
  BY DEF SessionIsNewest, IdsAreSpent, PendingIsLast, InSession
<1>5. AnsweredIsAlone' /\ TransfersAreCurrent' /\ PendingIsTransfer' /\ AnswerIsCurrent'
  BY DEF AnsweredIsAlone, TransfersAreCurrent, PendingIsTransfer, AnswerIsCurrent,
     AnswersPending, InSession
<1> QED
  BY <1>2, <1>3, <1>4, <1>5

\* A greeting opens a session that no line under way belongs to.
LEMMA LinesOfNewSession ==
    ASSUME LinkTyped, LineInv, toDevice # <<>>, toDevice' = Tail(toDevice),
           UNCHANGED <<toHost, tx, host>>, GreetingsInOrder',
           IsGreeting(Head(toDevice)), Head(toDevice).session \in Sessions,
           client'.negotiated, client'.session = Head(toDevice).session
    PROVE  LineInv'
<1> USE DEF LineInv
<1> DEFINE g == Head(toDevice)
           s == g.session
<1>1. /\ toDevice \in Seq(Answers) /\ Sent \subseteq RequestLines
      /\ Replies \subseteq Answers
  BY LinesAreTyped DEF LinkTyped
<1>2. g \in Replies /\ Replies' \subseteq Replies /\ Sent' = Sent
  BY <1>1, TailLines DEF Replies, Sent
<1>3. s \in Nat /\ \A t \in Sessions : t \in Nat
  OBVIOUS
<1>4. /\ \A m \in Sent : m.session \in Sessions => m.session < s
      /\ \A r \in Replies : IsReply(r) => r.session < s
  BY <1>2 DEF GreetingsAreNew
<1>5. \A m \in Sent : ~InSession(m)'
  BY <1>3, <1>4 DEF InSession
<1>6. \A r \in Replies : IsReply(r) => r.session \in Sessions
  BY <1>1 DEF IsReply, Answers
<1>7. \A r \in Replies : IsReply(r) => ~InSession(r)'
  BY <1>3, <1>4, <1>6 DEF InSession
<1>8. SessionsOpened'
  <2>1. \A t : Opened(t)' <=> Opened(t)
    BY DEF Opened
  <2>2. Opened(s)
    BY <1>2 DEF SessionsOpened, IsGreeting
  <2>3. \A r : r \in Replies' /\ r.kind = "OK" => Opened(r.session)'
    BY <1>2, <2>1 DEF SessionsOpened
  <2>4. \A m : m \in Sent' /\ m.session \in Sessions => Opened(m.session)'
    BY <1>2, <2>1 DEF SessionsOpened
  <2>5. Opened(client.session)'
    BY <2>2 DEF Opened
  <2> QED
    BY <2>3, <2>4, <2>5 DEF SessionsOpened
<1>9. GreetingsAreNew'
  <2>1. ASSUME NEW r, r \in Replies', IsGreeting(r) PROVE s < r.session
    <3>1. PICK i \in 1 .. Len(toDevice') : r = toDevice'[i]
      BY <2>1 DEF Replies, Lines
    <3>2. /\ r = toDevice[i + 1] /\ g = toDevice[1] /\ 1 < i + 1
          /\ 1 \in 1 .. Len(toDevice) /\ i + 1 \in 1 .. Len(toDevice)
      BY <1>1, <3>1, TailLines
    <3> QED
      BY <2>1, <3>2 DEF GreetingsInOrder
  <2>2. ASSUME NEW r, r \in Replies', IsGreeting(r)
        PROVE  /\ \A m \in Sent' : m.session \in Sessions => m.session < r.session
               /\ \A reply \in Replies' : IsReply(reply) => reply.session < r.session
               /\ client'.session < r.session
    BY <1>2, <2>1, <2>2 DEF GreetingsAreNew
  <2> QED
    BY <2>2 DEF GreetingsAreNew, IsGreeting, IsReply
<1>10. SessionIsNewest'
  <2>1. ASSUME NEW m \in Sent, m.session \in Sessions PROVE m.session <= s
    <3>1. m.session \in Nat /\ m.session < s
      BY <1>3, <1>4, <2>1
    <3> QED
      BY <1>3, <3>1
  <2> QED
    BY <1>2, <2>1 DEF SessionIsNewest
<1>11. IdsAreSpent' /\ TransfersAreCurrent' /\ PendingIsTransfer'
  <2>1. IdsAreSpent'
    BY <1>2, <1>5, <1>7 DEF IdsAreSpent, IsReply
  <2> QED
    BY <1>2, <1>5, <2>1 DEF TransfersAreCurrent, PendingIsTransfer
<1>12. AnsweredIsAlone' /\ AnswerIsCurrent'
  <2>1. \A r : r \in Replies' => ~AnswersPending(r)'
    BY <1>2, <1>7 DEF AnswersPending, IsReply
  <2> QED
    BY <2>1 DEF AnsweredIsAlone, AnswerIsCurrent
<1>13. PendingIsLast'
  <2>1. \A i \in 1 .. Len(toHost) : toHost[i] \in Sent
    BY DEF Sent, Lines
  <2>2. \A i \in 1 .. Len(toHost') : ~(client'.negotiated /\ toHost'[i].session = client'.session)
    BY <1>5, <2>1 DEF InSession
  <2> QED
    BY <2>2 DEF PendingIsLast, InSession
<1> QED
  BY <1>8, <1>9, <1>10, <1>11, <1>12, <1>13

\* A line leaves the transmit buffer for the queue, and is under way still.
LEMMA LineLeaves ==
    ASSUME LinkTyped, PendingIsLast, tx # NoLine, toHost' = Append(toHost, tx), tx' = NoLine,
           UNCHANGED client
    PROVE  PendingIsLast' /\ Sent' = Sent
<1>1. /\ Lines(toHost') = Lines(toHost) \cup {tx}
      /\ Len(toHost') = Len(toHost) + 1 /\ Len(toHost) \in Nat
      /\ \A i \in 1 .. Len(toHost) : toHost'[i] = toHost[i]
      /\ toHost'[Len(toHost) + 1] = tx
  BY AppendLines DEF LinkTyped
<1>2. Sent' = Sent
  BY <1>1 DEF Sent
<1> DEFINE Mine(m) == client'.negotiated /\ m.session = client'.session
<1>3. ASSUME NEW i \in 1 .. Len(toHost'), Mine(toHost'[i]), toHost'[i].id = client'.pendingId,
             NEW j \in 1 .. Len(toHost'), i < j
      PROVE  ~Mine(toHost'[j])
  <2>1. i \in 1 .. Len(toHost)
    BY <1>1, <1>3
  <2>2. InSession(toHost[i]) /\ toHost[i].id = client.pendingId
    BY <1>1, <1>3, <2>1 DEF InSession
  <2>3. /\ \A k \in 1 .. Len(toHost) : i < k => ~InSession(toHost[k])
        /\ ~InSession(tx)
    BY <2>1, <2>2 DEF PendingIsLast
  <2>4. CASE j \in 1 .. Len(toHost)
    BY <1>1, <1>3, <2>3, <2>4 DEF InSession
  <2>5. CASE j \notin 1 .. Len(toHost)
    <3>1. j = Len(toHost) + 1
      BY <1>1, <2>5
    <3> QED
      BY <1>1, <2>3, <3>1 DEF InSession
  <2> QED
    BY <2>4, <2>5
<1> QED
  BY <1>2, <1>3 DEF PendingIsLast, InSession

\* A request of the session spends the next id: no line and no answer has it yet.
LEMMA LinesSpend ==
    ASSUME BackendInv, LinkTyped, ClientShape, LineInv, CanRequest(client),
           client' \in {ReserveRequest(client, FALSE),
                        CancelPending(ReserveRequest(client, FALSE))},
           UNCHANGED <<toHost, toDevice, host>>,
           \/ tx' = tx
           \/ /\ tx = NoLine /\ tx'.session = client.session /\ tx'.id = client.nextId
              /\ state' = "AwaitingResponse" => IsTransfer(tx'),
           TransfersAreCurrent'
    PROVE  LineInv'
<1> USE DEF LineInv
<1> DEFINE id == client.nextId
<1>1. /\ id \in Nat /\ id # 0 /\ client.negotiated /\ client.session \in Sessions
      /\ client.session \in Nat
  <2>1. id \in LaterIds /\ client.session \in Sessions
    BY ReserveMoves
  <2>2. client.negotiated
    BY DEF CanRequest
  <2>3. id \in Nat /\ id # 0
    BY <2>1 DEF LaterIds, Ids
  <2> QED
    BY <2>1, <2>2, <2>3
<1>2. /\ client'.nextId = NextId(id) /\ client'.negotiated = client.negotiated
      /\ client'.session = client.session /\ client'.pendingId \in {id, 0}
  BY DEF ReserveRequest, CancelPending
<1>3. client'.nextId = 0 \/ id < client'.nextId
  BY <1>1, <1>2 DEF NextId
<1>4. /\ Sent \subseteq RequestLines /\ Replies \subseteq Answers
      /\ \A m \in Sent : m.id \in Nat /\ (m.session \in Sessions => m.id # 0)
      /\ \A r \in Replies : r.kind = "OK" => r.id \in Nat /\ r.id # 0
  <2>1. Sent \subseteq RequestLines /\ Replies \subseteq Answers
    BY LinesAreTyped
  <2>2. LaterIds \subseteq Nat \ {0} /\ Ids \subseteq Nat
    BY DEF LaterIds, Ids
  <2> QED
    BY <2>1, <2>2, LineShapes, AnswerShapes
<1>5. ASSUME NEW m PROVE InSession(m)' <=> InSession(m)
  BY <1>1, <1>2 DEF InSession
<1>6. Replies' = Replies /\ (\A m : m \in Sent' => m \in Sent \/ m = tx')
  BY DEF Replies, Sent
<1>7. \A m : m \in Sent' /\ m \notin Sent =>
          m.session = client.session /\ m.id = id /\ (state' = "AwaitingResponse" => IsTransfer(m))
  <2>1. CASE tx' = tx
    BY <2>1 DEF Sent
  <2>2. CASE tx' # tx
    BY <1>6, <2>2
  <2> QED
    BY <2>1, <2>2
<1>8. /\ \A m \in Sent : InSession(m) => m.id < id
      /\ \A r \in Replies : IsReply(r) /\ InSession(r) => r.id < id
  BY <1>1 DEF IdsAreSpent, Spent
<1>9. ASSUME NEW n \in Nat, n <= id PROVE Spent(n)'
  BY <1>1, <1>2, <1>3, <1>9 DEF Spent, NextId
<1>10. SessionsOpened'
  <2>1. \A s : Opened(s)' <=> Opened(s)
    BY DEF Opened
  <2>2. Opened(client.session)
    BY <1>1 DEF SessionsOpened
  <2>3. Opened(client.session)'
    BY <1>2, <2>2 DEF Opened
  <2>4. \A m : m \in Sent' /\ m.session \in Sessions => Opened(m.session)'
    BY <1>7, <2>1, <2>2 DEF SessionsOpened
  <2>5. \A r : r \in Replies' /\ r.kind = "OK" => Opened(r.session)'
    BY <1>6, <2>1 DEF SessionsOpened
  <2> QED
    BY <2>3, <2>4, <2>5 DEF SessionsOpened
<1>11. GreetingsAreNew'
  <2>1. ASSUME NEW g \in Replies, IsGreeting(g)
        PROVE  /\ \A m : m \in Sent' /\ m.session \in Sessions => m.session < g.session
               /\ \A r \in Replies : IsReply(r) => r.session < g.session
               /\ client'.session < g.session
    BY <1>1, <1>2, <1>7, <2>1 DEF GreetingsAreNew
  <2> QED
    BY <1>6, <2>1 DEF GreetingsAreNew, IsGreeting, IsReply
<1>12. GreetingsInOrder'
  BY DEF GreetingsInOrder, IsGreeting
<1>13. SessionIsNewest'
  <2>1. \A m : m \in Sent' /\ m.session \in Sessions => m.session <= client.session
    BY <1>1, <1>7 DEF SessionIsNewest
  <2> QED
    BY <1>2, <2>1 DEF SessionIsNewest
<1>14. IdsAreSpent'
  <2>1. ASSUME NEW m, m \in Sent', InSession(m)' PROVE Spent(m.id)'
    <3>1. m.id \in Nat /\ m.id <= id
      BY <1>1, <1>4, <1>5, <1>7, <1>8, <2>1
    <3> QED
      BY <1>9, <3>1
  <2>2. ASSUME NEW r \in Replies, IsReply(r), InSession(r)' PROVE Spent(r.id)'
    <3>1. r.id \in Nat /\ r.id <= id
      BY <1>1, <1>4, <1>5, <1>8, <2>2 DEF IsReply
    <3> QED
      BY <1>9, <3>1
  <2> QED
    BY <1>6, <2>1, <2>2 DEF IdsAreSpent, IsReply
<1>15. \A m \in Sent : InSession(m) => m.id # client'.pendingId
  BY <1>1, <1>2, <1>4, <1>8 DEF InSession
<1>16. PendingIsLast'
  <2>1. \A i \in 1 .. Len(toHost) : toHost[i] \in Sent
    BY DEF Sent, Lines
  <2>2. \A i \in 1 .. Len(toHost') :
            ~(client'.negotiated /\ toHost'[i].session = client'.session
                /\ toHost'[i].id = client'.pendingId)
    BY <1>1, <1>2, <1>15, <2>1 DEF InSession
  <2> QED
    BY <2>2 DEF PendingIsLast, InSession
<1>17. AnsweredIsAlone' /\ AnswerIsCurrent'
  <2>1. ASSUME NEW r \in Replies PROVE ~AnswersPending(r)'
    <3>1. IsReply(r) /\ InSession(r) => r.id < id /\ r.id \in Nat /\ r.id # 0
      BY <1>4, <1>8 DEF IsReply
    <3>2. IsReply(r) /\ InSession(r) => r.id # client'.pendingId
      BY <1>1, <1>2, <3>1
    <3> QED
      BY <1>5, <3>2 DEF AnswersPending, IsReply
  <2> QED
    BY <1>6, <2>1 DEF AnsweredIsAlone, AnswerIsCurrent
<1>18. PendingIsTransfer'
  <2>1. ASSUME state' = "AwaitingResponse", NEW m, m \in Sent', InSession(m)',
               m.id = client'.pendingId
        PROVE  IsTransfer(m)
    BY <1>5, <1>7, <1>15, <2>1
  <2> QED
    BY <2>1 DEF PendingIsTransfer, IsTransfer
<1> QED
  BY <1>10, <1>11, <1>12, <1>13, <1>14, <1>16, <1>17, <1>18

-----------------------------------------------------------------------------
LEMMA ReadySlots ==
    ASSUME BackendInv, NEW h \in Holding(pool, {"Ready"})
    PROVE  /\ h \in Handles /\ h \in Used(pool)
           /\ pool.slots[h].state = "Ready"
           /\ pool.slots[h].lba \in Lbas /\ pool.slots[h].generation = media
<1>1. h \in Handles /\ h \in Used(pool) /\ pool.slots[h].state = "Ready"
  BY DEF Holding, Used
<1>2. pool \in Pools
  BY DEF BackendInv, PoolInv
<1>3. pool.slots[h] \in Slots
  BY <1>1, <1>2 DEF Pools
<1> QED
  BY <1>1, <1>3 DEF Slots, FreeSlot, BackendInv, PoolInv, CurrentMediumOnly

\* The session of the host that serves is the one of a client that has a session.
LEMMA OnlySession ==
    ASSUME LinkTyped, ClientShape, LineInv, client.negotiated,
           NEW m \in Sent, m.session \in Sessions, m.session = host.session
    PROVE  InSession(m)
<1>1. client.session \in Nat /\ host.session \in Nat
  BY DEF ClientShape
<1>2. m.session <= client.session
  BY DEF LineInv, SessionIsNewest
<1>3. client.session <= host.session
  BY DEF LineInv, SessionsOpened, Opened
<1> QED
  BY <1>1, <1>2, <1>3 DEF InSession

\* What one more answer on its way has to satisfy.
LEMMA AnswerJoins ==
    ASSUME LinkTyped, LineInv, UNCHANGED <<client, state, operation>>,
           Sent' \subseteq Sent, PendingIsLast', GreetingsInOrder', AnswerIsCurrent',
           NEW a \in Answers, Replies' = Replies \cup {a},
           \A s : Opened(s) => Opened(s)',
           a.kind = "OK" => Opened(a.session)',
           IsGreeting(a) =>
               /\ \A m \in Sent : m.session \in Sessions => m.session < a.session
               /\ \A r \in Replies : IsReply(r) => r.session < a.session
               /\ client.negotiated => client.session < a.session,
           IsReply(a) =>
               /\ \A g \in Replies : IsGreeting(g) => a.session < g.session
               /\ InSession(a) => Spent(a.id)
               /\ AnswersPending(a) => \A m : m \in Sent' => ~InSession(m)
    PROVE  LineInv'
<1> USE DEF LineInv
<1>1. /\ \A m : InSession(m)' <=> InSession(m)
      /\ \A r : AnswersPending(r)' <=> AnswersPending(r)
      /\ \A id : Spent(id)' <=> Spent(id)
      /\ ~(IsGreeting(a) /\ IsReply(a))
  BY DEF InSession, AnswersPending, Spent, IsReply, IsGreeting
<1>2. SessionsOpened'
  <2>1. \A m : m \in Sent' /\ m.session \in Sessions => Opened(m.session)'
    BY DEF SessionsOpened
  <2>2. \A r : r \in Replies' /\ r.kind = "OK" => Opened(r.session)'
    BY DEF SessionsOpened
  <2>3. ASSUME client.negotiated PROVE Opened(client.session)'
    <3>1. client'.session = client.session /\ Opened(client.session)
      BY <2>3 DEF SessionsOpened
    <3> QED
      BY <3>1 DEF Opened
  <2> QED
    BY <2>1, <2>2, <2>3 DEF SessionsOpened
<1>3. GreetingsAreNew'
  <2>1. ASSUME NEW g, g \in Replies', IsGreeting(g)
        PROVE  /\ \A m \in Sent : m.session \in Sessions => m.session < g.session
               /\ \A r : r \in Replies' /\ IsReply(r) => r.session < g.session
               /\ client.negotiated => client.session < g.session
    <3>1. CASE g \in Replies
      BY <1>1, <2>1, <3>1 DEF GreetingsAreNew
    <3>2. CASE g \notin Replies
      BY <1>1, <2>1, <3>2
    <3> QED
      BY <3>1, <3>2
  <2> QED
    BY <2>1 DEF GreetingsAreNew, IsGreeting, IsReply
<1>4. SessionIsNewest'
  BY DEF SessionIsNewest
<1>5. IdsAreSpent'
  <2>1. \A m : m \in Sent' /\ InSession(m) => Spent(m.id)'
    BY <1>1 DEF IdsAreSpent
  <2>2. \A r : r \in Replies' /\ IsReply(r) /\ InSession(r) => Spent(r.id)'
    BY <1>1 DEF IdsAreSpent
  <2> QED
    BY <1>1, <2>1, <2>2 DEF IdsAreSpent, IsReply
<1>6. AnsweredIsAlone'
  <2>1. ASSUME NEW r, r \in Replies', AnswersPending(r), NEW m, m \in Sent'
        PROVE  ~InSession(m)
    BY <2>1 DEF AnsweredIsAlone, AnswersPending
  <2> QED
    BY <1>1, <2>1 DEF AnsweredIsAlone
<1>7. TransfersAreCurrent' /\ PendingIsTransfer'
  <2>1. TransfersAreCurrent'
    BY <1>1 DEF TransfersAreCurrent, IsTransfer
  <2>2. PendingIsTransfer'
    BY <1>1 DEF PendingIsTransfer, IsTransfer
  <2> QED
    BY <2>1, <2>2
<1> QED
  BY <1>2, <1>3, <1>4, <1>5, <1>6, <1>7

\* An answer that is not a greeting leaves the greetings in order; a greeting is
\* the last one.
LEMMA OrderJoins ==
    ASSUME LinkTyped, GreetingsInOrder, NEW a, toDevice' = Append(toDevice, a),
           IsGreeting(a) => \A g \in Replies : IsGreeting(g) => g.session < a.session
    PROVE  GreetingsInOrder' /\ Replies' = Replies \cup {a}
<1>1. /\ Lines(toDevice') = Lines(toDevice) \cup {a}
      /\ Len(toDevice') = Len(toDevice) + 1 /\ Len(toDevice) \in Nat
      /\ \A i \in 1 .. Len(toDevice) : toDevice'[i] = toDevice[i]
      /\ toDevice'[Len(toDevice) + 1] = a
  BY AppendLines DEF LinkTyped
<1>2. ASSUME NEW i \in 1 .. Len(toDevice'), NEW j \in 1 .. Len(toDevice'), i < j,
             IsGreeting(toDevice'[i]), IsGreeting(toDevice'[j])
      PROVE  toDevice'[i].session < toDevice'[j].session
  <2>1. i \in 1 .. Len(toDevice) /\ toDevice[i] \in Replies
    BY <1>1, <1>2 DEF Replies, Lines
  <2>2. CASE j \in 1 .. Len(toDevice)
    BY <1>1, <1>2, <2>1, <2>2 DEF GreetingsInOrder
  <2>3. CASE j \notin 1 .. Len(toDevice)
    <3>1. j = Len(toDevice) + 1
      BY <1>1, <2>3
    <3> QED
      BY <1>1, <1>2, <2>1, <3>1
  <2> QED
    BY <2>2, <2>3
<1> QED
  BY <1>1, <1>2 DEF GreetingsInOrder, IsGreeting, Replies

\* The line the host takes next is the only one left of its session if it is the
\* outstanding request.
LEMMA PendingIsTaken ==
    ASSUME LinkTyped, PendingIsLast, toHost # <<>>, toHost' = Tail(toHost), UNCHANGED tx,
           InSession(Head(toHost)), Head(toHost).id = client.pendingId
    PROVE  \A m : m \in Sent' => ~InSession(m)
<1>1. toHost \in Seq(RequestLines)
  BY DEF LinkTyped
<1>2. /\ \A j \in 1 .. Len(toHost) : 1 < j => ~InSession(toHost[j])
      /\ tx # NoLine => ~InSession(tx)
  BY <1>1, TailLines DEF PendingIsLast
<1>3. ASSUME NEW i \in 1 .. Len(toHost') PROVE ~InSession(toHost'[i])
  <2>1. toHost'[i] = toHost[i + 1] /\ i + 1 \in 1 .. Len(toHost) /\ 1 < i + 1
    BY <1>1, TailLines
  <2> QED
    BY <1>2, <2>1
<1>4. ASSUME NEW m, m \in Sent' PROVE ~InSession(m)
  <2>1. (tx # NoLine /\ m = tx) \/ \E i \in 1 .. Len(toHost') : m = toHost'[i]
    BY <1>4 DEF Sent, Lines
  <2> QED
    BY <1>2, <1>3, <2>1
<1> QED
  BY <1>4

\* dispatch() accepts HELLO only as the first request of its process, and any
\* other request only in the session of that process.
LEMMA HelloIsStale ==
    ASSUME LinkTyped, NEW m \in RequestLines, m.kind = "HELLO", host.established
    PROVE  IsStale(m)
<1>1. m.id = 1 /\ host.lastId \in Nat /\ host.lastId # 0
  BY LineShapes DEF LinkTyped
<1> QED
  BY <1>1 DEF IsStale

LEMMA AcceptedLine ==
    ASSUME LinkTyped, NEW m \in RequestLines, Refusal(m) = ""
    PROVE  /\ m.kind # "NOISE"
           /\ m.kind = "HELLO" => ~host.established
           /\ m.kind # "HELLO" => host.established /\ m.session = host.session
<1>1. m.kind # "NOISE"
  BY Zenon DEF Refusal
<1>2. ASSUME m.kind = "HELLO", host.established PROVE FALSE
  BY <1>2, HelloIsStale, Zenon DEF Refusal
<1>3. ASSUME m.kind # "HELLO" PROVE host.established /\ m.session = host.session
  BY <1>1, <1>3, Zenon DEF Refusal
<1> QED
  BY <1>1, <1>2, <1>3, Zenon

\* The host answers one request: the answer tells the image as it is then, and no
\* sector changes that the pool holds ready.
LEMMA DispatchKeeps ==
    ASSUME LinkInv, Dispatch
    PROVE  LineInv' /\ WritesAreUncached' /\ CoherentCache'
<1> USE DEF LinkInv, ServiceInv
<1>1. /\ connected /\ toHost # <<>> /\ toHost' = Tail(toHost)
      /\ UNCHANGED <<client, state, operation, pool, tx>>
  <2>1. connected /\ toHost # <<>> /\ toHost' = Tail(toHost) /\ UNCHANGED <<allVars, tx>>
    BY Zenon DEF Dispatch
  <2> QED
    BY <2>1 DEF allVars, vars
<1> DEFINE m == Head(toHost)
           Refused == Refusal(m) # ""
<1> HIDE DEF Refused
<1>2. m \in RequestLines /\ m \in Sent /\ host.session \in Sessions
  <2>1. toHost \in Seq(RequestLines) /\ host.session \in Sessions
    BY <1>1 DEF LinkTyped
  <2> QED
    BY <1>1, <2>1, TailLines, HeadAndTail DEF Sent
<1>3. Sent' \subseteq Sent /\ PendingIsLast'
  <2>1. Shorter(toHost', toHost) /\ tx' \in {tx, NoLine, Noise}
    BY <1>1 DEF Shorter
  <2>2. PendingIsLast'
    BY <1>1, <2>1, LastStands DEF LineInv
  <2>3. Lines(toHost') \subseteq Lines(toHost)
    BY <1>1, TailLines DEF LinkTyped
  <2> QED
    BY <1>1, <2>2, <2>3 DEF Sent
<1>4. /\ \A x : InSession(x)' <=> InSession(x)
      /\ \A r : AnswersPending(r)' <=> AnswersPending(r)
  BY <1>1 DEF InSession, AnswersPending, IsReply
<1>5. CASE Refused
  <2> DEFINE a == Err(m.id, Refusal(m))
  <2>1. toDevice' = Append(toDevice, a) /\ UNCHANGED <<host, image>>
    BY <1>5, Zenon DEF Dispatch, hostVars, Refused
  <2>2. a.kind = "ERR" /\ ~IsGreeting(a) /\ ~IsReply(a)
    BY DEF Err, IsGreeting, IsReply
  <2>3. a \in Answers
    <3>1. toDevice' \in Seq(Answers)
      BY HostStepStands DEF LinkTyped
    <3>2. Lines(toDevice') \subseteq Answers /\ Lines(toDevice') = Lines(toDevice) \cup {a}
      BY <2>1, <3>1, AppendLines DEF Lines, LinkTyped
    <3> QED
      BY <3>2
  <2> HIDE DEF a
  <2>4. GreetingsInOrder' /\ Replies' = Replies \cup {a}
    BY <2>1, <2>2, OrderJoins DEF LineInv
  <2>5. AnswerIsCurrent'
    <3>1. \A r : TellsTheImage(r)' <=> TellsTheImage(r)
      BY <1>1, <2>1 DEF TellsTheImage
    <3>2. \A r : r \in Replies' /\ AnswersPending(r) => r \in Replies
      BY <2>2, <2>4 DEF AnswersPending
    <3> QED
      BY <1>1, <1>4, <3>1, <3>2 DEF LineInv, AnswerIsCurrent
  <2>6. \A s : Opened(s) => Opened(s)'
    BY <2>1 DEF Opened
  <2>7. LineInv'
    BY <1>1, <1>3, <2>2, <2>3, <2>4, <2>5, <2>6, AnswerJoins
  <2>8. WritesAreUncached'
    BY <1>1, <1>3, <2>1 DEF WritesAreUncached
  <2>9. CoherentCache'
    BY <1>1, <2>1 DEF CoherentCache
  <2> QED
    BY <2>7, <2>8, <2>9
<1>6. CASE ~Refused
  <2>1. PICK outcome \in Outcomes(m) :
            toDevice' = Append(toDevice, outcome.answer) /\ image' = outcome.image
    BY <1>6, Zenon DEF Dispatch, Refused
  <2>2. host' = [host EXCEPT !.established = TRUE, !.lastId = m.id]
    BY <1>6, Zenon DEF Dispatch, Refused
  <2>3. /\ m.kind # "NOISE"
        /\ m.kind = "HELLO" => ~host.established
        /\ m.kind # "HELLO" => host.established /\ m.session = host.session
    BY <1>2, <1>6, AcceptedLine, Zenon DEF Refused
  <2> DEFINE a == outcome.answer
  <2>4. /\ a \in Answers
        /\ a.id = m.id
        /\ a.kind = "OK" => a.session = host.session
        /\ m.kind # "WRITE_BLOCKS" => image' = image
        /\ m.kind = "READ_BLOCKS" /\ a.kind = "OK" =>
               a.body = BlockBody(m.op.lba, image[m.op.lba])
        /\ m.kind = "WRITE_BLOCKS" =>
               /\ image' \in {image, [image EXCEPT ![m.op.lba] = m.op.data]}
               /\ a.kind = "OK" => image' = [image EXCEPT ![m.op.lba] = m.op.data]
    BY <1>2, <2>1, <2>3, OutcomeShapes
  <2> HIDE DEF a
  <2>5. host'.session = host.session /\ host'.established = TRUE
    BY <2>2 DEF LinkTyped
  <2>6. \A s : Opened(s) => Opened(s)'
    BY <2>5 DEF Opened
  <2>7. ASSUME a.kind = "OK" PROVE Opened(a.session)'
    <3>1. a.session = host.session /\ host.session \in Nat
      BY <2>4, <2>7 DEF LinkTyped
    <3> QED
      BY <2>5, <3>1 DEF Opened
  <2>8. WritesAreUncached'
    BY <1>1, <1>3, <2>5 DEF WritesAreUncached
  <2>9. CoherentCache'
    <3>1. CASE m.kind # "WRITE_BLOCKS"
      BY <1>1, <2>4, <3>1 DEF CoherentCache
    <3>2. CASE m.kind = "WRITE_BLOCKS"
      <4>1. m.session = host.session
        BY <2>3, <3>2
      <4>2. \A h \in Holding(pool, {"Ready"}) : pool.slots[h].lba # m.op.lba
        BY <1>2, <3>2, <4>1 DEF WritesAreUncached
      <4>3. \A lba \in Lbas : lba # m.op.lba => image'[lba] = image[lba]
        BY <2>4, <3>2 DEF LinkTyped
      <4>4. \A h \in Holding(pool, {"Ready"}) : pool.slots[h].lba \in Lbas
        BY ReadySlots
      <4> QED
        BY <1>1, <4>2, <4>3, <4>4 DEF CoherentCache
    <3> QED
      BY <3>1, <3>2
  <2>10. toDevice' = Append(toDevice, a)
    BY <2>1 DEF a
  <2>11. CASE m.kind = "HELLO"
    <3>1. m.id = 1 /\ ~IsReply(a) /\ image' = image /\ ~host.established
      BY <1>2, <2>3, <2>4, <2>11, LineShapes DEF IsReply
    <3>2. IsGreeting(a) => a.session = host.session
      BY <2>4 DEF IsGreeting
    <3>3. \A s \in Sessions : Opened(s) => s < host.session
      <4>1. \A s : Opened(s) => s <= host.session /\ s # host.session
        BY <3>1, Zenon DEF Opened
      <4>2. host.session \in Nat /\ \A s \in Sessions : s \in Nat
        BY <1>2
      <4> QED
        BY <4>1, <4>2
    <3>4. \A x \in Sent : x.session \in Sessions => x.session < host.session
      BY <3>3 DEF LineInv, SessionsOpened
    <3>5. \A r \in Replies : r.kind = "OK" => r.session < host.session
      BY <3>3, LinesAreTyped, AnswerShapes DEF LineInv, SessionsOpened
    <3>6. client.negotiated => client.session < host.session
      BY <3>3 DEF LineInv, SessionsOpened, ClientShape
    <3>7. GreetingsInOrder' /\ Replies' = Replies \cup {a}
      BY <2>10, <3>2, <3>5, OrderJoins DEF LineInv, IsGreeting
    <3>8. AnswerIsCurrent'
      <4>1. \A r : TellsTheImage(r)' <=> TellsTheImage(r)
        BY <1>1, <3>1 DEF TellsTheImage
      <4>2. \A r : r \in Replies' /\ AnswersPending(r) => r \in Replies
        BY <3>1, <3>7 DEF AnswersPending
      <4> QED
        BY <1>1, <1>4, <4>1, <4>2 DEF LineInv, AnswerIsCurrent
    <3>9. IsGreeting(a) =>
             /\ \A x \in Sent : x.session \in Sessions => x.session < a.session
             /\ \A r \in Replies : IsReply(r) => r.session < a.session
             /\ client.negotiated => client.session < a.session
      BY <3>2, <3>4, <3>5, <3>6 DEF IsReply
    <3>10. LineInv'
      BY <1>1, <1>3, <2>4, <2>6, <2>7, <3>1, <3>7, <3>8, <3>9, AnswerJoins
    <3> QED
      BY <2>8, <2>9, <3>10
  <2>12. CASE m.kind # "HELLO"
    <3>1. m.session = host.session /\ m.session \in Sessions /\ m.id # 1
      BY <1>2, <2>3, <2>12, LineShapes DEF LaterIds
    <3>2. ~IsGreeting(a)
      BY <2>4, <3>1 DEF IsGreeting
    <3>3. GreetingsInOrder' /\ Replies' = Replies \cup {a}
      BY <2>10, <3>2, OrderJoins DEF LineInv
    <3>4. client.negotiated => InSession(m)
      BY <1>2, <3>1, OnlySession
    <3>5. ASSUME IsReply(a)
          PROVE  /\ \A g \in Replies : IsGreeting(g) => a.session < g.session
                 /\ InSession(a) => InSession(m) /\ Spent(a.id)
                 /\ AnswersPending(a) => \A x : x \in Sent' => ~InSession(x)
      <4>1. a.session = m.session /\ a.id = m.id
        BY <2>4, <3>1, <3>5 DEF IsReply
      <4>2. \A g \in Replies : IsGreeting(g) => a.session < g.session
        BY <1>2, <3>1, <4>1 DEF LineInv, GreetingsAreNew
      <4>3. InSession(a) => InSession(m) /\ Spent(a.id)
        BY <1>2, <4>1 DEF LineInv, IdsAreSpent, InSession
      <4>4. ASSUME AnswersPending(a) PROVE \A x : x \in Sent' => ~InSession(x)
        <5>1. InSession(m) /\ m.id = client.pendingId
          BY <4>1, <4>3, <4>4 DEF AnswersPending
        <5> QED
          BY <1>1, <5>1, PendingIsTaken DEF LineInv
      <4> QED
        BY <4>2, <4>3, <4>4
    <3>6. AnswerIsCurrent'
      <4> SUFFICES ASSUME state = "AwaitingResponse", NEW r, r \in Replies', AnswersPending(r)
                   PROVE  TellsTheImage(r)'
        BY <1>1, <1>4 DEF AnswerIsCurrent
      <4>1. client.negotiated /\ InSession(m)
        BY <3>4 DEF AnswersPending, InSession
      <4>2. r \notin Replies
        BY <1>2, <4>1 DEF LineInv, AnsweredIsAlone
      <4>3. r = a /\ a.kind = "OK" /\ m.id = client.pendingId
        BY <2>4, <3>3, <4>2 DEF AnswersPending, IsReply
      <4>4. operation # NoOperation
        BY RequestHasTransfer DEF InFlightStates
      <4>5. IsTransfer(m) /\ m.op = operation
        BY <1>2, <4>1, <4>3, <4>4 DEF LineInv, PendingIsTransfer, TransfersAreCurrent
      <4>6. CASE m.kind = "READ_BLOCKS"
        <5>1. operation.type = "Read" /\ image' = image
              /\ a.body = BlockBody(operation.lba, image[operation.lba])
          BY <1>2, <2>4, <4>3, <4>5, <4>6, LineShapes DEF SectorReads, ReadOperation
        <5> QED
          BY <1>1, <4>3, <5>1 DEF TellsTheImage
      <4>7. CASE m.kind = "WRITE_BLOCKS"
        <5>1. /\ operation.type = "Write" /\ operation.lba \in Lbas
              /\ image' = [image EXCEPT ![operation.lba] = operation.data]
          BY <1>2, <2>4, <4>3, <4>5, <4>7, LineShapes DEF SectorWrites, WriteOperation
        <5>2. image'[operation.lba] = operation.data
          BY <5>1 DEF LinkTyped
        <5> QED
          BY <1>1, <5>1, <5>2 DEF TellsTheImage
      <4> QED
        BY <4>5, <4>6, <4>7 DEF IsTransfer
    <3>7. LineInv'
      BY <1>1, <1>3, <2>4, <2>6, <2>7, <3>2, <3>3, <3>5, <3>6, AnswerJoins
    <3> QED
      BY <2>8, <2>9, <3>7
  <2> QED
    BY <2>11, <2>12
<1> QED
  BY <1>5, <1>6

-----------------------------------------------------------------------------
\* Copies that stay ready stay what they were; none becomes ready.
ReadyKept ==
    \A h \in Handles : pool'.slots[h].state = "Ready" => pool.slots[h] = pool'.slots[h]

LEMMA NoneBecomesReady ==
    ASSUME \/ pool'.slots = pool.slots
           \/ pool' = EmptyPool
           \/ \E handles : pool' = Release(pool, handles)
    PROVE  ReadyKept
<1>1. CASE pool' = EmptyPool
  BY <1>1 DEF ReadyKept, EmptyPool, FreeSlot
<1>2. ASSUME NEW handles, pool' = Release(pool, handles) PROVE ReadyKept
  BY <1>2 DEF ReadyKept, Release, Cleared, FreeSlot
<1>3. CASE pool'.slots = pool.slots
  BY <1>3 DEF ReadyKept
<1> QED
  BY <1>1, <1>2, <1>3

LEMMA CacheStands ==
    ASSUME ReadyKept, WritesAreUncached, CoherentCache, UNCHANGED image,
           host'.session = host.session,
           \A m : m \in Sent' /\ m.kind = "WRITE_BLOCKS" => m \in Sent
    PROVE  WritesAreUncached' /\ CoherentCache'
<1>1. ASSUME NEW h \in Holding(pool', {"Ready"})
      PROVE  h \in Holding(pool, {"Ready"}) /\ pool'.slots[h] = pool.slots[h]
  BY <1>1 DEF ReadyKept, Holding
<1>2. CoherentCache'
  BY <1>1 DEF CoherentCache
<1>3. WritesAreUncached'
  BY <1>1 DEF WritesAreUncached
<1> QED
  BY <1>2, <1>3

\* Steps of host and link.
LEMMA HostStepKeeps ==
    ASSUME LinkInv, HostStarts \/ HostLeaves \/ Dispatch \/ DevicePoll
    PROVE  LineInv' /\ WritesAreUncached' /\ CoherentCache'
<1> USE DEF LinkInv, ServiceInv
<1>1. CASE HostStarts \/ HostLeaves
  <2>1. /\ tx' \in {tx, NoLine} /\ UNCHANGED <<allVars, image>>
        /\ toHost' \in {toHost, <<>>} /\ toDevice' \in {toDevice, <<>>}
        /\ host' \in {host, Serving(host.session + 1)}
    BY <1>1 DEF HostStarts, HostLeaves, HostExits, HostReplaced, LinkLoses, hostVars
  <2>2. UNCHANGED <<client, state, operation, pool>>
    BY <2>1 DEF allVars, vars
  <2>3. Shorter(toHost', toHost) /\ Shorter(toDevice', toDevice)
    BY <2>1 DEF Shorter
  <2>4. GreetingsInOrder' /\ Replies' \subseteq Replies
    BY <2>3, OrderStands DEF LineInv
  <2>5. PendingIsLast' /\ Sent' \subseteq Sent \cup {Noise}
    BY <2>1, <2>2, <2>3, LastStands DEF LineInv
  <2>6. LineInv'
    BY <2>1, <2>2, <2>4, <2>5, LinesStand
  <2>7. \A m : m \in Sent' /\ m.kind = "WRITE_BLOCKS" => m \in Sent
    BY <2>5 DEF Noise
  <2>8. CASE host'.session = host.session
    <3>1. ReadyKept
      BY <2>2, NoneBecomesReady
    <3> QED
      BY <2>1, <2>6, <2>7, <2>8, <3>1, CacheStands
  <2>9. CASE host'.session # host.session
    <3>1. host'.session = host.session + 1 /\ host.session \in Nat
      BY <2>1, <2>9 DEF Serving, LinkTyped
    <3>2. ASSUME NEW m \in Sent, m.kind = "WRITE_BLOCKS" PROVE m.session # host'.session
      <4>1. m.session \in Sessions /\ m.session \in Nat
        BY <3>2, LinesAreTyped, LineShapes
      <4>2. m.session <= host.session
        BY <4>1 DEF LineInv, SessionsOpened, Opened
      <4> QED
        BY <3>1, <4>1, <4>2
    <3>3. WritesAreUncached'
      BY <2>7, <3>2 DEF WritesAreUncached
    <3>4. CoherentCache'
      BY <2>1, <2>2 DEF CoherentCache
    <3> QED
      BY <2>6, <3>3, <3>4
  <2> QED
    BY <2>8, <2>9
<1>2. CASE DevicePoll
  <2>1. /\ tx # NoLine /\ toHost' = Append(toHost, tx) /\ tx' = NoLine
        /\ UNCHANGED <<allVars, toDevice, host, image>>
    BY <1>2 DEF DevicePoll, hostVars
  <2>2. UNCHANGED <<client, state, operation, pool>>
    BY <2>1 DEF allVars, vars
  <2>3. PendingIsLast' /\ Sent' = Sent
    BY <2>1, <2>2, LineLeaves DEF LineInv
  <2>4. GreetingsInOrder' /\ Replies' \subseteq Replies
    BY <2>1, OrderStands DEF LineInv, Shorter
  <2>5. LineInv'
    BY <2>1, <2>2, <2>3, <2>4, LinesStand
  <2>6. ReadyKept
    BY <2>2, NoneBecomesReady
  <2> QED
    BY <2>1, <2>3, <2>5, <2>6, CacheStands
<1> QED
  BY <1>1, <1>2, DispatchKeeps

-----------------------------------------------------------------------------
\* A reset empties the pool and leaves the session.
LEMMA ResetKeeps ==
    ASSUME LinkInv, BackendDisconnect, UNCHANGED <<toHost, tx, host, image>>,
           Shorter(toDevice', toDevice)
    PROVE  LineInv' /\ WritesAreUncached' /\ CoherentCache'
<1> USE DEF LinkInv, ServiceInv
<1>1. client' = FreshClient /\ pool' = EmptyPool
  BY DisconnectResets
<1>2. GreetingsInOrder' /\ Replies' \subseteq Replies /\ Sent' = Sent
  BY OrderStands DEF LineInv, Sent
<1>3. LineInv'
  <2>1. ~client'.negotiated
    BY <1>1 DEF FreshClient
  <2> QED
    BY <1>2, <2>1, LinesOutOfSession
<1>4. ReadyKept
  BY <1>1, NoneBecomesReady
<1> QED
  BY <1>2, <1>3, <1>4, CacheStands

\* The client stays in its session, with its request outstanding or given up.
LEMMA SessionKeeps ==
    ASSUME LinkInv, client' \in {client, CancelPending(client)},
           UNCHANGED <<toHost, host, image>>, tx' \in {tx, Noise},
           Shorter(toDevice', toDevice), ReadyKept,
           operation' \in {operation, NoOperation},
           state' = "AwaitingResponse" =>
               state = "AwaitingResponse" /\ operation' = operation /\ client' = client,
           state' = "Idle" => state = "Idle"
    PROVE  LineInv' /\ WritesAreUncached' /\ CoherentCache'
<1> USE DEF LinkInv, ServiceInv
<1>1. /\ client'.negotiated = client.negotiated /\ client'.session = client.session
      /\ client'.nextId = client.nextId /\ client'.pendingId \in {client.pendingId, 0}
      /\ state' = "AwaitingResponse" => client'.pendingId = client.pendingId
  BY DEF CancelPending
<1>2. GreetingsInOrder' /\ Replies' \subseteq Replies
  BY OrderStands DEF LineInv
<1>3. PendingIsLast' /\ Sent' \subseteq Sent \cup {Noise}
  BY <1>1, LastStands DEF LineInv, Shorter
<1>4. LineInv'
  BY <1>1, <1>2, <1>3, LinesStand
<1>5. \A m : m \in Sent' /\ m.kind = "WRITE_BLOCKS" => m \in Sent
  BY <1>3 DEF Noise
<1> QED
  BY <1>4, <1>5, CacheStands

\* The acknowledged sector becomes ready with what the image holds, and nothing of
\* its session is under way that could change it.
LEMMA SuccessKeeps ==
    ASSUME LinkInv, toDevice # <<>>, toDevice' = Tail(toDevice), NEW r, r = Head(toDevice),
           UNCHANGED <<toHost, tx, host, image>>,
           state = "AwaitingResponse", IsSuccess(client, r), client' = CancelPending(client),
           operation' = NoOperation, state' = "Idle", FinishTransfer(r)
    PROVE  LineInv' /\ WritesAreUncached' /\ CoherentCache'
<1> USE DEF LinkInv, ServiceInv
<1>1. r \in Replies /\ r \in Answers
  BY TailLines, HeadAndTail DEF LinkTyped, Replies
<1>2. client.negotiated /\ ~client.pendingHandshake
  BY DEF BackendInv, Inductive, AwaitingIsGuarded
<1>3. AnswersPending(r)
  <2>1. r.kind = "OK" /\ r.id = client.pendingId /\ r.session = client.session
    BY <1>2 DEF IsSuccess, Correlated
  <2>2. client.pendingId # 1
    BY <1>2 DEF ClientShape
  <2> QED
    BY <1>2, <2>1, <2>2 DEF AnswersPending, IsReply, InSession
<1>4. \A m \in Sent : ~InSession(m)
  BY <1>1, <1>3 DEF LineInv, AnsweredIsAlone
<1>5. Sent' = Sent /\ GreetingsInOrder' /\ Replies' \subseteq Replies /\ PendingIsLast'
  <2>1. Shorter(toDevice', toDevice) /\ Shorter(toHost', toHost) /\ tx' \in {tx, NoLine, Noise}
    BY DEF Shorter
  <2>2. GreetingsInOrder' /\ Replies' \subseteq Replies
    BY <2>1, OrderStands DEF LineInv
  <2>3. PendingIsLast'
    BY <2>1, LastStands DEF LineInv, CancelPending
  <2> QED
    BY <2>2, <2>3 DEF Sent
<1>6. LineInv'
  <2>1. /\ client'.negotiated = client.negotiated /\ client'.session = client.session
        /\ client'.nextId = client.nextId /\ client'.pendingId \in {client.pendingId, 0}
    BY DEF CancelPending
  <2> QED
    BY <1>4, <1>5, <2>1, LinesStand
<1>7. \A m \in Sent : m.kind = "WRITE_BLOCKS" => m.session # host.session
  <2> SUFFICES ASSUME NEW m \in Sent, m.kind = "WRITE_BLOCKS", m.session = host.session
               PROVE  FALSE
    OBVIOUS
  <2>1. m.session \in Sessions
    BY LinesAreTyped, LineShapes
  <2> QED
    BY <1>2, <1>4, <2>1, OnlySession
<1>8. WritesAreUncached'
  BY <1>5, <1>7 DEF WritesAreUncached
<1>9. CoherentCache'
  <2> DEFINE handle == transfer.handle
             data == IF transfer.type = "Read" THEN r.body.data ELSE pool.slots[handle].data
  <2>1. transfer # NoTransfer /\ operation # NoOperation
    BY RequestHasTransfer DEF InFlightStates
  <2>2. /\ handle \in Used(pool) /\ transfer.type \in {"Read", "Write"}
        /\ Checked(pool, handle, OpState(transfer.type), transfer.lba, transfer.generation)
    BY <2>1, TransferHoldsSlot DEF BackendInv
  <2>3. handle \in Handles /\ pool.slots[handle].lba = transfer.lba
    BY <2>2 DEF Checked, IsSector
  <2>4. /\ operation.type = transfer.type /\ operation.lba = transfer.lba
        /\ operation.type = "Write" => operation.data = pool.slots[handle].data
    BY <2>1 DEF BackendInv, TransferMatchesOperation
  <2>5. TellsTheImage(r)
    BY <1>1, <1>3 DEF LineInv, AnswerIsCurrent
  <2>6. data = image[transfer.lba]
    BY <2>2, <2>4, <2>5 DEF TellsTheImage, BlockBody
  <2>7. pool' = Complete(pool, handle, data)
    BY <2>2 DEF FinishTransfer
  <2>8. pool.slots \in [Handles -> Slots]
    BY DEF BackendInv, PoolInv, Pools
  <2>9. /\ pool'.slots[handle].lba = transfer.lba
        /\ pool'.slots[handle].data = image[transfer.lba]
        /\ \A h \in Handles : h # handle => pool'.slots[h] = pool.slots[h]
    <3> HIDE DEF data
    <3> QED
      BY <2>3, <2>6, <2>7, <2>8 DEF Complete
  <2>10. ASSUME NEW h \in Holding(pool', {"Ready"})
         PROVE  pool'.slots[h].data = image[pool'.slots[h].lba]
    <3>1. CASE h = handle
      BY <2>9, <3>1
    <3>2. CASE h # handle
      <4>1. h \in Holding(pool, {"Ready"}) /\ pool'.slots[h] = pool.slots[h]
        BY <2>9, <2>10, <3>2 DEF Holding
      <4> QED
        BY <4>1 DEF CoherentCache
    <3> QED
      BY <3>1, <3>2
  <2> QED
    BY <2>10 DEF CoherentCache
<1> QED
  BY <1>6, <1>8, <1>9

-----------------------------------------------------------------------------
\* Lines from the host.
LEMMA ShellKeeps ==
    ASSUME LinkInv, ShellPoll
    PROVE  LineInv' /\ WritesAreUncached' /\ CoherentCache'
<1> USE DEF LinkInv, ServiceInv
<1>1. toDevice # <<>> /\ toDevice' = Tail(toDevice) /\ UNCHANGED <<toHost, host, image>>
  BY DEF ShellPoll, hostVars
<1> DEFINE r == Head(toDevice)
<1>2. /\ OnHandshakeResponse(r) \/ OnInfoResponse(r) \/ OnTransferResponse(r) \/ OnStrayLine
      /\ r \in Answers
  BY <1>1, HeadAndTail DEF ShellPoll
<1> HIDE DEF r
<1>3. Shorter(toDevice', toDevice)
  BY <1>1 DEF Shorter
<1>4. ASSUME BackendDisconnect, tx' = tx PROVE LineInv' /\ WritesAreUncached' /\ CoherentCache'
  BY <1>1, <1>3, <1>4, ResetKeeps
<1>5. CASE OnHandshakeResponse(r)
  <2>1. CASE IsSuccess(client, r)
    <3>1. BackendAcceptHandshake(r) /\ tx' = tx
      BY <1>5, <2>1 DEF OnHandshakeResponse
    <3>2. /\ r.kind = "OK" /\ r.id = 1 /\ r.session \in Sessions
          /\ client' = Establish(client, r.session) /\ pool' = pool
      BY <1>2, <2>1, <3>1, GreetingMoves
    <3>3. client'.negotiated /\ client'.session = r.session
      BY <3>2 DEF Establish
    <3>4. GreetingsInOrder' /\ Sent' = Sent
      BY <1>1, <1>3, <3>1, OrderStands DEF LineInv, Sent
    <3>5. LineInv'
      BY <1>1, <3>1, <3>2, <3>3, <3>4, LinesOfNewSession DEF r, IsGreeting
    <3>6. ReadyKept
      BY <3>2, NoneBecomesReady
    <3> QED
      BY <1>1, <3>4, <3>5, <3>6, CacheStands
  <2>2. CASE ~IsSuccess(client, r)
    BY <1>4, <1>5, <2>2 DEF OnHandshakeResponse
  <2> QED
    BY <2>1, <2>2
<1>6. CASE OnInfoResponse(r)
  <2>1. CASE IsSuccess(client, r) /\ r.body.type = "Info"
    <3>1. AcceptGetInfo(r) /\ tx' = tx /\ infoPending
      BY <1>6, <2>1 DEF OnInfoResponse
    <3>2. InfoPending
      BY <3>1 DEF AcceptGetInfo
    <3>3. client' = CancelPending(client)
      <4>1. Accept(client, r) = CancelPending(client)
        BY <2>1, <3>2, AcceptInIdle
      <4>2. CancelPending(CancelPending(client)) = CancelPending(client)
        BY DEF CancelPending
      <4> QED
        BY <3>1, <4>1, <4>2 DEF AcceptGetInfo, MediaChangedWith, InvalidateMediaWith, CancelWith
    <3>4. /\ state = "Idle" /\ state' = "Idle" /\ operation' \in {operation, NoOperation}
          /\ pool' = pool \/ pool' = EmptyPool
      <4>1. state = "Idle"
        BY <3>2 DEF InfoPending
      <4> QED
        BY <3>1, <4>1 DEF AcceptGetInfo, MediaChangedWith, InvalidateMediaWith, CancelWith,
           Forgotten, backendVars
    <3>5. ReadyKept
      BY <3>4, NoneBecomesReady
    <3> QED
      BY <1>1, <1>3, <3>1, <3>3, <3>4, <3>5, SessionKeeps
  <2>2. CASE ~(IsSuccess(client, r) /\ r.body.type = "Info")
    BY <1>4, <1>6, <2>2 DEF OnInfoResponse
  <2> QED
    BY <2>1, <2>2
<1>7. CASE OnTransferResponse(r)
  <2>1. tx' = tx /\ (AcceptTransferResponse(r) \/ UNCHANGED allVars)
    BY <1>7 DEF OnTransferResponse
  <2>2. CASE UNCHANGED allVars
    <3>1. UNCHANGED <<client, state, operation, pool>>
      BY <2>2 DEF allVars, vars
    <3>2. ReadyKept
      BY <3>1, NoneBecomesReady
    <3> QED
      BY <1>1, <1>3, <2>1, <3>1, <3>2, SessionKeeps
  <2>3. CASE AcceptTransferResponse(r)
    <3>1. CASE /\ state = "AwaitingResponse" /\ IsSuccess(client, r)
               /\ client' = CancelPending(client)
               /\ state' = "Idle" /\ operation' = NoOperation
               /\ ValidForTransfer(r) /\ FinishTransfer(r)
      BY <1>1, <2>1, <3>1, SuccessKeeps DEF r
    <3>2. CASE /\ state = "AwaitingResponse"
               /\ client' = CancelPending(client)
               /\ state' \notin {"Idle", "AwaitingResponse"}
               /\ operation' \in {operation, NoOperation}
               /\ pool' = pool \/ pool' = Release(pool, {transfer.handle})
      <4>1. ReadyKept
        BY <3>2, NoneBecomesReady
      <4> QED
        BY <1>1, <1>3, <2>1, <3>2, <4>1, SessionKeeps
    <3>3. CASE UNCHANGED vars /\ (pool' = pool \/ pool' = Release(pool, {transfer.handle}))
      <4>1. UNCHANGED <<client, state, operation>>
        BY <3>3 DEF vars
      <4>2. ReadyKept
        BY <3>3, NoneBecomesReady
      <4> QED
        BY <1>1, <1>3, <2>1, <4>1, <4>2, SessionKeeps
    <3> QED
      BY <2>3, <3>1, <3>2, <3>3, TransferMoves
  <2> QED
    BY <2>1, <2>2, <2>3
<1>8. CASE OnStrayLine
  <2>1. tx' \in {tx, Noise} /\ UNCHANGED <<client, state, operation, pool>>
    BY <1>8 DEF OnStrayLine, SendIfFree, allVars, vars
  <2>2. ReadyKept
    BY <2>1, NoneBecomesReady
  <2> QED
    BY <1>1, <1>3, <2>1, <2>2, SessionKeeps
<1> QED
  BY <1>2, <1>5, <1>6, <1>7, <1>8

-----------------------------------------------------------------------------
\* No ready copy lies beside the slot of the transfer in flight.
InFlightUncached ==
    state = "AwaitingResponse" =>
        \A h \in Holding(pool, {"Ready"}) : pool.slots[h].lba # operation.lba

LEMMA TransferIsUncached == BackendInv => InFlightUncached
<1> SUFFICES ASSUME BackendInv, state = "AwaitingResponse", NEW h \in Holding(pool, {"Ready"}),
                    pool.slots[h].lba = operation.lba
             PROVE  FALSE
  BY DEF InFlightUncached
<1> DEFINE handle == transfer.handle
<1>1. transfer # NoTransfer /\ operation # NoOperation
  BY RequestHasTransfer DEF InFlightStates
<1>2. /\ handle \in Used(pool)
      /\ Checked(pool, handle, OpState(transfer.type), transfer.lba, transfer.generation)
      /\ transfer.type \in {"Read", "Write"}
  BY <1>1, TransferHoldsSlot DEF BackendInv
<1>3. operation.lba = transfer.lba
  BY <1>1 DEF BackendInv, TransferMatchesOperation
<1>4. /\ h \in Used(pool) /\ pool.slots[h].state = "Ready" /\ pool.slots[h].generation = media
  BY ReadySlots
<1>5. /\ pool.slots[handle].state # "Ready" /\ pool.slots[handle].lba = transfer.lba
  BY <1>2 DEF Checked, IsSector, OpState
<1>6. pool.slots[handle].generation = media
  BY <1>2 DEF BackendInv, PoolInv, CurrentMediumOnly
<1>7. h = handle
  BY <1>2, <1>3, <1>4, <1>5, <1>6 DEF BackendInv, PoolInv, UniqueSector, IsSector
<1> QED
  BY <1>4, <1>5, <1>7

\* Reserving a slot makes nothing ready.
LEMMA BeginKeepsReady ==
    ASSUME BackendInv, NEW p, NEW handles, p \in {pool, Release(pool, handles)},
           NEW type, NEW lba, NEW g, NEW op, BeginTransfer(p, type, lba, g, op)
    PROVE  ReadyKept
<1> DEFINE handle == Victim(p)
           q == Reserve(p, handle, OpState(type), lba, g, op.data)
<1>1. pool.slots \in [Handles -> Slots]
  BY DEF BackendInv, PoolInv, Pools
<1>2. /\ \A h \in Handles : p.slots[h].state = "Ready" => p.slots[h] = pool.slots[h]
      /\ DOMAIN p.slots = Handles
  BY <1>1 DEF Release, Cleared, FreeSlot
<1>3. pool' \in {q, Release(q, {handle})}
  BY DEF BeginTransfer
<1>4. \A h \in Handles : q.slots[h].state = "Ready" => q.slots[h] = p.slots[h]
  <2>1. q.slots = [p.slots EXCEPT ![handle] = [state |-> OpState(type), lba |-> lba,
                                               generation |-> g, data |-> op.data]]
    BY DEF Reserve
  <2>2. OpState(type) # "Ready"
    BY DEF OpState
  <2> HIDE DEF q, handle
  <2>3. ASSUME NEW h \in Handles, h = handle PROVE q.slots[h].state = OpState(type)
    BY <1>2, <2>1, <2>3
  <2>4. ASSUME NEW h \in Handles, h # handle PROVE q.slots[h] = p.slots[h]
    BY <1>2, <2>1, <2>4
  <2> QED
    BY <2>2, <2>3, <2>4
<1>5. CASE pool' = q
  BY <1>2, <1>4, <1>5 DEF ReadyKept
<1>6. CASE pool' = Release(q, {handle})
  <2> HIDE DEF q
  <2>1. \A h \in Handles : pool'.slots[h].state = "Ready" => pool'.slots[h] = q.slots[h]
    BY <1>6 DEF Release, Cleared, FreeSlot
  <2> QED
    BY <1>2, <1>4, <2>1 DEF ReadyKept
<1> QED
  BY <1>3, <1>5, <1>6

\* A request of the session is begun: its line is sent, or its id is spent in vain.
LEMMA RequestKeeps ==
    ASSUME LinkInv, BackendInv', CanRequest(client),
           client' \in {ReserveRequest(client, FALSE),
                        CancelPending(ReserveRequest(client, FALSE))},
           UNCHANGED <<toHost, toDevice, host, image>>, ReadyKept,
           \/ tx' = tx
           \/ /\ tx = NoLine /\ client' = ReserveRequest(client, FALSE)
              /\ \/ tx' = Line("GET_INFO", NoOperation) /\ state' # "AwaitingResponse"
                 \/ /\ tx' \in {Line("READ_BLOCKS", operation'), Line("WRITE_BLOCKS", operation')}
                    /\ state' = "AwaitingResponse",
           \/ state = "Idle"
           \/ state' # "Idle" /\ operation # NoOperation /\ operation' \in {operation, NoOperation}
    PROVE  LineInv' /\ WritesAreUncached' /\ CoherentCache'
<1> USE DEF LinkInv, ServiceInv
<1>1. /\ client'.session = client.session /\ client'.negotiated = client.negotiated
      /\ client' = ReserveRequest(client, FALSE) => client'.pendingId = client.nextId
  BY DEF ReserveRequest, CancelPending
<1>2. \A m : m \in Sent' => m \in Sent \/ m = tx'
  BY DEF Sent
<1>3. \/ tx' = tx
      \/ /\ tx = NoLine /\ tx'.session = client.session /\ tx'.id = client.nextId
         /\ \/ ~IsTransfer(tx') /\ state' # "AwaitingResponse"
            \/ IsTransfer(tx') /\ tx'.op = operation' /\ state' = "AwaitingResponse"
  <2>1. \A kind, op : /\ Line(kind, op).kind = kind /\ Line(kind, op).op = op
                      /\ Line(kind, op).session = client'.session
                      /\ Line(kind, op).id = client'.pendingId
    BY DEF Line
  <2>2. CASE tx' = tx
    BY <2>2
  <2>3. CASE tx' # tx
    <3>1. tx = NoLine /\ client'.pendingId = client.nextId
      BY <1>1, <2>3
    <3>2. CASE tx' = Line("GET_INFO", NoOperation) /\ state' # "AwaitingResponse"
      BY <1>1, <2>1, <3>1, <3>2 DEF IsTransfer
    <3>3. ASSUME NEW kind \in {"READ_BLOCKS", "WRITE_BLOCKS"}, tx' = Line(kind, operation'),
                 state' = "AwaitingResponse"
          PROVE  /\ tx'.session = client.session /\ tx'.id = client.nextId
                 /\ IsTransfer(tx') /\ tx'.op = operation'
      BY <1>1, <2>1, <3>1, <3>3 DEF IsTransfer
    <3> QED
      BY <2>3, <3>1, <3>2, <3>3
  <2> QED
    BY <2>2, <2>3
<1>4. TransfersAreCurrent'
  <2> SUFFICES ASSUME NEW m, m \in Sent', InSession(m), IsTransfer(m)
               PROVE  state' # "Idle" /\ (operation' # NoOperation => m.op = operation')
    BY <1>1 DEF TransfersAreCurrent, InSession, IsTransfer
  <2>1. CASE m \in Sent
    BY <2>1 DEF LineInv, TransfersAreCurrent
  <2>2. CASE m \notin Sent
    <3>1. m = tx' /\ tx' # tx
      BY <1>2, <2>2 DEF Sent
    <3> QED
      BY <1>3, <3>1
  <2> QED
    BY <2>1, <2>2
<1>5. LineInv'
  BY <1>3, <1>4, LinesSpend
<1>6. InFlightUncached'
  BY TransferIsUncached, PTL
<1>7. \A m : m \in Sent' /\ m.kind = "WRITE_BLOCKS" =>
          m \in Sent \/ (m.op = operation' /\ state' = "AwaitingResponse")
  <2> SUFFICES ASSUME NEW m, m \in Sent', m.kind = "WRITE_BLOCKS", m \notin Sent
               PROVE  m.op = operation' /\ state' = "AwaitingResponse"
    OBVIOUS
  <2>1. m = tx' /\ tx' # tx
    BY <1>2 DEF Sent
  <2> QED
    BY <1>3, <2>1 DEF IsTransfer
<1>8. ASSUME NEW h \in Holding(pool', {"Ready"})
      PROVE  h \in Holding(pool, {"Ready"}) /\ pool'.slots[h] = pool.slots[h]
  BY <1>8 DEF ReadyKept, Holding
<1>9. CoherentCache'
  BY <1>8 DEF CoherentCache
<1>10. WritesAreUncached'
  <2> SUFFICES ASSUME NEW m, m \in Sent', m.kind = "WRITE_BLOCKS", m.session = host'.session,
                      NEW h \in Holding(pool', {"Ready"})
               PROVE  pool'.slots[h].lba # m.op.lba
    BY DEF WritesAreUncached
  <2>1. CASE m \in Sent
    BY <1>8, <2>1 DEF WritesAreUncached
  <2>2. CASE m \notin Sent
    BY <1>6, <1>7, <2>2 DEF InFlightUncached
  <2> QED
    BY <2>1, <2>2
<1> QED
  BY <1>5, <1>9, <1>10

-----------------------------------------------------------------------------
\* Polls of the service.
LEMMA PollKeeps ==
    ASSUME LinkInv, BackendInv', ServicePoll
    PROVE  LineInv' /\ WritesAreUncached' /\ CoherentCache'
<1> USE DEF LinkInv, ServiceInv
<1>1. UNCHANGED <<toHost, toDevice, host, image>> /\ Shorter(toDevice', toDevice)
  BY DEF ServicePoll, hostVars, Shorter
<1>2. ASSUME BackendDisconnect, tx' = tx PROVE LineInv' /\ WritesAreUncached' /\ CoherentCache'
  BY <1>1, <1>2, ResetKeeps
<1>3. CASE HostLost \/ SessionTimeout
  BY <1>2, <1>3 DEF HostLost, SessionTimeout
<1>4. CASE SendHello
  <2>1. CASE CanHandshake(client) /\ CanSend
    <3>1. BackendBeginHandshake /\ tx' = Line("HELLO", NoOperation)
      BY <1>4, <2>1 DEF SendHello, SendIfFree
    <3>2. client'.session = NoSession /\ ~client'.negotiated /\ pool' = pool
      BY <3>1, HelloMoves
    <3>3. tx'.session = NoSession /\ tx'.kind = "HELLO"
      BY <3>1, <3>2 DEF Line
    <3>4. \A m : m \in Sent' => m \in Sent \/ m = tx'
      BY <1>1 DEF Sent
    <3>5. GreetingsInOrder' /\ Replies' \subseteq Replies
      BY <1>1, OrderStands DEF LineInv
    <3>6. LineInv'
      <4>1. \A m \in Sent' : m \in Sent \/ m.session \notin Sessions
        BY <3>3, <3>4
      <4> QED
        BY <1>1, <3>2, <3>5, <4>1, LinesOutOfSession
    <3>7. ReadyKept
      BY <3>2, NoneBecomesReady
    <3> QED
      BY <1>1, <3>3, <3>4, <3>6, <3>7, CacheStands
  <2>2. CASE ~(CanHandshake(client) /\ CanSend)
    BY <1>2, <1>4, <2>2 DEF SendHello
  <2> QED
    BY <2>1, <2>2
<1>5. CASE SendGetInfo
  <2>1. CASE state = "Idle" /\ CanRequest(client) /\ CanSend
    <3>1. BackendBeginGetInfo /\ tx' = Line("GET_INFO", NoOperation) /\ tx = NoLine
      BY <1>5, <2>1 DEF SendGetInfo, SendIfFree, CanSend
    <3>2. client' = ReserveRequest(client, FALSE) /\ state' = state /\ pool' = pool
      BY <3>1, InfoMoves
    <3>3. ReadyKept
      BY <3>2, NoneBecomesReady
    <3> QED
      BY <1>1, <2>1, <3>1, <3>2, <3>3, RequestKeeps
  <2>2. CASE ~(state = "Idle" /\ CanRequest(client) /\ CanSend)
    BY <1>2, <1>5, <2>2 DEF SendGetInfo
  <2> QED
    BY <2>1, <2>2
<1>6. CASE PollExpire
  <2>1. BackendExpire /\ tx' = tx
    BY <1>6 DEF PollExpire
  <2>2. pool' = pool \/ pool' = Release(pool, {transfer.handle})
    BY <2>1, ExpiryMoves
  <2>3. ReadyKept
    BY <2>2, NoneBecomesReady
  <2>4. CASE /\ state = "AwaitingResponse"
             /\ client' = CancelPending(client)
             /\ state' \notin {"Idle", "AwaitingResponse"}
             /\ operation' \in {operation, NoOperation}
    BY <1>1, <2>1, <2>3, <2>4, SessionKeeps
  <2>5. CASE UNCHANGED vars
    <3>1. UNCHANGED <<client, state, operation>>
      BY <2>5 DEF vars
    <3> QED
      BY <1>1, <2>1, <2>3, <3>1, SessionKeeps
  <2> QED
    BY <2>1, <2>4, <2>5, ExpiryMoves
<1>7. CASE PollRetry
  <2>1. /\ BackendIssueRetry
        /\ \/ tx' = tx
           \/ /\ state' = "AwaitingResponse" /\ tx = NoLine
              /\ tx' \in {Line("READ_BLOCKS", operation), Line("WRITE_BLOCKS", operation)}
    BY <1>7 DEF PollRetry, SendIfFree, CanSend
  <2>2. /\ Issue(operation) /\ pool' = pool /\ operation # NoOperation
        /\ state \in {"WaitingRetry", "RetryReady"}
    BY <2>1, RetryMoves
  <2>3. ReadyKept
    BY <2>2, NoneBecomesReady
  <2>4. CASE state' = "AwaitingResponse" /\ operation' = operation
             /\ CanRequest(client) /\ client' = ReserveRequest(client, FALSE)
    BY <1>1, <2>1, <2>2, <2>3, <2>4, RequestKeeps
  <2>5. CASE /\ state' = "Failed" /\ operation' = NoOperation /\ CanRequest(client)
             /\ client' = CancelPending(ReserveRequest(client, FALSE))
    BY <1>1, <2>1, <2>2, <2>3, <2>5, RequestKeeps
  <2>6. CASE state' = "Failed" /\ operation' = NoOperation /\ client' = client
    BY <1>1, <2>1, <2>3, <2>6, SessionKeeps
  <2> QED
    BY <2>2, <2>4, <2>5, <2>6, IssueMoves
<1>8. CASE PollIdle
  <2>1. UNCHANGED <<client, state, operation, pool, tx>>
    BY <1>8 DEF PollIdle, allVars, vars
  <2>2. ReadyKept
    BY <2>1, NoneBecomesReady
  <2> QED
    BY <1>1, <2>1, <2>2, SessionKeeps
<1> QED
  BY <1>3, <1>4, <1>5, <1>6, <1>7, <1>8 DEF ServicePoll

\* Calls of the SD side.
LEMMA TargetKeeps ==
    ASSUME LinkInv, BackendInv', TargetPoll
    PROVE  LineInv' /\ WritesAreUncached' /\ CoherentCache'
<1> USE DEF LinkInv, ServiceInv
<1>1. UNCHANGED <<toHost, toDevice, host, image>> /\ Shorter(toDevice', toDevice)
  BY DEF TargetPoll, hostVars, Shorter
<1>2. CASE UNCHANGED <<allVars, tx>>
  <2>1. UNCHANGED <<client, state, operation, pool, tx>>
    BY <1>2 DEF allVars, vars
  <2>2. ReadyKept
    BY <2>1, NoneBecomesReady
  <2> QED
    BY <1>1, <2>1, <2>2, SessionKeeps
<1>3. ASSUME NEW lba \in Lbas, Deliver(lba, Generation), UNCHANGED tx
      PROVE  LineInv' /\ WritesAreUncached' /\ CoherentCache'
  <2>1. UNCHANGED <<client, state, operation>> /\ pool'.slots = pool.slots
    BY <1>3 DEF Deliver, CopyReady, vars
  <2>2. ReadyKept
    BY <2>1, NoneBecomesReady
  <2> QED
    BY <1>1, <1>3, <2>1, <2>2, SessionKeeps
<1>4. ASSUME UndoBegin, UNCHANGED tx
      PROVE  LineInv' /\ WritesAreUncached' /\ CoherentCache'
  <2>1. ReadyKept
    BY <1>4, UndoMoves, NoneBecomesReady
  <2> QED
    BY <1>1, <1>4, <2>1, UndoMoves, RequestKeeps
<1>5. ASSUME NEW op, Issue(op), state = "Idle", ReadyKept, CanSend \/ ~CanRequest(client),
             \/ tx' = tx
             \/ /\ state' = "AwaitingResponse"
                /\ tx' \in {Line("READ_BLOCKS", operation'), Line("WRITE_BLOCKS", operation')}
      PROVE  LineInv' /\ WritesAreUncached' /\ CoherentCache'
  <2>1. CASE state' = "AwaitingResponse" /\ operation' = op
             /\ CanRequest(client) /\ client' = ReserveRequest(client, FALSE)
    BY <1>1, <1>5, <2>1, RequestKeeps DEF CanSend
  <2>2. CASE /\ state' = "Failed" /\ CanRequest(client)
             /\ client' = CancelPending(ReserveRequest(client, FALSE))
    BY <1>1, <1>5, <2>2, RequestKeeps
  <2>3. CASE state' = "Failed" /\ operation' = NoOperation /\ client' = client
    BY <1>1, <1>5, <2>3, SessionKeeps
  <2> QED
    BY <1>5, <2>1, <2>2, <2>3, IssueMoves
<1>6. ASSUME NEW lba \in Lbas, BeginCdcRead(lba)
      PROVE  LineInv' /\ WritesAreUncached' /\ CoherentCache'
  <2>1. CASE CanSend \/ ~CanRequest(client)
    <3>1. BeginTransfer(pool, "Read", lba, Generation, ReadOperation(lba))
      BY <1>6, <2>1 DEF BeginCdcRead, RequestRead
    <3>2. tx' = IF state' = "AwaitingResponse" THEN Line("READ_BLOCKS", operation') ELSE tx
      BY <1>6, <2>1 DEF BeginCdcRead
    <3>3. ReadyKept
      BY <3>1, BeginKeepsReady
    <3> QED
      BY <1>5, <2>1, <3>1, <3>2, <3>3, TransferBegins
  <2>2. CASE ~(CanSend \/ ~CanRequest(client))
    BY <1>4, <1>6, <2>2 DEF BeginCdcRead
  <2> QED
    BY <2>1, <2>2
<1>7. ASSUME NEW lba \in Lbas, NEW data \in Blocks, BeginCdcWrite(lba, data)
      PROVE  LineInv' /\ WritesAreUncached' /\ CoherentCache'
  <2>1. CASE CanSend \/ ~CanRequest(client)
    <3>1. BeginTransfer(DroppingCopies(pool, lba, Generation), "Write", lba, Generation,
                        WriteOperation(lba, data))
      BY <1>7, <2>1 DEF BeginCdcWrite, BeginWrite
    <3>2. tx' = IF state' = "AwaitingResponse" THEN Line("WRITE_BLOCKS", operation') ELSE tx
      BY <1>7, <2>1 DEF BeginCdcWrite
    <3>3. ReadyKept
      BY <3>1, BeginKeepsReady DEF DroppingCopies, InvalidateReady
    <3> QED
      BY <1>5, <2>1, <3>1, <3>2, <3>3, TransferBegins
  <2>2. CASE ~(CanSend \/ ~CanRequest(client))
    BY <1>4, <1>7, <2>2 DEF BeginCdcWrite
  <2> QED
    BY <2>1, <2>2
<1> QED
  BY <1>2, <1>3, <1>6, <1>7 DEF TargetPoll

LEMMA InitLinkInv == ServiceInit => LinkInv
<1> SUFFICES ASSUME ServiceInit PROVE LineInv /\ WritesAreUncached /\ CoherentCache
  BY InitServiceInv DEF LinkInv
<1>1. /\ ~client.negotiated /\ state = "Idle"
      /\ toHost = <<>> /\ toDevice = <<>> /\ tx = NoLine /\ pool = EmptyPool
  BY DEF ServiceInit, BackendInit, Init, FreshClient
<1>2. Sent = {} /\ Replies = {}
  BY <1>1, NoLines DEF Sent, Replies
<1>3. Len(toHost) = 0 /\ Len(toDevice) = 0
  BY <1>1
<1>4. GreetingsInOrder /\ PendingIsLast
  BY <1>3 DEF GreetingsInOrder, PendingIsLast
<1>5. CoherentCache /\ WritesAreUncached
  BY <1>1, <1>2 DEF CoherentCache, WritesAreUncached, Holding, EmptyPool, FreeSlot
<1> QED
  BY <1>1, <1>2, <1>4, <1>5 DEF LineInv, SessionsOpened, GreetingsAreNew, SessionIsNewest,
     IdsAreSpent, AnsweredIsAlone, TransfersAreCurrent, PendingIsTransfer, AnswerIsCurrent

LEMMA NextLinkInv == LinkInv /\ [UseNext]_serviceVars => LinkInv'
<1> SUFFICES ASSUME LinkInv, [UseNext]_serviceVars
             PROVE  LineInv' /\ WritesAreUncached' /\ CoherentCache'
  BY NextServiceInv DEF LinkInv
<1>1. BackendInv'
  BY NextServiceInv DEF LinkInv, ServiceInv
<1>2. CASE ClockTicks \/ UNCHANGED serviceVars
  <2>1. UNCHANGED <<client, state, operation, pool, tx, toHost, toDevice, host, image>>
    BY <1>2 DEF ClockTicks, Tick, coordinatorVars, backendVars, hostVars, serviceVars, allVars,
       vars
  <2>2. ReadyKept
    BY <2>1, NoneBecomesReady
  <2> QED
    BY <2>1, <2>2, SessionKeeps DEF Shorter
<1> QED
  BY <1>1, <1>2, HostStepKeeps, ShellKeeps, PollKeeps, TargetKeeps DEF UseNext, ServiceStep

\* The invariant of the service end to end: lines under way, sessions, ids, the
\* operation, the pool and the image agree.
THEOREM LinkInvariant == ServiceUse => []LinkInv
<1> QED
  BY InitLinkInv, NextLinkInv, PTL DEF ServiceUse

\* What the pool calls ready is what the image file holds, through timeouts,
\* retries, failed writes that reached the file, lost lines and replaced hosts.
THEOREM CacheIsCoherent == ServiceUse => []CoherentCache
<1>1. LinkInv => CoherentCache
  BY DEF LinkInv
<1> QED
  BY <1>1, LinkInvariant, PTL

\* The image changes only when the host executes a write line of its session.
LEMMA ImageMoves ==
    ASSUME LinkInv, UseNext, image' # image
    PROVE  /\ UNCHANGED <<client, state, operation, transfer>>
           /\ \E m \in Sent : /\ m.kind = "WRITE_BLOCKS" /\ m.op \in SectorWrites
                              /\ m.session \in Sessions /\ m.session = host.session
                              /\ image' = [image EXCEPT ![m.op.lba] = m.op.data]
<1> USE DEF LinkInv, ServiceInv
<1>1. Dispatch
  BY DEF UseNext, ServiceStep, HostStarts, HostLeaves, HostExits, HostReplaced, DevicePoll,
     ShellPoll, ServicePoll, TargetPoll, ClockTicks, hostVars
<1> DEFINE m == Head(toHost)
<1>2. connected /\ toHost # <<>> /\ UNCHANGED <<client, state, operation, transfer>>
  <2>1. connected /\ toHost # <<>> /\ UNCHANGED allVars
    BY <1>1, Zenon DEF Dispatch
  <2> QED
    BY <2>1 DEF allVars, vars
<1>3. m \in RequestLines /\ m \in Sent /\ host.session \in Sessions
  BY <1>2, TailLines, HeadAndTail DEF LinkTyped, Sent
<1>4. Refusal(m) = "" /\ \E outcome \in Outcomes(m) : image' = outcome.image
  BY <1>1, Zenon DEF Dispatch, hostVars
<1>5. /\ m.kind # "NOISE"
      /\ m.kind # "HELLO" => m.session = host.session
  BY <1>3, <1>4, AcceptedLine, Zenon
<1>6. PICK outcome \in Outcomes(m) : image' = outcome.image
  BY <1>4, Zenon
<1>7. /\ m.kind # "WRITE_BLOCKS" => outcome.image = image
      /\ m.kind = "WRITE_BLOCKS" =>
             outcome.image \in {image, [image EXCEPT ![m.op.lba] = m.op.data]}
  BY <1>3, <1>5, OutcomeShapes
<1>8. m.kind = "WRITE_BLOCKS" => m.op \in SectorWrites
  BY <1>3, LineShapes
<1> HIDE DEF m
<1>9. image' = outcome.image /\ image' # image
  BY <1>6
<1>10. m.kind = "WRITE_BLOCKS"
  BY <1>7, <1>9
<1>11. outcome.image = image \/ outcome.image = [image EXCEPT ![m.op.lba] = m.op.data]
  BY <1>7, <1>10
<1>12. image' = [image EXCEPT ![m.op.lba] = m.op.data]
  BY <1>9, <1>11
<1>13. m.session = host.session /\ m.session \in Sessions
  BY <1>3, <1>5, <1>10
<1> QED
  BY <1>2, <1>3, <1>8, <1>10, <1>12, <1>13

\* While a transfer is active the host executes no other write.
THEOREM OnlyActiveWrites == ServiceUse => OnlyTheActiveWriteExecutes
<1> DEFINE Executes == image' # image /\ operation # NoOperation =>
                           /\ operation.type = "Write"
                           /\ image' = [image EXCEPT ![operation.lba] = operation.data]
<1>1. LinkInv /\ [UseNext]_serviceVars => [Executes]_serviceVars
  <2> SUFFICES ASSUME LinkInv, UseNext, image' # image, operation # NoOperation
               PROVE  /\ operation.type = "Write"
                      /\ image' = [image EXCEPT ![operation.lba] = operation.data]
    BY DEF serviceVars, hostVars
  <2> USE DEF LinkInv, ServiceInv
  <2>1. PICK m \in Sent : /\ m.kind = "WRITE_BLOCKS" /\ m.op \in SectorWrites
                          /\ m.session \in Sessions /\ m.session = host.session
                          /\ image' = [image EXCEPT ![m.op.lba] = m.op.data]
    BY ImageMoves
  <2>2. client.negotiated
    <3>1. operation \in BackendOperations /\ operation.type = transfer.type
      BY DEF BackendInv, Inductive, TypeOK, TransferMatchesOperation
    <3>2. transfer # NoTransfer
      BY <3>1, OperationKinds DEF NoTransfer
    <3> QED
      BY <3>2 DEF FlagsFollow, MediaKnownOnlyInSession
  <2>3. InSession(m)
    BY <2>1, <2>2, OnlySession
  <2>4. m.op = operation
    BY <2>1, <2>3 DEF LineInv, TransfersAreCurrent, IsTransfer
  <2>5. operation \in SectorWrites
    BY <2>1, <2>4
  <2>6. operation.type = "Write"
    BY <2>5 DEF SectorWrites, WriteOperation
  <2> QED
    BY <2>1, <2>4, <2>6
<1> QED
  BY <1>1, LinkInvariant, PTL DEF ServiceUse, OnlyTheActiveWriteExecutes

-----------------------------------------------------------------------------
\* The specification the runs check makes these calls and keeps its host.
THEOREM ServiceIsUse == ServiceSpec => ServiceUse
<1>1. [ServiceNext]_serviceVars => [UseNext]_serviceVars
  <2>1. TargetCall => TargetPoll
    BY DEF TargetCall, TargetPoll
  <2> QED
    BY <2>1 DEF ServiceNext, UseNext
<1> QED
  BY <1>1, PTL DEF ServiceSpec, ServiceUse
=============================================================================
