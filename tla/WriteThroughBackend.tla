------------------------- MODULE WriteThroughBackend -------------------------
(***************************************************************************)
(* CdcWriteThroughBackend: the sector pool and the one CDC transfer in     *)
(* flight, on top of the coordinator and its client.                       *)
(*                                                                         *)
(* Its Next is the class under any caller that respects the two rules the  *)
(* firmware service keeps: GET_INFO and handshake responses go to the      *)
(* accept method of the request that is pending, and accept_response is    *)
(* called only during a transfer.  Statistics are left out.                *)
(***************************************************************************)
EXTENDS OperationCoordinator, SectorBufferPool

VARIABLES
    pool,       \* buffers_
    transfer,   \* transfer_type_, handle_, lba_, generation_
    media       \* media_generation_, or NoGeneration without has_generation_

backendVars == <<pool, transfer, media>>
allVars == <<vars, pool, transfer, media>>

ReadOperation(lba) == [type |-> "Read", lba |-> lba, data |-> Blank]
WriteOperation(lba, data) == [type |-> "Write", lba |-> lba, data |-> data]
BackendOperations == {ReadOperation(lba) : lba \in Lbas}
                       \cup {WriteOperation(lba, data) : lba \in Lbas, data \in Blocks}

NoTransfer == [type |-> "None", handle |-> NoHandle, lba |-> 0, generation |-> NoGeneration]
Transfers == {NoTransfer} \cup [type : {"Read", "Write"}, handle : Handles, lba : Lbas,
                                generation : Generations]

\* The part of an OK line beyond id and session that the decoders read.
NoBody == [type |-> "None"]
BlockBody(lba, data) == [type |-> "Block", lba |-> lba, data |-> data]
InfoBody(present, generation) ==
    [type |-> "Info", present |-> present, generation |-> generation]
Bodies == {NoBody} \cup {BlockBody(lba, data) : lba \in Lbas, data \in Blocks}
                   \cup {InfoBody(present, g) : present \in BOOLEAN, g \in Generations}
BackendResponses ==
    [kind : {"OK"}, id : Ids, session : Sessions \cup {NoSession}, version : BOOLEAN,
     body : Bodies] \cup ErrResponses \cup BadResponses

ASSUME BackendAssumption == Operations = BackendOperations

BackendInit ==
    /\ Init
    /\ pool = EmptyPool
    /\ transfer = NoTransfer
    /\ media = NoGeneration

-----------------------------------------------------------------------------
ReadyForTransfer == client.negotiated /\ transfer = NoTransfer /\ state = "Idle"

\* select_generation(), and a variant that forgets to compare.
AnyGeneration(generation) == TRUE
Selectable(generation) == media \in {NoGeneration, generation}

OpState(type) == IF type = "Read" THEN "Reading" ELSE "Writing"

\* The tail of begin_read and begin_write: reserve a slot of pool p, start the
\* operation, and give the slot back if it did not start.
BeginTransfer(p, type, lba, generation, op) ==
    LET handle == Victim(p)
        reserved == Reserve(p, handle, OpState(type), lba, generation, op.data)
    IN  /\ handle # NoHandle
        /\ Start(op)
        /\ media' = generation
        /\ IF state' = "AwaitingResponse"
             THEN /\ pool' = reserved
                  /\ transfer' = [type |-> type, handle |-> handle, lba |-> lba,
                                  generation |-> generation]
             ELSE /\ pool' = Release(reserved, {handle})
                  /\ UNCHANGED transfer

\* A ready copy satisfies the read without a request.
CoalesceRead(lba, generation) ==
    /\ ReadyForTransfer /\ Selectable(generation)
    /\ FindReady(pool, lba, generation) # NoHandle
    /\ media' = generation
    /\ UNCHANGED <<vars, pool, transfer>>

RequestRead(lba, generation) ==
    /\ ReadyForTransfer /\ Selectable(generation)
    /\ FindReady(pool, lba, generation) = NoHandle
    /\ BeginTransfer(pool, "Read", lba, generation, ReadOperation(lba))

BeginRead(lba, generation) == CoalesceRead(lba, generation) \/ RequestRead(lba, generation)

\* begin_prefetch reads only what no slot holds; begin_sequential_prefetch asks
\* for the sector after the delivered one, if there is one.
BeginSequentialPrefetch(delivered, generation) ==
    /\ delivered < MaxLba
    /\ ~HoldsSector(pool, delivered + 1, generation)
    /\ BeginRead(delivered + 1, generation)

KeepingCopies(p, lba, generation) == p   \* faulty: the old copy stays readable
DroppingCopies(p, lba, generation) == InvalidateReady(p, lba, generation)

\* Cached copies of the sector are dropped before the write is dispatched.
BeginWrite(lba, generation, data) ==
    /\ ReadyForTransfer /\ Selectable(generation)
    /\ BeginTransfer(DroppingCopies(pool, lba, generation), "Write", lba, generation,
                     WriteOperation(lba, data))

-----------------------------------------------------------------------------
\* abandon_transfer(), and a variant that never gives the slot back.
AbandonKeepingSlot ==
    /\ transfer' = NoTransfer
    /\ UNCHANGED pool

Abandon ==
    /\ pool' = Release(pool, {transfer.handle})
    /\ transfer' = NoTransfer

AbandonIfFailed == IF state' = "Failed" THEN Abandon ELSE UNCHANGED <<pool, transfer>>

\* A response to a read is decoded and compared with the sector first; a line
\* that fails is not shown to the coordinator.
ValidForTransfer(r) ==
    transfer.type = "Read" /\ r.kind # "ERR" =>
        r.kind = "OK" /\ r.body.type = "Block" /\ r.body.lba = transfer.lba

FinishTransfer(r) ==
    LET matches == Checked(pool, transfer.handle, OpState(transfer.type), transfer.lba,
                           transfer.generation)
        data == IF transfer.type = "Read" THEN r.body.data
                                          ELSE pool.slots[transfer.handle].data
    IN  /\ pool' = IF matches THEN Complete(pool, transfer.handle, data)
                              ELSE Release(pool, {transfer.handle})
        /\ transfer' = NoTransfer

\* A transfer whose retry could not be issued is abandoned by the next response
\* or deadline check that finds the coordinator failed.
NeverNoticed == FALSE   \* faulty: nothing looks at the failed retry again
RetryFailed == state = "Failed" /\ transfer # NoTransfer /\ UNCHANGED vars

AcceptTransferResponse(r) ==
    /\ transfer # NoTransfer /\ ValidForTransfer(r)
    /\ \/ AcceptSuccess(r) /\ FinishTransfer(r)
       \/ (AcceptError(r) \/ RetryFailed) /\ AbandonIfFailed
    /\ UNCHANGED media

IgnoresTransferResponse(r) ==
    \/ ~ValidForTransfer(r)
    \/ state \notin {"AwaitingResponse", "Failed"}
    \/ state = "AwaitingResponse" /\ ~IsSuccess(client, r) /\ ~IsRemoteError(client, r)

BackendExpire ==
    /\ ExpireIfDue \/ RetryFailed
    /\ AbandonIfFailed
    /\ UNCHANGED media

BackendPoll == Poll /\ UNCHANGED backendVars
BackendIssueRetry == IssueRetry /\ UNCHANGED backendVars

\* copy_ready() of a sector that is there.
Deliver(lba, generation) ==
    LET handle == FindReady(pool, lba, generation)
    IN  /\ handle # NoHandle
        /\ pool' = CopyReady(pool, handle)
        /\ UNCHANGED <<vars, transfer, media>>

-----------------------------------------------------------------------------
ForgettingSlotsOnly == pool' = EmptyPool /\ UNCHANGED transfer   \* faulty
Forgotten == pool' = EmptyPool /\ transfer' = NoTransfer

BackendDisconnect == Disconnect(FALSE) /\ Forgotten /\ media' = NoGeneration
Invalidate == Cancel /\ Forgotten /\ media' = NoGeneration

\* media_changed(), after the client moved on to c.
MediaChangedWith(c, generation) ==
    IF media = generation
      THEN /\ client' = c
           /\ UNCHANGED <<now, state, operation, deadline, retry, backendVars>>
      ELSE CancelWith(CancelPending(c)) /\ Forgotten /\ media' = generation

MediaChanged(generation) == MediaChangedWith(client, generation)

\* invalidate_media() leaves a transfer in flight alone.
InvalidateMediaWith(c) ==
    /\ client' = c
    /\ pool' = EmptyPool
    /\ media' = NoGeneration
    /\ UNCHANGED <<now, state, operation, deadline, retry, transfer>>

BackendBeginHandshake == BeginHandshake /\ UNCHANGED backendVars
BackendAcceptHandshake(r) ==
    client.pendingHandshake /\ AcceptDirect(r) /\ UNCHANGED backendVars

BackendBeginGetInfo == ReadyForTransfer /\ BeginGetInfo /\ UNCHANGED backendVars

\* accept_get_info() of a response that decodes and correlates.
InfoPending == state = "Idle" /\ RequestPending(client) /\ ~client.pendingHandshake
AcceptGetInfo(r) ==
    /\ InfoPending /\ IsSuccess(client, r) /\ r.body.type = "Info"
    /\ IF r.body.present THEN MediaChangedWith(Accept(client, r), r.body.generation)
                         ELSE InvalidateMediaWith(Accept(client, r))

BackendNext ==
    \/ BackendBeginHandshake
    \/ BackendBeginGetInfo
    \/ \E lba \in Lbas, g \in Generations :
          \/ BeginRead(lba, g)
          \/ BeginSequentialPrefetch(lba, g)
          \/ \E data \in Blocks : BeginWrite(lba, g, data)
          \/ Deliver(lba, g)
    \/ \E r \in BackendResponses :
          BackendAcceptHandshake(r) \/ AcceptGetInfo(r) \/ AcceptTransferResponse(r)
    \/ BackendExpire
    \/ BackendPoll
    \/ BackendIssueRetry
    \/ BackendDisconnect
    \/ Invalidate
    \/ \E g \in Generations : MediaChanged(g)
    \/ Tick /\ UNCHANGED backendVars

BackendSpec == BackendInit /\ [][BackendNext]_allVars

-----------------------------------------------------------------------------
BackendTypeOK ==
    /\ TypeOK
    /\ pool \in Pools
    /\ transfer \in Transfers
    /\ media \in Generations \cup {NoGeneration}

\* A slot waits for the host exactly when it is the slot of the transfer in
\* flight: none leaks when a transfer fails, none is taken from under one.
SlotOwnership ==
    /\ Holding(pool, {"Reading", "Writing"}) = {transfer.handle} \ {NoHandle}
    /\ transfer # NoTransfer =>
          Checked(pool, transfer.handle, OpState(transfer.type), transfer.lba,
                  transfer.generation)

\* The transfer and the operation the coordinator would send again name the
\* same sector and, for a write, the data that is held in the slot.
TransferMatchesOperation ==
    /\ operation # NoOperation =>
          /\ operation.type = transfer.type
          /\ operation.lba = transfer.lba
          /\ operation.type = "Write" =>
                operation.data = pool.slots[transfer.handle].data
    /\ transfer # NoTransfer /\ operation = NoOperation => state = "Failed"

\* No sector of a medium has two slots, so a read cannot find an older copy
\* beside the one a write or a read is filling.
UniqueSector ==
    \A g, h \in Used(pool) :
        IsSector(pool.slots[g], pool.slots[h].lba, pool.slots[h].generation) => g = h

\* Only sectors of the current medium are buffered: "it must not expose buffered
\* sectors tagged with a different generation" (docs/cdc_text_protocol.md).
CurrentMediumOnly ==
    \A h \in Used(pool) : pool.slots[h].generation = media

\* Making room for another sector evicts the one used longest ago: the cache
\* keeps what was delivered or filled last.
EvictedFor(h, sector) ==
    /\ pool.slots[h].state = "Ready"
    /\ pool'.slots[h].state \in {"Reading", "Writing"}
    /\ pool'.slots[h].lba = sector /\ pool.slots[h].lba # sector

EvictsOldest ==
    [][\A h, other \in Handles :
          EvictedFor(h, transfer'.lba) /\ h # other => h \in pool.older[other]]_allVars
=============================================================================
