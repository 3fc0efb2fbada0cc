---------------------- MODULE WriteThroughBackendProofs ----------------------
(***************************************************************************)
(* Proofs about WriteThroughBackend and its sector pool, for every value   *)
(* of their constants.                                                     *)
(*                                                                         *)
(* Every step of the backend is a step of the coordinator inside it, so    *)
(* what is proved of the coordinator holds in the backend; the invariants  *)
(* of the pool and of the transfer in flight rest on that.                 *)
(***************************************************************************)
EXTENDS WriteThroughBackend, OperationCoordinatorProofs

USE PoolAssumption, BackendAssumption

-----------------------------------------------------------------------------
\* The order of last use compares any two used slots.
OrderIsTotal(p) == \A g, h \in Used(p) : g = h \/ g \in p.older[h] \/ h \in p.older[g]

\* A loop over the slots that finds one at all finds a slot that fits.
LEMMA FirstIsMember ==
    ASSUME NEW handles, handles \subseteq Handles, handles # {}
    PROVE  First(handles) \in handles
<1>1. \E h \in handles : \A other \in handles : h <= other
  <2>1. handles \subseteq Nat
    BY DEF Handles
  <2> QED
    BY <2>1, SmallestOf
<1> QED
  BY <1>1 DEF First

\* Freeing slots leaves the others as they were and in order.
LEMMA ReleaseFrees ==
    ASSUME NEW p \in Pools, OrderIsTotal(p), NEW handles
    PROVE  /\ Release(p, handles) \in Pools
           /\ OrderIsTotal(Release(p, handles))
           /\ Used(Release(p, handles)) = Used(p) \ handles
           /\ \A h \in Handles : Release(p, handles).slots[h] =
                  IF h \in handles THEN FreeSlot ELSE p.slots[h]
<1> DEFINE q == Release(p, handles)
<1>1. q \in Pools
  BY DEF Release, Pools, Slots, Cleared
<1>2. \A h \in Handles : q.slots[h] = IF h \in handles THEN FreeSlot ELSE p.slots[h]
  BY DEF Release, Cleared
<1>3. Used(q) = Used(p) \ handles
  BY <1>2 DEF Used, Holding, FreeSlot
<1>4. OrderIsTotal(q)
  BY <1>3 DEF OrderIsTotal, Release, Used, Holding
<1> QED
  BY <1>1, <1>2, <1>3, <1>4

\* reserve() never takes a slot a transfer holds, and takes a cached copy only
\* when no slot is free: one that no other cached copy is older than.
LEMMA VictimIsFreeOrOldest ==
    ASSUME NEW p \in Pools, Victim(p) # NoHandle
    PROVE  /\ Victim(p) \in Handles
           /\ \/ p.slots[Victim(p)].state = "Free"
              \/ /\ p.slots[Victim(p)].state = "Ready"
                 /\ Holding(p, {"Free"}) = {}
                 /\ p.older[Victim(p)] \cap Holding(p, {"Ready"}) = {}
<1>1. CASE Holding(p, {"Free"}) # {}
  <2>1. Victim(p) \in Holding(p, {"Free"})
    BY <1>1, FirstIsMember DEF Victim, Holding
  <2> QED
    BY <2>1 DEF Holding
<1>2. CASE Holding(p, {"Free"}) = {}
  BY <1>2 DEF Victim, Holding
<1> QED
  BY <1>1, <1>2

\* Touching a slot moves it behind the used ones.
LEMMA TouchOrders ==
    ASSUME NEW p \in Pools, OrderIsTotal(p), NEW handle \in Handles
    PROVE  /\ Touch(p, handle) \in [Handles -> SUBSET Handles]
           /\ \A g, h \in Used(p) \cup {handle} :
                  g = h \/ g \in Touch(p, handle)[h] \/ h \in Touch(p, handle)[g]
<1>1. Touch(p, handle) \in [Handles -> SUBSET Handles]
  BY DEF Touch, Pools, Used, Holding
<1>2. \A g, h \in Used(p) \cup {handle} :
          g = h \/ g \in Touch(p, handle)[h] \/ h \in Touch(p, handle)[g]
  BY DEF Touch, OrderIsTotal, Used, Holding
<1> QED
  BY <1>1, <1>2

LEMMA ReserveFills ==
    ASSUME NEW p \in Pools, OrderIsTotal(p), NEW handle \in Handles,
           NEW st \in {"Reading", "Writing"}, NEW lba \in Lbas,
           NEW generation \in Generations, NEW data \in Blocks
    PROVE  LET q == Reserve(p, handle, st, lba, generation, data) IN
           /\ q \in Pools
           /\ OrderIsTotal(q)
           /\ Used(q) = Used(p) \cup {handle}
           /\ q.slots[handle] = [state |-> st, lba |-> lba, generation |-> generation,
                                 data |-> data]
           /\ \A h \in Handles : h # handle => q.slots[h] = p.slots[h]
<1> DEFINE q == Reserve(p, handle, st, lba, generation, data)
           slot == [state |-> st, lba |-> lba, generation |-> generation, data |-> data]
<1>1. slot \in Slots
  BY DEF Slots
<1>2. /\ q.slots = [p.slots EXCEPT ![handle] = slot]
      /\ q.older = Touch(p, handle)
      /\ q = [slots |-> q.slots, older |-> q.older]
  BY DEF Reserve
<1> HIDE DEF q
<1>3. q.slots \in [Handles -> Slots]
  BY <1>1, <1>2 DEF Pools
<1>4. /\ q.slots[handle] = slot
      /\ \A h \in Handles : h # handle => q.slots[h] = p.slots[h]
  BY <1>2 DEF Pools
<1>5. Used(q) = Used(p) \cup {handle}
  <2>1. \A h \in Handles : q.slots[h].state = IF h = handle THEN st ELSE p.slots[h].state
    BY <1>4
  <2> QED
    BY <2>1 DEF Used, Holding
<1>6. q \in Pools
  BY <1>2, <1>3, TouchOrders DEF Pools
<1>7. OrderIsTotal(q)
  BY <1>2, <1>5, TouchOrders DEF OrderIsTotal
<1> QED
  BY <1>4, <1>5, <1>6, <1>7 DEF q

LEMMA CompleteReadies ==
    ASSUME NEW p \in Pools, OrderIsTotal(p), NEW handle \in Used(p), NEW data \in Blocks
    PROVE  LET q == Complete(p, handle, data) IN
           /\ q \in Pools
           /\ OrderIsTotal(q)
           /\ Used(q) = Used(p)
           /\ q.slots[handle].state = "Ready"
           /\ q.slots[handle].lba = p.slots[handle].lba
           /\ q.slots[handle].generation = p.slots[handle].generation
           /\ \A h \in Handles : h # handle => q.slots[h] = p.slots[h]
<1> DEFINE q == Complete(p, handle, data)
           slot == [state |-> "Ready", lba |-> p.slots[handle].lba,
                    generation |-> p.slots[handle].generation, data |-> data]
<1>1. handle \in Handles /\ p.slots[handle] \in Slots /\ p.slots[handle].state # "Free"
  BY DEF Used, Holding, Pools
<1>2. p.slots[handle] \in [state : {"Reading", "Ready", "Writing"}, lba : Lbas,
                           generation : Generations, data : Blocks]
  BY <1>1 DEF Slots, FreeSlot
<1>3. slot \in Slots /\ slot.state = "Ready" /\ slot.lba = p.slots[handle].lba
      /\ slot.generation = p.slots[handle].generation
  BY <1>2 DEF Slots
<1>4. q = [slots |-> [p.slots EXCEPT ![handle] = slot], older |-> p.older]
  BY DEF Complete
<1>5. q \in Pools
  BY <1>1, <1>3, <1>4 DEF Pools
<1>6. q.slots[handle] = slot /\ \A h \in Handles : h # handle => q.slots[h] = p.slots[h]
  BY <1>1, <1>4 DEF Pools
<1>7. Used(q) = Used(p)
  BY <1>3, <1>6 DEF Used, Holding
<1>8. OrderIsTotal(q)
  BY <1>4, <1>7 DEF OrderIsTotal
<1> QED
  BY <1>3, <1>5, <1>6, <1>7, <1>8

LEMMA CopyReadyKeepsSlots ==
    ASSUME NEW p \in Pools, OrderIsTotal(p), NEW handle \in Used(p)
    PROVE  LET q == CopyReady(p, handle) IN
           /\ q \in Pools
           /\ OrderIsTotal(q)
           /\ q.slots = p.slots
           /\ Used(q) = Used(p)
<1> DEFINE q == CopyReady(p, handle)
<1>1. handle \in Handles
  BY DEF Used, Holding
<1>2. q = [slots |-> p.slots, older |-> Touch(p, handle)]
  BY DEF CopyReady
<1>3. Used(q) = Used(p)
  BY <1>2 DEF Used, Holding
<1>4. q \in Pools
  BY <1>1, <1>2, TouchOrders DEF Pools
<1>5. OrderIsTotal(q)
  BY <1>1, <1>2, <1>3, TouchOrders DEF OrderIsTotal
<1> QED
  BY <1>2, <1>3, <1>4, <1>5

LEMMA EmptyPoolIsEmpty ==
    /\ EmptyPool \in Pools
    /\ OrderIsTotal(EmptyPool)
    /\ Used(EmptyPool) = {}
    /\ \A states : "Free" \notin states => Holding(EmptyPool, states) = {}
<1>1. \A states : "Free" \notin states => Holding(EmptyPool, states) = {}
  BY DEF EmptyPool, Holding, FreeSlot
<1>2. Used(EmptyPool) = {}
  BY <1>1 DEF Used
<1>3. EmptyPool \in Pools
  BY DEF EmptyPool, Pools, Slots
<1> QED
  BY <1>1, <1>2, <1>3 DEF OrderIsTotal

-----------------------------------------------------------------------------
\* The part of a response the coordinator and its client read.
Plain(r) == IF r.kind = "OK" THEN [kind |-> "OK", id |-> r.id, session |-> r.session,
                                   version |-> r.version]
                             ELSE r

LEMMA PlainIsResponse ==
    ASSUME NEW r \in BackendResponses
    PROVE  /\ Plain(r) \in Responses
           /\ r.kind = "ERR" => Plain(r) = r
BY DEF Plain, BackendResponses, Responses, OkResponses, ErrResponses, BadResponses

LEMMA PlainIsAsGood ==
    ASSUME NEW r, NEW c
    PROVE  /\ IsSuccess(c, Plain(r)) <=> IsSuccess(c, r)
           /\ IsRemoteError(c, Plain(r)) <=> IsRemoteError(c, r)
           /\ Accept(c, Plain(r)) = Accept(c, r)
<1>1. CASE r.kind = "OK"
  <2>1. /\ Plain(r).kind = "OK"
        /\ Plain(r).id = r.id
        /\ Plain(r).session = r.session
        /\ Plain(r).version = r.version
    BY <1>1 DEF Plain
  <2> QED
    BY <1>1, <2>1 DEF IsSuccess, IsRemoteError, Correlated, Accept
<1>2. CASE r.kind # "OK"
  BY <1>2 DEF Plain
<1> QED
  BY <1>1, <1>2

LEMMA OperationsOfTheBackend ==
    /\ \A lba \in Lbas : ReadOperation(lba) \in Operations
    /\ \A lba \in Lbas, data \in Blocks : WriteOperation(lba, data) \in Operations
BY DEF BackendOperations

\* A response that is no answer to a handshake only frees the client.
LEMMA AcceptInIdle ==
    ASSUME InfoPending, NEW r, IsSuccess(client, r)
    PROVE  Accept(client, r) = CancelPending(client)
BY DEF InfoPending, Accept

\* Whatever the backend does, the coordinator inside it makes a step of its own
\* or none.
LEMMA StepWithin == [BackendNext]_allVars => [Next]_vars
<1> SUFFICES ASSUME [BackendNext]_allVars PROVE [Next]_vars
  OBVIOUS
<1>1. ASSUME NEW p, NEW type, NEW lba, NEW g, NEW op \in Operations,
             BeginTransfer(p, type, lba, g, op)
      PROVE  Next
  BY <1>1 DEF BeginTransfer, Next
<1>2. ASSUME NEW lba \in Lbas, NEW g \in Generations, BeginRead(lba, g)
      PROVE  [Next]_vars
  <2>1. CASE CoalesceRead(lba, g)
    BY <2>1 DEF CoalesceRead
  <2>2. CASE RequestRead(lba, g)
    BY <2>2, <1>1, OperationsOfTheBackend DEF RequestRead
  <2> QED
    BY <1>2, <2>1, <2>2 DEF BeginRead
<1>3. ASSUME NEW lba \in Lbas, NEW g \in Generations, BeginSequentialPrefetch(lba, g)
      PROVE  [Next]_vars
  <2>1. lba + 1 \in Lbas /\ BeginRead(lba + 1, g)
    BY <1>3 DEF BeginSequentialPrefetch, Lbas
  <2> QED
    BY <2>1, <1>2
<1>4. ASSUME NEW lba \in Lbas, NEW g \in Generations, NEW data \in Blocks,
             BeginWrite(lba, g, data)
      PROVE  Next
  BY <1>4, <1>1, OperationsOfTheBackend DEF BeginWrite
<1>5. ASSUME NEW lba, NEW g, Deliver(lba, g) PROVE UNCHANGED vars
  BY <1>5 DEF Deliver
<1>6. ASSUME NEW r \in BackendResponses, AcceptDirect(r) PROVE Next
  <2>1. AcceptDirect(Plain(r))
    BY <1>6, PlainIsAsGood DEF AcceptDirect
  <2> QED
    BY <2>1, PlainIsResponse DEF Next, Respond
<1>7. ASSUME NEW r \in BackendResponses, AcceptResponse(r) PROVE Next
  <2>1. AcceptSuccess(r) => AcceptSuccess(Plain(r))
    BY PlainIsAsGood DEF AcceptSuccess
  <2>2. AcceptError(r) => AcceptError(r) /\ r = Plain(r)
    BY PlainIsResponse DEF AcceptError, IsRemoteError
  <2> QED
    BY <1>7, <2>1, <2>2, PlainIsResponse DEF AcceptResponse, Next, Respond
<1>8. ASSUME NEW r \in BackendResponses, AcceptTransferResponse(r) PROVE [Next]_vars
  BY <1>7, <1>8 DEF AcceptTransferResponse, AcceptResponse, RetryFailed
<1>9. ASSUME NEW g, MediaChanged(g) PROVE [Next]_vars
  BY <1>9 DEF MediaChanged, MediaChangedWith, Next, Cancel, vars
<1>10. ASSUME NEW r \in BackendResponses, AcceptGetInfo(r) PROVE Next
  <2>1. IsSuccess(client, r) /\ InfoPending
    BY <1>10 DEF AcceptGetInfo
  <2>2. CancelPending(Accept(client, r)) = CancelPending(client)
    <3>1. Accept(client, r) = CancelPending(client)
      BY <2>1, AcceptInIdle
    <3> QED
      BY <3>1 DEF CancelPending
  <2>3. state # "AwaitingResponse" /\ RequestPending(client)
    BY <2>1 DEF InfoPending
  <2>4. \/ CancelWith(CancelPending(Accept(client, r)))
        \/ /\ client' = Accept(client, r)
           /\ UNCHANGED <<now, state, operation, deadline, retry>>
    BY <1>10 DEF AcceptGetInfo, MediaChangedWith, InvalidateMediaWith
  <2>5. AcceptDirect(r) \/ Cancel
    BY <2>2, <2>3, <2>4 DEF AcceptDirect, Cancel
  <2> QED
    BY <1>6, <2>5 DEF Next
<1>11. CASE BackendBeginHandshake \/ BackendBeginGetInfo \/ BackendExpire \/ BackendPoll
            \/ BackendIssueRetry \/ BackendDisconnect \/ Invalidate \/ Tick
  BY <1>11 DEF BackendBeginHandshake, BackendBeginGetInfo, BackendExpire, RetryFailed,
     BackendPoll, BackendIssueRetry, BackendDisconnect, Invalidate, Next
<1>12. CASE UNCHANGED allVars
  BY <1>12 DEF allVars
<1> QED
  BY <1>2, <1>3, <1>4, <1>5, <1>6, <1>8, <1>9, <1>10, <1>11, <1>12
     DEF BackendNext, BackendAcceptHandshake

\* The coordinator's specification holds inside the backend, and with it every
\* theorem about the coordinator.
THEOREM CoordinatorWithin == BackendSpec => Spec
<1>1. BackendInit => Init
  BY DEF BackendInit
<1>2. [BackendNext]_allVars => [Next]_vars
  BY StepWithin
<1> QED
  BY <1>1, <1>2, PTL DEF BackendSpec, Spec

-----------------------------------------------------------------------------
\* What a pool, the transfer that uses it and the medium satisfy at every step.
PoolInv ==
    /\ pool \in Pools
    /\ transfer \in Transfers
    /\ media \in Generations \cup {NoGeneration}
    /\ SlotOwnership
    /\ UniqueSector
    /\ CurrentMediumOnly
    /\ OrderIsTotal(pool)

BackendInv == Inductive /\ PoolInv /\ TransferMatchesOperation

LEMMA NothingInFlight ==
    ASSUME PoolInv, transfer = NoTransfer
    PROVE  \A h \in Used(pool) : pool.slots[h].state = "Ready"
<1>1. Holding(pool, {"Reading", "Writing"}) = {}
  BY DEF PoolInv, SlotOwnership, NoTransfer
<1> QED
  BY <1>1 DEF Used, Holding

LEMMA TransferHoldsSlot ==
    ASSUME PoolInv, transfer # NoTransfer
    PROVE  /\ transfer \in [type : {"Read", "Write"}, handle : Handles, lba : Lbas,
                            generation : Generations]
           /\ transfer.handle \in Used(pool)
           /\ Checked(pool, transfer.handle, OpState(transfer.type), transfer.lba,
                      transfer.generation)
           /\ Holding(pool, {"Reading", "Writing"}) = {transfer.handle}
<1>1. transfer \in [type : {"Read", "Write"}, handle : Handles, lba : Lbas,
                    generation : Generations]
  BY DEF PoolInv, Transfers
<1>2. Holding(pool, {"Reading", "Writing"}) = {transfer.handle}
  BY <1>1 DEF PoolInv, SlotOwnership, NoHandle, Handles
<1>3. transfer.handle \in Used(pool)
  BY <1>2 DEF Used, Holding
<1> QED
  BY <1>1, <1>2, <1>3 DEF PoolInv, SlotOwnership

LEMMA ForgottenKeeps ==
    ASSUME Forgotten, media' \in Generations \cup {NoGeneration}
    PROVE  PoolInv'
<1>1. pool' = EmptyPool /\ transfer' = NoTransfer
  BY DEF Forgotten
<1>2. SlotOwnership'
  BY <1>1, EmptyPoolIsEmpty DEF SlotOwnership, NoTransfer
<1>3. UniqueSector' /\ CurrentMediumOnly'
  BY <1>1, EmptyPoolIsEmpty DEF UniqueSector, CurrentMediumOnly
<1> QED
  BY <1>1, <1>2, <1>3, EmptyPoolIsEmpty DEF PoolInv, Transfers

\* abandon_transfer() gives back the slot of the transfer and nothing else.
LEMMA AbandonKeeps ==
    ASSUME PoolInv, transfer # NoTransfer, Abandon, UNCHANGED media
    PROVE  PoolInv' /\ transfer' = NoTransfer
<1>1. pool' = Release(pool, {transfer.handle}) /\ transfer' = NoTransfer
  BY DEF Abandon
<1>2. /\ pool' \in Pools
      /\ OrderIsTotal(pool')
      /\ Used(pool') = Used(pool) \ {transfer.handle}
      /\ \A h \in Handles : pool'.slots[h] =
             IF h \in {transfer.handle} THEN FreeSlot ELSE pool.slots[h]
  BY <1>1, ReleaseFrees DEF PoolInv
<1>3. SlotOwnership'
  <2>1. Holding(pool', {"Reading", "Writing"}) = {}
    BY <1>2, TransferHoldsSlot DEF Holding, FreeSlot
  <2> QED
    BY <1>1, <2>1 DEF SlotOwnership, NoTransfer
<1>4. Used(pool) \subseteq Handles
  BY DEF Used, Holding
<1>5. UniqueSector' /\ CurrentMediumOnly'
  BY <1>2, <1>4 DEF PoolInv, UniqueSector, CurrentMediumOnly
<1> QED
  BY <1>1, <1>2, <1>3, <1>5 DEF PoolInv, Transfers

\* A finished transfer leaves its sector in its slot, ready.
LEMMA FinishKeeps ==
    ASSUME PoolInv, transfer # NoTransfer, UNCHANGED media,
           NEW r \in BackendResponses, r.kind = "OK", ValidForTransfer(r), FinishTransfer(r)
    PROVE  PoolInv' /\ transfer' = NoTransfer
<1> DEFINE data == IF transfer.type = "Read" THEN r.body.data
                                             ELSE pool.slots[transfer.handle].data
<1>1. transfer.handle \in Used(pool) /\ transfer.handle \in Handles
  BY TransferHoldsSlot DEF Used, Holding
<1>2. data \in Blocks
  <2>1. CASE transfer.type = "Read"
    <3>1. r.body \in Bodies /\ r.body.type = "Block"
      BY <2>1 DEF ValidForTransfer, BackendResponses, ErrResponses, BadResponses
    <3>2. r.body.data \in Blocks
      BY <3>1 DEF Bodies, NoBody, BlockBody, InfoBody
    <3> QED
      BY <2>1, <3>2
  <2>2. CASE transfer.type # "Read"
    BY <1>1, <2>2 DEF PoolInv, Pools, Slots, FreeSlot
  <2> QED
    BY <2>1, <2>2
<1>3. pool' = Complete(pool, transfer.handle, data) /\ transfer' = NoTransfer
  BY TransferHoldsSlot DEF FinishTransfer
<1> HIDE DEF data
<1>4. /\ pool' \in Pools
      /\ OrderIsTotal(pool')
      /\ Used(pool') = Used(pool)
      /\ pool'.slots[transfer.handle].state = "Ready"
      /\ pool'.slots[transfer.handle].lba = pool.slots[transfer.handle].lba
      /\ pool'.slots[transfer.handle].generation = pool.slots[transfer.handle].generation
      /\ \A h \in Handles : h # transfer.handle => pool'.slots[h] = pool.slots[h]
  BY <1>1, <1>2, <1>3, CompleteReadies DEF PoolInv
<1>5. SlotOwnership'
  <2>1. Holding(pool', {"Reading", "Writing"}) = {}
    BY <1>4, TransferHoldsSlot DEF Holding
  <2> QED
    BY <1>3, <2>1 DEF SlotOwnership, NoTransfer
<1>6. Used(pool) \subseteq Handles
  BY DEF Used, Holding
<1>7. \A h \in Used(pool) : /\ pool'.slots[h].lba = pool.slots[h].lba
                            /\ pool'.slots[h].generation = pool.slots[h].generation
  BY <1>4, <1>6
<1>8. UniqueSector' /\ CurrentMediumOnly'
  BY <1>4, <1>7 DEF PoolInv, UniqueSector, CurrentMediumOnly, IsSector
<1> QED
  BY <1>3, <1>4, <1>5, <1>8 DEF PoolInv, Transfers

\* A delivery only moves the slot in the order of use.
LEMMA DeliverKeeps ==
    ASSUME PoolInv, NEW lba, NEW g, Deliver(lba, g)
    PROVE  PoolInv' /\ pool'.slots = pool.slots
<1> DEFINE handle == FindReady(pool, lba, g)
<1>1. handle \in Used(pool)
  <2>1. /\ ReadyCopies(pool, lba, g) # {}
        /\ handle = First(ReadyCopies(pool, lba, g))
    BY DEF Deliver, FindReady
  <2>2. /\ ReadyCopies(pool, lba, g) \subseteq Used(pool)
        /\ ReadyCopies(pool, lba, g) \subseteq Handles
    BY DEF ReadyCopies, Used, Holding
  <2> QED
    BY <2>1, <2>2, FirstIsMember
<1>2. pool' = CopyReady(pool, handle) /\ UNCHANGED <<transfer, media>>
  BY DEF Deliver
<1> HIDE DEF handle
<1>3. /\ pool' \in Pools
      /\ OrderIsTotal(pool')
      /\ pool'.slots = pool.slots
      /\ Used(pool') = Used(pool)
  BY <1>1, <1>2, CopyReadyKeepsSlots DEF PoolInv
<1> QED
  BY <1>2, <1>3 DEF PoolInv, SlotOwnership, Holding, Checked, UniqueSector, CurrentMediumOnly

-----------------------------------------------------------------------------
\* What begin_read and begin_write find before they reserve a slot: only ready
\* copies of the current medium, and none of the sector they are after.
Clear(p, lba, g) ==
    /\ p \in Pools
    /\ OrderIsTotal(p)
    /\ Used(p) \subseteq Used(pool)
    /\ \A h \in Used(p) : /\ p.slots[h] = pool.slots[h]
                          /\ ~IsSector(p.slots[h], lba, g)

LEMMA ReadIsClear ==
    ASSUME PoolInv, transfer = NoTransfer, NEW lba, NEW g,
           FindReady(pool, lba, g) = NoHandle
    PROVE  Clear(pool, lba, g)
<1>1. ReadyCopies(pool, lba, g) = {}
  <2>1. ReadyCopies(pool, lba, g) \subseteq Handles
    BY DEF ReadyCopies, Holding
  <2>2. NoHandle \notin Handles
    BY DEF NoHandle, Handles
  <2> QED
    BY <2>1, <2>2, FirstIsMember DEF FindReady
<1> QED
  BY <1>1, NothingInFlight DEF PoolInv, Clear, ReadyCopies, Used, Holding

LEMMA WriteIsClear ==
    ASSUME PoolInv, transfer = NoTransfer, NEW lba, NEW g
    PROVE  Clear(DroppingCopies(pool, lba, g), lba, g)
<1> DEFINE copies == ReadyCopies(pool, lba, g)
           p == Release(pool, copies)
<1>1. DroppingCopies(pool, lba, g) = p
  BY DEF DroppingCopies, InvalidateReady
<1>2. /\ p \in Pools
      /\ OrderIsTotal(p)
      /\ Used(p) = Used(pool) \ copies
      /\ \A h \in Handles : p.slots[h] = IF h \in copies THEN FreeSlot ELSE pool.slots[h]
  BY ReleaseFrees DEF PoolInv
<1>3. \A h \in Used(p) : h \in Handles /\ h \in Used(pool) /\ h \notin copies
  BY <1>2 DEF Used, Holding
<1>4. \A h \in Used(p) : ~IsSector(pool.slots[h], lba, g)
  BY <1>3, NothingInFlight DEF ReadyCopies, Used, Holding
<1> QED
  BY <1>1, <1>2, <1>3, <1>4 DEF Clear

\* Starting a transfer gives it a slot of its own, or leaves everything as it was.
LEMMA BeginKeeps ==
    ASSUME PoolInv, transfer = NoTransfer, NEW p, NEW type \in {"Read", "Write"},
           NEW lba \in Lbas, NEW g \in Generations, NEW op \in BackendOperations,
           op.type = type, op.lba = lba,
           Clear(p, lba, g), Selectable(g), BeginTransfer(p, type, lba, g, op)
    PROVE  PoolInv' /\ TransferMatchesOperation'
<1> DEFINE handle == Victim(p)
           q == Reserve(p, handle, OpState(type), lba, g, op.data)
           slot == [state |-> OpState(type), lba |-> lba, generation |-> g, data |-> op.data]
<1>1. /\ handle # NoHandle
      /\ Issue(op)
      /\ media' = g
      /\ IF state' = "AwaitingResponse"
           THEN /\ pool' = q
                /\ transfer' = [type |-> type, handle |-> handle, lba |-> lba, generation |-> g]
           ELSE /\ pool' = Release(q, {handle})
                /\ UNCHANGED transfer
  BY DEF BeginTransfer, Start
<1>2. handle \in Handles /\ p.slots[handle].state \in {"Free", "Ready"}
  BY <1>1, VictimIsFreeOrOldest DEF Clear
<1>3. OpState(type) \in {"Reading", "Writing"} /\ op.data \in Blocks
  BY DEF OpState, BackendOperations, ReadOperation, WriteOperation
<1> HIDE DEF handle
<1>4. /\ q \in Pools
      /\ OrderIsTotal(q)
      /\ Used(q) = Used(p) \cup {handle}
      /\ q.slots[handle] = slot
      /\ \A h \in Handles : h # handle => q.slots[h] = p.slots[h]
  BY <1>2, <1>3, ReserveFills DEF Clear
<1> HIDE DEF q
<1>5. /\ Used(p) \subseteq Used(pool) /\ Used(pool) \subseteq Handles
      /\ \A h \in Used(p) : /\ p.slots[h] = pool.slots[h]
                            /\ ~IsSector(p.slots[h], lba, g)
                            /\ pool.slots[h].state = "Ready"
                            /\ pool.slots[h].generation = g
  <2>1. \A h \in Used(pool) : pool.slots[h].generation \in Generations
    BY DEF PoolInv, Pools, Slots, FreeSlot, Used, Holding
  <2>2. \A h \in Used(pool) : pool.slots[h].generation = g
    BY <2>1 DEF PoolInv, CurrentMediumOnly, Selectable, NoGeneration
  <2> QED
    BY <2>2, NothingInFlight DEF Clear, Used, Holding
<1>6. CASE state' = "AwaitingResponse"
  <2>1. /\ pool' = q
        /\ transfer' = [type |-> type, handle |-> handle, lba |-> lba, generation |-> g]
    BY <1>1, <1>6
  <2>2. transfer' \in Transfers /\ transfer' # NoTransfer
    BY <1>2, <2>1 DEF Transfers, NoTransfer
  <2>3. SlotOwnership'
    <3>1. \A h \in Handles : pool'.slots[h].state \in {"Reading", "Writing"} <=> h = handle
      BY <1>2, <1>3, <1>4, <1>5, <2>1 DEF Used, Holding
    <3>2. Holding(pool', {"Reading", "Writing"}) = {handle}
      BY <1>2, <3>1 DEF Holding
    <3>3. handle \notin {NoHandle}
      BY <1>2 DEF NoHandle, Handles
    <3> QED
      BY <1>2, <1>4, <2>1, <3>2, <3>3 DEF SlotOwnership, Checked, IsSector
  <2>4. CurrentMediumOnly'
    BY <1>1, <1>4, <1>5, <2>1 DEF CurrentMediumOnly
  <2>5. UniqueSector'
    <3> SUFFICES ASSUME NEW a \in Used(q), NEW b \in Used(q), a # b
                 PROVE  ~IsSector(q.slots[a], q.slots[b].lba, q.slots[b].generation)
      BY <2>1 DEF UniqueSector
    <3>1. CASE a = handle
      BY <1>4, <1>5, <3>1 DEF IsSector
    <3>2. CASE b = handle
      BY <1>4, <1>5, <3>2 DEF IsSector
    <3>3. CASE a # handle /\ b # handle
      BY <1>4, <1>5, <3>3 DEF PoolInv, UniqueSector
    <3> QED
      BY <3>1, <3>2, <3>3
  <2>6. TransferMatchesOperation'
    <3>1. operation' = op /\ operation' # NoOperation
      BY <1>1, <1>6, CoordinatorAssumption DEF Issue
    <3> QED
      BY <1>4, <2>1, <3>1 DEF TransferMatchesOperation
  <2> QED
    BY <1>1, <1>4, <2>1, <2>2, <2>3, <2>4, <2>5, <2>6 DEF PoolInv
<1>7. CASE state' # "AwaitingResponse"
  <2>1. pool' = Release(q, {handle}) /\ transfer' = NoTransfer
    BY <1>1, <1>7
  <2>2. /\ pool' \in Pools
        /\ OrderIsTotal(pool')
        /\ Used(pool') = (Used(p) \cup {handle}) \ {handle}
        /\ \A h \in Handles : pool'.slots[h] = IF h \in {handle} THEN FreeSlot ELSE q.slots[h]
    BY <1>4, <2>1, ReleaseFrees
  <2>3. \A h \in Used(pool') : h \in Used(p) /\ h \in Used(pool) /\ pool'.slots[h] = pool.slots[h]
    BY <1>4, <1>5, <2>2
  <2>4. SlotOwnership'
    <3>1. Holding(pool', {"Reading", "Writing"}) = {}
      BY <1>5, <2>3 DEF Used, Holding
    <3> QED
      BY <2>1, <3>1 DEF SlotOwnership, NoTransfer
  <2>5. CurrentMediumOnly'
    BY <1>1, <1>4, <1>5, <2>2 DEF CurrentMediumOnly
  <2>6. UniqueSector'
    BY <2>3 DEF PoolInv, UniqueSector
  <2>7. TransferMatchesOperation'
    BY <1>1, <1>7, <2>1 DEF Issue, TransferMatchesOperation
  <2> QED
    BY <1>1, <2>1, <2>2, <2>4, <2>5, <2>6, <2>7 DEF PoolInv, Transfers
<1> QED
  BY <1>6, <1>7

-----------------------------------------------------------------------------
\* Steps of the coordinator that leave pool and transfer alone keep them matched
\* to the operation, unless they retain another one.
LEMMA MatchStands ==
    ASSUME TransferMatchesOperation,
           transfer' = transfer, pool'.slots = pool.slots,
           \/ operation' = operation /\ (operation = NoOperation => state' = state)
           \/ operation' = NoOperation /\ state' = "Failed"
    PROVE  TransferMatchesOperation'
BY DEF TransferMatchesOperation

LEMMA NothingToMatch ==
    ASSUME transfer' = NoTransfer, operation' = NoOperation
    PROVE  TransferMatchesOperation'
BY DEF TransferMatchesOperation

LEMMA PoolStands ==
    ASSUME PoolInv, UNCHANGED <<pool, transfer, media>>
    PROVE  PoolInv'
BY DEF PoolInv, SlotOwnership, Holding, Checked, UniqueSector, CurrentMediumOnly, OrderIsTotal,
   Used

\* With the coordinator idle there is no transfer.
LEMMA IdleHasNoTransfer ==
    ASSUME BackendInv, state = "Idle"
    PROVE  transfer = NoTransfer /\ operation = NoOperation
BY DEF BackendInv, Inductive, OperationRetained, TransferMatchesOperation, InFlightStates,
   ParkedStates

\* The end of an attempt that failed: the slot goes with the operation.
LEMMA FailureKeeps ==
    ASSUME BackendInv, transfer # NoTransfer, AbandonIfFailed, UNCHANGED media,
           \/ operation' = operation /\ operation # NoOperation /\ state' # "Failed"
           \/ operation' = NoOperation /\ state' = "Failed"
    PROVE  PoolInv' /\ TransferMatchesOperation'
<1>1. CASE state' = "Failed"
  BY <1>1, AbandonKeeps, NothingToMatch DEF BackendInv, AbandonIfFailed
<1>2. CASE state' # "Failed"
  <2>1. UNCHANGED <<pool, transfer, media>>
    BY <1>2 DEF AbandonIfFailed
  <2> QED
    BY <1>2, <2>1, PoolStands, MatchStands DEF BackendInv
<1> QED
  BY <1>1, <1>2

LEMMA RouteFailureRetains ==
    ASSUME BackendInv, state = "AwaitingResponse",
           NEW advice \in {"RetrySameSession", "DoNotRetry"} \cup ParkedStates,
           RouteFailure(advice)
    PROVE  \/ operation' = operation /\ operation # NoOperation /\ state' # "Failed"
           \/ operation' = NoOperation /\ state' = "Failed"
BY DEF BackendInv, Inductive, OperationRetained, InFlightStates, ParkedStates, RouteFailure

\* A request that is outstanding belongs to a transfer.
LEMMA RequestHasTransfer ==
    ASSUME BackendInv, state \in InFlightStates
    PROVE  transfer # NoTransfer /\ operation # NoOperation
<1>1. operation # NoOperation /\ operation \in BackendOperations
  BY DEF BackendInv, Inductive, OperationRetained, TypeOK
<1>2. operation.type \in {"Read", "Write"}
  BY <1>1 DEF BackendOperations, ReadOperation, WriteOperation
<1> QED
  BY <1>1, <1>2 DEF BackendInv, TransferMatchesOperation, NoTransfer

LEMMA InitBackendInv == BackendInit => BackendInv
<1> SUFFICES ASSUME BackendInit PROVE BackendInv
  OBVIOUS
<1>1. Inductive
  BY InitInductive DEF BackendInit
<1>2. pool = EmptyPool /\ transfer = NoTransfer /\ media = NoGeneration
      /\ operation = NoOperation
  BY DEF BackendInit, Init
<1>3. SlotOwnership
  BY <1>2, EmptyPoolIsEmpty DEF SlotOwnership, NoTransfer
<1>4. UniqueSector /\ CurrentMediumOnly
  BY <1>2, EmptyPoolIsEmpty DEF UniqueSector, CurrentMediumOnly
<1>5. TransferMatchesOperation
  BY <1>2 DEF TransferMatchesOperation
<1> QED
  BY <1>1, <1>2, <1>3, <1>4, <1>5, EmptyPoolIsEmpty DEF BackendInv, PoolInv, Transfers

LEMMA NextBackendInv == BackendInv /\ [BackendNext]_allVars => BackendInv'
<1> SUFFICES ASSUME BackendInv, [BackendNext]_allVars PROVE PoolInv' /\ TransferMatchesOperation'
  BY StepWithin, NextInductive DEF BackendInv
<1> USE DEF BackendInv
<1>1. ASSUME NEW lba \in Lbas, NEW g \in Generations, BeginRead(lba, g)
      PROVE  PoolInv' /\ TransferMatchesOperation'
  <2>1. CASE CoalesceRead(lba, g)
    <3>1. UNCHANGED <<vars, pool, transfer>> /\ media' = g
          /\ FindReady(pool, lba, g) # NoHandle /\ Selectable(g)
      BY <2>1 DEF CoalesceRead
    <3>2. \A h \in Used(pool) : pool.slots[h].generation = g
      <4>1. \A h \in Used(pool) : pool.slots[h].generation \in Generations
        BY DEF PoolInv, Pools, Slots, FreeSlot, Used, Holding
      <4> QED
        BY <3>1, <4>1 DEF PoolInv, CurrentMediumOnly, Selectable, NoGeneration
    <3>3. PoolInv'
      BY <3>1, <3>2 DEF PoolInv, SlotOwnership, Holding, Checked, UniqueSector,
         CurrentMediumOnly, OrderIsTotal, Used
    <3> QED
      BY <3>1, <3>3, MatchStands DEF vars
  <2>2. CASE RequestRead(lba, g)
    <3>1. /\ transfer = NoTransfer
          /\ Selectable(g)
          /\ FindReady(pool, lba, g) = NoHandle
          /\ BeginTransfer(pool, "Read", lba, g, ReadOperation(lba))
      BY <2>2 DEF RequestRead, ReadyForTransfer
    <3>2. /\ ReadOperation(lba) \in BackendOperations
          /\ ReadOperation(lba).type = "Read"
          /\ ReadOperation(lba).lba = lba
      BY DEF BackendOperations, ReadOperation
    <3> QED
      BY <3>1, <3>2, ReadIsClear, BeginKeeps
  <2> QED
    BY <1>1, <2>1, <2>2 DEF BeginRead
<1>2. ASSUME NEW lba \in Lbas, NEW g \in Generations, BeginSequentialPrefetch(lba, g)
      PROVE  PoolInv' /\ TransferMatchesOperation'
  <2>1. lba + 1 \in Lbas /\ BeginRead(lba + 1, g)
    BY <1>2 DEF BeginSequentialPrefetch, Lbas
  <2> QED
    BY <2>1, <1>1
<1>3. ASSUME NEW lba \in Lbas, NEW g \in Generations, NEW data \in Blocks,
             BeginWrite(lba, g, data)
      PROVE  PoolInv' /\ TransferMatchesOperation'
  <2>1. /\ transfer = NoTransfer
        /\ Selectable(g)
        /\ BeginTransfer(DroppingCopies(pool, lba, g), "Write", lba, g,
                         WriteOperation(lba, data))
    BY <1>3 DEF BeginWrite, ReadyForTransfer
  <2>2. /\ WriteOperation(lba, data) \in BackendOperations
        /\ WriteOperation(lba, data).type = "Write"
        /\ WriteOperation(lba, data).lba = lba
    BY DEF BackendOperations, WriteOperation
  <2> QED
    BY <2>1, <2>2, WriteIsClear, BeginKeeps
<1>4. ASSUME NEW lba \in Lbas, NEW g \in Generations, Deliver(lba, g)
      PROVE  PoolInv' /\ TransferMatchesOperation'
  BY <1>4, DeliverKeeps, MatchStands DEF Deliver, vars
<1>5. ASSUME UNCHANGED backendVars, UNCHANGED <<state, operation>>
      PROVE  PoolInv' /\ TransferMatchesOperation'
  BY <1>5, PoolStands, MatchStands DEF backendVars
<1>6. ASSUME NEW r \in BackendResponses, AcceptTransferResponse(r)
      PROVE  PoolInv' /\ TransferMatchesOperation'
  <2>1. transfer # NoTransfer /\ ValidForTransfer(r) /\ UNCHANGED media
    BY <1>6 DEF AcceptTransferResponse
  <2>2. CASE AcceptSuccess(r) /\ FinishTransfer(r)
    <3>1. r.kind = "OK" /\ operation' = NoOperation
      BY <2>2 DEF AcceptSuccess, IsSuccess
    <3> QED
      BY <2>1, <2>2, <3>1, FinishKeeps, NothingToMatch
  <2>3. CASE AcceptError(r) /\ AbandonIfFailed
    <3>1. RetryAdvice(r.code) \in {"RetrySameSession", "DoNotRetry"} \cup ParkedStates
      BY DEF RetryAdvice, ParkedStates
    <3> QED
      BY <2>1, <2>3, <3>1, RouteFailureRetains, FailureKeeps DEF AcceptError
  <2>4. CASE RetryFailed /\ AbandonIfFailed
    <3>1. state' = "Failed" /\ operation' = NoOperation
      BY <2>4 DEF RetryFailed, vars, Inductive, OperationRetained, InFlightStates, ParkedStates
    <3> QED
      BY <2>1, <2>4, <3>1, FailureKeeps
  <2> QED
    BY <1>6, <2>2, <2>3, <2>4 DEF AcceptTransferResponse
<1>7. CASE BackendExpire
  <2>1. AbandonIfFailed /\ UNCHANGED media
    BY <1>7 DEF BackendExpire
  <2>2. CASE ExpireIfDue
    <3>1. state = "AwaitingResponse" /\ RouteFailure("RetrySameSession")
      BY <2>2 DEF ExpireIfDue, Inductive, AwaitingIsGuarded
    <3>2. transfer # NoTransfer
      BY <3>1, RequestHasTransfer DEF InFlightStates
    <3> QED
      BY <2>1, <3>1, <3>2, RouteFailureRetains, FailureKeeps
  <2>3. CASE RetryFailed
    <3>1. transfer # NoTransfer /\ state' = "Failed" /\ operation' = NoOperation
      BY <2>3 DEF RetryFailed, vars, Inductive, OperationRetained, InFlightStates, ParkedStates
    <3> QED
      BY <2>1, <3>1, FailureKeeps
  <2> QED
    BY <1>7, <2>2, <2>3 DEF BackendExpire
<1>8. CASE BackendPoll
  <2>1. operation' = operation /\ operation # NoOperation /\ UNCHANGED <<pool, transfer, media>>
    BY <1>8, RequestHasTransfer DEF BackendPoll, Poll, InFlightStates, backendVars
  <2> QED
    BY <2>1, PoolStands, MatchStands
<1>9. CASE BackendIssueRetry
  <2>1. operation # NoOperation /\ UNCHANGED <<pool, transfer, media>>
    BY <1>9, RequestHasTransfer DEF BackendIssueRetry, IssueRetry, InFlightStates, backendVars
  <2>2. \/ operation' = operation
        \/ operation' = NoOperation /\ state' = "Failed"
    BY <1>9 DEF BackendIssueRetry, IssueRetry, Issue
  <2> QED
    BY <2>1, <2>2, PoolStands, MatchStands
<1>10. CASE BackendDisconnect \/ Invalidate
  <2>1. Forgotten /\ media' = NoGeneration /\ operation' = NoOperation
    BY <1>10 DEF BackendDisconnect, Disconnect, Parks, Invalidate, Cancel, CancelWith
  <2> QED
    BY <2>1, ForgottenKeeps, NothingToMatch DEF Forgotten
<1>11. ASSUME NEW c, NEW g \in Generations, MediaChangedWith(c, g)
       PROVE  PoolInv' /\ TransferMatchesOperation'
  <2>1. CASE media = g
    BY <1>5, <1>11, <2>1 DEF MediaChangedWith
  <2>2. CASE media # g
    <3>1. Forgotten /\ media' = g /\ operation' = NoOperation
      BY <1>11, <2>2 DEF MediaChangedWith, CancelWith
    <3> QED
      BY <3>1, ForgottenKeeps, NothingToMatch DEF Forgotten
  <2> QED
    BY <2>1, <2>2
<1>12. ASSUME NEW r \in BackendResponses, AcceptGetInfo(r)
       PROVE  PoolInv' /\ TransferMatchesOperation'
  <2>1. state = "Idle" /\ IsSuccess(client, r) /\ r.body.type = "Info"
    BY <1>12 DEF AcceptGetInfo, InfoPending
  <2>2. CASE r.body.present
    <3>1. r.body.generation \in Generations
      <4>1. r.body \in Bodies
        BY <2>1 DEF IsSuccess, BackendResponses, ErrResponses, BadResponses
      <4> QED
        BY <2>1, <4>1 DEF Bodies, NoBody, BlockBody, InfoBody
    <3> QED
      BY <1>11, <1>12, <2>2, <3>1 DEF AcceptGetInfo
  <2>3. CASE ~r.body.present
    <3>1. transfer = NoTransfer /\ operation = NoOperation
      BY <2>1, IdleHasNoTransfer
    <3>2. /\ pool' = EmptyPool /\ media' = NoGeneration
          /\ UNCHANGED <<operation, transfer>>
      BY <1>12, <2>3 DEF AcceptGetInfo, InvalidateMediaWith
    <3> QED
      BY <3>1, <3>2, ForgottenKeeps, NothingToMatch DEF Forgotten
  <2> QED
    BY <2>2, <2>3
<1>13. CASE UNCHANGED allVars \/ BackendBeginHandshake \/ BackendBeginGetInfo
            \/ (Tick /\ UNCHANGED backendVars)
            \/ \E r \in BackendResponses : BackendAcceptHandshake(r)
  BY <1>5, <1>13 DEF allVars, vars, backendVars, BackendBeginHandshake, BeginHandshake,
     BackendBeginGetInfo, BeginGetInfo, Tick, coordinatorVars, BackendAcceptHandshake,
     AcceptDirect
<1> QED
  BY <1>1, <1>2, <1>3, <1>4, <1>6, <1>7, <1>8, <1>9, <1>10, <1>11, <1>12, <1>13
     DEF BackendNext, MediaChanged

THEOREM BackendInvariant == BackendSpec => []BackendInv
<1>1. BackendInit => BackendInv
  BY InitBackendInv
<1>2. BackendInv /\ [BackendNext]_allVars => BackendInv'
  BY NextBackendInv
<1> QED
  BY <1>1, <1>2, PTL DEF BackendSpec

\* Coordinator, pool, transfer and medium keep their types, for every capacity.
THEOREM BackendIsTyped == BackendSpec => []BackendTypeOK
<1>1. BackendInv => BackendTypeOK
  BY DEF BackendInv, Inductive, PoolInv, BackendTypeOK
<1> QED
  BY <1>1, BackendInvariant, PTL

\* A slot waits for the host exactly when the transfer in flight owns it.
THEOREM SlotsAreOwned == BackendSpec => []SlotOwnership
<1>1. BackendInv => SlotOwnership
  BY DEF BackendInv, PoolInv
<1> QED
  BY <1>1, BackendInvariant, PTL

\* What would be sent again is what the transfer's slot was reserved for.
THEOREM TransfersMatch == BackendSpec => []TransferMatchesOperation
<1>1. BackendInv => TransferMatchesOperation
  BY DEF BackendInv
<1> QED
  BY <1>1, BackendInvariant, PTL

\* No sector of a medium ever has two slots.
THEOREM SectorsAreUnique == BackendSpec => []UniqueSector
<1>1. BackendInv => UniqueSector
  BY DEF BackendInv, PoolInv
<1> QED
  BY <1>1, BackendInvariant, PTL

\* Nothing of another medium is ever buffered.
THEOREM MediumIsCurrent == BackendSpec => []CurrentMediumOnly
<1>1. BackendInv => CurrentMediumOnly
  BY DEF BackendInv, PoolInv
<1> QED
  BY <1>1, BackendInvariant, PTL

-----------------------------------------------------------------------------
\* A step that starts no transfer evicts nothing.
LEMMA OnlyTransfersEvict ==
    ASSUME BackendInv, BackendInv', transfer' \in {transfer, NoTransfer},
           NEW h \in Handles
    PROVE  ~EvictedFor(h, transfer'.lba)
<1>1. Holding(pool', {"Reading", "Writing"}) \subseteq Holding(pool, {"Reading", "Writing"})
  BY DEF BackendInv, PoolInv, SlotOwnership, NoTransfer
<1> QED
  BY <1>1 DEF EvictedFor, Holding

LEMMA BeginEvictsOldest ==
    ASSUME BackendInv, BackendInv', transfer = NoTransfer, NEW p, NEW type, NEW lba, NEW g,
           NEW op, BeginTransfer(p, type, lba, g, op),
           p \in Pools,
           \A x \in Handles : pool.slots[x].state = "Ready" /\ pool.slots[x].lba # lba
                               => p.slots[x].state = "Ready",
           Holding(p, {"Free"}) = {} => p = pool,
           NEW h \in Handles, NEW other \in Handles, h # other,
           EvictedFor(h, transfer'.lba)
    PROVE  h \in pool.older[other]
<1>1. transfer' \notin {transfer, NoTransfer}
  BY OnlyTransfersEvict
<1>2. transfer' = [type |-> type, handle |-> Victim(p), lba |-> lba, generation |-> g]
      /\ Victim(p) # NoHandle
  BY <1>1 DEF BeginTransfer
<1>3. h = Victim(p)
  <2>1. h \in Holding(pool', {"Reading", "Writing"})
    BY DEF EvictedFor, Holding
  <2> QED
    BY <1>2, <2>1 DEF BackendInv, PoolInv, SlotOwnership
<1>4. p.slots[h].state = "Ready"
  BY <1>2 DEF EvictedFor
<1>5. p = pool /\ pool.older[h] \cap Holding(pool, {"Ready"}) = {}
      /\ Holding(pool, {"Free"}) = {}
  BY <1>2, <1>3, <1>4, VictimIsFreeOrOldest
<1>6. pool.slots[other].state = "Ready"
  <2>1. other \in Used(pool)
    BY <1>5 DEF Used, Holding, BackendInv, PoolInv, Pools, Slots, FreeSlot
  <2> QED
    BY <2>1, NothingInFlight DEF BackendInv
<1>7. h \in Used(pool) /\ other \in Used(pool) /\ other \notin pool.older[h]
  BY <1>4, <1>5, <1>6 DEF Used, Holding
<1> QED
  BY <1>7 DEF BackendInv, PoolInv, OrderIsTotal

\* Room is made by evicting the copy used longest ago, never a newer one.
THEOREM OldestIsEvicted == BackendSpec => EvictsOldest
<1> DEFINE Kept == \A h, other \in Handles :
                       EvictedFor(h, transfer'.lba) /\ h # other => h \in pool.older[other]
<1>1. BackendInv /\ BackendInv' /\ [BackendNext]_allVars => [Kept]_allVars
  <2> SUFFICES ASSUME BackendInv, BackendInv', BackendNext PROVE Kept
    OBVIOUS
  <2>1. ASSUME transfer' \in {transfer, NoTransfer} PROVE Kept
    BY <2>1, OnlyTransfersEvict
  <2>2. ASSUME NEW lba \in Lbas, NEW g \in Generations, BeginRead(lba, g) PROVE Kept
    <3>1. CASE CoalesceRead(lba, g)
      BY <2>1, <3>1 DEF CoalesceRead
    <3>2. CASE RequestRead(lba, g)
      BY <3>2, BeginEvictsOldest DEF RequestRead, ReadyForTransfer, BackendInv, PoolInv
    <3> QED
      BY <2>2, <3>1, <3>2 DEF BeginRead
  <2>3. ASSUME NEW lba \in Lbas, NEW g \in Generations, BeginSequentialPrefetch(lba, g)
        PROVE  Kept
    <3>1. lba + 1 \in Lbas /\ BeginRead(lba + 1, g)
      BY <2>3 DEF BeginSequentialPrefetch, Lbas
    <3> QED
      BY <3>1, <2>2
  <2>4. ASSUME NEW lba \in Lbas, NEW g \in Generations, NEW data \in Blocks,
               BeginWrite(lba, g, data)
        PROVE  Kept
    <3> DEFINE copies == ReadyCopies(pool, lba, g)
               p == Release(pool, copies)
    <3>1. /\ transfer = NoTransfer
          /\ BeginTransfer(p, "Write", lba, g, WriteOperation(lba, data))
      BY <2>4 DEF BeginWrite, ReadyForTransfer, DroppingCopies, InvalidateReady
    <3>2. /\ p \in Pools
          /\ \A h \in Handles : p.slots[h] = IF h \in copies THEN FreeSlot ELSE pool.slots[h]
      BY ReleaseFrees DEF BackendInv, PoolInv
    <3>3. \A x \in copies : x \in Handles /\ pool.slots[x].lba = lba
      BY DEF ReadyCopies, Holding, IsSector
    <3>4. Holding(p, {"Free"}) = {} => p = pool
      <4> SUFFICES ASSUME Holding(p, {"Free"}) = {} PROVE p = pool
        OBVIOUS
      <4>1. copies = {}
        BY <3>2, <3>3 DEF Holding, FreeSlot
      <4>2. /\ pool = [slots |-> pool.slots, older |-> pool.older]
            /\ pool.slots = [h \in Handles |-> pool.slots[h]]
            /\ pool.older = [h \in Handles |-> pool.older[h]]
        BY DEF BackendInv, PoolInv, Pools
      <4>3. p = [slots |-> [h \in Handles |-> pool.slots[h]],
                 older |-> [h \in Handles |-> pool.older[h]]]
        BY <4>1 DEF Release
      <4> QED
        BY <4>2, <4>3
    <3> HIDE DEF p, copies
    <3> QED
      BY <3>1, <3>2, <3>3, <3>4, BeginEvictsOldest
  <2>5. ASSUME ~(\E lba \in Lbas, g \in Generations :
                     \/ BeginRead(lba, g)
                     \/ BeginSequentialPrefetch(lba, g)
                     \/ \E data \in Blocks : BeginWrite(lba, g, data))
        PROVE  transfer' \in {transfer, NoTransfer}
    BY <2>5 DEF BackendNext, BackendBeginHandshake, BackendBeginGetInfo, Deliver,
       BackendAcceptHandshake, AcceptGetInfo, MediaChangedWith, InvalidateMediaWith,
       AcceptTransferResponse, FinishTransfer, AbandonIfFailed, Abandon, BackendExpire,
       BackendPoll, BackendIssueRetry, BackendDisconnect, Invalidate, Forgotten, MediaChanged,
       backendVars
  <2> QED
    BY <2>1, <2>2, <2>3, <2>4, <2>5
<1> QED
  BY <1>1, BackendInvariant, PTL DEF BackendSpec, EvictsOldest
=============================================================================
