----------------------- MODULE OperationCoordinatorProofs -----------------------
(***************************************************************************)
(* Proofs about OperationCoordinator for every value of its constants.     *)
(* The inductive invariant is the conjunction of the type invariant and    *)
(* the four safety invariants of the module.                               *)
(*                                                                         *)
(* At the end, the arithmetic of RetryBackoff, on words of any width.      *)
(***************************************************************************)
EXTENDS OperationCoordinator, WellFoundedInduction, TLAPS

Inductive ==
    /\ TypeOK
    /\ AwaitingIsGuarded
    /\ BackoffIsScheduled
    /\ OperationRetained
    /\ PendingIsNewest

USE SessionAssumption, CoordinatorAssumption

-----------------------------------------------------------------------------
\* Timer arithmetic never leaves the clock's range.
LEMMA SaturatingAddType ==
    ASSUME NEW left \in Ticks, NEW right \in Nat
    PROVE  SaturatingAdd(left, right) \in Ticks
BY DEF SaturatingAdd, Ticks

\* The client operators keep a client a client.
LEMMA ClientType ==
    ASSUME NEW c \in Client
    PROVE  /\ CancelPending(c) \in Client
           /\ Reset(c) \in Client
           /\ \A handshake \in BOOLEAN : CanRequest(c) \/ CanHandshake(c) =>
                  ReserveRequest(c, handshake) \in Client
           /\ \A r \in Responses : Accept(c, r) \in Client
<1>1. CancelPending(c) \in Client
  BY DEF CancelPending, Client
<1>2. FreshClient \in Client
  BY DEF FreshClient, Client
<1>3. ASSUME NEW handshake \in BOOLEAN, CanRequest(c) \/ CanHandshake(c)
      PROVE  ReserveRequest(c, handshake) \in Client
  BY <1>3 DEF ReserveRequest, Client, NextId, CanRequest, CanHandshake
<1>4. ASSUME NEW r \in Responses
      PROVE  Accept(c, r) \in Client
  <2>1. CASE IsSuccess(c, r) /\ c.pendingHandshake
    <3>1. r.session \in Sessions
      BY <1>4, <2>1 DEF IsSuccess, Correlated, Responses, OkResponses, ErrResponses, BadResponses
    <3>2. Accept(c, r) = Establish(c, r.session)
      BY <2>1 DEF Accept
    <3> QED
      BY <3>1, <3>2 DEF Client, Establish
  <2>2. CASE ~(IsSuccess(c, r) /\ c.pendingHandshake)
    <3>1. Accept(c, r) \in {CancelPending(c), c}
      BY <2>2 DEF Accept
    <3> QED
      BY <3>1, <1>1
  <2> QED
    BY <2>1, <2>2
<1> QED
  BY <1>1, <1>2, <1>3, <1>4 DEF Reset

-----------------------------------------------------------------------------
\* The shapes every sub-action leaves behind.
LEMMA RetryShapes ==
    ASSUME TypeOK
    PROVE  /\ RetryCleared \in [scheduled : 0 .. MaximumRetries, waiting : BOOLEAN, at : Ticks]
           /\ Consumed(retry) \in [scheduled : 0 .. MaximumRetries, waiting : BOOLEAN, at : Ticks]
           /\ DeadlineCleared \in [armed : BOOLEAN, at : Ticks]
           /\ DeadlineArmed \in [armed : BOOLEAN, at : Ticks]
<1>1. DeadlineArmed \in [armed : BOOLEAN, at : Ticks]
  BY SaturatingAddType DEF TypeOK, DeadlineArmed
<1> QED
  BY <1>1 DEF TypeOK, RetryCleared, Consumed, DeadlineCleared, Ticks

\* issue() either leaves a guarded request or abandons the operation.
LEMMA IssueKeepsInductive ==
    ASSUME Inductive, NEW op \in Operations, Issue(op), UNCHANGED now,
           ~deadline.armed,
           retry' \in {RetryCleared, Consumed(retry)}
    PROVE  Inductive'
<1>1. TypeOK'
  <2>1. CASE CanRequest(client) /\ RequestTimeout # 0
    BY <2>1, RetryShapes, ClientType DEF Inductive, TypeOK, Issue, States, InFlightStates
  <2>2. CASE ~(CanRequest(client) /\ RequestTimeout # 0)
    <3>1. client' \in Client
      <4>1. CASE CanRequest(client)
        <5>1. ReserveRequest(client, FALSE) \in Client
          BY <4>1, ClientType DEF Inductive, TypeOK
        <5> QED
          BY <2>2, <4>1, <5>1, ClientType DEF Issue
      <4>2. CASE ~CanRequest(client)
        BY <2>2, <4>2 DEF Issue, Inductive, TypeOK
      <4> QED
        BY <4>1, <4>2
    <3> QED
      BY <2>2, <3>1, RetryShapes DEF Inductive, TypeOK, Issue, States
  <2> QED
    BY <2>1, <2>2
<1>2. AwaitingIsGuarded'
  <2>1. CASE CanRequest(client) /\ RequestTimeout # 0
    <3>1. /\ client' = ReserveRequest(client, FALSE)
          /\ state' = "AwaitingResponse"
          /\ deadline' = DeadlineArmed
      BY <2>1 DEF Issue
    <3>2. RequestPending(client') /\ ~client'.pendingHandshake /\ client'.negotiated
      BY <2>1, <3>1 DEF ReserveRequest, CanRequest, RequestPending
    <3>3. deadline'.armed = TRUE
      BY <3>1 DEF DeadlineArmed
    <3> QED
      BY <3>1, <3>2, <3>3 DEF AwaitingIsGuarded, RequestPending
  <2>2. CASE ~(CanRequest(client) /\ RequestTimeout # 0)
    BY <2>2 DEF Inductive, TypeOK, AwaitingIsGuarded, Issue
  <2> QED
    BY <2>1, <2>2
<1>3. BackoffIsScheduled'
  <2>1. retry'.waiting = FALSE
    BY DEF RetryCleared, Consumed
  <2>2. state' \in {"AwaitingResponse", "Failed"}
    BY DEF Issue
  <2> QED
    BY <2>1, <2>2 DEF BackoffIsScheduled
<1>4. OperationRetained'
  BY DEF Inductive, OperationRetained, Issue, InFlightStates, ParkedStates
<1>5. PendingIsNewest'
  <2>1. CASE CanRequest(client)
    BY <2>1 DEF PendingIsNewest, Issue, ReserveRequest, CancelPending, RequestPending
  <2>2. CASE ~CanRequest(client)
    <3>1. client' = client
      BY <2>2 DEF Issue
    <3> QED
      BY <3>1 DEF Inductive, PendingIsNewest
  <2> QED
    BY <2>1, <2>2
<1> QED
  BY <1>1, <1>2, <1>3, <1>4, <1>5 DEF Inductive

\* route_failure() is entered from a wait whose request has just been dropped.
LEMMA FailureKeepsInductive ==
    ASSUME Inductive, state = "AwaitingResponse",
           NEW advice \in {"RetrySameSession", "DoNotRetry"} \cup ParkedStates,
           RouteFailure(advice), UNCHANGED now,
           deadline' = DeadlineCleared,
           client' = CancelPending(client)
    PROVE  Inductive'
<1>1. TypeOK'
  <2>1. client' \in Client /\ deadline' \in [armed : BOOLEAN, at : Ticks]
    BY ClientType, RetryShapes DEF Inductive, TypeOK
  <2>2. CASE advice = "RetrySameSession" /\ RetryAllowed
    <3>1. retry.scheduled \in 0 .. MaximumRetries /\ BackoffDelay[retry.scheduled] \in Nat
      BY DEF Inductive, TypeOK
    <3>2. SaturatingAdd(now, BackoffDelay[retry.scheduled]) \in Ticks
      BY <3>1, SaturatingAddType DEF Inductive, TypeOK
    <3>3. retry' \in [scheduled : 0 .. MaximumRetries, waiting : BOOLEAN, at : Ticks]
      <4>1. retry' = [scheduled |-> retry.scheduled + 1, waiting |-> TRUE,
                      at |-> SaturatingAdd(now, BackoffDelay[retry.scheduled])]
        BY <2>2 DEF RouteFailure, ParkedStates
      <4>2. retry.scheduled + 1 \in 0 .. MaximumRetries
        BY <2>2, <3>1 DEF RetryAllowed
      <4> QED
        BY <4>1, <4>2, <3>2
    <3> QED
      BY <2>1, <2>2, <3>3
         DEF Inductive, TypeOK, RouteFailure, States, InFlightStates, ParkedStates
  <2>3. CASE ~(advice = "RetrySameSession" /\ RetryAllowed)
    BY <2>1, <2>3, RetryShapes
       DEF Inductive, TypeOK, RouteFailure, States, ParkedStates
  <2> QED
    BY <2>2, <2>3
<1>2. AwaitingIsGuarded'
  BY DEF AwaitingIsGuarded, RouteFailure, DeadlineCleared, ParkedStates
<1>3. BackoffIsScheduled'
  BY DEF Inductive, TypeOK, AwaitingIsGuarded, BackoffIsScheduled, RouteFailure, Consumed,
         CancelPending, RequestPending, ParkedStates
<1>4. OperationRetained'
  BY DEF Inductive, OperationRetained, RouteFailure, InFlightStates, ParkedStates
<1>5. PendingIsNewest'
  BY DEF PendingIsNewest, CancelPending, RequestPending
<1> QED
  BY <1>1, <1>2, <1>3, <1>4, <1>5 DEF Inductive

-----------------------------------------------------------------------------
\* A step that only changes the client outside a wait.
LEMMA ClientStepKeepsInductive ==
    ASSUME Inductive, state # "AwaitingResponse", ~retry.waiting,
           client' \in Client, PendingIsNewest',
           UNCHANGED <<now, state, operation, deadline, retry>>
    PROVE  Inductive'
BY DEF Inductive, TypeOK, AwaitingIsGuarded, BackoffIsScheduled, OperationRetained

LEMMA InitInductive == Init => Inductive
<1> SUFFICES ASSUME Init PROVE Inductive
  OBVIOUS
<1>1. FreshClient \in Client
  BY DEF FreshClient, Client
<1>2. TypeOK
  BY <1>1 DEF Init, TypeOK, States, DeadlineCleared, RetryCleared, Ticks
<1> QED
  BY <1>2 DEF Init, Inductive, AwaitingIsGuarded, BackoffIsScheduled, OperationRetained,
     PendingIsNewest, FreshClient, RequestPending, DeadlineCleared, RetryCleared,
     InFlightStates, ParkedStates

LEMMA NextInductive == Inductive /\ [Next]_vars => Inductive'
<1> SUFFICES ASSUME Inductive, [Next]_vars PROVE Inductive'
  OBVIOUS
<1> USE DEF Inductive
<1>1. ASSUME NEW op \in Operations, Start(op) PROVE Inductive'
  BY <1>1, IssueKeepsInductive DEF Start, Open, AwaitingIsGuarded
<1>2. ASSUME NEW r \in Responses, AcceptSuccess(r) PROVE Inductive'
  <2>1. client' = CancelPending(client)
    BY <1>2 DEF AcceptSuccess, Accept, AwaitingIsGuarded
  <2>2. TypeOK'
    BY <1>2, <2>1, ClientType, RetryShapes DEF AcceptSuccess, TypeOK, States
  <2> QED
    BY <1>2, <2>1, <2>2 DEF AcceptSuccess, AwaitingIsGuarded, BackoffIsScheduled,
       OperationRetained, PendingIsNewest, CancelPending, RequestPending, DeadlineCleared,
       RetryCleared, InFlightStates, ParkedStates
<1>3. ASSUME NEW r \in Responses, AcceptError(r) PROVE Inductive'
  <2>1. client' = CancelPending(client)
    BY <1>3 DEF AcceptError, Accept, AwaitingIsGuarded
  <2>2. RetryAdvice(r.code) \in {"RetrySameSession", "DoNotRetry"} \cup ParkedStates
    BY DEF RetryAdvice, ParkedStates
  <2> QED
    BY <1>3, <2>1, <2>2, FailureKeepsInductive DEF AcceptError
<1>4. CASE ExpireIfDue
  <2>1. RequestPending(client)
    BY <1>4 DEF ExpireIfDue, AwaitingIsGuarded
  <2> QED
    BY <1>4, <2>1, FailureKeepsInductive DEF ExpireIfDue
<1>5. CASE Poll
  BY <1>5 DEF Poll, RetryDue, TypeOK, AwaitingIsGuarded, BackoffIsScheduled, OperationRetained,
     PendingIsNewest, States, InFlightStates, ParkedStates
<1>6. CASE IssueRetry
  <2>1. operation \in Operations
    BY <1>6 DEF IssueRetry, OperationRetained, InFlightStates, TypeOK
  <2>2. ~deadline.armed
    BY <1>6 DEF IssueRetry, AwaitingIsGuarded
  <2> QED
    BY <1>6, <2>1, <2>2, IssueKeepsInductive DEF IssueRetry
<1>7. ASSUME NEW parked \in ParkedStates, Resume(parked) PROVE Inductive'
  <2>1. operation \in Operations
    BY <1>7 DEF Resume, OperationRetained, TypeOK
  <2>2. ~deadline.armed
    BY <1>7 DEF Resume, AwaitingIsGuarded, ParkedStates
  <2> QED
    BY <1>7, <2>1, <2>2, IssueKeepsInductive DEF Resume
<1>8. ASSUME NEW retain \in BOOLEAN, Disconnect(retain) PROVE Inductive'
  <2>1. client' = FreshClient /\ client' \in Client
    BY <1>8, ClientType DEF Disconnect, Reset, TypeOK
  <2>2. TypeOK'
    BY <1>8, <2>1, RetryShapes DEF Disconnect, TypeOK, States, ParkedStates
  <2> QED
    BY <1>8, <2>1, <2>2 DEF Disconnect, Parks, AwaitingIsGuarded, BackoffIsScheduled,
       OperationRetained, PendingIsNewest, FreshClient, RequestPending, DeadlineCleared,
       RetryCleared, InFlightStates, ParkedStates
<1>9. ASSUME NEW c \in {CancelPending(client), Reset(CancelPending(client))}, CancelWith(c)
      PROVE  Inductive'
  <2>1. c \in Client /\ c.pendingId = 0
    <3>1. CancelPending(client) \in Client
      BY ClientType DEF TypeOK
    <3>2. Reset(CancelPending(client)) \in Client
      BY <3>1, ClientType
    <3>3. CancelPending(client).pendingId = 0
      BY DEF CancelPending
    <3>4. Reset(CancelPending(client)).pendingId = 0
      BY DEF Reset, FreshClient
    <3> QED
      BY <1>9, <3>1, <3>2, <3>3, <3>4
  <2>2. TypeOK'
    BY <1>9, <2>1, RetryShapes DEF CancelWith, TypeOK, States
  <2> QED
    BY <1>9, <2>1, <2>2 DEF CancelWith, AwaitingIsGuarded, BackoffIsScheduled,
       OperationRetained, PendingIsNewest, RequestPending, DeadlineCleared, RetryCleared,
       InFlightStates, ParkedStates
<1>10. CASE BeginHandshake
  <2>1. client' \in Client
    BY <1>10, ClientType DEF BeginHandshake, TypeOK
  <2>2. PendingIsNewest'
    BY <1>10 DEF BeginHandshake, PendingIsNewest, ReserveRequest
  <2>3. state # "AwaitingResponse" /\ ~retry.waiting
    BY <1>10 DEF BeginHandshake, CanHandshake, AwaitingIsGuarded, BackoffIsScheduled
  <2> QED
    BY <1>10, <2>1, <2>2, <2>3, ClientStepKeepsInductive DEF BeginHandshake
<1>11. CASE BeginGetInfo
  <2>1. client' \in Client
    BY <1>11, ClientType DEF BeginGetInfo, TypeOK
  <2>2. PendingIsNewest'
    BY <1>11 DEF BeginGetInfo, PendingIsNewest, ReserveRequest
  <2>3. state # "AwaitingResponse" /\ ~retry.waiting
    BY <1>11 DEF BeginGetInfo, BackoffIsScheduled
  <2> QED
    BY <1>11, <2>1, <2>2, <2>3, ClientStepKeepsInductive DEF BeginGetInfo
<1>12. ASSUME NEW r \in Responses, AcceptDirect(r) PROVE Inductive'
  <2>1. client' \in Client
    BY <1>12, ClientType DEF AcceptDirect, TypeOK
  <2>2. PendingIsNewest'
    BY <1>12 DEF AcceptDirect, PendingIsNewest, Accept, Establish, CancelPending, RequestPending
  <2>3. state # "AwaitingResponse" /\ ~retry.waiting
    BY <1>12 DEF AcceptDirect, BackoffIsScheduled
  <2> QED
    BY <1>12, <2>1, <2>2, <2>3, ClientStepKeepsInductive DEF AcceptDirect
<1>13. CASE ResetSession
  <2>1. client' \in Client
    BY <1>13, ClientType DEF ResetSession, TypeOK
  <2>2. PendingIsNewest'
    BY <1>13 DEF ResetSession, PendingIsNewest, Reset, FreshClient, RequestPending
  <2>3. state # "AwaitingResponse" /\ ~retry.waiting
    BY <1>13 DEF ResetSession, BackoffIsScheduled
  <2> QED
    BY <1>13, <2>1, <2>2, <2>3, ClientStepKeepsInductive DEF ResetSession
<1>14. CASE Tick
  BY <1>14 DEF Tick, coordinatorVars, Ticks, TypeOK, AwaitingIsGuarded, BackoffIsScheduled,
     OperationRetained, PendingIsNewest
<1>15. CASE UNCHANGED vars
  BY <1>15 DEF vars, TypeOK, AwaitingIsGuarded, BackoffIsScheduled, OperationRetained,
     PendingIsNewest
<1> QED
  BY <1>1, <1>2, <1>3, <1>4, <1>5, <1>6, <1>7, <1>8, <1>9, <1>10, <1>11, <1>12, <1>13, <1>14,
     <1>15
     DEF Next, Respond, AcceptResponse, Cancel, ResetAll, ResumeAfterRenegotiation,
         ResumeAfterMediaAvailable, ParkedStates

THEOREM InductiveInvariant == Spec => []Inductive
<1>1. Init => Inductive
  BY InitInductive
<1>2. Inductive /\ [Next]_vars => Inductive'
  BY NextInductive
<1> QED
  BY <1>1, <1>2, PTL DEF Spec

\* Every variable keeps its type, for every clock width, id width and budget.
THEOREM TypeCorrect == Spec => []TypeOK
BY InductiveInvariant, PTL DEF Inductive

\* A coordinator that waits for a response has a live request and a deadline.
THEOREM WaitsAreGuarded == Spec => []AwaitingIsGuarded
BY InductiveInvariant, PTL DEF Inductive

\* Backoff timers run exactly in the retry states and are never ready early.
THEOREM BackoffsAreScheduled == Spec => []BackoffIsScheduled
BY InductiveInvariant, PTL DEF Inductive

\* The operation is retained exactly as long as it may be sent again.
THEOREM OperationsAreRetained == Spec => []OperationRetained
BY InductiveInvariant, PTL DEF Inductive

\* A cancelled request's answer can never be taken for the pending one's.
THEOREM PendingIdsAreNewest == Spec => []PendingIsNewest
BY InductiveInvariant, PTL DEF Inductive

-----------------------------------------------------------------------------
\* How any step moves the id counter.
LEMMA NextIdMoves ==
    ASSUME Next
    PROVE  \/ client'.nextId = client.nextId
           \/ client.nextId # 0 /\ client'.nextId = NextId(client.nextId)
           \/ client' = FreshClient
<1>1. ASSUME NEW op, Issue(op)
      PROVE  \/ client'.nextId = client.nextId
             \/ client.nextId # 0 /\ client'.nextId = NextId(client.nextId)
  BY <1>1 DEF Issue, ReserveRequest, CancelPending, CanRequest
<1>2. ASSUME NEW r, client' = Accept(client, r)
      PROVE  client'.nextId = client.nextId
  BY <1>2 DEF Accept, Establish, CancelPending
<1>3. CancelPending(client).nextId = client.nextId
  BY DEF CancelPending
<1>4. CASE \E op \in Operations : Start(op)
  BY <1>4, <1>1 DEF Start
<1>5. CASE Respond
  BY <1>5, <1>2 DEF Respond, AcceptResponse, AcceptSuccess, AcceptError, AcceptDirect
<1>6. CASE ExpireIfDue
  BY <1>6, <1>3 DEF ExpireIfDue
<1>7. CASE IssueRetry \/ ResumeAfterRenegotiation \/ ResumeAfterMediaAvailable
  BY <1>7, <1>1 DEF IssueRetry, ResumeAfterRenegotiation, ResumeAfterMediaAvailable, Resume
<1>8. CASE (\E retain \in BOOLEAN : Disconnect(retain)) \/ ResetAll \/ ResetSession
  BY <1>8 DEF Disconnect, ResetAll, CancelWith, ResetSession, Reset
<1>9. CASE Cancel
  BY <1>9, <1>3 DEF Cancel, CancelWith
<1>10. CASE BeginHandshake \/ BeginGetInfo
  BY <1>10 DEF BeginHandshake, BeginGetInfo, ReserveRequest, CanHandshake, CanRequest
<1>11. CASE Poll \/ Tick
  BY <1>11 DEF Poll, Tick, coordinatorVars
<1> QED
  BY <1>4, <1>5, <1>6, <1>7, <1>8, <1>9, <1>10, <1>11 DEF Next

\* Ids move forward to the exhausted mark and start again only with a reset, so
\* no id is spent twice in a session.
THEOREM IdsAreSpentOnce == Spec => IdsNeverReused
<1> DEFINE Forward ==
        LET before == client.nextId
            after == client'.nextId
        IN  \/ after = before
            \/ 0 < before /\ before < after
            \/ before = MaxId /\ after = 0
            \/ client' = FreshClient
<1>1. Inductive /\ [Next]_vars => [Forward]_vars
  <2> SUFFICES ASSUME Inductive, Next PROVE Forward
    BY DEF vars
  <2>1. client.nextId \in 0 .. MaxId
    BY DEF Inductive, TypeOK, Client
  <2> QED
    BY <2>1, NextIdMoves DEF NextId
<1> QED
  BY <1>1, InductiveInvariant, PTL DEF Spec, IdsNeverReused

-----------------------------------------------------------------------------
\* What the contract sees of each sub-action.
LEMMA IssueImplements ==
    ASSUME Inductive, NEW op \in Operations, Issue(op), ~deadline.armed,
           retry' \in {RetryCleared, Consumed(retry)},
           Attempts = retry'.scheduled
    PROVE  Contract!Send(op) \/ Contract!Drop("Failed")
<1>1. CASE CanRequest(client) /\ RequestTimeout # 0
  <2>1. state' = "AwaitingResponse" /\ operation' = op
    BY <1>1 DEF Issue
  <2>2. Attempts' = retry'.scheduled + 1 /\ PhaseOf(state)' = "Sent"
    BY <2>1 DEF Attempts, PhaseOf, ParkedStates
  <2> QED
    BY <2>1, <2>2 DEF Contract!Send
<1>2. CASE ~(CanRequest(client) /\ RequestTimeout # 0)
  <2>1. state' = "Failed" /\ operation' = NoOperation
    BY <1>2 DEF Issue
  <2>2. Attempts' = 0 /\ PhaseOf(state)' = "Failed"
    BY <2>1 DEF Attempts, PhaseOf, ParkedStates
  <2> QED
    BY <2>1, <2>2 DEF Contract!Drop
<1> QED
  BY <1>1, <1>2

LEMMA FailureImplements ==
    ASSUME Inductive, state = "AwaitingResponse",
           NEW advice \in {"RetrySameSession", "DoNotRetry"} \cup ParkedStates,
           RouteFailure(advice)
    PROVE  Contract!BackOff \/ Contract!Park \/ Contract!Abandon
<1>1. PhaseOf(state) = "Sent" /\ Attempts = retry.scheduled + 1
  BY DEF PhaseOf, Attempts, ParkedStates
<1>2. retry.scheduled \in Nat
  BY DEF Inductive, TypeOK
<1>3. CASE advice = "RetrySameSession" /\ RetryAllowed
  <2>1. /\ state' = "WaitingRetry"
        /\ operation' = operation
        /\ retry'.scheduled = retry.scheduled + 1
    BY <1>3 DEF RouteFailure, ParkedStates
  <2>2. PhaseOf(state)' = "Backoff" /\ Attempts' = Attempts
    BY <2>1, <1>1 DEF PhaseOf, Attempts, ParkedStates
  <2> QED
    BY <1>1, <1>2, <1>3, <2>1, <2>2 DEF Contract!BackOff, RetryAllowed
<1>4. CASE advice \in ParkedStates
  <2>1. state' \in ParkedStates /\ operation' = operation
    BY <1>4 DEF RouteFailure, ParkedStates
  <2>2. PhaseOf(state)' = "Parked" /\ Attempts' = 0
    BY <2>1 DEF PhaseOf, Attempts, ParkedStates
  <2> QED
    BY <1>1, <2>1, <2>2 DEF Contract!Park
<1>5. CASE ~(advice = "RetrySameSession" /\ RetryAllowed) /\ advice \notin ParkedStates
  <2>1. state' = "Failed" /\ operation' = NoOperation
    BY <1>5 DEF RouteFailure, ParkedStates
  <2>2. PhaseOf(state)' = "Failed" /\ Attempts' = 0
    BY <2>1 DEF PhaseOf, Attempts, ParkedStates
  <2> QED
    BY <1>1, <2>1, <2>2 DEF Contract!Abandon, Contract!Drop
<1> QED
  BY <1>3, <1>4, <1>5

LEMMA ClearImplements ==
    ASSUME state' = "Idle", operation' = NoOperation
    PROVE  Contract!Clear
<1>1. PhaseOf(state)' = "Resting" /\ Attempts' = 0
  BY DEF PhaseOf, Attempts, ParkedStates
<1> QED
  BY <1>1 DEF Contract!Clear, Contract!Drop

LEMMA InitImplements == Init => Contract!Init
BY DEF Init, Contract!Init, PhaseOf, Attempts, ParkedStates

LEMMA StepImplements == Inductive /\ [Next]_vars => [Contract!Next]_Contract!vars
<1> SUFFICES ASSUME Inductive, [Next]_vars PROVE [Contract!Next]_Contract!vars
  OBVIOUS
<1> USE DEF Inductive
<1>1. ASSUME NEW op \in Operations, Start(op) PROVE Contract!Submit(op)
  <2>1. PhaseOf(state) = "Resting" /\ Attempts = 0 /\ retry'.scheduled = 0
    BY <1>1 DEF Start, Open, PhaseOf, Attempts, RetryCleared, ParkedStates
  <2>2. ~deadline.armed
    BY <1>1 DEF Start, Open, AwaitingIsGuarded
  <2> QED
    BY <1>1, <2>1, <2>2, IssueImplements DEF Start, Contract!Submit
<1>2. ASSUME NEW r \in Responses, AcceptSuccess(r) PROVE Contract!Next
  BY <1>2, ClearImplements DEF AcceptSuccess, Contract!Next
<1>3. ASSUME NEW r \in Responses, AcceptError(r) PROVE Contract!Next
  <2>1. RetryAdvice(r.code) \in {"RetrySameSession", "DoNotRetry"} \cup ParkedStates
    BY DEF RetryAdvice, ParkedStates
  <2> QED
    BY <1>3, <2>1, FailureImplements DEF AcceptError, Contract!Next
<1>4. ASSUME ExpireIfDue PROVE Contract!Next
  <2>1. RequestPending(client)
    BY <1>4 DEF ExpireIfDue, AwaitingIsGuarded
  <2> QED
    BY <1>4, <2>1, FailureImplements DEF ExpireIfDue, Contract!Next
<1>5. ASSUME Poll PROVE UNCHANGED Contract!vars
  BY <1>5 DEF Poll, Contract!vars, PhaseOf, Attempts, ParkedStates
<1>6. ASSUME IssueRetry PROVE Contract!Next
  <2>1. operation \in Operations
    BY <1>6 DEF IssueRetry, OperationRetained, InFlightStates, TypeOK
  <2>2. ~deadline.armed
    BY <1>6 DEF IssueRetry, AwaitingIsGuarded
  <2>3. PhaseOf(state) = "Backoff" /\ Attempts = retry'.scheduled
    BY <1>6 DEF IssueRetry, PhaseOf, Attempts, Consumed, ParkedStates
  <2> QED
    BY <1>6, <2>1, <2>2, <2>3, IssueImplements DEF IssueRetry, Contract!Resend, Contract!Next
<1>7. ASSUME NEW parked \in ParkedStates, Resume(parked) PROVE Contract!Next
  <2>1. operation \in Operations
    BY <1>7 DEF Resume, OperationRetained, TypeOK
  <2>2. ~deadline.armed
    BY <1>7 DEF Resume, AwaitingIsGuarded, ParkedStates
  <2>3. PhaseOf(state) = "Parked" /\ Attempts = 0 /\ retry'.scheduled = 0
    BY <1>7 DEF Resume, PhaseOf, Attempts, RetryCleared, ParkedStates
  <2> QED
    BY <1>7, <2>1, <2>2, <2>3, IssueImplements DEF Resume, Contract!Resend, Contract!Next
<1>8. ASSUME NEW retain \in BOOLEAN, Disconnect(retain) PROVE Contract!Next
  <2>1. CASE Parks(retain)
    <3>1. state' = "Renegotiate" /\ operation' = operation
      BY <1>8, <2>1 DEF Disconnect
    <3>2. PhaseOf(state)' = "Parked" /\ Attempts' = 0
      BY <3>1 DEF PhaseOf, Attempts, ParkedStates
    <3>3. state \in InFlightStates \cup ParkedStates
      BY <2>1 DEF Parks, OperationRetained
    <3>4. PhaseOf(state) \in {"Sent", "Backoff", "Parked"}
      BY <3>3 DEF PhaseOf, InFlightStates, ParkedStates
    <3> QED
      BY <3>1, <3>2, <3>4 DEF Contract!Park, Contract!Next
  <2>2. CASE ~Parks(retain)
    BY <1>8, <2>2, ClearImplements DEF Disconnect, Contract!Next
  <2> QED
    BY <2>1, <2>2
<1>9. ASSUME NEW c, CancelWith(c) PROVE Contract!Next
  BY <1>9, ClearImplements DEF CancelWith, Contract!Next
<1>10. ASSUME UNCHANGED <<state, operation, retry>> PROVE UNCHANGED Contract!vars
  BY <1>10 DEF Contract!vars, PhaseOf, Attempts, ParkedStates
<1>11. CASE UNCHANGED vars \/ BeginHandshake \/ BeginGetInfo \/ ResetSession \/ Tick
  BY <1>11, <1>10 DEF vars, BeginHandshake, BeginGetInfo, ResetSession, Tick, coordinatorVars
<1>12. ASSUME NEW r, AcceptDirect(r) PROVE UNCHANGED Contract!vars
  BY <1>12, <1>10 DEF AcceptDirect
<1>13. ASSUME NEW op \in Operations, Contract!Submit(op) PROVE Contract!Next
  BY <1>13 DEF Contract!Next
<1> QED
  BY <1>1, <1>2, <1>3, <1>4, <1>5, <1>6, <1>7, <1>8, <1>9, <1>11, <1>12, <1>13
     DEF Next, Respond, AcceptResponse, Cancel, ResetAll, ResumeAfterRenegotiation,
         ResumeAfterMediaAvailable, ParkedStates

\* Every behaviour of the coordinator is a behaviour of its contract: at most
\* 1 + MaximumRetries sends per accepted or resumed operation, whatever the host
\* answers and whatever the caller does.
THEOREM Implements == Spec => ImplementsContract
<1>1. Init => Contract!Init
  BY InitImplements
<1>2. Inductive /\ [Next]_vars => [Contract!Next]_Contract!vars
  BY StepImplements
<1> QED
  BY <1>1, <1>2, InductiveInvariant, PTL DEF Spec, ImplementsContract, Contract!Spec

-----------------------------------------------------------------------------
\* The backoff of the controller, on words 0 .. MaxTick.

\* Induction, for the doubling loop and the loops over the slots.
LEMMA SmallestOf ==
    ASSUME NEW T, T \subseteq Nat, T # {}
    PROVE  \E n \in T : \A m \in T : n <= m
<1>1. PICK n \in T : \A m \in T : <<m, n>> \notin OpToRel(<, Nat)
  BY NatLessThanWellFounded, WFMin, Zenon
<1>2. ASSUME NEW m \in T PROVE n <= m
  <2>1. n \in Nat /\ m \in Nat /\ ~(m < n)
    BY <1>1 DEF OpToRel
  <2> QED
    BY <2>1
<1> QED
  BY <1>2

\* The doubling loop as bounded_backoff runs it: the delay after each pass.
Pass(delay, largest) == IF delay < largest THEN Arithmetic!Doubled(delay, largest) ELSE delay
Passes(f, first, largest, n) ==
    f = [k \in 0 .. n |-> IF k = 0 THEN first ELSE Pass(f[k - 1], largest)]

\* The values a step function runs through.
Iterates(f, first, step, n) == f[0] = first /\ \A k \in 1 .. n : f[k] = step[f[k - 1]]

LEMMA IteratesExist ==
    ASSUME NEW S, NEW first \in S, NEW step \in [S -> S], NEW n \in Nat
    PROVE  \E f \in [0 .. n -> S] : Iterates(f, first, step, n)
<1> DEFINE T == {k \in Nat : ~\E f \in [0 .. k -> S] : Iterates(f, first, step, k)}
<1> SUFFICES ASSUME T # {} PROVE FALSE
  OBVIOUS
<1>1. PICK m \in T : \A k \in T : m <= k
  BY SmallestOf
<1>2. CASE m = 0
  <2> DEFINE f == [k \in 0 .. 0 |-> first]
  <2>1. f \in [0 .. 0 -> S] /\ Iterates(f, first, step, 0)
    BY DEF Iterates
  <2> QED
    BY <1>2, <2>1
<1>3. CASE m # 0
  <2>1. m - 1 \in Nat /\ m \in Nat
    BY <1>3
  <2>2. m - 1 \notin T
    BY <1>1, <2>1
  <2>3. PICK f \in [0 .. m - 1 -> S] : Iterates(f, first, step, m - 1)
    BY <2>1, <2>2
  <2> DEFINE g == [k \in 0 .. m |-> IF k = m THEN step[f[m - 1]] ELSE f[k]]
  <2>4. g \in [0 .. m -> S]
    <3>1. step[f[m - 1]] \in S
      BY <2>1
    <3> QED
      BY <2>1, <3>1
  <2>5. ASSUME NEW k \in 1 .. m PROVE g[k] = step[g[k - 1]]
    <3>1. k - 1 \in 0 .. m - 1 /\ g[k - 1] = f[k - 1]
      BY <2>1
    <3>2. CASE k = m
      BY <2>1, <3>1, <3>2
    <3>3. CASE k # m
      <4>1. k \in 1 .. m - 1 /\ g[k] = f[k]
        BY <2>1, <3>3
      <4> QED
        BY <2>3, <3>1, <4>1 DEF Iterates
    <3> QED
      BY <3>2, <3>3
  <2>6. g[0] = first
    BY <1>3, <2>1, <2>3 DEF Iterates
  <2> QED
    BY <2>4, <2>5, <2>6 DEF Iterates
<1> QED
  BY <1>2, <1>3

LEMMA IteratesAgree ==
    ASSUME NEW first, NEW step, NEW n \in Nat, NEW m \in Nat, n <= m, NEW f, NEW g,
           Iterates(f, first, step, n), Iterates(g, first, step, m)
    PROVE  f[n] = g[n]
<1> DEFINE T == {k \in 0 .. n : f[k] # g[k]}
<1> SUFFICES ASSUME T # {} PROVE FALSE
  OBVIOUS
<1>1. PICK k \in T : \A j \in T : k <= j
  <2>1. T \subseteq Nat
    OBVIOUS
  <2> QED
    BY <2>1, SmallestOf
<1>2. CASE k = 0
  BY <1>2 DEF Iterates
<1>3. CASE k # 0
  <2>1. k \in 1 .. n /\ k \in 1 .. m /\ k - 1 \in 0 .. n /\ k - 1 \notin T
    BY <1>1, <1>3
  <2>2. f[k] = step[f[k - 1]] /\ g[k] = step[g[k - 1]]
    BY <2>1, Zenon DEF Iterates
  <2> QED
    BY <2>1, <2>2
<1> QED
  BY <1>2, <1>3

LEMMA PassesAgree ==
    ASSUME NEW first, NEW largest, NEW n \in Nat, NEW f, NEW g,
           Passes(f, first, largest, n), Passes(g, first, largest, n + 1)
    PROVE  f[n] = g[n]
<1> DEFINE T == {k \in 0 .. n : f[k] # g[k]}
<1> SUFFICES ASSUME T # {} PROVE FALSE
  OBVIOUS
<1>1. PICK k \in T : \A j \in T : k <= j
  <2>1. T \subseteq Nat
    OBVIOUS
  <2> QED
    BY <2>1, SmallestOf
<1>2. /\ f[k] = IF k = 0 THEN first ELSE Pass(f[k - 1], largest)
      /\ g[k] = IF k = 0 THEN first ELSE Pass(g[k - 1], largest)
  BY DEF Passes
<1>3. k # 0 => k - 1 \in 0 .. n /\ k - 1 \notin T
  BY <1>1
<1> QED
  BY <1>2, <1>3

LEMMA WordsStay ==
    ASSUME NEW n \in Nat, n <= MaxTick
    PROVE  Arithmetic!Wrap(n) = n
<1>1. MaxTick + 1 \in Nat /\ n < MaxTick + 1
  OBVIOUS
<1>2. n % (MaxTick + 1) = n
  BY <1>1
<1> QED
  BY <1>2 DEF Arithmetic!Wrap

\* Doubling stays below the largest delay, and so within the word.
LEMMA PassDoubles ==
    ASSUME NEW largest \in Nat, NEW delay \in 1 .. largest, largest = 1 \/ largest <= MaxTick
    PROVE  Pass(delay, largest) \in 1 .. largest
           /\ Pass(delay, largest) = Smaller(2 * delay, largest)
<1>1. CASE delay = largest
  BY <1>1 DEF Pass, Smaller
<1>2. CASE delay < largest /\ delay > largest - delay
  BY <1>2 DEF Pass, Smaller, Arithmetic!Doubled
<1>3. CASE delay < largest /\ ~(delay > largest - delay)
  <2>1. delay * 2 \in 0 .. largest /\ delay * 2 = 2 * delay
    BY <1>3
  <2>2. largest <= MaxTick
    BY <1>3
  <2>3. Arithmetic!Wrap(delay * 2) = delay * 2
    BY <2>1, <2>2, WordsStay
  <2> QED
    BY <1>3, <2>1, <2>3 DEF Pass, Smaller, Arithmetic!Doubled
<1> QED
  BY <1>1, <1>2, <1>3

LEMMA PassesExist ==
    ASSUME NEW largest \in Nat, NEW first \in 1 .. largest, largest = 1 \/ largest <= MaxTick,
           NEW n \in Nat
    PROVE  \E f : Passes(f, first, largest, n)
<1> DEFINE step == [delay \in 1 .. largest |-> Pass(delay, largest)]
<1>1. step \in [1 .. largest -> 1 .. largest]
  BY PassDoubles
<1>2. PICK f \in [0 .. n -> 1 .. largest] : Iterates(f, first, step, n)
  BY <1>1, IteratesExist
<1>3. \A k \in 0 .. n : f[k] = IF k = 0 THEN first ELSE Pass(f[k - 1], largest)
  <2> SUFFICES ASSUME NEW k \in 0 .. n, k # 0
               PROVE  f[k] = Pass(f[k - 1], largest)
    BY <1>2 DEF Iterates
  <2>1. k \in 1 .. n /\ k - 1 \in 0 .. n /\ f[k - 1] \in 1 .. largest
    OBVIOUS
  <2> QED
    BY <1>2, <2>1 DEF Iterates
<1> QED
  BY <1>3 DEF Passes

LEMMA PassesAreBounded ==
    ASSUME NEW largest \in Nat, NEW first \in 1 .. largest, largest = 1 \/ largest <= MaxTick,
           NEW n \in Nat, NEW f, Passes(f, first, largest, n)
    PROVE  \A k \in 0 .. n : f[k] \in 1 .. largest
<1> DEFINE T == {k \in 0 .. n : f[k] \notin 1 .. largest}
<1> SUFFICES ASSUME T # {} PROVE FALSE
  OBVIOUS
<1>1. PICK k \in T : \A j \in T : k <= j
  <2>1. T \subseteq Nat
    OBVIOUS
  <2> QED
    BY <2>1, SmallestOf
<1>2. f[k] = IF k = 0 THEN first ELSE Pass(f[k - 1], largest)
  BY DEF Passes
<1>3. k # 0 => k - 1 \in 0 .. n /\ k - 1 \notin T
  BY <1>1
<1> QED
  BY <1>2, <1>3, PassDoubles

LEMMA BackoffIsPasses ==
    ASSUME NEW initial \in Ticks, NEW maximum \in Ticks, NEW n \in Nat
    PROVE  LET first == Arithmetic!FirstDelay(initial)
               largest == Arithmetic!LargestDelay(initial, maximum)
           IN  /\ largest \in Nat /\ first \in 1 .. largest /\ (largest = 1 \/ largest <= MaxTick)
               /\ \E f : /\ Passes(f, first, largest, n)
                         /\ Arithmetic!BoundedBackoff(initial, maximum, n) = f[n]
<1> DEFINE first == Arithmetic!FirstDelay(initial)
           largest == Arithmetic!LargestDelay(initial, maximum)
           f == CHOOSE d : d = [k \in 0 .. n |->
                   IF k = 0 THEN first
                   ELSE IF d[k - 1] < largest THEN Arithmetic!Doubled(d[k - 1], largest)
                                              ELSE d[k - 1]]
<1>1. largest \in Nat /\ first \in 1 .. largest /\ (largest = 1 \/ largest <= MaxTick)
  BY DEF Ticks, Arithmetic!FirstDelay, Arithmetic!LargestDelay
<1>2. Arithmetic!BoundedBackoff(initial, maximum, n) = IF f[n] > largest THEN largest ELSE f[n]
  BY DEF Arithmetic!BoundedBackoff
<1> HIDE DEF first, largest
<1>3. Passes(f, first, largest, n)
  <2>1. \E d : Passes(d, first, largest, n)
    BY <1>1, PassesExist
  <2> QED
    BY <2>1 DEF Passes, Pass
<1> HIDE DEF f
<1>4. f[n] \in 1 .. largest
  BY <1>1, <1>3, PassesAreBounded
<1>5. Arithmetic!BoundedBackoff(initial, maximum, n) = f[n]
  BY <1>1, <1>2, <1>4
<1> QED
  BY <1>1, <1>3, <1>5 DEF first, largest

LEMMA BackoffDoubles ==
    ASSUME NEW initial \in Ticks, NEW maximum \in Ticks, NEW n \in Nat
    PROVE  LET delay(k) == Arithmetic!BoundedBackoff(initial, maximum, k)
               first == Arithmetic!FirstDelay(initial)
               largest == Arithmetic!LargestDelay(initial, maximum)
           IN  /\ delay(0) = first
               /\ delay(n + 1) = Smaller(2 * delay(n), largest)
               /\ delay(n) \in 1 .. largest
<1> DEFINE delay(k) == Arithmetic!BoundedBackoff(initial, maximum, k)
           first == Arithmetic!FirstDelay(initial)
           largest == Arithmetic!LargestDelay(initial, maximum)
<1> HIDE DEF delay, first, largest
<1>1. largest \in Nat /\ first \in 1 .. largest /\ (largest = 1 \/ largest <= MaxTick)
  BY BackoffIsPasses DEF first, largest
<1>2. ASSUME NEW k \in Nat PROVE \E f : Passes(f, first, largest, k) /\ delay(k) = f[k]
  BY BackoffIsPasses DEF first, largest, delay
<1>3. delay(0) = first
  BY <1>2 DEF Passes
<1>4. PICK f : Passes(f, first, largest, n) /\ delay(n) = f[n]
  BY <1>2
<1>5. PICK g : Passes(g, first, largest, n + 1) /\ delay(n + 1) = g[n + 1]
  BY <1>2
<1>6. f[n] \in 1 .. largest
  BY <1>1, <1>4, PassesAreBounded
<1>7. g[n + 1] = Pass(g[n], largest)
  BY <1>5 DEF Passes
<1>8. g[n] = f[n]
  BY <1>4, <1>5, PassesAgree
<1>9. delay(n + 1) = Smaller(2 * delay(n), largest)
  BY <1>1, <1>4, <1>5, <1>6, <1>7, <1>8, PassDoubles
<1> QED
  BY <1>3, <1>4, <1>6, <1>9 DEF delay, first, largest

\* The powers of two exist, as the iterates of doubling.
PowersOfTwo(power) ==
    power \in [Nat -> Nat] /\ power[0] = 1 /\ \A k \in Nat : power[k + 1] = 2 * power[k]

LEMMA PowersExist ==
    \E power : power = [n \in Nat |-> IF n = 0 THEN 1 ELSE 2 * power[n - 1]]
<1> DEFINE double == [k \in Nat |-> 2 * k]
           F(n) == CHOOSE f \in [0 .. n -> Nat] : Iterates(f, 1, double, n)
           power == [n \in Nat |-> F(n)[n]]
<1>1. ASSUME NEW n \in Nat PROVE F(n) \in [0 .. n -> Nat] /\ Iterates(F(n), 1, double, n)
  <2>1. double \in [Nat -> Nat] /\ 1 \in Nat
    OBVIOUS
  <2> HIDE DEF double
  <2>2. \E f \in [0 .. n -> Nat] : Iterates(f, 1, double, n)
    BY <2>1, IteratesExist
  <2> QED
    BY <2>2
<1> HIDE DEF F
<1>2. ASSUME NEW n \in Nat PROVE power[n] = IF n = 0 THEN 1 ELSE 2 * power[n - 1]
  <2>1. CASE n = 0
    BY <1>1, <2>1 DEF Iterates
  <2>2. CASE n # 0
    <3>1. n - 1 \in Nat /\ n - 1 <= n /\ n \in 1 .. n /\ n - 1 \in 0 .. n
      BY <2>2
    <3>2. F(n)[n - 1] = F(n - 1)[n - 1]
      <4> DEFINE f == F(n - 1)
                 g == F(n)
      <4>1. Iterates(f, 1, double, n - 1) /\ Iterates(g, 1, double, n)
        BY <1>1, <3>1
      <4> HIDE DEF f, g, double
      <4>2. f[n - 1] = g[n - 1]
        BY <3>1, <4>1, IteratesAgree
      <4> QED
        BY <4>2 DEF f, g
    <3>3. F(n)[n] = double[F(n)[n - 1]] /\ F(n)[n - 1] \in Nat
      BY <1>1, <3>1 DEF Iterates
    <3> QED
      BY <2>2, <3>1, <3>2, <3>3
  <2> QED
    BY <2>1, <2>2
<1>3. power = [n \in Nat |-> IF n = 0 THEN 1 ELSE 2 * power[n - 1]]
  BY <1>2
<1> QED
  BY <1>3

LEMMA PowerOfTwoDoubles == PowersOfTwo(PowerOfTwo)
<1>1. PowerOfTwo = [n \in Nat |-> IF n = 0 THEN 1 ELSE 2 * PowerOfTwo[n - 1]]
  BY PowersExist DEF PowerOfTwo
<1>2. \A n \in Nat : PowerOfTwo[n] = IF n = 0 THEN 1 ELSE 2 * PowerOfTwo[n - 1]
  BY <1>1
<1>3. ASSUME NEW k \in Nat PROVE PowerOfTwo[k + 1] = 2 * PowerOfTwo[k]
  <2>1. k + 1 \in Nat /\ k + 1 # 0 /\ (k + 1) - 1 = k
    OBVIOUS
  <2> QED
    BY <1>2, <2>1
<1>4. \A n \in Nat : PowerOfTwo[n] \in Nat
  <2> DEFINE T == {n \in Nat : PowerOfTwo[n] \notin Nat}
  <2> SUFFICES ASSUME T # {} PROVE FALSE
    OBVIOUS
  <2>1. PICK n \in T : \A m \in T : n <= m
    BY SmallestOf
  <2>2. n # 0 => n - 1 \in Nat /\ n - 1 \notin T
    BY <2>1
  <2> QED
    BY <1>2, <2>2
<1> QED
  BY <1>1, <1>2, <1>3, <1>4 DEF PowersOfTwo

\* What bounded_backoff computes on words is min(first * 2^n, largest) of the
\* integers, for every number of retries and every pair of limits.
THEOREM BackoffIsExact ==
    ASSUME NEW initial \in Ticks, NEW maximum \in Ticks, NEW n \in Nat
    PROVE  Arithmetic!BoundedBackoff(initial, maximum, n) =
               Smaller(Arithmetic!FirstDelay(initial) * PowerOfTwo[n],
                       Arithmetic!LargestDelay(initial, maximum))
<1>0. PICK power : power = PowerOfTwo /\ PowersOfTwo(power)
  BY PowerOfTwoDoubles
<1> DEFINE delay(k) == Arithmetic!BoundedBackoff(initial, maximum, k)
           first == Arithmetic!FirstDelay(initial)
           largest == Arithmetic!LargestDelay(initial, maximum)
           T == {k \in Nat : delay(k) # Smaller(first * power[k], largest)}
<1>1. largest \in Nat /\ first \in 1 .. largest
  BY BackoffIsPasses
<1>2. delay(0) = first
  BY BackoffDoubles
<1>3. \A k \in Nat : delay(k + 1) = Smaller(2 * delay(k), largest)
  BY BackoffDoubles
<1> HIDE DEF delay, first, largest
<1> SUFFICES ASSUME T # {} PROVE FALSE
  BY <1>0 DEF delay, first, largest
<1>4. PICK k \in T : \A j \in T : k <= j
  <2>1. T \subseteq Nat
    OBVIOUS
  <2> QED
    BY <2>1, SmallestOf
<1>5. /\ k \in Nat /\ delay(k) # Smaller(first * power[k], largest)
      /\ \A j \in Nat : k = j + 1 => delay(j) = Smaller(first * power[j], largest)
  BY <1>4
<1> HIDE DEF T
<1>6. \A a, b \in Nat : a * b \in Nat /\ a * 1 = a /\ a * (2 * b) = 2 * (a * b)
  OBVIOUS
<1>7. first \in Nat /\ \A j \in Nat : power[j] \in Nat
  <2>1. power \in [Nat -> Nat]
    BY <1>0 DEF PowersOfTwo
  <2> QED
    BY <1>1, <2>1
<1>8. first * power[0] = first
  <2>1. power[0] = 1
    BY <1>0 DEF PowersOfTwo
  <2> QED
    BY <1>6, <1>7, <2>1
<1>9. CASE k = 0
  BY <1>1, <1>2, <1>5, <1>8, <1>9 DEF Smaller
<1>10. CASE k # 0
  <2>1. PICK j \in Nat : k = j + 1
    <3>1. k - 1 \in Nat /\ k = (k - 1) + 1
      BY <1>5, <1>10
    <3> QED
      BY <3>1
  <2> DEFINE product == first * power[j]
  <2>2. product \in Nat /\ power[k] = 2 * power[j]
    BY <1>0, <1>6, <1>7, <2>1 DEF PowersOfTwo
  <2>3. first * power[k] = 2 * product
    BY <1>6, <1>7, <2>2
  <2>4. delay(k) = Smaller(2 * Smaller(product, largest), largest)
    BY <1>3, <1>5, <2>1
  <2> HIDE DEF product
  <2>5. Smaller(2 * Smaller(product, largest), largest) = Smaller(2 * product, largest)
    BY <1>1, <2>2 DEF Smaller
  <2> QED
    BY <1>5, <2>3, <2>4, <2>5
<1> QED
  BY <1>9, <1>10

\* The sum on words is the sum on the integers, cut at the largest word.
THEOREM SumsAreExact ==
    ASSUME NEW left \in Ticks, NEW right \in Nat
    PROVE  /\ Arithmetic!SaturatingAdd(left, right) = SaturatingAdd(left, right)
           /\ SaturatingAdd(left, right) = Smaller(left + right, MaxTick)
<1>1. CASE right > MaxTick - left
  BY <1>1 DEF Arithmetic!SaturatingAdd, SaturatingAdd, Smaller, Ticks
<1>2. CASE ~(right > MaxTick - left)
  <2>1. left + right \in 0 .. MaxTick
    BY <1>2 DEF Ticks
  <2>2. Arithmetic!Wrap(left + right) = left + right
    BY <2>1, WordsStay
  <2> QED
    BY <1>2, <2>1, <2>2 DEF Arithmetic!SaturatingAdd, SaturatingAdd, Smaller
<1> QED
  BY <1>1, <1>2

\* The timers of the coordinator: the delay before each retry and every deadline are
\* what they would be on unbounded integers, whatever the limits and the clock.
THEOREM TimersNeverWrap == Spec => []TimersAreExact
<1>1. TypeOK => TimersAreExact
  <2> SUFFICES ASSUME TypeOK PROVE TimersAreExact
    OBVIOUS
  <2>1. retry.scheduled \in Nat /\ now \in Ticks
    BY CoordinatorAssumption DEF TypeOK
  <2>2. \A delay \in Ticks : delay \in Nat
    BY CoordinatorAssumption DEF Ticks
  <2> QED
    BY <2>1, <2>2, BackoffIsExact, SumsAreExact DEF TimersAreExact
<1>2. Inductive => TypeOK
  BY DEF Inductive
<1> QED
  BY <1>1, <1>2, InductiveInvariant, PTL
=============================================================================
