------------------------ MODULE OperationCoordinator ------------------------
(***************************************************************************)
(* CdcOperationCoordinator: one retained operation, its request deadline   *)
(* and its retry schedule over one CdcSessionClient, driven by a           *)
(* monotonic clock the caller supplies.                                    *)
(*                                                                         *)
(* Actions are named after the methods.  A call the code refuses (Busy,    *)
(* NotNegotiated, not due) changes nothing and is a stuttering step.       *)
(***************************************************************************)
EXTENDS SessionClient

CONSTANTS
    Operations,      \* the operations a caller can retain
    NoOperation,     \* CdcOperationType::None
    RequestTimeout,  \* ticks a request may stay unanswered
    MaximumRetries,
    BackoffDelay,    \* delay before retry k, 0 <= k < MaximumRetries
    MaxTick          \* largest clock value (UINT64_MAX in the code)

ASSUME CoordinatorAssumption ==
    /\ NoOperation \notin Operations
    /\ RequestTimeout \in Nat
    /\ MaximumRetries \in Nat
    /\ MaxTick \in Nat
    /\ BackoffDelay \in [0 .. MaximumRetries -> Nat]

VARIABLES
    now,        \* the caller's monotonic clock
    client,     \* CdcSessionClient
    state,      \* state_
    operation,  \* operation_
    deadline,   \* CdcRequestDeadline: armed_, deadline_
    retry       \* CdcRetryController: retries_scheduled_, waiting_, retry_at_

coordinatorVars == <<client, state, operation, deadline, retry>>
vars == <<now, client, state, operation, deadline, retry>>

Ticks == 0 .. MaxTick
InFlightStates == {"AwaitingResponse", "WaitingRetry", "RetryReady"}
ParkedStates == {"Renegotiate", "MediaUnavailable"}
States == {"Idle", "Failed"} \cup InFlightStates \cup ParkedStates

SaturatingAdd(left, right) == IF right > MaxTick - left THEN MaxTick ELSE left + right

DeadlineCleared == [armed |-> FALSE, at |-> 0]
DeadlineArmed == [armed |-> TRUE, at |-> SaturatingAdd(now, RequestTimeout)]
RetryCleared == [scheduled |-> 0, waiting |-> FALSE, at |-> 0]

Init ==
    /\ now \in Ticks
    /\ client = FreshClient
    /\ state = "Idle"
    /\ operation = NoOperation
    /\ deadline = DeadlineCleared
    /\ retry = RetryCleared

-----------------------------------------------------------------------------
\* issue(): reserve an id for the operation and arm its deadline.  Without a
\* timeout the deadline cannot be armed, and the reserved id is spent.
Issue(op) ==
    \/ /\ CanRequest(client) /\ RequestTimeout # 0
       /\ client' = ReserveRequest(client, FALSE)
       /\ deadline' = DeadlineArmed
       /\ operation' = op
       /\ state' = "AwaitingResponse"
    \/ /\ ~(CanRequest(client) /\ RequestTimeout # 0)
       /\ client' = IF CanRequest(client) THEN CancelPending(ReserveRequest(client, FALSE)) ELSE client
       /\ operation' = NoOperation
       /\ state' = "Failed"
       /\ UNCHANGED deadline

\* consume_retry() and the clearing at the head of record_failure(); a variant
\* that leaves the backoff running, and one that allows a retry too many.
StillWaiting(schedule) == schedule
Consumed(schedule) == [scheduled |-> schedule.scheduled, waiting |-> FALSE, at |-> 0]

OneRetryTooMany == retry.scheduled <= MaximumRetries
RetryAllowed == retry.scheduled < MaximumRetries

\* route_failure() with record_failure(): what a failed attempt leads to.
RouteFailure(advice) ==
    \/ /\ advice = "RetrySameSession" /\ RetryAllowed
       /\ retry' = [scheduled |-> retry.scheduled + 1, waiting |-> TRUE,
                    at |-> SaturatingAdd(now, BackoffDelay[retry.scheduled])]
       /\ state' = "WaitingRetry"
       /\ UNCHANGED operation
    \/ /\ advice \in ParkedStates
       /\ retry' = Consumed(retry)
       /\ state' = advice
       /\ UNCHANGED operation
    \/ /\ \/ advice = "DoNotRetry"
          \/ advice = "RetrySameSession" /\ ~RetryAllowed
       /\ retry' = Consumed(retry)
       /\ state' = "Failed"
       /\ operation' = NoOperation

-----------------------------------------------------------------------------
Open == state = "Idle"

Start(op) ==
    /\ Open
    /\ retry' = RetryCleared
    /\ Issue(op)
    /\ UNCHANGED now

AcceptSuccess(r) ==
    /\ state = "AwaitingResponse" /\ IsSuccess(client, r)
    /\ client' = Accept(client, r)
    /\ deadline' = DeadlineCleared
    /\ retry' = RetryCleared
    /\ operation' = NoOperation
    /\ state' = "Idle"
    /\ UNCHANGED now

AcceptError(r) ==
    /\ state = "AwaitingResponse" /\ IsRemoteError(client, r)
    /\ client' = Accept(client, r)
    /\ deadline' = DeadlineCleared
    /\ RouteFailure(RetryAdvice(r.code))
    /\ UNCHANGED now

\* Any other line leaves the pending request waiting.
AcceptResponse(r) == AcceptSuccess(r) \/ AcceptError(r)

StrictlyPastDeadline == now > deadline.at   \* faulty: never true at MaxTick
DeadlineDue == now >= deadline.at

\* The deadline is checked only while a response is awaited; if the client has
\* nothing pending any more the check merely clears it.
ExpireIfDue ==
    /\ state = "AwaitingResponse" /\ deadline.armed
    /\ RequestPending(client) => DeadlineDue
    /\ client' = CancelPending(client)
    /\ deadline' = DeadlineCleared
    /\ IF RequestPending(client) THEN RouteFailure("RetrySameSession")
                                 ELSE UNCHANGED <<state, operation, retry>>
    /\ UNCHANGED now

RetryDue == retry.waiting /\ now >= retry.at

Poll ==
    /\ state = "WaitingRetry" /\ RetryDue
    /\ state' = "RetryReady"
    /\ UNCHANGED <<now, client, operation, deadline, retry>>

IssueRetry ==
    /\ state \in {"WaitingRetry", "RetryReady"} /\ RetryDue
    /\ retry' = Consumed(retry)
    /\ Issue(operation)
    /\ UNCHANGED now

\* resume_after_renegotiation and resume_after_media_available.
Resume(parked) ==
    /\ state = parked /\ client.negotiated
    /\ retry' = RetryCleared
    /\ Issue(operation)
    /\ UNCHANGED now

ResumeAfterRenegotiation == Resume("Renegotiate")
ResumeAfterMediaAvailable == Resume("MediaUnavailable")

ParksAlways(retain) == retain   \* faulty: parks although nothing is retained
Parks(retain) == retain /\ operation # NoOperation

Disconnect(retain) ==
    /\ deadline' = DeadlineCleared
    /\ retry' = RetryCleared
    /\ client' = Reset(CancelPending(client))
    /\ IF Parks(retain)
         THEN state' = "Renegotiate" /\ UNCHANGED operation
         ELSE state' = "Idle" /\ operation' = NoOperation
    /\ UNCHANGED now

CancelWithDeadlineRunning(c) ==   \* faulty: the deadline outlives the request
    /\ retry' = RetryCleared
    /\ operation' = NoOperation
    /\ state' = "Idle"
    /\ client' = c
    /\ UNCHANGED <<now, deadline>>

CancelWith(c) ==
    /\ deadline' = DeadlineCleared
    /\ retry' = RetryCleared
    /\ operation' = NoOperation
    /\ state' = "Idle"
    /\ client' = c
    /\ UNCHANGED now

Cancel == CancelWith(CancelPending(client))
ResetAll == CancelWith(Reset(CancelPending(client)))

-----------------------------------------------------------------------------
\* Requests the owner of the client makes around the coordinator: the
\* handshake, and GET_INFO, which CdcWriteThroughBackend sends only while the
\* coordinator is idle.  The owner hands their responses to the client itself.
BeginHandshake ==
    /\ CanHandshake(client)
    /\ client' = ReserveRequest(client, TRUE)
    /\ UNCHANGED <<now, state, operation, deadline, retry>>

BeginGetInfo ==
    /\ state = "Idle" /\ CanRequest(client)
    /\ client' = ReserveRequest(client, FALSE)
    /\ UNCHANGED <<now, state, operation, deadline, retry>>

AcceptDirect(r) ==
    /\ state # "AwaitingResponse" /\ RequestPending(client)
    /\ client' = Accept(client, r)
    /\ UNCHANGED <<now, state, operation, deadline, retry>>

\* The owner resets the session before it negotiates a replacement.
ResetSession ==
    /\ state = "Renegotiate"
    /\ client' = Reset(client)
    /\ UNCHANGED <<now, state, operation, deadline, retry>>

Tick ==
    /\ now < MaxTick
    /\ now' = now + 1
    /\ UNCHANGED coordinatorVars

Respond == \E r \in Responses : AcceptResponse(r) \/ AcceptDirect(r)

Next ==
    \/ \E op \in Operations : Start(op)
    \/ Respond
    \/ ExpireIfDue
    \/ Poll
    \/ IssueRetry
    \/ ResumeAfterRenegotiation
    \/ ResumeAfterMediaAvailable
    \/ \E retain \in BOOLEAN : Disconnect(retain)
    \/ Cancel
    \/ ResetAll
    \/ BeginHandshake
    \/ BeginGetInfo
    \/ ResetSession
    \/ Tick

Spec == Init /\ [][Next]_vars

\* The main loop polls the deadline and the retry schedule on every pass, and
\* the hardware timer advances; nothing is assumed of the host or the caller.
Fairness == WF_vars(Tick) /\ WF_vars(ExpireIfDue) /\ WF_vars(Poll) /\ WF_vars(IssueRetry)

FairSpec == Spec /\ Fairness
-----------------------------------------------------------------------------
TypeOK ==
    /\ now \in Ticks
    /\ client \in Client
    /\ state \in States
    /\ operation \in Operations \cup {NoOperation}
    /\ deadline \in [armed : BOOLEAN, at : Ticks]
    /\ retry \in [scheduled : 0 .. MaximumRetries, waiting : BOOLEAN, at : Ticks]

\* Nobody waits without a way out: the coordinator waits for a response only
\* with a request of its own outstanding in a negotiated session and a deadline
\* running, and no deadline outlives that wait.  (issue, expire_if_due and every
\* path that drops the request.)
AwaitingIsGuarded ==
    /\ state = "AwaitingResponse" =>
          RequestPending(client) /\ ~client.pendingHandshake /\ client.negotiated
    /\ deadline.armed <=> state = "AwaitingResponse"

\* A backoff is running exactly in the two retry states, with no request
\* outstanding, and a retry is never ready before its time.
BackoffIsScheduled ==
    /\ retry.waiting <=> state \in {"WaitingRetry", "RetryReady"}
    /\ retry.waiting => client.negotiated /\ ~RequestPending(client) /\ retry.scheduled > 0
    /\ state = "RetryReady" => now >= retry.at

\* The operation is retained exactly while it can still be sent again: a lost
\* operation could not be replayed, a stale one would be replayed by mistake.
OperationRetained ==
    operation # NoOperation <=> state \in InFlightStates \cup ParkedStates

\* The outstanding request carries the newest id of its session, so the answer
\* to any request that was cancelled before it cannot be taken for its answer.
PendingIsNewest ==
    RequestPending(client) => client.nextId = NextId(client.pendingId)

\* Within a session an id is spent once: it only moves forward, to the exhausted
\* mark at the end, and starts again only with the reset that ends the session.
IdsNeverReused ==
    [][LET before == client.nextId
           after == client'.nextId
       IN  \/ after = before
           \/ 0 < before /\ before < after
           \/ before = MaxId /\ after = 0
           \/ client' = FreshClient]_vars

\* No timer is ever set short or in the past, although the code computes on words:
\* bounded_backoff waits min(initial * 2^k, maximum) of the unbounded integers before
\* retry k, for every pair of limits the constructor normalises, and a deadline or
\* retry time is the sum on the integers, cut at the largest word, at every moment of
\* the clock.
Arithmetic == INSTANCE RetryBackoff WITH MaxWord <- MaxTick

Smaller(a, b) == IF a < b THEN a ELSE b
PowerOfTwo[n \in Nat] == IF n = 0 THEN 1 ELSE 2 * PowerOfTwo[n - 1]

TimersAreExact ==
    /\ \A initial, maximum \in Ticks :
          Arithmetic!BoundedBackoff(initial, maximum, retry.scheduled) =
              Smaller(Arithmetic!FirstDelay(initial) * PowerOfTwo[retry.scheduled],
                      Arithmetic!LargestDelay(initial, maximum))
    /\ \A delay \in Ticks :
          Arithmetic!SaturatingAdd(now, delay) = Smaller(now + delay, MaxTick)

\* Every attempt ends.  Whatever the host does, an operation in flight reaches
\* completion, abandonment or a parked state after a bounded number of attempts.
InFlightEnds ==
    state \in InFlightStates ~> state \in {"Idle", "Failed"} \cup ParkedStates
-----------------------------------------------------------------------------
\* The coordinator implements its contract: the attempts of the contract are
\* the retries scheduled so far, plus the request that is outstanding.
PhaseOf(st) ==
    CASE st = "Idle" -> "Resting"
      [] st = "AwaitingResponse" -> "Sent"
      [] st \in {"WaitingRetry", "RetryReady"} -> "Backoff"
      [] st \in ParkedStates -> "Parked"
      [] OTHER -> "Failed"

Attempts ==
    IF state = "AwaitingResponse" THEN retry.scheduled + 1
    ELSE IF state \in {"WaitingRetry", "RetryReady"} THEN retry.scheduled
    ELSE 0

Contract == INSTANCE OperationContract WITH
    phase <- PhaseOf(state), kept <- operation, attempts <- Attempts

\* Every step of the coordinator is a step its caller is promised: bounded
\* attempts, resending only what was retained, and a latched failure.
ImplementsContract == Contract!Spec
=============================================================================
