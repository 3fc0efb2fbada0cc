---------------------------- MODULE BackendService ----------------------------
(***************************************************************************)
(* The CDC block service end to end: the firmware's poll_cdc_backend_      *)
(* service and CDC shell, the one-line transmit buffer, the USB byte       *)
(* streams as FIFO queues of whole lines, and the host's SessionDispatcher *)
(* over an image file.                                                     *)
(*                                                                         *)
(* The firmware is one loop: device poll, shell, service poll, SD target.  *)
(* "stage" is the part of the loop that ran last and keeps their order: a  *)
(* service poll lies between two device polls, between two shell lines and *)
(* before the calls of a target poll.  A part that finds nothing to do is  *)
(* not a step.  The host runs concurrently with the loop.                  *)
(***************************************************************************)
EXTENDS WriteThroughBackend, Sequences

CONSTANTS
    NoLine,        \* empty transmit buffer
    MaxQueue,      \* lines the link holds in each direction
    MaxTimeouts    \* bound on expired handshake and GET_INFO waits

\* SessionDispatcher reports generation=1 for every image it opens.
Generation == 1

ASSUME ServiceAssumption ==
    /\ MaxQueue \in Nat \ {0}
    /\ MaxTimeouts \in Nat
    /\ Sessions \subseteq Nat \ {0}   \* the n-th host process assigns session n
    /\ Generation \in Generations

VARIABLES
    connected,         \* tud_cdc_connected(), which changes in tud_task() only
    wasConnected, handshakePending, infoPending, infoKnown,
    mediaPresent,      \* media_info.present
    stage,             \* "device", "shell", "service" or "target"
    tx,                \* transmit_buffer of cdc_device.cpp
    toHost, toDevice,  \* lines under way
    host,              \* SessionDispatcher: established_, last_request_id_, session_id_
    image,             \* the image file's sectors
    timeouts           \* handshake and GET_INFO waits that expired

flags == <<wasConnected, handshakePending, infoPending, infoKnown, mediaPresent>>
hostVars == <<host, image>>
serviceVars == <<allVars, connected, flags, stage, tx, toHost, toDevice, hostVars, timeouts>>

Line(kind, op) == [kind |-> kind, id |-> client'.pendingId, session |-> client'.session, op |-> op]
Noise == [kind |-> "NOISE", id |-> 0, session |-> NoSession, op |-> NoOperation]
Ok(id, body) == [kind |-> "OK", id |-> id, session |-> host.session, version |-> TRUE,
                 body |-> body]
Err(id, code) == [kind |-> "ERR", id |-> id, code |-> code]

ServiceInit ==
    /\ BackendInit
    /\ connected = FALSE
    /\ wasConnected = FALSE /\ handshakePending = FALSE
    /\ infoPending = FALSE /\ infoKnown = FALSE /\ mediaPresent = FALSE
    /\ stage = "target"
    /\ tx = NoLine /\ toHost = <<>> /\ toDevice = <<>>
    /\ host = [established |-> FALSE, lastId |-> 0, session |-> 0]
    /\ image \in [Lbas -> Blocks]
    /\ timeouts = 0

-----------------------------------------------------------------------------
\* The host.  A process opens the port, answers one line at a time, and may exit.
\* Lines under way when it exits are lost or stay in a buffer of the link.
Serving(session) == [established |-> FALSE, lastId |-> 0, session |-> session]
LinkLoses == toHost' \in {toHost, <<>>} /\ toDevice' \in {toDevice, <<>>}
DeviceRuns == stage \in {"service", "target"} /\ stage' = "device"

HostStarts ==
    /\ ~connected /\ host.session + 1 \in Sessions
    /\ DeviceRuns
    /\ connected' = TRUE
    /\ host' = Serving(host.session + 1)
    /\ UNCHANGED <<allVars, flags, tx, toHost, toDevice, image, timeouts>>

\* poll_cdc_device() drops the buffered line when it finds the port closed.
HostExits ==
    /\ connected /\ host.session + 1 \in Sessions
    /\ DeviceRuns
    /\ connected' = FALSE
    /\ tx' = NoLine
    /\ LinkLoses
    /\ UNCHANGED <<allVars, flags, hostVars, timeouts>>

\* The next process opens the port before tud_task() looks at it again, or
\* the line state is kept over the exit: the firmware notices nothing.
HostReplaced ==
    /\ connected /\ host.session + 1 \in Sessions
    /\ host' = Serving(host.session + 1)
    /\ LinkLoses
    /\ UNCHANGED <<allVars, connected, flags, stage, tx, image, timeouts>>

\* dispatch(): the checks in the order the code makes them.
SkipsAnId(m) == m.id <= host.lastId + 1   \* faulty: refuses the next id as well
IsStale(m) == m.id <= host.lastId

Refusal(m) ==
    CASE m.kind = "NOISE" -> "BadId"
      [] m.kind = "HELLO" /\ host.established /\ IsStale(m) -> "StaleId"
      [] m.kind \notin {"NOISE", "HELLO"} /\ ~host.established -> "HandshakeRequired"
      [] m.kind \notin {"NOISE", "HELLO"} /\ host.established /\ m.session # host.session ->
            "BadSession"
      [] m.kind \notin {"NOISE", "HELLO"} /\ host.established /\ m.session = host.session
            /\ IsStale(m) -> "StaleId"
      [] OTHER -> ""

\* What an accepted request is answered, and the image it leaves.  A write that
\* fails may or may not have reached the file.
Outcomes(m) ==
    CASE m.kind = "HELLO" -> {[answer |-> Ok(m.id, NoBody), image |-> image]}
      [] m.kind = "GET_INFO" -> {[answer |-> Ok(m.id, InfoBody(TRUE, Generation)), image |-> image]}
      [] m.kind = "READ_BLOCKS" ->
            {[answer |-> Ok(m.id, BlockBody(m.op.lba, image[m.op.lba])), image |-> image],
             [answer |-> Err(m.id, "IoError"), image |-> image]}
      [] m.kind = "WRITE_BLOCKS" ->
            LET written == [image EXCEPT ![m.op.lba] = m.op.data]
            IN  {[answer |-> Ok(m.id, NoBody), image |-> written],
                 [answer |-> Err(m.id, "IoError"), image |-> image],
                 [answer |-> Err(m.id, "IoError"), image |-> written]}

Dispatch ==
    /\ connected /\ toHost # <<>> /\ Len(toDevice) < MaxQueue
    /\ toHost' = Tail(toHost)
    /\ LET m == Head(toHost)
       IN  \/ /\ Refusal(m) # ""
              /\ toDevice' = Append(toDevice, Err(m.id, Refusal(m)))
              /\ UNCHANGED hostVars
           \/ /\ Refusal(m) = ""
              /\ \E outcome \in Outcomes(m) :
                    /\ toDevice' = Append(toDevice, outcome.answer)
                    /\ image' = outcome.image
              /\ host' = [host EXCEPT !.established = TRUE, !.lastId = m.id]
    /\ UNCHANGED <<allVars, connected, flags, stage, tx, timeouts>>

-----------------------------------------------------------------------------
\* poll_cdc_device(): the buffered line leaves.
DevicePoll ==
    /\ connected /\ tx # NoLine /\ Len(toHost) < MaxQueue
    /\ DeviceRuns
    /\ toHost' = Append(toHost, tx)
    /\ tx' = NoLine
    /\ UNCHANGED <<allVars, connected, flags, toDevice, hostVars, timeouts>>

\* write_cdc() takes a line only into an empty buffer.
CanSend == tx = NoLine
SendIfFree(line) == tx' = IF CanSend THEN line ELSE tx

\* handle_cdc_backend_response(), and the shell's own answer to a stray line.
OnHandshakeResponse(r) ==
    /\ handshakePending
    /\ handshakePending' = FALSE
    /\ IF IsSuccess(client, r) THEN BackendAcceptHandshake(r) ELSE BackendDisconnect
    /\ UNCHANGED <<wasConnected, infoPending, infoKnown, mediaPresent, tx>>

OnInfoResponse(r) ==
    LET accepted == IsSuccess(client, r) /\ r.body.type = "Info"
    IN  /\ ~handshakePending /\ infoPending
        /\ infoPending' = FALSE
        /\ infoKnown' = accepted
        /\ IF accepted THEN AcceptGetInfo(r) /\ mediaPresent' = r.body.present
                       ELSE BackendDisconnect /\ mediaPresent' = FALSE
        /\ UNCHANGED <<wasConnected, handshakePending, tx>>

OnTransferResponse(r) ==
    /\ ~handshakePending /\ ~infoPending /\ transfer # NoTransfer
    /\ AcceptTransferResponse(r) \/ (IgnoresTransferResponse(r) /\ UNCHANGED allVars)
    /\ UNCHANGED <<flags, tx>>

OnStrayLine ==
    /\ ~handshakePending /\ ~infoPending /\ transfer = NoTransfer
    /\ SendIfFree(Noise)
    /\ UNCHANGED <<allVars, flags>>

ShellPoll ==
    /\ connected /\ stage # "shell" /\ toDevice # <<>>
    /\ stage' = "shell"
    /\ toDevice' = Tail(toDevice)
    /\ LET r == Head(toDevice)
       IN  OnHandshakeResponse(r) \/ OnInfoResponse(r) \/ OnTransferResponse(r) \/ OnStrayLine
    /\ UNCHANGED <<connected, toHost, hostVars, timeouts>>

-----------------------------------------------------------------------------
\* poll_cdc_backend_service(), one action per branch.
KnownForgottenOnly == infoKnown' = FALSE /\ UNCHANGED mediaPresent   \* faulty
InfoForgotten == infoKnown' = FALSE /\ mediaPresent' = FALSE

HostLost ==
    /\ ~connected /\ wasConnected
    /\ BackendDisconnect
    /\ wasConnected' = FALSE /\ handshakePending' = FALSE
    /\ infoPending' = FALSE /\ InfoForgotten
    /\ UNCHANGED <<tx, timeouts>>

NeedsHello == connected /\ (~wasConnected \/ (~client.negotiated /\ ~handshakePending))
SendHello ==
    LET sent == CanHandshake(client) /\ CanSend
    IN  /\ NeedsHello
        /\ wasConnected' = TRUE
        /\ handshakePending' = sent
        /\ IF sent THEN BackendBeginHandshake /\ SendIfFree(Line("HELLO", NoOperation))
                   ELSE BackendDisconnect /\ UNCHANGED tx
        /\ UNCHANGED <<infoPending, infoKnown, mediaPresent, timeouts>>

NeedsInfo ==
    /\ connected /\ ~NeedsHello
    /\ client.negotiated /\ ~infoPending /\ transfer = NoTransfer /\ ~infoKnown
SendGetInfo ==
    LET sent == state = "Idle" /\ CanRequest(client) /\ CanSend
    IN  /\ NeedsInfo
        /\ infoPending' = sent
        /\ IF sent
             THEN BackendBeginGetInfo /\ SendIfFree(Line("GET_INFO", NoOperation))
             ELSE BackendDisconnect /\ UNCHANGED tx
        /\ UNCHANGED <<wasConnected, handshakePending, infoKnown, mediaPresent, timeouts>>

WaitingForSession ==
    connected /\ ~NeedsHello /\ ~NeedsInfo /\ (handshakePending \/ infoPending)
SessionTimeout ==
    /\ WaitingForSession /\ timeouts < MaxTimeouts
    /\ BackendDisconnect
    /\ handshakePending' = FALSE /\ infoPending' = FALSE
    /\ InfoForgotten
    /\ timeouts' = timeouts + 1
    /\ UNCHANGED <<wasConnected, tx>>

PollingTransfers ==
    connected /\ ~NeedsHello /\ ~NeedsInfo /\ ~handshakePending /\ ~infoPending
PollExpire == PollingTransfers /\ BackendExpire /\ UNCHANGED <<flags, tx, timeouts>>
PollRetry ==
    /\ PollingTransfers /\ BackendIssueRetry
    /\ IF state' = "AwaitingResponse"
         THEN SendIfFree(Line(IF operation.type = "Read" THEN "READ_BLOCKS" ELSE "WRITE_BLOCKS",
                              operation))
         ELSE UNCHANGED tx
    /\ UNCHANGED <<flags, timeouts>>

\* A poll that finds nothing to do, or nothing due yet.
PollIdle ==
    /\ \/ ~connected /\ ~wasConnected
       \/ WaitingForSession
       \/ PollingTransfers
    /\ UNCHANGED <<allVars, flags, tx, timeouts>>

ServicePoll ==
    /\ stage' = "service"
    /\ \/ HostLost
       \/ SendHello
       \/ SendGetInfo
       \/ SessionTimeout
       \/ PollExpire
       \/ PollRetry
       \/ PollIdle
    /\ UNCHANGED <<connected, toHost, toDevice, hostVars>>

-----------------------------------------------------------------------------
\* What the SD side calls.  A request that cannot be written to the link is
\* undone by invalidate(): its id is spent and the whole cache is dropped.
MediaReady == client.negotiated /\ mediaPresent

UndoBegin ==
    /\ ReadyForTransfer /\ Selectable(Generation) /\ CanRequest(client)
    /\ CancelWith(CancelPending(ReserveRequest(client, FALSE)))
    /\ Forgotten
    /\ media' = NoGeneration

BeginCdcRead(lba) ==
    /\ FindReady(pool, lba, Generation) = NoHandle
    /\ IF CanSend \/ ~CanRequest(client)
         THEN /\ RequestRead(lba, Generation)
              /\ tx' = IF state' = "AwaitingResponse" THEN Line("READ_BLOCKS", operation') ELSE tx
         ELSE UndoBegin /\ UNCHANGED tx

BeginCdcWrite(lba, data) ==
    IF CanSend \/ ~CanRequest(client)
      THEN /\ BeginWrite(lba, Generation, data)
           /\ tx' = IF state' = "AwaitingResponse" THEN Line("WRITE_BLOCKS", operation') ELSE tx
      ELSE UndoBegin /\ UNCHANGED tx

TargetCall ==
    /\ stage \in {"service", "target"} /\ MediaReady
    /\ stage' = "target"
    /\ \E lba \in Lbas :
          \/ Deliver(lba, Generation) /\ UNCHANGED tx
          \/ BeginCdcRead(lba)
          \/ \E data \in Blocks : BeginCdcWrite(lba, data)
    /\ UNCHANGED <<connected, flags, toHost, toDevice, hostVars, timeouts>>

\* The calls of the SD side are added here as any calls the service allows, and
\* in SdBridge the way its code makes them, together with hosts that come and go.
HostLeaves == HostExits \/ HostReplaced

ServiceStep ==
    \/ HostStarts
    \/ Dispatch
    \/ DevicePoll
    \/ ShellPoll
    \/ ServicePoll

\* With the host process that opened the port serving for good.
ServiceNext == ServiceStep \/ TargetCall

ServiceSpec == ServiceInit /\ [][ServiceNext]_serviceVars

\* The loop keeps polling, the link keeps moving bytes, a host process keeps
\* serving and the deadline of a transfer passes in the end; nothing obliges the
\* SD side to call, the host to exit, or a request to be answered late.
PollDue ==
    /\ stage' = "service"
    /\ PollExpire \/ PollRetry
    /\ UNCHANGED <<connected, toHost, toDevice, hostVars>>

ServiceFairness ==
    /\ WF_serviceVars(HostStarts)
    /\ WF_serviceVars(Dispatch)
    /\ WF_serviceVars(DevicePoll)
    /\ WF_serviceVars(ShellPoll)
    /\ WF_serviceVars(ServicePoll)
    /\ WF_serviceVars(PollDue)

ServiceFairSpec == ServiceSpec /\ ServiceFairness
-----------------------------------------------------------------------------
Requests == [kind : {"HELLO", "GET_INFO", "READ_BLOCKS", "WRITE_BLOCKS"}, id : Ids,
             session : Sessions \cup {NoSession}, op : Operations \cup {NoOperation}]
               \cup {Noise}

ServiceTypeOK ==
    /\ BackendTypeOK
    /\ <<connected, wasConnected, handshakePending, infoPending, infoKnown, mediaPresent>>
          \in [1 .. 6 -> BOOLEAN]
    /\ stage \in {"device", "shell", "service", "target"}
    /\ tx \in Requests \cup {NoLine}
    /\ toHost \in Seq(Requests) /\ Len(toHost) <= MaxQueue
    /\ Len(toDevice) <= MaxQueue
    /\ image \in [Lbas -> Blocks]

\* A sector the pool calls ready is the sector of the image file: through
\* timeouts, retries, duplicate writes, failed writes that reached the file, lost
\* lines and replaced hosts, copy_ready never hands the SD client stale data.
CoherentCache ==
    \A h \in Holding(pool, {"Ready"}) : pool.slots[h].data = image[pool.slots[h].lba]

\* The client's one outstanding request is known to exactly one of the three
\* places that can end it: the handshake wait, the GET_INFO wait, the
\* coordinator.  Without an owner no timeout would free the client; with two, one
\* would take the other's answer.
OutstandingHasOwner ==
    /\ ~(handshakePending /\ infoPending)
    /\ handshakePending <=> RequestPending(client) /\ client.pendingHandshake
    /\ infoPending <=> InfoPending
    /\ state = "AwaitingResponse" => ~handshakePending /\ ~infoPending

\* Media is offered to the SD side, and transfers run, only with metadata that
\* was fetched in the session negotiated now ("fresh media metadata",
\* IMPLEMENTATION_PLAN.md section 7).
MediaKnownOnlyInSession ==
    /\ infoKnown => client.negotiated
    /\ mediaPresent => infoKnown
    /\ transfer # NoTransfer => infoKnown

\* While a transfer is active the host changes the image only by executing that
\* very operation: a write that was given up, or belongs to an ended session, is
\* never executed behind the back of a later transfer.
OnlyTheActiveWriteExecutes ==
    [][image' # image /\ operation # NoOperation =>
          /\ operation.type = "Write"
          /\ image' = [image EXCEPT ![operation.lba] = operation.data]]_serviceVars

\* With a host that answers in time and is not replaced, a connection leads to
\* known media.
SessionComesUp == connected ~> infoKnown

\* And a transfer, whatever its deadlines do, completes or is abandoned: retries
\* are bounded and a retry that cannot be issued is cleaned up.
TransferEnds == transfer # NoTransfer ~> transfer = NoTransfer

\* "disconnects and backend failures produce bounded, recoverable errors rather
\* than hangs" (IMPLEMENTATION_PLAN.md): after waits that expired, the service of
\* a host that goes on serving comes up again.
RecoversAfterTimeout == timeouts > 0 ~> infoKnown
=============================================================================
