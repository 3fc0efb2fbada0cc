---------------------------- MODULE SessionClient ----------------------------
(***************************************************************************)
(* The single-request CDC session client (cdc_session_client.cpp) as pure  *)
(* operators on a record.  The modules that own a client keep the record   *)
(* in a variable and apply these operators in the order the code does.     *)
(*                                                                         *)
(* A request line is abstracted to its id; a response line to a record of  *)
(* the fields the client reads.  remote_error_ is read by the caller right *)
(* after accept_response returns and is taken from the response instead.   *)
(***************************************************************************)
EXTENDS Naturals

CONSTANTS
    MaxId,       \* the largest request id (UINT64_MAX in the code)
    Sessions,    \* session names a host may assign
    NoSession    \* the empty session_id_

ASSUME SessionAssumption ==
    /\ MaxId \in Nat \ {0}
    /\ NoSession \notin Sessions

RenegotiateCodes == {"StaleId", "HandshakeRequired", "MissingSession", "BadSession"}
TerminalCodes == {"BadLine", "MissingId", "BadId", "UnsupportedVersion", "BadRange",
                  "Range", "ReadOnly", "BadData", "BadCrc", "Unsupported", "Unknown"}
RemoteErrors == {"IoError", "NoMedia"} \cup RenegotiateCodes \cup TerminalCodes

RetryAdvice(code) ==
    CASE code = "IoError" -> "RetrySameSession"
      [] code \in RenegotiateCodes -> "Renegotiate"
      [] code = "NoMedia" -> "MediaUnavailable"
      [] OTHER -> "DoNotRetry"

-----------------------------------------------------------------------------
\* id 0 means "no request" for pendingId and "ids exhausted" for nextId.
Ids == 1 .. MaxId

Client == [nextId : 0 .. MaxId, pendingId : 0 .. MaxId, pendingHandshake : BOOLEAN,
           negotiated : BOOLEAN, session : Sessions \cup {NoSession}]

FreshClient == [nextId |-> 1, pendingId |-> 0, pendingHandshake |-> FALSE,
                negotiated |-> FALSE, session |-> NoSession]

\* Everything a host, an old host or a garbled line can present to the client:
\* "Bad" is a line the parser rejects, an ERR without a code has code "".
OkResponses == [kind : {"OK"}, id : Ids, session : Sessions \cup {NoSession},
                version : BOOLEAN]
ErrResponses == [kind : {"ERR"}, id : Ids, code : RemoteErrors \cup {""}]
BadResponses == [kind : {"Bad"}]
Responses == OkResponses \cup ErrResponses \cup BadResponses

-----------------------------------------------------------------------------
RequestPending(c) == c.pendingId # 0

CanHandshake(c) == ~RequestPending(c) /\ ~c.negotiated /\ c.nextId # 0

CanRequest(c) == ~RequestPending(c) /\ c.negotiated /\ c.nextId # 0

\* Faulty variants of NextId and ReserveRequest: no exhausted mark, a restart at 1,
\* and a request that does not spend its id.
NextIdUnbounded(id) == id + 1
NextIdRestarting(id) == IF id = MaxId THEN 1 ELSE id + 1
ReserveWithoutSpending(c, handshake) ==
    [nextId |-> c.nextId, pendingId |-> c.nextId, pendingHandshake |-> handshake,
     negotiated |-> c.negotiated, session |-> c.session]

\* The id after the last one is the exhausted mark, never a reuse.
NextId(id) == IF id = MaxId THEN 0 ELSE id + 1

ReserveRequest(c, handshake) ==
    [nextId |-> NextId(c.nextId), pendingId |-> c.nextId, pendingHandshake |-> handshake,
     negotiated |-> c.negotiated, session |-> c.session]

CancelKeepingCorrelation(c) == c   \* faulty: the cancelled request stays pending
CancelPending(c) ==
    [nextId |-> c.nextId, pendingId |-> 0, pendingHandshake |-> FALSE,
     negotiated |-> c.negotiated, session |-> c.session]

Establish(c, session) ==
    [nextId |-> c.nextId, pendingId |-> 0, pendingHandshake |-> FALSE,
     negotiated |-> TRUE, session |-> session]

Reset(c) == FreshClient

-----------------------------------------------------------------------------
\* accept_response: a correlated OK, a correlated ERR, or a line that leaves
\* the client as it was (InvalidResponse and MismatchedResponse).
AnyAnswer(c, r) == RequestPending(c) /\ r.kind # "Bad"   \* faulty: does not compare ids
Correlated(c, r) == RequestPending(c) /\ r.kind # "Bad" /\ r.id = c.pendingId

IsRemoteError(c, r) == Correlated(c, r) /\ r.kind = "ERR" /\ r.code # ""

IsSuccess(c, r) ==
    /\ Correlated(c, r)
    /\ r.kind = "OK"
    /\ IF c.pendingHandshake THEN r.version /\ r.session # NoSession
                             ELSE r.session = c.session

Accept(c, r) ==
    IF IsSuccess(c, r) /\ c.pendingHandshake THEN Establish(c, r.session)
    ELSE IF IsSuccess(c, r) \/ IsRemoteError(c, r) THEN CancelPending(c)
    ELSE c
=============================================================================
