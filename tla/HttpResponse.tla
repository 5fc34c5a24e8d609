---------------------------- MODULE HttpResponse ----------------------------
(***************************************************************************)
(* The response object of node:http, modules/node-http/src/lib.rs: its     *)
(* private slots, the functions scripts call on it and the host events     *)
(* delivered to it.  A streamed response sends numbered actions through    *)
(* the capability jjs:http/stream, which answers at once and may refuse.   *)
(* A call that throws before its first effect is not a step.               *)
(*                                                                         *)
(* Listeners of drain and close run after the event's effects, so what     *)
(* they call is a later step.  A payload is a flag: bytes or no bytes.     *)
(***************************************************************************)
EXTENDS Naturals, Sequences

CONSTANTS
  FinalStatuses,    \* integers from 200 to 599
  BodilessStatuses, \* 204 and 304
  OtherStatuses,    \* what else a script may assign to statusCode
  Uncommitted,      \* COMMITTED_STATUS before commit
  Names,            \* header names
  FramingNames,     \* content-length and transfer-encoding
  MaxSequence       \* bound: the largest sequence number

ASSUME HttpResponseAssumption ==
  /\ BodilessStatuses \subseteq FinalStatuses
  /\ 200 \in FinalStatuses \ BodilessStatuses
  /\ FinalStatuses \intersect OtherStatuses = {}
  /\ Uncommitted \notin FinalStatuses
  /\ FramingNames \subseteq Names
  /\ MaxSequence \in Nat

VARIABLES
  method,      \* of the request: "GET" or "HEAD"
  streamed,    \* MODE: the exchange was opened with input::START
  lifecycle,   \* LIFECYCLE
  statusCode,  \* the property scripts assign
  committed,   \* COMMITTED_STATUS; headersSent is set with it
  headers,     \* HEADERS_JSON, the set of names
  sequence,    \* SEQUENCE
  closeDelivered, \* CLOSE_DELIVERED
  buffered,    \* BODY_BYTES holds bytes
  actions,     \* history: the actions the host took
  delivered,   \* history: the numbers of the events that were accepted
  replies      \* history: the responses HTTP_RESPONSE_EVENT returned

slots == <<statusCode, committed, headers, buffered>>
stream == <<lifecycle, sequence, actions>>
vars == <<method, streamed, slots, stream, closeDelivered, delivered, replies>>

Lifecycles == {"buffered", "streaming", "ended", "closed"}
Statuses == FinalStatuses \union OtherStatuses
Commitments == FinalStatuses \union {Uncommitted}

StartActions == [op : {"start"}, sequence : Nat \ {0},
                 status : Commitments, headers : SUBSET Names]
BodyActions == [op : {"write", "end"}, sequence : Nat \ {0}, bytes : BOOLEAN]
Actions == StartActions \union BodyActions
Replies == [status : Commitments, headers : SUBSET Names, bytes : BOOLEAN]

TypeOK ==
  /\ method \in {"GET", "HEAD"}
  /\ streamed \in BOOLEAN
  /\ lifecycle \in Lifecycles
  /\ statusCode \in Statuses
  /\ committed \in Commitments
  /\ headers \subseteq Names
  /\ sequence \in Nat \ {0}
  /\ closeDelivered \in BOOLEAN
  /\ buffered \in BOOLEAN
  /\ actions \in Seq(Actions)
  /\ delivered \subseteq Nat \ {0}
  /\ replies \subseteq Replies

Init ==
  /\ method \in {"GET", "HEAD"}
  /\ streamed \in BOOLEAN
  /\ lifecycle = "buffered"
  /\ statusCode = 200
  /\ committed = Uncommitted
  /\ headers = {}
  /\ sequence = 1
  /\ closeDelivered = FALSE
  /\ buffered = FALSE
  /\ actions = <<>>
  /\ delivered = {}
  /\ replies = {}

Bounded == sequence < MaxSequence

-----------------------------------------------------------------------------

\* commit succeeds: done before, or statusCode is a final status.
CommitAllowed == committed # Uncommitted \/ statusCode \in FinalStatuses

\* Mutant: every commit reads statusCode again.
LatestStatus(status) == status

\* The status a commit of statusCode = status leaves in COMMITTED_STATUS
CommittedStatus(status) ==
  IF committed = Uncommitted THEN status ELSE committed

\* The headers a commit with this status keeps
CommittedNames(status, names) ==
  IF status \in BodilessStatuses THEN names \ FramingNames ELSE names

\* commit when statusCode and HEADERS_JSON hold status and names; a second
\* commit returns early.
CommitAs(status, names) ==
  /\ committed' = CommittedStatus(status)
  /\ headers' = IF committed = Uncommitted
                  THEN CommittedNames(status, names) ELSE names

Commit == CommitAllowed /\ CommitAs(statusCode, headers)

\* Mutant: the method is not looked at.
BodyUnlessBodiless(status) == status \notin BodilessStatuses

\* body_allowed
BodyAllowed(status) == method # "HEAD" /\ status \notin BodilessStatuses

StartAction == [op |-> "start", sequence |-> sequence,
                status |-> committed', headers |-> headers']
BodyAction(op, n, bytes) ==
  [op |-> op, sequence |-> n, bytes |-> bytes /\ BodyAllowed(committed')]

\* Mutant: the counter moves although the host refused.
CountedRefusal == sequence + 1

\* stream_request stores the next number only for a Return.
AfterRefusal == sequence

\* The host throws on the start, or the ids are missing: the commit stays.
Refused ==
  /\ sequence' = AfterRefusal
  /\ UNCHANGED <<lifecycle, actions>>

\* start_stream goes through and nothing after it does.
Started ==
  /\ lifecycle' = "streaming"
  /\ sequence' = sequence + 1
  /\ actions' = Append(actions, StartAction)

\* start_stream goes through, then one more action of the same call.
StartedAnd(op, bytes, after) ==
  /\ lifecycle' = after
  /\ sequence' = sequence + 2
  /\ actions' = Append(Append(actions, StartAction),
                       BodyAction(op, sequence + 1, bytes))

Sent(op, bytes, after) ==
  /\ lifecycle' = after
  /\ sequence' = sequence + 1
  /\ actions' = Append(actions, BodyAction(op, sequence, bytes))

-----------------------------------------------------------------------------

AssignStatusCode(status) ==
  /\ statusCode' = status
  /\ UNCHANGED <<method, streamed, committed, headers, buffered, stream,
                 closeDelivered, delivered, replies>>

SetHeader(name) ==
  /\ committed = Uncommitted
  /\ headers' = headers \union {name}
  /\ UNCHANGED <<method, streamed, statusCode, committed, buffered, stream,
                 closeDelivered, delivered, replies>>

\* writeHead commits even when the response is closed; start_stream throws
\* then, but the commit stays.
WriteHead(status, names) ==
  /\ Bounded
  /\ committed = Uncommitted
  /\ statusCode' = status
  /\ CommitAs(status, headers \union names)
  /\ IF streamed /\ lifecycle = "buffered"
       THEN Refused \/ Started
       ELSE UNCHANGED stream
  /\ UNCHANGED <<method, streamed, buffered, closeDelivered, delivered,
                 replies>>

FlushHeaders ==
  /\ Bounded
  /\ lifecycle = "buffered"
  /\ Commit
  /\ Refused \/ Started
  /\ UNCHANGED <<method, streamed, statusCode, buffered, closeDelivered,
                 delivered, replies>>

\* The first write starts the response; the host may refuse the start, or
\* take it and refuse the write.
WriteFirst(bytes) ==
  /\ Bounded
  /\ lifecycle = "buffered"
  /\ Commit
  /\ Refused \/ Started \/ StartedAnd("write", bytes, "streaming")
  /\ UNCHANGED <<method, streamed, statusCode, buffered, closeDelivered,
                 delivered, replies>>

Write(bytes) ==
  /\ Bounded
  /\ lifecycle = "streaming"
  /\ UNCHANGED slots
  /\ Sent("write", bytes, "streaming")
  /\ UNCHANGED <<method, streamed, closeDelivered, delivered, replies>>

\* end() of a streamed exchange starts the response before it looks at its
\* chunk: Started also stands for a chunk of the wrong type.
EndFirst(bytes) ==
  /\ Bounded
  /\ streamed
  /\ lifecycle = "buffered"
  /\ Commit
  /\ Refused \/ Started \/ StartedAnd("end", bytes, "ended")
  /\ UNCHANGED <<method, streamed, statusCode, buffered, closeDelivered,
                 delivered, replies>>

EndBuffered(bytes) ==
  /\ ~ streamed
  /\ lifecycle = "buffered"
  /\ Commit
  /\ buffered' = (bytes \/ buffered)
  /\ lifecycle' = "ended"
  /\ UNCHANGED <<method, streamed, statusCode, sequence, actions,
                 closeDelivered, delivered, replies>>

EndStreaming(bytes) ==
  /\ Bounded
  /\ lifecycle = "streaming"
  /\ UNCHANGED slots
  /\ Sent("end", bytes, "ended")
  /\ UNCHANGED <<method, streamed, closeDelivered, delivered, replies>>

\* HTTP_RESPONSE_EVENT: encode_response.  Its commit finds one done.
Encode ==
  /\ lifecycle = "ended"
  /\ Commit
  /\ replies' = replies \union
       {[status |-> committed', headers |-> headers',
         bytes |-> buffered /\ BodyAllowed(committed')]}
  /\ UNCHANGED <<method, streamed, statusCode, buffered, stream,
                 closeDelivered, delivered>>

\* Mutant: an event that was delivered before passes.
NotAhead(n) == n <= sequence

\* The sequence check of validate_stream_event
InSequence(n) == n = sequence

Drain(n) ==
  /\ Bounded
  /\ lifecycle = "streaming"
  /\ InSequence(n)
  /\ sequence' = sequence + 1
  /\ delivered' = delivered \union {n}
  /\ UNCHANGED <<method, streamed, slots, lifecycle, actions, closeDelivered,
                 replies>>

Close(n) ==
  /\ Bounded
  /\ ~ closeDelivered
  /\ InSequence(n)
  /\ sequence' = sequence + 1
  /\ delivered' = delivered \union {n}
  /\ closeDelivered' = TRUE
  /\ lifecycle' = "closed"
  /\ UNCHANGED <<method, streamed, slots, actions, replies>>

Next ==
  \/ \E status \in Statuses : AssignStatusCode(status)
  \/ \E name \in Names : SetHeader(name)
  \/ \E status \in FinalStatuses, names \in SUBSET Names :
       WriteHead(status, names)
  \/ FlushHeaders
  \/ \E bytes \in BOOLEAN :
       \/ WriteFirst(bytes)
       \/ Write(bytes)
       \/ EndFirst(bytes)
       \/ EndBuffered(bytes)
       \/ EndStreaming(bytes)
  \/ Encode
  \/ \E n \in 1..MaxSequence : Drain(n) \/ Close(n)

Spec == Init /\ [][Next]_vars

-----------------------------------------------------------------------------

Heads == {[status |-> actions[i].status, headers |-> actions[i].headers] :
            i \in {j \in DOMAIN actions : actions[j].op = "start"}}
         \union {[status |-> r.status, headers |-> r.headers] : r \in replies}

\* Every status and header list that leaves the module, in a start or in an
\* encoded response, is the one that was committed: assignments after a
\* refused start, or between end and the encoding, must not show.
OneHead == Heads \subseteq {[status |-> committed, headers |-> headers]}

\* Whatever leaves carries a final status, never an unchecked statusCode.
FinalHeads == \A h \in Heads : h.status \in FinalStatuses

\* HEAD, 204 and 304 send no body byte, on either path.
NoForbiddenBytes ==
  method = "HEAD" \/ committed \in BodilessStatuses =>
    /\ \A i \in DOMAIN actions :
         actions[i].op \in {"write", "end"} => ~ actions[i].bytes
    /\ \A r \in replies : ~ r.bytes

\* A head of 204 or 304 announces no body either.
NoForbiddenFraming ==
  \A h \in Heads :
    h.status \in BodilessStatuses => h.headers \intersect FramingNames = {}

SentNumbers == {actions[i].sequence : i \in DOMAIN actions}

\* Module and host draw from one counter: refused actions leave no hole, and
\* no number is both an action's and an event's.
NumbersUsedOnce ==
  /\ SentNumbers \union delivered = 1..(sequence - 1)
  /\ SentNumbers \intersect delivered = {}

Wire == INSTANCE HttpWire WITH
  phase <- lifecycle,
  next <- sequence,
  actions <- [i \in DOMAIN actions |->
    [op |-> actions[i].op, sequence |-> actions[i].sequence]]

\* The response object keeps the contract of a streamed response.
ImplementsWire == Wire!Spec
=============================================================================
