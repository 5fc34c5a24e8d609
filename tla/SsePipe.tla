------------------------------ MODULE SsePipe ------------------------------
(***************************************************************************)
(* The server-sent-events pipe of the hazelcast module (pipeMap and        *)
(* pipeState): a subscription of the state host feeds one streamed HTTP    *)
(* response.  Reads of the subscription are host requests that are         *)
(* answered later, and between a request and its answer the guest also     *)
(* runs readable, drain, heartbeat and close callbacks, which share the    *)
(* ACTIVE, PENDING and CLOSED slots.                                       *)
(*                                                                         *)
(* The state host (the versions it publishes, the bounded subscription     *)
(* queue, its readable signal, the order of its answers) and the response  *)
(* (what write() returns, drain) are external: they are modelled from the  *)
(* fields the pipe reads and the callbacks it registers.  An event is its  *)
(* version; keepalive comments carry nothing and are not recorded.  The    *)
(* request that closes the subscription is kept apart from the reads: the  *)
(* host may answer it before them or after them.                           *)
(***************************************************************************)
EXTENDS Naturals, Sequences, SequencesExt

CONSTANTS
  Snapshots,    \* whether the pipe asks for a snapshot: pipeState, or pipeMap
  InOrder,      \* the host answers requests in the order they were made
  MaxEvents,    \* drain.maxEvents: the events of one read
  Capacities,   \* what subscription.maxPendingEvents may be
  None,         \* JavaScript's undefined
  Error,        \* a request answered with a message instead of a value
  MaxVersion,   \* bound: versions published
  MaxStalls     \* bound: writes that find the output full

Versions == 0..MaxVersion

\* What a read is answered: a batch, or the message of a host error.
Batches ==
  [overflowed : BOOLEAN, events : Seq(Versions), more : BOOLEAN]

ASSUME SsePipeAssumption ==
  /\ Snapshots \subseteq BOOLEAN /\ InOrder \in BOOLEAN
  /\ MaxEvents \in Nat \ {0} /\ Capacities \subseteq Nat \ {0}
  /\ MaxVersion \in Nat /\ MaxStalls \in Nat
  /\ None \notin Nat /\ Error \notin Nat /\ None # Error
  /\ None \notin Batches /\ Error \notin Batches

VARIABLES
  pipe,        \* the private slots of the pipe
  subscription,\* the host's side of the subscription
  requests,    \* the reads and snapshots that have not completed
  closing,     \* the request that closes the subscription, and its answer
  published,   \* the version of the map or queue
  response,    \* whether the response can be written, and is full
  frames,      \* the events written to the response
  closes,      \* how often onClose has been called
  failed,      \* a read or a snapshot has ended in an exception
  stalls       \* writes that returned false

vars == <<pipe, subscription, requests, closing, published, response, frames,
          closes, failed, stalls>>

Requests ==
  [op : {"read"}, answer : {None, Error} \union Batches]
    \union [op : {"snapshot"}, answer : {None, Error} \union Versions]

\* History: `upto' is the last version published when the reset was written.
\* The client drops what it has and loads the state anew (onReset), so that
\* the reset stands for every version up to there, and for none after it.
Frames ==
  [kind : {"state", "snapshot"}, version : Versions] \union
  [kind : {"reset"}, reason : {"reconnect", "overflow"}, upto : Versions]

TypeOK ==
  /\ pipe \in [active : BOOLEAN, pending : BOOLEAN, closed : BOOLEAN,
               timer : {"none", "running", "cleared"},
               subscribed : BOOLEAN, minVersion : Versions \union {None}]
  /\ subscription \in
       [status : {"none", "open", "closed"}, queue : Seq(Versions),
        overflowed : BOOLEAN, signal : BOOLEAN, base : Versions,
        capacity : Capacities]
  /\ Len(subscription.queue) <= subscription.capacity
  /\ requests \in Seq(Requests)
  /\ closing \in {"none", "requested", "granted", "refused"}
  /\ published \in Versions
  /\ response \in [open : BOOLEAN, full : BOOLEAN]
  /\ frames \in Seq(Frames)
  /\ closes \in Nat
  /\ failed \in BOOLEAN
  /\ stalls \in 0..MaxStalls

Init ==
  /\ pipe = [active |-> FALSE, pending |-> FALSE, closed |-> FALSE,
             timer |-> "none", subscribed |-> FALSE, minVersion |-> None]
  /\ \E capacity \in Capacities :
       subscription = [status |-> "none", queue |-> <<>>, overflowed |-> FALSE,
                       signal |-> FALSE, base |-> 0, capacity |-> capacity]
  /\ requests = <<>>
  /\ closing = "none"
  /\ published = 0
  /\ response = [open |-> TRUE, full |-> FALSE]
  /\ frames = <<>>
  /\ closes = 0
  /\ failed = FALSE
  /\ stalls = 0

-----------------------------------------------------------------------------
\* The response, as the pipe uses it.

\* write() answers true, false once the output is over its high-water mark,
\* or throws: always when the response is over, otherwise when it is refused.
WriteOutcomes ==
  IF ~response.open THEN {"thrown"}
  ELSE {"thrown"} \union (IF response.full THEN {} ELSE {"true"})
                  \union (IF stalls < MaxStalls \/ response.full
                          THEN {"false"} ELSE {})

\* The output after a write.
Written(outcome) ==
  /\ response' = [response EXCEPT !.full = @ \/ outcome = "false"]
  /\ stalls' = IF outcome = "false" /\ ~response.full THEN stalls + 1
               ELSE stalls

-----------------------------------------------------------------------------
\* The pipe.

\* Mutant: start_pipe_read does not look at CLOSED.
ReadsAlways == TRUE

\* The test at the head of start_pipe_read
Reads == ~pipe.closed

\* start_pipe_read, from the slots p and the requests that stay.
StartRead(p, others) ==
  /\ pipe' = [p EXCEPT !.active = TRUE, !.pending = FALSE]
  /\ requests' = Append(others, [op |-> "read", answer |-> None])

Reset(reason) == [kind |-> "reset", reason |-> reason, upto |-> published]

Unstarted == pipe.timer = "none" /\ response.open

\* pipeMap and pipeState: headers and a comment are written, a reset too when
\* the client reconnects, callbacks and the timer are registered, and the
\* subscription is opened, all in one call.  In state mode the snapshot is
\* requested next.
Open(reconnects, snapshot) ==
  /\ Unstarted
  /\ frames' = IF reconnects THEN <<Reset("reconnect")>> ELSE <<>>
  /\ \E outcome \in WriteOutcomes \ {"thrown"} : Written(outcome)
  /\ pipe' = [pipe EXCEPT !.timer = "running", !.subscribed = TRUE]
  /\ subscription' = [subscription EXCEPT !.status = "open",
                                          !.base = published]
  /\ requests' = IF snapshot THEN <<[op |-> "snapshot", answer |-> None]>>
                 ELSE <<>>
  /\ UNCHANGED <<closing, published, closes, failed>>

\* The host refuses the subscription: the callbacks and the timer stay.
OpenRefused(reconnects) ==
  /\ Unstarted
  /\ frames' = IF reconnects THEN <<Reset("reconnect")>> ELSE <<>>
  /\ pipe' = [pipe EXCEPT !.timer = "running"]
  /\ UNCHANGED <<subscription, requests, closing, published, response, closes,
                 failed, stalls>>

\* PIPE_READABLE
Readable ==
  IF pipe.closed THEN UNCHANGED <<pipe, requests>>
  ELSE IF pipe.active
       THEN pipe' = [pipe EXCEPT !.pending = TRUE] /\ UNCHANGED requests
       ELSE StartRead(pipe, requests)

\* The host signals that the subscription has something to read.
Signalled ==
  /\ subscription.signal
  /\ subscription' = [subscription EXCEPT !.signal = FALSE]
  /\ Readable
  /\ UNCHANGED <<closing, published, response, frames, closes, failed,
                 stalls>>

\* pipe.pump is the readable callback, called by user code.
Pump ==
  /\ pipe.subscribed
  /\ Readable
  /\ UNCHANGED <<subscription, closing, published, response, frames, closes,
                 failed, stalls>>

\* PIPE_DRAIN: the output has room again.
Drain ==
  /\ response.open /\ response.full /\ pipe.timer # "none"
  /\ response' = [response EXCEPT !.full = FALSE]
  /\ IF pipe.pending /\ Reads THEN StartRead(pipe, requests)
     ELSE UNCHANGED <<pipe, requests>>
  /\ UNCHANGED <<subscription, closing, published, frames, closes, failed,
                 stalls>>

\* PIPE_HEARTBEAT: a keepalive is written while no read is under way.
Heartbeat ==
  /\ pipe.timer = "running"
  /\ ~pipe.closed /\ ~pipe.active
  /\ \E outcome \in WriteOutcomes : Written(outcome)
  /\ UNCHANGED <<pipe, subscription, requests, closing, published, frames,
                 closes, failed>>

\* The test at the head of close_pipe
Closes == ~pipe.closed

Unsubscribed == [subscription EXCEPT !.status = "closed", !.queue = <<>>,
                                     !.overflowed = FALSE, !.signal = FALSE]

\* close_pipe: the timer is cleared, and onClose called once the subscription
\* is closed.  The host closes it at once, or answers the request later
\* (PIPE_CLOSED_COMPLETE); when it throws at once, onClose is not called.
ClosePipe ==
  IF ~Closes THEN UNCHANGED <<pipe, subscription, closing, closes>>
  ELSE /\ pipe' = [pipe EXCEPT !.closed = TRUE, !.timer = "cleared"]
       /\ \/ /\ pipe.subscribed
             /\ subscription' = Unsubscribed
             /\ closes' = closes + 1
             /\ UNCHANGED closing
          \/ /\ pipe.subscribed
             /\ closing' = "requested"
             /\ UNCHANGED <<subscription, closes>>
          \/ /\ pipe.subscribed
             /\ UNCHANGED <<subscription, closing, closes>>
          \/ /\ ~pipe.subscribed
             /\ closes' = closes + 1
             /\ UNCHANGED <<subscription, closing>>

\* pipe.close, called by user code
Close ==
  /\ pipe.timer # "none"
  /\ ClosePipe
  /\ UNCHANGED <<requests, published, response, frames, failed, stalls>>

\* PIPE_CLOSED_COMPLETE: onClose is called on the closed pipe, whether the
\* subscription could be closed or not; it is user code, and may pump, close,
\* or end the response.
CloseCompleted ==
  /\ closing \in {"granted", "refused"}
  /\ closing' = "none"
  /\ closes' = closes + 1
  /\ UNCHANGED <<pipe, subscription, requests, published, response, frames,
                 failed, stalls>>

\* The connection closes.  The request's close event closes the pipe, unless
\* an earlier listener of that event throws.
Disconnect ==
  /\ response.open
  /\ response' = [response EXCEPT !.open = FALSE]
  /\ \/ pipe.timer # "none" /\ ClosePipe
     \/ UNCHANGED <<pipe, subscription, closing, closes>>
  /\ UNCHANGED <<requests, published, frames, failed, stalls>>

\* User code ends the response under the pipe.
EndResponse ==
  /\ response.open
  /\ response' = [response EXCEPT !.open = FALSE]
  /\ UNCHANGED <<pipe, subscription, requests, closing, published, frames,
                 closes, failed, stalls>>

-----------------------------------------------------------------------------
\* The state host.

\* A change is published; a subscriber whose queue is full loses it, and all
\* that follow until it reads.
Publish ==
  /\ published < MaxVersion
  /\ published' = published + 1
  /\ IF subscription.status # "open" THEN UNCHANGED subscription
     ELSE IF subscription.overflowed \/ Len(subscription.queue) = subscription.capacity
     THEN subscription' = [subscription EXCEPT !.overflowed = TRUE,
                                               !.signal = TRUE]
     ELSE subscription' = [subscription EXCEPT
                             !.queue = Append(@, published + 1),
                             !.signal = TRUE]
  /\ UNCHANGED <<pipe, requests, closing, response, frames, closes, failed,
                 stalls>>

\* The requests that are answered, or completed, next.
InTurn(i) == InOrder => \A j \in 1..(i - 1) : requests[j].answer # None

Waiting(i, op) ==
  /\ requests[i].op = op
  /\ requests[i].answer = None
  /\ InTurn(i)

\* A read takes up to MaxEvents events, and some if there are any.
AnswerRead(i, taken) ==
  /\ Waiting(i, "read")
  /\ subscription.status = "open"
  /\ taken <= Len(subscription.queue)
  /\ taken = 0 => subscription.queue = <<>>
  /\ LET queue  == subscription.queue
         events == IF subscription.overflowed THEN <<>>
                   ELSE SubSeq(queue, 1, taken)
         left   == IF subscription.overflowed THEN <<>>
                   ELSE SubSeq(queue, taken + 1, Len(queue))
     IN  /\ subscription' = [subscription EXCEPT !.queue = left,
                                                 !.overflowed = FALSE]
         /\ requests' = [requests EXCEPT ![i].answer =
                           [overflowed |-> subscription.overflowed,
                            events |-> events, more |-> left # <<>>]]
  /\ UNCHANGED <<pipe, closing, published, response, frames, closes, failed,
                 stalls>>

\* The snapshot is the state at the version published last.
AnswerSnapshot(i) ==
  /\ Waiting(i, "snapshot")
  /\ requests' = [requests EXCEPT ![i].answer = published]
  /\ UNCHANGED <<pipe, subscription, closing, published, response, frames,
                 closes, failed, stalls>>

AnswerError(i) ==
  /\ requests[i].answer = None
  /\ InTurn(i)
  /\ requests' = [requests EXCEPT ![i].answer = Error]
  /\ UNCHANGED <<pipe, subscription, closing, published, response, frames,
                 closes, failed, stalls>>

\* The subscription is closed on request, or the host refuses.
AnswerClose(granted) ==
  /\ closing = "requested"
  /\ closing' = IF granted THEN "granted" ELSE "refused"
  /\ subscription' = IF granted THEN Unsubscribed ELSE subscription
  /\ UNCHANGED <<pipe, requests, published, response, frames, closes, failed,
                 stalls>>

-----------------------------------------------------------------------------
\* The answers (resume).

Answered(i, op) ==
  /\ requests[i].op = op
  /\ requests[i].answer # None
  /\ InOrder => i = 1

\* Mutant: events the snapshot covers are written again.
NewerUnfiltered(events) == events

\* The events encode_sse_batch keeps: those after the snapshot
Newer(events) ==
  LET kept[k \in 0..Len(events)] ==
        IF k = 0 THEN <<>>
        ELSE IF pipe.minVersion = None \/ events[k] > pipe.minVersion
             THEN Append(kept[k - 1], events[k])
             ELSE kept[k - 1]
  IN  kept[Len(events)]

\* Mutant: an overflow is written as if nothing had been read.
EncodedWithoutReset(batch) ==
  LET events == IF batch.overflowed THEN <<>> ELSE Newer(batch.events)
  IN  [k \in DOMAIN events |-> [kind |-> "state", version |-> events[k]]]

\* encode_sse_batch
Encoded(batch) ==
  IF batch.overflowed THEN <<Reset("overflow")>>
  ELSE LET events == Newer(batch.events)
       IN  [k \in DOMAIN events |-> [kind |-> "state", version |-> events[k]]]

\* A read that fails, whose batch cannot be encoded (the Error answer stands
\* for both), or that completes after the pipe was closed
ReadDropped(i) ==
  /\ Answered(i, "read")
  /\ requests[i].answer = Error \/ pipe.closed
  /\ pipe' = [pipe EXCEPT !.active = FALSE]
  /\ requests' = RemoveAt(requests, i)
  /\ failed' = (failed \/ requests[i].answer = Error)
  /\ UNCHANGED <<subscription, closing, published, response, frames, closes,
                 stalls>>

\* write() throws: the batch is lost and ACTIVE stays set.
ReadUnwritten(i) ==
  /\ Answered(i, "read")
  /\ requests[i].answer # Error /\ ~pipe.closed
  /\ requests' = RemoveAt(requests, i)
  /\ failed' = TRUE
  /\ UNCHANGED <<pipe, subscription, closing, published, response, frames,
                 closes, stalls>>

\* The batch was the last: read on when readable was called meanwhile.
Idle(others) ==
  IF pipe.pending THEN StartRead([pipe EXCEPT !.active = FALSE], others)
  ELSE pipe' = [pipe EXCEPT !.active = FALSE] /\ requests' = others

\* Mutant: ACTIVE stays set once a reset has been written.
StuckAfterReset(p) == [p EXCEPT !.pending = FALSE]

\* A reset was written: the pipe idles until the next signal.
AfterReset(p) == [p EXCEPT !.active = FALSE, !.pending = FALSE]

\* The batch is written; read on unless the output is full.
ReadWritten(i, writable) ==
  /\ Answered(i, "read")
  /\ requests[i].answer # Error /\ ~pipe.closed
  /\ (IF writable THEN "true" ELSE "false") \in WriteOutcomes
  /\ Written(IF writable THEN "true" ELSE "false")
  /\ LET batch  == requests[i].answer
         others == RemoveAt(requests, i)
     IN  /\ frames' = frames \o Encoded(batch)
         /\ IF batch.overflowed
            THEN pipe' = AfterReset(pipe) /\ requests' = others
            ELSE IF batch.more /\ writable THEN StartRead(pipe, others)
            ELSE IF batch.more
            THEN pipe' = [pipe EXCEPT !.pending = TRUE] /\ requests' = others
            ELSE Idle(others)
  /\ UNCHANGED <<subscription, closing, published, closes, failed>>

\* The snapshot is written, also after the pipe has been closed.
SnapshotWritten(i) ==
  /\ Answered(i, "snapshot")
  /\ requests[i].answer # Error
  /\ \E outcome \in WriteOutcomes :
       /\ Written(outcome)
       /\ frames' = IF outcome = "thrown" THEN frames
                    ELSE Append(frames, [kind |-> "snapshot",
                                         version |-> requests[i].answer])
       /\ failed' = (failed \/ outcome = "thrown")
  /\ pipe' = [pipe EXCEPT !.minVersion = requests[i].answer]
  /\ requests' = RemoveAt(requests, i)
  /\ UNCHANGED <<subscription, closing, published, closes>>

SnapshotFailed(i) ==
  /\ Answered(i, "snapshot")
  /\ requests[i].answer = Error
  /\ requests' = RemoveAt(requests, i)
  /\ failed' = TRUE
  /\ UNCHANGED <<pipe, subscription, closing, published, response, frames,
                 closes, stalls>>

Complete(i) ==
  \/ ReadDropped(i)
  \/ ReadUnwritten(i)
  \/ \E writable \in BOOLEAN : ReadWritten(i, writable)
  \/ SnapshotWritten(i)
  \/ SnapshotFailed(i)

Next ==
  \/ \E reconnects \in BOOLEAN, snapshot \in Snapshots :
       Open(reconnects, snapshot)
  \/ \E reconnects \in BOOLEAN : OpenRefused(reconnects)
  \/ Signalled \/ Pump \/ Drain \/ Heartbeat
  \/ Close \/ CloseCompleted \/ Disconnect \/ EndResponse
  \/ \E granted \in BOOLEAN : AnswerClose(granted)
  \/ Publish
  \/ \E i \in DOMAIN requests :
       \/ \E taken \in 0..MaxEvents : AnswerRead(i, taken)
       \/ AnswerSnapshot(i) \/ AnswerError(i) \/ Complete(i)

Spec == Init /\ [][Next]_vars

\* The host answers, completes what it answered and signals; drain follows a
\* full output once it has room.
Fairness ==
  /\ WF_vars(Signalled)
  /\ WF_vars(Drain)
  /\ WF_vars(\E i \in DOMAIN requests :
                \/ \E taken \in 0..MaxEvents : AnswerRead(i, taken)
                \/ AnswerSnapshot(i) \/ AnswerError(i))
  /\ WF_vars(\E i \in DOMAIN requests : Complete(i))

FairSpec == Spec /\ Fairness

-----------------------------------------------------------------------------
\* Properties.

Numbered(i) == frames[i].kind # "reset"

\* The last version a client has been sent with frames 1..j
Known(j) ==
  LET numbered == {i \in 1..j : Numbered(i)}
  IN  IF numbered = {} THEN subscription.base
      ELSE frames[Max(numbered)].version

\* The pipe is at work: subscribed, not closed, and no exception has told the
\* application otherwise.
Watching ==
  /\ subscription.status = "open" /\ response.open
  /\ ~pipe.closed /\ ~failed

\* The client never goes back in time and sees no event twice, although reads
\* may overlap: a drain starts a read while another is under way.
VersionsIncrease ==
  \A i, j \in DOMAIN frames :
    i < j /\ Numbered(i) /\ Numbered(j) => frames[i].version < frames[j].version

\* An event is missing before the next one only after a reset, or after an
\* exception: overflow, the snapshot's filter and batches lose nothing
\* silently.  The state keeps its type.
GapsAreAnnounced ==
  /\ TypeOK
  /\ \A j \in DOMAIN frames :
       frames[j].kind = "state" =>
         \/ frames[j].version = Known(j - 1) + 1
         \/ j > 1 /\ frames[j - 1].kind = "reset"
         \/ failed

ReadsIn(rs) == Cardinality({i \in DOMAIN rs : rs[i].op = "read"})

\* The calls of onClose, made and owed
CloseCalls == closes + (IF closing = "none" THEN 0 ELSE 1)

\* Once closed the pipe reads and writes no more, and onClose is called at
\* most once, whichever callbacks and answers still come: signals of a
\* subscription the host has yet to close, or refuses to, and what user code
\* does from onClose.  The snapshot alone is written even then.
QuietAfterClose ==
  [][pipe.closed =>
       /\ pipe'.closed
       /\ ReadsIn(requests') <= ReadsIn(requests)
       /\ frames' # frames => Last(frames').kind = "snapshot"
       /\ CloseCalls' = CloseCalls
       /\ closing = "none" => closing' = "none"]_vars

\* The client has been sent version v, or a reset written after v was
\* published.  A reset stands for no version that comes after it.
Told(v) ==
  \/ Known(Len(frames)) >= v
  \/ \E i \in DOMAIN frames : frames[i].kind = "reset" /\ frames[i].upto >= v

\* Whenever the client is behind, it is told of the version published last,
\* and so of each one before it, unless the pipe or the response ends or an
\* exception is raised: also after a reset, the pipe goes on.
EveryEventArrives ==
  Watching /\ ~Told(published) ~> Told(published) \/ ~Watching
=============================================================================
