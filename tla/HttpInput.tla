------------------------------ MODULE HttpInput ------------------------------
(***************************************************************************)
(* The streamed request body of node:http (modules/node-http/src/input.rs  *)
(* and the listener and close handling of lib.rs that reach it): one       *)
(* queued chunk per request, delivered by the host against credit and      *)
(* handed to user code by `data` listeners or read().                      *)
(*                                                                         *)
(* Everything is synchronous.  A host event or a method call runs until it *)
(* calls a listener; the listener may call the methods again before it     *)
(* returns or throws, and the interrupted code then continues.  `calls`    *)
(* is the stack of such interrupted emissions, innermost first, each with  *)
(* the rest of the work that follows it.  Host events arrive only between  *)
(* calls into the module, when the stack is empty.                         *)
(*                                                                         *)
(* A chunk is abstracted to whether it completes text (`head`) and whether *)
(* it leaves an incomplete UTF-8 scalar behind (`tail`); its pieces are    *)
(* numbered in the order of the body.                                      *)
(***************************************************************************)
EXTENDS Naturals, Sequences, SequencesExt

CONSTANTS
  MaxChunks,      \* bound: chunks in a body
  MaxListeners    \* MAX_LISTENERS of the request's listener table

ASSUME HttpInputAssumption ==
  /\ MaxChunks \in Nat
  /\ MaxListeners \in Nat \ {0}

VARIABLES
  body,       \* the chunks the host will send: external, fixed at the start
  req,        \* the private slots of the request object
  listeners,  \* registrations in the request's table: for data, and others
  closed,     \* CLOSE_DELIVERED
  calls,      \* interrupted emissions, innermost first
  handed,     \* history: the pieces emitted as data or returned by read()
  log         \* history: the lifecycle events emitted

vars == <<body, req, listeners, closed, calls, handed, log>>

-----------------------------------------------------------------------------
Chunks == {c \in [head : BOOLEAN, tail : BOOLEAN] : c.head \/ c.tail}

Bodies == UNION {[1..n -> Chunks] : n \in 0..MaxChunks}

\* Piece 2k-1 is the complete text of chunk k, piece 2k its incomplete tail.
Pieces == 1..(2 * MaxChunks)

HeadOf(k) == IF body[k].head THEN <<2 * k - 1>> ELSE <<>>
TailOf(k) == IF body[k].tail THEN <<2 * k>> ELSE <<>>
PiecesOf(k) == HeadOf(k) \o TailOf(k)

\* The pieces of the first n chunks, in order.
Received(n) ==
  LET upTo[k \in 0..Len(body)] ==
        IF k = 0 THEN <<>> ELSE upTo[k - 1] \o PiecesOf(k)
  IN  upTo[n]

Encodings == {"none", "latin1", "utf8"}

Empty == 0    \* QUEUE is undefined

Slots == [
  encoding : Encodings,             \* TEXT_ENCODING
  started  : BOOLEAN,               \* DATA_STARTED
  paused   : BOOLEAN,               \* PAUSED
  flowing  : BOOLEAN,               \* FLOWING
  queue    : 0..MaxChunks,          \* QUEUE: Empty or the number of a chunk
  eof      : BOOLEAN,               \* EOF
  ended    : BOOLEAN,               \* ENDED
  next     : Nat,                   \* NEXT
  pending  : Seq(Pieces),           \* PENDING: the UTF-8 residue
  terminal : BOOLEAN,               \* TERMINAL
  consumed : BOOLEAN]               \* CONSUMED

Lifecycle == {"end", "aborted", "error", "close", "responseClose"}

\* An interrupted emission: the event, whether any listener runs for it, and
\* what the code that emitted it does once they have returned.
Frames == [event : {"data", "readable"} \cup Lifecycle,
           then  : {"return", "finish", "drain", "end",
                    "requestClose", "responseClose"},
           heard : BOOLEAN]

TypeOK ==
  /\ body \in Seq(Chunks)
  /\ req \in Slots
  /\ listeners \in [data : Nat, other : Nat]
  /\ listeners.data + listeners.other <= MaxListeners
  /\ closed \in BOOLEAN
  /\ calls \in Seq(Frames)
  /\ handed \in Seq(Pieces)
  /\ log \in Seq(Lifecycle)

\* install(): the request event has built a streamed request.
Init ==
  /\ body \in Bodies
  /\ req = [encoding |-> "none", started |-> FALSE, paused |-> FALSE,
            flowing |-> FALSE, queue |-> Empty, eof |-> FALSE,
            ended |-> FALSE, next |-> 1, pending |-> <<>>,
            terminal |-> FALSE, consumed |-> FALSE]
  /\ listeners = [data |-> 0, other |-> 0]
  /\ closed = FALSE
  /\ calls = <<>>
  /\ handed = <<>>
  /\ log = <<>>

-----------------------------------------------------------------------------
\* The helpers of input.rs, as functions from one state of the request to
\* the state in which they return or have called a listener.

Now == [req |-> req, listeners |-> listeners, calls |-> calls,
        handed |-> handed, log |-> log]

Become(x) ==
  /\ req' = x.req
  /\ listeners' = x.listeners
  /\ calls' = x.calls
  /\ handed' = x.handed
  /\ log' = x.log

Heard(x, event) ==
  \/ event = "data" /\ x.listeners.data > 0
  \/ event = "responseClose"    \* the response has its own table
  \/ event \notin {"data", "responseClose"} /\ x.listeners.other > 0

Call(x, event, then) ==
  [x EXCEPT !.calls = <<[event |-> event, then |-> then,
                         heard |-> Heard(x, event)]>> \o @]

EmitData(x, pieces, then) ==
  Call([x EXCEPT !.handed = @ \o pieces], "data", then)

Announce(x, event, then) ==
  Call([x EXCEPT !.log = Append(@, event)], event, then)

EmitEnd(x) == Announce(x, "end", "return")

AtEnd(x) == x.req.eof /\ ~x.req.ended /\ x.req.queue = Empty

\* finish(): the decoder's residue is flushed as data, then end is emitted.
Finish(x) ==
  LET done == [x EXCEPT !.req.ended = TRUE]
  IN  IF ~AtEnd(x) THEN x
      ELSE IF x.req.pending = <<>> THEN EmitEnd(done)
      ELSE EmitData(done, x.req.pending, "end")

\* take(): what decoding the queued chunk yields and leaves behind.
Decoded(x) ==
  LET k == x.req.queue
  IN  IF x.req.encoding # "utf8" THEN PiecesOf(k)
      ELSE IF body[k].head THEN x.req.pending \o HeadOf(k)
      ELSE <<>>

Residue(x) ==
  LET k == x.req.queue
  IN  IF x.req.encoding # "utf8" THEN x.req.pending
      ELSE IF body[k].head THEN TailOf(k)
      ELSE x.req.pending \o TailOf(k)

\* Mutant: CONSUMED is not recorded.
TakeUnrecorded(x) ==
  [x EXCEPT !.req.queue = Empty, !.req.pending = Residue(x)]

Take(x) ==
  [x EXCEPT !.req.queue = Empty, !.req.consumed = TRUE,
            !.req.pending = Residue(x)]

\* Mutant: nothing at all is done unless data may flow.
DrainWhenFlowing(x) ==
  IF x.req.paused \/ ~x.req.flowing THEN x
  ELSE IF x.req.queue = Empty THEN Finish(x)
  ELSE EmitData(Take(x), Decoded(x), "finish")

\* drain()
Drain(x) ==
  IF x.req.paused \/ ~x.req.flowing \/ x.req.queue = Empty THEN Finish(x)
  ELSE EmitData(Take(x), Decoded(x), "finish")

RequestClose(x) == Announce(x, "close", "responseClose")

Continue(x, then) ==
  CASE then = "return"        -> x
    [] then = "finish"        -> Finish(x)
    [] then = "drain"         -> Drain(x)
    [] then = "end"           -> EmitEnd(x)
    [] then = "requestClose"  -> RequestClose(x)
    [] then = "responseClose" -> Announce(x, "responseClose", "return")

-----------------------------------------------------------------------------
\* What user code does, at the top level or inside a listener.

UserCode == calls # <<>> => Head(calls).heard

\* pause() and resume() are refused once the body has an outcome.
Usable == ~req.terminal /\ ~req.ended

Pause ==
  /\ UserCode /\ Usable
  /\ Become([Now EXCEPT !.req.paused = TRUE])
  /\ UNCHANGED <<body, closed>>

Resume ==
  /\ UserCode /\ Usable
  /\ Become(Drain([Now EXCEPT !.req.paused = FALSE, !.req.flowing = TRUE]))
  /\ UNCHANGED <<body, closed>>

\* read() still works after end, where it returns null.
Read ==
  /\ UserCode /\ ~req.terminal
  /\ Become(Finish(IF req.queue = Empty THEN Now
                   ELSE [Take(Now) EXCEPT !.handed = @ \o Decoded(Now)]))
  /\ UNCHANGED <<body, closed>>

SetEncoding(encoding) ==
  /\ UserCode /\ ~req.started
  /\ Become([Now EXCEPT !.req.encoding = encoding])
  /\ UNCHANGED <<body, closed>>

\* _bodyInputState
BodyState ==
  IF req.terminal THEN "terminal"
  ELSE IF req.ended THEN "ended"
  ELSE IF req.consumed THEN "consumed"
  ELSE IF req.encoding # "none" THEN "decoded"
  ELSE "available"

HasRoom == listeners.data + listeners.other < MaxListeners

\* on('data'): flowing mode is selected, the listener registered, and the
\* queued chunk drained.
OnData ==
  /\ UserCode /\ HasRoom
  /\ Become(Drain([Now EXCEPT !.req.flowing = TRUE, !.listeners.data = @ + 1]))
  /\ UNCHANGED <<body, closed>>

\* At its limit the table throws, after flowing mode has been selected.
OnDataRejected ==
  /\ UserCode /\ ~HasRoom
  /\ Become([Now EXCEPT !.req.flowing = TRUE])
  /\ UNCHANGED <<body, closed>>

OnOther ==
  /\ UserCode /\ HasRoom
  /\ Become([Now EXCEPT !.listeners.other = @ + 1])
  /\ UNCHANGED <<body, closed>>

\* Removal by the user, or of a once listener just before it runs.
Off(kind) ==
  /\ UserCode /\ listeners[kind] > 0
  /\ Become([Now EXCEPT !.listeners[kind] = @ - 1])
  /\ UNCHANGED <<body, closed>>

\* The listeners of the innermost emission have returned.
ListenersReturn ==
  /\ calls # <<>>
  /\ Become(Continue([Now EXCEPT !.calls = Tail(@)], Head(calls).then))
  /\ UNCHANGED <<body, closed>>

\* A listener throws: the rest of the interrupted code is abandoned.
ListenerThrows ==
  /\ calls # <<>> /\ Head(calls).heard
  /\ Become([Now EXCEPT !.calls = Tail(@)])
  /\ UNCHANGED <<body, closed>>

-----------------------------------------------------------------------------
\* What the host does, between calls into the module.  An event with another
\* sequence, identity or version than expected is refused unchanged.

Idle == calls = <<>>

OpenAfterEnd == ~req.terminal    \* mutant: EOF is not read

Open == ~req.eof /\ ~req.terminal

\* Mutant: an event the host repeats is accepted again.
InSequenceOrRepeated(k) == k \in {req.next - 1, req.next}

InSequence(k) == k = req.next

\* Mutant: the queued chunk survives.
TerminatedWithChunk(x) == [x EXCEPT !.req.terminal = TRUE]

Terminated(x) == [x EXCEPT !.req.terminal = TRUE, !.req.queue = Empty]

Data(k) ==
  /\ Idle /\ Open /\ InSequence(k)
  /\ ~req.paused /\ req.queue = Empty
  /\ LET queued == [Now EXCEPT !.req.queue = k, !.req.started = TRUE,
                               !.req.next = @ + 1]
     IN  Become(IF req.flowing THEN Drain(queued)
                ELSE Call(queued, "readable", "drain"))
  /\ UNCHANGED <<body, closed>>

End ==
  /\ Idle /\ Open /\ InSequence(Len(body) + 1)
  /\ req.queue = Empty
  /\ Become(Drain([Now EXCEPT !.req.eof = TRUE, !.req.next = @ + 1]))
  /\ UNCHANGED <<body, closed>>

\* Abort and error drop the queued chunk and report themselves.
Fail(event) ==
  /\ Idle /\ Open
  /\ Become(Announce(Terminated([Now EXCEPT !.req.next = @ + 1]),
                     event, "return"))
  /\ UNCHANGED <<body, closed>>

\* Close: aborted if the input was incomplete, then close on the request,
\* then close on the response.
Close ==
  /\ Idle /\ ~closed
  /\ closed' = TRUE
  /\ Become(IF Open THEN Announce(Terminated(Now), "aborted", "requestClose")
            ELSE RequestClose(Terminated(Now)))
  /\ UNCHANGED body

UserNext ==
  \/ Pause \/ Resume \/ Read
  \/ \E encoding \in Encodings \ {"none"} : SetEncoding(encoding)
  \/ OnData \/ OnDataRejected \/ OnOther
  \/ \E kind \in {"data", "other"} : Off(kind)
  \/ ListenersReturn \/ ListenerThrows

HostNext ==
  \/ \E k \in 1..Len(body) : Data(k)
  \/ End
  \/ \E event \in {"aborted", "error"} : Fail(event)
  \/ Close

Next == UserNext \/ HostNext

Spec == Init /\ [][Next]_vars

\* The host keeps offering what is left of the body whenever there is credit,
\* listeners return, and user code resumes what it paused and reads what is
\* queued when it has not selected flowing mode.
Fairness ==
  /\ SF_vars(\E k \in 1..Len(body) : Data(k))
  /\ WF_vars(End)
  /\ WF_vars(ListenersReturn)
  /\ WF_vars(req.paused /\ Resume)
  /\ WF_vars(req.queue # Empty /\ Read)

FairSpec == Spec /\ Fairness

-----------------------------------------------------------------------------
\* Properties.

Queued == IF req.queue = Empty THEN <<>> ELSE PiecesOf(req.queue)

Undecoded == IF req.ended THEN <<>> ELSE req.pending

\* The chunks accepted so far: NEXT also counts the end, and an abort or error.
Accepted == IF req.next > Len(body) THEN Len(body) ELSE req.next - 1

\* Whatever listeners do from inside one another, every piece of the body is
\* in exactly one place and in order: handed to user code, in the decoder, or
\* queued.  Only abort, error and close may drop pieces, and only the last.
\* The state keeps its type.
PiecesKeptInOrder ==
  LET account == handed \o Undecoded \o Queued
  IN  /\ TypeOK
      /\ IF req.terminal THEN IsPrefix(account, Received(Len(body)))
         ELSE account = Received(Accepted)

\* One of end, aborted and error is announced at most once, then close on the
\* request and then on the response, each at most once.
Rank(event) ==
  CASE event = "close"         -> 2
    [] event = "responseClose" -> 3
    [] OTHER                   -> 1

LifecycleOrdered ==
  \A i, j \in DOMAIN log : i < j => Rank(log[i]) < Rank(log[j])

\* A body parser that finds the input "available" or "decoded" will see the
\* whole body: nothing of it has been taken out of the queue yet.
NoTailIsParsed ==
  BodyState \in {"available", "decoded"} =>
    handed = <<>> /\ req.pending = <<>>

\* After end, abort, error or close no data reaches user code any more, not
\* even by a listener added later or from a listener still running.
NoDataAfterOutcome ==
  [][req.terminal \/ Len(log) > 0 => handed' = handed]_vars

\* A consumer that resumes and reads always gets to an outcome: pausing,
\* listening and reading in any order never leaves the credit at zero.
BodyEnds == <>(req.ended \/ req.terminal)

\* Once close has been handled, both close events have fired.
CloseEventsFired ==
  closed /\ Idle => {"close", "responseClose"} \subseteq ToSet(log)
=============================================================================
