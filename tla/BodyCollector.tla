--------------------------- MODULE BodyCollector ---------------------------
(***************************************************************************)
(* express.json() and express.urlencoded() over one request: the collector *)
(* of modules/express/src/json.rs and the middleware that starts it.       *)
(*                                                                         *)
(* The middleware may be called several times for a request.  A call that  *)
(* collects registers six listeners, keeps the chunks of a streamed body   *)
(* until `end`, then removes its listeners, drops its references and calls *)
(* next.  The request input is HttpInput as the collector sees it: one     *)
(* queued chunk, pause, resume and read, the outcome events.  A chunk is   *)
(* its size; whether what is collected parses is chosen at the start.      *)
(*                                                                         *)
(* The collector shares the emitters with listeners of the application,    *)
(* and an emission stops at the first listener that throws, with whatever  *)
(* the emitting code had still to do.  At most one listener throws in a    *)
(* step: one called before the collector, so that the collector does not   *)
(* hear the event, or one called after it; next() itself may throw too.    *)
(* One step runs a callback with the next() it calls; what the application *)
(* then does inside of next() are steps of their own.                      *)
(***************************************************************************)
EXTENDS Naturals, Sequences, FiniteSets, SequencesExt

CONSTANTS
  Limit,         \* the configured limit in bytes
  Sizes,         \* the sizes of chunks
  MaxChunks,     \* bound: the chunks of a body
  MaxCalls,      \* bound: middleware calls for one request
  Rooms,         \* how many of the six listeners may be registered
  Done, None     \* the completion marker; nothing parsed

ASSUME BodyCollectorAssumption ==
  /\ Limit \in Nat /\ Sizes \subseteq Nat \ {0}
  /\ MaxChunks \in Nat /\ MaxCalls \in Nat /\ Rooms \subseteq 0..6
  /\ Done \notin 1..MaxCalls /\ None \notin 1..MaxCalls /\ Done # None

VARIABLES
  request,     \* streamedInput, the sizes of the body, content-length, validity
  input,       \* the private slots of the request's input
  marker,      \* request._expressJsonState: a call, the done marker, or none
  collectors,  \* what each middleware call holds
  answers,     \* what each middleware call gave to next
  parsed,      \* the chunks whose bytes were parsed into request.body
  stranded,    \* history: the calls that threw before their callbacks were made
  missed,      \* history: events, and chunks, kept from a collector in place
  responseEnded, \* response._expressEnded
  closed,      \* the close event has been delivered
  calls        \* how often the middleware has been called

vars == <<request, input, marker, collectors, answers, parsed, stranded, missed,
          responseEnded, closed, calls>>

CallIds == 1..MaxCalls
Events == {"data", "end", "error", "aborted", "close", "responseClose"}
\* The order in which they are registered.
EventOrder == <<"data", "end", "error", "aborted", "close", "responseClose">>

Bodies == UNION {[1..n -> Sizes] : n \in 0..MaxChunks}
Bytes(sizes) == FoldSeq(+, 0, sizes)
SizesOf(chunks) == [i \in DOMAIN chunks |-> request.body[chunks[i]]]
AllChunks == [i \in DOMAIN request.body |-> i]

Requests ==
  [streamed : BOOLEAN, body : Bodies, declared : BOOLEAN, valid : BOOLEAN]
Inputs ==
  [queue : 0..MaxChunks, taken : 0..MaxChunks, paused : BOOLEAN, flowing : BOOLEAN,
   consumed : BOOLEAN, ended : BOOLEAN, terminal : BOOLEAN, decoded : BOOLEAN]
\* parsed and skipped are next(); syntax (400), limit (413) and request (500, or
\* 400 after a failure) are next(error).
Answers == {"parsed", "skipped", "syntax", "limit", "request"}

\* The listener that throws in a step: on which event, and whether the
\* collector's own is called before it.
NoFault == <<"none", TRUE>>
Faults(events) == {NoFault} \union (events \X BOOLEAN)

\* A chunk waits in the queue only while the input may not flow.
TypeOK ==
  /\ request \in Requests
  /\ input \in Inputs
  /\ input.queue # 0 => input.paused \/ ~input.flowing
  /\ marker \in CallIds \union {Done, None}
  /\ collectors \in [CallIds -> [listening : SUBSET Events,
                                 chunks : Seq(1..MaxChunks)]]
  /\ answers \in [CallIds -> Seq(Answers)]
  /\ parsed \in Seq(1..MaxChunks) \union {None}
  /\ stranded \subseteq CallIds /\ missed \subseteq Events \X (0..MaxChunks)
  /\ responseEnded \in BOOLEAN /\ closed \in BOOLEAN /\ calls \in 0..MaxCalls

Idle == [listening |-> {}, chunks |-> <<>>]

Init ==
  /\ request \in Requests
  /\ input = [queue |-> 0, taken |-> 0, paused |-> FALSE, flowing |-> FALSE,
              consumed |-> FALSE, ended |-> FALSE, terminal |-> FALSE,
              decoded |-> FALSE]
  /\ marker = None
  /\ collectors = [c \in CallIds |-> Idle]
  /\ answers = [c \in CallIds |-> <<>>]
  /\ parsed = None
  /\ stranded = {} /\ missed = {}
  /\ responseEnded = FALSE
  /\ closed = FALSE
  /\ calls = 0

-----------------------------------------------------------------------------
\* The state a call of the module builds up, as one record, and whether it has
\* been left by an exception.

Now == [input |-> input, marker |-> marker, collectors |-> collectors,
        answers |-> answers, parsed |-> parsed, stranded |-> stranded,
        missed |-> missed, thrown |-> FALSE]
Become(x) ==
  /\ input' = x.input /\ marker' = x.marker /\ collectors' = x.collectors
  /\ answers' = x.answers /\ parsed' = x.parsed /\ stranded' = x.stranded
  /\ missed' = x.missed

\* What follows a call that may throw
Then(x, y) == IF x.thrown THEN x ELSE y

\* json_fail and the other calls of next.
Answer(x, c, what) == [x EXCEPT !.answers[c] = Append(@, what)]

\* A registration makes the callback of an event just before it registers it.
\* The last one, of responseClose, is there unless one of the other five was
\* refused.
AllMade(x, c) == "close" \in x.collectors[c].listening

\* Mutant: listeners and chunks go, the marker of the collection stays.
CleanupKeepsMarker(x, c) == [x EXCEPT !.collectors[c] = Idle]

\* cleanup(): it throws at a callback that was never made, when the others have
\* been removed and before the marker and the chunks are.
Cleanup(x, c) ==
  IF AllMade(x, c) THEN [x EXCEPT !.collectors[c] = Idle, !.marker = None]
  ELSE [x EXCEPT !.collectors[c].listening = {}, !.thrown = TRUE]

\* parsed_body
ParsedBody(x, c, chunks) ==
  Answer([x EXCEPT !.parsed = chunks, !.marker = Done], c, "parsed")

\* json_parse_body
ParseBody(x, c, chunks) ==
  IF ~(Bytes(SizesOf(chunks)) <= Limit) THEN Answer(x, c, "limit")
  ELSE IF request.valid THEN ParsedBody(x, c, chunks)
  ELSE Answer(x, c, "syntax")

Fits(x, c, k) ==
  request.body[k] <= Limit - Bytes(SizesOf(x.collectors[c].chunks))

Keep(x, c, k) == [x EXCEPT !.collectors[c].chunks = Append(@, k)]
Paused(x) == [x EXCEPT !.input.paused = TRUE]

\* The data callback: a decoded chunk is refused, and so is one too many.
OnData(x, c, k) ==
  LET gone == Cleanup(x, c)
  IN  IF x.input.decoded THEN Then(gone, Answer(gone, c, "request"))
      ELSE IF Fits(x, c, k) THEN Keep(x, c, k)
      ELSE Then(gone, Answer(Paused(gone), c, "limit"))

OnEnd(x, c) ==
  LET gone == Cleanup(x, c)
  IN  Then(gone, ParseBody(gone, c, x.collectors[c].chunks))

\* Mutant: an input failure is answered although the connection is gone.
WritableAlways(x) == TRUE

Writable(x) == ~x.input.terminal

\* Mutant: a body that is cut off is parsed like one that has ended.
OutcomeAsEnd(x, c, event) == OnEnd(x, c)

\* error, aborted and the two close events.
OnOutcome(x, c, event) ==
  LET gone == Cleanup(x, c)
  IN  IF event = "error" /\ Writable(x) /\ ~responseEnded
      THEN Then(gone, Answer(gone, c, "request"))
      ELSE gone

Callback(x, c, event, k) ==
  CASE event = "data" -> OnData(x, c, k)
    [] event = "end"  -> OnEnd(x, c)
    [] OTHER          -> OnOutcome(x, c, event)

Hearing(x, event) == {c \in CallIds : event \in x.collectors[c].listening}

\* The event does not reach the collector.
Missed(x, event, k) ==
  IF Hearing(x, event) = {} THEN x ELSE [x EXCEPT !.missed = @ \union {<<event, k>>}]

\* The collector that listens, if one does: it holds the marker, and no other
\* starts as long as there is one.
Called(x, event, k) ==
  IF Hearing(x, event) = {} THEN x
  ELSE Callback(x, CHOOSE c \in Hearing(x, event) : TRUE, event, k)

\* One emission, as far as the code gets: it returns to its caller from the
\* first listener that throws.
Emit(x, event, k, fault) ==
  IF x.thrown THEN Missed(x, event, k)
  ELSE IF fault = <<event, FALSE>> THEN [Missed(x, event, k) EXCEPT !.thrown = TRUE]
  ELSE IF fault = <<event, TRUE>> THEN [Called(x, event, k) EXCEPT !.thrown = TRUE]
  ELSE Called(x, event, k)

-----------------------------------------------------------------------------
\* The middleware.

\* _bodyInputState is "available".
Available ==
  ~input.terminal /\ ~input.ended /\ ~input.consumed /\ ~input.decoded

\* drain of the input: the queued chunk is emitted, heard or not.
Drain(x, fault) ==
  IF x.input.paused \/ ~x.input.flowing \/ x.input.queue = 0 THEN x
  ELSE Emit([x EXCEPT !.input.queue = 0, !.input.consumed = TRUE], "data",
            x.input.queue, fault)

\* Mutant: the pause is not lifted.
ResumedPaused(x, fault) == Drain([x EXCEPT !.input.flowing = TRUE], fault)

\* request.resume()
Resumed(x, fault) ==
  Drain([x EXCEPT !.input.paused = FALSE, !.input.flowing = TRUE], fault)

\* Registration where so many of the six are accepted: the request's table may
\* refuse one of the first five, the response's the last.  The one that is
\* refused throws, and leaves the input paused and the others registered.
Registered(x, c, room) ==
  [x EXCEPT !.input.paused = TRUE, !.input.flowing = TRUE, !.marker = c,
            !.collectors[c].listening = {EventOrder[i] : i \in 1..room},
            !.stranded = IF room < 5 THEN @ \union {c} ELSE @]

Marked == marker # None

\* json_collect
Collected(x, c, room, fault) ==
  IF ~Available THEN Answer(x, c, "request")
  ELSE IF Marked THEN Answer(x, c, "request")
  ELSE IF request.declared /\ Bytes(request.body) > Limit
  THEN Answer(Paused(x), c, "limit")
  ELSE IF room = 6 THEN Resumed(Registered(x, c, room), fault)
  ELSE Registered(x, c, room)

\* Mutant: repeated middleware parses again.
NeverDone == FALSE

AlreadyDone == marker = Done

\* JSON_MIDDLEWARE and FORM_MIDDLEWARE, for a body of their media type.
Middleware(room, fault) ==
  /\ calls < MaxCalls
  /\ calls' = calls + 1
  /\ Become(IF AlreadyDone THEN Answer(Now, calls + 1, "skipped")
            ELSE IF ~request.streamed THEN ParseBody(Now, calls + 1, AllChunks)
            ELSE Collected(Now, calls + 1, room, fault))
  /\ UNCHANGED <<request, responseEnded, closed>>

-----------------------------------------------------------------------------
\* The application between the steps of the collector.

Usable == request.streamed /\ ~input.terminal /\ ~input.ended

Pause ==
  /\ Usable
  /\ Become(Paused(Now))
  /\ UNCHANGED <<request, responseEnded, closed, calls>>

Resume(fault) ==
  /\ Usable
  /\ Become(Resumed(Now, fault))
  /\ UNCHANGED <<request, responseEnded, closed, calls>>

\* read() takes the queued chunk past every listener.
Read ==
  /\ Usable /\ input.queue # 0
  /\ Become(Missed([Now EXCEPT !.input.queue = 0, !.input.consumed = TRUE], "data",
                   input.queue))
  /\ UNCHANGED <<request, responseEnded, closed, calls>>

\* setEncoding() is refused once data has arrived.
SetEncoding ==
  /\ Usable /\ input.taken = 0
  /\ Become([Now EXCEPT !.input.decoded = TRUE])
  /\ UNCHANGED <<request, responseEnded, closed, calls>>

EndResponse ==
  /\ ~responseEnded
  /\ responseEnded' = TRUE
  /\ UNCHANGED <<request, input, marker, collectors, answers, parsed, stranded, missed,
                 closed, calls>>

-----------------------------------------------------------------------------
\* The host's events, as HttpInput accepts and announces them.

Open == request.streamed /\ ~input.ended /\ ~input.terminal

Data(fault) ==
  /\ Open /\ ~input.paused /\ input.queue = 0
  /\ input.taken < Len(request.body)
  /\ LET k == input.taken + 1
     IN  Become(Drain([Now EXCEPT !.input.queue = k, !.input.taken = k], fault))
  /\ UNCHANGED <<request, responseEnded, closed, calls>>

\* The end: what a decoder still holds is emitted as data, paused or not, and
\* `end` after it.
End(residue, fault) ==
  /\ Open /\ input.queue = 0
  /\ input.taken = Len(request.body)
  /\ residue => input.decoded /\ input.consumed
  /\ LET ended == [Now EXCEPT !.input.ended = TRUE]
         flushed == IF residue THEN Emit(ended, "data", 0, fault) ELSE ended
     IN  Become(Emit(flushed, "end", 0, fault))
  /\ UNCHANGED <<request, responseEnded, closed, calls>>

Terminated(x) == [x EXCEPT !.input.terminal = TRUE, !.input.queue = 0]

\* abort and error events
Fail(event, fault) ==
  /\ Open
  /\ Become(Emit(Terminated(Now), event, 0, fault))
  /\ UNCHANGED <<request, responseEnded, closed, calls>>

\* The close event: aborted if the body has no outcome, then both closes, as
\* far as no listener throws.
Close(fault) ==
  /\ ~closed
  /\ closed' = TRUE
  /\ LET gone == IF request.streamed THEN Terminated(Now) ELSE Now
         told == IF Open THEN Emit(gone, "aborted", 0, fault) ELSE gone
     IN  Become(Emit(Emit(told, "close", 0, fault), "responseClose", 0, fault))
  /\ UNCHANGED <<request, responseEnded, calls>>

HostNext ==
  \/ \E fault \in Faults({"data"}) : Data(fault)
  \/ \E residue \in BOOLEAN, fault \in Faults({"data", "end"}) : End(residue, fault)
  \/ \E event \in {"aborted", "error"} : \E fault \in Faults({event}) : Fail(event, fault)
  \/ \E fault \in Faults({"aborted", "close", "responseClose"}) : Close(fault)

Next ==
  \/ \E room \in Rooms, fault \in Faults({"data"}) : Middleware(room, fault)
  \/ \E fault \in Faults({"data"}) : Resume(fault)
  \/ Pause \/ Read \/ SetEncoding \/ EndResponse
  \/ HostNext

Spec == Init /\ [][Next]_vars

\* The host offers the body or closes the connection; an application that
\* pauses the input resumes it again and again.
FairSpec ==
  /\ Spec
  /\ WF_vars(\E residue \in BOOLEAN, fault \in Faults({"data", "end"}) : End(residue, fault))
  /\ SF_vars(\E fault \in Faults({"data"}) : Data(fault))
  /\ SF_vars(\E fault \in Faults({"data"}) : Resume(fault) /\ input.paused)

-----------------------------------------------------------------------------
\* Properties.

\* A call that has registered its callbacks and has not ended.
Collecting(c) == marker = c /\ answers[c] = <<>> /\ c \notin stranded

\* What is parsed is what reached the collector, all of it, in order, once, and
\* within the limit, and never the beginning of a body that was cut off: the
\* whole body but the chunks that a listener which threw, or read(), kept from
\* it.
ParsedIsWhole ==
  parsed # None =>
    /\ ToSet(parsed) = {k \in DOMAIN request.body : <<"data", k>> \notin missed}
    /\ \A i, j \in DOMAIN parsed : i < j => parsed[i] < parsed[j]
    /\ request.streamed => input.ended
    /\ Bytes(SizesOf(parsed)) <= Limit /\ request.valid

\* next is called at most once for each middleware call, and a body is parsed
\* once however often the middleware is repeated.
AnsweredOnce ==
  /\ \A c \in CallIds : Len(answers[c]) <= 1
  /\ Cardinality({c \in CallIds : answers[c] = <<"parsed">>}) <= 1

\* A collection that has ended, in whatever way and whoever throws, holds no
\* listener, no chunk and no marker.  The state keeps its type.
ReferencesCleared ==
  /\ TypeOK
  /\ \A c \in CallIds \ stranded : ~Collecting(c) => collectors[c] = Idle /\ marker # c

\* CONTRACT.md promises it of every call: once its listeners are removed, chunks
\* and marker are gone too.
AllReferencesCleared ==
  \A c \in CallIds :
    collectors[c].listening = {} => collectors[c].chunks = <<>> /\ marker # c

\* No collection answers once the input is terminated: abort, failure and
\* close cancel it.
NoAnswerOnTerminal ==
  [][\A c \in CallIds : marker = c /\ answers'[c] # answers[c] => ~input'.terminal]_vars

\* Every collection ends, with an answer or cancelled, unless a listener that
\* threw kept the outcome from it.
OutcomeMissed == \E m \in missed : m[1] # "data"

CollectionsEnd ==
  \A c \in CallIds : Collecting(c) ~> ~Collecting(c) \/ OutcomeMissed
=============================================================================
