-------------------------- MODULE ExpressPipeline --------------------------
(***************************************************************************)
(* How an Express application answers one request (modules/express/src):   *)
(* run_layers walks the layers of a container, call_handlers the handlers  *)
(* of a layer, and each handler decides through next(), a promise or an    *)
(* exception what happens then.  A handler that returns without calling    *)
(* next suspends the walk; the saved next resumes it later, from a timer   *)
(* or another callback, unless the response has been closed.               *)
(*                                                                         *)
(* The native call stack is explicit, because user code runs inside it: a  *)
(* frame walks layers, walks the handlers of one layer, waits for a        *)
(* handler ("user") or for a mounted router.  Paths and methods are left   *)
(* out: Layers holds the layers that match the request.  The raw response  *)
(* is HttpResponse reduced to what Express can observe of it: headers that *)
(* are committed, an end that was accepted, the close event.               *)
(***************************************************************************)
EXTENDS Naturals, FiniteSets, Sequences, SequencesExt, FiniteSetsExt

CONSTANTS
  Containers,   \* the application and its routers
  App,          \* the application
  Layers,       \* for each container, its matching layers
  Accepts,      \* whether the host may accept (TRUE) or refuse (FALSE) actions
  NextArgs,     \* what handlers pass to next: "none", "error", "route"
  Promises      \* handlers may return a promise

\* A layer has handlers, of which TRUE is an error handler (arity 4), or a router.
LayerTypes == [kind : {"middleware", "route"}, handlers : Seq(BOOLEAN)]
                \union [kind : {"router"}, router : Containers]

ASSUME ExpressPipelineAssumption ==
  /\ App \in Containers
  /\ DOMAIN Layers = Containers
  /\ \A c \in Containers : Layers[c] \in Seq(LayerTypes)
  /\ Accepts \subseteq BOOLEAN /\ Accepts # {}
  /\ NextArgs \subseteq {"none", "error", "route"} /\ "none" \in NextArgs
  /\ Promises \in BOOLEAN

VARIABLES
  stack,        \* native frames, outermost first
  nexts,        \* the next functions handed out, in order
  promises,     \* the unsettled promises handlers returned
  response,     \* _expressEnded, _expressStreaming, and the raw response
  trace         \* history: handlers called, errors raised, default answers

vars == <<stack, nexts, promises, response, trace>>

Kinds == {"layers", "handlers", "user", "router"}
\* A handler is its place: container, layer and index.
Handler == Containers \X Nat \X Nat
NoOwner == <<App, 0>>

\* Where a walk stands: the handlers from the next one on, the layer it goes on
\* with (NoOwner: none), the error handlers of a promise, the error it carries.
Walk(rest, owner, errors, error) ==
  [rest |-> rest, owner |-> owner, errors |-> errors, error |-> error]

Walks ==
  [rest : SUBSET Handler, owner : Containers \X Nat, errors : SUBSET Handler,
   error : BOOLEAN]

\* Frames, saved walks and the response are well formed; only a suspended next
\* holds a walk, and a stream has committed headers.
TypeOK ==
  /\ \A k \in DOMAIN stack :
        /\ stack[k].kind \in Kinds
        /\ stack[k].walk \in Walks
        /\ stack[k].next \in 0..Len(nexts)
  /\ \A n \in DOMAIN nexts :
        /\ nexts[n].called \in BOOLEAN
        /\ nexts[n].arg \in {"none", "error", "route"}
        /\ nexts[n].suspended \in BOOLEAN /\ nexts[n].closing \in BOOLEAN
        /\ nexts[n].frame \in Seq(Walks) /\ Len(nexts[n].frame) <= 1
        /\ nexts[n].frame # <<>> \/ nexts[n].closing => nexts[n].suspended
  /\ \A p \in promises : p.next \in DOMAIN nexts /\ p.errors \subseteq Handler
  /\ response \in [ended : BOOLEAN, streaming : BOOLEAN, committed : BOOLEAN,
                   closed : BOOLEAN]
  /\ response.streaming => response.committed

-----------------------------------------------------------------------------
\* The layers.

HandlersOf(c, l) == {<<c, l, i>> : i \in DOMAIN Layers[c][l].handlers}
IsErrorHandler(h) == Layers[h[1]][h[2]].handlers[h[3]]

\* The order in which the handlers of a container are tried
Before(p, q) == p[2] < q[2] \/ (p[2] = q[2] /\ p[3] < q[3])
First(handlers) == CHOOSE h \in handlers : \A g \in handlers : g = h \/ Before(h, g)

\* later_error_handlers: the error handlers of the middleware layers from l on.
LaterErrorHandlers(c, l) ==
  LET later == {k \in DOMAIN Layers[c] : k >= l /\ Layers[c][k].kind = "middleware"}
  IN  {h \in UNION {HandlersOf(c, k) : k \in later} : IsErrorHandler(h)}

Frame(kind, walk, next) == [kind |-> kind, walk |-> walk, next |-> next]
LayersFrame(owner, error) ==
  Frame("layers", Walk({}, owner, {}, error), 0)

Init ==
  /\ stack = <<LayersFrame(<<App, 1>>, FALSE)>>
  /\ nexts = <<>>
  /\ promises = {}
  /\ response = [ended |-> FALSE, streaming |-> FALSE, committed |-> FALSE,
                 closed |-> FALSE]
  /\ trace = <<>>

Top == Last(stack)
Native(kind) == stack # <<>> /\ Top.kind = kind
Replaced(frame) == Front(stack) \o <<frame>>

\* A native call returns: through every waiting router, to user code or to
\* the event that started it.
Returned ==
  LET callers == {k \in 1..Len(stack) - 1 : stack[k].kind = "user"}
  IN  SubSeq(stack, 1, Max(callers \union {0}))

\* A native call throws: a mounted router's layer catches it as an error.
Thrown ==
  LET rest == Front(stack)
  IN  IF rest # <<>> /\ Last(rest).kind = "router"
      THEN Front(rest) \o
             <<LayersFrame(<<Last(rest).walk.owner[1], Last(rest).walk.owner[2] + 1>>,
                           TRUE)>>
      ELSE rest

Catches == Front(stack) # <<>> /\ Last(Front(stack)).kind = "router"

Called(h) == [what |-> "call", at |-> h, catches |-> IsErrorHandler(h)]
Raised == [what |-> "raise"]
Default == [what |-> "default"]
Uncaught == [what |-> "uncaught"]    \* an exception leaves the application
RaisedIf(b) == IF b THEN <<Raised>> ELSE <<>>
Throw ==
  /\ stack' = Thrown
  /\ trace' = Append(trace, IF Catches THEN Raised ELSE Uncaught)

-----------------------------------------------------------------------------
\* The raw response, and Express's methods over it.

\* response_end_value over the raw end of a response Express may still end.
EndAccepted(ok) == ok /\ ~response.ended /\ ~response.closed
Ended == [response EXCEPT !.ended = TRUE, !.committed = TRUE]
\* Refused by the host, the raw end has still committed the headers.
Committed == [response EXCEPT !.committed = @ \/ ~response.closed]

\* Mutant: a default answer does not care what has been sent.
HeadersOpenAlways == TRUE

\* response_set: express_error_response and the 404 set headers first.
HeadersOpen == ~response.streaming /\ ~response.committed

\* express_error_response or the 404: a status, headers and a body.
SendDefault(ok) ==
  IF HeadersOpen /\ EndAccepted(ok)
  THEN /\ response' = Ended
       /\ stack' = Returned
       /\ trace' = Append(trace, Default)
  ELSE /\ response' = IF HeadersOpen THEN Committed ELSE response
       /\ Throw

-----------------------------------------------------------------------------
\* Native steps.

WalkingLayers(kind) ==
  LET owner == Top.walk.owner
  IN  /\ Native("layers")
      /\ owner[2] \in DOMAIN Layers[owner[1]]
      /\ Layers[owner[1]][owner[2]].kind = kind

ResumeLayer(c, l) == <<c, l + 1>>

\* A route is passed over while there is an error.
SkipRoute ==
  /\ WalkingLayers("route")
  /\ Top.walk.error
  /\ stack' = Replaced(LayersFrame(ResumeLayer(Top.walk.owner[1], Top.walk.owner[2]), TRUE))
  /\ UNCHANGED <<nexts, promises, response, trace>>

\* A middleware layer is entered with the error so far, a route without one.
EnterHandlers ==
  /\ WalkingLayers("middleware") \/ (WalkingLayers("route") /\ ~Top.walk.error)
  /\ LET c == Top.walk.owner[1]
         l == Top.walk.owner[2]
     IN  stack' = Replaced(Frame("handlers",
           Walk(HandlersOf(c, l), ResumeLayer(c, l),
                LaterErrorHandlers(c, l + 1), Top.walk.error), 0))
  /\ UNCHANGED <<nexts, promises, response, trace>>

\* A mounted router is called with the request and the response only.
EnterRouter ==
  /\ WalkingLayers("router")
  /\ LET router == Layers[Top.walk.owner[1]][Top.walk.owner[2]].router
     IN  stack' = Replaced([Top EXCEPT !.kind = "router"])
                    \o <<LayersFrame(<<router, 1>>, FALSE)>>
  /\ UNCHANGED <<nexts, promises, response, trace>>

\* finish_response
FinishLayers ==
  /\ Native("layers")
  /\ Top.walk.owner[2] \notin DOMAIN Layers[Top.walk.owner[1]]
  /\ IF response.ended \/ (response.streaming /\ ~Top.walk.error)
     THEN stack' = Returned /\ UNCHANGED <<response, trace>>
     ELSE \E ok \in Accepts : SendDefault(ok)
  /\ UNCHANGED <<nexts, promises>>

\* Mutant: handlers are called whatever they take.
AppliesAlways(h, error) == TRUE

\* call_handlers: error handlers take errors, the others requests.
Applies(h, error) == IsErrorHandler(h) = error

Applicable == {h \in Top.walk.rest : Applies(h, Top.walk.error)}

\* A walk at the handler it calls, and after it
From(walk, h) == [walk EXCEPT !.rest = {g \in @ : g = h \/ Before(h, g)}]
After(walk) == [walk EXCEPT !.rest = @ \ {First(@)}]

FreshNext == [called |-> FALSE, arg |-> "none", suspended |-> FALSE, frame |-> <<>>,
              closing |-> FALSE]

CallHandler ==
  /\ Native("handlers")
  /\ Applicable # {}
  /\ LET h == First(Applicable)
     IN  /\ stack' = Replaced(Frame("user", From(Top.walk, h), Len(nexts) + 1))
         /\ trace' = Append(trace, Called(h))
  /\ nexts' = Append(nexts, FreshNext)
  /\ UNCHANGED <<promises, response>>

\* HandlerFlow::Advance: on to the next layer, or, for the error handlers of a
\* rejected promise, an answer to what is left of the error.
HandlersDone ==
  /\ Native("handlers")
  /\ Applicable = {}
  /\ IF Top.walk.owner # NoOwner
     THEN /\ stack' = Replaced(LayersFrame(Top.walk.owner, Top.walk.error))
          /\ UNCHANGED <<response, trace>>
     ELSE IF Top.walk.error
     THEN \E ok \in Accepts : SendDefault(ok)
     ELSE stack' = Returned /\ UNCHANGED <<response, trace>>
  /\ UNCHANGED <<nexts, promises>>

NativeStep ==
  SkipRoute \/ EnterHandlers \/ EnterRouter \/ FinishLayers \/ CallHandler \/ HandlersDone

-----------------------------------------------------------------------------
\* User code: the innermost handler, or a callback some handler left behind.

UserCode == nexts # <<>> /\ (stack # <<>> => Top.kind = "user")

\* write, or flushHeaders, before writeHead or after it, or again after a start
\* the host refused.
Write ==
  /\ UserCode /\ ~response.ended /\ ~response.closed
  /\ \E ok \in Accepts :
        response' = [Committed EXCEPT !.streaming = @ \/ ok]
  /\ UNCHANGED <<stack, nexts, promises, trace>>

\* writeHead is the raw response's own; Express does not notice it.
WriteHead ==
  /\ UserCode /\ ~response.committed
  /\ response' = [response EXCEPT !.committed = TRUE]
  /\ UNCHANGED <<stack, nexts, promises, trace>>

End ==
  /\ UserCode /\ ~response.ended
  /\ \E ok \in Accepts : response' = IF EndAccepted(ok) THEN Ended ELSE Committed
  /\ UNCHANGED <<stack, nexts, promises, trace>>

\* Mutant: the saved walk stays with the next that resumed it.
KeptNext(next) == [next EXCEPT !.called = TRUE]

\* retire_next
Retired(next) == [next EXCEPT !.called = TRUE, !.suspended = FALSE, !.frame = <<>>,
                               !.closing = FALSE]

\* NEXT: only the first call counts; a suspended walk resumes inside of it.
CallNext(n, arg) ==
  /\ UserCode /\ ~nexts[n].called
  /\ LET next == [nexts[n] EXCEPT !.called = TRUE, !.arg = arg]
     IN  IF ~next.suspended
         THEN nexts' = [nexts EXCEPT ![n] = next] /\ UNCHANGED <<stack, trace>>
         ELSE /\ nexts' = [nexts EXCEPT ![n] = Retired(next)]
              /\ IF next.frame = <<>> THEN UNCHANGED <<stack, trace>>
                 ELSE /\ stack' = Append(stack, Frame("handlers",
                            [next.frame[1] EXCEPT !.error = arg # "none"], 0))
                      /\ trace' = trace \o RaisedIf(arg # "none")
  /\ UNCHANGED <<promises, response>>

Running == Native("user")
Current == nexts[Top.next]
Continued(error) ==
  stack' = Replaced(Frame("handlers", [After(Top.walk) EXCEPT !.error = error], 0))

\* The handler returns after next(), next(error) or next("route").
HandlerAdvances ==
  /\ Running
  /\ Current.called
  /\ IF Current.arg = "route"
     THEN Throw
     ELSE /\ Continued(Current.arg = "error")
          /\ trace' = trace \o RaisedIf(Current.arg = "error")
  /\ UNCHANGED <<nexts, promises, response>>

\* Mutant: the frame remembers the handler that suspended it.
SavedSame(walk) == <<walk>>

\* Mutant: nothing is saved for the last handler of a layer.
SavedUnlessLast(walk) ==
  IF walk.owner = NoOwner \/ After(walk).rest = {} THEN <<>>
  ELSE <<[After(walk) EXCEPT !.error = FALSE]>>

\* The saved walk goes on after the handler; error walks are not saved whole.
Saved(walk) ==
  IF walk.owner = NoOwner THEN <<>>
  ELSE <<[After(walk) EXCEPT !.error = FALSE]>>

\* The handler returns without next(): the walk is suspended, if not answered.
HandlerStops ==
  /\ Running
  /\ ~Current.called
  /\ stack' = Returned
  /\ nexts' = IF response.ended THEN nexts
              ELSE [nexts EXCEPT ![Top.next] =
                      [@ EXCEPT !.suspended = TRUE, !.frame = Saved(Top.walk)]]
  /\ UNCHANGED <<promises, response, trace>>

HandlerThrows ==
  /\ Running
  /\ Continued(TRUE)
  /\ trace' = Append(trace, Raised)
  /\ UNCHANGED <<nexts, promises, response>>

\* A thenable result: the walk stops whether or not next() was called.
HandlerReturnsPromise ==
  /\ Running
  /\ Promises
  /\ stack' = Returned
  /\ promises' = promises \union {[next |-> Top.next, errors |-> Top.walk.errors]}
  /\ UNCHANGED <<nexts, response, trace>>

\* ASYNC_REJECT
Reject(p) ==
  /\ stack = <<>>
  /\ promises' = promises \ {p}
  /\ IF response.ended THEN UNCHANGED <<stack, trace>>
     ELSE /\ stack' = <<Frame("handlers", Walk(p.errors, NoOwner, {}, TRUE), 0)>>
          /\ trace' = Append(trace, Raised)
  /\ UNCHANGED <<nexts, response>>

Resolve(p) ==
  /\ stack = <<>>
  /\ promises' = promises \ {p}
  /\ UNCHANGED <<stack, nexts, response, trace>>

\* The raw response's close event: each suspended next listens to it, and so may
\* the application, which then runs before, between or after them.
Close ==
  /\ stack = <<>> /\ ~response.closed
  /\ response' = [response EXCEPT !.closed = TRUE]
  /\ nexts' = [n \in DOMAIN nexts |-> [nexts[n] EXCEPT !.closing = nexts[n].suspended]]
  /\ UNCHANGED <<stack, promises, trace>>

\* NEXT_CLOSE, in the order in which the nexts were suspended; never, if a
\* listener called earlier throws.
NextClose(n) ==
  /\ stack = <<>> /\ nexts[n].closing
  /\ \A m \in 1..n - 1 : ~nexts[m].closing
  /\ nexts' = [nexts EXCEPT ![n] = Retired(@)]
  /\ UNCHANGED <<stack, promises, response, trace>>

Handling == HandlerAdvances \/ HandlerStops \/ HandlerThrows \/ HandlerReturnsPromise

Next ==
  \/ NativeStep \/ Handling \/ Write \/ WriteHead \/ End \/ Close
  \/ \E n \in DOMAIN nexts, arg \in NextArgs : CallNext(n, arg)
  \/ \E n \in DOMAIN nexts : NextClose(n)
  \/ \E p \in promises : Reject(p) \/ Resolve(p)

Spec == Init /\ [][Next]_vars

\* Native steps run to the end, handlers return, promises settle, and whoever
\* holds a next that has not been called calls it.
FairSpec ==
  /\ Spec
  /\ WF_vars(NativeStep)
  /\ WF_vars(Handling)
  /\ WF_vars(\E p \in promises : Reject(p) \/ Resolve(p))
  /\ WF_vars(stack = <<>> /\ \E n \in DOMAIN nexts : CallNext(n, "none"))

-----------------------------------------------------------------------------
\* Properties.

\* Saved continuations resume the remaining handlers once: whatever is called
\* when, the handlers of a container run in order and none runs twice.
HandlersInOrder ==
  \A i, j \in DOMAIN trace :
     /\ i < j
     /\ trace[i].what = "call" /\ trace[j].what = "call"
     /\ trace[i].at[1] = trace[j].at[1]
     => Before(trace[i].at, trace[j].at)

\* A request is walked by one party at a time: a walk in progress, a saved
\* walk that can be resumed, or a promise whose rejection starts one.  The
\* state keeps its type.
OneWalk ==
  LET saved == {n \in DOMAIN nexts : nexts[n].frame # <<>>}
  IN  /\ TypeOK
      /\ Cardinality(saved) + Cardinality(promises) + (IF stack = <<>> THEN 0 ELSE 1) <= 1

\* An error that a handler raises is given to an error handler or answered;
\* no ordinary handler runs as if it had not happened.
ErrorsReachErrorHandlers ==
  \A i \in 1..Len(trace) - 1 :
     trace[i].what = "raise" /\ trace[i+1].what = "call" => trace[i+1].catches

\* The call after an error raised in one container enters a router mounted later.
EntersRouter(i) ==
  /\ trace[i + 1].at[1] # App
  /\ \A j \in 1..i : trace[j].what = "call" => trace[j].at[1] # trace[i + 1].at[1]

\* The same except for the handlers a router mounted after the error starts
\* with: an error raised before any other handler is not lost on the way.
ErrorsAreHandled ==
  \A i \in 1..Len(trace) - 1 :
     trace[i].what = "raise" /\ trace[i + 1].what = "call"
       => trace[i + 1].catches \/ EntersRouter(i)

\* Express answers by itself (404, default error) only when no handler is left
\* that could still answer, and never over a response that has begun.
DefaultIsLast ==
  [][Len(trace') > Len(trace) /\ Last(trace').what = "default"
     => /\ promises = {} /\ \A n \in DOMAIN nexts : nexts[n].frame = <<>>
        /\ ~response.committed]_vars

\* If every handler that does not answer calls next in the end, the response
\* begins (or the client is gone).
RequestIsAnswered == <>(response.committed \/ response.closed)

\* The same for applications whose handlers may also return promises or fail
\* altogether, up to the moment when one does: from then on the handler alone, or
\* whoever gets the exception, is to answer.
AnsweredOrAwaited ==
  <>(\/ response.committed \/ response.closed
     \/ promises # {}
     \/ Contains(trace, Uncaught))
=============================================================================
