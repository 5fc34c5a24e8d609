# Verification of jjs-modules

TLA+ specifications of the native modules that JJS guests import (`node:events`,
`node:http`, `express`, the server-sent-events pipes of the Hazelcast module, and
so on), the TLC configurations that check them on small instances, and proofs
checked by TLAPS. Paths below are relative to the repository.

## 1. The system

A JJS guest is a JavaScript program in a virtual machine. A *native module*
(`modules/*/src`) is Rust code behind `require(...)`. It implements four entry
points: `instantiate` builds the exports, `call` runs a native function, `resume`
continues after a host request that completed later, `event` receives an event
from the host. Its only state is what it keeps in *private slots* and properties
of guest objects. Through the module API it reads and writes those slots, calls
guest functions (`call` lets an exception through, `try_call` hands it back), and
sends requests to the host.

Everything in one VM runs on one thread, but almost nothing is sequential in the
useful sense:

* calling a guest function runs arbitrary code, which calls the module again
  before the native function that called it goes on (reentrancy);
* a host request may complete later, and other callbacks run in between;
* host events (body chunks, close, drain, a readable subscription) arrive between
  any two calls;
* a guest function may throw, and the host may refuse a request, at every one of
  these places, which abandons the rest of the interrupted code.

### Components, state and operations

| component | state | operations | what is hard | what makes it correct |
|---|---|---|---|---|
| node-events | one flat array of records (event, listener, once, fired, order) per emitter | on, once, off, removeAllListeners, emit, reads | listeners change the table while a dispatch loop walks it | the behaviour of per-name listener lists with a snapshot per emit |
| node-http request input (`input.rs`) | slots QUEUE, PAUSED, FLOWING, EOF, ENDED, PENDING, TERMINAL, CONSUMED, NEXT | pause, resume, read, setEncoding, on; data, end, abort, error, close from the host | one chunk of credit; listeners that call back; exceptions | no byte lost, repeated or reordered; one outcome |
| node-http response contract (`HttpResponseStreamV2`) | lifecycle, head, next sequence number | start, write, end, set head, deliver event | any order of methods and host events | one start, writes, one end; each number once |
| node-http response object | statusCode, headers, committed head, lifecycle, sequence | writeHead, setHeader, flushHeaders, write, end | refused actions and retries; HEAD, 204, 304 | only the committed head leaves; no body where none is allowed |
| express pipeline | native stack, saved continuations, response flags | run_layers, call_handlers, next, promise rejections, default answers | next called now, later, twice, never, after close; promises; routers | each handler once and in order; errors reach error handlers; an answer in the end |
| express body collector (`json.rs`) | collector object, marker on the request, six listeners | middleware call, six callbacks, cleanup | limits, aborts and closes during collection, repeated middleware, other listeners that throw | the parsed body is the whole body; one answer; nothing retained |
| hazelcast SSE pipes | ACTIVE, PENDING, CLOSED, MIN_VERSION, timer, subscription | pipeState, pipeMap, readable, drain, heartbeat, close, read completions | concurrent reads, overflow, snapshot against events, a close answered later | versions increase; gaps are announced; no signal is lost; a closed pipe stays quiet |
| express-session | hook per middleware call: ORIGINAL, TOKEN, COMMITTED, DESTROYED, PENDING_COOKIE; `_expressRawEnd` | load, commit at end, destroy, regenerate | host failures between the steps of end; stale session objects; two middleware that load one session | what the response says is what the store holds |
| better-sqlite3, sqlite3 | HANDLE, OWNER, inTransaction, open, PLUCK | databases, statements, transaction functions, callbacks | refused BEGIN, COMMIT, ROLLBACK; callbacks that close the database, nest transactions or throw | the outcome of a transaction function tells what became of its writes; no handle outlives what it names |
| node:fs | one state vector per request in flight | nine operations in a synchronous, a callback and a promise form | answers in any order, read by position | one file system behind three forms |
| tps-rate-limit | a limiter's name | open, consume, middleware | the decision comes back after a yield | only charged requests are handled |
| node:url | DATA, OWNER | URL setters, searchParams calls, url.parse | two objects over one text | parts change independently; href is stable |
| node:path, node:querystring, node:buffer, tps-schedule, cookie-parser, express routes and forms | none | pure functions | boundaries of text, bytes and integers | agreement with a reference definition and with each other |
| service, fetch, notify, secrets, evidence, nodemailer | none, or a name | one host request per call | - | arguments are passed on |
| text, json-schema, resvg, crypto | none | conversions of one call's arguments | - | those of the crates they wrap |

How they interact: Express decorates the node-http response, replaces its `end`,
`write` and `flushHeaders` by methods that go through `_expressRaw*`, and
registers a close listener. The body collector is a consumer of the request
input and calls the pipeline's `next`. The session module replaces
`_expressRawEnd`. The rate limiter's middleware is a handler of the pipeline that
calls `next` after its yield. `input.rs` decodes with the decoder of node-buffer.
The SSE pipe writes to a response and listens to its drain and
close events. Everything that emits uses the node-events table.

The hazards of this code, each with its line and the properties that would notice
it going wrong, are listed in `PROJECT.json`.

## 2. Modules

| module | models | correspondence |
|---|---|---|
| `EventEmitter` | what an emitter promises (abstract) | one list of registrations per name; an emit calls the list of its moment |
| `NodeEvents` | `node-events/src/lib.rs` | `table` is the flat array; `stack` the nested dispatch loops with their snapshots; one action per method |
| `Selections` | what the code and the emitter leave out of an array | the filter as a recursive function, which proofs can unfold |
| `HttpInput` | `node-http/src/input.rs`, close and listener handling in `lib.rs` | `req` holds the private slots under their names; `calls` the interrupted emissions with the code that follows them; `Data`, `End`, `Fail`, `Close` are the host's events |
| `HttpWire` | what an HTTP stream is (abstract) | start, chunks, end |
| `HttpResponseStream` | `HttpResponseStreamV2` | one action per method, one for `deliver_event` |
| `HttpResponse` | the response object | one action per method, each with the host accepting or refusing |
| `ExpressPipeline` | `express/src/lib.rs`, `suspend_next` and `retire_next` of `json.rs` | `stack` is the native call stack; `nexts` the continuations handed out; `trace` what ran |
| `ExpressSession` | `express-session/src/lib.rs` | `hooks` holds the private slots of the hooks; `End` runs the chain (`Chained`); `store` is the host's |
| `BodyCollector` | `express/src/json.rs` and the middleware that starts it | `collectors` hold listeners and chunks; `input` is HttpInput as a consumer sees it; `Emit` is one emission, with a listener of the application that may throw before the collector's or after it |
| `SsePipe` | the pipes of `hazelcast/src/lib.rs` | `pipe` holds the slots; `requests` the reads in flight, `closing` the close request and its answer; `subscription` is the host's queue |
| `Sqlite` | `better-sqlite3/src/lib.rs`, `sqlite3/src/lib.rs` | `stack` is the stack of callbacks; `handles` the HANDLE slots; `live`, `tx`, `pending`, `durable` are the host's |
| `NodeFs` | `node-fs/src/lib.rs` | `Kept` is the state vector, `Resume` reads it back; the disk is the host's |
| `RateLimit` | `rate-limit/src/lib.rs` | `Ask` yields, `Decide` is the host, `Resumed` the continuation |
| `UrlParts` | what a URL and its searchParams promise (abstract) | a path, a list of pairs and a fragment |
| `NodeUrl` | URL and URLSearchParams of `node-url/src/lib.rs` | `data` is the text in DATA, `owned` whether OWNER is a URL |
| `LegacyUrl` | `url.parse` of the same file | functions over text |
| `NodePath` | `node-path/src/lib.rs` | functions over text |
| `FormText` | `node-querystring`, `form.rs`, `query_object` and `percent_decode` of express, `pairs` and `serialize` of node-url | the four readers and both writers of `name=value` text |
| `RouteMatch` | matching, mounting and methods of `express/src/lib.rs` | functions over text |
| `Cookies` | `cookie-parser/src/lib.rs` | functions over text |
| `NodeBuffer` | `node-buffer/src/lib.rs`, the residue of `input.rs` | functions over byte classes |
| `Durations` | `schedule/src/lib.rs`, `parse_json_limit` of express | functions over digits, with machine words |
| `Text` | the `str` operations the text modules share | |
| `HttpInputProofs`, `BodyCollectorProofs`, `HttpResponseProofs`, `SqliteProofs`, `ExpressPipelineProofs`, `ExpressSessionProofs`, `SsePipeProofs`; `SmallPartsProofs` for `HttpResponseStream`, `RateLimit`, `NodeFs` and `NodeEvents` | | proofs |
| `MC*` | | values for the constants and restricted programs for TLC; `MCSmallParts` puts the small parts side by side |

Two conventions hold throughout. A native function is one step up to the place
where it runs guest code, and what it does afterwards is another step, so that
every reentrant call is an interleaving. Names of slots and functions are the
code's names. Definitions marked *Mutant* are plausible mistakes; no behaviour
uses them, and each is there to show that a property can be violated by one.

What is outside `modules/*/src` is external: the module API, the host (its state
store, HTTP connection, database) and the guest. They are modelled from how the
code uses them and left as free as that use allows: the host may refuse any
action and may send events late or not at all, guest code may call any method at
any time, throw, or never return to the module.

Data is reduced to what the properties tell apart. A body chunk is whether it
completes text and whether it leaves an incomplete character behind
(`HttpInput`), or its size (`BodyCollector`). An SSE event is its version. A
handler is its place in the application and whether it takes an error. Text is a
sequence of the few symbols its reader tells apart, an escape being one symbol;
a byte of text is its UTF-8 class. A file's bytes are one content.

## 3. Runs

| run | question | bounds, and why they are enough |
|---|---|---|
| `HttpInput` | is the body handed over whole and in order, with one outcome, and is there always an outcome? | three chunks of every text shape (a residue can pass through a chunk that is only residue), two listeners |
| `HttpInputClose` | do both close events always fire? (section 6) | one chunk, one listener |
| `HttpResponse` | does only the committed head leave, with no forbidden body, as one stream? | two final statuses (one bodiless), one that is not final, a framing and an ordinary header, six numbers: a refused start, a change of head and a retry fit in |
| `SsePipe` | versions, gaps and closes for state and map pipes, and does every version, or a reset written after it, arrive? | three versions, batches of up to two cut anywhere, one stall. A queue of two is read in parts and overlaps a drain; a queue of one overflows before, during and after a read with a version still to come; the host answers the close request, granted or refused, before or after the reads |
| `ExpressPipeline` | handlers, errors, default answers, and is every request answered or awaited? | four layers, one of them a mounted router, six handlers, ordinary and error handlers before and after each other |
| `ExpressMountedError`, `ExpressAsyncNext` | two promises of the contract that the code does not keep (section 6) | three and four layers |
| `BodyCollector` | limits, cleanup, answers, and does every collection end? | chunks of one or two bytes around a limit of three, three chunks, two middleware calls; all six listeners accepted, or the last, or the third refused; a listener that throws in any emission |
| `BodyCollectorLeftovers` | are all references cleared? (section 6) | the same |
| `ExpressSession` | what the end stores and sends, and what destroy and regenerate undo | two hooks, three ids, three session objects, one value besides the empty one: both hooks load one session or each its own, a stale object of each can come back, and a hook can be renewed behind another. One id is presented in cookies: the session of a second cookie differs from a fresh one only by the data it starts with |
| `Sqlite` | do outcomes, flag and handles tell the truth about the host? | two callbacks on the stack, two transaction calls, two writes, two rows: a transaction or a close inside a callback, a call after a refused COMMIT or ROLLBACK, writes of both calls. The proofs lift all four bounds |
| `SmallParts` | ten questions about the small parts, each explored by itself from its own initial states | listener table: two names (one integer-like), two callbacks, three entries, two nested emits: re-registration of a name, removal of the running listener and of one not reached yet, and recursion all occur. Response struct: seven numbers, two heads. URL: two names, one value, three texts, three pairs. Files: two paths, two calls in flight. Limiter: two requests of weight two around a limit of three, two windows. Text and bytes: every input over the alphabets of `MCSmallParts`, up to seven symbols for paths, five for UTF-8 (a character cut twice, or cut and then broken), cookies, routes and digits, four for forms, bytes and legacy addresses. The file that is there first is a directory or has contents; the other is missing |

`CHECK_DEADLOCK FALSE` is given where the program really may stop: the bounded
counters are used up, or the response is over.

### Fairness

* `HttpInput!Fairness`: the host offers what is left of the body whenever the
  request has credit (strong fairness of `Data`, because a consumer that pauses
  takes the credit away and gives it back), listeners return, and the consumer
  resumes what it paused and reads what is queued. The code never schedules
  anything by itself; without a consumer nothing moves, and none is claimed to.
* `SsePipe!Fairness`: the host signals, answers every read and snapshot and
  completes it; drain follows a full write. The answer to a close request is
  promised by nobody.
* `ExpressPipeline!FairSpec`: native code goes on, handlers return in the end, and
  a suspended `next` is called while nothing else runs, promises settle.
  `AnsweredOrAwaited` claims nothing once a handler has returned one.
* `BodyCollector!FairSpec`: as for the input; a paused request is resumed
  infinitely often (strong, since the application may pause it again). A listener
  may still throw in each of these steps, and where it keeps the outcome from the
  collector `CollectionsEnd` claims nothing.

The other runs claim no liveness and assume no fairness: SQLite calls are
synchronous, and nothing but the application moves a session, a file or a limiter.
Liveness is only model-checked.

## 4. Properties

Each property is stated in a comment before its definition. Where a
component has a type invariant, it is a conjunct of one of them. The ones
that carry the weight:

* `NodeEvents!ImplementsEmitter`: refinement. The table with its nested loops
  implements `EventEmitter` under the mapping that projects it on each name.
* `HttpInput!PiecesKeptInOrder`: handed over, undecoded and queued pieces are, in
  this order, exactly the pieces received.
* `HttpResponse!ImplementsWire`, `HttpResponseStream!ImplementsWire`: refinement.
  What either of them sends is a stream in the sense of `HttpWire`.
* `HttpResponse!OneHead`, `NumbersUsedOnce`: over every order of calls, refusals
  and retries.
* `SsePipe!GapsAreAnnounced`, `VersionsIncrease`, `EveryEventArrives`: between
  concurrent reads, overflow resets and the snapshot. A reset stands for the
  versions published when it is written (`upto`), because the client drops what it
  has and loads the state anew, and for none after it: a pipe that stops after its
  first reset violates `EveryEventArrives`. It asks that a pipe behind the last
  version catches up, since versions are bounded. That a reset also clears PENDING is
  then harmless: the signal it forgets was for versions the reset stands for.
  `QuietAfterClose`: onClose runs user code on a closed pipe, perhaps long after the
  close, and the pipe neither writes, reads nor calls it a second time.
* `ExpressPipeline!OneWalk`: at any moment at most one walk over the handlers can
  go on: one native frame or one suspended `next`, never two.
* `ExpressPipeline!ErrorsAreHandled`, `AnsweredOrAwaited`: the two promises of the
  contract that the code breaks (section 6), with exactly the exceptions that
  break them named: entering a router, and a handler that returned a promise.
* `BodyCollector!ParsedIsWhole`, `AnsweredOnce`, `ReferencesCleared`,
  `NoAnswerOnTerminal`: whatever other listeners of the same emissions do. What is
  parsed is every chunk but those a throwing listener or `read()` kept from the
  collector; the history variable `missed` says which.
* `ExpressSession!EndedIsStored`, `CookiesDelivered`: what request.session holds at
  the end is what the next request loads, and every hook's last cookie is sent,
  through refused ends, renewed sessions, chained hooks and hooks that share a
  session. `RetiredStayGone`, `SettledByEnd`: with the one exception the code has,
  that another hook holds the same session and has not destroyed or settled it.
* `Sqlite!OutcomeTellsWrites`: a transaction function that returned has made its
  writes durable, one that threw its callback's error has undone them; excepted
  are calls whose transaction the script's own SQL, a failed write or a close
  ended. `LeftOpenShows`: a transaction left open by a refused COMMIT shows in
  `inTransaction`. `HandlesAreLive`: also inside the callbacks of close.
* `NodeFs!OneFileSystem`: what a call tells is what its operation found, whatever
  its form, however many answers are in flight and in whatever order they come.
* `RateLimit!WithinLimit`: handlers that ran stay within the limits of the windows
  so far, although the decision comes back late.
* `NodeUrl!ImplementsParts`: refinement. One text read and written by two objects
  implements three independent parts.
* `LocationsKeepTheirPlace`, `ParametersAgree`, `RoutesAgree`,
  `ConversionsAreExact`: the algorithms against reference definitions: a walk
  through directories for paths; each reader of `name=value` text against the
  others and against the writers; a mounted route against the joined one; the
  decoding of a body in chunks against that of its bytes at once; durations
  against unbounded arithmetic.

## 5. Proofs

TLAPS checks, for every value of the constants:

* `SmallPartsProofs`, for `HttpResponseStream`: type correctness, `WellFormed`, `NumbersUsedOnce`,
  `HeadCommitted`, and `StreamImplementsWire`. The invariant conjoins the types
  with three facts about the actions sent so far: the number of the last one is
  below `sequence`, the actions match the lifecycle (nothing sent while buffered,
  a start first while streaming, an end last once ended), and the start carries
  the committed head. `NumbersUsedOnce` alone is not inductive: it needs the link
  between `sequence` and the actions.
* `HttpResponseProofs`: type correctness, `OneHead`, `FinalHeads`,
  `NoForbiddenBytes`, `NoForbiddenFraming`, `NumbersUsedOnce`, and
  `ResponseImplementsWire`. The invariant adds that a committed status is final,
  that the committed headers carry no framing when the status forbids it, and
  what was sent in each lifecycle. It is needed because a refused start leaves a
  committed head behind, so the lifecycle alone does not say whether later
  assignments to `statusCode` matter.
* `HttpInputProofs`: type correctness, `LifecycleOrdered`, `NoTailIsParsed`,
  `NoDataAfterOutcome` and `PiecesKeptInOrder`, for bodies of any length and listeners
  nested to any depth. The invariant of the first four says that the end is handled as soon as it is known (`eof` and
  `ended` are equal between steps), that an outcome leaves no chunk behind and
  nothing is announced before one, that what was handed over or half decoded was
  marked consumed, and that on the stack of interrupted emissions only the
  outermost still has a lifecycle event to announce, of a higher rank than those in
  the log. The last is what the order rests on: a host event starts only when no
  emission is under way, so no nested one can bring a second close or end.
  `PiecesKeptInOrder` has an invariant of its own (`PiecesInv`): what was handed over,
  followed by what is half decoded and what is queued, equals what the accepted
  chunks brought, or begins the whole body once the request is terminal; and only
  UTF-8 text is half decoded, in an encoding chosen before the first chunk. What
  chunks bring is a recursive function of their number, so its existence and
  uniqueness are proved first, by the least number of chunks at which it fails.
* `BodyCollectorProofs`: type correctness, `ParsedIsWhole`, `AnsweredOnce`,
  `ReferencesCleared` and `NoAnswerOnTerminal`, for every body, limit, number of
  middleware calls, number of listeners accepted, and listeners that throw. The
  invariant (`Good`) says that only the call that holds the marker has listeners or
  chunks, and all its callbacks unless its registration was refused; that a collector
  which listens has kept exactly the chunks that left the queue and are not in
  `missed`; that nothing has left the queue before the input is consumed or terminal;
  that the call that holds the marker has not been answered; and that whoever parses
  leaves the marker that turns the others away. The callbacks are functions on
  states, so it is a predicate on a state, on the number of calls so far and on the
  chunks that have left the queue: an emission announces a chunk that has, or an
  outcome, and `Close` chains three, each of which may stop the others.
* `SmallPartsProofs`, for `RateLimit`: `WithinLimit`. It is not inductive: a handler runs when the
  decision comes back, perhaps windows later, so the invariant counts the requests
  that were charged, and bounds them by the limits of the windows before the
  current one and what the current one has spent.
* `SmallPartsProofs`, for `NodeFs`: `OneFileSystem`, for all paths and contents and
  any number of calls in flight. The invariant says that a call that waits has the
  request of its own operation, form and arguments, and that its answer, once it has
  one, is the host's on the files recorded with it. The rest is one lemma for each
  operation, that its request does what the operation does and that the state vector
  gives back the path and the encoding, and one for each way to tell an outcome.
* `SmallPartsProofs`, for `NodeEvents`: `TableImplementsEmitter`, the refinement of
  `EventEmitter`, for all names, listeners, limits and depths of nested emissions. It
  rests on `NodeEventsAssumption`, which says that names that are array indices have
  different values: the code takes a name for an index only in canonical decimal
  (`lib.rs:222-225`). No invariant is checked beside the refinement, but
  the mapping is a function of the table only where the table is in order, so one is
  needed (`EmitterInv`):
  - `TableInv`: the table and the snapshots of running emissions list identities in
    the order they were registered, an emission stands inside its snapshot, only
    once entries are fired, and registered entries have the same order number exactly
    when they have the same name. The code never compares names to sort them;
    the last conjunct is why sorting by order number lists each name once.
  - `NamesInv`: `eventNames()` lists the present names by their keys. A name that
    leaves and returns gets a number above those still in the table, and must come
    last, as a property that is deleted and set again does.

  Both sides filter, append to and take from arrays, and nothing but the resulting
  order matters. So a sequence is read as the list of a set in a strict order
  (`Lists`); two lists of one set in one order are equal (`SameList`), and each
  operation on sequences has a lemma that says what it makes of such lists. Each step
  is then a matter of sets: which entries are registered, due or present, and in
  which order. That the latest match in the flat table is the latest in its name's
  list, and the first callable entry ahead is the first live one pending, follow from
  the same view. What `Selected` computes is proved by the least length at which it
  would fail.
* `SqliteProofs`: `HandlesAreLive`, `LeftOpenShows` and `OutcomeTellsWrites`, for
  every depth of nesting and every number of calls. The invariant adds that a
  statement object has a database object, that only an open database has a
  transaction, that the calls on the stack are the running ones in the order they
  began, and that of the running calls whose transaction nothing else ended only
  the latest still has it, with all its writes and no other's pending. Without
  the last two the properties say nothing about a call that is still running when
  another callback ends a transaction.
* `ExpressPipelineProofs`: type correctness and `OneWalk`, `DefaultIsLast`, for
  every application, and `HandlersInOrder` and `ErrorsAreHandled` for applications
  that mount a router in one place (`MountedOnce`), with any number of layers,
  handlers and nested routers. The second two do need that hypothesis: a router
  mounted twice is walked twice, and its second walk starts over. Each pair has an
  inductive invariant.
  - `PipelineInv`: the native stack is a chain of waiting routers with one walk on
    top; a walk's handlers belong to the layer before the one it goes on with, and
    its error handlers come later; a walk under way, a saved walk and a promise
    exclude each other. Without the shape of the stack the last is not inductive: a
    native return would leave another walk behind.
  - `OrderInv`: for some set of *entered* containers, every call is in an entered
    container, whoever holds a router has been entered before it, and every frame,
    saved walk and promise stands after the calls of its container and the routers
    entered from it. The set is needed because a router that was entered and
    called no handler leaves no mark in the trace, and without it nothing says that
    it is not entered a second time. For errors it adds that an error raised last
    is either carried by the walk on top or that walk is in a router from which
    nothing has been called.

  That a walk's next handler exists and is the first of the rest is a lemma over
  pairs of indices, by the well-founded order on the naturals.
* `ExpressSessionProofs`: `EndedIsStored`, `RetiredStayGone`, `CookiesDelivered` and
  `SettledByEnd`, for any number of middleware, sessions and session objects, several
  hooks on one session, and any number of ends that fail. The invariant
  (`SessionInv`) adds that a hook's session is in use and that a hook which retired
  its own session is destroyed, that ids not in use have nothing stored, that every
  object belongs to a hook or to none, that committed hooks have sent their cookie,
  and `AsLoaded`: a session nobody retired is stored as a hook that still has it
  to commit loaded it, or the response is past help (`Blocked`): some hook has
  committed, or has stored its session and cannot send its cookie, which streaming
  refuses for good. The last is what `EndedIsStored` rests on: a hook stores only what
  differs from what it loaded.
  The chain of hooks is a recursive function; that it exists, and what holds after
  its last k hooks (`Reached`), is proved by the least k at which it would fail.

* `SsePipeProofs`: type correctness and `QuietAfterClose` for every host, whenever and
  however it answers the close request, and
  `VersionsIncrease` and `GapsAreAnnounced` for a host that answers the requests of a
  pipe in the order they were made (`InOrder`, as in the checked run); for every
  number of versions, stalls and reads in flight, every size of queue and batch, with
  a snapshot first or without one. The code relies on that order: a drain starts a
  read while another is under way, and a completion writes what it was given without
  looking back. Neither property is inductive, since they speak of frames only. The
  invariant (`OrderInv`) follows what is under way, from the answered requests in
  their order through the queue of the subscription to the version published next:
  - `Streamed`: their versions increase in this order, and each is newer than every
    numbered frame or will be filtered by `minVersion`;
  - `Covered`: unless an exception was raised or the pipe is closed, each that
    passes the filter continues what the client knows, or follows another one
    under way, or is the first behind an answer that overflowed or behind a reset
    just written;
  - `SnapshotFirst`, `InTurns`, `Bounded`, `Unopened`: the snapshot is asked for
    before the first read and completes before anything else is written, answers
    come in turn, and nothing is newer than what was published.

  `Covered` cannot do with fewer alternatives: an overflow empties the queue while
  older answers are still to be written, so the event behind the gap follows
  neither the client's version nor an event under way. That the filter keeps the
  order and leaves no gap inside what it keeps (`KeptEvents`) is proved of the
  recursive function `Newer` by the least length at which it would fail.

They assume the named assumptions in the modules that declare the constants, and
nothing but the hypotheses named above; every run that extends such a module evaluates them. All
three refinements proved (two of `HttpWire`, one of `EventEmitter`) map each initial
state to an initial state of the abstract module and each step to a step of it or to
a stutter.

Only model-checked: liveness under fairness, which is out of the prover's reach
together with ENABLED (`EveryEventArrives`, `BodyEnds`, `AnsweredOrAwaited` and
`CollectionsEnd`); and the algorithms over text and bytes, whose correctness for every
input is an induction over data with an operator as a parameter. These are
`LocationsKeepTheirPlace`, `ParametersAgree`, `RoutesAgree`, `ConversionsAreExact` and
`NodeUrl!ImplementsParts`.

## 6. Where code and documents disagree

* `HttpInputClose`: a listener that throws during close keeps the later close
  events from firing.
* `ExpressMountedError`: an error given to `next` before a mounted router is
  forgotten; the router's ordinary handlers run.
* `ExpressAsyncNext`: `next()` called by a handler that returns a promise resumes
  nothing.
* `BodyCollectorLeftovers`: when one of the collector's first five registrations
  meets the listener limit, nothing is undone, and its cleanup, once an event
  reaches a listener that is there, throws at a callback that was never made:
  chunks, marker and saved handles stay.

The runs of these names produce the counterexamples; `PROJECT.json` quotes the
documents. More observations, which contradict no document, have no run of their own:

* A `data` listener that is refused at the listener limit has already switched
  the request to flowing mode (`HttpInput!OnDataRejected`), and flowing mode
  outlives the last `data` listener: later chunks are emitted to nobody instead of
  waiting for `read()` (`Off`, then `Data`).
* The emissions of the request stop at the first listener that throws. A chunk
  hidden from the body collector in this way, or taken by `read()`, is left out of
  the body that is parsed at the end; a collection from which `end` or the outcome is
  hidden never ends. `BodyCollector!ParsedIsWhole` and `CollectionsEnd` except these
  cases by `missed`.
* A refusal of the collector's last registration, on the response, leaves a
  collection with five listeners that works when the input is resumed. So does a
  `resume()` that throws because of another listener: the middleware has thrown,
  and `next` is called later all the same.
* The hook of express-session sets COMMITTED before it calls the raw end. When
  that throws, every later end is refused as a second one, so the default error
  answer fails too and the request stays open (`ExpressSession!End` with
  `accepts = FALSE`).
* Two session middleware on one request share `request.session`: the outer hook
  compares and stores the inner session's data under its own id, and refuses when
  the inner one was destroyed or has other cookie options. With one cookie name and
  secret both load one session: the outer hook can store again what the inner one
  destroyed, write what it loaded over a change settled by an inner hook, or, when
  nothing differs from what it loaded, leave in place what another one stored.
  `EndedIsStored`, `RetiredStayGone` and `SettledByEnd` state what the code does.
* An error handler reached through a rejected promise that recovers by calling
  `next()` resumes nothing: the walk it belonged to is gone (`ExpressPipeline!Reject`,
  `HandlersDone`). `AnsweredOrAwaited` asks nothing once a promise was returned.
* A transaction function whose ROLLBACK is refused clears `inTransaction` although
  the connection is still in the transaction (`Sqlite!TransactionThrows`, the state
  "abandoned"); `LeftOpenShows` excepts it.
* The prefix a mount takes is measured on segments with repeated slashes collapsed
  but cut from the raw path, so below `//api/x` a router mounted on `/api` sees a
  path that starts inside the prefix; `RoutesAgree` asks for canonical paths.
  `baseUrl`, `url` and `path` are not restored when a router throws.
* A HEAD request that an ALL route matches skips the GET routes.
* A malformed escape is an error of the request only when `match_path` reaches its
  segment; an earlier literal that differs hides it.
* The rate limiter's middleware calls the handler of an admitted request even when
  its response was answered or closed during the yield; a refusal is not sent then.

## 7. Not modelled

Whole parts, each with its reason in `PROJECT.json`: the server objects of
node-http and the construction of a request; the proxies of the Hazelcast data
structures and the generated browser client; the response helpers and static files
of express; tps-service, fetch, notify, secrets, evidence, nodemailer; tps-text,
json-schema, resvg, crypto; the email contract and the module registry. None keeps
state between calls; each call checks its arguments and makes one host request or
one conversion.

The response a pipe writes to is kept as open or full. The answers to the reads and
snapshots of a pipe come in the order of the requests (`InOrder`); `SsePipe` can let
them come in any order, and then an older batch may be written after a newer one.

Inside the modelled parts: argument validation that only throws, error wording,
manifests and module descriptors; asynchronous rejection of event listeners and
the host's STATE poll; limits on the bytes of a text (MAX_BYTES and the like);
`request.method`, which a script may assign and is a constant of `HttpResponse`; the
limit on order numbers (2^53 - 2; an order number is below the count of
registrations ever made, as `TableInv` says); the ranges of the second byte in UTF-8; base64; separators of querystring other
than `&` and `=`; the read-only properties and the origin of a URL, with the crate
`url` external; JSON cookies; nested directories and partial reads of files; rows,
parameters, ids and pragmas of SQLite (a pragma counts as a read). The splitting of
an SSE batch by output bytes is a batch cut anywhere. Machine words are scaled:
`WordMax`, `MaxDelay` and `Units` of `Durations` keep the order of the code's
constants, so that digits reach each boundary.

## 8. Plan

In this order:

1. *Exchange*: compose `HttpInput`, `HttpResponse` and a host that polls state and
   grants credit, with asynchronous rejections (`REJECT`, `FAILED`, `STATE`), the
   SSE pipe on a response that may throw, and the yield of the rate limiter in the
   express pipeline.
2. *Proofs*: `NodeUrl!ImplementsParts`, whose parser and writer would first have to be
   recursive functions, as `Selections!Selected` is; then the readers of `FormText`.
3. *Hazelcast proxies*: the continuation kinds of `resume` and the values they keep.
