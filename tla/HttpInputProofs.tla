-------------------------- MODULE HttpInputProofs ---------------------------
(***************************************************************************)
(* What the streamed input keeps for every body, every number of listeners *)
(* and every nesting of their calls: its types, the order of its lifecycle *)
(* events, that a body parser never starts on a tail, and that no piece of *)
(* the body is lost, repeated or reordered on its way to user code.        *)
(*                                                                         *)
(* The handlers are functions on states (Now and Become), so the invariant *)
(* is a predicate on a state and the lemmas say which functions keep it.   *)
(***************************************************************************)
EXTENDS HttpInput, SequenceTheorems, WellFoundedInduction, TLAPS

States == [req : Slots, listeners : [data : Nat, other : Nat],
           calls : Seq(Frames), handed : Seq(Pieces), log : Seq(Lifecycle)]

Typed(x) ==
  /\ x \in States
  /\ x.listeners.data + x.listeners.other <= MaxListeners

\* The continuations that announce something
Announcing == {"end", "requestClose", "responseClose"}

\* What the outermost interrupted emission has still to announce
Left(x) == IF x.calls = <<>> THEN "return" ELSE x.calls[Len(x.calls)].then

OutermostAnnounces(x) ==
  \A i \in DOMAIN x.calls : i # Len(x.calls) => x.calls[i].then \notin Announcing

Below(events, rank) == \A i \in DOMAIN events : Rank(events[i]) < rank

Ordered(events) ==
  \A i, j \in DOMAIN events : i < j => Rank(events[i]) < Rank(events[j])

\* The end of the input is handled as soon as it is known; an outcome leaves
\* no chunk behind, and nothing is announced before it.
OutcomeInv(x) ==
  /\ x.req.eof = x.req.ended
  /\ x.req.ended \/ x.req.terminal => x.req.queue = Empty
  /\ x.log # <<>> => x.req.ended \/ x.req.terminal

\* What was handed over or half decoded was consumed.
ConsumedInv(x) ==
  ~x.req.consumed => x.handed = <<>> /\ x.req.pending = <<>>

\* Only the outermost emission has something to announce, and that is the
\* next event of the lifecycle.
LogInv(x, delivered) ==
  /\ OutermostAnnounces(x)
  /\ Left(x) = "end" => x.log = <<>> /\ x.req.ended
  /\ Left(x) = "requestClose" => delivered /\ Below(x.log, 2)
  /\ Left(x) = "responseClose" => delivered /\ Below(x.log, 3)
  /\ ~delivered => Below(x.log, 2)
  /\ delivered => x.req.terminal
  /\ Ordered(x.log)

Good(x, delivered) ==
  Typed(x) /\ OutcomeInv(x) /\ ConsumedInv(x) /\ LogInv(x, delivered)

BodyInv == body \in Seq(Chunks) /\ Len(body) <= MaxChunks /\ closed \in BOOLEAN

InputInv == BodyInv /\ Good(Now, closed)

-----------------------------------------------------------------------------
\* Pieces and emissions

LEMMA PiecesTyped ==
  ASSUME NEW k \in 1..MaxChunks
  PROVE  HeadOf(k) \in Seq(Pieces) /\ TailOf(k) \in Seq(Pieces) /\ PiecesOf(k) \in Seq(Pieces)
<1>1. 2 * k - 1 \in Pieces /\ 2 * k \in Pieces
  BY HttpInputAssumption DEF Pieces
<1>2. HeadOf(k) \in Seq(Pieces) /\ TailOf(k) \in Seq(Pieces)
  BY <1>1 DEF HeadOf, TailOf
<1> QED BY <1>2 DEF PiecesOf

\* An emission is put in front of those it interrupts.
LEMMA CallShape ==
  ASSUME NEW x \in States,
         NEW event \in {"data", "readable"} \union Lifecycle,
         NEW then \in {"return", "finish", "drain"} \union Announcing
  PROVE  LET y == Call(x, event, then)
         IN /\ y \in States /\ y.req = x.req /\ y.listeners = x.listeners
            /\ y.handed = x.handed /\ y.log = x.log
            /\ Left(y) = IF x.calls = <<>> THEN then ELSE Left(x)
            /\ x.calls = <<>> \/ then \notin Announcing => (OutermostAnnounces(x) => OutermostAnnounces(y))
<1> DEFINE f == [event |-> event, then |-> then, heard |-> Heard(x, event)]
           y == Call(x, event, then)
<1>1. Heard(x, event) \in BOOLEAN
  <2>1. x.listeners.data \in Nat /\ x.listeners.other \in Nat
    BY DEF States
  <2> QED BY <2>1 DEF Heard
<1>2. f \in Frames /\ f.then = then
  BY <1>1 DEF Frames, Announcing
<1>3. x.calls \in Seq(Frames)
  BY DEF States
<1>4. y = [x EXCEPT !.calls = <<f>> \o x.calls]
  BY DEF Call
<1>5. <<f>> \o x.calls \in Seq(Frames)
  BY <1>2, <1>3
<1> HIDE DEF f
<1>6. /\ y \in States /\ y.calls = <<f>> \o x.calls /\ y.req = x.req
      /\ y.listeners = x.listeners /\ y.handed = x.handed /\ y.log = x.log
  <2>1. y.calls = <<f>> \o x.calls
    BY <1>4 DEF States
  <2>2. y.req = x.req /\ y.listeners = x.listeners /\ y.handed = x.handed /\ y.log = x.log
    BY <1>4 DEF States
  <2>3. y \in States
    BY <1>4, <1>5 DEF States
  <2> QED BY <2>1, <2>2, <2>3
<1>7. /\ Len(y.calls) = Len(x.calls) + 1 /\ y.calls # <<>>
      /\ y.calls[1] = f
      /\ \A i \in DOMAIN y.calls : i # 1 => i - 1 \in DOMAIN x.calls /\ y.calls[i] = x.calls[i - 1]
  <2>1. <<f>> \in Seq(Frames) /\ Len(<<f>>) = 1 /\ <<f>>[1] = f
    BY <1>2
  <2>2. /\ Len(y.calls) = 1 + Len(x.calls)
        /\ \A i \in 1 .. 1 + Len(x.calls) :
             y.calls[i] = IF i <= 1 THEN <<f>>[i] ELSE x.calls[i - 1]
    BY <1>3, <1>6, <2>1, ConcatProperties
  <2>3. y.calls \in Seq(Frames) /\ Len(x.calls) \in Nat
    BY <1>3, <1>5, <1>6
  <2>4. DOMAIN x.calls = 1 .. Len(x.calls) /\ DOMAIN y.calls = 1 .. 1 + Len(x.calls)
    BY <1>3, <2>2, <2>3
  <2> HIDE DEF y
  <2>5. y.calls[1] = f
    BY <2>1, <2>2, <2>3
  <2> QED BY <2>2, <2>3, <2>4, <2>5
<1>8. Left(y) = IF x.calls = <<>> THEN then ELSE Left(x)
  <2>1. CASE x.calls = <<>>
    <3>1. Len(y.calls) = 1
      BY <1>7, <2>1
    <3> QED BY <1>2, <1>7, <2>1, <3>1 DEF Left
  <2>2. CASE x.calls # <<>>
    <3>1. Len(x.calls) \in Nat \ {0} /\ Len(y.calls) \in DOMAIN y.calls
      BY <1>3, <1>5, <1>6, <1>7, <2>2
    <3>2. y.calls[Len(y.calls)] = x.calls[Len(x.calls)]
      BY <1>7, <3>1
    <3> QED BY <1>7, <2>2, <3>2 DEF Left
  <2> QED BY <2>1, <2>2
<1>9. \A i \in DOMAIN y.calls : i \in Int
  BY <1>5, <1>6
<1>10. x.calls = <<>> => OutermostAnnounces(y)
  <2> HAVE x.calls = <<>>
  <2>1. Len(y.calls) = 1 /\ DOMAIN x.calls = {}
    BY <1>7
  <2> QED BY <1>7, <1>9, <2>1 DEF OutermostAnnounces
<1>11. then \notin Announcing /\ OutermostAnnounces(x) => OutermostAnnounces(y)
  BY <1>2, <1>3, <1>7, <1>9 DEF OutermostAnnounces
<1> QED BY <1>6, <1>8, <1>10, <1>11

\* An emission that nothing is to be announced after
LEMMA CallKeeps ==
  ASSUME NEW x, NEW delivered \in BOOLEAN, Good(x, delivered),
         NEW event \in {"data", "readable"} \union Lifecycle,
         NEW then \in {"return", "finish", "drain"}
  PROVE  Good(Call(x, event, then), delivered)
<1> DEFINE y == Call(x, event, then)
<1>1. x \in States /\ OutermostAnnounces(x)
  BY DEF Good, Typed, LogInv
<1>2. then \notin Announcing
  BY DEF Announcing
<1>3. /\ y \in States /\ y.req = x.req /\ y.listeners = x.listeners
      /\ y.handed = x.handed /\ y.log = x.log
      /\ Left(y) = IF x.calls = <<>> THEN then ELSE Left(x)
      /\ OutermostAnnounces(y)
  BY <1>1, <1>2, CallShape
<1>4. Left(y) \in Announcing => Left(y) = Left(x)
  BY <1>2, <1>3
<1> QED
  BY <1>3, <1>4 DEF Good, Typed, OutcomeInv, ConsumedInv, LogInv, Announcing

\* take() gives text and keeps a residue, both of the body.
LEMMA DecodedTyped ==
  ASSUME NEW x, x \in States, x.req.queue # Empty
  PROVE  Decoded(x) \in Seq(Pieces) /\ Residue(x) \in Seq(Pieces)
<1>1. x.req.queue \in 1..MaxChunks /\ x.req.pending \in Seq(Pieces)
  BY HttpInputAssumption DEF States, Slots, Empty
<1>2. /\ HeadOf(x.req.queue) \in Seq(Pieces) /\ TailOf(x.req.queue) \in Seq(Pieces)
      /\ PiecesOf(x.req.queue) \in Seq(Pieces)
  BY <1>1, PiecesTyped
<1>3. /\ x.req.pending \o HeadOf(x.req.queue) \in Seq(Pieces)
      /\ x.req.pending \o TailOf(x.req.queue) \in Seq(Pieces)
      /\ <<>> \in Seq(Pieces)
  BY <1>1, <1>2
<1>4. Decoded(x) \in {PiecesOf(x.req.queue), x.req.pending \o HeadOf(x.req.queue), <<>>}
  BY DEF Decoded
<1>5. Residue(x) \in {x.req.pending, TailOf(x.req.queue), x.req.pending \o TailOf(x.req.queue)}
  BY DEF Residue
<1> QED BY <1>1, <1>2, <1>3, <1>4, <1>5

\* What drain and read do with a queued chunk
HandedOver(x) == [Take(x) EXCEPT !.handed = @ \o Decoded(x)]

LEMMA HandingKeeps ==
  ASSUME NEW x, NEW delivered \in BOOLEAN, Good(x, delivered), x.req.queue # Empty
  PROVE  Good(HandedOver(x), delivered)
<1> DEFINE y == HandedOver(x)
<1>1. x \in States /\ x.req \in Slots /\ x.handed \in Seq(Pieces)
  BY DEF Good, Typed, States
<1>2. Decoded(x) \in Seq(Pieces) /\ Residue(x) \in Seq(Pieces)
  BY <1>1, DecodedTyped
<1>3. x.handed \o Decoded(x) \in Seq(Pieces)
  BY <1>1, <1>2
<1> DEFINE r == [x.req EXCEPT !.queue = Empty, !.consumed = TRUE, !.pending = Residue(x)]
<1>4. /\ r \in Slots /\ r.queue = Empty /\ r.consumed
      /\ r.eof = x.req.eof /\ r.ended = x.req.ended /\ r.terminal = x.req.terminal
  <2>1. Empty \in 0..MaxChunks
    BY HttpInputAssumption DEF Empty
  <2>2. r \in Slots
    BY <1>1, <1>2, <2>1 DEF Slots
  <2> QED BY <1>1, <2>2 DEF Slots
<1>5. y = [x EXCEPT !.req = r, !.handed = x.handed \o Decoded(x)]
  BY <1>1 DEF HandedOver, Take, States
<1> HIDE DEF r, y
<1>6. /\ y \in States /\ y.req = r
      /\ y.calls = x.calls /\ y.listeners = x.listeners /\ y.log = x.log
  BY <1>1, <1>3, <1>4, <1>5 DEF States
<1> QED
  BY <1>4, <1>6 DEF y, Good, Typed, OutcomeInv, ConsumedInv, LogInv, Left, OutermostAnnounces

\* finish() does nothing once the end has been handled or is not known.
LEMMA FinishIdle ==
  ASSUME NEW x, NEW delivered, Good(x, delivered)
  PROVE  Finish(x) = x
BY DEF Good, OutcomeInv, Finish, AtEnd

\* drain() hands over the queued chunk, if any, and nothing else.
LEMMA DrainKeeps ==
  ASSUME NEW x, NEW delivered \in BOOLEAN, Good(x, delivered)
  PROVE  /\ Good(Drain(x), delivered)
         /\ x.req.queue = Empty => Drain(x) = x
<1>1. CASE x.req.paused \/ ~x.req.flowing \/ x.req.queue = Empty
  BY <1>1, FinishIdle DEF Drain
<1>2. CASE ~(x.req.paused \/ ~x.req.flowing \/ x.req.queue = Empty)
  <2>1. Drain(x) = Call(HandedOver(x), "data", "finish")
    BY <1>2 DEF Drain, EmitData, HandedOver
  <2>2. Good(HandedOver(x), delivered)
    BY <1>2, HandingKeeps
  <2> QED BY <1>2, <2>1, <2>2, CallKeeps
<1> QED BY <1>1, <1>2

\* The slots that decide what may still happen stay as they are.
LEMMA SlotsKeep ==
  ASSUME NEW x, NEW delivered, Good(x, delivered),
         NEW r \in Slots, NEW l \in [data : Nat, other : Nat],
         r.eof = x.req.eof, r.ended = x.req.ended, r.terminal = x.req.terminal,
         r.queue = x.req.queue, r.consumed = x.req.consumed,
         r.pending = x.req.pending, l.data + l.other <= MaxListeners
  PROVE  LET y == [x EXCEPT !.req = r, !.listeners = l]
         IN Good(y, delivered) /\ y.req = r /\ y.handed = x.handed
<1> DEFINE y == [x EXCEPT !.req = r, !.listeners = l]
<1>1. x \in States
  BY DEF Good, Typed
<1>2. /\ y \in States /\ y.req = r /\ y.listeners = l
      /\ y.calls = x.calls /\ y.handed = x.handed /\ y.log = x.log
  BY <1>1 DEF States
<1> HIDE DEF y
<1>3. Good(y, delivered)
  BY <1>2 DEF Good, Typed, OutcomeInv, ConsumedInv, LogInv, Left, OutermostAnnounces
<1> QED BY <1>2, <1>3 DEF y

\* The innermost emission is over, whether its listeners return or throw.
LEMMA PopKeeps ==
  ASSUME NEW x, NEW delivered, Good(x, delivered), x.calls # <<>>
  PROVE  LET y == [x EXCEPT !.calls = Tail(@)]
         IN /\ Good(y, delivered) /\ y.req = x.req /\ y.handed = x.handed /\ y.log = x.log
            /\ Head(x.calls).then \in Announcing =>
                 y.calls = <<>> /\ Left(x) = Head(x.calls).then
<1> DEFINE y == [x EXCEPT !.calls = Tail(@)]
<1>1. x \in States /\ x.calls \in Seq(Frames) /\ OutermostAnnounces(x)
  BY DEF Good, Typed, LogInv, States
<1>2. /\ Tail(x.calls) \in Seq(Frames) /\ Len(Tail(x.calls)) = Len(x.calls) - 1
      /\ \A i \in 1 .. Len(Tail(x.calls)) : Tail(x.calls)[i] = x.calls[i + 1]
  BY <1>1, HeadTailProperties
<1>3. /\ y \in States /\ y.calls = Tail(x.calls) /\ y.req = x.req
      /\ y.listeners = x.listeners /\ y.handed = x.handed /\ y.log = x.log
  BY <1>1, <1>2 DEF States
<1> HIDE DEF y
<1>4. /\ Len(x.calls) \in Nat \ {0} /\ DOMAIN x.calls = 1 .. Len(x.calls)
      /\ Len(y.calls) = Len(x.calls) - 1 /\ DOMAIN y.calls = 1 .. Len(x.calls) - 1
      /\ \A i \in DOMAIN y.calls : y.calls[i] = x.calls[i + 1]
      /\ y.calls = <<>> <=> Len(x.calls) = 1
  <2>1. Len(x.calls) \in Nat /\ Len(x.calls) # 0 /\ DOMAIN x.calls = 1 .. Len(x.calls)
    BY <1>1
  <2>2. Len(y.calls) = Len(x.calls) - 1 /\ DOMAIN y.calls = 1 .. Len(y.calls)
    BY <1>2, <1>3
  <2>3. y.calls = <<>> <=> Len(y.calls) = 0
    <3>1. y.calls \in Seq(Frames)
      BY <1>2, <1>3
    <3> QED BY <3>1
  <2>4. \A i \in 1 .. Len(y.calls) : y.calls[i] = x.calls[i + 1]
    BY <1>2, <1>3
  <2> QED BY <2>1, <2>2, <2>3, <2>4, SMTT(30)
<1>5. Left(y) = IF y.calls = <<>> THEN "return" ELSE Left(x)
  <2>1. CASE y.calls = <<>>
    BY <2>1 DEF Left
  <2>2. CASE y.calls # <<>>
    <3>1. y.calls[Len(y.calls)] = x.calls[Len(x.calls)]
      BY <1>4, <2>2
    <3> QED BY <2>2, <3>1 DEF Left
  <2> QED BY <2>1, <2>2
<1>6. OutermostAnnounces(y)
  <2> SUFFICES ASSUME NEW i \in DOMAIN y.calls, i # Len(y.calls)
               PROVE  y.calls[i].then \notin Announcing
    BY DEF OutermostAnnounces
  <2>1. i + 1 \in DOMAIN x.calls /\ i + 1 # Len(x.calls)
    BY <1>4
  <2> QED BY <1>1, <1>4, <2>1 DEF OutermostAnnounces
<1>7. Good(y, delivered)
  BY <1>3, <1>5, <1>6 DEF Good, Typed, OutcomeInv, ConsumedInv, LogInv
<1>8. Head(x.calls).then \in Announcing => y.calls = <<>> /\ Left(x) = Head(x.calls).then
  <2> HAVE Head(x.calls).then \in Announcing
  <2>1. Head(x.calls) = x.calls[1]
    BY <1>1
  <2>2. Len(x.calls) = 1
    BY <1>1, <1>4, <2>1 DEF OutermostAnnounces
  <2> QED BY <1>4, <2>1, <2>2 DEF Left
<1> QED BY <1>3, <1>7, <1>8 DEF y

LEMMA RanksAreNumbers == \A event : Rank(event) \in {1, 2, 3}
BY DEF Rank

\* A lifecycle event is emitted in its turn, with nothing interrupted.
LEMMA AnnounceKeeps ==
  ASSUME NEW x, NEW delivered \in BOOLEAN, Good(x, delivered), x.calls = <<>>,
         NEW event \in Lifecycle,
         NEW then \in {"return", "requestClose", "responseClose"},
         x.req.ended \/ x.req.terminal,
         Below(x.log, Rank(event)),
         Rank(event) >= 2 \/ then # "return" => delivered,
         then = "requestClose" => Rank(event) = 1,
         then = "responseClose" => Rank(event) = 2
  PROVE  LET y == Announce(x, event, then)
         IN Good(y, delivered) /\ y.handed = x.handed
<1> DEFINE w == [x EXCEPT !.log = Append(@, event)]
           y == Announce(x, event, then)
<1>1. x \in States /\ OutermostAnnounces(x) /\ x.log \in Seq(Lifecycle)
  BY DEF Good, Typed, LogInv, States
<1>2. /\ Append(x.log, event) \in Seq(Lifecycle)
      /\ Len(Append(x.log, event)) = Len(x.log) + 1
      /\ \A i \in DOMAIN Append(x.log, event) :
           IF i = Len(x.log) + 1 THEN Append(x.log, event)[i] = event
           ELSE i \in DOMAIN x.log /\ Append(x.log, event)[i] = x.log[i]
      /\ Len(x.log) \in Nat /\ DOMAIN x.log = 1 .. Len(x.log)
      /\ DOMAIN Append(x.log, event) = 1 .. Len(x.log) + 1
  BY <1>1
<1>3. /\ w \in States /\ w.log = Append(x.log, event) /\ w.req = x.req
      /\ w.listeners = x.listeners /\ w.handed = x.handed /\ w.calls = x.calls
  BY <1>1, <1>2 DEF States
<1>4. y = Call(w, event, then)
  BY DEF Announce
<1> HIDE DEF w
<1>5. OutermostAnnounces(w)
  BY <1>1, <1>3 DEF OutermostAnnounces
<1>6. /\ y \in States /\ y.req = x.req /\ y.listeners = x.listeners
      /\ y.handed = x.handed /\ y.log = w.log
      /\ Left(y) = then /\ OutermostAnnounces(y)
  <2>1. event \in {"data", "readable"} \union Lifecycle
    OBVIOUS
  <2>2. then \in {"return", "finish", "drain"} \union Announcing
    BY DEF Announcing
  <2>3. w \in States /\ w.calls = <<>>
    BY <1>3
  <2> DEFINE z == Call(w, event, then)
  <2>4. /\ z \in States /\ z.req = w.req /\ z.listeners = w.listeners
        /\ z.handed = w.handed /\ z.log = w.log
        /\ Left(z) = IF w.calls = <<>> THEN then ELSE Left(w)
        /\ w.calls = <<>> \/ then \notin Announcing => (OutermostAnnounces(w) => OutermostAnnounces(z))
    BY <2>1, <2>2, <2>3, CallShape
  <2> HIDE DEF z
  <2>5. y = z
    BY <1>4 DEF z
  <2> QED BY <1>3, <1>5, <2>3, <2>4, <2>5
<1> HIDE DEF y
<1>7. Ordered(w.log)
  <2>1. Ordered(x.log)
    BY DEF Good, LogInv
  <2> QED BY <1>2, <1>3, <2>1 DEF Ordered, Below
<1>8. \A n \in {2, 3} : Rank(event) < n => Below(w.log, n)
  BY <1>2, <1>3, RanksAreNumbers DEF Below
<1>9. ~delivered => Rank(event) < 2 /\ then = "return"
  BY RanksAreNumbers
<1> QED
  BY <1>3, <1>6, <1>7, <1>8, <1>9 DEF y, Good, Typed, OutcomeInv, ConsumedInv, LogInv

LEMMA NothingAnnounced ==
  ASSUME NEW x, x.calls = <<>>, x.log = <<>>
  PROVE  LogInv(x, FALSE)
<1>1. Left(x) = "return"
  BY DEF Left
<1>2. OutermostAnnounces(x)
  BY DEF OutermostAnnounces
<1>3. Below(x.log, 2) /\ Ordered(x.log)
  BY DEF Below, Ordered
<1> QED BY <1>1, <1>2, <1>3 DEF LogInv

\* The end is known: the residue is flushed as data, then end is emitted.
LEMMA FinishKeeps ==
  ASSUME NEW x, NEW delivered \in BOOLEAN, Good(x, delivered), x.calls = <<>>,
         ~x.req.ended, ~x.req.terminal, x.req.queue = Empty,
         NEW r \in Slots, r = [x.req EXCEPT !.eof = TRUE, !.next = @ + 1]
  PROVE  /\ Drain([x EXCEPT !.req = r]) = Finish([x EXCEPT !.req = r])
         /\ Good(Finish([x EXCEPT !.req = r]), delivered)
<1> DEFINE y == [x EXCEPT !.req = r]
           done == [y EXCEPT !.req.ended = TRUE]
           e == [r EXCEPT !.ended = TRUE]
<1>1. x \in States /\ x.req \in Slots /\ x.log = <<>> /\ ~delivered
  BY DEF Good, Typed, LogInv, OutcomeInv, States
<1>2. /\ r.eof = TRUE /\ ~r.ended /\ ~r.terminal /\ r.queue = Empty
      /\ r.pending = x.req.pending /\ r.consumed = x.req.consumed
  BY <1>1 DEF Slots
<1>3. y.req = r /\ y \in States
  BY <1>1 DEF States
<1>4. Drain(y) = Finish(y) /\ AtEnd(y)
  BY <1>2, <1>3 DEF Drain, AtEnd
<1>5. /\ e \in Slots /\ e.eof = TRUE /\ e.ended = TRUE /\ e.queue = Empty
      /\ e.pending = x.req.pending /\ e.consumed = x.req.consumed /\ ~e.terminal
  BY <1>2, ZenonT(60) DEF Slots
<1>6. done = [x EXCEPT !.req = e]
  BY <1>1, <1>3 DEF States
<1> HIDE DEF e, done
<1>7. /\ done \in States /\ done.req = e /\ done.listeners = x.listeners
      /\ done.calls = <<>> /\ done.handed = x.handed /\ done.log = <<>>
  BY <1>1, <1>5, <1>6 DEF States
<1>8. Good(done, delivered)
  <2>1. Typed(done) /\ OutcomeInv(done) /\ ConsumedInv(done)
    BY <1>1, <1>5, <1>7 DEF Good, Typed, OutcomeInv, ConsumedInv
  <2> QED BY <1>1, <1>7, <2>1, NothingAnnounced DEF Good
<1>9. CASE x.req.pending = <<>>
  <2>1. Finish(y) = Announce(done, "end", "return")
    BY <1>2, <1>3, <1>4, <1>9 DEF Finish, EmitEnd, done
  <2>2. Rank("end") = 1 /\ Below(done.log, 1)
    BY <1>7 DEF Rank, Below
  <2>3. "end" \in Lifecycle
    BY DEF Lifecycle
  <2>4. Good(Announce(done, "end", "return"), delivered)
    BY <1>5, <1>7, <1>8, <2>2, <2>3, AnnounceKeeps
  <2> QED BY <1>4, <2>1, <2>4
<1>10. CASE x.req.pending # <<>>
  <2> DEFINE flushed == [done EXCEPT !.handed = @ \o x.req.pending]
             z == Call(flushed, "data", "end")
  <2>1. Finish(y) = z
    BY <1>2, <1>3, <1>4, <1>10 DEF Finish, EmitData, done
  <2>2. x.handed \o x.req.pending \in Seq(Pieces)
    BY <1>1 DEF States, Slots
  <2>3. /\ flushed \in States /\ flushed.req = e /\ flushed.listeners = x.listeners
        /\ flushed.calls = <<>> /\ flushed.log = <<>>
    BY <1>7, <2>2 DEF States
  <2> HIDE DEF flushed
  <2>4. "end" \in {"return", "finish", "drain"} \union Announcing
    BY DEF Announcing
  <2>5. OutermostAnnounces(flushed)
    BY <2>3 DEF OutermostAnnounces
  <2>6. /\ z \in States /\ z.req = flushed.req /\ z.listeners = flushed.listeners
        /\ z.log = flushed.log /\ Left(z) = "end" /\ OutermostAnnounces(z)
    BY <2>3, <2>4, <2>5, CallShape
  <2> HIDE DEF z
  <2>7. e.consumed
    BY <1>5, <1>10 DEF Good, ConsumedInv
  <2>8. Good(z, delivered)
    BY <1>1, <1>5, <2>3, <2>6, <2>7 DEF Good, Typed, OutcomeInv, ConsumedInv, LogInv, Ordered, Below
  <2> QED BY <1>4, <2>1, <2>8
<1> QED BY <1>9, <1>10

-----------------------------------------------------------------------------
\* The invariant

LEMMA NowIsTyped ==
  TypeOK <=> /\ body \in Seq(Chunks) /\ closed \in BOOLEAN
             /\ Typed(Now)
<1>1. Now \in States <=>
        /\ req \in Slots /\ listeners \in [data : Nat, other : Nat]
        /\ calls \in Seq(Frames) /\ handed \in Seq(Pieces) /\ log \in Seq(Lifecycle)
  BY DEF Now, States
<1>2. Now.listeners = listeners
  BY DEF Now
<1> QED BY <1>1, <1>2 DEF TypeOK, Typed

\* A handler's result becomes the state.
LEMMA BecomeNow ==
  ASSUME NEW x \in States, Become(x)
  PROVE  Now' = x
<1>1. x = [req |-> x.req, listeners |-> x.listeners, calls |-> x.calls,
           handed |-> x.handed, log |-> x.log]
  BY DEF States
<1> QED BY <1>1 DEF Become, Now

LEMMA BecomeKeeps ==
  ASSUME NEW x, Good(x, closed), Become(x), BodyInv, UNCHANGED <<body, closed>>
  PROVE  InputInv'
<1>1. Now' = x
  BY BecomeNow DEF Good, Typed
<1>2. Good(x, closed')
  OBVIOUS
<1> QED BY <1>1, <1>2 DEF InputInv, BodyInv

LEMMA InitInv == Init => InputInv
<1> SUFFICES ASSUME Init PROVE InputInv
  OBVIOUS
<1>1. body \in Seq(Chunks) /\ Len(body) <= MaxChunks /\ closed = FALSE
  <2>1. PICK n \in 0..MaxChunks : body \in [1..n -> Chunks]
    BY DEF Init, Bodies
  <2>2. n \in Nat /\ n <= MaxChunks
    BY HttpInputAssumption
  <2> QED BY <2>1, <2>2 DEF Init
<1>2. req \in Slots
  BY HttpInputAssumption DEF Init, Slots, Encodings, Empty
<1>3. listeners \in [data : Nat, other : Nat] /\ listeners.data + listeners.other <= MaxListeners
  BY HttpInputAssumption DEF Init
<1>4. calls = <<>> /\ handed = <<>> /\ log = <<>>
  BY DEF Init
<1>5. Now \in States
  BY <1>2, <1>3, <1>4 DEF Now, States
<1>6. /\ Now.req = req /\ Now.calls = <<>> /\ Now.handed = <<>> /\ Now.log = <<>>
      /\ Now.listeners = listeners
  BY <1>4 DEF Now
<1>7. /\ req.eof = FALSE /\ req.ended = FALSE /\ req.terminal = FALSE
      /\ req.pending = <<>>
  BY DEF Init
<1> QED
  <2>1. Typed(Now) /\ OutcomeInv(Now) /\ ConsumedInv(Now)
    BY <1>3, <1>5, <1>6, <1>7 DEF Typed, OutcomeInv, ConsumedInv
  <2>2. LogInv(Now, closed)
    BY <1>1, <1>6, NothingAnnounced
  <2> QED BY <1>1, <2>1, <2>2 DEF InputInv, BodyInv, Good

\* The body has an outcome, or one has been announced.
Settled == req.terminal \/ Len(log) > 0

LEMMA NowFields ==
  /\ Now.req = req /\ Now.listeners = listeners /\ Now.calls = calls
  /\ Now.handed = handed /\ Now.log = log
BY DEF Now

LEMMA SettledIsEmpty ==
  ASSUME InputInv, Settled
  PROVE  req.queue = Empty /\ (req.ended \/ req.terminal)
<1>1. Len(log) > 0 => log # <<>>
  OBVIOUS
<1> QED BY <1>1, NowFields DEF InputInv, Good, OutcomeInv, Settled

\* A handler that changes other slots and then may drain
LEMMA DrainStep ==
  ASSUME InputInv, NEW x, Good(x, closed), x.handed = handed, x.req.queue = req.queue,
         Become(x) \/ Become(Drain(x)), UNCHANGED <<body, closed>>
  PROVE  InputInv' /\ (Settled => handed' = handed)
<1>1. BodyInv /\ closed \in BOOLEAN
  BY DEF InputInv, BodyInv
<1>2. CASE Become(x)
  BY <1>1, <1>2, BecomeKeeps DEF Become
<1>3. CASE Become(Drain(x))
  <2>1. Good(Drain(x), closed) /\ (x.req.queue = Empty => Drain(x) = x)
    BY <1>1, DrainKeeps
  <2>2. InputInv'
    BY <1>1, <1>3, <2>1, BecomeKeeps
  <2>3. Settled => handed' = handed
    BY <1>3, <2>1, SettledIsEmpty DEF Become
  <2> QED BY <2>2, <2>3
<1> QED BY <1>2, <1>3

LEMMA NowTypes ==
  ASSUME InputInv
  PROVE  /\ Now \in States /\ req \in Slots /\ listeners \in [data : Nat, other : Nat]
         /\ listeners.data + listeners.other <= MaxListeners
BY NowFields DEF InputInv, Good, Typed, States

\* What decides about the outcome and the text is the same in two slot records.
Alike(r, q) ==
  /\ r.eof = q.eof /\ r.ended = q.ended /\ r.terminal = q.terminal
  /\ r.queue = q.queue /\ r.consumed = q.consumed /\ r.pending = q.pending

\* Other slots and listeners change.
Edit(q, l) == [Now EXCEPT !.req = q, !.listeners = l]

LEMMA EditKeeps ==
  ASSUME InputInv, NEW r \in Slots, NEW l \in [data : Nat, other : Nat],
         Alike(r, req), l.data + l.other <= MaxListeners,
         NEW x, x = Edit(r, l)
  PROVE  Good(x, closed) /\ x.req = r /\ x.handed = handed
<1>1. Good(Now, closed) /\ Now.req = req
  BY NowFields DEF InputInv
<1>2. /\ r.eof = Now.req.eof /\ r.ended = Now.req.ended /\ r.terminal = Now.req.terminal
      /\ r.queue = Now.req.queue /\ r.consumed = Now.req.consumed
      /\ r.pending = Now.req.pending
  BY <1>1 DEF Alike
<1> DEFINE n == Now
<1>3. Good(n, closed) /\ n.handed = handed
  BY <1>1, NowFields
<1> HIDE DEF n
<1>4. LET y == [n EXCEPT !.req = r, !.listeners = l]
      IN Good(y, closed) /\ y.req = r /\ y.handed = n.handed
  BY <1>2, <1>3, SlotsKeep, ZenonT(60) DEF n
<1> QED BY <1>3, <1>4 DEF Edit, n

\* A method that changes other slots and listeners, and then may drain
LEMMA EditStep ==
  ASSUME InputInv, NEW r \in Slots, NEW l \in [data : Nat, other : Nat],
         Alike(r, req), l.data + l.other <= MaxListeners,
         NEW x, x = Edit(r, l),
         Become(x) \/ Become(Drain(x)), UNCHANGED <<body, closed>>
  PROVE  InputInv' /\ (Settled => handed' = handed)
<1>1. Good(x, closed) /\ x.req = r /\ x.handed = handed
  BY EditKeeps
<1>2. x.req.queue = req.queue
  BY <1>1 DEF Alike
<1> QED BY <1>1, <1>2, DrainStep

LEMMA PauseStep ==
  ASSUME InputInv, Pause PROVE InputInv' /\ (Settled => handed' = handed)
<1> DEFINE r == [req EXCEPT !.paused = TRUE]
           x == [Now EXCEPT !.req.paused = TRUE]
<1>1. r \in Slots /\ Alike(r, req)
  BY NowTypes DEF Slots, Alike
<1>2. x = Edit(r, listeners)
  BY NowTypes, NowFields DEF Edit, States
<1>3. Become(x) /\ UNCHANGED <<body, closed>>
  BY DEF Pause
<1> HIDE DEF r, x
<1> QED BY <1>1, <1>2, <1>3, NowTypes, EditStep

LEMMA ResumeStep ==
  ASSUME InputInv, Resume PROVE InputInv' /\ (Settled => handed' = handed)
<1> DEFINE r == [req EXCEPT !.paused = FALSE, !.flowing = TRUE]
           x == [Now EXCEPT !.req.paused = FALSE, !.req.flowing = TRUE]
<1>1. r \in Slots /\ Alike(r, req)
  BY NowTypes DEF Slots, Alike
<1>2. x = Edit(r, listeners)
  BY NowTypes, NowFields DEF Edit, States
<1>3. Become(Drain(x)) /\ UNCHANGED <<body, closed>>
  BY DEF Resume
<1> HIDE DEF r, x
<1> QED BY <1>1, <1>2, <1>3, NowTypes, EditStep

LEMMA SetEncodingStep ==
  ASSUME InputInv, NEW encoding \in Encodings, SetEncoding(encoding)
  PROVE  InputInv' /\ (Settled => handed' = handed)
<1> DEFINE r == [req EXCEPT !.encoding = encoding]
           x == [Now EXCEPT !.req.encoding = encoding]
<1>1. r \in Slots /\ Alike(r, req)
  BY NowTypes DEF Slots, Alike
<1>2. x = Edit(r, listeners)
  BY NowTypes, NowFields DEF Edit, States
<1>3. Become(x) /\ UNCHANGED <<body, closed>>
  BY DEF SetEncoding
<1> HIDE DEF r, x
<1> QED BY <1>1, <1>2, <1>3, NowTypes, EditStep

LEMMA OnDataStep ==
  ASSUME InputInv, OnData \/ OnDataRejected
  PROVE  InputInv' /\ (Settled => handed' = handed)
<1> DEFINE r == [req EXCEPT !.flowing = TRUE]
           l == [listeners EXCEPT !.data = @ + 1]
           x == [Now EXCEPT !.req.flowing = TRUE, !.listeners.data = @ + 1]
           z == [Now EXCEPT !.req.flowing = TRUE]
<1>1. r \in Slots /\ Alike(r, req)
  BY NowTypes DEF Slots, Alike
<1>2. z = Edit(r, listeners)
  BY NowTypes, NowFields DEF Edit, States
<1>3. x = Edit(r, l)
  BY NowTypes, NowFields DEF Edit, States
<1>4. HasRoom => l \in [data : Nat, other : Nat] /\ l.data + l.other <= MaxListeners
  BY NowTypes, HttpInputAssumption DEF HasRoom
<1>5. UNCHANGED <<body, closed>> /\ (Become(z) \/ (HasRoom /\ Become(Drain(x))))
  BY DEF OnData, OnDataRejected
<1> HIDE DEF r, l, x, z
<1>6. CASE Become(z)
  BY <1>1, <1>2, <1>5, <1>6, NowTypes, EditStep
<1>7. CASE HasRoom /\ Become(Drain(x))
  BY <1>1, <1>3, <1>4, <1>5, <1>7, EditStep
<1> QED BY <1>5, <1>6, <1>7

LEMMA OtherListenersStep ==
  ASSUME InputInv, OnOther \/ (\E kind \in {"data", "other"} : Off(kind))
  PROVE  InputInv' /\ (Settled => handed' = handed)
<1>1. req \in Slots /\ Alike(req, req) /\ UNCHANGED <<body, closed>>
  BY NowTypes DEF Alike, OnOther, Off
<1>2. PICK l \in [data : Nat, other : Nat] :
        /\ l.data + l.other <= MaxListeners
        /\ Become(Edit(req, l))
  <2>1. CASE OnOther
    <3> DEFINE l == [listeners EXCEPT !.other = @ + 1]
    <3>1. l \in [data : Nat, other : Nat] /\ l.data + l.other <= MaxListeners
      BY <2>1, NowTypes, HttpInputAssumption DEF OnOther, HasRoom
    <3>2. [Now EXCEPT !.listeners.other = @ + 1] = Edit(req, l)
      BY NowTypes, NowFields DEF Edit, States
    <3> QED BY <2>1, <3>1, <3>2 DEF OnOther
  <2>2. ASSUME NEW kind \in {"data", "other"}, Off(kind)
        PROVE  \E l \in [data : Nat, other : Nat] :
                 /\ l.data + l.other <= MaxListeners
                 /\ Become(Edit(req, l))
    <3> DEFINE l == [listeners EXCEPT ![kind] = @ - 1]
    <3>1. l \in [data : Nat, other : Nat] /\ l.data + l.other <= MaxListeners
      BY <2>2, NowTypes, HttpInputAssumption DEF Off
    <3>2. [Now EXCEPT !.listeners[kind] = @ - 1] = Edit(req, l)
      BY NowTypes, NowFields DEF Edit, States
    <3> QED BY <2>2, <3>1, <3>2 DEF Off
  <2> QED BY <2>1, <2>2
<1> DEFINE x == Edit(req, l)
<1>3. x = Edit(req, l) /\ Become(x)
  BY <1>2
<1> HIDE DEF x
<1> QED BY <1>1, <1>2, <1>3, EditStep

LEMMA ReadStep ==
  ASSUME InputInv, Read PROVE InputInv' /\ (Settled => handed' = handed)
<1>1. Good(Now, closed) /\ BodyInv /\ closed \in BOOLEAN /\ UNCHANGED <<body, closed>>
  BY DEF InputInv, BodyInv, Read
<1>2. CASE req.queue = Empty
  <2>1. Become(Finish(Now))
    BY <1>2 DEF Read
  <2>2. Finish(Now) = Now
    BY <1>1, FinishIdle
  <2>3. Become(Now)
    BY <2>1, <2>2
  <2>4. InputInv'
    BY <1>1, <2>3, BecomeKeeps
  <2> QED BY <2>3, <2>4, NowFields DEF Become
<1>3. CASE req.queue # Empty
  <2>1. Good(HandedOver(Now), closed)
    BY <1>1, <1>3, HandingKeeps, NowFields
  <2>2. Become(Finish(HandedOver(Now)))
    BY <1>3 DEF Read, HandedOver
  <2>3. Become(HandedOver(Now))
    BY <2>1, <2>2, FinishIdle
  <2>4. InputInv'
    BY <1>1, <2>1, <2>3, BecomeKeeps
  <2>5. ~Settled
    BY <1>3, SettledIsEmpty
  <2> QED BY <2>4, <2>5
<1> QED BY <1>2, <1>3

LEMMA ReturnStep ==
  ASSUME InputInv, ListenersReturn PROVE InputInv' /\ (Settled => handed' = handed)
<1> DEFINE y == [Now EXCEPT !.calls = Tail(@)]
           then == Head(calls).then
<1>1. Good(Now, closed) /\ BodyInv /\ closed \in BOOLEAN /\ UNCHANGED <<body, closed>>
  BY DEF InputInv, BodyInv, ListenersReturn
<1>2. Become(Continue(y, then)) /\ calls # <<>>
  BY DEF ListenersReturn
<1>3. /\ Good(y, closed) /\ y.req = req /\ y.handed = handed /\ y.log = log
      /\ then \in Announcing => y.calls = <<>> /\ Left(Now) = then
  BY <1>1, <1>2, PopKeeps, NowFields
<1>4. then \in {"return", "finish", "drain"} \union Announcing
  <2>1. calls \in Seq(Frames)
    BY <1>1, NowFields DEF Good, Typed, States
  <2>2. Head(calls) \in Frames
    BY <1>2, <2>1, HeadTailProperties
  <2> QED BY <2>2 DEF Frames, Announcing
<1> HIDE DEF y, then
<1>5. CASE then = "return" \/ then = "finish"
  <2>1. Continue(y, then) = y
    BY <1>3, <1>5, FinishIdle DEF Continue
  <2> QED BY <1>1, <1>2, <1>3, <2>1, DrainStep
<1>6. CASE then = "drain"
  <2>1. Continue(y, then) = Drain(y)
    BY <1>6 DEF Continue
  <2> QED BY <1>1, <1>2, <1>3, <2>1, DrainStep
<1>7. CASE then \in Announcing
  <2>1. y.calls = <<>> /\ Left(Now) = then
    BY <1>3, <1>7
  <2>2. /\ then = "end" => y.log = <<>> /\ y.req.ended
        /\ then = "requestClose" => closed /\ Below(y.log, 2) /\ y.req.terminal
        /\ then = "responseClose" => closed /\ Below(y.log, 3) /\ y.req.terminal
    BY <1>1, <1>3, <2>1, NowFields DEF Good, LogInv
  <2>3. PICK event \in Lifecycle, next \in {"return", "responseClose"} :
          /\ Continue(y, then) = Announce(y, event, next)
          /\ y.req.ended \/ y.req.terminal
          /\ Below(y.log, Rank(event))
          /\ Rank(event) >= 2 \/ next # "return" => closed
          /\ next = "responseClose" => Rank(event) = 2
    <3>1. CASE then = "end"
      <4>1. Continue(y, then) = Announce(y, "end", "return")
        BY <3>1 DEF Continue, EmitEnd
      <4>2. "end" \in Lifecycle /\ Rank("end") = 1 /\ Below(y.log, 1)
        BY <2>2, <3>1 DEF Lifecycle, Rank, Below
      <4> QED BY <2>2, <3>1, <4>1, <4>2
    <3>2. CASE then = "requestClose"
      <4>1. Continue(y, then) = Announce(y, "close", "responseClose")
        BY <3>2 DEF Continue, RequestClose
      <4>2. "close" \in Lifecycle /\ Rank("close") = 2
        BY DEF Lifecycle, Rank
      <4> QED BY <2>2, <3>2, <4>1, <4>2
    <3>3. CASE then = "responseClose"
      <4>1. Continue(y, then) = Announce(y, "responseClose", "return")
        BY <3>3 DEF Continue
      <4>2. "responseClose" \in Lifecycle /\ Rank("responseClose") = 3
        BY DEF Lifecycle, Rank
      <4> QED BY <2>2, <3>3, <4>1, <4>2
    <3> QED BY <1>7, <3>1, <3>2, <3>3 DEF Announcing
  <2> DEFINE z == Announce(y, event, next)
  <2>4. Good(z, closed) /\ z.handed = y.handed
    BY <1>1, <1>3, <2>1, <2>3, AnnounceKeeps
  <2>5. Become(z)
    BY <1>2, <2>3
  <2> HIDE DEF z
  <2>6. InputInv'
    BY <1>1, <2>4, <2>5, BecomeKeeps
  <2>7. handed' = handed
    BY <1>3, <2>4, <2>5 DEF Become
  <2> QED BY <2>6, <2>7
<1> QED BY <1>4, <1>5, <1>6, <1>7

LEMMA ThrowStep ==
  ASSUME InputInv, ListenerThrows PROVE InputInv' /\ (Settled => handed' = handed)
<1> DEFINE y == [Now EXCEPT !.calls = Tail(@)]
<1>1. Good(Now, closed) /\ UNCHANGED <<body, closed>> /\ calls # <<>> /\ Become(y)
  BY DEF InputInv, ListenerThrows
<1>2. Good(y, closed) /\ y.req = req /\ y.handed = handed
  BY <1>1, PopKeeps, NowFields
<1> HIDE DEF y
<1> QED BY <1>1, <1>2, DrainStep

-----------------------------------------------------------------------------
\* The host's events

\* While the input is open nothing has been announced.
LEMMA OpenIsQuiet ==
  ASSUME InputInv, Open
  PROVE  log = <<>> /\ ~req.ended /\ ~req.terminal /\ ~closed /\ ~Settled
<1>1. log = <<>> /\ ~req.ended /\ ~req.terminal /\ ~closed
  BY NowFields DEF InputInv, Good, OutcomeInv, LogInv, Open
<1> QED BY <1>1 DEF Settled

LEMMA DataStep ==
  ASSUME InputInv, NEW k \in 1..Len(body), Data(k)
  PROVE  InputInv' /\ (Settled => handed' = handed)
<1> DEFINE r == [req EXCEPT !.queue = k, !.started = TRUE, !.next = @ + 1]
           x == [Now EXCEPT !.req.queue = k, !.req.started = TRUE, !.req.next = @ + 1]
<1>1. Good(Now, closed) /\ BodyInv /\ closed \in BOOLEAN /\ UNCHANGED <<body, closed>> /\ Open
  BY DEF InputInv, BodyInv, Data
<1>2. log = <<>> /\ ~req.ended /\ ~req.terminal /\ ~Settled
  BY <1>1, OpenIsQuiet
<1>3. k \in 0..MaxChunks
  BY <1>1, HttpInputAssumption DEF BodyInv
<1>4. /\ r \in Slots /\ r.eof = req.eof /\ r.ended = req.ended /\ r.terminal = req.terminal
      /\ r.consumed = req.consumed /\ r.pending = req.pending
  <2>1. req \in Slots
    BY <1>1, NowFields DEF Good, Typed, States
  <2>2. req.next + 1 \in Nat
    BY <2>1 DEF Slots
  <2> QED BY <1>3, <2>1, <2>2 DEF Slots
<1>5. x = [Now EXCEPT !.req = r]
  BY NowTypes, NowFields DEF States
<1>6. Become(IF req.flowing THEN Drain(x) ELSE Call(x, "readable", "drain"))
  BY DEF Data
<1> HIDE DEF r, x
<1>7. /\ x \in States /\ x.req = r /\ x.listeners = Now.listeners
      /\ x.calls = Now.calls /\ x.handed = Now.handed /\ x.log = Now.log
  BY <1>4, <1>5, NowTypes DEF States
<1>8. Good(x, closed)
  <2>1. Typed(x) /\ ConsumedInv(x)
    BY <1>1, <1>4, <1>7, NowFields DEF Good, Typed, ConsumedInv
  <2>2. OutcomeInv(x)
    BY <1>1, <1>2, <1>4, <1>7, NowFields DEF Good, OutcomeInv
  <2>3. LogInv(x, closed)
    BY <1>1, <1>4, <1>7, NowFields DEF Good, LogInv, Left, OutermostAnnounces
  <2> QED BY <2>1, <2>2, <2>3 DEF Good
<1>9. Good(Drain(x), closed)
  BY <1>1, <1>8, DrainKeeps
<1>10. Good(Call(x, "readable", "drain"), closed)
  BY <1>1, <1>8, CallKeeps
<1>11. InputInv'
  BY <1>1, <1>6, <1>9, <1>10, BecomeKeeps
<1> QED BY <1>2, <1>11

LEMMA EndStep ==
  ASSUME InputInv, End PROVE InputInv' /\ (Settled => handed' = handed)
<1> DEFINE r == [req EXCEPT !.eof = TRUE, !.next = @ + 1]
           x == [Now EXCEPT !.req.eof = TRUE, !.req.next = @ + 1]
<1>1. /\ Good(Now, closed) /\ BodyInv /\ closed \in BOOLEAN /\ UNCHANGED <<body, closed>>
      /\ Open /\ req.queue = Empty /\ calls = <<>> /\ Become(Drain(x))
  BY DEF InputInv, BodyInv, End, Idle
<1>2. ~req.ended /\ ~req.terminal /\ ~Settled
  BY <1>1, OpenIsQuiet
<1>3. r \in Slots /\ r = [Now.req EXCEPT !.eof = TRUE, !.next = @ + 1]
  <2>1. req \in Slots
    BY <1>1, NowFields DEF Good, Typed, States
  <2>2. req.next + 1 \in Nat
    BY <2>1 DEF Slots
  <2>3. r \in Slots
    BY <2>1, <2>2 DEF Slots
  <2> QED BY <2>3, NowFields
<1>4. x = [Now EXCEPT !.req = r]
  BY NowTypes, NowFields DEF States
<1> HIDE DEF r, x
<1>5. Drain(x) = Finish(x) /\ Good(Finish(x), closed)
  <2> DEFINE n == Now
  <2>1. /\ Good(n, closed) /\ n.calls = <<>> /\ ~n.req.ended /\ ~n.req.terminal
        /\ n.req.queue = Empty /\ r = [n.req EXCEPT !.eof = TRUE, !.next = @ + 1]
    BY <1>1, <1>2, <1>3, NowFields
  <2>2. x = [n EXCEPT !.req = r]
    BY <1>4
  <2> HIDE DEF n
  <2>3. /\ Drain([n EXCEPT !.req = r]) = Finish([n EXCEPT !.req = r])
        /\ Good(Finish([n EXCEPT !.req = r]), closed)
    BY <1>1, <1>3, <2>1, FinishKeeps
  <2> QED BY <2>2, <2>3
<1>6. InputInv'
  BY <1>1, <1>5, BecomeKeeps
<1> QED BY <1>2, <1>6

\* Abort, error and close drop the chunk; delivered says whether this is the
\* close event.
LEMMA TerminatedKeeps ==
  ASSUME NEW x, NEW before \in BOOLEAN, NEW delivered \in BOOLEAN, before => delivered,
         Good(x, before), x.calls = <<>>, NEW n \in Nat
  PROVE  LET y == Terminated([x EXCEPT !.req.next = n])
         IN /\ Good(y, delivered) /\ y.calls = <<>> /\ y.req.terminal = TRUE
            /\ y.handed = x.handed /\ y.log = x.log
<1> DEFINE r == [x.req EXCEPT !.next = n, !.terminal = TRUE, !.queue = Empty]
           y == Terminated([x EXCEPT !.req.next = n])
<1>1. x \in States /\ x.req \in Slots
  BY DEF Good, Typed, States
<1>2. Empty \in 0..MaxChunks
  BY HttpInputAssumption DEF Empty
<1>3. /\ r \in Slots /\ r.eof = x.req.eof /\ r.ended = x.req.ended /\ r.terminal = TRUE
      /\ r.queue = Empty /\ r.consumed = x.req.consumed /\ r.pending = x.req.pending
  BY <1>1, <1>2 DEF Slots
<1>4. y = [x EXCEPT !.req = r]
  BY <1>1 DEF Terminated, States
<1> HIDE DEF r, y
<1>5. /\ y \in States /\ y.req = r /\ y.listeners = x.listeners
      /\ y.calls = x.calls /\ y.handed = x.handed /\ y.log = x.log
  BY <1>1, <1>3, <1>4 DEF States
<1>6. Typed(y) /\ OutcomeInv(y) /\ ConsumedInv(y)
  BY <1>3, <1>5 DEF Good, Typed, OutcomeInv, ConsumedInv
<1>7. LogInv(y, delivered)
  <2>1. Left(y) = "return"
    BY <1>5 DEF Left
  <2>2. OutermostAnnounces(y)
    BY <1>5 DEF OutermostAnnounces
  <2> QED BY <1>3, <1>5, <2>1, <2>2 DEF Good, LogInv
<1> QED BY <1>3, <1>5, <1>6, <1>7 DEF y, Good

LEMMA FailStep ==
  ASSUME InputInv, NEW event \in {"aborted", "error"}, Fail(event)
  PROVE  InputInv' /\ (Settled => handed' = handed)
<1> DEFINE y == Terminated([Now EXCEPT !.req.next = req.next + 1])
           z == Announce(y, event, "return")
<1>1. /\ Good(Now, closed) /\ BodyInv /\ closed \in BOOLEAN /\ UNCHANGED <<body, closed>>
      /\ Open /\ Now.calls = <<>>
  BY NowFields DEF InputInv, BodyInv, Fail, Idle
<1>2. log = <<>> /\ ~Settled
  BY <1>1, OpenIsQuiet
<1>3. Become(z)
  BY NowFields DEF Fail
<1>4. req.next + 1 \in Nat
  BY NowTypes DEF Slots
<1>5. Good(y, closed) /\ y.calls = <<>> /\ y.req.terminal = TRUE /\ y.log = <<>>
  <2>1. y.log = Now.log /\ Good(y, closed) /\ y.calls = <<>> /\ y.req.terminal = TRUE
    BY <1>1, <1>4, TerminatedKeeps
  <2> QED BY <1>2, <2>1, NowFields
<1>6. event \in Lifecycle /\ Rank(event) = 1 /\ Below(y.log, 1)
  BY <1>5 DEF Lifecycle, Rank, Below
<1> HIDE DEF y
<1>7. Good(z, closed)
  BY <1>1, <1>5, <1>6, AnnounceKeeps
<1>8. InputInv'
  BY <1>1, <1>3, <1>7, BecomeKeeps
<1> QED BY <1>2, <1>8

LEMMA CloseStep ==
  ASSUME InputInv, Close PROVE InputInv' /\ (Settled => handed' = handed)
<1> DEFINE y == Terminated([Now EXCEPT !.req.next = req.next])
<1>1. /\ Good(Now, closed) /\ BodyInv /\ body' = body
      /\ Now.calls = <<>> /\ ~closed /\ closed' = TRUE /\ closed \in BOOLEAN
  BY NowFields DEF InputInv, BodyInv, Close, Idle
<1>2. y = Terminated(Now)
  <2>1. [Now EXCEPT !.req.next = req.next] = Now
    BY NowTypes, NowFields DEF States, Slots
  <2> QED BY <2>1
<1>3. req.next \in Nat
  BY NowTypes DEF Slots
<1>4. /\ Good(y, TRUE) /\ y.calls = <<>> /\ y.req.terminal = TRUE
      /\ y.handed = Now.handed /\ y.log = Now.log
  BY <1>1, <1>3, TerminatedKeeps
<1>5. Become(IF Open THEN Announce(y, "aborted", "requestClose") ELSE Announce(y, "close", "responseClose"))
  BY <1>2 DEF Close, RequestClose
<1> HIDE DEF y
<1>6. PICK event \in Lifecycle, next \in {"requestClose", "responseClose"} :
        /\ Become(Announce(y, event, next))
        /\ Below(y.log, Rank(event))
        /\ next = "requestClose" => Rank(event) = 1
        /\ next = "responseClose" => Rank(event) = 2
  <2>1. "aborted" \in Lifecycle /\ Rank("aborted") = 1 /\ "close" \in Lifecycle /\ Rank("close") = 2
    BY DEF Lifecycle, Rank
  <2>2. Open => Below(y.log, 1)
    BY <1>4, OpenIsQuiet, NowFields DEF Below
  <2>3. Below(y.log, 2)
    BY <1>1, <1>4 DEF Good, LogInv
  <2> QED BY <1>5, <2>1, <2>2, <2>3
<1> DEFINE z == Announce(y, event, next)
<1>7. Good(z, TRUE) /\ z.handed = y.handed
  BY <1>4, <1>6, AnnounceKeeps, ZenonT(60)
<1>8. Become(z)
  BY <1>6
<1> HIDE DEF z
<1>9. Now' = z
  BY <1>7, <1>8, BecomeNow DEF Good, Typed
<1>10. InputInv'
  BY <1>1, <1>7, <1>9 DEF InputInv, BodyInv
<1>11. handed' = handed
  BY <1>4, <1>7, <1>8, NowFields DEF Become
<1> QED BY <1>10, <1>11

-----------------------------------------------------------------------------

LEMMA InputStep ==
  ASSUME InputInv, [Next]_vars PROVE InputInv' /\ (Settled => handed' = handed)
<1>1. CASE UserNext
  BY <1>1, PauseStep, ResumeStep, ReadStep, SetEncodingStep, OnDataStep, OtherListenersStep,
     ReturnStep, ThrowStep DEF UserNext
<1>2. CASE HostNext
  BY <1>2, DataStep, EndStep, FailStep, CloseStep DEF HostNext
<1>3. CASE UNCHANGED vars
  BY <1>3 DEF vars, InputInv, BodyInv, Good, Typed, OutcomeInv, ConsumedInv, LogInv,
     Now, Left, OutermostAnnounces
<1> QED BY <1>1, <1>2, <1>3 DEF Next

\* The slots, the listener counts and the interrupted emissions keep their types,
\* and the table its limit (MAX_LISTENERS), for a body of any length.
THEOREM InputTypes == Spec => []TypeOK
<1>1. InputInv => TypeOK
  BY NowIsTyped DEF InputInv, BodyInv, Good
<1> QED BY <1>1, InitInv, InputStep, PTL DEF Spec

\* Whatever listeners do and in whatever order the host's events come, one of
\* end, aborted and error is announced, then close on the request, then close
\* on the response (finish and the close event).
THEOREM InputLifecycleOrdered == Spec => []LifecycleOrdered
<1>1. InputInv => LifecycleOrdered
  BY NowFields DEF InputInv, Good, LogInv, Ordered, LifecycleOrdered
<1> QED BY <1>1, InitInv, InputStep, PTL DEF Spec

\* A body parser that finds the input untouched sees all of it (_bodyInputState).
THEOREM InputNoTailIsParsed == Spec => []NoTailIsParsed
<1>1. InputInv => NoTailIsParsed
  <2> SUFFICES ASSUME InputInv, BodyState \in {"available", "decoded"}
               PROVE  handed = <<>> /\ req.pending = <<>>
    BY DEF NoTailIsParsed
  <2>1. ~req.consumed
    <3> SUFFICES ASSUME req.consumed PROVE FALSE
      OBVIOUS
    <3>1. CASE req.terminal
      BY <3>1 DEF BodyState
    <3>2. CASE ~req.terminal /\ req.ended
      BY <3>2 DEF BodyState
    <3>3. CASE ~req.terminal /\ ~req.ended
      BY <3>3 DEF BodyState
    <3> QED BY <3>1, <3>2, <3>3
  <2> QED BY <2>1, NowFields DEF InputInv, Good, ConsumedInv
<1> QED BY <1>1, InitInv, InputStep, PTL DEF Spec

\* Data never reaches user code after the outcome has been announced.
THEOREM InputNoDataAfterOutcome == Spec => NoDataAfterOutcome
<1>1. InputInv /\ [Next]_vars => [req.terminal \/ Len(log) > 0 => handed' = handed]_vars
  BY InputStep DEF Settled
<1> QED BY <1>1, InitInv, InputStep, PTL DEF Spec, NoDataAfterOutcome

-----------------------------------------------------------------------------
\* What was received

\* A set of naturals has a least member.
LEMMA LeastNatural ==
  ASSUME NEW T \in SUBSET Nat, T # {}
  PROVE  \E m \in T : \A n \in T : m <= n
<1> DEFINE R == {p \in Nat \X Nat : p[1] < p[2]}
<1>1. IsWellFoundedOn(R, Nat)
  BY NatLessThanWellFounded DEF OpToRel
<1>2. \E x \in T : \A y \in T : <<y, x>> \notin R
  <2> HIDE DEF R
  <2> QED BY <1>1, WFMin
<1>3. PICK m \in T : \A y \in T : <<y, m>> \notin R
  BY <1>2
<1>4. ASSUME NEW n \in T PROVE m <= n
  <2>1. <<n, m>> \notin R
    BY <1>3
  <2>2. m \in Nat /\ n \in Nat
    OBVIOUS
  <2> QED BY <2>1, <2>2
<1> QED BY <1>4

\* Lists of pieces joined
LEMMA Joined ==
  ASSUME NEW S, NEW a \in Seq(S), NEW b \in Seq(S), NEW c \in Seq(S)
  PROVE  /\ a \o b \in Seq(S)
         /\ (a \o b) \o c = a \o (b \o c)
         /\ a \o <<>> = a /\ <<>> \o a = a
<1>1. a \o b \in Seq(S) /\ a \o <<>> = a /\ <<>> \o a = a
  OBVIOUS
<1>2. (a \o b) \o c = a \o (b \o c)
  BY ConcatAssociative
<1> QED BY <1>1, <1>2

\* r[k] holds the pieces of the first k chunks, up to n.
ReceiptTo(n, r) ==
  /\ r \in [0..n -> Seq(Pieces)]
  /\ r[0] = <<>>
  /\ \A k \in 1..n : r[k] = r[k - 1] \o PiecesOf(k)

Receipt(r) == ReceiptTo(Len(body), r)

LEMMA PiecesOfBody ==
  ASSUME BodyInv, NEW k \in 1..Len(body)
  PROVE  PiecesOf(k) \in Seq(Pieces)
<1>1. k \in 1..MaxChunks
  BY HttpInputAssumption DEF BodyInv
<1> QED BY <1>1, PiecesTyped

\* A receipt can be continued by a chunk.
LEMMA ReceiptContinues ==
  ASSUME BodyInv, NEW n \in 1..Len(body), NEW q, ReceiptTo(n - 1, q)
  PROVE  \E r : ReceiptTo(n, r)
<1>1. n \in Nat /\ n - 1 \in Nat /\ n - 1 \in 0..(n - 1) /\ 0 \in 0..(n - 1)
  OBVIOUS
<1>2. PICK p \in Seq(Pieces) : p = q[n - 1] \o PiecesOf(n)
  <2>1. q[n - 1] \in Seq(Pieces)
    BY <1>1 DEF ReceiptTo
  <2>2. PiecesOf(n) \in Seq(Pieces)
    BY PiecesOfBody
  <2>3. q[n - 1] \o PiecesOf(n) \in Seq(Pieces)
    BY <2>1, <2>2, Joined
  <2> QED BY <2>3
<1> DEFINE r == [k \in 0..n |-> IF k = n THEN p ELSE q[k]]
<1>3. r \in [0..n -> Seq(Pieces)]
  <2>1. ASSUME NEW k \in 0..n, k # n PROVE k \in 0..(n - 1)
    BY <1>1, <2>1
  <2> QED BY <1>2, <2>1 DEF ReceiptTo
<1>4. r[0] = <<>>
  BY <1>1 DEF ReceiptTo
<1>5. ASSUME NEW k \in 1..n PROVE r[k] = r[k - 1] \o PiecesOf(k)
  <2>1. k \in 0..n /\ k - 1 \in 0..n /\ k - 1 # n /\ k \in Nat
    BY <1>1
  <2>2. r[k - 1] = q[k - 1] /\ r[k] = (IF k = n THEN p ELSE q[k])
    BY <2>1
  <2> HIDE DEF r
  <2>3. CASE k = n
    BY <1>2, <2>2, <2>3
  <2>4. CASE k # n
    <3>1. k \in 1..(n - 1)
      BY <1>1, <2>1, <2>4
    <3>2. q[k] = q[k - 1] \o PiecesOf(k)
      BY <3>1 DEF ReceiptTo
    <3> QED BY <2>2, <2>4, <3>2
  <2> QED BY <2>3, <2>4
<1> HIDE DEF r
<1> QED BY <1>3, <1>4, <1>5 DEF ReceiptTo

\* There is one for the body: were n the least number of chunks without a
\* receipt, the one for n - 1 could be continued.
LEMMA ReceiptExists ==
  ASSUME BodyInv
  PROVE  \E r : Receipt(r)
<1>1. PICK L \in Nat : L = Len(body)
  BY DEF BodyInv
<1> DEFINE T == {n \in 0..L : ~ \E r : ReceiptTo(n, r)}
<1>2. T = {}
  <2> SUFFICES ASSUME T # {} PROVE FALSE
    OBVIOUS
  <2>1. T \in SUBSET Nat
    OBVIOUS
  <2>2. PICK n \in T : \A m \in T : n <= m
    <3> HIDE DEF T
    <3> QED BY <2>1, LeastNatural
  <2>3. CASE n = 0
    <3> DEFINE r == [k \in 0..0 |-> <<>>]
    <3>1. ReceiptTo(0, r)
      BY DEF ReceiptTo
    <3> QED BY <2>2, <2>3, <3>1
  <2>4. CASE n # 0
    <3>1. n \in 1..L /\ n - 1 \in 0..L /\ ~(n <= n - 1)
      BY <2>2, <2>4
    <3>2. n - 1 \notin T
      <4> HIDE DEF T
      <4> QED BY <2>2, <3>1
    <3>3. PICK q : ReceiptTo(n - 1, q)
      BY <3>1, <3>2
    <3>4. \E r : ReceiptTo(n, r)
      BY <1>1, <3>1, <3>3, ReceiptContinues
    <3> QED BY <2>2, <3>4
  <2> QED BY <2>3, <2>4
<1>3. L \in 0..L
  OBVIOUS
<1>4. \E r : ReceiptTo(L, r)
  BY <1>2, <1>3
<1> QED BY <1>1, <1>4 DEF Receipt

\* Receipts for the same chunks are equal.
LEMMA ReceiptIsOne ==
  ASSUME NEW L \in Nat, NEW r, NEW f,
         r[0] = <<>> /\ \A k \in 1..L : r[k] = r[k - 1] \o PiecesOf(k),
         f[0] = <<>> /\ \A k \in 1..L : f[k] = f[k - 1] \o PiecesOf(k)
  PROVE  \A k \in 0..L : f[k] = r[k]
<1> DEFINE T == {k \in 0..L : f[k] # r[k]}
<1> SUFFICES ASSUME T # {} PROVE FALSE
  OBVIOUS
<1>1. T \in SUBSET Nat
  OBVIOUS
<1>2. PICK k \in T : \A m \in T : k <= m
  <2> HIDE DEF T
  <2> QED BY <1>1, LeastNatural
<1>3. k # 0
  BY <1>2
<1>4. k \in 1..L /\ k - 1 \in 0..L /\ ~(k <= k - 1)
  BY <1>2, <1>3
<1>5. k - 1 \notin T
  <2> HIDE DEF T
  <2> QED BY <1>2, <1>4
<1>6. f[k - 1] = r[k - 1]
  BY <1>4, <1>5
<1>7. f[k] = r[k]
  BY <1>4, <1>6
<1> QED BY <1>2, <1>7

\* Received is the receipt.
LEMMA ReceivedIs ==
  ASSUME BodyInv, NEW r, Receipt(r), NEW n \in 0..Len(body)
  PROVE  Received(n) = r[n]
<1> DEFINE B(f) == [k \in 0..Len(body) |-> IF k = 0 THEN <<>> ELSE f[k - 1] \o PiecesOf(k)]
           upTo == CHOOSE upTo : upTo = [k \in 0..Len(body) |-> IF k = 0 THEN <<>> ELSE upTo[k - 1] \o PiecesOf(k)]
<1>1. Len(body) \in Nat
  BY DEF BodyInv
<1>2. r = B(r)
  <2>1. r = [k \in 0..Len(body) |-> r[k]]
    BY DEF Receipt, ReceiptTo
  <2>2. \A k \in 0..Len(body) : r[k] = IF k = 0 THEN <<>> ELSE r[k - 1] \o PiecesOf(k)
    BY SMTT(30), <1>1 DEF Receipt, ReceiptTo
  <2> QED BY <2>1, <2>2
<1>3. upTo = B(upTo)
  BY <1>2
<1>4. Received(n) = upTo[n]
  BY DEF Received
<1> HIDE DEF upTo
<1>5. PICK L \in Nat : L = Len(body)
  BY <1>1
<1>6. upTo[0] = <<>> /\ \A k \in 1..L : upTo[k] = upTo[k - 1] \o PiecesOf(k)
  <2> DEFINE g == B(upTo)
  <2>1. \A k \in 0..L : g[k] = IF k = 0 THEN <<>> ELSE upTo[k - 1] \o PiecesOf(k)
    BY <1>5
  <2>2. upTo = g
    BY <1>3
  <2> HIDE DEF g
  <2>3. 0 \in 0..L /\ upTo[0] = <<>>
    BY <2>1, <2>2
  <2>4. ASSUME NEW k \in 1..L PROVE upTo[k] = upTo[k - 1] \o PiecesOf(k)
    <3>1. k \in 0..L /\ k # 0
      OBVIOUS
    <3> QED BY <2>1, <2>2, <3>1
  <2> QED BY <2>3, <2>4
<1>7. r[0] = <<>> /\ \A k \in 1..L : r[k] = r[k - 1] \o PiecesOf(k)
  BY <1>5 DEF Receipt, ReceiptTo
<1>8. \A k \in 0..L : upTo[k] = r[k]
  BY ZenonT(60), <1>6, <1>7, ReceiptIsOne
<1> QED BY <1>4, <1>5, <1>8

\* A receipt only grows.
LEMMA ReceiptGrows ==
  ASSUME BodyInv, NEW r, Receipt(r), NEW n \in 0..Len(body)
  PROVE  \E rest \in Seq(Pieces) : r[n] \o rest = r[Len(body)]
<1>1. PICK L \in Nat : L = Len(body)
  BY DEF BodyInv
<1> DEFINE Rest(k) == \E rest \in Seq(Pieces) : r[k] \o rest = r[L]
           T == {d \in 0..L : ~Rest(L - d)}
<1>2. \A k \in 0..L : r[k] \in Seq(Pieces)
  BY <1>1 DEF Receipt, ReceiptTo
<1>3. Rest(L)
  <2>1. L \in 0..L
    OBVIOUS
  <2>2. <<>> \in Seq(Pieces) /\ r[L] \o <<>> = r[L]
    BY <1>2, <2>1
  <2> QED BY <2>2
<1>4. ASSUME NEW k \in 0..(L - 1), Rest(k + 1) PROVE Rest(k)
  <2>1. k + 1 \in 1..L /\ k \in 0..L /\ (k + 1) - 1 = k
    OBVIOUS
  <2>2. PICK rest \in Seq(Pieces) : r[k + 1] \o rest = r[L]
    BY <1>4
  <2>3. PICK p : p = PiecesOf(k + 1)
    OBVIOUS
  <2>4. PICK q : q = r[k]
    OBVIOUS
  <2>5. r[k + 1] = q \o p
    BY <1>1, <2>1, <2>3, <2>4 DEF Receipt, ReceiptTo
  <2>6. q \in Seq(Pieces) /\ p \in Seq(Pieces) /\ rest \in Seq(Pieces)
    BY <1>1, <1>2, <2>1, <2>2, <2>3, <2>4, PiecesOfBody
  <2>7. p \o rest \in Seq(Pieces) /\ (q \o p) \o rest = q \o (p \o rest)
    BY SMTT(30), <2>6, Joined
  <2> QED BY <2>2, <2>4, <2>5, <2>7
<1> HIDE DEF Rest
<1>5. T = {}
  <2> SUFFICES ASSUME T # {} PROVE FALSE
    OBVIOUS
  <2>1. T \in SUBSET Nat
    OBVIOUS
  <2>2. PICK d \in T : \A m \in T : d <= m
    <3> HIDE DEF T
    <3> QED BY <2>1, LeastNatural
  <2>3. d # 0
    <3>1. L - 0 = L
      OBVIOUS
    <3> QED BY <1>3, <2>2, <3>1
  <2>4. /\ d - 1 \in 0..L /\ ~(d <= d - 1) /\ L - d \in 0..(L - 1)
        /\ L - (d - 1) = (L - d) + 1
    BY <2>2, <2>3
  <2>5. d - 1 \notin T
    <3> HIDE DEF T
    <3> QED BY <2>2, <2>4
  <2>6. Rest(L - (d - 1))
    BY <2>4, <2>5
  <2>7. Rest(L - d)
    BY <1>4, <2>4, <2>6
  <2> QED BY <2>2, <2>7
<1>6. L - n \in 0..L /\ L - (L - n) = n
  BY <1>1
<1>7. Rest(n)
  BY <1>5, <1>6
<1> QED BY <1>1, <1>7 DEF Rest
-----------------------------------------------------------------------------
\* Where the pieces are

\* Handed to user code, in the decoder, queued
Account(x) ==
  (x.handed \o (IF x.req.ended THEN <<>> ELSE x.req.pending))
    \o (IF x.req.queue = Empty THEN <<>> ELSE PiecesOf(x.req.queue))

AcceptedBy(x) == IF x.req.next > Len(body) THEN Len(body) ELSE x.req.next - 1

\* Only UTF-8 text leaves a residue, and the encoding is chosen before the first
\* chunk; the account is the receipt of what was accepted, or begins the whole.
Accounted(x, r) ==
  /\ x.req.next # 0
  /\ x.req.queue # Empty => x.req.started /\ x.req.queue \in 1..Len(body)
  /\ x.req.pending # <<>> => x.req.started /\ x.req.encoding = "utf8"
  /\ ~x.req.terminal => Account(x) = r[AcceptedBy(x)]
  /\ x.req.terminal => \E rest \in Seq(Pieces) : Account(x) \o rest = r[Len(body)]

PiecesInv == \E r : Receipt(r) /\ Accounted(Now, r)

\* Slots that say where pieces are
SamePlaces(x, y) ==
  /\ y.handed = x.handed /\ y.req.ended = x.req.ended /\ y.req.pending = x.req.pending
  /\ y.req.queue = x.req.queue /\ y.req.terminal = x.req.terminal /\ y.req.next = x.req.next
  /\ y.req.started = x.req.started
  /\ y.req.encoding = x.req.encoding \/ ~x.req.started

LEMMA SameAccount ==
  ASSUME NEW x, NEW y, NEW r, Accounted(x, r), SamePlaces(x, y)
  PROVE  Accounted(y, r)
<1>1. Account(y) = Account(x) /\ AcceptedBy(y) = AcceptedBy(x)
  BY DEF SamePlaces, Account, AcceptedBy
<1> QED BY <1>1 DEF SamePlaces, Accounted

\* Emissions and announcements leave the pieces where they are.
LEMMA CallPlaces ==
  ASSUME NEW x \in States, NEW event, NEW then
  PROVE  SamePlaces(x, Call(x, event, then)) /\ SamePlaces(x, Announce(x, event, then))
BY DEF SamePlaces, Call, Announce, States

\* A queued chunk is handed over but for its residue.
LEMMA HandingAccounted ==
  ASSUME BodyInv, NEW x, NEW delivered, Good(x, delivered), x.req.queue # Empty,
         NEW r, Receipt(r), Accounted(x, r)
  PROVE  Accounted(HandedOver(x), r)
<1> DEFINE y == HandedOver(x)
           q == [x.req EXCEPT !.queue = Empty, !.consumed = TRUE, !.pending = Residue(x)]
<1>1. x \in States /\ x.req \in Slots /\ ~x.req.ended /\ ~x.req.terminal
  BY DEF Good, Typed, States, OutcomeInv
<1>2. y.req = q /\ y.handed = x.handed \o Decoded(x)
  BY <1>1 DEF HandedOver, Take, States
<1>3. /\ q.queue = Empty /\ q.pending = Residue(x) /\ q.next = x.req.next
      /\ q.started = x.req.started /\ q.encoding = x.req.encoding
      /\ q.ended = x.req.ended /\ q.terminal = x.req.terminal
  BY <1>1 DEF Slots
<1> HIDE DEF q, y
<1>4. PICK h : h = x.handed
  OBVIOUS
<1>5. PICK p : p = x.req.pending
  OBVIOUS
<1>6. PICK head : head = HeadOf(x.req.queue)
  OBVIOUS
<1>7. PICK tail : tail = TailOf(x.req.queue)
  OBVIOUS
<1>8. h \in Seq(Pieces) /\ p \in Seq(Pieces) /\ head \in Seq(Pieces) /\ tail \in Seq(Pieces)
  <2>1. x.req.queue \in 1..MaxChunks
    BY HttpInputAssumption DEF BodyInv, Accounted
  <2> QED BY <1>1, <1>4, <1>5, <1>6, <1>7, <2>1, PiecesTyped DEF States, Slots
<1>9. Account(x) = (h \o p) \o (head \o tail)
  BY <1>1, <1>4, <1>5, <1>6, <1>7 DEF Account, PiecesOf
<1>10. Account(y) = ((h \o Decoded(x)) \o Residue(x)) \o <<>>
  BY <1>1, <1>2, <1>3, <1>4 DEF Account
<1>11. ((h \o Decoded(x)) \o Residue(x)) \o <<>> = (h \o p) \o (head \o tail)
  <2>1. CASE x.req.encoding # "utf8"
    <3>1. p = <<>> /\ Decoded(x) = head \o tail /\ Residue(x) = <<>>
      BY <1>5, <1>6, <1>7, <2>1 DEF Accounted, Decoded, Residue, PiecesOf
    <3>2. h \o (head \o tail) \in Seq(Pieces)
      BY <1>8
    <3> QED BY <1>8, <3>1, <3>2
  <2>2. CASE x.req.encoding = "utf8" /\ body[x.req.queue].head
    <3>1. Decoded(x) = p \o head /\ Residue(x) = tail
      BY <1>5, <1>6, <1>7, <2>2 DEF Decoded, Residue
    <3>2. /\ (h \o (p \o head)) \o tail = ((h \o p) \o head) \o tail
          /\ h \o p \in Seq(Pieces) /\ (h \o (p \o head)) \o tail \in Seq(Pieces)
      <4>1. (h \o p) \o head = h \o (p \o head) /\ h \o p \in Seq(Pieces)
        BY SMTT(30), <1>8, Joined
      <4>2. (h \o (p \o head)) \o tail \in Seq(Pieces)
        BY <1>8
      <4> QED BY <4>1, <4>2
    <3>3. ((h \o p) \o head) \o tail = (h \o p) \o (head \o tail)
      <4>1. PICK w : w = h \o p
        OBVIOUS
      <4>2. w \in Seq(Pieces)
        BY <3>2, <4>1
      <4>3. (w \o head) \o tail = w \o (head \o tail)
        BY SMTT(30), <1>8, <4>2, Joined
      <4> QED BY <4>1, <4>3
    <3>4. ((h \o (p \o head)) \o tail) \o <<>> = (h \o (p \o head)) \o tail
      BY <3>2
    <3> QED BY <3>1, <3>2, <3>3, <3>4
  <2>3. CASE x.req.encoding = "utf8" /\ ~body[x.req.queue].head
    <3>1. Decoded(x) = <<>> /\ Residue(x) = p \o tail /\ head = <<>>
      BY <1>5, <1>6, <1>7, <2>3 DEF Decoded, Residue, HeadOf
    <3>2. (h \o p) \o tail = h \o (p \o tail) /\ h \o (p \o tail) \in Seq(Pieces)
      <4>1. p \o tail \in Seq(Pieces)
        BY <1>8
      <4> QED BY <1>8, <4>1, Joined
    <3>3. h \o <<>> = h /\ <<>> \o tail = tail
      BY <1>8
    <3>4. (h \o (p \o tail)) \o <<>> = h \o (p \o tail)
      BY <3>2
    <3> QED BY <3>1, <3>2, <3>3, <3>4
  <2> QED BY <2>1, <2>2, <2>3
<1>12. Residue(x) # <<>> => x.req.started /\ x.req.encoding = "utf8"
  BY <1>8, <1>1 DEF Accounted, Residue
<1>13. AcceptedBy(y) = AcceptedBy(x)
  BY <1>2, <1>3 DEF AcceptedBy
<1>14. Accounted(y, r)
  BY <1>1, <1>2, <1>3, <1>9, <1>10, <1>11, <1>12, <1>13 DEF Accounted
<1> QED BY <1>14 DEF y

LEMMA DrainAccounted ==
  ASSUME BodyInv, NEW x, NEW delivered \in BOOLEAN, Good(x, delivered),
         NEW r, Receipt(r), Accounted(x, r)
  PROVE  Accounted(Drain(x), r)
<1>1. CASE x.req.paused \/ ~x.req.flowing \/ x.req.queue = Empty
  BY <1>1, FinishIdle DEF Drain
<1>2. CASE ~(x.req.paused \/ ~x.req.flowing \/ x.req.queue = Empty)
  <2>1. Drain(x) = Call(HandedOver(x), "data", "finish")
    BY <1>2 DEF Drain, EmitData, HandedOver
  <2>2. Accounted(HandedOver(x), r)
    BY <1>2, HandingAccounted
  <2>3. HandedOver(x) \in States
    BY <1>2, HandingKeeps DEF Good, Typed
  <2> QED BY <2>1, <2>2, <2>3, CallPlaces, SameAccount
<1> QED BY <1>1, <1>2

\* The end moves the residue to user code and drops none of it.
LEMMA EndAccounted ==
  ASSUME BodyInv, NEW x \in States, ~x.req.terminal, ~x.req.ended, x.req.queue = Empty,
         x.req.next = Len(body) + 1, x.req.eof = FALSE,
         NEW q \in Slots, q = [x.req EXCEPT !.eof = TRUE, !.next = @ + 1],
         NEW r, Receipt(r), Accounted(x, r)
  PROVE  Accounted(Finish([x EXCEPT !.req = q]), r)
<1> DEFINE e == [q EXCEPT !.ended = TRUE]
           y == [x EXCEPT !.req = q]
           done == [y EXCEPT !.req.ended = TRUE]
<1>1. x.req \in Slots /\ x.handed \in Seq(Pieces) /\ x.req.pending \in Seq(Pieces)
  BY DEF States, Slots
<1>2. /\ q.eof = TRUE /\ ~q.ended /\ ~q.terminal /\ q.queue = Empty
      /\ q.pending = x.req.pending /\ q.next = Len(body) + 2
      /\ q.started = x.req.started /\ q.encoding = x.req.encoding
  <2>1. q.next = (Len(body) + 1) + 1
    BY <1>1 DEF Slots
  <2>2. Len(body) \in Nat
    BY DEF BodyInv
  <2> QED BY <1>1, <2>1, <2>2 DEF Slots
<1>3. /\ e \in Slots /\ e.ended = TRUE /\ ~e.terminal /\ e.queue = Empty
      /\ e.pending = x.req.pending /\ e.next = Len(body) + 2
      /\ e.started = x.req.started /\ e.encoding = x.req.encoding
  BY <1>2, ZenonT(60) DEF Slots
<1>4. y.req = q /\ y \in States /\ AtEnd(y)
  BY <1>2 DEF States, AtEnd
<1>5. done = [x EXCEPT !.req = e]
  BY <1>4 DEF States
<1> HIDE DEF e, done
<1>6. done \in States /\ done.req = e /\ done.handed = x.handed
  BY <1>1, <1>3, <1>5 DEF States
<1>7. Account(x) = x.handed \o x.req.pending /\ AcceptedBy(x) = Len(body)
  <2>1. Len(body) \in Nat
    BY DEF BodyInv
  <2>2. AcceptedBy(x) = Len(body)
    BY <2>1 DEF AcceptedBy
  <2>3. x.handed \o x.req.pending \in Seq(Pieces)
    BY <1>1
  <2>4. (x.handed \o x.req.pending) \o <<>> = x.handed \o x.req.pending
    BY <2>3
  <2> QED BY <2>2, <2>4 DEF Account
<1>8. ASSUME NEW z, z.req = e, z.handed = x.handed \o x.req.pending
      PROVE  Accounted(z, r)
  <2>1. x.handed \o x.req.pending \in Seq(Pieces)
    BY <1>1
  <2>2. ((x.handed \o x.req.pending) \o <<>>) \o <<>> = x.handed \o x.req.pending
    BY <2>1
  <2>3. Account(z) = Account(x)
    BY <1>3, <1>7, <1>8, <2>2 DEF Account
  <2>4. AcceptedBy(z) = Len(body)
    <3>1. Len(body) \in Nat
      BY DEF BodyInv
    <3> QED BY <1>3, <1>8, <3>1 DEF AcceptedBy
  <2>5. Len(body) + 2 # 0
    BY DEF BodyInv
  <2> QED BY <1>3, <1>7, <1>8, <2>3, <2>4, <2>5 DEF Accounted
<1>9. CASE x.req.pending = <<>>
  <2>1. Finish(y) = Announce(done, "end", "return")
    BY <1>2, <1>4, <1>9 DEF Finish, EmitEnd, done
  <2>2. x.handed = x.handed \o x.req.pending
    BY <1>1, <1>9
  <2>3. Accounted(done, r)
    BY <1>6, <1>8, <2>2
  <2> QED BY <1>6, <2>1, <2>3, CallPlaces, SameAccount
<1>10. CASE x.req.pending # <<>>
  <2> DEFINE flushed == [done EXCEPT !.handed = @ \o x.req.pending]
  <2>1. Finish(y) = Call(flushed, "data", "end")
    BY <1>2, <1>4, <1>10 DEF Finish, EmitData, done
  <2>2. x.handed \o x.req.pending \in Seq(Pieces)
    BY <1>1
  <2>3. flushed \in States /\ flushed.req = e /\ flushed.handed = x.handed \o x.req.pending
    BY <1>6, <2>2 DEF States
  <2> HIDE DEF flushed
  <2>4. Accounted(flushed, r)
    BY <1>8, <2>3
  <2> QED BY <2>1, <2>3, <2>4, CallPlaces, SameAccount
<1> QED BY <1>9, <1>10

\* Abort, error and close drop the queued chunk, which is the last received.
LEMMA TerminatedAccounted ==
  ASSUME BodyInv, NEW x \in States, NEW n \in Nat \ {0},
         NEW r, Receipt(r), Accounted(x, r)
  PROVE  Accounted(Terminated([x EXCEPT !.req.next = n]), r)
<1> DEFINE q == [x.req EXCEPT !.next = n, !.terminal = TRUE, !.queue = Empty]
           y == Terminated([x EXCEPT !.req.next = n])
<1>1. x.req \in Slots /\ x.handed \in Seq(Pieces) /\ x.req.pending \in Seq(Pieces)
  BY DEF States, Slots
<1>2. y.req = q /\ y.handed = x.handed
  BY <1>1 DEF Terminated, States
<1>3. /\ q.next = n /\ q.terminal = TRUE /\ q.queue = Empty /\ q.started = x.req.started
      /\ q.pending = x.req.pending /\ q.encoding = x.req.encoding /\ q.ended = x.req.ended
  BY <1>1 DEF Slots
<1> HIDE DEF q, y
<1>4. PICK kept : kept = x.handed \o (IF x.req.ended THEN <<>> ELSE x.req.pending)
  OBVIOUS
<1>5. kept \in Seq(Pieces)
  BY <1>1, <1>4
<1>6. PICK queued \in Seq(Pieces) :
        queued = IF x.req.queue = Empty THEN <<>> ELSE PiecesOf(x.req.queue)
  <2>1. x.req.queue # Empty => PiecesOf(x.req.queue) \in Seq(Pieces)
    BY PiecesOfBody DEF Accounted
  <2> DEFINE queued == IF x.req.queue = Empty THEN <<>> ELSE PiecesOf(x.req.queue)
  <2>2. queued \in Seq(Pieces)
    BY <2>1
  <2> HIDE DEF queued
  <2>3. \E other \in Seq(Pieces) : other = queued
    BY <2>2
  <2> QED BY <2>3 DEF queued
<1>7. Account(x) = kept \o queued /\ Account(y) = kept \o <<>>
  BY <1>2, <1>3, <1>4, <1>6 DEF Account
<1>8. PICK all : all = r[Len(body)]
  OBVIOUS
<1>9. PICK rest \in Seq(Pieces) : (kept \o queued) \o rest = all
  <2>1. AcceptedBy(x) \in 0..Len(body)
    <3>1. Len(body) \in Nat /\ x.req.next \in Nat /\ x.req.next # 0
      BY <1>1 DEF BodyInv, Slots, Accounted
    <3> QED BY <3>1 DEF AcceptedBy
  <2>2. \E rest \in Seq(Pieces) : Account(x) \o rest = r[Len(body)]
    BY <2>1, ReceiptGrows DEF Accounted
  <2> QED BY <1>7, <1>8, <2>2
<1>10. queued \o rest \in Seq(Pieces) /\ (kept \o queued) \o rest = kept \o (queued \o rest)
  <2>1. kept \in Seq(Pieces) /\ queued \in Seq(Pieces) /\ rest \in Seq(Pieces)
    BY <1>5, <1>6, <1>9
  <2>2. (kept \o queued) \o rest = kept \o (queued \o rest)
    BY <2>1, Joined
  <2> QED BY <2>1, <2>2
<1>11. Account(y) = kept
  BY <1>5, <1>7
<1>12. \E after \in Seq(Pieces) : Account(y) \o after = r[Len(body)]
  BY <1>8, <1>9, <1>10, <1>11
<1>13. Accounted(y, r)
  BY <1>2, <1>3, <1>12 DEF Accounted
<1> QED BY <1>13 DEF y
-----------------------------------------------------------------------------
\* Every step keeps the account.

LEMMA InitPieces == Init => PiecesInv
<1> SUFFICES ASSUME Init PROVE PiecesInv
  OBVIOUS
<1>1. BodyInv
  BY InitInv DEF InputInv
<1>2. PICK r : Receipt(r)
  BY <1>1, ReceiptExists
<1>3. /\ req.next = 1 /\ req.queue = Empty /\ req.pending = <<>> /\ ~req.terminal
      /\ ~req.ended /\ handed = <<>>
  BY DEF Init
<1>4. r[0] = <<>> /\ Len(body) \in Nat
  BY <1>1, <1>2 DEF Receipt, ReceiptTo, BodyInv
<1>5. Account(Now) = <<>>
  <2>1. Account(Now) = (<<>> \o <<>>) \o <<>>
    BY <1>3, NowFields DEF Account
  <2> QED BY <2>1
<1>6. AcceptedBy(Now) = 0
  BY <1>3, <1>4, NowFields DEF AcceptedBy
<1>7. Accounted(Now, r)
  BY <1>3, <1>4, <1>5, <1>6, NowFields DEF Accounted
<1> QED BY <1>2, <1>7 DEF PiecesInv

\* A handler's result becomes the state.
LEMMA BecomeAccounted ==
  ASSUME NEW r, Receipt(r), NEW x, Accounted(x, r), Become(x), body' = body
  PROVE  PiecesInv'
<1>1. Now'.req = x.req /\ Now'.handed = x.handed
  BY DEF Become, Now
<1>2. SamePlaces(x, Now')
  BY <1>1 DEF SamePlaces
<1>3. Accounted(Now', r)
  BY <1>2, SameAccount
<1>4. Receipt(r)'
  BY DEF Receipt, ReceiptTo, PiecesOf, HeadOf, TailOf
<1>5. Accounted(Now, r)'
  BY <1>3 DEF Accounted, Account, AcceptedBy, PiecesOf, HeadOf, TailOf
<1> QED BY <1>4, <1>5 DEF PiecesInv

\* A method that changes other slots, and then may drain
LEMMA EditAccounted ==
  ASSUME InputInv, NEW r, Receipt(r), Accounted(Now, r),
         NEW x, Good(x, closed), SamePlaces(Now, x),
         Become(x) \/ Become(Drain(x)), body' = body
  PROVE  PiecesInv'
<1>1. BodyInv /\ closed \in BOOLEAN
  BY DEF InputInv, BodyInv
<1>2. Accounted(x, r)
  BY SameAccount
<1>3. Accounted(Drain(x), r)
  BY <1>1, <1>2, DrainAccounted
<1> QED BY <1>2, <1>3, BecomeAccounted

\* The methods that change a slot of the request or a listener count
Edited(q, l) ==
  /\ q \in Slots /\ l \in [data : Nat, other : Nat] /\ l.data + l.other <= MaxListeners
  /\ Alike(q, req) /\ q.next = req.next /\ q.started = req.started
  /\ q.encoding = req.encoding \/ ~req.started

LEMMA EditPieces ==
  ASSUME InputInv, PiecesInv, NEW q, NEW l, Edited(q, l),
         NEW x, x = Edit(q, l),
         Become(x) \/ Become(Drain(x)), body' = body
  PROVE  PiecesInv'
<1>1. PICK r : Receipt(r) /\ Accounted(Now, r)
  BY DEF PiecesInv
<1>2. Good(x, closed) /\ x.req = q /\ x.handed = handed
  BY EditKeeps DEF Edited
<1>3. SamePlaces(Now, x)
  BY <1>2, NowFields DEF SamePlaces, Edited, Alike
<1> QED BY <1>1, <1>2, <1>3, EditAccounted

LEMMA PausePieces ==
  ASSUME InputInv, PiecesInv, Pause \/ Resume \/ \E encoding \in Encodings : SetEncoding(encoding)
  PROVE  PiecesInv'
<1>1. /\ req \in Slots /\ listeners \in [data : Nat, other : Nat]
      /\ listeners.data + listeners.other <= MaxListeners
      /\ body' = body
  BY NowTypes DEF Pause, Resume, SetEncoding
<1>2. CASE Pause
  <2> DEFINE q == [req EXCEPT !.paused = TRUE]
             x == [Now EXCEPT !.req.paused = TRUE]
  <2>1. Edited(q, listeners)
    BY <1>1 DEF Slots, Edited, Alike
  <2>2. x = Edit(q, listeners)
    BY NowTypes, NowFields DEF Edit, States
  <2>3. Become(x)
    BY <1>2 DEF Pause
  <2> HIDE DEF q, x
  <2> QED BY <1>1, <2>1, <2>2, <2>3, EditPieces
<1>3. CASE Resume
  <2> DEFINE q == [req EXCEPT !.paused = FALSE, !.flowing = TRUE]
             x == [Now EXCEPT !.req.paused = FALSE, !.req.flowing = TRUE]
  <2>1. Edited(q, listeners)
    BY <1>1 DEF Slots, Edited, Alike
  <2>2. x = Edit(q, listeners)
    BY NowTypes, NowFields DEF Edit, States
  <2>3. Become(Drain(x))
    BY <1>3 DEF Resume
  <2> HIDE DEF q, x
  <2> QED BY <1>1, <2>1, <2>2, <2>3, EditPieces
<1>4. ASSUME NEW encoding \in Encodings, SetEncoding(encoding) PROVE PiecesInv'
  <2> DEFINE q == [req EXCEPT !.encoding = encoding]
             x == [Now EXCEPT !.req.encoding = encoding]
  <2>1. ~req.started /\ Become(x)
    BY <1>4 DEF SetEncoding
  <2>2. Edited(q, listeners)
    BY <1>1, <2>1 DEF Slots, Edited, Alike
  <2>3. x = Edit(q, listeners)
    BY NowTypes, NowFields DEF Edit, States
  <2> HIDE DEF q, x
  <2> QED BY <1>1, <2>1, <2>2, <2>3, EditPieces
<1> QED BY <1>2, <1>3, <1>4

LEMMA ListenerPieces ==
  ASSUME InputInv, PiecesInv,
         OnData \/ OnDataRejected \/ OnOther \/ \E kind \in {"data", "other"} : Off(kind)
  PROVE  PiecesInv'
<1>1. /\ req \in Slots /\ listeners \in [data : Nat, other : Nat]
      /\ listeners.data + listeners.other <= MaxListeners
      /\ body' = body
  BY NowTypes DEF OnData, OnDataRejected, OnOther, Off
<1> DEFINE flowing == [req EXCEPT !.flowing = TRUE]
<1>2. PICK q, l : /\ Edited(q, l)
                  /\ \/ Become(Edit(q, l))
                     \/ Become(Drain(Edit(q, l)))
  <2>1. \A l \in [data : Nat, other : Nat] :
          l.data + l.other <= MaxListeners => Edited(flowing, l) /\ Edited(req, l)
    BY <1>1 DEF Slots, Edited, Alike
  <2> HIDE DEF flowing
  <2>2. CASE OnData
    <3> DEFINE l == [listeners EXCEPT !.data = @ + 1]
    <3>1. l \in [data : Nat, other : Nat] /\ l.data + l.other <= MaxListeners
      BY <1>1, <2>2, HttpInputAssumption DEF OnData, HasRoom
    <3>2. [Now EXCEPT !.req.flowing = TRUE, !.listeners.data = @ + 1]
            = Edit(flowing, l)
      BY NowTypes, NowFields DEF Edit, States, flowing
    <3>3. Become(Drain(Edit(flowing, l)))
      BY <2>2, <3>2 DEF OnData
    <3> QED BY <2>1, <3>1, <3>3
  <2>3. CASE OnDataRejected
    <3>1. [Now EXCEPT !.req.flowing = TRUE] = Edit(flowing, listeners)
      BY NowTypes, NowFields DEF Edit, States, flowing
    <3>2. Become(Edit(flowing, listeners))
      BY <2>3, <3>1 DEF OnDataRejected
    <3> QED BY <1>1, <2>1, <3>2
  <2>4. CASE OnOther
    <3> DEFINE l == [listeners EXCEPT !.other = @ + 1]
    <3>1. l \in [data : Nat, other : Nat] /\ l.data + l.other <= MaxListeners
      BY <1>1, <2>4, HttpInputAssumption DEF OnOther, HasRoom
    <3>2. [Now EXCEPT !.listeners.other = @ + 1] = Edit(req, l)
      BY NowTypes, NowFields DEF Edit, States
    <3>3. Become(Edit(req, l))
      BY <2>4, <3>2 DEF OnOther
    <3> QED BY <2>1, <3>1, <3>3
  <2>5. ASSUME NEW kind \in {"data", "other"}, Off(kind)
        PROVE  \E l : /\ Edited(req, l)
                      /\ Become(Edit(req, l))
    <3> DEFINE l == [listeners EXCEPT ![kind] = @ - 1]
    <3>1. l \in [data : Nat, other : Nat] /\ l.data + l.other <= MaxListeners
      BY <1>1, <2>5, HttpInputAssumption DEF Off
    <3>2. [Now EXCEPT !.listeners[kind] = @ - 1] = Edit(req, l)
      BY NowTypes, NowFields DEF Edit, States
    <3>3. Become(Edit(req, l))
      BY <2>5, <3>2 DEF Off
    <3> QED BY <2>1, <3>1, <3>3
  <2> QED BY <2>2, <2>3, <2>4, <2>5
<1> DEFINE x == Edit(q, l)
<1>3. x = Edit(q, l) /\ (Become(x) \/ Become(Drain(x)))
  BY <1>2
<1> HIDE DEF x
<1> QED BY <1>1, <1>2, <1>3, EditPieces

LEMMA ReadPieces ==
  ASSUME InputInv, PiecesInv, Read PROVE PiecesInv'
<1>1. PICK r : Receipt(r) /\ Accounted(Now, r)
  BY DEF PiecesInv
<1>2. Good(Now, closed) /\ BodyInv /\ closed \in BOOLEAN /\ body' = body
  BY DEF InputInv, BodyInv, Read
<1>3. CASE req.queue = Empty
  <2>1. Become(Finish(Now)) /\ Finish(Now) = Now
    BY <1>2, <1>3, FinishIdle DEF Read
  <2> QED BY <1>1, <1>2, <2>1, BecomeAccounted
<1>4. CASE req.queue # Empty
  <2>1. Now.req.queue # Empty
    BY <1>4, NowFields
  <2>2. Good(HandedOver(Now), closed) /\ Accounted(HandedOver(Now), r)
    BY <1>1, <1>2, <2>1, HandingKeeps, HandingAccounted
  <2>3. Become(Finish(HandedOver(Now)))
    BY <1>4 DEF Read, HandedOver
  <2>4. Become(HandedOver(Now))
    BY <2>2, <2>3, FinishIdle
  <2> QED BY <1>1, <1>2, <2>2, <2>4, BecomeAccounted
<1> QED BY <1>3, <1>4

LEMMA ReturnPieces ==
  ASSUME InputInv, PiecesInv, ListenersReturn \/ ListenerThrows PROVE PiecesInv'
<1> DEFINE y == [Now EXCEPT !.calls = Tail(@)]
           then == Head(calls).then
<1>1. PICK r : Receipt(r) /\ Accounted(Now, r)
  BY DEF PiecesInv
<1>2. /\ Good(Now, closed) /\ BodyInv /\ closed \in BOOLEAN /\ body' = body /\ calls # <<>>
      /\ Become(Continue(y, then)) \/ Become(y)
  BY DEF InputInv, BodyInv, ListenersReturn, ListenerThrows
<1>3. Good(y, closed) /\ y.req = req /\ y.handed = handed
  BY <1>2, PopKeeps, NowFields
<1>4. then \in {"return", "finish", "drain", "end", "requestClose", "responseClose"}
  <2>1. calls \in Seq(Frames)
    BY <1>2, NowFields DEF Good, Typed, States
  <2>2. Head(calls) \in Frames
    BY <1>2, <2>1, HeadTailProperties
  <2> QED BY <2>2 DEF Frames
<1> HIDE DEF y, then
<1>5. SamePlaces(Now, y)
  BY <1>3, NowFields DEF SamePlaces
<1>6. Accounted(y, r) /\ y \in States
  BY <1>1, <1>3, <1>5, SameAccount DEF Good, Typed
<1>7. CASE Become(y)
  BY <1>1, <1>2, <1>6, <1>7, BecomeAccounted
<1>8. CASE Become(Continue(y, then))
  <2>1. Finish(y) = y /\ Accounted(Drain(y), r)
    BY <1>1, <1>2, <1>3, <1>6, FinishIdle, DrainAccounted
  <2>2. \A event, next : Accounted(Announce(y, event, next), r)
    BY <1>6, CallPlaces, SameAccount
  <2>3. Accounted(Continue(y, then), r)
    <3>1. CASE then \in {"return", "finish"}
      <4>1. Continue(y, then) = y
        BY <2>1, <3>1 DEF Continue
      <4> QED BY <1>6, <4>1
    <3>2. CASE then = "drain"
      <4>1. Continue(y, then) = Drain(y)
        BY <3>2 DEF Continue
      <4> QED BY <2>1, <4>1
    <3>3. CASE then \in {"end", "requestClose", "responseClose"}
      <4>1. \E event, next : Continue(y, then) = Announce(y, event, next)
        BY <3>3 DEF Continue, EmitEnd, RequestClose
      <4> QED BY <2>2, <4>1
    <3> QED BY <1>4, <3>1, <3>2, <3>3
  <2> QED BY <1>1, <1>2, <1>8, <2>3, BecomeAccounted
<1> QED BY <1>2, <1>7, <1>8

\* A chunk is accepted in its turn, while nothing is queued.
LEMMA DataPieces ==
  ASSUME InputInv, PiecesInv, NEW k \in 1..Len(body), Data(k) PROVE PiecesInv'
<1> DEFINE q == [req EXCEPT !.queue = k, !.started = TRUE, !.next = @ + 1]
           x == [Now EXCEPT !.req.queue = k, !.req.started = TRUE, !.req.next = @ + 1]
<1>1. PICK r : Receipt(r) /\ Accounted(Now, r)
  BY DEF PiecesInv
<1>2. /\ Good(Now, closed) /\ BodyInv /\ closed \in BOOLEAN /\ body' = body
      /\ k = req.next /\ req.queue = Empty /\ ~req.terminal /\ ~req.ended
  BY OpenIsQuiet DEF InputInv, BodyInv, Data, InSequence
<1>3. req \in Slots /\ Now \in States /\ handed \in Seq(Pieces) /\ req.pending \in Seq(Pieces)
  BY NowTypes, NowFields DEF States, Slots
<1>4. /\ q.queue = k /\ q.next = k + 1 /\ q.started = TRUE /\ q.pending = req.pending
      /\ q.ended = req.ended /\ q.terminal = req.terminal /\ q.encoding = req.encoding
  BY <1>2, <1>3 DEF Slots
<1>5. /\ q \in Slots /\ q.eof = req.eof /\ q.consumed = req.consumed
  <2>1. k \in 0..MaxChunks /\ req.next + 1 \in Nat
    BY <1>2, <1>3, HttpInputAssumption DEF BodyInv, Slots
  <2> QED BY <1>3, <2>1 DEF Slots
<1>6. x = [Now EXCEPT !.req = q]
  BY <1>3, NowFields DEF States
<1>7. Become(IF req.flowing THEN Drain(x) ELSE Call(x, "readable", "drain"))
  BY DEF Data
<1> HIDE DEF q, x
<1>8. /\ x \in States /\ x.req = q /\ x.listeners = Now.listeners
      /\ x.calls = Now.calls /\ x.handed = handed /\ x.log = Now.log
  BY <1>3, <1>5, <1>6, NowFields DEF States
<1>9. Good(x, closed)
  <2>1. Typed(x) /\ ConsumedInv(x)
    BY <1>2, <1>4, <1>5, <1>8, NowFields DEF Good, Typed, ConsumedInv
  <2>2. OutcomeInv(x)
    BY <1>2, <1>4, <1>5, <1>8, NowFields DEF Good, OutcomeInv
  <2>3. LogInv(x, closed)
    BY <1>2, <1>4, <1>8, NowFields DEF Good, LogInv, Left, OutermostAnnounces
  <2> QED BY <2>1, <2>2, <2>3 DEF Good
<1>10. Accounted(x, r)
  <2>1. Len(body) \in Nat /\ k \in Nat /\ k # 0 /\ k <= Len(body)
    BY <1>2 DEF BodyInv
  <2>2. AcceptedBy(Now) = k - 1 /\ AcceptedBy(x) = k
    BY <1>2, <1>4, <1>8, <2>1, NowFields DEF AcceptedBy
  <2>3. r[k] = r[k - 1] \o PiecesOf(k)
    BY <1>1 DEF Receipt, ReceiptTo
  <2>4. Account(Now) = handed \o req.pending
    <3>1. Account(Now) = (handed \o req.pending) \o <<>>
      BY <1>2, NowFields DEF Account
    <3>2. handed \o req.pending \in Seq(Pieces)
      BY <1>3
    <3> QED BY <3>1, <3>2
  <2>5. Account(Now) = r[k - 1]
    BY <1>1, <1>2, <2>2, NowFields DEF Accounted
  <2>6. Account(x) = (handed \o req.pending) \o PiecesOf(k)
    <3>1. k # Empty
      BY <2>1 DEF Empty
    <3> QED BY <1>2, <1>4, <1>8, <3>1 DEF Account
  <2>7. Account(x) = r[AcceptedBy(x)]
    BY <2>2, <2>3, <2>4, <2>5, <2>6
  <2>8. x.req.next # 0
    BY <1>4, <1>8, <2>1
  <2>9. x.req.pending # <<>> => x.req.encoding = "utf8"
    BY <1>1, <1>4, <1>8, NowFields DEF Accounted
  <2> QED BY <1>2, <1>4, <1>8, <2>7, <2>8, <2>9 DEF Accounted
<1>11. Accounted(Drain(x), r)
  BY <1>1, <1>2, <1>9, <1>10, DrainAccounted
<1>12. Accounted(Call(x, "readable", "drain"), r)
  BY <1>8, <1>10, CallPlaces, SameAccount
<1> QED BY <1>1, <1>2, <1>7, <1>11, <1>12, BecomeAccounted

LEMMA EndPieces ==
  ASSUME InputInv, PiecesInv, End PROVE PiecesInv'
<1> DEFINE q == [req EXCEPT !.eof = TRUE, !.next = @ + 1]
           x == [Now EXCEPT !.req.eof = TRUE, !.req.next = @ + 1]
<1>1. PICK r : Receipt(r) /\ Accounted(Now, r)
  BY DEF PiecesInv
<1>2. /\ Good(Now, closed) /\ BodyInv /\ closed \in BOOLEAN /\ body' = body
      /\ req.next = Len(body) + 1 /\ req.queue = Empty /\ req.eof = FALSE
      /\ ~req.terminal /\ ~req.ended /\ calls = <<>>
  BY OpenIsQuiet, NowTypes DEF InputInv, BodyInv, End, InSequence, Idle, Open, Slots
<1>3. q \in Slots
  <2>1. req \in Slots
    BY NowTypes
  <2>2. req.next + 1 \in Nat
    BY <2>1 DEF Slots
  <2> QED BY <2>1, <2>2 DEF Slots
<1>4. x = [Now EXCEPT !.req = q] /\ q = [Now.req EXCEPT !.eof = TRUE, !.next = @ + 1]
  BY NowTypes, NowFields DEF States
<1>5. Become(Drain(x))
  BY DEF End
<1> HIDE DEF q, x
<1>6. Drain(x) = Finish(x) /\ Accounted(Finish(x), r)
  <2> DEFINE n == Now
  <2>1. /\ Good(n, closed) /\ n.calls = <<>> /\ ~n.req.ended /\ ~n.req.terminal
        /\ n.req.queue = Empty /\ n.req.next = Len(body) + 1 /\ n.req.eof = FALSE
        /\ q = [n.req EXCEPT !.eof = TRUE, !.next = @ + 1]
        /\ Accounted(n, r) /\ n \in States
    BY <1>1, <1>2, <1>4, NowFields, NowTypes
  <2>2. x = [n EXCEPT !.req = q]
    BY <1>4
  <2> HIDE DEF n
  <2>3. Drain([n EXCEPT !.req = q]) = Finish([n EXCEPT !.req = q])
    BY <1>2, <1>3, <2>1, FinishKeeps
  <2>4. Accounted(Finish([n EXCEPT !.req = q]), r)
    BY <1>1, <1>2, <1>3, <2>1, EndAccounted
  <2> QED BY <2>2, <2>3, <2>4
<1> QED BY <1>1, <1>2, <1>5, <1>6, BecomeAccounted

LEMMA ClosePieces ==
  ASSUME InputInv, PiecesInv, Close \/ \E event \in {"aborted", "error"} : Fail(event)
  PROVE  PiecesInv'
<1>1. PICK r : Receipt(r) /\ Accounted(Now, r)
  BY DEF PiecesInv
<1>2. BodyInv /\ body' = body /\ Now \in States
  BY NowTypes DEF InputInv, Close, Fail
<1>3. req.next \in Nat \ {0} /\ req.next + 1 \in Nat \ {0}
  <2>1. req.next \in Nat /\ req.next # 0
    BY <1>1, NowTypes, NowFields DEF Accounted, Slots
  <2> QED BY <2>1
<1> DEFINE y(n) == Terminated([Now EXCEPT !.req.next = n])
<1>4. PICK n \in Nat \ {0} : \E event, then : Become(Announce(y(n), event, then))
  <2>1. CASE Close
    <3>1. [Now EXCEPT !.req.next = req.next] = Now
      BY NowTypes, NowFields DEF States, Slots
    <3>2. y(req.next) = Terminated(Now)
      BY <3>1
    <3>3. \E event, then : Become(Announce(Terminated(Now), event, then))
      BY <2>1 DEF Close, RequestClose
    <3> QED BY <1>3, <3>2, <3>3
  <2>2. ASSUME NEW event \in {"aborted", "error"}, Fail(event)
        PROVE  Become(Announce(y(req.next + 1), event, "return"))
    BY <2>2, NowFields DEF Fail
  <2> QED BY <1>3, <2>1, <2>2
<1> DEFINE z == y(n)
<1>5. z \in States
  <2>1. req \in Slots /\ Empty \in 0..MaxChunks
    BY NowTypes, HttpInputAssumption DEF Empty
  <2>2. [req EXCEPT !.next = n, !.terminal = TRUE, !.queue = Empty] \in Slots
    BY <2>1 DEF Slots
  <2>3. z = [Now EXCEPT !.req = [req EXCEPT !.next = n, !.terminal = TRUE, !.queue = Empty]]
    BY <1>2, NowFields DEF Terminated, States
  <2> QED BY <1>2, <2>2, <2>3 DEF States
<1>6. Accounted(z, r)
  <2> DEFINE s == Now
  <2>1. s \in States /\ Accounted(s, r)
    BY <1>1, <1>2
  <2> HIDE DEF s
  <2>2. Accounted(Terminated([s EXCEPT !.req.next = n]), r)
    BY <1>1, <1>2, <2>1, TerminatedAccounted
  <2> QED BY <2>2 DEF s
<1> HIDE DEF z
<1>7. PICK event, then : Become(Announce(z, event, then))
  BY <1>4 DEF z
<1>8. Accounted(Announce(z, event, then), r)
  BY <1>5, <1>6, CallPlaces, SameAccount
<1> QED BY <1>1, <1>2, <1>7, <1>8, BecomeAccounted

LEMMA PiecesStep ==
  ASSUME InputInv, PiecesInv, [Next]_vars PROVE PiecesInv'
<1>1. CASE UserNext
  BY <1>1, PausePieces, ListenerPieces, ReadPieces, ReturnPieces DEF UserNext
<1>2. CASE HostNext
  BY <1>2, DataPieces, EndPieces, ClosePieces DEF HostNext
<1>3. CASE UNCHANGED vars
  <2>1. PICK r : Receipt(r) /\ Accounted(Now, r)
    BY DEF PiecesInv
  <2>2. Become(Now) /\ body' = body
    BY <1>3, NowFields DEF vars, Become
  <2> QED BY <2>1, <2>2, BecomeAccounted
<1> QED BY <1>1, <1>2, <1>3 DEF Next

\* Whatever listeners do from inside one another and whenever the input ends,
\* fails or is closed, every piece of a body of any length is in one place and in
\* order: handed over, half decoded, or queued; only the last may be dropped.
THEOREM InputPiecesKept == Spec => []PiecesKeptInOrder
<1>1. InputInv /\ PiecesInv => PiecesKeptInOrder
  <2> SUFFICES ASSUME InputInv, PiecesInv PROVE PiecesKeptInOrder
    OBVIOUS
  <2>1. TypeOK /\ BodyInv /\ Now \in States
    BY NowIsTyped, NowTypes DEF InputInv, BodyInv, Good
  <2>2. PICK r : Receipt(r) /\ Accounted(Now, r)
    BY DEF PiecesInv
  <2> DEFINE account == handed \o Undecoded \o Queued
  <2>3. account = Account(Now)
    BY NowFields DEF Account, Undecoded, Queued
  <2>4. account \in Seq(Pieces)
    <3>1. handed \in Seq(Pieces) /\ Undecoded \in Seq(Pieces)
      BY <2>1 DEF TypeOK, Slots, Undecoded
    <3>2. Queued \in Seq(Pieces)
      BY <2>1, <2>2, NowFields, PiecesOfBody DEF Queued, Accounted
    <3> QED BY <3>1, <3>2
  <2> HIDE DEF account
  <2>5. Len(body) \in Nat /\ Len(body) \in 0..Len(body)
    BY <2>1 DEF BodyInv
  <2>6. CASE req.terminal
    <3>1. PICK rest \in Seq(Pieces) : account \o rest = Received(Len(body))
      BY <2>1, <2>2, <2>3, <2>5, <2>6, NowFields, ReceivedIs DEF Accounted
    <3>2. IsPrefix(account, account \o rest)
      BY <2>4, <3>1 DEF IsPrefix
    <3> QED BY <2>1, <2>6, <3>1, <3>2 DEF PiecesKeptInOrder, account
  <2>7. CASE ~req.terminal
    <3>1. Accepted = AcceptedBy(Now)
      BY NowFields DEF Accepted, AcceptedBy
    <3>2. Accepted \in 0..Len(body)
      <4>1. req.next \in Nat /\ req.next # 0
        BY <2>2, NowTypes, NowFields DEF Accounted, Slots
      <4> QED BY <2>5, <4>1 DEF Accepted
    <3>3. Received(Accepted) = r[Accepted]
      BY <2>1, <2>2, <3>2, ReceivedIs
    <3>4. account = r[Accepted]
      BY <2>2, <2>3, <2>7, <3>1, NowFields DEF Accounted
    <3> QED BY <2>1, <2>7, <3>3, <3>4 DEF PiecesKeptInOrder, account
  <2> QED BY <2>6, <2>7
<1>2. InputInv /\ PiecesInv /\ [Next]_vars => InputInv' /\ PiecesInv'
  BY InputStep, PiecesStep
<1>3. Init => InputInv /\ PiecesInv
  BY InitInv, InitPieces
<1> QED BY <1>1, <1>2, <1>3, PTL DEF Spec
=============================================================================
