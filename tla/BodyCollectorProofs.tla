------------------------ MODULE BodyCollectorProofs ------------------------
(***************************************************************************)
(* What the body collector keeps for every body, limit, number of          *)
(* middleware calls and room for listeners, whoever throws: its types,     *)
(* that what is parsed is all the collector was given of a body that has   *)
(* ended, that no call is answered twice, and that a collection leaves     *)
(* nothing behind.                                                         *)
(*                                                                         *)
(* The callbacks are functions on states (Now and Become), so the          *)
(* invariant is a predicate on a state, n middleware calls into the        *)
(* request and with the first `left` chunks out of the queue.              *)
(***************************************************************************)
EXTENDS BodyCollector, FiniteSetTheorems, SequenceTheorems, TLAPS

Collectors == [listening : SUBSET Events, chunks : Seq(1..MaxChunks)]

States == [input : Inputs, marker : CallIds \union {Done, None},
           collectors : [CallIds -> Collectors], answers : [CallIds -> Seq(Answers)],
           parsed : Seq(1..MaxChunks) \union {None}, stranded : SUBSET CallIds,
           missed : SUBSET (Events \X (0..MaxChunks)), thrown : BOOLEAN]

\* How many chunks have left the queue
Left(in) == IF in.queue = 0 THEN in.taken ELSE in.taken - 1

\* Chunks come one at a time, of a streamed body, and the first is not gone
\* unnoticed.
InputInv(in) ==
  /\ in \in Inputs
  /\ in.queue \in {0, in.taken}
  /\ in.taken <= Len(request.body)
  /\ ~request.streamed => in.taken = 0
  /\ ~in.terminal /\ ~in.consumed => Left(in) = 0

\* Only the call that holds the marker has listeners or chunks, and all its
\* callbacks are made unless it is stranded; calls that have not been made have
\* nothing; only a streamed body is collected.
HolderInv(x, n) ==
  /\ \A c \in CallIds : x.collectors[c] # Idle => x.marker = c
  /\ \A c \in CallIds : c > n => /\ x.answers[c] = <<>> /\ x.marker # c
                                 /\ c \notin x.stranded
  /\ x.marker \in CallIds => request.streamed
  /\ \A c \in CallIds : x.marker = c /\ c \notin x.stranded => AllMade(x, c)
  /\ \A c \in CallIds :
       x.collectors[c].listening # {} => "data" \in x.collectors[c].listening

\* The chunks are those of S that were not missed, in order.
Rising(s) == \A i, j \in DOMAIN s : i < j => s[i] < s[j]
Heard(x, chunks, S) ==
  /\ Rising(chunks)
  /\ ToSet(chunks) = {k \in S : <<"data", k>> \notin x.missed}

\* A chunk is missed when it leaves the queue, and a collector that listens has
\* kept all that have left but those.
KeptInv(x, left) ==
  /\ \A k \in 0..MaxChunks : <<"data", k>> \in x.missed => k <= left
  /\ \A c \in CallIds :
       ~x.input.terminal /\ "data" \in x.collectors[c].listening =>
         Heard(x, x.collectors[c].chunks, 1..left)

WholeInv(x) ==
  x.parsed # None =>
    /\ x.marker = Done
    /\ Heard(x, x.parsed, DOMAIN request.body)
    /\ request.streamed => x.input.ended
    /\ Bytes(SizesOf(x.parsed)) <= Limit /\ request.valid

\* Who is answered has given up the marker, and whoever parses leaves the
\* marker that stops the others.
OnceInv(x) ==
  /\ \A c \in CallIds : Len(x.answers[c]) <= 1
  /\ \A c \in CallIds : x.marker = c => x.answers[c] = <<>>
  /\ \A c \in CallIds : x.answers[c] = <<"parsed">> => x.marker = Done
  /\ \A c, d \in CallIds :
       x.answers[c] = <<"parsed">> /\ x.answers[d] = <<"parsed">> => c = d

Good(x, n, left) ==
  /\ x \in States /\ InputInv(x.input)
  /\ HolderInv(x, n) /\ KeptInv(x, left) /\ WholeInv(x) /\ OnceInv(x)

\* A chunk waits only while the input may not flow.
Waits(in) == in.queue # 0 => in.paused \/ ~in.flowing

RequestInv ==
  /\ request \in Requests /\ responseEnded \in BOOLEAN /\ closed \in BOOLEAN
  /\ calls \in 0..MaxCalls

CollectorInv == RequestInv /\ Good(Now, calls, Left(input)) /\ Waits(input)

-----------------------------------------------------------------------------
\* Constants and fields

LEMMA BodyIsSequence ==
  ASSUME RequestInv
  PROVE  /\ Len(request.body) \in Nat /\ Len(request.body) <= MaxChunks
         /\ DOMAIN request.body = 1..Len(request.body)
         /\ AllChunks \in Seq(1..MaxChunks) /\ Rising(AllChunks)
         /\ ToSet(AllChunks) = DOMAIN request.body
<1>1. PICK m \in 0..MaxChunks : request.body \in [1..m -> Sizes]
  BY DEF RequestInv, Requests, Bodies
<1>2. MaxChunks \in Nat /\ m \in Nat /\ m <= MaxChunks
  BY <1>1, BodyCollectorAssumption
<1>3. Len(request.body) = m /\ DOMAIN request.body = 1..m
  BY <1>1, <1>2
<1>4. AllChunks = [i \in 1..m |-> i]
  BY <1>3 DEF AllChunks
<1>5. AllChunks \in [1..m -> 1..MaxChunks]
  BY <1>2, <1>4
<1>6. AllChunks \in Seq(1..MaxChunks)
  BY <1>2, <1>5
<1>7. Rising(AllChunks) /\ ToSet(AllChunks) = 1..m
  BY <1>4 DEF Rising, ToSet
<1> QED BY <1>2, <1>3, <1>6, <1>7

LEMMA NowFields ==
  /\ Now.input = input /\ Now.marker = marker /\ Now.collectors = collectors
  /\ Now.answers = answers /\ Now.parsed = parsed /\ Now.stranded = stranded
  /\ Now.missed = missed /\ Now.thrown = FALSE
BY DEF Now

LEMMA MarkersDiffer ==
  /\ Done \notin CallIds /\ None \notin CallIds /\ Done # None
  /\ CallIds \subseteq Nat /\ MaxCalls \in Nat
BY BodyCollectorAssumption DEF CallIds

LEMMA IdleIsCollector == Idle \in Collectors /\ Idle.listening = {} /\ Idle.chunks = <<>>
BY DEF Idle, Collectors

-----------------------------------------------------------------------------
\* The functions the callbacks are made of, field by field

\* All but the collectors, the answers and the marker
SameRest(x, y) ==
  /\ y.input = x.input /\ y.parsed = x.parsed /\ y.stranded = x.stranded
  /\ y.missed = x.missed

LEMMA CleanupWhole ==
  ASSUME NEW x \in States, NEW c \in CallIds, AllMade(x, c)
  PROVE  LET y == Cleanup(x, c)
         IN /\ y \in States /\ SameRest(x, y) /\ y.marker = None
            /\ y.collectors = [x.collectors EXCEPT ![c] = Idle]
            /\ y.answers = x.answers /\ y.thrown = x.thrown
<1>1. [x.collectors EXCEPT ![c] = Idle] \in [CallIds -> Collectors]
  BY IdleIsCollector DEF States
<1> QED BY <1>1 DEF Cleanup, States, SameRest

LEMMA CleanupCut ==
  ASSUME NEW x \in States, NEW c \in CallIds, ~AllMade(x, c)
  PROVE  LET y == Cleanup(x, c)
         IN /\ y \in States /\ SameRest(x, y) /\ y.marker = x.marker
            /\ y.answers = x.answers /\ y.thrown
            /\ y.collectors[c].listening = {}
            /\ \A d \in CallIds : d # c => y.collectors[d] = x.collectors[d]
<1> DEFINE new == [x.collectors[c] EXCEPT !.listening = {}]
<1>1. x.collectors \in [CallIds -> Collectors] /\ x.collectors[c] \in Collectors
  BY DEF States
<1>2. new \in Collectors /\ new.listening = {}
  BY <1>1 DEF Collectors
<1>3. Cleanup(x, c) = [x EXCEPT !.collectors = [x.collectors EXCEPT ![c] = new], !.thrown = TRUE]
  BY <1>1 DEF Cleanup, States
<1> HIDE DEF new
<1> DEFINE all == [x.collectors EXCEPT ![c] = new]
<1>4. /\ all \in [CallIds -> Collectors] /\ all[c] = new
      /\ \A d \in CallIds : d # c => all[d] = x.collectors[d]
  BY <1>1, <1>2
<1>5. Cleanup(x, c) = [x EXCEPT !.collectors = all, !.thrown = TRUE]
  BY <1>3
<1> HIDE DEF all
<1> QED BY <1>2, <1>4, <1>5 DEF States, SameRest

LEMMA AnswerShape ==
  ASSUME NEW x \in States, NEW c \in CallIds, NEW what \in Answers
  PROVE  LET y == Answer(x, c, what)
         IN /\ y \in States /\ SameRest(x, y) /\ y.marker = x.marker
            /\ y.collectors = x.collectors
            /\ y.answers[c] = Append(x.answers[c], what)
            /\ \A d \in CallIds : d # c => y.answers[d] = x.answers[d]
            /\ x.answers[c] = <<>> => y.answers[c] = <<what>>
<1>1. x.answers \in [CallIds -> Seq(Answers)] /\ x.answers[c] \in Seq(Answers)
  BY DEF States
<1>2. Append(x.answers[c], what) \in Seq(Answers)
  BY <1>1
<1>3. [x.answers EXCEPT ![c] = Append(x.answers[c], what)] \in [CallIds -> Seq(Answers)]
  BY <1>1, <1>2
<1>4. Append(<<>>, what) = <<what>>
  OBVIOUS
<1> QED BY <1>1, <1>3, <1>4 DEF Answer, States, SameRest

LEMMA MissedShape ==
  ASSUME NEW x \in States, NEW event \in Events, NEW k \in 0..MaxChunks
  PROVE  LET y == Missed(x, event, k)
         IN /\ y \in States /\ y.marker = x.marker /\ y.collectors = x.collectors
            /\ y.answers = x.answers /\ y.input = x.input /\ y.parsed = x.parsed
            /\ y.stranded = x.stranded /\ y.thrown = x.thrown
            /\ y.missed \in {x.missed, x.missed \union {<<event, k>>}}
            /\ \A c \in CallIds : event \in x.collectors[c].listening =>
                 y.missed = x.missed \union {<<event, k>>}
            /\ x.marker \notin CallIds /\ (\A c \in CallIds : x.collectors[c] = Idle) =>
                 y.missed = x.missed
<1>1. CASE Hearing(x, event) = {}
  BY <1>1 DEF Missed, Hearing
<1>2. CASE Hearing(x, event) # {}
  <2>1. x.missed \union {<<event, k>>} \in SUBSET (Events \X (0..MaxChunks))
    BY DEF States
  <2>2. Missed(x, event, k) = [x EXCEPT !.missed = x.missed \union {<<event, k>>}]
    BY <1>2 DEF Missed, States
  <2>3. ~ \A c \in CallIds : x.collectors[c] = Idle
    BY <1>2, IdleIsCollector DEF Hearing
  <2> QED BY <2>1, <2>2, <2>3 DEF States
<1> QED BY <1>1, <1>2

LEMMA ThrownShape ==
  ASSUME NEW x \in States
  PROVE  LET y == [x EXCEPT !.thrown = TRUE]
         IN /\ y \in States /\ SameRest(x, y) /\ y.marker = x.marker
            /\ y.collectors = x.collectors /\ y.answers = x.answers /\ y.thrown
BY DEF States, SameRest

LEMMA InputShape ==
  ASSUME NEW x \in States, NEW in \in Inputs
  PROVE  LET y == [x EXCEPT !.input = in]
         IN /\ y \in States /\ y.input = in /\ y.marker = x.marker
            /\ y.collectors = x.collectors /\ y.answers = x.answers
            /\ y.parsed = x.parsed /\ y.stranded = x.stranded /\ y.missed = x.missed
            /\ y.thrown = x.thrown
BY DEF States

-----------------------------------------------------------------------------
\* What does not disturb the invariant

\* A missed chunk is the one that leaves the queue; other events leave none.
LEMMA MissedKeeps ==
  ASSUME NEW n, NEW l \in Nat, NEW m \in Nat, NEW x, Good(x, n, l),
         NEW event \in Events, NEW k \in 0..MaxChunks,
         \/ m = l /\ k = 0
         \/ m = l /\ event # "data"
         \/ event = "data" /\ k = l + 1 /\ m = k
  PROVE  LET y == Missed(x, event, k)
         IN Good(y, n, m) /\ y.input = x.input /\ y.answers = x.answers /\ y.marker = x.marker
<1> DEFINE y == Missed(x, event, k)
<1>1. /\ y \in States /\ y.marker = x.marker /\ y.collectors = x.collectors
      /\ y.answers = x.answers /\ y.input = x.input /\ y.parsed = x.parsed
      /\ y.stranded = x.stranded
      /\ y.missed \in {x.missed, x.missed \union {<<event, k>>}}
      /\ \A c \in CallIds : event \in x.collectors[c].listening =>
           y.missed = x.missed \union {<<event, k>>}
      /\ x.marker \notin CallIds /\ (\A c \in CallIds : x.collectors[c] = Idle) =>
           y.missed = x.missed
  BY MissedShape DEF Good
<1> HIDE DEF y
<1>2. HolderInv(y, n) /\ OnceInv(y)
  BY <1>1 DEF Good, HolderInv, OnceInv, AllMade
<1>3. WholeInv(y)
  <2>1. SUFFICES ASSUME x.parsed # None PROVE WholeInv(y)
    BY <1>1 DEF WholeInv
  <2>2. x.marker \notin CallIds /\ \A c \in CallIds : x.collectors[c] = Idle
    BY <2>1, MarkersDiffer DEF Good, HolderInv, WholeInv
  <2>3. y.missed = x.missed
    BY <1>1, <2>2
  <2> QED BY <1>1, <2>3 DEF Good, WholeInv, Heard
<1>4. KeptInv(y, m)
  <2>1. \A j \in 0..MaxChunks : <<"data", j>> \in x.missed => j <= l
    BY DEF Good, KeptInv
  <2>2. \A j \in 0..MaxChunks : <<"data", j>> \in y.missed => j <= m
    BY <1>1, <2>1
  <2>3. ASSUME NEW c \in CallIds, ~x.input.terminal, "data" \in x.collectors[c].listening
        PROVE  Heard(y, x.collectors[c].chunks, 1..m)
    <3>1. Heard(x, x.collectors[c].chunks, 1..l)
      BY <2>3 DEF Good, KeptInv
    <3>2. {j \in 1..m : <<"data", j>> \notin y.missed}
            = {j \in 1..l : <<"data", j>> \notin x.missed}
      <4>1. CASE event = "data" /\ k = l + 1 /\ m = k
        <5>1. y.missed = x.missed \union {<<"data", k>>}
          BY <1>1, <2>3, <4>1
        <5> QED BY <4>1, <5>1
      <4>2. CASE m = l /\ (k = 0 \/ event # "data")
        BY <1>1, <4>2
      <4> QED BY <4>1, <4>2
    <3> QED BY <3>1, <3>2 DEF Heard
  <2> QED BY <1>1, <2>2, <2>3 DEF KeptInv
<1> QED BY <1>1, <1>2, <1>3, <1>4 DEF Good, y

LEMMA ThrownKeeps ==
  ASSUME NEW n, NEW l, NEW x, Good(x, n, l)
  PROVE  LET y == [x EXCEPT !.thrown = TRUE]
         IN /\ Good(y, n, l) /\ SameRest(x, y) /\ y.marker = x.marker
            /\ y.answers = x.answers
<1> DEFINE y == [x EXCEPT !.thrown = TRUE]
<1>1. /\ y \in States /\ SameRest(x, y) /\ y.marker = x.marker
      /\ y.collectors = x.collectors /\ y.answers = x.answers
  BY ThrownShape DEF Good
<1> HIDE DEF y
<1> QED
  BY <1>1 DEF Good, SameRest, HolderInv, AllMade, KeptInv, Heard, WholeInv, OnceInv, y

\* The input goes on; once it is terminated, no collector has to have anything.
LEMMA InputKeeps ==
  ASSUME NEW n, NEW l \in Nat, NEW m \in Nat, l <= m, NEW x, Good(x, n, l), NEW in, InputInv(in),
         x.input.ended => in.ended, x.input.terminal => in.terminal,
         m = l \/ in.terminal
  PROVE  LET y == [x EXCEPT !.input = in]
         IN /\ Good(y, n, m) /\ y.input = in /\ y.marker = x.marker
            /\ y.answers = x.answers /\ y.thrown = x.thrown
<1> DEFINE y == [x EXCEPT !.input = in]
<1>1. /\ y \in States /\ y.input = in /\ y.marker = x.marker
      /\ y.collectors = x.collectors /\ y.answers = x.answers
      /\ y.parsed = x.parsed /\ y.stranded = x.stranded /\ y.missed = x.missed
      /\ y.thrown = x.thrown
  BY InputShape DEF Good, InputInv
<1> HIDE DEF y
<1>2. HolderInv(y, n) /\ OnceInv(y) /\ WholeInv(y)
  BY <1>1 DEF Good, HolderInv, AllMade, OnceInv, WholeInv, Heard
<1>3. KeptInv(y, m)
  <2>1. \A j \in 0..MaxChunks : <<"data", j>> \in x.missed => j <= m
    BY DEF Good, KeptInv
  <2> QED BY <1>1, <2>1 DEF Good, KeptInv, Heard
<1> QED BY <1>1, <1>2, <1>3 DEF Good, y

\* Flags other than the ones an input is judged by may change.
LEMMA InputFlags ==
  ASSUME NEW in, NEW new, InputInv(in), new \in Inputs,
         new.queue = in.queue, new.taken = in.taken,
         new.consumed = in.consumed, new.terminal = in.terminal
  PROVE  InputInv(new) /\ Left(new) = Left(in)
BY DEF InputInv, Left

LEMMA PausedKeeps ==
  ASSUME NEW n, NEW l \in Nat, NEW x, Good(x, n, l)
  PROVE  LET y == Paused(x)
         IN /\ Good(y, n, l) /\ y.input.paused
            /\ y.input.queue = x.input.queue /\ y.input.taken = x.input.taken
            /\ y.input.terminal = x.input.terminal /\ y.input.ended = x.input.ended
            /\ y.marker = x.marker /\ y.answers = x.answers /\ y.thrown = x.thrown
            /\ y.collectors = x.collectors
<1> DEFINE in == [x.input EXCEPT !.paused = TRUE]
<1>1. x \in States /\ x.input \in Inputs
  BY DEF Good, States
<1>2. Paused(x) = [x EXCEPT !.input = in]
  BY <1>1 DEF Paused, States
<1>3. /\ in \in Inputs /\ in.queue = x.input.queue /\ in.taken = x.input.taken /\ in.paused
      /\ in.consumed = x.input.consumed /\ in.terminal = x.input.terminal
      /\ in.ended = x.input.ended
  BY <1>1 DEF Inputs
<1> HIDE DEF in
<1>4. InputInv(in)
  BY <1>3, InputFlags DEF Good
<1>5. [x EXCEPT !.input = in].collectors = x.collectors
  BY <1>1, <1>3, InputShape
<1> DEFINE y == [x EXCEPT !.input = in]
<1>6. /\ Good(y, n, l) /\ y.input = in /\ y.marker = x.marker
      /\ y.answers = x.answers /\ y.thrown = x.thrown
  BY <1>3, <1>4, InputKeeps
<1> HIDE DEF y
<1> QED BY <1>2, <1>3, <1>5, <1>6 DEF y

-----------------------------------------------------------------------------
\* The end of a collection

\* Nothing is held any more, and c may be answered.
Quiet(x, c) ==
  /\ \A d \in CallIds : x.collectors[d] = Idle
  /\ x.marker = None
  /\ x.answers[c] = <<>> /\ \A d \in CallIds : x.answers[d] # <<"parsed">>

\* What an event leaves of the input, and whom it may answer
Touched(x, y) ==
  /\ y.input.queue = x.input.queue /\ y.input.taken = x.input.taken
  /\ y.input.terminal = x.input.terminal /\ y.input.ended = x.input.ended
  /\ \A d \in CallIds :
       y.answers[d] # x.answers[d] => x.marker = d /\ ~x.input.terminal

\* Cleanup ends the collection, or throws when the call is stranded; either way
\* nobody listens any more, so nothing has to be kept of what comes later.
LEMMA CleanupKeeps ==
  ASSUME NEW n \in Nat, NEW l \in Nat, NEW m \in Nat, l <= m, NEW x, Good(x, n, l),
         ~x.thrown, NEW c \in CallIds, x.collectors[c] # Idle
  PROVE  LET y == Cleanup(x, c)
         IN /\ Good(y, n, m) /\ y.input = x.input /\ y.answers = x.answers /\ c <= n
            /\ y.missed = x.missed /\ x.marker = c
            /\ ~y.thrown => Quiet(y, c) /\ AllMade(x, c)
<1> DEFINE y == Cleanup(x, c)
<1>1. x \in States /\ x.marker = c /\ c <= n
  BY MarkersDiffer DEF Good, HolderInv
<1>2. \A d \in CallIds : d # c => x.collectors[d] = Idle
  BY <1>1 DEF Good, HolderInv
<1>3. x.answers[c] = <<>> /\ \A d \in CallIds : x.answers[d] # <<"parsed">>
  BY <1>1, MarkersDiffer DEF Good, OnceInv
<1>4. x.parsed = None
  BY <1>1, MarkersDiffer DEF Good, WholeInv
<1>5. \A j \in 0..MaxChunks : <<"data", j>> \in x.missed => j <= m
  BY DEF Good, KeptInv
<1>6. CASE AllMade(x, c)
  <2>1. /\ y \in States /\ SameRest(x, y) /\ y.marker = None
        /\ y.collectors = [x.collectors EXCEPT ![c] = Idle]
        /\ y.answers = x.answers /\ y.thrown = x.thrown
    BY <1>1, <1>6, CleanupWhole
  <2> HIDE DEF y
  <2>2. \A d \in CallIds : y.collectors[d] = Idle
    <3>1. x.collectors \in [CallIds -> Collectors]
      BY <1>1 DEF States
    <3> QED BY <1>2, <2>1, <3>1
  <2>3. Quiet(y, c)
    BY <1>3, <2>1, <2>2 DEF Quiet
  <2>4. HolderInv(y, n)
    BY <2>1, <2>2, IdleIsCollector, MarkersDiffer DEF Good, HolderInv, SameRest
  <2>5. OnceInv(y)
    BY <1>3, <2>1, MarkersDiffer DEF Good, OnceInv
  <2>6. KeptInv(y, m)
    BY <1>5, <2>1, <2>2, IdleIsCollector DEF SameRest, KeptInv
  <2>7. Good(y, n, m)
    BY <1>4, <2>1, <2>4, <2>5, <2>6 DEF Good, SameRest, WholeInv
  <2> QED BY <1>1, <1>6, <2>1, <2>3, <2>7 DEF SameRest, y
<1>7. CASE ~AllMade(x, c)
  <2>1. /\ y \in States /\ SameRest(x, y) /\ y.marker = x.marker
        /\ y.answers = x.answers /\ y.thrown
        /\ y.collectors[c].listening = {}
        /\ \A d \in CallIds : d # c => y.collectors[d] = x.collectors[d]
    BY <1>1, <1>7, CleanupCut
  <2> HIDE DEF y
  <2>2. \A d \in CallIds : y.collectors[d].listening = {}
    BY <1>2, <2>1, IdleIsCollector
  <2>3. c \in x.stranded
    BY <1>1, <1>7 DEF Good, HolderInv
  <2>4. HolderInv(y, n)
    BY <1>1, <1>2, <2>1, <2>2, <2>3 DEF Good, HolderInv, SameRest
  <2>5. OnceInv(y)
    BY <2>1 DEF Good, OnceInv
  <2>6. KeptInv(y, m)
    BY <1>5, <2>1, <2>2 DEF SameRest, KeptInv
  <2>7. Good(y, n, m)
    BY <1>4, <2>1, <2>4, <2>5, <2>6 DEF Good, SameRest, WholeInv
  <2> QED BY <1>1, <2>1, <2>7 DEF SameRest, y
<1> QED BY <1>6, <1>7

\* The marker is done and no call has been told so.
Unparsed(x) == x.marker = Done /\ \A d \in CallIds : x.answers[d] # <<"parsed">>

\* An answer to the call made last, or to the one that was collecting.
LEMMA AnswerKeeps ==
  ASSUME NEW n \in Nat, NEW m \in {n, n + 1}, NEW l, NEW x, Good(x, n, l),
         NEW c \in CallIds, c <= m, NEW what \in Answers,
         x.answers[c] = <<>>, x.marker # c,
         what = "parsed" => Unparsed(x)
  PROVE  LET y == Answer(x, c, what)
         IN /\ Good(y, m, l) /\ y.input = x.input /\ y.marker = x.marker
            /\ y.collectors = x.collectors
            /\ \A d \in CallIds : d # c => y.answers[d] = x.answers[d]
<1> DEFINE y == Answer(x, c, what)
<1>1. /\ y \in States /\ SameRest(x, y) /\ y.marker = x.marker
      /\ y.collectors = x.collectors
      /\ y.answers[c] = <<what>>
      /\ \A d \in CallIds : d # c => y.answers[d] = x.answers[d]
  BY AnswerShape, ZenonT(60) DEF Good
<1> HIDE DEF y
<1>2. HolderInv(y, m)
  <2>1. \A d \in CallIds : d > m => d > n /\ d # c
    BY MarkersDiffer
  <2>2. \A d \in CallIds : d > m =>
          /\ y.answers[d] = <<>> /\ y.marker # d /\ d \notin y.stranded
    BY <1>1, <2>1 DEF Good, HolderInv, SameRest
  <2> QED BY <1>1, <2>2 DEF Good, HolderInv, SameRest, AllMade
<1>3. Len(<<what>>) = 1 /\ (<<what>> = <<"parsed">> => what = "parsed")
  OBVIOUS
<1>4. OnceInv(y)
  <2>1. \A d \in CallIds : Len(y.answers[d]) <= 1
    <3>1. \A d \in CallIds : Len(x.answers[d]) <= 1
      BY DEF Good, OnceInv
    <3>2. Len(y.answers[c]) <= 1
      BY <1>1, <1>3
    <3> QED BY <1>1, <3>1, <3>2
  <2>2. \A d \in CallIds : y.marker = d => y.answers[d] = <<>>
    BY <1>1 DEF Good, OnceInv
  <2>3. \A d \in CallIds : y.answers[d] = <<"parsed">> => y.marker = Done
    BY <1>1, <1>3 DEF Good, OnceInv, Unparsed
  <2>4. \A d, e \in CallIds :
          y.answers[d] = <<"parsed">> /\ y.answers[e] = <<"parsed">> => d = e
    BY <1>1, <1>3 DEF Good, OnceInv, Unparsed
  <2> QED BY <2>1, <2>2, <2>3, <2>4 DEF OnceInv
<1>5. KeptInv(y, l) /\ WholeInv(y)
  BY <1>1 DEF Good, SameRest, KeptInv, WholeInv, Heard
<1> QED BY <1>1, <1>2, <1>4, <1>5 DEF Good, SameRest, y

\* Chunks that are all the collector was given are parsed, if they may be.
LEMMA ParseKeeps ==
  ASSUME NEW n \in Nat, NEW m \in {n, n + 1}, NEW l, NEW x, Good(x, n, l),
         NEW c \in CallIds, c <= m, Quiet(x, c), NEW chunks \in Seq(1..MaxChunks),
         Heard(x, chunks, DOMAIN request.body), request.streamed => x.input.ended
  PROVE  LET y == ParseBody(x, c, chunks)
         IN /\ Good(y, m, l) /\ y.input = x.input
            /\ \A d \in CallIds : d # c => y.answers[d] = x.answers[d]
<1> DEFINE y == ParseBody(x, c, chunks)
<1>1. x.answers[c] = <<>> /\ x.marker # c
  BY MarkersDiffer DEF Quiet
<1>2. ASSUME NEW what \in Answers \ {"parsed"}, y = Answer(x, c, what)
      PROVE  /\ Good(y, m, l) /\ y.input = x.input
             /\ \A d \in CallIds : d # c => y.answers[d] = x.answers[d]
  <2> HIDE DEF y
  <2> QED BY <1>1, <1>2, AnswerKeeps
<1>3. CASE ~(Bytes(SizesOf(chunks)) <= Limit)
  <2>1. y = Answer(x, c, "limit") /\ "limit" \in Answers \ {"parsed"}
    BY <1>3 DEF ParseBody, Answers
  <2> HIDE DEF y
  <2>2. /\ Good(y, m, l) /\ y.input = x.input
        /\ \A d \in CallIds : d # c => y.answers[d] = x.answers[d]
    BY <1>2, <2>1
  <2> QED BY <2>2 DEF y
<1>4. CASE Bytes(SizesOf(chunks)) <= Limit /\ ~request.valid
  <2>1. y = Answer(x, c, "syntax") /\ "syntax" \in Answers \ {"parsed"}
    BY <1>4 DEF ParseBody, Answers
  <2> HIDE DEF y
  <2>2. /\ Good(y, m, l) /\ y.input = x.input
        /\ \A d \in CallIds : d # c => y.answers[d] = x.answers[d]
    BY <1>2, <2>1
  <2> QED BY <2>2 DEF y
<1>5. CASE Bytes(SizesOf(chunks)) <= Limit /\ request.valid
  <2> DEFINE w == [x EXCEPT !.parsed = chunks, !.marker = Done]
  <2>1. y = Answer(w, c, "parsed")
    BY <1>5 DEF ParseBody, ParsedBody
  <2>2. /\ w \in States /\ w.input = x.input /\ w.collectors = x.collectors
        /\ w.answers = x.answers /\ w.parsed = chunks /\ w.marker = Done
        /\ w.stranded = x.stranded /\ w.missed = x.missed
    BY DEF Good, States
  <2> HIDE DEF w, y
  <2>3. \A d \in CallIds : w.collectors[d] = Idle
    BY <2>2 DEF Quiet
  <2>4. HolderInv(w, n)
    BY <2>2, <2>3, MarkersDiffer, IdleIsCollector DEF Good, HolderInv
  <2>5. WholeInv(w)
    BY <1>5, <2>2 DEF WholeInv, Heard
  <2>6. OnceInv(w)
    BY <2>2, MarkersDiffer DEF Good, OnceInv, Quiet
  <2>7. KeptInv(w, l)
    BY <2>2, <2>3, IdleIsCollector DEF Good, KeptInv
  <2>8. Good(w, n, l)
    BY <2>2, <2>4, <2>5, <2>6, <2>7 DEF Good
  <2>9. /\ w.answers[c] = <<>> /\ w.marker # c /\ "parsed" \in Answers
        /\ Unparsed(w)
    BY <2>2, MarkersDiffer DEF Quiet, Answers, Unparsed
  <2>10. /\ Good(y, m, l) /\ y.input = w.input
         /\ \A d \in CallIds : d # c => y.answers[d] = w.answers[d]
    BY <2>1, <2>8, <2>9, AnswerKeeps
  <2> QED BY <2>2, <2>10 DEF y
<1> QED BY <1>3, <1>4, <1>5

-----------------------------------------------------------------------------
\* Emissions

\* An emission does what missing the event does, or what the callback of the
\* one collector that listens does, and may throw besides.
LEMMA EmitKeeps ==
  ASSUME NEW n, NEW m, NEW x, x \in States, NEW event, NEW k, NEW fault,
         LET y == Missed(x, event, k) IN Good(y, n, m) /\ Touched(x, y),
         \A c \in Hearing(x, event) :
           LET y == Callback(x, c, event, k)
           IN ~x.thrown => Good(y, n, m) /\ Touched(x, y)
  PROVE  LET y == Emit(x, event, k, fault) IN Good(y, n, m) /\ Touched(x, y)
<1> DEFINE y == Emit(x, event, k, fault)
           Fine(z) == Good(z, n, m) /\ Touched(x, z)
<1>1. ASSUME NEW z, Fine(z) PROVE Fine([z EXCEPT !.thrown = TRUE])
  <2> DEFINE w == [z EXCEPT !.thrown = TRUE]
  <2>1. Good(w, n, m) /\ SameRest(z, w) /\ w.answers = z.answers
    BY <1>1, ThrownKeeps
  <2> HIDE DEF w
  <2>2. Good(w, n, m) /\ Touched(x, w)
    BY <1>1, <2>1 DEF Touched, SameRest
  <2> QED BY <2>2 DEF w
<1>2. Fine(Missed(x, event, k))
  OBVIOUS
<1>3. ASSUME ~x.thrown PROVE Fine(Called(x, event, k))
  <2>1. CASE Hearing(x, event) = {}
    <3>1. Called(x, event, k) = Missed(x, event, k)
      BY <2>1 DEF Called, Missed
    <3> QED BY <1>2, <3>1
  <2>2. CASE Hearing(x, event) # {}
    <3> DEFINE c == CHOOSE c \in Hearing(x, event) : TRUE
    <3>1. c \in Hearing(x, event) /\ Called(x, event, k) = Callback(x, c, event, k)
      BY <2>2 DEF Called
    <3> HIDE DEF c
    <3> QED BY <1>3, <3>1
  <2> QED BY <2>1, <2>2
<1>4. \/ y = Missed(x, event, k)
      \/ y = [Missed(x, event, k) EXCEPT !.thrown = TRUE]
      \/ ~x.thrown /\ y = Called(x, event, k)
      \/ ~x.thrown /\ y = [Called(x, event, k) EXCEPT !.thrown = TRUE]
  BY DEF Emit
<1> HIDE DEF y, Fine
<1>5. Fine(y)
  BY <1>1, <1>2, <1>3, <1>4
<1> QED BY <1>5 DEF y, Fine

\* Who listens holds the marker, and no body is parsed yet.
LEMMA HearingHolds ==
  ASSUME NEW n, NEW l, NEW x, Good(x, n, l), NEW event, NEW c \in Hearing(x, event)
  PROVE  /\ c \in CallIds /\ x.collectors[c] # Idle /\ x.marker = c /\ request.streamed
         /\ "data" \in x.collectors[c].listening
         /\ \A d \in CallIds : d # c => x.collectors[d] = Idle
<1>1. c \in CallIds /\ event \in x.collectors[c].listening
  BY DEF Hearing
<1>2. x.collectors[c] # Idle
  BY <1>1, IdleIsCollector
<1> QED BY <1>1, <1>2 DEF Good, HolderInv

\* A refusal of a chunk, with the input paused or not
LEMMA RefusalKeeps ==
  ASSUME NEW n \in Nat, NEW l \in Nat, NEW m \in Nat, l <= m, NEW x, Good(x, n, l),
         ~x.thrown, ~x.input.terminal, NEW c \in CallIds, x.collectors[c] # Idle,
         NEW what \in {"request", "limit"}, NEW y,
         LET u == Cleanup(x, c)
         IN \/ y = Then(u, Answer(u, c, what))
            \/ y = Then(u, Answer(Paused(u), c, what))
  PROVE  Good(y, n, m) /\ Touched(x, y)
<1> DEFINE u == Cleanup(x, c)
<1>1. /\ Good(u, n, m) /\ u.input = x.input /\ u.answers = x.answers /\ c <= n
      /\ x.marker = c /\ (~u.thrown => Quiet(u, c))
  BY CleanupKeeps
<1>2. what \in Answers \ {"parsed"}
  BY DEF Answers
<1>3. \/ y = u
      \/ ~u.thrown /\ y = Answer(u, c, what)
      \/ ~u.thrown /\ y = Answer(Paused(u), c, what)
  BY DEF Then
<1> HIDE DEF u
<1>4. CASE y = u
  BY <1>1, <1>4 DEF Touched
<1>5. CASE ~u.thrown /\ y = Answer(u, c, what)
  <2>1. u.answers[c] = <<>> /\ u.marker # c
    BY <1>1, <1>5, MarkersDiffer DEF Quiet
  <2>2. /\ Good(y, n, m) /\ y.input = u.input
        /\ \A d \in CallIds : d # c => y.answers[d] = u.answers[d]
    BY <1>1, <1>2, <1>5, <2>1, AnswerKeeps
  <2> QED BY <1>1, <2>2 DEF Touched
<1>6. CASE ~u.thrown /\ y = Answer(Paused(u), c, what)
  <2> DEFINE v == Paused(u)
  <2>0. v = Paused(u)
    OBVIOUS
  <2> HIDE DEF v
  <2>1. /\ Good(v, n, m) /\ v.marker = u.marker /\ v.answers = u.answers
        /\ v.input.queue = u.input.queue /\ v.input.taken = u.input.taken
        /\ v.input.terminal = u.input.terminal /\ v.input.ended = u.input.ended
    BY <1>1, <2>0, PausedKeeps
  <2>2. y = Answer(v, c, what)
    BY <1>6, <2>0
  <2>3. v.answers[c] = <<>> /\ v.marker # c
    BY <1>1, <1>6, <2>1, MarkersDiffer DEF Quiet
  <2>4. /\ Good(y, n, m) /\ y.input = v.input
        /\ \A d \in CallIds : d # c => y.answers[d] = v.answers[d]
    BY <1>1, <1>2, <2>1, <2>2, <2>3, AnswerKeeps
  <2> QED BY <1>1, <2>1, <2>4 DEF Touched
<1> QED BY <1>3, <1>4, <1>5, <1>6

LEMMA KeepShape ==
  ASSUME NEW x \in States, NEW c \in CallIds, NEW k \in 1..MaxChunks
  PROVE  LET y == Keep(x, c, k)
         IN /\ y \in States /\ SameRest(x, y) /\ y.marker = x.marker
            /\ y.answers = x.answers
            /\ y.collectors[c].listening = x.collectors[c].listening
            /\ y.collectors[c].chunks = Append(x.collectors[c].chunks, k)
            /\ \A d \in CallIds : d # c => y.collectors[d] = x.collectors[d]
<1> DEFINE coll == x.collectors[c]
           longer == Append(coll.chunks, k)
           new == [coll EXCEPT !.chunks = longer]
           all == [x.collectors EXCEPT ![c] = new]
<1>1. x.collectors \in [CallIds -> Collectors] /\ coll \in Collectors
  BY DEF States
<1>2. coll.chunks \in Seq(1..MaxChunks)
  BY <1>1 DEF Collectors
<1>3. Keep(x, c, k) = [x EXCEPT !.collectors = all]
  BY <1>1 DEF Keep, States
<1>4. longer \in Seq(1..MaxChunks)
  <2> HIDE DEF coll
  <2> QED BY <1>2
<1> HIDE DEF longer
<1>5. new \in Collectors /\ new.listening = coll.listening /\ new.chunks = longer
  <2> HIDE DEF coll
  <2> QED BY <1>1, <1>4 DEF Collectors
<1> HIDE DEF new
<1>6. /\ all \in [CallIds -> Collectors] /\ all[c] = new
      /\ \A d \in CallIds : d # c => all[d] = x.collectors[d]
  BY <1>1, <1>5
<1> HIDE DEF all
<1> QED BY <1>3, <1>5, <1>6 DEF States, SameRest, longer

\* The chunks heard so far and the next one are those heard up to it.
LEMMA NextHeard ==
  ASSUME NEW x, NEW k \in Nat \ {0}, NEW s \in Seq(1..MaxChunks),
         Heard(x, s, 1..(k - 1)), <<"data", k>> \notin x.missed
  PROVE  Heard(x, Append(s, k), 1..k)
<1> DEFINE t == Append(s, k)
<1>1. \A i \in DOMAIN s : s[i] \in 1..(k - 1)
  BY DEF Heard, ToSet
<1>2. /\ Len(s) \in Nat /\ DOMAIN s = 1..Len(s) /\ DOMAIN t = 1..(Len(s) + 1)
      /\ t[Len(s) + 1] = k /\ \A i \in 1..Len(s) : t[i] = s[i]
  <2>1. s \in Seq(Nat)
    BY BodyCollectorAssumption
  <2> QED BY <2>1
<1> HIDE DEF t
<1>3. Rising(t)
  BY <1>1, <1>2 DEF Heard, Rising
<1>4. ToSet(t) = ToSet(s) \union {k}
  <2>1. \A i \in DOMAIN t : t[i] \in ToSet(s) \union {k}
    BY <1>2 DEF ToSet
  <2>2. \A e \in ToSet(s) : \E i \in DOMAIN t : t[i] = e
    BY <1>2 DEF ToSet
  <2>3. \E i \in DOMAIN t : t[i] = k
    BY <1>2
  <2> QED BY <2>1, <2>2, <2>3 DEF ToSet
<1>5. {j \in 1..k : <<"data", j>> \notin x.missed}
        = {j \in 1..(k - 1) : <<"data", j>> \notin x.missed} \union {k}
  OBVIOUS
<1> QED BY <1>3, <1>4, <1>5 DEF Heard, t

\* The next chunk is emitted.
LEMMA ChunkKeeps ==
  ASSUME NEW n \in Nat, NEW k \in 1..MaxChunks, NEW x, Good(x, n, k - 1),
         ~x.input.terminal, NEW fault
  PROVE  LET y == Emit(x, "data", k, fault) IN Good(y, n, k) /\ Touched(x, y)
<1>1. /\ k \in Nat \ {0} /\ k - 1 \in Nat /\ k - 1 <= k /\ k = (k - 1) + 1
      /\ k \in 0..MaxChunks /\ "data" \in Events /\ x \in States
  BY BodyCollectorAssumption DEF Events, Good
<1>2. LET y == Missed(x, "data", k) IN Good(y, n, k) /\ Touched(x, y)
  <2>1. LET y == Missed(x, "data", k) IN Good(y, n, k) /\ y.input = x.input /\ y.answers = x.answers
    BY <1>1, MissedKeeps
  <2> QED BY <2>1 DEF Touched
<1>3. ASSUME NEW c \in Hearing(x, "data"), ~x.thrown
      PROVE  LET y == Callback(x, c, "data", k) IN Good(y, n, k) /\ Touched(x, y)
  <2>1. /\ c \in CallIds /\ x.collectors[c] # Idle /\ x.marker = c
        /\ "data" \in x.collectors[c].listening
        /\ \A d \in CallIds : d # c => x.collectors[d] = Idle
    BY HearingHolds
  <2> DEFINE y == Callback(x, c, "data", k)
  <2>2. y = OnData(x, c, k)
    BY DEF Callback
  <2> HIDE DEF y
  <2>3. CASE x.input.decoded
    <3>1. y = Then(Cleanup(x, c), Answer(Cleanup(x, c), c, "request"))
      BY <2>2, <2>3 DEF OnData
    <3> QED BY <1>1, <1>3, <2>1, <3>1, RefusalKeeps DEF y
  <2>4. CASE ~x.input.decoded /\ ~Fits(x, c, k)
    <3>1. y = Then(Cleanup(x, c), Answer(Paused(Cleanup(x, c)), c, "limit"))
      BY <2>2, <2>4 DEF OnData
    <3> QED BY <1>1, <1>3, <2>1, <3>1, RefusalKeeps DEF y
  <2>5. CASE ~x.input.decoded /\ Fits(x, c, k)
    <3>1. y = Keep(x, c, k)
      BY <2>2, <2>5 DEF OnData
    <3>2. /\ y \in States /\ SameRest(x, y) /\ y.marker = x.marker
          /\ y.answers = x.answers
          /\ y.collectors[c].listening = x.collectors[c].listening
          /\ y.collectors[c].chunks = Append(x.collectors[c].chunks, k)
          /\ \A d \in CallIds : d # c => y.collectors[d] = x.collectors[d]
      BY <1>1, <2>1, <3>1, KeepShape
    <3>3. HolderInv(y, n) /\ OnceInv(y) /\ WholeInv(y)
      <4>1. \A d \in CallIds : y.collectors[d].listening = x.collectors[d].listening
        BY <3>2
      <4>2. \A d \in CallIds : y.collectors[d] # Idle => y.marker = d
        BY <2>1, <3>2
      <4>3. HolderInv(y, n)
        BY <3>2, <4>1, <4>2 DEF Good, HolderInv, AllMade, SameRest
      <4>4. OnceInv(y)
        BY <3>2 DEF Good, OnceInv
      <4> QED BY <3>2, <4>3, <4>4 DEF Good, WholeInv, Heard, SameRest
    <3>4. KeptInv(y, k)
      <4>1. \A j \in 0..MaxChunks : <<"data", j>> \in x.missed => j <= k - 1
        BY DEF Good, KeptInv
      <4>2. Heard(x, x.collectors[c].chunks, 1..(k - 1)) /\ <<"data", k>> \notin x.missed
        BY <1>1, <2>1, <4>1 DEF Good, KeptInv
      <4>3. x.collectors[c].chunks \in Seq(1..MaxChunks)
        BY <1>1, <2>1 DEF States, Collectors
      <4>4. Heard(x, y.collectors[c].chunks, 1..k)
        BY <1>1, <3>2, <4>2, <4>3, NextHeard
      <4>5. Heard(y, y.collectors[c].chunks, 1..k)
        BY <3>2, <4>4 DEF Heard, SameRest
      <4>6. \A d \in CallIds : d # c => "data" \notin y.collectors[d].listening
        BY <2>1, <3>2, IdleIsCollector
      <4>7. \A j \in 0..MaxChunks : <<"data", j>> \in y.missed => j <= k
        BY <3>2, <4>1 DEF SameRest
      <4> QED BY <4>5, <4>6, <4>7 DEF KeptInv
    <3>5. Good(y, n, k) /\ Touched(x, y)
      BY <3>2, <3>3, <3>4 DEF Good, Touched, SameRest
    <3> QED BY <3>5 DEF y
  <2> QED BY <2>3, <2>4, <2>5
<1> QED BY <1>1, <1>2, <1>3, EmitKeeps

\* What a decoder still holds is refused by whoever listens.
LEMMA ResidueKeeps ==
  ASSUME NEW n \in Nat, NEW l \in Nat, NEW x, Good(x, n, l), x.input.decoded,
         ~x.input.terminal, NEW fault
  PROVE  LET y == Emit(x, "data", 0, fault) IN Good(y, n, l) /\ Touched(x, y)
<1>1. x \in States /\ 0 \in 0..MaxChunks /\ "data" \in Events
  BY BodyCollectorAssumption DEF Good, Events
<1>2. LET y == Missed(x, "data", 0) IN Good(y, n, l) /\ Touched(x, y)
  <2>1. LET y == Missed(x, "data", 0) IN Good(y, n, l) /\ y.input = x.input /\ y.answers = x.answers
    BY <1>1, MissedKeeps
  <2> QED BY <2>1 DEF Touched
<1>3. ASSUME NEW c \in Hearing(x, "data"), ~x.thrown
      PROVE  LET y == Callback(x, c, "data", 0) IN Good(y, n, l) /\ Touched(x, y)
  <2>1. c \in CallIds /\ x.collectors[c] # Idle
    BY HearingHolds
  <2> DEFINE y == Callback(x, c, "data", 0)
  <2>2. y = Then(Cleanup(x, c), Answer(Cleanup(x, c), c, "request"))
    BY DEF Callback, OnData
  <2> HIDE DEF y
  <2> QED BY <1>3, <2>1, <2>2, RefusalKeeps DEF y
<1> QED BY <1>1, <1>2, <1>3, EmitKeeps

\* At the end, the chunks of the collector that hears it are what is parsed.
LEMMA EndKeeps ==
  ASSUME NEW n \in Nat, RequestInv, NEW x, Good(x, n, Len(request.body)),
         ~x.input.terminal, x.input.ended, NEW fault
  PROVE  LET y == Emit(x, "end", 0, fault) IN Good(y, n, Len(request.body)) /\ Touched(x, y)
<1> DEFINE l == Len(request.body)
<1>1. x \in States /\ 0 \in 0..MaxChunks /\ "end" \in Events /\ l \in Nat /\ l <= l
      /\ DOMAIN request.body = 1..l
  BY BodyCollectorAssumption, BodyIsSequence DEF Good, Events
<1>1a. Good(x, n, l)
  OBVIOUS
<1> HIDE DEF l
<1>2. LET y == Missed(x, "end", 0) IN Good(y, n, l) /\ Touched(x, y)
  <2>1. LET y == Missed(x, "end", 0) IN Good(y, n, l) /\ y.input = x.input /\ y.answers = x.answers
    BY <1>1, <1>1a, MissedKeeps
  <2> QED BY <2>1 DEF Touched
<1>3. ASSUME NEW c \in Hearing(x, "end"), ~x.thrown
      PROVE  LET y == Callback(x, c, "end", 0) IN Good(y, n, l) /\ Touched(x, y)
  <2>1. /\ c \in CallIds /\ x.collectors[c] # Idle /\ x.marker = c
        /\ "data" \in x.collectors[c].listening
    BY HearingHolds
  <2> DEFINE u == Cleanup(x, c)
             y == Callback(x, c, "end", 0)
             chunks == x.collectors[c].chunks
  <2>2. y = Then(u, ParseBody(u, c, chunks))
    BY DEF Callback, OnEnd
  <2>3. /\ Good(u, n, l) /\ u.input = x.input /\ u.answers = x.answers /\ c <= n
        /\ u.missed = x.missed /\ (~u.thrown => Quiet(u, c))
    BY <1>1, <1>1a, <1>3, <2>1, CleanupKeeps
  <2> HIDE DEF u, y
  <2>4. CASE u.thrown
    <3>1. y = u
      BY <2>2, <2>4 DEF Then
    <3>2. Good(y, n, l) /\ Touched(x, y)
      BY <2>3, <3>1 DEF Touched
    <3> QED BY <3>2 DEF y
  <2>5. CASE ~u.thrown
    <3>1. y = ParseBody(u, c, chunks)
      BY <2>2, <2>5 DEF Then
    <3>2. Heard(x, chunks, 1..l)
      BY <1>1a, <2>1 DEF Good, KeptInv
    <3>3. chunks \in Seq(1..MaxChunks)
      BY <1>1, <2>1 DEF States, Collectors
    <3> HIDE DEF chunks
    <3>4. Heard(u, chunks, DOMAIN request.body)
      BY <1>1, <2>3, <3>2 DEF Heard
    <3>5. n \in {n, n + 1} /\ (request.streamed => u.input.ended) /\ Quiet(u, c)
      BY <2>3, <2>5
    <3>6. /\ Good(y, n, l) /\ y.input = u.input
          /\ \A d \in CallIds : d # c => y.answers[d] = u.answers[d]
      BY <2>3, <2>1, <3>1, <3>3, <3>4, <3>5, ParseKeeps
    <3>7. Touched(x, y)
      BY <2>1, <2>3, <3>6 DEF Touched
    <3> QED BY <3>6, <3>7 DEF y
  <2> QED BY <2>4, <2>5
<1> QED BY <1>1, <1>2, <1>3, EmitKeeps DEF l

\* error finds the input terminated and is not answered, nor are the others.
LEMMA OutcomeKeeps ==
  ASSUME NEW n \in Nat, NEW l \in Nat, NEW x, Good(x, n, l),
         NEW event \in {"error", "aborted", "close", "responseClose"},
         x.input.terminal \/ ~request.streamed, NEW fault
  PROVE  LET y == Emit(x, event, 0, fault)
         IN /\ Good(y, n, l) /\ y.answers = x.answers
            /\ y.input.terminal = x.input.terminal /\ y.input.queue = x.input.queue
            /\ y.input.taken = x.input.taken
<1>1. x \in States /\ 0 \in 0..MaxChunks /\ event \in Events /\ event \notin {"data", "end"}
  BY BodyCollectorAssumption DEF Good, Events
<1>2. LET y == Missed(x, event, 0) IN Good(y, n, l) /\ Touched(x, y)
  <2>1. LET y == Missed(x, event, 0) IN Good(y, n, l) /\ y.input = x.input /\ y.answers = x.answers
    BY <1>1, MissedKeeps
  <2> QED BY <2>1 DEF Touched
<1>3. ASSUME NEW c \in Hearing(x, event), ~x.thrown
      PROVE  LET y == Callback(x, c, event, 0) IN Good(y, n, l) /\ Touched(x, y)
  <2>1. c \in CallIds /\ x.collectors[c] # Idle /\ x.input.terminal
    BY HearingHolds
  <2>2. Callback(x, c, event, 0) = Cleanup(x, c)
    BY <1>1, <2>1 DEF Callback, OnOutcome, Writable
  <2>3. LET y == Cleanup(x, c) IN Good(y, n, l) /\ y.input = x.input /\ y.answers = x.answers
    BY <1>3, <2>1, CleanupKeeps
  <2> QED BY <2>2, <2>3 DEF Touched
<1> DEFINE y == Emit(x, event, 0, fault)
<1>4. Good(y, n, l) /\ Touched(x, y)
  BY <1>1, <1>2, <1>3, EmitKeeps
<1> HIDE DEF y
<1>5. \A d \in CallIds : y.answers[d] = x.answers[d]
  BY <1>4 DEF Touched, Good, HolderInv
<1>6. y.answers \in [CallIds -> Seq(Answers)] /\ x.answers \in [CallIds -> Seq(Answers)]
  BY <1>4 DEF Good, States
<1>7. y.answers = x.answers
  BY <1>5, <1>6
<1> QED BY <1>4, <1>7 DEF Touched, y

-----------------------------------------------------------------------------
\* The input lets a chunk go

LEMMA DrainKeeps ==
  ASSUME NEW n \in Nat, RequestInv, NEW x, Good(x, n, Left(x.input)), ~x.input.terminal,
         NEW fault
  PROVE  LET y == Drain(x, fault)
         IN /\ Good(y, n, Left(y.input)) /\ Waits(y.input) /\ ~y.input.terminal
<1> DEFINE y == Drain(x, fault)
<1>1. CASE x.input.paused \/ ~x.input.flowing \/ x.input.queue = 0
  <2>1. y = x
    BY <1>1 DEF Drain
  <2> QED BY <1>1, <2>1 DEF Waits
<1>2. CASE ~(x.input.paused \/ ~x.input.flowing \/ x.input.queue = 0)
  <2> DEFINE in == [x.input EXCEPT !.queue = 0, !.consumed = TRUE]
             u == [x EXCEPT !.input = in]
             k == x.input.queue
  <2>1. x \in States /\ x.input \in Inputs /\ k = x.input.taken /\ InputInv(x.input)
        /\ k \in 1..MaxChunks /\ k - 1 \in Nat /\ Left(x.input) = k - 1
    BY <1>2, BodyCollectorAssumption DEF Good, InputInv, Inputs, Left
  <2>2. Good(x, n, k - 1)
    BY <2>1
  <2>3. [x EXCEPT !.input.queue = 0, !.input.consumed = TRUE] = u
    BY <2>1 DEF States, Inputs
  <2>4. y = Emit(u, "data", k, fault)
    BY <1>2, <2>3 DEF Drain
  <2>5. /\ in \in Inputs /\ in.queue = 0 /\ in.consumed /\ in.taken = x.input.taken
        /\ in.terminal = x.input.terminal /\ in.ended = x.input.ended
    <3>1. 0 \in 0..MaxChunks
      BY BodyCollectorAssumption
    <3> QED BY <2>1, <3>1 DEF Inputs
  <2> HIDE DEF in, k
  <2>6. InputInv(in)
    BY <2>1, <2>5 DEF InputInv
  <2>7. Good(u, n, k - 1) /\ u.input = in
    BY <2>1, <2>2, <2>5, <2>6, InputKeeps
  <2> HIDE DEF u, y
  <2>8. Good(y, n, k) /\ Touched(u, y)
    BY <2>1, <2>4, <2>5, <2>7, ChunkKeeps
  <2>9. y.input.queue = 0 /\ Left(y.input) = k /\ ~y.input.terminal
    BY <2>1, <2>5, <2>7, <2>8 DEF Touched, Left
  <2> QED BY <2>8, <2>9 DEF Waits, y
<1> QED BY <1>1, <1>2

LEMMA ResumedKeeps ==
  ASSUME NEW n \in Nat, RequestInv, NEW x, Good(x, n, Left(x.input)), ~x.input.terminal,
         NEW fault
  PROVE  LET y == Resumed(x, fault)
         IN /\ Good(y, n, Left(y.input)) /\ Waits(y.input) /\ ~y.input.terminal
<1> DEFINE in == [x.input EXCEPT !.paused = FALSE, !.flowing = TRUE]
           u == [x EXCEPT !.input = in]
<1>1. x \in States /\ x.input \in Inputs /\ InputInv(x.input)
  BY DEF Good, States
<1>2. Resumed(x, fault) = Drain(u, fault)
  <2>1. [x EXCEPT !.input.paused = FALSE, !.input.flowing = TRUE] = u
    BY <1>1 DEF States
  <2> QED BY <2>1 DEF Resumed
<1>3. /\ in \in Inputs /\ in.queue = x.input.queue /\ in.taken = x.input.taken
      /\ in.consumed = x.input.consumed /\ in.terminal = x.input.terminal
      /\ in.ended = x.input.ended
  BY <1>1 DEF Inputs
<1> HIDE DEF in
<1>4. InputInv(in) /\ Left(in) = Left(x.input) /\ Left(in) \in Nat
  <2>1. InputInv(in) /\ Left(in) = Left(x.input)
    BY <1>1, <1>3, InputFlags
  <2> QED BY <2>1, BodyCollectorAssumption DEF InputInv, Inputs, Left
<1>5. Good(u, n, Left(in)) /\ u.input = in
  <2>1. LET y == [x EXCEPT !.input = in] IN Good(y, n, Left(in)) /\ y.input = in
    BY <1>3, <1>4, InputKeeps
  <2> QED BY <2>1
<1> HIDE DEF u
<1> QED BY <1>2, <1>3, <1>5, DrainKeeps

\* A collection that starts before anything is consumed misses nothing.
LEMMA RegisteredKeeps ==
  ASSUME NEW n \in Nat, n + 1 \in CallIds, NEW x, Good(x, n, Left(x.input)),
         x.marker = None, request.streamed, ~x.input.terminal, ~x.input.consumed,
         NEW room \in 0..6
  PROVE  LET y == Registered(x, n + 1, room)
         IN Good(y, n + 1, Left(y.input)) /\ y.input.paused /\ ~y.input.terminal
<1> DEFINE c == n + 1
           in == [x.input EXCEPT !.paused = TRUE, !.flowing = TRUE]
           L == {EventOrder[i] : i \in 1..room}
           new == [x.collectors[c] EXCEPT !.listening = L]
           all == [x.collectors EXCEPT ![c] = new]
           S == IF room < 5 THEN x.stranded \union {c} ELSE x.stranded
           y == Registered(x, c, room)
<1>1. /\ x \in States /\ x.input \in Inputs /\ InputInv(x.input)
      /\ x.collectors \in [CallIds -> Collectors] /\ c \in CallIds
      /\ \A d \in CallIds : x.collectors[d] = Idle
  BY MarkersDiffer DEF Good, States, HolderInv
<1>2. /\ L \in SUBSET Events /\ (L # {} => "data" \in L)
      /\ (room >= 5 => "close" \in L)
  <2>1. room \in {0, 1, 2, 3, 4, 5, 6}
    OBVIOUS
  <2>2. \A i \in 1..room : EventOrder[i] \in Events
    BY <2>1 DEF EventOrder, Events
  <2>3. L # {} => 1 \in 1..room
    BY <2>1
  <2>4. room >= 5 => 5 \in 1..room
    BY <2>1
  <2>5. EventOrder[1] = "data" /\ EventOrder[5] = "close"
    BY DEF EventOrder
  <2> QED BY <2>2, <2>3, <2>4, <2>5
<1>3. y = [x EXCEPT !.input = in, !.marker = c, !.collectors = all, !.stranded = S]
  BY <1>1 DEF Registered, States
<1>4. /\ in \in Inputs /\ in.queue = x.input.queue /\ in.taken = x.input.taken /\ in.paused
      /\ in.consumed = x.input.consumed /\ in.terminal = x.input.terminal
      /\ in.ended = x.input.ended
  BY <1>1 DEF Inputs
<1> HIDE DEF L, in
<1>5. new \in Collectors /\ new.listening = L /\ new.chunks = <<>>
  <2>1. x.collectors[c] \in Collectors /\ x.collectors[c].chunks = <<>>
    BY <1>1, IdleIsCollector
  <2> QED BY <1>2, <2>1 DEF Collectors
<1> HIDE DEF new
<1>6. /\ all \in [CallIds -> Collectors] /\ all[c] = new
      /\ \A d \in CallIds : d # c => all[d] = Idle
  BY <1>1, <1>5
<1>7. S \in SUBSET CallIds /\ S \in {x.stranded, x.stranded \union {c}}
      /\ (room < 5 => c \in S)
  BY <1>1 DEF States
<1> HIDE DEF all, S, y
<1>8. /\ y \in States /\ y.input = in /\ y.marker = c /\ y.answers = x.answers
      /\ y.parsed = x.parsed /\ y.collectors = all /\ y.stranded = S
      /\ y.missed = x.missed
  BY <1>1, <1>3, <1>4, <1>6, <1>7 DEF States
<1>9. InputInv(in) /\ Left(in) = 0 /\ Left(x.input) = 0
  BY <1>1, <1>4, InputFlags DEF InputInv
<1>10. \A d \in CallIds : d > c => d > n /\ d # c
  BY MarkersDiffer
<1>11. HolderInv(y, c)
  <2>1. \A d \in CallIds : y.collectors[d] # Idle => y.marker = d
    BY <1>6, <1>8
  <2>2. \A d \in CallIds : d > c => /\ y.answers[d] = <<>> /\ y.marker # d
                                    /\ d \notin y.stranded
    BY <1>7, <1>8, <1>10 DEF Good, HolderInv
  <2>3. AllMade(y, c) \/ c \in y.stranded
    <3>1. CASE room < 5
      BY <1>7, <1>8, <3>1
    <3>2. CASE room >= 5
      BY <1>2, <1>5, <1>6, <1>8, <3>2 DEF AllMade
    <3> QED BY <3>1, <3>2
  <2>4. \A d \in CallIds :
          y.collectors[d].listening # {} => "data" \in y.collectors[d].listening
    BY <1>2, <1>5, <1>6, <1>8, IdleIsCollector
  <2> QED BY <1>8, <2>1, <2>2, <2>3, <2>4 DEF HolderInv
<1>12. OnceInv(y)
  <2>1. x.answers[c] = <<>>
    BY <1>1, MarkersDiffer DEF Good, HolderInv
  <2> QED BY <1>8, <2>1, MarkersDiffer DEF Good, OnceInv
<1>13. WholeInv(y)
  <2>1. x.parsed = None
    BY MarkersDiffer DEF Good, WholeInv
  <2> QED BY <1>8, <2>1 DEF WholeInv
<1>14. KeptInv(y, 0)
  <2>1. \A j \in 0..MaxChunks : <<"data", j>> \in y.missed => j <= 0
    BY <1>8, <1>9 DEF Good, KeptInv
  <2>2. \A d \in CallIds : y.collectors[d].chunks = <<>>
    BY <1>5, <1>6, <1>8, IdleIsCollector
  <2>3. Rising(<<>>) /\ ToSet(<<>>) = {}
    BY DEF Rising, ToSet
  <2>4. \A d \in CallIds : Heard(y, y.collectors[d].chunks, 1..0)
    BY <2>2, <2>3 DEF Heard
  <2> QED BY <2>1, <2>4 DEF KeptInv
<1> QED BY <1>4, <1>8, <1>9, <1>11, <1>12, <1>13, <1>14 DEF Good, y

-----------------------------------------------------------------------------
\* The steps

\* The call that holds the marker is answered only while the input is open.
AnswersOpen ==
  \A c \in CallIds : marker = c /\ answers'[c] # answers[c] => ~input'.terminal

LEMMA BecomeKeeps ==
  ASSUME NEW x, Good(x, calls', Left(x.input)), Waits(x.input), Become(x), RequestInv',
         UNCHANGED request
  PROVE  CollectorInv'
<1>1. /\ input' = x.input /\ marker' = x.marker /\ collectors' = x.collectors
      /\ answers' = x.answers /\ parsed' = x.parsed /\ stranded' = x.stranded
      /\ missed' = x.missed
  BY DEF Become
<1>2. /\ Now'.input = x.input /\ Now'.marker = x.marker
      /\ Now'.collectors = x.collectors /\ Now'.answers = x.answers
      /\ Now'.parsed = x.parsed /\ Now'.stranded = x.stranded /\ Now'.missed = x.missed
  BY <1>1 DEF Now
<1>3. Now' \in States
  <2>1. /\ x.input \in Inputs /\ x.marker \in CallIds \union {Done, None}
        /\ x.collectors \in [CallIds -> Collectors] /\ x.answers \in [CallIds -> Seq(Answers)]
        /\ x.parsed \in Seq(1..MaxChunks) \union {None} /\ x.stranded \in SUBSET CallIds
        /\ x.missed \in SUBSET (Events \X (0..MaxChunks))
    BY DEF Good, States
  <2> QED BY <1>1, <2>1 DEF Now, States
<1>4. UNCHANGED request
  OBVIOUS
<1>5. (Now \in States)' /\ InputInv(Now.input)'
  BY <1>2, <1>3, <1>4 DEF Good, InputInv, States
<1>6. HolderInv(Now, calls)'
  BY <1>2, <1>4 DEF Good, HolderInv, AllMade
<1>7. WholeInv(Now)'
  BY <1>2, <1>4 DEF Good, WholeInv, Heard, SizesOf
<1>8. KeptInv(Now, Left(input))'
  BY <1>1, <1>2 DEF Good, KeptInv, Heard, Left
<1>9. OnceInv(Now)'
  BY <1>2 DEF Good, OnceInv
<1>10. Waits(input)'
  BY <1>1 DEF Waits
<1> QED BY <1>5, <1>6, <1>7, <1>8, <1>9, <1>10 DEF CollectorInv, Good

LEMMA NowGood ==
  ASSUME CollectorInv
  PROVE  /\ RequestInv /\ Good(Now, calls, Left(input)) /\ Waits(input) /\ calls \in Nat
         /\ Now \in States /\ input \in Inputs /\ InputInv(input)
         /\ Left(input) \in Nat /\ input.taken \in Nat /\ Left(input) <= input.taken
<1>1. /\ Good(Now, calls, Left(input)) /\ InputInv(input) /\ Now \in States /\ RequestInv
      /\ Waits(input)
  BY NowFields DEF CollectorInv, Good
<1>2. calls \in Nat
  BY <1>1, MarkersDiffer DEF RequestInv
<1>3. Left(input) \in Nat /\ input.taken \in Nat /\ Left(input) <= input.taken
  BY <1>1, BodyCollectorAssumption DEF InputInv, Inputs, Left
<1> QED BY <1>1, <1>2, <1>3 DEF InputInv

LEMMA PauseStep == ASSUME CollectorInv, Pause PROVE CollectorInv' /\ AnswersOpen
<1> DEFINE x == Paused(Now)
<1>1. /\ Become(x) /\ UNCHANGED <<request, responseEnded, closed, calls>>
  BY DEF Pause
<1>2. /\ Good(x, calls, Left(input)) /\ x.input.paused /\ x.answers = answers
      /\ x.input.queue = input.queue /\ x.input.taken = input.taken
  <2>1. LET y == Paused(Now)
        IN /\ Good(y, calls, Left(input)) /\ y.input.paused /\ y.answers = Now.answers
           /\ y.input.queue = Now.input.queue /\ y.input.taken = Now.input.taken
    BY NowGood, PausedKeeps
  <2> QED BY <2>1, NowFields
<1> HIDE DEF x
<1>3. Good(x, calls, Left(x.input)) /\ Waits(x.input)
  BY <1>2 DEF Left, Waits
<1>4. CollectorInv'
  BY <1>1, <1>3, NowGood, BecomeKeeps DEF RequestInv
<1> QED BY <1>1, <1>2, <1>4 DEF AnswersOpen, Become

LEMMA ResumeStep ==
  ASSUME CollectorInv, NEW fault, Resume(fault) PROVE CollectorInv' /\ AnswersOpen
<1> DEFINE x == Resumed(Now, fault)
<1>1. /\ Become(x) /\ UNCHANGED <<request, responseEnded, closed, calls>> /\ ~input.terminal
  BY DEF Resume, Usable
<1>2. Good(x, calls, Left(x.input)) /\ Waits(x.input) /\ ~x.input.terminal
  BY <1>1, NowGood, NowFields, ResumedKeeps
<1> HIDE DEF x
<1>3. CollectorInv'
  BY <1>1, <1>2, NowGood, BecomeKeeps DEF RequestInv
<1> QED BY <1>1, <1>2, <1>3 DEF AnswersOpen, Become

LEMMA ReadStep == ASSUME CollectorInv, Read PROVE CollectorInv' /\ AnswersOpen
<1> DEFINE in == [input EXCEPT !.queue = 0, !.consumed = TRUE]
           x == [Now EXCEPT !.input = in]
           k == input.queue
           y == Missed(x, "data", k)
<1>1. /\ UNCHANGED <<request, responseEnded, closed, calls>> /\ ~input.terminal /\ k # 0
      /\ Become(Missed([Now EXCEPT !.input.queue = 0, !.input.consumed = TRUE], "data", k))
  BY DEF Read, Usable
<1>2. [Now EXCEPT !.input.queue = 0, !.input.consumed = TRUE] = x
  BY NowGood, NowFields DEF States, Inputs
<1>3. /\ k \in 0..MaxChunks /\ k = input.taken /\ Left(input) = k - 1 /\ k \in Nat
      /\ "data" \in Events
  BY <1>1, NowGood, BodyCollectorAssumption DEF InputInv, Inputs, Left, Events
<1>4. /\ in \in Inputs /\ in.queue = 0 /\ in.consumed /\ in.taken = input.taken
      /\ in.terminal = input.terminal /\ in.ended = input.ended
  <2>1. 0 \in 0..MaxChunks
    BY BodyCollectorAssumption
  <2> QED BY <2>1, NowGood DEF Inputs
<1>5. Become(y)
  BY <1>1, <1>2
<1> HIDE DEF in, k
<1>6. InputInv(in) /\ Left(in) = k
  BY <1>3, <1>4, NowGood DEF InputInv, Left
<1>7. Good(x, calls, Left(input)) /\ x.input = in
  BY <1>4, <1>6, NowGood, NowFields, InputKeeps
<1> HIDE DEF x
<1>8. Good(y, calls, k) /\ y.input = in
  <2>1. k = Left(input) + 1
    BY <1>3
  <2>2. LET z == Missed(x, "data", k) IN Good(z, calls, k) /\ z.input = x.input
    BY <1>3, <1>7, <2>1, NowGood, MissedKeeps
  <2> QED BY <1>7, <2>2
<1> HIDE DEF y
<1>9. Good(y, calls, Left(y.input)) /\ Waits(y.input)
  BY <1>4, <1>6, <1>8 DEF Waits
<1>10. CollectorInv'
  BY <1>1, <1>5, <1>9, NowGood, BecomeKeeps DEF RequestInv
<1> QED BY <1>1, <1>4, <1>5, <1>8, <1>10 DEF AnswersOpen, Become

LEMMA SetEncodingStep == ASSUME CollectorInv, SetEncoding PROVE CollectorInv' /\ AnswersOpen
<1> DEFINE in == [input EXCEPT !.decoded = TRUE]
           x == [Now EXCEPT !.input = in]
<1>1. /\ Become(x) /\ UNCHANGED <<request, responseEnded, closed, calls>> /\ ~input.terminal
  BY NowFields DEF SetEncoding, Usable, Now
<1>2. /\ in \in Inputs /\ in.queue = input.queue /\ in.taken = input.taken
      /\ in.consumed = input.consumed /\ in.terminal = input.terminal
      /\ in.ended = input.ended /\ Waits(in)
  BY NowGood DEF Inputs, Waits
<1> HIDE DEF in
<1>3. InputInv(in) /\ Left(in) = Left(input)
  BY <1>2, NowGood, InputFlags
<1>4. Good(x, calls, Left(in)) /\ x.input = in
  BY <1>2, <1>3, NowGood, NowFields, InputKeeps
<1> HIDE DEF x
<1>5. CollectorInv'
  BY <1>1, <1>2, <1>4, NowGood, BecomeKeeps DEF RequestInv
<1> QED BY <1>1, <1>2, <1>4, <1>5 DEF AnswersOpen, Become

LEMMA EndResponseStep == ASSUME CollectorInv, EndResponse PROVE CollectorInv' /\ AnswersOpen
<1>1. /\ UNCHANGED <<request, input, marker, collectors, answers, parsed, stranded, missed,
                     closed, calls>>
      /\ responseEnded' = TRUE
  BY DEF EndResponse
<1>2. Become(Now)
  BY <1>1, NowFields DEF Become
<1>3. CollectorInv'
  BY <1>1, <1>2, NowGood, NowFields, BecomeKeeps DEF RequestInv
<1> QED BY <1>1, <1>3 DEF AnswersOpen

LEMMA DataStep ==
  ASSUME CollectorInv, NEW fault, Data(fault) PROVE CollectorInv' /\ AnswersOpen
<1> DEFINE k == input.taken + 1
           in == [input EXCEPT !.queue = k, !.taken = k]
           x == [Now EXCEPT !.input = in]
           y == Drain(x, fault)
<1>1. /\ UNCHANGED <<request, responseEnded, closed, calls>> /\ request.streamed
      /\ ~input.terminal /\ input.queue = 0 /\ input.taken < Len(request.body)
      /\ Become(Drain([Now EXCEPT !.input.queue = k, !.input.taken = k], fault))
  BY DEF Data, Open
<1>2. k \in 0..MaxChunks /\ k # 0 /\ input.taken \in Nat /\ k <= Len(request.body)
  BY <1>1, NowGood, BodyIsSequence, BodyCollectorAssumption DEF Inputs
<1>3. [Now EXCEPT !.input.queue = k, !.input.taken = k] = x
  BY NowFields, NowGood DEF States
<1>4. /\ in \in Inputs /\ in.queue = k /\ in.taken = k /\ in.consumed = input.consumed
      /\ in.terminal = input.terminal /\ in.ended = input.ended
  BY <1>2, NowGood DEF Inputs
<1>5. Become(y)
  BY <1>1, <1>3
<1> HIDE DEF in, k
<1>6. InputInv(in) /\ Left(in) = Left(input)
  BY <1>1, <1>2, <1>4, NowGood DEF InputInv, Left, k
<1>7. Good(x, calls, Left(in)) /\ x.input = in
  BY <1>4, <1>6, NowGood, NowFields, InputKeeps
<1> HIDE DEF x
<1>8. Good(y, calls, Left(y.input)) /\ Waits(y.input) /\ ~y.input.terminal
  BY <1>1, <1>4, <1>7, NowGood, DrainKeeps
<1> HIDE DEF y
<1>9. CollectorInv'
  BY <1>1, <1>5, <1>8, NowGood, BecomeKeeps DEF RequestInv
<1> QED BY <1>5, <1>8, <1>9 DEF AnswersOpen, Become

LEMMA EndStep ==
  ASSUME CollectorInv, NEW residue \in BOOLEAN, NEW fault, End(residue, fault)
  PROVE  CollectorInv' /\ AnswersOpen
<1> DEFINE in == [input EXCEPT !.ended = TRUE]
           x == [Now EXCEPT !.input = in]
           l == Len(request.body)
           y == IF residue THEN Emit(x, "data", 0, fault) ELSE x
           z == Emit(y, "end", 0, fault)
<1>1. /\ UNCHANGED <<request, responseEnded, closed, calls>>
      /\ ~input.terminal /\ input.queue = 0 /\ input.taken = l
      /\ residue => input.decoded
      /\ Become(Emit(IF residue THEN Emit([Now EXCEPT !.input.ended = TRUE], "data", 0, fault)
                     ELSE [Now EXCEPT !.input.ended = TRUE], "end", 0, fault))
  BY DEF End, Open
<1>2. [Now EXCEPT !.input.ended = TRUE] = x
  BY NowFields, NowGood DEF States
<1>3. /\ in \in Inputs /\ in.queue = input.queue /\ in.taken = input.taken
      /\ in.consumed = input.consumed /\ in.terminal = input.terminal
      /\ in.decoded = input.decoded /\ in.ended
  BY NowGood DEF Inputs
<1>4. Become(z)
  BY <1>1, <1>2
<1> HIDE DEF in
<1>5. InputInv(in) /\ Left(in) = l /\ Left(input) = l /\ l \in Nat
  BY <1>1, <1>3, NowGood, InputFlags DEF Left
<1> HIDE DEF l
<1>6. Good(x, calls, l) /\ x.input = in
  BY <1>3, <1>5, NowGood, NowFields, InputKeeps
<1> HIDE DEF x
<1>7. Good(y, calls, l) /\ Touched(x, y)
  <2>1. CASE residue
    BY <1>1, <1>3, <1>5, <1>6, <2>1, NowGood, ResidueKeeps
  <2>2. CASE ~residue
    BY <1>6, <2>2 DEF Touched
  <2> QED BY <2>1, <2>2
<1> HIDE DEF y
<1>8. ~y.input.terminal /\ y.input.ended /\ y.input.queue = 0 /\ y.input.taken = l
  BY <1>1, <1>3, <1>6, <1>7 DEF Touched
<1>9. Good(z, calls, l) /\ Touched(y, z)
  BY <1>7, <1>8, NowGood, EndKeeps DEF l
<1> HIDE DEF z
<1>10. Good(z, calls, Left(z.input)) /\ Waits(z.input) /\ ~z.input.terminal
  BY <1>8, <1>9 DEF Touched, Waits, Left
<1>11. CollectorInv'
  BY <1>1, <1>4, <1>10, NowGood, BecomeKeeps DEF RequestInv
<1> QED BY <1>4, <1>10, <1>11 DEF AnswersOpen, Become

LEMMA TerminatedKeeps ==
  ASSUME CollectorInv
  PROVE  LET x == Terminated(Now)
         IN /\ Good(x, calls, Left(x.input)) /\ x.input.terminal /\ x.input.queue = 0
            /\ x.answers = answers /\ Left(x.input) \in Nat
<1> DEFINE in == [input EXCEPT !.terminal = TRUE, !.queue = 0]
           x == [Now EXCEPT !.input = in]
<1>1. Terminated(Now) = x
  BY NowFields, NowGood DEF States, Terminated
<1>2. /\ in \in Inputs /\ in.queue = 0 /\ in.taken = input.taken /\ in.terminal
      /\ in.ended = input.ended
  <2>1. 0 \in 0..MaxChunks
    BY BodyCollectorAssumption
  <2> QED BY <2>1, NowGood DEF Inputs
<1> HIDE DEF in
<1>3. InputInv(in) /\ Left(in) = input.taken
  BY <1>2, NowGood DEF InputInv, Left
<1>4. Good(x, calls, Left(in)) /\ x.input = in /\ x.answers = answers
  <2>1. Left(input) <= Left(in) /\ Left(in) \in Nat
    BY <1>3, NowGood
  <2> QED BY <1>2, <1>3, <2>1, NowGood, NowFields, InputKeeps
<1> HIDE DEF x
<1> QED BY <1>1, <1>2, <1>3, <1>4, NowGood

LEMMA FailStep ==
  ASSUME CollectorInv, NEW event \in {"aborted", "error"}, NEW fault, Fail(event, fault)
  PROVE  CollectorInv' /\ AnswersOpen
<1> DEFINE x == Terminated(Now)
           y == Emit(x, event, 0, fault)
<1>1. Become(y) /\ UNCHANGED <<request, responseEnded, closed, calls>>
  BY DEF Fail
<1>2. /\ Good(x, calls, Left(x.input)) /\ x.input.terminal /\ x.input.queue = 0
      /\ x.answers = answers /\ Left(x.input) \in Nat
  BY TerminatedKeeps
<1> HIDE DEF x
<1>3. /\ Good(y, calls, Left(x.input)) /\ y.answers = x.answers
      /\ y.input.queue = x.input.queue /\ y.input.taken = x.input.taken
      /\ y.input.terminal = x.input.terminal
  <2>1. event \in {"error", "aborted", "close", "responseClose"} /\ calls \in Nat
    BY NowGood
  <2> DEFINE l == Left(x.input)
  <2>2. l \in Nat /\ Good(x, calls, l) /\ (x.input.terminal \/ ~request.streamed)
    BY <1>2
  <2> HIDE DEF l
  <2>3. /\ Good(y, calls, l) /\ y.answers = x.answers
        /\ y.input.terminal = x.input.terminal /\ y.input.queue = x.input.queue
        /\ y.input.taken = x.input.taken
    BY <2>1, <2>2, OutcomeKeeps
  <2> QED BY <2>3 DEF l
<1> HIDE DEF y
<1>4. Good(y, calls, Left(y.input))
  BY <1>3 DEF Left
<1>5. Waits(y.input)
  BY <1>2, <1>3 DEF Waits
<1>6. CollectorInv'
  BY <1>1, <1>4, <1>5, NowGood, BecomeKeeps DEF RequestInv
<1> QED BY <1>1, <1>2, <1>3, <1>6 DEF AnswersOpen, Become

LEMMA CloseStep ==
  ASSUME CollectorInv, NEW fault, Close(fault) PROVE CollectorInv' /\ AnswersOpen
<1> DEFINE gone == IF request.streamed THEN Terminated(Now) ELSE Now
           told == IF Open THEN Emit(gone, "aborted", 0, fault) ELSE gone
           shut == Emit(told, "close", 0, fault)
           y == Emit(shut, "responseClose", 0, fault)
           l == Left(gone.input)
           Fine(z) == /\ Good(z, calls, l) /\ z.answers = answers
                      /\ z.input.terminal = gone.input.terminal
                      /\ z.input.queue = gone.input.queue
                      /\ z.input.taken = gone.input.taken
<1>1. Become(y) /\ UNCHANGED <<request, responseEnded, calls>> /\ closed' = TRUE
  BY DEF Close
<1>2. /\ Good(gone, calls, l) /\ gone.answers = answers /\ l \in Nat
      /\ gone.input.terminal \/ ~request.streamed
      /\ gone.input.queue = 0 \/ gone = Now
  BY TerminatedKeeps, NowGood, NowFields
<1>3. Fine(gone)
  BY <1>2
<1> HIDE DEF gone, l
<1>4. ASSUME NEW z, Fine(z), NEW event \in {"error", "aborted", "close", "responseClose"}
      PROVE  Fine(Emit(z, event, 0, fault))
  <2>1. Good(z, calls, l) /\ (z.input.terminal \/ ~request.streamed) /\ calls \in Nat
    BY <1>2, <1>4, NowGood
  <2> DEFINE w == Emit(z, event, 0, fault)
  <2>2. /\ Good(w, calls, l) /\ w.answers = z.answers
        /\ w.input.terminal = z.input.terminal /\ w.input.queue = z.input.queue
        /\ w.input.taken = z.input.taken
    BY <1>2, <2>1, OutcomeKeeps
  <2> HIDE DEF w
  <2>3. Fine(w)
    BY <1>4, <2>2
  <2> QED BY <2>3 DEF w
<1> HIDE DEF Fine
<1>5. Fine(told)
  BY <1>3, <1>4
<1> HIDE DEF told
<1>6. Fine(shut)
  BY <1>4, <1>5
<1> HIDE DEF shut
<1>7. Fine(y)
  BY <1>4, <1>6
<1> HIDE DEF y
<1>8. Good(y, calls, Left(y.input)) /\ y.answers = answers
  BY <1>7 DEF Fine, Left, l
<1>9. Waits(y.input)
  <2>1. CASE gone.input.queue = 0
    BY <1>7, <2>1 DEF Fine, Waits
  <2>2. CASE gone = Now
    <3>1. ~request.streamed => y.input.taken = 0 /\ y.input.queue = 0
      BY <1>8, BodyCollectorAssumption DEF Good, InputInv
    <3>2. gone.input.queue = 0 \/ ~request.streamed
      BY TerminatedKeeps DEF gone
    <3> QED BY <1>7, <3>1, <3>2 DEF Fine, Waits
  <2> QED BY <1>2, <2>1, <2>2
<1>10. RequestInv'
  BY <1>1, NowGood DEF RequestInv
<1>11. CollectorInv'
  BY <1>1, <1>8, <1>9, <1>10, BecomeKeeps
<1> QED BY <1>1, <1>8, <1>11 DEF AnswersOpen, Become

\* A call of the middleware, which either answers at once or starts to collect
LEMMA MiddlewareStep ==
  ASSUME CollectorInv, NEW room \in Rooms, NEW fault, Middleware(room, fault)
  PROVE  CollectorInv' /\ AnswersOpen
<1> DEFINE c == calls + 1
           Fine(z) == /\ Good(z, c, Left(z.input)) /\ Waits(z.input)
                      /\ \A d \in CallIds : marker = d => z.answers[d] = answers[d]
           y == IF AlreadyDone THEN Answer(Now, c, "skipped")
                ELSE IF ~request.streamed THEN ParseBody(Now, c, AllChunks)
                ELSE Collected(Now, c, room, fault)
<1>1. /\ Become(y) /\ UNCHANGED <<request, responseEnded, closed>> /\ calls' = c
      /\ calls < MaxCalls
  BY DEF Middleware
<1>2. /\ c \in CallIds /\ c \in 0..MaxCalls /\ calls \in Nat /\ c \in {calls, calls + 1}
      /\ c <= c /\ room \in 0..6 /\ c \in Nat
  BY <1>1, NowGood, BodyCollectorAssumption, MarkersDiffer DEF CallIds
<1>3. /\ Now.answers[c] = <<>> /\ Now.marker # c /\ marker # c
      /\ Good(Now, calls, Left(input)) /\ RequestInv
  BY <1>2, NowGood, NowFields DEF Good, HolderInv
<1>4. ASSUME NEW w, Good(w, calls, Left(w.input)), Waits(w.input),
             w.answers = answers, w.marker = marker, NEW what \in {"skipped", "request", "limit"}
      PROVE  Fine(Answer(w, c, what))
  <2> DEFINE z == Answer(w, c, what)
             l == Left(w.input)
  <2>1. /\ what \in Answers /\ what # "parsed"
        /\ w.answers[c] = <<>> /\ w.marker # c /\ Good(w, calls, l)
    BY <1>3, <1>4, NowFields DEF Answers
  <2> HIDE DEF c, l
  <2>2. /\ Good(z, c, l) /\ z.input = w.input
        /\ \A d \in CallIds : d # c => z.answers[d] = w.answers[d]
    BY <1>2, <2>1, AnswerKeeps
  <2> HIDE DEF z
  <2>3. Fine(z)
    BY <1>3, <1>4, <2>2 DEF l
  <2> QED BY <2>3 DEF z
<1>5. Waits(Now.input) /\ Good(Now, calls, Left(Now.input))
  BY <1>3, NowGood, NowFields
<1>6. ASSUME AlreadyDone PROVE Fine(y)
  <2>1. y = Answer(Now, c, "skipped")
    BY <1>6
  <2> HIDE DEF y, Fine, c
  <2> QED BY <1>4, <1>5, <2>1, NowFields
<1>7. ASSUME ~AlreadyDone /\ ~request.streamed PROVE Fine(y)
  <2>1. y = ParseBody(Now, c, AllChunks)
    BY <1>7
  <2> HIDE DEF y
  <2>2. marker = None
    BY <1>3, <1>7, NowFields DEF AlreadyDone, Good, HolderInv, States
  <2>3. \A d \in CallIds : Now.collectors[d] = Idle
    BY <1>3, <2>2, NowFields, MarkersDiffer DEF Good, HolderInv
  <2>4. \A d \in CallIds : Now.answers[d] # <<"parsed">>
    BY <1>3, <2>2, NowFields, MarkersDiffer DEF Good, OnceInv
  <2>5. Quiet(Now, c)
    BY <1>3, <2>2, <2>3, <2>4, NowFields DEF Quiet
  <2>6. Heard(Now, AllChunks, DOMAIN request.body) /\ AllChunks \in Seq(1..MaxChunks)
    <3>1. Left(input) = 0
      BY <1>7, NowGood, BodyCollectorAssumption DEF InputInv, Left, Inputs
    <3>2. \A k \in 1..MaxChunks : <<"data", k>> \notin Now.missed
      <4>1. \A k \in 0..MaxChunks : <<"data", k>> \in Now.missed => k <= 0
        BY <1>3, <3>1 DEF Good, KeptInv
      <4>2. ASSUME NEW k \in 1..MaxChunks PROVE <<"data", k>> \notin Now.missed
        <5>1. k \in 0..MaxChunks /\ ~(k <= 0)
          BY BodyCollectorAssumption
        <5> QED BY <4>1, <5>1
      <4> QED BY <4>2
    <3>3. DOMAIN request.body \subseteq 1..MaxChunks
      BY <1>3, BodyIsSequence, BodyCollectorAssumption
    <3>4. {k \in DOMAIN request.body : <<"data", k>> \notin Now.missed} = DOMAIN request.body
      BY <3>2, <3>3
    <3> QED BY <1>3, <3>4, BodyIsSequence DEF Heard
  <2> DEFINE l == Left(input)
  <2>7. /\ Good(Now, calls, l) /\ (request.streamed => Now.input.ended)
    BY <1>3, <1>7
  <2> HIDE DEF c, l
  <2>8. Good(y, c, l) /\ y.input = Now.input
    BY <1>2, <2>1, <2>5, <2>6, <2>7, ParseKeeps
  <2> QED BY <1>5, <2>2, <2>8, NowFields, MarkersDiffer DEF l
<1>8. ASSUME ~AlreadyDone /\ request.streamed /\ (~Available \/ Marked) PROVE Fine(y)
  <2>1. y = Answer(Now, c, "request")
    BY <1>8 DEF Collected
  <2> HIDE DEF y, Fine, c
  <2> QED BY <1>4, <1>5, <2>1, NowFields
<1>9. ASSUME ~AlreadyDone /\ request.streamed /\ Available /\ ~Marked PROVE Fine(y)
  <2>1. y = Collected(Now, c, room, fault)
    BY <1>9
  <2>2. marker = None /\ ~input.terminal /\ ~input.consumed
    BY <1>9 DEF Marked, Available
  <2> HIDE DEF y
  <2>3. CASE request.declared /\ Bytes(request.body) > Limit
    <3> DEFINE p == Paused(Now)
    <3>1. y = Answer(p, c, "limit")
      BY <1>9, <2>1, <2>3 DEF Collected
    <3>2. /\ Good(p, calls, Left(input)) /\ p.input.paused /\ p.answers = answers
          /\ p.input.queue = input.queue /\ p.input.taken = input.taken
          /\ p.marker = marker
      <4>1. LET z == Paused(Now)
            IN /\ Good(z, calls, Left(input)) /\ z.input.paused /\ z.answers = Now.answers
               /\ z.input.queue = Now.input.queue /\ z.input.taken = Now.input.taken
               /\ z.marker = Now.marker
        <5> DEFINE l == Left(input)
        <5>1. l \in Nat /\ Good(Now, calls, l)
          BY <1>3, NowGood
        <5> HIDE DEF l, c
        <5>2. LET z == Paused(Now)
              IN /\ Good(z, calls, l) /\ z.input.paused /\ z.answers = Now.answers
                 /\ z.input.queue = Now.input.queue /\ z.input.taken = Now.input.taken
                 /\ z.marker = Now.marker
          BY <5>1, PausedKeeps
        <5> QED BY <5>2 DEF l
      <4> QED BY <4>1, NowFields
    <3> HIDE DEF p
    <3>3. Good(p, calls, Left(p.input)) /\ Waits(p.input)
      BY <3>2 DEF Left, Waits
    <3> HIDE DEF Fine, c
    <3> QED BY <1>4, <3>1, <3>2, <3>3
  <2>4. CASE ~(request.declared /\ Bytes(request.body) > Limit)
    <3> DEFINE r == Registered(Now, c, room)
    <3>1. Good(r, c, Left(r.input)) /\ r.input.paused /\ ~r.input.terminal
      BY <1>2, <1>5, <1>9, <2>2, NowGood, NowFields, RegisteredKeeps
    <3>2. y = IF room = 6 THEN Resumed(r, fault) ELSE r
      BY <1>9, <2>1, <2>4 DEF Collected
    <3> HIDE DEF r
    <3>3. Good(y, c, Left(y.input)) /\ Waits(y.input)
      <4>1. CASE room = 6
        <5> HIDE DEF c
        <5> QED BY <1>2, <1>3, <3>1, <3>2, <4>1, ResumedKeeps
      <4>2. CASE room # 6
        BY <3>1, <3>2, <4>2 DEF Waits
      <4> QED BY <4>1, <4>2
    <3> QED BY <2>2, <3>3, MarkersDiffer
  <2> QED BY <2>3, <2>4
<1>10. Fine(y)
  <2> HIDE DEF y, Fine
  <2> QED BY <1>6, <1>7, <1>8, <1>9
<1> HIDE DEF y
<1>11. CollectorInv'
  <2>1. RequestInv'
    BY <1>1, <1>2, <1>3 DEF RequestInv
  <2> QED BY <1>1, <1>10, <2>1, BecomeKeeps
<1> QED BY <1>1, <1>10, <1>11 DEF AnswersOpen, Become

-----------------------------------------------------------------------------
\* The invariant of the specification

LEMMA InitInv == Init => CollectorInv
<1> SUFFICES ASSUME Init PROVE CollectorInv
  OBVIOUS
<1>1. RequestInv
  <2>1. 0 \in 0..MaxCalls
    BY BodyCollectorAssumption
  <2>2. request \in Requests /\ responseEnded = FALSE /\ closed = FALSE /\ calls = 0
    BY DEF Init
  <2> QED BY <2>1, <2>2 DEF RequestInv
<1>2. /\ 0 \in 0..MaxChunks /\ 0 <= Len(request.body)
      /\ <<>> \in Seq(Answers)
  BY <1>1, BodyIsSequence, BodyCollectorAssumption
<1>3. /\ input \in Inputs /\ input.queue = 0 /\ input.taken = 0
      /\ marker = None /\ parsed = None /\ stranded = {} /\ missed = {}
      /\ \A c \in CallIds : collectors[c] = Idle /\ answers[c] = <<>>
      /\ collectors \in [CallIds -> Collectors]
      /\ answers \in [CallIds -> Seq(Answers)]
  BY <1>2, IdleIsCollector DEF Init, Inputs
<1>4. Now \in States
  BY <1>3 DEF Now, States
<1>5. InputInv(Now.input) /\ Waits(input) /\ Left(input) = 0
  BY <1>2, <1>3, NowFields DEF InputInv, Left, Waits
<1>6. HolderInv(Now, calls) /\ WholeInv(Now)
  BY <1>3, NowFields, MarkersDiffer, IdleIsCollector DEF HolderInv, WholeInv
<1>7. OnceInv(Now)
  <2>1. Len(<<>>) <= 1 /\ <<>> # <<"parsed">>
    OBVIOUS
  <2>2. \A c \in CallIds : Len(answers[c]) <= 1 /\ answers[c] # <<"parsed">>
    BY <1>3, <2>1
  <2> QED BY <1>3, <2>2, NowFields DEF OnceInv
<1>8. KeptInv(Now, 0)
  BY <1>3, NowFields, IdleIsCollector DEF KeptInv
<1> QED BY <1>1, <1>4, <1>5, <1>6, <1>7, <1>8 DEF CollectorInv, Good

LEMMA StepInv ==
  ASSUME CollectorInv, [Next]_vars
  PROVE  CollectorInv' /\ (AnswersOpen \/ UNCHANGED vars)
<1>1. ASSUME NEW room \in Rooms, NEW fault, Middleware(room, fault)
      PROVE  CollectorInv' /\ AnswersOpen
  BY <1>1, MiddlewareStep
<1>2. ASSUME NEW fault, Resume(fault) PROVE CollectorInv' /\ AnswersOpen
  BY <1>2, ResumeStep
<1>3. CASE Pause \/ Read \/ SetEncoding \/ EndResponse
  BY <1>3, PauseStep, ReadStep, SetEncodingStep, EndResponseStep
<1>4. CASE HostNext
  <2>1. ASSUME NEW residue \in BOOLEAN, NEW fault, End(residue, fault)
        PROVE  CollectorInv' /\ AnswersOpen
    BY <2>1, EndStep
  <2>2. ASSUME NEW event \in {"aborted", "error"}, NEW fault, Fail(event, fault)
        PROVE  CollectorInv' /\ AnswersOpen
    BY <2>2, FailStep
  <2>3. ASSUME NEW fault, Data(fault) PROVE CollectorInv' /\ AnswersOpen
    BY <2>3, DataStep
  <2>4. ASSUME NEW fault, Close(fault) PROVE CollectorInv' /\ AnswersOpen
    BY <2>4, CloseStep
  <2> QED BY <1>4, <2>1, <2>2, <2>3, <2>4 DEF HostNext
<1>5. CASE UNCHANGED vars
  <2>1. Become(Now) /\ UNCHANGED <<request, input, responseEnded, closed, calls>>
    BY <1>5, NowFields DEF vars, Become
  <2>2. CollectorInv'
    BY <2>1, NowGood, NowFields, BecomeKeeps DEF RequestInv
  <2> QED BY <1>5, <2>2
<1> QED BY <1>1, <1>2, <1>3, <1>4, <1>5 DEF Next

LEMMA CollectorHolds == Spec => []CollectorInv
<1>1. CollectorInv /\ [Next]_vars => CollectorInv'
  BY StepInv
<1> QED BY InitInv, <1>1, PTL DEF Spec

-----------------------------------------------------------------------------
\* The theorems

LEMMA InvTypes == CollectorInv => TypeOK
BY NowFields DEF CollectorInv, RequestInv, Good, States, Collectors, Waits, TypeOK

\* Every state of the collector has its type, whatever the body, the limit, the
\* number of calls, the room for listeners and whoever throws.
THEOREM CollectorTypes == Spec => []TypeOK
BY CollectorHolds, InvTypes, PTL

\* What json_parse_body hands to the application is of a body that has ended,
\* valid and within the limit, and every chunk of it, in order, but the ones a
\* listener that threw, or read(), kept from the collector.
THEOREM WholeBodies == Spec => []ParsedIsWhole
<1>1. CollectorInv => ParsedIsWhole
  BY NowFields DEF CollectorInv, Good, WholeInv, Heard, Rising, ParsedIsWhole
<1> QED BY <1>1, CollectorHolds, PTL

\* The middleware calls next at most once for each of its calls, and a body is
\* parsed for one call only, whatever registrations are refused and whichever
\* listeners throw.
THEOREM CollectorAnswersOnce == Spec => []AnsweredOnce
<1>1. CollectorInv => AnsweredOnce
  <2> SUFFICES ASSUME CollectorInv PROVE AnsweredOnce
    OBVIOUS
  <2> DEFINE P == {c \in CallIds : answers[c] = <<"parsed">>}
  <2>1. /\ \A c \in CallIds : Len(answers[c]) <= 1
        /\ \A c, d \in P : c = d
    BY NowFields DEF CollectorInv, Good, OnceInv
  <2> HIDE DEF P
  <2>2. Cardinality(P) <= 1
    <3>1. CASE P = {}
      BY <3>1, FS_EmptySet
    <3>2. CASE P # {}
      <4>1. PICK c \in P : TRUE
        BY <3>2
      <4>2. P = {c}
        BY <2>1, <4>1
      <4>3. Cardinality({c}) = 1
        BY FS_Singleton
      <4> QED BY <4>2, <4>3
    <3> QED BY <3>1, <3>2
  <2> QED BY <2>1, <2>2 DEF AnsweredOnce, P
<1> QED BY <1>1, CollectorHolds, PTL

\* A call that has made its six callbacks, and no longer collects, keeps no
\* listener, no chunk and not the marker: whether it was answered, refused or
\* cancelled, and even when its last registration was refused.
THEOREM NothingLeftBehind == Spec => []ReferencesCleared
<1>1. CollectorInv => ReferencesCleared
  BY InvTypes, NowFields
     DEF CollectorInv, Good, HolderInv, OnceInv, Collecting, ReferencesCleared
<1> QED BY <1>1, CollectorHolds, PTL

\* Once abort, failure or close has terminated the input, the collection is
\* never answered: it is cancelled.
THEOREM NoAnswerAfterOutcome == Spec => NoAnswerOnTerminal
<1>1. CollectorInv /\ [Next]_vars =>
        [\A c \in CallIds : marker = c /\ answers'[c] # answers[c] => ~input'.terminal]_vars
  BY StepInv DEF AnswersOpen
<1> QED BY <1>1, CollectorHolds, PTL DEF Spec, NoAnswerOnTerminal
=============================================================================
