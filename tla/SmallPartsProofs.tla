-------------------------- MODULE SmallPartsProofs -------------------------
(***************************************************************************)
(* Proofs about HttpResponseStream, RateLimit, NodeFs and NodeEvents.      *)
(*                                                                         *)
(* For the stream, IndInv is the inductive invariant; it is the            *)
(* conjunction of the invariants of the module, since each needs the       *)
(* others: NumbersIncrease needs that all numbers sent so far are below    *)
(* next_sequence, which NumbersUsedOnce says, and WellFormed ties the list *)
(* of actions to the lifecycle that the guards read.                       *)
(*                                                                         *)
(* For the limit, WithinLimit is not inductive: a handler runs when the    *)
(* decision comes back, perhaps windows later, so what has to be counted   *)
(* are the requests that were charged, and the current window must be told *)
(* apart from those before it.                                             *)
(*                                                                         *)
(* For the files, OneFileSystem speaks of the call that ended last.  The   *)
(* invariant says of every call that waits that its request is that of its *)
(* own operation, form and arguments, and that its answer, once it has one,*)
(* is the host's on the files recorded with it.  The rest is what one call *)
(* makes of one answer, operation by operation.                            *)
(*                                                                         *)
(* For the listener table, a sequence that the code or the emitter keeps   *)
(* is read as the list of a set in a strict order: two lists of one set in *)
(* one order are equal (SameList), and each operation on sequences makes   *)
(* such lists of such lists.  A step is then a matter of sets: what it     *)
(* does to the entries registered, due or present, and to their order.     *)
(* EmitterInv is the invariant this needs.                                 *)
(***************************************************************************)
EXTENDS HttpResponseStream, RateLimit, NodeFs, NodeEvents, FiniteSetTheorems,
        SequenceTheorems, WellFoundedInduction, TLAPS

-----------------------------------------------------------------------------
\* Lists of numbered actions.

\* The numbers of list s rise, and with the event numbers D they are all the
\* numbers below n, each used once.
Counted(s, n, D) ==
  /\ {s[i].sequence : i \in DOMAIN s} \union D = 1..(n - 1)
  /\ {s[i].sequence : i \in DOMAIN s} \intersect D = {}
  /\ \A i, j \in DOMAIN s : i < j => s[i].sequence < s[j].sequence

\* A list one action longer.
LEMMA AppendShape ==
  ASSUME NEW S, NEW s \in Seq(S), NEW a \in S
  PROVE  LET t == Append(s, a)
         IN /\ t \in Seq(S)
            /\ Len(t) = Len(s) + 1
            /\ DOMAIN t = DOMAIN s \union {Len(s) + 1}
            /\ \A i \in DOMAIN s : t[i] = s[i]
            /\ t[Len(s) + 1] = a
            /\ DOMAIN s = 1..Len(s)
            /\ Len(s) \in Nat
  OBVIOUS

\* A list two actions longer, one at a time.
LEMMA AppendTwice ==
  ASSUME NEW S, NEW s \in Seq(S), NEW a \in S, NEW b \in S
  PROVE  s \o <<a, b>> = Append(Append(s, a), b)
  OBVIOUS

\* An action with the next number keeps the count.
LEMMA AppendCounted ==
  ASSUME NEW S, NEW s \in Seq(S), NEW n \in Nat \ {0}, NEW D, Counted(s, n, D),
         NEW a \in S, a.sequence = n
  PROVE  Counted(Append(s, a), n + 1, D)
<1> DEFINE t == Append(s, a)
           L == Len(s)
           N(l) == {l[i].sequence : i \in DOMAIN l}
<1>1. /\ DOMAIN t = DOMAIN s \union {L + 1}
      /\ \A i \in DOMAIN s : t[i] = s[i]
      /\ t[L + 1] = a
      /\ DOMAIN s = 1..L
      /\ L \in Nat
  BY AppendShape
<1>2. N(t) = N(s) \union {n}
  BY <1>1
<1>3. /\ n \notin N(s) \union D
      /\ \A i \in DOMAIN s : s[i].sequence \in 1..(n - 1)
  <2>1. N(s) \union D = 1..(n - 1)
    BY DEF Counted
  <2>2. n \notin 1..(n - 1)
    OBVIOUS
  <2>3. \A i \in DOMAIN s : s[i].sequence \in N(s)
    OBVIOUS
  <2> QED BY <2>1, <2>2, <2>3
<1>4. (1..(n - 1)) \union {n} = 1..((n + 1) - 1)
  OBVIOUS
<1>5. N(t) \union D = 1..((n + 1) - 1) /\ N(t) \intersect D = {}
  BY <1>2, <1>3, <1>4, ZenonT(60) DEF Counted
<1>6. \A i, j \in DOMAIN t : i < j => t[i].sequence < t[j].sequence
  BY <1>1, <1>3 DEF Counted
<1> QED BY <1>5, <1>6 DEF Counted

\* What the wire shows of an action.
Entry(a) == [op |-> a.op, sequence |-> a.sequence]

OnWire(s) == [i \in DOMAIN s |-> Entry(s[i])]

\* The wire shows one action more.
LEMMA OnWireGrows ==
  ASSUME NEW S, NEW s \in Seq(S), NEW a \in S
  PROVE  OnWire(Append(s, a)) = Append(OnWire(s), Entry(a))
<1> DEFINE T == {Entry(x) : x \in S}
           t == Append(s, a)
<1>1. /\ DOMAIN t = 1..(Len(s) + 1) /\ DOMAIN s = 1..Len(s) /\ Len(s) \in Nat
      /\ \A i \in DOMAIN s : t[i] = s[i] /\ s[i] \in S
      /\ t[Len(s) + 1] = a /\ \A i \in DOMAIN t : t[i] \in S
  OBVIOUS
<1> HIDE DEF t
<1>2. /\ OnWire(s) \in Seq(T) /\ Len(OnWire(s)) = Len(s)
      /\ \A i \in 1..Len(s) : OnWire(s)[i] = Entry(s[i])
  BY <1>1 DEF OnWire
<1>3. /\ OnWire(t) \in Seq(T) /\ Len(OnWire(t)) = Len(s) + 1
      /\ \A i \in 1..(Len(s) + 1) : OnWire(t)[i] = Entry(t[i])
  BY <1>1 DEF OnWire
<1>4. Entry(a) \in T
  OBVIOUS
<1>5. PICK u \in Seq(T) : u = OnWire(s)
  BY <1>2
<1>6. PICK e \in T : e = Entry(a)
  BY <1>4
<1> HIDE DEF T
<1>7. /\ Append(u, e) \in Seq(T) /\ Len(Append(u, e)) = Len(u) + 1
      /\ \A i \in 1..Len(u) : Append(u, e)[i] = u[i]
      /\ Append(u, e)[Len(u) + 1] = e
  OBVIOUS
<1>8. OnWire(t) = Append(u, e)
  BY <1>1, <1>2, <1>3, <1>5, <1>6, <1>7, SeqEqual
<1> QED BY <1>5, <1>6, <1>8 DEF t

-----------------------------------------------------------------------------
\* The invariant.

IndInv ==
  /\ StreamTypeOK
  /\ WellFormed
  /\ NumbersUsedOnce
  /\ NumbersIncrease
  /\ HeadCommitted

\* What is sent has a type.
LEMMA ActionTypes ==
  ASSUME StreamTypeOK
  PROVE  /\ StartAction \in Actions /\ StartAction.op = "start"
         /\ StartAction.sequence = next_sequence /\ StartAction.head = head
         /\ \A op \in {"write", "end"}, n \in Nat \ {0} :
              /\ BodyAction(op, n) \in Actions
              /\ BodyAction(op, n).op = op
              /\ BodyAction(op, n).sequence = n
  BY DEF StreamTypeOK, Actions, StartActions, BodyActions, StartAction, BodyAction

(* The counting invariants are the count of the actions so far. *)
LEMMA CountedInvariants ==
  Counted(actions, next_sequence, delivered)
    <=> NumbersUsedOnce /\ NumbersIncrease
  BY DEF Counted, NumbersUsedOnce, NumbersIncrease, SentNumbers

(* The same after a step. *)
LEMMA CountedPrimed ==
  Counted(actions', next_sequence', delivered')
    => NumbersUsedOnce' /\ NumbersIncrease'
  BY DEF Counted, NumbersUsedOnce, NumbersIncrease, SentNumbers

-----------------------------------------------------------------------------

(* A new struct satisfies the inductive invariant. *)
LEMMA InitIndInv == StreamInit => IndInv
<1> SUFFICES ASSUME StreamInit PROVE IndInv
  OBVIOUS
<1>1. StreamTypeOK
  BY HttpResponseStreamAssumption DEF StreamInit, FirstSequence, StreamTypeOK, Lifecycles
<1>2. DOMAIN actions = {} /\ actions = <<>> /\ delivered = {}
      /\ next_sequence = 1 /\ lifecycle = "buffered"
  BY DEF StreamInit, FirstSequence
<1>3. NumbersUsedOnce
  <2>1. SentNumbers = {}
    BY <1>2 DEF SentNumbers
  <2>2. 1..(1 - 1) = {}
    OBVIOUS
  <2> QED BY <1>2, <2>1, <2>2 DEF NumbersUsedOnce
<1>4. WellFormed /\ NumbersIncrease /\ HeadCommitted
  BY <1>2 DEF WellFormed, NumbersIncrease, HeadCommitted
<1> QED BY <1>1, <1>3, <1>4 DEF IndInv

(* Every method and every delivered event preserves the invariant. *)
LEMMA NextIndInv == IndInv /\ [StreamNext]_streamVars => IndInv'
<1> SUFFICES ASSUME IndInv, [StreamNext]_streamVars PROVE IndInv'
  OBVIOUS
<1>t. StreamTypeOK /\ WellFormed /\ HeadCommitted
      /\ Counted(actions, next_sequence, delivered)
  BY CountedInvariants DEF IndInv
<1> DEFINE L == Len(actions)
<1>1. ASSUME NEW h \in Heads, SetHead(h) PROVE IndInv'
  <2>1. actions = <<>>
    BY <1>1, <1>t DEF SetHead, HeadOpen, WellFormed
  <2>2. NumbersUsedOnce' /\ NumbersIncrease'
    BY <1>1, <1>t, CountedPrimed DEF SetHead
  <2> QED BY <1>1, <1>t, <2>1, <2>2
          DEF IndInv, SetHead, StreamTypeOK, WellFormed, HeadCommitted
<1>2. CASE FlushHeaders
  <2>1. actions = <<>> /\ actions' = Append(actions, StartAction)
    BY <1>2, <1>t DEF FlushHeaders, WellFormed
  <2>2. actions' \in Seq(Actions) /\ DOMAIN actions' = {1} /\ Len(actions') = 1
        /\ actions'[1] = StartAction
    BY <2>1, <1>t, ActionTypes
  <2>3. Counted(Append(actions, StartAction), next_sequence + 1, delivered)
    BY <1>t, ActionTypes, AppendCounted DEF StreamTypeOK
  <2>4. NumbersUsedOnce' /\ NumbersIncrease'
    BY <1>2, <2>1, <2>3, CountedPrimed DEF FlushHeaders
  <2> QED BY <1>2, <1>t, <2>2, <2>4, ActionTypes
          DEF IndInv, FlushHeaders, Started, StreamTypeOK, Lifecycles, WellFormed,
              HeadCommitted
<1>3. CASE WriteFirst
  <2> DEFINE b == BodyAction("write", next_sequence + 1)
             s == Append(actions, StartAction)
  <2>1. /\ StartAction \in Actions /\ b \in Actions
        /\ b.op = "write" /\ b.sequence = next_sequence + 1
        /\ next_sequence + 1 \in Nat \ {0}
    BY <1>t, ActionTypes DEF StreamTypeOK
  <2>2. actions = <<>> /\ actions' = Append(s, b) /\ s \in Seq(Actions)
    BY <1>3, <1>t, <2>1, AppendTwice DEF WriteFirst, WellFormed, StreamTypeOK
  <2>3. actions' \in Seq(Actions) /\ DOMAIN actions' = {1, 2}
        /\ Len(actions') = 2 /\ actions'[1] = StartAction /\ actions'[2] = b
    BY <2>1, <2>2
  <2>4. Counted(s, next_sequence + 1, delivered)
    BY <1>t, <2>1, ActionTypes, AppendCounted DEF StreamTypeOK
  <2>5. Counted(Append(s, b), (next_sequence + 1) + 1, delivered)
    BY <2>1, <2>2, <2>4, AppendCounted
  <2>6. NumbersUsedOnce' /\ NumbersIncrease'
    <3>1. next_sequence' = (next_sequence + 1) + 1 /\ delivered' = delivered
      BY <1>3, <1>t DEF WriteFirst, StreamTypeOK
    <3> QED BY <2>2, <2>5, <3>1, CountedPrimed
  <2> QED BY <1>3, <1>t, <2>1, <2>3, <2>6, ActionTypes
          DEF IndInv, WriteFirst, Started, StreamTypeOK, Lifecycles, WellFormed,
              HeadCommitted
<1>4. CASE Write
  <2> DEFINE b == BodyAction("write", next_sequence)
  <2>1. b \in Actions /\ b.op = "write" /\ b.sequence = next_sequence
    BY <1>t, ActionTypes DEF StreamTypeOK
  <2>2. /\ actions' \in Seq(Actions)
        /\ DOMAIN actions' = DOMAIN actions \union {L + 1}
        /\ \A i \in DOMAIN actions : actions'[i] = actions[i]
        /\ actions'[L + 1] = b
        /\ DOMAIN actions = 1..L /\ L \in Nat /\ Len(actions') = L + 1
    BY <1>4, <1>t, <2>1, AppendShape DEF Write, StreamTypeOK
  <2>3. NumbersUsedOnce' /\ NumbersIncrease'
    BY <1>4, <1>t, <2>1, AppendCounted, CountedPrimed DEF Write, StreamTypeOK
  <2>4. actions # <<>> /\ 1 \in DOMAIN actions
    BY <1>4, <1>t, <2>2 DEF Write, WellFormed, StreamTypeOK
  <2>5. WellFormed'
    BY <1>4, <1>t, <2>1, <2>2, <2>4 DEF Write, WellFormed
  <2> QED BY <1>4, <1>t, <2>2, <2>3, <2>4, <2>5
          DEF IndInv, Write, StreamTypeOK, HeadCommitted
<1>5. CASE EndBuffered
  <2>1. NumbersUsedOnce' /\ NumbersIncrease'
    BY <1>5, <1>t, CountedPrimed DEF EndBuffered
  <2> QED BY <1>5, <1>t, <2>1
          DEF IndInv, EndBuffered, StreamTypeOK, Lifecycles, WellFormed,
              HeadCommitted
<1>6. CASE EndStreaming
  <2> DEFINE b == BodyAction("end", next_sequence)
  <2>1. b \in Actions /\ b.op = "end" /\ b.sequence = next_sequence
    BY <1>t, ActionTypes DEF StreamTypeOK
  <2>2. /\ actions' \in Seq(Actions)
        /\ DOMAIN actions' = DOMAIN actions \union {L + 1}
        /\ \A i \in DOMAIN actions : actions'[i] = actions[i]
        /\ actions'[L + 1] = b
        /\ DOMAIN actions = 1..L /\ L \in Nat /\ Len(actions') = L + 1
    BY <1>6, <1>t, <2>1, AppendShape DEF EndStreaming, StreamTypeOK
  <2>3. NumbersUsedOnce' /\ NumbersIncrease'
    BY <1>6, <1>t, <2>1, AppendCounted, CountedPrimed DEF EndStreaming, StreamTypeOK
  <2>4. actions # <<>> /\ 1 \in DOMAIN actions
    BY <1>6, <1>t, <2>2 DEF EndStreaming, WellFormed, StreamTypeOK
  <2>5. WellFormed'
    BY <1>6, <1>t, <2>1, <2>2, <2>4 DEF EndStreaming, WellFormed
  <2> QED BY <1>6, <1>t, <2>2, <2>3, <2>4, <2>5
          DEF IndInv, EndStreaming, StreamTypeOK, Lifecycles, HeadCommitted
<1>7. ASSUME NEW n \in 1..MaxSequence, DeliverDrain(n) \/ DeliverClose(n)
      PROVE  IndInv'
  <2>1. /\ delivered' = delivered \union {next_sequence}
        /\ next_sequence' = next_sequence + 1
        /\ UNCHANGED <<actions, head>>
        /\ lifecycle' \in {lifecycle, "closed"}
        /\ lifecycle \in {"buffered", "streaming"}
        /\ lifecycle = "buffered" => lifecycle' = "closed"
    BY <1>7 DEF DeliverDrain, DeliverClose, InSequence, DrainOpen, Live
  <2>2. (1..(next_sequence - 1)) \union {next_sequence}
          = 1..((next_sequence + 1) - 1)
    BY <1>t DEF StreamTypeOK
  <2>3. next_sequence \notin SentNumbers
    BY <1>t DEF StreamTypeOK, Counted, SentNumbers
  <2>4. NumbersUsedOnce'
    BY <1>t, <2>1, <2>2, <2>3, CountedInvariants
       DEF NumbersUsedOnce, SentNumbers
  <2>5. NumbersIncrease'
    BY <2>1, <1>t, CountedInvariants DEF NumbersIncrease
  <2>6. WellFormed'
    BY <1>t, <2>1 DEF WellFormed
  <2> QED BY <1>t, <2>1, <2>4, <2>5, <2>6
          DEF IndInv, StreamTypeOK, Lifecycles, HeadCommitted
<1>8. CASE UNCHANGED streamVars
  <2>1. NumbersUsedOnce' /\ NumbersIncrease'
    BY <1>8, <1>t, CountedPrimed DEF streamVars
  <2> QED BY <1>8, <1>t, <2>1
          DEF IndInv, streamVars, StreamTypeOK, WellFormed, HeadCommitted
<1> QED BY <1>1, <1>2, <1>3, <1>4, <1>5, <1>6, <1>7, <1>8 DEF StreamNext

(* The inductive invariant holds in every reachable state. *)
LEMMA StreamInvariant == StreamSpec => []IndInv
  BY InitIndInv, NextIndInv, PTL DEF StreamSpec

\* The types of the struct's fields and of every action it pushes.
THEOREM StreamTypes == StreamSpec => []StreamTypeOK
<1>1. IndInv => StreamTypeOK
  BY DEF IndInv
<1> QED BY <1>1, StreamInvariant, PTL

\* However the calls and events interleave, the actions are one response:
\* start first and once, nothing after end.
THEOREM StreamWellFormed == StreamSpec => []WellFormed
<1>1. IndInv => WellFormed
  BY DEF IndInv
<1> QED BY <1>1, StreamInvariant, PTL

\* No number is used twice or left out, by the module or by the host.
THEOREM StreamNumbersUsedOnce == StreamSpec => []NumbersUsedOnce
<1>1. IndInv => NumbersUsedOnce
  BY DEF IndInv
<1> QED BY <1>1, StreamInvariant, PTL

\* The start carries every change of status and headers that was accepted.
THEOREM StreamHeadCommitted == StreamSpec => []HeadCommitted
<1>1. IndInv => HeadCommitted
  BY DEF IndInv
<1> QED BY <1>1, StreamInvariant, PTL

-----------------------------------------------------------------------------

(* A new struct is an empty stream. *)
LEMMA WireInit == StreamInit => Wire!Init
  BY DEF StreamInit, FirstSequence, Wire!Init

(* Every step of the struct is a step of the stream or leaves it alone. *)
LEMMA WireStep == IndInv /\ [StreamNext]_streamVars => [Wire!Next]_(Wire!vars)
<1> SUFFICES ASSUME IndInv, [StreamNext]_streamVars PROVE [Wire!Next]_(Wire!vars)
  OBVIOUS
<1>t. /\ StreamTypeOK /\ WellFormed
      /\ actions \in Seq(Actions) /\ next_sequence \in Nat \ {0}
  BY DEF IndInv, StreamTypeOK
<1> DEFINE Mapped == [i \in DOMAIN actions |->
                        [op |-> actions[i].op,
                         sequence |-> actions[i].sequence]]
<1>m. Mapped = OnWire(actions) /\ Mapped' = OnWire(actions')
  BY DEF OnWire, Entry
<1>1. ASSUME NEW h \in Heads, SetHead(h) PROVE UNCHANGED Wire!vars
  BY <1>1 DEF SetHead, Wire!vars
<1>2. CASE FlushHeaders
  <2>1. OnWire(actions') = Append(OnWire(actions), Entry(StartAction))
    BY <1>2, <1>t, ActionTypes, OnWireGrows DEF FlushHeaders
  <2>2. Wire!Send("start")
    BY <1>2, <1>t, <1>m, <2>1, ActionTypes DEF FlushHeaders, Entry, Wire!Send, Wire!Action
  <2>3. Wire!Start
    BY <1>2, <2>2 DEF FlushHeaders, Started, Wire!Start
  <2> QED BY <2>3 DEF Wire!Next
<1>3. CASE WriteFirst
  <2> DEFINE b == BodyAction("write", next_sequence + 1)
             s == Append(actions, StartAction)
  <2>1. actions' = actions \o <<StartAction, b>>
    BY <1>3 DEF WriteFirst
  <2>2. /\ b \in Actions /\ b.op = "write" /\ b.sequence = next_sequence + 1
        /\ StartAction \in Actions /\ StartAction.op = "start"
        /\ StartAction.sequence = next_sequence
    BY <1>t, ActionTypes
  <2> HIDE DEF b
  <2>3. actions' = Append(s, b) /\ s \in Seq(Actions)
    BY <1>t, <2>1, <2>2, AppendTwice
  <2>4. OnWire(s) = Append(OnWire(actions), Entry(StartAction))
    BY <1>t, <2>2, OnWireGrows
  <2> HIDE DEF s
  <2>5. OnWire(actions') = Append(Append(OnWire(actions), Entry(StartAction)), Entry(b))
    BY <2>2, <2>3, <2>4, OnWireGrows
  <2>6. /\ Entry(StartAction) = Wire!Action("start", next_sequence)
        /\ Entry(b) = Wire!Action("write", next_sequence + 1)
    BY <2>2 DEF Entry, Wire!Action
  <2>7. Wire!SendTwo("start", "write")
    BY <1>3, <1>t, <1>m, <2>5, <2>6 DEF WriteFirst, Wire!SendTwo
  <2>8. Wire!Start
    BY <1>3, <2>7 DEF WriteFirst, Started, Wire!Start
  <2> QED BY <2>8 DEF Wire!Next
<1>4. CASE Write
  <2> DEFINE b == BodyAction("write", next_sequence)
  <2>1. b \in Actions /\ b.op = "write" /\ b.sequence = next_sequence
    BY <1>t, ActionTypes
  <2>2. OnWire(actions') = Append(OnWire(actions), Entry(b))
    BY <1>4, <1>t, <2>1, OnWireGrows DEF Write
  <2>3. Wire!Send("write")
    BY <1>4, <1>t, <1>m, <2>1, <2>2 DEF Write, Entry, Wire!Send, Wire!Action
  <2> QED BY <1>4, <2>3 DEF Write, Wire!Write, Wire!Next
<1>5. CASE EndBuffered
  <2>1. Wire!EndBuffered
    BY <1>5 DEF EndBuffered, Wire!EndBuffered
  <2> QED BY <2>1 DEF Wire!Next
<1>6. CASE EndStreaming
  <2> DEFINE b == BodyAction("end", next_sequence)
  <2>1. b \in Actions /\ b.op = "end" /\ b.sequence = next_sequence
    BY <1>t, ActionTypes
  <2>2. OnWire(actions') = Append(OnWire(actions), Entry(b))
    BY <1>6, <1>t, <2>1, OnWireGrows DEF EndStreaming
  <2>3. Wire!Send("end")
    BY <1>6, <1>t, <1>m, <2>1, <2>2 DEF EndStreaming, Entry, Wire!Send, Wire!Action
  <2> QED BY <1>6, <2>3 DEF EndStreaming, Wire!End, Wire!Next
<1>7. ASSUME NEW n \in 1..MaxSequence, DeliverDrain(n) \/ DeliverClose(n)
      PROVE  Wire!Next
  <2>1. CASE DeliverDrain(n)
    <3>1. Wire!Drain
      BY <2>1 DEF DeliverDrain, DrainOpen, Wire!Drain
    <3> QED BY <3>1 DEF Wire!Next
  <2>2. CASE DeliverClose(n)
    <3>1. Wire!Close
      BY <2>2 DEF DeliverClose, Live, Wire!Close
    <3> QED BY <3>1 DEF Wire!Next
  <2> QED BY <1>7, <2>1, <2>2
<1>8. CASE UNCHANGED streamVars
  BY <1>8 DEF streamVars, Wire!vars
<1> QED BY <1>1, <1>2, <1>3, <1>4, <1>5, <1>6, <1>7, <1>8 DEF StreamNext

\* Everything the struct does is allowed by the contract of a streamed
\* response, the one the host and the response object share.
THEOREM StreamImplementsWire == StreamSpec => ImplementsWire
  BY WireInit, WireStep, StreamInvariant, PTL
     DEF StreamSpec, ImplementsWire, Wire!Spec

-----------------------------------------------------------------------------
\* RateLimit

Decisions == {NoDecision, "allowed", "refused", "odd", "error"}
Outcomes == {"pending", "handler", "refusal", "value", "rejected"}

LimitTypes ==
  /\ client \in [Requests -> Clients \union {NoClient}]
  /\ asked \in [Requests -> {"no", "middleware", "consume"}]
  /\ decision \in [Requests -> Decisions]
  /\ outcome \in [Requests -> Outcomes]
  /\ response \in [Requests -> {"open", "answered", "closed"}]
  /\ window \in Nat \ {0}
  /\ spent \in [Clients -> Nat]

\* The requests of a client that the host has charged
Charged(c) == {r \in Requests : decision[r] = "allowed" /\ client[r] = c}

\* What a client was charged in all windows so far
ChargesFit ==
  \A c \in Clients :
    /\ Weight * Cardinality(Charged(c)) <= Limit * (window - 1) + spent[c]
    /\ spent[c] <= Limit

\* What an outcome says about the decision, the response and the client
OutcomesFollow ==
  \A r \in Requests :
    /\ asked[r] # "no" /\ outcome[r] = "pending" => client[r] \in Clients
    /\ outcome[r] = "handler" => decision[r] = "allowed"
    /\ outcome[r] = "refusal" => decision[r] # "allowed" /\ decision[r] # NoDecision
                                   /\ response[r] = "answered"

LimitInv == LimitTypes /\ ChargesFit /\ OutcomesFollow

LEMMA ChargedIsFinite ==
  ASSUME NEW S \in SUBSET Requests
  PROVE  IsFiniteSet(S) /\ Cardinality(S) \in Nat
  BY RateLimitAssumption, FS_Subset, FS_CardinalityType

(* The same requests charged for, and nothing else counted. *)
LEMMA ChargesKept ==
  ASSUME ChargesFit, UNCHANGED <<client, decision, window, spent>>
  PROVE  ChargesFit'
  BY DEF ChargesFit, Charged

-----------------------------------------------------------------------------

LEMMA LimitInitInv == LimitInit => LimitInv
<1> SUFFICES ASSUME LimitInit PROVE LimitInv
  OBVIOUS
<1>1. LimitTypes
  BY DEF LimitInit, LimitTypes, Decisions, Outcomes
<1>2. ASSUME NEW c \in Clients
      PROVE  /\ Weight * Cardinality(Charged(c)) <= Limit * (window - 1) + spent[c]
             /\ spent[c] <= Limit
  <2>1. Charged(c) = {}
    BY DEF LimitInit, Charged, NoDecision
  <2>2. Cardinality(Charged(c)) = 0
    BY <2>1, FS_EmptySet
  <2> QED BY <2>2, RateLimitAssumption DEF LimitInit
<1>3. OutcomesFollow
  BY DEF LimitInit, OutcomesFollow
<1> QED BY <1>1, <1>2, <1>3 DEF LimitInv, ChargesFit

-----------------------------------------------------------------------------

LEMMA DecideKeeps ==
  ASSUME LimitInv, NEW r \in Requests, Decide(r)
  PROVE  LimitInv'
<1>0. client[r] \in Clients
  BY DEF Decide, LimitInv, OutcomesFollow
<1> DEFINE fits == spent[client[r]] + Weight <= Limit
<1>1. LimitTypes'
  BY <1>0, RateLimitAssumption DEF Decide, LimitInv, LimitTypes, Decisions
<1>2. OutcomesFollow'
  BY DEF Decide, LimitInv, LimitTypes, OutcomesFollow, NoDecision
<1>3. ASSUME NEW c \in Clients
      PROVE  /\ Weight * Cardinality(Charged(c)') <= Limit * (window' - 1) + spent'[c]
             /\ spent'[c] <= Limit
  <2>1. /\ IsFiniteSet(Charged(c)) /\ Cardinality(Charged(c)) \in Nat
        /\ Charged(c) \in SUBSET Requests
    BY ChargedIsFinite DEF Charged
  <2>2. r \notin Charged(c)
    BY DEF Decide, Charged, NoDecision
  <2>3. /\ Weight * Cardinality(Charged(c)) <= Limit * (window - 1) + spent[c]
        /\ spent[c] <= Limit /\ spent[c] \in Nat /\ window \in Nat \ {0}
    BY DEF LimitInv, ChargesFit, LimitTypes
  <2>4. window' = window /\ client' = client
    BY DEF Decide
  <2>5. CASE decision'[r] = "allowed" /\ c = client[r]
    <3>1. fits /\ spent' = [spent EXCEPT ![client[r]] = @ + Weight]
      BY <2>5 DEF Decide, LimitInv, LimitTypes
    <3>2. Charged(c)' = Charged(c) \union {r}
      BY <2>4, <2>5 DEF Decide, Charged, LimitInv, LimitTypes
    <3>3. Cardinality(Charged(c)') = Cardinality(Charged(c)) + 1
      BY <2>1, <2>2, <3>2, FS_AddElement
    <3>4. spent'[c] = spent[c] + Weight
      BY <2>5, <3>1 DEF LimitInv, LimitTypes
    <3> DEFINE n == Cardinality(Charged(c))
               past == Limit * (window - 1)
    <3>5. Weight * (n + 1) = Weight * n + Weight /\ past \in Int /\ Weight * n \in Int
      BY <2>1, <2>3, RateLimitAssumption
    <3>6. spent'[c] <= Limit
      BY <2>5, <3>1, <3>4
    <3>7. Weight * n + Weight <= past + (spent[c] + Weight)
      <4> HIDE DEF n, past
      <4> QED BY <2>3, <3>5, RateLimitAssumption DEF n, past
    <3> QED BY <2>4, <3>3, <3>4, <3>5, <3>6, <3>7
  <2>6. CASE ~(decision'[r] = "allowed" /\ c = client[r])
    <3>1. Charged(c)' = Charged(c)
      BY <2>2, <2>4, <2>6 DEF Decide, Charged, LimitInv, LimitTypes
    <3>2. spent'[c] = spent[c]
      BY <2>6 DEF Decide, LimitInv, LimitTypes
    <3> QED BY <2>3, <2>4, <3>1, <3>2
  <2> QED BY <2>5, <2>6
<1> QED BY <1>1, <1>2, <1>3 DEF LimitInv, ChargesFit

LEMMA NextWindowKeeps ==
  ASSUME LimitInv, NextWindow
  PROVE  LimitInv'
<1>1. LimitTypes'
  BY DEF NextWindow, LimitInv, LimitTypes
<1>2. OutcomesFollow'
  BY DEF NextWindow, LimitInv, OutcomesFollow
<1>3. ASSUME NEW c \in Clients
      PROVE  /\ Weight * Cardinality(Charged(c)') <= Limit * (window' - 1) + spent'[c]
             /\ spent'[c] <= Limit
  <2>1. Charged(c)' = Charged(c) /\ window' = window + 1 /\ spent'[c] = 0
    BY DEF NextWindow, Charged
  <2>2. Cardinality(Charged(c)) \in Nat
    BY ChargedIsFinite DEF Charged
  <2>3. /\ Weight * Cardinality(Charged(c)) <= Limit * (window - 1) + spent[c]
        /\ spent[c] <= Limit /\ spent[c] \in Nat /\ window \in Nat \ {0}
    BY DEF LimitInv, ChargesFit, LimitTypes
  <2>4. Limit * ((window + 1) - 1) + 0 = Limit * (window - 1) + Limit
    BY <2>3, RateLimitAssumption
  <2>5. Weight * Cardinality(Charged(c)) \in Int /\ Limit * (window - 1) \in Int
    BY <2>2, <2>3, RateLimitAssumption
  <2>6. Weight * Cardinality(Charged(c)) <= Limit * (window - 1) + Limit
    BY <2>3, <2>5, RateLimitAssumption
  <2> QED BY <2>1, <2>4, <2>6, RateLimitAssumption
<1> QED BY <1>1, <1>2, <1>3 DEF LimitInv, ChargesFit

LEMMA ResumedKeeps ==
  ASSUME LimitInv, NEW r \in Requests, Resumed(r)
  PROVE  LimitInv'
<1>1. LimitTypes' /\ OutcomesFollow'
  <2>1. PICK accepts \in BOOLEAN :
          LET refuses == accepts /\ response[r] = "open"
              result == IF decision[r] = "error" THEN "rejected"
                        ELSE IF asked[r] = "consume" THEN "value"
                        ELSE IF Admits(decision[r]) THEN "handler"
                        ELSE IF refuses THEN "refusal" ELSE "rejected"
          IN /\ outcome' = [outcome EXCEPT ![r] = result]
             /\ response' = [response EXCEPT ![r] =
                  IF result = "refusal" THEN "answered" ELSE @]
    BY DEF Resumed
  <2>2. /\ UNCHANGED <<client, decision, window, spent>>
        /\ decision[r] # NoDecision /\ outcome[r] = "pending"
    BY DEF Resumed
  <2>3. asked' = asked
    BY DEF Resumed
  <2> QED BY <2>1, <2>2, <2>3 DEF LimitInv, LimitTypes, OutcomesFollow, Outcomes, Admits
<1>2. ChargesFit'
  BY ChargesKept DEF Resumed, LimitInv
<1> QED BY <1>1, <1>2 DEF LimitInv

(* A step that neither charges nor resumes anything. *)
LEMMA UnchargedStepKeeps ==
  ASSUME LimitInv, UNCHANGED <<client, decision, window, spent>>,
         (LimitTypes /\ OutcomesFollow)'
  PROVE  LimitInv'
  BY ChargesKept DEF LimitInv

LEMMA AskKeeps ==
  ASSUME LimitInv, NEW r \in Requests, NEW how \in {"middleware", "consume"},
         NEW refused, Ask(r, how, refused)
  PROVE  LimitInv'
<1>1. UNCHANGED <<client, decision, window, spent, response>>
  BY DEF Ask
<1>2. outcome' \in {outcome, [outcome EXCEPT ![r] = "rejected"]}
  BY DEF Ask, LimitInv, LimitTypes
<1>3. outcome' = outcome => client[r] \in Clients \/ outcome[r] # "pending"
  BY DEF Ask, LimitInv, LimitTypes, NoClient
<1>4. asked' = [asked EXCEPT ![r] = how]
  BY DEF Ask
<1>5. LimitTypes'
  BY <1>1, <1>2, <1>4 DEF LimitInv, LimitTypes, Outcomes
<1>6. OutcomesFollow'
  BY <1>1, <1>2, <1>3, <1>4 DEF LimitInv, LimitTypes, OutcomesFollow
<1> QED BY <1>1, <1>5, <1>6, UnchargedStepKeeps

LEMMA LeavesKeeps ==
  ASSUME LimitInv, NEW r \in Requests, NEW state \in {"answered", "closed"},
         Leaves(r, state)
  PROVE  LimitInv'
<1>1. (LimitTypes /\ OutcomesFollow)'
  BY DEF Leaves, LimitInv, LimitTypes, OutcomesFollow
<1> QED BY <1>1, UnchargedStepKeeps DEF Leaves

LEMMA LimitStepKeeps == LimitInv /\ [LimitNext]_limitVars => LimitInv'
<1> SUFFICES ASSUME LimitInv, [LimitNext]_limitVars PROVE LimitInv'
  OBVIOUS
<1> USE DEF limitVars
<1>1. ASSUME NEW limit \in {0, Limit}, OpenLimiter(limit) PROVE LimitInv'
  <2>1. UNCHANGED <<asked, client, decision, outcome, response, window, spent>>
    BY <1>1 DEF OpenLimiter
  <2> QED BY <2>1, UnchargedStepKeeps DEF LimitInv, LimitTypes, OutcomesFollow
<1>2. CASE LimiterOpened
  <2>1. UNCHANGED <<asked, client, decision, outcome, response, window, spent>>
    BY <1>2 DEF LimiterOpened
  <2> QED BY <2>1, UnchargedStepKeeps DEF LimitInv, LimitTypes, OutcomesFollow
<1>3. ASSUME NEW weight, NEW status, MakeMiddleware(weight, status) PROVE LimitInv'
  <2>1. UNCHANGED <<asked, client, decision, outcome, response, window, spent>>
    BY <1>3 DEF MakeMiddleware
  <2> QED BY <2>1, UnchargedStepKeeps DEF LimitInv, LimitTypes, OutcomesFollow
<1>4. ASSUME NEW r \in Requests, CallMiddleware(r) PROVE LimitInv'
  BY <1>4, AskKeeps DEF CallMiddleware
<1>5. ASSUME NEW r \in Requests, NEW weight, Consume(r, weight) PROVE LimitInv'
  BY <1>5, AskKeeps DEF Consume
<1>6. CASE NextWindow
  BY <1>6, NextWindowKeeps
<1>7. ASSUME NEW r \in Requests, Decide(r) PROVE LimitInv'
  BY <1>7, DecideKeeps
<1>8. ASSUME NEW r \in Requests, Resumed(r) PROVE LimitInv'
  BY <1>8, ResumedKeeps
<1>9. ASSUME NEW r \in Requests, NEW state \in {"answered", "closed"}, Leaves(r, state)
      PROVE  LimitInv'
  BY <1>9, LeavesKeeps
<1>10. CASE UNCHANGED limitVars
  <2>1. UNCHANGED <<asked, client, decision, outcome, response, window, spent>>
    BY <1>10
  <2> QED BY <2>1, UnchargedStepKeeps DEF LimitInv, LimitTypes, OutcomesFollow
<1> QED BY <1>1, <1>2, <1>3, <1>4, <1>5, <1>6, <1>7, <1>8, <1>9, <1>10 DEF LimitNext

(* The requests that were handled are among those that were charged. *)
LEMMA LimitInvSuffices == LimitInv => WithinLimit
<1> SUFFICES ASSUME LimitInv PROVE WithinLimit
  OBVIOUS
<1>1. ASSUME NEW c \in Clients
      PROVE  Weight * Cardinality({r \in Requests : outcome[r] = "handler" /\ client[r] = c})
               <= Limit * window
  <2> DEFINE H == {r \in Requests : outcome[r] = "handler" /\ client[r] = c}
             h == Cardinality(H)
             n == Cardinality(Charged(c))
  <2>1. H \subseteq Charged(c) /\ Charged(c) \in SUBSET Requests /\ H \in SUBSET Requests
    BY DEF LimitInv, OutcomesFollow, Charged
  <2>2. h \in Nat /\ n \in Nat /\ h <= n
    BY <2>1, ChargedIsFinite, FS_Subset
  <2>3. Weight * n <= Limit * (window - 1) + spent[c] /\ spent[c] <= Limit
        /\ spent[c] \in Nat /\ window \in Nat \ {0}
    BY DEF LimitInv, ChargesFit, LimitTypes
  <2> HIDE DEF H, h, n
  <2>4. Weight * h <= Weight * n /\ Weight * h \in Int /\ Weight * n \in Int
    BY <2>2, RateLimitAssumption
  <2>5. Limit * window = Limit * (window - 1) + Limit /\ Limit * (window - 1) \in Int
    BY <2>3, RateLimitAssumption
  <2>6. Weight * h <= Limit * window
    BY <2>3, <2>4, <2>5, RateLimitAssumption
  <2> QED BY <2>6 DEF h, H
<1>2. \A r \in Requests :
        /\ outcome[r] = "handler" => decision[r] = "allowed"
        /\ outcome[r] = "refusal" => decision[r] # "allowed" /\ response[r] = "answered"
  BY DEF LimitInv, OutcomesFollow
<1> QED BY <1>1, <1>2 DEF WithinLimit

\* tps-rate-limit: for any number of requests and windows, the handlers that
\* ran for a client stay within the limits of the windows so far, each of them
\* charged, and nothing is handled and refused (RETURN_MIDDLEWARE).
THEOREM HandlersWithinLimit == LimitSpec => []WithinLimit
<1>1. LimitInit => LimitInv
  BY LimitInitInv
<1>2. LimitInv /\ [LimitNext]_limitVars => LimitInv'
  BY LimitStepKeeps
<1>3. LimitInv => WithinLimit
  BY LimitInvSuffices
<1> QED BY <1>1, <1>2, <1>3, PTL DEF LimitSpec

-----------------------------------------------------------------------------
\* NodeFs

\* OneFileSystem, of any call that has ended
TellsTruth(t) ==
  LET entry == t.before[t.args.path]
      code == ErrorOf(t.operation, t.args, entry)
  IN \/ code # Missing /\ Failure(t, code)
     \/ /\ code = Missing
        /\ Understood(t) = [value |-> ValueOf(t.operation, t.args, entry)]
        /\ t.after = FilesAfter(t.operation, t.args, t.before)
     \/ t.operation # "exists" /\ Failure(t, "EIO")
     \/ t.operation = "exists" /\ Understood(t) = [value |-> FALSE]

LEMMA TruthIsOneFileSystem == told = NoCall \/ TellsTruth(told) => OneFileSystem
  BY DEF TellsTruth, OneFileSystem

-----------------------------------------------------------------------------
\* What a request keeps until its answer comes.

LEMMA PairShape ==
  ASSUME NEW x, NEW y
  PROVE  /\ <<x>> \o <<y>> \in Seq({x, y})
         /\ Len(<<x>> \o <<y>>) = 2
         /\ (<<x>> \o <<y>>)[1] = x /\ (<<x>> \o <<y>>)[2] = y
<1>1. <<x>> \in Seq({x, y}) /\ <<y>> \in Seq({x, y})
  OBVIOUS
<1>2. Len(<<x>>) = 1 /\ Len(<<y>>) = 1
  OBVIOUS
<1>3. /\ <<x>> \o <<y>> \in Seq({x, y})
      /\ Len(<<x>> \o <<y>>) = Len(<<x>>) + Len(<<y>>)
      /\ \A i \in 1..Len(<<x>>) + Len(<<y>>) :
           (<<x>> \o <<y>>)[i] = IF i <= Len(<<x>>) THEN <<x>>[i] ELSE <<y>>[i - Len(<<x>>)]
  BY <1>1, ConcatProperties
<1>4. (<<x>> \o <<y>>)[1] = x /\ (<<x>> \o <<y>>)[2] = y
  BY <1>2, <1>3
<1> QED BY <1>2, <1>3, <1>4

LEMMA KeptShape ==
  ASSUME NEW form, NEW path
  PROVE  \E s \in Seq({Callback, path}) :
           /\ Kept(form, path) = s /\ Len(s) = PathIndex(form) /\ s[PathIndex(form)] = path
           /\ PathIndex(form) \in 1..2
<1>1. CASE form = "callback"
  <2>1. Kept(form, path) = <<Callback>> \o <<path>> /\ PathIndex(form) = 2
    BY <1>1 DEF Kept, PathIndex
  <2>2. PICK s \in Seq({Callback, path}) :
          /\ s = <<Callback>> \o <<path>> /\ Len(s) = 2 /\ s[2] = path
    <3>1. /\ <<Callback>> \o <<path>> \in Seq({Callback, path})
          /\ Len(<<Callback>> \o <<path>>) = 2 /\ (<<Callback>> \o <<path>>)[2] = path
      BY PairShape
    <3>2. PICK s : s = <<Callback>> \o <<path>>
      OBVIOUS
    <3>3. s \in Seq({Callback, path}) /\ Len(s) = 2 /\ s[2] = path
      BY <3>1, <3>2
    <3> QED BY <3>2, <3>3
  <2>3. Len(s) = PathIndex(form) /\ s[PathIndex(form)] = path /\ PathIndex(form) \in 1..2
    BY <2>1, <2>2
  <2> QED BY <2>1, <2>2, <2>3
<1>2. CASE form # "callback"
  <2>1. <<path>> \in Seq({Callback, path}) /\ Len(<<path>>) = 1 /\ <<path>>[1] = path
    OBVIOUS
  <2>2. Kept(form, path) = <<path>> /\ PathIndex(form) = 1
    BY <1>2 DEF Kept, PathIndex
  <2>3. PICK s \in Seq({Callback, path}) : s = <<path>> /\ Len(s) = 1 /\ s[1] = path
    BY <2>1
  <2>4. Len(s) = PathIndex(form) /\ s[PathIndex(form)] = path /\ PathIndex(form) \in 1..2
    BY <2>2, <2>3
  <2> QED BY <2>2, <2>3, <2>4
<1> QED BY <1>1, <1>2

\* What is at an index: the provers rewrite the application of an Append, so it
\* gets a name.
At(s, i, x) == s[i] = x

LEMMA KeptMore ==
  ASSUME NEW form, NEW path, NEW more
  PROVE  /\ At(Append(Kept(form, path), more), PathIndex(form), path)
         /\ At(Append(Kept(form, path), more), PathIndex(form) + 1, more)
<1>1. PICK s \in Seq({Callback, path}) :
           /\ Kept(form, path) = s /\ Len(s) = PathIndex(form) /\ s[PathIndex(form)] = path
           /\ PathIndex(form) \in 1..2
  BY KeptShape
<1>2. s \in Seq({Callback, path, more})
  OBVIOUS
<1>3. /\ Len(Append(s, more)) = Len(s) + 1
      /\ \A i \in 1..Len(s) : Append(s, more)[i] = s[i]
      /\ Append(s, more)[Len(s) + 1] = more
  BY <1>2, AppendProperties
<1>4. PICK t : t = Append(s, more)
  OBVIOUS
<1>5. t[PathIndex(form)] = path /\ t[PathIndex(form) + 1] = more
  BY <1>1, <1>3, <1>4
<1>6. At(t, PathIndex(form), path) /\ At(t, PathIndex(form) + 1, more)
  BY <1>5 DEF At
<1> QED BY <1>1, <1>4, <1>6

\* Every request names its operation and its form, and its state the path.
Asks(request, operation, form, path) ==
  /\ request.operation = operation /\ request.form = form
  /\ request.state[PathIndex(form)] = path
  /\ request.arguments[1] = path

LEMMA AsksKept ==
  ASSUME NEW operation, NEW form, NEW path, NEW capability, NEW arguments, arguments[1] = path
  PROVE  Asks(Request(operation, form, capability, arguments, Kept(form, path)),
              operation, form, path)
<1>1. Kept(form, path)[PathIndex(form)] = path
  BY KeptShape
<1> QED BY <1>1 DEF Asks, Request

LEMMA AsksKeptMore ==
  ASSUME NEW operation, NEW form, NEW path, NEW capability, NEW arguments, arguments[1] = path,
         NEW more
  PROVE  Asks(Request(operation, form, capability, arguments, Append(Kept(form, path), more)),
              operation, form, path)
<1>1. PICK t : t = Append(Kept(form, path), more)
  OBVIOUS
<1>2. At(t, PathIndex(form), path)
  BY <1>1, KeptMore
<1>3. t[PathIndex(form)] = path
  BY <1>2 DEF At
<1> QED BY <1>1, <1>3 DEF Asks, Request

LEMMA RequestAsks ==
  ASSUME NEW operation \in Operations, NEW form \in Forms, NEW a,
         CallApi(operation, form, a) # Refused
  PROVE  Asks(CallApi(operation, form, a), operation, form, a.path)
<1>1. operation \notin Unavailable /\ ~NoPath(a)
  BY DEF CallApi
<1>2. CASE operation = "readFile"
  <2>1. CallApi(operation, form, a) = ReadFile(form, a)
    BY <1>1, <1>2 DEF CallApi
  <2>2. PICK more, rest :
          CallApi(operation, form, a) =
            Request("readFile", form, "read", <<a.path>> \o rest, Append(Kept(form, a.path), more))
          /\ rest \in {<<>>, <<"base64">>}
    BY <2>1 DEF ReadFile
  <2>3. (<<a.path>> \o rest)[1] = a.path
    <3>1. CASE rest = <<>>
      <4>1. <<a.path>> \in Seq({a.path})
        OBVIOUS
      <4>2. <<a.path>> \o rest = <<a.path>>
        BY <3>1, <4>1, ConcatEmptySeq
      <4> QED BY <4>2
    <3>2. CASE rest = <<"base64">>
      BY <3>2, PairShape
    <3> QED BY <2>2, <3>1, <3>2
  <2> QED BY <1>2, <2>2, <2>3, AsksKeptMore
<1>3. CASE operation = "writeFile"
  <2>1. CallApi(operation, form, a) = WriteFile(form, a)
    BY <1>1, <1>3 DEF CallApi
  <2>2. PICK arguments :
          CallApi(operation, form, a) =
            Request("writeFile", form, "write", arguments, Kept(form, a.path))
          /\ arguments[1] = a.path
    BY <2>1 DEF WriteFile
  <2> QED BY <1>3, <2>2, AsksKept
<1>4. CASE operation = "readdir"
  <2>1. CallApi(operation, form, a) = Readdir(form, a)
    BY <1>1, <1>4 DEF CallApi
  <2>2. CallApi(operation, form, a) = Request("readdir", form, "list", <<a.path>>, Kept(form, a.path))
    BY <2>1 DEF Readdir
  <2>3. <<a.path>>[1] = a.path
    OBVIOUS
  <2> QED BY <1>4, <2>2, <2>3, AsksKept
<1>5. CASE operation = "stat"
  <2>1. CallApi(operation, form, a) = Stat(form, a)
    BY <1>1, <1>5 DEF CallApi
  <2>2. CallApi(operation, form, a) = Request("stat", form, "stat", <<a.path>>, Kept(form, a.path))
    BY <2>1 DEF Stat
  <2>3. <<a.path>>[1] = a.path
    OBVIOUS
  <2> QED BY <1>5, <2>2, <2>3, AsksKept
<1>6. CASE operation = "mkdir"
  <2>1. CallApi(operation, form, a) = Mkdir(form, a)
    BY <1>1, <1>6 DEF CallApi
  <2>2. PICK second :
          CallApi(operation, form, a) =
            Request("mkdir", form, "mkdir", <<a.path, second>>, Kept(form, a.path))
    BY <2>1 DEF Mkdir
  <2>3. <<a.path, second>>[1] = a.path
    OBVIOUS
  <2> QED BY <1>6, <2>2, <2>3, AsksKept
<1>7. CASE operation = "rename"
  <2>1. CallApi(operation, form, a) = Rename(form, a)
    BY <1>1, <1>7 DEF CallApi
  <2>2. CallApi(operation, form, a) =
          Request("rename", form, "rename", <<a.path, a.second>>, Kept(form, a.path))
    BY <2>1 DEF Rename
  <2>3. <<a.path, a.second>>[1] = a.path
    OBVIOUS
  <2> QED BY <1>7, <2>2, <2>3, AsksKept
<1>8. CASE operation = "unlink"
  <2>1. CallApi(operation, form, a) = Unlink(form, a)
    BY <1>1, <1>8 DEF CallApi
  <2>2. CallApi(operation, form, a) = Request("unlink", form, "remove", <<a.path>>, Kept(form, a.path))
    BY <2>1 DEF Unlink
  <2>3. <<a.path>>[1] = a.path
    OBVIOUS
  <2> QED BY <1>8, <2>2, <2>3, AsksKept
<1>9. CASE operation \in {"exists", "access"}
  <2>1. CallApi(operation, form, a) = ExistsOrAccess(operation, form, a)
    BY <1>1, <1>9 DEF CallApi
  <2>2. CallApi(operation, form, a) = Request(operation, form, "stat", <<a.path>>, Kept(form, a.path))
    BY <2>1 DEF ExistsOrAccess
  <2>3. <<a.path>>[1] = a.path
    OBVIOUS
  <2> QED BY <1>9, <2>2, <2>3, AsksKept
<1> QED BY <1>1, <1>2, <1>3, <1>4, <1>5, <1>6, <1>7, <1>8, <1>9 DEF Operations

-----------------------------------------------------------------------------
\* What a call makes of an answer.

\* A call as it is told when its request has been answered
Ended(operation, form, a, before, after, request, answer) ==
  Told(operation, form, a, before, after, Resume(request, answer))

LEMMA EndedParts ==
  ASSUME NEW operation, NEW form, NEW a, NEW before, NEW after, NEW request, NEW answer
  PROVE  LET t == Ended(operation, form, a, before, after, request, answer)
         IN /\ t.operation = operation /\ t.form = form /\ t.args = a
            /\ t.before = before /\ t.after = after
            /\ t.outcome = Resume(request, answer)
  BY DEF Ended, Told

\* An error is told as one, in every form.
LEMMA ErrorIsTold ==
  ASSUME NEW operation \in Operations \ {"exists"}, NEW form \in Forms, NEW a, NEW before,
         NEW after, NEW request, NEW code, Asks(request, operation, form, a.path),
         after = before
  PROVE  Failure(Ended(operation, form, a, before, after, request, Fails(code)), code)
<1> DEFINE t == Ended(operation, form, a, before, after, request, Fails(code))
           error == [code |-> code, syscall |-> operation, path |-> a.path]
<1>1. Fails(code).ok = FALSE /\ Fails(code).code = code
  BY DEF Fails
<1>2. FsError(Fails(code).code, request.operation, request.state[PathIndex(form)]) = error
  BY <1>1 DEF FsError, Asks
<1>3. Resume(request, Fails(code)) =
        IF form = "callback" THEN Calls(<<error>>) ELSE Throws(error)
  BY <1>1, <1>2 DEF Resume, Asks
<1>4. t.operation = operation /\ t.args = a /\ t.before = t.after
      /\ t.outcome = Resume(request, Fails(code))
  BY EndedParts
<1>5. Understood(t) = [error |-> error]
  <2>1. CASE form = "callback"
    <3>1. t.outcome.way = "callback" /\ t.outcome.values = <<error>>
      BY <1>3, <1>4, <2>1 DEF Calls
    <3>2. t.outcome.values[1] = error
      BY <3>1
    <3>3. error # Null
      BY DEF Null
    <3> QED BY <1>4, <3>1, <3>2, <3>3 DEF Understood
  <2>2. CASE form # "callback"
    <3>1. t.outcome.way = "throw" /\ t.outcome.values = <<error>>
      BY <1>3, <1>4, <2>2 DEF Throws
    <3>2. t.outcome.values[1] = error
      BY <3>1
    <3> QED BY <3>1, <3>2 DEF Understood
  <2> QED BY <2>1, <2>2
<1>6. Failure(t, code)
  <2> HIDE DEF t
  <2> QED BY <1>4, <1>5 DEF Failure
<1> QED BY <1>6

\* A call that ended with a value
Gives(t, value) == Understood(t) = [value |-> value]

\* So is the value of a request that succeeded.
LEMMA ValueIsTold ==
  ASSUME NEW operation \in Operations \ {"exists"}, NEW form \in Forms, NEW a, NEW before,
         NEW after, NEW request, NEW answer, Asks(request, operation, form, a.path),
         answer.ok = TRUE, NEW value, AnswerValue(request, answer) = value,
         operation \in OnlyErrors => value = Undefined
  PROVE  Gives(Ended(operation, form, a, before, after, request, answer), value)
<1> DEFINE t == Ended(operation, form, a, before, after, request, answer)
<1>1. t.operation = operation /\ t.outcome = Resume(request, answer)
  BY EndedParts
<1>2. Resume(request, answer) =
        IF form # "callback" THEN Returns(value)
        ELSE IF operation \in OnlyErrors THEN Calls(<<Null>>) ELSE Calls(<<Null, value>>)
  BY Zenon DEF Resume, Asks
<1>3. CASE form # "callback"
  <2>1. t.outcome.way = "return" /\ t.outcome.values = <<value>>
    BY <1>1, <1>2, <1>3 DEF Returns
  <2>2. t.outcome.values[1] = value
    BY <2>1
  <2> QED BY <2>1, <2>2 DEF Understood, Gives
<1>4. CASE form = "callback" /\ operation \in OnlyErrors
  <2>1. t.outcome.way = "callback" /\ t.outcome.values = <<Null>>
    BY <1>1, <1>2, <1>4 DEF Calls
  <2>2. t.outcome.values[1] = Null /\ Len(t.outcome.values) = 1
    BY <2>1
  <2> QED BY <1>1, <1>4, <2>1, <2>2 DEF Understood, Gives
<1>5. CASE form = "callback" /\ operation \notin OnlyErrors
  <2>1. t.outcome.way = "callback" /\ t.outcome.values = <<Null, value>>
    BY <1>1, <1>2, <1>5 DEF Calls
  <2>2. t.outcome.values[1] = Null /\ Len(t.outcome.values) = 2 /\ t.outcome.values[2] = value
    BY <2>1
  <2> QED BY <1>1, <2>1, <2>2 DEF Understood, Gives
<1> QED BY <1>3, <1>4, <1>5

\* exists tells whether it was answered, and gives no error.
LEMMA ExistsIsTold ==
  ASSUME NEW form \in Forms, NEW a, NEW before, NEW after, NEW request, NEW answer,
         Asks(request, "exists", form, a.path)
  PROVE  Gives(Ended("exists", form, a, before, after, request, answer),
               IF answer.ok THEN TRUE ELSE FALSE)
<1> DEFINE t == Ended("exists", form, a, before, after, request, answer)
<1>1. PICK value : value = IF answer.ok THEN TRUE ELSE FALSE
  OBVIOUS
<1>2. t.operation = "exists" /\ t.outcome = Resume(request, answer)
  BY EndedParts
<1>3. answer.ok => AnswerValue(request, answer) = TRUE
  BY DEF AnswerValue, Asks
<1>4. Resume(request, answer) = IF form # "callback" THEN Returns(value) ELSE Calls(<<value>>)
  BY <1>1, <1>3, Zenon DEF Resume, Asks
<1>5. t.outcome.way \in {"return", "callback"} /\ t.outcome.values = <<value>>
  BY <1>2, <1>4 DEF Returns, Calls
<1>6. t.outcome.values[1] = value
  BY <1>5
<1> QED BY <1>1, <1>2, <1>5, <1>6 DEF Understood, Gives

-----------------------------------------------------------------------------
\* What the host makes of a request, and the call of the answer.

\* The answer to a request is an error where the operation has one on these
\* files, and otherwise gives its value, and its effect is the operation's.
Works(request, operation, a, files) ==
  LET entry == files[a.path]
      code == ErrorOf(operation, a, entry)
      answer == Answer(request, files)
  IN  /\ code # Missing => answer = Fails(code)
      /\ code = Missing =>
           /\ answer.ok = TRUE
           /\ AnswerValue(request, answer) = ValueOf(operation, a, entry)
           /\ Effect(request, files) = FilesAfter(operation, a, files)

LEMMA ReadFileWorks ==
  ASSUME NEW form \in Forms, NEW a, NEW files, NEW request,
         request = ReadFile(form, a), request # Refused
  PROVE  Works(request, "readFile", a, files)
<1> DEFINE entry == files[a.path]
           answer == Answer(request, files)
<1>1. a.second \in {Missing, "utf8"}
  BY DEF ReadFile, ReadRefused, ReadsBinary, Utf8
<1>2. PICK rest, more :
        /\ request = Request("readFile", form, "read", <<a.path>> \o rest,
                             Append(Kept(form, a.path), more))
        /\ rest = IF a.second = Missing THEN <<"base64">> ELSE <<>>
        /\ a.second = Missing => more = TRUE
        /\ a.second # Missing => more = FALSE
  BY DEF ReadFile, ReadsBinary
<1>3. /\ request.operation = "readFile" /\ request.form = form
      /\ request.capability = "read" /\ request.arguments = <<a.path>> \o rest
      /\ request.state = Append(Kept(form, a.path), more)
  BY <1>2 DEF Request
<1>4. /\ request.arguments[1] = a.path
      /\ Len(request.arguments) = IF a.second = Missing THEN 2 ELSE 1
  <2>1. CASE a.second = Missing
    <3>1. request.arguments = <<a.path>> \o <<"base64">>
      BY <1>2, <1>3, <2>1
    <3>2. /\ Len(<<a.path>> \o <<"base64">>) = 2
          /\ (<<a.path>> \o <<"base64">>)[1] = a.path
      BY PairShape
    <3> QED BY <2>1, <3>1, <3>2
  <2>2. CASE a.second # Missing
    <3>1. <<a.path>> \in Seq({a.path})
      OBVIOUS
    <3>2. request.arguments = <<a.path>>
      BY <1>2, <1>3, <2>2, <3>1, ConcatEmptySeq
    <3> QED BY <2>2, <3>2
  <2> QED BY <2>1, <2>2
<1>5. request.state[PathIndex(request.form) + 1] = more
  <2>1. At(request.state, PathIndex(form) + 1, more)
    BY <1>3, KeptMore
  <2> QED BY <1>3, <2>1 DEF At
<1>6. ErrorOf("readFile", a, entry) =
        IF entry = Missing THEN "ENOENT" ELSE IF entry = "dir" THEN "EISDIR" ELSE Missing
  BY DEF ErrorOf
<1>7. answer = IF entry = Missing THEN Fails("ENOENT")
               ELSE IF entry = "dir" THEN Fails("EISDIR")
               ELSE Done(Encoded(entry, request.arguments))
  BY <1>3, <1>4 DEF Answer
<1>8. ASSUME ErrorOf("readFile", a, entry) = Missing
      PROVE  /\ answer.ok = TRUE
             /\ AnswerValue(request, answer) = ValueOf("readFile", a, entry)
             /\ Effect(request, files) = FilesAfter("readFile", a, files)
  <2>1. answer = Done(Encoded(entry, request.arguments))
    BY <1>6, <1>7, <1>8 DEF Missing
  <2>2. answer.ok = TRUE /\ answer.value = Encoded(entry, request.arguments)
    BY <2>1 DEF Done
  <2>3. answer.value = IF a.second = Missing THEN AsBase64(entry) ELSE AsText(entry)
    BY <1>4, <2>2 DEF Encoded
  <2>4. AnswerValue(request, answer) =
          IF a.second = Missing THEN AsBuffer(answer.value.content) ELSE answer.value
    <3>1. CASE a.second = Missing
      <4>1. request.state[PathIndex(request.form) + 1] = TRUE
        BY <1>2, <1>5, <3>1
      <4> QED BY <1>3, <3>1, <4>1, Zenon DEF AnswerValue
    <3>2. CASE a.second # Missing
      <4>1. request.state[PathIndex(request.form) + 1] = FALSE
        BY <1>2, <1>5, <3>2
      <4> QED BY <1>3, <3>2, <4>1, Zenon DEF AnswerValue
    <3> QED BY <3>1, <3>2
  <2>5. ValueOf("readFile", a, entry) =
          InForm(IF a.second = "utf8" THEN "text" ELSE "buffer", entry)
    BY DEF ValueOf
  <2>6. AnswerValue(request, answer) = ValueOf("readFile", a, entry)
    <3>1. CASE a.second = Missing
      BY <2>3, <2>4, <2>5, <3>1 DEF AsBase64, AsBuffer, InForm, Missing
    <3>2. CASE a.second = "utf8" /\ a.second # Missing
      BY <2>3, <2>4, <2>5, <3>2 DEF AsText, InForm
    <3> QED BY <1>1, <3>1, <3>2
  <2>7. Effect(request, files) = files /\ FilesAfter("readFile", a, files) = files
    BY <1>3 DEF Effect, FilesAfter
  <2> QED BY <2>2, <2>6, <2>7
<1> QED BY <1>6, <1>7, <1>8 DEF Works, Missing

LEMMA WriteFileWorks ==
  ASSUME NEW form \in Forms, NEW a, NEW files, NEW request,
         request = WriteFile(form, a), request # Refused
  PROVE  Works(request, "writeFile", a, files)
<1> DEFINE entry == files[a.path]
           answer == Answer(request, files)
<1>1. a.second.kind \in {"text", "buffer"} /\ a.second = [kind |-> a.second.kind, content |-> a.second.content]
  BY DEF WriteFile
<1>2. PICK arguments :
        /\ request = Request("writeFile", form, "write", arguments, Kept(form, a.path))
        /\ arguments = IF a.second.kind = "buffer"
                       THEN <<a.path, AsBase64(a.second.content), "base64">>
                       ELSE <<a.path, a.second>>
  BY DEF WriteFile
<1>3. /\ request.operation = "writeFile" /\ request.form = form
      /\ request.capability = "write" /\ request.arguments = arguments
  BY <1>2 DEF Request
<1>4. arguments[1] = a.path
  BY <1>2
<1>5. Stored(arguments) = a.second.content
  <2>1. CASE a.second.kind = "buffer"
    <3>1. arguments[2] = AsBase64(a.second.content) /\ Len(arguments) = 3
      BY <1>2, <2>1
    <3> QED BY <3>1 DEF Stored, AsBase64, InForm
  <2>2. CASE a.second.kind # "buffer"
    <3>1. arguments[2] = a.second /\ arguments[2].kind # "base64"
      BY <1>1, <1>2, <2>2
    <3> QED BY <3>1 DEF Stored
  <2> QED BY <2>1, <2>2
<1>6. ErrorOf("writeFile", a, entry) = IF entry = "dir" THEN "EISDIR" ELSE Missing
  BY DEF ErrorOf
<1>7. answer = IF entry = "dir" THEN Fails("EISDIR") ELSE Done(Undefined)
  BY <1>3, <1>4 DEF Answer
<1>8. ASSUME ErrorOf("writeFile", a, entry) = Missing
      PROVE  /\ answer.ok = TRUE
             /\ AnswerValue(request, answer) = ValueOf("writeFile", a, entry)
             /\ Effect(request, files) = FilesAfter("writeFile", a, files)
  <2>1. answer.ok = TRUE /\ answer.value = Undefined
    BY <1>6, <1>7, <1>8 DEF Missing, Done
  <2>2. AnswerValue(request, answer) = answer.value /\ ValueOf("writeFile", a, entry) = Undefined
    BY <1>3 DEF AnswerValue, ValueOf
  <2>3. Effect(request, files) = [files EXCEPT ![a.path] = a.second.content]
    BY <1>3, <1>4, <1>5 DEF Effect
  <2>4. FilesAfter("writeFile", a, files) = [files EXCEPT ![a.path] = a.second.content]
    BY DEF FilesAfter
  <2> QED BY <2>1, <2>2, <2>3, <2>4
<1> QED BY <1>6, <1>7, <1>8 DEF Works, Missing

LEMMA ReaddirWorks ==
  ASSUME NEW form \in Forms, NEW a, NEW files, NEW request,
         request = Readdir(form, a), request # Refused
  PROVE  Works(request, "readdir", a, files)
<1> DEFINE entry == files[a.path]
           answer == Answer(request, files)
<1>1. request = Request("readdir", form, "list", <<a.path>>, Kept(form, a.path))
  BY DEF Readdir
<1>2. /\ request.operation = "readdir" /\ request.form = form
      /\ request.capability = "list" /\ request.arguments[1] = a.path
  BY <1>1 DEF Request
<1>3. ErrorOf("readdir", a, entry) =
        IF entry = Missing THEN "ENOENT" ELSE IF entry # "dir" THEN "ENOTDIR" ELSE Missing
  BY DEF ErrorOf
<1>4. answer = IF entry = Missing THEN Fails("ENOENT")
               ELSE IF entry = "dir" THEN Done(<<>>) ELSE Fails("ENOTDIR")
  BY <1>2 DEF Answer
<1>5. ASSUME ErrorOf("readdir", a, entry) = Missing
      PROVE  /\ answer.ok = TRUE
             /\ AnswerValue(request, answer) = ValueOf("readdir", a, entry)
             /\ Effect(request, files) = FilesAfter("readdir", a, files)
  <2>1. answer.ok = TRUE /\ answer.value = <<>>
    BY <1>3, <1>4, <1>5 DEF Missing, Done
  <2>2. AnswerValue(request, answer) = answer.value /\ ValueOf("readdir", a, entry) = <<>>
    BY <1>2 DEF AnswerValue, ValueOf
  <2>3. Effect(request, files) = files /\ FilesAfter("readdir", a, files) = files
    BY <1>2 DEF Effect, FilesAfter
  <2> QED BY <2>1, <2>2, <2>3
<1> QED BY <1>3, <1>4, <1>5 DEF Works, Missing

LEMMA StatWorks ==
  ASSUME NEW form \in Forms, NEW a, NEW files, NEW request,
         request = Stat(form, a), request # Refused
  PROVE  Works(request, "stat", a, files)
<1> DEFINE entry == files[a.path]
           answer == Answer(request, files)
<1>1. request = Request("stat", form, "stat", <<a.path>>, Kept(form, a.path))
  BY DEF Stat
<1>2. /\ request.operation = "stat" /\ request.form = form
      /\ request.capability = "stat" /\ request.arguments[1] = a.path
  BY <1>1 DEF Request
<1>3. ErrorOf("stat", a, entry) = IF entry = Missing THEN "ENOENT" ELSE Missing
  BY DEF ErrorOf
<1>4. answer = IF entry = Missing THEN Fails("ENOENT") ELSE Done(RawStat(entry))
  BY <1>2 DEF Answer
<1>5. ASSUME ErrorOf("stat", a, entry) = Missing
      PROVE  /\ answer.ok = TRUE
             /\ AnswerValue(request, answer) = ValueOf("stat", a, entry)
             /\ Effect(request, files) = FilesAfter("stat", a, files)
  <2>1. answer.ok = TRUE /\ answer.value = RawStat(entry)
    BY <1>3, <1>4, <1>5 DEF Missing, Done
  <2>2. AnswerValue(request, answer) = Stats(RawStat(entry))
    BY <1>2, <2>1 DEF AnswerValue
  <2>3. ValueOf("stat", a, entry) =
          [size |-> IF entry = "dir" THEN 0 ELSE 1,
           isFile |-> entry # "dir", isDirectory |-> entry = "dir"]
    BY DEF ValueOf
  <2>4. Stats(RawStat(entry)) =
          [size |-> IF entry = "dir" THEN 0 ELSE 1,
           isFile |-> entry # "dir", isDirectory |-> entry = "dir"]
    <3>1. CASE entry = "dir"
      BY <3>1 DEF Stats, RawStat
    <3>2. CASE entry # "dir"
      BY <3>2 DEF Stats, RawStat
    <3> QED BY <3>1, <3>2
  <2>5. Effect(request, files) = files /\ FilesAfter("stat", a, files) = files
    BY <1>2 DEF Effect, FilesAfter
  <2> QED BY <2>1, <2>2, <2>3, <2>4, <2>5
<1> QED BY <1>3, <1>4, <1>5 DEF Works, Missing

LEMMA MkdirWorks ==
  ASSUME NEW form \in Forms, NEW a, NEW files, NEW request,
         request = Mkdir(form, a), request # Refused
  PROVE  Works(request, "mkdir", a, files)
<1> DEFINE entry == files[a.path]
           answer == Answer(request, files)
<1>1. PICK second \in BOOLEAN :
        /\ request = Request("mkdir", form, "mkdir", <<a.path, second>>, Kept(form, a.path))
        /\ second = (a.second = "recursive")
  BY DEF Mkdir
<1>2. /\ request.operation = "mkdir" /\ request.form = form
      /\ request.capability = "mkdir" /\ request.arguments = <<a.path, second>>
  BY <1>1 DEF Request
<1>3. request.arguments[1] = a.path /\ request.arguments[2] = second
  BY <1>2
<1>4. ErrorOf("mkdir", a, entry) =
        IF entry = Missing \/ (entry = "dir" /\ a.second = "recursive") THEN Missing ELSE "EEXIST"
  BY DEF ErrorOf
<1>5. answer = IF entry = Missing \/ (entry = "dir" /\ a.second = "recursive")
               THEN Done(Undefined) ELSE Fails("EEXIST")
  <2>1. answer = IF entry = Missing \/ (request.arguments[2] /\ entry = "dir")
                 THEN Done(Undefined) ELSE Fails("EEXIST")
    BY <1>2, <1>3 DEF Answer
  <2>2. CASE a.second = "recursive"
    <3>1. request.arguments[2] = TRUE
      BY <1>1, <1>3, <2>2
    <3> QED BY <2>1, <2>2, <3>1
  <2>3. CASE a.second # "recursive"
    <3>1. request.arguments[2] = FALSE
      BY <1>1, <1>3, <2>3
    <3> QED BY <2>1, <2>3, <3>1
  <2> QED BY <2>2, <2>3
<1>6. ASSUME ErrorOf("mkdir", a, entry) = Missing
      PROVE  /\ answer.ok = TRUE
             /\ AnswerValue(request, answer) = ValueOf("mkdir", a, entry)
             /\ Effect(request, files) = FilesAfter("mkdir", a, files)
  <2>1. answer.ok = TRUE /\ answer.value = Undefined
    BY <1>4, <1>5, <1>6 DEF Missing, Done
  <2>2. AnswerValue(request, answer) = answer.value /\ ValueOf("mkdir", a, entry) = Undefined
    BY <1>2 DEF AnswerValue, ValueOf
  <2>3. Effect(request, files) = [files EXCEPT ![a.path] = "dir"]
    BY <1>2, <1>3 DEF Effect
  <2>4. FilesAfter("mkdir", a, files) = [files EXCEPT ![a.path] = "dir"]
    BY DEF FilesAfter
  <2> QED BY <2>1, <2>2, <2>3, <2>4
<1> QED BY <1>4, <1>5, <1>6 DEF Works, Missing

LEMMA RenameWorks ==
  ASSUME NEW form \in Forms, NEW a, NEW files, NEW request,
         request = Rename(form, a), request # Refused
  PROVE  Works(request, "rename", a, files)
<1> DEFINE entry == files[a.path]
           answer == Answer(request, files)
<1>1. request = Request("rename", form, "rename", <<a.path, a.second>>, Kept(form, a.path))
  BY DEF Rename
<1>2. /\ request.operation = "rename" /\ request.form = form
      /\ request.capability = "rename" /\ request.arguments = <<a.path, a.second>>
  BY <1>1 DEF Request
<1>3. request.arguments[1] = a.path /\ request.arguments[2] = a.second
  BY <1>2
<1>4. ErrorOf("rename", a, entry) = IF entry = Missing THEN "ENOENT" ELSE Missing
  BY DEF ErrorOf
<1>5. answer = IF entry = Missing THEN Fails("ENOENT") ELSE Done(Undefined)
  BY <1>2, <1>3 DEF Answer
<1>6. ASSUME ErrorOf("rename", a, entry) = Missing
      PROVE  /\ answer.ok = TRUE
             /\ AnswerValue(request, answer) = ValueOf("rename", a, entry)
             /\ Effect(request, files) = FilesAfter("rename", a, files)
  <2>1. answer.ok = TRUE
    BY <1>4, <1>5, <1>6 DEF Missing, Done
  <2>2. AnswerValue(request, answer) = Undefined /\ ValueOf("rename", a, entry) = Undefined
    BY <1>2 DEF AnswerValue, ValueOf
  <2>3. Effect(request, files) = [files EXCEPT ![a.path] = Missing, ![a.second] = files[a.path]]
    BY <1>2, <1>3 DEF Effect
  <2>4. FilesAfter("rename", a, files) =
          [files EXCEPT ![a.path] = Missing, ![a.second] = files[a.path]]
    BY DEF FilesAfter
  <2> QED BY <2>1, <2>2, <2>3, <2>4
<1> QED BY <1>4, <1>5, <1>6 DEF Works, Missing

LEMMA UnlinkWorks ==
  ASSUME NEW form \in Forms, NEW a, NEW files, NEW request,
         request = Unlink(form, a), request # Refused
  PROVE  Works(request, "unlink", a, files)
<1> DEFINE entry == files[a.path]
           answer == Answer(request, files)
<1>1. request = Request("unlink", form, "remove", <<a.path>>, Kept(form, a.path))
  BY DEF Unlink
<1>2. /\ request.operation = "unlink" /\ request.form = form
      /\ request.capability = "remove" /\ request.arguments[1] = a.path
  BY <1>1 DEF Request
<1>3. ErrorOf("unlink", a, entry) = IF entry = Missing THEN "ENOENT" ELSE Missing
  BY DEF ErrorOf
<1>4. answer = IF entry = Missing THEN Fails("ENOENT") ELSE Done(Undefined)
  BY <1>2 DEF Answer
<1>5. ASSUME ErrorOf("unlink", a, entry) = Missing
      PROVE  /\ answer.ok = TRUE
             /\ AnswerValue(request, answer) = ValueOf("unlink", a, entry)
             /\ Effect(request, files) = FilesAfter("unlink", a, files)
  <2>1. answer.ok = TRUE
    BY <1>3, <1>4, <1>5 DEF Missing, Done
  <2>2. AnswerValue(request, answer) = Undefined /\ ValueOf("unlink", a, entry) = Undefined
    BY <1>2 DEF AnswerValue, ValueOf
  <2>3. Effect(request, files) = [files EXCEPT ![a.path] = Missing]
    BY <1>2 DEF Effect
  <2>4. FilesAfter("unlink", a, files) = [files EXCEPT ![a.path] = Missing]
    BY DEF FilesAfter
  <2> QED BY <2>1, <2>2, <2>3, <2>4
<1> QED BY <1>3, <1>4, <1>5 DEF Works, Missing

LEMMA AccessWorks ==
  ASSUME NEW form \in Forms, NEW a, NEW files, NEW request,
         request = ExistsOrAccess("access", form, a), request # Refused
  PROVE  Works(request, "access", a, files)
<1> DEFINE entry == files[a.path]
           answer == Answer(request, files)
<1>1. request = Request("access", form, "stat", <<a.path>>, Kept(form, a.path))
  BY DEF ExistsOrAccess
<1>2. /\ request.operation = "access" /\ request.form = form
      /\ request.capability = "stat" /\ request.arguments[1] = a.path
  BY <1>1 DEF Request
<1>3. ErrorOf("access", a, entry) = IF entry = Missing THEN "ENOENT" ELSE Missing
  BY DEF ErrorOf
<1>4. answer = IF entry = Missing THEN Fails("ENOENT") ELSE Done(RawStat(entry))
  BY <1>2 DEF Answer
<1>5. ASSUME ErrorOf("access", a, entry) = Missing
      PROVE  /\ answer.ok = TRUE
             /\ AnswerValue(request, answer) = ValueOf("access", a, entry)
             /\ Effect(request, files) = FilesAfter("access", a, files)
  <2>1. answer.ok = TRUE
    BY <1>3, <1>4, <1>5 DEF Missing, Done
  <2>2. AnswerValue(request, answer) = Undefined /\ ValueOf("access", a, entry) = Undefined
    BY <1>2 DEF AnswerValue, ValueOf
  <2>3. Effect(request, files) = files /\ FilesAfter("access", a, files) = files
    BY <1>2 DEF Effect, FilesAfter
  <2> QED BY <2>1, <2>2, <2>3
<1> QED BY <1>3, <1>4, <1>5 DEF Works, Missing

\* exists is answered when something is there, and changes nothing.
LEMMA ExistsWorks ==
  ASSUME NEW form \in Forms, NEW a, NEW files, NEW request,
         request = ExistsOrAccess("exists", form, a), request # Refused
  PROVE  /\ files[a.path] # Missing => Answer(request, files).ok = TRUE
         /\ files[a.path] = Missing => Answer(request, files).ok = FALSE
         /\ request.capability = "stat"
<1>1. request = Request("exists", form, "stat", <<a.path>>, Kept(form, a.path))
  BY DEF ExistsOrAccess
<1>2. request.capability = "stat" /\ request.arguments[1] = a.path
  BY <1>1 DEF Request
<1>3. Answer(request, files) = IF files[a.path] = Missing THEN Fails("ENOENT")
                               ELSE Done(RawStat(files[a.path]))
  BY <1>2 DEF Answer
<1> QED BY <1>2, <1>3 DEF Fails, Done

LEMMA RequestWorks ==
  ASSUME NEW operation \in Operations \ {"exists"}, NEW form \in Forms, NEW a, NEW files,
         CallApi(operation, form, a) # Refused
  PROVE  Works(CallApi(operation, form, a), operation, a, files)
<1>1. operation \notin Unavailable /\ ~NoPath(a)
  BY DEF CallApi
<1>2. CASE operation = "readFile"
  <2>1. CallApi(operation, form, a) = ReadFile(form, a)
    BY <1>1, <1>2 DEF CallApi
  <2> QED BY <1>2, <2>1, ReadFileWorks
<1>3. CASE operation = "writeFile"
  <2>1. CallApi(operation, form, a) = WriteFile(form, a)
    BY <1>1, <1>3 DEF CallApi
  <2> QED BY <1>3, <2>1, WriteFileWorks
<1>4. CASE operation = "readdir"
  <2>1. CallApi(operation, form, a) = Readdir(form, a)
    BY <1>1, <1>4 DEF CallApi
  <2> QED BY <1>4, <2>1, ReaddirWorks
<1>5. CASE operation = "stat"
  <2>1. CallApi(operation, form, a) = Stat(form, a)
    BY <1>1, <1>5 DEF CallApi
  <2> QED BY <1>5, <2>1, StatWorks
<1>6. CASE operation = "mkdir"
  <2>1. CallApi(operation, form, a) = Mkdir(form, a)
    BY <1>1, <1>6 DEF CallApi
  <2> QED BY <1>6, <2>1, MkdirWorks
<1>7. CASE operation = "rename"
  <2>1. CallApi(operation, form, a) = Rename(form, a)
    BY <1>1, <1>7 DEF CallApi
  <2> QED BY <1>7, <2>1, RenameWorks
<1>8. CASE operation = "unlink"
  <2>1. CallApi(operation, form, a) = Unlink(form, a)
    BY <1>1, <1>8 DEF CallApi
  <2> QED BY <1>8, <2>1, UnlinkWorks
<1>9. CASE operation = "access"
  <2>1. CallApi(operation, form, a) = ExistsOrAccess("access", form, a)
    BY <1>1, <1>9 DEF CallApi
  <2> QED BY <1>9, <2>1, AccessWorks
<1> QED BY <1>1, <1>2, <1>3, <1>4, <1>5, <1>6, <1>7, <1>8, <1>9 DEF Operations

LEMMA NoValue ==
  ASSUME NEW operation \in OnlyErrors, NEW a, NEW entry
  PROVE  ValueOf(operation, a, entry) = Undefined
  BY DEF OnlyErrors, ValueOf

\* A call whose request the host has performed, or refused, tells the truth.
LEMMA EndedTellsTruth ==
  ASSUME NEW operation \in Operations, NEW form \in Forms, NEW a, NEW before, NEW after,
         NEW request, NEW answer, request = CallApi(operation, form, a), request # Refused,
         Performed(request, before, answer, after)
  PROVE  TellsTruth(Ended(operation, form, a, before, after, request, answer))
<1> DEFINE t == Ended(operation, form, a, before, after, request, answer)
           entry == before[a.path]
           code == ErrorOf(operation, a, entry)
<1>1. Asks(request, operation, form, a.path)
  BY RequestAsks
<1>2. t.operation = operation /\ t.args = a /\ t.before = before /\ t.after = after
  BY EndedParts
<1>3. ASSUME operation # "exists", answer = Fails("EIO"), after = before
      PROVE  TellsTruth(t)
  <2>1. Failure(t, "EIO")
    BY <1>1, <1>3, ErrorIsTold
  <2> HIDE DEF t
  <2> QED BY <1>2, <1>3, <2>1 DEF TellsTruth
<1>4. ASSUME operation # "exists", answer = Answer(request, before),
             after = IF answer.ok THEN Effect(request, before) ELSE before
      PROVE  TellsTruth(t)
  <2>1. Works(request, operation, a, before)
    BY <1>4, RequestWorks
  <2>2. CASE code # Missing
    <3>1. answer = Fails(code)
      BY <1>4, <2>1, <2>2 DEF Works
    <3>2. after = before
      BY <1>4, <3>1 DEF Fails
    <3>3. Failure(t, code)
      BY <1>1, <1>4, <3>1, <3>2, ErrorIsTold
    <3> HIDE DEF t
    <3> QED BY <1>2, <2>2, <3>3 DEF TellsTruth
  <2>3. CASE code = Missing
    <3>1. /\ answer.ok = TRUE
          /\ AnswerValue(request, answer) = ValueOf(operation, a, entry)
          /\ Effect(request, before) = FilesAfter(operation, a, before)
      BY <1>4, <2>1, <2>3 DEF Works
    <3>2. after = FilesAfter(operation, a, before)
      BY <1>4, <3>1
    <3>3. operation \in OnlyErrors => ValueOf(operation, a, entry) = Undefined
      BY NoValue
    <3>4. Understood(t) = [value |-> ValueOf(operation, a, entry)]
      <4>1. PICK value : value = ValueOf(operation, a, entry)
        OBVIOUS
      <4>2. /\ operation \in Operations \ {"exists"} /\ answer.ok = TRUE
            /\ AnswerValue(request, answer) = value
            /\ operation \in OnlyErrors => value = Undefined
        BY <1>4, <3>1, <3>3, <4>1
      <4>3. Gives(t, value)
        BY <1>1, <4>2, ValueIsTold
      <4> QED BY <4>1, <4>3 DEF Gives
    <3> HIDE DEF t
    <3> QED BY <1>2, <2>3, <3>2, <3>4 DEF TellsTruth
  <2> QED BY <2>2, <2>3
<1>5. ASSUME operation = "exists" PROVE TellsTruth(t)
  <2>1. request = ExistsOrAccess("exists", form, a)
    <3>1. operation \notin Unavailable /\ ~NoPath(a)
      BY DEF CallApi
    <3> QED BY <1>5, <3>1 DEF CallApi
  <2>2. Understood(t) = [value |-> IF answer.ok THEN TRUE ELSE FALSE]
    <3>1. Gives(t, IF answer.ok THEN TRUE ELSE FALSE)
      BY <1>1, <1>5, ExistsIsTold
    <3> QED BY <3>1 DEF Gives
  <2>3. /\ entry # Missing => Answer(request, before).ok = TRUE
        /\ entry = Missing => Answer(request, before).ok = FALSE
        /\ Effect(request, before) = before
    <3>1. request # Refused
      OBVIOUS
    <3>2. entry # Missing => Answer(request, before).ok = TRUE
      BY <2>1, <3>1, ExistsWorks
    <3>3. entry = Missing => Answer(request, before).ok = FALSE
      BY <2>1, <3>1, ExistsWorks
    <3>4. request.capability = "stat"
      BY <2>1, <3>1, ExistsWorks
    <3>5. Effect(request, before) = before
      BY <3>4 DEF Effect
    <3> QED BY <3>2, <3>3, <3>5
  <2>4. /\ code = Missing /\ FilesAfter(operation, a, before) = before
        /\ ValueOf(operation, a, entry) = (entry # Missing)
    BY <1>5 DEF ErrorOf, FilesAfter, ValueOf
  <2>5. CASE answer = Fails("EIO") /\ after = before
    <3>1. Understood(t) = [value |-> FALSE]
      BY <2>2, <2>5 DEF Fails
    <3> HIDE DEF t
    <3> QED BY <1>2, <1>5, <3>1 DEF TellsTruth
  <2>6. ASSUME answer = Answer(request, before),
               after = IF answer.ok THEN Effect(request, before) ELSE before
        PROVE  TellsTruth(t)
    <3>1. after = before
      BY <2>3, <2>6
    <3>2. Understood(t) = [value |-> entry # Missing]
      <4>1. CASE entry # Missing
        BY <2>2, <2>3, <2>6, <4>1
      <4>2. CASE entry = Missing
        BY <2>2, <2>3, <2>6, <4>2
      <4> QED BY <4>1, <4>2
    <3> HIDE DEF t
    <3> QED BY <1>2, <2>4, <3>1, <3>2 DEF TellsTruth
  <2> QED BY <2>5, <2>6 DEF Performed
<1> QED BY <1>3, <1>4, <1>5 DEF Performed

-----------------------------------------------------------------------------
\* The invariant.

\* A call that waits is one of its kind, and once it is answered, the host
\* has performed or refused it between the files it has recorded.
Owed(w) ==
  /\ \E operation \in Operations, form \in Forms :
       w.request = CallApi(operation, form, w.args)
  /\ w.request # Refused
  /\ w.answer # NoAnswer => Performed(w.request, w.before, w.answer, w.after)

FilesInv ==
  /\ \E S : waiting \in Seq(S) /\ \A w \in S : Owed(w)
  /\ told = NoCall \/ TellsTruth(told)

LEMMA OwedTellsTruth ==
  ASSUME NEW w, Owed(w), w.answer # NoAnswer
  PROVE  TellsTruth(Ended(w.request.operation, w.request.form, w.args, w.before, w.after,
                          w.request, w.answer))
<1>1. PICK operation \in Operations, form \in Forms :
        w.request = CallApi(operation, form, w.args)
  BY DEF Owed
<1>2. w.request # Refused /\ Performed(w.request, w.before, w.answer, w.after)
  BY DEF Owed
<1>3. w.request.operation = operation /\ w.request.form = form
  BY <1>1, <1>2, RequestAsks DEF Asks
<1>4. TellsTruth(Ended(operation, form, w.args, w.before, w.after, w.request, w.answer))
  BY <1>1, <1>2, EndedTellsTruth
<1> QED BY <1>3, <1>4

LEMMA FilesCall ==
  ASSUME FilesInv, NEW operation \in Operations, NEW form \in Forms, NEW a,
         FsCall(operation, form, a)
  PROVE  FilesInv'
<1>1. PICK request : request = CallApi(operation, form, a)
  OBVIOUS
<1>2. PICK S : waiting \in Seq(S) /\ \A w \in S : Owed(w)
  BY DEF FilesInv
<1>3. CASE request = Refused
  <2>1. waiting' = waiting /\ told' = NoCall
    BY <1>1, <1>3 DEF FsCall
  <2> QED BY <1>2, <2>1 DEF FilesInv
<1>4. CASE request # Refused /\ form = "sync"
  <2>1. PICK answer :
          /\ Performed(request, disk, answer, disk')
          /\ told' = Told(operation, form, a, disk, disk', Resume(request, answer))
          /\ waiting' = waiting
    BY <1>1, <1>4 DEF FsCall
  <2>2. TellsTruth(Ended(operation, form, a, disk, disk', request, answer))
    BY <1>1, <1>4, <2>1, EndedTellsTruth
  <2>3. TellsTruth(told')
    BY <2>1, <2>2 DEF Ended
  <2> QED BY <1>2, <2>1, <2>3 DEF FilesInv
<1>5. CASE request # Refused /\ form # "sync"
  <2>1. PICK w : /\ w = [request |-> request, args |-> a, answer |-> NoAnswer]
                 /\ waiting' = Append(waiting, w) /\ told' = NoCall
    BY <1>1, <1>5 DEF FsCall
  <2>2. Owed(w)
    <3>1. w.request = request /\ w.args = a /\ w.answer = NoAnswer
      BY <2>1
    <3> QED BY <1>1, <1>5, <3>1 DEF Owed
  <2>3. PICK T : T = S \union {w}
    OBVIOUS
  <2>4. waiting' \in Seq(T) /\ \A v \in T : Owed(v)
    <3>1. waiting \in Seq(T) /\ w \in T
      BY <1>2, <2>3
    <3>2. waiting' \in Seq(T)
      BY <2>1, <3>1
    <3> QED BY <1>2, <2>2, <2>3, <3>2
  <2> QED BY <2>1, <2>4 DEF FilesInv
<1> QED BY <1>3, <1>4, <1>5

LEMMA FilesPerform ==
  ASSUME FilesInv, NEW i \in DOMAIN waiting, FsPerform(i)
  PROVE  FilesInv'
<1>1. PICK S : waiting \in Seq(S) /\ \A w \in S : Owed(w)
  BY DEF FilesInv
<1>2. PICK w \in S : w = waiting[i]
  BY <1>1
<1>3. PICK answer, v :
        /\ Performed(w.request, disk, answer, disk')
        /\ v = [request |-> w.request, args |-> w.args, answer |-> answer,
                before |-> disk, after |-> disk']
        /\ waiting' = [waiting EXCEPT ![i] = v] /\ told' = NoCall
  BY <1>2 DEF FsPerform
<1>4. Owed(v)
  <2>1. /\ v.request = w.request /\ v.args = w.args /\ v.answer = answer
        /\ v.before = disk /\ v.after = disk'
    BY <1>3
  <2>2. Owed(w)
    BY <1>1, <1>2
  <2> QED BY <1>3, <2>1, <2>2 DEF Owed
<1>5. PICK T : T = S \union {v}
  OBVIOUS
<1>6. waiting' \in Seq(T) /\ \A u \in T : Owed(u)
  <2>1. waiting \in Seq(T) /\ v \in T
    BY <1>1, <1>5
  <2>2. waiting' \in Seq(T)
    BY <1>3, <2>1
  <2> QED BY <1>1, <1>4, <1>5, <2>2
<1> QED BY <1>3, <1>6 DEF FilesInv

LEMMA FilesResume ==
  ASSUME FilesInv, NEW i \in DOMAIN waiting, FsResume(i)
  PROVE  FilesInv'
<1>1. PICK S : waiting \in Seq(S) /\ \A w \in S : Owed(w)
  BY DEF FilesInv
<1>2. PICK w \in S : w = waiting[i]
  BY <1>1
<1>3. /\ w.answer # NoAnswer
      /\ told' = Told(w.request.operation, w.request.form, w.args, w.before, w.after,
                      Resume(w.request, w.answer))
      /\ waiting' = SubSeq(waiting, 1, i - 1) \o SubSeq(waiting, i + 1, Len(waiting))
  BY <1>2 DEF FsResume
<1>4. TellsTruth(told')
  <2>1. Owed(w)
    BY <1>1, <1>2
  <2>2. TellsTruth(Ended(w.request.operation, w.request.form, w.args, w.before, w.after,
                         w.request, w.answer))
    BY <1>3, <2>1, OwedTellsTruth
  <2> QED BY <1>3, <2>2 DEF Ended
<1>5. waiting' \in Seq(S)
  <2>1. i \in 1..Len(waiting) /\ Len(waiting) \in Nat
    BY <1>1
  <2>2. SubSeq(waiting, 1, i - 1) \in Seq(S)
    BY <1>1, <2>1
  <2>3. SubSeq(waiting, i + 1, Len(waiting)) \in Seq(S)
    BY <1>1, <2>1
  <2> QED BY <1>3, <2>2, <2>3
<1> QED BY <1>1, <1>4, <1>5 DEF FilesInv

\* node:fs: for every set of paths and contents and any number of calls in
\* flight, a call tells what its operation found, in whichever of the three
\* forms it was made, and an error names the call's own path (resume_api).
THEOREM FormsAreOneFileSystem == FsSpec => []OneFileSystem
<1>1. FsInit => FilesInv
  <2> SUFFICES ASSUME FsInit PROVE FilesInv
    OBVIOUS
  <2>1. waiting \in Seq({}) /\ told = NoCall
    BY DEF FsInit
  <2> QED BY <2>1 DEF FilesInv
<1>2. FilesInv /\ [FsNext]_fsVars => FilesInv'
  <2> SUFFICES ASSUME FilesInv, [FsNext]_fsVars PROVE FilesInv'
    OBVIOUS
  <2>1. CASE UNCHANGED fsVars
    BY <2>1 DEF FilesInv, fsVars
  <2>2. ASSUME NEW operation \in Operations, NEW form \in Forms, NEW a,
               FsCall(operation, form, a)
        PROVE  FilesInv'
    BY <2>2, FilesCall
  <2>3. ASSUME NEW i \in DOMAIN waiting, FsPerform(i) \/ FsResume(i) PROVE FilesInv'
    BY <2>3, FilesPerform, FilesResume
  <2> QED BY <2>1, <2>2, <2>3 DEF FsNext
<1>3. FilesInv => OneFileSystem
  BY TruthIsOneFileSystem DEF FilesInv
<1> QED BY <1>1, <1>2, <1>3, PTL DEF FsSpec

-----------------------------------------------------------------------------
\* Lists: a set in a strict order, as a sequence.

Asymmetric(R) == \A x, y : ~(<<x, y>> \in R /\ <<y, x>> \in R)

Ordered(s, R) == \A i, j \in DOMAIN s : i < j => <<s[i], s[j]>> \in R

\* The sequence s consists of the elements of T, in the order R.
Lists(s, T, R) ==
  /\ s \in Seq(T)
  /\ \A x \in T : \E i \in DOMAIN s : s[i] = x
  /\ Ordered(s, R)

(* Every nonempty set of naturals has a least element. *)
LEMMA LeastNatural ==
  ASSUME NEW T \in SUBSET Nat, T # {}
  PROVE  \E m \in T : \A n \in T : m <= n
<1> DEFINE R == {p \in Nat \X Nat : p[1] < p[2]}
<1>1. IsWellFoundedOn(R, Nat)
  BY NatLessThanWellFounded DEF OpToRel
<1>2. \E x \in T : \A y \in T : <<y, x>> \notin R
  <2> HIDE DEF R
  <2> QED BY <1>1, WFMin
<1>3. PICK m \in T : \A y \in T : <<y, m>> \notin R
  BY <1>2
<1>4. ASSUME NEW n \in T PROVE m <= n
  <2>1. <<n, m>> \notin R
    BY <1>3
  <2> QED BY <2>1
<1> QED BY <1>4

(* Where two lists of a set agree before a position that one of them has,  *)
(* the other lists that element at the position or later.                  *)
LEMMA ListedLater ==
  ASSUME NEW R, Asymmetric(R), NEW T, NEW s, NEW t, Lists(s, T, R), Lists(t, T, R),
         NEW k \in DOMAIN s,
         \A i \in 1..(k - 1) : i \in DOMAIN s /\ s[i] = t[i]
  PROVE  \E j \in DOMAIN t : j >= k /\ t[j] = s[k]
<1>1. s[k] \in T
  BY DEF Lists
<1>2. PICK j \in DOMAIN t : t[j] = s[k]
  BY <1>1 DEF Lists
<1>3. k \in Nat /\ j \in Nat /\ j >= 1
  <2>1. s \in Seq(T) /\ t \in Seq(T)
    BY DEF Lists
  <2>2. DOMAIN s = 1..Len(s) /\ Len(s) \in Nat
    BY <2>1
  <2>3. DOMAIN t = 1..Len(t) /\ Len(t) \in Nat
    BY <2>1
  <2> QED BY <2>2, <2>3
<1>4. ASSUME j < k PROVE FALSE
  <2>1. j \in DOMAIN s /\ s[j] = t[j]
    BY <1>3, <1>4
  <2>2. <<s[j], s[k]>> \in R
    BY <1>4, <2>1 DEF Lists, Ordered
  <2> QED BY <1>2, <2>1, <2>2 DEF Asymmetric
<1> QED BY <1>2, <1>3, <1>4

(* A set is listed in an order in one way only. *)
LEMMA SameList ==
  ASSUME NEW R, Asymmetric(R), NEW T, NEW s, NEW t, Lists(s, T, R), Lists(t, T, R)
  PROVE  s = t
<1>1. /\ s \in Seq(T) /\ Len(s) \in Nat /\ DOMAIN s = 1..Len(s)
      /\ t \in Seq(T) /\ Len(t) \in Nat /\ DOMAIN t = 1..Len(t)
  BY DEF Lists
<1> DEFINE D == {k \in Nat \ {0} : /\ k \in DOMAIN s \/ k \in DOMAIN t
                                   /\ ~(k \in DOMAIN s /\ k \in DOMAIN t /\ s[k] = t[k])}
<1>2. D = {}
  <2> SUFFICES ASSUME D # {} PROVE FALSE
    OBVIOUS
  <2>1. D \in SUBSET Nat
    OBVIOUS
  <2>2. PICK k \in D : \A n \in D : k <= n
    <3> HIDE DEF D
    <3> QED BY <2>1, LeastNatural
  <2>3. \A i \in 1..(k - 1) : i \in DOMAIN s /\ i \in DOMAIN t /\ s[i] = t[i]
    <3> SUFFICES ASSUME NEW i \in 1..(k - 1)
                 PROVE  i \in DOMAIN s /\ i \in DOMAIN t /\ s[i] = t[i]
      OBVIOUS
    <3>1. i \in Nat \ {0} /\ ~(k <= i)
      BY <2>2
    <3>2. i \notin D
      <4> HIDE DEF D
      <4> QED BY <2>2, <3>1
    <3>3. i \in DOMAIN s \/ i \in DOMAIN t
      BY <1>1, <2>2
    <3> QED BY <3>1, <3>2, <3>3
  <2>4. k \in DOMAIN s => \E j \in DOMAIN t : j >= k /\ t[j] = s[k]
    BY <2>3, ListedLater
  <2>5. k \in DOMAIN t => \E j \in DOMAIN s : j >= k /\ s[j] = t[k]
    BY <2>3, ListedLater
  <2>6. k \in DOMAIN s /\ k \in DOMAIN t /\ s[k] # t[k]
    BY <1>1, <2>2, <2>4, <2>5
  <2>7. PICK j \in DOMAIN t : j >= k /\ t[j] = s[k]
    BY <2>4, <2>6
  <2>8. PICK i \in DOMAIN s : i >= k /\ s[i] = t[k]
    BY <2>5, <2>6
  <2>9. k < j /\ k < i
    BY <1>1, <2>6, <2>7, <2>8
  <2>10. <<t[k], s[k]>> \in R
    BY <2>6, <2>7, <2>9 DEF Lists, Ordered
  <2>11. <<s[k], t[k]>> \in R
    BY <2>6, <2>8, <2>9 DEF Lists, Ordered
  <2> QED BY <2>10, <2>11 DEF Asymmetric
<1>3. \A k \in Nat \ {0} : k \notin D
  BY <1>2
<1>4. \A k \in Nat \ {0} : (k <= Len(s) <=> k <= Len(t)) /\ (k <= Len(s) => s[k] = t[k])
  BY <1>1, <1>3
<1>5. Len(s) = Len(t)
  <2>1. Len(s) # 0 => Len(s) <= Len(t)
    BY <1>1, <1>4
  <2>2. Len(t) # 0 => Len(t) <= Len(s)
    BY <1>1, <1>4
  <2>3. PICK m \in Nat, n \in Nat : m = Len(s) /\ n = Len(t)
    BY <1>1
  <2> QED BY <2>1, <2>2, <2>3
<1>6. \A k \in 1..Len(s) : s[k] = t[k]
  BY <1>1, <1>4
<1> QED BY <1>1, <1>5, <1>6, SeqEqual
(* What a list of a set gives. *)
LEMMA ListShape ==
  ASSUME NEW R, NEW T, NEW s, Lists(s, T, R)
  PROVE  /\ s \in Seq(T) /\ Len(s) \in Nat /\ DOMAIN s = 1..Len(s)
         /\ \A i \in DOMAIN s : s[i] \in T
         /\ \A x \in T : \E i \in DOMAIN s : s[i] = x
         /\ \A i, j \in DOMAIN s : i < j => <<s[i], s[j]>> \in R
  BY DEF Lists, Ordered

LEMMA EmptyLists == ASSUME NEW R PROVE Lists(<<>>, {}, R)
<1>1. PICK s : s = <<>>
  OBVIOUS
<1>2. s \in Seq({}) /\ DOMAIN s = {}
  BY <1>1
<1>3. Lists(s, {}, R)
  BY <1>2 DEF Lists, Ordered
<1> QED BY <1>1, <1>3

LEMMA EmptyListed ==
  ASSUME NEW R, NEW T, NEW s, Lists(s, T, R)
  PROVE  s = <<>> <=> T = {}
<1>1. s \in Seq(T) /\ \A x \in T : \E i \in DOMAIN s : s[i] = x
  BY DEF Lists
<1>2. ASSUME s = <<>> PROVE T = {}
  <2>1. DOMAIN s = {}
    BY <1>2
  <2> QED BY <1>1, <2>1
<1>3. ASSUME T = {} PROVE s = <<>>
  <2>1. Len(s) = 0
    <3>1. \A i \in 1..Len(s) : s[i] \in T
      BY <1>1
    <3>2. Len(s) \in Nat /\ (Len(s) # 0 => 1 \in 1..Len(s))
      BY <1>1
    <3> QED BY <1>3, <3>1, <3>2
  <2> QED BY <1>1, <2>1
<1> QED BY <1>2, <1>3

(* Another order that agrees on the set lists it alike. *)
LEMMA Reordered ==
  ASSUME NEW R, NEW Q, NEW T, NEW s, Lists(s, T, R),
         \A x, y \in T : <<x, y>> \in R => <<x, y>> \in Q
  PROVE  Lists(s, T, Q)
  BY ListShape DEF Lists, Ordered

LEMMA LongerShape ==
  ASSUME NEW S, NEW s \in Seq(S), NEW x \in S
  PROVE  LET a == Append(s, x)
         IN  /\ a \in Seq(S) /\ Len(a) = Len(s) + 1 /\ DOMAIN a = 1..(Len(s) + 1)
             /\ a[Len(s) + 1] = x /\ \A i \in DOMAIN s : a[i] = s[i]
<1>1. PICK a : a = Append(s, x)
  OBVIOUS
<1>2. /\ a \in Seq(S) /\ Len(a) = Len(s) + 1
      /\ \A i \in 1..Len(s) : a[i] = s[i]
      /\ a[Len(s) + 1] = x
  BY <1>1, AppendProperties
<1>3. DOMAIN a = 1..(Len(s) + 1) /\ DOMAIN s = 1..Len(s)
  BY <1>2
<1> QED BY <1>1, <1>2, <1>3

(* An element after all others is listed last. *)
LEMMA AppendLists ==
  ASSUME NEW R, NEW T, NEW s, Lists(s, T, R), NEW y, \A x \in T : <<x, y>> \in R
  PROVE  Lists(Append(s, y), T \union {y}, R)
<1>1. PICK U : U = T \union {y}
  OBVIOUS
<1>2. PICK n \in Nat : n = Len(s) /\ DOMAIN s = 1..n
  BY ListShape
<1>3. s \in Seq(U) /\ y \in U
  BY <1>1, SeqMonotonic DEF Lists
<1>4. PICK a : a = Append(s, y)
  OBVIOUS
<1>5. /\ a \in Seq(U) /\ DOMAIN a = 1..(n + 1)
      /\ a[n + 1] = y /\ \A i \in 1..n : a[i] = s[i]
  BY <1>2, <1>3, <1>4, LongerShape
<1>6. \A x \in U : \E i \in DOMAIN a : a[i] = x
  <2> SUFFICES ASSUME NEW x \in U PROVE \E i \in DOMAIN a : a[i] = x
    OBVIOUS
  <2>1. CASE x = y
    BY <1>5, <2>1
  <2>2. CASE x \in T
    <3>1. PICK i \in DOMAIN s : s[i] = x
      BY <2>2, ListShape
    <3> QED BY <1>2, <1>5, <3>1
  <2> QED BY <1>1, <2>1, <2>2
<1>7. ASSUME NEW i \in DOMAIN a, NEW j \in DOMAIN a, i < j PROVE <<a[i], a[j]>> \in R
  <2>1. i \in 1..n /\ a[i] = s[i] /\ s[i] \in T
    BY <1>2, <1>5, <1>7, ListShape
  <2>2. CASE j = n + 1
    BY <1>5, <2>1, <2>2
  <2>3. CASE j # n + 1
    <3>1. j \in 1..n /\ a[j] = s[j]
      BY <1>5, <2>3
    <3> QED BY <1>2, <1>7, <2>1, <3>1, ListShape
  <2> QED BY <2>2, <2>3
<1>8. Lists(a, U, R)
  BY <1>5, <1>6, <1>7 DEF Lists, Ordered
<1> QED BY <1>1, <1>4, <1>8

(* The lists of two sets, one before the other, are listed together. *)
LEMMA JoinedLists ==
  ASSUME NEW R, NEW A, NEW B, NEW s, NEW t, Lists(s, A, R), Lists(t, B, R),
         \A x \in A, y \in B : <<x, y>> \in R
  PROVE  Lists(s \o t, A \union B, R)
<1>1. PICK U : U = A \union B
  OBVIOUS
<1>2. PICK m \in Nat, n \in Nat :
        m = Len(s) /\ n = Len(t) /\ DOMAIN s = 1..m /\ DOMAIN t = 1..n
  BY ListShape
<1>3. s \in Seq(U) /\ t \in Seq(U)
  BY <1>1, SeqMonotonic DEF Lists
<1>4. PICK c : c = s \o t
  OBVIOUS
<1>5. /\ c \in Seq(U) /\ Len(c) = m + n
      /\ \A i \in 1..(m + n) : c[i] = IF i <= m THEN s[i] ELSE t[i - m]
  BY <1>2, <1>3, <1>4, ConcatProperties
<1>6. DOMAIN c = 1..(m + n)
  BY <1>5
<1>7. \A i \in DOMAIN s : i \in DOMAIN c /\ c[i] = s[i]
  BY <1>2, <1>5, <1>6
<1>8. \A i \in DOMAIN t : m + i \in DOMAIN c /\ c[m + i] = t[i]
  BY <1>2, <1>5, <1>6
<1>9. \A x \in U : \E i \in DOMAIN c : c[i] = x
  <2> SUFFICES ASSUME NEW x \in U PROVE \E i \in DOMAIN c : c[i] = x
    OBVIOUS
  <2>1. CASE x \in A
    <3>1. PICK i \in DOMAIN s : s[i] = x
      BY <2>1, ListShape
    <3> QED BY <1>7, <3>1
  <2>2. CASE x \in B
    <3>1. PICK i \in DOMAIN t : t[i] = x
      BY <2>2, ListShape
    <3> QED BY <1>8, <3>1
  <2> QED BY <1>1, <2>1, <2>2
<1>10. ASSUME NEW i \in DOMAIN c, NEW j \in DOMAIN c, i < j PROVE <<c[i], c[j]>> \in R
  <2>1. CASE j <= m
    <3>1. i \in DOMAIN s /\ j \in DOMAIN s
      BY <1>2, <1>6, <1>10, <2>1
    <3> QED BY <1>7, <1>10, <3>1, ListShape
  <2>2. CASE i > m
    <3>1. i - m \in DOMAIN t /\ j - m \in DOMAIN t /\ i - m < j - m
      BY <1>2, <1>6, <1>10, <2>2
    <3>2. c[i] = t[i - m] /\ c[j] = t[j - m]
      BY <1>5, <1>6, <1>10, <2>2
    <3> QED BY <3>1, <3>2, ListShape
  <2>3. CASE i <= m /\ j > m
    <3>1. i \in DOMAIN s /\ j - m \in DOMAIN t /\ c[i] = s[i] /\ c[j] = t[j - m]
      BY <1>2, <1>5, <1>6, <2>3
    <3>2. s[i] \in A /\ t[j - m] \in B
      BY <3>1, ListShape
    <3> QED BY <3>1, <3>2
  <2> QED BY <1>6, <2>1, <2>2, <2>3
<1>11. Lists(c, U, R)
  BY <1>5, <1>9, <1>10 DEF Lists, Ordered
<1> QED BY <1>1, <1>4, <1>11

LEMMA SuffixShape ==
  ASSUME NEW S, NEW s \in Seq(S), NEW m \in 1..(Len(s) + 1)
  PROVE  LET b == SubSeq(s, m, Len(s))
         IN  /\ b \in Seq(S) /\ Len(b) = Len(s) - m + 1
             /\ \A j \in 1..(Len(s) - m + 1) : b[j] = s[m + j - 1]
<1>1. PICK n \in Nat : n = Len(s) /\ DOMAIN s = 1..n
  OBVIOUS
<1>2. PICK b : b = SubSeq(s, m, n)
  OBVIOUS
<1>3. m \in Int /\ n \in Int /\ m \in 1..(n + 1) /\ \A j \in m..n : s[j] \in S
  BY <1>1
<1>4. /\ b \in Seq(S) /\ Len(b) = IF m <= n THEN n - m + 1 ELSE 0
      /\ \A j \in 1..(n - m + 1) : b[j] = s[m + j - 1]
  BY <1>2, <1>3, SubSeqProperties
<1>5. Len(b) = n - m + 1
  BY <1>3, <1>4
<1> QED BY <1>1, <1>2, <1>4, <1>5

LEMMA RemovedShape ==
  ASSUME NEW S, NEW s \in Seq(S), NEW i \in DOMAIN s
  PROVE  LET r == RemoveAt(s, i)
         IN  /\ r \in Seq(S) /\ Len(r) = Len(s) - 1 /\ DOMAIN r = 1..(Len(s) - 1)
             /\ \A j \in 1..(Len(s) - 1) : r[j] = IF j < i THEN s[j] ELSE s[j + 1]
<1>1. PICK n \in Nat : n = Len(s) /\ DOMAIN s = 1..n
  OBVIOUS
<1>2. PICK a, b : a = SubSeq(s, 1, i - 1) /\ b = SubSeq(s, i + 1, Len(s))
  OBVIOUS
<1>3. i \in 1..n /\ \A j \in 1..n : s[j] \in S
  BY <1>1
<1>4. a \in Seq(S) /\ Len(a) = i - 1 /\ \A j \in 1..(i - 1) : a[j] = s[j]
  <2>1. \A j \in 1..(i - 1) : s[j] \in S
    BY <1>3
  <2>2. 1 \in Int /\ i - 1 \in Int
    BY <1>3
  <2> QED BY <1>2, <1>3, <2>1, <2>2, SubSeqProperties
<1>5. b \in Seq(S) /\ Len(b) = n - i /\ \A j \in 1..(n - i) : b[j] = s[i + j]
  <2>1. PICK k \in 1..(n + 1) : k = i + 1
    BY <1>3
  <2>2. /\ b \in Seq(S) /\ Len(b) = n - k + 1
        /\ \A j \in 1..(n - k + 1) : b[j] = s[k + j - 1]
    BY <1>1, <1>2, <2>1, SuffixShape
  <2>3. n - k + 1 = n - i /\ \A j \in 1..(n - i) : k + j - 1 = i + j
    BY <1>3, <2>1
  <2> QED BY <2>2, <2>3
<1>6. PICK r : r = a \o b
  OBVIOUS
<1>7. /\ r \in Seq(S) /\ Len(r) = n - 1
      /\ \A j \in 1..(n - 1) : r[j] = IF j <= i - 1 THEN a[j] ELSE b[j - (i - 1)]
  <2>1. /\ r \in Seq(S) /\ Len(r) = Len(a) + Len(b)
        /\ \A j \in 1..(Len(a) + Len(b)) : r[j] = IF j <= Len(a) THEN a[j] ELSE b[j - Len(a)]
    BY <1>4, <1>5, <1>6, ConcatProperties
  <2>2. Len(a) + Len(b) = n - 1
    BY <1>3, <1>4, <1>5
  <2> QED BY <1>4, <2>1, <2>2
<1>8. \A j \in 1..(n - 1) : r[j] = IF j < i THEN s[j] ELSE s[j + 1]
  <2> SUFFICES ASSUME NEW j \in 1..(n - 1) PROVE r[j] = IF j < i THEN s[j] ELSE s[j + 1]
    OBVIOUS
  <2>1. CASE j < i
    BY <1>3, <1>4, <1>7, <2>1
  <2>2. CASE ~(j < i)
    <3>1. j - (i - 1) \in 1..(n - i) /\ i + (j - (i - 1)) = j + 1
      BY <1>3, <2>2
    <3>2. b[j - (i - 1)] = s[j + 1]
      BY <1>5, <3>1
    <3> QED BY <1>3, <1>7, <2>2, <3>2
  <2> QED BY <2>1, <2>2
<1>9. RemoveAt(s, i) = r /\ DOMAIN r = 1..(n - 1)
  BY <1>2, <1>6, <1>7 DEF RemoveAt
<1> QED BY <1>1, <1>7, <1>8, <1>9

(* A position removed from a list removes its element from the set. *)
LEMMA RemovedLists ==
  ASSUME NEW R, Asymmetric(R), NEW T, NEW s, Lists(s, T, R), NEW i \in DOMAIN s
  PROVE  Lists(RemoveAt(s, i), T \ {s[i]}, R)
<1>1. PICK n \in Nat : n = Len(s) /\ DOMAIN s = 1..n
  BY ListShape
<1>2. PICK r : r = RemoveAt(s, i)
  OBVIOUS
<1>3. PICK y : y = s[i]
  OBVIOUS
<1>4. /\ r \in Seq(T) /\ Len(r) = n - 1 /\ DOMAIN r = 1..(n - 1)
      /\ \A j \in 1..(n - 1) : r[j] = IF j < i THEN s[j] ELSE s[j + 1]
  BY <1>1, <1>2, RemovedShape DEF Lists
<1>5. i \in 1..n
  BY <1>1
<1>6. \A j \in DOMAIN s : j # i => s[j] # y
  <2> SUFFICES ASSUME NEW j \in DOMAIN s, j # i, s[j] = y PROVE FALSE
    OBVIOUS
  <2>1. j < i \/ i < j
    BY <1>1
  <2>2. <<y, y>> \in R
    BY <1>3, <2>1, ListShape
  <2> QED BY <2>2 DEF Asymmetric
<1>7. ASSUME NEW j \in 1..(n - 1) PROVE r[j] \in T /\ r[j] # y
  <2>0. \A k \in DOMAIN s : k # i => s[k] \in T /\ s[k] # y
    BY <1>6, ListShape
  <2>1. CASE j < i
    <3>1. j \in DOMAIN s /\ j # i
      BY <1>1, <2>1
    <3> QED BY <1>4, <2>0, <2>1, <3>1
  <2>2. CASE ~(j < i)
    <3>1. j + 1 \in DOMAIN s /\ j + 1 # i
      BY <1>1, <1>5, <2>2
    <3> QED BY <1>4, <2>0, <2>2, <3>1
  <2> QED BY <2>1, <2>2
<1>8. r \in Seq(T \ {y})
  <2>1. \A j \in 1..Len(r) : r[j] \in T \ {y}
    BY <1>4, <1>7
  <2> QED BY <1>4, <2>1
<1>9. \A x \in T \ {y} : \E j \in DOMAIN r : r[j] = x
  <2> SUFFICES ASSUME NEW x \in T \ {y} PROVE \E j \in DOMAIN r : r[j] = x
    OBVIOUS
  <2>1. PICK j \in DOMAIN s : s[j] = x
    BY ListShape
  <2>2. j # i
    BY <1>3, <2>1
  <2>3. CASE j < i
    BY <1>1, <1>4, <1>5, <2>1, <2>3
  <2>4. CASE j > i
    <3>1. j - 1 \in 1..(n - 1) /\ ~(j - 1 < i) /\ (j - 1) + 1 = j
      BY <1>1, <1>5, <2>4
    <3>2. r[j - 1] = s[j]
      BY <1>4, <3>1
    <3> QED BY <1>4, <2>1, <3>1, <3>2
  <2> QED BY <1>1, <2>2, <2>3, <2>4
<1>10. ASSUME NEW j \in DOMAIN r, NEW k \in DOMAIN r, j < k PROVE <<r[j], r[k]>> \in R
  <2> DEFINE p(m) == IF m < i THEN m ELSE m + 1
  <2>1. p(j) \in DOMAIN s /\ p(k) \in DOMAIN s /\ p(j) < p(k)
    BY <1>1, <1>4, <1>5, <1>10
  <2>2. r[j] = s[p(j)] /\ r[k] = s[p(k)]
    BY <1>4
  <2> QED BY <2>1, <2>2, ListShape
<1>11. Lists(r, T \ {y}, R)
  BY <1>8, <1>9, <1>10 DEF Lists, Ordered
<1> QED BY <1>2, <1>3, <1>11

(* From some position on, a list lists the elements it has from there. *)
LEMMA SuffixLists ==
  ASSUME NEW R, NEW T, NEW s, Lists(s, T, R), NEW m \in 1..(Len(s) + 1)
  PROVE  Lists(SubSeq(s, m, Len(s)), {s[k] : k \in m..Len(s)}, R)
<1>1. PICK n \in Nat : n = Len(s) /\ DOMAIN s = 1..n
  BY ListShape
<1>2. PICK U : U = {s[k] : k \in m..n}
  OBVIOUS
<1>3. PICK b : b = SubSeq(s, m, n)
  OBVIOUS
<1>4. b \in Seq(U) /\ Len(b) = n - m + 1 /\ \A j \in 1..(n - m + 1) : b[j] = s[m + j - 1]
  <2>1. \A j \in m..n : s[j] \in U
    BY <1>2
  <2>2. m \in Int /\ n \in Int /\ m \in 1..(n + 1)
    BY <1>1
  <2>3. /\ b \in Seq(U) /\ Len(b) = IF m <= n THEN n - m + 1 ELSE 0
        /\ \A j \in 1..(n - m + 1) : b[j] = s[m + j - 1]
    BY <1>3, <2>1, <2>2, SubSeqProperties
  <2>4. Len(b) = n - m + 1
    BY <2>2, <2>3
  <2> QED BY <2>3, <2>4
<1>5. DOMAIN b = 1..(n - m + 1) /\ m \in 1..(n + 1)
  BY <1>1, <1>4
<1>6. \A x \in U : \E j \in DOMAIN b : b[j] = x
  <2> SUFFICES ASSUME NEW x \in U PROVE \E j \in DOMAIN b : b[j] = x
    OBVIOUS
  <2>1. PICK k \in m..n : x = s[k]
    BY <1>2
  <2>2. k - m + 1 \in 1..(n - m + 1) /\ m + (k - m + 1) - 1 = k
    BY <1>5
  <2>3. b[k - m + 1] = s[k]
    BY <1>4, <2>2
  <2> QED BY <1>5, <2>1, <2>2, <2>3
<1>7. ASSUME NEW j \in DOMAIN b, NEW k \in DOMAIN b, j < k PROVE <<b[j], b[k]>> \in R
  <2>1. m + j - 1 \in DOMAIN s /\ m + k - 1 \in DOMAIN s /\ m + j - 1 < m + k - 1
    BY <1>1, <1>5, <1>7
  <2>2. b[j] = s[m + j - 1] /\ b[k] = s[m + k - 1]
    BY <1>4, <1>5
  <2> QED BY <2>1, <2>2, ListShape
<1>8. Lists(b, U, R)
  BY <1>4, <1>6, <1>7 DEF Lists, Ordered
<1> QED BY <1>1, <1>2, <1>3, <1>8

-----------------------------------------------------------------------------
\* Selected is defined by recursion over the positions of the sequence.

Selection(s, S, kept, k) ==
  IF k = 0 THEN <<>>
  ELSE IF s[k] \in S THEN Append(kept[k - 1], s[k]) ELSE kept[k - 1]

SelectedTo(s, S, n, kept) == kept = [k \in 0..n |-> Selection(s, S, kept, k)]

LEMMA SelectedContinues ==
  ASSUME NEW s, NEW S, NEW n \in Nat \ {0}, NEW f, SelectedTo(s, S, n - 1, f)
  PROVE  \E g : SelectedTo(s, S, n, g)
<1> DEFINE g == [k \in 0..n |-> IF k = n THEN Selection(s, S, f, n) ELSE f[k]]
<1>1. \A k \in 0..n : g[k] = Selection(s, S, g, k)
  <2> SUFFICES ASSUME NEW k \in 0..n PROVE g[k] = Selection(s, S, g, k)
    OBVIOUS
  <2>1. k = 0 \/ (k - 1 \in 0..n /\ k - 1 # n)
    OBVIOUS
  <2>2. Selection(s, S, g, k) = Selection(s, S, f, k)
    BY <2>1 DEF Selection
  <2>3. CASE k = n
    BY <2>2, <2>3
  <2>4. CASE k # n
    <3>1. k \in 0..(n - 1)
      BY <2>4
    <3>2. f[k] = Selection(s, S, f, k)
      BY <3>1 DEF SelectedTo
    <3> QED BY <2>2, <2>4, <3>2
  <2> QED BY <2>3, <2>4
<1>2. g = [k \in 0..n |-> g[k]]
  OBVIOUS
<1> HIDE DEF g
<1>3. g = [k \in 0..n |-> Selection(s, S, g, k)]
  BY <1>1, <1>2
<1> QED BY <1>3 DEF SelectedTo

LEMMA SelectedExists ==
  ASSUME NEW s, NEW S, NEW L \in Nat
  PROVE  \E f : SelectedTo(s, S, L, f)
<1> DEFINE D == {n \in 0..L : ~ \E f : SelectedTo(s, S, n, f)}
<1>1. D = {}
  <2> SUFFICES ASSUME D # {} PROVE FALSE
    OBVIOUS
  <2>1. D \in SUBSET Nat
    OBVIOUS
  <2>2. PICK n \in D : \A m \in D : n <= m
    <3> HIDE DEF D
    <3> QED BY <2>1, LeastNatural
  <2>3. CASE n = 0
    <3> DEFINE f == [k \in 0..0 |-> <<>>]
    <3>1. SelectedTo(s, S, 0, f)
      BY DEF SelectedTo, Selection
    <3> QED BY <2>2, <2>3, <3>1
  <2>4. CASE n # 0
    <3>1. n \in Nat \ {0} /\ n - 1 \in 0..L /\ ~(n <= n - 1)
      BY <2>2, <2>4
    <3>2. n - 1 \notin D
      <4> HIDE DEF D
      <4> QED BY <2>2, <3>1
    <3>3. PICK f : SelectedTo(s, S, n - 1, f)
      BY <3>1, <3>2
    <3>4. \E g : SelectedTo(s, S, n, g)
      BY <3>1, <3>3, SelectedContinues
    <3> QED BY <2>2, <3>4
  <2> QED BY <2>3, <2>4
<1>2. L \in 0..L
  OBVIOUS
<1> QED BY <1>1, <1>2

UpTo(s, k) == {s[i] : i \in 1..k}

LEMMA SelectsOneMore ==
  ASSUME NEW R, NEW T, NEW s, Lists(s, T, R), NEW S, NEW k \in DOMAIN s,
         NEW t, Lists(t, UpTo(s, k - 1) \cap S, R)
  PROVE  /\ s[k] \in S => Lists(Append(t, s[k]), UpTo(s, k) \cap S, R)
         /\ s[k] \notin S => Lists(t, UpTo(s, k) \cap S, R)
<1>1. PICK n \in Nat : n = Len(s) /\ DOMAIN s = 1..n
  BY ListShape
<1>2. k \in 1..n
  BY <1>1
<1>3. UpTo(s, k) = UpTo(s, k - 1) \union {s[k]}
  <2>1. \A i \in 1..k : i \in 1..(k - 1) \/ i = k
    BY <1>2
  <2>2. \A i \in 1..(k - 1) : i \in 1..k
    BY <1>2
  <2>3. k \in 1..k
    BY <1>2
  <2> QED BY <2>1, <2>2, <2>3 DEF UpTo
<1>4. ASSUME s[k] \in S PROVE Lists(Append(t, s[k]), UpTo(s, k) \cap S, R)
  <2>1. PICK V, y : V = UpTo(s, k - 1) \cap S /\ y = s[k]
    OBVIOUS
  <2>2. \A x \in V : <<x, y>> \in R
    <3> SUFFICES ASSUME NEW x \in V PROVE <<x, y>> \in R
      OBVIOUS
    <3>1. PICK i \in 1..(k - 1) : x = s[i]
      BY <2>1 DEF UpTo
    <3>2. i \in DOMAIN s /\ i < k
      BY <1>1, <1>2
    <3> QED BY <2>1, <3>1, <3>2, ListShape
  <2>3. Lists(Append(t, y), V \union {y}, R)
    BY <2>1, <2>2, AppendLists
  <2>4. V \union {y} = UpTo(s, k) \cap S
    BY <1>3, <1>4, <2>1
  <2> QED BY <2>1, <2>3, <2>4
<1>5. ASSUME s[k] \notin S PROVE Lists(t, UpTo(s, k) \cap S, R)
  <2>1. UpTo(s, k) \cap S = UpTo(s, k - 1) \cap S
    BY <1>3, <1>5
  <2> QED BY <2>1
<1> QED BY <1>4, <1>5

(* What is selected from a list is the list of the elements selected. *)
LEMMA SelectedLists ==
  ASSUME NEW R, NEW T, NEW s, Lists(s, T, R), NEW S
  PROVE  Lists(Selected(s, S), T \cap S, R)
<1>1. PICK L \in Nat : L = Len(s) /\ DOMAIN s = 1..L
  BY ListShape
<1> DEFINE kept == CHOOSE f : SelectedTo(s, S, L, f)
<1>2. SelectedTo(s, S, L, kept)
  BY SelectedExists
<1>3. Selected(s, S) = kept[L]
  BY <1>1 DEF Selected, SelectedTo, Selection
<1> HIDE DEF kept
<1>4. \A k \in 0..L : kept[k] = Selection(s, S, kept, k)
  BY <1>2 DEF SelectedTo
<1> DEFINE D == {k \in 0..L : ~Lists(kept[k], UpTo(s, k) \cap S, R)}
<1>5. D = {}
  <2> SUFFICES ASSUME D # {} PROVE FALSE
    OBVIOUS
  <2>1. D \in SUBSET Nat
    OBVIOUS
  <2>2. PICK k \in D : \A m \in D : k <= m
    <3> HIDE DEF D
    <3> QED BY <2>1, LeastNatural
  <2>3. CASE k = 0
    <3>1. kept[0] = <<>>
      BY <1>4 DEF Selection
    <3>2. UpTo(s, 0) \cap S = {}
      BY DEF UpTo
    <3>3. Lists(kept[0], UpTo(s, 0) \cap S, R)
      BY <3>1, <3>2, EmptyLists
    <3> QED BY <2>2, <2>3, <3>3
  <2>4. CASE k # 0
    <3>1. k \in DOMAIN s /\ k - 1 \in 0..L /\ ~(k <= k - 1)
      BY <1>1, <2>2, <2>4
    <3>2. k - 1 \notin D
      <4> HIDE DEF D
      <4> QED BY <2>2, <3>1
    <3>3. PICK t : t = kept[k - 1]
      OBVIOUS
    <3>4. Lists(t, UpTo(s, k - 1) \cap S, R)
      BY <3>1, <3>2, <3>3
    <3>5. kept[k] = IF s[k] \in S THEN Append(t, s[k]) ELSE t
      BY <1>4, <2>2, <2>4, <3>3 DEF Selection
    <3>6. Lists(kept[k], UpTo(s, k) \cap S, R)
      BY <3>1, <3>4, <3>5, SelectsOneMore
    <3> QED BY <2>2, <3>6
  <2> QED BY <2>3, <2>4
<1>6. Lists(kept[L], UpTo(s, L) \cap S, R)
  <2>1. L \in 0..L /\ L \notin D
    BY <1>5
  <2> QED BY <2>1
<1>7. UpTo(s, L) = T
  <2>1. \A x \in T : \E i \in 1..L : s[i] = x
    BY <1>1, ListShape
  <2>2. \A i \in 1..L : s[i] \in T
    BY <1>1, ListShape
  <2> QED BY <2>1, <2>2 DEF UpTo
<1> QED BY <1>3, <1>6, <1>7

(* The set that a sequence lists is the set of its elements. *)
LEMMA ListedSet ==
  ASSUME NEW R, NEW T, NEW s, Lists(s, T, R)
  PROVE  ToSet(s) = T
<1>1. /\ \A i \in DOMAIN s : s[i] \in T
      /\ \A x \in T : \E i \in DOMAIN s : s[i] = x
  BY ListShape
<1> QED BY <1>1 DEF ToSet

(* A list has as many positions as its set has elements. *)
LEMMA ListedCardinality ==
  ASSUME NEW R, Asymmetric(R), NEW T, NEW s, Lists(s, T, R)
  PROVE  IsFiniteSet(T) /\ Cardinality(T) = Len(s)
<1>1. PICK n \in Nat : n = Len(s) /\ DOMAIN s = 1..n
  BY ListShape
<1>2. s \in [1..n -> T]
  BY <1>1 DEF Lists
<1>3. \A i, j \in 1..n : s[i] = s[j] => i = j
  <2> SUFFICES ASSUME NEW i \in 1..n, NEW j \in 1..n, s[i] = s[j], i # j PROVE FALSE
    OBVIOUS
  <2>1. i < j \/ j < i
    OBVIOUS
  <2>2. <<s[i], s[i]>> \in R
    BY <1>1, <2>1, ListShape
  <2> QED BY <2>2 DEF Asymmetric
<1>4. \A x \in T : \E i \in 1..n : s[i] = x
  BY <1>1, ListShape
<1>5. ExistsBijection(1..n, T)
  BY <1>2, <1>3, <1>4 DEF ExistsBijection, Bijection, Injection, Surjection, IsInjective
<1>6. IsFiniteSet(1..n) /\ Cardinality(1..n) = n
  <2>1. PICK one \in Int : one = 1
    OBVIOUS
  <2>2. n \in Int
    OBVIOUS
  <2>3. IsFiniteSet(one..n) /\ Cardinality(one..n) = IF one > n THEN 0 ELSE n - one + 1
    BY <2>2, FS_Interval
  <2>4. (IF one > n THEN 0 ELSE n - one + 1) = n
    BY <2>1
  <2> QED BY <2>1, <2>3, <2>4
<1> QED BY <1>1, <1>5, <1>6, FS_Bijection

LEMMA ShorterList ==
  ASSUME NEW R, Asymmetric(R), NEW T, NEW s, Lists(s, T, R),
         NEW U \in SUBSET T, NEW t, Lists(t, U, R)
  PROVE  Len(t) <= Len(s)
<1>1. /\ IsFiniteSet(T) /\ Cardinality(T) = Len(s)
      /\ IsFiniteSet(U) /\ Cardinality(U) = Len(t)
  BY ListedCardinality
<1> QED BY <1>1, FS_Subset

(* The least and the greatest element of a bounded set of naturals. *)
LEMMA MinIs ==
  ASSUME NEW T \in SUBSET Nat, T # {}
  PROVE  Min(T) \in T /\ \A n \in T : Min(T) <= n
  BY LeastNatural DEF Min

LEMMA MaxIs ==
  ASSUME NEW T \in SUBSET Nat, T # {}, NEW b \in Nat, \A n \in T : n <= b
  PROVE  Max(T) \in T /\ \A n \in T : n <= Max(T)
<1> DEFINE D == {b - n : n \in T}
<1>1. D \in SUBSET Nat /\ D # {}
  <2>1. \A n \in T : n \in Nat /\ n <= b
    OBVIOUS
  <2>2. \A n \in T : b - n \in Nat
    BY <2>1
  <2> QED BY <2>2
<1>2. PICK d \in D : \A m \in D : d <= m
  <2> HIDE DEF D
  <2> QED BY <1>1, LeastNatural
<1>3. PICK n \in T : d = b - n
  BY <1>2
<1>4. ASSUME NEW m \in T PROVE n >= m
  <2>1. b - m \in D
    OBVIOUS
  <2>2. d <= b - m
    BY <1>2, <2>1
  <2>3. n \in Nat /\ m \in Nat
    OBVIOUS
  <2> QED BY <1>3, <2>2, <2>3
<1>5. \E x \in T : \A y \in T : x >= y
  BY <1>4
<1> QED BY <1>5 DEF Max

-----------------------------------------------------------------------------
\* Stacks, innermost first.

LEMMA PushShape ==
  ASSUME NEW S, NEW s \in Seq(S), NEW x \in S
  PROVE  LET c == <<x>> \o s
         IN  /\ c \in Seq(S) /\ Len(c) = Len(s) + 1 /\ DOMAIN c = 1..(Len(s) + 1)
             /\ c # <<>> /\ c[1] = x /\ \A i \in 1..Len(s) : c[i + 1] = s[i]
<1>1. PICK h : h = <<x>>
  OBVIOUS
<1>2. h \in Seq(S) /\ Len(h) = 1 /\ h[1] = x
  BY <1>1
<1>3. PICK c : c = h \o s
  OBVIOUS
<1>4. PICK n \in Nat : n = Len(s)
  OBVIOUS
<1>5. /\ c \in Seq(S) /\ Len(c) = 1 + n
      /\ \A i \in 1..(1 + n) : c[i] = IF i <= 1 THEN h[i] ELSE s[i - 1]
  BY <1>2, <1>3, <1>4, ConcatProperties
<1>6. Len(c) = n + 1 /\ DOMAIN c = 1..(n + 1) /\ c[1] = x
  BY <1>2, <1>5
<1>7. \A i \in 1..n : c[i + 1] = s[i]
  <2> SUFFICES ASSUME NEW i \in 1..n PROVE c[i + 1] = s[i]
    OBVIOUS
  <2>1. i + 1 \in 1..(1 + n) /\ ~(i + 1 <= 1) /\ (i + 1) - 1 = i
    OBVIOUS
  <2> QED BY <1>5, <2>1
<1>8. c # <<>>
  BY <1>5
<1> QED BY <1>1, <1>3, <1>4, <1>5, <1>6, <1>7, <1>8

LEMMA PopShape ==
  ASSUME NEW S, NEW s \in Seq(S), s # <<>>
  PROVE  /\ Tail(s) \in Seq(S) /\ Len(Tail(s)) = Len(s) - 1
         /\ DOMAIN Tail(s) = 1..(Len(s) - 1)
         /\ \A i \in 1..(Len(s) - 1) : Tail(s)[i] = s[i + 1]
         /\ 1 \in DOMAIN s /\ Head(s) = s[1] /\ Head(s) \in S
<1>1. PICK t : t = Tail(s)
  OBVIOUS
<1>2. /\ Head(s) \in S /\ t \in Seq(S) /\ Len(t) = Len(s) - 1
      /\ \A i \in 1..Len(t) : t[i] = s[i + 1]
  BY <1>1, HeadTailProperties
<1>3. Len(s) \in Nat \ {0} /\ DOMAIN s = 1..Len(s) /\ Head(s) = s[1]
  BY EmptySeq
<1> QED BY <1>1, <1>2, <1>3

LEMMA ReplaceShape ==
  ASSUME NEW S, NEW s \in Seq(S), s # <<>>, NEW x \in S
  PROVE  LET c == <<x>> \o Tail(s)
         IN  /\ c \in Seq(S) /\ Len(c) = Len(s) /\ DOMAIN c = DOMAIN s
             /\ c # <<>> /\ c[1] = x /\ \A i \in DOMAIN s : i # 1 => c[i] = s[i]
<1>1. PICK n \in Nat \ {0} : n = Len(s) /\ DOMAIN s = 1..n
  BY EmptySeq
<1>2. PICK t : t = Tail(s)
  OBVIOUS
<1>3. t \in Seq(S) /\ Len(t) = n - 1 /\ \A i \in 1..(n - 1) : t[i] = s[i + 1]
  BY <1>1, <1>2, PopShape
<1>4. PICK c : c = <<x>> \o t
  OBVIOUS
<1>5. /\ c \in Seq(S) /\ Len(c) = n /\ DOMAIN c = 1..n /\ c # <<>>
      /\ c[1] = x /\ \A i \in 1..(n - 1) : c[i + 1] = t[i]
  <2>1. /\ c \in Seq(S) /\ Len(c) = Len(t) + 1 /\ DOMAIN c = 1..(Len(t) + 1) /\ c # <<>>
        /\ c[1] = x /\ \A i \in 1..Len(t) : c[i + 1] = t[i]
    BY <1>3, <1>4, PushShape
  <2>2. Len(t) + 1 = n
    BY <1>3
  <2> QED BY <1>3, <2>1, <2>2
<1>6. ASSUME NEW i \in 1..n, i # 1 PROVE c[i] = s[i]
  <2>1. i - 1 \in 1..(n - 1) /\ (i - 1) + 1 = i
    BY <1>6
  <2> QED BY <1>3, <1>5, <2>1
<1> QED BY <1>1, <1>2, <1>4, <1>5, <1>6

-----------------------------------------------------------------------------
\* The inductive invariant of the listener table.

Oldest == {p \in Nat \X Nat : p[1] < p[2]}

\* The array that an emission walks, and where in it the emission is.
Walk(frame) ==
  /\ frame.snapshot \in Seq(DOMAIN entries)
  /\ Lists(frame.snapshot, ToSet(frame.snapshot), Oldest)
  /\ frame.next \in 1..(Len(frame.snapshot) + 1)

TableInv ==
  /\ TypeOK
  /\ \A id \in DOMAIN entries : /\ entries[id].fired => entries[id].once
                                /\ entries[id].order < id
  /\ Lists(table, ToSet(table), Oldest)
  /\ \A i \in DOMAIN stack : Walk(stack[i])
  /\ \A i, j \in ToSet(table) :
       entries[i].order = entries[j].order <=> entries[i].event = entries[j].event

LEMMA OldestIsStrict == Asymmetric(Oldest)
  BY DEF Asymmetric, Oldest

LEMMA EntryParts ==
  ASSUME TypeOK, NEW id \in DOMAIN entries
  PROVE  /\ id \in Nat \ {0} /\ id \in EntryIds /\ id <= Len(entries)
         /\ entries[id] \in Entries
         /\ entries[id].event \in Events /\ entries[id].listener \in Listeners
         /\ entries[id].once \in BOOLEAN /\ entries[id].fired \in BOOLEAN
         /\ entries[id].order \in Nat
<1>1. /\ entries \in Seq(Entries) /\ Len(entries) \in Nat /\ Len(entries) <= MaxEntries
      /\ DOMAIN entries = 1..Len(entries)
  BY DEF TypeOK
<1>2. entries[id] \in Entries
  BY <1>1
<1> QED BY <1>1, <1>2, NodeEventsAssumption DEF Entries, EntryIds

LEMMA TableParts ==
  ASSUME TypeOK
  PROVE  /\ table \in Seq(DOMAIN entries) /\ Len(table) \in Nat
         /\ DOMAIN table = 1..Len(table)
         /\ \A k \in DOMAIN table : table[k] \in DOMAIN entries /\ table[k] \in ToSet(table)
         /\ ToSet(table) \subseteq DOMAIN entries
         /\ \A id \in ToSet(table) : \E k \in DOMAIN table : table[k] = id
         /\ entries \in Seq(Entries) /\ Len(entries) \in 0..MaxEntries
         /\ DOMAIN entries = 1..Len(entries)
         /\ Len(entries) \in Nat
<1>1. table \in Seq(DOMAIN entries) /\ entries \in Seq(Entries) /\ Len(entries) <= MaxEntries
  BY DEF TypeOK
<1>2. /\ Len(table) \in Nat /\ DOMAIN table = 1..Len(table)
      /\ Len(entries) \in Nat /\ DOMAIN entries = 1..Len(entries)
      /\ \A k \in DOMAIN table : table[k] \in DOMAIN entries
  BY <1>1
<1> QED BY <1>1, <1>2, NodeEventsAssumption DEF ToSet

(* The order number a new registration gets: that of its name, if the name *)
(* has registrations, and otherwise one above all that are in the table.   *)
LEMMA OrderForIs ==
  ASSUME TableInv, NEW e \in Events
  PROVE  /\ OrderFor(e) \in 0..Len(entries)
         /\ \A id \in ToSet(table) : entries[id].event = e => entries[id].order = OrderFor(e)
         /\ (\A id \in ToSet(table) : entries[id].event # e)
              => \A id \in ToSet(table) : entries[id].order < OrderFor(e)
<1> DEFINE same == {i \in DOMAIN table : entries[table[i]].event = e}
           above == {0} \cup {entries[id].order + 1 : id \in ToSet(table)}
<1>0. TypeOK
  BY DEF TableInv
<1>1. PICK n \in Nat : n = Len(entries) /\ DOMAIN entries = 1..n
  BY <1>0, TableParts
<1>2. \A id \in ToSet(table) : /\ id \in 1..n /\ entries[id].order \in Nat
                               /\ entries[id].order < id
  <2> SUFFICES ASSUME NEW id \in ToSet(table)
               PROVE  id \in 1..n /\ entries[id].order \in Nat /\ entries[id].order < id
    OBVIOUS
  <2>1. id \in DOMAIN entries
    BY <1>0, TableParts
  <2> QED BY <1>0, <1>1, <2>1, EntryParts DEF TableInv
<1>3. CASE same # {}
  <2>1. Max(same) \in same
    <3>1. PICK m \in Nat : m = Len(table) /\ DOMAIN table = 1..m
      BY <1>0, TableParts
    <3>2. same \in SUBSET Nat /\ \A i \in same : i <= m
      BY <3>1
    <3> HIDE DEF same
    <3> QED BY <1>3, <3>2, MaxIs
  <2>2. PICK i \in DOMAIN table : i = Max(same) /\ entries[table[i]].event = e
    BY <2>1
  <2>3. OrderFor(e) = entries[table[i]].order
    BY <1>3, <2>2 DEF OrderFor
  <2>4. table[i] \in ToSet(table)
    BY <1>0, TableParts
  <2>5. OrderFor(e) \in 0..n
    BY <1>2, <2>3, <2>4
  <2>6. \A id \in ToSet(table) : entries[id].event = e => entries[id].order = OrderFor(e)
    BY <2>2, <2>3, <2>4 DEF TableInv
  <2> QED BY <1>1, <2>2, <2>4, <2>5, <2>6
<1>4. CASE same = {}
  <2>1. above \in SUBSET Nat /\ above # {} /\ \A k \in above : k <= n
    BY <1>2
  <2>2. Max(above) \in above /\ \A k \in above : k <= Max(above)
    <3> HIDE DEF above
    <3> QED BY <2>1, MaxIs
  <2>3. OrderFor(e) = Max(above)
    BY <1>4 DEF OrderFor
  <2>4. \A id \in ToSet(table) : entries[id].event # e
    <3> SUFFICES ASSUME NEW id \in ToSet(table) PROVE entries[id].event # e
      OBVIOUS
    <3>1. PICK k \in DOMAIN table : table[k] = id
      BY <1>0, TableParts
    <3> QED BY <1>4, <3>1
  <2>5. \A id \in ToSet(table) : entries[id].order < Max(above)
    <3> SUFFICES ASSUME NEW id \in ToSet(table) PROVE entries[id].order < Max(above)
      OBVIOUS
    <3>1. entries[id].order + 1 \in above
      OBVIOUS
    <3>2. entries[id].order + 1 <= Max(above) /\ Max(above) \in Nat
      BY <2>1, <2>2, <3>1
    <3> QED BY <1>2, <3>2
  <2>6. Max(above) \in 0..n
    BY <2>1, <2>2
  <2> QED BY <1>1, <2>3, <2>4, <2>5, <2>6
<1> QED BY <1>3, <1>4

LEMMA TableInit == Init => TableInv
<1> SUFFICES ASSUME Init PROVE TableInv
  OBVIOUS
<1>1. entries = <<>> /\ table = <<>> /\ stack = <<>>
  BY DEF Init
<1>2. DOMAIN entries = {} /\ DOMAIN stack = {} /\ ToSet(table) = {}
  BY <1>1 DEF ToSet
<1>3. TypeOK
  BY <1>1, NodeEventsAssumption DEF TypeOK
<1>4. Lists(table, ToSet(table), Oldest)
  BY <1>1, <1>2, EmptyLists
<1> QED BY <1>2, <1>3, <1>4 DEF TableInv


(* A table that lists some of the registrations there were. *)
LEMMA SmallerTable ==
  ASSUME TableInv, NEW T \in SUBSET ToSet(table), NEW t, Lists(t, T, Oldest)
  PROVE  /\ t \in Seq(DOMAIN entries) /\ Len(t) <= MaxListeners
         /\ ToSet(t) = T /\ Lists(t, ToSet(t), Oldest)
<1>1. TypeOK /\ Lists(table, ToSet(table), Oldest)
  BY DEF TableInv
<1>2. T \subseteq DOMAIN entries
  BY <1>1, TableParts
<1>3. t \in Seq(DOMAIN entries)
  BY <1>2, SeqMonotonic DEF Lists
<1>4. Len(t) <= Len(table)
  BY <1>1, OldestIsStrict, ShorterList
<1>5. Len(t) <= MaxListeners
  <2>1. Len(t) \in Nat /\ Len(table) \in Nat /\ Len(table) <= MaxListeners
    BY <1>1, <1>3, TableParts DEF TypeOK
  <2> QED BY <1>4, <2>1, NodeEventsAssumption
<1>6. ToSet(t) = T
  BY ListedSet
<1> QED BY <1>3, <1>5, <1>6

\* Entries are objects: a step leaves what they say, but may mark one as fired.
KeptEntries ==
  /\ entries' \in Seq(Entries) /\ Len(entries') = Len(entries)
  /\ \A id \in DOMAIN entries :
       /\ entries'[id].event = entries[id].event
       /\ entries'[id].listener = entries[id].listener
       /\ entries'[id].once = entries[id].once
       /\ entries'[id].order = entries[id].order
       /\ entries'[id].fired => entries'[id].once

LEMMA KeptStep ==
  ASSUME TableInv, KeptEntries,
         table' = table \/ \E T \in SUBSET ToSet(table) : Lists(table', T, Oldest),
         stack' \in Seq(Frames), Len(stack') <= MaxDepth,
         \A i \in DOMAIN stack' : Walk(stack'[i])
  PROVE  TableInv'
<1>1. TypeOK /\ entries \in Seq(Entries) /\ entries' \in Seq(Entries)
  BY DEF TableInv, KeptEntries, TypeOK
<1>2. DOMAIN entries' = DOMAIN entries /\ Len(entries') = Len(entries)
  BY <1>1 DEF KeptEntries
<1>3. /\ table' \in Seq(DOMAIN entries) /\ Len(table') <= MaxListeners
      /\ Lists(table', ToSet(table'), Oldest)
      /\ ToSet(table') \subseteq ToSet(table)
  <2>1. CASE table' = table
    BY <1>1, <2>1 DEF TableInv, TypeOK
  <2>2. CASE \E T \in SUBSET ToSet(table) : Lists(table', T, Oldest)
    <3>1. PICK T \in SUBSET ToSet(table) : Lists(table', T, Oldest)
      BY <2>2
    <3>2. PICK t : t = table'
      OBVIOUS
    <3>3. Lists(t, T, Oldest)
      BY <3>1, <3>2
    <3>4. t \in Seq(DOMAIN entries) /\ Len(t) <= MaxListeners
          /\ ToSet(t) = T /\ Lists(t, ToSet(t), Oldest)
      BY <3>3, SmallerTable
    <3> QED BY <3>2, <3>4
  <2> QED BY <2>1, <2>2
<1>4. TypeOK'
  BY <1>1, <1>2, <1>3 DEF TypeOK
<1>5. ASSUME NEW id \in DOMAIN entries'
      PROVE  (entries'[id].fired => entries'[id].once) /\ entries'[id].order < id
  BY <1>2 DEF TableInv, KeptEntries
<1>6. ASSUME NEW i \in DOMAIN stack' PROVE Walk(stack[i])'
  BY <1>2 DEF Walk
<1>7. ASSUME NEW i \in ToSet(table'), NEW j \in ToSet(table')
      PROVE  entries'[i].order = entries'[j].order <=> entries'[i].event = entries'[j].event
  <2>1. i \in ToSet(table) /\ j \in ToSet(table) /\ i \in DOMAIN entries /\ j \in DOMAIN entries
    BY <1>1, <1>3, TableParts
  <2> QED BY <2>1 DEF TableInv, KeptEntries
<1>8. Lists(table, ToSet(table), Oldest)'
  BY <1>3
<1> QED BY <1>4, <1>5, <1>6, <1>7, <1>8 DEF TableInv

LEMMA UnchangedEntries ==
  ASSUME TableInv, entries' = entries
  PROVE  KeptEntries
  BY DEF KeptEntries, TableInv, TypeOK

LEMMA StackParts ==
  ASSUME TypeOK
  PROVE  /\ stack \in Seq(Frames) /\ Len(stack) \in Nat /\ Len(stack) <= MaxDepth
         /\ DOMAIN stack = 1..Len(stack) /\ MaxDepth \in Nat
         /\ \A i \in DOMAIN stack : stack[i] \in Frames
         /\ stack # <<>> => 1 \in DOMAIN stack /\ Head(stack) = stack[1] /\ Head(stack) \in Frames
<1>1. stack \in Seq(Frames) /\ Len(stack) <= MaxDepth
  BY DEF TypeOK
<1>2. stack # <<>> => 1 \in DOMAIN stack /\ Head(stack) = stack[1] /\ Head(stack) \in Frames
  BY <1>1, PopShape
<1> QED BY <1>1, <1>2, NodeEventsAssumption

(* What one more registration makes of the entries and of the table. *)
LEMMA OnShape ==
  ASSUME TableInv, NEW e \in Events, NEW l \in Listeners, NEW once \in BOOLEAN, On(e, l, once)
  PROVE  /\ Len(entries) + 1 \in Nat \ {0}
         /\ Len(entries) + 1 \notin DOMAIN entries
         /\ entries' \in Seq(Entries) /\ Len(entries') = Len(entries) + 1
         /\ DOMAIN entries' = DOMAIN entries \union {Len(entries) + 1}
         /\ \A id \in DOMAIN entries : entries'[id] = entries[id]
         /\ entries'[Len(entries) + 1].event = e
         /\ entries'[Len(entries) + 1].listener = l
         /\ entries'[Len(entries) + 1].once = once
         /\ entries'[Len(entries) + 1].fired = FALSE
         /\ entries'[Len(entries) + 1].order = OrderFor(e)
         /\ Lists(table', ToSet(table) \union {Len(entries) + 1}, Oldest)
         /\ ToSet(table') = ToSet(table) \union {Len(entries) + 1}
<1>1. TypeOK
  BY DEF TableInv
<1>2. PICK n \in Nat : n = Len(entries) /\ DOMAIN entries = 1..n
  BY <1>1, TableParts
<1>3. OrderFor(e) \in Nat
  BY OrderForIs, <1>2
<1>4. PICK new : new = [event |-> e, listener |-> l, once |-> once,
                        fired |-> FALSE, order |-> OrderFor(e)]
  OBVIOUS
<1>5. /\ new \in Entries /\ new.event = e /\ new.listener = l /\ new.once = once
      /\ new.fired = FALSE /\ new.order = OrderFor(e)
  BY <1>3, <1>4 DEF Entries
<1>6. entries \in Seq(Entries) /\ entries' = Append(entries, new)
  BY <1>1, <1>4 DEF On, TypeOK
<1>7. PICK en : en = Append(entries, new)
  OBVIOUS
<1>8. /\ en \in Seq(Entries) /\ Len(en) = n + 1 /\ DOMAIN en = 1..(n + 1)
      /\ en[n + 1] = new /\ \A id \in DOMAIN entries : en[id] = entries[id]
  BY <1>2, <1>5, <1>6, <1>7, LongerShape
<1>9. DOMAIN en = DOMAIN entries \union {n + 1} /\ n + 1 \notin DOMAIN entries
  BY <1>2, <1>8
<1>10. \A x \in ToSet(table) : <<x, n + 1>> \in Oldest
  BY <1>1, <1>2, TableParts DEF Oldest
<1>11. PICK t, y : t = Append(table, y) /\ y = n + 1
  OBVIOUS
<1>12. Lists(t, ToSet(table) \union {y}, Oldest)
  BY <1>10, <1>11, AppendLists DEF TableInv
<1>13. ToSet(t) = ToSet(table) \union {y}
  BY <1>12, ListedSet
<1>14. table' = t
  BY <1>2, <1>11 DEF On
<1>15. entries' = en
  BY <1>6, <1>7
<1> QED BY <1>2, <1>5, <1>8, <1>9, <1>11, <1>12, <1>13, <1>14, <1>15

LEMMA OnKeeps ==
  ASSUME TableInv, NEW e \in Events, NEW l \in Listeners, NEW once \in BOOLEAN, On(e, l, once)
  PROVE  TableInv'
<1>1. TypeOK
  BY DEF TableInv
<1>2. PICK n \in Nat : n = Len(entries) /\ DOMAIN entries = 1..n
  BY <1>1, TableParts
<1>3. /\ entries' \in Seq(Entries) /\ Len(entries') = n + 1
      /\ DOMAIN entries' = DOMAIN entries \union {n + 1}
      /\ \A id \in DOMAIN entries : entries'[id] = entries[id]
      /\ entries'[n + 1].event = e /\ entries'[n + 1].order = OrderFor(e)
      /\ entries'[n + 1].fired = FALSE
      /\ Lists(table', ToSet(table) \union {n + 1}, Oldest)
      /\ ToSet(table') = ToSet(table) \union {n + 1}
  BY <1>2, OnShape
<1>4. /\ table \in Seq(DOMAIN entries) /\ Len(table) <= MaxListeners /\ Len(table) \in Nat
      /\ ToSet(table) \subseteq DOMAIN entries
  BY <1>1, TableParts DEF TypeOK
<1>5. TypeOK'
  <2>1. n + 1 <= MaxEntries
    BY <1>2, NodeEventsAssumption DEF On
  <2>2. table' \in Seq(DOMAIN entries')
    BY <1>3, <1>4, SeqMonotonic DEF Lists
  <2>3. Len(table') <= MaxListeners
    <3>1. table' = Append(table, n + 1)
      BY <1>2 DEF On
    <3>2. Len(table') = Len(table) + 1
      BY <1>4, <3>1
    <3> QED BY <1>4, <3>2, NodeEventsAssumption DEF On, HasRoom
  <2>4. stack' = stack
    BY DEF On
  <2> QED BY <1>1, <1>3, <2>1, <2>2, <2>3, <2>4 DEF TypeOK
<1>6. ASSUME NEW id \in DOMAIN entries'
      PROVE  (entries'[id].fired => entries'[id].once) /\ entries'[id].order < id
  <2>1. CASE id \in DOMAIN entries
    BY <1>3, <2>1 DEF TableInv
  <2>2. CASE id = n + 1
    <3>1. OrderFor(e) \in 0..n
      BY <1>2, OrderForIs
    <3> QED BY <1>3, <2>2, <3>1
  <2> QED BY <1>3, <2>1, <2>2
<1>7. Lists(table, ToSet(table), Oldest)'
  BY <1>3
<1>8. ASSUME NEW i \in DOMAIN stack' PROVE Walk(stack[i])'
  <2>1. stack' = stack
    BY DEF On
  <2>2. Walk(stack[i])
    BY <2>1 DEF TableInv
  <2>3. stack[i].snapshot \in Seq(DOMAIN entries')
    BY <1>3, <2>2, SeqMonotonic DEF Walk
  <2> QED BY <2>1, <2>2, <2>3 DEF Walk
<1>9. ASSUME NEW i \in ToSet(table'), NEW j \in ToSet(table')
      PROVE  entries'[i].order = entries'[j].order <=> entries'[i].event = entries'[j].event
  <2>1. \A k \in ToSet(table) : k \in DOMAIN entries
    BY <1>4
  <2>2. \A k \in ToSet(table) : entries[k].order = OrderFor(e) <=> entries[k].event = e
    <3> SUFFICES ASSUME NEW k \in ToSet(table)
                 PROVE  entries[k].order = OrderFor(e) <=> entries[k].event = e
      OBVIOUS
    <3>1. CASE \A id \in ToSet(table) : entries[id].event # e
      <4>1. entries[k].order < OrderFor(e) /\ OrderFor(e) \in Nat /\ entries[k].order \in Nat
        BY <1>1, <1>2, <2>1, <3>1, OrderForIs, EntryParts
      <4> QED BY <3>1, <4>1
    <3>2. CASE \E id \in ToSet(table) : entries[id].event = e
      <4>1. PICK m \in ToSet(table) : entries[m].event = e
        BY <3>2
      <4>2. entries[m].order = OrderFor(e)
        BY <4>1, OrderForIs
      <4> QED BY <4>1, <4>2 DEF TableInv
    <3> QED BY <3>1, <3>2
  <2>3. (i \in ToSet(table) \/ i = n + 1) /\ (j \in ToSet(table) \/ j = n + 1)
    BY <1>3
  <2>4. CASE i \in ToSet(table) /\ j \in ToSet(table)
    BY <1>3, <2>1, <2>4 DEF TableInv
  <2>5. CASE i \in ToSet(table) /\ j = n + 1
    BY <1>3, <2>1, <2>2, <2>5
  <2>6. CASE i = n + 1 /\ j \in ToSet(table)
    BY <1>3, <2>1, <2>2, <2>6
  <2>7. CASE i = n + 1 /\ j = n + 1
    BY <2>7
  <2> QED BY <2>3, <2>4, <2>5, <2>6, <2>7
<1> QED BY <1>5, <1>6, <1>7, <1>8, <1>9 DEF TableInv

(* The latest registration of a listener, if it has any for the name. *)
LEMMA LatestMatchIs ==
  ASSUME TypeOK, NEW e, NEW l, Matching(e, l) # {}
  PROVE  /\ LatestMatch(e, l) \in Matching(e, l)
         /\ \A k \in Matching(e, l) : k <= LatestMatch(e, l)
<1>1. PICK n \in Nat : n = Len(table) /\ DOMAIN table = 1..n
  BY TableParts
<1>2. Matching(e, l) \in SUBSET Nat /\ \A k \in Matching(e, l) : k <= n
  BY <1>1 DEF Matching
<1> QED BY <1>2, MaxIs DEF LatestMatch

(* The entry whose listener an emission calls next. *)
LEMMA NextIs ==
  ASSUME NEW i \in DOMAIN stack, Walk(stack[i]), Ahead(stack[i]) # {}
  PROVE  /\ Min(Ahead(stack[i])) \in stack[i].next..Len(stack[i].snapshot)
         /\ Min(Ahead(stack[i])) \in DOMAIN stack[i].snapshot
         /\ stack[i].snapshot[Min(Ahead(stack[i]))] \in DOMAIN entries
         /\ Callable(stack[i].snapshot[Min(Ahead(stack[i]))], stack[i].event)
         /\ \A k \in Ahead(stack[i]) : Min(Ahead(stack[i])) <= k
<1>1. /\ stack[i].snapshot \in Seq(DOMAIN entries)
      /\ stack[i].next \in 1..(Len(stack[i].snapshot) + 1)
  BY DEF Walk
<1>2. PICK n \in Nat : n = Len(stack[i].snapshot) /\ DOMAIN stack[i].snapshot = 1..n
  BY <1>1
<1>3. Ahead(stack[i]) \in SUBSET Nat
  BY <1>1, <1>2 DEF Ahead
<1>4. /\ Min(Ahead(stack[i])) \in Ahead(stack[i])
      /\ \A k \in Ahead(stack[i]) : Min(Ahead(stack[i])) <= k
  BY <1>3, MinIs
<1>5. PICK m : m = Min(Ahead(stack[i]))
  OBVIOUS
<1>6. m \in stack[i].next..n /\ Callable(stack[i].snapshot[m], stack[i].event)
  BY <1>2, <1>4, <1>5 DEF Ahead
<1>7. m \in 1..n
  BY <1>1, <1>2, <1>6
<1>8. stack[i].snapshot[m] \in DOMAIN entries
  BY <1>1, <1>2, <1>7
<1> QED BY <1>2, <1>4, <1>5, <1>6, <1>7, <1>8

LEMMA RemoveListenerKeeps ==
  ASSUME TableInv, NEW e \in Events, NEW l \in Listeners, RemoveListener(e, l)
  PROVE  /\ TableInv'
         /\ LatestMatch(e, l) \in DOMAIN table
         /\ Lists(table', ToSet(table) \ {table[LatestMatch(e, l)]}, Oldest)
<1>1. TypeOK /\ Lists(table, ToSet(table), Oldest)
  BY DEF TableInv
<1>2. PICK k : k = LatestMatch(e, l)
  OBVIOUS
<1>3. k \in DOMAIN table
  BY <1>1, <1>2, LatestMatchIs DEF RemoveListener, Matching
<1>4. PICK t : t = RemoveAt(table, k)
  OBVIOUS
<1>5. Lists(t, ToSet(table) \ {table[k]}, Oldest)
  BY <1>1, <1>3, <1>4, OldestIsStrict, RemovedLists
<1>6. table' = t /\ entries' = entries /\ stack' = stack
  BY <1>2, <1>4 DEF RemoveListener
<1>7. /\ stack' \in Seq(Frames) /\ Len(stack') <= MaxDepth
      /\ \A i \in DOMAIN stack' : Walk(stack'[i])
  BY <1>1, <1>6 DEF TableInv, TypeOK
<1>8. ToSet(table) \ {table[k]} \in SUBSET ToSet(table)
  OBVIOUS
<1>9. \E T \in SUBSET ToSet(table) : Lists(table', T, Oldest)
  BY <1>5, <1>6, <1>8
<1>10. TableInv'
  BY <1>6, <1>7, <1>9, UnchangedEntries, KeptStep
<1> QED BY <1>2, <1>3, <1>5, <1>6, <1>10

LEMMA RemoveAllListenersKeeps ==
  ASSUME TableInv, NEW e \in Events, RemoveAllListeners(e)
  PROVE  /\ TableInv'
         /\ Lists(table', ToSet(table) \cap (DOMAIN entries \ OfEvent(e)), Oldest)
<1>1. TypeOK /\ Lists(table, ToSet(table), Oldest)
  BY DEF TableInv
<1>2. PICK S : S = DOMAIN entries \ OfEvent(e)
  OBVIOUS
<1>3. PICK t : t = Selected(table, S)
  OBVIOUS
<1>4. Lists(t, ToSet(table) \cap S, Oldest)
  BY <1>1, <1>3, SelectedLists
<1>5. table' = t /\ entries' = entries /\ stack' = stack
  BY <1>2, <1>3 DEF RemoveAllListeners
<1>6. /\ stack' \in Seq(Frames) /\ Len(stack') <= MaxDepth
      /\ \A i \in DOMAIN stack' : Walk(stack'[i])
  BY <1>1, <1>5 DEF TableInv, TypeOK
<1>7. ToSet(table) \cap S \in SUBSET ToSet(table)
  OBVIOUS
<1>8. \E T \in SUBSET ToSet(table) : Lists(table', T, Oldest)
  BY <1>4, <1>5, <1>7
<1>9. TableInv'
  BY <1>5, <1>6, <1>8, UnchangedEntries, KeptStep
<1> QED BY <1>2, <1>4, <1>5, <1>9

LEMMA RemoveEveryListenerKeeps ==
  ASSUME TableInv, RemoveEveryListener
  PROVE  TableInv' /\ Lists(table', {}, Oldest)
<1>1. TypeOK
  BY DEF TableInv
<1>2. table' = <<>> /\ entries' = entries /\ stack' = stack
  BY DEF RemoveEveryListener
<1>3. /\ stack' \in Seq(Frames) /\ Len(stack') <= MaxDepth
      /\ \A i \in DOMAIN stack' : Walk(stack'[i])
  BY <1>1, <1>2 DEF TableInv, TypeOK
<1>4. Lists(table', {}, Oldest)
  BY <1>2, EmptyLists
<1>5. {} \in SUBSET ToSet(table)
  OBVIOUS
<1>6. \E T \in SUBSET ToSet(table) : Lists(table', T, Oldest)
  BY <1>4, <1>5
<1>7. TableInv'
  BY <1>2, <1>3, <1>6, UnchangedEntries, KeptStep
<1> QED BY <1>4, <1>7

\* The emission that starts with the present table.
Starting(e) == [event |-> e, snapshot |-> table, next |-> 1, running |-> FALSE]

LEMMA StartedWalks ==
  ASSUME TableInv, NEW e \in Events
  PROVE  Starting(e) \in Frames /\ Walk(Starting(e))
<1>1. TypeOK
  BY DEF TableInv
<1>2. PICK f : f = Starting(e)
  OBVIOUS
<1>3. f.event = e /\ f.snapshot = table /\ f.next = 1 /\ f.running = FALSE
  BY <1>2 DEF Starting
<1>4. table \in Seq(EntryIds)
  <2>1. DOMAIN entries \subseteq EntryIds
    BY <1>1, EntryParts
  <2> QED BY <1>1, <2>1, TableParts, SeqMonotonic
<1>5. f \in Frames
  BY <1>2, <1>4 DEF Frames, Starting
<1>6. Walk(f)
  <2>1. 1 \in 1..(Len(table) + 1)
    BY <1>1, TableParts
  <2>2. table \in Seq(DOMAIN entries) /\ Lists(table, ToSet(table), Oldest)
    BY <1>1, TableParts DEF TableInv
  <2> QED BY <1>3, <2>1, <2>2 DEF Walk
<1> QED BY <1>2, <1>5, <1>6

LEMMA EmitKeeps ==
  ASSUME TableInv, NEW e \in Events, Emit(e)
  PROVE  TableInv'
<1>1. TypeOK
  BY DEF TableInv
<1>2. PICK f : f = Starting(e)
  OBVIOUS
<1>3. f \in Frames /\ Walk(f)
  BY <1>2, StartedWalks
<1>4. stack' = <<f>> \o stack /\ table' = table /\ entries' = entries
  BY <1>2 DEF Emit, Starting
<1>5. PICK n \in Nat : n = Len(stack) /\ DOMAIN stack = 1..n
  BY <1>1, StackParts
<1>6. PICK c : c = <<f>> \o stack
  OBVIOUS
<1>7. /\ c \in Seq(Frames) /\ Len(c) = n + 1 /\ DOMAIN c = 1..(n + 1)
      /\ c[1] = f /\ \A i \in 1..n : c[i + 1] = stack[i]
  BY <1>1, <1>3, <1>5, <1>6, StackParts, PushShape
<1>8. n + 1 <= MaxDepth
  BY <1>5, NodeEventsAssumption DEF Emit
<1>9. ASSUME NEW i \in DOMAIN c PROVE Walk(c[i])
  <2>1. CASE i = 1
    BY <1>3, <1>7, <2>1
  <2>2. CASE i # 1
    <3>1. i - 1 \in 1..n /\ (i - 1) + 1 = i
      BY <1>7, <2>2
    <3>2. c[i] = stack[i - 1]
      BY <1>7, <3>1
    <3> QED BY <1>5, <3>1, <3>2 DEF TableInv
  <2> QED BY <2>1, <2>2
<1>10. stack' = c
  BY <1>4, <1>6
<1> QED BY <1>4, <1>7, <1>8, <1>9, <1>10, UnchangedEntries, KeptStep

(* Steps that replace or drop the innermost emission. *)
LEMMA ReplacedWalks ==
  ASSUME TableInv, stack # <<>>, NEW f \in Frames, Walk(f), NEW c, c = <<f>> \o Tail(stack)
  PROVE  /\ c \in Seq(Frames) /\ Len(c) = Len(stack) /\ Len(c) <= MaxDepth
         /\ DOMAIN c = DOMAIN stack
         /\ c[1] = f /\ \A i \in DOMAIN stack : i # 1 => c[i] = stack[i]
         /\ \A i \in DOMAIN c : Walk(c[i])
<1>1. TypeOK
  BY DEF TableInv
<1>2. stack \in Seq(Frames) /\ Len(stack) <= MaxDepth
  BY <1>1, StackParts
<1>3. /\ c \in Seq(Frames) /\ Len(c) = Len(stack) /\ DOMAIN c = DOMAIN stack
      /\ c[1] = f /\ \A i \in DOMAIN stack : i # 1 => c[i] = stack[i]
  BY <1>2, ReplaceShape
<1>4. \A i \in DOMAIN stack : Walk(stack[i])
  BY DEF TableInv
<1>5. ASSUME NEW i \in DOMAIN c PROVE Walk(c[i])
  <2>1. CASE i = 1
    BY <1>3, <2>1
  <2>2. CASE i # 1
    BY <1>3, <1>4, <2>2
  <2> QED BY <2>1, <2>2
<1> QED BY <1>2, <1>3, <1>5

LEMMA PoppedWalks ==
  ASSUME TableInv, stack # <<>>, NEW c, c = Tail(stack)
  PROVE  /\ c \in Seq(Frames) /\ Len(c) = Len(stack) - 1 /\ Len(c) <= MaxDepth
         /\ DOMAIN c = 1..(Len(stack) - 1)
         /\ \A i \in DOMAIN c : c[i] = stack[i + 1] /\ i + 1 \in DOMAIN stack
         /\ \A i \in DOMAIN c : Walk(c[i])
<1>1. TypeOK
  BY DEF TableInv
<1>2. PICK n \in Nat : n = Len(stack) /\ DOMAIN stack = 1..n
  BY <1>1, StackParts
<1>3. stack \in Seq(Frames) /\ n <= MaxDepth /\ MaxDepth \in Nat
  BY <1>1, <1>2, StackParts
<1>4. /\ c \in Seq(Frames) /\ Len(c) = n - 1 /\ DOMAIN c = 1..(n - 1)
      /\ \A i \in 1..(n - 1) : c[i] = stack[i + 1]
  BY <1>2, <1>3, PopShape
<1>5. \A i \in DOMAIN c : c[i] = stack[i + 1] /\ i + 1 \in DOMAIN stack
  BY <1>2, <1>4
<1>6. \A i \in DOMAIN c : Walk(c[i])
  BY <1>5 DEF TableInv
<1> QED BY <1>2, <1>3, <1>4, <1>5, <1>6

LEMMA PopKeeps ==
  ASSUME TableInv, stack # <<>>, stack' = Tail(stack), UNCHANGED <<entries, table>>
  PROVE  TableInv'
  BY PoppedWalks, UnchangedEntries, KeptStep

LEMMA ListenerReturnsKeeps ==
  ASSUME TableInv, ListenerReturns
  PROVE  TableInv'
<1>1. TypeOK /\ stack # <<>>
  BY DEF TableInv, ListenerReturns
<1>2. PICK g : g = Head(stack)
  OBVIOUS
<1>3. g \in Frames /\ Walk(g)
  BY <1>1, <1>2, StackParts DEF TableInv
<1>4. PICK f : f = [g EXCEPT !.running = FALSE]
  OBVIOUS
<1>5. /\ f \in Frames /\ f.snapshot = g.snapshot /\ f.next = g.next
  BY <1>3, <1>4 DEF Frames
<1>6. Walk(f)
  BY <1>3, <1>5 DEF Walk
<1>7. stack' = <<f>> \o Tail(stack) /\ entries' = entries /\ table' = table
  BY <1>2, <1>4 DEF ListenerReturns
<1> QED BY <1>1, <1>5, <1>6, <1>7, ReplacedWalks, UnchangedEntries, KeptStep

\* The frame of an emission that has called the listener at a position.
CallAt(frame, k) == [frame EXCEPT !.next = k + 1, !.running = TRUE]

Carries(f, frame, k) ==
  /\ f.event = frame.event /\ f.snapshot = frame.snapshot
  /\ f.next = k + 1 /\ f.running = TRUE

LEMMA CalledFrame ==
  ASSUME NEW g \in Frames, NEW m \in Nat, NEW f, f = CallAt(g, m)
  PROVE  f \in Frames /\ Carries(f, g, m)
<1>0. PICK k \in Nat : k = m + 1
  OBVIOUS
<1>1. f = [event |-> g.event, snapshot |-> g.snapshot, next |-> k, running |-> TRUE]
  BY <1>0 DEF Frames, CallAt
<1>2. /\ g.event \in Events /\ g.snapshot \in Seq(EntryIds) /\ TRUE \in BOOLEAN
  BY DEF Frames
<1>3. f.event = g.event /\ f.snapshot = g.snapshot /\ f.next = k /\ f.running = TRUE
  BY <1>1
<1> QED BY <1>0, <1>1, <1>2, <1>3 DEF Frames, Carries

\* A once registration is spent by its call.
Spends(id) ==
  IF entries[id].once
  THEN /\ entries' = [entries EXCEPT ![id].fired = TRUE]
       /\ Lists(table', ToSet(table) \cap (DOMAIN entries \ {id}), Oldest)
  ELSE entries' = entries /\ table' = table

(* A call to the next listener, with the frame it leaves. *)
LEMMA CallListenerShape ==
  ASSUME TableInv, CallListener,
         NEW m, m = Min(Ahead(Head(stack))),
         NEW id, id = Head(stack).snapshot[m],
         NEW f, f = CallAt(Head(stack), m)
  PROVE  /\ m \in Head(stack).next..Len(Head(stack).snapshot)
         /\ m \in DOMAIN Head(stack).snapshot
         /\ id \in DOMAIN entries /\ Callable(id, Head(stack).event)
         /\ \A k \in Ahead(Head(stack)) : m <= k
         /\ f \in Frames /\ Walk(f)
         /\ Carries(f, Head(stack), m)
         /\ stack' = <<f>> \o Tail(stack)
         /\ KeptEntries /\ Spends(id)
<1>1. TypeOK /\ stack # <<>> /\ Ahead(Head(stack)) # {}
  BY DEF TableInv, CallListener, Dispatching
<1>2. Head(stack) = stack[1] /\ 1 \in DOMAIN stack /\ Head(stack) \in Frames
  BY <1>1, StackParts
<1>3. Walk(Head(stack))
  BY <1>2 DEF TableInv
<1>4. /\ m \in Head(stack).next..Len(Head(stack).snapshot)
      /\ m \in DOMAIN Head(stack).snapshot
      /\ id \in DOMAIN entries /\ Callable(id, Head(stack).event)
      /\ \A k \in Ahead(Head(stack)) : m <= k
  BY <1>1, <1>2, <1>3, NextIs
<1>5. PICK g : g = Head(stack)
  OBVIOUS
<1>6. g \in Frames /\ Walk(g) /\ f = CallAt(g, m)
  BY <1>2, <1>3, <1>5
<1>7. g.next \in Nat /\ Len(g.snapshot) \in Nat /\ m \in g.next..Len(g.snapshot)
  BY <1>4, <1>5, <1>6 DEF Walk
<1>8. f \in Frames /\ Carries(f, g, m)
  <2>1. m \in Nat
    BY <1>7
  <2> QED BY <1>6, <2>1, CalledFrame
<1>9. Walk(f)
  <2>1. m + 1 \in 1..(Len(g.snapshot) + 1)
    BY <1>6, <1>7 DEF Walk
  <2> QED BY <1>6, <1>8, <2>1 DEF Walk, Carries
<1>10. stack' = <<f>> \o Tail(stack)
  BY DEF CallListener, CallAt
<1>11. CASE entries[id].once
  <2>1. PICK x : x = [entries[id] EXCEPT !.fired = TRUE]
    OBVIOUS
  <2>2. entries \in Seq(Entries) /\ entries[id] \in Entries
    BY <1>1, <1>4, EntryParts, TableParts
  <2>3. /\ x \in Entries /\ x.event = entries[id].event /\ x.listener = entries[id].listener
        /\ x.once = entries[id].once /\ x.order = entries[id].order
    BY <2>1, <2>2 DEF Entries
  <2>4. entries' = [entries EXCEPT ![id] = x] /\ entries' = [entries EXCEPT ![id].fired = TRUE]
    BY <1>11, <2>1 DEF CallListener
  <2>5. /\ entries' \in Seq(Entries) /\ Len(entries') = Len(entries)
        /\ \A j \in DOMAIN entries : entries'[j] = IF j = id THEN x ELSE entries[j]
    BY <1>4, <2>2, <2>3, <2>4, ExceptSeq
  <2>6. KeptEntries
    BY <1>11, <2>3, <2>5 DEF KeptEntries, TableInv
  <2>7. PICK S : S = DOMAIN entries \ {id}
    OBVIOUS
  <2>8. table' = Selected(table, S)
    BY <1>11, <2>7 DEF CallListener, TableWithout
  <2>9. Lists(table', ToSet(table) \cap S, Oldest)
    BY <2>8, SelectedLists DEF TableInv
  <2>10. Spends(id)
    BY <1>11, <2>4, <2>7, <2>9 DEF Spends
  <2> QED BY <1>4, <1>5, <1>8, <1>9, <1>10, <2>6, <2>10
<1>12. CASE ~entries[id].once
  <2>1. entries' = entries /\ table' = table
    BY <1>12 DEF CallListener
  <2>2. Spends(id)
    BY <1>12, <2>1 DEF Spends
  <2> QED BY <1>4, <1>5, <1>8, <1>9, <1>10, <2>1, <2>2, UnchangedEntries
<1> QED BY <1>11, <1>12

LEMMA CallListenerKeeps ==
  ASSUME TableInv, CallListener
  PROVE  TableInv'
<1>1. PICK m : m = Min(Ahead(Head(stack)))
  OBVIOUS
<1>2. PICK id : id = Head(stack).snapshot[m]
  OBVIOUS
<1>3. PICK f : f = CallAt(Head(stack), m)
  OBVIOUS
<1>4. /\ f \in Frames /\ Walk(f) /\ stack' = <<f>> \o Tail(stack) /\ KeptEntries
      /\ Spends(id)
  BY <1>1, <1>2, <1>3, CallListenerShape
<1>5. ToSet(table) \cap (DOMAIN entries \ {id}) \in SUBSET ToSet(table)
  OBVIOUS
<1>6. table' = table \/ \E T \in SUBSET ToSet(table) : Lists(table', T, Oldest)
  BY <1>4, <1>5 DEF Spends
<1>7. stack # <<>>
  BY DEF CallListener, Dispatching
<1> QED BY <1>4, <1>6, <1>7, ReplacedWalks, KeptStep

LEMMA TableStep == TableInv /\ [Next]_vars => TableInv'
<1> SUFFICES ASSUME TableInv, [Next]_vars PROVE TableInv'
  OBVIOUS
<1>1. ASSUME NEW e \in Events, NEW l \in Listeners, NEW once \in BOOLEAN, On(e, l, once)
      PROVE  TableInv'
  BY <1>1, OnKeeps
<1>2. ASSUME NEW e \in Events, NEW l \in Listeners, RemoveListener(e, l)
      PROVE  TableInv'
  BY <1>2, RemoveListenerKeeps
<1>3. ASSUME NEW e \in Events, RemoveAllListeners(e) PROVE TableInv'
  BY <1>3, RemoveAllListenersKeeps
<1>4. ASSUME RemoveEveryListener PROVE TableInv'
  BY <1>4, RemoveEveryListenerKeeps
<1>5. ASSUME NEW e \in Events, Emit(e) PROVE TableInv'
  BY <1>5, EmitKeeps
<1>6. ASSUME CallListener PROVE TableInv'
  BY <1>6, CallListenerKeeps
<1>7. ASSUME ListenerReturns PROVE TableInv'
  BY <1>7, ListenerReturnsKeeps
<1>8. ASSUME ListenerThrows PROVE TableInv'
  BY <1>8, PopKeeps DEF ListenerThrows
<1>9. ASSUME EmitReturns PROVE TableInv'
  BY <1>9, PopKeeps DEF EmitReturns, Dispatching
<1>10. ASSUME UNCHANGED vars PROVE TableInv'
  <2>1. entries' = entries /\ table' = table /\ stack' = stack
    BY <1>10 DEF vars
  <2>2. /\ stack' \in Seq(Frames) /\ Len(stack') <= MaxDepth
        /\ \A i \in DOMAIN stack' : Walk(stack'[i])
    BY <2>1 DEF TableInv, TypeOK
  <2> QED BY <2>1, <2>2, UnchangedEntries, KeptStep
<1> QED
  BY <1>1, <1>2, <1>3, <1>4, <1>5, <1>6, <1>7, <1>8, <1>9, <1>10 DEF Next

LEMMA TableInvariant == Spec => []TableInv
  BY TableInit, TableStep, PTL DEF Spec

-----------------------------------------------------------------------------
\* The registrations that the emitter sees, oldest first.

Regs == Emitter!Registrations

ById == {p \in Regs \X Regs : p[1].id < p[2].id}

RegsOf(T) == {RegistrationOf(id) : id \in T}

Mine(e) == ToSet(table) \cap OfEvent(e)

\* The entries of its event that an emission has not reached.
Due(frame) ==
  {frame.snapshot[k] : k \in frame.next..Len(frame.snapshot)} \cap OfEvent(frame.event)

LEMMA ByIdIsStrict == Asymmetric(ById)
<1>1. \A r \in Regs : r.id \in Nat
  BY NodeEventsAssumption DEF Regs, Emitter!Registrations, EntryIds
<1> QED BY <1>1 DEF Asymmetric, ById

LEMMA RegistrationParts ==
  ASSUME TypeOK, NEW id \in DOMAIN entries
  PROVE  /\ RegistrationOf(id) \in Regs
         /\ RegistrationOf(id).id = id
         /\ RegistrationOf(id).listener = entries[id].listener
         /\ RegistrationOf(id).once = entries[id].once
<1>1. id \in EntryIds /\ entries[id].listener \in Listeners /\ entries[id].once \in BOOLEAN
  BY EntryParts
<1> QED BY <1>1 DEF RegistrationOf, Regs, Emitter!Registrations

LEMMA RegistrationsShape ==
  ASSUME NEW n \in Nat, NEW ids, DOMAIN ids = 1..n, NEW T, \A k \in 1..n : ids[k] \in T
  PROVE  /\ Registrations(ids) \in Seq(RegsOf(T))
         /\ DOMAIN Registrations(ids) = 1..n
         /\ \A k \in 1..n : Registrations(ids)[k] = RegistrationOf(ids[k])
<1>1. Registrations(ids) = [k \in 1..n |-> RegistrationOf(ids[k])]
  BY DEF Registrations
<1>2. \A k \in 1..n : RegistrationOf(ids[k]) \in RegsOf(T)
  BY DEF RegsOf
<1>3. PICK s : s = [k \in 1..n |-> RegistrationOf(ids[k])]
  OBVIOUS
<1>4. /\ s \in [1..n -> RegsOf(T)] /\ DOMAIN s = 1..n
      /\ \A k \in 1..n : s[k] = RegistrationOf(ids[k])
  BY <1>2, <1>3
<1>5. s \in Seq(RegsOf(T))
  BY <1>4
<1> QED BY <1>1, <1>3, <1>4, <1>5

LEMMA RegistrationsList ==
  ASSUME TypeOK, NEW T \in SUBSET DOMAIN entries, NEW ids, Lists(ids, T, Oldest)
  PROVE  Lists(Registrations(ids), RegsOf(T), ById)
<1>1. PICK n \in Nat : n = Len(ids) /\ DOMAIN ids = 1..n
  BY ListShape
<1>2. \A k \in 1..n : ids[k] \in T
  BY <1>1, ListShape
<1>3. PICK s : s = Registrations(ids)
  OBVIOUS
<1>4. s \in Seq(RegsOf(T)) /\ DOMAIN s = 1..n /\ \A k \in 1..n : s[k] = RegistrationOf(ids[k])
  BY <1>1, <1>2, <1>3, RegistrationsShape
<1>5. \A r \in RegsOf(T) : \E k \in DOMAIN s : s[k] = r
  <2> SUFFICES ASSUME NEW r \in RegsOf(T) PROVE \E k \in DOMAIN s : s[k] = r
    OBVIOUS
  <2>1. PICK id \in T : r = RegistrationOf(id)
    BY DEF RegsOf
  <2>2. PICK k \in DOMAIN ids : ids[k] = id
    BY ListShape
  <2> QED BY <1>1, <1>4, <2>1, <2>2
<1>6. ASSUME NEW j \in DOMAIN s, NEW k \in DOMAIN s, j < k PROVE <<s[j], s[k]>> \in ById
  <2>1. PICK a, b : a = ids[j] /\ b = ids[k]
    OBVIOUS
  <2>2. a \in DOMAIN entries /\ b \in DOMAIN entries
    BY <1>2, <1>4, <2>1
  <2>3. a < b
    <3>1. <<a, b>> \in Oldest
      BY <1>1, <1>4, <1>6, <2>1, ListShape
    <3> QED BY <3>1 DEF Oldest
  <2>4. PICK p, q : p = RegistrationOf(a) /\ q = RegistrationOf(b)
    OBVIOUS
  <2>5. p \in Regs /\ q \in Regs /\ p.id = a /\ q.id = b
    BY <2>2, <2>4, RegistrationParts
  <2>6. <<p, q>> \in ById
    BY <2>3, <2>5 DEF ById
  <2> QED BY <1>4, <2>1, <2>4, <2>6
<1>7. Lists(s, RegsOf(T), ById)
  BY <1>4, <1>5, <1>6 DEF Lists, Ordered
<1> QED BY <1>3, <1>7

TableLists ==
  \A e \in Events : Lists(Registrations(Registered(e)), RegsOf(Mine(e)), ById)

StackLists ==
  \A i \in DOMAIN stack : Lists(PendingOf(stack[i]), RegsOf(Due(stack[i])), ById)

LEMMA ListsOfTable == TableInv => TableLists
<1> SUFFICES ASSUME TableInv, NEW e \in Events
             PROVE  Lists(Registrations(Registered(e)), RegsOf(Mine(e)), ById)
  BY DEF TableLists
<1>1. TypeOK /\ Lists(table, ToSet(table), Oldest)
  BY DEF TableInv
<1>2. Lists(Registered(e), Mine(e), Oldest)
  BY <1>1, SelectedLists DEF Registered, Mine
<1>3. Mine(e) \in SUBSET DOMAIN entries
  BY DEF Mine, OfEvent
<1> QED BY <1>1, <1>2, <1>3, RegistrationsList

LEMMA PendingList ==
  ASSUME TypeOK, NEW frame, Walk(frame)
  PROVE  Lists(PendingOf(frame), RegsOf(Due(frame)), ById)
<1>1. PICK n \in Nat : n = Len(frame.snapshot)
  BY DEF Walk
<1>2. PICK T : T = {frame.snapshot[k] : k \in frame.next..n}
  OBVIOUS
<1>3. PICK rest : rest = SubSeq(frame.snapshot, frame.next, n)
  OBVIOUS
<1>4. Lists(rest, T, Oldest)
  BY <1>1, <1>2, <1>3, SuffixLists DEF Walk
<1>5. PICK S : S = OfEvent(frame.event)
  OBVIOUS
<1>6. Lists(Selected(rest, S), T \cap S, Oldest)
  BY <1>4, SelectedLists
<1>7. T \cap S \in SUBSET DOMAIN entries
  BY <1>5 DEF OfEvent
<1>8. Lists(Registrations(Selected(rest, S)), RegsOf(T \cap S), ById)
  BY <1>6, <1>7, RegistrationsList
<1> QED BY <1>1, <1>2, <1>3, <1>5, <1>8 DEF PendingOf, Due

LEMMA ListsOfStack == TableInv => StackLists
  BY PendingList DEF TableInv, StackLists

LEMMA NextLists ==
  ASSUME TableInv'
  PROVE  /\ \A e \in Events : Lists(Registrations(Registered(e))', RegsOf(Mine(e))', ById)
         /\ \A i \in DOMAIN stack' : Lists(PendingOf(stack[i])', RegsOf(Due(stack[i]))', ById)
<1>0. TableInv'
  OBVIOUS
<1>1. TableLists'
  BY <1>0, ListsOfTable, PTL
<1>2. StackLists'
  BY <1>0, ListsOfStack, PTL
<1> QED BY <1>1, <1>2 DEF TableLists, StackLists

-----------------------------------------------------------------------------
\* What a step makes of the registrations and of the emissions.

\* The value v at position i of f.
Holds(f, i, v) == f[i] = v

\* What the entries say stays what it was.
SameEntries ==
  /\ DOMAIN entries \subseteq DOMAIN entries'
  /\ \A id \in DOMAIN entries :
       /\ entries'[id].event = entries[id].event
       /\ entries'[id].listener = entries[id].listener
       /\ entries'[id].once = entries[id].once

LEMMA KeptAreSame ==
  ASSUME TypeOK, KeptEntries
  PROVE  SameEntries /\ DOMAIN entries' = DOMAIN entries
<1>1. entries \in Seq(Entries) /\ entries' \in Seq(Entries) /\ Len(entries') = Len(entries)
  BY DEF TypeOK, KeptEntries
<1>2. DOMAIN entries' = DOMAIN entries
  BY <1>1
<1> QED BY <1>2 DEF KeptEntries, SameEntries

LEMMA RegistrationStays ==
  ASSUME SameEntries, NEW id \in DOMAIN entries
  PROVE  RegistrationOf(id)' = RegistrationOf(id)
  BY DEF SameEntries, RegistrationOf

LEMMA RegsStay ==
  ASSUME SameEntries, NEW T \in SUBSET DOMAIN entries
  PROVE  RegsOf(T)' = RegsOf(T)
<1>1. \A id \in T : RegistrationOf(id)' = RegistrationOf(id)
  BY RegistrationStays
<1> QED BY <1>1 DEF RegsOf

LEMMA OfEventStays ==
  ASSUME SameEntries, NEW e
  PROVE  OfEvent(e)' \cap DOMAIN entries = OfEvent(e)
  BY DEF SameEntries, OfEvent

LEMMA DueStays ==
  ASSUME SameEntries, NEW frame, Walk(frame)
  PROVE  /\ Due(frame)' = Due(frame)
         /\ Due(frame) \subseteq DOMAIN entries
         /\ RegsOf(Due(frame))' = RegsOf(Due(frame))
<1>1. /\ frame.snapshot \in Seq(DOMAIN entries)
      /\ frame.next \in 1..(Len(frame.snapshot) + 1)
  BY DEF Walk
<1>2. PICK n \in Nat : n = Len(frame.snapshot) /\ DOMAIN frame.snapshot = 1..n
  BY <1>1
<1>3. PICK T : T = {frame.snapshot[k] : k \in frame.next..n}
  OBVIOUS
<1>4. T \subseteq DOMAIN entries
  <2>1. \A k \in frame.next..n : k \in 1..n
    BY <1>1, <1>2
  <2>2. \A k \in 1..n : frame.snapshot[k] \in DOMAIN entries
    BY <1>1, <1>2
  <2> QED BY <1>3, <2>1, <2>2
<1>5. PICK e : e = frame.event
  OBVIOUS
<1>6. Due(frame) = T \cap OfEvent(e)
  BY <1>2, <1>3, <1>5 DEF Due
<1>7. Due(frame)' = T \cap OfEvent(e)'
  BY <1>2, <1>3, <1>5 DEF Due
<1>8. Due(frame)' = Due(frame) /\ Due(frame) \subseteq DOMAIN entries
  BY <1>4, <1>6, <1>7, OfEventStays
<1>9. PICK D : D = Due(frame)
  OBVIOUS
<1>10. D \in SUBSET DOMAIN entries
  BY <1>8, <1>9
<1>11. RegsOf(D)' = RegsOf(D)
  BY <1>10, RegsStay
<1>12. RegsOf(Due(frame))' = RegsOf(D)'
  BY <1>8, <1>9 DEF RegsOf
<1> QED BY <1>8, <1>9, <1>11, <1>12

(* An emission has before it what its frame says, before and after a step. *)
LEMMA PendingStays ==
  ASSUME TableInv, TableInv', SameEntries,
         NEW i \in DOMAIN stack', NEW f, f = stack'[i], Walk(f)
  PROVE  Holds(Emissions', i, CallOf(f))
<1>1. Lists(PendingOf(stack[i])', RegsOf(Due(stack[i]))', ById)
  BY NextLists
<1>2. RegsOf(Due(stack[i]))' = RegsOf(Due(f))'
  BY DEF RegsOf, Due
<1>3. RegsOf(Due(f))' = RegsOf(Due(f))
  BY DueStays
<1>4. Lists(PendingOf(f), RegsOf(Due(f)), ById)
  BY PendingList DEF TableInv
<1>5. PICK p, q : p = PendingOf(stack[i])' /\ q = PendingOf(f)
  OBVIOUS
<1>6. PICK T : T = RegsOf(Due(f))
  OBVIOUS
<1>7. Lists(p, T, ById) /\ Lists(q, T, ById)
  BY <1>1, <1>2, <1>3, <1>4, <1>5, <1>6
<1>8. p = q
  BY <1>7, ByIdIsStrict, SameList
<1>9. CallOf(stack[i])' = [event |-> f.event, pending |-> p, running |-> f.running]
  BY <1>5 DEF CallOf
<1>10. CallOf(f) = [event |-> f.event, pending |-> p, running |-> f.running]
  BY <1>5, <1>8 DEF CallOf
<1>11. Emissions'[i] = CallOf(stack[i])'
  BY DEF Emissions, CallsOf
<1>12. Emissions'[i] = CallOf(f)
  BY <1>9, <1>10, <1>11
<1> QED BY <1>12 DEF Holds

LEMMA EmissionsNext ==
  ASSUME TableInv, TableInv', SameEntries,
         NEW c, c = stack', \A i \in DOMAIN c : Walk(c[i])
  PROVE  Emissions' = CallsOf(c)
<1>1. PICK d : d = Emissions'
  OBVIOUS
<1>2. d = [i \in DOMAIN c |-> d[i]]
  BY <1>1 DEF Emissions, CallsOf
<1>3. ASSUME NEW i \in DOMAIN c PROVE d[i] = CallOf(c[i])
  <2>1. Holds(Emissions', i, CallOf(c[i]))
    BY PendingStays
  <2> QED BY <1>1, <2>1 DEF Holds
<1>4. d = [i \in DOMAIN c |-> CallOf(c[i])]
  BY <1>2, <1>3
<1> QED BY <1>1, <1>4 DEF CallsOf

\* The shapes of the stack of emissions, in terms of the frames.

LEMMA CallsShape ==
  ASSUME NEW S, NEW c \in Seq(S)
  PROVE  /\ CallsOf(c) \in Seq({CallOf(f) : f \in S})
         /\ Len(CallsOf(c)) = Len(c) /\ DOMAIN CallsOf(c) = DOMAIN c
         /\ \A i \in DOMAIN c : CallsOf(c)[i] = CallOf(c[i])
<1>1. PICK n \in Nat : n = Len(c) /\ DOMAIN c = 1..n
  OBVIOUS
<1>2. PICK d : d = CallsOf(c)
  OBVIOUS
<1>3. d = [i \in 1..n |-> CallOf(c[i])]
  BY <1>1, <1>2 DEF CallsOf
<1>4. DOMAIN d = 1..n /\ \A i \in 1..n : d[i] = CallOf(c[i])
  BY <1>3
<1>5. PICK X : X = {CallOf(f) : f \in S}
  OBVIOUS
<1>6. \A i \in 1..n : d[i] \in X
  BY <1>1, <1>4, <1>5
<1>7. d \in [1..n -> X]
  BY <1>3, <1>4, <1>6
<1>8. d \in Seq(X) /\ Len(d) = n
  BY <1>7
<1> QED BY <1>1, <1>2, <1>4, <1>5, <1>8

LEMMA CallsHead ==
  ASSUME NEW S, NEW c \in Seq(S), c # <<>>
  PROVE  CallsOf(c) # <<>> /\ Head(CallsOf(c)) = CallOf(Head(c))
<1>1. PICK n \in Nat \ {0} : n = Len(c) /\ DOMAIN c = 1..n
  BY EmptySeq
<1>2. PICK d : d = CallsOf(c)
  OBVIOUS
<1>3. PICK X : X = {CallOf(f) : f \in S}
  OBVIOUS
<1>4. d \in Seq(X) /\ Len(d) = n /\ \A i \in 1..n : d[i] = CallOf(c[i])
  BY <1>1, <1>2, <1>3, CallsShape
<1>5. d # <<>> /\ Head(d) = d[1] /\ Head(c) = c[1] /\ 1 \in 1..n
  BY <1>1, <1>4
<1> QED BY <1>2, <1>4, <1>5

LEMMA CallsEmpty == CallsOf(<<>>) = <<>>
  BY DEF CallsOf

LEMMA CallsPush ==
  ASSUME NEW S, NEW s \in Seq(S), NEW f \in S
  PROVE  CallsOf(<<f>> \o s) = <<CallOf(f)>> \o CallsOf(s)
<1>1. PICK n \in Nat : n = Len(s) /\ DOMAIN s = 1..n
  OBVIOUS
<1>2. PICK c : c = <<f>> \o s
  OBVIOUS
<1>3. /\ c \in Seq(S) /\ Len(c) = n + 1 /\ DOMAIN c = 1..(n + 1)
      /\ c[1] = f /\ \A i \in 1..n : c[i + 1] = s[i]
  BY <1>1, <1>2, PushShape
<1>4. PICK X : X = {CallOf(g) : g \in S}
  OBVIOUS
<1>5. PICK d, t, x : d = CallsOf(c) /\ t = CallsOf(s) /\ x = CallOf(f)
  OBVIOUS
<1>6. d \in Seq(X) /\ Len(d) = n + 1 /\ \A i \in 1..(n + 1) : d[i] = CallOf(c[i])
  BY <1>3, <1>4, <1>5, CallsShape
<1>7. t \in Seq(X) /\ Len(t) = n /\ \A i \in 1..n : t[i] = CallOf(s[i])
  BY <1>1, <1>4, <1>5, CallsShape
<1>8. x \in X
  BY <1>4, <1>5
<1>9. PICK e : e = <<x>> \o t
  OBVIOUS
<1>10. /\ e \in Seq(X) /\ Len(e) = n + 1 /\ e[1] = x
       /\ \A i \in 1..n : e[i + 1] = t[i]
  BY <1>7, <1>8, <1>9, PushShape
<1>11. ASSUME NEW i \in 1..(n + 1) PROVE d[i] = e[i]
  <2>1. CASE i = 1
    BY <1>3, <1>5, <1>6, <1>10, <2>1
  <2>2. CASE i # 1
    <3>1. i - 1 \in 1..n /\ (i - 1) + 1 = i
      BY <2>2
    <3>2. c[i] = s[i - 1] /\ e[i] = t[i - 1]
      BY <1>3, <1>10, <3>1
    <3>3. d[i] = CallOf(c[i]) /\ t[i - 1] = CallOf(s[i - 1])
      BY <1>6, <1>7, <3>1
    <3> QED BY <3>2, <3>3
  <2> QED BY <2>1, <2>2
<1>12. d = e
  BY <1>6, <1>10, <1>11, SeqEqual
<1> QED BY <1>2, <1>5, <1>9, <1>12

LEMMA CallsTail ==
  ASSUME NEW S, NEW s \in Seq(S), s # <<>>
  PROVE  CallsOf(Tail(s)) = Tail(CallsOf(s))
<1>1. PICK n \in Nat \ {0} : n = Len(s) /\ DOMAIN s = 1..n
  BY EmptySeq
<1>2. PICK c : c = Tail(s)
  OBVIOUS
<1>3. /\ c \in Seq(S) /\ Len(c) = n - 1 /\ DOMAIN c = 1..(n - 1)
      /\ \A i \in 1..(n - 1) : c[i] = s[i + 1]
  BY <1>1, <1>2, PopShape
<1>4. PICK X : X = {CallOf(g) : g \in S}
  OBVIOUS
<1>5. PICK d, t : d = CallsOf(c) /\ t = CallsOf(s)
  OBVIOUS
<1>6. d \in Seq(X) /\ Len(d) = n - 1 /\ \A i \in 1..(n - 1) : d[i] = CallOf(c[i])
  BY <1>3, <1>4, <1>5, CallsShape
<1>7. t \in Seq(X) /\ Len(t) = n /\ \A i \in 1..n : t[i] = CallOf(s[i])
  BY <1>1, <1>4, <1>5, CallsShape
<1>8. t # <<>>
  BY <1>1, <1>7
<1>9. PICK e : e = Tail(t)
  OBVIOUS
<1>10. e \in Seq(X) /\ Len(e) = n - 1 /\ \A i \in 1..(n - 1) : e[i] = t[i + 1]
  BY <1>7, <1>8, <1>9, PopShape
<1>11. ASSUME NEW i \in 1..(n - 1) PROVE d[i] = e[i]
  <2>1. i + 1 \in 1..n
    OBVIOUS
  <2>2. d[i] = CallOf(c[i]) /\ c[i] = s[i + 1] /\ e[i] = t[i + 1] /\ t[i + 1] = CallOf(s[i + 1])
    BY <1>3, <1>6, <1>7, <1>10, <2>1
  <2> QED BY <2>2
<1>12. d = e
  BY <1>6, <1>10, <1>11, SeqEqual
<1> QED BY <1>2, <1>5, <1>9, <1>12

(* The list of a name is the one way to list its registrations. *)
LEMMA ListNow ==
  ASSUME TableInv, NEW e \in Events
  PROVE  Lists(EventLists[e], RegsOf(Mine(e)), ById)
  BY ListsOfTable DEF TableLists, EventLists

LEMMA ListNext ==
  ASSUME TableInv', NEW e \in Events, NEW s, Lists(s, RegsOf(Mine(e))', ById)
  PROVE  Holds(EventLists', e, s)
<1>1. Lists(Registrations(Registered(e))', RegsOf(Mine(e))', ById)
  BY NextLists
<1>2. PICK t : t = Registrations(Registered(e))'
  OBVIOUS
<1>3. PICK T : T = RegsOf(Mine(e))'
  OBVIOUS
<1>4. Lists(s, T, ById) /\ Lists(t, T, ById)
  BY <1>1, <1>2, <1>3
<1>5. t = s
  BY <1>4, ByIdIsStrict, SameList
<1>6. EventLists'[e] = t
  BY <1>2 DEF EventLists
<1> QED BY <1>5, <1>6 DEF Holds

LEMMA ListStays ==
  ASSUME TableInv, TableInv', NEW e \in Events, RegsOf(Mine(e))' = RegsOf(Mine(e))
  PROVE  Holds(EventLists', e, EventLists[e])
<1>1. PICK s : s = EventLists[e]
  OBVIOUS
<1>2. Lists(s, RegsOf(Mine(e)), ById)
  BY <1>1, ListNow
<1>3. Holds(EventLists', e, s)
  BY <1>2, ListNext
<1> QED BY <1>1, <1>3

LEMMA ListsStay ==
  ASSUME \A f \in Events : Holds(EventLists', f, EventLists[f])
  PROVE  EventLists' = EventLists
<1>1. PICK k, l : k = EventLists /\ l = EventLists'
  OBVIOUS
<1>2. k = [f \in Events |-> k[f]] /\ l = [f \in Events |-> l[f]]
  BY <1>1 DEF EventLists
<1>3. \A f \in Events : l[f] = k[f]
  BY <1>1 DEF Holds
<1>4. k = l
  BY <1>2, <1>3
<1> QED BY <1>1, <1>4

LEMMA ListsChange ==
  ASSUME NEW e \in Events, NEW s, Holds(EventLists', e, s),
         \A f \in Events : f # e => Holds(EventLists', f, EventLists[f])
  PROVE  EventLists' = [EventLists EXCEPT ![e] = s]
<1>1. PICK k, l, m : k = EventLists /\ l = EventLists' /\ m = [k EXCEPT ![e] = s]
  OBVIOUS
<1>2. k = [f \in Events |-> k[f]] /\ l = [f \in Events |-> l[f]]
  BY <1>1 DEF EventLists
<1>3. m = [f \in Events |-> IF f = e THEN s ELSE k[f]]
  BY <1>1, <1>2
<1>4. \A f \in Events : l[f] = IF f = e THEN s ELSE k[f]
  BY <1>1 DEF Holds
<1>5. l = m
  BY <1>2, <1>3, <1>4
<1> QED BY <1>1, <1>5

(* The registrations of a name, after a step that adds none. *)
LEMMA KeptMine ==
  ASSUME TableInv, KeptEntries, ToSet(table') \subseteq ToSet(table), NEW e
  PROVE  /\ Mine(e)' = ToSet(table') \cap OfEvent(e)
         /\ RegsOf(Mine(e))' = RegsOf(ToSet(table') \cap OfEvent(e))
<1>1. TypeOK
  BY DEF TableInv
<1>2. SameEntries /\ DOMAIN entries' = DOMAIN entries
  BY <1>1, KeptAreSame
<1>3. OfEvent(e)' = OfEvent(e)
  BY <1>2, OfEventStays DEF OfEvent
<1>4. PICK T : T = ToSet(table') \cap OfEvent(e)
  OBVIOUS
<1>5. T \in SUBSET DOMAIN entries /\ Mine(e)' = T
  BY <1>3, <1>4 DEF Mine, OfEvent
<1>6. RegsOf(T)' = RegsOf(T)
  BY <1>2, <1>5, RegsStay
<1>7. RegsOf(Mine(e))' = RegsOf(T)'
  BY <1>5 DEF RegsOf
<1> QED BY <1>4, <1>5, <1>6, <1>7

LEMMA KeptLists ==
  ASSUME TableInv, TableInv', KeptEntries, table' = table
  PROVE  EventLists' = EventLists
<1>1. \A f \in Events : Holds(EventLists', f, EventLists[f])
  <2> SUFFICES ASSUME NEW f \in Events PROVE Holds(EventLists', f, EventLists[f])
    OBVIOUS
  <2>1. RegsOf(Mine(f))' = RegsOf(Mine(f))
    BY KeptMine DEF Mine
  <2> QED BY <2>1, ListStays
<1> QED BY <1>1, ListsStay

(* The registrations of a name, after one was added. *)
LEMMA OnRegs ==
  ASSUME TableInv, NEW e \in Events, NEW l \in Listeners, NEW once \in BOOLEAN,
         On(e, l, once), NEW r,
         r = [id |-> Len(entries) + 1, listener |-> l, once |-> once]
  PROVE  /\ RegsOf(Mine(e))' = RegsOf(Mine(e)) \union {r}
         /\ \A f \in Events : f # e => RegsOf(Mine(f))' = RegsOf(Mine(f))
         /\ SameEntries
<1>1. TypeOK
  BY DEF TableInv
<1>2. PICK m \in Nat : m = Len(entries) + 1
  BY <1>1, TableParts
<1>3. /\ m \notin DOMAIN entries
      /\ DOMAIN entries' = DOMAIN entries \union {m}
      /\ \A id \in DOMAIN entries : entries'[id] = entries[id]
      /\ entries'[m].event = e /\ entries'[m].listener = l /\ entries'[m].once = once
      /\ ToSet(table') = ToSet(table) \union {m}
  BY <1>2, OnShape
<1>4. SameEntries
  BY <1>3 DEF SameEntries
<1>5. RegistrationOf(m)' = r
  BY <1>2, <1>3 DEF RegistrationOf
<1>6. OfEvent(e)' = OfEvent(e) \union {m} /\ \A f \in Events : f # e => OfEvent(f)' = OfEvent(f)
  BY <1>3 DEF OfEvent
<1>7. Mine(e)' = Mine(e) \union {m}
  BY <1>3, <1>6 DEF Mine, OfEvent
<1>8. \A f \in Events : f # e => Mine(f)' = Mine(f)
  BY <1>3, <1>6 DEF Mine, OfEvent
<1>9. \A f \in Events : Mine(f) \subseteq DOMAIN entries
  BY DEF Mine, OfEvent
<1>10. \A T \in SUBSET DOMAIN entries : RegsOf(T)' = RegsOf(T)
  BY <1>4, RegsStay
<1>11. RegsOf(Mine(e))' = RegsOf(Mine(e)) \union {r}
  <2>1. PICK T : T = Mine(e)
    OBVIOUS
  <2>2. RegsOf(Mine(e))' = {RegistrationOf(id)' : id \in T \union {m}}
    BY <1>7, <2>1 DEF RegsOf
  <2>3. RegsOf(T)' = {RegistrationOf(id)' : id \in T}
    BY DEF RegsOf
  <2>4. RegsOf(T)' = RegsOf(T)
    BY <1>9, <1>10, <2>1
  <2>5. {RegistrationOf(id)' : id \in T \union {m}}
          = {RegistrationOf(id)' : id \in T} \union {RegistrationOf(m)'}
    OBVIOUS
  <2> QED BY <1>5, <2>1, <2>2, <2>3, <2>4, <2>5
<1>12. \A f \in Events : f # e => RegsOf(Mine(f))' = RegsOf(Mine(f))
  <2> SUFFICES ASSUME NEW f \in Events, f # e PROVE RegsOf(Mine(f))' = RegsOf(Mine(f))
    OBVIOUS
  <2>1. PICK T : T = Mine(f)
    OBVIOUS
  <2>2. RegsOf(Mine(f))' = RegsOf(T)'
    BY <1>8, <2>1 DEF RegsOf
  <2> QED BY <1>9, <1>10, <2>1, <2>2
<1> QED BY <1>4, <1>11, <1>12

-----------------------------------------------------------------------------
\* The names of the table, in the order of their keys.

Present == {entries[id].event : id \in ToSet(table)}

NameOrder ==
  {p \in Events \X Events :
     \E i, j \in ToSet(table) : /\ entries[i].event = p[1]
                                /\ entries[j].event = p[2]
                                /\ KeyBelow(SortKey(i), SortKey(j))}

Keys == {SortKey(id) : id \in ToSet(table)}

SomeKeys == (0..1) \X Nat

KeyOrder == {p \in SomeKeys \X SomeKeys : KeyBelow(p[1], p[2])}

LEMMA KeyOrderIsStrict == Asymmetric(KeyOrder)
<1> SUFFICES ASSUME NEW x, NEW y, <<x, y>> \in KeyOrder, <<y, x>> \in KeyOrder
             PROVE  FALSE
  BY DEF Asymmetric
<1>1. x \in SomeKeys /\ y \in SomeKeys /\ KeyBelow(x, y) /\ KeyBelow(y, x)
  BY DEF KeyOrder
<1>2. x[1] \in Nat /\ x[2] \in Nat /\ y[1] \in Nat /\ y[2] \in Nat
  BY <1>1 DEF SomeKeys
<1> QED BY <1>1, <1>2 DEF KeyBelow

LEMMA TableEntries ==
  ASSUME TableInv, NEW id \in ToSet(table)
  PROVE  /\ id \in DOMAIN entries /\ id \in Nat /\ entries[id].event \in Events
         /\ entries[id].order \in Nat
         /\ SortKey(id) \in SomeKeys
<1>1. id \in DOMAIN entries
  BY TableParts DEF TableInv
<1>2. id \in Nat /\ entries[id].event \in Events /\ entries[id].order \in Nat
  BY <1>1, EntryParts DEF TableInv
<1>3. entries[id].event \in DOMAIN IntegerValue => IntegerValue[entries[id].event] \in Nat
  BY NodeEventsAssumption DEF Injection
<1> QED BY <1>1, <1>2, <1>3 DEF SortKey, SomeKeys

(* Two entries have one key if and only if they are of one event. *)
LEMMA SameKey ==
  ASSUME TableInv, NEW i \in ToSet(table), NEW j \in ToSet(table)
  PROVE  SortKey(i) = SortKey(j) <=> entries[i].event = entries[j].event
<1>1. PICK e, f : e = entries[i].event /\ f = entries[j].event
  OBVIOUS
<1>2. PICK a, b : a = entries[i].order /\ b = entries[j].order
  OBVIOUS
<1>3. a = b <=> e = f
  BY <1>1, <1>2 DEF TableInv
<1>4. \A x, y \in DOMAIN IntegerValue : IntegerValue[x] = IntegerValue[y] => x = y
  BY NodeEventsAssumption DEF Injection, IsInjective
<1>5. /\ SortKey(i) = IF e \in DOMAIN IntegerValue THEN <<0, IntegerValue[e]>> ELSE <<1, a>>
      /\ SortKey(j) = IF f \in DOMAIN IntegerValue THEN <<0, IntegerValue[f]>> ELSE <<1, b>>
  BY <1>1, <1>2 DEF SortKey
<1> QED BY <1>1, <1>3, <1>4, <1>5

LEMMA NameOrderIsStrict == TableInv => Asymmetric(NameOrder)
<1> SUFFICES ASSUME TableInv, NEW x, NEW y, <<x, y>> \in NameOrder, <<y, x>> \in NameOrder
             PROVE  FALSE
  BY DEF Asymmetric
<1>1. PICK a, b \in ToSet(table) : /\ entries[a].event = x /\ entries[b].event = y
                                   /\ KeyBelow(SortKey(a), SortKey(b))
  BY DEF NameOrder
<1>2. PICK c, d \in ToSet(table) : /\ entries[c].event = y /\ entries[d].event = x
                                   /\ KeyBelow(SortKey(c), SortKey(d))
  BY DEF NameOrder
<1>3. SortKey(a) = SortKey(d) /\ SortKey(b) = SortKey(c)
  BY <1>1, <1>2, SameKey
<1>4. PICK p, q : p = SortKey(a) /\ q = SortKey(b)
  OBVIOUS
<1>5. p \in SomeKeys /\ q \in SomeKeys
  BY <1>4, TableEntries
<1>6. <<p, q>> \in KeyOrder /\ <<q, p>> \in KeyOrder
  BY <1>1, <1>2, <1>3, <1>4, <1>5 DEF KeyOrder
<1> QED BY <1>6, KeyOrderIsStrict DEF Asymmetric

\* The keys of the names of s, each taken from some entry of its name.
Witness(e) == CHOOSE id \in ToSet(table) : entries[id].event = e

KeysOf(s) == [i \in DOMAIN s |-> SortKey(Witness(s[i]))]

LEMMA Witnesses ==
  ASSUME NEW e \in Present
  PROVE  Witness(e) \in ToSet(table) /\ entries[Witness(e)].event = e
<1>1. \E id \in ToSet(table) : entries[id].event = e
  BY DEF Present
<1> QED BY <1>1 DEF Witness

LEMMA KeysListed ==
  ASSUME TableInv, NEW s, Lists(s, Present, NameOrder)
  PROVE  Lists(KeysOf(s), Keys, KeyOrder)
<1>1. PICK n \in Nat : n = Len(s) /\ DOMAIN s = 1..n
  BY ListShape
<1>2. PICK k : k = KeysOf(s)
  OBVIOUS
<1>3. DOMAIN k = 1..n /\ \A i \in 1..n : k[i] = SortKey(Witness(s[i]))
  BY <1>1, <1>2 DEF KeysOf
<1>4. \A i \in 1..n : s[i] \in Present
  BY <1>1, ListShape
<1>5. \A i \in 1..n : Witness(s[i]) \in ToSet(table) /\ entries[Witness(s[i])].event = s[i]
  BY <1>4, Witnesses
<1>6. \A i \in 1..n : k[i] \in Keys
  BY <1>3, <1>5 DEF Keys
<1>7. k \in Seq(Keys)
  <2>1. k = [i \in 1..n |-> k[i]]
    BY <1>1, <1>2 DEF KeysOf
  <2> QED BY <1>6, <2>1
<1>8. ASSUME NEW x \in Keys PROVE \E i \in DOMAIN k : k[i] = x
  <2>1. PICK id \in ToSet(table) : x = SortKey(id)
    BY DEF Keys
  <2>2. entries[id].event \in Present
    BY DEF Present
  <2>3. PICK i \in 1..n : s[i] = entries[id].event
    BY <1>1, <2>2, ListShape
  <2>4. SortKey(Witness(s[i])) = SortKey(id)
    BY <1>5, <2>3, SameKey
  <2> QED BY <1>3, <2>1, <2>3, <2>4
<1>9. ASSUME NEW i \in DOMAIN k, NEW j \in DOMAIN k, i < j PROVE <<k[i], k[j]>> \in KeyOrder
  <2>1. <<s[i], s[j]>> \in NameOrder
    BY <1>1, <1>3, <1>9, ListShape
  <2>2. PICK a, b \in ToSet(table) : /\ entries[a].event = s[i] /\ entries[b].event = s[j]
                                     /\ KeyBelow(SortKey(a), SortKey(b))
    BY <2>1 DEF NameOrder
  <2>3. k[i] = SortKey(a) /\ k[j] = SortKey(b)
    BY <1>3, <1>5, <2>2, SameKey
  <2>4. PICK p, q : p = SortKey(a) /\ q = SortKey(b)
    OBVIOUS
  <2>5. p \in SomeKeys /\ q \in SomeKeys
    BY <2>4, TableEntries
  <2>6. <<p, q>> \in KeyOrder
    BY <2>2, <2>4, <2>5 DEF KeyOrder
  <2> QED BY <2>3, <2>4, <2>6
<1>10. Lists(k, Keys, KeyOrder)
  BY <1>7, <1>8, <1>9 DEF Lists, Ordered
<1> QED BY <1>2, <1>10

(* The sorted keys are the keys of the names, however the names are listed. *)
LEMMA KeysAreSorted ==
  ASSUME TableInv, NEW s, Lists(s, Present, NameOrder)
  PROVE  SortedKeys = KeysOf(s)
<1>1. PICK n \in Nat : n = Len(s) /\ DOMAIN s = 1..n
  BY ListShape
<1>2. PICK k : k = KeysOf(s)
  OBVIOUS
<1>3. Lists(k, Keys, KeyOrder) /\ DOMAIN k = 1..n
  BY <1>1, <1>2, KeysListed DEF KeysOf
<1>4. Len(k) = n
  BY <1>3, ListShape
<1>5. IsFiniteSet(Keys) /\ Cardinality(Keys) = n
  BY <1>3, <1>4, KeyOrderIsStrict, ListedCardinality
<1>6. Keys \subseteq SomeKeys
  BY TableEntries DEF Keys
<1>7. PICK c : c = SortedKeys
  OBVIOUS
<1>8. c = CHOOSE t \in [1..n -> Keys] :
            \A i, j \in DOMAIN t : i < j => KeyBelow(t[i], t[j])
  BY <1>5, <1>7 DEF SortedKeys, Keys
<1>9. k \in [1..n -> Keys] /\ \A i, j \in DOMAIN k : i < j => KeyBelow(k[i], k[j])
  <2>1. \A i \in 1..n : k[i] \in Keys
    BY <1>3, ListShape
  <2>2. k \in [1..n -> Keys]
    BY <1>1, <1>2, <2>1 DEF KeysOf
  <2>3. \A i, j \in DOMAIN k : i < j => <<k[i], k[j]>> \in KeyOrder
    BY <1>3, ListShape
  <2> QED BY <2>2, <2>3 DEF KeyOrder
<1>10. c \in [1..n -> Keys] /\ \A i, j \in DOMAIN c : i < j => KeyBelow(c[i], c[j])
  BY <1>8, <1>9
<1>11. c \in Seq(Keys) /\ Len(c) = n /\ DOMAIN c = 1..n
  BY <1>10
<1>12. Lists(c, ToSet(c), KeyOrder)
  <2>1. ToSet(c) = {c[i] : i \in DOMAIN c}
    BY DEF ToSet
  <2>2. c \in Seq(ToSet(c))
    BY <1>10, <2>1
  <2>3. \A i, j \in DOMAIN c : i < j => <<c[i], c[j]>> \in KeyOrder
    <3>1. \A i \in DOMAIN c : c[i] \in SomeKeys
      BY <1>6, <1>10
    <3> QED BY <1>10, <3>1 DEF KeyOrder
  <2> QED BY <2>1, <2>2, <2>3 DEF Lists, Ordered
<1>13. Cardinality(ToSet(c)) = n
  BY <1>11, <1>12, KeyOrderIsStrict, ListedCardinality
<1>14. ToSet(c) \in SUBSET Keys
  BY <1>10 DEF ToSet
<1>15. ToSet(c) = Keys
  BY <1>5, <1>13, <1>14, FS_Subset
<1>16. c = k
  BY <1>3, <1>12, <1>15, KeyOrderIsStrict, SameList
<1> QED BY <1>2, <1>7, <1>16

NamesUnique == \A s : Lists(s, Present, NameOrder) => EventNames = s

LEMMA OneListOfNames == TableInv => NamesUnique
<1> SUFFICES ASSUME TableInv, NEW s, Lists(s, Present, NameOrder)
             PROVE  EventNames = s
  BY DEF NamesUnique
<1>1. PICK n \in Nat : n = Len(s) /\ DOMAIN s = 1..n
  BY ListShape
<1>2. s = [i \in 1..n |-> s[i]]
  BY <1>1, ListShape
<1>3. PICK k : k = KeysOf(s)
  OBVIOUS
<1>4. DOMAIN k = 1..n /\ \A i \in 1..n : k[i] = SortKey(Witness(s[i]))
  BY <1>1, <1>3 DEF KeysOf
<1>5. EventNames =
        [i \in DOMAIN k |->
           entries[table[Max({p \in DOMAIN table : SortKey(table[p]) = k[i]})]].event]
  BY <1>3, KeysAreSorted DEF EventNames
<1>6. ASSUME NEW i \in 1..n
      PROVE  entries[table[Max({p \in DOMAIN table : SortKey(table[p]) = k[i]})]].event = s[i]
  <2>1. PICK P : P = {p \in DOMAIN table : SortKey(table[p]) = k[i]}
    OBVIOUS
  <2>2. s[i] \in Present
    BY <1>1, ListShape
  <2>3. PICK w : w = Witness(s[i])
    OBVIOUS
  <2>4. w \in ToSet(table) /\ entries[w].event = s[i] /\ k[i] = SortKey(w)
    BY <1>4, <2>2, <2>3, Witnesses
  <2>5. PICK b \in Nat : b = Len(table) /\ DOMAIN table = 1..b
    BY TableParts DEF TableInv
  <2>6. P \in SUBSET Nat /\ P # {} /\ \A p \in P : p <= b
    <3>1. \E p \in DOMAIN table : table[p] = w
      BY <2>4, TableParts DEF TableInv
    <3> QED BY <2>1, <2>4, <2>5, <3>1
  <2>7. Max(P) \in P
    BY <2>6, MaxIs
  <2>8. PICK p : p = Max(P)
    OBVIOUS
  <2>9. p \in DOMAIN table /\ SortKey(table[p]) = SortKey(w)
    BY <2>1, <2>4, <2>7, <2>8
  <2>10. table[p] \in ToSet(table)
    BY <2>9, TableParts DEF TableInv
  <2>11. entries[table[p]].event = s[i]
    BY <2>4, <2>9, <2>10, SameKey
  <2> QED BY <2>1, <2>8, <2>11
<1>7. PICK q : q = EventNames
  OBVIOUS
<1>8. DOMAIN q = 1..n /\ \A i \in 1..n : q[i] = s[i]
  BY <1>4, <1>5, <1>6, <1>7
<1>9. q = [i \in 1..n |-> q[i]]
  BY <1>4, <1>5, <1>7
<1> QED BY <1>2, <1>7, <1>8, <1>9

LEMMA NextNames ==
  ASSUME TableInv', NEW s, Lists(s, Present', NameOrder')
  PROVE  EventNames' = s
<1>0. TableInv'
  OBVIOUS
<1>1. NamesUnique'
  BY <1>0, OneListOfNames, PTL
<1> QED BY <1>1 DEF NamesUnique

\* The operators of the emitter's module are those of this one.
LEMMA SameSelected ==
  ASSUME NEW s, NEW S
  PROVE  Emitter!Selected(s, S) = Selected(s, S)
  BY DEF Emitter!Selected, Selected

LEMMA SameExtremes ==
  ASSUME NEW S
  PROVE  Emitter!Max(S) = Max(S) /\ Emitter!Min(S) = Min(S)
  BY DEF Emitter!Max, Max, Emitter!Min, Min

LEMMA SameSequenceOperators ==
  ASSUME NEW s, NEW x
  PROVE  Emitter!RemoveAt(s, x) = RemoveAt(s, x) /\ Emitter!Contains(s, x) = Contains(s, x)
  BY DEF Emitter!RemoveAt, RemoveAt, Emitter!Contains, Contains

LEMMA SameCardinality ==
  ASSUME NEW S
  PROVE  Emitter!Cardinality(S) = Cardinality(S)
  BY DEF Emitter!Cardinality, Cardinality

(* The names are listed by their keys. *)
NamesInv == Lists(EventNames, Present, NameOrder)

LEMMA KeysStay ==
  ASSUME SameEntries,
         \A id \in DOMAIN entries : entries'[id].order = entries[id].order,
         NEW id \in DOMAIN entries
  PROVE  SortKey(id)' = SortKey(id)
  BY DEF SameEntries, SortKey

(* A name is present exactly when its list is not empty. *)
LEMMA PresentNames ==
  ASSUME TableInv, NEW e \in Events
  PROVE  e \in Present <=> EventLists[e] # <<>>
<1>1. e \in Present <=> Mine(e) # {}
  BY TableEntries DEF Present, Mine, OfEvent
<1>2. Mine(e) # {} <=> RegsOf(Mine(e)) # {}
  BY DEF RegsOf
<1>3. EventLists[e] = <<>> <=> RegsOf(Mine(e)) = {}
  BY ListNow, EmptyListed
<1> QED BY <1>1, <1>2, <1>3

NonemptyLists == \A e \in Events : e \in Present <=> EventLists[e] # <<>>

LEMMA PresentNonempty == TableInv => NonemptyLists
  BY PresentNames DEF NonemptyLists

LEMMA NextPresent ==
  ASSUME TableInv'
  PROVE  \A e \in Events : e \in Present' <=> EventLists'[e] # <<>>
<1>0. TableInv'
  OBVIOUS
<1>1. NonemptyLists'
  BY <1>0, PresentNonempty, PTL
<1> QED BY <1>1 DEF NonemptyLists

(* Entries that leave take with them the names of which none is left. *)
LEMMA FewerNames ==
  ASSUME TableInv, TableInv', NamesInv, KeptEntries, ToSet(table') \subseteq ToSet(table)
  PROVE  /\ EventNames' = Selected(EventNames, {e \in Events : EventLists'[e] # <<>>})
         /\ Lists(EventNames', Present', NameOrder')
         /\ table' = table => EventNames' = EventNames
<1>1. ToSet(table) \subseteq DOMAIN entries
  BY TableEntries
<1>2. /\ SameEntries
      /\ \A id \in DOMAIN entries : entries'[id].order = entries[id].order
  BY KeptAreSame DEF TableInv, KeptEntries
<1>3. \A id \in DOMAIN entries : SortKey(id)' = SortKey(id)
  BY <1>2, KeysStay
<1>4. \A id \in ToSet(table') : /\ entries'[id].event = entries[id].event
                                /\ entries[id].event \in Events
                                /\ id \in ToSet(table) /\ SortKey(id)' = SortKey(id)
  BY <1>1, <1>2, <1>3, TableEntries DEF SameEntries
<1>5. Present' = {entries[id].event : id \in ToSet(table')}
  BY <1>4 DEF Present
<1>6. Present' \subseteq Present
  BY <1>5 DEF Present
<1>7. ASSUME NEW x \in Present', NEW y \in Present', <<x, y>> \in NameOrder
      PROVE  <<x, y>> \in NameOrder'
  <2>1. PICK a, b \in ToSet(table) : /\ entries[a].event = x /\ entries[b].event = y
                                     /\ KeyBelow(SortKey(a), SortKey(b))
    BY <1>7 DEF NameOrder
  <2>2. PICK c, d \in ToSet(table') : entries[c].event = x /\ entries[d].event = y
    BY <1>5
  <2>3. SortKey(c) = SortKey(a) /\ SortKey(d) = SortKey(b)
    BY <1>4, <2>1, <2>2, SameKey
  <2>4. /\ entries'[c].event = x /\ entries'[d].event = y /\ x \in Events /\ y \in Events
        /\ KeyBelow(SortKey(c)', SortKey(d)')
    BY <1>4, <2>1, <2>2, <2>3
  <2>5. <<x, y>>[1] = x /\ <<x, y>>[2] = y /\ <<x, y>> \in Events \X Events
    BY <2>4
  <2> QED BY <2>2, <2>4, <2>5 DEF NameOrder
<1>8. PICK E : E = {e \in Events : EventLists'[e] # <<>>}
  OBVIOUS
<1>9. Present \cap E = Present'
  <2>1. Present' \subseteq Events
    BY <1>4, <1>5
  <2>2. \A e \in Events : e \in Present' <=> e \in E
    BY <1>8, NextPresent
  <2>3. E \subseteq Events
    BY <1>8
  <2> QED BY <1>6, <2>1, <2>2, <2>3
<1>10. PICK n : n = EventNames
  OBVIOUS
<1>11. Lists(n, Present, NameOrder)
  BY <1>10 DEF NamesInv
<1>12. Lists(Selected(n, E), Present', NameOrder)
  BY <1>9, <1>11, SelectedLists
<1>13. Lists(Selected(n, E), Present', NameOrder')
  BY <1>7, <1>12, Reordered
<1>14. EventNames' = Selected(n, E)
  BY <1>13, NextNames
<1>15. ASSUME table' = table PROVE EventNames' = n
  <2>1. Present' = Present
    BY <1>5, <1>15 DEF Present
  <2>2. Lists(n, Present', NameOrder')
    BY <1>7, <1>11, <2>1, Reordered
  <2> QED BY <2>2, NextNames
<1> QED BY <1>8, <1>10, <1>13, <1>14, <1>15

LEMMA OneList ==
  ASSUME NEW R, NEW x
  PROVE  Lists(<<x>>, {x}, R)
<1>1. <<x>> \in Seq({x}) /\ Len(<<x>>) = 1 /\ DOMAIN <<x>> = 1..1 /\ <<x>>[1] = x
  OBVIOUS
<1> QED BY <1>1 DEF Lists, Ordered

(* The key of a new entry: above the keys of the names it does not precede, *)
(* below the keys of the others.                                            *)
LEMMA NewKey ==
  ASSUME TableInv, NEW e \in Events, e \notin Present,
         NEW l \in Listeners, NEW once \in BOOLEAN, On(e, l, once),
         NEW m, m = Len(entries) + 1, NEW id \in ToSet(table)
  PROVE  /\ SortKey(id)' = SortKey(id)
         /\ ~Emitter!Precedes(e, entries[id].event) => KeyBelow(SortKey(id)', SortKey(m)')
         /\ Emitter!Precedes(e, entries[id].event) => KeyBelow(SortKey(m)', SortKey(id)')
<1>1. /\ entries'[id] = entries[id]
      /\ entries'[m].event = e /\ entries'[m].order = OrderFor(e)
  BY OnShape, TableEntries
<1>2. PICK f, a, b : f = entries[id].event /\ a = entries[id].order /\ b = OrderFor(e)
  OBVIOUS
<1>3. a \in Nat /\ b \in Nat /\ a < b
  <2>1. \A i \in ToSet(table) : entries[i].event # e
    BY DEF Present
  <2>2. OrderFor(e) \in 0..Len(entries) /\ entries[id].order < OrderFor(e)
    BY <2>1, OrderForIs
  <2>3. entries[id].order \in Nat
    BY TableEntries
  <2>4. Len(entries) \in Nat
    BY TableParts DEF TableInv
  <2> QED BY <1>2, <2>2, <2>3, <2>4
<1>4. f # e
  BY <1>2 DEF Present
<1>5. /\ SortKey(id)' = SortKey(id)
      /\ SortKey(id)' = IF f \in DOMAIN IntegerValue THEN <<0, IntegerValue[f]>> ELSE <<1, a>>
      /\ SortKey(m)' = IF e \in DOMAIN IntegerValue THEN <<0, IntegerValue[e]>> ELSE <<1, b>>
  BY <1>1, <1>2 DEF SortKey
<1>6. /\ \A x \in DOMAIN IntegerValue : IntegerValue[x] \in Nat
      /\ \A x, y \in DOMAIN IntegerValue : IntegerValue[x] = IntegerValue[y] => x = y
  BY NodeEventsAssumption DEF Injection, IsInjective
<1>7. Emitter!Precedes(e, f) <=>
        /\ e \in DOMAIN IntegerValue
        /\ f \in DOMAIN IntegerValue => IntegerValue[e] < IntegerValue[f]
  BY DEF Emitter!Precedes
<1>8. PICK p, q : p = SortKey(id)' /\ q = SortKey(m)'
  OBVIOUS
<1>9. CASE e \in DOMAIN IntegerValue /\ f \in DOMAIN IntegerValue
  <2>1. PICK x \in Nat, y \in Nat : x = IntegerValue[e] /\ y = IntegerValue[f]
    BY <1>6, <1>9
  <2>2. x # y
    BY <1>4, <1>6, <1>9, <2>1
  <2>3. p[1] = 0 /\ p[2] = y /\ q[1] = 0 /\ q[2] = x
    BY <1>5, <1>8, <1>9, <2>1
  <2>4. (x < y => KeyBelow(q, p)) /\ (~(x < y) => KeyBelow(p, q))
    BY <2>2, <2>3 DEF KeyBelow
  <2> QED BY <1>2, <1>5, <1>7, <1>8, <1>9, <2>1, <2>4
<1>10. CASE e \in DOMAIN IntegerValue /\ f \notin DOMAIN IntegerValue
  <2>1. p[1] = 1 /\ q[1] = 0
    BY <1>5, <1>8, <1>10
  <2>2. KeyBelow(q, p)
    BY <2>1 DEF KeyBelow
  <2> QED BY <1>2, <1>5, <1>7, <1>8, <1>10, <2>2
<1>11. CASE e \notin DOMAIN IntegerValue
  <2>1. CASE f \in DOMAIN IntegerValue
    <3>1. p[1] = 0 /\ q[1] = 1
      BY <1>5, <1>8, <1>11, <2>1
    <3>2. KeyBelow(p, q)
      BY <3>1 DEF KeyBelow
    <3> QED BY <1>2, <1>5, <1>7, <1>8, <1>11, <3>2
  <2>2. CASE f \notin DOMAIN IntegerValue
    <3>1. p[1] = 1 /\ q[1] = 1 /\ p[2] = a /\ q[2] = b
      BY <1>5, <1>8, <1>11, <2>2
    <3>2. KeyBelow(p, q)
      BY <1>3, <3>1 DEF KeyBelow
    <3> QED BY <1>2, <1>5, <1>7, <1>8, <1>11, <3>2
  <2> QED BY <2>1, <2>2
<1> QED BY <1>9, <1>10, <1>11

LEMMA NamePlaced ==
  ASSUME TableInv', NEW x \in Events, NEW y \in Events,
         NEW i \in ToSet(table'), NEW j \in ToSet(table'),
         entries'[i].event = x, entries'[j].event = y, KeyBelow(SortKey(i)', SortKey(j)')
  PROVE  <<x, y>> \in NameOrder'
<1>1. <<x, y>>[1] = x /\ <<x, y>>[2] = y /\ <<x, y>> \in Events \X Events
  OBVIOUS
<1> QED BY <1>1 DEF NameOrder

LEMMA ContainsName ==
  ASSUME TableInv, NamesInv, NEW e
  PROVE  Emitter!Contains(EventNames, e) <=> e \in Present
<1>1. PICK s : s = EventNames
  OBVIOUS
<1>2. /\ DOMAIN s = 1..Len(s) /\ \A i \in DOMAIN s : s[i] \in Present
      /\ \A x \in Present : \E i \in DOMAIN s : s[i] = x
  BY <1>1, ListShape DEF NamesInv
<1>3. Contains(s, e) <=> e \in Present
  BY <1>2 DEF Contains
<1> QED BY <1>1, <1>3, SameSequenceOperators

(* A new name takes its place among the others. *)
LEMMA OneMoreName ==
  ASSUME TableInv, TableInv', NamesInv,
         NEW e \in Events, NEW l \in Listeners, NEW once \in BOOLEAN, On(e, l, once)
  PROVE  /\ EventNames' = Emitter!WithName(e)
         /\ Lists(EventNames', Present', NameOrder')
<1>1. PICK m : m = Len(entries) + 1
  OBVIOUS
<1>2. /\ \A id \in ToSet(table) : id \in DOMAIN entries /\ entries'[id] = entries[id]
      /\ entries'[m].event = e
      /\ ToSet(table') = ToSet(table) \union {m}
  BY <1>1, OnShape, TableEntries
<1>3. Present' = Present \union {e}
  BY <1>2 DEF Present
<1>4. \A id \in ToSet(table) : SortKey(id)' = SortKey(id)
  BY <1>2 DEF SortKey
<1>5. PICK n : n = EventNames
  OBVIOUS
<1>6. Lists(n, Present, NameOrder)
  BY <1>5 DEF NamesInv
<1>7. Present \subseteq Events
  BY TableEntries DEF Present
<1>8. ASSUME NEW x \in Present, NEW y \in Present, <<x, y>> \in NameOrder
      PROVE  <<x, y>> \in NameOrder'
  <2>1. PICK a, b \in ToSet(table) : /\ entries[a].event = x /\ entries[b].event = y
                                     /\ KeyBelow(SortKey(a), SortKey(b))
    BY <1>8 DEF NameOrder
  <2>2. /\ entries'[a].event = x /\ entries'[b].event = y
        /\ KeyBelow(SortKey(a)', SortKey(b)') /\ a \in ToSet(table') /\ b \in ToSet(table')
    BY <1>2, <1>4, <2>1
  <2> QED BY <1>7, <2>2, NamePlaced
<1>9. Lists(n, Present, NameOrder')
  BY <1>6, <1>8, Reordered
<1>10. CASE e \in Present
  <2>1. Present' = Present
    BY <1>3, <1>10
  <2>2. Lists(n, Present', NameOrder')
    BY <1>9, <2>1
  <2>3. EventNames' = n
    BY <2>2, NextNames
  <2>4. Emitter!WithName(e) = n
    BY <1>5, <1>10, ContainsName DEF Emitter!WithName
  <2> QED BY <2>2, <2>3, <2>4
<1>11. CASE e \notin Present
  <2>1. PICK A, B : /\ A = {f \in Events : ~Emitter!Precedes(e, f)}
                    /\ B = {f \in Events : Emitter!Precedes(e, f)}
    OBVIOUS
  <2>2. PICK R : R = NameOrder'
    OBVIOUS
  <2>3. Lists(Selected(n, A), Present \cap A, R) /\ Lists(Selected(n, B), Present \cap B, R)
    BY <1>9, <2>2, SelectedLists
  <2>4. ASSUME NEW x \in Present
        PROVE  (x \in A => <<x, e>> \in R) /\ (x \in B => <<e, x>> \in R)
    <3>1. PICK id \in ToSet(table) : entries[id].event = x
      BY DEF Present
    <3>2. /\ x \in A => KeyBelow(SortKey(id)', SortKey(m)')
          /\ x \in B => KeyBelow(SortKey(m)', SortKey(id)')
      BY <1>1, <1>11, <2>1, <3>1, NewKey
    <3>3. entries'[id].event = x /\ entries'[m].event = e
      BY <1>2, <3>1
    <3>4. id \in ToSet(table') /\ m \in ToSet(table') /\ x \in Events
      BY <1>2, <1>7
    <3> QED BY <2>2, <3>2, <3>3, <3>4, NamePlaced
  <2>5. ASSUME NEW x \in Present \cap A, NEW y \in Present \cap B PROVE <<x, y>> \in R
    <3>1. PICK a, b \in ToSet(table) : entries[a].event = x /\ entries[b].event = y
      BY DEF Present
    <3>2. /\ KeyBelow(SortKey(a)', SortKey(m)') /\ KeyBelow(SortKey(m)', SortKey(b)')
          /\ SortKey(a)' = SortKey(a) /\ SortKey(b)' = SortKey(b)
      BY <1>1, <1>11, <2>1, <3>1, NewKey
    <3>3. PICK p, q, k : p = SortKey(a)' /\ q = SortKey(b)' /\ k = SortKey(m)'
      OBVIOUS
    <3>4. p \in SomeKeys /\ q \in SomeKeys
      BY <3>2, <3>3, TableEntries
    <3>5. k[1] \in Nat /\ k[2] \in Nat
      <4>1. OrderFor(e) \in Nat
        BY OrderForIs, TableParts DEF TableInv
      <4>2. e \in DOMAIN IntegerValue => IntegerValue[e] \in Nat
        BY NodeEventsAssumption DEF Injection
      <4>3. entries'[m].order = OrderFor(e)
        BY <1>1, OnShape
      <4> QED BY <1>2, <3>3, <4>1, <4>2, <4>3 DEF SortKey
    <3>6. KeyBelow(p, q)
      BY <3>2, <3>3, <3>4, <3>5 DEF KeyBelow, SomeKeys
    <3>7. entries'[a].event = x /\ entries'[b].event = y
      BY <1>2, <3>1
    <3>8. a \in ToSet(table') /\ b \in ToSet(table') /\ x \in Events /\ y \in Events
      BY <1>2, <1>7
    <3> QED BY <2>2, <3>3, <3>6, <3>7, <3>8, NamePlaced
  <2>6. PICK u, v : u = Selected(n, A) /\ v = Selected(n, B)
    OBVIOUS
  <2>7. PICK w : w = u \o <<e>>
    OBVIOUS
  <2>8. \A x \in Present \cap A, y \in {e} : <<x, y>> \in R
    BY <2>4
  <2>9. Lists(w, (Present \cap A) \union {e}, R)
    BY <2>3, <2>6, <2>7, <2>8, OneList, JoinedLists
  <2>10. \A x \in (Present \cap A) \union {e}, y \in Present \cap B : <<x, y>> \in R
    BY <2>4, <2>5
  <2>11. Lists(w \o v, ((Present \cap A) \union {e}) \union (Present \cap B), R)
    BY <2>3, <2>6, <2>9, <2>10, JoinedLists
  <2>12. ((Present \cap A) \union {e}) \union (Present \cap B) = Present'
    BY <1>3, <1>7, <2>1
  <2>13. Lists(w \o v, Present', R)
    BY <2>11, <2>12
  <2>14. EventNames' = w \o v
    BY <2>2, <2>13, NextNames
  <2>15. Emitter!WithName(e) = Emitter!Selected(n, A) \o <<e>> \o Emitter!Selected(n, B)
    BY <1>5, <1>11, <2>1, ContainsName DEF Emitter!WithName
  <2>16. Emitter!WithName(e) = w \o v
    BY <2>6, <2>7, <2>15, SameSelected
  <2> QED BY <2>2, <2>13, <2>14, <2>16
<1> QED BY <1>10, <1>11

-----------------------------------------------------------------------------
\* Every step of the table is a step of the emitter.

EmitterInv == TableInv /\ NamesInv

\* What a step of the table must be for the emitter, and keep.
Maps == (Emitter!Next \/ UNCHANGED Emitter!vars) /\ NamesInv'

LEMMA SameUserCode ==
  ASSUME TypeOK
  PROVE  /\ stack = <<>> <=> Emissions = <<>>
         /\ stack # <<>> => /\ Head(Emissions) = CallOf(Head(stack))
                            /\ Head(Emissions).running = Head(stack).running
                            /\ Head(Emissions).event = Head(stack).event
                            /\ Head(Emissions).pending = PendingOf(Head(stack))
                            /\ Tail(Emissions) = CallsOf(Tail(stack))
         /\ UserCode <=> Emitter!UserCode
<1>1. stack \in Seq(Frames)
  BY StackParts
<1>2. stack = <<>> => Emissions = <<>>
  BY CallsEmpty DEF Emissions
<1>3. stack # <<>> => /\ Emissions # <<>> /\ Head(Emissions) = CallOf(Head(stack))
                      /\ Tail(Emissions) = CallsOf(Tail(stack))
  BY <1>1, CallsHead, CallsTail DEF Emissions
<1>4. PICK h, p : h = CallOf(Head(stack)) /\ p = PendingOf(Head(stack))
  OBVIOUS
<1>5. h.running = Head(stack).running /\ h.event = Head(stack).event /\ h.pending = p
  BY <1>4 DEF CallOf
<1> QED BY <1>2, <1>3, <1>4, <1>5 DEF UserCode, Emitter!UserCode

LEMMA EmissionsStay ==
  ASSUME TableInv, TableInv', SameEntries, stack' = stack
  PROVE  Emissions' = Emissions
<1>1. \A i \in DOMAIN stack : Walk(stack[i])
  BY DEF TableInv
<1>2. PICK c : c = stack
  OBVIOUS
<1>3. Emissions' = CallsOf(c)
  BY <1>1, <1>2, EmissionsNext
<1> QED BY <1>2, <1>3 DEF Emissions

(* The registrations of all lists are the entries of the table. *)
LEMMA RegisteredIds ==
  ASSUME TableInv
  PROVE  Emitter!Registered = ToSet(table)
<1>1. \A id \in ToSet(table) : id \in DOMAIN entries /\ entries[id].event \in Events
  BY TableEntries
<1>2. \A id \in DOMAIN entries : RegistrationOf(id).id = id
  BY RegistrationParts DEF TableInv
<1>3. ASSUME NEW e \in Events
      PROVE  {EventLists[e][i].id : i \in DOMAIN EventLists[e]} = Mine(e)
  <2>1. PICK s : s = EventLists[e]
    OBVIOUS
  <2>2. /\ \A i \in DOMAIN s : s[i] \in RegsOf(Mine(e))
        /\ \A x \in RegsOf(Mine(e)) : \E i \in DOMAIN s : s[i] = x
    BY <2>1, ListNow, ListShape
  <2>3. Mine(e) \subseteq DOMAIN entries
    BY DEF Mine, OfEvent
  <2>4. \A i \in DOMAIN s : s[i].id \in Mine(e)
    BY <1>2, <2>2, <2>3 DEF RegsOf
  <2>5. \A id \in Mine(e) : \E i \in DOMAIN s : s[i].id = id
    <3> SUFFICES ASSUME NEW id \in Mine(e) PROVE \E i \in DOMAIN s : s[i].id = id
      OBVIOUS
    <3>1. RegistrationOf(id) \in RegsOf(Mine(e))
      BY DEF RegsOf
    <3>2. PICK i \in DOMAIN s : s[i] = RegistrationOf(id)
      BY <2>2, <3>1
    <3>3. s[i].id = id
      BY <1>2, <2>3, <3>2
    <3> QED BY <3>3
  <2> QED BY <2>1, <2>4, <2>5
<1>4. Emitter!Registered = UNION {Mine(e) : e \in Events}
  BY <1>3 DEF Emitter!Registered
<1>5. ToSet(table) = UNION {Mine(e) : e \in Events}
  BY <1>1 DEF Mine, OfEvent
<1> QED BY <1>4, <1>5

LEMMA OnMaps ==
  ASSUME EmitterInv, TableInv',
         NEW e \in Events, NEW l \in Listeners, NEW once \in BOOLEAN, On(e, l, once)
  PROVE  Maps
<1>1. TableInv /\ NamesInv /\ TypeOK
  BY DEF EmitterInv, TableInv
<1>2. PICK m : m = Len(entries) + 1
  OBVIOUS
<1>3. PICK r : r = [id |-> Len(entries) + 1, listener |-> l, once |-> once]
  OBVIOUS
<1>4. /\ RegsOf(Mine(e))' = RegsOf(Mine(e)) \union {r}
      /\ \A f \in Events : f # e => RegsOf(Mine(f))' = RegsOf(Mine(f))
      /\ SameEntries
  BY <1>1, <1>3, OnRegs
<1>5. r.id = m /\ r.listener = l /\ r.once = once /\ r \in Regs /\ m \in Nat
      /\ m \notin DOMAIN entries /\ \A id \in DOMAIN entries : id \in Nat /\ id < m
  <2>1. /\ Len(entries) \in Nat /\ Len(entries) < MaxEntries /\ MaxEntries \in Nat
        /\ DOMAIN entries = 1..Len(entries)
    BY <1>1, TableParts, NodeEventsAssumption DEF On
  <2>2. m \in 1..MaxEntries
    BY <1>2, <2>1
  <2> QED BY <1>2, <1>3, <2>1, <2>2 DEF Regs, Emitter!Registrations, EntryIds
<1>6. Emitter!Cardinality(Emitter!Registered) < MaxListeners
  <2>1. Cardinality(ToSet(table)) = Len(table)
    BY <1>1, OldestIsStrict, ListedCardinality DEF TableInv
  <2> QED BY <1>1, <2>1, RegisteredIds, SameCardinality DEF On, HasRoom
<1>7. r.id \notin Fired /\ r.id \notin Emitter!Registered
  BY <1>1, <1>5, RegisteredIds, TableEntries DEF Fired
<1>8. EventLists' = [EventLists EXCEPT ![e] = Append(@, r)]
  <2>1. PICK s, t : s = EventLists[e] /\ t = Append(s, r)
    OBVIOUS
  <2>2. Lists(s, RegsOf(Mine(e)), ById)
    BY <1>1, <2>1, ListNow
  <2>3. ASSUME NEW x \in RegsOf(Mine(e)) PROVE <<x, r>> \in ById
    <3>1. PICK id \in DOMAIN entries : x = RegistrationOf(id)
      BY DEF RegsOf, Mine, OfEvent
    <3>2. x \in Regs /\ x.id = id
      BY <1>1, <3>1, RegistrationParts
    <3> QED BY <1>5, <3>2 DEF ById
  <2>4. Lists(t, RegsOf(Mine(e))', ById)
    BY <1>4, <2>1, <2>2, <2>3, AppendLists
  <2>5. Holds(EventLists', e, t)
    BY <2>4, ListNext
  <2>6. \A f \in Events : f # e => Holds(EventLists', f, EventLists[f])
    BY <1>1, <1>4, ListStays
  <2>7. EventLists' = [EventLists EXCEPT ![e] = t]
    BY <2>5, <2>6, ListsChange
  <2> QED BY <2>1, <2>7
<1>9. EventNames' = Emitter!WithName(e) /\ NamesInv'
  BY <1>1, OneMoreName DEF NamesInv
<1>10. Emissions' = Emissions
  BY <1>1, <1>4, EmissionsStay DEF On
<1>11. Fired' = Fired
  <2>1. /\ DOMAIN entries' = DOMAIN entries \union {m}
        /\ \A id \in DOMAIN entries : entries'[id] = entries[id]
        /\ entries'[m].fired = FALSE
    BY <1>1, <1>2, OnShape
  <2> QED BY <2>1 DEF Fired
<1>12. Emitter!UserCode
  BY <1>1, SameUserCode DEF On
<1>13. Emitter!Add(e, r)
  BY <1>6, <1>7, <1>8, <1>9, <1>10, <1>11, <1>12 DEF Emitter!Add
<1>14. Emitter!Next
  BY <1>5, <1>13 DEF Emitter!Next, Regs
<1> QED BY <1>9, <1>14 DEF Maps

LEMMA RegsWithout ==
  ASSUME TypeOK, NEW T \in SUBSET DOMAIN entries, NEW id \in DOMAIN entries
  PROVE  RegsOf(T \ {id}) = RegsOf(T) \ {RegistrationOf(id)}
<1>1. \A x \in DOMAIN entries : RegistrationOf(x).id = x
  BY RegistrationParts
<1>2. \A x \in DOMAIN entries : RegistrationOf(x) = RegistrationOf(id) => x = id
  BY <1>1
<1> QED BY <1>2 DEF RegsOf

(* A step that changes only the table takes names away, and calls nothing. *)
LEMMA TableOnly ==
  ASSUME EmitterInv, TableInv', ToSet(table') \subseteq ToSet(table),
         UNCHANGED <<entries, stack>>, UserCode
  PROVE  /\ Emitter!UserCode
         /\ EventNames' = Emitter!Selected(EventNames, {e \in Events : EventLists'[e] # <<>>})
         /\ NamesInv'
         /\ UNCHANGED <<Fired, Emissions>>
         /\ \A e \in Events : RegsOf(Mine(e))' = RegsOf(ToSet(table') \cap OfEvent(e))
<1>1. TableInv /\ NamesInv /\ TypeOK
  BY DEF EmitterInv, TableInv
<1>2. KeptEntries
  BY <1>1, UnchangedEntries
<1>3. SameEntries
  BY <1>1, <1>2, KeptAreSame
<1>4. Emissions' = Emissions
  BY <1>1, <1>3, EmissionsStay
<1>5. Fired' = Fired
  BY DEF Fired
<1>6. PICK E, n : E = {e \in Events : EventLists'[e] # <<>>} /\ n = EventNames
  OBVIOUS
<1>7. EventNames' = Selected(n, E) /\ NamesInv'
  BY <1>1, <1>2, <1>6, FewerNames DEF NamesInv
<1>8. EventNames' = Emitter!Selected(n, E)
  BY <1>7, SameSelected
<1>9. \A e \in Events : RegsOf(Mine(e))' = RegsOf(ToSet(table') \cap OfEvent(e))
  BY <1>1, <1>2, KeptMine
<1> QED BY <1>1, <1>4, <1>5, <1>6, <1>7, <1>8, <1>9, SameUserCode

(* The latest match in the table is the latest in the list of its name. *)
LEMMA LatestInList ==
  ASSUME TableInv, NEW e \in Events, NEW l, Matching(e, l) # {},
         NEW s, s = EventLists[e], NEW id, id = table[LatestMatch(e, l)],
         NEW M, M = {i \in DOMAIN s : s[i].listener = l}
  PROVE  /\ id \in Mine(e)
         /\ M # {} /\ Emitter!Max(M) \in DOMAIN s
         /\ s[Emitter!Max(M)] = RegistrationOf(id)
<1>1. TypeOK
  BY DEF TableInv
<1>2. PICK k : k = LatestMatch(e, l)
  OBVIOUS
<1>3. /\ k \in DOMAIN table /\ entries[id].event = e /\ entries[id].listener = l
      /\ table[k] = id
      /\ \A z \in DOMAIN table :
           entries[table[z]].event = e /\ entries[table[z]].listener = l => z <= k
  BY <1>1, <1>2, LatestMatchIs DEF Matching
<1>4. PICK b \in Nat : b = Len(table) /\ DOMAIN table = 1..b
  BY <1>1, TableParts
<1>5. id \in Mine(e) /\ id \in DOMAIN entries
  BY <1>1, <1>3, TableParts DEF Mine, OfEvent
<1>6. PICK r : r = RegistrationOf(id)
  OBVIOUS
<1>7. r.id = id /\ r.listener = l /\ r \in RegsOf(Mine(e))
  BY <1>1, <1>3, <1>5, <1>6, RegistrationParts DEF RegsOf
<1>8. Lists(s, RegsOf(Mine(e)), ById)
  BY ListNow
<1>9. PICK n \in Nat : n = Len(s) /\ DOMAIN s = 1..n
  BY <1>8, ListShape
<1>10. PICK p \in 1..n : s[p] = r
  BY <1>7, <1>8, <1>9, ListShape
<1>11. p \in M
  BY <1>7, <1>9, <1>10
<1>12. ASSUME NEW q \in M PROVE q <= p
  <2>1. q \in 1..n /\ s[q].listener = l /\ s[q] \in RegsOf(Mine(e))
    BY <1>8, <1>9, ListShape
  <2>2. PICK x \in Mine(e) : s[q] = RegistrationOf(x)
    BY <2>1 DEF RegsOf
  <2>3. x \in DOMAIN entries /\ x \in ToSet(table) /\ entries[x].event = e
    BY DEF Mine, OfEvent
  <2>4. s[q].id = x /\ entries[x].listener = l
    BY <1>1, <2>1, <2>2, <2>3, RegistrationParts
  <2>5. PICK z \in DOMAIN table : table[z] = x
    BY <1>1, <2>3, TableParts
  <2>6. z <= k
    BY <1>3, <2>3, <2>4, <2>5
  <2>7. x \in Nat /\ id \in Nat
    BY <1>1, <1>5, <2>3, EntryParts
  <2>8. x <= id
    <3>1. CASE z < k
      <4>1. <<table[z], table[k]>> \in Oldest
        BY <1>3, <2>5, <3>1, ListShape DEF TableInv
      <4>2. <<x, id>> \in Oldest
        BY <1>3, <2>5, <4>1
      <4> QED BY <2>7, <4>2 DEF Oldest
    <3>2. CASE z = k
      BY <1>3, <2>5, <2>7, <3>2
    <3> QED BY <1>3, <1>4, <2>5, <2>6, <3>1, <3>2
  <2>9. CASE p < q
    <3>1. <<s[p], s[q]>> \in ById
      BY <1>8, <1>9, <2>1, <2>9, ListShape
    <3>2. <<s[p], s[q]>>[1] = s[p] /\ <<s[p], s[q]>>[2] = s[q]
      OBVIOUS
    <3>3. s[p].id < s[q].id
      BY <3>1, <3>2 DEF ById
    <3>4. id < x
      BY <1>7, <1>10, <2>4, <3>3
    <3> QED BY <2>7, <2>8, <3>4
  <2> QED BY <2>1, <2>9
<1>13. M \in SUBSET Nat /\ M # {} /\ \A q \in M : q <= n
  BY <1>9, <1>11
<1>14. PICK x : x = Max(M)
  OBVIOUS
<1>15. x \in M /\ p <= x
  BY <1>11, <1>13, <1>14, MaxIs
<1>16. x = p
  BY <1>9, <1>12, <1>15
<1>17. Emitter!Max(M) = p
  BY <1>14, <1>16, SameExtremes
<1> QED BY <1>5, <1>6, <1>9, <1>10, <1>13, <1>17

LEMMA RemoveListenerMaps ==
  ASSUME EmitterInv, NEW e \in Events, NEW l \in Listeners, RemoveListener(e, l)
  PROVE  Maps
<1>1. TableInv /\ NamesInv /\ TypeOK
  BY DEF EmitterInv, TableInv
<1>2. PICK id : id = table[LatestMatch(e, l)]
  OBVIOUS
<1>3. TableInv' /\ Lists(table', ToSet(table) \ {id}, Oldest)
  BY <1>1, <1>2, RemoveListenerKeeps
<1>4. PICK t : t = table'
  OBVIOUS
<1>5. ToSet(table') = ToSet(table) \ {id}
  BY <1>3, <1>4, ListedSet
<1>6. UNCHANGED <<entries, stack>> /\ UserCode /\ Matching(e, l) # {}
  BY DEF RemoveListener
<1>7. /\ Emitter!UserCode
      /\ EventNames' = Emitter!Selected(EventNames, {f \in Events : EventLists'[f] # <<>>})
      /\ NamesInv'
      /\ UNCHANGED <<Fired, Emissions>>
      /\ \A f \in Events : RegsOf(Mine(f))' = RegsOf(ToSet(table') \cap OfEvent(f))
  BY <1>3, <1>5, <1>6, TableOnly
<1>8. PICK s, M : s = EventLists[e] /\ M = {i \in DOMAIN s : s[i].listener = l}
  OBVIOUS
<1>9. PICK p : p = Emitter!Max(M)
  OBVIOUS
<1>10. id \in Mine(e) /\ M # {} /\ p \in DOMAIN s /\ s[p] = RegistrationOf(id)
  BY <1>1, <1>2, <1>6, <1>8, <1>9, LatestInList
<1>11. PICK r : r = RemoveAt(s, p)
  OBVIOUS
<1>12. Lists(r, RegsOf(Mine(e)) \ {RegistrationOf(id)}, ById)
  <2>1. Lists(s, RegsOf(Mine(e)), ById)
    BY <1>1, <1>8, ListNow
  <2>2. Lists(r, RegsOf(Mine(e)) \ {s[p]}, ById)
    BY <1>10, <1>11, <2>1, ByIdIsStrict, RemovedLists
  <2> QED BY <1>10, <2>2
<1>13. RegsOf(Mine(e))' = RegsOf(Mine(e)) \ {RegistrationOf(id)}
  <2>1. ToSet(table') \cap OfEvent(e) = Mine(e) \ {id}
    BY <1>5 DEF Mine
  <2>2. Mine(e) \in SUBSET DOMAIN entries /\ id \in DOMAIN entries
    BY <1>10 DEF Mine, OfEvent
  <2>3. RegsOf(Mine(e) \ {id}) = RegsOf(Mine(e)) \ {RegistrationOf(id)}
    BY <1>1, <2>2, RegsWithout
  <2> QED BY <1>7, <2>1, <2>3
<1>14. Holds(EventLists', e, r)
  BY <1>3, <1>12, <1>13, ListNext
<1>15. ASSUME NEW f \in Events, f # e PROVE Holds(EventLists', f, EventLists[f])
  <2>1. ToSet(table') \cap OfEvent(f) = Mine(f)
    BY <1>5, <1>10, <1>15 DEF Mine, OfEvent
  <2>2. RegsOf(Mine(f))' = RegsOf(Mine(f))
    BY <1>7, <2>1
  <2> QED BY <1>1, <1>3, <2>2, ListStays
<1>16. EventLists' = [EventLists EXCEPT ![e] = r]
  BY <1>14, <1>15, ListsChange
<1>17. PICK k : k = [EventLists EXCEPT ![e] = Emitter!RemoveAt(@, Emitter!Max(M))]
  OBVIOUS
<1>18. EventLists' = k
  BY <1>8, <1>9, <1>11, <1>16, <1>17, SameSequenceOperators
<1>19. Emitter!Leave(k)
  BY <1>7, <1>18 DEF Emitter!Leave
<1>20. Emitter!RemoveLatest(e, l)
  BY <1>7, <1>8, <1>10, <1>17, <1>19 DEF Emitter!RemoveLatest
<1> QED BY <1>7, <1>20 DEF Maps, Emitter!Next

LEMMA RemoveAllListenersMaps ==
  ASSUME EmitterInv, NEW e \in Events, RemoveAllListeners(e)
  PROVE  Maps
<1>1. TableInv /\ NamesInv /\ TypeOK
  BY DEF EmitterInv, TableInv
<1>2. TableInv' /\ Lists(table', ToSet(table) \cap (DOMAIN entries \ OfEvent(e)), Oldest)
  BY <1>1, RemoveAllListenersKeeps
<1>3. PICK t : t = table'
  OBVIOUS
<1>4. ToSet(table') = ToSet(table) \cap (DOMAIN entries \ OfEvent(e))
  BY <1>2, <1>3, ListedSet
<1>5. UNCHANGED <<entries, stack>> /\ UserCode
  BY DEF RemoveAllListeners
<1>6. /\ Emitter!UserCode
      /\ EventNames' = Emitter!Selected(EventNames, {f \in Events : EventLists'[f] # <<>>})
      /\ NamesInv'
      /\ UNCHANGED <<Fired, Emissions>>
      /\ \A f \in Events : RegsOf(Mine(f))' = RegsOf(ToSet(table') \cap OfEvent(f))
  BY <1>2, <1>4, <1>5, TableOnly
<1>7. Holds(EventLists', e, <<>>)
  <2>1. ToSet(table') \cap OfEvent(e) = {}
    BY <1>4
  <2>2. RegsOf(Mine(e))' = {}
    BY <1>6, <2>1 DEF RegsOf
  <2>3. Lists(<<>>, RegsOf(Mine(e))', ById)
    BY <2>2, EmptyLists
  <2> QED BY <1>2, <2>3, ListNext
<1>8. ASSUME NEW f \in Events, f # e PROVE Holds(EventLists', f, EventLists[f])
  <2>1. ToSet(table') \cap OfEvent(f) = Mine(f)
    BY <1>4, <1>8 DEF Mine, OfEvent
  <2>2. RegsOf(Mine(f))' = RegsOf(Mine(f))
    BY <1>6, <2>1
  <2> QED BY <1>1, <1>2, <2>2, ListStays
<1>9. EventLists' = [EventLists EXCEPT ![e] = <<>>]
  BY <1>7, <1>8, ListsChange
<1>10. Emitter!RemoveEvent(e)
  BY <1>6, <1>9 DEF Emitter!RemoveEvent, Emitter!Leave
<1> QED BY <1>6, <1>10 DEF Maps, Emitter!Next

LEMMA RemoveEveryListenerMaps ==
  ASSUME EmitterInv, RemoveEveryListener
  PROVE  Maps
<1>1. TableInv /\ NamesInv /\ TypeOK
  BY DEF EmitterInv, TableInv
<1>2. TableInv' /\ Lists(table', {}, Oldest)
  BY <1>1, RemoveEveryListenerKeeps
<1>3. PICK t : t = table'
  OBVIOUS
<1>4. ToSet(table') = {}
  BY <1>2, <1>3, ListedSet
<1>5. UNCHANGED <<entries, stack>> /\ UserCode
  BY DEF RemoveEveryListener
<1>6. /\ Emitter!UserCode
      /\ EventNames' = Emitter!Selected(EventNames, {f \in Events : EventLists'[f] # <<>>})
      /\ NamesInv'
      /\ UNCHANGED <<Fired, Emissions>>
      /\ \A f \in Events : RegsOf(Mine(f))' = RegsOf(ToSet(table') \cap OfEvent(f))
  BY <1>2, <1>4, <1>5, TableOnly
<1>7. ASSUME NEW f \in Events PROVE Holds(EventLists', f, <<>>)
  <2>1. RegsOf(Mine(f))' = {}
    BY <1>4, <1>6 DEF RegsOf
  <2>2. Lists(<<>>, RegsOf(Mine(f))', ById)
    BY <2>1, EmptyLists
  <2> QED BY <1>2, <2>2, ListNext
<1>8. EventLists' = [f \in Events |-> <<>>]
  <2>1. PICK k : k = EventLists'
    OBVIOUS
  <2>2. k = [f \in Events |-> k[f]]
    BY <2>1 DEF EventLists
  <2>3. \A f \in Events : k[f] = <<>>
    BY <1>7, <2>1 DEF Holds
  <2>4. k = [f \in Events |-> <<>>]
    BY <2>2, <2>3
  <2> QED BY <2>1, <2>4
<1>9. Emitter!RemoveEverything
  BY <1>6, <1>8 DEF Emitter!RemoveEverything, Emitter!Leave
<1> QED BY <1>6, <1>9 DEF Maps, Emitter!Next

(* A step that changes only the stack. *)
LEMMA StackOnly ==
  ASSUME EmitterInv, TableInv', UNCHANGED <<entries, table>>
  PROVE  /\ UNCHANGED <<EventLists, EventNames, Fired>>
         /\ NamesInv' /\ SameEntries
<1>1. TableInv /\ NamesInv /\ TypeOK
  BY DEF EmitterInv, TableInv
<1>2. KeptEntries
  BY <1>1, UnchangedEntries
<1>3. SameEntries
  BY <1>1, <1>2, KeptAreSame
<1>4. EventLists' = EventLists
  BY <1>1, <1>2, KeptLists
<1>5. EventNames' = EventNames /\ NamesInv'
  BY <1>1, <1>2, FewerNames DEF NamesInv
<1>6. Fired' = Fired
  BY DEF Fired
<1> QED BY <1>3, <1>4, <1>5, <1>6

(* An emission starts with the list its event has. *)
LEMMA StartedCall ==
  ASSUME TableInv, NEW e \in Events
  PROVE  CallOf(Starting(e)) = [event |-> e, pending |-> EventLists[e], running |-> FALSE]
<1>1. PICK f : f = Starting(e)
  OBVIOUS
<1>2. f.event = e /\ f.snapshot = table /\ f.next = 1 /\ f.running = FALSE
  BY <1>1 DEF Starting
<1>3. Walk(f)
  BY <1>1, StartedWalks
<1>4. Due(f) = Mine(e)
  <2>1. PICK D : D = {table[k] : k \in 1..Len(table)}
    OBVIOUS
  <2>2. Due(f) = D \cap OfEvent(e)
    BY <1>2, <2>1 DEF Due
  <2>3. D = ToSet(table)
    BY <2>1, TableParts DEF TableInv
  <2> QED BY <2>2, <2>3 DEF Mine
<1>5. PICK p, q : p = PendingOf(f) /\ q = EventLists[e]
  OBVIOUS
<1>6. Lists(p, RegsOf(Mine(e)), ById)
  BY <1>3, <1>4, <1>5, PendingList DEF TableInv
<1>7. Lists(q, RegsOf(Mine(e)), ById)
  BY <1>5, ListNow
<1>8. p = q
  BY <1>6, <1>7, ByIdIsStrict, SameList
<1>9. CallOf(f) = [event |-> e, pending |-> q, running |-> FALSE]
  BY <1>2, <1>5, <1>8 DEF CallOf
<1> QED BY <1>1, <1>5, <1>9

LEMMA EmitMaps ==
  ASSUME EmitterInv, NEW e \in Events, Emit(e)
  PROVE  Maps
<1>1. TableInv /\ TypeOK
  BY DEF EmitterInv, TableInv
<1>2. TableInv'
  BY <1>1, EmitKeeps
<1>3. UNCHANGED <<EventLists, EventNames, Fired>> /\ NamesInv' /\ SameEntries
  BY <1>2, StackOnly DEF Emit
<1>4. PICK f : f = Starting(e)
  OBVIOUS
<1>5. f \in Frames /\ Walk(f) /\ stack \in Seq(Frames)
  BY <1>1, <1>4, StartedWalks, StackParts
<1>6. PICK c : c = <<f>> \o stack
  OBVIOUS
<1>7. c = stack'
  BY <1>4, <1>6 DEF Emit, Starting
<1>8. \A i \in DOMAIN c : Walk(c[i])
  <2>1. /\ DOMAIN c = 1..(Len(stack) + 1) /\ c[1] = f /\ Len(stack) \in Nat
        /\ \A i \in 1..Len(stack) : c[i + 1] = stack[i]
    BY <1>5, <1>6, PushShape
  <2>2. \A i \in 1..Len(stack) : Walk(stack[i])
    BY <1>1, StackParts DEF TableInv
  <2> SUFFICES ASSUME NEW i \in DOMAIN c PROVE Walk(c[i])
    OBVIOUS
  <2>3. CASE i = 1
    BY <1>5, <2>1, <2>3
  <2>4. CASE i # 1
    <3>1. PICK j \in 1..Len(stack) : i = j + 1
      <4>1. i - 1 \in 1..Len(stack) /\ i = (i - 1) + 1
        BY <2>1, <2>4
      <4> QED BY <4>1
    <3>2. c[i] = stack[j]
      BY <2>1, <3>1
    <3> QED BY <2>2, <3>2
  <2> QED BY <2>3, <2>4
<1>9. Emissions' = CallsOf(c)
  BY <1>1, <1>2, <1>3, <1>7, <1>8, EmissionsNext
<1>10. CallsOf(c) = <<CallOf(f)>> \o CallsOf(stack)
  BY <1>5, <1>6, CallsPush
<1>11. CallOf(f) = [event |-> e, pending |-> EventLists[e], running |-> FALSE]
  BY <1>1, <1>4, StartedCall
<1>12. Emissions' =
         <<[event |-> e, pending |-> EventLists[e], running |-> FALSE]>> \o Emissions
  BY <1>9, <1>10, <1>11 DEF Emissions
<1>13. Emitter!UserCode
  BY <1>1, SameUserCode DEF Emit
<1>14. Emitter!Emit(e)
  BY <1>3, <1>12, <1>13 DEF Emitter!Emit
<1> QED BY <1>3, <1>14 DEF Maps, Emitter!Next

(* What becomes of the emissions when the innermost one changes or ends. *)
LEMMA ReplacedCalls ==
  ASSUME TableInv, TableInv', SameEntries, stack # <<>>,
         NEW f \in Frames, Walk(f), stack' = <<f>> \o Tail(stack)
  PROVE  Emissions' = <<CallOf(f)>> \o Tail(Emissions)
<1>1. TypeOK
  BY DEF TableInv
<1>2. PICK c, t : c = <<f>> \o t /\ t = Tail(stack)
  OBVIOUS
<1>3. c = stack' /\ \A i \in DOMAIN c : Walk(c[i])
  BY <1>2, ReplacedWalks
<1>4. Emissions' = CallsOf(c)
  BY <1>3, EmissionsNext
<1>5. t \in Seq(Frames)
  BY <1>1, <1>2, StackParts, PopShape
<1>6. CallsOf(c) = <<CallOf(f)>> \o CallsOf(t)
  BY <1>2, <1>5, CallsPush
<1>7. Tail(Emissions) = CallsOf(t)
  BY <1>1, <1>2, SameUserCode
<1> QED BY <1>4, <1>6, <1>7

LEMMA PoppedCalls ==
  ASSUME TableInv, TableInv', SameEntries, stack # <<>>, stack' = Tail(stack)
  PROVE  Emissions' = Tail(Emissions)
<1>1. TypeOK
  BY DEF TableInv
<1>2. PICK c : c = Tail(stack)
  OBVIOUS
<1>3. c = stack' /\ \A i \in DOMAIN c : Walk(c[i])
  BY <1>2, PoppedWalks
<1>4. Emissions' = CallsOf(c)
  BY <1>3, EmissionsNext
<1>5. Tail(Emissions) = CallsOf(c)
  BY <1>1, <1>2, SameUserCode
<1> QED BY <1>4, <1>5

LEMMA ListenerThrowsMaps ==
  ASSUME EmitterInv, ListenerThrows
  PROVE  Maps
<1>1. TableInv /\ TypeOK
  BY DEF EmitterInv, TableInv
<1>2. /\ stack # <<>> /\ Head(stack).running /\ stack' = Tail(stack)
      /\ UNCHANGED <<entries, table>>
  BY DEF ListenerThrows
<1>3. TableInv'
  BY <1>1, <1>2, PopKeeps
<1>4. UNCHANGED <<EventLists, EventNames, Fired>> /\ NamesInv' /\ SameEntries
  BY <1>2, <1>3, StackOnly
<1>5. Emissions' = Tail(Emissions)
  BY <1>1, <1>2, <1>3, <1>4, PoppedCalls
<1>6. Emitter!Throw
  BY <1>1, <1>2, <1>4, <1>5, SameUserCode DEF Emitter!Throw
<1> QED BY <1>4, <1>6 DEF Maps, Emitter!Next

(* A registration may still be called exactly when its entry is callable. *)
LEMMA LiveIs ==
  ASSUME TableInv, NEW id \in DOMAIN entries
  PROVE  Emitter!Live(RegistrationOf(id)) <=> Callable(id, entries[id].event)
<1>1. RegistrationOf(id).id = id
  BY RegistrationParts DEF TableInv
<1>2. entries[id].fired => entries[id].once
  BY DEF TableInv
<1> QED BY <1>1, <1>2 DEF Emitter!Live, Callable, Fired

LEMMA EmitReturnsMaps ==
  ASSUME EmitterInv, EmitReturns
  PROVE  Maps
<1>1. TableInv /\ TypeOK
  BY DEF EmitterInv, TableInv
<1>2. /\ stack # <<>> /\ ~Head(stack).running /\ stack' = Tail(stack)
      /\ UNCHANGED <<entries, table>> /\ Ahead(Head(stack)) = {}
  BY DEF EmitReturns, Dispatching
<1>3. TableInv'
  BY <1>1, <1>2, PopKeeps
<1>4. UNCHANGED <<EventLists, EventNames, Fired>> /\ NamesInv' /\ SameEntries
  BY <1>2, <1>3, StackOnly
<1>5. Emissions' = Tail(Emissions)
  BY <1>1, <1>2, <1>3, <1>4, PoppedCalls
<1>6. PICK f : f = Head(stack)
  OBVIOUS
<1>7. Walk(f)
  BY <1>1, <1>2, <1>6, StackParts DEF TableInv
<1>8. PICK s : s = PendingOf(f)
  OBVIOUS
<1>9. Lists(s, RegsOf(Due(f)), ById)
  BY <1>1, <1>7, <1>8, PendingList
<1>10. ASSUME NEW i \in DOMAIN s PROVE ~Emitter!Live(s[i])
  <2>1. s[i] \in RegsOf(Due(f))
    BY <1>9, ListShape
  <2>2. PICK id \in Due(f) : s[i] = RegistrationOf(id)
    BY <2>1 DEF RegsOf
  <2>3. PICK k \in f.next..Len(f.snapshot) : f.snapshot[k] = id
    BY DEF Due
  <2>4. id \in DOMAIN entries /\ entries[id].event = f.event
    BY DEF Due, OfEvent
  <2>5. ~Callable(id, f.event)
    BY <1>2, <1>6, <2>3 DEF Ahead
  <2> QED BY <1>1, <2>2, <2>4, <2>5, LiveIs
<1>11. Emissions # <<>> /\ ~Head(Emissions).running /\ Head(Emissions).pending = s
  BY <1>1, <1>2, <1>6, <1>8, SameUserCode
<1>12. Emitter!Finish
  BY <1>4, <1>5, <1>10, <1>11 DEF Emitter!Finish
<1> QED BY <1>4, <1>12 DEF Maps, Emitter!Next

LEMMA ListenerReturnsMaps ==
  ASSUME EmitterInv, ListenerReturns
  PROVE  Maps
<1>1. TableInv /\ TypeOK
  BY DEF EmitterInv, TableInv
<1>2. stack # <<>> /\ Head(stack).running /\ UNCHANGED <<entries, table>>
  BY DEF ListenerReturns
<1>3. TableInv'
  BY <1>1, ListenerReturnsKeeps
<1>4. UNCHANGED <<EventLists, EventNames, Fired>> /\ NamesInv' /\ SameEntries
  BY <1>2, <1>3, StackOnly
<1>5. PICK g : g = Head(stack)
  OBVIOUS
<1>6. g \in Frames /\ Walk(g)
  BY <1>1, <1>2, <1>5, StackParts DEF TableInv
<1>7. PICK f : f = [g EXCEPT !.running = FALSE]
  OBVIOUS
<1>8. /\ f \in Frames /\ f.event = g.event /\ f.snapshot = g.snapshot /\ f.next = g.next
      /\ f.running = FALSE
  BY <1>6, <1>7 DEF Frames
<1>9. Walk(f)
  BY <1>6, <1>8 DEF Walk
<1>10. stack' = <<f>> \o Tail(stack)
  BY <1>5, <1>7 DEF ListenerReturns
<1>11. Emissions' = <<CallOf(f)>> \o Tail(Emissions)
  BY <1>1, <1>2, <1>3, <1>4, <1>8, <1>9, <1>10, ReplacedCalls
<1>12. PICK h, p : h = Head(Emissions) /\ p = PendingOf(g)
  OBVIOUS
<1>13. h = [event |-> g.event, pending |-> p, running |-> g.running]
  BY <1>1, <1>2, <1>5, <1>12, SameUserCode DEF CallOf
<1>14. PendingOf(f) = p
  BY <1>8, <1>12 DEF PendingOf
<1>15. CallOf(f) = [event |-> g.event, pending |-> p, running |-> FALSE]
  BY <1>8, <1>14 DEF CallOf
<1>16. PICK d : d = [h EXCEPT !.running = FALSE]
  OBVIOUS
<1>17. h \in [event : {g.event}, pending : {p}, running : BOOLEAN]
  BY <1>6, <1>13 DEF Frames
<1>18. d = [event |-> g.event, pending |-> p, running |-> FALSE]
  BY <1>16, <1>17
<1>19. Emissions' = <<d>> \o Tail(Emissions)
  BY <1>11, <1>15, <1>18
<1>20. Emitter!Return
  BY <1>1, <1>2, <1>4, <1>12, <1>16, <1>19, SameUserCode DEF Emitter!Return
<1> QED BY <1>4, <1>20 DEF Maps, Emitter!Next

\* A list from one position on, and the registrations after one.
Rest(s, q) == {s[k] : k \in q..Len(s)}

Later(T, id) == {r \in T : id < r.id}

LEMMA ListAfter ==
  ASSUME NEW T \in SUBSET Regs, NEW s, Lists(s, T, ById), NEW p \in DOMAIN s,
         NEW q, q = p + 1
  PROVE  Rest(s, q) = Later(T, s[p].id)
<1>1. PICK n \in Nat : n = Len(s) /\ DOMAIN s = 1..n
  BY ListShape
<1>2. \A k \in 1..n : s[k] \in T /\ s[k] \in Regs /\ s[k].id \in Nat
  BY <1>1, ListShape DEF Regs, Emitter!Registrations, EntryIds
<1>3. \A j, k \in 1..n : j < k => s[j].id < s[k].id
  <2> SUFFICES ASSUME NEW j \in 1..n, NEW k \in 1..n, j < k PROVE s[j].id < s[k].id
    OBVIOUS
  <2>1. <<s[j], s[k]>> \in ById
    BY <1>1, ListShape
  <2>2. <<s[j], s[k]>>[1] = s[j] /\ <<s[j], s[k]>>[2] = s[k]
    OBVIOUS
  <2> QED BY <2>1, <2>2 DEF ById
<1>4. ASSUME NEW k \in q..n PROVE s[k] \in T /\ s[p].id < s[k].id
  <2>1. p \in 1..n /\ k \in 1..n /\ p < k
    BY <1>1
  <2> QED BY <1>2, <1>3, <2>1
<1>5. ASSUME NEW r \in T, s[p].id < r.id PROVE \E k \in q..n : s[k] = r
  <2>1. PICK k \in 1..n : s[k] = r
    BY <1>1, ListShape
  <2>2. p < k
    <3>1. p \in 1..n
      BY <1>1
    <3>2. CASE k < p
      BY <1>2, <1>3, <1>5, <2>1, <3>1, <3>2
    <3>3. CASE k = p
      BY <1>2, <1>5, <2>1, <3>1, <3>3
    <3> QED BY <3>1, <3>2, <3>3
  <2>3. k \in q..n
    BY <1>1, <2>2
  <2> QED BY <2>1, <2>3
<1> QED BY <1>1, <1>4, <1>5 DEF Rest, Later

LEMMA WalkOrder ==
  ASSUME TypeOK, NEW g, Walk(g)
  PROVE  /\ g.next \in Nat \ {0} /\ Len(g.snapshot) \in Nat
         /\ DOMAIN g.snapshot = 1..Len(g.snapshot)
         /\ \A k \in g.next..Len(g.snapshot) : k \in 1..Len(g.snapshot)
         /\ \A k \in 1..Len(g.snapshot) : /\ g.snapshot[k] \in DOMAIN entries
                                          /\ g.snapshot[k] \in Nat
         /\ \A j, k \in 1..Len(g.snapshot) : j < k => g.snapshot[j] < g.snapshot[k]
<1>1. PICK s : s = g.snapshot
  OBVIOUS
<1>2. PICK n \in Nat : n = Len(s) /\ DOMAIN s = 1..n /\ g.next \in 1..(n + 1)
  BY <1>1 DEF Walk
<1>3. \A k \in 1..n : s[k] \in DOMAIN entries
  BY <1>1, <1>2 DEF Walk
<1>4. \A k \in 1..n : s[k] \in Nat
  BY <1>3, EntryParts
<1>5. \A j, k \in 1..n : j < k => <<s[j], s[k]>> \in Oldest
  BY <1>1, <1>2, ListShape DEF Walk
<1>6. \A j, k \in 1..n : j < k => s[j] < s[k]
  BY <1>5 DEF Oldest
<1> QED BY <1>1, <1>2, <1>3, <1>4, <1>6

LEMMA DueAfter ==
  ASSUME TypeOK, NEW g, Walk(g), NEW m \in g.next..Len(g.snapshot),
         NEW id, id = g.snapshot[m], NEW f, Carries(f, g, m)
  PROVE  Due(f) = {x \in Due(g) : id < x}
<1>1. PICK s, e, a : s = g.snapshot /\ e = g.event /\ a = g.next
  OBVIOUS
<1>2. PICK n \in Nat : n = Len(s)
  BY <1>1, WalkOrder
<1>3. PICK b : b = m + 1
  OBVIOUS
<1>4. f.snapshot = s /\ f.event = e /\ f.next = b
  BY <1>1, <1>3 DEF Carries
<1>5. Due(f) = {s[k] : k \in b..n} \cap OfEvent(e)
  BY <1>2, <1>4 DEF Due
<1>6. Due(g) = {s[k] : k \in a..n} \cap OfEvent(e)
  BY <1>1, <1>2 DEF Due
<1>7. /\ a \in Nat \ {0} /\ m \in a..n /\ m \in 1..n
      /\ \A k \in 1..n : s[k] \in Nat
      /\ \A j, k \in 1..n : j < k => s[j] < s[k]
  BY <1>1, <1>2, WalkOrder
<1>8. ASSUME NEW k \in b..n PROVE k \in a..n /\ id < s[k]
  <2>1. k \in a..n /\ k \in 1..n /\ m < k
    BY <1>3, <1>7
  <2> QED BY <1>1, <1>7, <2>1
<1>9. ASSUME NEW k \in a..n, id < s[k] PROVE k \in b..n
  <2>1. k \in 1..n
    BY <1>7
  <2>2. CASE k < m
    BY <1>1, <1>7, <1>9, <2>1, <2>2
  <2>3. CASE k = m
    BY <1>1, <1>7, <1>9, <2>1, <2>3
  <2> QED BY <1>3, <1>7, <2>1, <2>2, <2>3
<1> QED BY <1>5, <1>6, <1>8, <1>9

(* The first live registration before an emission is its next entry. *)
LEMMA FirstLive ==
  ASSUME TableInv, NEW g, Walk(g),
         NEW m \in g.next..Len(g.snapshot), NEW id, id = g.snapshot[m],
         Callable(id, g.event), \A k \in Ahead(g) : m <= k,
         NEW s, s = PendingOf(g), NEW L, L = {i \in DOMAIN s : Emitter!Live(s[i])}
  PROVE  /\ L # {} /\ Emitter!Min(L) \in DOMAIN s
         /\ s[Emitter!Min(L)] = RegistrationOf(id)
<1>1. TypeOK
  BY DEF TableInv
<1>2. PICK b \in Nat : b = Len(g.snapshot)
  BY <1>1, WalkOrder
<1>3. /\ m \in 1..b /\ id \in DOMAIN entries
      /\ \A k \in g.next..b : k \in 1..b
      /\ \A k \in 1..b : g.snapshot[k] \in Nat
      /\ \A j, k \in 1..b : j < k => g.snapshot[j] < g.snapshot[k]
  BY <1>1, <1>2, WalkOrder
<1>4. entries[id].event = g.event
  BY DEF Callable
<1>5. id \in Due(g)
  BY <1>3, <1>4 DEF Due, OfEvent
<1>6. Lists(s, RegsOf(Due(g)), ById)
  BY <1>1, PendingList
<1>7. PICK n \in Nat : n = Len(s) /\ DOMAIN s = 1..n
  BY <1>6, ListShape
<1>8. PICK r : r = RegistrationOf(id)
  OBVIOUS
<1>9. r \in RegsOf(Due(g)) /\ r.id = id
  BY <1>1, <1>3, <1>5, <1>8, RegistrationParts DEF RegsOf
<1>10. PICK p \in 1..n : s[p] = r
  BY <1>6, <1>7, <1>9, ListShape
<1>11. p \in L
  <2>1. Emitter!Live(r)
    BY <1>3, <1>4, <1>8, LiveIs
  <2> QED BY <1>7, <1>10, <2>1
<1>12. ASSUME NEW q \in L PROVE p <= q
  <2>1. q \in 1..n /\ s[q] \in RegsOf(Due(g)) /\ Emitter!Live(s[q])
    BY <1>6, <1>7, ListShape
  <2>2. PICK x \in Due(g) : s[q] = RegistrationOf(x)
    BY <2>1 DEF RegsOf
  <2>3. x \in DOMAIN entries /\ entries[x].event = g.event
    BY DEF Due, OfEvent
  <2>4. PICK k \in g.next..b : g.snapshot[k] = x
    BY <1>2 DEF Due
  <2>5. Callable(x, g.event)
    BY <2>1, <2>2, <2>3, LiveIs
  <2>6. m <= k
    BY <1>2, <2>4, <2>5 DEF Ahead
  <2>7. id <= x /\ id \in Nat /\ x \in Nat
    <3>1. k \in 1..b
      BY <1>3
    <3>2. CASE m < k
      BY <1>3, <2>4, <3>1, <3>2
    <3>3. CASE m = k
      BY <1>3, <2>4, <3>1, <3>3
    <3> QED BY <1>3, <2>6, <3>1, <3>2, <3>3
  <2>8. s[q].id = x
    BY <1>1, <2>2, <2>3, RegistrationParts
  <2>9. CASE q < p
    <3>1. <<s[q], s[p]>> \in ById
      BY <1>6, <1>7, <2>1, <2>9, ListShape
    <3>2. <<s[q], s[p]>>[1] = s[q] /\ <<s[q], s[p]>>[2] = s[p]
      OBVIOUS
    <3>3. s[q].id < s[p].id
      BY <3>1, <3>2 DEF ById
    <3>4. x < id
      BY <1>9, <1>10, <2>8, <3>3
    <3> QED BY <2>7, <3>4
  <2> QED BY <2>1, <2>9
<1>13. L \in SUBSET Nat /\ L # {}
  BY <1>7, <1>11
<1>14. PICK x : x = Min(L)
  OBVIOUS
<1>15. x \in L /\ x <= p
  BY <1>11, <1>13, <1>14, MinIs
<1>16. x = p
  BY <1>7, <1>12, <1>15
<1>17. Emitter!Min(L) = p
  BY <1>14, <1>16, SameExtremes
<1> QED BY <1>7, <1>8, <1>10, <1>13, <1>17

(* What is left of the list once its first live registration is called is *)
(* what the frame has left after the entry.                                *)
LEMMA PendingAfter ==
  ASSUME TableInv, NEW g, Walk(g),
         NEW m \in g.next..Len(g.snapshot), NEW id, id = g.snapshot[m],
         entries[id].event = g.event, NEW f, Walk(f), Carries(f, g, m),
         NEW s, s = PendingOf(g), NEW p \in DOMAIN s, s[p] = RegistrationOf(id)
  PROVE  PendingOf(f) = SubSeq(s, p + 1, Len(s))
<1>1. TypeOK
  BY DEF TableInv
<1>2. id \in DOMAIN entries /\ id \in Nat
  BY <1>1, WalkOrder
<1>3. PICK T : T = RegsOf(Due(g))
  OBVIOUS
<1>4. Lists(s, T, ById)
  BY <1>1, <1>3, PendingList
<1>5. PICK n \in Nat : n = Len(s) /\ DOMAIN s = 1..n
  BY <1>4, ListShape
<1>6. PICK q : q = p + 1
  OBVIOUS
<1>7. q \in 1..(Len(s) + 1)
  BY <1>5, <1>6
<1>8. Lists(SubSeq(s, q, Len(s)), Rest(s, q), ById)
  BY <1>4, <1>7, SuffixLists DEF Rest
<1>9. Due(g) \subseteq DOMAIN entries
  BY DEF Due, OfEvent
<1>10. \A x \in DOMAIN entries : RegistrationOf(x) \in Regs /\ RegistrationOf(x).id = x
  BY <1>1, RegistrationParts
<1>11. T \in SUBSET Regs
  BY <1>3, <1>9, <1>10 DEF RegsOf
<1>12. s[p].id = id
  BY <1>2, <1>10
<1>13. Rest(s, q) = Later(T, s[p].id)
  BY <1>4, <1>6, <1>11, ListAfter
<1>14. Due(f) = {x \in Due(g) : id < x}
  BY <1>1, DueAfter
<1>15. RegsOf(Due(f)) = Later(T, s[p].id)
  BY <1>3, <1>9, <1>10, <1>12, <1>14 DEF RegsOf, Later
<1>16. PICK u, v : u = PendingOf(f) /\ v = SubSeq(s, q, Len(s))
  OBVIOUS
<1>17. Lists(u, RegsOf(Due(f)), ById)
  BY <1>1, <1>16, PendingList
<1>18. Lists(v, RegsOf(Due(f)), ById)
  BY <1>8, <1>13, <1>15, <1>16
<1>19. u = v
  BY <1>17, <1>18, ByIdIsStrict, SameList
<1> QED BY <1>6, <1>16, <1>19

(* A once registration that is called leaves the list of its name. *)
LEMMA SpentLists ==
  ASSUME EmitterInv, TableInv', KeptEntries, NEW id \in DOMAIN entries,
         entries[id].once, Spends(id), NEW e \in Events, entries[id].event = e,
         NEW r, r = RegistrationOf(id)
  PROVE  /\ Emitter!Leave([EventLists EXCEPT ![e] = Emitter!Selected(@, Regs \ {r})])
         /\ Fired' = Fired \cup {r.id}
         /\ NamesInv'
<1>1. TableInv /\ NamesInv /\ TypeOK
  BY DEF EmitterInv, TableInv
<1>2. r.id = id /\ r \in Regs
  BY <1>1, RegistrationParts
<1>3. /\ entries' = [entries EXCEPT ![id].fired = TRUE]
      /\ Lists(table', ToSet(table) \cap (DOMAIN entries \ {id}), Oldest)
  BY DEF Spends
<1>4. PICK t : t = table'
  OBVIOUS
<1>5. ToSet(table') = ToSet(table) \cap (DOMAIN entries \ {id})
  BY <1>3, <1>4, ListedSet
<1>6. ToSet(table') \subseteq ToSet(table)
  BY <1>5
<1>7. \A f \in Events : RegsOf(Mine(f))' = RegsOf(ToSet(table') \cap OfEvent(f))
  BY <1>1, <1>6, KeptMine
<1>8. PICK s, w : s = EventLists[e] /\ w = Selected(s, Regs \ {r})
  OBVIOUS
<1>9. Lists(s, RegsOf(Mine(e)), ById)
  BY <1>1, <1>8, ListNow
<1>10. Lists(w, RegsOf(Mine(e)) \cap (Regs \ {r}), ById)
  BY <1>8, <1>9, SelectedLists
<1>11. Mine(e) \in SUBSET DOMAIN entries
  BY DEF Mine, OfEvent
<1>12. RegsOf(Mine(e)) \subseteq Regs
  BY <1>1, <1>11, RegistrationParts DEF RegsOf
<1>13. RegsOf(Mine(e))' = RegsOf(Mine(e)) \cap (Regs \ {r})
  <2>1. ToSet(table') \cap OfEvent(e) = Mine(e) \ {id}
    BY <1>5 DEF Mine, OfEvent
  <2>2. RegsOf(Mine(e) \ {id}) = RegsOf(Mine(e)) \ {r}
    BY <1>1, <1>11, RegsWithout
  <2>3. RegsOf(Mine(e))' = RegsOf(Mine(e)) \ {r}
    BY <1>7, <2>1, <2>2
  <2> QED BY <1>12, <2>3
<1>14. Holds(EventLists', e, w)
  BY <1>10, <1>13, ListNext
<1>15. ASSUME NEW f \in Events, f # e PROVE Holds(EventLists', f, EventLists[f])
  <2>1. ToSet(table') \cap OfEvent(f) = Mine(f)
    BY <1>5, <1>15 DEF Mine, OfEvent
  <2>2. RegsOf(Mine(f))' = RegsOf(Mine(f))
    BY <1>7, <2>1
  <2> QED BY <1>1, <2>2, ListStays
<1>16. EventLists' = [EventLists EXCEPT ![e] = w]
  BY <1>14, <1>15, ListsChange
<1>17. PICK k : k = [EventLists EXCEPT ![e] = Emitter!Selected(@, Regs \ {r})]
  OBVIOUS
<1>18. EventLists' = k
  BY <1>8, <1>16, <1>17, SameSelected
<1>19. PICK E, n : E = {f \in Events : EventLists'[f] # <<>>} /\ n = EventNames
  OBVIOUS
<1>20. EventNames' = Selected(n, E) /\ NamesInv'
  BY <1>1, <1>6, <1>19, FewerNames DEF NamesInv
<1>21. EventNames' = Emitter!Selected(n, E)
  BY <1>20, SameSelected
<1>22. Emitter!Leave(k)
  BY <1>18, <1>19, <1>21 DEF Emitter!Leave
<1>23. Fired' = Fired \cup {r.id}
  <2>1. entries \in Seq(Entries) /\ entries[id] \in Entries
    BY <1>1, TableParts, EntryParts
  <2>2. PICK x : x = [entries[id] EXCEPT !.fired = TRUE]
    OBVIOUS
  <2>3. x \in Entries /\ x.fired = TRUE
    BY <2>1, <2>2 DEF Entries
  <2>4. entries' = [entries EXCEPT ![id] = x]
    BY <1>3, <2>2
  <2>5. PICK en : en = entries'
    OBVIOUS
  <2>6. /\ DOMAIN en = DOMAIN entries
        /\ \A j \in DOMAIN entries : en[j] = IF j = id THEN x ELSE entries[j]
    BY <2>4, <2>5
  <2>7. Fired' = {j \in DOMAIN en : en[j].fired}
    BY <2>5 DEF Fired
  <2> QED BY <1>2, <2>3, <2>6, <2>7 DEF Fired
<1> QED BY <1>17, <1>20, <1>22, <1>23

LEMMA CallListenerMaps ==
  ASSUME EmitterInv, CallListener
  PROVE  Maps
<1>1. TableInv /\ NamesInv /\ TypeOK
  BY DEF EmitterInv, TableInv
<1>2. stack # <<>> /\ ~Head(stack).running
  BY DEF CallListener, Dispatching
<1>3. TableInv'
  BY <1>1, CallListenerKeeps
<1>4. PICK g : g = Head(stack)
  OBVIOUS
<1>5. g \in Frames /\ Walk(g)
  BY <1>1, <1>2, <1>4, StackParts DEF TableInv
<1>6. PICK m : m = Min(Ahead(Head(stack)))
  OBVIOUS
<1>7. PICK id : id = Head(stack).snapshot[m]
  OBVIOUS
<1>8. PICK f : f = CallAt(Head(stack), m)
  OBVIOUS
<1>9. /\ m \in g.next..Len(g.snapshot) /\ id = g.snapshot[m]
      /\ id \in DOMAIN entries /\ Callable(id, g.event)
      /\ \A k \in Ahead(g) : m <= k
      /\ f \in Frames /\ Walk(f) /\ Carries(f, g, m)
      /\ stack' = <<f>> \o Tail(stack)
      /\ KeptEntries /\ Spends(id)
  BY <1>1, <1>4, <1>6, <1>7, <1>8, CallListenerShape
<1>10. entries[id].event = g.event /\ g.event \in Events
  BY <1>5, <1>9 DEF Callable, Frames
<1>11. SameEntries
  BY <1>1, <1>9, KeptAreSame
<1>12. Emissions' = <<CallOf(f)>> \o Tail(Emissions)
  BY <1>1, <1>2, <1>3, <1>9, <1>11, ReplacedCalls
<1>13. PICK h, s : h = Head(Emissions) /\ s = PendingOf(g)
  OBVIOUS
<1>14. h = [event |-> g.event, pending |-> s, running |-> g.running] /\ h.pending = s
       /\ h.event = g.event /\ Emissions # <<>> /\ ~h.running
  BY <1>1, <1>2, <1>4, <1>13, SameUserCode DEF CallOf
<1>15. PICK L : L = {i \in DOMAIN s : Emitter!Live(s[i])}
  OBVIOUS
<1>16. PICK p, r : p = Emitter!Min(L) /\ r = RegistrationOf(id)
  OBVIOUS
<1>17. L # {} /\ p \in DOMAIN s /\ s[p] = r
  BY <1>1, <1>5, <1>9, <1>13, <1>15, <1>16, FirstLive
<1>18. PendingOf(f) = SubSeq(s, p + 1, Len(s))
  BY <1>1, <1>5, <1>9, <1>10, <1>13, <1>16, <1>17, PendingAfter
<1>19. PICK d : d = [h EXCEPT !.pending = SubSeq(@, p + 1, Len(@)), !.running = TRUE]
  OBVIOUS
<1>20. CallOf(f) = d
  <2>1. PICK q : q = SubSeq(s, p + 1, Len(s))
    OBVIOUS
  <2>2. h \in [event : {g.event}, pending : {s}, running : BOOLEAN]
    BY <1>5, <1>14 DEF Frames
  <2>3. d = [h EXCEPT !.pending = q, !.running = TRUE]
    BY <1>14, <1>19, <2>1
  <2>4. d = [event |-> g.event, pending |-> q, running |-> TRUE]
    BY <2>2, <2>3
  <2>5. PendingOf(f) = q /\ f.event = g.event /\ f.running = TRUE
    BY <1>9, <1>18, <2>1 DEF Carries
  <2>6. CallOf(f) = [event |-> g.event, pending |-> q, running |-> TRUE]
    BY <2>5 DEF CallOf
  <2> QED BY <2>4, <2>6
<1>21. Emissions' = <<d>> \o Tail(Emissions)
  BY <1>12, <1>20
<1>22. r.once = entries[id].once
  BY <1>1, <1>9, <1>16, RegistrationParts
<1>23. /\ NamesInv'
       /\ IF r.once
          THEN /\ Fired' = Fired \cup {r.id}
               /\ Emitter!Leave([EventLists EXCEPT ![g.event] =
                                   Emitter!Selected(@, Emitter!Registrations \ {r})])
          ELSE UNCHANGED <<EventLists, EventNames, Fired>>
  <2>1. CASE entries[id].once
    <3>1. /\ Emitter!Leave([EventLists EXCEPT ![g.event] = Emitter!Selected(@, Regs \ {r})])
          /\ Fired' = Fired \cup {r.id} /\ NamesInv'
      BY <1>3, <1>9, <1>10, <1>16, <2>1, SpentLists
    <3> QED BY <1>22, <2>1, <3>1 DEF Regs
  <2>2. CASE ~entries[id].once
    <3>1. UNCHANGED <<entries, table>>
      BY <1>9, <2>2 DEF Spends
    <3>2. UNCHANGED <<EventLists, EventNames, Fired>> /\ NamesInv'
      BY <1>3, <3>1, StackOnly
    <3> QED BY <1>22, <2>2, <3>2
  <2> QED BY <2>1, <2>2
<1>24. Emitter!Invoke
  BY <1>13, <1>14, <1>15, <1>16, <1>17, <1>19, <1>21, <1>23 DEF Emitter!Invoke
<1> QED BY <1>23, <1>24 DEF Maps, Emitter!Next

LEMMA StutterMaps ==
  ASSUME EmitterInv, TableInv', UNCHANGED vars
  PROVE  Maps
<1>1. TableInv
  BY DEF EmitterInv
<1>2. entries' = entries /\ table' = table /\ stack' = stack
  BY DEF vars
<1>3. UNCHANGED <<EventLists, EventNames, Fired>> /\ NamesInv' /\ SameEntries
  BY <1>2, StackOnly
<1>4. Emissions' = Emissions
  BY <1>1, <1>2, <1>3, EmissionsStay
<1> QED BY <1>3, <1>4 DEF Maps, Emitter!vars

LEMMA StepMaps == EmitterInv /\ [Next]_vars => EmitterInv' /\ [Emitter!Next]_(Emitter!vars)
<1> SUFFICES ASSUME EmitterInv, [Next]_vars
             PROVE  EmitterInv' /\ [Emitter!Next]_(Emitter!vars)
  OBVIOUS
<1>1. TableInv'
  BY TableStep DEF EmitterInv
<1>2. Maps
  <2>1. ASSUME NEW e \in Events, NEW l \in Listeners, NEW once \in BOOLEAN, On(e, l, once)
        PROVE  Maps
    BY <1>1, <2>1, OnMaps
  <2>2. ASSUME NEW e \in Events, NEW l \in Listeners, RemoveListener(e, l)
        PROVE  Maps
    BY <2>2, RemoveListenerMaps
  <2>3. ASSUME NEW e \in Events, RemoveAllListeners(e) PROVE Maps
    BY <2>3, RemoveAllListenersMaps
  <2>4. ASSUME RemoveEveryListener PROVE Maps
    BY <2>4, RemoveEveryListenerMaps
  <2>5. ASSUME NEW e \in Events, Emit(e) PROVE Maps
    BY <2>5, EmitMaps
  <2>6. ASSUME CallListener PROVE Maps
    BY <2>6, CallListenerMaps
  <2>7. ASSUME ListenerReturns PROVE Maps
    BY <2>7, ListenerReturnsMaps
  <2>8. ASSUME ListenerThrows PROVE Maps
    BY <2>8, ListenerThrowsMaps
  <2>9. ASSUME EmitReturns PROVE Maps
    BY <2>9, EmitReturnsMaps
  <2>10. ASSUME UNCHANGED vars PROVE Maps
    BY <1>1, <2>10, StutterMaps
  <2> QED
    BY <2>1, <2>2, <2>3, <2>4, <2>5, <2>6, <2>7, <2>8, <2>9, <2>10 DEF Next
<1> QED BY <1>1, <1>2 DEF Maps, EmitterInv

LEMMA InitMaps == Init => EmitterInv /\ Emitter!Init
<1> SUFFICES ASSUME Init PROVE EmitterInv /\ Emitter!Init
  OBVIOUS
<1>1. entries = <<>> /\ table = <<>> /\ stack = <<>>
  BY DEF Init
<1>2. TableInv
  BY TableInit
<1>3. ToSet(table) = {}
  BY <1>1, EmptyLists, ListedSet
<1>4. Present = {}
  BY <1>3 DEF Present
<1>5. Lists(<<>>, Present, NameOrder)
  BY <1>4, EmptyLists
<1>6. EventNames = <<>> /\ NamesInv
  BY <1>2, <1>5, OneListOfNames DEF NamesUnique, NamesInv
<1>7. \A e \in Events : EventLists[e] = <<>>
  BY <1>2, <1>4, PresentNames
<1>8. EventLists = [e \in Events |-> <<>>]
  <2>1. PICK k : k = EventLists
    OBVIOUS
  <2>2. k = [e \in Events |-> k[e]] /\ \A e \in Events : k[e] = <<>>
    BY <1>7, <2>1 DEF EventLists
  <2>3. k = [e \in Events |-> <<>>]
    BY <2>2
  <2> QED BY <2>1, <2>3
<1>9. Fired = {}
  BY <1>1 DEF Fired
<1>10. Emissions = <<>>
  BY <1>1, CallsEmpty DEF Emissions
<1> QED BY <1>2, <1>6, <1>8, <1>9, <1>10 DEF EmitterInv, Emitter!Init

(* The inductive invariant of the listener table: identities and snapshots *)
(* in order of registration, one order number for each name registered,    *)
(* only once entries ever fired, and names listed by their keys, each once. *)
THEOREM EmitterInvariant == Spec => []EmitterInv
  BY InitMaps, StepMaps, PTL DEF Spec

(* The listener table implements Node's emitter, for every set of names and *)
(* of listeners, every limit and every depth of nested emissions.           *)
THEOREM TableImplementsEmitter == Spec => ImplementsEmitter
<1>1. EmitterInv => TypeOK
  BY DEF EmitterInv, TableInv
<1> QED BY <1>1, InitMaps, StepMaps, PTL DEF Spec, ImplementsEmitter, Emitter!Spec
=============================================================================
