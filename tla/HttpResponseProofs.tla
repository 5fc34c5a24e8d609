------------------------- MODULE HttpResponseProofs -------------------------
(***************************************************************************)
(* Proofs about HttpResponse.  The inductive invariant adds to the checked *)
(* properties what they rest on: nothing leaves the module before a commit *)
(* (Uncommitted means no action and no reply), a response that streams or  *)
(* has ended is committed, and what was committed has lost its framing     *)
(* headers when it has no body.                                            *)
(***************************************************************************)
EXTENDS HttpResponse, SequenceTheorems, TLAPS

-----------------------------------------------------------------------------
\* Lists of numbered actions.

\* The numbers of list s rise, and with the event numbers D they are all the
\* numbers below n, each used once.
Counted(s, n, D) ==
  /\ {s[i].sequence : i \in DOMAIN s} \union D = 1..(n - 1)
  /\ {s[i].sequence : i \in DOMAIN s} \intersect D = {}
  /\ \A i, j \in DOMAIN s : i < j => s[i].sequence < s[j].sequence

\* A list one action longer.
LEMMA AppendShape ==
  ASSUME NEW S, NEW s \in Seq(S), NEW a \in S
  PROVE  LET t == Append(s, a)
         IN /\ t \in Seq(S)
            /\ Len(t) = Len(s) + 1
            /\ DOMAIN t = DOMAIN s \union {Len(s) + 1}
            /\ \A i \in DOMAIN s : t[i] = s[i]
            /\ t[Len(s) + 1] = a
            /\ DOMAIN s = 1..Len(s)
            /\ Len(s) \in Nat
  OBVIOUS

\* An action with the next number keeps the count.
LEMMA AppendCounted ==
  ASSUME NEW S, NEW s \in Seq(S), NEW n \in Nat \ {0}, NEW D, Counted(s, n, D),
         NEW a \in S, a.sequence = n
  PROVE  Counted(Append(s, a), n + 1, D)
<1> DEFINE t == Append(s, a)
           L == Len(s)
           N(l) == {l[i].sequence : i \in DOMAIN l}
<1>1. /\ DOMAIN t = DOMAIN s \union {L + 1}
      /\ \A i \in DOMAIN s : t[i] = s[i]
      /\ t[L + 1] = a
      /\ DOMAIN s = 1..L
      /\ L \in Nat
  BY AppendShape
<1>2. N(t) = N(s) \union {n}
  BY <1>1
<1>3. /\ n \notin N(s) \union D
      /\ \A i \in DOMAIN s : s[i].sequence \in 1..(n - 1)
  <2>1. N(s) \union D = 1..(n - 1)
    BY DEF Counted
  <2>2. n \notin 1..(n - 1)
    OBVIOUS
  <2>3. \A i \in DOMAIN s : s[i].sequence \in N(s)
    OBVIOUS
  <2> QED BY <2>1, <2>2, <2>3
<1>4. (1..(n - 1)) \union {n} = 1..((n + 1) - 1)
  OBVIOUS
<1>5. N(t) \union D = 1..((n + 1) - 1) /\ N(t) \intersect D = {}
  BY <1>2, <1>3, <1>4, ZenonT(60) DEF Counted
<1>6. \A i, j \in DOMAIN t : i < j => t[i].sequence < t[j].sequence
  BY <1>1, <1>3 DEF Counted
<1> QED BY <1>5, <1>6 DEF Counted

\* An event with the next number keeps the count.
LEMMA EventCounted ==
  ASSUME NEW s, NEW n \in Nat \ {0}, NEW D, Counted(s, n, D)
  PROVE  Counted(s, n + 1, D \union {n})
<1> DEFINE N == {s[i].sequence : i \in DOMAIN s}
<1>1. N \union D = 1..(n - 1) /\ N \intersect D = {}
  BY DEF Counted
<1>2. (1..(n - 1)) \union {n} = 1..((n + 1) - 1) /\ n \notin 1..(n - 1)
  OBVIOUS
<1> HIDE DEF N
<1>3. N \union (D \union {n}) = 1..((n + 1) - 1)
      /\ N \intersect (D \union {n}) = {}
  BY <1>1, <1>2
<1> QED BY <1>3 DEF Counted, N

\* What the wire shows of an action.
Entry(a) == [op |-> a.op, sequence |-> a.sequence]

OnWire(s) == [i \in DOMAIN s |-> Entry(s[i])]

\* The wire shows one action more.
LEMMA OnWireGrows ==
  ASSUME NEW S, NEW s \in Seq(S), NEW a \in S
  PROVE  OnWire(Append(s, a)) = Append(OnWire(s), Entry(a))
<1> DEFINE T == {Entry(x) : x \in S}
           t == Append(s, a)
<1>1. /\ DOMAIN t = 1..(Len(s) + 1) /\ DOMAIN s = 1..Len(s) /\ Len(s) \in Nat
      /\ \A i \in DOMAIN s : t[i] = s[i] /\ s[i] \in S
      /\ t[Len(s) + 1] = a /\ \A i \in DOMAIN t : t[i] \in S
  OBVIOUS
<1> HIDE DEF t
<1>2. /\ OnWire(s) \in Seq(T) /\ Len(OnWire(s)) = Len(s)
      /\ \A i \in 1..Len(s) : OnWire(s)[i] = Entry(s[i])
  BY <1>1 DEF OnWire
<1>3. /\ OnWire(t) \in Seq(T) /\ Len(OnWire(t)) = Len(s) + 1
      /\ \A i \in 1..(Len(s) + 1) : OnWire(t)[i] = Entry(t[i])
  BY <1>1 DEF OnWire
<1>4. Entry(a) \in T
  OBVIOUS
<1>5. PICK u \in Seq(T) : u = OnWire(s)
  BY <1>2
<1>6. PICK e \in T : e = Entry(a)
  BY <1>4
<1> HIDE DEF T
<1>7. /\ Append(u, e) \in Seq(T) /\ Len(Append(u, e)) = Len(u) + 1
      /\ \A i \in 1..Len(u) : Append(u, e)[i] = u[i]
      /\ Append(u, e)[Len(u) + 1] = e
  OBVIOUS
<1>8. OnWire(t) = Append(u, e)
  BY <1>1, <1>2, <1>3, <1>5, <1>6, <1>7, SeqEqual
<1> QED BY <1>5, <1>6, <1>8 DEF t

-----------------------------------------------------------------------------
\* The invariant.

\* An action agrees with what is committed.
Agrees(a) ==
  IF a.op = "start" THEN a.status = committed /\ a.headers = headers
                    ELSE a.bytes => BodyAllowed(committed)

ReplyAgrees(r) ==
  /\ r.status = committed
  /\ r.headers = headers
  /\ r.bytes => BodyAllowed(committed)

HeadInv ==
  /\ committed = Uncommitted => actions = <<>> /\ replies = {}
  /\ committed = Uncommitted => lifecycle \in {"buffered", "closed"}
  /\ committed \in BodilessStatuses => headers \intersect FramingNames = {}
  /\ \A i \in DOMAIN actions : Agrees(actions[i])
  /\ \A r \in replies : ReplyAgrees(r)

IndInv == TypeOK /\ HeadInv /\ Counted(actions, sequence, delivered)

-----------------------------------------------------------------------------

\* What a commit leaves: a first one fixes status and headers, a later one
\* changes nothing.
LEMMA CommitFacts ==
  ASSUME TypeOK, HeadInv, CommitAllowed,
         NEW status \in Statuses, NEW names \in SUBSET Names,
         committed = Uncommitted => status \in FinalStatuses,
         committed # Uncommitted => names = headers,
         CommitAs(status, names)
  PROVE  /\ committed' \in FinalStatuses
         /\ headers' \subseteq Names
         /\ committed # Uncommitted => committed' = committed
                                       /\ headers' = headers
         /\ committed' \in BodilessStatuses
              => headers' \intersect FramingNames = {}
  BY HttpResponseAssumption
     DEF TypeOK, HeadInv, CommitAllowed, CommitAs, CommittedStatus,
         CommittedNames, Commitments, Statuses

(* commit() keeps the committed head final, permanent and free of framing
   where the status forbids it. *)
LEMMA CommitStep ==
  ASSUME TypeOK, HeadInv, Commit
  PROVE  /\ committed' \in FinalStatuses
         /\ headers' \subseteq Names
         /\ committed # Uncommitted => committed' = committed
                                       /\ headers' = headers
         /\ committed' \in BodilessStatuses
              => headers' \intersect FramingNames = {}
<1>1. statusCode \in Statuses /\ headers \in SUBSET Names
  BY DEF TypeOK
<1>2. committed = Uncommitted => statusCode \in FinalStatuses
  BY DEF Commit, CommitAllowed
<1> QED BY <1>1, <1>2, CommitFacts DEF Commit

\* What a step may do to the stream: it keeps the types and the count, and
\* every action it adds agrees with what is committed then.
StreamFacts ==
  /\ lifecycle' \in Lifecycles
  /\ sequence' \in Nat \ {0}
  /\ actions' \in Seq(Actions)
  /\ Counted(actions', sequence', delivered')
  /\ \A i \in DOMAIN actions' :
       \/ i \in DOMAIN actions /\ actions'[i] = actions[i]
       \/ Agrees(actions[i])'

\* A start, right after a commit.
LEMMA StartFacts ==
  ASSUME TypeOK, committed' \in FinalStatuses, headers' \subseteq Names
  PROVE  /\ StartAction \in Actions
         /\ StartAction.sequence = sequence
         /\ StartAction.op = "start"
         /\ StartAction.status = committed'
         /\ StartAction.headers = headers'
  BY DEF TypeOK, StartAction, StartActions, Actions, Commitments

\* A write or an end: bytes only where the committed status allows them.
LEMMA BodyFacts ==
  ASSUME UNCHANGED method, NEW op \in {"write", "end"}, NEW n \in Nat \ {0},
         NEW bytes \in BOOLEAN
  PROVE  /\ BodyAction(op, n, bytes) \in Actions
         /\ BodyAction(op, n, bytes).sequence = n
         /\ BodyAction(op, n, bytes).op = op
         /\ BodyAction(op, n, bytes).bytes => BodyAllowed(committed)'
<1>1. (bytes /\ BodyAllowed(committed')) \in BOOLEAN
  BY DEF BodyAllowed
<1>2. BodyAllowed(committed') = BodyAllowed(committed)'
  BY DEF BodyAllowed
<1> QED BY <1>1, <1>2 DEF BodyAction, BodyActions, Actions

(* A step that neither sends nor delivers keeps what is known of the stream. *)
LEMMA UnchangedFacts ==
  ASSUME IndInv, UNCHANGED <<stream, delivered>>
  PROVE  StreamFacts
  BY DEF IndInv, TypeOK, stream, StreamFacts

(* Sending the start after the commit keeps what is known of the stream. *)
LEMMA StartedFacts ==
  ASSUME IndInv, Started, UNCHANGED <<method, delivered>>,
         committed' \in FinalStatuses, headers' \subseteq Names
  PROVE  StreamFacts
<1>1. /\ TypeOK /\ actions \in Seq(Actions) /\ sequence \in Nat \ {0}
      /\ Counted(actions, sequence, delivered)
  BY DEF IndInv, TypeOK
<1>2. StartAction \in Actions /\ StartAction.sequence = sequence
  BY <1>1, StartFacts
<1>3. actions' = Append(actions, StartAction) /\ sequence' = sequence + 1
      /\ lifecycle' = "streaming" /\ delivered' = delivered
  BY DEF Started
<1>4. Counted(actions', sequence', delivered')
  BY <1>1, <1>2, <1>3, AppendCounted
<1>5. \A i \in DOMAIN actions' :
        \/ i \in DOMAIN actions /\ actions'[i] = actions[i]
        \/ actions'[i] = StartAction
  BY <1>1, <1>2, <1>3, AppendShape
<1>6. ASSUME NEW i \in DOMAIN actions', actions'[i] = StartAction
      PROVE  Agrees(actions[i])'
  BY <1>1, <1>6, StartFacts DEF Agrees
<1>7. actions' \in Seq(Actions)
  BY <1>1, <1>2, <1>3, AppendShape
<1> QED BY <1>1, <1>3, <1>4, <1>5, <1>6, <1>7 DEF StreamFacts, Lifecycles

(* Sending a write or the end keeps what is known of the stream. *)
LEMMA SentFacts ==
  ASSUME IndInv, NEW op \in {"write", "end"}, NEW bytes \in BOOLEAN,
         NEW after \in Lifecycles, Sent(op, bytes, after),
         UNCHANGED <<method, delivered>>
  PROVE  StreamFacts
<1> DEFINE b == BodyAction(op, sequence, bytes)
<1>1. /\ actions \in Seq(Actions) /\ sequence \in Nat \ {0}
      /\ Counted(actions, sequence, delivered)
  BY DEF IndInv, TypeOK
<1>2. /\ b \in Actions /\ b.sequence = sequence /\ b.op = op
      /\ b.bytes => BodyAllowed(committed)'
  BY <1>1, BodyFacts
<1>3. actions' = Append(actions, b) /\ sequence' = sequence + 1
      /\ lifecycle' = after /\ delivered' = delivered
  BY DEF Sent
<1> HIDE DEF b
<1>4. Counted(actions', sequence', delivered')
  BY <1>1, <1>2, <1>3, AppendCounted
<1>5. \A i \in DOMAIN actions' :
        \/ i \in DOMAIN actions /\ actions'[i] = actions[i]
        \/ actions'[i] = b
  BY <1>1, <1>2, <1>3, AppendShape
<1>6. ASSUME NEW i \in DOMAIN actions', actions'[i] = b
      PROVE  Agrees(actions[i])'
  BY <1>2, <1>6 DEF Agrees
<1>7. actions' \in Seq(Actions)
  BY <1>1, <1>2, <1>3, AppendShape
<1> QED BY <1>1, <1>3, <1>4, <1>5, <1>6, <1>7 DEF StreamFacts

(* A write or an end that first starts the response keeps what is known
   of the stream, wherever the host refuses it. *)
LEMMA StartedAndFacts ==
  ASSUME IndInv, NEW op \in {"write", "end"}, NEW bytes \in BOOLEAN,
         NEW after \in Lifecycles, StartedAnd(op, bytes, after),
         UNCHANGED <<method, delivered>>,
         committed' \in FinalStatuses, headers' \subseteq Names
  PROVE  StreamFacts
<1> DEFINE a == StartAction
           b == BodyAction(op, sequence + 1, bytes)
           s == Append(actions, a)
<1>1. /\ TypeOK /\ actions \in Seq(Actions) /\ sequence \in Nat \ {0}
      /\ sequence + 1 \in Nat \ {0}
      /\ Counted(actions, sequence, delivered)
  BY DEF IndInv, TypeOK
<1>2. /\ a \in Actions /\ a.sequence = sequence /\ a.op = "start"
      /\ a.status = committed' /\ a.headers = headers'
  BY <1>1, StartFacts
<1>3. /\ b \in Actions /\ b.sequence = sequence + 1 /\ b.op = op
      /\ b.bytes => BodyAllowed(committed)'
  BY <1>1, BodyFacts
<1>4. actions' = Append(s, b) /\ sequence' = (sequence + 1) + 1
      /\ lifecycle' = after /\ delivered' = delivered
  BY <1>1 DEF StartedAnd
<1> HIDE DEF a, b
<1>5. s \in Seq(Actions) /\ Counted(s, sequence + 1, delivered)
  BY <1>1, <1>2, AppendCounted, AppendShape
<1> HIDE DEF s
<1>6. Counted(actions', sequence', delivered')
  BY <1>1, <1>3, <1>4, <1>5, AppendCounted
<1>7. \A i \in DOMAIN actions' :
        \/ i \in DOMAIN actions /\ actions'[i] = actions[i]
        \/ actions'[i] = a
        \/ actions'[i] = b
  <2>1. \A i \in DOMAIN s :
          (i \in DOMAIN actions /\ s[i] = actions[i]) \/ s[i] = a
    BY <1>1, <1>2, AppendShape DEF s
  <2>2. \A i \in DOMAIN actions' :
          (i \in DOMAIN s /\ actions'[i] = s[i]) \/ actions'[i] = b
    BY <1>3, <1>4, <1>5, AppendShape
  <2> QED BY <2>1, <2>2
<1>8. ASSUME NEW i \in DOMAIN actions', actions'[i] = a \/ actions'[i] = b
      PROVE  Agrees(actions[i])'
  BY <1>2, <1>3, <1>8 DEF Agrees
<1>9. actions' \in Seq(Actions)
  BY <1>3, <1>4, <1>5, AppendShape
<1>10. lifecycle' \in Lifecycles /\ sequence' \in Nat \ {0}
  BY <1>1, <1>4
<1>11. \A i \in DOMAIN actions' :
         \/ i \in DOMAIN actions /\ actions'[i] = actions[i]
         \/ Agrees(actions[i])'
  BY <1>7, <1>8
<1> QED BY <1>6, <1>9, <1>10, <1>11 DEF StreamFacts

-----------------------------------------------------------------------------

\* What was sent before stays right, since it was sent after a commit.
LEMMA StillAgree ==
  ASSUME HeadInv, UNCHANGED <<method, replies>>, StreamFacts,
         committed # Uncommitted => UNCHANGED <<committed, headers>>
  PROVE  /\ \A i \in DOMAIN actions' : Agrees(actions[i])'
         /\ \A r \in replies' : ReplyAgrees(r)'
<1>1. CASE committed = Uncommitted
  BY <1>1 DEF HeadInv, StreamFacts
<1>2. CASE committed # Uncommitted
  <2>1. \A a : Agrees(a) => Agrees(a)'
    BY <1>2 DEF Agrees, BodyAllowed
  <2>2. \A r : ReplyAgrees(r) => ReplyAgrees(r)'
    BY <1>2 DEF ReplyAgrees, BodyAllowed
  <2>3. ASSUME NEW i \in DOMAIN actions,
               actions'[i] = actions[i]
        PROVE  Agrees(actions[i])'
    BY <1>2, <2>3 DEF Agrees, BodyAllowed, HeadInv
  <2> QED BY <2>2, <2>3 DEF HeadInv, StreamFacts
<1> QED BY <1>1, <1>2

\* A step that leaves the response committed keeps the invariant.
LEMMA CommittedStep ==
  ASSUME IndInv, StreamFacts, UNCHANGED <<method, streamed, replies>>,
         statusCode' \in Statuses, buffered' \in BOOLEAN,
         closeDelivered' \in BOOLEAN, delivered' \subseteq Nat \ {0},
         committed' \in FinalStatuses, headers' \subseteq Names,
         committed # Uncommitted => UNCHANGED <<committed, headers>>,
         committed' \in BodilessStatuses
           => headers' \intersect FramingNames = {}
  PROVE  IndInv'
<1>1. TypeOK /\ HeadInv
  BY DEF IndInv
<1>2. TypeOK'
  BY <1>1 DEF TypeOK, StreamFacts, Commitments
<1>3. committed' # Uncommitted
  BY HttpResponseAssumption
<1>4. HeadInv'
  BY <1>1, <1>3, StillAgree DEF HeadInv
<1> QED BY <1>2, <1>4 DEF IndInv, StreamFacts

(* A new response satisfies the inductive invariant. *)
LEMMA InitIndInv == Init => IndInv
<1> SUFFICES ASSUME Init PROVE IndInv
  OBVIOUS
<1>1. TypeOK
  <2>1. 200 \in Statuses /\ actions \in Seq(Actions)
    BY HttpResponseAssumption DEF Init, Statuses
  <2>2. headers \subseteq Names /\ delivered \subseteq Nat \ {0}
        /\ replies \subseteq Replies /\ sequence \in Nat \ {0}
    BY DEF Init
  <2> QED BY <2>1, <2>2 DEF Init, TypeOK, Lifecycles, Commitments
<1>2. DOMAIN actions = {} /\ delivered = {} /\ replies = {} /\ sequence = 1
  BY DEF Init
<1>3. HeadInv
  BY <1>2, HttpResponseAssumption DEF Init, HeadInv
<1>4. Counted(actions, sequence, delivered)
  <2>1. 1..(1 - 1) = {}
    OBVIOUS
  <2>2. {actions[i].sequence : i \in DOMAIN actions} = {}
    BY <1>2
  <2> QED BY <1>2, <2>1, <2>2 DEF Counted
<1> QED BY <1>1, <1>3, <1>4 DEF IndInv

(* Every method and every host event preserves the inductive invariant. *)
LEMMA NextIndInv == IndInv /\ [Next]_vars => IndInv'
<1> SUFFICES ASSUME IndInv, [Next]_vars PROVE IndInv'
  OBVIOUS
<1>t. TypeOK /\ HeadInv /\ Counted(actions, sequence, delivered)
  BY DEF IndInv
<1>c. lifecycle \in {"streaming", "ended"} => committed \in FinalStatuses
  BY <1>t DEF HeadInv, TypeOK, Commitments
<1>1. ASSUME NEW status \in Statuses, AssignStatusCode(status) PROVE IndInv'
  <2>1. TypeOK'
    BY <1>1, <1>t DEF AssignStatusCode, TypeOK, stream
  <2>2. HeadInv'
    BY <1>1, <1>t
       DEF AssignStatusCode, HeadInv, Agrees, ReplyAgrees, BodyAllowed, stream
  <2> QED BY <1>1, <1>t, <2>1, <2>2 DEF AssignStatusCode, IndInv, stream
<1>2. ASSUME NEW name \in Names, SetHeader(name) PROVE IndInv'
  <2>1. TypeOK'
    BY <1>2, <1>t DEF SetHeader, TypeOK, stream
  <2>2. /\ actions' = <<>> /\ replies' = {} /\ committed' = Uncommitted
        /\ lifecycle' \in {"buffered", "closed"}
    BY <1>2, <1>t DEF SetHeader, HeadInv, stream
  <2>3. HeadInv'
    BY <2>2, HttpResponseAssumption DEF HeadInv
  <2> QED BY <1>2, <1>t, <2>1, <2>3 DEF SetHeader, IndInv, stream
<1>3. ASSUME NEW status \in FinalStatuses, NEW names \in SUBSET Names,
             WriteHead(status, names)
      PROVE  IndInv'
  <2> DEFINE all == headers \union names
  <2>1. all \in SUBSET Names /\ status \in Statuses /\ CommitAs(status, all)
        /\ committed = Uncommitted
    BY <1>3, <1>t DEF WriteHead, TypeOK, Statuses
  <2> HIDE DEF all
  <2>2. /\ committed' \in FinalStatuses
        /\ headers' \subseteq Names
        /\ committed' \in BodilessStatuses
             => headers' \intersect FramingNames = {}
    BY <1>t, <2>1, HttpResponseAssumption
       DEF CommitAs, CommittedStatus, CommittedNames
  <2>3. StreamFacts
    <3>1. CASE Refused
      <4>1. UNCHANGED <<stream, delivered>>
        BY <1>3, <3>1 DEF WriteHead, Refused, AfterRefusal, stream
      <4> QED BY <4>1, UnchangedFacts
    <3>2. CASE Started
      BY <1>3, <2>2, <3>2, StartedFacts DEF WriteHead
    <3>3. CASE UNCHANGED stream
      BY <1>3, <3>3, UnchangedFacts DEF WriteHead
    <3> QED BY <1>3, <3>1, <3>2, <3>3 DEF WriteHead
  <2> QED BY <1>3, <1>t, <2>1, <2>2, <2>3, CommittedStep
          DEF WriteHead, TypeOK
<1>4. CASE FlushHeaders
  <2>1. StreamFacts
    <3>1. CASE Refused
      <4>1. UNCHANGED <<stream, delivered>>
        BY <1>4, <3>1 DEF FlushHeaders, Refused, AfterRefusal, stream
      <4> QED BY <4>1, UnchangedFacts
    <3>2. CASE Started
      BY <1>4, <1>t, <3>2, CommitStep, StartedFacts DEF FlushHeaders
    <3> QED BY <1>4, <3>1, <3>2 DEF FlushHeaders
  <2> QED BY <1>4, <1>t, <2>1, CommitStep, CommittedStep
          DEF FlushHeaders, TypeOK
<1>5. ASSUME NEW bytes \in BOOLEAN, WriteFirst(bytes) PROVE IndInv'
  <2>1. StreamFacts
    <3>1. CASE Refused
      <4>1. UNCHANGED <<stream, delivered>>
        BY <1>5, <3>1 DEF WriteFirst, Refused, AfterRefusal, stream
      <4> QED BY <4>1, UnchangedFacts
    <3>2. CASE Started
      BY <1>5, <1>t, <3>2, CommitStep, StartedFacts DEF WriteFirst
    <3>3. CASE StartedAnd("write", bytes, "streaming")
      BY <1>5, <1>t, <3>3, CommitStep, StartedAndFacts
         DEF WriteFirst, Lifecycles
    <3> QED BY <1>5, <3>1, <3>2, <3>3 DEF WriteFirst
  <2> QED BY <1>5, <1>t, <2>1, CommitStep, CommittedStep
          DEF WriteFirst, TypeOK
<1>6. ASSUME NEW bytes \in BOOLEAN, EndFirst(bytes) PROVE IndInv'
  <2>1. StreamFacts
    <3>1. CASE Refused
      <4>1. UNCHANGED <<stream, delivered>>
        BY <1>6, <3>1 DEF EndFirst, Refused, AfterRefusal, stream
      <4> QED BY <4>1, UnchangedFacts
    <3>2. CASE Started
      BY <1>6, <1>t, <3>2, CommitStep, StartedFacts DEF EndFirst
    <3>3. CASE StartedAnd("end", bytes, "ended")
      BY <1>6, <1>t, <3>3, CommitStep, StartedAndFacts
         DEF EndFirst, Lifecycles
    <3> QED BY <1>6, <3>1, <3>2, <3>3 DEF EndFirst
  <2> QED BY <1>6, <1>t, <2>1, CommitStep, CommittedStep
          DEF EndFirst, TypeOK
<1>7. ASSUME NEW bytes \in BOOLEAN,
             Write(bytes) \/ EndStreaming(bytes)
      PROVE  IndInv'
  <2>1. StreamFacts
    <3>1. CASE Write(bytes)
      BY <3>1, SentFacts DEF Write, Lifecycles
    <3>2. CASE EndStreaming(bytes)
      BY <3>2, SentFacts DEF EndStreaming, Lifecycles
    <3> QED BY <1>7, <3>1, <3>2
  <2>2. /\ UNCHANGED <<method, streamed, slots, closeDelivered, delivered,
                        replies>>
        /\ lifecycle = "streaming"
    BY <1>7 DEF Write, EndStreaming
  <2> QED BY <1>t, <1>c, <2>1, <2>2, CommittedStep
          DEF TypeOK, HeadInv, slots
<1>8. ASSUME NEW bytes \in BOOLEAN, EndBuffered(bytes) PROVE IndInv'
  <2>1. StreamFacts
    BY <1>8, <1>t DEF EndBuffered, StreamFacts, TypeOK, Lifecycles
  <2>2. buffered' \in BOOLEAN
    BY <1>8, <1>t DEF EndBuffered, TypeOK
  <2> QED BY <1>8, <1>t, <2>1, <2>2, CommitStep, CommittedStep
          DEF EndBuffered, TypeOK
<1>9. CASE Encode
  <2> DEFINE r == [status |-> committed', headers |-> headers',
                   bytes |-> buffered /\ BodyAllowed(committed')]
  <2>1. /\ committed \in FinalStatuses
        /\ UNCHANGED <<method, committed, headers, lifecycle, actions,
                       sequence, delivered>>
    BY <1>9, <1>c, <1>t, CommitStep, HttpResponseAssumption
       DEF Encode, stream
  <2>2. r \in Replies
    BY <1>t, <2>1 DEF Replies, TypeOK, Commitments, BodyAllowed
  <2>3. TypeOK'
    BY <1>9, <1>t, <2>1, <2>2 DEF Encode, TypeOK
  <2>n. PICK new : new = r
    OBVIOUS
  <2>4. ReplyAgrees(new)'
    BY <2>1, <2>n DEF ReplyAgrees, BodyAllowed
  <2>5. \A q \in replies : ReplyAgrees(q)'
    BY <1>t, <2>1 DEF HeadInv, ReplyAgrees, BodyAllowed
  <2>6. replies' = replies \union {r}
    BY <1>9 DEF Encode
  <2>7. \A i \in DOMAIN actions' : Agrees(actions[i])'
    BY <1>t, <2>1 DEF HeadInv, Agrees, BodyAllowed
  <2> HIDE DEF r
  <2>8. HeadInv'
    BY <1>t, <2>1, <2>n, <2>4, <2>5, <2>6, <2>7, HttpResponseAssumption
       DEF HeadInv
  <2> QED BY <1>t, <2>1, <2>3, <2>8 DEF IndInv
<1>10. ASSUME NEW n \in 1..MaxSequence, Drain(n) \/ Close(n) PROVE IndInv'
  <2>1. /\ delivered' = delivered \union {sequence}
        /\ sequence' = sequence + 1
        /\ UNCHANGED <<method, streamed, slots, actions, replies>>
        /\ lifecycle' \in {lifecycle, "closed"}
        /\ closeDelivered' \in {closeDelivered, TRUE}
    BY <1>10 DEF Drain, Close, InSequence
  <2>2. sequence \in Nat \ {0}
    BY <1>t DEF TypeOK
  <2>3. Counted(actions', sequence', delivered')
    BY <1>t, <2>1, <2>2, EventCounted
  <2>4. TypeOK'
    <3>1. delivered' \subseteq Nat \ {0}
      BY <1>t, <2>1, <2>2 DEF TypeOK
    <3>2. sequence' \in Nat \ {0} /\ lifecycle' \in Lifecycles
      BY <1>t, <2>1, <2>2 DEF TypeOK, Lifecycles
    <3>3. closeDelivered' \in BOOLEAN
      <4>1. closeDelivered \in BOOLEAN /\ TRUE \in BOOLEAN
        BY <1>t DEF TypeOK
      <4> QED BY <2>1, <4>1
    <3> QED BY <1>t, <2>1, <3>1, <3>2, <3>3 DEF TypeOK, slots
  <2>5. HeadInv'
    BY <1>t, <2>1 DEF HeadInv, Agrees, ReplyAgrees, BodyAllowed, slots
  <2> QED BY <2>3, <2>4, <2>5 DEF IndInv
<1>11. CASE UNCHANGED vars
  <2>1. TypeOK'
    BY <1>11, <1>t DEF vars, slots, stream, TypeOK
  <2>2. HeadInv'
    BY <1>11, <1>t
       DEF vars, slots, stream, HeadInv, Agrees, ReplyAgrees, BodyAllowed
  <2> QED BY <1>11, <1>t, <2>1, <2>2 DEF IndInv, vars, slots, stream
<1> QED BY <1>1, <1>2, <1>3, <1>4, <1>5, <1>6, <1>7, <1>8, <1>9, <1>10, <1>11
        DEF Next

(* The inductive invariant holds in every reachable state. *)
LEMMA ResponseInvariant == Spec => []IndInv
  BY InitIndInv, NextIndInv, PTL DEF Spec

\* The types of the slots and of everything that leaves the module.
THEOREM ResponseTypes == Spec => []TypeOK
<1>1. IndInv => TypeOK
  BY DEF IndInv
<1> QED BY <1>1, ResponseInvariant, PTL

\* Whatever scripts assign later and whatever the host refuses, only the
\* committed status and headers leave the module.
THEOREM ResponseOneHead == Spec => []OneHead
<1>1. IndInv => OneHead
  <2> SUFFICES ASSUME IndInv, NEW h \in Heads
               PROVE  h = [status |-> committed, headers |-> headers]
    BY DEF OneHead
  <2>1. CASE \E i \in DOMAIN actions :
               /\ actions[i].op = "start"
               /\ h = [status |-> actions[i].status,
                       headers |-> actions[i].headers]
    BY <2>1 DEF IndInv, HeadInv, Agrees
  <2>2. CASE \E r \in replies : h = [status |-> r.status, headers |-> r.headers]
    BY <2>2 DEF IndInv, HeadInv, ReplyAgrees
  <2> QED BY <2>1, <2>2 DEF Heads
<1> QED BY <1>1, ResponseInvariant, PTL

\* No head leaves before a commit, so each was checked to be final.
THEOREM ResponseFinalHeads == Spec => []FinalHeads
<1>1. IndInv => FinalHeads
  <2> SUFFICES ASSUME IndInv, NEW h \in Heads
               PROVE  h.status \in FinalStatuses
    BY DEF FinalHeads
  <2>1. CASE \E i \in DOMAIN actions :
               /\ actions[i].op = "start"
               /\ h = [status |-> actions[i].status,
                       headers |-> actions[i].headers]
    BY <2>1 DEF IndInv, TypeOK, Commitments, HeadInv, Agrees
  <2>2. CASE \E r \in replies : h = [status |-> r.status, headers |-> r.headers]
    BY <2>2 DEF IndInv, TypeOK, Commitments, HeadInv, ReplyAgrees
  <2> QED BY <2>1, <2>2 DEF Heads
<1> QED BY <1>1, ResponseInvariant, PTL

\* HEAD, 204 and 304 send no body byte, streamed or encoded.
THEOREM ResponseNoForbiddenBytes == Spec => []NoForbiddenBytes
<1>1. IndInv => NoForbiddenBytes
  BY DEF IndInv, HeadInv, Agrees, ReplyAgrees, BodyAllowed, NoForbiddenBytes
<1> QED BY <1>1, ResponseInvariant, PTL

\* 204 and 304 announce no body either.
THEOREM ResponseNoForbiddenFraming == Spec => []NoForbiddenFraming
<1>1. IndInv => NoForbiddenFraming
  <2> SUFFICES ASSUME IndInv, NEW h \in Heads, h.status \in BodilessStatuses
               PROVE  h.headers \intersect FramingNames = {}
    BY DEF NoForbiddenFraming
  <2>1. CASE \E i \in DOMAIN actions :
               /\ actions[i].op = "start"
               /\ h = [status |-> actions[i].status,
                       headers |-> actions[i].headers]
    BY <2>1 DEF IndInv, HeadInv, Agrees
  <2>2. CASE \E r \in replies : h = [status |-> r.status, headers |-> r.headers]
    BY <2>2 DEF IndInv, HeadInv, ReplyAgrees
  <2> QED BY <2>1, <2>2 DEF Heads
<1> QED BY <1>1, ResponseInvariant, PTL

\* Refusals leave no hole in the numbers and none is used twice.
THEOREM ResponseNumbersUsedOnce == Spec => []NumbersUsedOnce
<1>1. IndInv => NumbersUsedOnce
  BY DEF IndInv, Counted, NumbersUsedOnce, SentNumbers
<1> QED BY <1>1, ResponseInvariant, PTL

-----------------------------------------------------------------------------

\* HttpWire closes once; the module checks CLOSE_DELIVERED for that.
ClosedInv == lifecycle = "closed" => closeDelivered

(* A new response has not been closed. *)
LEMMA InitClosedInv == Init => ClosedInv
  BY DEF Init, ClosedInv

(* The closed mark and the lifecycle stay together. *)
LEMMA NextClosedInv == ClosedInv /\ [Next]_vars => ClosedInv'
<1> SUFFICES ASSUME ClosedInv, [Next]_vars PROVE ClosedInv'
  OBVIOUS
<1>1. ASSUME UNCHANGED <<lifecycle, closeDelivered>> PROVE ClosedInv'
  BY <1>1 DEF ClosedInv
<1>2. ASSUME lifecycle' \in {"streaming", "ended"} PROVE ClosedInv'
  BY <1>2 DEF ClosedInv
<1>3. ASSUME NEW status \in FinalStatuses, NEW names \in SUBSET Names,
             WriteHead(status, names)
      PROVE  ClosedInv'
  BY <1>1, <1>2, <1>3 DEF WriteHead, Refused, Started, stream
<1>4. CASE FlushHeaders
  BY <1>1, <1>2, <1>4 DEF FlushHeaders, Refused, Started
<1>5. ASSUME NEW bytes \in BOOLEAN,
             WriteFirst(bytes) \/ EndFirst(bytes)
      PROVE  ClosedInv'
  BY <1>1, <1>2, <1>5 DEF WriteFirst, EndFirst, Refused, Started, StartedAnd
<1>6. ASSUME NEW bytes \in BOOLEAN,
             Write(bytes) \/ EndStreaming(bytes) \/ EndBuffered(bytes)
      PROVE  ClosedInv'
  BY <1>2, <1>6 DEF Write, EndStreaming, EndBuffered, Sent
<1>7. ASSUME NEW n \in 1..MaxSequence, Drain(n) \/ Close(n)
      PROVE  ClosedInv'
  BY <1>1, <1>7 DEF Drain, Close, ClosedInv
<1>8. ASSUME \/ \E status \in Statuses : AssignStatusCode(status)
             \/ \E name \in Names : SetHeader(name)
             \/ Encode
             \/ UNCHANGED vars
      PROVE  ClosedInv'
  BY <1>1, <1>8 DEF AssignStatusCode, SetHeader, Encode, stream, vars
<1> QED BY <1>3, <1>4, <1>5, <1>6, <1>7, <1>8 DEF Next

(* The closed mark and the lifecycle agree in every reachable state. *)
LEMMA ClosedInvariant == Spec => []ClosedInv
  BY InitClosedInv, NextClosedInv, PTL DEF Spec

(* A new response is an empty stream. *)
LEMMA WireInit == Init => Wire!Init
  BY DEF Init, Wire!Init

\* The effects of one call on the stream, as HttpWire has them.
LEMMA WireStarted ==
  ASSUME IndInv, Started, lifecycle = "buffered",
         committed' \in FinalStatuses, headers' \subseteq Names
  PROVE  Wire!Start
<1>1. actions \in Seq(Actions) /\ sequence \in Nat \ {0} /\ TypeOK
  BY DEF IndInv, TypeOK
<1>2. /\ StartAction \in Actions /\ StartAction.sequence = sequence
      /\ StartAction.op = "start"
  BY <1>1, StartFacts
<1>3. OnWire(actions') = Append(OnWire(actions), Entry(StartAction))
  BY <1>1, <1>2, OnWireGrows DEF Started
<1>4. Wire!Send("start")
  BY <1>1, <1>2, <1>3 DEF Started, Entry, Wire!Send, Wire!Action, OnWire
<1> QED BY <1>4 DEF Started, Wire!Start

\* Starting and then writing or ending sends two actions.
LEMMA WireStartedAnd ==
  ASSUME IndInv, NEW op \in {"write", "end"}, NEW bytes \in BOOLEAN,
         NEW after \in Lifecycles, StartedAnd(op, bytes, after),
         UNCHANGED method, committed' \in FinalStatuses, headers' \subseteq Names
  PROVE  Wire!SendTwo("start", op)
<1> DEFINE b == BodyAction(op, sequence + 1, bytes)
<1>1. actions \in Seq(Actions) /\ sequence \in Nat \ {0} /\ TypeOK
      /\ sequence + 1 \in Nat \ {0}
  BY DEF IndInv, TypeOK
<1>2. /\ StartAction \in Actions /\ StartAction.sequence = sequence
      /\ StartAction.op = "start"
  BY <1>1, StartFacts
<1>3. b \in Actions /\ b.sequence = sequence + 1 /\ b.op = op
  BY <1>1, BodyFacts
<1>4. actions' = Append(Append(actions, StartAction), b)
  BY DEF StartedAnd
<1> HIDE DEF b
<1> DEFINE s == Append(actions, StartAction)
<1>5. s \in Seq(Actions) /\ OnWire(s) = Append(OnWire(actions), Entry(StartAction))
  BY <1>1, <1>2, AppendShape, OnWireGrows
<1> HIDE DEF s
<1>6. OnWire(Append(s, b)) = Append(Append(OnWire(actions), Entry(StartAction)), Entry(b))
  BY <1>3, <1>5, OnWireGrows
<1>7. OnWire(actions') = Append(Append(OnWire(actions), Entry(StartAction)), Entry(b))
  BY <1>4, <1>6 DEF s
<1>8. /\ Entry(StartAction) = Wire!Action("start", sequence)
      /\ Entry(b) = Wire!Action(op, sequence + 1)
  BY <1>2, <1>3 DEF Entry, Wire!Action
<1> QED BY <1>1, <1>7, <1>8 DEF StartedAnd, Entry, Wire!SendTwo, OnWire

\* Writing or ending a started response sends one.
LEMMA WireSent ==
  ASSUME IndInv, NEW op \in {"write", "end"}, NEW bytes \in BOOLEAN,
         NEW after \in Lifecycles, Sent(op, bytes, after), UNCHANGED method
  PROVE  Wire!Send(op)
<1> DEFINE b == BodyAction(op, sequence, bytes)
<1>1. actions \in Seq(Actions) /\ sequence \in Nat \ {0}
  BY DEF IndInv, TypeOK
<1>2. b \in Actions /\ b.sequence = sequence /\ b.op = op
  BY <1>1, BodyFacts
<1>3. actions' = Append(actions, b)
  BY DEF Sent
<1> HIDE DEF b
<1>4. OnWire(Append(actions, b)) = Append(OnWire(actions), Entry(b))
  BY <1>1, <1>2, OnWireGrows
<1>5. OnWire(actions') = Append(OnWire(actions), Wire!Action(op, sequence))
  BY <1>2, <1>3, <1>4 DEF Entry, Wire!Action
<1> QED BY <1>1, <1>5 DEF Sent, Entry, Wire!Send, OnWire

(* Every step of the response is a step of the stream or leaves it alone. *)
LEMMA WireStep ==
  IndInv /\ ClosedInv /\ [Next]_vars => [Wire!Next]_(Wire!vars)
<1> SUFFICES ASSUME IndInv, ClosedInv, [Next]_vars PROVE [Wire!Next]_(Wire!vars)
  OBVIOUS
<1>t. TypeOK /\ HeadInv
  BY DEF IndInv
<1>u. UNCHANGED stream => UNCHANGED Wire!vars
  BY DEF stream, Wire!vars
<1>r. Refused => UNCHANGED stream
  BY DEF Refused, AfterRefusal, stream
<1>1. ASSUME NEW status \in Statuses, AssignStatusCode(status)
      PROVE  UNCHANGED stream
  BY <1>1 DEF AssignStatusCode
<1>2. ASSUME NEW name \in Names, SetHeader(name) PROVE UNCHANGED stream
  BY <1>2 DEF SetHeader
<1>3. ASSUME NEW status \in FinalStatuses, NEW names \in SUBSET Names,
             WriteHead(status, names)
      PROVE  UNCHANGED stream \/ Wire!Start
  <2>1. committed' \in FinalStatuses /\ headers' \subseteq Names
    BY <1>3, <1>t
       DEF WriteHead, CommitAs, CommittedStatus, CommittedNames, TypeOK
  <2>2. CASE Started /\ lifecycle = "buffered"
    BY <2>1, <2>2, WireStarted
  <2> QED BY <1>3, <1>r, <2>2 DEF WriteHead
<1>4. CASE FlushHeaders
  <2>1. committed' \in FinalStatuses /\ headers' \subseteq Names
    BY <1>4, <1>t, CommitStep DEF FlushHeaders
  <2> QED BY <1>4, <1>r, <1>u, <2>1, WireStarted DEF FlushHeaders, Wire!Next
<1>5. ASSUME NEW bytes \in BOOLEAN, WriteFirst(bytes)
      PROVE  UNCHANGED stream \/ Wire!Start
  <2>1. committed' \in FinalStatuses /\ headers' \subseteq Names
        /\ lifecycle = "buffered" /\ UNCHANGED method
    BY <1>5, <1>t, CommitStep DEF WriteFirst
  <2>2. CASE StartedAnd("write", bytes, "streaming")
    <3>1. Wire!SendTwo("start", "write")
      BY <2>1, <2>2, WireStartedAnd DEF Lifecycles
    <3> QED BY <2>1, <2>2, <3>1 DEF StartedAnd, Wire!Start
  <2> QED BY <1>5, <1>r, <2>1, <2>2, WireStarted DEF WriteFirst
<1>6. ASSUME NEW bytes \in BOOLEAN, EndFirst(bytes)
      PROVE  UNCHANGED stream \/ Wire!Start
  <2>1. committed' \in FinalStatuses /\ headers' \subseteq Names
        /\ lifecycle = "buffered" /\ UNCHANGED method
    BY <1>6, <1>t, CommitStep DEF EndFirst
  <2>2. CASE StartedAnd("end", bytes, "ended")
    <3>1. Wire!SendTwo("start", "end")
      BY <2>1, <2>2, WireStartedAnd DEF Lifecycles
    <3> QED BY <2>1, <2>2, <3>1 DEF StartedAnd, Wire!Start
  <2> QED BY <1>6, <1>r, <2>1, <2>2, WireStarted DEF EndFirst
<1>7. ASSUME NEW bytes \in BOOLEAN, Write(bytes) PROVE Wire!Write
  <2>1. Wire!Send("write")
    BY <1>7, WireSent DEF Write, Lifecycles
  <2> QED BY <1>7, <2>1 DEF Write, Sent, Wire!Write
<1>8. ASSUME NEW bytes \in BOOLEAN, EndStreaming(bytes) PROVE Wire!End
  <2>1. Wire!Send("end")
    BY <1>8, WireSent DEF EndStreaming, Lifecycles
  <2> QED BY <1>8, <2>1 DEF EndStreaming, Sent, Wire!End
<1>9. ASSUME NEW bytes \in BOOLEAN, EndBuffered(bytes) PROVE Wire!EndBuffered
  BY <1>9 DEF EndBuffered, Wire!EndBuffered
<1>10. CASE Encode
  BY <1>10, <1>u DEF Encode
<1>11. ASSUME NEW n \in 1..MaxSequence, Drain(n) PROVE Wire!Drain
  BY <1>11 DEF Drain, Wire!Drain
<1>12. ASSUME NEW n \in 1..MaxSequence, Close(n) PROVE Wire!Close
  BY <1>12 DEF Close, ClosedInv, Wire!Close
<1>13. CASE UNCHANGED vars
  BY <1>13, <1>u DEF vars
<1> QED BY <1>u, <1>1, <1>2, <1>3, <1>4, <1>5, <1>6, <1>7, <1>8, <1>9, <1>10,
           <1>11, <1>12, <1>13 DEF Next, Wire!Next

\* Everything the response object sends is one stream the host can serve.
THEOREM ResponseImplementsWire == Spec => ImplementsWire
  BY WireInit, WireStep, ResponseInvariant, ClosedInvariant, PTL
     DEF Spec, ImplementsWire, Wire!Spec
=============================================================================
