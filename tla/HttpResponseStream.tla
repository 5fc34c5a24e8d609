------------------------- MODULE HttpResponseStream -------------------------
(***************************************************************************)
(* HttpResponseStreamV2 of modules/node-http/src/lib.rs: the logical state *)
(* of one host-owned streaming response as a plain Rust struct.  A call    *)
(* that returns an error changes nothing and is not a step, except that    *)
(* events with a wrong sequence number are offered and must be refused.    *)
(***************************************************************************)
EXTENDS Naturals, Sequences

CONSTANTS
  Heads,       \* what set_status and set_header can make of status and headers
  DefaultHead, \* status 200 and no headers
  MaxSequence  \* bound: the largest sequence number

ASSUME HttpResponseStreamAssumption ==
  /\ DefaultHead \in Heads
  /\ MaxSequence \in Nat

VARIABLES
  lifecycle, next_sequence, head, actions,
  delivered  \* history: the numbers of the events that were accepted

streamVars == <<lifecycle, next_sequence, head, actions, delivered>>

Lifecycles == {"buffered", "streaming", "ended", "closed"}

StartActions == [op : {"start"}, sequence : Nat \ {0}, head : Heads]
BodyActions == [op : {"write", "end"}, sequence : Nat \ {0}]
Actions == StartActions \union BodyActions

StreamTypeOK ==
  /\ lifecycle \in Lifecycles
  /\ next_sequence \in Nat \ {0}
  /\ head \in Heads
  /\ actions \in Seq(Actions)
  /\ delivered \subseteq Nat \ {0}

-----------------------------------------------------------------------------

FirstSequence == 1

StreamInit ==
  /\ lifecycle = "buffered"
  /\ next_sequence = FirstSequence
  /\ head = DefaultHead
  /\ actions = <<>>
  /\ delivered = {}

Bounded == next_sequence < MaxSequence

\* Mutant: committed headers can still be changed.
HeadNeverCommitted == lifecycle # "closed"

\* require_buffered
HeadOpen == lifecycle = "buffered"

\* set_status and set_header
SetHead(h) ==
  /\ HeadOpen
  /\ head' = h
  /\ UNCHANGED <<lifecycle, next_sequence, actions, delivered>>

StartAction == [op |-> "start", sequence |-> next_sequence, head |-> head]

BodyAction(op, n) == [op |-> op, sequence |-> n]

\* The lifecycle after start()
Started == "streaming"

FlushHeaders ==
  /\ Bounded
  /\ lifecycle = "buffered"
  /\ lifecycle' = Started
  /\ next_sequence' = next_sequence + 1
  /\ actions' = Append(actions, StartAction)
  /\ UNCHANGED <<head, delivered>>

\* write() starts a buffered response by itself.
WriteFirst ==
  /\ Bounded
  /\ lifecycle = "buffered"
  /\ lifecycle' = Started
  /\ next_sequence' = next_sequence + 2
  /\ actions' = actions \o <<StartAction,
                             BodyAction("write", next_sequence + 1)>>
  /\ UNCHANGED <<head, delivered>>

Write ==
  /\ Bounded
  /\ lifecycle = "streaming"
  /\ next_sequence' = next_sequence + 1
  /\ actions' = Append(actions, BodyAction("write", next_sequence))
  /\ UNCHANGED <<lifecycle, head, delivered>>

\* The buffered encoding carries the body, no action is pushed.
EndBuffered ==
  /\ lifecycle = "buffered"
  /\ lifecycle' = "ended"
  /\ UNCHANGED <<next_sequence, head, actions, delivered>>

EndStreaming ==
  /\ Bounded
  /\ lifecycle = "streaming"
  /\ lifecycle' = "ended"
  /\ next_sequence' = next_sequence + 1
  /\ actions' = Append(actions, BodyAction("end", next_sequence))
  /\ UNCHANGED <<head, delivered>>

\* Mutant: a repeated event is taken again.
NotAhead(n) == n <= next_sequence

\* The sequence check of deliver_event
InSequence(n) == n = next_sequence

Live == lifecycle \in {"buffered", "streaming"}

\* Mutant: the DrainBeforeStreaming check is missing.
DrainWheneverLive == Live

DrainOpen == lifecycle = "streaming"

DeliverDrain(n) ==
  /\ Bounded
  /\ InSequence(n)
  /\ DrainOpen
  /\ next_sequence' = next_sequence + 1
  /\ delivered' = delivered \union {n}
  /\ UNCHANGED <<lifecycle, head, actions>>

DeliverClose(n) ==
  /\ Bounded
  /\ InSequence(n)
  /\ Live
  /\ lifecycle' = "closed"
  /\ next_sequence' = next_sequence + 1
  /\ delivered' = delivered \union {n}
  /\ UNCHANGED <<head, actions>>

StreamNext ==
  \/ \E h \in Heads : SetHead(h)
  \/ FlushHeaders
  \/ WriteFirst
  \/ Write
  \/ EndBuffered
  \/ EndStreaming
  \/ \E n \in 1..MaxSequence : DeliverDrain(n) \/ DeliverClose(n)

StreamSpec == StreamInit /\ [][StreamNext]_streamVars

-----------------------------------------------------------------------------

\* The actions form one response: a start first and only there, at most one
\* end, last, and none at all before streaming.  actions() exposes the list
\* as the contract of the response.
WellFormed ==
  /\ \A i \in DOMAIN actions :
       /\ actions[i].op = "start" <=> i = 1
       /\ actions[i].op = "end" => i = Len(actions) /\ lifecycle = "ended"
  /\ lifecycle = "buffered" => actions = <<>>
  /\ lifecycle = "streaming" => actions # <<>>

SentNumbers == {actions[i].sequence : i \in DOMAIN actions}

\* Module and host draw from one counter: every number below next_sequence
\* was used, and none by both an action and an event.
NumbersUsedOnce ==
  /\ SentNumbers \union delivered = 1..(next_sequence - 1)
  /\ SentNumbers \intersect delivered = {}

\* The actions go up in number, so no two of them share one.
NumbersIncrease ==
  \A i, j \in DOMAIN actions :
    i < j => actions[i].sequence < actions[j].sequence

\* The start carries the last status and headers that were accepted: what is
\* set after it would be lost without an error.
HeadCommitted == actions # <<>> => actions[1].head = head

Wire == INSTANCE HttpWire WITH
  phase <- lifecycle,
  next <- next_sequence,
  actions <- [i \in DOMAIN actions |->
    [op |-> actions[i].op, sequence |-> actions[i].sequence]]

\* The struct keeps the contract of a streamed response.
ImplementsWire == Wire!Spec
=============================================================================
