---------------------------- MODULE SsePipeProofs ----------------------------
(***************************************************************************)
(* Proofs about SsePipe, up to the order of what a pipe writes.            *)
(*                                                                         *)
(* VersionsIncrease and GapsAreAnnounced speak of the frames on the wire,  *)
(* and neither is inductive: what a step writes was decided when the host  *)
(* answered a read, and what the host answers next depends on what it has  *)
(* answered already.  OrderInv therefore follows everything that is under  *)
(* way, from the oldest to the youngest: the frames written, the answered  *)
(* requests the pipe has not handled, the queue of the subscription and    *)
(* the version that is published next.  Each must go on where the one      *)
(* before it stopped, or announce that it does not: a snapshot sets the    *)
(* filter of the events behind it, and a batch behind an overflow begins   *)
(* with a reset.                                                           *)
(*                                                                         *)
(* The two theorems about order assume InOrder, that the host answers the  *)
(* reads of a subscription in the order they were asked: without it the    *)
(* pipe, which writes answers as they come, has nothing to restore an      *)
(* order from.                                                             *)
(***************************************************************************)
EXTENDS SsePipe, FiniteSetTheorems, SequenceTheorems, NaturalsInduction, WellFoundedInduction, TLAPS

LEMMA ReadRequest ==
  ASSUME NEW a \in {None, Error} \union Batches
  PROVE  [op |-> "read", answer |-> a] \in Requests
  BY DEF Requests

LEMMA SnapshotRequest ==
  ASSUME NEW a \in {None, Error} \union Versions
  PROVE  [op |-> "snapshot", answer |-> a] \in Requests
  BY DEF Requests

(* What is in a request, by its kind and its answer. *)
LEMMA RequestParts ==
  ASSUME NEW r \in Requests
  PROVE  /\ r.op \in {"read", "snapshot"}
         /\ r = [op |-> r.op, answer |-> r.answer]
         /\ r.op = "read" => r.answer \in {None, Error} \union Batches
         /\ r.op = "snapshot" => r.answer \in {None, Error} \union Versions
  BY DEF Requests

(* An answer replaces another one of its request. *)
LEMMA AnswerPut ==
  ASSUME NEW rs \in Seq(Requests), NEW i \in DOMAIN rs, NEW a,
         \/ a \in {None, Error}
         \/ rs[i].op = "read" /\ a \in Batches
         \/ rs[i].op = "snapshot" /\ a \in Versions
  PROVE  LET as == [rs EXCEPT ![i].answer = a]
         IN  /\ as \in Seq(Requests) /\ Len(as) = Len(rs) /\ DOMAIN as = DOMAIN rs
             /\ as[i] = [op |-> rs[i].op, answer |-> a]
             /\ \A j \in DOMAIN rs : j # i => as[j] = rs[j]
<1> DEFINE as == [rs EXCEPT ![i].answer = a]
<1>1. rs[i] \in Requests
  OBVIOUS
<1>2. PICK o : o = rs[i].op
  OBVIOUS
<1>3. rs[i] = [op |-> o, answer |-> rs[i].answer] /\ o \in {"read", "snapshot"}
  BY <1>1, <1>2, RequestParts
<1>4. [rs[i] EXCEPT !.answer = a] = [op |-> o, answer |-> a]
  BY <1>3
<1>5. [op |-> o, answer |-> a] \in Requests
  BY <1>2, <1>3 DEF Requests
<1>6. as[i] = [op |-> o, answer |-> a] /\ \A j \in DOMAIN rs : j # i => as[j] = rs[j]
  BY <1>4
<1>7. as \in Seq(Requests) /\ Len(as) = Len(rs) /\ DOMAIN as = DOMAIN rs
  <2>1. as = [rs EXCEPT ![i] = [op |-> o, answer |-> a]]
    BY <1>4
  <2> QED BY <2>1, <1>5
<1> QED BY <1>2, <1>6, <1>7

(* What stays when a request is removed *)
LEMMA RemovedShape ==
  ASSUME NEW S, NEW s \in Seq(S), NEW i \in DOMAIN s
  PROVE  LET os == RemoveAt(s, i)
         IN  /\ os \in Seq(S) /\ Len(os) = Len(s) - 1
             /\ \A j \in DOMAIN os : os[j] = IF j < i THEN s[j] ELSE s[j + 1]
<1>1. PICK L \in Nat : L = Len(s) /\ DOMAIN s = 1..L
  OBVIOUS
<1>2. i \in 1..L
  BY <1>1
<1>3. SubSeq(s, 1, i - 1) \in Seq(S) /\ Len(SubSeq(s, 1, i - 1)) = i - 1
  BY <1>1, <1>2
<1>4. SubSeq(s, i + 1, L) \in Seq(S) /\ Len(SubSeq(s, i + 1, L)) = L - i
  BY <1>1, <1>2
<1>5. \A j \in 1..(i - 1) : SubSeq(s, 1, i - 1)[j] = s[j]
  BY <1>1, <1>2
<1>6. \A j \in 1..(L - i) : SubSeq(s, i + 1, L)[j] = s[i + j]
  BY <1>1, <1>2
<1>7. RemoveAt(s, i) = SubSeq(s, 1, i - 1) \o SubSeq(s, i + 1, L)
  BY <1>1 DEF RemoveAt
<1>8. PICK a \in Seq(S) : a = SubSeq(s, 1, i - 1)
  BY <1>3
<1>9. PICK b \in Seq(S) : b = SubSeq(s, i + 1, L)
  BY <1>4
<1>10. /\ Len(a) = i - 1 /\ Len(b) = L - i /\ i \in Int
       /\ \A j \in 1..(i - 1) : a[j] = s[j]
       /\ \A j \in 1..(L - i) : b[j] = s[i + j]
  <2>1. Len(a) = i - 1
    BY <1>3, <1>8
  <2>2. Len(b) = L - i
    BY <1>4, <1>9
  <2>3. i \in Int
    BY <1>2
  <2>4. \A j \in 1..(i - 1) : a[j] = s[j]
    BY <1>5, <1>8
  <2>5. \A j \in 1..(L - i) : b[j] = s[i + j]
    BY <1>6, <1>9
  <2> QED BY <2>1, <2>2, <2>3, <2>4, <2>5
<1>11. a \o b \in Seq(S) /\ Len(a \o b) = Len(a) + Len(b)
  OBVIOUS
<1>12. Len(a \o b) = L - 1
  BY <1>10, <1>11
<1>13. ASSUME NEW j \in 1..(L - 1) PROVE (a \o b)[j] = IF j < i THEN s[j] ELSE s[j + 1]
  <2>1. (a \o b)[j] = IF j <= Len(a) THEN a[j] ELSE b[j - Len(a)]
    <3>1. j \in 1..(Len(a) + Len(b))
      BY <1>10
    <3> QED BY <3>1
  <2>2. CASE j < i
    BY <2>1, <2>2, <1>10
  <2>3. CASE ~(j < i)
    <3>1. j - (i - 1) \in 1..(L - i) /\ i + (j - (i - 1)) = j + 1 /\ ~(j <= i - 1)
      BY <2>3, <1>10
    <3>2. (a \o b)[j] = b[j - (i - 1)]
      BY <3>1, <2>1, <1>10
    <3> QED BY <2>3, <3>1, <3>2, <1>10
  <2> QED BY <2>2, <2>3
<1>14. PICK c \in Seq(S) : c = a \o b
  BY <1>11
<1>15. RemoveAt(s, i) = c
  BY <1>7, <1>8, <1>9, <1>14
<1>16. DOMAIN c = 1..(L - 1) /\ Len(c) = L - 1
  BY <1>12, <1>14
<1> QED BY <1>1, <1>13, <1>14, <1>15, <1>16

LEMMA AppendShape ==
  ASSUME NEW S, NEW s \in Seq(S), NEW e \in S
  PROVE  /\ Append(s, e) \in Seq(S) /\ Len(Append(s, e)) = Len(s) + 1
         /\ DOMAIN s = 1..Len(s) /\ Len(s) \in Nat
         /\ Append(s, e)[Len(s) + 1] = e
         /\ \A j \in 1..Len(s) : Append(s, e)[j] = s[j]
  OBVIOUS

-----------------------------------------------------------------------------

Pipes ==
  [active : BOOLEAN, pending : BOOLEAN, closed : BOOLEAN,
   timer : {"none", "running", "cleared"},
   subscribed : BOOLEAN, minVersion : Versions \union {None}]
Subscriptions ==
  [status : {"none", "open", "closed"}, queue : Seq(Versions),
   overflowed : BOOLEAN, signal : BOOLEAN, base : Versions,
   capacity : Capacities]
Responses == [open : BOOLEAN, full : BOOLEAN]
Closings == {"none", "requested", "granted", "refused"}

LEMMA Types ==
  TypeOK <=>
    /\ pipe \in Pipes
    /\ subscription \in Subscriptions
    /\ Len(subscription.queue) <= subscription.capacity
    /\ requests \in Seq(Requests)
    /\ closing \in Closings
    /\ published \in Versions
    /\ response \in Responses
    /\ frames \in Seq(Frames)
    /\ closes \in Nat
    /\ failed \in BOOLEAN
    /\ stalls \in 0..MaxStalls
  BY DEF TypeOK, Pipes, Subscriptions, Responses, Closings

LEMMA ConstantTypes ==
  /\ MaxVersion \in Nat /\ MaxStalls \in Nat /\ Capacities \subseteq Nat \ {0}
  /\ 0 \in Versions /\ Versions \subseteq Nat
  /\ None \notin Nat /\ Error \notin Nat /\ None # Error
  /\ None \notin Batches /\ Error \notin Batches /\ None \notin Versions
  /\ InOrder \in BOOLEAN
  BY SsePipeAssumption DEF Versions

LEMMA ResetTypes ==
  ASSUME TypeOK, NEW reason \in {"reconnect", "overflow"}
  PROVE  /\ Reset(reason) \in Frames
         /\ Reset(reason).kind = "reset" /\ Reset(reason).reason = reason
  BY Types DEF Frames, Reset

LEMMA WrittenTypes ==
  ASSUME TypeOK, NEW outcome \in WriteOutcomes, Written(outcome)
  PROVE  response' \in Responses /\ stalls' \in 0..MaxStalls
<1>1. response \in Responses /\ stalls \in 0..MaxStalls /\ MaxStalls \in Nat
  BY Types, ConstantTypes
<1> QED BY <1>1 DEF Written, WriteOutcomes, Responses

LEMMA StartReadTypes ==
  ASSUME NEW p \in Pipes, NEW others \in Seq(Requests), StartRead(p, others)
  PROVE  pipe' \in Pipes /\ requests' \in Seq(Requests)
<1>1. [op |-> "read", answer |-> None] \in Requests
  BY ReadRequest
<1>2. pipe' \in Pipes
  BY DEF StartRead, Pipes
<1> QED BY <1>1, <1>2, AppendShape DEF StartRead

LEMMA ReadableTypes ==
  ASSUME TypeOK, Readable
  PROVE  pipe' \in Pipes /\ requests' \in Seq(Requests)
<1>1. pipe \in Pipes /\ requests \in Seq(Requests)
  BY Types
<1>2. CASE StartRead(pipe, requests)
  BY <1>1, <1>2, StartReadTypes
<1>3. CASE pipe' = [pipe EXCEPT !.pending = TRUE] /\ UNCHANGED requests
  BY <1>1, <1>3 DEF Pipes
<1> QED BY <1>1, <1>2, <1>3 DEF Readable

LEMMA UnsubscribedTypes ==
  ASSUME TypeOK, subscription' = Unsubscribed
  PROVE  /\ subscription' \in Subscriptions
         /\ Len(subscription'.queue) <= subscription'.capacity
<1>1. subscription \in Subscriptions /\ Capacities \subseteq Nat
  BY Types, ConstantTypes
<1>2. PICK empty : empty = <<>>
  OBVIOUS
<1>3. subscription' \in Subscriptions
  <2>1. subscription' = [subscription EXCEPT !.status = "closed", !.queue = empty,
                                             !.overflowed = FALSE, !.signal = FALSE]
    BY <1>2 DEF Unsubscribed
  <2>2. empty \in Seq(Versions)
    BY <1>2
  <2> QED BY <1>1, <2>1, <2>2 DEF Subscriptions
<1>4. subscription'.queue = <<>> /\ subscription'.capacity = subscription.capacity
  BY <1>1 DEF Unsubscribed, Subscriptions
<1>5. subscription.capacity \in Nat
  BY <1>1 DEF Subscriptions
<1> QED BY <1>3, <1>4, <1>5

LEMMA CloseTypes ==
  ASSUME TypeOK, ClosePipe
  PROVE  /\ pipe' \in Pipes /\ closes' \in Nat /\ closing' \in Closings
         /\ subscription' \in Subscriptions
         /\ Len(subscription'.queue) <= subscription'.capacity
<1>1. /\ pipe \in Pipes /\ closes \in Nat /\ closing \in Closings
      /\ subscription \in Subscriptions
      /\ Len(subscription.queue) <= subscription.capacity
  BY Types
<1>2. pipe' \in Pipes
  BY <1>1 DEF ClosePipe, Pipes
<1>3. closes' \in Nat /\ closing' \in Closings
  BY <1>1 DEF ClosePipe, Closings
<1>4. CASE UNCHANGED subscription
  BY <1>1, <1>2, <1>3, <1>4
<1>5. CASE subscription' = Unsubscribed
  BY <1>2, <1>3, <1>5, UnsubscribedTypes
<1> QED BY <1>4, <1>5 DEF ClosePipe

(* The host's answer to the close request, and its completion *)
LEMMA ClosingTypes ==
  ASSUME TypeOK,
         CloseCompleted \/ \E granted \in BOOLEAN : AnswerClose(granted)
  PROVE  TypeOK'
<1>1. CASE CloseCompleted
  <2>1. closes' \in Nat /\ closing' \in Closings
    BY <1>1, Types DEF CloseCompleted, Closings
  <2> QED BY <1>1, <2>1 DEF TypeOK, CloseCompleted, Closings
<1>2. ASSUME NEW granted \in BOOLEAN, AnswerClose(granted) PROVE TypeOK'
  <2>1. closing' \in Closings
    BY <1>2 DEF AnswerClose, Closings
  <2>2. CASE UNCHANGED subscription
    BY <1>2, <2>1, <2>2 DEF TypeOK, AnswerClose, Closings
  <2>3. CASE subscription' = Unsubscribed
    <3>1. /\ subscription' \in Subscriptions
          /\ Len(subscription'.queue) <= subscription'.capacity
      BY <2>3, UnsubscribedTypes
    <3> QED BY <1>2, <2>1, <3>1 DEF TypeOK, AnswerClose, Closings, Subscriptions
  <2> QED BY <1>2, <2>2, <2>3 DEF AnswerClose
<1> QED BY <1>1, <1>2

LEMMA OpenTypes ==
  ASSUME TypeOK, NEW reconnects \in BOOLEAN, NEW snapshot \in BOOLEAN,
         Open(reconnects, snapshot)
  PROVE  TypeOK'
<1>1. /\ pipe \in Pipes /\ subscription \in Subscriptions
      /\ Len(subscription.queue) <= subscription.capacity
      /\ published \in Versions
  BY Types
<1>2. PICK outcome \in WriteOutcomes : Written(outcome)
  BY DEF Open
<1>3. response' \in Responses /\ stalls' \in 0..MaxStalls
  BY <1>2, WrittenTypes
<1>4. pipe' \in Pipes
  BY <1>1 DEF Open, Pipes
<1>5. subscription' \in Subscriptions /\ Len(subscription'.queue) <= subscription'.capacity
  BY <1>1 DEF Open, Subscriptions
<1>6. Reset("reconnect") \in Frames /\ [op |-> "snapshot", answer |-> None] \in Requests
  BY ResetTypes, SnapshotRequest
<1>7. frames' \in Seq(Frames) /\ requests' \in Seq(Requests)
  BY <1>6 DEF Open
<1>8. /\ published' \in Versions /\ closes' \in Nat /\ failed' \in BOOLEAN
      /\ closing' \in Closings
  BY Types DEF Open
<1> QED BY <1>3, <1>4, <1>5, <1>7, <1>8 DEF TypeOK, Pipes, Subscriptions, Responses, Closings

LEMMA OpenRefusedTypes ==
  ASSUME TypeOK, NEW reconnects \in BOOLEAN, OpenRefused(reconnects)
  PROVE  TypeOK'
<1>1. /\ pipe \in Pipes /\ Reset("reconnect") \in Frames
  BY Types, ResetTypes
<1>2. pipe' \in Pipes /\ frames' \in Seq(Frames)
  BY <1>1 DEF OpenRefused, Pipes
<1> QED BY <1>2 DEF TypeOK, Pipes, OpenRefused

LEMMA GuestTypes ==
  ASSUME TypeOK, Signalled \/ Pump \/ Drain \/ Heartbeat \/ Close \/ Disconnect \/ EndResponse
  PROVE  TypeOK'
<1>1. CASE Signalled
  <2>1. pipe' \in Pipes /\ requests' \in Seq(Requests)
    BY <1>1, ReadableTypes DEF Signalled
  <2>2. subscription' \in Subscriptions /\ Len(subscription'.queue) <= subscription'.capacity
    BY <1>1, Types DEF Signalled, Subscriptions
  <2> QED BY <1>1, <2>1, <2>2 DEF TypeOK, Pipes, Subscriptions, Signalled
<1>2. CASE Pump
  <2>1. pipe' \in Pipes /\ requests' \in Seq(Requests)
    BY <1>2, ReadableTypes DEF Pump
  <2> QED BY <1>2, <2>1 DEF TypeOK, Pipes, Pump
<1>3. CASE Drain
  <2>1. pipe \in Pipes /\ requests \in Seq(Requests) /\ response \in Responses
    BY Types
  <2>2. pipe' \in Pipes /\ requests' \in Seq(Requests)
    BY <1>3, <2>1, StartReadTypes DEF Drain
  <2>3. response' \in Responses
    BY <1>3, <2>1 DEF Drain, Responses
  <2> QED BY <1>3, <2>2, <2>3 DEF TypeOK, Pipes, Responses, Drain
<1>4. CASE Heartbeat
  <2>1. response' \in Responses /\ stalls' \in 0..MaxStalls
    BY <1>4, WrittenTypes DEF Heartbeat
  <2> QED BY <1>4, <2>1 DEF TypeOK, Responses, Heartbeat
<1>5. CASE Close
  <2>1. ClosePipe
    BY <1>5 DEF Close
  <2> QED BY <1>5, <2>1, CloseTypes DEF TypeOK, Pipes, Subscriptions, Closings, Close
<1>6. CASE Disconnect
  <2>1. response' \in Responses
    BY <1>6, Types DEF Disconnect, Responses
  <2>2. CASE ClosePipe
    BY <1>6, <2>1, <2>2, CloseTypes DEF TypeOK, Pipes, Subscriptions, Responses, Closings,
                                    Disconnect
  <2>3. CASE UNCHANGED <<pipe, subscription, closing, closes>>
    BY <1>6, <2>1, <2>3 DEF TypeOK, Responses, Disconnect
  <2> QED BY <1>6, <2>2, <2>3 DEF Disconnect
<1>7. CASE EndResponse
  <2>1. response' \in Responses
    BY <1>7, Types DEF EndResponse, Responses
  <2> QED BY <1>7, <2>1 DEF TypeOK, Responses, EndResponse
<1> QED BY <1>1, <1>2, <1>3, <1>4, <1>5, <1>6, <1>7

LEMMA PublishTypes == TypeOK /\ Publish => TypeOK'
<1> SUFFICES ASSUME TypeOK, Publish PROVE TypeOK'
  OBVIOUS
<1>1. /\ subscription \in Subscriptions /\ published \in Versions
      /\ subscription.queue \in Seq(Versions) /\ subscription.capacity \in Nat
      /\ Len(subscription.queue) <= subscription.capacity
  <2>1. subscription \in Subscriptions /\ Capacities \subseteq Nat
    BY Types, ConstantTypes
  <2> QED BY <2>1, Types DEF Subscriptions
<1>2. published' \in Versions /\ published + 1 \in Versions
  BY <1>1, ConstantTypes DEF Publish, Versions
<1>3. PICK queue \in Seq(Versions) : queue = subscription.queue
  BY <1>1
<1>4. Append(queue, published + 1) \in Seq(Versions)
      /\ Len(Append(queue, published + 1)) = Len(queue) + 1
  BY <1>2, AppendShape
<1>5. subscription' \in Subscriptions /\ Len(subscription'.queue) <= subscription'.capacity
  <2>1. CASE UNCHANGED subscription
    BY <1>1, <2>1
  <2>2. CASE subscription' = [subscription EXCEPT !.overflowed = TRUE, !.signal = TRUE]
    BY <1>1, <2>2 DEF Subscriptions
  <2>3. CASE /\ Len(queue) # subscription.capacity
             /\ subscription' = [subscription EXCEPT !.queue = Append(@, published + 1),
                                                     !.signal = TRUE]
    <3>1. subscription' = [subscription EXCEPT !.queue = Append(queue, published + 1),
                                               !.signal = TRUE]
      BY <1>3, <2>3
    <3>2. subscription' \in Subscriptions
      BY <1>1, <1>4, <3>1 DEF Subscriptions
    <3>3. subscription'.queue = Append(queue, published + 1)
          /\ subscription'.capacity = subscription.capacity
      BY <1>1, <3>1 DEF Subscriptions
    <3>4. Len(queue) + 1 <= subscription.capacity
      BY <1>1, <1>3, <2>3
    <3> QED BY <1>4, <3>2, <3>3, <3>4
  <2> QED BY <1>3, <2>1, <2>2, <2>3 DEF Publish
<1> QED BY <1>2, <1>5 DEF TypeOK, Subscriptions, Publish

LEMMA RequestIs ==
  ASSUME TypeOK, NEW i \in DOMAIN requests
  PROVE  /\ requests \in Seq(Requests) /\ requests[i] \in Requests
         /\ Len(requests) \in Nat /\ DOMAIN requests = 1..Len(requests)
  BY Types

LEMMA AnswerReadTypes ==
  ASSUME TypeOK, NEW i \in DOMAIN requests, NEW taken \in 0..MaxEvents,
         AnswerRead(i, taken)
  PROVE  TypeOK'
<1>1. /\ subscription \in Subscriptions /\ subscription.queue \in Seq(Versions)
      /\ subscription.capacity \in Nat /\ subscription.overflowed \in BOOLEAN
      /\ Len(subscription.queue) <= subscription.capacity
  <2>1. subscription \in Subscriptions /\ Capacities \subseteq Nat
    BY Types, ConstantTypes
  <2> QED BY <2>1, Types DEF Subscriptions
<1>2. PICK queue \in Seq(Versions) : queue = subscription.queue
  BY <1>1
<1>3. taken \in 0..Len(queue)
  BY <1>2, SsePipeAssumption DEF AnswerRead
<1>4. SubSeq(queue, 1, taken) \in Seq(Versions)
  BY <1>3
<1>5. SubSeq(queue, taken + 1, Len(queue)) \in Seq(Versions)
      /\ Len(SubSeq(queue, taken + 1, Len(queue))) <= Len(queue)
  BY <1>3
<1>6. PICK events : events = IF subscription.overflowed THEN <<>> ELSE SubSeq(queue, 1, taken)
  OBVIOUS
<1>7. PICK left : left = IF subscription.overflowed THEN <<>>
                         ELSE SubSeq(queue, taken + 1, Len(queue))
  OBVIOUS
<1>8. events \in Seq(Versions) /\ left \in Seq(Versions) /\ Len(left) <= Len(queue)
  BY <1>4, <1>5, <1>6, <1>7
<1>9. PICK more \in BOOLEAN : more = (left # <<>>)
  OBVIOUS
<1>10. PICK batch : batch = [overflowed |-> subscription.overflowed, events |-> events,
                             more |-> more]
  OBVIOUS
<1>11. batch \in Batches
  BY <1>1, <1>8, <1>10 DEF Batches
<1>12. requests' = [requests EXCEPT ![i].answer = batch]
       /\ subscription' = [subscription EXCEPT !.queue = left, !.overflowed = FALSE]
  BY <1>2, <1>6, <1>7, <1>9, <1>10 DEF AnswerRead
<1>13. requests' \in Seq(Requests)
  <2>1. requests[i].op = "read" /\ requests \in Seq(Requests)
    BY RequestIs DEF AnswerRead, Waiting
  <2> QED BY <1>11, <1>12, <2>1, AnswerPut
<1>14. subscription' \in Subscriptions
  BY <1>1, <1>8, <1>12 DEF Subscriptions
<1>15. subscription'.queue = left /\ subscription'.capacity = subscription.capacity
  BY <1>1, <1>12 DEF Subscriptions
<1>16. Len(subscription'.queue) <= subscription'.capacity
  BY <1>1, <1>2, <1>8, <1>15
<1> QED BY <1>13, <1>14, <1>16 DEF TypeOK, Subscriptions, AnswerRead

LEMMA OtherAnswerTypes ==
  ASSUME TypeOK, NEW i \in DOMAIN requests, AnswerSnapshot(i) \/ AnswerError(i)
  PROVE  TypeOK'
<1>1. requests \in Seq(Requests) /\ published \in Versions
  BY Types
<1>2. CASE AnswerSnapshot(i)
  <2>1. requests[i].op = "snapshot" /\ requests' = [requests EXCEPT ![i].answer = published]
    BY <1>2 DEF AnswerSnapshot, Waiting
  <2>2. requests' \in Seq(Requests)
    BY <1>1, <2>1, AnswerPut
  <2> QED BY <1>2, <2>2 DEF TypeOK, AnswerSnapshot
<1>3. CASE AnswerError(i)
  <2>1. requests' = [requests EXCEPT ![i].answer = Error]
    BY <1>3 DEF AnswerError
  <2>2. requests' \in Seq(Requests)
    BY <1>1, <2>1, AnswerPut
  <2> QED BY <1>3, <2>2 DEF TypeOK, AnswerError
<1> QED BY <1>2, <1>3

(* What encode_sse_batch keeps of a batch: the events that pass, in their order. *)
Passes(min, v) == min = None \/ v > min
Sorted(s) == \A k, l \in DOMAIN s : k < l => s[k] < s[l]

KeptTo(events, n, kept) ==
  kept = [k \in 0..n |->
            IF k = 0 THEN <<>>
            ELSE IF Passes(pipe.minVersion, events[k])
                 THEN Append(kept[k - 1], events[k])
                 ELSE kept[k - 1]]

\* The events that pass among the first n, and no others, in their order
KeepsOf(events, n, s) ==
  /\ s \in Seq(Versions)
  /\ \A k \in DOMAIN s : Passes(pipe.minVersion, s[k]) /\ \E m \in 1..n : events[m] = s[k]
  /\ \A m \in 1..n : Passes(pipe.minVersion, events[m]) => \E k \in DOMAIN s : s[k] = events[m]
  /\ Sorted(events) => Sorted(s)

(* Every nonempty set of naturals has a least element. *)
LEMMA LeastNatural ==
  ASSUME NEW T \in SUBSET Nat, T # {}
  PROVE  \E m \in T : \A n \in T : m <= n
<1> DEFINE R == {p \in Nat \X Nat : p[1] < p[2]}
<1>1. IsWellFoundedOn(R, Nat)
  BY NatLessThanWellFounded DEF OpToRel
<1>2. \E x \in T : \A y \in T : <<y, x>> \notin R
  <2> HIDE DEF R
  <2> QED BY <1>1, WFMin
<1>3. PICK m \in T : \A y \in T : <<y, m>> \notin R
  BY <1>2
<1>4. ASSUME NEW n \in T PROVE m <= n
  <2>1. <<n, m>> \notin R
    BY <1>3
  <2> QED BY <2>1
<1> QED BY <1>4

\* One more event.
KeptNext(events, kept, k) ==
  IF k = 0 THEN <<>>
  ELSE IF Passes(pipe.minVersion, events[k]) THEN Append(kept[k - 1], events[k])
  ELSE kept[k - 1]

LEMMA KeptContinues ==
  ASSUME NEW events, NEW n \in Nat \ {0}, NEW f, KeptTo(events, n - 1, f)
  PROVE  \E g : KeptTo(events, n, g)
<1> DEFINE g == [k \in 0..n |-> IF k = n THEN KeptNext(events, f, n) ELSE f[k]]
<1>1. \A k \in 0..n : g[k] = KeptNext(events, g, k)
  <2> SUFFICES ASSUME NEW k \in 0..n PROVE g[k] = KeptNext(events, g, k)
    OBVIOUS
  <2>1. k = 0 \/ (k - 1 \in 0..n /\ k - 1 # n)
    OBVIOUS
  <2>2. KeptNext(events, g, k) = KeptNext(events, f, k)
    BY <2>1 DEF KeptNext
  <2>3. CASE k = n
    BY <2>2, <2>3
  <2>4. CASE k # n
    <3>1. k \in 0..(n - 1)
      BY <2>4
    <3>2. f = [j \in 0..(n - 1) |-> KeptNext(events, f, j)]
      BY DEF KeptTo, KeptNext
    <3>3. f[k] = KeptNext(events, f, k)
      BY <3>1, <3>2
    <3> QED BY <2>2, <2>4, <3>3
  <2> QED BY <2>3, <2>4
<1>2. g = [k \in 0..n |-> g[k]]
  OBVIOUS
<1> HIDE DEF g
<1>3. g = [k \in 0..n |-> KeptNext(events, g, k)]
  BY <1>1, <1>2
<1> QED BY <1>3 DEF KeptTo, KeptNext

LEMMA KeptExists ==
  ASSUME NEW events, NEW L \in Nat
  PROVE  \E f : KeptTo(events, L, f)
<1> DEFINE T == {n \in 0..L : ~ \E f : KeptTo(events, n, f)}
<1>1. T = {}
  <2> SUFFICES ASSUME T # {} PROVE FALSE
    OBVIOUS
  <2>1. T \in SUBSET Nat
    OBVIOUS
  <2>2. PICK n \in T : \A m \in T : n <= m
    <3> HIDE DEF T
    <3> QED BY <2>1, LeastNatural
  <2>3. CASE n = 0
    <3> DEFINE f == [k \in 0..0 |-> <<>>]
    <3>1. KeptTo(events, 0, f)
      BY DEF KeptTo
    <3> QED BY <2>2, <2>3, <3>1
  <2>4. CASE n # 0
    <3>1. n \in Nat \ {0} /\ n - 1 \in 0..L /\ ~(n <= n - 1)
      BY <2>2, <2>4
    <3>2. n - 1 \notin T
      <4> HIDE DEF T
      <4> QED BY <2>2, <3>1
    <3>3. PICK f : KeptTo(events, n - 1, f)
      BY <3>1, <3>2
    <3>4. \E g : KeptTo(events, n, g)
      BY <3>1, <3>3, KeptContinues
    <3> QED BY <2>2, <3>4
  <2> QED BY <2>3, <2>4
<1>2. L \in 0..L
  OBVIOUS
<1> QED BY <1>1, <1>2

LEMMA KeepsOneMore ==
  ASSUME NEW events \in Seq(Versions), NEW n \in 1..Len(events), NEW s,
         KeepsOf(events, n - 1, s)
  PROVE  /\ Passes(pipe.minVersion, events[n]) => KeepsOf(events, n, Append(s, events[n]))
         /\ ~Passes(pipe.minVersion, events[n]) => KeepsOf(events, n, s)
<1>1. /\ s \in Seq(Versions) /\ Len(s) \in Nat /\ DOMAIN s = 1..Len(s)
      /\ DOMAIN events = 1..Len(events) /\ n \in DOMAIN events
      /\ events[n] \in Versions /\ Versions \subseteq Nat
      /\ Len(events) \in Nat /\ n \in Nat /\ n - 1 \in Nat
  BY ConstantTypes DEF KeepsOf
<1>2. \A m \in 1..n : m \in 1..(n - 1) \/ m = n
  OBVIOUS
<1>3. \A m \in 1..(n - 1) : m \in 1..n /\ m \in DOMAIN events /\ m < n
  BY <1>1
<1>4. /\ \A k \in DOMAIN s : Passes(pipe.minVersion, s[k]) /\ \E m \in 1..(n - 1) : events[m] = s[k]
      /\ \A m \in 1..(n - 1) : Passes(pipe.minVersion, events[m]) => \E k \in DOMAIN s : s[k] = events[m]
      /\ Sorted(events) => Sorted(s)
  BY DEF KeepsOf
<1>5. CASE ~Passes(pipe.minVersion, events[n])
  <2>1. \A k \in DOMAIN s : \E m \in 1..n : events[m] = s[k]
    BY <1>3, <1>4
  <2>2. \A m \in 1..n : Passes(pipe.minVersion, events[m]) => \E k \in DOMAIN s : s[k] = events[m]
    BY <1>2, <1>4, <1>5
  <2> QED BY <1>1, <1>4, <1>5, <2>1, <2>2 DEF KeepsOf
<1>6. CASE Passes(pipe.minVersion, events[n])
  <2>1. PICK v : v = events[n]
    OBVIOUS
  <2>2. PICK a : a = Append(s, v)
    OBVIOUS
  <2>3. /\ a \in Seq(Versions) /\ Len(a) = Len(s) + 1 /\ DOMAIN a = 1..(Len(s) + 1)
        /\ a[Len(s) + 1] = v /\ \A j \in DOMAIN s : a[j] = s[j]
    BY <1>1, <2>1, <2>2, AppendShape
  <2>4. \A k \in DOMAIN a : k \in DOMAIN s \/ k = Len(s) + 1
    BY <1>1, <2>3
  <2>5. \A k \in DOMAIN a : Passes(pipe.minVersion, a[k]) /\ \E m \in 1..n : events[m] = a[k]
    BY <1>3, <1>4, <1>6, <2>1, <2>3, <2>4
  <2>6. \A m \in 1..n : Passes(pipe.minVersion, events[m]) => \E k \in DOMAIN a : a[k] = events[m]
    <3>1. \A j \in DOMAIN s : j \in DOMAIN a
      BY <1>1, <2>3
    <3>2. Len(s) + 1 \in DOMAIN a
      BY <1>1, <2>3
    <3> QED BY <1>2, <1>4, <2>1, <2>3, <3>1, <3>2
  <2>7. ASSUME Sorted(events), NEW k \in DOMAIN a, NEW l \in DOMAIN a, k < l
        PROVE  a[k] < a[l]
    <3>1. k \in DOMAIN s
      BY <1>1, <2>3, <2>4, <2>7
    <3>2. CASE l \in DOMAIN s
      BY <1>4, <2>3, <2>7, <3>1, <3>2 DEF Sorted
    <3>3. CASE l = Len(s) + 1
      <4>1. PICK m \in 1..(n - 1) : events[m] = s[k]
        BY <1>4, <3>1
      <4>2. events[m] < events[n]
        BY <1>1, <1>3, <2>7, <4>1 DEF Sorted
      <4> QED BY <2>1, <2>3, <3>1, <3>3, <4>1, <4>2
    <3> QED BY <2>4, <3>2, <3>3
  <2>8. Sorted(events) => Sorted(a)
    BY <2>7 DEF Sorted
  <2>9. KeepsOf(events, n, a)
    BY <2>3, <2>5, <2>6, <2>8 DEF KeepsOf
  <2> QED BY <1>6, <2>1, <2>2, <2>9
<1> QED BY <1>5, <1>6

LEMMA NewerKeeps ==
  ASSUME NEW events \in Seq(Versions)
  PROVE  KeepsOf(events, Len(events), Newer(events))
<1> DEFINE kept == CHOOSE f : KeptTo(events, Len(events), f)
<1>1. PICK L \in Nat : L = Len(events)
  OBVIOUS
<1>2. KeptTo(events, L, kept)
  BY <1>1, KeptExists
<1>3. Newer(events) = kept[L]
  BY <1>1 DEF Newer, KeptTo, Passes
<1> HIDE DEF kept
<1>4. \A k \in 0..L : kept[k] = KeptNext(events, kept, k)
  <2>1. kept = [k \in 0..L |-> KeptNext(events, kept, k)]
    BY <1>2 DEF KeptTo, KeptNext
  <2> SUFFICES ASSUME NEW k \in 0..L PROVE kept[k] = KeptNext(events, kept, k)
    OBVIOUS
  <2> QED BY <2>1
<1> DEFINE T == {n \in 0..L : ~KeepsOf(events, n, kept[n])}
<1>5. T = {}
  <2> SUFFICES ASSUME T # {} PROVE FALSE
    OBVIOUS
  <2>1. T \in SUBSET Nat
    OBVIOUS
  <2>2. PICK n \in T : \A m \in T : n <= m
    <3> HIDE DEF T
    <3> QED BY <2>1, LeastNatural
  <2>3. kept[0] = <<>>
    BY <1>4 DEF KeptNext
  <2>4. CASE n = 0
    <3>1. PICK empty : empty = <<>>
      OBVIOUS
    <3>2. empty \in Seq(Versions) /\ DOMAIN empty = {}
      BY <3>1
    <3>3. KeepsOf(events, 0, empty)
      BY <3>2 DEF KeepsOf, Sorted
    <3> QED BY <2>2, <2>3, <2>4, <3>1, <3>3
  <2>5. CASE n # 0
    <3>1. n \in 1..L /\ n - 1 \in 0..L /\ ~(n <= n - 1)
      BY <2>2, <2>5
    <3>2. n - 1 \notin T
      <4> HIDE DEF T
      <4> QED BY <2>2, <3>1
    <3>3. KeepsOf(events, n - 1, kept[n - 1])
      BY <3>1, <3>2
    <3>4. kept[n] = KeptNext(events, kept, n)
      BY <1>4, <2>2
    <3>5. KeepsOf(events, n, kept[n])
      BY <1>1, <3>1, <3>3, <3>4, KeepsOneMore DEF KeptNext
    <3> QED BY <2>2, <3>5
  <2> QED BY <2>4, <2>5
<1>6. L \in 0..L
  OBVIOUS
<1>7. L \notin T
  BY <1>5
<1>8. KeepsOf(events, L, kept[L])
  BY <1>6, <1>7
<1> QED BY <1>1, <1>3, <1>8

(* What is written of a batch is typed. *)
LEMMA EncodedTypes ==
  ASSUME TypeOK, NEW batch \in Batches
  PROVE  Encoded(batch) \in Seq(Frames)
<1>1. Reset("overflow") \in Frames
  BY ResetTypes
<1>2. CASE batch.overflowed
  BY <1>1, <1>2 DEF Encoded
<1>3. CASE ~batch.overflowed
  <2>1. PICK events : events = Newer(batch.events)
    OBVIOUS
  <2>2. batch.events \in Seq(Versions)
    BY DEF Batches
  <2>3. events \in Seq(Versions)
    BY <2>1, <2>2, NewerKeeps DEF KeepsOf
  <2>4. Encoded(batch) = [k \in DOMAIN events |-> [kind |-> "state", version |-> events[k]]]
    BY <1>3, <2>1 DEF Encoded
  <2>5. \A k \in DOMAIN events : [kind |-> "state", version |-> events[k]] \in Frames
    BY <2>3 DEF Frames
  <2>6. PICK n \in Nat : DOMAIN events = 1..n
    BY <2>3
  <2> QED BY <2>4, <2>5, <2>6
<1> QED BY <1>2, <1>3

LEMMA RemovedRequest ==
  ASSUME TypeOK, NEW i \in DOMAIN requests
  PROVE  /\ RemoveAt(requests, i) \in Seq(Requests)
         /\ Len(RemoveAt(requests, i)) = Len(requests) - 1
         /\ \A j \in DOMAIN RemoveAt(requests, i) :
              RemoveAt(requests, i)[j] = IF j < i THEN requests[j] ELSE requests[j + 1]
  BY RequestIs, RemovedShape

LEMMA IdleTypes ==
  ASSUME TypeOK, NEW others \in Seq(Requests), Idle(others)
  PROVE  pipe' \in Pipes /\ requests' \in Seq(Requests)
<1>1. pipe \in Pipes
  BY Types
<1>2. [pipe EXCEPT !.active = FALSE] \in Pipes
  BY <1>1 DEF Pipes
<1> QED BY <1>2, StartReadTypes DEF Idle

LEMMA ReadWrittenTypes ==
  ASSUME TypeOK, NEW i \in DOMAIN requests, NEW writable \in BOOLEAN,
         ReadWritten(i, writable)
  PROVE  TypeOK'
<1>1. /\ pipe \in Pipes /\ frames \in Seq(Frames) /\ requests[i] \in Requests
      /\ requests[i].op = "read"
  BY Types, RequestIs DEF ReadWritten, Answered
<1>2. PICK batch : batch = requests[i].answer
  OBVIOUS
<1>3. batch \in Batches
  BY <1>1, <1>2, RequestParts DEF ReadWritten, Answered
<1>4. response' \in Responses /\ stalls' \in 0..MaxStalls
  BY WrittenTypes DEF ReadWritten
<1>5. PICK fs \in Seq(Frames) : fs = Encoded(batch)
  BY <1>3, EncodedTypes
<1>6. frames' \in Seq(Frames)
  BY <1>1, <1>2, <1>5 DEF ReadWritten
<1>7. PICK others \in Seq(Requests) : others = RemoveAt(requests, i)
  BY RemovedRequest
<1>8. pipe' \in Pipes /\ requests' \in Seq(Requests)
  <2>1. CASE batch.overflowed
    BY <1>1, <1>2, <1>7, <2>1 DEF ReadWritten, AfterReset, Pipes
  <2>2. CASE StartRead(pipe, others)
    BY <1>1, <2>2, StartReadTypes
  <2>3. CASE pipe' = [pipe EXCEPT !.pending = TRUE] /\ requests' = others
    BY <1>1, <2>3 DEF Pipes
  <2>4. CASE Idle(others)
    BY <2>4, IdleTypes
  <2> QED BY <1>2, <1>7, <2>1, <2>2, <2>3, <2>4 DEF ReadWritten
<1> QED BY <1>4, <1>6, <1>8 DEF TypeOK, Pipes, Responses, ReadWritten

LEMMA OtherReadTypes ==
  ASSUME TypeOK, NEW i \in DOMAIN requests, ReadDropped(i) \/ ReadUnwritten(i)
  PROVE  TypeOK'
<1>1. pipe \in Pipes /\ RemoveAt(requests, i) \in Seq(Requests)
  BY Types, RemovedRequest
<1>2. CASE ReadDropped(i)
  <2>1. pipe' \in Pipes /\ failed' \in BOOLEAN
    BY <1>1, <1>2 DEF ReadDropped, Pipes
  <2> QED BY <1>1, <1>2, <2>1 DEF TypeOK, Pipes, ReadDropped
<1>3. CASE ReadUnwritten(i)
  BY <1>1, <1>3 DEF TypeOK, ReadUnwritten
<1> QED BY <1>2, <1>3

LEMMA SnapshotTypes ==
  ASSUME TypeOK, NEW i \in DOMAIN requests, SnapshotWritten(i) \/ SnapshotFailed(i)
  PROVE  TypeOK'
<1>1. /\ pipe \in Pipes /\ RemoveAt(requests, i) \in Seq(Requests)
      /\ requests[i] \in Requests /\ frames \in Seq(Frames)
  BY Types, RemovedRequest, RequestIs
<1>2. CASE SnapshotWritten(i)
  <2>1. PICK v : v = requests[i].answer
    OBVIOUS
  <2>2. v \in Versions
    BY <1>1, <1>2, <2>1, RequestParts DEF SnapshotWritten, Answered
  <2>3. pipe' \in Pipes
    BY <1>1, <1>2, <2>1, <2>2 DEF SnapshotWritten, Pipes
  <2>4. [kind |-> "snapshot", version |-> v] \in Frames
    BY <2>2 DEF Frames
  <2>5. PICK outcome \in WriteOutcomes :
          /\ Written(outcome)
          /\ frames' = IF outcome = "thrown" THEN frames
                       ELSE Append(frames, [kind |-> "snapshot", version |-> v])
          /\ failed' = (failed \/ outcome = "thrown")
    BY <1>2, <2>1 DEF SnapshotWritten
  <2>6. response' \in Responses /\ stalls' \in 0..MaxStalls
    BY <2>5, WrittenTypes
  <2>7. frames' \in Seq(Frames)
    BY <1>1, <2>4, <2>5, AppendShape
  <2>8. failed' \in BOOLEAN
    BY <2>5
  <2> QED BY <1>1, <1>2, <2>3, <2>6, <2>7, <2>8 DEF TypeOK, Pipes, Responses, SnapshotWritten
<1>3. CASE SnapshotFailed(i)
  BY <1>1, <1>3 DEF TypeOK, SnapshotFailed
<1> QED BY <1>2, <1>3

LEMMA TypeOKInit == Init => TypeOK
<1> SUFFICES ASSUME Init PROVE TypeOK
  OBVIOUS
<1>1. PICK empty : empty = <<>>
  OBVIOUS
<1>2. empty \in Seq(Versions) /\ empty \in Seq(Requests) /\ empty \in Seq(Frames)
      /\ Len(empty) = 0
  BY <1>1
<1>3. PICK capacity \in Capacities :
        subscription = [status |-> "none", queue |-> empty, overflowed |-> FALSE,
                        signal |-> FALSE, base |-> 0, capacity |-> capacity]
  BY <1>1 DEF Init
<1>4. subscription \in Subscriptions /\ Len(subscription.queue) <= subscription.capacity
  <2>1. subscription \in Subscriptions
    BY <1>2, <1>3, ConstantTypes DEF Subscriptions
  <2>2. subscription.queue = empty /\ subscription.capacity = capacity /\ capacity \in Nat
    BY <1>3, ConstantTypes
  <2> QED BY <1>2, <2>1, <2>2
<1>5. pipe \in Pipes /\ response \in Responses
  BY DEF Init, Pipes, Responses
<1>6. requests \in Seq(Requests) /\ frames \in Seq(Frames)
  BY <1>1, <1>2 DEF Init
<1>7. /\ published \in Versions /\ closing \in Closings
      /\ closes \in Nat /\ failed \in BOOLEAN /\ stalls \in 0..MaxStalls
  <2>1. published = 0 /\ closing = "none" /\ closes = 0 /\ failed = FALSE /\ stalls = 0
    BY DEF Init
  <2>2. 0 \in 0..MaxStalls
    BY ConstantTypes
  <2> QED BY <2>1, <2>2, ConstantTypes DEF Closings
<1> QED BY <1>4, <1>5, <1>6, <1>7, Types

LEMMA TypeOKStep == TypeOK /\ [Next]_vars => TypeOK'
<1> SUFFICES ASSUME TypeOK, [Next]_vars PROVE TypeOK'
  OBVIOUS
<1>1. ASSUME NEW reconnects \in BOOLEAN, NEW snapshot \in Snapshots, Open(reconnects, snapshot)
      PROVE  TypeOK'
  BY <1>1, OpenTypes, SsePipeAssumption
<1>2. ASSUME NEW reconnects \in BOOLEAN, OpenRefused(reconnects) PROVE TypeOK'
  BY <1>2, OpenRefusedTypes
<1>3. CASE Signalled \/ Pump \/ Drain \/ Heartbeat \/ Close \/ Disconnect \/ EndResponse
  BY <1>3, GuestTypes
<1>4. CASE Publish
  BY <1>4, PublishTypes
<1>5. ASSUME NEW i \in DOMAIN requests, NEW taken \in 0..MaxEvents, AnswerRead(i, taken)
      PROVE  TypeOK'
  BY <1>5, AnswerReadTypes
<1>6. ASSUME NEW i \in DOMAIN requests, AnswerSnapshot(i) \/ AnswerError(i) PROVE TypeOK'
  BY <1>6, OtherAnswerTypes
<1>7. ASSUME NEW i \in DOMAIN requests, Complete(i) PROVE TypeOK'
  BY <1>7, OtherReadTypes, ReadWrittenTypes, SnapshotTypes DEF Complete
<1>8. CASE CloseCompleted \/ \E granted \in BOOLEAN : AnswerClose(granted)
  BY <1>8, ClosingTypes
<1>9. CASE UNCHANGED vars
  BY <1>9 DEF TypeOK, vars
<1> QED BY <1>1, <1>2, <1>3, <1>4, <1>5, <1>6, <1>7, <1>8, <1>9 DEF Next

(* The state of the pipe, of its subscription and of its requests always *)
(* has the types TypeOK gives it; no queue is longer than its capacity.  *)
THEOREM PipeTypes == Spec => []TypeOK
  BY TypeOKInit, TypeOKStep, PTL DEF Spec

-----------------------------------------------------------------------------

\* Closing clears the timer, so that a closed pipe is never opened again.
ClosedClears == pipe.closed => pipe.timer = "cleared"

\* Only a closed pipe has asked the host to close the subscription.
ClosingCloses == closing # "none" => pipe.closed

QuietInv == TypeOK /\ ClosedClears /\ ClosingCloses

LEMMA ClosedClearsStep == QuietInv /\ [Next]_vars => ClosedClears'
<1> SUFFICES ASSUME QuietInv, [Next]_vars PROVE ClosedClears'
  OBVIOUS
<1>1. /\ pipe \in Pipes /\ ClosedClears
  BY Types DEF QuietInv
<1>2. CASE UNCHANGED pipe
  BY <1>1, <1>2 DEF ClosedClears
<1>3. ASSUME ClosePipe PROVE ClosedClears'
  BY <1>1, <1>3 DEF ClosePipe, ClosedClears, Pipes
<1>4. ASSUME NEW p \in Pipes, p.closed = pipe.closed, p.timer = pipe.timer,
             NEW others, StartRead(p, others)
      PROVE  ClosedClears'
  BY <1>1, <1>4 DEF StartRead, ClosedClears, Pipes
<1>5. ASSUME Readable PROVE ClosedClears'
  <2>1. CASE StartRead(pipe, requests)
    BY <1>1, <1>4, <2>1
  <2>2. CASE pipe' = [pipe EXCEPT !.pending = TRUE]
    BY <1>1, <2>2 DEF ClosedClears, Pipes
  <2> QED BY <1>2, <1>5, <2>1, <2>2 DEF Readable
<1>6. ASSUME NEW others, Idle(others) PROVE ClosedClears'
  <2>1. /\ [pipe EXCEPT !.active = FALSE] \in Pipes
        /\ [pipe EXCEPT !.active = FALSE].closed = pipe.closed
        /\ [pipe EXCEPT !.active = FALSE].timer = pipe.timer
    BY <1>1 DEF Pipes
  <2>2. CASE StartRead([pipe EXCEPT !.active = FALSE], others)
    BY <1>4, <2>1, <2>2
  <2>3. CASE pipe' = [pipe EXCEPT !.active = FALSE]
    BY <1>1, <2>3 DEF ClosedClears, Pipes
  <2> QED BY <1>6, <2>2, <2>3 DEF Idle
<1>7. ASSUME NEW reconnects \in BOOLEAN,
             \/ \E snapshot \in Snapshots : Open(reconnects, snapshot)
             \/ OpenRefused(reconnects)
      PROVE  ClosedClears'
  <2>1. pipe.closed = FALSE
    BY <1>1, <1>7 DEF Open, OpenRefused, Unstarted, ClosedClears, Pipes
  <2> QED BY <1>1, <1>7, <2>1 DEF Open, OpenRefused, ClosedClears, Pipes
<1>8. CASE Signalled \/ Pump
  BY <1>5, <1>8 DEF Signalled, Pump
<1>9. CASE Drain
  BY <1>1, <1>2, <1>4, <1>9 DEF Drain
<1>10. CASE Heartbeat \/ EndResponse \/ Publish
  BY <1>2, <1>10 DEF Heartbeat, EndResponse, Publish
<1>11. CASE Close \/ Disconnect
  BY <1>2, <1>3, <1>11 DEF Close, Disconnect
<1>12. ASSUME NEW i \in DOMAIN requests,
              \/ \E taken \in 0..MaxEvents : AnswerRead(i, taken)
              \/ AnswerSnapshot(i) \/ AnswerError(i)
       PROVE  ClosedClears'
  BY <1>2, <1>12 DEF AnswerRead, AnswerSnapshot, AnswerError
<1>13. ASSUME NEW i \in DOMAIN requests, Complete(i) PROVE ClosedClears'
  <2>1. CASE ReadDropped(i)
    BY <1>1, <2>1 DEF ReadDropped, ClosedClears, Pipes
  <2>2. CASE ReadUnwritten(i) \/ SnapshotFailed(i)
    BY <1>2, <2>2 DEF ReadUnwritten, SnapshotFailed
  <2>3. ASSUME NEW writable \in BOOLEAN, ReadWritten(i, writable) PROVE ClosedClears'
    <3>1. CASE pipe' = AfterReset(pipe)
      BY <1>1, <3>1 DEF AfterReset, ClosedClears, Pipes
    <3>2. CASE pipe' = [pipe EXCEPT !.pending = TRUE]
      BY <1>1, <3>2 DEF ClosedClears, Pipes
    <3>3. CASE StartRead(pipe, RemoveAt(requests, i))
      BY <1>1, <1>4, <3>3
    <3> QED BY <1>6, <2>3, <3>1, <3>2, <3>3 DEF ReadWritten
  <2>4. CASE SnapshotWritten(i)
    BY <1>1, <2>4 DEF SnapshotWritten, ClosedClears, Pipes
  <2> QED BY <1>13, <2>1, <2>2, <2>3, <2>4 DEF Complete
<1>14. CASE UNCHANGED vars
  BY <1>2, <1>14 DEF vars
<1>15. CASE CloseCompleted \/ \E granted \in BOOLEAN : AnswerClose(granted)
  BY <1>2, <1>15 DEF CloseCompleted, AnswerClose
<1> QED BY <1>7, <1>8, <1>9, <1>10, <1>11, <1>12, <1>13, <1>14, <1>15 DEF Next

(* Replacing an answer changes no kind, and removing a request adds no read. *)
LEMMA ReadsKept ==
  ASSUME NEW rs \in Seq(Requests), NEW qs \in Seq(Requests), Len(qs) = Len(rs),
         \A i \in DOMAIN rs : qs[i].op = rs[i].op
  PROVE  ReadsIn(qs) <= ReadsIn(rs)
<1>1. PICK L : L = Len(rs) /\ L \in Nat
  <2>1. Len(rs) \in Nat
    BY LenProperties
  <2> QED BY <2>1
<1>2. DOMAIN rs = 1..L /\ DOMAIN qs = 1..L
  BY <1>1, LenProperties
<1>3. PICK R : R = {i \in 1..L : rs[i].op = "read"}
  OBVIOUS
<1>4. R = {i \in 1..L : qs[i].op = "read"}
  BY <1>2, <1>3
<1>5. IsFiniteSet(1..L)
  <2>1. 1 \in Int /\ L \in Int
    BY <1>1
  <2> QED BY <2>1, FS_Interval, Zenon
<1>6. R \in SUBSET (1..L)
  BY <1>3
<1>7. Cardinality(R) \in Nat
  BY <1>5, <1>6, FS_Subset, FS_CardinalityType
<1>8. ReadsIn(rs) = Cardinality(R)
  BY <1>2, <1>3 DEF ReadsIn
<1>9. ReadsIn(qs) = Cardinality(R)
  BY <1>2, <1>4 DEF ReadsIn
<1> QED BY <1>7, <1>8, <1>9

LEMMA ReadsRemoved ==
  ASSUME NEW rs \in Seq(Requests), NEW i \in DOMAIN rs
  PROVE  ReadsIn(RemoveAt(rs, i)) <= ReadsIn(rs)
<1>1. PICK os : os = RemoveAt(rs, i)
  OBVIOUS
<1>2. /\ os \in Seq(Requests) /\ Len(os) = Len(rs) - 1
      /\ \A j \in DOMAIN os : os[j] = IF j < i THEN rs[j] ELSE rs[j + 1]
  BY <1>1, RemovedShape
<1>3. DOMAIN os = 1..(Len(rs) - 1) /\ DOMAIN rs = 1..Len(rs) /\ Len(rs) \in Nat /\ i \in Nat
  BY <1>2
<1>4. PICK S : S = {j \in DOMAIN os : os[j].op = "read"}
  OBVIOUS
<1>5. PICK T : T = {j \in DOMAIN rs : rs[j].op = "read"}
  OBVIOUS
<1>6. IsFiniteSet(T)
  <2>1. T \in SUBSET (1..Len(rs)) /\ IsFiniteSet(1..Len(rs))
    BY <1>3, <1>5, FS_Interval
  <2> QED BY <2>1, FS_Subset
<1> DEFINE f == [j \in S |-> IF j < i THEN j ELSE j + 1]
<1>7. \A j \in S : f[j] \in T
  BY <1>2, <1>3, <1>4, <1>5
<1>8. \A j, k \in S : f[j] = f[k] => j = k
  BY <1>3, <1>4
<1>9. f \in Injection(S, T)
  BY <1>7, <1>8 DEF Injection, IsInjective
<1>10. Cardinality(S) <= Cardinality(T)
  BY <1>6, <1>9, FS_Injection
<1> QED BY <1>1, <1>4, <1>5, <1>10 DEF ReadsIn

(* A closed pipe stays closed. *)
LEMMA StaysClosed ==
  ASSUME QuietInv, [Next]_vars, pipe.closed
  PROVE  pipe'.closed
<1>1. /\ pipe \in Pipes /\ pipe.timer = "cleared"
  BY Types DEF QuietInv, ClosedClears
<1>2. CASE UNCHANGED pipe
  BY <1>2
<1>3. ASSUME NEW reconnects \in BOOLEAN,
             \/ \E snapshot \in Snapshots : Open(reconnects, snapshot)
             \/ OpenRefused(reconnects)
      PROVE  FALSE
  BY <1>1, <1>3 DEF Open, OpenRefused, Unstarted
<1>4. CASE Signalled \/ Pump
  BY <1>4 DEF Signalled, Pump, Readable
<1>5. CASE Drain
  BY <1>5 DEF Drain, Reads
<1>6. CASE \/ Heartbeat \/ EndResponse \/ Publish \/ Close \/ Disconnect
           \/ CloseCompleted \/ \E granted \in BOOLEAN : AnswerClose(granted)
  BY <1>6 DEF Heartbeat, EndResponse, Publish, Close, Disconnect, ClosePipe, Closes,
              CloseCompleted, AnswerClose
<1>7. ASSUME NEW i \in DOMAIN requests,
             \/ \E taken \in 0..MaxEvents : AnswerRead(i, taken)
             \/ AnswerSnapshot(i) \/ AnswerError(i)
      PROVE  pipe'.closed
  BY <1>7 DEF AnswerRead, AnswerSnapshot, AnswerError
<1>8. ASSUME NEW i \in DOMAIN requests, Complete(i) PROVE pipe'.closed
  <2>1. CASE ReadDropped(i)
    BY <1>1, <2>1 DEF ReadDropped, Pipes
  <2>2. CASE ReadUnwritten(i) \/ SnapshotFailed(i)
    BY <2>2 DEF ReadUnwritten, SnapshotFailed
  <2>3. CASE SnapshotWritten(i)
    BY <1>1, <2>3 DEF SnapshotWritten, Pipes
  <2>4. ASSUME NEW writable \in BOOLEAN, ReadWritten(i, writable) PROVE FALSE
    BY <2>4 DEF ReadWritten
  <2> QED BY <1>8, <2>1, <2>2, <2>3, <2>4 DEF Complete
<1> QED BY <1>2, <1>3, <1>4, <1>5, <1>6, <1>7, <1>8 DEF Next, vars

LEMMA ClosingClosesStep == QuietInv /\ [Next]_vars => ClosingCloses'
<1> SUFFICES ASSUME QuietInv, [Next]_vars PROVE ClosingCloses'
  OBVIOUS
<1>1. CASE UNCHANGED closing
  BY <1>1, StaysClosed DEF QuietInv, ClosingCloses
<1>2. CASE pipe.closed
  BY <1>2, StaysClosed DEF ClosingCloses
<1>3. CASE CloseCompleted \/ \E granted \in BOOLEAN : AnswerClose(granted)
  BY <1>2, <1>3 DEF CloseCompleted, AnswerClose, QuietInv, ClosingCloses
<1>4. CASE Close \/ Disconnect
  <2>1. CASE UNCHANGED <<pipe, subscription, closing, closes>>
    BY <1>1, <2>1
  <2>2. CASE ClosePipe
    <3>1. CASE ~Closes
      BY <1>1, <2>2, <3>1 DEF ClosePipe
    <3>2. CASE Closes
      <4>1. pipe \in Pipes /\ pipe' = [pipe EXCEPT !.closed = TRUE, !.timer = "cleared"]
        BY <2>2, <3>2, Types DEF ClosePipe, QuietInv
      <4>2. pipe'.closed
        BY <4>1 DEF Pipes
      <4> QED BY <4>2 DEF ClosingCloses
    <3> QED BY <3>1, <3>2
  <2> QED BY <1>4, <2>1, <2>2 DEF Close, Disconnect
<1>5. CASE \/ \E reconnects \in BOOLEAN, snapshot \in Snapshots :
                Open(reconnects, snapshot)
           \/ \E reconnects \in BOOLEAN : OpenRefused(reconnects)
           \/ Signalled \/ Pump \/ Drain \/ Heartbeat \/ EndResponse \/ Publish
  BY <1>1, <1>5 DEF Open, OpenRefused, Signalled, Pump, Drain, Heartbeat, EndResponse, Publish
<1>6. ASSUME NEW i \in DOMAIN requests,
             \/ \E taken \in 0..MaxEvents : AnswerRead(i, taken)
             \/ AnswerSnapshot(i) \/ AnswerError(i) \/ Complete(i)
      PROVE  ClosingCloses'
  BY <1>1, <1>6 DEF AnswerRead, AnswerSnapshot, AnswerError, Complete, ReadDropped,
                    ReadUnwritten, ReadWritten, SnapshotWritten, SnapshotFailed
<1>7. CASE UNCHANGED vars
  BY <1>1, <1>7 DEF vars
<1> QED BY <1>3, <1>4, <1>5, <1>6, <1>7 DEF Next

(* Every step of a closed pipe is quiet. *)
Quiet ==
  /\ pipe'.closed
  /\ ReadsIn(requests') <= ReadsIn(requests)
  /\ frames' # frames => Last(frames').kind = "snapshot"
  /\ CloseCalls' = CloseCalls
  /\ closing = "none" => closing' = "none"
QuietStep == pipe.closed => Quiet

LEMMA StepsAreQuiet == QuietInv /\ [Next]_vars => QuietStep
<1> SUFFICES ASSUME QuietInv, [Next]_vars, pipe.closed
             PROVE  Quiet
  BY DEF QuietStep
<1>1. /\ pipe \in Pipes /\ pipe.timer = "cleared" /\ requests \in Seq(Requests)
      /\ frames \in Seq(Frames) /\ TypeOK
  BY Types DEF QuietInv, ClosedClears
<1>2. UNCHANGED requests => ReadsIn(requests') <= ReadsIn(requests)
  BY <1>1, ReadsKept
<1>0. pipe'.closed /\ (UNCHANGED <<closing, closes>> => CloseCalls' = CloseCalls)
  BY StaysClosed DEF CloseCalls
<1>3. ASSUME NEW reconnects \in BOOLEAN,
             \/ \E snapshot \in Snapshots : Open(reconnects, snapshot)
             \/ OpenRefused(reconnects)
      PROVE  FALSE
  BY <1>1, <1>3 DEF Open, OpenRefused, Unstarted
<1>4. CASE Signalled \/ Pump
  BY <1>0, <1>2, <1>4 DEF Signalled, Pump, Readable, Quiet
<1>5. CASE Drain
  BY <1>0, <1>2, <1>5 DEF Drain, Reads, Quiet
<1>6. CASE Heartbeat \/ EndResponse \/ Publish \/ Close \/ Disconnect
  BY <1>0, <1>2, <1>6 DEF Heartbeat, EndResponse, Publish, Close, Disconnect, ClosePipe, Closes, Quiet
<1>7. ASSUME NEW i \in DOMAIN requests,
             \/ \E taken \in 0..MaxEvents : AnswerRead(i, taken)
             \/ AnswerSnapshot(i) \/ AnswerError(i)
      PROVE  Quiet
  <2>1. \E a : requests' = [requests EXCEPT ![i].answer = a]
    BY <1>7 DEF AnswerRead, AnswerSnapshot, AnswerError
  <2>2. PICK a : requests' = [requests EXCEPT ![i].answer = a]
    BY <2>1
  <2>3. requests' \in Seq(Requests)
    <3>1. TypeOK'
      BY <1>1, <1>7, AnswerReadTypes, OtherAnswerTypes
    <3> QED BY <3>1 DEF TypeOK
  <2>4. Len(requests') = Len(requests) /\ \A j \in DOMAIN requests : requests'[j].op = requests[j].op
    BY <1>1, <2>2, RequestParts
  <2>5. ReadsIn(requests') <= ReadsIn(requests)
    BY <1>1, <2>3, <2>4, ReadsKept
  <2> QED BY <1>0, <1>7, <2>5 DEF AnswerRead, AnswerSnapshot, AnswerError, Quiet
<1>8. ASSUME NEW i \in DOMAIN requests, Complete(i)
      PROVE  Quiet
  <2>1. requests' = RemoveAt(requests, i) => ReadsIn(requests') <= ReadsIn(requests)
    BY <1>1, ReadsRemoved
  <2>2. CASE ReadDropped(i) \/ ReadUnwritten(i) \/ SnapshotFailed(i)
    BY <1>0, <2>1, <2>2 DEF ReadDropped, ReadUnwritten, SnapshotFailed, Quiet
  <2>3. ASSUME NEW writable \in BOOLEAN, ReadWritten(i, writable) PROVE FALSE
    BY <2>3 DEF ReadWritten
  <2>4. CASE SnapshotWritten(i)
    <3>1. PICK frame : frame = [kind |-> "snapshot", version |-> requests[i].answer]
      OBVIOUS
    <3>2. frames' = frames \/ frames' = Append(frames, frame)
      BY <2>4, <3>1 DEF SnapshotWritten
    <3>3. CASE frames' = Append(frames, frame)
      <4>1. Last(frames') = frame
        BY <1>1, <3>3 DEF Last
      <4>2. frame.kind = "snapshot"
        BY <3>1
      <4> QED BY <1>0, <2>1, <2>4, <4>1, <4>2 DEF SnapshotWritten, Quiet
    <3> QED BY <1>0, <2>1, <2>4, <3>2, <3>3 DEF SnapshotWritten, Quiet
  <2> QED BY <1>8, <2>2, <2>3, <2>4 DEF Complete
<1>9. CASE UNCHANGED vars
  BY <1>0, <1>2, <1>9 DEF vars, Quiet
<1>10. CASE CloseCompleted
  <2>1. CloseCalls' = CloseCalls
    BY <1>1, <1>10, Types DEF CloseCompleted, CloseCalls
  <2> QED BY <1>0, <1>2, <1>10, <2>1 DEF CloseCompleted, Quiet
<1>11. ASSUME NEW granted \in BOOLEAN, AnswerClose(granted) PROVE Quiet
  <2>1. CloseCalls' = CloseCalls
    BY <1>11 DEF AnswerClose, CloseCalls
  <2> QED BY <1>0, <1>2, <1>11, <2>1 DEF AnswerClose, Quiet
<1> QED BY <1>3, <1>4, <1>5, <1>6, <1>7, <1>8, <1>9, <1>10, <1>11 DEF Next

LEMMA QuietInvInit == Init => QuietInv
<1>1. Init => pipe.closed = FALSE /\ closing = "none"
  BY DEF Init
<1> QED BY <1>1, TypeOKInit DEF QuietInv, ClosedClears, ClosingCloses

LEMMA QuietInvStep == QuietInv /\ [Next]_vars => QuietInv'
  BY ClosedClearsStep, ClosingClosesStep, TypeOKStep DEF QuietInv

(* Once closed the pipe reads and writes no more, only the snapshot is still  *)
(* written, and onClose is called at most once, whichever callbacks and       *)
(* answers still come and whatever onClose itself calls.                      *)
THEOREM ClosedPipeIsQuiet == Spec => QuietAfterClose
<1>1. Init => QuietInv
  BY QuietInvInit
<1>2. QuietInv /\ [Next]_vars => QuietInv'
  BY QuietInvStep
<1>3. QuietInv /\ [Next]_vars => [QuietStep]_vars
  BY StepsAreQuiet
<1> QED BY <1>1, <1>2, <1>3, PTL DEF Spec, QuietAfterClose, QuietStep, Quiet

-----------------------------------------------------------------------------

\* An answer to a read that has arrived, and the events it carries
Delivered(r) == r.op = "read" /\ r.answer \notin {None, Error}
Held(s) == {s[k] : k \in DOMAIN s}
Carried(r) == IF Delivered(r) THEN Held(r.answer.events) ELSE {}

\* What follows the requests: the queue, and the event published next unless
\* the subscription has overflowed
Coming ==
  IF subscription.status = "open" /\ ~subscription.overflowed
  THEN {published + 1} ELSE {}
Behind == Held(subscription.queue) \union Coming

\* The events under way come in the order of their versions.
InSequence(rs, behind) ==
  \A i \in 1..Len(rs) : \A e \in Carried(rs[i]) :
    /\ \A j \in 1..Len(rs) : i < j => \A d \in Carried(rs[j]) : e < d
    /\ \A d \in behind : e < d

\* An event under way that will be written is newer than all that was.
Fresh(fs, base, min, e) ==
  /\ base < e
  /\ \A j \in DOMAIN fs : fs[j].kind # "reset" /\ Passes(min, e) => fs[j].version < e

NewestLast(rs, behind, fs, base, min) ==
  /\ \A i \in 1..Len(rs) : \A e \in Carried(rs[i]) : Fresh(fs, base, min, e)
  /\ \A e \in behind : Fresh(fs, base, min, e)

Reconnects(frame) == frame.kind = "reset" /\ frame.reason = "reconnect"
Overflows(frame) == frame.kind = "reset" /\ frame.reason = "overflow"

\* The frame after which events may be missing, and the answer that brings it
Resets(rs, fs, m) ==
  IF m = 0 THEN fs # <<>> /\ Overflows(fs[Len(fs)])
  ELSE Delivered(rs[m]) /\ rs[m].answer.overflowed

\* Event e continues what the client knows, or an event under way, or is the
\* first one under way after an overflow at 0..last.
Follows(rs, behind, fs, known, last, e) ==
  \/ e = known + 1
  \/ e - 1 \in behind
  \/ \E j \in 1..Len(rs) : e - 1 \in Carried(rs[j])
  \/ \E m \in 0..last :
       /\ Resets(rs, fs, m)
       /\ \A d \in behind : e <= d
       /\ \A j \in 1..Len(rs) : m < j => \A d \in Carried(rs[j]) : e <= d

Covers(rs, behind, fs, known, min) ==
  /\ \A i \in 1..Len(rs) : \A e \in Carried(rs[i]) :
       Passes(min, e) => Follows(rs, behind, fs, known, i - 1, e)
  /\ \A e \in behind : Passes(min, e) => Follows(rs, behind, fs, known, Len(rs), e)

\* A pipe that has not been opened has nothing under way.
Unopened ==
  pipe.timer = "none" =>
    /\ subscription.status = "none" /\ subscription.queue = <<>>
    /\ pipe.minVersion = None
    /\ \A i \in 1..Len(requests) : requests[i].op = "read" /\ ~Delivered(requests[i])

\* The snapshot is asked for before the first read.
SnapshotFirst ==
  \A i \in 1..Len(requests) :
    requests[i].op = "snapshot" =>
      /\ i = 1 /\ pipe.minVersion = None
      /\ \A j \in DOMAIN frames : Reconnects(frames[j])
      /\ requests[i].answer \in Versions =>
           subscription.base <= requests[i].answer /\ requests[i].answer <= published

InTurns ==
  \A i, j \in 1..Len(requests) :
    i < j /\ requests[j].answer # None => requests[i].answer # None

\* What is known is not newer than what was published.
Bounded ==
  /\ subscription.base <= published
  /\ pipe.minVersion # None => pipe.minVersion <= published
  /\ \A k \in DOMAIN subscription.queue : subscription.queue[k] <= published
  /\ Sorted(subscription.queue)
  /\ \A j \in DOMAIN frames : Numbered(j) => frames[j].version <= published
  /\ \A i \in 1..Len(requests) : Delivered(requests[i]) =>
       /\ \A e \in Carried(requests[i]) : e <= published
       /\ Sorted(requests[i].answer.events)
       /\ requests[i].answer.overflowed => requests[i].answer.events = <<>>

Streamed ==
  /\ InSequence(requests, Behind)
  /\ NewestLast(requests, Behind, frames, subscription.base, pipe.minVersion)

Covered ==
  ~failed =>
    /\ pipe.minVersion # None => Known(Len(frames)) >= pipe.minVersion
    /\ ~pipe.closed =>
         Covers(requests, Behind, frames, Known(Len(frames)), pipe.minVersion)

Announced ==
  \A j \in DOMAIN frames :
    frames[j].kind = "state" =>
      \/ frames[j].version = Known(j - 1) + 1
      \/ j > 1 /\ frames[j - 1].kind = "reset"
      \/ failed

OrderInv ==
  /\ TypeOK /\ Unopened /\ SnapshotFirst /\ InTurns /\ Bounded /\ Streamed
  /\ VersionsIncrease /\ Covered /\ Announced

-----------------------------------------------------------------------------

\* What a client knows, of any frames
KnownIn(fs, base, j) ==
  LET numbered == {i \in 1..j : fs[i].kind # "reset"}
  IN  IF numbered = {} THEN base ELSE fs[Max(numbered)].version

LEMMA KnownIs == \A j : Known(j) = KnownIn(frames, subscription.base, j)
  BY DEF Known, KnownIn, Numbered

LEMMA KnownNone ==
  ASSUME NEW fs, NEW base, NEW j, \A i \in 1..j : fs[i].kind = "reset"
  PROVE  KnownIn(fs, base, j) = base
  BY DEF KnownIn

LEMMA KnownLast ==
  ASSUME NEW fs, NEW base, NEW j \in Nat, NEW n \in 1..j, fs[n].kind # "reset",
         \A i \in 1..j : fs[i].kind # "reset" => i <= n
  PROVE  KnownIn(fs, base, j) = fs[n].version
<1>1. PICK S : S = {i \in 1..j : fs[i].kind # "reset"}
  OBVIOUS
<1>2. n \in S /\ S \subseteq Int /\ \A i \in S : i <= n
  BY <1>1
<1>3. Max(S) = n
  BY <1>2 DEF Max
<1> QED BY <1>1, <1>2, <1>3 DEF KnownIn

\* Some frame is the last that is numbered, or none is.
LEMMA LastNumbered ==
  ASSUME NEW fs, NEW j \in Nat
  PROVE  \/ \A i \in 1..j : fs[i].kind = "reset"
         \/ \E n \in 1..j : fs[n].kind # "reset" /\ \A i \in 1..j : fs[i].kind # "reset" => i <= n
<1> SUFFICES ASSUME NEW i \in 1..j, fs[i].kind # "reset"
             PROVE  \E n \in 1..j : fs[n].kind # "reset"
                      /\ \A k \in 1..j : fs[k].kind # "reset" => k <= n
  OBVIOUS
<1> DEFINE T == {d \in 0..j : j - d \in 1..j /\ fs[j - d].kind # "reset"}
<1>1. j - i \in T
  <2>1. j - i \in 0..j /\ j - (j - i) = i
    OBVIOUS
  <2> QED BY <2>1
<1>2. PICK d \in T : \A c \in T : d <= c
  <2>1. T \in SUBSET Nat
    OBVIOUS
  <2> HIDE DEF T
  <2>2. T # {}
    BY <1>1
  <2> QED BY <2>1, <2>2, LeastNatural
<1>3. ASSUME NEW k \in 1..j, fs[k].kind # "reset" PROVE k <= j - d
  <2>1. j - k \in 0..j /\ j - (j - k) = k
    OBVIOUS
  <2>2. j - k \in T
    BY <1>3, <2>1
  <2>3. d <= j - k
    BY <1>2, <2>2
  <2> QED BY <2>3, <1>2
<1> QED BY <1>2, <1>3

LEMMA KnownPrefix ==
  ASSUME NEW fs, NEW gs, NEW base, NEW j \in Nat, \A i \in 1..j : gs[i] = fs[i]
  PROVE  KnownIn(gs, base, j) = KnownIn(fs, base, j)
<1>1. CASE \A i \in 1..j : fs[i].kind = "reset"
  <2>1. \A i \in 1..j : gs[i].kind = "reset"
    BY <1>1
  <2> QED BY <1>1, <2>1, KnownNone
<1>2. ASSUME NEW n \in 1..j, fs[n].kind # "reset",
             \A i \in 1..j : fs[i].kind # "reset" => i <= n
      PROVE  KnownIn(gs, base, j) = KnownIn(fs, base, j)
  <2>1. gs[n].kind # "reset" /\ \A i \in 1..j : gs[i].kind # "reset" => i <= n
    BY <1>2
  <2> QED BY <1>2, <2>1, KnownLast
<1> QED BY <1>1, <1>2, LastNumbered

-----------------------------------------------------------------------------

\* Requests that carry the same, and perhaps others that carry nothing
Alike(rs, qs) ==
  /\ rs \in Seq(Requests) /\ qs \in Seq(Requests) /\ Len(rs) <= Len(qs)
  /\ \A j \in 1..Len(rs) : qs[j] = rs[j] \/ (~Delivered(qs[j]) /\ ~Delivered(rs[j]))
  /\ \A j \in 1..Len(qs) : j > Len(rs) => ~Delivered(qs[j])

LEMMA AlikeCarries ==
  ASSUME NEW rs, NEW qs, Alike(rs, qs)
  PROVE  /\ Len(rs) \in Nat /\ Len(qs) \in Nat /\ Len(rs) <= Len(qs)
         /\ 1..Len(rs) \subseteq 1..Len(qs)
         /\ \A j \in 1..Len(rs) : Carried(qs[j]) = Carried(rs[j])
         /\ \A j \in 1..Len(qs) : j \notin 1..Len(rs) => Carried(qs[j]) = {}
<1>1. Len(rs) \in Nat /\ Len(qs) \in Nat
  BY LenProperties DEF Alike
<1>2. 1..Len(rs) \subseteq 1..Len(qs)
  BY <1>1 DEF Alike
<1>3. \A j \in 1..Len(rs) : Carried(qs[j]) = Carried(rs[j])
  BY DEF Alike, Carried
<1>4. ASSUME NEW j \in 1..Len(qs), j \notin 1..Len(rs) PROVE Carried(qs[j]) = {}
  <2>1. j > Len(rs)
    BY <1>1, <1>4
  <2> QED BY <2>1 DEF Alike, Carried
<1> QED BY <1>1, <1>2, <1>3, <1>4 DEF Alike

LEMMA AlikeInSequence ==
  ASSUME NEW rs, NEW qs, NEW behind, Alike(rs, qs), InSequence(rs, behind)
  PROVE  InSequence(qs, behind)
<1> SUFFICES ASSUME NEW i \in 1..Len(qs), NEW e \in Carried(qs[i])
             PROVE  /\ \A j \in 1..Len(qs) : i < j => \A d \in Carried(qs[j]) : e < d
                    /\ \A d \in behind : e < d
  BY DEF InSequence
<1>1. i \in 1..Len(rs) /\ e \in Carried(rs[i])
  BY AlikeCarries
<1>2. ASSUME NEW j \in 1..Len(qs), i < j, NEW d \in Carried(qs[j]) PROVE e < d
  <2>1. j \in 1..Len(rs) /\ d \in Carried(rs[j])
    BY AlikeCarries
  <2> QED BY <1>1, <1>2, <2>1 DEF InSequence
<1> QED BY <1>1, <1>2 DEF InSequence

LEMMA AlikeNewest ==
  ASSUME NEW rs, NEW qs, NEW behind, NEW fs, NEW base, NEW min,
         Alike(rs, qs), NewestLast(rs, behind, fs, base, min)
  PROVE  NewestLast(qs, behind, fs, base, min)
  BY AlikeCarries DEF NewestLast

LEMMA AlikeFollows ==
  ASSUME NEW rs, NEW qs, NEW behind, NEW fs, NEW known, NEW last \in 0..Len(rs),
         NEW more \in 0..Len(qs), last <= more, NEW e, Alike(rs, qs),
         Follows(rs, behind, fs, known, last, e)
  PROVE  Follows(qs, behind, fs, known, more, e)
<1>1. CASE e = known + 1 \/ e - 1 \in behind
  BY <1>1 DEF Follows
<1>2. CASE \E j \in 1..Len(rs) : e - 1 \in Carried(rs[j])
  BY <1>2, AlikeCarries DEF Follows
<1>3. ASSUME NEW m \in 0..last,
             /\ Resets(rs, fs, m)
             /\ \A d \in behind : e <= d
             /\ \A j \in 1..Len(rs) : m < j => \A d \in Carried(rs[j]) : e <= d
      PROVE  Follows(qs, behind, fs, known, more, e)
  <2>1. m \in 0..more /\ (m # 0 => m \in 1..Len(rs))
    BY AlikeCarries
  <2>2. Resets(qs, fs, m)
    BY <1>3, <2>1 DEF Resets, Alike
  <2>3. ASSUME NEW j \in 1..Len(qs), m < j, NEW d \in Carried(qs[j]) PROVE e <= d
    <3>1. j \in 1..Len(rs) /\ d \in Carried(rs[j])
      BY AlikeCarries
    <3> QED BY <1>3, <2>3, <3>1
  <2> QED BY <1>3, <2>1, <2>2, <2>3 DEF Follows
<1> QED BY <1>1, <1>2, <1>3 DEF Follows

LEMMA AlikeCovers ==
  ASSUME NEW rs, NEW qs, NEW behind, NEW fs, NEW known, NEW min,
         Alike(rs, qs), Covers(rs, behind, fs, known, min)
  PROVE  Covers(qs, behind, fs, known, min)
<1>1. ASSUME NEW i \in 1..Len(qs), NEW e \in Carried(qs[i]), Passes(min, e)
      PROVE  Follows(qs, behind, fs, known, i - 1, e)
  <2>1. i \in 1..Len(rs) /\ e \in Carried(rs[i])
    <3>1. /\ \A j \in 1..Len(rs) : Carried(qs[j]) = Carried(rs[j])
          /\ \A j \in 1..Len(qs) : j \notin 1..Len(rs) => Carried(qs[j]) = {}
      BY AlikeCarries, Zenon
    <3>2. i \in 1..Len(rs)
      BY <3>1, Zenon
    <3> QED BY <3>1, <3>2, Zenon
  <2>2. Follows(rs, behind, fs, known, i - 1, e)
    BY <1>1, <2>1 DEF Covers
  <2>3. i - 1 \in 0..Len(rs) /\ i - 1 \in 0..Len(qs) /\ i - 1 <= i - 1
    BY <2>1, AlikeCarries
  <2> QED BY <2>2, <2>3, AlikeFollows
<1>2. ASSUME NEW e \in behind, Passes(min, e)
      PROVE  Follows(qs, behind, fs, known, Len(qs), e)
  <2>1. Follows(rs, behind, fs, known, Len(rs), e)
    BY <1>2 DEF Covers
  <2>2. Len(rs) \in 0..Len(rs) /\ Len(qs) \in 0..Len(qs) /\ Len(rs) <= Len(qs)
    BY AlikeCarries
  <2> QED BY <2>1, <2>2, AlikeFollows
<1> QED BY <1>1, <1>2 DEF Covers

(* A step that leaves what is under way, what was published and what was *)
(* written alone keeps its order; closing and failing ask for less.      *)
LEMMA OrderKept ==
  ASSUME OrderInv, Alike(requests, requests'),
         Behind' = Behind, subscription'.queue = subscription.queue,
         subscription'.base = subscription.base, UNCHANGED <<published, frames>>,
         pipe'.minVersion = pipe.minVersion,
         pipe.closed => pipe'.closed, failed => failed'
  PROVE  Bounded' /\ Streamed' /\ VersionsIncrease' /\ Covered' /\ Announced'
<1>1. Bounded /\ Streamed /\ VersionsIncrease /\ Covered /\ Announced
  BY DEF OrderInv
<1>2. Bounded'
  <2>1. ASSUME NEW j \in 1..Len(requests'), Delivered(requests'[j])
        PROVE  j \in 1..Len(requests) /\ requests'[j] = requests[j]
    BY <2>1, AlikeCarries DEF Alike
  <2>2. \A j \in 1..Len(requests') : Delivered(requests'[j]) =>
          /\ \A e \in Carried(requests'[j]) : e <= published
          /\ Sorted(requests'[j].answer.events)
          /\ requests'[j].answer.overflowed => requests'[j].answer.events = <<>>
    BY <1>1, <2>1 DEF Bounded
  <2>3. /\ subscription'.base <= published'
        /\ pipe'.minVersion # None => pipe'.minVersion <= published'
        /\ \A k \in DOMAIN subscription'.queue : subscription'.queue[k] <= published'
        /\ Sorted(subscription'.queue)
        /\ \A j \in DOMAIN frames' : frames'[j].kind # "reset" => frames'[j].version <= published'
    BY <1>1 DEF Bounded, Numbered
  <2> QED BY <2>2, <2>3 DEF Bounded, Numbered
<1>3. Streamed'
  <2>1. InSequence(requests', Behind')
    BY <1>1, AlikeInSequence DEF Streamed
  <2>2. NewestLast(requests', Behind', frames', subscription'.base, pipe'.minVersion)
    BY <1>1, AlikeNewest DEF Streamed
  <2> QED BY <2>1, <2>2 DEF Streamed
<1>4. VersionsIncrease'
  BY <1>1 DEF VersionsIncrease, Numbered
<1>5. \A j : Known(j)' = Known(j)
  BY DEF Known, Numbered
<1>6. Covered'
  <2>1. Known(Len(frames))' = Known(Len(frames))
    BY <1>5
  <2> SUFFICES ASSUME ~failed'
               PROVE  /\ pipe'.minVersion # None => Known(Len(frames))' >= pipe'.minVersion
                      /\ ~pipe'.closed =>
                           Covers(requests', Behind', frames', Known(Len(frames))', pipe'.minVersion)
    BY DEF Covered
  <2>2. pipe'.minVersion # None => Known(Len(frames))' >= pipe'.minVersion
    BY <1>1, <2>1 DEF Covered
  <2>3. ASSUME ~pipe'.closed
        PROVE  Covers(requests', Behind', frames', Known(Len(frames))', pipe'.minVersion)
    <3>1. Covers(requests, Behind, frames, Known(Len(frames)), pipe.minVersion)
      BY <1>1, <2>3 DEF Covered
    <3>2. Covers(requests', Behind, frames, Known(Len(frames)), pipe.minVersion)
      BY <3>1, AlikeCovers
    <3> QED BY <2>1, <3>2
  <2> QED BY <2>2, <2>3
<1>7. Announced'
  BY <1>1, <1>5 DEF Announced
<1> QED BY <1>2, <1>3, <1>4, <1>6, <1>7

LEMMA AlikeSame ==
  ASSUME NEW rs \in Seq(Requests)
  PROVE  Alike(rs, rs)
<1>1. Len(rs) \in Nat
  BY LenProperties
<1> QED BY <1>1 DEF Alike

LEMMA AlikeRead ==
  ASSUME NEW rs \in Seq(Requests)
  PROVE  LET qs == Append(rs, [op |-> "read", answer |-> None])
         IN  /\ Alike(rs, qs) /\ Len(qs) = Len(rs) + 1 /\ qs \in Seq(Requests)
             /\ \A j \in 1..Len(rs) : qs[j] = rs[j]
             /\ qs[Len(rs) + 1].op = "read" /\ qs[Len(rs) + 1].answer = None
<1>1. PICK r : r = [op |-> "read", answer |-> None]
  OBVIOUS
<1>2. r \in Requests /\ ~Delivered(r) /\ r.op = "read" /\ r.answer = None
  BY <1>1, ReadRequest DEF Delivered
<1>3. PICK qs : qs = Append(rs, r)
  OBVIOUS
<1>4. /\ qs \in Seq(Requests) /\ Len(qs) = Len(rs) + 1 /\ Len(rs) \in Nat
      /\ qs[Len(rs) + 1] = r /\ \A j \in 1..Len(rs) : qs[j] = rs[j]
  BY <1>2, <1>3, AppendShape
<1>5. \A j \in 1..Len(qs) : j > Len(rs) => qs[j] = r
  BY <1>4
<1>6. Alike(rs, qs)
  BY <1>2, <1>4, <1>5 DEF Alike
<1> QED BY <1>1, <1>2, <1>3, <1>4, <1>6

(* A read more does not disturb the snapshot, the turns or an unopened pipe. *)
LEMMA ReadStarted ==
  ASSUME OrderInv, NEW p \in Pipes, StartRead(p, requests),
         p.minVersion = pipe.minVersion, p.timer = pipe.timer, p.closed = pipe.closed,
         UNCHANGED <<published, frames, failed>>,
         subscription' \in Subscriptions, subscription'.status = subscription.status,
         subscription'.queue = subscription.queue, subscription'.base = subscription.base,
         subscription'.overflowed = subscription.overflowed,
         TypeOK'
  PROVE  OrderInv'
<1>1. /\ TypeOK /\ Unopened /\ SnapshotFirst /\ InTurns
      /\ requests \in Seq(Requests) /\ pipe \in Pipes
  BY Types DEF OrderInv
<1>2. /\ requests' = Append(requests, [op |-> "read", answer |-> None])
      /\ pipe' = [p EXCEPT !.active = TRUE, !.pending = FALSE]
  BY DEF StartRead
<1>3. /\ Alike(requests, requests') /\ Len(requests') = Len(requests) + 1
      /\ Len(requests) \in Nat
      /\ \A j \in 1..Len(requests) : requests'[j] = requests[j]
      /\ requests'[Len(requests) + 1].op = "read"
      /\ requests'[Len(requests) + 1].answer = None
  BY <1>1, <1>2, AlikeRead, LenProperties
<1>4. \A j \in 1..Len(requests') : j \in 1..Len(requests) \/ j = Len(requests) + 1
  BY <1>3
<1>5. /\ pipe'.minVersion = pipe.minVersion /\ pipe'.timer = pipe.timer
      /\ pipe'.closed = pipe.closed
  BY <1>2 DEF Pipes
<1>6. Behind' = Behind
  BY DEF Behind, Coming
<1>7. Bounded' /\ Streamed' /\ VersionsIncrease' /\ Covered' /\ Announced'
  BY <1>3, <1>5, <1>6, OrderKept
<1>8. Unopened'
  <2>1. ~Delivered(requests'[Len(requests) + 1])
    BY <1>3 DEF Delivered
  <2> QED BY <1>1, <1>3, <1>4, <1>5, <2>1 DEF Unopened
<1>9. SnapshotFirst'
  <2>1. \A i \in 1..Len(requests') : requests'[i].op = "snapshot" => i \in 1..Len(requests)
    BY <1>3, <1>4
  <2> QED BY <1>1, <1>3, <1>5, <2>1 DEF SnapshotFirst
<1>10. InTurns'
  <2> SUFFICES ASSUME NEW i \in 1..Len(requests'), NEW j \in 1..Len(requests'),
                      i < j, requests'[j].answer # None
               PROVE  requests'[i].answer # None
    BY DEF InTurns
  <2>1. j \in 1..Len(requests)
    BY <1>3, <1>4
  <2>2. i \in 1..Len(requests)
    BY <1>3, <2>1
  <2> QED BY <1>1, <1>3, <2>1, <2>2 DEF InTurns
<1> QED BY <1>7, <1>8, <1>9, <1>10 DEF OrderInv

(* Flags, the timer and the response have no part in the order. *)
LEMMA FlagsChanged ==
  ASSUME OrderInv, TypeOK', UNCHANGED <<requests, published, frames>>,
         subscription'.status = subscription.status,
         subscription'.queue = subscription.queue, subscription'.base = subscription.base,
         subscription'.overflowed = subscription.overflowed,
         pipe'.minVersion = pipe.minVersion,
         pipe'.timer = "none" => pipe.timer = "none",
         pipe.closed => pipe'.closed, failed => failed'
  PROVE  OrderInv'
<1>1. TypeOK /\ Unopened /\ SnapshotFirst /\ InTurns /\ requests \in Seq(Requests)
  BY Types DEF OrderInv
<1>2. Alike(requests, requests')
  BY <1>1, AlikeSame
<1>3. Behind' = Behind
  BY DEF Behind, Coming
<1>4. Bounded' /\ Streamed' /\ VersionsIncrease' /\ Covered' /\ Announced'
  BY <1>2, <1>3, OrderKept
<1>5. Unopened' /\ SnapshotFirst' /\ InTurns'
  BY <1>1 DEF Unopened, SnapshotFirst, InTurns
<1> QED BY <1>4, <1>5 DEF OrderInv

LEMMA ReadableOrder ==
  ASSUME OrderInv, Readable, TypeOK', UNCHANGED <<published, frames, failed>>,
         subscription' \in Subscriptions, subscription'.status = subscription.status,
         subscription'.queue = subscription.queue, subscription'.base = subscription.base,
         subscription'.overflowed = subscription.overflowed
  PROVE  OrderInv'
<1>1. pipe \in Pipes
  BY Types DEF OrderInv
<1>2. CASE UNCHANGED <<pipe, requests>>
  BY <1>2, FlagsChanged
<1>3. CASE pipe' = [pipe EXCEPT !.pending = TRUE] /\ UNCHANGED requests
  <2>1. /\ pipe'.minVersion = pipe.minVersion /\ pipe'.timer = pipe.timer
        /\ pipe'.closed = pipe.closed
    BY <1>1, <1>3 DEF Pipes
  <2> QED BY <1>3, <2>1, FlagsChanged
<1>4. CASE StartRead(pipe, requests)
  BY <1>1, <1>4, ReadStarted
<1> QED BY <1>2, <1>3, <1>4 DEF Readable

LEMMA GuestOrder ==
  ASSUME OrderInv, TypeOK', Signalled \/ Pump \/ Drain \/ Heartbeat \/ EndResponse
  PROVE  OrderInv'
<1>1. subscription \in Subscriptions /\ pipe \in Pipes
  BY Types DEF OrderInv
<1>2. CASE Signalled
  <2>1. /\ subscription' \in Subscriptions /\ subscription'.status = subscription.status
        /\ subscription'.queue = subscription.queue /\ subscription'.base = subscription.base
        /\ subscription'.overflowed = subscription.overflowed
    BY <1>1, <1>2 DEF Signalled, Subscriptions
  <2> QED BY <1>2, <2>1, ReadableOrder DEF Signalled
<1>3. CASE Pump
  BY <1>1, <1>3, ReadableOrder DEF Pump
<1>4. CASE Drain
  <2>1. CASE StartRead(pipe, requests)
    BY <1>1, <1>4, <2>1, ReadStarted DEF Drain
  <2>2. CASE UNCHANGED <<pipe, requests>>
    BY <1>4, <2>2, FlagsChanged DEF Drain
  <2> QED BY <1>4, <2>1, <2>2 DEF Drain
<1>5. CASE Heartbeat
  BY <1>5, FlagsChanged DEF Heartbeat
<1>6. CASE EndResponse
  BY <1>6, FlagsChanged DEF EndResponse
<1> QED BY <1>2, <1>3, <1>4, <1>5, <1>6

(* Closing the subscription of a closed pipe drops what is under way in it. *)
LEMMA UnsubscribedOrder ==
  ASSUME OrderInv, TypeOK', subscription' = Unsubscribed,
         UNCHANGED <<requests, published, frames, failed>>,
         pipe'.closed, pipe'.timer = "cleared", pipe'.minVersion = pipe.minVersion
  PROVE  OrderInv'
<1>1. /\ subscription \in Subscriptions /\ OrderInv
      /\ requests \in Seq(Requests) /\ Len(requests) \in Nat
  BY Types, LenProperties DEF OrderInv
<1>2. /\ subscription'.status = "closed" /\ subscription'.queue = <<>>
      /\ subscription'.base = subscription.base
  BY <1>1 DEF Unsubscribed, Subscriptions
<1>3. Behind' = {}
  BY <1>2 DEF Behind, Coming, Held
<1>4. Unopened' /\ SnapshotFirst' /\ InTurns'
  BY <1>1, <1>2 DEF OrderInv, Unopened, SnapshotFirst, InTurns
<1>5. Bounded'
  BY <1>1, <1>2 DEF OrderInv, Bounded, Sorted, Numbered
<1>6. Streamed'
  BY <1>1, <1>2, <1>3 DEF OrderInv, Streamed, InSequence, NewestLast
<1>7. \A j : Known(j)' = Known(j)
  BY <1>2 DEF Known, Numbered
<1>8. VersionsIncrease' /\ Announced'
  BY <1>1, <1>7 DEF OrderInv, VersionsIncrease, Announced, Numbered
<1>9. Covered'
  <2>1. Known(Len(frames))' = Known(Len(frames))
    BY <1>7
  <2> QED BY <1>1, <2>1 DEF OrderInv, Covered
<1> QED BY <1>4, <1>5, <1>6, <1>8, <1>9 DEF OrderInv

LEMMA CloseOrder ==
  ASSUME OrderInv, TypeOK', ClosePipe, UNCHANGED <<requests, published, frames, failed>>
  PROVE  OrderInv'
<1>1. pipe \in Pipes
  BY Types DEF OrderInv
<1>2. CASE UNCHANGED subscription
  <2>1. /\ pipe'.minVersion = pipe.minVersion
        /\ pipe'.timer = "none" => pipe.timer = "none"
        /\ pipe.closed => pipe'.closed
    BY <1>1 DEF ClosePipe, Pipes
  <2> QED BY <1>2, <2>1, FlagsChanged
<1>3. CASE /\ pipe' = [pipe EXCEPT !.closed = TRUE, !.timer = "cleared"]
           /\ subscription' = Unsubscribed
  <2>1. pipe'.closed /\ pipe'.timer = "cleared" /\ pipe'.minVersion = pipe.minVersion
    BY <1>1, <1>3 DEF Pipes
  <2> QED BY <1>3, <2>1, UnsubscribedOrder
<1> QED BY <1>2, <1>3 DEF ClosePipe

LEMMA ClosingOrder ==
  ASSUME OrderInv, QuietInv, TypeOK',
         \/ Close \/ Disconnect \/ CloseCompleted
         \/ \E granted \in BOOLEAN : AnswerClose(granted)
  PROVE  OrderInv'
<1>1. CASE Close
  BY <1>1, CloseOrder DEF Close
<1>2. CASE Disconnect
  <2>1. CASE ClosePipe
    BY <1>2, <2>1, CloseOrder DEF Disconnect
  <2>2. CASE UNCHANGED <<pipe, subscription, closing, closes>>
    BY <1>2, <2>2, FlagsChanged DEF Disconnect
  <2> QED BY <1>2, <2>1, <2>2 DEF Disconnect
<1>3. CASE CloseCompleted
  BY <1>3, FlagsChanged DEF CloseCompleted
<1>4. ASSUME NEW granted \in BOOLEAN, AnswerClose(granted) PROVE OrderInv'
  <2>1. CASE UNCHANGED subscription
    BY <1>4, <2>1, FlagsChanged DEF AnswerClose
  <2>2. CASE subscription' = Unsubscribed
    <3>1. pipe.closed /\ pipe.timer = "cleared"
      BY <1>4 DEF AnswerClose, QuietInv, ClosingCloses, ClosedClears
    <3> QED BY <1>4, <2>2, <3>1, UnsubscribedOrder DEF AnswerClose
  <2> QED BY <1>4, <2>1, <2>2 DEF AnswerClose
<1> QED BY <1>1, <1>2, <1>3, <1>4

(* Nothing is under way in a pipe that has not been opened. *)
LEMMA NothingUnderWay ==
  ASSUME OrderInv, pipe.timer = "none"
  PROVE  /\ \A i \in 1..Len(requests) : Carried(requests[i]) = {}
         /\ Behind = {} /\ pipe.minVersion = None
         /\ subscription.queue = <<>> /\ subscription.status = "none"
  BY DEF OrderInv, Unopened, Carried, Behind, Coming, Held

LEMMA OpenRefusedOrder ==
  ASSUME OrderInv, TypeOK', NEW reconnects \in BOOLEAN, OpenRefused(reconnects)
  PROVE  OrderInv'
<1>1. /\ \A i \in 1..Len(requests) : Carried(requests[i]) = {}
      /\ Behind = {} /\ pipe.minVersion = None
      /\ pipe \in Pipes /\ OrderInv
  BY NothingUnderWay, Types DEF OpenRefused, Unstarted, OrderInv
<1>2. pipe'.timer = "running" /\ pipe'.minVersion = None
  BY <1>1 DEF OpenRefused, Pipes
<1>3. UNCHANGED <<subscription, requests, published, failed>>
  BY DEF OpenRefused
<1>4. Behind' = {}
  BY <1>1, <1>3 DEF Behind, Coming
<1>5. \A j \in DOMAIN frames' : Reconnects(frames'[j]) /\ frames'[j].kind = "reset"
  BY <1>1, ResetTypes DEF OpenRefused, OrderInv, Reconnects
<1>6. Unopened' /\ SnapshotFirst' /\ InTurns'
  BY <1>1, <1>2, <1>3, <1>5 DEF OrderInv, Unopened, SnapshotFirst, InTurns
<1>7. Bounded'
  BY <1>1, <1>2, <1>3, <1>5 DEF OrderInv, Bounded, Numbered
<1>8. Streamed'
  BY <1>1, <1>3, <1>4 DEF Streamed, InSequence, NewestLast
<1>9. VersionsIncrease' /\ Announced'
  BY <1>5 DEF VersionsIncrease, Announced, Numbered
<1>10. Covered'
  BY <1>1, <1>2, <1>3, <1>4 DEF Covered, Covers
<1> QED BY <1>6, <1>7, <1>8, <1>9, <1>10 DEF OrderInv

(* The first event of a subscription follows the version it starts from. *)
LEMMA OpenOrder ==
  ASSUME OrderInv, TypeOK', NEW reconnects \in BOOLEAN, NEW snapshot \in BOOLEAN,
         Open(reconnects, snapshot)
  PROVE  OrderInv'
<1>1. /\ pipe.minVersion = None /\ subscription.queue = <<>>
      /\ pipe \in Pipes /\ subscription \in Subscriptions /\ published \in Nat /\ OrderInv
  BY NothingUnderWay, Types, ConstantTypes DEF Open, Unstarted, OrderInv
<1>2. pipe'.timer = "running" /\ pipe'.minVersion = None
  BY <1>1 DEF Open, Pipes
<1>3. /\ subscription'.base = published /\ subscription'.queue = <<>>
      /\ published' = published
  BY <1>1 DEF Open, Subscriptions
<1>4. Behind' \subseteq {published + 1}
  BY <1>3 DEF Behind, Coming, Held
<1>5. \A j \in DOMAIN frames' : Reconnects(frames'[j]) /\ frames'[j].kind = "reset"
  BY <1>1, ResetTypes DEF Open, OrderInv, Reconnects
<1>6. \A j \in 1..Len(requests') : /\ requests'[j].op = "snapshot"
                                   /\ requests'[j].answer = None /\ j = 1
  BY DEF Open
<1>7. \A j \in 1..Len(requests') : ~Delivered(requests'[j]) /\ Carried(requests'[j]) = {}
  BY <1>6 DEF Delivered, Carried
<1>8. Unopened' /\ SnapshotFirst' /\ InTurns'
  BY <1>2, <1>5, <1>6, ConstantTypes DEF Unopened, SnapshotFirst, InTurns
<1>9. Bounded'
  BY <1>1, <1>2, <1>3, <1>5, <1>7 DEF Bounded, Numbered, Sorted
<1>10. Streamed'
  <2>1. InSequence(requests', Behind')
    BY <1>7 DEF InSequence
  <2>2. \A e \in Behind' : Fresh(frames', subscription'.base, pipe'.minVersion, e)
    BY <1>1, <1>3, <1>4, <1>5 DEF Fresh
  <2> QED BY <1>7, <2>1, <2>2 DEF Streamed, NewestLast
<1>11. VersionsIncrease' /\ Announced'
  BY <1>5 DEF VersionsIncrease, Announced, Numbered
<1>12. Covered'
  <2>1. Known(Len(frames))' = published
    <3>1. frames' \in Seq(Frames)
      BY DEF TypeOK
    <3>2. \A j \in 1..Len(frames') : ~Numbered(j)'
      BY <1>5, <3>1 DEF Numbered
    <3> QED BY <1>3, <3>2 DEF Known
  <2>2. \A e \in Behind' : Follows(requests', Behind', frames', published, Len(requests'), e)
    BY <1>4 DEF Follows
  <2>3. Covers(requests', Behind', frames', published, pipe'.minVersion)
    BY <1>7, <2>2 DEF Covers
  <2> QED BY <1>2, <2>1, <2>3 DEF Covered
<1> QED BY <1>8, <1>9, <1>10, <1>11, <1>12 DEF OrderInv

-----------------------------------------------------------------------------

LEMMA FollowsBehind ==
  ASSUME NEW rs, NEW b, NEW c, NEW fs, NEW known, NEW last, NEW e,
         Follows(rs, b, fs, known, last, e),
         e - 1 \in b => e - 1 \in c,
         \A d \in c : d \in b \/ e <= d
  PROVE  Follows(rs, c, fs, known, last, e)
  BY DEF Follows

LEMMA HeldAppend ==
  ASSUME NEW S, NEW s \in Seq(S), NEW v \in S
  PROVE  Held(Append(s, v)) = Held(s) \union {v}
<1>1. /\ Len(s) \in Nat /\ DOMAIN s = 1..Len(s) /\ DOMAIN Append(s, v) = 1..(Len(s) + 1)
      /\ Append(s, v)[Len(s) + 1] = v /\ \A j \in 1..Len(s) : Append(s, v)[j] = s[j]
  BY AppendShape
<1>2. PICK a : a = Append(s, v)
  OBVIOUS
<1>3. \A j \in DOMAIN a : j \in DOMAIN s \/ j = Len(s) + 1
  BY <1>1, <1>2
<1>4. ASSUME NEW x \in Held(a) PROVE x \in Held(s) \union {v}
  BY <1>1, <1>2, <1>3 DEF Held
<1>5. ASSUME NEW x \in Held(s) \union {v} PROVE x \in Held(a)
  BY <1>1, <1>2 DEF Held
<1> QED BY <1>2, <1>4, <1>5

LEMMA SortedAppend ==
  ASSUME NEW s \in Seq(Nat), NEW v \in Nat, Sorted(s), \A j \in DOMAIN s : s[j] < v
  PROVE  Sorted(Append(s, v))
<1>1. /\ Len(s) \in Nat /\ DOMAIN s = 1..Len(s) /\ DOMAIN Append(s, v) = 1..(Len(s) + 1)
      /\ Append(s, v)[Len(s) + 1] = v /\ \A j \in 1..Len(s) : Append(s, v)[j] = s[j]
  BY AppendShape
<1>2. PICK a : a = Append(s, v)
  OBVIOUS
<1>3. ASSUME NEW k \in DOMAIN a, NEW l \in DOMAIN a, k < l PROVE a[k] < a[l]
  <2>1. k \in DOMAIN s
    BY <1>1, <1>2, <1>3
  <2>2. l \in DOMAIN s \/ l = Len(s) + 1
    BY <1>1, <1>2
  <2> QED BY <1>1, <1>2, <1>3, <2>1, <2>2 DEF Sorted
<1> QED BY <1>2, <1>3 DEF Sorted

LEMMA HeldTypes ==
  ASSUME NEW s \in Seq(Versions)
  PROVE  Held(s) \subseteq Nat /\ s \in Seq(Nat) /\ \A k \in DOMAIN s : s[k] \in Nat
<1>1. Versions \subseteq Nat
  BY ConstantTypes
<1>2. \A k \in DOMAIN s : s[k] \in Versions
  BY ElementOfSeq, LenProperties
<1>3. \A k \in DOMAIN s : s[k] \in Nat
  BY <1>1, <1>2
<1>4. s \in Seq(Nat)
  BY <1>3
<1> QED BY <1>3, <1>4 DEF Held

(* What is known of what is under way. *)
LEMMA UnderWay ==
  ASSUME OrderInv
  PROVE  /\ published \in Nat /\ subscription \in Subscriptions
         /\ subscription.queue \in Seq(Versions) /\ subscription.base \in Nat
         /\ requests \in Seq(Requests) /\ Len(requests) \in Nat
         /\ Behind \subseteq Nat
         /\ \A d \in Held(subscription.queue) : d <= published
         /\ \A i \in 1..Len(requests) : \A e \in Carried(requests[i]) :
              e \in Nat /\ e <= published
<1>1. /\ published \in Nat /\ subscription \in Subscriptions /\ requests \in Seq(Requests)
      /\ Versions \subseteq Nat
  BY Types, ConstantTypes DEF OrderInv
<1>2. subscription.queue \in Seq(Versions) /\ subscription.base \in Nat
  BY <1>1 DEF Subscriptions
<1>3. Len(requests) \in Nat /\ DOMAIN requests = 1..Len(requests)
  BY <1>1, LenProperties
<1>4. Held(subscription.queue) \subseteq Nat
  BY <1>2, HeldTypes
<1>5. Behind \subseteq Nat
  BY <1>1, <1>4 DEF Behind, Coming
<1>6. \A d \in Held(subscription.queue) : d <= published
  BY DEF OrderInv, Bounded, Held
<1>7. ASSUME NEW i \in 1..Len(requests), NEW e \in Carried(requests[i])
      PROVE  e \in Nat /\ e <= published
  <2>1. Delivered(requests[i]) /\ e \in Held(requests[i].answer.events)
    BY <1>7 DEF Carried
  <2>2. requests[i] \in Requests
    BY <1>1, <1>3
  <2>3. requests[i].answer \in Batches
    BY <2>1, <2>2, RequestParts DEF Delivered
  <2>4. requests[i].answer.events \in Seq(Versions)
    BY <2>3 DEF Batches
  <2>5. e \in Nat
    BY <2>1, <2>4, HeldTypes
  <2>6. e <= published
    BY <1>7, <2>1 DEF OrderInv, Bounded
  <2> QED BY <2>5, <2>6
<1> QED BY <1>1, <1>2, <1>3, <1>5, <1>6, <1>7

(* A version published, and what of it is under way: nothing more, less (the *)
(* version that was to come is lost), or the version after it.               *)
LEMMA PublishOrder == OrderInv /\ TypeOK' /\ Publish => OrderInv'
<1> SUFFICES ASSUME OrderInv, TypeOK', Publish PROVE OrderInv'
  OBVIOUS
<1>1. /\ published \in Nat /\ subscription \in Subscriptions
      /\ subscription.queue \in Seq(Versions) /\ subscription.base \in Nat
      /\ Behind \subseteq Nat
      /\ \A d \in Held(subscription.queue) : d <= published
      /\ \A i \in 1..Len(requests) : \A e \in Carried(requests[i]) : e \in Nat /\ e <= published
  BY UnderWay
<1>2. /\ published' = published + 1 /\ published + 1 \in Versions
      /\ UNCHANGED <<pipe, requests, frames, failed>>
  BY DEF Publish, TypeOK
<1>3. PICK p : p = published + 1
  OBVIOUS
<1>4. /\ Unopened /\ SnapshotFirst /\ InTurns /\ Bounded /\ Streamed /\ VersionsIncrease
      /\ Covered /\ Announced
  BY DEF OrderInv
<1>5. PICK queue \in Seq(Versions) : queue = subscription.queue
  BY <1>1
<1>6. queue \in Seq(Nat) /\ \A j \in DOMAIN queue : queue[j] < p
  <2>1. \A j \in DOMAIN queue : queue[j] \in Held(queue)
    BY DEF Held
  <2> QED BY <1>1, <1>3, <1>5, <2>1, HeldTypes
<1>7. /\ subscription'.base = subscription.base
      /\ subscription'.status = subscription.status
      /\ subscription'.queue = queue \/ subscription'.queue = Append(queue, p)
      /\ pipe.timer = "none" => subscription'.queue = queue
      /\ \/ Behind' = Behind
         \/ Behind' = Held(queue)
         \/ Behind' = Behind \union {p + 1} /\ p \in Behind
  <2>1. CASE UNCHANGED subscription /\ subscription.status # "open"
    BY <1>5, <2>1 DEF Behind, Coming
  <2>2. CASE /\ subscription.status = "open"
             /\ subscription' = [subscription EXCEPT !.overflowed = TRUE, !.signal = TRUE]
    <3>1. /\ subscription'.base = subscription.base /\ subscription'.queue = queue
          /\ subscription'.status = subscription.status /\ subscription'.overflowed
      BY <1>1, <1>5, <2>2 DEF Subscriptions
    <3>2. Behind' = Held(queue)
      BY <3>1 DEF Behind, Coming
    <3> QED BY <3>1, <3>2
  <2>3. CASE /\ subscription.status = "open" /\ ~subscription.overflowed
             /\ subscription' = [subscription EXCEPT !.queue = Append(@, published + 1),
                                                     !.signal = TRUE]
    <3>1. /\ subscription'.base = subscription.base
          /\ subscription'.queue = Append(queue, p)
          /\ subscription'.status = "open" /\ ~subscription'.overflowed
      BY <1>1, <1>3, <1>5, <2>3 DEF Subscriptions
    <3>2. Held(Append(queue, p)) = Held(queue) \union {p}
      BY <1>2, <1>3, HeldAppend
    <3>3. Behind = Held(queue) \union {p}
      BY <1>3, <1>5, <2>3 DEF Behind, Coming
    <3>4. Behind' = Held(queue) \union {p} \union {p + 1}
      BY <1>2, <1>3, <3>1, <3>2 DEF Behind, Coming
    <3>5. pipe.timer # "none"
      BY <2>3, <1>4 DEF Unopened
    <3> QED BY <2>3, <3>1, <3>3, <3>4, <3>5
  <2> QED BY <2>1, <2>2, <2>3 DEF Publish
<1>8. \A d \in Behind' : d \in Behind \/ d = p + 1
  <2>1. Held(queue) \subseteq Behind
    BY <1>5 DEF Behind
  <2> QED BY <1>7, <2>1
<1>9. Unopened' /\ InTurns'
  BY <1>2, <1>4, <1>5, <1>7 DEF Unopened, InTurns
<1>10. SnapshotFirst'
  <2>1. \A v \in Versions : v <= published => v <= published'
    BY <1>1, <1>2, ConstantTypes
  <2> QED BY <1>2, <1>4, <1>7, <2>1 DEF SnapshotFirst
<1>11. Bounded'
  <2>1. subscription'.base <= published'
    BY <1>1, <1>2, <1>4, <1>7 DEF Bounded
  <2>2. pipe'.minVersion # None => pipe'.minVersion <= published'
    <3>1. pipe.minVersion \in Versions \union {None} /\ Versions \subseteq Nat
      BY Types, ConstantTypes DEF OrderInv, Pipes
    <3>2. PICK min : min = pipe.minVersion
      OBVIOUS
    <3>3. min # None => min <= published
      BY <1>4, <3>2 DEF Bounded
    <3>4. ASSUME min # None PROVE min <= published + 1
      <4>1. min \in Nat /\ published \in Nat /\ min <= published
        BY <1>1, <3>1, <3>2, <3>3, <3>4
      <4> QED BY <4>1
    <3> QED BY <1>2, <3>2, <3>4
  <2>3. /\ \A k \in DOMAIN subscription'.queue : subscription'.queue[k] <= published'
        /\ Sorted(subscription'.queue)
    <3>1. Sorted(queue)
      BY <1>4, <1>5 DEF Bounded
    <3>2. CASE subscription'.queue = queue
      <4>1. \A j \in DOMAIN queue : queue[j] \in Nat
        BY HeldTypes
      <4>2. \A j \in DOMAIN queue : queue[j] <= p
        BY <1>1, <1>3, <1>6, <4>1
      <4> QED BY <1>2, <1>3, <3>1, <3>2, <4>2
    <3>3. CASE subscription'.queue = Append(queue, p)
      <4>1. Sorted(Append(queue, p))
        BY <1>1, <1>3, <1>6, <3>1, SortedAppend
      <4>2. /\ DOMAIN Append(queue, p) = 1..(Len(queue) + 1) /\ DOMAIN queue = 1..Len(queue)
            /\ Len(queue) \in Nat
            /\ Append(queue, p)[Len(queue) + 1] = p
            /\ \A j \in 1..Len(queue) : Append(queue, p)[j] = queue[j]
        BY <1>2, <1>3, AppendShape
      <4>3. \A k \in DOMAIN Append(queue, p) : Append(queue, p)[k] <= p
        <5> SUFFICES ASSUME NEW k \in 1..(Len(queue) + 1) PROVE Append(queue, p)[k] <= p
          BY <4>2
        <5>1. CASE k = Len(queue) + 1
          BY <1>1, <1>3, <4>2, <5>1
        <5>2. CASE k \in 1..Len(queue)
          <6>1. queue[k] < p /\ queue[k] \in Nat
            BY <1>6, <4>2, <5>2
          <6> QED BY <1>1, <1>3, <4>2, <5>2, <6>1
        <5> QED BY <4>2, <5>1, <5>2
      <4> QED BY <1>2, <1>3, <3>3, <4>1, <4>3
    <3> QED BY <1>7, <3>2, <3>3
  <2>4. \A j \in DOMAIN frames' : Numbered(j)' => frames'[j].version <= published'
    <3>1. \A j \in DOMAIN frames : Numbered(j) => frames[j].version \in Nat
      <4>1. frames \in Seq(Frames) /\ Versions \subseteq Nat
        BY Types, ConstantTypes DEF OrderInv
      <4>2. \A j \in DOMAIN frames : frames[j] \in Frames
        BY <4>1
      <4> QED BY <4>1, <4>2 DEF Frames, Numbered
    <3> QED BY <1>1, <1>2, <1>4, <3>1 DEF Bounded, Numbered
  <2>5. \A i \in 1..Len(requests') : Delivered(requests'[i]) =>
          /\ \A e \in Carried(requests'[i]) : e <= published'
          /\ Sorted(requests'[i].answer.events)
          /\ requests'[i].answer.overflowed => requests'[i].answer.events = <<>>
    <3>1. ASSUME NEW i \in 1..Len(requests), NEW e \in Carried(requests[i])
          PROVE  e <= published + 1
      <4>1. e \in Nat /\ e <= published /\ published \in Nat
        BY <1>1
      <4> QED BY <4>1
    <3>2. \A i \in 1..Len(requests) : Delivered(requests[i]) =>
            /\ Sorted(requests[i].answer.events)
            /\ requests[i].answer.overflowed => requests[i].answer.events = <<>>
      BY <1>4 DEF Bounded
    <3> QED BY <1>2, <3>1, <3>2
  <2> QED BY <2>1, <2>2, <2>3, <2>4, <2>5 DEF Bounded
<1>12. Streamed'
  <2>1. InSequence(requests, Behind')
    <3>1. InSequence(requests, Behind)
      BY <1>4 DEF Streamed
    <3>2. ASSUME NEW i \in 1..Len(requests), NEW e \in Carried(requests[i]), NEW d \in Behind'
          PROVE  e < d
      <4>1. e \in Nat /\ e <= published /\ published \in Nat
        BY <1>1
      <4>2. e < p + 1
        BY <1>3, <4>1
      <4> QED BY <1>8, <3>1, <4>2 DEF InSequence
    <3> QED BY <3>1, <3>2 DEF InSequence
  <2>2. Fresh(frames, subscription.base, pipe.minVersion, p + 1)
    <3>1. \A j \in DOMAIN frames : frames[j].kind # "reset" =>
             frames[j].version <= published /\ frames[j].version \in Nat
      <4>1. frames \in Seq(Frames) /\ Versions \subseteq Nat
        BY Types, ConstantTypes DEF OrderInv
      <4>2. \A j \in DOMAIN frames : frames[j] \in Frames
        BY <4>1
      <4> QED BY <1>4, <4>1, <4>2 DEF Frames, Bounded, Numbered
    <3>2. subscription.base <= published
      BY <1>4 DEF Bounded
    <3> QED BY <1>1, <1>3, <3>1, <3>2 DEF Fresh
  <2>3. NewestLast(requests', Behind', frames', subscription'.base, pipe'.minVersion)
    BY <1>2, <1>4, <1>7, <1>8, <2>2 DEF Streamed, NewestLast
  <2> QED BY <1>2, <2>1, <2>3 DEF Streamed
<1>13. \A j : Known(j)' = Known(j)
  BY <1>2, <1>7 DEF Known, Numbered
<1>14. VersionsIncrease' /\ Announced'
  BY <1>2, <1>4, <1>13 DEF VersionsIncrease, Announced, Numbered
<1>15. Covered'
  <2> SUFFICES ASSUME ~failed'
               PROVE  /\ pipe'.minVersion # None => Known(Len(frames))' >= pipe'.minVersion
                      /\ ~pipe'.closed =>
                           Covers(requests', Behind', frames', Known(Len(frames))', pipe'.minVersion)
    BY DEF Covered
  <2>1. Known(Len(frames))' = Known(Len(frames))
    BY <1>2, <1>13
  <2>2. pipe'.minVersion # None => Known(Len(frames))' >= pipe'.minVersion
    BY <1>2, <1>4, <2>1 DEF Covered
  <2>3. ASSUME ~pipe'.closed
        PROVE  Covers(requests, Behind', frames, Known(Len(frames)), pipe.minVersion)
    <3>1. PICK known : known = Known(Len(frames))
      OBVIOUS
    <3>2. Covers(requests, Behind, frames, known, pipe.minVersion)
      BY <1>2, <1>4, <2>3, <3>1 DEF Covered
    <3>3. ASSUME NEW e \in Nat, e <= published, NEW last,
                 Follows(requests, Behind, frames, known, last, e)
          PROVE  Follows(requests, Behind', frames, known, last, e)
      <4>1. e - 1 \in Behind => e - 1 \in Behind'
        <5>1. e - 1 # p
          BY <1>1, <1>3, <3>3
        <5>2. e - 1 \in Behind => e - 1 \in Held(queue)
          BY <1>3, <1>5, <5>1 DEF Behind, Coming
        <5>3. Held(queue) \subseteq Behind
          BY <1>5 DEF Behind
        <5> QED BY <1>7, <5>2, <5>3
      <4>2. e <= p + 1
        BY <1>1, <1>3, <3>3
      <4> QED BY <3>3, <4>1, <4>2, <1>8, FollowsBehind
    <3>4. ASSUME NEW e \in Behind', Passes(pipe.minVersion, e)
          PROVE  Follows(requests, Behind', frames, known, Len(requests), e)
      <4>1. CASE e \in Held(queue)
        <5>1. e \in Nat /\ e <= published /\ e \in Behind
          BY <1>1, <1>5, <4>1 DEF Behind
        <5> QED BY <3>2, <3>3, <3>4, <5>1 DEF Covers
      <4>2. CASE e \notin Held(queue) /\ Behind' = Behind
        BY <3>2, <3>4, <4>2 DEF Covers
      <4>3. CASE e = p /\ Behind' = Behind \union {p + 1}
        <5>1. e \in Behind => Follows(requests, Behind, frames, known, Len(requests), e)
          BY <3>2, <3>4 DEF Covers
        <5>2. e \in Behind /\ e - 1 \in Behind => e - 1 \in Behind'
          BY <4>3
        <5>3. e <= p + 1 /\ e # p + 1
          BY <1>1, <1>3, <4>3
        <5>4. \A d \in Behind' : d \in Behind \/ e <= d
          BY <1>8, <5>3
        <5>5. e \in Behind
          BY <3>4, <4>3, <5>3
        <5> QED BY <5>1, <5>2, <5>4, <5>5, FollowsBehind
      <4>4. CASE e = p + 1 /\ p \in Behind'
        <5>1. e - 1 \in Behind'
          BY <1>1, <1>3, <4>4
        <5> QED BY <5>1 DEF Follows
      <4>5. \/ e \in Held(queue) \/ Behind' = Behind
            \/ e = p /\ Behind' = Behind \union {p + 1}
            \/ e = p + 1 /\ p \in Behind'
        <5>1. Behind \subseteq Held(queue) \union {p}
          BY <1>3, <1>5 DEF Behind, Coming
        <5> QED BY <1>7, <3>4, <5>1
      <4> QED BY <4>1, <4>2, <4>3, <4>4, <4>5
    <3>5. ASSUME NEW i \in 1..Len(requests), NEW e \in Carried(requests[i]),
                 Passes(pipe.minVersion, e)
          PROVE  Follows(requests, Behind', frames, known, i - 1, e)
      <4>1. e \in Nat /\ e <= published
        BY <1>1
      <4> QED BY <3>2, <3>3, <3>5, <4>1 DEF Covers
    <3> QED BY <3>1, <3>4, <3>5 DEF Covers
  <2> QED BY <1>2, <2>1, <2>2, <2>3
<1> QED BY <1>9, <1>10, <1>11, <1>12, <1>14, <1>15 DEF OrderInv

-----------------------------------------------------------------------------

(* An answer that carries no events changes nothing under way. *)
LEMMA EmptyAnswerOrder ==
  ASSUME InOrder, OrderInv, TypeOK', NEW i \in DOMAIN requests,
         AnswerSnapshot(i) \/ AnswerError(i)
  PROVE  OrderInv'
<1>1. /\ requests \in Seq(Requests) /\ DOMAIN requests = 1..Len(requests)
      /\ Len(requests) \in Nat /\ requests[i] \in Requests /\ requests' \in Seq(Requests)
      /\ published \in Versions
      /\ Unopened /\ SnapshotFirst /\ InTurns /\ Bounded
  BY RequestIs, Types DEF OrderInv, TypeOK
<1>2. PICK a : /\ requests' = [requests EXCEPT ![i].answer = a]
               /\ \/ requests[i].op = "snapshot" /\ a = published
                  \/ a = Error
  BY DEF AnswerSnapshot, AnswerError, Waiting
<1>3. /\ requests[i].answer = None /\ InTurn(i)
      /\ UNCHANGED <<pipe, subscription, published, frames, failed>>
  BY DEF AnswerSnapshot, AnswerError, Waiting
<1>4. /\ Len(requests') = Len(requests)
      /\ requests'[i] = [op |-> requests[i].op, answer |-> a]
      /\ \A j \in 1..Len(requests) : j # i => requests'[j] = requests[j]
  BY <1>1, <1>2, AnswerPut
<1>5. /\ \A j \in 1..Len(requests) : requests'[j].op = requests[j].op
      /\ requests'[i].op = requests[i].op /\ requests'[i].answer = a
  BY <1>4
<1>6. ~Delivered(requests'[i]) /\ ~Delivered(requests[i])
  BY <1>2, <1>3, <1>5 DEF Delivered
<1>7. Alike(requests, requests')
  BY <1>1, <1>4, <1>6 DEF Alike
<1>8. Behind' = Behind
  BY <1>3 DEF Behind, Coming
<1>9. Bounded' /\ Streamed' /\ VersionsIncrease' /\ Covered' /\ Announced'
  BY <1>3, <1>7, <1>8, OrderKept
<1>10. Unopened'
  BY <1>1, <1>3, <1>4, <1>5, <1>6 DEF Unopened
<1>11. SnapshotFirst'
  <2>1. subscription.base <= published /\ published <= published
    BY <1>1, ConstantTypes DEF Bounded
  <2>2. a = Error => a \notin Versions
    BY ConstantTypes
  <2>3. ASSUME NEW j \in 1..Len(requests'), requests'[j].op = "snapshot"
        PROVE  /\ j = 1 /\ pipe'.minVersion = None
               /\ \A k \in DOMAIN frames' : Reconnects(frames'[k])
               /\ requests'[j].answer \in Versions =>
                    subscription'.base <= requests'[j].answer /\ requests'[j].answer <= published'
    <3>1. j \in 1..Len(requests) /\ requests[j].op = "snapshot"
      BY <1>4, <1>5, <2>3
    <3>2. /\ j = 1 /\ pipe.minVersion = None
          /\ \A k \in DOMAIN frames : Reconnects(frames[k])
      BY <1>1, <3>1 DEF SnapshotFirst
    <3>3. CASE j = i
      BY <1>2, <1>3, <1>5, <2>1, <2>2, <3>2, <3>3
    <3>4. CASE j # i
      BY <1>1, <1>3, <1>4, <3>1, <3>4 DEF SnapshotFirst
    <3> QED BY <1>3, <3>2, <3>3, <3>4
  <2> QED BY <2>3 DEF SnapshotFirst
<1>12. InTurns'
  <2> SUFFICES ASSUME NEW j \in 1..Len(requests'), NEW k \in 1..Len(requests'),
                      j < k, requests'[k].answer # None
               PROVE  requests'[j].answer # None
    BY DEF InTurns
  <2>1. a # None
    BY <1>1, <1>2, ConstantTypes
  <2>2. CASE j = i
    BY <1>5, <2>1, <2>2
  <2>3. CASE j # i /\ k = i
    <3>1. j \in 1..(i - 1) /\ j \in 1..Len(requests)
      BY <1>1, <1>4, <2>3
    <3>2. requests[j].answer # None
      BY <1>3, <3>1 DEF InTurn
    <3> QED BY <1>4, <2>3, <3>1, <3>2
  <2>4. CASE j # i /\ k # i
    BY <1>1, <1>4, <2>4 DEF InTurns
  <2> QED BY <2>2, <2>3, <2>4
<1> QED BY <1>9, <1>10, <1>11, <1>12 DEF OrderInv

(* A queue cut in two: what is taken, and what is left. *)
LEMMA CutInTwo ==
  ASSUME NEW s \in Seq(Versions), NEW n \in 0..Len(s), Sorted(s)
  PROVE  LET a == SubSeq(s, 1, n)
             b == SubSeq(s, n + 1, Len(s))
         IN  /\ a \in Seq(Versions) /\ b \in Seq(Versions)
             /\ Held(s) = Held(a) \union Held(b)
             /\ Sorted(a) /\ Sorted(b)
             /\ \A x \in Held(a), y \in Held(b) : x < y
<1>1. PICK L \in Nat : L = Len(s) /\ DOMAIN s = 1..L
  BY LenProperties
<1>2. PICK a : a = SubSeq(s, 1, n)
  OBVIOUS
<1>3. PICK b : b = SubSeq(s, n + 1, L)
  OBVIOUS
<1>4. n \in 0..L /\ n \in Nat
  BY <1>1
<1>5. a \in Seq(Versions) /\ Len(a) = n
  BY <1>1, <1>2, <1>4
<1>6. b \in Seq(Versions) /\ Len(b) = L - n
  BY <1>1, <1>3, <1>4
<1>7. DOMAIN a = 1..n /\ \A j \in 1..n : a[j] = s[j]
  BY <1>1, <1>2, <1>4, <1>5
<1>8. DOMAIN b = 1..(L - n) /\ \A j \in 1..(L - n) : b[j] = s[n + j]
  BY <1>1, <1>3, <1>4, <1>6
<1>9. \A j \in 1..n : j \in DOMAIN s
  BY <1>1, <1>4
<1>10. \A j \in 1..(L - n) : n + j \in DOMAIN s
  BY <1>1, <1>4
<1>11. Held(a) \subseteq Held(s)
  BY <1>7, <1>9 DEF Held
<1>12. Held(b) \subseteq Held(s)
  BY <1>8, <1>10 DEF Held
<1>13. ASSUME NEW x \in Held(s) PROVE x \in Held(a) \union Held(b)
  <2>1. PICK j \in 1..L : x = s[j]
    BY <1>1 DEF Held
  <2>2. CASE j <= n
    <3>1. j \in 1..n
      BY <2>2
    <3> QED BY <1>7, <2>1, <3>1 DEF Held
  <2>3. CASE ~(j <= n)
    <3>1. j - n \in 1..(L - n) /\ n + (j - n) = j
      BY <1>4, <2>3
    <3>2. b[j - n] = x
      BY <1>8, <2>1, <3>1
    <3> QED BY <1>8, <3>1, <3>2 DEF Held
  <2> QED BY <2>2, <2>3
<1>14. Sorted(a)
  BY <1>7, <1>9 DEF Sorted
<1>15. Sorted(b)
  <2> SUFFICES ASSUME NEW j \in 1..(L - n), NEW k \in 1..(L - n), j < k PROVE b[j] < b[k]
    BY <1>8 DEF Sorted
  <2>1. n + j < n + k
    BY <1>4
  <2>2. s[n + j] < s[n + k]
    BY <1>10, <2>1 DEF Sorted
  <2> QED BY <1>8, <2>2
<1>16. ASSUME NEW x \in Held(a), NEW y \in Held(b) PROVE x < y
  <2>1. PICK j \in 1..n : x = s[j]
    BY <1>7 DEF Held
  <2>2. PICK k \in 1..(L - n) : y = s[n + k]
    BY <1>8 DEF Held
  <2>3. j < n + k
    BY <1>4
  <2> QED BY <1>9, <1>10, <2>1, <2>2, <2>3 DEF Sorted
<1>17. Held(s) = Held(a) \union Held(b)
  BY <1>11, <1>12, <1>13
<1> QED BY <1>1, <1>2, <1>3, <1>5, <1>6, <1>14, <1>15, <1>16, <1>17

(* The requests after a read has been answered with batch. *)
LEMMA AnsweredShape ==
  ASSUME InOrder, OrderInv, NEW i \in DOMAIN requests, NEW batch \in Batches,
         Waiting(i, "read"), requests' = [requests EXCEPT ![i].answer = batch]
  PROVE  /\ i \in 1..Len(requests) /\ Len(requests) \in Nat
         /\ Len(requests') = Len(requests)
         /\ requests'[i].op = "read" /\ requests'[i].answer = batch
         /\ \A j \in 1..Len(requests) : j # i => requests'[j] = requests[j]
         /\ Delivered(requests'[i]) /\ Carried(requests'[i]) = Held(batch.events)
         /\ Carried(requests[i]) = {}
         /\ \A j \in 1..Len(requests) : i <= j => ~Delivered(requests[j]) /\ Carried(requests[j]) = {}
         /\ InTurns'
<1>1. /\ requests \in Seq(Requests) /\ DOMAIN requests = 1..Len(requests)
      /\ Len(requests) \in Nat /\ InTurns
  BY RequestIs DEF OrderInv
<1>2. requests[i].op = "read" /\ requests[i].answer = None /\ InTurn(i)
  BY DEF Waiting
<1>3. /\ Len(requests') = Len(requests)
      /\ requests'[i] = [op |-> requests[i].op, answer |-> batch]
      /\ \A j \in 1..Len(requests) : j # i => requests'[j] = requests[j]
  BY <1>1, <1>2, AnswerPut
<1>4. requests'[i].op = "read" /\ requests'[i].answer = batch
  BY <1>2, <1>3
<1>5. batch # None /\ batch # Error
  BY ConstantTypes
<1>6. Delivered(requests'[i]) /\ Carried(requests'[i]) = Held(batch.events)
  BY <1>4, <1>5 DEF Delivered, Carried
<1>7. ASSUME NEW j \in 1..Len(requests), i <= j
      PROVE  ~Delivered(requests[j]) /\ Carried(requests[j]) = {}
  <2>1. requests[j].answer = None
    <3>1. CASE j = i
      BY <1>2, <3>1
    <3>2. CASE i < j
      BY <1>1, <1>2, <3>2 DEF InTurns
    <3> QED BY <1>1, <1>7, <3>1, <3>2
  <2> QED BY <2>1 DEF Delivered, Carried
<1>8. Carried(requests[i]) = {}
  BY <1>1, <1>7
<1>9. InTurns'
  <2> SUFFICES ASSUME NEW j \in 1..Len(requests'), NEW k \in 1..Len(requests'),
                      j < k, requests'[k].answer # None
               PROVE  requests'[j].answer # None
    BY DEF InTurns
  <2>1. CASE j = i
    BY <1>4, <1>5, <2>1
  <2>2. CASE j # i /\ k = i
    <3>1. j \in 1..(i - 1) /\ j \in 1..Len(requests)
      BY <1>1, <1>3, <2>2
    <3>2. requests[j].answer # None
      BY <1>2, <3>1 DEF InTurn
    <3> QED BY <1>3, <2>2, <3>1, <3>2
  <2>3. CASE j # i /\ k # i
    BY <1>1, <1>3, <2>3 DEF InTurns
  <2> QED BY <2>1, <2>2, <2>3
<1> QED BY <1>1, <1>3, <1>4, <1>6, <1>7, <1>8, <1>9

(* The batch of an answered read, and what it leaves behind. *)
LEMMA AnswerReadParts ==
  ASSUME OrderInv, NEW i \in DOMAIN requests, NEW taken \in 0..MaxEvents, AnswerRead(i, taken)
  PROVE  \E batch \in Batches :
           /\ requests' = [requests EXCEPT ![i].answer = batch]
           /\ Sorted(batch.events) /\ Sorted(subscription'.queue)
           /\ \A d \in Held(subscription'.queue) : d <= published
           /\ \A e \in Held(batch.events) : e <= published
           /\ batch.overflowed => batch.events = <<>>
           /\ \A e \in Held(batch.events) : \A d \in Behind' : e < d
           /\ published + 1 \in Behind'
           /\ \/ ~batch.overflowed /\ Behind = Held(batch.events) \union Behind'
              \/ batch.overflowed /\ Behind' = {published + 1}
<1>1. /\ published \in Nat /\ subscription \in Subscriptions
      /\ subscription.queue \in Seq(Versions) /\ Bounded
      /\ \A d \in Held(subscription.queue) : d <= published
  BY UnderWay DEF OrderInv
<1>2. PICK queue \in Seq(Versions) : queue = subscription.queue
  BY <1>1
<1>3. /\ taken \in 0..Len(queue) /\ subscription.status = "open"
      /\ UNCHANGED published
  BY <1>2, SsePipeAssumption DEF AnswerRead
<1>4. Sorted(queue) /\ Held(queue) \subseteq Nat
  BY <1>1, <1>2, HeldTypes DEF Bounded
<1>5. PICK a : a = SubSeq(queue, 1, taken)
  OBVIOUS
<1>6. PICK b : b = SubSeq(queue, taken + 1, Len(queue))
  OBVIOUS
<1>7. /\ a \in Seq(Versions) /\ b \in Seq(Versions)
      /\ Held(queue) = Held(a) \union Held(b)
      /\ Sorted(a) /\ Sorted(b)
      /\ \A x \in Held(a), y \in Held(b) : x < y
  BY <1>3, <1>4, <1>5, <1>6, CutInTwo
<1>8. CASE subscription.overflowed
  <2>1. PICK batch : batch = [overflowed |-> TRUE, events |-> <<>>, more |-> FALSE]
    OBVIOUS
  <2>2. PICK empty : empty = <<>>
    OBVIOUS
  <2>3. batch = [overflowed |-> TRUE, events |-> empty, more |-> FALSE]
    BY <2>1, <2>2
  <2>4. empty \in Seq(Versions) /\ Held(empty) = {} /\ Sorted(empty)
    BY <2>2 DEF Held, Sorted
  <2>5. batch \in Batches /\ batch.events = empty /\ batch.overflowed
    BY <2>3, <2>4 DEF Batches
  <2>6. /\ requests' = [requests EXCEPT ![i].answer = batch]
        /\ subscription' = [subscription EXCEPT !.queue = empty, !.overflowed = FALSE]
    <3>1. subscription.overflowed = TRUE
      BY <1>1, <1>8 DEF Subscriptions
    <3> QED BY <2>1, <2>2, <3>1 DEF AnswerRead
  <2>7. subscription'.queue = empty /\ subscription'.status = "open" /\ ~subscription'.overflowed
    BY <1>1, <1>3, <2>6 DEF Subscriptions
  <2>8. Behind' = {published + 1}
    BY <1>3, <2>4, <2>7 DEF Behind, Coming
  <2> QED BY <2>2, <2>4, <2>5, <2>6, <2>7, <2>8
<1>9. CASE ~subscription.overflowed
  <2>1. PICK more \in BOOLEAN : more = (b # <<>>)
    OBVIOUS
  <2>2. PICK batch : batch = [overflowed |-> FALSE, events |-> a, more |-> more]
    OBVIOUS
  <2>3. batch \in Batches /\ batch.events = a /\ ~batch.overflowed
    BY <1>7, <2>2 DEF Batches
  <2>4. /\ requests' = [requests EXCEPT ![i].answer = batch]
        /\ subscription' = [subscription EXCEPT !.queue = b, !.overflowed = FALSE]
    <3>1. subscription.overflowed = FALSE
      BY <1>1, <1>9 DEF Subscriptions
    <3> QED BY <1>2, <1>5, <1>6, <2>1, <2>2, <3>1 DEF AnswerRead
  <2>5. subscription'.queue = b /\ subscription'.status = "open" /\ ~subscription'.overflowed
    BY <1>1, <1>3, <2>4 DEF Subscriptions
  <2>6. Behind' = Held(b) \union {published + 1}
    BY <1>3, <2>5 DEF Behind, Coming
  <2>7. Behind = Held(a) \union Behind'
    BY <1>2, <1>3, <1>7, <1>9, <2>6 DEF Behind, Coming
  <2>8. ASSUME NEW e \in Held(a), NEW d \in Behind' PROVE e < d
    <3>1. e \in Nat /\ e <= published
      BY <1>1, <1>2, <1>4, <1>7
    <3> QED BY <1>1, <1>7, <2>6, <3>1
  <2>9. /\ \A d \in Held(b) : d <= published
        /\ \A e \in Held(a) : e <= published
    BY <1>1, <1>2, <1>7
  <2> QED BY <1>7, <2>3, <2>4, <2>5, <2>6, <2>7, <2>8, <2>9
<1> QED BY <1>8, <1>9

(* A batch moves from the queue to its request, or an overflow is noted there. *)
LEMMA AnswerReadOrder ==
  ASSUME InOrder, OrderInv, TypeOK', NEW i \in DOMAIN requests, NEW taken \in 0..MaxEvents,
         AnswerRead(i, taken)
  PROVE  OrderInv'
<1>1. PICK batch \in Batches :
           /\ requests' = [requests EXCEPT ![i].answer = batch]
           /\ Sorted(batch.events) /\ Sorted(subscription'.queue)
           /\ \A d \in Held(subscription'.queue) : d <= published
           /\ \A e \in Held(batch.events) : e <= published
           /\ batch.overflowed => batch.events = <<>>
           /\ \A e \in Held(batch.events) : \A d \in Behind' : e < d
           /\ published + 1 \in Behind'
           /\ \/ ~batch.overflowed /\ Behind = Held(batch.events) \union Behind'
              \/ batch.overflowed /\ Behind' = {published + 1}
  BY AnswerReadParts
<1>2. /\ i \in 1..Len(requests) /\ Len(requests) \in Nat
      /\ Len(requests') = Len(requests)
      /\ requests'[i].op = "read" /\ requests'[i].answer = batch
      /\ \A j \in 1..Len(requests) : j # i => requests'[j] = requests[j]
      /\ Delivered(requests'[i]) /\ Carried(requests'[i]) = Held(batch.events)
      /\ Carried(requests[i]) = {}
      /\ \A j \in 1..Len(requests) : i <= j => ~Delivered(requests[j]) /\ Carried(requests[j]) = {}
      /\ InTurns'
  BY <1>1, AnsweredShape DEF AnswerRead
<1>3. /\ published \in Nat /\ subscription \in Subscriptions
      /\ Behind \subseteq Nat
      /\ \A j \in 1..Len(requests) : \A e \in Carried(requests[j]) : e \in Nat /\ e <= published
  BY UnderWay
<1>4. /\ UNCHANGED <<pipe, published, frames, failed>>
      /\ subscription'.base = subscription.base /\ subscription.status = "open"
      /\ subscription'.status = "open"
  BY <1>3 DEF AnswerRead, Subscriptions
<1>5. /\ Unopened /\ SnapshotFirst /\ InTurns /\ Bounded /\ Streamed /\ VersionsIncrease
      /\ Covered /\ Announced
  BY DEF OrderInv
<1>6. pipe.timer # "none"
  BY <1>4, <1>5 DEF Unopened
<1>7. PICK E : E = Held(batch.events)
  OBVIOUS
<1>8. Carried(requests'[i]) = E /\ \A j \in 1..Len(requests) : j # i => Carried(requests'[j]) = Carried(requests[j])
  BY <1>2, <1>7
<1>9. /\ \A e \in E : \A d \in Behind' : e < d
      /\ \A e \in E : e <= published
      /\ E \subseteq Behind
      /\ Behind' \subseteq Behind \union {published + 1}
      /\ E # {} => ~batch.overflowed
  <2>1. batch.overflowed => E = {}
    BY <1>1, <1>7 DEF Held
  <2> QED BY <1>1, <1>7, <2>1
<1>10. Unopened' /\ InTurns'
  BY <1>2, <1>4, <1>6 DEF Unopened
<1>11. SnapshotFirst'
  <2>1. \A j \in 1..Len(requests') : requests'[j].op = "snapshot" =>
           j \in 1..Len(requests) /\ requests'[j] = requests[j]
    BY <1>2
  <2> QED BY <1>2, <1>4, <1>5, <2>1 DEF SnapshotFirst
<1>12. Bounded'
  <2>1. \A k \in DOMAIN subscription'.queue : subscription'.queue[k] <= published
    BY <1>1 DEF Held
  <2>2. ASSUME NEW j \in 1..Len(requests'), Delivered(requests'[j])
        PROVE  /\ \A e \in Carried(requests'[j]) : e <= published
               /\ Sorted(requests'[j].answer.events)
               /\ requests'[j].answer.overflowed => requests'[j].answer.events = <<>>
    <3>1. CASE j = i
      BY <1>1, <1>2, <1>8, <1>9, <3>1
    <3>2. CASE j # i
      BY <1>2, <1>5, <2>2, <3>2 DEF Bounded
    <3> QED BY <3>1, <3>2
  <2>3. /\ subscription'.base <= published'
        /\ pipe'.minVersion # None => pipe'.minVersion <= published'
        /\ Sorted(subscription'.queue)
        /\ \A j \in DOMAIN frames' : frames'[j].kind # "reset" => frames'[j].version <= published'
    BY <1>1, <1>4, <1>5 DEF Bounded, Numbered
  <2> QED BY <1>4, <2>1, <2>2, <2>3 DEF Bounded, Numbered
<1>13. InSequence(requests, Behind) /\ NewestLast(requests, Behind, frames, subscription.base, pipe.minVersion)
  BY <1>5 DEF Streamed
<1>14. Streamed'
  <2>1. ASSUME NEW j \in 1..Len(requests), NEW e \in Carried(requests'[j]), NEW d \in Behind'
        PROVE  e < d
    <3>1. CASE j = i
      BY <1>8, <1>9, <3>1
    <3>2. CASE j # i
      <4>1. e \in Carried(requests[j]) /\ e \in Nat /\ e <= published /\ published \in Nat
        BY <1>3, <1>8, <3>2
      <4>2. e < published + 1
        BY <4>1
      <4> QED BY <1>9, <1>13, <4>1, <4>2 DEF InSequence
    <3> QED BY <3>1, <3>2
  <2>2. ASSUME NEW j \in 1..Len(requests), NEW k \in 1..Len(requests), j < k,
               NEW e \in Carried(requests'[j]), NEW d \in Carried(requests'[k])
        PROVE  e < d
    <3>1. CASE j = i
      <4>1. k # i /\ i <= k
        BY <1>2, <2>2, <3>1
      <4>2. Carried(requests'[k]) = {}
        BY <1>2, <1>8, <4>1
      <4> QED BY <2>2, <4>2
    <3>2. CASE j # i /\ k = i
      BY <1>8, <1>9, <1>13, <3>2 DEF InSequence
    <3>3. CASE j # i /\ k # i
      BY <1>8, <1>13, <2>2, <3>3 DEF InSequence
    <3> QED BY <3>1, <3>2, <3>3
  <2>3. InSequence(requests', Behind')
    BY <1>2, <2>1, <2>2 DEF InSequence
  <2>4. \A e \in Behind : Fresh(frames, subscription.base, pipe.minVersion, e)
    BY <1>13 DEF NewestLast
  <2>5. Fresh(frames, subscription.base, pipe.minVersion, published + 1)
    <3>1. \A j \in DOMAIN frames : frames[j].kind # "reset" =>
             frames[j].version <= published /\ frames[j].version \in Nat
      <4>1. frames \in Seq(Frames) /\ Versions \subseteq Nat
        BY Types, ConstantTypes DEF OrderInv
      <4>2. \A j \in DOMAIN frames : frames[j] \in Frames
        BY <4>1
      <4> QED BY <1>5, <4>1, <4>2 DEF Frames, Bounded, Numbered
    <3>2. subscription.base <= published /\ subscription.base \in Nat
      BY <1>5, UnderWay DEF Bounded
    <3> QED BY <1>3, <3>1, <3>2 DEF Fresh
  <2>6. \A e \in Behind' : Fresh(frames, subscription.base, pipe.minVersion, e)
    BY <1>9, <2>4, <2>5
  <2>7. ASSUME NEW j \in 1..Len(requests), NEW e \in Carried(requests'[j])
        PROVE  Fresh(frames, subscription.base, pipe.minVersion, e)
    <3>1. CASE j = i
      BY <1>8, <1>9, <2>4, <3>1
    <3>2. CASE j # i
      BY <1>8, <1>13, <3>2 DEF NewestLast
    <3> QED BY <3>1, <3>2
  <2>8. NewestLast(requests', Behind', frames', subscription'.base, pipe'.minVersion)
    BY <1>2, <1>4, <2>6, <2>7 DEF NewestLast
  <2> QED BY <2>3, <2>8 DEF Streamed
<1>15. \A j : Known(j)' = Known(j)
  BY <1>4 DEF Known, Numbered
<1>16. VersionsIncrease' /\ Announced'
  BY <1>4, <1>5, <1>15 DEF VersionsIncrease, Announced, Numbered
<1>17. Covered'
  <2> SUFFICES ASSUME ~failed'
               PROVE  /\ pipe'.minVersion # None => Known(Len(frames))' >= pipe'.minVersion
                      /\ ~pipe'.closed =>
                           Covers(requests', Behind', frames', Known(Len(frames))', pipe'.minVersion)
    BY DEF Covered
  <2>1. Known(Len(frames))' = Known(Len(frames))
    BY <1>4, <1>15
  <2>2. pipe'.minVersion # None => Known(Len(frames))' >= pipe'.minVersion
    BY <1>4, <1>5, <2>1 DEF Covered
  <2>3. ASSUME ~pipe'.closed
        PROVE  Covers(requests', Behind', frames, Known(Len(frames)), pipe.minVersion)
    <3>1. PICK known : known = Known(Len(frames))
      OBVIOUS
    <3>2. Covers(requests, Behind, frames, known, pipe.minVersion)
      BY <1>4, <1>5, <2>3, <3>1 DEF Covered
    <3>3. \A m \in 0..Len(requests) : Resets(requests, frames, m) => m < i
      BY <1>2 DEF Resets
    <3>4. \A m \in 0..Len(requests) : m < i /\ Resets(requests, frames, m) =>
                                        Resets(requests', frames, m)
      BY <1>2 DEF Resets
    \* What an event followed, it still follows.
    <3>5. ASSUME NEW e \in Nat, NEW last \in 0..Len(requests), NEW more \in 0..Len(requests),
                 \A m \in 0..last : m < i => m \in 0..more,
                 e <= published + 1,
                 Follows(requests, Behind, frames, known, last, e),
                 e - 1 \in Behind => e - 1 \in E \union Behind'
          PROVE  Follows(requests', Behind', frames, known, more, e)
      <4>1. CASE e = known + 1
        BY <4>1 DEF Follows
      <4>2. CASE e - 1 \in Behind
        <5>1. e - 1 \in Behind' \/ e - 1 \in Carried(requests'[i])
          BY <1>8, <3>5, <4>2
        <5> QED BY <1>2, <5>1 DEF Follows
      <4>3. CASE \E j \in 1..Len(requests) : e - 1 \in Carried(requests[j])
        <5>1. PICK j \in 1..Len(requests) : e - 1 \in Carried(requests[j])
          BY <4>3
        <5>2. j # i
          BY <1>2, <5>1
        <5>3. e - 1 \in Carried(requests'[j])
          BY <1>8, <5>1, <5>2
        <5> QED BY <1>2, <5>3 DEF Follows
      <4>4. ASSUME NEW m \in 0..last, Resets(requests, frames, m),
                   \A d \in Behind : e <= d,
                   \A j \in 1..Len(requests) : m < j => \A d \in Carried(requests[j]) : e <= d
            PROVE  Follows(requests', Behind', frames, known, more, e)
        <5>1. m \in 0..Len(requests) /\ m < i
          BY <3>3, <4>4
        <5>2. m \in 0..more /\ Resets(requests', frames, m)
          BY <3>4, <3>5, <4>4, <5>1
        <5>3. \A d \in Behind' : e <= d
          BY <1>9, <3>5, <4>4
        <5>4. ASSUME NEW j \in 1..Len(requests), m < j, NEW d \in Carried(requests'[j])
              PROVE  e <= d
          <6>1. CASE j = i
            BY <1>8, <1>9, <4>4, <6>1
          <6>2. CASE j # i
            BY <1>8, <4>4, <5>4, <6>2
          <6> QED BY <6>1, <6>2
        <5> QED BY <1>2, <5>2, <5>3, <5>4 DEF Follows
      <4> QED BY <3>5, <4>1, <4>2, <4>3, <4>4 DEF Follows
    <3>6. ASSUME NEW j \in 1..Len(requests), NEW e \in Carried(requests'[j]),
                 Passes(pipe.minVersion, e)
          PROVE  Follows(requests', Behind', frames, known, j - 1, e)
      <4>1. CASE j = i
        <5>1. e \in E /\ e \in Behind /\ e \in Nat /\ e <= published /\ published \in Nat
          BY <1>3, <1>8, <1>9, <3>6, <4>1
        <5>2. Follows(requests, Behind, frames, known, Len(requests), e)
          BY <3>2, <3>6, <5>1 DEF Covers
        <5>3. Behind = E \union Behind'
          BY <1>1, <1>7, <1>9, <5>1
        <5>4. /\ Len(requests) \in 0..Len(requests) /\ j - 1 \in 0..Len(requests)
              /\ \A m \in 0..Len(requests) : m < i => m \in 0..(j - 1)
              /\ e <= published + 1
          BY <1>2, <4>1, <5>1
        <5> QED BY <3>5, <5>1, <5>2, <5>3, <5>4
      <4>2. CASE j # i
        <5>1. e \in Carried(requests[j]) /\ e \in Nat /\ e <= published /\ published \in Nat
          BY <1>3, <1>8, <3>6, <4>2
        <5>2. Follows(requests, Behind, frames, known, j - 1, e)
          BY <3>2, <3>6, <5>1 DEF Covers
        <5>3. e - 1 \notin Behind
          <6>1. \A d \in Behind : e < d
            BY <1>13, <5>1 DEF InSequence
          <6>2. ~(e < e - 1)
            BY <5>1
          <6> QED BY <6>1, <6>2
        <5>4. /\ j - 1 \in 0..Len(requests) /\ \A m \in 0..(j - 1) : m \in 0..(j - 1)
              /\ e <= published + 1
          BY <1>2, <5>1
        <5> QED BY <3>5, <5>1, <5>2, <5>3, <5>4
      <4> QED BY <4>1, <4>2
    <3>7. ASSUME NEW e \in Behind', Passes(pipe.minVersion, e)
          PROVE  Follows(requests', Behind', frames, known, Len(requests), e)
      <4>1. CASE ~batch.overflowed
        <5>1. e \in Behind /\ Behind = E \union Behind'
          BY <1>1, <1>7, <3>7, <4>1
        <5>2. Follows(requests, Behind, frames, known, Len(requests), e)
          BY <3>2, <3>7, <5>1 DEF Covers
        <5>3. e \in Nat /\ Len(requests) \in 0..Len(requests)
          BY <1>2, <1>3, <5>1
        <5>4. e <= published + 1
          <6>1. published + 1 \in Behind' /\ published \in Nat
            BY <1>1, <1>3
          <6>2. Behind \subseteq Held(subscription.queue) \union {published + 1}
            BY DEF Behind, Coming
          <6>3. \A d \in Held(subscription.queue) : d <= published
            BY UnderWay
          <6>4. e \in Held(subscription.queue) \/ e = published + 1
            BY <5>1, <6>2, Zenon
          <6>5. CASE e \in Held(subscription.queue)
            <7>1. e <= published /\ e \in Nat
              BY <5>3, <6>3, <6>5, Zenon
            <7> QED BY <6>1, <7>1
          <6> QED BY <6>1, <6>4, <6>5
        <5> QED BY <3>5, <5>1, <5>2, <5>3, <5>4
      <4>2. CASE batch.overflowed
        <5>1. e = published + 1 /\ Behind' = {published + 1} /\ published \in Nat
          BY <1>1, <1>3, <3>7, <4>2
        <5>2. i \in 0..Len(requests) /\ i # 0
          BY <1>2
        <5>3. Resets(requests', frames, i)
          BY <1>2, <4>2, <5>2 DEF Resets
        <5>4. \A d \in Behind' : e <= d
          BY <5>1
        <5>5. ASSUME NEW j \in 1..Len(requests), i < j PROVE Carried(requests'[j]) = {}
          <6>1. i \in Nat /\ j \in Nat
            BY <1>2
          <6>2. j # i /\ i <= j
            BY <5>5, <6>1
          <6>3. Carried(requests'[j]) = Carried(requests[j])
            BY <1>8, <6>2, Zenon
          <6>4. Carried(requests[j]) = {}
            BY <1>2, <6>2, Zenon
          <6> QED BY <6>3, <6>4
        <5> QED BY <1>2, <5>2, <5>3, <5>4, <5>5 DEF Follows
      <4> QED BY <4>1, <4>2
    <3> QED BY <1>2, <3>1, <3>6, <3>7 DEF Covers
  <2> QED BY <1>4, <2>1, <2>2, <2>3
<1> QED BY <1>10, <1>11, <1>12, <1>14, <1>16, <1>17 DEF OrderInv


-----------------------------------------------------------------------------

(* The requests that are left when the first one completes *)
Shorter(rs, qs) ==
  /\ rs \in Seq(Requests) /\ qs \in Seq(Requests)
  /\ Len(rs) \in Nat \ {0} /\ Len(qs) = Len(rs) - 1
  /\ \A j \in 1..Len(qs) : qs[j] = rs[j + 1]

\* They stay, and perhaps the next read is requested.
Onward(qs, ps) ==
  /\ Alike(qs, ps)
  /\ \A j \in 1..Len(qs) : ps[j] = qs[j]
  /\ \A j \in 1..Len(ps) : j > Len(qs) => ps[j].op = "read" /\ ps[j].answer = None

LEMMA FirstRemoved ==
  ASSUME TypeOK, NEW i \in DOMAIN requests, i = 1
  PROVE  Shorter(requests, RemoveAt(requests, i))
<1>1. PICK qs : qs = RemoveAt(requests, i)
  OBVIOUS
<1>2. requests \in Seq(Requests) /\ DOMAIN requests = 1..Len(requests) /\ Len(requests) \in Nat
  BY Types, LenProperties
<1>3. /\ qs \in Seq(Requests) /\ Len(qs) = Len(requests) - 1
      /\ \A j \in DOMAIN qs : qs[j] = IF j < i THEN requests[j] ELSE requests[j + 1]
  BY <1>1, RemovedRequest
<1>4. DOMAIN qs = 1..Len(qs) /\ \A j \in 1..Len(qs) : ~(j < i)
  BY <1>2, <1>3, LenProperties
<1>5. Len(requests) \in Nat \ {0}
  BY <1>2
<1> QED BY <1>1, <1>2, <1>3, <1>4, <1>5 DEF Shorter

LEMMA OnwardSame ==
  ASSUME NEW qs \in Seq(Requests)
  PROVE  Onward(qs, qs)
<1>1. Len(qs) \in Nat /\ Alike(qs, qs)
  BY AlikeSame, LenProperties
<1> QED BY <1>1 DEF Onward

LEMMA OnwardRead ==
  ASSUME NEW qs \in Seq(Requests)
  PROVE  Onward(qs, Append(qs, [op |-> "read", answer |-> None]))
<1>1. PICK ps : ps = Append(qs, [op |-> "read", answer |-> None])
  OBVIOUS
<1>2. /\ Alike(qs, ps) /\ Len(ps) = Len(qs) + 1 /\ Len(qs) \in Nat
      /\ \A j \in 1..Len(qs) : ps[j] = qs[j]
      /\ ps[Len(qs) + 1].op = "read" /\ ps[Len(qs) + 1].answer = None
  BY <1>1, AlikeRead, LenProperties
<1>3. \A j \in 1..Len(ps) : j > Len(qs) => j = Len(qs) + 1
  BY <1>2
<1> QED BY <1>1, <1>2, <1>3 DEF Onward

\* Where a request that is left was before
LEMMA ShorterWas ==
  ASSUME NEW rs, NEW qs, Shorter(rs, qs)
  PROVE  /\ 1 \in 1..Len(rs) /\ Len(rs) \in Nat /\ Len(qs) \in Nat
         /\ \A j \in 1..Len(qs) : /\ j + 1 \in 2..Len(rs) /\ j + 1 \in 1..Len(rs)
                                  /\ qs[j] = rs[j + 1] /\ Carried(qs[j]) = Carried(rs[j + 1])
         /\ \A j \in 2..Len(rs) : j - 1 \in 1..Len(qs) /\ qs[j - 1] = rs[j]
<1>1. /\ Len(rs) \in Nat \ {0} /\ Len(qs) = Len(rs) - 1
      /\ \A j \in 1..Len(qs) : qs[j] = rs[j + 1]
  BY DEF Shorter
<1>2. \A j \in 1..Len(qs) : j + 1 \in 2..Len(rs) /\ j + 1 \in 1..Len(rs)
  BY <1>1
<1>3. ASSUME NEW j \in 2..Len(rs) PROVE j - 1 \in 1..Len(qs) /\ qs[j - 1] = rs[j]
  <2>1. j - 1 \in 1..Len(qs) /\ (j - 1) + 1 = j
    BY <1>1
  <2> QED BY <1>1, <2>1
<1> QED BY <1>1, <1>2, <1>3 DEF Carried

LEMMA ShorterInSequence ==
  ASSUME NEW rs, NEW qs, NEW behind, Shorter(rs, qs), InSequence(rs, behind)
  PROVE  InSequence(qs, behind)
<1> SUFFICES ASSUME NEW i \in 1..Len(qs), NEW e \in Carried(qs[i])
             PROVE  /\ \A j \in 1..Len(qs) : i < j => \A d \in Carried(qs[j]) : e < d
                    /\ \A d \in behind : e < d
  BY DEF InSequence
<1>1. i + 1 \in 1..Len(rs) /\ e \in Carried(rs[i + 1])
  BY ShorterWas
<1>2. ASSUME NEW j \in 1..Len(qs), i < j, NEW d \in Carried(qs[j]) PROVE e < d
  <2>1. j + 1 \in 1..Len(rs) /\ d \in Carried(rs[j + 1])
    BY ShorterWas
  <2>2. i + 1 < j + 1
    BY <1>2
  <2> QED BY <1>1, <2>1, <2>2 DEF InSequence
<1> QED BY <1>1, <1>2 DEF InSequence

(* What the first request's completion leaves of the order, whatever it writes. *)
LEMMA LaterOrder ==
  ASSUME OrderInv, NEW qs, Shorter(requests, qs), Onward(qs, requests'),
         UNCHANGED <<subscription, published>>, pipe'.timer = pipe.timer,
         pipe.timer = "none" => pipe'.minVersion = pipe.minVersion,
         pipe'.minVersion # None => pipe'.minVersion <= published,
         \A j \in DOMAIN frames' : frames'[j].kind # "reset" => frames'[j].version <= published
  PROVE  /\ Unopened' /\ SnapshotFirst' /\ InTurns' /\ Bounded'
         /\ Behind' = Behind /\ InSequence(requests', Behind')
<1>1. /\ Unopened /\ SnapshotFirst /\ InTurns /\ Bounded
      /\ InSequence(requests, Behind)
  BY DEF OrderInv, Streamed
<1>2. Behind' = Behind
  BY DEF Behind, Coming
<1>3. Alike(qs, requests') /\ Len(qs) \in Nat /\ Len(requests') \in Nat
  BY AlikeCarries DEF Onward
<1>4. \A j \in 1..Len(requests') :
        \/ /\ j \in 1..Len(qs) /\ j + 1 \in 1..Len(requests) /\ j + 1 \in 2..Len(requests)
           /\ requests'[j] = requests[j + 1]
        \/ /\ j \notin 1..Len(qs) /\ j > Len(qs)
           /\ requests'[j].op = "read" /\ requests'[j].answer = None
  <2> SUFFICES ASSUME NEW j \in 1..Len(requests')
               PROVE  \/ /\ j \in 1..Len(qs) /\ j + 1 \in 1..Len(requests)
                         /\ j + 1 \in 2..Len(requests)
                         /\ requests'[j] = requests[j + 1]
                      \/ /\ j \notin 1..Len(qs) /\ j > Len(qs)
                         /\ requests'[j].op = "read" /\ requests'[j].answer = None
    OBVIOUS
  <2>1. CASE j \in 1..Len(qs)
    BY <2>1, ShorterWas DEF Onward
  <2>2. CASE j \notin 1..Len(qs)
    <3>1. j > Len(qs)
      BY <1>3, <2>2
    <3> QED BY <2>2, <3>1 DEF Onward
  <2> QED BY <2>1, <2>2
<1>5. \A j \in 1..Len(requests') : Delivered(requests'[j]) =>
         j + 1 \in 1..Len(requests) /\ requests'[j] = requests[j + 1]
  BY <1>4 DEF Delivered
<1>6. Unopened'
  <2> SUFFICES ASSUME pipe'.timer = "none"
               PROVE  /\ subscription'.status = "none" /\ subscription'.queue = <<>>
                      /\ pipe'.minVersion = None
                      /\ \A j \in 1..Len(requests') :
                           requests'[j].op = "read" /\ ~Delivered(requests'[j])
    BY DEF Unopened
  <2>1. /\ subscription.status = "none" /\ subscription.queue = <<>>
        /\ pipe.minVersion = None
        /\ \A j \in 1..Len(requests) : requests[j].op = "read" /\ ~Delivered(requests[j])
    BY <1>1 DEF Unopened
  <2>2. \A j \in 1..Len(requests') : ~Delivered(requests'[j])
    BY <1>5, <2>1
  <2>3. \A j \in 1..Len(requests') : requests'[j].op = "read"
    BY <1>4, <2>1
  <2> QED BY <2>1, <2>2, <2>3
<1>7. SnapshotFirst'
  <2>1. ASSUME NEW j \in 1..Len(requests'), requests'[j].op = "snapshot" PROVE FALSE
    <3>1. j + 1 \in 1..Len(requests) /\ requests[j + 1].op = "snapshot"
      BY <1>4, <2>1
    <3>2. j + 1 = 1
      BY <1>1, <3>1 DEF SnapshotFirst
    <3> QED BY <3>2
  <2> QED BY <2>1 DEF SnapshotFirst
<1>8. InTurns'
  <2> SUFFICES ASSUME NEW j \in 1..Len(requests'), NEW k \in 1..Len(requests'),
                      j < k, requests'[k].answer # None
               PROVE  requests'[j].answer # None
    BY DEF InTurns
  <2>1. k \in 1..Len(qs) /\ k + 1 \in 1..Len(requests) /\ requests'[k] = requests[k + 1]
    BY <1>4
  <2>2. j \in 1..Len(qs)
    BY <1>3, <2>1
  <2>3. j + 1 \in 1..Len(requests) /\ requests'[j] = requests[j + 1]
    BY <1>4, <2>2
  <2>4. j + 1 < k + 1
    OBVIOUS
  <2> QED BY <1>1, <2>1, <2>3, <2>4 DEF InTurns
<1>9. Bounded'
  <2>1. ASSUME NEW j \in 1..Len(requests'), Delivered(requests'[j])
        PROVE  /\ \A e \in Carried(requests'[j]) : e <= published
               /\ Sorted(requests'[j].answer.events)
               /\ requests'[j].answer.overflowed => requests'[j].answer.events = <<>>
    BY <1>1, <1>5, <2>1 DEF Bounded
  <2> QED BY <1>1, <2>1 DEF Bounded, Numbered
<1>10. InSequence(requests', Behind')
  BY <1>1, <1>2, <1>3, ShorterInSequence, AlikeInSequence
<1> QED BY <1>2, <1>6, <1>7, <1>8, <1>9, <1>10

(* What has been written is older than what is still under way. *)
LEMMA KnownIsOlder ==
  ASSUME NEW fs \in Seq(Frames), NEW base, NEW min, NEW e,
         Fresh(fs, base, min, e), Passes(min, e)
  PROVE  KnownIn(fs, base, Len(fs)) < e
<1>1. Len(fs) \in Nat /\ DOMAIN fs = 1..Len(fs)
  BY LenProperties
<1>2. base < e /\ \A j \in 1..Len(fs) : fs[j].kind # "reset" => fs[j].version < e
  BY <1>1 DEF Fresh
<1>3. CASE \A j \in 1..Len(fs) : fs[j].kind = "reset"
  BY <1>2, <1>3, KnownNone
<1>4. ASSUME NEW n \in 1..Len(fs), fs[n].kind # "reset",
             \A j \in 1..Len(fs) : fs[j].kind # "reset" => j <= n
      PROVE  KnownIn(fs, base, Len(fs)) < e
  <2>1. KnownIn(fs, base, Len(fs)) = fs[n].version
    BY <1>1, <1>4, KnownLast
  <2> QED BY <1>2, <1>4, <2>1
<1> QED BY <1>1, <1>3, <1>4, LastNumbered

LEMMA ShorterNewest ==
  ASSUME NEW rs, NEW qs, NEW behind, NEW fs, NEW gs, NEW base, NEW min, NEW low,
         Shorter(rs, qs), NewestLast(rs, behind, fs, base, min),
         \A e \in behind : Fresh(fs, base, min, e) => Fresh(gs, base, low, e),
         \A j \in 2..Len(rs) : \A e \in Carried(rs[j]) :
           Fresh(fs, base, min, e) => Fresh(gs, base, low, e)
  PROVE  NewestLast(qs, behind, gs, base, low)
<1>1. ASSUME NEW i \in 1..Len(qs), NEW e \in Carried(qs[i]) PROVE Fresh(gs, base, low, e)
  <2>1. i + 1 \in 1..Len(rs) /\ i + 1 \in 2..Len(rs) /\ e \in Carried(rs[i + 1])
    BY ShorterWas
  <2>2. Fresh(fs, base, min, e)
    BY <2>1 DEF NewestLast
  <2> QED BY <2>1, <2>2
<1> QED BY <1>1 DEF NewestLast

(* What event e followed in the first request, or in the frames, it follows in *)
(* the frames gs and the version `next' that the request's completion leaves.  *)
StillFollows(rs, qs, fs, gs, known, next, e) ==
  /\ e = known + 1 => e = next + 1
  /\ e - 1 \in Carried(rs[1]) => e = next + 1
  /\ Resets(rs, fs, 0) /\ (\A d \in Carried(rs[1]) : e <= d) => Resets(qs, gs, 0)

LEMMA ShorterFollows ==
  ASSUME NEW rs, NEW qs, NEW behind, NEW fs, NEW gs, NEW known, NEW next,
         NEW last \in 0..Len(rs), NEW e,
         Shorter(rs, qs), Follows(rs, behind, fs, known, last, e),
         StillFollows(rs, qs, fs, gs, known, next, e),
         Resets(rs, fs, 1) => Resets(qs, gs, 0),
         NEW more \in Nat, last <= more + 1
  PROVE  Follows(qs, behind, gs, next, more, e)
<1>1. /\ 1 \in 1..Len(rs) /\ Len(rs) \in Nat /\ Len(qs) \in Nat
      /\ \A j \in 1..Len(qs) : /\ j + 1 \in 2..Len(rs) /\ j + 1 \in 1..Len(rs)
                               /\ qs[j] = rs[j + 1] /\ Carried(qs[j]) = Carried(rs[j + 1])
      /\ \A j \in 2..Len(rs) : j - 1 \in 1..Len(qs) /\ qs[j - 1] = rs[j]
  BY ShorterWas
<1>2. CASE e = known + 1 \/ e - 1 \in behind
  BY <1>2 DEF Follows, StillFollows
<1>3. ASSUME NEW j \in 1..Len(rs), e - 1 \in Carried(rs[j])
      PROVE  Follows(qs, behind, gs, next, more, e)
  <2>1. CASE j = 1
    BY <1>3, <2>1 DEF Follows, StillFollows
  <2>2. CASE j # 1
    <3>1. j \in 2..Len(rs)
      BY <1>1, <2>2
    <3>2. j - 1 \in 1..Len(qs) /\ e - 1 \in Carried(qs[j - 1])
      BY <1>1, <1>3, <3>1 DEF Carried
    <3> QED BY <3>2 DEF Follows
  <2> QED BY <2>1, <2>2
<1>4. ASSUME NEW m \in 0..last, Resets(rs, fs, m), \A d \in behind : e <= d,
             \A j \in 1..Len(rs) : m < j => \A d \in Carried(rs[j]) : e <= d
      PROVE  Follows(qs, behind, gs, next, more, e)
  <2>1. ASSUME NEW n \in 0..more, Resets(qs, gs, n), m <= n + 1
        PROVE  Follows(qs, behind, gs, next, more, e)
    <3>1. ASSUME NEW j \in 1..Len(qs), n < j, NEW d \in Carried(qs[j]) PROVE e <= d
      <4>1. j + 1 \in 1..Len(rs) /\ d \in Carried(rs[j + 1])
        BY <1>1, <3>1
      <4>2. m < j + 1
        BY <2>1, <3>1
      <4> QED BY <1>4, <4>1, <4>2
    <3> QED BY <1>4, <2>1, <3>1 DEF Follows
  <2>2. CASE m = 0
    <3>1. Resets(qs, gs, 0)
      BY <1>1, <1>4, <2>2 DEF StillFollows
    <3>2. 0 \in 0..more /\ m <= 0 + 1
      BY <2>2
    <3> QED BY <2>1, <3>1, <3>2
  <2>3. CASE m = 1
    <3>1. Resets(qs, gs, 0)
      BY <1>4, <2>3
    <3>2. 0 \in 0..more /\ m <= 0 + 1
      BY <2>3
    <3> QED BY <2>1, <3>1, <3>2
  <2>4. CASE m # 0 /\ m # 1
    <3>1. m \in 2..Len(rs) /\ m - 1 \in 0..more /\ m <= (m - 1) + 1 /\ m - 1 # 0
      BY <1>1, <2>4
    <3>2. qs[m - 1] = rs[m]
      BY <1>1, <3>1
    <3>3. Resets(qs, gs, m - 1)
      BY <1>4, <2>4, <3>1, <3>2 DEF Resets
    <3> QED BY <2>1, <3>1, <3>3
  <2> QED BY <2>2, <2>3, <2>4
<1> QED BY <1>2, <1>3, <1>4 DEF Follows

LEMMA ShorterCovers ==
  ASSUME NEW rs, NEW qs, NEW behind, NEW fs, NEW gs, NEW known, NEW next,
         NEW min, NEW low, Shorter(rs, qs), Covers(rs, behind, fs, known, min),
         \A e : Passes(low, e) => Passes(min, e),
         Resets(rs, fs, 1) => Resets(qs, gs, 0),
         NEW Later, \A e \in behind : e \in Later,
         \A j \in 2..Len(rs) : \A e \in Carried(rs[j]) : e \in Later,
         \A e \in Later : Passes(low, e) => StillFollows(rs, qs, fs, gs, known, next, e)
  PROVE  Covers(qs, behind, gs, next, low)
<1>1. /\ Len(rs) \in Nat \ {0} /\ Len(qs) = Len(rs) - 1
      /\ \A j \in 1..Len(qs) : /\ j + 1 \in 2..Len(rs) /\ j + 1 \in 1..Len(rs)
                               /\ Carried(qs[j]) = Carried(rs[j + 1])
  BY ShorterWas DEF Shorter
<1>2. ASSUME NEW i \in 1..Len(qs), NEW e \in Carried(qs[i]), Passes(low, e)
      PROVE  Follows(qs, behind, gs, next, i - 1, e)
  <2>1. i + 1 \in 1..Len(rs) /\ e \in Carried(rs[i + 1]) /\ e \in Later
    BY <1>1
  <2>2. Follows(rs, behind, fs, known, (i + 1) - 1, e)
    BY <1>2, <2>1 DEF Covers
  <2>3. (i + 1) - 1 \in 0..Len(rs) /\ i - 1 \in Nat /\ (i + 1) - 1 <= (i - 1) + 1
    BY <1>1
  <2> QED BY <1>2, <2>1, <2>2, <2>3, ShorterFollows
<1>3. ASSUME NEW e \in behind, Passes(low, e)
      PROVE  Follows(qs, behind, gs, next, Len(qs), e)
  <2>1. Follows(rs, behind, fs, known, Len(rs), e)
    BY <1>3 DEF Covers
  <2>2. Len(rs) \in 0..Len(rs) /\ Len(qs) \in Nat /\ Len(rs) <= Len(qs) + 1
    BY <1>1
  <2> QED BY <1>3, <2>1, <2>2, ShorterFollows
<1> QED BY <1>2, <1>3 DEF Covers

(* A completion that writes nothing: the pipe is closed, or has failed. *)
LEMMA NothingWritten ==
  ASSUME OrderInv, TypeOK', NEW i \in DOMAIN requests, i = 1,
         requests' = RemoveAt(requests, i),
         UNCHANGED <<subscription, published, frames>>,
         pipe'.timer = pipe.timer, pipe'.minVersion = pipe.minVersion,
         pipe'.closed = pipe.closed, pipe.closed \/ failed', failed => failed'
  PROVE  OrderInv'
<1>1. /\ TypeOK /\ Bounded /\ Streamed /\ VersionsIncrease /\ Covered /\ Announced
  BY DEF OrderInv
<1>2. PICK qs : qs = RemoveAt(requests, i)
  OBVIOUS
<1>3. Shorter(requests, qs) /\ Onward(qs, requests')
  BY <1>1, <1>2, FirstRemoved, OnwardSame DEF Shorter
<1>4. /\ pipe'.minVersion # None => pipe'.minVersion <= published
      /\ \A j \in DOMAIN frames' : frames'[j].kind # "reset" => frames'[j].version <= published
  BY <1>1 DEF Bounded, Numbered
<1>5. /\ Unopened' /\ SnapshotFirst' /\ InTurns' /\ Bounded'
      /\ Behind' = Behind /\ InSequence(requests', Behind')
  BY <1>3, <1>4, LaterOrder
<1>6. NewestLast(requests', Behind', frames', subscription'.base, pipe'.minVersion)
  BY <1>1, <1>2, <1>3, <1>5, ShorterNewest DEF Streamed
<1>7. \A j : Known(j)' = Known(j)
  BY DEF Known, Numbered
<1>8. VersionsIncrease' /\ Announced'
  BY <1>1, <1>7 DEF VersionsIncrease, Announced, Numbered
<1>9. Covered'
  <2>1. Known(Len(frames))' = Known(Len(frames))
    BY <1>7
  <2> QED BY <1>1, <2>1 DEF Covered
<1> QED BY <1>5, <1>6, <1>8, <1>9 DEF OrderInv, Streamed

(* The completion of the snapshot, which is the first request and before which *)
(* no event was written.                                                       *)
LEMMA SnapshotParts ==
  ASSUME InOrder, OrderInv, NEW i \in DOMAIN requests, SnapshotWritten(i)
  PROVE  /\ i = 1 /\ requests[1].op = "snapshot"
         /\ Shorter(requests, requests') /\ requests' \in Seq(Requests)
         /\ Onward(requests', requests') /\ requests' = RemoveAt(requests, i)
         /\ UNCHANGED <<subscription, published>>
         /\ pipe'.timer = pipe.timer /\ pipe.timer # "none"
         /\ pipe'.closed = pipe.closed /\ pipe.minVersion = None
         /\ pipe'.minVersion \in Nat /\ pipe'.minVersion # None
         /\ subscription.base <= pipe'.minVersion /\ pipe'.minVersion <= published
         /\ \A j \in DOMAIN frames : Reconnects(frames[j])
         /\ \A e : Passes(None, e)
         /\ \/ frames' = frames /\ failed'
            \/ /\ frames' = Append(frames, [kind |-> "snapshot", version |-> pipe'.minVersion])
               /\ failed => failed'
<1>1. /\ TypeOK /\ Unopened /\ SnapshotFirst /\ pipe \in Pipes
      /\ requests \in Seq(Requests) /\ DOMAIN requests = 1..Len(requests)
      /\ requests[i] \in Requests
  BY Types, RequestIs, LenProperties DEF OrderInv
<1>2. /\ requests[i].op = "snapshot" /\ requests[i].answer \notin {None, Error}
      /\ i = 1 /\ requests' = RemoveAt(requests, i)
      /\ UNCHANGED <<subscription, published>>
      /\ pipe' = [pipe EXCEPT !.minVersion = requests[i].answer]
  BY DEF SnapshotWritten, Answered
<1>3. PICK v : v = requests[i].answer
  OBVIOUS
<1>4. v \in Versions /\ v \in Nat /\ v # None
  BY <1>1, <1>2, <1>3, RequestParts, ConstantTypes
<1>5. /\ pipe'.timer = pipe.timer /\ pipe'.closed = pipe.closed /\ pipe'.minVersion = v
  BY <1>1, <1>2, <1>3 DEF Pipes
<1>6. /\ pipe.minVersion = None /\ \A j \in DOMAIN frames : Reconnects(frames[j])
      /\ subscription.base <= v /\ v <= published
  BY <1>1, <1>2, <1>3, <1>4 DEF SnapshotFirst
<1>7. pipe.timer # "none"
  <2>1. requests[i].op # "read"
    BY <1>2
  <2> QED BY <1>1, <2>1 DEF Unopened
<1>8. Shorter(requests, requests') /\ requests' \in Seq(Requests)
  BY <1>1, <1>2, FirstRemoved DEF Shorter
<1>9. \/ frames' = frames /\ failed'
      \/ /\ frames' = Append(frames, [kind |-> "snapshot", version |-> v])
         /\ failed => failed'
  BY <1>3 DEF SnapshotWritten
<1>10. \A e : Passes(None, e)
  BY DEF Passes
<1> QED BY <1>2, <1>4, <1>5, <1>6, <1>7, <1>8, <1>9, <1>10, OnwardSame

LEMMA SnapshotOrder ==
  ASSUME InOrder, OrderInv, TypeOK', NEW i \in DOMAIN requests, SnapshotWritten(i)
  PROVE  OrderInv'
<1>1. PICK v \in Nat : v = pipe'.minVersion
  BY SnapshotParts
<1>2. /\ i = 1 /\ requests[1].op = "snapshot"
      /\ Shorter(requests, requests') /\ Onward(requests', requests')
      /\ UNCHANGED <<subscription, published>>
      /\ pipe'.timer = pipe.timer /\ pipe.timer # "none"
      /\ pipe'.closed = pipe.closed /\ pipe.minVersion = None
      /\ v # None /\ subscription.base <= v /\ v <= published
      /\ \A j \in DOMAIN frames : Reconnects(frames[j])
      /\ \A e : Passes(None, e)
      /\ \/ frames' = frames /\ failed'
         \/ /\ frames' = Append(frames, [kind |-> "snapshot", version |-> v])
            /\ failed => failed'
  BY <1>1, SnapshotParts
<1>3. /\ Streamed /\ Covered /\ frames \in Seq(Frames) /\ Len(frames) \in Nat
      /\ DOMAIN frames = 1..Len(frames)
  BY Types, LenProperties DEF OrderInv
<1>4. \A j \in DOMAIN frames : frames[j].kind = "reset" /\ ~Overflows(frames[j])
  BY <1>2 DEF Reconnects, Overflows
<1>5. Carried(requests[1]) = {} /\ ~Delivered(requests[1])
  BY <1>2 DEF Carried, Delivered
\* A frame that is written is the last one, and the snapshot.
<1>6. /\ Len(frames') \in Nat /\ DOMAIN frames' = 1..Len(frames')
      /\ \A j \in DOMAIN frames' : frames'[j].kind # "reset" =>
           j = Len(frames') /\ j = Len(frames) + 1 /\ frames'[j].kind = "snapshot"
           /\ frames'[j].version = v
  <2>1. CASE frames' = frames
    BY <1>3, <1>4, <2>1
  <2>2. CASE frames' = Append(frames, [kind |-> "snapshot", version |-> v])
    <3>1. PICK f : f = [kind |-> "snapshot", version |-> v]
      OBVIOUS
    <3>2. PICK gs : gs = Append(frames, f)
      OBVIOUS
    <3>3. /\ Len(gs) = Len(frames) + 1 /\ DOMAIN gs = 1..(Len(frames) + 1)
          /\ gs[Len(frames) + 1] = f /\ \A j \in 1..Len(frames) : gs[j] = frames[j]
      <4>1. frames \in Seq(Frames \union {f}) /\ f \in Frames \union {f}
        BY <1>3
      <4> QED BY <3>2, <4>1, AppendShape, LenProperties
    <3>4. \A j \in DOMAIN gs : j \in 1..Len(frames) \/ j = Len(frames) + 1
      BY <1>3, <3>3
    <3> QED BY <1>3, <1>4, <2>2, <3>1, <3>2, <3>3, <3>4
  <2> QED BY <1>2, <2>1, <2>2
<1>7. /\ Unopened' /\ SnapshotFirst' /\ InTurns' /\ Bounded'
      /\ Behind' = Behind /\ InSequence(requests', Behind')
  <2>1. \A j \in DOMAIN frames' : frames'[j].kind # "reset" => frames'[j].version <= published
    BY <1>2, <1>6
  <2> QED BY <1>1, <1>2, <2>1, LaterOrder
<1>8. ASSUME NEW e, Fresh(frames, subscription.base, None, e)
      PROVE  Fresh(frames', subscription.base, v, e)
  <2>1. subscription.base < e
    BY <1>8 DEF Fresh
  <2>2. ASSUME NEW j \in DOMAIN frames', frames'[j].kind # "reset", Passes(v, e)
        PROVE  frames'[j].version < e
    <3>1. frames'[j].version = v /\ e > v
      BY <1>2, <1>6, <2>2 DEF Passes
    <3> QED BY <3>1
  <2> QED BY <2>1, <2>2 DEF Fresh
<1>9. NewestLast(requests', Behind', frames', subscription'.base, pipe'.minVersion)
  <2>1. NewestLast(requests, Behind, frames, subscription.base, None)
    BY <1>2, <1>3 DEF Streamed
  <2>2. NewestLast(requests', Behind, frames', subscription.base, v)
    BY <1>2, <1>8, <2>1, ShorterNewest
  <2> QED BY <1>1, <1>2, <1>7, <2>2
<1>10. VersionsIncrease'
  <2> SUFFICES ASSUME NEW j \in DOMAIN frames', NEW k \in DOMAIN frames', j < k,
                      frames'[j].kind # "reset", frames'[k].kind # "reset"
               PROVE  frames'[j].version < frames'[k].version
    BY DEF VersionsIncrease, Numbered
  <2> QED BY <1>6
<1>11. Announced'
  <2>1. \A j \in DOMAIN frames' : frames'[j].kind # "state"
    BY <1>6
  <2> QED BY <2>1 DEF Announced
<1>12. Covered'
  <2> SUFFICES ASSUME ~failed'
               PROVE  /\ Known(Len(frames))' >= v
                      /\ ~pipe'.closed => Covers(requests', Behind', frames', Known(Len(frames))', v)
    BY <1>1 DEF Covered
  <2>1. frames' = Append(frames, [kind |-> "snapshot", version |-> v]) /\ ~failed
    BY <1>2
  <2>2. PICK f : f = [kind |-> "snapshot", version |-> v]
    OBVIOUS
  <2>3. /\ Len(frames') = Len(frames) + 1 /\ frames'[Len(frames) + 1] = f
        /\ Len(frames) + 1 \in 1..Len(frames')
    <3>1. frames \in Seq(Frames \union {f}) /\ f \in Frames \union {f}
      BY <1>3
    <3>2. frames' = Append(frames, f)
      BY <2>1, <2>2
    <3>3. Len(frames') = Len(frames) + 1 /\ frames'[Len(frames) + 1] = f
      BY <3>1, <3>2, AppendShape
    <3> QED BY <1>3, <3>3
  <2>4. KnownIn(frames', subscription.base, Len(frames')) = v
    <3>1. frames'[Len(frames')].kind # "reset" /\ frames'[Len(frames')].version = v
      BY <2>2, <2>3
    <3>2. Len(frames') \in 1..Len(frames') /\ \A j \in 1..Len(frames') : j <= Len(frames')
      BY <1>6, <2>3
    <3> QED BY <1>6, <3>1, <3>2, KnownLast
  <2>5. Known(Len(frames))' = v
    <3>1. Known(Len(frames))' = KnownIn(frames', subscription'.base, Len(frames'))
      BY DEF Known, KnownIn, Numbered
    <3> QED BY <1>2, <2>4, <3>1
  <2>6. Known(Len(frames)) = subscription.base
    BY <1>3, <1>4, KnownIs, KnownNone
  <2>7. ASSUME ~pipe'.closed
        PROVE  Covers(requests', Behind, frames', v, v)
    <3>1. Covers(requests, Behind, frames, subscription.base, None)
      BY <1>2, <1>3, <2>1, <2>6, <2>7 DEF Covered
    <3>2. PICK Later : Later = {e \in Nat : subscription.base < e}
      OBVIOUS
    <3>3. \A e \in Behind : e \in Later
      BY <1>3, <3>2, UnderWay DEF Streamed, NewestLast, Fresh
    <3>4. \A j \in 2..Len(requests) : \A e \in Carried(requests[j]) : e \in Later
      <4>1. \A j \in 2..Len(requests) : j \in 1..Len(requests)
        BY UnderWay
      <4> QED BY <1>3, <3>2, <4>1, UnderWay DEF Streamed, NewestLast, Fresh
    <3>5. ~Resets(requests, frames, 0) /\ ~Resets(requests, frames, 1)
      <4>1. frames # <<>> => Len(frames) \in DOMAIN frames
        BY <1>3
      <4> QED BY <1>4, <1>5, <4>1 DEF Resets
    <3>6. ASSUME NEW e \in Later, Passes(v, e), e = subscription.base + 1
          PROVE  e = v + 1
      <4>1. e > v /\ subscription.base \in Nat
        BY <1>2, <3>6, UnderWay DEF Passes
      <4> QED BY <1>2, <3>6, <4>1
    <3>7. \A e \in Later : Passes(v, e) =>
            StillFollows(requests, requests', frames, frames', subscription.base, v, e)
      BY <1>5, <3>5, <3>6 DEF StillFollows
    <3> QED BY <1>2, <3>1, <3>3, <3>4, <3>5, <3>7, ShorterCovers
  <2> QED BY <1>2, <1>7, <2>5, <2>7
<1> QED BY <1>7, <1>9, <1>10, <1>11, <1>12 DEF OrderInv, Streamed

-----------------------------------------------------------------------------

(* A batch that is written, and the requests after it *)
LEMMA ReadParts ==
  ASSUME InOrder, OrderInv, NEW i \in DOMAIN requests, NEW writable \in BOOLEAN,
         ReadWritten(i, writable)
  PROVE  \E batch \in Batches, qs \in Seq(Requests) :
           /\ i = 1 /\ batch = requests[1].answer
           /\ Delivered(requests[1]) /\ Carried(requests[1]) = Held(batch.events)
           /\ Shorter(requests, qs) /\ Onward(qs, requests')
           /\ UNCHANGED <<subscription, published, failed>>
           /\ pipe'.timer = pipe.timer /\ pipe'.closed = pipe.closed
           /\ pipe'.minVersion = pipe.minVersion
           /\ ~pipe.closed
           /\ frames' = frames \o Encoded(batch)
<1>1. /\ TypeOK /\ pipe \in Pipes /\ requests[i] \in Requests
      /\ requests[i].op = "read" /\ requests[i].answer \notin {None, Error} /\ i = 1
      /\ ~pipe.closed
      /\ UNCHANGED <<subscription, published, failed>>
  BY Types, RequestIs DEF OrderInv, ReadWritten, Answered
<1>2. PICK batch : batch = requests[i].answer
  OBVIOUS
<1>3. batch \in Batches
  BY <1>1, <1>2, RequestParts
<1>4. Delivered(requests[1]) /\ Carried(requests[1]) = Held(batch.events)
  BY <1>1, <1>2 DEF Delivered, Carried
<1>5. PICK qs : qs = RemoveAt(requests, i)
  OBVIOUS
<1>6. Shorter(requests, qs) /\ qs \in Seq(Requests)
  BY <1>1, <1>5, FirstRemoved DEF Shorter
<1>7. frames' = frames \o Encoded(batch)
  BY <1>2 DEF ReadWritten
<1>8. /\ Onward(qs, requests')
      /\ pipe'.timer = pipe.timer /\ pipe'.closed = pipe.closed
      /\ pipe'.minVersion = pipe.minVersion
  <2>1. Onward(qs, qs) /\ Onward(qs, Append(qs, [op |-> "read", answer |-> None]))
    BY <1>6, OnwardSame, OnwardRead
  <2>2. CASE batch.overflowed
    BY <1>1, <1>2, <1>5, <2>1, <2>2 DEF ReadWritten, AfterReset, Pipes
  <2>3. CASE StartRead(pipe, qs)
    BY <1>1, <2>1, <2>3 DEF StartRead, Pipes
  <2>4. CASE pipe' = [pipe EXCEPT !.pending = TRUE] /\ requests' = qs
    BY <1>1, <2>1, <2>4 DEF Pipes
  <2>5. CASE Idle(qs)
    <3>1. CASE StartRead([pipe EXCEPT !.active = FALSE], qs)
      BY <1>1, <2>1, <3>1 DEF StartRead, Pipes
    <3>2. CASE pipe' = [pipe EXCEPT !.active = FALSE] /\ requests' = qs
      BY <1>1, <2>1, <3>2 DEF Pipes
    <3> QED BY <2>5, <3>1, <3>2 DEF Idle
  <2> QED BY <1>2, <1>5, <2>2, <2>3, <2>4, <2>5 DEF ReadWritten
<1> QED BY <1>1, <1>2, <1>3, <1>4, <1>6, <1>7, <1>8

(* An overflow is written: a reset, after which whatever was first may follow. *)
LEMMA OverflowOrder ==
  ASSUME OrderInv, TypeOK', NEW batch \in Batches, NEW qs \in Seq(Requests),
         1 \in 1..Len(requests), batch = requests[1].answer, batch.overflowed,
         Delivered(requests[1]), Carried(requests[1]) = Held(batch.events),
         Shorter(requests, qs), Onward(qs, requests'),
         UNCHANGED <<subscription, published, failed>>,
         pipe'.timer = pipe.timer, pipe'.closed = pipe.closed,
         pipe'.minVersion = pipe.minVersion,
         frames' = frames \o Encoded(batch)
  PROVE  OrderInv'
<1>1. /\ Bounded /\ Streamed /\ VersionsIncrease /\ Covered /\ Announced
      /\ frames \in Seq(Frames) /\ Len(frames) \in Nat /\ DOMAIN frames = 1..Len(frames)
  BY Types, LenProperties DEF OrderInv
<1>2. Carried(requests[1]) = {}
  <2>1. batch.events = <<>>
    BY <1>1 DEF Bounded
  <2> QED BY <2>1 DEF Held
<1>3. PICK r \in Frames : r = Reset("overflow") /\ Overflows(r)
  <2>1. TypeOK
    BY DEF OrderInv
  <2> QED BY <2>1, ResetTypes DEF Overflows
<1>4. frames' = Append(frames, r)
  <2>1. frames' = frames \o <<r>>
    BY <1>3 DEF Encoded
  <2> QED BY <1>1, <2>1
<1>5. PICK gs : gs = frames'
  OBVIOUS
<1>6. /\ Len(gs) = Len(frames) + 1 /\ DOMAIN gs = 1..(Len(frames) + 1)
      /\ gs[Len(frames) + 1] = r /\ \A j \in 1..Len(frames) : gs[j] = frames[j]
      /\ Len(gs) \in Nat
  BY <1>1, <1>4, <1>5, AppendShape, LenProperties
<1>7. \A j \in DOMAIN gs : gs[j].kind # "reset" => j \in DOMAIN frames /\ gs[j] = frames[j]
  <2>1. \A j \in DOMAIN gs : j \in 1..Len(frames) \/ j = Len(frames) + 1
    BY <1>1, <1>6
  <2> QED BY <1>1, <1>3, <1>6, <2>1 DEF Overflows
<1>8. Resets(qs, gs, 0)
  <2>1. gs # <<>>
    BY <1>1, <1>6
  <2> QED BY <1>3, <1>6, <2>1 DEF Resets
<1>9. /\ Unopened' /\ SnapshotFirst' /\ InTurns' /\ Bounded'
      /\ Behind' = Behind /\ InSequence(requests', Behind')
  <2>1. /\ pipe'.minVersion # None => pipe'.minVersion <= published
        /\ \A j \in DOMAIN frames' : frames'[j].kind # "reset" => frames'[j].version <= published
    BY <1>1, <1>5, <1>7 DEF Bounded, Numbered
  <2> QED BY <2>1, LaterOrder
<1>10. NewestLast(requests', Behind', frames', subscription'.base, pipe'.minVersion)
  <2>1. \A e : Fresh(frames, subscription.base, pipe.minVersion, e) =>
                 Fresh(gs, subscription.base, pipe.minVersion, e)
    BY <1>7 DEF Fresh
  <2>2. NewestLast(qs, Behind, gs, subscription.base, pipe.minVersion)
    BY <1>1, <2>1, ShorterNewest DEF Streamed
  <2> QED BY <1>5, <1>9, <2>2, AlikeNewest DEF Onward
<1>11. VersionsIncrease'
  <2> SUFFICES ASSUME NEW j \in DOMAIN gs, NEW k \in DOMAIN gs, j < k,
                      gs[j].kind # "reset", gs[k].kind # "reset"
               PROVE  gs[j].version < gs[k].version
    BY <1>5 DEF VersionsIncrease, Numbered
  <2> QED BY <1>1, <1>7 DEF VersionsIncrease, Numbered
<1>12. \A j \in 0..Len(frames) : KnownIn(gs, subscription.base, j) = KnownIn(frames, subscription.base, j)
  <2> SUFFICES ASSUME NEW j \in 0..Len(frames)
               PROVE  KnownIn(gs, subscription.base, j) = KnownIn(frames, subscription.base, j)
    OBVIOUS
  <2>1. j \in Nat /\ \A k \in 1..j : gs[k] = frames[k]
    BY <1>1, <1>6
  <2> QED BY <2>1, KnownPrefix
<1>13. \A j : Known(j)' = KnownIn(gs, subscription.base, j)
  BY <1>5 DEF Known, KnownIn, Numbered
<1>14. Announced'
  <2> SUFFICES ASSUME NEW j \in DOMAIN gs, gs[j].kind = "state", ~failed
               PROVE  \/ gs[j].version = Known(j - 1)' + 1
                      \/ j > 1 /\ gs[j - 1].kind = "reset"
    BY <1>5 DEF Announced
  <2>1. j \in DOMAIN frames /\ gs[j] = frames[j] /\ j - 1 \in 0..Len(frames)
    <3>1. j \in DOMAIN frames /\ gs[j] = frames[j]
      BY <1>7
    <3> QED BY <1>1, <3>1
  <2>2. Known(j - 1)' = Known(j - 1)
    BY <1>12, <1>13, <2>1, KnownIs
  <2>3. j > 1 => gs[j - 1] = frames[j - 1]
    <3>1. j > 1 => j - 1 \in 1..Len(frames)
      BY <1>1, <2>1
    <3> QED BY <1>6, <3>1
  <2> QED BY <1>1, <2>1, <2>2, <2>3 DEF Announced
<1>15. KnownIn(gs, subscription.base, Len(gs)) = KnownIn(frames, subscription.base, Len(frames))
  <2>1. CASE \A j \in 1..Len(frames) : frames[j].kind = "reset"
    <3>1. \A j \in 1..Len(gs) : gs[j].kind = "reset"
      BY <1>1, <1>6, <1>7, <2>1
    <3> QED BY <2>1, <3>1, KnownNone
  <2>2. ASSUME NEW n \in 1..Len(frames), frames[n].kind # "reset",
               \A j \in 1..Len(frames) : frames[j].kind # "reset" => j <= n
        PROVE  KnownIn(gs, subscription.base, Len(gs)) = KnownIn(frames, subscription.base, Len(frames))
    <3>1. n \in 1..Len(gs) /\ gs[n] = frames[n]
      BY <1>1, <1>6
    <3>2. \A j \in 1..Len(gs) : gs[j].kind # "reset" => j <= n
      BY <1>1, <1>6, <1>7, <2>2
    <3>3. KnownIn(gs, subscription.base, Len(gs)) = gs[n].version
      <4>1. Len(gs) \in Nat /\ gs[n].kind # "reset"
        BY <1>1, <1>6, <2>2, <3>1
      <4>2. PICK l \in Nat : l = Len(gs)
        BY <4>1
      <4>3. n \in 1..l /\ \A j \in 1..l : gs[j].kind # "reset" => j <= n
        BY <3>1, <3>2, <4>2
      <4>4. KnownIn(gs, subscription.base, l) = gs[n].version
        BY <4>1, <4>3, KnownLast
      <4> QED BY <4>2, <4>4
    <3>4. KnownIn(frames, subscription.base, Len(frames)) = frames[n].version
      BY <1>1, <2>2, KnownLast
    <3> QED BY <3>1, <3>3, <3>4
  <2> QED BY <1>1, <2>1, <2>2, LastNumbered
<1>16. Covered'
  <2> SUFFICES ASSUME ~failed
               PROVE  /\ pipe.minVersion # None => Known(Len(gs))' >= pipe.minVersion
                      /\ ~pipe.closed =>
                           Covers(requests', Behind', gs, Known(Len(gs))', pipe.minVersion)
    BY <1>5 DEF Covered
  <2>1. Known(Len(gs))' = Known(Len(frames))
    BY <1>13, <1>15, KnownIs
  <2>2. ASSUME ~pipe.closed
        PROVE  Covers(requests', Behind, gs, Known(Len(frames)), pipe.minVersion)
    <3>1. PICK known : known = Known(Len(frames))
      OBVIOUS
    <3>2. Covers(requests, Behind, frames, known, pipe.minVersion)
      BY <1>1, <2>2, <3>1 DEF Covered
    <3>3. PICK Later : \A e \in Behind \union UNION {Carried(requests[j]) : j \in 2..Len(requests)} : e \in Later
      OBVIOUS
    <3>4. \A j \in 2..Len(requests) : \A e \in Carried(requests[j]) : e \in Later
      BY <3>3
    <3>5. \A e \in Later : StillFollows(requests, qs, frames, gs, known, known, e)
      BY <1>2, <1>8 DEF StillFollows
    <3>6. Covers(qs, Behind, gs, known, pipe.minVersion)
      BY <1>8, <3>2, <3>3, <3>4, <3>5, ShorterCovers
    <3> QED BY <3>1, <3>6, AlikeCovers DEF Onward
  <2> QED BY <1>1, <1>9, <2>1, <2>2 DEF Covered
<1> QED BY <1>9, <1>10, <1>11, <1>14, <1>16 DEF OrderInv, Streamed

(* Frames followed by the state frames of some events *)
Extends(fs, es, gs) ==
  /\ fs \in Seq(Frames) /\ es \in Seq(Versions) /\ gs \in Seq(Frames)
  /\ Len(gs) = Len(fs) + Len(es)
  /\ \A j \in 1..Len(fs) : gs[j] = fs[j]
  /\ \A k \in 1..Len(es) : gs[Len(fs) + k] = [kind |-> "state", version |-> es[k]]

LEMMA EncodedExtends ==
  ASSUME TypeOK, NEW batch \in Batches, ~batch.overflowed, NEW fs \in Seq(Frames)
  PROVE  Extends(fs, Newer(batch.events), fs \o Encoded(batch))
<1>1. PICK es \in Seq(Versions) : es = Newer(batch.events)
  BY NewerKeeps DEF Batches, KeepsOf
<1>2. PICK ns \in Seq(Frames) : ns = Encoded(batch)
  BY EncodedTypes
<1>3. ns = [k \in DOMAIN es |-> [kind |-> "state", version |-> es[k]]]
  BY <1>1, <1>2 DEF Encoded
<1>4. /\ Len(fs) \in Nat /\ Len(es) \in Nat /\ DOMAIN es = 1..Len(es)
      /\ DOMAIN ns = 1..Len(ns) /\ Len(ns) \in Nat
  BY LenProperties
<1>5. DOMAIN ns = 1..Len(es)
  BY <1>3, <1>4
<1>6. Len(ns) = Len(es)
  <2>1. PICK m \in Nat : m = Len(ns)
    BY <1>4
  <2>2. PICK l \in Nat : l = Len(es)
    BY <1>4
  <2>3. 1..m = 1..l
    BY <1>4, <1>5, <2>1, <2>2, Zenon
  <2>4. m = l
    <3>1. m <= l
      <4>1. CASE m = 0
        BY <4>1
      <4>2. CASE m # 0
        <5>1. m \in 1..m
          BY <4>2
        <5>2. m \in 1..l
          BY <2>3, <5>1, Zenon
        <5> QED BY <5>2
      <4> QED BY <4>1, <4>2
    <3>2. l <= m
      <4>1. CASE l = 0
        BY <4>1
      <4>2. CASE l # 0
        <5>1. l \in 1..l
          BY <4>2
        <5>2. l \in 1..m
          BY <2>3, <5>1, Zenon
        <5> QED BY <5>2
      <4> QED BY <4>1, <4>2
    <3> QED BY <3>1, <3>2
  <2> QED BY <2>1, <2>2, <2>4
<1>7. PICK gs : gs = fs \o ns
  OBVIOUS
<1>8. /\ gs \in Seq(Frames) /\ Len(gs) = Len(fs) + Len(ns)
      /\ \A j \in 1..(Len(fs) + Len(ns)) : gs[j] = IF j <= Len(fs) THEN fs[j] ELSE ns[j - Len(fs)]
  BY <1>7
<1>9. \A j \in 1..Len(fs) : gs[j] = fs[j]
  <2> SUFFICES ASSUME NEW j \in 1..Len(fs) PROVE gs[j] = fs[j]
    OBVIOUS
  <2>1. j \in 1..(Len(fs) + Len(ns)) /\ j <= Len(fs)
    BY <1>4
  <2> QED BY <1>8, <2>1
<1>10. \A k \in 1..Len(es) : gs[Len(fs) + k] = [kind |-> "state", version |-> es[k]]
  <2> SUFFICES ASSUME NEW k \in 1..Len(es)
               PROVE  gs[Len(fs) + k] = [kind |-> "state", version |-> es[k]]
    OBVIOUS
  <2>1. /\ Len(fs) + k \in 1..(Len(fs) + Len(ns)) /\ ~(Len(fs) + k <= Len(fs))
        /\ (Len(fs) + k) - Len(fs) = k
    BY <1>4, <1>6
  <2>2. gs[Len(fs) + k] = ns[k]
    BY <1>8, <2>1
  <2>3. k \in DOMAIN es
    BY <1>4
  <2> QED BY <1>3, <2>2, <2>3
<1> QED BY <1>1, <1>2, <1>6, <1>7, <1>8, <1>9, <1>10 DEF Extends

\* Each frame is one of the n old ones, or one of the l state frames.
Shape(fs, es, gs, n, l) ==
  /\ n = Len(fs) /\ l = Len(es) /\ n \in Nat /\ l \in Nat
  /\ DOMAIN fs = 1..n /\ DOMAIN es = 1..l /\ DOMAIN gs = 1..(n + l) /\ Len(gs) = n + l
  /\ \A j \in 1..n : j \in DOMAIN gs /\ gs[j] = fs[j]
  /\ \A k \in 1..l : /\ n + k \in DOMAIN gs
                     /\ gs[n + k].kind = "state" /\ gs[n + k].version = es[k]
  /\ \A j \in DOMAIN gs :
       \/ j \in 1..n
       \/ /\ j > n /\ j - n \in 1..l /\ j = n + (j - n)
          /\ gs[j].kind = "state" /\ gs[j].version = es[j - n]

LEMMA ExtendsShape ==
  ASSUME NEW fs, NEW es, NEW gs, Extends(fs, es, gs)
  PROVE  \E n, l \in Nat : Shape(fs, es, gs, n, l)
<1>1. PICK n \in Nat : n = Len(fs) /\ DOMAIN fs = 1..n
  BY LenProperties DEF Extends
<1>2. PICK l \in Nat : l = Len(es) /\ DOMAIN es = 1..l
  BY LenProperties DEF Extends
<1>3. Len(gs) = n + l /\ DOMAIN gs = 1..(n + l)
  BY <1>1, <1>2, LenProperties DEF Extends
<1>4. \A j \in 1..n : j \in DOMAIN gs /\ gs[j] = fs[j]
  <2>1. \A j \in 1..n : j \in 1..(n + l)
    OBVIOUS
  <2> QED BY <1>1, <1>3, <2>1 DEF Extends
<1>5. ASSUME NEW k \in 1..l
      PROVE  n + k \in DOMAIN gs /\ gs[n + k].kind = "state" /\ gs[n + k].version = es[k]
  <2>1. n + k \in 1..(n + l)
    OBVIOUS
  <2>2. PICK g : g = gs[n + k]
    OBVIOUS
  <2>3. PICK e : e = es[k]
    OBVIOUS
  <2>4. g = [kind |-> "state", version |-> e]
    BY <1>1, <1>2, <2>2, <2>3 DEF Extends
  <2>5. g.kind = "state" /\ g.version = e
    BY <2>4
  <2> QED BY <1>3, <2>1, <2>2, <2>3, <2>5
<1>6. ASSUME NEW j \in DOMAIN gs, j \notin 1..n
      PROVE  /\ j > n /\ j - n \in 1..l /\ j = n + (j - n)
             /\ gs[j].kind = "state" /\ gs[j].version = es[j - n]
  <2>1. j > n /\ j - n \in 1..l /\ j = n + (j - n)
    BY <1>3, <1>6
  <2>2. PICK k \in 1..l : k = j - n /\ j = n + k
    BY <2>1
  <2> QED BY <1>5, <2>1, <2>2
<1> QED BY <1>1, <1>2, <1>3, <1>4, <1>5, <1>6 DEF Shape

KnownAlong(fs, es, gs, base, n, l) ==
  /\ \A j \in 0..n : KnownIn(gs, base, j) = KnownIn(fs, base, j)
  /\ \A k \in 1..l : KnownIn(gs, base, n + k) = es[k]

LEMMA ExtendsKnown ==
  ASSUME NEW fs, NEW es, NEW gs, NEW base, NEW n, NEW l, Shape(fs, es, gs, n, l)
  PROVE  KnownAlong(fs, es, gs, base, n, l)
<1>1. ASSUME NEW j \in 0..n PROVE KnownIn(gs, base, j) = KnownIn(fs, base, j)
  <2>1. j \in Nat /\ \A m \in 1..j : m \in 1..n
    BY DEF Shape
  <2>2. \A m \in 1..j : gs[m] = fs[m]
    BY <2>1 DEF Shape
  <2> QED BY <2>1, <2>2, KnownPrefix
<1>2. ASSUME NEW k \in 1..l PROVE KnownIn(gs, base, n + k) = es[k]
  <2>1. PICK j : j = n + k
    OBVIOUS
  <2>2. j \in Nat /\ j \in 1..j /\ \A m \in 1..j : m <= j
    BY <2>1 DEF Shape
  <2>3. gs[j].kind # "reset" /\ gs[j].version = es[k]
    BY <2>1 DEF Shape
  <2>4. KnownIn(gs, base, j) = gs[j].version
    BY <2>2, <2>3, KnownLast
  <2> QED BY <2>1, <2>3, <2>4
<1> QED BY <1>1, <1>2 DEF KnownAlong

\* The events of E that pass, in their order
KeptOf(E, es, min) ==
  /\ es \in Seq(Versions) /\ Sorted(es) /\ E \subseteq Nat
  /\ \A k \in DOMAIN es : es[k] \in E /\ Passes(min, es[k])
  /\ \A d \in E : Passes(min, d) => \E k \in DOMAIN es : es[k] = d

LEMMA KeptEvents ==
  ASSUME NEW batch \in Batches, Sorted(batch.events)
  PROVE  KeptOf(Held(batch.events), Newer(batch.events), pipe.minVersion)
<1>0. PICK es : es = Newer(batch.events)
  OBVIOUS
<1>1. PICK events \in Seq(Versions) : events = batch.events
  BY DEF Batches
<1>2. PICK n : n = Len(events) /\ DOMAIN events = 1..n
  BY <1>1, LenProperties
<1>3. KeepsOf(events, n, es)
  BY <1>0, <1>1, <1>2, NewerKeeps
<1>4. Held(events) \subseteq Nat
  BY HeldTypes
<1>5. es \in Seq(Versions) /\ Sorted(es)
  BY <1>1, <1>3 DEF KeepsOf
<1>6. ASSUME NEW k \in DOMAIN es PROVE es[k] \in Held(events) /\ Passes(pipe.minVersion, es[k])
  <2>1. Passes(pipe.minVersion, es[k]) /\ \E m \in 1..n : events[m] = es[k]
    BY <1>3, Zenon DEF KeepsOf
  <2>2. PICK m \in DOMAIN events : events[m] = es[k]
    BY <1>2, <2>1
  <2> QED BY <2>1, <2>2 DEF Held
<1>7. ASSUME NEW d \in Held(events), Passes(pipe.minVersion, d)
      PROVE  \E k \in DOMAIN es : es[k] = d
  <2>1. PICK m \in DOMAIN events : events[m] = d
    BY DEF Held
  <2>2. m \in 1..n /\ Passes(pipe.minVersion, events[m])
    BY <1>2, <1>7, <2>1
  <2>3. \E k \in DOMAIN es : es[k] = events[m]
    BY <1>3, <2>2, Zenon DEF KeepsOf
  <2> QED BY <2>1, <2>3
<1>8. KeptOf(Held(events), es, pipe.minVersion)
  BY <1>4, <1>5, <1>6, <1>7 DEF KeptOf
<1> QED BY <1>0, <1>1, <1>8

LEMMA KnownIsNatural ==
  ASSUME NEW fs \in Seq(Frames), NEW base \in Nat
  PROVE  KnownIn(fs, base, Len(fs)) \in Nat
<1>1. Len(fs) \in Nat /\ DOMAIN fs = 1..Len(fs) /\ Versions \subseteq Nat
  BY LenProperties, ConstantTypes
<1>2. CASE \A j \in 1..Len(fs) : fs[j].kind = "reset"
  BY <1>2, KnownNone
<1>3. ASSUME NEW n \in 1..Len(fs), fs[n].kind # "reset",
             \A j \in 1..Len(fs) : fs[j].kind # "reset" => j <= n
      PROVE  KnownIn(fs, base, Len(fs)) \in Nat
  <2>1. KnownIn(fs, base, Len(fs)) = fs[n].version
    BY <1>1, <1>3, KnownLast
  <2>2. fs[n] \in Frames
    BY <1>1
  <2>3. fs[n].version \in Versions
    BY <1>3, <2>2 DEF Frames
  <2> QED BY <1>1, <2>1, <2>3
<1> QED BY <1>1, <1>2, <1>3, LastNumbered

(* When e comes after the first n of the events es that are kept of E, and its  *)
(* predecessor is in E, the client knows the predecessor when these n are      *)
(* written: it is the last of them, or the filter has dropped it.              *)
NextIs(es, n, known, next) == (n = 0 => next = known) /\ (n # 0 => next = es[n])
Between(es, n, e) ==
  \A k \in DOMAIN es : (k <= n => es[k] < e) /\ (n < k => e <= es[k])

LEMMA PredecessorKnown ==
  ASSUME NEW E, NEW es, NEW min, KeptOf(E, es, min),
         NEW known \in Nat, min # None => min \in Nat /\ min <= known,
         NEW n \in 0..Len(es), NEW next, NextIs(es, n, known, next),
         NEW e \in Nat, known < e, Between(es, n, e), e - 1 \in E
  PROVE  e = next + 1
<1>0. /\ es \in Seq(Versions) /\ Sorted(es) /\ E \subseteq Nat
      /\ \A k \in DOMAIN es : es[k] \in E /\ Passes(min, es[k])
      /\ \A d \in E : Passes(min, d) => \E k \in DOMAIN es : es[k] = d
      /\ n = 0 => next = known
      /\ n # 0 => next = es[n]
      /\ \A k \in DOMAIN es : k <= n => es[k] < e
      /\ \A k \in DOMAIN es : n < k => e <= es[k]
  BY DEF KeptOf, NextIs, Between
<1>1. /\ Len(es) \in Nat /\ DOMAIN es = 1..Len(es) /\ n \in Nat
      /\ \A k \in DOMAIN es : es[k] \in Nat
  <2>1. Len(es) \in Nat /\ DOMAIN es = 1..Len(es)
    BY <1>0, LenProperties
  <2>2. n \in Nat
    BY <2>1
  <2>3. \A k \in DOMAIN es : es[k] \in Nat
    BY <1>0, HeldTypes
  <2> QED BY <2>1, <2>2, <2>3
<1>2. n # 0 => n \in DOMAIN es
  BY <1>1
<1>3. CASE Passes(min, e - 1)
  <2>1. PICK k \in DOMAIN es : es[k] = e - 1
    BY <1>0, <1>3
  <2>2. k \in Nat /\ k <= n
    <3>1. ~(e <= e - 1)
      OBVIOUS
    <3>2. ~(n < k)
      BY <1>0, <2>1, <3>1
    <3> QED BY <1>1, <3>2
  <2>3. n # 0 /\ n \in DOMAIN es /\ es[n] < e
    BY <1>0, <1>1, <1>2, <2>2
  <2>4. k = n \/ es[k] < es[n]
    BY <1>0, <1>1, <2>2, <2>3 DEF Sorted
  <2>5. es[n] \in Nat /\ next = es[n]
    BY <1>0, <1>1, <2>3
  <2> QED BY <2>1, <2>3, <2>4, <2>5
<1>4. CASE ~Passes(min, e - 1)
  <2>1. min \in Nat /\ min <= known /\ ~(e - 1 > min)
    BY <1>4 DEF Passes
  <2>2. known = e - 1 /\ min = e - 1
    BY <2>1
  <2>3. CASE n = 0
    BY <1>0, <2>2, <2>3
  <2>4. CASE n # 0
    <3>1. es[n] < e /\ es[n] \in Nat /\ Passes(min, es[n])
      BY <1>0, <1>1, <1>2, <2>4
    <3>2. es[n] > min
      BY <2>1, <3>1, ConstantTypes DEF Passes
    <3> QED BY <1>0, <2>2, <2>4, <3>1, <3>2
  <2> QED BY <2>3, <2>4
<1> QED BY <1>3, <1>4

(* A batch of events is written: each new frame continues the one before it, *)
(* or the overflow before it, and what is left continues the last of them.   *)
LEMMA EventsOrder ==
  ASSUME OrderInv, TypeOK', NEW batch \in Batches, NEW qs \in Seq(Requests),
         1 \in 1..Len(requests), batch = requests[1].answer, ~batch.overflowed,
         Delivered(requests[1]), Carried(requests[1]) = Held(batch.events),
         Shorter(requests, qs), Onward(qs, requests'),
         UNCHANGED <<subscription, published, failed>>,
         pipe'.timer = pipe.timer, pipe'.closed = pipe.closed,
         pipe'.minVersion = pipe.minVersion, ~pipe.closed,
         frames' = frames \o Encoded(batch)
  PROVE  OrderInv'
<1>1. /\ Bounded /\ Streamed /\ VersionsIncrease /\ Covered /\ Announced
      /\ frames \in Seq(Frames) /\ pipe \in Pipes
  BY Types DEF OrderInv
<1>2. PICK E : E = Held(batch.events) /\ E = Carried(requests[1])
  OBVIOUS
<1>3. PICK es : es = Newer(batch.events) /\ KeptOf(E, es, pipe.minVersion)
  <2>1. Sorted(batch.events)
    BY <1>1 DEF Bounded
  <2> QED BY <1>2, <2>1, KeptEvents
<1>4. PICK gs : gs = frames' /\ Extends(frames, es, gs)
  <2>1. TypeOK
    BY DEF OrderInv
  <2> QED BY <1>1, <1>3, <2>1, EncodedExtends
<1>5. PICK base \in Nat : base = subscription.base
  BY UnderWay
<1>6. PICK min : min = pipe.minVersion /\ (min # None => min \in Nat)
  BY <1>1, ConstantTypes DEF Pipes
<1>7. PICK known \in Nat : known = KnownIn(frames, base, Len(frames)) /\ known = Known(Len(frames))
  BY <1>1, <1>5, KnownIs, KnownIsNatural
<1>8. PICK n \in Nat, l \in Nat : Shape(frames, es, gs, n, l)
  BY <1>4, ExtendsShape
<1>9. n = Len(frames) /\ DOMAIN frames = 1..n /\ DOMAIN es = 1..l /\ l = Len(es)
  BY <1>8 DEF Shape
<1>10. /\ DOMAIN gs = 1..(n + l) /\ Len(gs) = n + l
       /\ \A j \in 1..n : gs[j] = frames[j]
       /\ \A k \in 1..l : gs[n + k].kind = "state" /\ gs[n + k].version = es[k]
       /\ \A j \in DOMAIN gs :
            \/ j \in 1..n
            \/ /\ j > n /\ j - n \in 1..l /\ j = n + (j - n)
               /\ gs[j].kind = "state" /\ gs[j].version = es[j - n]
  BY <1>8 DEF Shape
<1>11. /\ \A j \in 0..n : KnownIn(gs, base, j) = KnownIn(frames, base, j)
       /\ \A k \in 1..l : KnownIn(gs, base, n + k) = es[k]
  <2>1. KnownAlong(frames, es, gs, base, n, l)
    BY <1>8, ExtendsKnown
  <2> QED BY <2>1 DEF KnownAlong
<1>12. /\ \A k \in DOMAIN es : es[k] \in Nat /\ es[k] \in E /\ Passes(min, es[k])
       /\ Sorted(es) /\ E \subseteq Nat /\ KeptOf(E, es, min)
  BY <1>3, <1>6 DEF KeptOf
<1>13. PICK Later \in SUBSET Nat :
         Later = Behind \union UNION {Carried(requests[j]) : j \in 2..Len(requests)}
  <2>1. \A j \in 2..Len(requests) : j \in 1..Len(requests)
    BY UnderWay
  <2>2. \A j \in 2..Len(requests) : Carried(requests[j]) \subseteq Nat
    BY <2>1, UnderWay
  <2> QED BY <2>2, UnderWay
<1>14. /\ \A e \in Behind : e \in Later
       /\ \A j \in 2..Len(requests) : \A e \in Carried(requests[j]) : e \in Later
  BY <1>13
\* What is left is newer than the batch, and all of it than what is known.
<1>15. \A d \in E : \A e \in Later : d < e
  <2> SUFFICES ASSUME NEW d \in E, NEW e \in Later PROVE d < e
    OBVIOUS
  <2>1. d \in Carried(requests[1]) /\ InSequence(requests, Behind)
    BY <1>1, <1>2 DEF Streamed
  <2>2. CASE e \in Behind
    BY <2>1, <2>2 DEF InSequence
  <2>3. ASSUME NEW j \in 2..Len(requests), e \in Carried(requests[j]) PROVE d < e
    <3>1. j \in 1..Len(requests) /\ 1 < j
      BY UnderWay
    <3> QED BY <2>1, <2>3, <3>1 DEF InSequence
  <2> QED BY <1>13, <2>2, <2>3
<1>16. \A e \in E \union Later : Fresh(frames, base, min, e)
  <2> SUFFICES ASSUME NEW e \in E \union Later PROVE Fresh(frames, base, min, e)
    OBVIOUS
  <2>1. NewestLast(requests, Behind, frames, base, min)
    BY <1>1, <1>5, <1>6 DEF Streamed
  <2>2. CASE e \in E
    BY <1>2, <2>1, <2>2 DEF NewestLast
  <2>3. CASE e \in Behind
    BY <2>1, <2>3 DEF NewestLast
  <2>4. ASSUME NEW j \in 2..Len(requests), e \in Carried(requests[j])
        PROVE  Fresh(frames, base, min, e)
    <3>1. j \in 1..Len(requests)
      BY UnderWay
    <3> QED BY <2>1, <2>4, <3>1 DEF NewestLast
  <2> QED BY <1>13, <2>2, <2>3, <2>4
<1>17. \A e \in E \union Later : Passes(min, e) => known < e
  BY <1>1, <1>7, <1>16, KnownIsOlder
<1>18. \A k \in DOMAIN es : Passes(min, es[k]) /\ known < es[k] /\ Fresh(frames, base, min, es[k])
  BY <1>12, <1>16, <1>17
<1>19. \A j \in DOMAIN frames' : frames'[j].kind # "reset" => frames'[j].version <= published
  <2> SUFFICES ASSUME NEW j \in DOMAIN gs, gs[j].kind # "reset"
               PROVE  gs[j].version <= published
    BY <1>4
  <2>1. CASE j \in 1..n
    BY <1>1, <1>9, <1>10, <2>1 DEF Bounded, Numbered
  <2>2. CASE j \notin 1..n
    <3>1. j - n \in DOMAIN es /\ gs[j].version = es[j - n]
      BY <1>9, <1>10, <2>2
    <3>2. es[j - n] \in Carried(requests[1])
      BY <1>2, <1>12, <3>1
    <3> QED BY <3>1, <3>2, UnderWay
  <2> QED BY <2>1, <2>2
<1>20. /\ Unopened' /\ SnapshotFirst' /\ InTurns' /\ Bounded'
       /\ Behind' = Behind /\ InSequence(requests', Behind')
  <2>1. pipe'.minVersion # None => pipe'.minVersion <= published
    BY <1>1 DEF Bounded
  <2> QED BY <1>19, <2>1, LaterOrder
<1>21. NewestLast(requests', Behind', frames', subscription'.base, pipe'.minVersion)
  <2>1. ASSUME NEW e \in Later PROVE Fresh(gs, base, min, e)
    <3>1. Fresh(frames, base, min, e)
      BY <1>16
    <3>2. ASSUME NEW j \in DOMAIN gs, gs[j].kind # "reset", Passes(min, e)
          PROVE  gs[j].version < e
      <4>1. CASE j \in 1..n
        BY <1>9, <1>10, <3>1, <3>2, <4>1 DEF Fresh
      <4>2. CASE j \notin 1..n
        <5>1. j - n \in DOMAIN es /\ gs[j].version = es[j - n]
          BY <1>9, <1>10, <4>2
        <5> QED BY <1>12, <1>15, <5>1
      <4> QED BY <4>1, <4>2
    <3> QED BY <3>1, <3>2 DEF Fresh
  <2>2. NewestLast(requests, Behind, frames, base, min)
    BY <1>1, <1>5, <1>6 DEF Streamed
  <2>3. NewestLast(qs, Behind, gs, base, min)
    BY <1>14, <2>1, <2>2, ShorterNewest
  <2> QED BY <1>4, <1>5, <1>6, <1>20, <2>3, AlikeNewest DEF Onward
<1>22. VersionsIncrease'
  <2> SUFFICES ASSUME NEW j \in DOMAIN gs, NEW k \in DOMAIN gs, j < k,
                      gs[j].kind # "reset", gs[k].kind # "reset"
               PROVE  gs[j].version < gs[k].version
    BY <1>4 DEF VersionsIncrease, Numbered
  <2>1. j \in Nat /\ k \in Nat
    BY <1>10
  <2>2. CASE k \in 1..n
    <3>1. j \in 1..n
      BY <1>10, <2>1, <2>2
    <3> QED BY <1>1, <1>9, <1>10, <2>2, <3>1 DEF VersionsIncrease, Numbered
  <2>3. CASE k \notin 1..n /\ j \in 1..n
    <3>1. k - n \in DOMAIN es /\ gs[k].version = es[k - n]
      BY <1>9, <1>10, <2>3
    <3>2. Fresh(frames, base, min, es[k - n]) /\ Passes(min, es[k - n])
      BY <1>18, <3>1
    <3> QED BY <1>9, <1>10, <2>3, <3>1, <3>2 DEF Fresh
  <2>4. CASE k \notin 1..n /\ j \notin 1..n
    <3>1. k - n \in DOMAIN es /\ gs[k].version = es[k - n]
      BY <1>9, <1>10, <2>4
    <3>2. j - n \in DOMAIN es /\ gs[j].version = es[j - n]
      BY <1>9, <1>10, <2>4
    <3>3. j - n < k - n
      BY <2>1
    <3> QED BY <1>12, <3>1, <3>2, <3>3 DEF Sorted
  <2> QED BY <2>2, <2>3, <2>4
<1>23. \A j : Known(j)' = KnownIn(gs, base, j)
  BY <1>4, <1>5 DEF Known, KnownIn, Numbered
<1>24. ~failed => /\ min # None => min <= known
                  /\ Covers(requests, Behind, frames, known, min)
  BY <1>1, <1>6, <1>7 DEF Covered
\* Each new frame continues the one before it, or follows the overflow.
<1>25. ASSUME ~failed, NEW k \in 1..l
       PROVE  \/ es[k] = KnownIn(gs, base, n + (k - 1)) + 1
              \/ k = 1 /\ n # 0 /\ frames[n].kind = "reset"
  <2>1. PICK e \in Nat : e = es[k]
    BY <1>9, <1>12
  <2>2. e \in E /\ e \in Carried(requests[1]) /\ Passes(min, e) /\ known < e
    BY <1>2, <1>9, <1>12, <1>18, <2>1
  <2>3. PICK before : before = KnownIn(gs, base, n + (k - 1))
    OBVIOUS
  <2>4. /\ k - 1 \in 0..l /\ (k - 1 = 0 => before = known)
        /\ (k - 1 # 0 => k - 1 \in 1..l /\ before = es[k - 1])
    <3>1. CASE k = 1
      <4>1. n + (k - 1) = n /\ n \in 0..n /\ k - 1 = 0 /\ k - 1 \in 0..l
        BY <3>1
      <4> QED BY <1>7, <1>9, <1>11, <2>3, <4>1
    <3>2. CASE k # 1
      <4>1. k - 1 \in 1..l /\ k - 1 # 0 /\ k - 1 \in 0..l
        BY <3>2
      <4> QED BY <1>11, <2>3, <4>1
    <3> QED BY <3>1, <3>2
  <2>5. Between(es, k - 1, e)
    <3>1. \A j \in DOMAIN es : j \in Nat /\ k \in DOMAIN es
      BY <1>9
    <3>2. \A j \in DOMAIN es : j <= k - 1 => j < k
      BY <3>1
    <3>3. \A j \in DOMAIN es : k - 1 < j => j = k \/ k < j
      BY <3>1
    <3>4. \A j \in DOMAIN es : k < j => e <= es[j]
      BY <1>12, <2>1, <3>1 DEF Sorted
    <3>5. \A j \in DOMAIN es : j < k => es[j] < e
      BY <1>12, <2>1, <3>1 DEF Sorted
    <3>6. e <= es[k]
      BY <2>1
    <3> QED BY <3>2, <3>3, <3>4, <3>5, <3>6 DEF Between
  <2>6. Follows(requests, Behind, frames, known, 0, e)
    <3>1. Follows(requests, Behind, frames, known, 1 - 1, e)
      BY <1>24, <1>25, <2>2 DEF Covers
    <3>2. 1 - 1 = 0
      OBVIOUS
    <3> QED BY <3>1, <3>2
  <2>7. e - 1 \notin Later
    <3>1. ~(e < e - 1)
      OBVIOUS
    <3> QED BY <1>15, <2>2, <3>1
  <2>8. CASE e = known + 1
    <3>1. k - 1 = 0
      <4>1. SUFFICES ASSUME k - 1 # 0 PROVE FALSE
        OBVIOUS
      <4>2. k - 1 \in DOMAIN es /\ k - 1 <= k - 1
        BY <1>9, <2>4, <4>1
      <4>3. known < es[k - 1] /\ es[k - 1] < e /\ es[k - 1] \in Nat
        BY <1>12, <1>18, <2>5, <4>2 DEF Between
      <4> QED BY <2>8, <4>3
    <3> QED BY <2>1, <2>3, <2>4, <2>8, <3>1
  <2>9. CASE e - 1 \in E
    <3>1. e = before + 1
      <4>1. min # None => min \in Nat /\ min <= known
        BY <1>6, <1>24, <1>25
      <4>2. k - 1 \in 0..Len(es) /\ NextIs(es, k - 1, known, before)
        BY <1>9, <2>4 DEF NextIs
      <4> QED BY <1>12, <2>2, <2>5, <2>9, <4>1, <4>2, PredecessorKnown
    <3> QED BY <2>1, <2>3, <3>1
  <2>10. ASSUME Resets(requests, frames, 0), \A d \in E : e <= d
         PROVE  k = 1 /\ n # 0 /\ frames[n].kind = "reset"
    <3>1. k = 1
      <4>1. SUFFICES ASSUME k # 1 PROVE FALSE
        OBVIOUS
      <4>2. k - 1 \in DOMAIN es /\ k - 1 <= k - 1
        BY <1>9, <4>1
      <4>3. es[k - 1] < e /\ e <= es[k - 1] /\ es[k - 1] \in Nat
        BY <1>12, <2>5, <2>10, <4>2 DEF Between
      <4> QED BY <4>3
    <3>2. frames # <<>> /\ Overflows(frames[n])
      BY <1>9, <2>10 DEF Resets
    <3>3. n # 0
      BY <1>1, <1>9, <3>2
    <3>4. frames[n].kind = "reset"
      BY <3>2 DEF Overflows
    <3> QED BY <3>1, <3>3, <3>4
  <2>11. ASSUME NEW j \in 1..Len(requests), e - 1 \in Carried(requests[j])
         PROVE  e - 1 \in E
    <3>1. CASE j = 1
      BY <1>2, <2>11, <3>1
    <3>2. CASE j # 1
      <4>1. j \in 2..Len(requests)
        BY UnderWay, <3>2
      <4> QED BY <1>14, <2>7, <2>11, <4>1
    <3> QED BY <3>1, <3>2
  <2>12. ASSUME NEW m \in 0..0, Resets(requests, frames, m),
                \A j \in 1..Len(requests) : m < j => \A d \in Carried(requests[j]) : e <= d
         PROVE  Resets(requests, frames, 0) /\ \A d \in E : e <= d
    <3>1. m = 0 /\ m < 1
      OBVIOUS
    <3> QED BY <1>2, <2>12, <3>1
  <2> QED BY <1>14, <2>6, <2>7, <2>8, <2>9, <2>10, <2>11, <2>12 DEF Follows
<1>26. Announced'
  <2> SUFFICES ASSUME NEW j \in DOMAIN gs, gs[j].kind = "state", ~failed
               PROVE  \/ gs[j].version = Known(j - 1)' + 1
                      \/ j > 1 /\ gs[j - 1].kind = "reset"
    BY <1>4 DEF Announced
  <2>1. CASE j \in 1..n
    <3>1. gs[j] = frames[j] /\ j \in DOMAIN frames /\ j - 1 \in 0..n
      BY <1>9, <1>10, <2>1
    <3>2. Known(j - 1)' = Known(j - 1)
      BY <1>5, <1>11, <1>23, <3>1, KnownIs
    <3>3. j > 1 => gs[j - 1] = frames[j - 1]
      <4>1. j > 1 => j - 1 \in 1..n
        BY <2>1
      <4> QED BY <1>10, <4>1
    <3> QED BY <1>1, <3>1, <3>2, <3>3 DEF Announced
  <2>2. CASE j \notin 1..n
    <3>1. PICK k \in 1..l : k = j - n /\ j = n + k /\ gs[j].version = es[k] /\ j - 1 = n + (k - 1)
      <4>1. j \in Nat /\ j - n \in 1..l /\ j = n + (j - n) /\ gs[j].version = es[j - n]
        BY <1>10, <2>2
      <4>2. j - 1 = n + ((j - n) - 1)
        BY <4>1
      <4> QED BY <4>1, <4>2
    <3>2. Known(j - 1)' = KnownIn(gs, base, n + (k - 1))
      BY <1>23, <3>1
    <3>3. CASE k = 1 /\ n # 0 /\ frames[n].kind = "reset"
      <4>1. j - 1 = n /\ j > 1 /\ n \in 1..n
        BY <3>1, <3>3
      <4>2. gs[j - 1] = frames[n]
        BY <1>10, <4>1
      <4> QED BY <3>3, <4>1, <4>2
    <3> QED BY <1>25, <3>1, <3>2, <3>3
  <2> QED BY <2>1, <2>2
<1>27. PICK next : /\ next = KnownIn(gs, base, Len(gs)) /\ next = Known(Len(gs))'
                   /\ l = 0 => next = known
                   /\ l # 0 => next = es[l] /\ l \in DOMAIN es
  <2>1. l = 0 => Len(gs) = n /\ n \in 0..n
    BY <1>10
  <2>2. l # 0 => l \in 1..l
    OBVIOUS
  <2> QED BY <1>7, <1>9, <1>10, <1>11, <1>23, <2>1, <2>2
<1>28. ASSUME ~failed, NEW e \in Later, Passes(min, e)
       PROVE  StillFollows(requests, qs, frames, gs, known, next, e)
  <2>1. known < e /\ e \in Nat /\ \A k \in DOMAIN es : es[k] < e
    BY <1>12, <1>15, <1>17, <1>28
  <2>2. e = known + 1 => e = next + 1
    <3>1. CASE l = 0
      BY <1>27, <3>1
    <3>2. CASE l # 0
      <4>1. known < es[l] /\ es[l] < e /\ es[l] \in Nat
        BY <1>12, <1>18, <1>27, <2>1, <3>2
      <4> QED BY <4>1
    <3> QED BY <3>1, <3>2
  <2>3. ASSUME e - 1 \in E PROVE e = next + 1
    <3>1. min # None => min \in Nat /\ min <= known
      BY <1>6, <1>24, <1>28
    <3>2. l \in 0..Len(es) /\ NextIs(es, l, known, next) /\ Between(es, l, e)
      <4>1. \A k \in DOMAIN es : ~(l < k)
        BY <1>9
      <4> QED BY <1>9, <1>27, <2>1, <4>1 DEF NextIs, Between
    <3> QED BY <1>12, <2>1, <2>3, <3>1, <3>2, PredecessorKnown
  <2>4. ASSUME Resets(requests, frames, 0), \A d \in E : e <= d PROVE Resets(qs, gs, 0)
    <3>1. l = 0
      <4>1. SUFFICES ASSUME l # 0 PROVE FALSE
        OBVIOUS
      <4>2. es[l] < e /\ e <= es[l] /\ es[l] \in Nat
        BY <1>12, <1>27, <2>1, <2>4, <4>1
      <4> QED BY <2>1, <4>2
    <3>2. frames # <<>> /\ Overflows(frames[n])
      BY <1>9, <2>4 DEF Resets
    <3>3. n # 0
      BY <1>1, <1>9, <3>2
    <3>4. Len(gs) = n /\ n \in 1..n
      BY <1>10, <3>1, <3>3
    <3>5. Overflows(gs[Len(gs)])
      BY <1>10, <3>2, <3>4
    <3>6. gs # <<>>
      BY <3>3, <3>4
    <3> QED BY <3>5, <3>6 DEF Resets
  <2> QED BY <1>2, <2>2, <2>3, <2>4 DEF StillFollows
<1>29. Covered'
  <2> SUFFICES ASSUME ~failed
               PROVE  /\ min # None => next >= min
                      /\ Covers(requests', Behind', gs, next, min)
    BY <1>4, <1>6, <1>27 DEF Covered
  <2>1. min # None => next >= min
    <3>1. CASE l = 0
      BY <1>6, <1>24, <1>27, <3>1
    <3>2. CASE l # 0
      <4>1. next = es[l] /\ Passes(min, es[l]) /\ es[l] \in Nat
        BY <1>12, <1>18, <1>27, <3>2
      <4> QED BY <1>6, <4>1 DEF Passes
    <3> QED BY <3>1, <3>2
  <2>2. ~Resets(requests, frames, 1)
    BY DEF Resets
  <2>3. Covers(qs, Behind, gs, next, min)
    <3>1. \A e \in Later : Passes(min, e) =>
            StillFollows(requests, qs, frames, gs, known, next, e)
      BY <1>28
    <3>2. Covers(requests, Behind, frames, known, min)
      BY <1>24
    <3> QED BY <1>14, <2>2, <3>1, <3>2, ShorterCovers
  <2> QED BY <1>20, <2>1, <2>3, AlikeCovers DEF Onward
<1> QED BY <1>20, <1>21, <1>22, <1>26, <1>29 DEF OrderInv, Streamed

LEMMA CompleteOrder ==
  ASSUME InOrder, OrderInv, TypeOK', NEW i \in DOMAIN requests, Complete(i)
  PROVE  OrderInv'
<1>1. pipe \in Pipes /\ 1 \in 1..Len(requests)
  <2>1. DOMAIN requests = 1..Len(requests) /\ Len(requests) \in Nat
    BY UnderWay, LenProperties
  <2> QED BY <2>1, Types DEF OrderInv
<1>2. CASE ReadDropped(i)
  <2>1. /\ i = 1 /\ requests' = RemoveAt(requests, i)
        /\ UNCHANGED <<subscription, published, frames>>
        /\ pipe'.timer = pipe.timer /\ pipe'.minVersion = pipe.minVersion
        /\ pipe'.closed = pipe.closed
        /\ pipe.closed \/ failed'
        /\ failed => failed'
    BY <1>1, <1>2 DEF ReadDropped, Answered, Pipes
  <2> QED BY <2>1, NothingWritten
<1>3. CASE ReadUnwritten(i) \/ SnapshotFailed(i)
  <2>1. /\ i = 1 /\ requests' = RemoveAt(requests, i)
        /\ UNCHANGED <<pipe, subscription, published, frames>> /\ failed'
    BY <1>3 DEF ReadUnwritten, SnapshotFailed, Answered
  <2> QED BY <2>1, NothingWritten
<1>4. ASSUME NEW writable \in BOOLEAN, ReadWritten(i, writable) PROVE OrderInv'
  <2>1. PICK batch \in Batches, qs \in Seq(Requests) :
           /\ i = 1 /\ batch = requests[1].answer
           /\ Delivered(requests[1]) /\ Carried(requests[1]) = Held(batch.events)
           /\ Shorter(requests, qs) /\ Onward(qs, requests')
           /\ UNCHANGED <<subscription, published, failed>>
           /\ pipe'.timer = pipe.timer /\ pipe'.closed = pipe.closed
           /\ pipe'.minVersion = pipe.minVersion
           /\ ~pipe.closed
           /\ frames' = frames \o Encoded(batch)
    BY <1>4, ReadParts
  <2>2. CASE batch.overflowed
    BY <1>1, <2>1, <2>2, OverflowOrder
  <2>3. CASE ~batch.overflowed
    BY <1>1, <2>1, <2>3, EventsOrder
  <2> QED BY <2>2, <2>3
<1>5. CASE SnapshotWritten(i)
  BY <1>5, SnapshotOrder
<1> QED BY <1>2, <1>3, <1>4, <1>5 DEF Complete

LEMMA OrderInvInit == Init => OrderInv
<1> SUFFICES ASSUME Init PROVE OrderInv
  OBVIOUS
<1>1. TypeOK
  BY TypeOKInit
<1>2. PICK empty : empty = <<>> /\ Len(empty) = 0 /\ DOMAIN empty = {}
  OBVIOUS
<1>3. /\ requests = empty /\ frames = empty /\ published = 0 /\ failed = FALSE
      /\ subscription.queue = empty /\ subscription.base = 0 /\ subscription.status = "none"
      /\ pipe.minVersion = None /\ pipe.timer = "none"
  BY <1>2 DEF Init
<1>4. 1..Len(requests) = {} /\ DOMAIN frames = {} /\ DOMAIN subscription.queue = {}
  BY <1>2, <1>3
<1>5. Behind = {}
  BY <1>3, <1>4 DEF Behind, Coming, Held
<1>6. Unopened /\ SnapshotFirst /\ InTurns
  BY <1>2, <1>3, <1>4 DEF Unopened, SnapshotFirst, InTurns
<1>7. Bounded
  BY <1>3, <1>4 DEF Bounded, Sorted
<1>8. Streamed
  BY <1>4, <1>5 DEF Streamed, InSequence, NewestLast
<1>9. VersionsIncrease /\ Announced
  BY <1>4 DEF VersionsIncrease, Announced
<1>10. Covered
  BY <1>3, <1>4, <1>5 DEF Covered, Covers
<1> QED BY <1>1, <1>6, <1>7, <1>8, <1>9, <1>10 DEF OrderInv

LEMMA OrderInvStep ==
  ASSUME InOrder
  PROVE  OrderInv /\ QuietInv /\ [Next]_vars => OrderInv'
<1> SUFFICES ASSUME OrderInv, QuietInv, [Next]_vars PROVE OrderInv'
  OBVIOUS
<1>1. TypeOK'
  BY TypeOKStep DEF OrderInv
<1>2. ASSUME NEW reconnects \in BOOLEAN, \E snapshot \in Snapshots : Open(reconnects, snapshot)
      PROVE  OrderInv'
  <2>1. PICK snapshot \in BOOLEAN : Open(reconnects, snapshot)
    BY <1>2, SsePipeAssumption
  <2> QED BY <1>1, <2>1, OpenOrder
<1>3. ASSUME NEW reconnects \in BOOLEAN, OpenRefused(reconnects) PROVE OrderInv'
  BY <1>1, <1>3, OpenRefusedOrder
<1>4. CASE Signalled \/ Pump \/ Drain \/ Heartbeat \/ EndResponse
  BY <1>1, <1>4, GuestOrder
<1>5. CASE \/ Close \/ Disconnect \/ CloseCompleted
           \/ \E granted \in BOOLEAN : AnswerClose(granted)
  BY <1>1, <1>5, ClosingOrder
<1>6. CASE Publish
  BY <1>1, <1>6, PublishOrder
<1>7. ASSUME NEW i \in DOMAIN requests, NEW taken \in 0..MaxEvents, AnswerRead(i, taken)
      PROVE  OrderInv'
  BY <1>1, <1>7, AnswerReadOrder
<1>8. ASSUME NEW i \in DOMAIN requests, AnswerSnapshot(i) \/ AnswerError(i) PROVE OrderInv'
  BY <1>1, <1>8, EmptyAnswerOrder
<1>9. ASSUME NEW i \in DOMAIN requests, Complete(i) PROVE OrderInv'
  BY <1>1, <1>9, CompleteOrder
<1>10. CASE UNCHANGED vars
  BY <1>1, <1>10, FlagsChanged DEF vars
<1> QED BY <1>2, <1>3, <1>4, <1>5, <1>6, <1>7, <1>8, <1>9, <1>10 DEF Next

LEMMA OrderIsKept == ASSUME InOrder PROVE Spec => []OrderInv
<1>1. OrderInv /\ QuietInv /\ [Next]_vars => OrderInv'
  BY OrderInvStep
<1> QED BY <1>1, OrderInvInit, QuietInvInit, QuietInvStep, PTL DEF Spec

(* When the host answers the requests of a pipe in the order it received them, *)
(* a client never goes back in time and sees no event twice, although reads    *)
(* may overlap (a drain starts one while another is under way), the            *)
(* subscription may overflow and the snapshot may be written in between.       *)
THEOREM VersionsGoForward == ASSUME InOrder PROVE Spec => []VersionsIncrease
<1>1. OrderInv => VersionsIncrease
  BY DEF OrderInv
<1> QED BY <1>1, OrderIsKept, PTL

(* Under the same order, an event is missing before the next one only after a *)
(* reset or after an exception.                                               *)
THEOREM NothingIsLostSilently == ASSUME InOrder PROVE Spec => []GapsAreAnnounced
<1>1. OrderInv => GapsAreAnnounced
  BY DEF OrderInv, Announced, GapsAreAnnounced
<1> QED BY <1>1, OrderIsKept, PTL
====
