---------------------------- MODULE EventEmitter ----------------------------
(***************************************************************************)
(* What an event emitter promises its users, in the terms Node documents   *)
(* it: every event name is a property holding its own list of              *)
(* registrations, names are enumerated in JavaScript property order, an    *)
(* emission walks the list it found when it started, and a `once`          *)
(* registration is spent before its listener runs.  The listener table of  *)
(* the events module is shown to implement this in NodeEvents.             *)
(***************************************************************************)
EXTENDS Naturals, Sequences, SequencesExt, Selections

CONSTANTS
  Events,         \* the event names that may be used
  Listeners,      \* the callbacks that may be registered
  Ids,            \* the identities registrations may have
  Capacity,       \* the most registrations there may be at a time
  IntegerValue    \* a function: the value of each name that is an array index

VARIABLES
  lists,    \* lists[e]: the registrations of event e, oldest first
  names,    \* the names that have registrations, in property order
  spent,    \* the once registrations whose listener has been called
  calls     \* the emissions in progress, innermost first

vars == <<lists, names, spent, calls>>

Registrations == [id : Ids, listener : Listeners, once : BOOLEAN]

Init ==
  /\ lists = [e \in Events |-> <<>>]
  /\ names = <<>>
  /\ spent = {}
  /\ calls = <<>>

\* User code runs at the top level and inside the innermost listener.
UserCode == calls # <<>> => Head(calls).running

\* Property order: array indices ascending, then other names by insertion.
Precedes(e, f) ==
  /\ e \in DOMAIN IntegerValue
  /\ f \in DOMAIN IntegerValue => IntegerValue[e] < IntegerValue[f]

WithName(e) ==
  IF Contains(names, e) THEN names
  ELSE Selected(names, {f \in Events : ~Precedes(e, f)})
         \o <<e>> \o Selected(names, {f \in Events : Precedes(e, f)})

-----------------------------------------------------------------------------

Registered ==
  UNION {{lists[e][i].id : i \in DOMAIN lists[e]} : e \in Events}

Add(e, r) ==
  /\ UserCode
  /\ Cardinality(Registered) < Capacity
  /\ r.id \notin spent
  /\ r.id \notin Registered
  /\ lists' = [lists EXCEPT ![e] = Append(@, r)]
  /\ names' = WithName(e)
  /\ UNCHANGED <<spent, calls>>

\* Take registrations away; a name without registrations disappears.
Leave(kept) ==
  /\ lists' = kept
  /\ names' = Selected(names, {e \in Events : kept[e] # <<>>})

RemoveLatest(e, l) ==
  LET matching == {i \in DOMAIN lists[e] : lists[e][i].listener = l}
  IN  /\ UserCode
      /\ matching # {}
      /\ Leave([lists EXCEPT ![e] = RemoveAt(@, Max(matching))])
      /\ UNCHANGED <<spent, calls>>

RemoveEvent(e) ==
  /\ UserCode
  /\ Leave([lists EXCEPT ![e] = <<>>])
  /\ UNCHANGED <<spent, calls>>

RemoveEverything ==
  /\ UserCode
  /\ Leave([e \in Events |-> <<>>])
  /\ UNCHANGED <<spent, calls>>

Emit(e) ==
  /\ UserCode
  /\ calls' = <<[event |-> e, pending |-> lists[e], running |-> FALSE]>> \o calls
  /\ UNCHANGED <<lists, names, spent>>

Live(r) == r.id \notin spent

\* Call the next listener; a once registration is spent and removed first.
Invoke ==
  /\ calls # <<>> /\ ~Head(calls).running
  /\ LET call == Head(calls)
         live == {i \in DOMAIN call.pending : Live(call.pending[i])}
         r    == call.pending[Min(live)]
     IN  /\ live # {}
         /\ calls' = <<[call EXCEPT
                          !.pending = SubSeq(@, Min(live) + 1, Len(@)),
                          !.running = TRUE]>> \o Tail(calls)
         /\ IF r.once
            THEN /\ spent' = spent \cup {r.id}
                 /\ Leave([lists EXCEPT ![call.event] = Selected(@, Registrations \ {r})])
            ELSE UNCHANGED <<lists, names, spent>>

Return ==
  /\ calls # <<>> /\ Head(calls).running
  /\ calls' = <<[Head(calls) EXCEPT !.running = FALSE]>> \o Tail(calls)
  /\ UNCHANGED <<lists, names, spent>>

\* A listener's exception stops its emission and reaches the code that emitted.
Throw ==
  /\ calls # <<>> /\ Head(calls).running
  /\ calls' = Tail(calls)
  /\ UNCHANGED <<lists, names, spent>>

\* An emission ends when no live registration of its snapshot is left.
Finish ==
  /\ calls # <<>> /\ ~Head(calls).running
  /\ \A i \in DOMAIN Head(calls).pending : ~Live(Head(calls).pending[i])
  /\ calls' = Tail(calls)
  /\ UNCHANGED <<lists, names, spent>>

Next ==
  \/ Invoke \/ Return \/ Throw \/ Finish
  \/ \E e \in Events : RemoveEvent(e) \/ Emit(e)
  \/ RemoveEverything
  \/ \E e \in Events, l \in Listeners : RemoveLatest(e, l)
  \/ \E e \in Events, r \in Registrations : Add(e, r)

Spec == Init /\ [][Next]_vars
=============================================================================
