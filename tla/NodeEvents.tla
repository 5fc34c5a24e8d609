----------------------------- MODULE NodeEvents -----------------------------
(***************************************************************************)
(* The listener table of the events module (modules/node-events), which    *)
(* also serves the HTTP server, request and response objects.  A receiver  *)
(* keeps one array of references to entry objects.  Every change builds a  *)
(* new array, so an emission keeps iterating over the array it started     *)
(* with while its listeners change the table, emit recursively or throw.   *)
(*                                                                         *)
(* The module is synchronous: between two steps of one dispatch only the   *)
(* listener that is running can act.  Calls that fail validation (unknown  *)
(* event, wrong arity, listener that is not callable, table at its limit)  *)
(* throw before they change anything and are steps that change nothing.    *)
(***************************************************************************)
EXTENDS Naturals, Sequences, SequencesExt, Selections

CONSTANTS
  Events,             \* the event names the receiver allows
  Listeners,          \* the callbacks user code may register
  IntegerValue,       \* the value of each name that is an array index
  MaxListeners,       \* MAX_LISTENERS: the most entries a table may hold
  MaxEntries,         \* bound: entries ever created
  MaxDepth            \* bound: nested emissions

ASSUME NodeEventsAssumption ==
  /\ DOMAIN IntegerValue \subseteq Events
  /\ IntegerValue \in Injection(DOMAIN IntegerValue, Nat)
  /\ MaxListeners \in Nat \ {0}
  /\ MaxEntries \in Nat
  /\ MaxDepth \in Nat

VARIABLES
  entries,  \* the entry objects created so far; the index is the identity
  table,    \* TABLE: the identities now registered, in array order
  stack     \* the dispatch loops in progress, innermost first

vars == <<entries, table, stack>>

EntryIds == 1..MaxEntries

Entries == [event : Events, listener : Listeners, once : BOOLEAN,
            fired : BOOLEAN, order : Nat]

\* A dispatch loop: the array it iterates over, the next index it reads, and
\* whether a listener it called has not returned yet.
Frames == [event : Events, snapshot : Seq(EntryIds), next : Nat,
           running : BOOLEAN]

TypeOK ==
  /\ entries \in Seq(Entries) /\ Len(entries) <= MaxEntries
  /\ table \in Seq(DOMAIN entries) /\ Len(table) <= MaxListeners
  /\ stack \in Seq(Frames) /\ Len(stack) <= MaxDepth

Init ==
  /\ entries = <<>>
  /\ table = <<>>
  /\ stack = <<>>

UserCode == stack # <<>> => Head(stack).running

-----------------------------------------------------------------------------
\* Reads of the table.

OfEvent(e) == {id \in DOMAIN entries : entries[id].event = e}

Registered(e) == Selected(table, OfEvent(e))

ListenerCount(e) == Len(Registered(e))

\* eventNames() sorts by (0, integer) and (1, order): one name for each key.
SortKey(id) ==
  LET entry == entries[id]
  IN  IF entry.event \in DOMAIN IntegerValue
      THEN <<0, IntegerValue[entry.event]>> ELSE <<1, entry.order>>

KeyBelow(j, k) == j[1] < k[1] \/ (j[1] = k[1] /\ j[2] < k[2])

SortedKeys ==
  LET keys == {SortKey(id) : id \in ToSet(table)}
  IN  CHOOSE s \in [1..Cardinality(keys) -> keys] :
        \A i, j \in DOMAIN s : i < j => KeyBelow(s[i], s[j])

EventNames ==
  LET keys    == SortedKeys
      last(k) == Max({i \in DOMAIN table : SortKey(table[i]) = k})
  IN  [i \in DOMAIN keys |-> entries[table[last(keys[i])]].event]

\* A new entry takes the order of the last entry of its event, or a new one
\* above all orders in the table.
OrderFor(e) ==
  LET same == {i \in DOMAIN table : entries[table[i]].event = e}
  IN  IF same # {} THEN entries[table[Max(same)]].order
      ELSE Max({0} \cup {entries[id].order + 1 : id \in ToSet(table)})

-----------------------------------------------------------------------------
\* The methods of a receiver.

HasRoom == Len(table) < MaxListeners

On(e, l, once) ==
  /\ UserCode
  /\ HasRoom
  /\ Len(entries) < MaxEntries
  /\ entries' = Append(entries, [event |-> e, listener |-> l, once |-> once,
                                 fired |-> FALSE, order |-> OrderFor(e)])
  /\ table' = Append(table, Len(entries) + 1)
  /\ UNCHANGED stack

Matching(e, l) ==
  {i \in DOMAIN table : /\ entries[table[i]].event = e
                        /\ entries[table[i]].listener = l}

EarliestMatch(e, l) == Min(Matching(e, l))    \* mutant: search from the front

LatestMatch(e, l) == Max(Matching(e, l))

RemoveListener(e, l) ==
  /\ UserCode
  /\ Matching(e, l) # {}
  /\ table' = RemoveAt(table, LatestMatch(e, l))
  /\ UNCHANGED <<entries, stack>>

RemoveAllListeners(e) ==
  /\ UserCode
  /\ table' = Selected(table, DOMAIN entries \ OfEvent(e))
  /\ UNCHANGED <<entries, stack>>

RemoveEveryListener ==
  /\ UserCode
  /\ table' = <<>>
  /\ UNCHANGED <<entries, stack>>

Emit(e) ==
  /\ UserCode
  /\ Len(stack) < MaxDepth
  /\ stack' = <<[event |-> e, snapshot |-> table, next |-> 1,
                 running |-> FALSE]>> \o stack
  /\ UNCHANGED <<entries, table>>

-----------------------------------------------------------------------------
\* The dispatch loop of emit_capturing, from one listener call to the next.

Dispatching == stack # <<>> /\ ~Head(stack).running

\* The loop skips entries of other events and once entries already fired.
Callable(id, e) ==
  entries[id].event = e /\ ~(entries[id].once /\ entries[id].fired)

Ahead(frame) ==
  {i \in frame.next..Len(frame.snapshot) :
     Callable(frame.snapshot[i], frame.event)}

TableWithout(id) == Selected(table, DOMAIN entries \ {id})

\* The next listener is called; a once entry leaves the current table, by
\* identity, and is marked fired before its listener runs.
CallListener ==
  /\ Dispatching
  /\ LET frame == Head(stack)
         at    == Min(Ahead(frame))
         id    == frame.snapshot[at]
     IN  /\ Ahead(frame) # {}
         /\ stack' = <<[frame EXCEPT !.next = at + 1, !.running = TRUE]>>
                       \o Tail(stack)
         /\ IF entries[id].once
            THEN /\ entries' = [entries EXCEPT ![id].fired = TRUE]
                 /\ table' = TableWithout(id)
            ELSE UNCHANGED <<entries, table>>

ListenerReturns ==
  /\ stack # <<>> /\ Head(stack).running
  /\ stack' = <<[Head(stack) EXCEPT !.running = FALSE]>> \o Tail(stack)
  /\ UNCHANGED <<entries, table>>

\* ThrowValue leaves the loop; the code that called emit() may catch it.
ListenerThrows ==
  /\ stack # <<>> /\ Head(stack).running
  /\ stack' = Tail(stack)
  /\ UNCHANGED <<entries, table>>

\* The loop has read its whole snapshot.  emit() returns whether an entry of
\* the event was found, or throws if it was an unhandled "error".
EmitReturns ==
  /\ Dispatching
  /\ Ahead(Head(stack)) = {}
  /\ stack' = Tail(stack)
  /\ UNCHANGED <<entries, table>>

Next ==
  \/ \E e \in Events, l \in Listeners, once \in BOOLEAN : On(e, l, once)
  \/ \E e \in Events, l \in Listeners : RemoveListener(e, l)
  \/ \E e \in Events : RemoveAllListeners(e)
  \/ RemoveEveryListener
  \/ \E e \in Events : Emit(e)
  \/ CallListener
  \/ ListenerReturns
  \/ ListenerThrows
  \/ EmitReturns

Spec == Init /\ [][Next]_vars

-----------------------------------------------------------------------------
\* Properties.

\* The flat table implements the per-name lists that Node's emitter keeps,
\* with eventNames() as its property order and snapshots as pending lists.
RegistrationOf(id) ==
  [id |-> id, listener |-> entries[id].listener, once |-> entries[id].once]

Registrations(ids) == [i \in DOMAIN ids |-> RegistrationOf(ids[i])]

PendingOf(frame) ==
  Registrations(Selected(SubSeq(frame.snapshot, frame.next, Len(frame.snapshot)),
                         OfEvent(frame.event)))

CallOf(frame) ==
  [event |-> frame.event, pending |-> PendingOf(frame), running |-> frame.running]

EventLists == [e \in Events |-> Registrations(Registered(e))]

Fired == {id \in DOMAIN entries : entries[id].fired}

CallsOf(frames) == [i \in DOMAIN frames |-> CallOf(frames[i])]

Emissions == CallsOf(stack)

Emitter == INSTANCE EventEmitter WITH
  Ids <- EntryIds,
  Capacity <- MaxListeners,
  lists <- EventLists,
  names <- EventNames,
  spent <- Fired,
  calls <- Emissions

\* Every step of the listener table is a step of Node's emitter or none: a
\* dispatch calls the listeners of the moment of its emit, in order, a once
\* listener runs at most once, however dispatches nest, order numbers keep the
\* names in property order, and no name escapes the limit on listeners.  The
\* state keeps its type.
ImplementsEmitter == Emitter!Spec /\ []TypeOK
=============================================================================
