------------------------------ MODULE HttpWire ------------------------------
(***************************************************************************)
(* What the host relies on when it serves one streamed response: actions   *)
(* of the module and events of the host share one counter, a start comes   *)
(* first and once, writes follow, at most one end comes last, drain is     *)
(* delivered only to an open response and close only once.  The Rust       *)
(* struct HttpResponseStreamV2 and the response object of node:http both   *)
(* implement it; one call of either may send up to two actions.            *)
(***************************************************************************)
EXTENDS Naturals, Sequences

VARIABLES
  phase,    \* "buffered", "streaming", "ended" or "closed"
  next,     \* the number the next action or event carries
  actions   \* the actions sent, each with its number

vars == <<phase, next, actions>>

Init ==
  /\ phase = "buffered"
  /\ next = 1
  /\ actions = <<>>

Action(op, n) == [op |-> op, sequence |-> n]

\* One action, with the next number.
Send(op) ==
  /\ actions' = Append(actions, Action(op, next))
  /\ next' = next + 1

\* Two actions of one call.
SendTwo(first, second) ==
  /\ actions' = Append(Append(actions, Action(first, next)), Action(second, next + 1))
  /\ next' = next + 2

Start ==
  /\ phase = "buffered"
  /\ \/ Send("start") /\ phase' = "streaming"
     \/ SendTwo("start", "write") /\ phase' = "streaming"
     \/ SendTwo("start", "end") /\ phase' = "ended"

Write == phase = "streaming" /\ Send("write") /\ phase' = phase

End == phase = "streaming" /\ Send("end") /\ phase' = "ended"

\* A response that was never started ends without an action.
EndBuffered ==
  phase = "buffered" /\ phase' = "ended" /\ UNCHANGED <<next, actions>>

Drain ==
  phase = "streaming" /\ next' = next + 1 /\ UNCHANGED <<phase, actions>>

Close ==
  /\ phase # "closed"
  /\ phase' = "closed"
  /\ next' = next + 1
  /\ UNCHANGED actions

Next == Start \/ Write \/ End \/ EndBuffered \/ Drain \/ Close

Spec == Init /\ [][Next]_vars
=============================================================================
