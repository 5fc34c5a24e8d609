---------------------------- MODULE SqliteProofs ----------------------------
(***************************************************************************)
(* What better-sqlite3 and sqlite3 keep for every depth of the stack and   *)
(* every number of calls, writes and rows: live handles, a flag that shows *)
(* the transactions left open, and outcomes that tell what became of the   *)
(* writes.                                                                 *)
(***************************************************************************)
EXTENDS Sqlite, SequenceTheorems, TLAPS

\* A statement object exists only after its database object.
Parents ==
  /\ "stmt" \in objects => "db" \in objects
  /\ "stmt3" \in objects => "db3" \in objects

HandleInv == HandlesAreLive /\ Parents

\* A transaction is one of the open database.
FlagInv ==
  /\ tx # "none" => "db" \in handles
  /\ LeftOpenShows

\* What is on the stack belongs to calls that run; each of them is there, the
\* latest on top, and what is below a call belongs to earlier ones.
StackOf(s, running) ==
  /\ \A i \in 1..Len(s) : s[i].call \in running \union {0}
  /\ \A i, j \in 1..Len(s) :
       i < j => /\ s[i].call <= s[j].call
                /\ s[j].kind = "transaction" => s[i].call < s[j].call
  /\ \A t \in running :
       \E i \in 1..Len(s) : s[i].kind = "transaction" /\ s[i].call = t

StackInv == StackOf(stack, Running)

\* The writes of a call that runs and still has its transaction wait in it;
\* only the latest call can be one.
WritesWait ==
  \A t \in Running \ broken :
    /\ t = Len(outcomes)
    /\ tx # "none"
    /\ \A i \in DOMAIN wrote : wrote[i] = t => i \in pending

\* A write is in one place, and belongs to a call that was made.
WritesPlaced ==
  /\ \A i \in DOMAIN wrote : wrote[i] \in 0..Len(outcomes)
  /\ pending \subseteq DOMAIN wrote
  /\ durable \subseteq DOMAIN wrote
  /\ pending \intersect durable = {}

WriteInv == StackInv /\ WritesWait /\ WritesPlaced /\ OutcomeTellsWrites

Outcomes == {"running", "returned", "threw", "failed"}

\* The invariant from which the three properties follow
SqliteInv == HandleInv /\ FlagInv /\ WriteInv

-----------------------------------------------------------------------------
\* The stack

(* What a pushed frame leaves of the stack *)
LEMMA PushAdds ==
  ASSUME stack \in Seq(Frames), NEW f \in Frames, Push(f)
  PROVE  /\ stack' \in Seq(Frames)
         /\ Len(stack') = Len(stack) + 1
         /\ \A i \in 1..Len(stack) : stack'[i] = stack[i]
         /\ stack'[Len(stack) + 1] = f
  BY DEF Push

(* What a pop leaves of the stack *)
LEMMA PopRemoves ==
  ASSUME stack \in Seq(Frames), stack # <<>>
  PROVE  /\ Below \in Seq(Frames)
         /\ Len(Below) = Len(stack) - 1
         /\ \A i \in 1..(Len(stack) - 1) : Below[i] = stack[i]
         /\ Top \in Frames
         /\ Len(stack) \in Nat \ {0}
<1>1. Len(stack) \in Nat \ {0} /\ Len(stack) \in DOMAIN stack
  BY LenProperties, EmptySeq
<1>2. Top \in Frames
  BY <1>1, ElementOfSeq DEF Top
<1> DEFINE n == Len(stack) - 1
<1>3. /\ n \in Nat
      /\ n - 1 + 1 = n
      /\ \A i \in 1..n : i \in 1..Len(stack) /\ 1 + i - 1 = i
  BY <1>1
<1>5. \A i \in 1..n : stack[i] \in Frames
  BY <1>3, ElementOfSeq
<1>4. /\ Below \in Seq(Frames)
      /\ Len(Below) = Len(stack) - 1
      /\ \A i \in 1..(Len(stack) - 1) : Below[i] = stack[i]
  <2>1. Below = SubSeq(stack, 1, n)
    BY DEF Below
  <2>2. /\ SubSeq(stack, 1, n) \in Seq(Frames)
        /\ Len(SubSeq(stack, 1, n)) = n
        /\ \A i \in 1..(n - 1 + 1) : SubSeq(stack, 1, n)[i] = stack[1 + i - 1]
    <3> HIDE DEF n
    <3> QED BY <1>3, <1>5, SubSeqProperties
  <2>3. \A i \in 1..n : SubSeq(stack, 1, n)[i] = stack[i]
    <3> HIDE DEF n
    <3> QED BY <1>3, <2>2
  <2> QED BY <2>1, <2>2, <2>3, <1>3
<1> QED BY <1>1, <1>2, <1>4

(* The calls of frames are numbers, and the frame of a call has its own. *)
LEMMA FrameCalls ==
  ASSUME NEW f \in Frames
  PROVE  f.call \in Nat /\ (f.kind = "transaction" => f.call # 0)
  BY DEF Frames

(* The frame of a callback *)
LEMMA DoneIsFrame ==
  ASSUME stack \in Seq(Frames)
  PROVE  /\ Scope \in Nat
         /\ Done \in Frames
         /\ Done.call = Scope /\ Done.kind = "done"
<1>1. Scope \in Nat
  BY PopRemoves, FrameCalls DEF Scope
<1> QED BY <1>1 DEF Done, Frames

(* The frame of a row callback *)
LEMMA RowIsFrame ==
  ASSUME stack \in Seq(Frames), NEW rows \in Nat, rows > 0,
         NEW complete \in BOOLEAN,
         NEW f, f = [kind |-> "row", call |-> Scope, left |-> rows - 1,
                     complete |-> complete]
  PROVE  f \in Frames /\ f.call = Scope /\ f.kind = "row"
<1>1. rows - 1 \in Nat
  OBVIOUS
<1> QED BY <1>1, DoneIsFrame DEF Frames

(* After a callback has returned the stack is the one below it, or that and a
   callback in the same call. *)
LEMMA AfterReturnIs ==
  ASSUME stack \in Seq(Frames), stack # <<>>, Top.kind # "transaction"
  PROVE  \/ AfterReturn = Below
         \/ \E f \in Frames : /\ f.call = Top.call /\ f.kind # "transaction"
                               /\ AfterReturn = Append(Below, f)
<1>1. CASE Top.kind = "row" /\ Top.left > 0
  <2> DEFINE f == [Top EXCEPT !.left = @ - 1]
  <2>1. Top \in [kind : {"row"}, call : Nat, left : Nat, complete : BOOLEAN]
    BY <1>1, PopRemoves DEF Frames
  <2>2. f = [kind |-> "row", call |-> Top.call, left |-> Top.left - 1,
             complete |-> Top.complete]
    BY <2>1
  <2>3. Top.left - 1 \in Nat /\ Top.call \in Nat /\ Top.complete \in BOOLEAN
    BY <2>1, <1>1
  <2>4. f \in Frames /\ f.call = Top.call /\ f.kind = "row"
    BY <2>2, <2>3 DEF Frames
  <2>5. AfterReturn = Append(Below, f)
    BY <1>1 DEF AfterReturn
  <2> QED BY <2>4, <2>5
<1>2. CASE Top.kind = "row" /\ Top.left = 0 /\ Top.complete
  <2>1. AfterReturn = Append(Below, Done)
    BY <1>2 DEF AfterReturn
  <2>2. Done.call = Top.call
    BY DoneIsFrame DEF Scope
  <2> QED BY <2>1, <2>2, DoneIsFrame
<1>3. CASE ~(Top.kind = "row" /\ Top.left > 0)
           /\ ~(Top.kind = "row" /\ Top.left = 0 /\ Top.complete)
  BY <1>3 DEF AfterReturn
<1> QED BY <1>1, <1>2, <1>3

(* A call's end changes its own outcome and no other. *)
LEMMA EndsSets ==
  ASSUME outcomes \in Seq(Outcomes), NEW how \in Outcomes, Ends(how)
  PROVE  /\ outcomes' \in Seq(Outcomes)
         /\ Len(outcomes') = Len(outcomes)
         /\ DOMAIN outcomes' = DOMAIN outcomes
         /\ \A t \in DOMAIN outcomes :
              outcomes'[t] = IF t = Top.call THEN how ELSE outcomes[t]
<1>1. outcomes' = [outcomes EXCEPT ![Top.call] = how]
  BY DEF Ends
<1>2. DOMAIN outcomes = 1..Len(outcomes)
  BY LenProperties
<1>3. CASE Top.call \in 1..Len(outcomes)
  <2> DEFINE c == Top.call
  <2>1. c \in 1..Len(outcomes) /\ outcomes' = [outcomes EXCEPT ![c] = how]
    BY <1>1, <1>3
  <2> HIDE DEF c
  <2>2. /\ outcomes' \in Seq(Outcomes)
        /\ Len(outcomes') = Len(outcomes)
        /\ \A t \in 1..Len(outcomes) :
             outcomes'[t] = IF t = c THEN how ELSE outcomes[t]
    BY <2>1, ExceptSeq
  <2>3. DOMAIN outcomes' = 1..Len(outcomes)
    BY <2>2, LenProperties
  <2> QED BY <1>2, <2>2, <2>3 DEF c
<1>4. CASE Top.call \notin 1..Len(outcomes)
  <2>1. outcomes' = outcomes
    BY <1>1, <1>2, <1>4, LenProperties
  <2> QED BY <2>1, <1>2, <1>4
<1> QED BY <1>3, <1>4

-----------------------------------------------------------------------------
\* Types

(* The stack and the outcomes keep their types in every step. *)
LEMMA CallTypes ==
  ASSUME TypeOK, [Next]_vars
  PROVE  stack' \in Seq(Frames) /\ outcomes' \in Seq(Outcomes)
<1> USE DEF TypeOK, Outcomes
<1>1. CASE UNCHANGED stack /\ UNCHANGED outcomes
  BY <1>1
<1>2. ASSUME NEW f \in Frames, Push(f), UNCHANGED outcomes
      PROVE  stack' \in Seq(Frames) /\ outcomes' \in Seq(Outcomes)
  BY <1>2, PushAdds
<1>3. CASE RunsCallback
  BY <1>3, <1>2, DoneIsFrame DEF RunsCallback, calls
<1>4. ASSUME NEW callback \in BOOLEAN, Completes(callback), UNCHANGED outcomes
      PROVE  stack' \in Seq(Frames) /\ outcomes' \in Seq(Outcomes)
  BY <1>4, <1>1, <1>2, DoneIsFrame DEF Completes
<1>5. CASE CallTransaction
  <2> DEFINE f == [kind |-> "transaction", call |-> Len(outcomes) + 1]
  <2>1. Len(outcomes) \in Nat
    BY LenProperties
  <2>2. f \in Frames
    BY <2>1 DEF Frames
  <2>3. Push(f)
    BY <1>5 DEF CallTransaction
  <2>4. outcomes' = Append(outcomes, "running")
    BY <1>5 DEF CallTransaction
  <2>5. outcomes' \in Seq(Outcomes)
    BY <2>4, AppendProperties
  <2> QED BY <2>2, <2>3, <2>5, PushAdds
<1>6. ASSUME NEW how \in Outcomes, stack # <<>>, Ends(how), Pop
      PROVE  stack' \in Seq(Frames) /\ outcomes' \in Seq(Outcomes)
  <2>1. stack' \in Seq(Frames)
    BY <1>6, PopRemoves DEF Pop
  <2>2. outcomes' \in Seq(Outcomes)
    BY <1>6, EndsSets
  <2> QED BY <2>1, <2>2
<1>7. CASE TransactionReturns
  BY <1>7, <1>6 DEF TransactionReturns, CommitOutcome
<1>8. CASE TransactionThrows
  BY <1>8, <1>6 DEF TransactionThrows
<1>9. ASSUME NEW rows \in 1..MaxRows, NEW complete \in BOOLEAN, Each3(rows, complete)
      PROVE  stack' \in Seq(Frames) /\ outcomes' \in Seq(Outcomes)
  <2> DEFINE f == [kind |-> "row", call |-> Scope, left |-> rows - 1,
                   complete |-> complete]
  <2>1. rows \in Nat /\ rows > 0
    BY SqliteAssumption
  <2>2. f \in Frames
    BY <2>1, RowIsFrame
  <2> QED BY <2>2, <1>2, <1>9 DEF Each3, calls
<1>10. CASE CallbackReturns
  <2>1. stack # <<>> /\ Top.kind # "transaction" /\ stack' = AfterReturn
    BY <1>10 DEF CallbackReturns
  <2>2. stack' \in Seq(Frames)
    <3>1. CASE AfterReturn = Below
      BY <2>1, <3>1, PopRemoves
    <3>2. ASSUME NEW f \in Frames, AfterReturn = Append(Below, f)
          PROVE  stack' \in Seq(Frames)
      BY <2>1, <3>2, PopRemoves, AppendProperties
    <3> QED BY <2>1, <3>1, <3>2, AfterReturnIs
  <2> QED BY <1>10, <2>2 DEF CallbackReturns, calls
<1>11. CASE CallbackThrows
  BY <1>11, PopRemoves DEF CallbackThrows, Pop, calls
<1>12. ASSUME NEW callback \in BOOLEAN,
              Open3(callback) \/ Prepare3(callback) \/ Close3(callback) \/ Finalize3(callback)
       PROVE  stack' \in Seq(Frames) /\ outcomes' \in Seq(Outcomes)
  BY <1>12, <1>4 DEF Open3, Prepare3, Close3, Finalize3, calls
<1>13. CASE Query3 \/ StatementQuery3 \/ Reset3 \/ Serialize3
  BY <1>13, <1>3 DEF Query3, StatementQuery3, Reset3, Serialize3
<1>14. CASE Open \/ Write \/ FailedWrite \/ ScriptTransaction \/ Prepare \/ Close
              \/ (\E enabled \in BOOLEAN : Pluck(enabled))
  BY <1>14, <1>1 DEF Open, Write, FailedWrite, ScriptTransaction, Prepare, Close,
                     Pluck, calls, slots
<1>15. CASE UNCHANGED vars
  BY <1>15, <1>1 DEF vars, calls
<1> QED BY <1>5, <1>7, <1>8, <1>9, <1>10, <1>11, <1>12, <1>13, <1>14, <1>15 DEF Next

(* What the script and the host remember keeps its type in every step. *)
LEMMA DataTypes ==
  ASSUME TypeOK, [Next]_vars
  PROVE  /\ tx' \in {"none", "function", "script", "abandoned"}
         /\ pending' \subseteq Nat \ {0}
         /\ durable' \subseteq Nat \ {0}
         /\ wrote' \in Seq(Nat)
         /\ broken' \subseteq Nat \ {0}
<1> USE DEF TypeOK
<1>1. Running \subseteq Nat \ {0}
  BY LenProperties DEF Running
<1>2. CASE Write
  <2>1. Len(wrote) \in Nat
    BY LenProperties
  <2>2. wrote' \in Seq(Nat)
    BY <1>2, DoneIsFrame, AppendProperties DEF Write
  <2>3. Len(wrote) + 1 \in Nat \ {0}
    BY <2>1
  <2>4. pending' \subseteq Nat \ {0} /\ durable' \subseteq Nat \ {0}
    BY <1>2, <2>3 DEF Write
  <2>5. tx' = tx /\ broken' = broken
    BY <1>2 DEF Write, calls
  <2> QED BY <2>2, <2>4, <2>5
<1>3. CASE FailedWrite \/ ScriptTransaction \/ Close
  BY <1>3, <1>1 DEF FailedWrite, ScriptTransaction, Close, HostRollsBack, HostCommits,
                    ByOthers
<1>4. CASE CallTransaction
  BY <1>4, <1>1 DEF CallTransaction, data
<1>5. CASE TransactionReturns
  BY <1>5 DEF TransactionReturns, CommitTakes, HostRollsBack, HostCommits
<1>6. CASE TransactionThrows
  BY <1>6 DEF TransactionThrows, HostRollsBack
<1>7. CASE UNCHANGED <<tx, data, calls>>
  BY <1>7 DEF data, calls
<1>8. ASSUME NEW rows \in 1..MaxRows, NEW complete \in BOOLEAN, Each3(rows, complete)
      PROVE  UNCHANGED <<tx, data, calls>>
  BY <1>8 DEF Each3
<1>9. ASSUME NEW callback \in BOOLEAN,
             Open3(callback) \/ Prepare3(callback) \/ Close3(callback) \/ Finalize3(callback)
      PROVE  UNCHANGED <<tx, data, calls>>
  BY <1>9 DEF Open3, Prepare3, Close3, Finalize3
<1>10. CASE Query3 \/ StatementQuery3 \/ Reset3 \/ Serialize3 \/ CallbackReturns
              \/ CallbackThrows
  BY <1>10, <1>7 DEF Query3, StatementQuery3, Reset3, Serialize3, RunsCallback,
                     CallbackReturns, CallbackThrows
<1>11. CASE Open \/ Prepare \/ (\E enabled \in BOOLEAN : Pluck(enabled))
  BY <1>11, <1>7 DEF Open, Prepare, Pluck
<1>12. CASE UNCHANGED vars
  BY <1>12, <1>7 DEF vars
<1> QED BY <1>2, <1>3, <1>4, <1>5, <1>6, <1>7, <1>8, <1>9, <1>10, <1>11, <1>12 DEF Next

-----------------------------------------------------------------------------
\* Handles and the flag

(* Every step keeps the objects, the handles and what the host holds in line. *)
LEMMA SetsKept ==
  ASSUME HandleInv, [Next]_vars
  PROVE  /\ objects' \subseteq Objects
         /\ handles' \subseteq objects'
         /\ live' \subseteq handles'
         /\ handles' \intersect {"db", "db3"} \subseteq live'
         /\ "stmt" \in handles' /\ "db" \in live' => "stmt" \in live'
         /\ "stmt3" \in handles' /\ "db3" \in live' => "stmt3" \in live'
         /\ Parents'
<1> DEFINE Good == /\ objects' \subseteq Objects
                   /\ handles' \subseteq objects'
                   /\ live' \subseteq handles'
                   /\ handles' \intersect {"db", "db3"} \subseteq live'
                   /\ "stmt" \in handles' /\ "db" \in live' => "stmt" \in live'
                   /\ "stmt3" \in handles' /\ "db3" \in live' => "stmt3" \in live'
                   /\ Parents'
<1>0. /\ objects \subseteq Objects
      /\ handles \subseteq objects
      /\ live \subseteq handles
      /\ handles \intersect {"db", "db3"} \subseteq live
      /\ "stmt" \in handles /\ "db" \in live => "stmt" \in live
      /\ "stmt3" \in handles /\ "db3" \in live => "stmt3" \in live
      /\ Parents
  BY DEF HandleInv, HandlesAreLive, TypeOK
<1> USE DEF Objects, Parents
<1>1. ASSUME UNCHANGED <<objects, handles, live>> PROVE Good
  BY <1>0, <1>1
<1>2. ASSUME NEW o \in Objects, o \notin objects, objects' = objects \union {o},
             o = "stmt" => "db" \in handles,
             o = "stmt3" => "db3" \in handles,
             Live(o) \/ NotOpen
      PROVE  Good
  <2>1. CASE Live(o)
    <3>1. handles' = handles \union {o} /\ live' = live \union {o}
      BY <2>1 DEF Live
    <3> QED BY <1>0, <1>2, <3>1
  <2>2. CASE NotOpen
    <3>1. handles' = handles /\ live' = live
      BY <2>2 DEF NotOpen
    <3> QED BY <1>0, <1>2, <3>1
  <2> QED BY <1>2, <2>1, <2>2
<1>3. CASE Open
  BY <1>2, <1>3 DEF Open, New
<1>4. CASE Prepare
  BY <1>2, <1>4 DEF Prepare, New
<1>5. ASSUME NEW callback \in BOOLEAN, Open3(callback) PROVE Good
  BY <1>2, <1>5 DEF Open3, New
<1>6. ASSUME NEW callback \in BOOLEAN, Prepare3(callback) PROVE Good
  BY <1>2, <1>6 DEF Prepare3, New
<1>7. CASE Close
  <2>1. objects' = objects /\ handles' = handles \ {"db"} /\ live' = live \ {"db", "stmt"}
    BY <1>7 DEF Close, ClearedHandles
  <2> QED BY <1>0, <2>1
<1>8. ASSUME NEW callback \in BOOLEAN, Close3(callback) PROVE Good
  <2>1. objects' = objects /\ handles' = handles \ {"db3"} /\ live' = live \ {"db3", "stmt3"}
    BY <1>8 DEF Close3, ClearedHandles
  <2> QED BY <1>0, <2>1
<1>9. ASSUME NEW callback \in BOOLEAN, Finalize3(callback) PROVE Good
  <2>1. objects' = objects /\ handles' = handles \ {"stmt3"} /\ live' = live \ {"stmt3"}
    BY <1>9 DEF Finalize3, ClearedHandles
  <2> QED BY <1>0, <2>1
<1>10. ASSUME NEW rows \in 1..MaxRows, NEW complete \in BOOLEAN, Each3(rows, complete)
       PROVE  Good
  BY <1>1, <1>10 DEF Each3, slots
<1>11. CASE CallTransaction \/ TransactionReturns \/ TransactionThrows
            \/ (\E enabled \in BOOLEAN : Pluck(enabled))
  BY <1>1, <1>11 DEF CallTransaction, TransactionReturns, TransactionThrows, Pluck
<1>12. CASE Write \/ FailedWrite \/ ScriptTransaction \/ Query3 \/ StatementQuery3
            \/ Reset3 \/ Serialize3 \/ CallbackReturns \/ CallbackThrows
            \/ UNCHANGED vars
  BY <1>1, <1>12 DEF Write, FailedWrite, ScriptTransaction, Query3, StatementQuery3,
                     Reset3, Serialize3, RunsCallback, CallbackReturns, CallbackThrows,
                     slots, vars
<1> QED BY <1>3, <1>4, <1>5, <1>6, <1>7, <1>8, <1>9, <1>10, <1>11, <1>12 DEF Next

(* Every step keeps the property open in line with the handle. *)
LEMMA OpenKept ==
  ASSUME HandleInv, [Next]_vars
  PROVE  open' = ("db" \in handles')
<1>1. open = ("db" \in handles)
  BY DEF HandleInv, HandlesAreLive
<1>2. ASSUME open' = open, handles' = handles PROVE open' = ("db" \in handles')
  BY <1>1, <1>2
<1>3. ASSUME NEW o \in {"stmt", "db3", "stmt3"}, open' = open,
             handles' = handles \/ handles' = handles \union {o} \/ handles' = handles \ {o}
      PROVE  open' = ("db" \in handles')
  BY <1>1, <1>3
<1>4. CASE Open
  <2>1. open' = TRUE /\ "db" \in handles'
    BY <1>4 DEF Open, Live
  <2> QED BY <2>1
<1>5. CASE Close
  <2>1. open' = FALSE /\ "db" \notin handles'
    BY <1>5 DEF Close, ClearedHandles
  <2>2. ("db" \in handles') = FALSE
    BY <2>1
  <2> QED BY <2>1, <2>2
<1>6. CASE Prepare
  BY <1>3, <1>6 DEF Prepare, Live
<1>7. ASSUME NEW callback \in BOOLEAN,
             Open3(callback) \/ Prepare3(callback) \/ Close3(callback) \/ Finalize3(callback)
      PROVE  open' = ("db" \in handles')
  BY <1>3, <1>7 DEF Open3, Prepare3, Close3, Finalize3, Live, NotOpen, ClearedHandles
<1>8. ASSUME NEW rows \in 1..MaxRows, NEW complete \in BOOLEAN, Each3(rows, complete)
       PROVE  open' = ("db" \in handles')
  BY <1>2, <1>8 DEF Each3, slots
<1>9. CASE CallTransaction \/ TransactionReturns \/ TransactionThrows
            \/ (\E enabled \in BOOLEAN : Pluck(enabled))
  BY <1>2, <1>9 DEF CallTransaction, TransactionReturns, TransactionThrows, Pluck
<1>10. CASE Write \/ FailedWrite \/ ScriptTransaction \/ Query3 \/ StatementQuery3
            \/ Reset3 \/ Serialize3 \/ CallbackReturns \/ CallbackThrows
            \/ UNCHANGED vars
  BY <1>2, <1>10 DEF Write, FailedWrite, ScriptTransaction, Query3, StatementQuery3,
                     Reset3, Serialize3, RunsCallback, CallbackReturns, CallbackThrows,
                     slots, vars
<1> QED BY <1>4, <1>5, <1>6, <1>7, <1>8, <1>9, <1>10 DEF Next

(* The flags stay Boolean in every step. *)
LEMMA FlagTypes ==
  ASSUME inTransaction \in BOOLEAN, pluck \in BOOLEAN, [Next]_vars
  PROVE  inTransaction' \in BOOLEAN /\ pluck' \in BOOLEAN
<1>1. CASE UNCHANGED <<inTransaction, pluck>>
  BY <1>1
<1>2. CASE Open
  BY <1>2 DEF Open
<1>3. CASE Prepare
  BY <1>3 DEF Prepare
<1>4. CASE \E enabled \in BOOLEAN : Pluck(enabled)
  BY <1>4, Zenon DEF Pluck
<1>5. CASE CallTransaction
  BY <1>5 DEF CallTransaction
<1>6. CASE TransactionReturns
  <2>1. inTransaction' = FALSE \/ inTransaction' = inTransaction
    BY <1>6 DEF TransactionReturns, FlagAfterCommit
  <2>2. pluck' = pluck
    BY <1>6 DEF TransactionReturns
  <2> QED BY <2>1, <2>2
<1>7. CASE TransactionThrows
  <2>1. inTransaction' = FALSE /\ pluck' = pluck
    BY <1>7 DEF TransactionThrows
  <2> QED BY <2>1
<1>8. ASSUME NEW callback \in BOOLEAN,
             Open3(callback) \/ Prepare3(callback) \/ Close3(callback) \/ Finalize3(callback)
      PROVE  UNCHANGED <<inTransaction, pluck>>
  BY <1>8 DEF Open3, Prepare3, Close3, Finalize3
<1>9. ASSUME NEW rows \in 1..MaxRows, NEW complete \in BOOLEAN, Each3(rows, complete)
       PROVE  UNCHANGED <<inTransaction, pluck>>
  BY <1>9 DEF Each3, slots
<1>10. CASE Write \/ FailedWrite \/ ScriptTransaction \/ Query3 \/ StatementQuery3
            \/ Reset3 \/ Serialize3 \/ CallbackReturns \/ CallbackThrows
            \/ Close \/ UNCHANGED vars
  BY <1>1, <1>10 DEF Write, FailedWrite, ScriptTransaction, Query3, StatementQuery3,
                     Reset3, Serialize3, RunsCallback, CallbackReturns, CallbackThrows,
                     Close, slots, vars
<1> QED BY <1>1, <1>2, <1>3, <1>4, <1>5, <1>6, <1>7, <1>8, <1>9, <1>10 DEF Next

(* Every step keeps the handles live, and with them the types. *)
LEMMA HandlesKept ==
  ASSUME HandleInv, [Next]_vars
  PROVE  HandleInv'
<1>1. TypeOK
  BY DEF HandleInv, HandlesAreLive
<1>2. live' \subseteq Objects
  BY SetsKept
<1>3. open' \in BOOLEAN
  <2>1. ("db" \in handles') \in BOOLEAN
    OBVIOUS
  <2> QED BY <2>1, OpenKept
<1>4. inTransaction' \in BOOLEAN /\ pluck' \in BOOLEAN
  BY <1>1, FlagTypes DEF TypeOK
<1>5. TypeOK'
  BY <1>1, <1>2, <1>3, <1>4, SetsKept, CallTypes, DataTypes DEF TypeOK, Outcomes
<1> QED BY <1>5, SetsKept, OpenKept DEF HandleInv, HandlesAreLive

(* Every step keeps a transaction left open in the flag. *)
LEMMA FlagKept ==
  ASSUME HandleInv, FlagInv, [Next]_vars
  PROVE  FlagInv'
<1> DEFINE Good == FlagInv'
<1> USE DEF FlagInv, LeftOpenShows
<1>1. CASE UNCHANGED <<handles, tx, inTransaction>>
  BY <1>1
<1>2. ASSUME "db" \in handles => "db" \in handles', UNCHANGED <<tx, inTransaction>>
      PROVE  Good
  BY <1>2
<1>3. CASE Open
  BY <1>3 DEF Open, New, HandleInv, HandlesAreLive, TypeOK
<1>4. CASE Prepare
  BY <1>4, <1>2 DEF Prepare, Live
<1>5. CASE Close
  BY <1>5 DEF Close
<1>6. CASE CallTransaction
  BY <1>6 DEF CallTransaction
<1>7. CASE TransactionReturns
  BY <1>7 DEF TransactionReturns, CommitTakes, HostCommits, HostRollsBack, FlagAfterCommit
<1>8. CASE TransactionThrows
  BY <1>8 DEF TransactionThrows, HostRollsBack
<1>9. CASE FailedWrite \/ ScriptTransaction
  BY <1>9 DEF FailedWrite, ScriptTransaction, HostCommits, HostRollsBack, slots
<1>10. ASSUME NEW callback \in BOOLEAN,
              Open3(callback) \/ Prepare3(callback) \/ Close3(callback) \/ Finalize3(callback)
       PROVE  Good
  BY <1>10, <1>2 DEF Open3, Prepare3, Close3, Finalize3, Live, NotOpen, ClearedHandles
<1>11. ASSUME NEW rows \in 1..MaxRows, NEW complete \in BOOLEAN, Each3(rows, complete)
       PROVE  Good
  BY <1>11, <1>1 DEF Each3, slots
<1>12. CASE Write \/ Query3 \/ StatementQuery3 \/ Reset3 \/ Serialize3
              \/ CallbackReturns \/ CallbackThrows \/ UNCHANGED vars
              \/ (\E enabled \in BOOLEAN : Pluck(enabled))
  BY <1>12, <1>1 DEF Write, Query3, StatementQuery3, Reset3, Serialize3, RunsCallback,
                     CallbackReturns, CallbackThrows, Pluck, slots, vars
<1> QED BY <1>3, <1>4, <1>5, <1>6, <1>7, <1>8, <1>9, <1>10, <1>11, <1>12 DEF Next

-----------------------------------------------------------------------------
\* The calls on the stack

(* The calls that run are calls. *)
LEMMA RunningAreCalls ==
  ASSUME outcomes \in Seq(Outcomes)
  PROVE  Running \subseteq 1..Len(outcomes) /\ Len(outcomes) \in Nat
  BY LenProperties DEF Running

(* A callback that is not a transaction's goes on top of the stack. *)
LEMMA StackPushed ==
  ASSUME stack \in Seq(Frames), StackInv, NEW f \in Frames, f.call = Scope,
         f.kind # "transaction", Push(f), UNCHANGED outcomes
  PROVE  StackInv'
<1>1. Running' = Running
  BY DEF Running
<1>2. Len(stack) \in Nat
  BY LenProperties
<1>3. /\ Len(stack') = Len(stack) + 1
      /\ \A i \in 1..Len(stack) : stack'[i] = stack[i]
      /\ stack'[Len(stack) + 1] = f
  BY PushAdds
<1>4. Scope \in Running \union {0}
  <2>1. CASE stack = <<>>
    BY <2>1 DEF Scope
  <2>2. CASE stack # <<>>
    BY <2>2, PopRemoves DEF Scope, Top, StackInv, StackOf
  <2> QED BY <2>1, <2>2
<1>5. ASSUME NEW i \in 1..Len(stack) PROVE stack[i].call <= Scope
  <2>1. stack # <<>>
    BY <1>5
  <2>2. Scope = stack[Len(stack)].call
    BY <2>1 DEF Scope, Top
  <2>3. stack[i].call \in Nat
    BY <1>5, ElementOfSeq, FrameCalls
  <2>4. CASE i = Len(stack)
    BY <2>2, <2>3, <2>4
  <2>5. CASE i < Len(stack)
    BY <1>2, <1>5, <2>2, <2>5 DEF StackInv, StackOf
  <2> QED BY <1>2, <1>5, <2>4, <2>5
<1> DEFINE n == Len(stack)
<1>6. \A i \in 1..(n + 1) : stack'[i].call \in Running \union {0}
  BY <1>2, <1>3, <1>4 DEF StackInv, StackOf
<1>7. ASSUME NEW i \in 1..(n + 1), NEW j \in 1..(n + 1), i < j
      PROVE  /\ stack'[i].call <= stack'[j].call
             /\ stack'[j].kind = "transaction" => stack'[i].call < stack'[j].call
  <2>1. i \in 1..n
    BY <1>2, <1>7
  <2>2. CASE j \in 1..n
    BY <1>3, <1>7, <2>1, <2>2 DEF StackInv, StackOf
  <2>3. CASE j = n + 1
    BY <1>3, <1>5, <2>1, <2>3
  <2> QED BY <1>2, <2>2, <2>3
<1>8. \A t \in Running :
        \E i \in 1..(n + 1) : stack'[i].kind = "transaction" /\ stack'[i].call = t
  <2> TAKE t \in Running
  <2>1. PICK i \in 1..n : stack[i].kind = "transaction" /\ stack[i].call = t
    BY DEF StackInv, StackOf
  <2>2. i \in 1..(n + 1) /\ stack'[i] = stack[i]
    BY <1>2, <1>3
  <2> QED BY <2>1, <2>2
<1> QED BY <1>1, <1>3, <1>6, <1>7, <1>8 DEF StackInv, StackOf

(* A callback that is not a transaction's leaves the stack. *)
LEMMA StackPopped ==
  ASSUME stack \in Seq(Frames), StackInv, stack # <<>>, Top.kind # "transaction",
         NEW s, s = Below
  PROVE  StackOf(s, Running)
<1> DEFINE n == Len(stack) - 1
<1>1. /\ n \in Nat /\ Len(s) = n /\ Len(stack) = n + 1
      /\ \A i \in 1..n : s[i] = stack[i]
  BY PopRemoves
<1>2. \A i \in 1..n : i \in 1..Len(stack)
  BY <1>1
<1>3. ASSUME NEW t \in Running
      PROVE  \E i \in 1..n : s[i].kind = "transaction" /\ s[i].call = t
  <2>1. PICK i \in 1..Len(stack) : stack[i].kind = "transaction" /\ stack[i].call = t
    BY DEF StackInv, StackOf
  <2>2. i # Len(stack)
    BY <2>1 DEF Top
  <2>3. i \in 1..n
    BY <1>1, <2>2
  <2> QED BY <1>1, <2>1, <2>3
<1> HIDE DEF n
<1>4. \A i \in 1..n : s[i].call \in Running \union {0}
  BY <1>1, <1>2 DEF StackInv, StackOf
<1>5. \A i, j \in 1..n :
        i < j => /\ s[i].call <= s[j].call
                 /\ s[j].kind = "transaction" => s[i].call < s[j].call
  BY <1>1, <1>2 DEF StackInv, StackOf
<1> QED BY <1>1, <1>3, <1>4, <1>5 DEF StackOf

(* A callback in the same call takes its place. *)
LEMMA StackReplaced ==
  ASSUME stack \in Seq(Frames), StackInv, stack # <<>>, Top.kind # "transaction",
         NEW f \in Frames, f.call = Top.call, f.kind # "transaction",
         NEW s, s = Append(Below, f)
  PROVE  StackOf(s, Running)
<1> DEFINE n == Len(stack) - 1
<1>1. /\ n \in Nat /\ Len(stack) = n + 1
      /\ Below \in Seq(Frames) /\ Len(Below) = n
      /\ \A i \in 1..n : Below[i] = stack[i]
  BY PopRemoves
<1> HIDE DEF n
<1>2. /\ Len(s) = n + 1
      /\ \A i \in 1..n : s[i] = stack[i]
      /\ s[n + 1] = f
  <2>1. /\ Len(s) = Len(Below) + 1
        /\ \A i \in 1..Len(Below) : s[i] = Below[i]
        /\ s[Len(Below) + 1] = f
    BY <1>1, AppendProperties
  <2> QED BY <1>1, <2>1
<1>3. \A i \in 1..(n + 1) : s[i].call = stack[i].call
  BY <1>1, <1>2 DEF Top
<1>4. ASSUME NEW t \in Running
      PROVE  \E i \in 1..(n + 1) : s[i].kind = "transaction" /\ s[i].call = t
  <2>1. PICK i \in 1..Len(stack) : stack[i].kind = "transaction" /\ stack[i].call = t
    BY DEF StackInv, StackOf
  <2>2. i # Len(stack)
    BY <2>1 DEF Top
  <2>3. i \in 1..n
    BY <1>1, <2>2
  <2> QED BY <1>1, <1>2, <2>1, <2>3
<1>5. ASSUME NEW i \in 1..(n + 1), NEW j \in 1..(n + 1), i < j
      PROVE  /\ s[i].call <= s[j].call
             /\ s[j].kind = "transaction" => s[i].call < s[j].call
  <2>1. s[i].call <= s[j].call
    BY <1>1, <1>3, <1>5 DEF StackInv, StackOf
  <2>2. CASE j \in 1..n
    BY <1>1, <1>2, <1>3, <1>5, <2>2 DEF StackInv, StackOf
  <2>3. CASE j = n + 1
    BY <1>2, <2>1, <2>3
  <2> QED BY <1>1, <2>1, <2>2, <2>3
<1>6. \A i \in 1..(n + 1) : s[i].call \in Running \union {0}
  BY <1>1, <1>3 DEF StackInv, StackOf
<1> QED BY <1>2, <1>4, <1>5, <1>6 DEF StackOf

(* The call on top ends: it is no longer running, and leaves the stack. *)
LEMMA CallEnded ==
  ASSUME stack \in Seq(Frames), outcomes \in Seq(Outcomes), StackInv, stack # <<>>,
         Top.kind = "transaction",
         NEW how \in Outcomes \ {"running"}, Ends(how), Pop
  PROVE  /\ Top.call \in Running
         /\ Running' = Running \ {Top.call}
         /\ StackInv'
<1> DEFINE n == Len(stack) - 1
           c == Top.call
<1>1. /\ n \in Nat /\ Len(stack) = n + 1 /\ stack' = Below
      /\ Len(stack') = n
      /\ \A i \in 1..n : stack'[i] = stack[i]
  BY PopRemoves DEF Pop
<1>2. c \in Running
  <2>1. c \in Running \union {0}
    BY <1>1 DEF Top, StackInv, StackOf
  <2> QED BY <2>1, PopRemoves, FrameCalls
<1> HIDE DEF n
<1>3. Running' = Running \ {c}
  <2>1. /\ DOMAIN outcomes' = DOMAIN outcomes
        /\ \A t \in DOMAIN outcomes : outcomes'[t] = IF t = c THEN how ELSE outcomes[t]
    BY EndsSets
  <2> QED BY <1>2, <2>1 DEF Running
<1>4. ASSUME NEW i \in 1..n PROVE stack'[i].call \in Running' \union {0}
  <2>1. i \in 1..Len(stack) /\ n + 1 \in 1..Len(stack) /\ i < n + 1
    BY <1>1
  <2>2. stack[i].call \in Running \union {0}
    BY <2>1 DEF StackInv, StackOf
  <2>3. stack[n + 1] = Top
    BY <1>1 DEF Top
  <2>4. stack[i].call < c
    BY <2>1, <2>3 DEF StackInv, StackOf
  <2>5. c \in Nat /\ stack[i].call \in Nat
    BY <2>1, PopRemoves, ElementOfSeq, FrameCalls
  <2>6. stack[i].call # c
    BY <2>4, <2>5
  <2> QED BY <1>1, <1>3, <2>2, <2>6
<1>5. ASSUME NEW i \in 1..n, NEW j \in 1..n, i < j
      PROVE  /\ stack'[i].call <= stack'[j].call
             /\ stack'[j].kind = "transaction" => stack'[i].call < stack'[j].call
  <2>1. i \in 1..Len(stack) /\ j \in 1..Len(stack)
    BY <1>1
  <2> QED BY <1>1, <1>5, <2>1 DEF StackInv, StackOf
<1>6. ASSUME NEW t \in Running'
      PROVE  \E i \in 1..n : stack'[i].kind = "transaction" /\ stack'[i].call = t
  <2>1. t \in Running /\ t # c
    BY <1>3
  <2>2. PICK i \in 1..Len(stack) : stack[i].kind = "transaction" /\ stack[i].call = t
    BY <2>1 DEF StackInv, StackOf
  <2>3. i # Len(stack)
    BY <2>1, <2>2 DEF Top
  <2>4. i \in 1..n
    BY <1>1, <2>3
  <2> QED BY <1>1, <2>2, <2>4
<1> QED BY <1>1, <1>2, <1>3, <1>4, <1>5, <1>6 DEF StackInv, StackOf

(* A new call runs on top of the others. *)
LEMMA CallBegun ==
  ASSUME stack \in Seq(Frames), outcomes \in Seq(Outcomes), StackInv, CallTransaction
  PROVE  /\ Len(outcomes') = Len(outcomes) + 1
         /\ \A t \in 1..Len(outcomes) : outcomes'[t] = outcomes[t]
         /\ DOMAIN outcomes' = 1..(Len(outcomes) + 1)
         /\ Running' = Running \union {Len(outcomes) + 1}
         /\ StackInv'
<1> DEFINE m == Len(outcomes)
           n == Len(stack)
           f == [kind |-> "transaction", call |-> m + 1]
<1>1. m \in Nat /\ n \in Nat /\ Running \subseteq 1..m
  BY RunningAreCalls, LenProperties
<1>2. f \in Frames /\ Push(f) /\ f.call = m + 1 /\ f.kind = "transaction"
  BY <1>1 DEF Frames, CallTransaction
<1>3. outcomes' = Append(outcomes, "running") /\ "running" \in Outcomes
  BY DEF CallTransaction, Outcomes
<1> HIDE DEF f
<1>4. /\ Len(stack') = n + 1
      /\ \A i \in 1..n : stack'[i] = stack[i]
      /\ stack'[n + 1] = f
  BY <1>2, PushAdds
<1>5. /\ outcomes' \in Seq(Outcomes)
      /\ Len(outcomes') = m + 1
      /\ \A t \in 1..m : outcomes'[t] = outcomes[t]
      /\ outcomes'[m + 1] = "running"
  BY <1>3, AppendProperties
<1> HIDE DEF m, n
<1>6. DOMAIN outcomes' = 1..(m + 1)
  BY <1>5, LenProperties
<1>7. DOMAIN outcomes = 1..m
  BY LenProperties DEF m
<1>8. Running' = Running \union {m + 1}
  <2>1. Running' = {t \in 1..(m + 1) : outcomes'[t] = "running"}
    BY <1>6 DEF Running
  <2>2. Running = {t \in 1..m : outcomes[t] = "running"}
    BY <1>7 DEF Running
  <2>3. 1..(m + 1) = 1..m \union {m + 1}
    BY <1>1
  <2> QED BY <1>5, <2>1, <2>2, <2>3
<1>9. /\ \A i \in 1..n : stack[i].call \in Running \union {0}
      /\ \A i, j \in 1..n :
           i < j => /\ stack[i].call <= stack[j].call
                    /\ stack[j].kind = "transaction" => stack[i].call < stack[j].call
      /\ \A t \in Running :
           \E i \in 1..n : stack[i].kind = "transaction" /\ stack[i].call = t
  BY DEF StackInv, StackOf, n
<1>10. ASSUME NEW i \in 1..(n + 1) PROVE stack'[i].call \in Running' \union {0}
  BY <1>1, <1>2, <1>4, <1>8, <1>9
<1>11. ASSUME NEW i \in 1..(n + 1), NEW j \in 1..(n + 1), i < j
      PROVE  /\ stack'[i].call <= stack'[j].call
             /\ stack'[j].kind = "transaction" => stack'[i].call < stack'[j].call
  <2>1. i \in 1..n
    BY <1>1, <1>11
  <2>2. CASE j \in 1..n
    BY <1>4, <1>9, <1>11, <2>1, <2>2
  <2>3. CASE j = n + 1
    <3>1. stack'[i].call \in 1..m \union {0}
      BY <1>1, <1>4, <1>9, <2>1
    <3> QED BY <1>1, <1>2, <1>4, <2>3, <3>1
  <2> QED BY <1>1, <2>2, <2>3
<1>12. ASSUME NEW t \in Running'
       PROVE  \E i \in 1..(n + 1) : stack'[i].kind = "transaction" /\ stack'[i].call = t
  <2>1. CASE t \in Running
    <3>1. PICK i \in 1..n : stack[i].kind = "transaction" /\ stack[i].call = t
      BY <1>9, <2>1
    <3>2. i \in 1..(n + 1) /\ stack'[i] = stack[i]
      BY <1>1, <1>4
    <3> QED BY <3>1, <3>2
  <2>2. CASE t = m + 1
    <3>1. n + 1 \in 1..(n + 1)
      BY <1>1
    <3> QED BY <1>2, <1>4, <2>2, <3>1
  <2> QED BY <1>8, <2>1, <2>2
<1>13. StackInv'
  BY <1>4, <1>10, <1>11, <1>12 DEF StackInv, StackOf
<1> QED BY <1>5, <1>6, <1>8, <1>13 DEF m

(* Every step keeps the stack in line with the calls that run. *)
LEMMA StackKept ==
  ASSUME TypeOK, StackInv, [Next]_vars
  PROVE  StackInv'
<1>0. stack \in Seq(Frames) /\ outcomes \in Seq(Outcomes)
  BY DEF TypeOK, Outcomes
<1>1. CASE UNCHANGED <<stack, outcomes>>
  BY <1>1 DEF StackInv, StackOf, Running
<1>2. CASE RunsCallback
  BY <1>0, <1>2, DoneIsFrame, StackPushed DEF RunsCallback, calls
<1>3. ASSUME NEW callback \in BOOLEAN,
             Open3(callback) \/ Prepare3(callback) \/ Close3(callback) \/ Finalize3(callback)
      PROVE  StackInv'
  <2>1. Completes(callback) /\ UNCHANGED outcomes
    BY <1>3 DEF Open3, Prepare3, Close3, Finalize3, calls
  <2> QED BY <1>0, <1>1, <2>1, DoneIsFrame, StackPushed DEF Completes
<1>4. ASSUME NEW rows \in 1..MaxRows, NEW complete \in BOOLEAN, Each3(rows, complete)
      PROVE  StackInv'
  <2> DEFINE f == [kind |-> "row", call |-> Scope, left |-> rows - 1,
                   complete |-> complete]
  <2>1. rows \in Nat /\ rows > 0
    BY SqliteAssumption
  <2>2. f \in Frames /\ f.call = Scope /\ f.kind = "row"
    BY <1>0, <2>1, RowIsFrame
  <2>3. Push(f) /\ UNCHANGED outcomes
    BY <1>4 DEF Each3, calls
  <2> HIDE DEF f
  <2> QED BY <1>0, <2>2, <2>3, StackPushed
<1>5. CASE CallbackReturns
  <2>1. /\ stack # <<>> /\ Top.kind # "transaction" /\ stack' = AfterReturn
        /\ Running' = Running
    BY <1>5 DEF CallbackReturns, Running, calls
  <2>2. CASE AfterReturn = Below
    BY <1>0, <2>1, <2>2, StackPopped DEF StackInv
  <2>3. ASSUME NEW f \in Frames, f.call = Top.call, f.kind # "transaction",
               AfterReturn = Append(Below, f)
        PROVE  StackInv'
    BY <1>0, <2>1, <2>3, StackReplaced DEF StackInv
  <2> QED BY <1>0, <2>1, <2>2, <2>3, AfterReturnIs
<1>6. CASE CallbackThrows
  <2>1. /\ stack # <<>> /\ Top.kind # "transaction" /\ stack' = Below
        /\ Running' = Running
    BY <1>6 DEF CallbackThrows, Pop, Running, calls
  <2> QED BY <1>0, <2>1, StackPopped DEF StackInv
<1>7. CASE CallTransaction
  BY <1>0, <1>7, CallBegun
<1>8. CASE TransactionReturns
  BY <1>0, <1>8, CallEnded DEF TransactionReturns, CommitOutcome, Outcomes
<1>9. CASE TransactionThrows
  BY <1>0, <1>9, CallEnded DEF TransactionThrows, Outcomes
<1>10. CASE Query3 \/ StatementQuery3 \/ Reset3 \/ Serialize3
  BY <1>2, <1>10 DEF Query3, StatementQuery3, Reset3, Serialize3
<1>11. CASE Open \/ Write \/ FailedWrite \/ ScriptTransaction \/ Prepare \/ Close
            \/ (\E enabled \in BOOLEAN : Pluck(enabled)) \/ UNCHANGED vars
  BY <1>1, <1>11 DEF Open, Write, FailedWrite, ScriptTransaction, Prepare, Close, Pluck,
                     slots, calls, vars
<1> QED BY <1>3, <1>4, <1>5, <1>6, <1>7, <1>8, <1>9, <1>10, <1>11 DEF Next

-----------------------------------------------------------------------------
\* The writes

(* The call on top is the one whose writes wait, if any call's do. *)
LEMMA OnlyTopWaits ==
  ASSUME stack \in Seq(Frames), outcomes \in Seq(Outcomes), StackInv, WritesWait,
         stack # <<>>, Top.kind = "transaction", Top.call \in Running,
         NEW t \in Running \ broken
  PROVE  t = Top.call
<1>1. t = Len(outcomes)
  BY DEF WritesWait
<1>2. Top.call <= Len(outcomes) /\ Top.call \in Nat /\ Len(outcomes) \in Nat
  BY RunningAreCalls
<1>3. PICK i \in 1..Len(stack) : stack[i].kind = "transaction" /\ stack[i].call = t
  BY DEF StackInv, StackOf
<1>4. Len(stack) \in 1..Len(stack) /\ Len(stack) \in Nat
  BY PopRemoves
<1>5. t <= Top.call
  <2>1. CASE i = Len(stack)
    BY <1>1, <1>2, <1>3, <2>1 DEF Top
  <2>2. CASE i < Len(stack)
    BY <1>3, <1>4, <2>2 DEF Top, StackInv, StackOf
  <2> QED BY <1>3, <1>4, <2>1, <2>2
<1> QED BY <1>1, <1>2, <1>5

(* Writes that only move from pending to durable, or vanish from pending, while
   no call ends. *)
LEMMA WritesMoved ==
  ASSUME WritesPlaced, OutcomeTellsWrites, UNCHANGED <<wrote, outcomes>>,
         broken \subseteq broken', durable \subseteq durable',
         durable' \union pending' \subseteq durable \union pending,
         pending' \intersect durable' = {}
  PROVE  WritesPlaced' /\ OutcomeTellsWrites'
  BY DEF WritesPlaced, OutcomeTellsWrites

(* A call ends, returned when the host has committed, thrown when it has rolled
   back. *)
LEMMA WritesEnded ==
  ASSUME TypeOK, WriteInv, stack # <<>>, Top.kind = "transaction",
         NEW how \in Outcomes \ {"running"}, Ends(how), Pop, UNCHANGED <<wrote, broken>>,
         \/ how = "returned" /\ HostCommits
         \/ how = "threw" /\ HostRollsBack
         \/ how = "failed" /\ (UNCHANGED <<pending, durable>> \/ HostRollsBack)
  PROVE  WritesWait' /\ WritesPlaced' /\ OutcomeTellsWrites'
<1> DEFINE c == Top.call
<1>0. stack \in Seq(Frames) /\ outcomes \in Seq(Outcomes)
  BY DEF TypeOK, Outcomes
<1>1. c \in Running /\ Running' = Running \ {c}
  BY <1>0, CallEnded DEF WriteInv
<1>2. \A t \in Running \ broken : t = c
  BY <1>0, <1>1, OnlyTopWaits DEF WriteInv
<1>3. /\ Len(outcomes') = Len(outcomes)
      /\ DOMAIN outcomes = 1..Len(outcomes)
      /\ \A t \in DOMAIN outcomes : outcomes'[t] = IF t = c THEN how ELSE outcomes[t]
  BY <1>0, EndsSets, LenProperties
<1> HIDE DEF c
<1>4. WritesWait'
  BY <1>1, <1>2 DEF WritesWait
<1>5. /\ durable \subseteq durable'
      /\ durable' \union pending' \subseteq durable \union pending
      /\ pending' \intersect durable' = {}
  BY DEF HostCommits, HostRollsBack, WriteInv, WritesPlaced
<1>6. WritesPlaced'
  BY <1>3, <1>5 DEF WriteInv, WritesPlaced
<1>7. ASSUME NEW i \in DOMAIN wrote, wrote[i] # 0, wrote[i] \notin broken
      PROVE  /\ outcomes'[wrote[i]] = "returned" => i \in durable'
             /\ outcomes'[wrote[i]] = "threw" => i \notin durable' \union pending'
  <2>1. wrote[i] \in DOMAIN outcomes
    <3>1. wrote[i] \in 0..Len(outcomes) /\ Len(outcomes) \in Nat
      BY <1>0, LenProperties DEF WriteInv, WritesPlaced
    <3> QED BY <1>3, <1>7, <3>1
  <2>2. CASE wrote[i] # c
    <3>1. outcomes'[wrote[i]] = outcomes[wrote[i]]
      BY <1>3, <2>1, <2>2
    <3> QED BY <1>5, <1>7, <3>1 DEF WriteInv, OutcomeTellsWrites
  <2>3. CASE wrote[i] = c
    <3>1. outcomes'[wrote[i]] = how
      BY <1>3, <2>1, <2>3
    <3>2. i \in pending
      BY <1>1, <1>7, <2>3 DEF WriteInv, WritesWait
    <3>3. i \notin durable
      BY <3>2 DEF WriteInv, WritesPlaced
    <3> QED BY <3>1, <3>2, <3>3 DEF HostCommits, HostRollsBack
  <2> QED BY <2>2, <2>3
<1>8. OutcomeTellsWrites'
  BY <1>7 DEF OutcomeTellsWrites
<1> QED BY <1>4, <1>6, <1>8

(* A write joins the transaction, or is durable at once. *)
LEMMA WriteKeeps ==
  ASSUME TypeOK, WriteInv, Write
  PROVE  WritesWait' /\ WritesPlaced' /\ OutcomeTellsWrites'
<1> DEFINE n == Len(wrote) + 1
<1>0. stack \in Seq(Frames) /\ outcomes \in Seq(Outcomes) /\ wrote \in Seq(Nat)
  BY DEF TypeOK, Outcomes
<1>1. /\ Len(wrote) \in Nat /\ DOMAIN wrote = 1..Len(wrote)
      /\ Scope \in Nat
  BY <1>0, LenProperties, DoneIsFrame
<1>2. /\ DOMAIN wrote' = 1..n
      /\ \A i \in 1..Len(wrote) : wrote'[i] = wrote[i]
      /\ wrote'[n] = Scope
  BY <1>0, <1>1 DEF Write
<1>3. Scope \in Running \union {0}
  <2>1. CASE stack = <<>>
    BY <2>1 DEF Scope
  <2>2. CASE stack # <<>>
    BY <1>0, <2>2, PopRemoves DEF Scope, Top, WriteInv, StackInv, StackOf
  <2> QED BY <2>1, <2>2
<1>4. UNCHANGED <<stack, tx, outcomes, broken>> /\ Running' = Running
  BY DEF Write, calls, Running
<1>5. \/ tx = "none" /\ durable' = durable \union {n} /\ pending' = pending
      \/ tx # "none" /\ pending' = pending \union {n} /\ durable' = durable
  BY DEF Write
<1>6. /\ Running \subseteq 1..Len(outcomes) /\ Len(outcomes) \in Nat
  BY <1>0, RunningAreCalls
<1>7. DOMAIN wrote' = DOMAIN wrote \union {n} /\ n \notin DOMAIN wrote
  BY <1>1, <1>2
<1> HIDE DEF n
<1>8. WritesWait'
  <2> SUFFICES ASSUME NEW t \in Running \ broken
               PROVE  /\ t = Len(outcomes)
                      /\ tx # "none"
                      /\ \A i \in DOMAIN wrote' : wrote'[i] = t => i \in pending'
    BY <1>4 DEF WritesWait
  <2>1. /\ t = Len(outcomes) /\ tx # "none"
        /\ \A i \in DOMAIN wrote : wrote[i] = t => i \in pending
    BY DEF WriteInv, WritesWait
  <2>2. pending' = pending \union {n}
    BY <1>5, <2>1
  <2> QED BY <1>1, <1>2, <1>7, <2>1, <2>2
<1>9. WritesPlaced'
  <2>1. /\ \A i \in DOMAIN wrote : wrote[i] \in 0..Len(outcomes)
        /\ pending \subseteq DOMAIN wrote
        /\ durable \subseteq DOMAIN wrote
        /\ pending \intersect durable = {}
    BY DEF WriteInv, WritesPlaced
  <2>2. Scope \in 0..Len(outcomes)
    BY <1>1, <1>3, <1>6
  <2>3. \A i \in DOMAIN wrote' : wrote'[i] \in 0..Len(outcomes)
    BY <1>1, <1>2, <1>7, <2>1, <2>2
  <2>4. /\ pending' \subseteq DOMAIN wrote'
        /\ durable' \subseteq DOMAIN wrote'
        /\ pending' \intersect durable' = {}
    BY <1>5, <1>7, <2>1
  <2> QED BY <1>4, <2>3, <2>4 DEF WritesPlaced
<1>10. OutcomeTellsWrites'
  <2> SUFFICES ASSUME NEW i \in DOMAIN wrote', wrote'[i] # 0, wrote'[i] \notin broken
               PROVE  /\ outcomes[wrote'[i]] = "returned" => i \in durable'
                      /\ outcomes[wrote'[i]] = "threw" => i \notin durable' \union pending'
    BY <1>4 DEF OutcomeTellsWrites
  <2>1. CASE i = n
    <3>1. outcomes[wrote'[i]] = "running"
      BY <1>2, <1>3, <2>1 DEF Running
    <3> QED BY <3>1
  <2>2. CASE i # n
    <3>1. i \in DOMAIN wrote /\ wrote'[i] = wrote[i]
      BY <1>1, <1>2, <1>7, <2>2
    <3> QED BY <1>5, <2>2, <3>1 DEF WriteInv, OutcomeTellsWrites
  <2> QED BY <2>1, <2>2
<1> QED BY <1>8, <1>9, <1>10

(* A new call has no writes yet; whatever ran before it no longer has its
   transaction. *)
LEMMA BeginKeeps ==
  ASSUME TypeOK, WriteInv, CallTransaction
  PROVE  WritesWait' /\ WritesPlaced' /\ OutcomeTellsWrites'
<1> DEFINE m == Len(outcomes)
<1>0. stack \in Seq(Frames) /\ outcomes \in Seq(Outcomes)
  BY DEF TypeOK, Outcomes
<1>1. /\ Len(outcomes') = m + 1
      /\ \A t \in 1..m : outcomes'[t] = outcomes[t]
      /\ Running' = Running \union {m + 1}
      /\ m \in Nat
  BY <1>0, CallBegun, LenProperties DEF WriteInv
<1>2. /\ UNCHANGED <<pending, durable, wrote>>
      /\ tx' = "function"
      /\ broken' = broken \union Running
  BY DEF CallTransaction, data
<1> HIDE DEF m
<1>3. \A i \in DOMAIN wrote : wrote[i] \in 0..m
  BY DEF WriteInv, WritesPlaced, m
<1>4. WritesWait'
  <2> SUFFICES ASSUME NEW t \in Running' \ broken'
               PROVE  /\ t = m + 1
                      /\ tx' # "none"
                      /\ \A i \in DOMAIN wrote' : wrote'[i] = t => i \in pending'
    BY <1>1 DEF WritesWait
  <2>1. t = m + 1
    BY <1>1, <1>2
  <2>2. \A i \in DOMAIN wrote : wrote[i] # m + 1
    BY <1>1, <1>3
  <2> QED BY <1>2, <2>1, <2>2
<1>5. WritesPlaced'
  <2>1. \A i \in DOMAIN wrote : wrote[i] \in 0..(m + 1)
    BY <1>1, <1>3
  <2> QED BY <1>1, <1>2, <2>1 DEF WriteInv, WritesPlaced
<1>6. OutcomeTellsWrites'
  <2> SUFFICES ASSUME NEW i \in DOMAIN wrote, wrote[i] # 0, wrote[i] \notin broken
               PROVE  /\ outcomes'[wrote[i]] = "returned" => i \in durable
                      /\ outcomes'[wrote[i]] = "threw" => i \notin durable \union pending
    BY <1>2 DEF OutcomeTellsWrites
  <2>1. wrote[i] \in 1..m
    BY <1>1, <1>3
  <2> QED BY <1>1, <2>1 DEF WriteInv, OutcomeTellsWrites
<1> QED BY <1>4, <1>5, <1>6

(* Something else ends or begins a transaction: no call that runs has its own
   any more. *)
LEMMA OthersKeep ==
  ASSUME WriteInv, FailedWrite \/ ScriptTransaction \/ Close
  PROVE  WritesWait' /\ WritesPlaced' /\ OutcomeTellsWrites'
<1>1. UNCHANGED <<wrote, outcomes>> /\ broken' = broken \union Running
  BY DEF FailedWrite, ScriptTransaction, Close, ByOthers
<1>2. Running' = Running
  BY <1>1 DEF Running
<1>3. WritesWait'
  BY <1>1, <1>2 DEF WritesWait
<1>4. /\ durable \subseteq durable'
      /\ durable' \union pending' \subseteq durable \union pending
      /\ pending' \intersect durable' = {}
  BY DEF FailedWrite, ScriptTransaction, Close, HostCommits, HostRollsBack, WriteInv,
         WritesPlaced
<1> QED BY <1>1, <1>3, <1>4, WritesMoved DEF WriteInv

(* Every step keeps the writes where the outcomes say they are. *)
LEMMA WritesKept ==
  ASSUME TypeOK, WriteInv, [Next]_vars
  PROVE  WriteInv'
<1> DEFINE Good == WritesWait' /\ WritesPlaced' /\ OutcomeTellsWrites'
<1> SUFFICES Good
  BY StackKept DEF WriteInv
<1>1. CASE UNCHANGED <<tx, data, calls>>
  BY <1>1 DEF WriteInv, WritesWait, WritesPlaced, OutcomeTellsWrites, Running, data, calls
<1>2. CASE TransactionReturns
  <2>1. /\ stack # <<>> /\ Top.kind = "transaction" /\ Pop
        /\ UNCHANGED <<wrote, broken>>
    BY <1>2 DEF TransactionReturns
  <2>2. PICK done \in BOOLEAN : CommitTakes(done) /\ Ends(CommitOutcome(done))
    BY <1>2 DEF TransactionReturns
  <2>3. CASE done
    BY <2>1, <2>2, <2>3, WritesEnded DEF CommitTakes, CommitOutcome, Outcomes
  <2>4. CASE ~done
    BY <2>1, <2>2, <2>4, WritesEnded DEF CommitTakes, CommitOutcome, Outcomes
  <2> QED BY <2>3, <2>4
<1>3. CASE TransactionThrows
  <2>1. /\ stack # <<>> /\ Top.kind = "transaction" /\ Pop
        /\ UNCHANGED <<wrote, broken>>
    BY <1>3 DEF TransactionThrows
  <2>2. \/ HostRollsBack /\ Ends("threw")
        \/ Ends("failed") /\ UNCHANGED <<pending, durable>>
    BY <1>3 DEF TransactionThrows
  <2> QED BY <2>1, <2>2, WritesEnded DEF Outcomes
<1>4. CASE CallTransaction
  BY <1>4, BeginKeeps
<1>5. CASE Write
  BY <1>5, WriteKeeps
<1>6. CASE FailedWrite \/ ScriptTransaction \/ Close
  BY <1>6, OthersKeep
<1>7. ASSUME NEW rows \in 1..MaxRows, NEW complete \in BOOLEAN, Each3(rows, complete)
      PROVE  Good
  BY <1>1, <1>7 DEF Each3
<1>8. ASSUME NEW callback \in BOOLEAN,
             Open3(callback) \/ Prepare3(callback) \/ Close3(callback) \/ Finalize3(callback)
      PROVE  Good
  BY <1>1, <1>8 DEF Open3, Prepare3, Close3, Finalize3
<1>9. CASE Query3 \/ StatementQuery3 \/ Reset3 \/ Serialize3 \/ CallbackReturns
           \/ CallbackThrows
  BY <1>1, <1>9 DEF Query3, StatementQuery3, Reset3, Serialize3, RunsCallback,
                    CallbackReturns, CallbackThrows
<1>10. CASE Open \/ Prepare \/ (\E enabled \in BOOLEAN : Pluck(enabled)) \/ UNCHANGED vars
  BY <1>1, <1>10 DEF Open, Prepare, Pluck, vars
<1> QED BY <1>2, <1>3, <1>4, <1>5, <1>6, <1>7, <1>8, <1>9, <1>10 DEF Next

-----------------------------------------------------------------------------

(* The invariant holds at the start. *)
LEMMA SqliteInit == Init => SqliteInv
<1> SUFFICES ASSUME Init PROVE SqliteInv
  OBVIOUS
<1>1. TypeOK
  BY EmptySeq DEF Init, TypeOK, Objects
<1>2. open = ("db" \in handles)
  <2>1. open = FALSE /\ "db" \notin handles
    BY DEF Init
  <2>2. ("db" \in handles) = FALSE
    BY <2>1
  <2> QED BY <2>1, <2>2
<1>3. HandleInv
  BY <1>1, <1>2 DEF Init, HandleInv, HandlesAreLive, Parents
<1>4. FlagInv
  BY DEF Init, FlagInv, LeftOpenShows
<1>5. Running = {}
  BY EmptySeq DEF Init, Running
<1>6. WriteInv
  BY <1>5 DEF Init, WriteInv, StackInv, StackOf, WritesWait, WritesPlaced,
              OutcomeTellsWrites
<1> QED BY <1>3, <1>4, <1>6 DEF SqliteInv

(* Every step keeps it. *)
LEMMA SqliteStep == SqliteInv /\ [Next]_vars => SqliteInv'
<1> SUFFICES ASSUME SqliteInv, [Next]_vars PROVE SqliteInv'
  OBVIOUS
<1>1. HandleInv /\ FlagInv /\ WriteInv /\ TypeOK
  BY DEF SqliteInv, HandleInv, HandlesAreLive
<1> QED BY <1>1, HandlesKept, FlagKept, WritesKept DEF SqliteInv

(* No connection is used after its close or lost by a failed one, in callbacks
   of any depth; the state keeps its type. *)
THEOREM SqliteHandlesAreLive == Spec => []HandlesAreLive
<1>1. SqliteInv => HandlesAreLive
  BY DEF SqliteInv, HandleInv
<1> QED BY <1>1, SqliteInit, SqliteStep, PTL DEF Spec

(* A transaction that a transaction function left open shows in inTransaction. *)
THEOREM SqliteLeftOpenShows == Spec => []LeftOpenShows
<1>1. SqliteInv => LeftOpenShows
  BY DEF SqliteInv, FlagInv
<1> QED BY <1>1, SqliteInit, SqliteStep, PTL DEF Spec

(* What a transaction call returns or throws says whether its writes are
   durable, for every number of calls and every nesting. *)
THEOREM SqliteOutcomeTellsWrites == Spec => []OutcomeTellsWrites
<1>1. SqliteInv => OutcomeTellsWrites
  BY DEF SqliteInv, WriteInv
<1> QED BY <1>1, SqliteInit, SqliteStep, PTL DEF Spec
=============================================================================
