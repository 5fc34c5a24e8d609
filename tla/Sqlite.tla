------------------------------- MODULE Sqlite -------------------------------
(***************************************************************************)
(* A script that uses better-sqlite3 and sqlite3 side by side: one         *)
(* database object and one statement of each library, the script's call    *)
(* stack, and the host that owns the connections.  Both libraries send     *)
(* synchronous requests (jjs:sqlite/request) and resume inside the call,   *)
(* so a callback runs on the stack of the call that was given it.          *)
(*                                                                         *)
(* A call that throws before its first effect is not a step; neither is a  *)
(* request that the host refuses without a change and without a callback.  *)
(* The script may catch what is thrown to it, or throw on.  Rows, ids and  *)
(* parameters are left out.                                                *)
(***************************************************************************)
EXTENDS Naturals, Sequences

CONSTANTS
  MaxDepth,        \* bound: callbacks on the stack
  MaxTransactions, \* bound: calls of transaction functions
  MaxWrites,       \* bound: writes through better-sqlite3
  MaxRows          \* bound: rows of one query

ASSUME SqliteAssumption ==
  {MaxDepth, MaxTransactions, MaxWrites, MaxRows} \subseteq Nat

VARIABLES
  objects,       \* the objects the constructors have returned
  handles,       \* the objects whose HANDLE is a number
  open,          \* the property open of the better-sqlite3 database
  inTransaction, \* the property inTransaction of the same object
  pluck,         \* PLUCK of the better-sqlite3 statement
  stack,         \* the callbacks being run, innermost last
  live,          \* host: the connections and statements it holds
  tx,            \* host: the transaction of the better-sqlite3 connection
  pending,       \* host: writes made in that transaction
  durable,       \* host: writes that are committed
  wrote,         \* history: for each write, the transaction call it is in
  outcomes,      \* history: how each transaction call ended
  broken         \* history: calls whose transaction something else ended

slots == <<objects, handles, open, inTransaction, pluck>>
data == <<pending, durable, wrote>>
calls == <<outcomes, broken>>
vars == <<slots, stack, live, tx, data, calls>>

\* The database and the statement of better-sqlite3, then of sqlite3.
Objects == {"db", "stmt", "db3", "stmt3"}

\* A callback and the transaction call it is in, 0 outside of all
Frames ==
  [kind : {"transaction"}, call : Nat \ {0}]
    \union [kind : {"done"}, call : Nat]
    \union [kind : {"row"}, call : Nat, left : Nat, complete : BOOLEAN]

TypeOK ==
  /\ objects \subseteq Objects
  /\ handles \subseteq objects
  /\ open \in BOOLEAN
  /\ inTransaction \in BOOLEAN
  /\ pluck \in BOOLEAN
  /\ stack \in Seq(Frames)
  /\ live \subseteq Objects
  /\ tx \in {"none", "function", "script", "abandoned"}
  /\ pending \subseteq Nat \ {0}
  /\ durable \subseteq Nat \ {0}
  /\ wrote \in Seq(Nat)
  /\ outcomes \in Seq({"running", "returned", "threw", "failed"})
  /\ broken \subseteq Nat \ {0}

Init ==
  /\ objects = {}
  /\ handles = {}
  /\ open = FALSE
  /\ inTransaction = FALSE
  /\ pluck = FALSE
  /\ stack = <<>>
  /\ live = {}
  /\ tx = "none"
  /\ pending = {}
  /\ durable = {}
  /\ wrote = <<>>
  /\ outcomes = <<>>
  /\ broken = {}

-----------------------------------------------------------------------------
\* The stack

Top == stack[Len(stack)]
Below == SubSeq(stack, 1, Len(stack) - 1)

Deeper == Len(stack) < MaxDepth

\* The transaction call the script is in
Scope == IF stack = <<>> THEN 0 ELSE Top.call

\* The call was given a callback, and it now runs.
Push(frame) == Deeper /\ stack' = Append(stack, frame)

Done == [kind |-> "done", call |-> Scope]

\* A completion with a callback runs it; without one the call just returns.
Completes(callback) == IF callback THEN Push(Done) ELSE UNCHANGED stack

Pop == stack' = Below

Running == {t \in DOMAIN outcomes : outcomes[t] = "running"}

Ends(how) == outcomes' = [outcomes EXCEPT ![Top.call] = how]

-----------------------------------------------------------------------------
\* The host's transaction

HostCommits ==
  /\ tx # "none"
  /\ tx' = "none"
  /\ durable' = durable \union pending
  /\ pending' = {}

HostRollsBack ==
  /\ tx # "none"
  /\ tx' = "none"
  /\ pending' = {}
  /\ UNCHANGED durable

\* A transaction that something else than its own call begins or ends
ByOthers == broken' = broken \union Running

-----------------------------------------------------------------------------
\* better-sqlite3: databases and statements

\* A constructor returns one object of each kind.
New(object) ==
  object \notin objects /\ objects' = objects \union {object}

\* OPEN_COMPLETE and PREPARE_COMPLETE store the handle the host gave.
Live(object) ==
  /\ handles' = handles \union {object}
  /\ live' = live \union {object}

\* DATABASE: a refused open throws and leaves no object.
Open ==
  /\ New("db")
  /\ Live("db")
  /\ open' = TRUE
  /\ inTransaction' = FALSE
  /\ UNCHANGED <<pluck, stack, tx, data, calls>>

\* DB_EXEC or STMT_RUN of a write; a statement outlives its database object,
\* but not the host's connection.
Write ==
  /\ "db" \in handles \/ "stmt" \in handles
  /\ "db" \in live
  /\ Len(wrote) < MaxWrites
  /\ wrote' = Append(wrote, Scope)
  /\ IF tx = "none"
       THEN durable' = durable \union {Len(wrote) + 1} /\ UNCHANGED pending
       ELSE pending' = pending \union {Len(wrote) + 1} /\ UNCHANGED durable
  /\ UNCHANGED <<slots, stack, live, tx, calls>>

\* A write that fails (a full disk, an input or output error) may take the
\* transaction with it.
FailedWrite ==
  /\ "db" \in handles \/ "stmt" \in handles
  /\ HostRollsBack
  /\ ByOthers
  /\ UNCHANGED <<slots, stack, live, wrote, outcomes>>

\* DB_EXEC of BEGIN, COMMIT or ROLLBACK: the module does not read the SQL.
ScriptTransaction ==
  /\ "db" \in handles
  /\ \/ tx = "none" /\ tx' = "script" /\ UNCHANGED <<pending, durable>>
     \/ HostCommits
     \/ HostRollsBack
  /\ ByOthers
  /\ UNCHANGED <<slots, stack, live, wrote, outcomes>>

\* DB_PREPARE
Prepare ==
  /\ "db" \in handles
  /\ New("stmt")
  /\ Live("stmt")
  /\ pluck' = FALSE
  /\ UNCHANGED <<open, inTransaction, stack, tx, data, calls>>

\* STMT_PLUCK
Pluck(enabled) ==
  /\ "stmt" \in handles
  /\ pluck' = enabled
  /\ UNCHANGED <<objects, handles, open, inTransaction, stack, live, tx, data, calls>>

\* Mutant: the handle stays after the host closed the connection.
KeptHandles(object) == handles

\* CLOSE_COMPLETE clears the handle of the one object that was closed.
ClearedHandles(object) == handles \ {object}

\* DB_CLOSE: a refused close throws and changes nothing; the host ends the
\* transaction and the statements of a connection it closes.
Close ==
  /\ "db" \in handles
  /\ handles' = ClearedHandles("db")
  /\ open' = FALSE
  /\ live' = live \ {"db", "stmt"}
  /\ tx' = "none"
  /\ pending' = {}
  /\ ByOthers
  /\ UNCHANGED <<objects, inTransaction, pluck, stack, durable, wrote, outcomes>>

-----------------------------------------------------------------------------
\* better-sqlite3: transaction functions

\* TRANSACTION_CALL up to its callback; the host refuses BEGIN inside a
\* transaction, and then the callback does not run.
CallTransaction ==
  /\ "db" \in handles
  /\ Len(outcomes) < MaxTransactions
  /\ tx = "none"
  /\ tx' = "function"
  /\ inTransaction' = TRUE
  /\ outcomes' = Append(outcomes, "running")
  /\ Push([kind |-> "transaction", call |-> Len(outcomes) + 1])
  /\ broken' = broken \union Running
  /\ UNCHANGED <<objects, handles, open, pluck, live, data>>

\* Mutant: inTransaction is cleared before the answer to COMMIT is seen.
ClearedByCommit(done) == FALSE

\* inTransaction after COMMIT: an error returns before the flag is cleared.
FlagAfterCommit(done) == IF done THEN FALSE ELSE inTransaction

\* Mutant: the answer to COMMIT is not looked at.
AlwaysReturned(done) == "returned"

\* What the caller gets: the callback's value, or the error of COMMIT
CommitOutcome(done) == IF done THEN "returned" ELSE "failed"

\* The host may refuse COMMIT and keep the transaction, or lose it; without
\* a handle or a transaction the answer is an error.
CommitTakes(done) ==
  IF done
    THEN "db" \in handles /\ HostCommits
    ELSE \/ UNCHANGED <<tx, pending, durable>>
         \/ "db" \in handles /\ HostRollsBack

\* The callback returns: COMMIT.
TransactionReturns ==
  /\ stack # <<>> /\ Top.kind = "transaction"
  /\ \E done \in BOOLEAN :
       /\ CommitTakes(done)
       /\ Ends(CommitOutcome(done))
       /\ inTransaction' = FlagAfterCommit(done)
  /\ Pop
  /\ UNCHANGED <<objects, handles, open, pluck, live, wrote, broken>>

\* The callback throws: ROLLBACK.  inTransaction is cleared whatever the
\* host answers; an error of ROLLBACK takes the place of the callback's.
TransactionThrows ==
  /\ stack # <<>> /\ Top.kind = "transaction"
  /\ \/ "db" \in handles /\ HostRollsBack /\ Ends("threw")
     \/ /\ tx' = IF tx = "none" THEN "none" ELSE "abandoned"
        /\ Ends("failed")
        /\ UNCHANGED <<pending, durable>>
  /\ inTransaction' = FALSE
  /\ Pop
  /\ UNCHANGED <<objects, handles, open, pluck, live, wrote, broken>>

-----------------------------------------------------------------------------
\* sqlite3

\* The host refused and the error goes to the callback: the object that is
\* returned is not open.
NotOpen == UNCHANGED <<handles, live>>

\* DATABASE of sqlite3
Open3(callback) ==
  /\ New("db3")
  /\ Live("db3") \/ (callback /\ NotOpen)
  /\ Completes(callback)
  /\ UNCHANGED <<open, inTransaction, pluck, tx, data, calls>>

\* A request ran or was refused, and its callback runs.
RunsCallback ==
  /\ Push(Done)
  /\ UNCHANGED <<slots, live, tx, data, calls>>

\* DB_RUN, DB_GET, DB_ALL and DB_EXEC; also a refused prepare or close
Query3 == "db3" \in handles /\ RunsCallback

\* STMT_RUN, STMT_GET, STMT_ALL, STMT_BIND; also a statement whose
\* connection is closed
StatementQuery3 == "stmt3" \in handles /\ RunsCallback

\* STMT_RESET, and a refused finalize
Reset3 == "stmt3" \in handles /\ RunsCallback

\* DB_SERIALIZE and DB_PARALLELIZE call back without a request.
Serialize3 == "db3" \in objects /\ RunsCallback

\* DB_EACH: every row is in the answer before the first callback; an error
\* goes to the row callback (Query3).
Each3(rows, complete) ==
  /\ "db3" \in handles
  /\ rows > 0
  /\ Push([kind |-> "row", call |-> Scope, left |-> rows - 1,
           complete |-> complete])
  /\ UNCHANGED <<slots, live, tx, data, calls>>

\* DB_PREPARE of sqlite3
Prepare3(callback) ==
  /\ "db3" \in handles
  /\ New("stmt3")
  /\ Live("stmt3") \/ (callback /\ NotOpen)
  /\ Completes(callback)
  /\ UNCHANGED <<open, inTransaction, pluck, tx, data, calls>>

\* DB_CLOSE and STMT_FINALIZE: the handle is gone before the callback runs.
Close3(callback) ==
  /\ "db3" \in handles
  /\ handles' = ClearedHandles("db3")
  /\ live' = live \ {"db3", "stmt3"}
  /\ Completes(callback)
  /\ UNCHANGED <<objects, open, inTransaction, pluck, tx, data, calls>>

Finalize3(callback) ==
  /\ "stmt3" \in handles
  /\ "stmt3" \in live
  /\ handles' = ClearedHandles("stmt3")
  /\ live' = live \ {"stmt3"}
  /\ Completes(callback)
  /\ UNCHANGED <<objects, open, inTransaction, pluck, tx, data, calls>>

\* EACH_COMPLETE goes on with the next row, then with the callback that is
\* told the count.
AfterReturn ==
  CASE Top.kind = "row" /\ Top.left > 0 ->
         Append(Below, [Top EXCEPT !.left = @ - 1])
    [] Top.kind = "row" /\ Top.left = 0 /\ Top.complete ->
         Append(Below, Done)
    [] OTHER -> Below

\* A callback of sqlite3 returns.
CallbackReturns ==
  /\ stack # <<>> /\ Top.kind # "transaction"
  /\ stack' = AfterReturn
  /\ UNCHANGED <<slots, live, tx, data, calls>>

\* A callback of sqlite3 throws: the call it belongs to throws.
CallbackThrows ==
  /\ stack # <<>> /\ Top.kind # "transaction"
  /\ Pop
  /\ UNCHANGED <<slots, live, tx, data, calls>>

Next ==
  \/ Open \/ Write \/ FailedWrite \/ ScriptTransaction
  \/ Prepare \/ (\E enabled \in BOOLEAN : Pluck(enabled)) \/ Close
  \/ CallTransaction \/ TransactionReturns \/ TransactionThrows
  \/ Query3 \/ StatementQuery3 \/ Reset3 \/ Serialize3
  \/ \E rows \in 1..MaxRows, complete \in BOOLEAN : Each3(rows, complete)
  \/ \E callback \in BOOLEAN :
       \/ Open3(callback) \/ Prepare3(callback)
       \/ Close3(callback) \/ Finalize3(callback)
  \/ CallbackReturns \/ CallbackThrows

Spec == Init /\ [][Next]_vars

-----------------------------------------------------------------------------

\* A transaction call that returns its callback's value has made the writes
\* of the callback durable, and one that throws the callback's error has
\* undone them, whatever the callback and other callbacks did in between;
\* calls whose transaction the script's own SQL, a failed write or a close
\* ended are excepted.
OutcomeTellsWrites ==
  \A i \in DOMAIN wrote :
    wrote[i] # 0 /\ wrote[i] \notin broken =>
      /\ outcomes[wrote[i]] = "returned" => i \in durable
      /\ outcomes[wrote[i]] = "threw" => i \notin durable \union pending

\* A transaction that a transaction function began and left open, because
\* COMMIT was refused, shows in inTransaction: later writes join it and are
\* not durable.  Only a refused ROLLBACK leaves one that does not show.
LeftOpenShows == tx = "function" => inTransaction

\* No connection is used after its close or lost by a failed one: an object
\* has a handle exactly while the host holds what it names, also inside the
\* callbacks of close and finalize; statements of a closed connection alone
\* keep theirs.  The state keeps its type.
HandlesAreLive ==
  /\ TypeOK
  /\ live \subseteq handles
  /\ open = ("db" \in handles)
  /\ handles \intersect {"db", "db3"} \subseteq live
  /\ "stmt" \in handles /\ "db" \in live => "stmt" \in live
  /\ "stmt3" \in handles /\ "db3" \in live => "stmt3" \in live
=============================================================================
