------------------------------ MODULE RateLimit -----------------------------
(***************************************************************************)
(* tps-rate-limit, modules/rate-limit/src/lib.rs: one limiter, asked by    *)
(* its middleware or by consume() for each of the application's requests.  *)
(* The host counts and decides (external); its decision comes back after a *)
(* yield, in which other requests are decided, windows pass, and the       *)
(* response may be answered or closed.                                     *)
(***************************************************************************)
EXTENDS Integers, FiniteSets

CONSTANTS
  Requests,    \* requests of the application
  Clients,     \* identities (req.client.id)
  Weight,      \* the weight of a call
  Limit,       \* the limit of the limiter
  Windows      \* bound: windows

ASSUME RateLimitAssumption ==
  /\ IsFiniteSet(Requests)
  /\ Weight \in Nat \ {0} /\ Limit \in Nat \ {0} /\ Windows \in Nat \ {0}

NoClient == "no client"
NoDecision == "none"

VARIABLES
  limiter,     \* "none", "opening", "open"
  middleware,  \* whether the limiter's middleware has been made
  asked,       \* request -> how it asked: "no", "middleware", "consume"
  client,      \* request -> the identity of its client
  decision,    \* request -> the host's decision
  outcome,     \* request -> "pending", "handler", "refusal", "value", "rejected"
  response,    \* request -> "open", "answered", "closed"
  window,      \* the current window (host)
  spent        \* client -> weight consumed in it (host)

limitVars ==
  <<limiter, middleware, asked, client, decision, outcome, response, window, spent>>

LimitInit ==
  /\ limiter = "none"
  /\ middleware = FALSE
  /\ asked = [r \in Requests |-> "no"]
  /\ client \in [Requests -> Clients \union {NoClient}]
  /\ decision = [r \in Requests |-> NoDecision]
  /\ outcome = [r \in Requests |-> "pending"]
  /\ response = [r \in Requests |-> "open"]
  /\ window = 1
  /\ spent = [c \in Clients |-> 0]

\* positive_safe_integer, over the integers an application passes
PositiveSafeInteger(n) == n >= 1

\* OPEN: refused at once, or answered by the host later.
OpenLimiter(limit) ==
  /\ limiter = "none"
  /\ limiter' = IF PositiveSafeInteger(limit) THEN "opening" ELSE "none"
  /\ UNCHANGED <<middleware, asked, client, decision, outcome, response, window, spent>>

LimiterOpened ==
  /\ limiter = "opening"
  /\ limiter' \in {"open", "none"}
  /\ UNCHANGED <<middleware, asked, client, decision, outcome, response, window, spent>>

\* MIDDLEWARE: the weight and the status are checked once, before any request.
MakeMiddleware(weight, status) ==
  /\ limiter = "open"
  /\ middleware' = (middleware \/ (PositiveSafeInteger(weight) /\ status \in 400 .. 599))
  /\ UNCHANGED <<limiter, asked, client, decision, outcome, response, window, spent>>

\* Without an identity nothing is asked.
Ask(r, how, refused) ==
  /\ limiter = "open" /\ asked[r] = "no"
  /\ asked' = [asked EXCEPT ![r] = how]
  /\ outcome' = [outcome EXCEPT ![r] =
       IF refused \/ client[r] = NoClient THEN "rejected" ELSE @]
  /\ UNCHANGED <<limiter, middleware, client, decision, response, window, spent>>

\* MIDDLEWARE_CALL and CONSUME
CallMiddleware(r) == middleware /\ Ask(r, "middleware", FALSE)
Consume(r, weight) == Ask(r, "consume", ~PositiveSafeInteger(weight))

\* The host decides in the order it likes, or fails; a decision may lack its
\* flag.
Decide(r) ==
  LET fits == spent[client[r]] + Weight <= Limit
  IN /\ asked[r] # "no" /\ outcome[r] = "pending" /\ decision[r] = NoDecision
     /\ \/ decision' = [decision EXCEPT ![r] = IF fits THEN "allowed" ELSE "refused"]
           /\ spent' = IF fits THEN [spent EXCEPT ![client[r]] = @ + Weight] ELSE spent
        \/ decision' \in {[decision EXCEPT ![r] = d] : d \in {"odd", "error"}}
           /\ spent' = spent
     /\ UNCHANGED <<limiter, middleware, asked, client, outcome, response, window>>

NextWindow ==
  /\ window < Windows
  /\ window' = window + 1
  /\ spent' = [c \in Clients |-> 0]
  /\ UNCHANGED <<limiter, middleware, asked, client, decision, outcome, response>>

\* Mutant: only a decision that says no is a refusal.
AdmitsUnlessRefused(d) == d # "refused"

\* A decision without its flag is a refusal.
Admits(d) == d = "allowed"

\* RETURN_MIDDLEWARE and RETURN_JSON.  The handler is called whatever became
\* of the response; a refusal is sent through status, set and json, which
\* throw when the response has begun or the host does not accept it.
Resumed(r) ==
  /\ decision[r] # NoDecision /\ outcome[r] = "pending"
  /\ \E accepts \in BOOLEAN :
       LET refuses == accepts /\ response[r] = "open"
           result == IF decision[r] = "error" THEN "rejected"
                     ELSE IF asked[r] = "consume" THEN "value"
                     ELSE IF Admits(decision[r]) THEN "handler"
                     ELSE IF refuses THEN "refusal" ELSE "rejected"
       IN /\ outcome' = [outcome EXCEPT ![r] = result]
          /\ response' = [response EXCEPT ![r] =
               IF result = "refusal" THEN "answered" ELSE @]
  /\ UNCHANGED <<limiter, middleware, asked, client, decision, window, spent>>

\* The application answers, or the client goes away.
Leaves(r, state) ==
  /\ response[r] = "open"
  /\ response' = [response EXCEPT ![r] = state]
  /\ UNCHANGED <<limiter, middleware, asked, client, decision, outcome, window, spent>>

LimitNext ==
  \/ \E limit \in {0, Limit} : OpenLimiter(limit)
  \/ LimiterOpened \/ NextWindow
  \/ \E weight \in {0, Weight}, status \in {200, 429} : MakeMiddleware(weight, status)
  \/ \E r \in Requests :
       \/ CallMiddleware(r) \/ Decide(r) \/ Resumed(r)
       \/ \E weight \in {0, Weight} : Consume(r, weight)
       \/ \E state \in {"answered", "closed"} : Leaves(r, state)

LimitSpec == LimitInit /\ [][LimitNext]_limitVars

-----------------------------------------------------------------------------

\* Whatever is decided late, out of order or wrongly: the handlers that ran for
\* a client stay within the limits of the windows, each was charged, and a
\* request is handled or refused, never both.
WithinLimit ==
  /\ \A c \in Clients :
       Weight * Cardinality({r \in Requests : outcome[r] = "handler" /\ client[r] = c})
         <= Limit * window
  /\ \A r \in Requests :
       /\ outcome[r] = "handler" => decision[r] = "allowed"
       /\ outcome[r] = "refusal" => decision[r] # "allowed" /\ response[r] = "answered"
=============================================================================
