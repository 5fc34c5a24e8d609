--------------------------- MODULE ExpressSession ---------------------------
(***************************************************************************)
(* express-session (modules/express-session/src/lib.rs) over one request.  *)
(* Each middleware call loads a session from the host and puts a hook in   *)
(* front of the response's raw end: the hooks form a chain, the last one   *)
(* installed first.  A session is stored when the response ends, unless it *)
(* has not changed; destroy() and regenerate() act at once.                *)
(*                                                                         *)
(* The host completes every request synchronously and guest functions      *)
(* (next, the callbacks) are called last, so each call is one step and     *)
(* what they do are steps of their own.  The host is external: it may      *)
(* refuse any request, and no other request uses the same sessions         *)
(* meanwhile.  Middleware of one name and secret read one cookie: they may *)
(* load the same session into several hooks.  A session's fields are one   *)
(* value of Data, Empty when there are none; cookie options are one value. *)
(***************************************************************************)
EXTENDS Naturals, Sequences, FiniteSets, SequencesExt

CONSTANTS
  Ids,         \* the session ids of the host
  Data,        \* the fields of a session
  Empty,       \* no fields: a new session
  Configs,     \* the cookie options of the installed middleware
  Null, Undefined,
  MaxPresented,\* bound: sessions named by the cookies of the request
  MaxHooks,    \* bound: middleware calls in scope
  MaxObjects   \* bound: session objects

ASSUME ExpressSessionAssumption ==
  /\ Empty \in Data /\ Null \notin Data
  /\ Undefined \notin Configs /\ Undefined \notin [id : Ids, set : BOOLEAN]
  /\ MaxPresented \in Nat /\ MaxHooks \in Nat /\ MaxObjects \in Nat

VARIABLES
  presented, \* the sessions named by the cookies of the request; never changes
  store,     \* the host's sessions; Null when there is none
  used,      \* the ids this request has been given
  retired,   \* history: the hooks that destroyed or replaced a session, and it
  objects,   \* the objects the application has had as request.session
  session,   \* request.session
  hooks,     \* the private slots of the hooks, in the order of installation
  response,  \* streaming, the Set-Cookie headers, _expressEnded
  kept       \* history: the session data when the response ended

vars == <<presented, store, used, retired, objects, session, hooks, response,
          kept>>

Cookies == [id : Ids, set : BOOLEAN]

\* An object with the methods of a hook, or made by the application (hook 0).
Objects == [data : Data, cookie : Configs \union {Undefined}, hook : 0..MaxHooks]

\* TOKEN stands for the session it was issued for.
Hooks == [config    : Configs,                      \* OPTIONS
          token     : Ids,                          \* TOKEN
          original  : Data,                         \* ORIGINAL, without its cookie
          committed : BOOLEAN,                      \* COMMITTED
          destroyed : BOOLEAN,                      \* DESTROYED
          pending   : Cookies \union {Undefined}]   \* PENDING_COOKIE

TypeOK ==
  /\ presented \subseteq Ids
  /\ store \in [Ids -> Data \union {Null}]
  /\ used \subseteq Ids /\ retired \subseteq (1..MaxHooks) \X used
  /\ objects \in Seq(Objects) /\ Len(objects) <= MaxObjects
  /\ session \in DOMAIN objects \union {Null, Undefined}
  /\ hooks \in Seq(Hooks) /\ Len(hooks) <= MaxHooks
  /\ response \in [streaming : BOOLEAN, ended : BOOLEAN, cookies : Seq(Cookies)]
  /\ kept \in Data \union {Null, Undefined}

Init ==
  /\ store \in [Ids -> Data \union {Null}]
  /\ presented = {id \in Ids : store[id] # Null}
  /\ Cardinality(presented) <= MaxPresented
  /\ used = {} /\ retired = {}
  /\ objects = <<>> /\ session = Undefined
  /\ hooks = <<>>
  /\ response = [streaming |-> FALSE, ended |-> FALSE, cookies |-> <<>>]
  /\ kept = Undefined

-----------------------------------------------------------------------------
\* install_session: a fresh object becomes the current session.

Installed(h, config, data) ==
  /\ Len(objects) < MaxObjects
  /\ objects' = Append(objects, [data |-> data, cookie |-> config, hook |-> h])
  /\ session' = Len(objects) + 1

\* Mutant: the loaded data is not remembered for the comparison at the end.
RenewedKeepsOriginal(hook, id, data) ==
  [hook EXCEPT !.token = id, !.destroyed = FALSE]

\* install_session: the slots of the hook
Renewed(hook, id, data) ==
  [hook EXCEPT !.token = id, !.original = data, !.destroyed = FALSE]

FreshHook(config, id) ==
  [config |-> config, token |-> id, original |-> Empty, committed |-> FALSE,
   destroyed |-> FALSE, pending |-> Undefined]

\* What the next load of a session finds
Loaded(id) == IF store[id] = Null THEN Empty ELSE store[id]

\* An id that no cookie names and no hook has been given
Fresh(id) == id \notin used \union presented

\* The host loads the session a cookie names, as often as it is asked while
\* the session is there, and starts a new one otherwise.
Loadable(id) == (id \in presented /\ store[id] # Null) \/ Fresh(id)

\* The middleware, for a request within its cookie path.  A refused load
\* changes nothing.
Middleware(config, id) ==
  /\ Len(hooks) < MaxHooks /\ Loadable(id)
  /\ used' = used \union {id}
  /\ Installed(Len(hooks) + 1, config, Loaded(id))
  /\ hooks' = Append(hooks, Renewed(FreshHook(config, id), id, Loaded(id)))
  /\ UNCHANGED <<presented, store, retired, response, kept>>

-----------------------------------------------------------------------------
\* destroy() and regenerate()

\* Mutant: a session that has been written at the end can still be destroyed.
ActiveUntilReplaced(o) == objects[o].hook # 0 /\ session = o

\* The methods work only on the current session, and before the end.
ActiveSession(o) ==
  objects[o].hook # 0 /\ session = o /\ ~hooks[objects[o].hook].committed

\* PENDING_COOKIE after a reply that brings a cookie
Issued(hook, cookie) == [hook EXCEPT !.pending = cookie]

\* Mutant: DESTROYED is not set.
DestroyedUnmarked(hook) == hook

Destroyed(hook) == [hook EXCEPT !.destroyed = TRUE]

\* The host deletes the session and the cookie; a refusal goes to the callback.
Destroy(o) ==
  /\ ActiveSession(o)
  /\ LET h  == objects[o].hook
         id == hooks[h].token
     IN  /\ store' = [store EXCEPT ![id] = Null]
         /\ retired' = retired \union {<<h, id>>}
         /\ hooks' = [hooks EXCEPT
                        ![h] = Destroyed(Issued(@, [id |-> id, set |-> FALSE]))]
  /\ session' = Undefined
  /\ UNCHANGED <<presented, used, objects, response, kept>>

\* The host deletes the session and issues a new one, with its cookie.
Regenerate(o, id) ==
  /\ ActiveSession(o)
  /\ Fresh(id)
  /\ LET h   == objects[o].hook
         old == hooks[h].token
     IN  /\ Installed(h, hooks[h].config, Empty)
         /\ store' = [store EXCEPT ![old] = Null]
         /\ used' = used \union {id} /\ retired' = retired \union {<<h, old>>}
         /\ hooks' = [hooks EXCEPT
                        ![h] = Renewed(Issued(@, [id |-> id, set |-> TRUE]), id, Empty)]
  /\ UNCHANGED <<presented, response, kept>>

-----------------------------------------------------------------------------
\* The hook at the end of the response.

IsObject(s) == s \notin {Null, Undefined}

\* session_value: null, or the fields
Value(s) == IF s = Null THEN Null ELSE objects[s].data

\* data != original, where both include the cookie options
Changed(hook) ==
  \/ session = Null
  \/ Value(session) # hook.original
  \/ objects[session].cookie # hook.config

\* The hook throws before it asks the host for anything.
Refused(hook) ==
  \/ hook.committed
  \/ /\ ~hook.destroyed
     /\ \/ session = Undefined
        \/ IsObject(session) /\ objects[session].cookie # hook.config

Committing(hook) == ~hook.destroyed /\ Changed(hook)

\* Mutant: the cookie replaces the ones that are there.
AppendOnly(cookies, cookie) == <<cookie>>

\* append_cookie
AppendCookie(cookies, cookie) == Append(cookies, cookie)

HasCookie(hook) == hook.pending # Undefined

\* One hook of the chain: the commit, which stores the fields or nothing for
\* null, then the cookie, then COMMITTED.  The host may refuse the commit, or accept it with or without a new cookie, and
\* headers cannot be set while streaming.
Hook(x, h, refuses, with) ==
  LET hook    == x.hooks[h]
      cookie  == [id |-> hook.token, set |-> session # Null]
      written == IF Committing(hook)
                 THEN [x EXCEPT !.store[hook.token] = Value(session),
                                !.hooks[h] = IF with THEN Issued(@, cookie) ELSE @]
                 ELSE x
      now     == written.hooks[h]
  IN  IF x.thrown \/ Refused(hook) \/ (Committing(hook) /\ refuses)
      THEN [x EXCEPT !.thrown = TRUE]
      ELSE IF ~HasCookie(now) THEN [written EXCEPT !.hooks[h].committed = TRUE]
      ELSE IF response.streaming THEN [written EXCEPT !.thrown = TRUE]
      ELSE [written EXCEPT !.hooks[h].committed = TRUE,
                           !.cookies = AppendCookie(@, now.pending)]

\* The hooks from the last to the first, each calling the one before it.
Chained(refusing, with) ==
  LET chain[k \in 0..Len(hooks)] ==
        IF k = 0
        THEN [store |-> store, hooks |-> hooks, cookies |-> response.cookies,
              thrown |-> FALSE]
        ELSE LET h == Len(hooks) + 1 - k
             IN Hook(chain[k - 1], h, h = refusing, with)
  IN  chain[Len(hooks)]

\* response.end: the hooks, then the raw end, which may throw as well.
End(refusing, with, accepts) ==
  /\ ~response.ended
  /\ LET last == Chained(refusing, with)
         ends == ~last.thrown /\ accepts
     IN  /\ store' = last.store
         /\ hooks' = last.hooks
         /\ response' = [response EXCEPT !.cookies = last.cookies, !.ended = ends]
         /\ kept' = IF ends /\ session # Undefined THEN Value(session) ELSE kept
  /\ UNCHANGED <<presented, used, retired, objects, session>>

-----------------------------------------------------------------------------
\* The application.

\* Writing and flushing are replaced by functions that refuse once a hook is
\* installed.
Stream ==
  /\ hooks = <<>> /\ ~response.streaming /\ ~response.ended
  /\ response' = [response EXCEPT !.streaming = TRUE]
  /\ UNCHANGED <<presented, store, used, retired, objects, session, hooks, kept>>

\* An object of earlier is changed after it has been assigned again.
ChangeData(o, data) ==
  /\ session = o /\ objects[o].data # data
  /\ objects' = [objects EXCEPT ![o].data = data]
  /\ UNCHANGED <<presented, store, used, retired, session, hooks, response, kept>>

\* request.session is assigned null, undefined or an object of earlier.
Assign(value) ==
  /\ value # session
  /\ session' = value
  /\ UNCHANGED <<presented, store, used, retired, objects, hooks, response, kept>>

\* An object of the application's own, as from {...request.session}.
AssignFresh(data, cookie) ==
  /\ Len(objects) < MaxObjects
  /\ objects' = Append(objects, [data |-> data, cookie |-> cookie, hook |-> 0])
  /\ session' = Len(objects) + 1
  /\ UNCHANGED <<presented, store, used, retired, hooks, response, kept>>

Next ==
  \/ \E config \in Configs, id \in Ids : Middleware(config, id)
  \/ \E o \in DOMAIN objects : Destroy(o)
  \/ \E o \in DOMAIN objects, id \in Ids : Regenerate(o, id)
  \/ \E refusing \in 0..Len(hooks), with, accepts \in BOOLEAN :
       End(refusing, with, accepts)
  \/ Stream
  \/ \E o \in DOMAIN objects, data \in Data : ChangeData(o, data)
  \/ \E value \in DOMAIN objects \union {Null, Undefined} : Assign(value)
  \/ \E data \in Data, cookie \in Configs \union {Undefined} : AssignFresh(data, cookie)

Spec == Init /\ [][Next]_vars

-----------------------------------------------------------------------------
\* Properties.

Retired(id) == \E h \in 1..MaxHooks : <<h, id>> \in retired

\* When the response has ended, the next request will find in every session
\* of this one what request.session held at the end, however the session got
\* there: loaded by one hook or several, changed, replaced, regenerated,
\* refused at an earlier end.  The exceptions are the sessions some hook has
\* destroyed or replaced.
EndedIsStored ==
  response.ended =>
    \A h \in DOMAIN hooks :
      hooks[h].committed /\ ~hooks[h].destroyed /\ ~Retired(hooks[h].token) =>
        IF kept = Null THEN store[hooks[h].token] = Null
        ELSE Loaded(hooks[h].token) = kept

\* A session that was destroyed or replaced is never stored again by the hook
\* that did: not at the end, not from stale objects, not through
\* request.session assigned later.  Only another hook that has loaded the same
\* session, and has not destroyed it, may.  The state keeps its type.
RetiredStayGone ==
  /\ TypeOK
  /\ \A gone \in retired :
       \/ store[gone[2]] = Null
       \/ \E h \in DOMAIN hooks :
            h # gone[1] /\ hooks[h].token = gone[2] /\ ~hooks[h].destroyed

\* The last cookie the host issued for a session reaches the client with the
\* response, whoever else sets cookies and whatever failed before.
CookiesDelivered ==
  response.ended =>
    \A h \in DOMAIN hooks :
      hooks[h].committed /\ hooks[h].pending # Undefined =>
        Contains(response.cookies, hooks[h].pending)

\* A session that the end has settled is not touched any more in this request,
\* unless another hook has loaded it that no end has settled.
SettledByEnd ==
  [][\A h \in DOMAIN hooks :
       hooks[h].committed =>
         /\ hooks'[h] = hooks[h]
         /\ \/ store'[hooks[h].token] = store[hooks[h].token]
            \/ \E g \in DOMAIN hooks :
                 hooks[g].token = hooks[h].token /\ ~hooks[g].committed]_vars
=============================================================================
