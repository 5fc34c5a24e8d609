------------------------ MODULE ExpressSessionProofs ------------------------
(***************************************************************************)
(* Proofs about ExpressSession.  Several hooks may have the same session.  *)
(* The inductive invariant says what holds until an end has written: each  *)
(* hook's session is as the hook loaded it, unless a hook destroyed it.    *)
(* Once an end has written, some hook is committed or stuck with a cookie  *)
(* it cannot send, and the response can no longer end.                     *)
(***************************************************************************)
EXTENDS ExpressSession, WellFoundedInduction, TLAPS

\* Sessions are this request's; a hook that removed one no longer stores it.
TokensUsed ==
  \A h \in DOMAIN hooks :
    /\ hooks[h].token \in used
    /\ <<h, hooks[h].token>> \in retired => hooks[h].destroyed

\* The hooks that removed a session are there.
RetiredOwned == \A gone \in retired : gone[1] \in DOMAIN hooks

\* The host has nothing under an id it has not issued.
FreshEmpty == \A id \in Ids : Fresh(id) => store[id] = Null

\* Objects belong to hooks that are there.
ObjectsOwned == \A o \in DOMAIN objects : objects[o].hook \in 0..Len(hooks)

\* What was stored by an end that then failed on the cookie, and always will.
Stuck(hook) == response.streaming /\ hook.pending # Undefined

Now == [store |-> store, hooks |-> hooks, cookies |-> response.cookies, thrown |-> FALSE]

\* The response cannot end: a hook throws at every end.
Blocked(x) == \E h \in DOMAIN hooks : x.hooks[h].committed \/ Stuck(x.hooks[h])

\* While it can, sessions are as they were loaded.
AsLoaded ==
  \A h \in DOMAIN hooks :
    ~hooks[h].committed /\ ~hooks[h].destroyed /\ ~Retired(hooks[h].token) =>
      Loaded(hooks[h].token) = hooks[h].original \/ Blocked(Now)

\* The cookie of a settled session is on its way.
CookiesKept(x) ==
  \A h \in DOMAIN hooks :
    x.hooks[h].committed /\ x.hooks[h].pending # Undefined =>
      Contains(x.cookies, x.hooks[h].pending)

SessionInv ==
  /\ RetiredStayGone
  /\ TokensUsed /\ RetiredOwned /\ FreshEmpty /\ ObjectsOwned
  /\ AsLoaded /\ CookiesKept(Now)
  /\ EndedIsStored

-----------------------------------------------------------------------------
\* Sets, sequences and records.

\* A set of naturals that is not empty has a least number.
LEMMA LeastNatural ==
  ASSUME NEW T \in SUBSET Nat, T # {}
  PROVE  \E m \in T : \A n \in T : m <= n
<1> DEFINE R == {p \in Nat \X Nat : p[1] < p[2]}
<1>1. IsWellFoundedOn(R, Nat)
  BY NatLessThanWellFounded DEF OpToRel
<1>2. \E x \in T : \A y \in T : <<y, x>> \notin R
  <2> HIDE DEF R
  <2> QED BY <1>1, WFMin
<1>3. PICK m \in T : \A y \in T : <<y, m>> \notin R
  BY <1>2
<1>4. ASSUME NEW n \in T PROVE m <= n
  <2>1. <<n, m>> \notin R
    BY <1>3
  <2>2. m \in Nat /\ n \in Nat
    OBVIOUS
  <2> QED BY <2>1, <2>2
<1> QED BY <1>4

\* A sequence with one element replaced.
LEMMA Replaced ==
  ASSUME NEW S, NEW s \in Seq(S), NEW i \in DOMAIN s, NEW e \in S
  PROVE  LET t == [s EXCEPT ![i] = e]
         IN /\ t \in Seq(S) /\ Len(t) = Len(s) /\ DOMAIN t = DOMAIN s
            /\ t[i] = e /\ \A j \in DOMAIN s : j # i => t[j] = s[j]
  OBVIOUS

\* A sequence one element longer.
LEMMA Longer ==
  ASSUME NEW S, NEW s \in Seq(S), NEW e \in S
  PROVE  LET t == Append(s, e)
         IN /\ t \in Seq(S) /\ Len(t) = Len(s) + 1 /\ Len(s) \in Nat
            /\ DOMAIN s = 1..Len(s) /\ DOMAIN t = 1..(Len(s) + 1)
            /\ t[Len(s) + 1] = e /\ \A j \in DOMAIN s : t[j] = s[j]
  OBVIOUS

\* What a list of cookies holds stays in it.
LEMMA ContainsMore ==
  ASSUME NEW s \in Seq(Cookies), NEW e \in Cookies
  PROVE  /\ Contains(Append(s, e), e)
         /\ \A c : Contains(s, c) => Contains(Append(s, e), c)
  BY DEF Contains

-----------------------------------------------------------------------------
\* One hook of the chain.

ChainStates == [store : [Ids -> Data \union {Null}], hooks : Seq(Hooks), cookies : Seq(Cookies),
                thrown : BOOLEAN]

\* Slots that a hook of the chain leaves alone.
SameSession(new, old) ==
  /\ new.config = old.config /\ new.token = old.token
  /\ new.original = old.original /\ new.destroyed = old.destroyed

\* The hook with its last cookie.
Cooked(hook, pending) == [hook EXCEPT !.pending = pending]

\* A hook that asked the host commits, or is stuck with its cookie.
Done(x, h, pending) ==
  LET hook == x.hooks[h]
      sent == Cooked(hook, pending)
  IN [store   |-> IF Committing(hook) THEN [x.store EXCEPT ![hook.token] = Value(session)]
                                      ELSE x.store,
      hooks   |-> [x.hooks EXCEPT ![h] = IF Stuck(sent) THEN sent
                                         ELSE [sent EXCEPT !.committed = TRUE]],
      cookies |-> IF pending = Undefined \/ response.streaming THEN x.cookies
                  ELSE Append(x.cookies, pending),
      thrown  |-> Stuck(sent)]

\* A hook throws and leaves everything alone, or is done.
LEMMA HookDone ==
  ASSUME NEW x \in ChainStates, NEW h \in DOMAIN x.hooks,
         NEW refuses \in BOOLEAN, NEW with \in BOOLEAN
  PROVE  \/ Hook(x, h, refuses, with) = [x EXCEPT !.thrown = TRUE]
         \/ \E pending \in Cookies \union {Undefined} :
              /\ ~x.thrown /\ ~Refused(x.hooks[h])
              /\ pending \in Cookies \/ pending = x.hooks[h].pending
              /\ Hook(x, h, refuses, with) = Done(x, h, pending)
<1> DEFINE hook    == x.hooks[h]
           cookie  == [id |-> hook.token, set |-> session # Null]
           commits == Committing(hook)
           written == IF commits
                      THEN [x EXCEPT !.store[hook.token] = Value(session),
                                     !.hooks[h] = IF with THEN Issued(@, cookie) ELSE @]
                      ELSE x
           pending == IF commits /\ with THEN cookie ELSE hook.pending
           store1  == IF commits THEN [x.store EXCEPT ![hook.token] = Value(session)] ELSE x.store
           hooks1  == [x.hooks EXCEPT ![h] = Cooked(hook, pending)]
<1>1. hook \in Hooks /\ x.hooks \in Seq(Hooks)
  BY DEF ChainStates
<1>2. pending \in Cookies \union {Undefined}
  BY <1>1 DEF Hooks, Cookies
<1>3. CASE x.thrown \/ Refused(hook) \/ (commits /\ refuses)
  BY <1>3 DEF Hook
<1>4. CASE ~(x.thrown \/ Refused(hook) \/ (commits /\ refuses))
  <2>1. ~x.thrown /\ ~Refused(hook) /\ x.thrown = FALSE
    BY <1>4 DEF ChainStates
  <2>2. Cooked(hook, hook.pending) = hook
    BY <1>1 DEF Hooks, Cooked
  <2>3. [x.hooks EXCEPT ![h] = hook] = x.hooks
    BY <1>1
  <2>4. written = [store |-> store1, hooks |-> hooks1, cookies |-> x.cookies,
                   thrown |-> FALSE]
    <3>1. CASE ~commits
      BY <2>1, <2>2, <2>3, <3>1 DEF ChainStates
    <3>2. CASE commits /\ ~with
      BY <2>1, <2>2, <2>3, <3>2 DEF ChainStates
    <3>3. CASE commits /\ with
      BY <2>1, <3>3 DEF ChainStates, Issued, Cooked
    <3> QED BY <3>1, <3>2, <3>3
  <2>5. written.hooks[h] = Cooked(hook, pending)
    <3>1. hooks1[h] = Cooked(hook, pending)
      BY <1>1
    <3> HIDE DEF hooks1, pending, store1, written
    <3> QED BY <2>4, <3>1
  <2>6. Cooked(hook, pending).pending = pending
    <3> HIDE DEF pending
    <3> QED BY <1>1 DEF Hooks, Cooked
  <2>7. Hook(x, h, refuses, with) =
          IF Cooked(hook, pending).pending = Undefined
          THEN [written EXCEPT !.hooks[h].committed = TRUE]
          ELSE IF response.streaming THEN [written EXCEPT !.thrown = TRUE]
          ELSE [written EXCEPT !.hooks[h].committed = TRUE,
                               !.cookies = Append(@, Cooked(hook, pending).pending)]
    <3>1. Hook(x, h, refuses, with) =
            LET now == written.hooks[h]
            IN IF ~HasCookie(now)
               THEN [written EXCEPT !.hooks[h].committed = TRUE]
               ELSE IF response.streaming THEN [written EXCEPT !.thrown = TRUE]
               ELSE [written EXCEPT !.hooks[h].committed = TRUE,
                                    !.cookies = AppendCookie(@, now.pending)]
      BY <1>4, Zenon DEF Hook
    <3> HIDE DEF written, pending, hook
    <3> QED BY <2>5, <3>1 DEF HasCookie, AppendCookie
  <2>8. Done(x, h, pending) =
          [store   |-> store1,
           hooks   |-> IF pending # Undefined /\ response.streaming THEN hooks1
                       ELSE [x.hooks EXCEPT ![h] = [Cooked(hook, pending) EXCEPT !.committed = TRUE]],
           cookies |-> IF pending = Undefined \/ response.streaming THEN x.cookies
                       ELSE Append(x.cookies, pending),
           thrown  |-> pending # Undefined /\ response.streaming]
    <3> HIDE DEF pending
    <3>1. Stuck(Cooked(hook, pending)) <=> pending # Undefined /\ response.streaming
      BY <2>6 DEF Stuck
    <3>2. CASE Stuck(Cooked(hook, pending))
      BY <3>1, <3>2, ZenonT(30) DEF Done
    <3>3. CASE ~Stuck(Cooked(hook, pending))
      <4>1. /\ Stuck(Cooked(hook, pending)) = FALSE
            /\ (pending # Undefined /\ response.streaming) = FALSE
        BY <3>1, <3>3
      <4> QED BY <3>3, <4>1 DEF Done
    <3> QED BY <3>2, <3>3
  <2>9. [hooks1 EXCEPT ![h].committed = TRUE]
          = [x.hooks EXCEPT ![h] = [Cooked(hook, pending) EXCEPT !.committed = TRUE]]
    <3> HIDE DEF pending, hook
    <3> QED BY <1>1
  <2>10. Hook(x, h, refuses, with) = Done(x, h, pending)
    <3> HIDE DEF pending, hook, hooks1, store1, written
    <3>1. CASE pending = Undefined
      BY <2>4, <2>6, <2>7, <2>8, <2>9, <3>1
    <3>2. CASE pending # Undefined /\ response.streaming
      BY <2>4, <2>6, <2>7, <2>8, <3>2
    <3>3. CASE pending # Undefined /\ ~response.streaming
      BY <2>4, <2>6, <2>7, <2>8, <2>9, <3>3
    <3> QED BY <3>1, <3>2, <3>3
  <2>11. pending \in Cookies \/ pending = hook.pending
    BY <1>1 DEF Hooks, Cookies
  <2> QED BY <1>2, <2>1, <2>10, <2>11
<1> QED BY <1>3, <1>4

\* What a hook that is done leaves behind.
DoneTo(x, h, pending, y) ==
  LET hook == x.hooks[h]
  IN /\ y \in ChainStates /\ Len(y.hooks) = Len(x.hooks)
     /\ \A g \in DOMAIN x.hooks : g # h => y.hooks[g] = x.hooks[g]
     /\ SameSession(y.hooks[h], hook)
     /\ y.hooks[h].pending = pending
     /\ y.hooks[h].committed = ~y.thrown
     /\ y.thrown <=> pending # Undefined /\ response.streaming
     /\ \A id \in Ids : id # hook.token => y.store[id] = x.store[id]
     /\ y.store[hook.token] = IF Committing(hook) THEN Value(session) ELSE x.store[hook.token]
     /\ \A c : Contains(x.cookies, c) => Contains(y.cookies, c)
     /\ pending # Undefined /\ ~y.thrown => Contains(y.cookies, pending)

LEMMA DoneFacts ==
  ASSUME TypeOK, NEW x \in ChainStates, NEW h \in DOMAIN x.hooks,
         ~Refused(x.hooks[h]), NEW pending \in Cookies \union {Undefined}
  PROVE  DoneTo(x, h, pending, Done(x, h, pending))
<1> DEFINE y      == Done(x, h, pending)
           hook   == x.hooks[h]
           sent   == Cooked(hook, pending)
           after  == IF Stuck(sent) THEN sent ELSE [sent EXCEPT !.committed = TRUE]
           store1 == IF Committing(hook) THEN [x.store EXCEPT ![hook.token] = Value(session)]
                     ELSE x.store
           cookies1 == IF pending = Undefined \/ response.streaming THEN x.cookies
                       ELSE Append(x.cookies, pending)
<1>1. /\ x.store \in [Ids -> Data \union {Null}] /\ x.hooks \in Seq(Hooks) /\ x.cookies \in Seq(Cookies)
      /\ hook \in Hooks
  BY DEF ChainStates
<1>2. Committing(hook) => Value(session) \in Data \union {Null}
  <2>1. ASSUME Committing(hook) PROVE session # Undefined
    BY <2>1 DEF Committing, Refused
  <2>2. session \in DOMAIN objects \/ session = Null \/ session = Undefined
    BY DEF TypeOK
  <2>3. \A o \in DOMAIN objects : objects[o].data \in Data
    <3>1. objects \in Seq(Objects)
      BY DEF TypeOK
    <3>2. \A o \in DOMAIN objects : objects[o] \in Objects
      BY <3>1
    <3> QED BY <3>2 DEF Objects
  <2> QED BY <2>1, <2>2, <2>3 DEF Value
<1>3. ~hook.committed
  BY DEF Refused
<1>4. Stuck(sent) <=> pending # Undefined /\ response.streaming
  <2>1. sent.pending = pending
    BY <1>1 DEF Hooks, Cooked
  <2> QED BY <2>1 DEF Stuck
<1>5. /\ after \in Hooks /\ SameSession(after, hook) /\ after.pending = pending
      /\ after.committed = ~Stuck(sent)
  <2>1. /\ sent \in Hooks /\ SameSession(sent, hook) /\ sent.pending = pending
        /\ sent.committed = FALSE
    <3>1. hook.committed = FALSE
      BY <1>1, <1>3 DEF Hooks
    <3> HIDE DEF hook
    <3> QED BY <1>1, <3>1 DEF Hooks, Cooked, SameSession
  <2> HIDE DEF sent, hook
  <2>2. CASE Stuck(sent)
    BY <2>1, <2>2
  <2>3. CASE ~Stuck(sent)
    BY <2>1, <2>3 DEF Hooks, SameSession
  <2> QED BY <2>2, <2>3
<1>6. /\ y = [store |-> store1, hooks |-> [x.hooks EXCEPT ![h] = after],
              cookies |-> cookies1, thrown |-> Stuck(sent)]
  BY DEF Done
<1>7. /\ store1 \in [Ids -> Data \union {Null}]
      /\ \A id \in Ids : id # hook.token => store1[id] = x.store[id]
      /\ store1[hook.token] = IF Committing(hook) THEN Value(session) ELSE x.store[hook.token]
  <2>1. hook.token \in Ids
    BY <1>1 DEF Hooks
  <2> HIDE DEF hook
  <2>2. CASE Committing(hook)
    BY <1>1, <1>2, <2>1, <2>2
  <2>3. CASE ~Committing(hook)
    BY <1>1, <2>3
  <2> QED BY <2>2, <2>3
<1>8. /\ cookies1 \in Seq(Cookies)
      /\ \A c : Contains(x.cookies, c) => Contains(cookies1, c)
      /\ pending # Undefined /\ ~response.streaming => Contains(cookies1, pending)
  <2>1. CASE pending = Undefined \/ response.streaming
    BY <1>1, <2>1
  <2>2. CASE pending # Undefined /\ ~response.streaming
    BY <1>1, <2>2, ContainsMore
  <2> QED BY <2>1, <2>2
<1>9. LET t == [x.hooks EXCEPT ![h] = after]
      IN /\ t \in Seq(Hooks) /\ Len(t) = Len(x.hooks) /\ DOMAIN t = DOMAIN x.hooks
         /\ t[h] = after /\ \A g \in DOMAIN x.hooks : g # h => t[g] = x.hooks[g]
  BY <1>1, <1>5, Replaced
<1>10. Stuck(sent) \in BOOLEAN
  BY DEF Stuck
<1> HIDE DEF y, store1, cookies1, sent, after, hook
<1>11. /\ y.store = store1 /\ y.cookies = cookies1 /\ y.thrown = Stuck(sent)
       /\ y.hooks = [x.hooks EXCEPT ![h] = after] /\ y \in ChainStates
  BY <1>6, <1>7, <1>8, <1>9, <1>10 DEF ChainStates
<1>12. /\ y.hooks \in Seq(Hooks) /\ Len(y.hooks) = Len(x.hooks) /\ y.hooks[h] = after
       /\ \A g \in DOMAIN x.hooks : g # h => y.hooks[g] = x.hooks[g]
  BY <1>9, <1>11
<1>13. y.hooks[h].committed = ~y.thrown
  BY <1>5, <1>11, <1>12, Zenon
<1>14. /\ \A id \in Ids : id # hook.token => y.store[id] = x.store[id]
       /\ y.store[hook.token] = IF Committing(hook) THEN Value(session) ELSE x.store[hook.token]
  BY <1>7, <1>11
<1>15. /\ \A c : Contains(x.cookies, c) => Contains(y.cookies, c)
       /\ pending # Undefined /\ ~y.thrown => Contains(y.cookies, pending)
       /\ y.thrown <=> pending # Undefined /\ response.streaming
  BY <1>4, <1>8, <1>11
<1>16. DoneTo(x, h, pending, y)
  BY <1>5, <1>11, <1>12, <1>13, <1>14, <1>15 DEF DoneTo, hook
<1> QED BY <1>16 DEF y

-----------------------------------------------------------------------------
\* The chain.

\* A hook has committed: the store holds what the session held.
Settled(x, h) ==
  /\ x.hooks[h].committed
  /\ ~hooks[h].destroyed =>
       /\ session # Undefined
       /\ \/ Retired(hooks[h].token)
          \/ x.store[hooks[h].token] = Value(session)
          \/ x.store[hooks[h].token] = Null /\ Value(session) = Empty

\* After the last k hooks: no slot but COMMITTED and PENDING_COOKIE has changed,
\* nothing that was committed and no hook before them has changed at all, only
\* sessions of hooks that were neither committed nor destroyed have been
\* written, all with the same, and then the response is blocked or all k hooks
\* have settled theirs.
Reached(x, k) ==
  /\ x \in ChainStates /\ Len(x.hooks) = Len(hooks)
  /\ \A g \in DOMAIN hooks : SameSession(x.hooks[g], hooks[g])
  /\ \A g \in DOMAIN hooks :
       hooks[g].committed \/ g <= Len(hooks) - k => x.hooks[g] = hooks[g]
  /\ \A id \in Ids :
       (\A g \in DOMAIN hooks :
          hooks[g].token = id => hooks[g].committed \/ hooks[g].destroyed) =>
         x.store[id] = store[id]
  /\ \A id \in Ids : x.store[id] = store[id] \/ x.store[id] = Value(session)
  /\ (x.store = store /\ x.hooks = hooks) \/ Blocked(x)
  /\ CookiesKept(x)
  /\ ~x.thrown => \A g \in DOMAIN hooks : g > Len(hooks) - k =>
       /\ ~hooks[g].committed /\ ~Stuck(hooks[g])
       /\ Blocked(Now) \/ Settled(x, g)

\* A hook that throws reaches the next state of the chain.
LEMMA ThrownReaches ==
  ASSUME NEW x, NEW k \in Nat, Reached(x, k), Len(hooks) \in Nat, DOMAIN hooks = 1..Len(hooks)
  PROVE  Reached([x EXCEPT !.thrown = TRUE], k + 1)
<1> DEFINE y == [x EXCEPT !.thrown = TRUE]
<1>1. /\ y \in ChainStates /\ y.hooks = x.hooks /\ y.store = x.store
      /\ y.cookies = x.cookies /\ y.thrown
  BY DEF Reached, ChainStates
<1>2. \A g \in DOMAIN hooks : g <= Len(hooks) - (k + 1) => g <= Len(hooks) - k
  OBVIOUS
<1> HIDE DEF y
<1>3. CookiesKept(y) /\ (Blocked(x) => Blocked(y))
  BY <1>1 DEF Reached, Blocked, CookiesKept
<1>4. Reached(y, k + 1)
  BY <1>1, <1>2, <1>3 DEF Reached
<1> QED BY <1>4 DEF y

\* So does one that is done.
LEMMA DoneReaches ==
  ASSUME SessionInv, NEW x, NEW k \in Nat, Reached(x, k),
         NEW h \in DOMAIN hooks, h = Len(hooks) - k,
         ~x.thrown, ~Refused(x.hooks[h]), NEW pending \in Cookies \union {Undefined},
         pending \in Cookies \/ pending = x.hooks[h].pending
  PROVE  Reached(Done(x, h, pending), k + 1)
<1> DEFINE y    == Done(x, h, pending)
           hook == hooks[h]
<1>1. /\ hooks \in Seq(Hooks) /\ Len(hooks) \in Nat /\ DOMAIN hooks = 1..Len(hooks)
      /\ x \in ChainStates /\ DOMAIN x.hooks = DOMAIN hooks
      /\ \A g \in DOMAIN hooks : hooks[g].token \in Ids
  <2>1. hooks \in Seq(Hooks)
    BY DEF SessionInv, RetiredStayGone, TypeOK
  <2>2. x \in ChainStates /\ Len(x.hooks) = Len(hooks)
    BY DEF Reached
  <2>3. x.hooks \in Seq(Hooks)
    BY <2>2 DEF ChainStates
  <2>4. \A g \in DOMAIN hooks : hooks[g] \in Hooks
    BY <2>1
  <2>5. \A g \in DOMAIN hooks : hooks[g].token \in Ids
    BY <2>4 DEF Hooks
  <2> QED BY <2>1, <2>2, <2>3, <2>5
<1>2. x.hooks[h] = hook
  BY DEF Reached
<1>3. ~hook.committed
  BY <1>2 DEF Refused
<1>4. /\ y \in ChainStates /\ Len(y.hooks) = Len(hooks)
      /\ \A g \in DOMAIN hooks : g # h => y.hooks[g] = x.hooks[g]
      /\ SameSession(y.hooks[h], hook)
      /\ y.hooks[h].pending = pending
      /\ y.hooks[h].committed = ~y.thrown
      /\ y.thrown <=> pending # Undefined /\ response.streaming
      /\ \A id \in Ids : id # hook.token => y.store[id] = x.store[id]
      /\ y.store[hook.token] = IF Committing(hook) THEN Value(session) ELSE x.store[hook.token]
      /\ \A c : Contains(x.cookies, c) => Contains(y.cookies, c)
      /\ pending # Undefined /\ ~y.thrown => Contains(y.cookies, pending)
  <2>1. TypeOK /\ h \in DOMAIN x.hooks /\ Len(x.hooks) = Len(hooks)
    BY <1>1 DEF SessionInv, RetiredStayGone, Reached
  <2>2. DoneTo(x, h, pending, y)
    BY <1>1, <2>1, DoneFacts
  <2> HIDE DEF y
  <2>3. \A g \in DOMAIN hooks : g # h => y.hooks[g] = x.hooks[g]
    BY <1>1, <2>2 DEF DoneTo
  <2>4. y.store[hook.token] = IF Committing(hook) THEN Value(session) ELSE x.store[hook.token]
    BY <1>2, <2>2, Zenon DEF DoneTo
  <2>5. y.hooks[h].committed = ~y.thrown
    BY <2>2, Zenon DEF DoneTo
  <2> HIDE DEF hook
  <2> QED BY <1>2, <2>1, <2>2, <2>3, <2>4, <2>5, Zenon DEF DoneTo
<1> HIDE DEF y
<1>5. \A id \in Ids : y.store[id] = x.store[id] \/ y.store[id] = Value(session)
  BY <1>4
<1>6. \A g \in DOMAIN hooks : SameSession(y.hooks[g], hooks[g])
  BY <1>4 DEF Reached
<1>7. ASSUME NEW g \in DOMAIN hooks, hooks[g].committed \/ g <= Len(hooks) - (k + 1)
      PROVE  y.hooks[g] = hooks[g]
  <2>1. g # h /\ (hooks[g].committed \/ g <= Len(hooks) - k)
    BY <1>1, <1>3, <1>7
  <2> QED BY <1>4, <2>1 DEF Reached
<1>8. ASSUME NEW id \in Ids,
             \A g \in DOMAIN hooks :
               hooks[g].token = id => hooks[g].committed \/ hooks[g].destroyed
      PROVE  y.store[id] = store[id]
  <2>1. x.store[id] = store[id]
    BY <1>8 DEF Reached
  <2>2. CASE id # hook.token
    BY <1>4, <2>1, <2>2
  <2>3. CASE id = hook.token
    <3>1. ~Committing(hook)
      BY <1>3, <1>8, <2>3 DEF Committing
    <3> QED BY <1>4, <2>1, <2>3, <3>1
  <2> QED BY <2>2, <2>3
<1>9. Blocked(y)
  BY <1>4 DEF Blocked, Stuck
<1>10. CookiesKept(y)
  <2> SUFFICES ASSUME NEW g \in DOMAIN hooks,
                      y.hooks[g].committed, y.hooks[g].pending # Undefined
               PROVE  Contains(y.cookies, y.hooks[g].pending)
    BY DEF CookiesKept
  <2>1. CASE g = h
    BY <1>4, <2>1
  <2>2. CASE g # h
    BY <1>4, <2>2 DEF Reached, CookiesKept
  <2> QED BY <2>1, <2>2
<1>11. ASSUME ~y.thrown, NEW g \in DOMAIN hooks, g > Len(hooks) - (k + 1)
       PROVE  /\ ~hooks[g].committed /\ ~Stuck(hooks[g])
              /\ Blocked(Now) \/ Settled(y, g)
  <2>1. CASE g = h
    <3>1. ~Stuck(hook)
      BY <1>2, <1>4, <1>11, ExpressSessionAssumption DEF Stuck, Cookies
    <3>2. ASSUME ~Blocked(Now), ~hook.destroyed
          PROVE  /\ session # Undefined
                 /\ \/ Retired(hook.token)
                    \/ y.store[hook.token] = Value(session)
                    \/ y.store[hook.token] = Null /\ Value(session) = Empty
      <4>1. session # Undefined
        BY <1>2, <3>2 DEF Refused
      <4>2. CASE Committing(hook)
        BY <1>4, <4>1, <4>2
      <4>3. CASE Retired(hook.token)
        BY <4>1, <4>3
      <4>4. CASE ~Committing(hook) /\ ~Retired(hook.token)
        <5>1. Value(session) = hook.original
          BY <3>2, <4>4 DEF Committing, Changed
        <5>2. Loaded(hook.token) = hook.original
          BY <1>3, <3>2, <4>4 DEF SessionInv, AsLoaded
        <5>3. y.store[hook.token] = store[hook.token] \/ y.store[hook.token] = Value(session)
          BY <1>1, <1>4, <4>4 DEF Reached
        <5> QED BY <4>1, <5>1, <5>2, <5>3 DEF Loaded
      <4> QED BY <4>2, <4>3, <4>4
    <3>3. y.hooks[h].committed
      BY <1>4, <1>11
    <3> QED BY <1>3, <2>1, <3>1, <3>2, <3>3 DEF Settled
  <2>2. CASE g # h
    <3>1. g > Len(hooks) - k
      BY <1>1, <1>11, <2>2
    <3>2. ~hooks[g].committed /\ ~Stuck(hooks[g]) /\ (Blocked(Now) \/ Settled(x, g))
      BY <3>1 DEF Reached
    <3>3. y.hooks[g] = x.hooks[g] /\ hooks[g].token \in Ids
      BY <1>1, <1>4, <2>2
    <3> QED BY <1>5, <3>2, <3>3 DEF Settled
  <2> QED BY <2>1, <2>2
<1>12. \A id \in Ids : y.store[id] = store[id] \/ y.store[id] = Value(session)
  BY <1>5 DEF Reached
<1>13. Reached(y, k + 1)
  BY <1>4, <1>6, <1>7, <1>8, <1>9, <1>10, <1>11, <1>12 DEF Reached
<1> QED BY <1>13 DEF y

\* The kth link of the chain.
Link(x, k, refusing, with) ==
  Hook(x, Len(hooks) + 1 - k, (Len(hooks) + 1 - k) = refusing, with)

\* The chain of the last n hooks.
ChainTo(n, f, refusing, with) ==
  f = [k \in 0..n |-> IF k = 0 THEN Now ELSE Link(f[k - 1], k, refusing, with)]

\* A chain can be made one link longer.
LEMMA ChainContinues ==
  ASSUME NEW refusing, NEW with, NEW n \in Nat \ {0}, NEW f, ChainTo(n - 1, f, refusing, with)
  PROVE  \E g : ChainTo(n, g, refusing, with)
<1> DEFINE Next1(q, k) == IF k = 0 THEN Now ELSE Link(q[k - 1], k, refusing, with)
           g == [k \in 0..n |-> IF k = n THEN Link(f[n - 1], n, refusing, with) ELSE f[k]]
<1>1. ASSUME NEW k \in 0..n PROVE g[k] = Next1(g, k)
  <2>1. g[k] = IF k = n THEN Link(f[n - 1], n, refusing, with) ELSE f[k]
    OBVIOUS
  <2>2. k # 0 => k - 1 \in 0..n /\ k - 1 # n
    OBVIOUS
  <2>3. k # 0 => g[k - 1] = f[k - 1]
    BY <2>2
  <2>4. CASE k = n
    BY <2>1, <2>3, <2>4
  <2>5. CASE k # n
    <3>1. k \in 0..(n - 1)
      BY <2>5
    <3>2. f = [j \in 0..(n - 1) |-> Next1(f, j)]
      BY DEF ChainTo
    <3> HIDE DEF Next1
    <3>3. f[k] = Next1(f, k)
      BY <3>1, <3>2
    <3> USE DEF Next1
    <3> HIDE DEF g
    <3> QED BY <2>1, <2>3, <2>5, <3>3
  <2> QED BY <2>4, <2>5
<1>2. g = [k \in 0..n |-> g[k]]
  OBVIOUS
<1> HIDE DEF g, Next1
<1>3. g = [k \in 0..n |-> Next1(g, k)]
  BY <1>1, <1>2
<1> QED BY <1>3 DEF ChainTo, Next1

\* There is a chain of all hooks: were n the least number without one, the
\* chain of n - 1 could be continued.
LEMMA ChainExists ==
  ASSUME NEW refusing, NEW with, NEW L \in Nat
  PROVE  \E f : ChainTo(L, f, refusing, with)
<1> DEFINE T == {n \in 0..L : ~ \E f : ChainTo(n, f, refusing, with)}
<1>1. T = {}
  <2> SUFFICES ASSUME T # {} PROVE FALSE
    OBVIOUS
  <2>1. T \in SUBSET Nat
    OBVIOUS
  <2>2. PICK n \in T : \A m \in T : n <= m
    <3> HIDE DEF T
    <3> QED BY <2>1, LeastNatural
  <2>3. CASE n = 0
    <3> DEFINE f == [k \in 0..0 |-> Now]
    <3>1. f = [k \in 0..0 |-> IF k = 0 THEN Now ELSE Link(f[k - 1], k, refusing, with)]
      OBVIOUS
    <3> HIDE DEF f
    <3>2. ChainTo(0, f, refusing, with)
      BY <3>1 DEF ChainTo
    <3> QED BY <2>2, <2>3, <3>2
  <2>4. CASE n # 0
    <3>1. n \in Nat \ {0} /\ n - 1 \in 0..L /\ ~(n <= n - 1)
      BY <2>2, <2>4
    <3>2. n - 1 \notin T
      <4> HIDE DEF T
      <4> QED BY <2>2, <3>1
    <3>3. PICK f : ChainTo(n - 1, f, refusing, with)
      BY <3>1, <3>2
    <3>4. \E g : ChainTo(n, g, refusing, with)
      BY <3>1, <3>3, ChainContinues
    <3> QED BY <2>2, <3>4
  <2> QED BY <2>3, <2>4
<1>2. L \in 0..L
  OBVIOUS
<1> QED BY <1>1, <1>2

\* Where the chain starts.
LEMMA ReachedNow ==
  ASSUME SessionInv
  PROVE  Reached(Now, 0)
<1>1. /\ hooks \in Seq(Hooks) /\ Len(hooks) \in Nat /\ DOMAIN hooks = 1..Len(hooks)
      /\ store \in [Ids -> Data \union {Null}] /\ response.cookies \in Seq(Cookies)
  BY DEF SessionInv, RetiredStayGone, TypeOK
<1>2. /\ Now.store = store /\ Now.hooks = hooks /\ Now.cookies = response.cookies
      /\ Now \in ChainStates
  BY <1>1 DEF Now, ChainStates
<1>3. CookiesKept(Now)
  BY DEF SessionInv
<1> QED BY <1>1, <1>2, <1>3 DEF Reached, SameSession

\* Every link reaches the next state.
LEMMA LinkReaches ==
  ASSUME SessionInv, NEW x, NEW k \in 1..Len(hooks), Reached(x, k - 1),
         NEW refusing \in Nat, NEW with \in BOOLEAN
  PROVE  Reached(Link(x, k, refusing, with), k)
<1>1. PICK h : h = Len(hooks) + 1 - k
  OBVIOUS
<1>2. PICK refuses \in BOOLEAN : refuses <=> h = refusing
  OBVIOUS
<1>3. /\ Len(hooks) \in Nat /\ DOMAIN hooks = 1..Len(hooks)
  BY DEF SessionInv, RetiredStayGone, TypeOK
<1>4. h \in DOMAIN hooks /\ k - 1 \in Nat /\ h = Len(hooks) - (k - 1) /\ (k - 1) + 1 = k
  BY <1>1, <1>3
<1>5. x \in ChainStates /\ h \in DOMAIN x.hooks
  BY <1>3, <1>4 DEF Reached, ChainStates
<1>6. Link(x, k, refusing, with) = Hook(x, h, refuses, with)
  BY <1>1, <1>2 DEF Link
<1>7. CASE Hook(x, h, refuses, with) = [x EXCEPT !.thrown = TRUE]
  BY <1>3, <1>4, <1>6, <1>7, ThrownReaches
<1>8. ASSUME NEW pending \in Cookies \union {Undefined},
             ~x.thrown, ~Refused(x.hooks[h]),
             pending \in Cookies \/ pending = x.hooks[h].pending,
             Hook(x, h, refuses, with) = Done(x, h, pending)
      PROVE  Reached(Link(x, k, refusing, with), k)
  BY <1>4, <1>6, <1>8, DoneReaches
<1> QED BY <1>5, <1>7, <1>8, HookDone

\* The whole chain does.
LEMMA ChainReaches ==
  ASSUME SessionInv, NEW refusing \in Nat, NEW with \in BOOLEAN
  PROVE  Reached(Chained(refusing, with), Len(hooks))
<1> DEFINE chain == CHOOSE f : ChainTo(Len(hooks), f, refusing, with)
<1>1. PICK L \in Nat : L = Len(hooks)
  BY DEF SessionInv, RetiredStayGone, TypeOK
<1>2. ChainTo(L, chain, refusing, with)
  BY <1>1, ChainExists
<1>3. Chained(refusing, with) = chain[L]
  BY <1>1 DEF Chained, ChainTo, Link, Now
<1> HIDE DEF chain
<1>4. chain[0] = Now
  BY <1>2 DEF ChainTo
<1>5. \A k \in 1..L : chain[k] = Link(chain[k - 1], k, refusing, with)
  <2> SUFFICES ASSUME NEW k \in 1..L
               PROVE  chain[k] = Link(chain[k - 1], k, refusing, with)
    OBVIOUS
  <2>1. k \in 0..L /\ k # 0
    OBVIOUS
  <2> DEFINE B(j) == IF j = 0 THEN Now ELSE Link(chain[j - 1], j, refusing, with)
  <2>2. chain = [j \in 0..L |-> B(j)]
    BY <1>2 DEF ChainTo
  <2> HIDE DEF B
  <2>3. chain[k] = B(k)
    BY <2>1, <2>2
  <2> QED BY <2>1, <2>3 DEF B
<1> DEFINE T == {k \in 0..L : ~Reached(chain[k], k)}
<1>6. T = {}
  <2> SUFFICES ASSUME T # {} PROVE FALSE
    OBVIOUS
  <2>1. T \in SUBSET Nat
    OBVIOUS
  <2>2. PICK k \in T : \A m \in T : k <= m
    <3> HIDE DEF T
    <3> QED BY <2>1, LeastNatural
  <2>3. k # 0
    BY <1>4, <2>2, ReachedNow
  <2>4. k \in 1..L /\ k - 1 \in 0..L /\ ~(k <= k - 1)
    BY <2>2, <2>3
  <2>5. k - 1 \notin T
    <3> HIDE DEF T
    <3> QED BY <2>2, <2>4
  <2>6. Reached(chain[k - 1], k - 1)
    BY <2>4, <2>5
  <2>7. Reached(chain[k], k)
    BY <1>1, <1>5, <2>4, <2>6, LinkReaches
  <2> QED BY <2>2, <2>7
<1>7. L \in 0..L
  OBVIOUS
<1>8. Reached(chain[L], L)
  BY <1>6, <1>7
<1> QED BY <1>1, <1>3, <1>8

-----------------------------------------------------------------------------
\* Every action keeps the invariant.

LEMMA InitSession == Init => SessionInv
<1> SUFFICES ASSUME Init PROVE SessionInv
  OBVIOUS
<1>1. TypeOK
  BY ExpressSessionAssumption DEF Init, TypeOK
<1>2. RetiredStayGone /\ RetiredOwned
  BY <1>1 DEF Init, RetiredStayGone, RetiredOwned
<1>3. FreshEmpty
  BY DEF Init, FreshEmpty, Fresh
<1>4. DOMAIN hooks = {}
  BY DEF Init
<1>5. TokensUsed /\ AsLoaded /\ CookiesKept(Now) /\ EndedIsStored
  BY <1>4 DEF TokensUsed, AsLoaded, CookiesKept, EndedIsStored
<1>6. ObjectsOwned
  BY DEF Init, ObjectsOwned
<1> QED BY <1>2, <1>3, <1>5, <1>6 DEF SessionInv

\* The types of a state, one by one.
LEMMA Types ==
  ASSUME TypeOK
  PROVE  /\ objects \in Seq(Objects) /\ hooks \in Seq(Hooks)
         /\ Len(hooks) \in Nat /\ DOMAIN hooks = 1..Len(hooks)
         /\ Len(objects) \in Nat /\ DOMAIN objects = 1..Len(objects)
         /\ \A h \in DOMAIN hooks : hooks[h] \in Hooks
         /\ \A h \in DOMAIN hooks :
              hooks[h].token \in Ids /\ hooks[h].config \in Configs /\ hooks[h].original \in Data
         /\ \A o \in DOMAIN objects : objects[o] \in Objects
         /\ \A o \in DOMAIN objects : objects[o].hook \in 0..MaxHooks
         /\ response.cookies \in Seq(Cookies)
         /\ response.streaming \in BOOLEAN /\ response.ended \in BOOLEAN
<1>1. /\ objects \in Seq(Objects) /\ hooks \in Seq(Hooks)
      /\ response \in [streaming : BOOLEAN, ended : BOOLEAN, cookies : Seq(Cookies)]
  BY DEF TypeOK
<1>2. \A h \in DOMAIN hooks : hooks[h] \in Hooks
  BY <1>1
<1>3. \A o \in DOMAIN objects : objects[o] \in Objects
  BY <1>1
<1> QED BY <1>1, <1>2, <1>3 DEF Hooks, Objects

\* Steps that change neither hooks nor sessions nor the response
LEMMA ObjectsKeep ==
  ASSUME SessionInv, TypeOK', ObjectsOwned',
         UNCHANGED <<presented, store, used, retired, hooks, response, kept>>
  PROVE  SessionInv'
  BY DEF SessionInv, RetiredStayGone, TokensUsed, RetiredOwned, FreshEmpty, Fresh, AsLoaded,
         Loaded, Retired, Blocked, Stuck, CookiesKept, Now, EndedIsStored

LEMMA ChangeDataKeeps ==
  ASSUME SessionInv, NEW o \in DOMAIN objects, NEW data \in Data, ChangeData(o, data)
  PROVE  SessionInv'
<1>1. TypeOK /\ ObjectsOwned
  BY DEF SessionInv, RetiredStayGone
<1>2. [objects[o] EXCEPT !.data = data] \in Objects
      /\ [objects[o] EXCEPT !.data = data].hook = objects[o].hook
  BY <1>1, Types DEF Objects
<1>3. PICK e \in Objects : e = [objects[o] EXCEPT !.data = data] /\ e.hook = objects[o].hook
  BY <1>2
<1>4. objects' = [objects EXCEPT ![o] = e]
  BY <1>3 DEF ChangeData
<1>5. /\ objects' \in Seq(Objects) /\ Len(objects') = Len(objects)
      /\ DOMAIN objects' = DOMAIN objects
      /\ \A q \in DOMAIN objects : objects'[q].hook = objects[q].hook
  BY <1>1, <1>3, <1>4, Types, Replaced
<1>6. TypeOK'
  BY <1>1, <1>5 DEF ChangeData, TypeOK
<1>7. ObjectsOwned'
  BY <1>1, <1>5 DEF ChangeData, ObjectsOwned
<1> QED BY <1>6, <1>7, ObjectsKeep DEF ChangeData

LEMMA AssignKeeps ==
  ASSUME SessionInv, NEW value \in DOMAIN objects \union {Null, Undefined}, Assign(value)
  PROVE  SessionInv'
<1>1. TypeOK /\ ObjectsOwned
  BY DEF SessionInv, RetiredStayGone
<1>2. TypeOK' /\ ObjectsOwned'
  BY <1>1 DEF Assign, TypeOK, ObjectsOwned
<1> QED BY <1>2, ObjectsKeep DEF Assign

\* A new object becomes the session.
LEMMA NewObject ==
  ASSUME TypeOK, NEW e \in Objects, Len(objects) < MaxObjects, objects' = Append(objects, e)
  PROVE  /\ objects' \in Seq(Objects) /\ Len(objects') <= MaxObjects
         /\ DOMAIN objects' = DOMAIN objects \union {Len(objects) + 1}
         /\ \A o \in DOMAIN objects : objects'[o] = objects[o]
         /\ objects'[Len(objects) + 1] = e
<1>1. /\ objects \in Seq(Objects) /\ MaxObjects \in Nat
  BY ExpressSessionAssumption DEF TypeOK
<1> QED BY <1>1, Longer

LEMMA AssignFreshKeeps ==
  ASSUME SessionInv, NEW data \in Data, NEW cookie \in Configs \union {Undefined},
         AssignFresh(data, cookie)
  PROVE  SessionInv'
<1>1. TypeOK /\ ObjectsOwned
  BY DEF SessionInv, RetiredStayGone
<1>2. PICK e \in Objects : e = [data |-> data, cookie |-> cookie, hook |-> 0]
  <2>1. 0 \in 0..MaxHooks
    BY ExpressSessionAssumption
  <2>2. [data |-> data, cookie |-> cookie, hook |-> 0] \in Objects
    BY <2>1 DEF Objects
  <2> QED BY <2>2
<1>3. /\ objects' \in Seq(Objects) /\ Len(objects') <= MaxObjects
      /\ DOMAIN objects' = DOMAIN objects \union {Len(objects) + 1}
      /\ \A o \in DOMAIN objects : objects'[o] = objects[o]
      /\ objects'[Len(objects) + 1] = e
  BY <1>1, <1>2, NewObject DEF AssignFresh
<1>4. TypeOK'
  BY <1>1, <1>3 DEF AssignFresh, TypeOK
<1>5. ObjectsOwned'
  <2>1. e.hook = 0 /\ hooks' = hooks /\ Len(hooks) \in Nat
    BY <1>1, <1>2, Types DEF AssignFresh
  <2> QED BY <1>1, <1>3, <2>1 DEF ObjectsOwned
<1> QED BY <1>4, <1>5, ObjectsKeep DEF AssignFresh

\* No hook is installed while streaming starts.
LEMMA StreamKeeps ==
  ASSUME SessionInv, Stream
  PROVE  SessionInv'
<1>1. TypeOK /\ response.cookies \in Seq(Cookies) /\ response.ended \in BOOLEAN
  BY Types DEF SessionInv, RetiredStayGone
<1>2. TypeOK'
  BY <1>1 DEF Stream, TypeOK
<1>3. DOMAIN hooks = {} /\ hooks' = hooks
  BY DEF Stream
<1>4. RetiredStayGone' /\ RetiredOwned' /\ FreshEmpty' /\ ObjectsOwned'
  BY <1>2 DEF Stream, SessionInv, RetiredStayGone, RetiredOwned, FreshEmpty, Fresh, ObjectsOwned
<1> QED BY <1>3, <1>4 DEF SessionInv, TokensUsed, AsLoaded, CookiesKept, EndedIsStored

\* What SettledByEnd asks of a step.
StaySettled ==
  \A h \in DOMAIN hooks :
    hooks[h].committed =>
      /\ hooks'[h] = hooks[h]
      /\ \/ store'[hooks[h].token] = store[hooks[h].token]
         \/ \E g \in DOMAIN hooks :
              hooks[g].token = hooks[h].token /\ ~hooks[g].committed

\* A hook with another session.
LEMMA RenewedIs ==
  ASSUME NEW hook \in Hooks, NEW id \in Ids, NEW data \in Data
  PROVE  LET new == Renewed(hook, id, data)
         IN /\ new \in Hooks /\ new.token = id /\ new.original = data
            /\ new.committed = hook.committed /\ ~new.destroyed
            /\ new.pending = hook.pending
  BY DEF Renewed, Hooks

\* The new hook's session is as it has been loaded.
LEMMA MiddlewareKeeps ==
  ASSUME SessionInv, NEW config \in Configs, NEW id \in Ids, Middleware(config, id)
  PROVE  SessionInv' /\ StaySettled
<1> DEFINE n == Len(hooks) + 1
<1>1. /\ TypeOK /\ ObjectsOwned /\ Len(hooks) \in Nat /\ n \in 0..MaxHooks
      /\ DOMAIN hooks = 1..Len(hooks) /\ Loaded(id) \in Data
  <2>1. TypeOK /\ ObjectsOwned
    BY DEF SessionInv, RetiredStayGone
  <2>2. Loaded(id) \in Data /\ MaxHooks \in Nat
    BY <2>1, ExpressSessionAssumption DEF TypeOK, Loaded
  <2> QED BY <2>1, <2>2, Types DEF Middleware
<1>2. PICK e \in Objects :
        e = [data |-> Loaded(id), cookie |-> config, hook |-> n] /\ e.hook = n
  <2> DEFINE e == [data |-> Loaded(id), cookie |-> config, hook |-> n]
  <2>1. e \in Objects /\ e.hook = n
    BY <1>1 DEF Objects
  <2> QED BY <2>1
<1>3. PICK new \in Hooks :
        /\ new = Renewed(FreshHook(config, id), id, Loaded(id))
        /\ new.token = id /\ new.original = Loaded(id)
        /\ ~new.committed /\ ~new.destroyed
  <2>1. FreshHook(config, id) \in Hooks /\ ~FreshHook(config, id).committed
    BY ExpressSessionAssumption DEF FreshHook, Hooks
  <2> QED BY <1>1, <2>1, RenewedIs
<1>4. /\ objects' \in Seq(Objects) /\ Len(objects') <= MaxObjects
      /\ DOMAIN objects' = DOMAIN objects \union {Len(objects) + 1}
      /\ \A o \in DOMAIN objects : objects'[o] = objects[o]
      /\ objects'[Len(objects) + 1] = e
  BY <1>1, <1>2, NewObject DEF Middleware, Installed
<1>5. /\ hooks' \in Seq(Hooks) /\ Len(hooks') = n /\ DOMAIN hooks' = DOMAIN hooks \union {n}
      /\ hooks'[n] = new /\ \A h \in DOMAIN hooks : hooks'[h] = hooks[h]
  <2>1. hooks \in Seq(Hooks) /\ hooks' = Append(hooks, new)
    BY <1>1, <1>3 DEF Middleware, TypeOK
  <2>2. (1..Len(hooks)) \union {n} = 1..n
    BY <1>1
  <2> QED BY <1>1, <2>1, <2>2, Longer
<1>6. /\ UNCHANGED <<presented, store, retired, response, kept>>
      /\ used' = used \union {id}
      /\ session' = Len(objects) + 1 /\ Len(hooks) < MaxHooks
  BY DEF Middleware, Installed
<1> HIDE DEF n
<1>7. TypeOK'
  <2>1. Len(hooks') <= MaxHooks /\ used' \subseteq Ids
        /\ retired' \subseteq (1..MaxHooks) \X used'
    BY <1>1, <1>5, <1>6 DEF TypeOK, n
  <2> QED BY <1>1, <1>4, <1>5, <1>6, <2>1 DEF TypeOK
<1>8. RetiredOwned /\ n \notin DOMAIN hooks
  BY <1>1 DEF SessionInv, n
<1>9. RetiredStayGone'
  BY <1>5, <1>6, <1>7 DEF SessionInv, RetiredStayGone
<1>10. TokensUsed' /\ RetiredOwned' /\ FreshEmpty'
  <2>1. <<n, id>> \notin retired
    BY <1>8 DEF RetiredOwned
  <2>2. TokensUsed'
    BY <1>3, <1>5, <1>6, <2>1 DEF SessionInv, TokensUsed
  <2>3. RetiredOwned'
    BY <1>5, <1>6, <1>8 DEF RetiredOwned
  <2>4. FreshEmpty'
    BY <1>6 DEF SessionInv, FreshEmpty, Fresh
  <2> QED BY <2>2, <2>3, <2>4
<1>11. ObjectsOwned'
  BY <1>1, <1>2, <1>4, <1>5 DEF ObjectsOwned, n
<1>12. AsLoaded'
  <2>1. Blocked(Now) => Blocked(Now)'
    BY <1>5, <1>6 DEF Blocked, Stuck, Now
  <2>2. \A i \in Ids : (Retired(i) => Retired(i)') /\ Loaded(i)' = Loaded(i)
    BY <1>6 DEF Retired, Loaded
  <2>3. \A h \in DOMAIN hooks : hooks[h].token \in Ids
    BY <1>1, Types
  <2> SUFFICES ASSUME NEW h \in DOMAIN hooks', ~hooks'[h].committed, ~hooks'[h].destroyed,
                      ~Retired(hooks[h].token)'
               PROVE  Loaded(hooks[h].token)' = hooks'[h].original \/ Blocked(Now)'
    BY DEF AsLoaded
  <2>4. CASE h \in DOMAIN hooks
    BY <1>5, <2>1, <2>2, <2>3, <2>4 DEF SessionInv, AsLoaded
  <2>5. CASE h = n
    BY <1>3, <1>5, <2>2, <2>5
  <2> QED BY <1>5, <2>4, <2>5
<1>13. CookiesKept(Now)'
  BY <1>3, <1>5, <1>6 DEF SessionInv, CookiesKept, Now
<1>14. EndedIsStored'
  BY <1>3, <1>5, <1>6 DEF SessionInv, EndedIsStored, Retired, Loaded
<1>15. StaySettled
  BY <1>5, <1>6 DEF StaySettled
<1> QED BY <1>9, <1>10, <1>11, <1>12, <1>13, <1>14, <1>15 DEF SessionInv

\* A hook whose session the host deleted is destroyed or has a new session.
LEMMA ReplacedKeeps ==
  ASSUME SessionInv, TypeOK', ObjectsOwned',
         NEW h \in DOMAIN hooks, ~hooks[h].committed,
         NEW new \in Hooks, ~new.committed, new.pending # Undefined,
         hooks' = [hooks EXCEPT ![h] = new],
         store' = [store EXCEPT ![hooks[h].token] = Null],
         retired' = retired \union {<<h, hooks[h].token>>},
         UNCHANGED <<presented, response, kept>>,
         \/ new.token = hooks[h].token /\ new.destroyed /\ used' = used
         \/ /\ Fresh(new.token) /\ ~new.destroyed /\ used' = used \union {new.token}
            /\ new.original = Empty
  PROVE  SessionInv' /\ StaySettled
<1> DEFINE old == hooks[h].token
<1>1. /\ TypeOK /\ hooks \in Seq(Hooks) /\ store \in [Ids -> Data \union {Null}]
      /\ retired \subseteq (1..MaxHooks) \X used /\ h \in 1..MaxHooks
      /\ used \subseteq Ids /\ old \in Ids /\ new.token \in Ids
      /\ \A g \in DOMAIN hooks : hooks[g].token \in Ids
  <2>1. TypeOK
    BY DEF SessionInv, RetiredStayGone
  <2>2. Len(hooks) <= MaxHooks /\ h \in 1..Len(hooks) /\ Len(hooks) \in Nat /\ MaxHooks \in Nat
    BY <2>1, Types, ExpressSessionAssumption DEF TypeOK
  <2> QED BY <2>1, <2>2, Types DEF TypeOK, Hooks
<1>2. /\ DOMAIN hooks' = DOMAIN hooks /\ hooks'[h] = new
      /\ \A g \in DOMAIN hooks : g # h => hooks'[g] = hooks[g]
  BY <1>1, Replaced
<1>3. /\ \A id \in Ids : id # old => store'[id] = store[id]
      /\ store'[old] = Null
  BY <1>1
<1>4. \A id \in Ids : Retired(id) => Retired(id)'
  BY DEF Retired
<1>5. old \in used /\ \A id \in Ids : id = old => Retired(id)'
  BY <1>1 DEF SessionInv, TokensUsed, Retired
<1>6. retired' = retired \union {<<h, old>>}
  OBVIOUS
<1> HIDE DEF old
<1>7. ASSUME NEW gone \in retired'
      PROVE  \/ store'[gone[2]] = Null
             \/ \E g \in DOMAIN hooks' :
                  g # gone[1] /\ hooks'[g].token = gone[2] /\ ~hooks'[g].destroyed
  <2>1. CASE gone[2] = old
    BY <1>3, <2>1
  <2>2. CASE gone[2] # old
    <3>1. gone \in retired /\ gone[2] \in Ids
      BY <1>1, <1>6, <2>2
    <3>2. store'[gone[2]] = store[gone[2]]
      BY <1>3, <2>2, <3>1
    <3>3. CASE store[gone[2]] = Null
      BY <3>2, <3>3
    <3>4. CASE \E g \in DOMAIN hooks :
                 g # gone[1] /\ hooks[g].token = gone[2] /\ ~hooks[g].destroyed
      <4>1. PICK g \in DOMAIN hooks :
              g # gone[1] /\ hooks[g].token = gone[2] /\ ~hooks[g].destroyed
        BY <3>4
      <4>2. g # h
        BY <2>2, <4>1 DEF old
      <4> QED BY <1>2, <4>1, <4>2
    <3> QED BY <3>1, <3>3, <3>4 DEF SessionInv, RetiredStayGone
  <2> QED BY <2>1, <2>2
<1>8. ASSUME NEW g \in DOMAIN hooks
      PROVE  /\ hooks'[g].token \in used'
             /\ <<g, hooks'[g].token>> \in retired' => hooks'[g].destroyed
  <2>1. CASE g # h
    <3>1. hooks'[g] = hooks[g] /\ <<g, hooks[g].token>> # <<h, old>>
      BY <1>2, <2>1
    <3> QED BY <1>6, <3>1 DEF SessionInv, TokensUsed
  <2>2. CASE g = h
    <3>1. CASE new.destroyed
      BY <1>2, <1>5, <2>2, <3>1 DEF old, Fresh
    <3>2. CASE ~new.destroyed
      <4>1. new.token \notin used /\ new.token \in used'
        BY <3>2 DEF Fresh
      <4>2. <<h, new.token>> \notin retired'
        BY <1>1, <1>5, <1>6, <4>1
      <4> QED BY <1>2, <2>2, <4>1, <4>2
    <3> QED BY <3>1, <3>2
  <2> QED BY <2>1, <2>2
<1>9. RetiredOwned'
  BY <1>2, <1>6 DEF SessionInv, RetiredOwned
<1>10. FreshEmpty'
  <2> SUFFICES ASSUME NEW id \in Ids, id \notin used', id \notin presented
               PROVE  store'[id] = Null
    BY DEF FreshEmpty, Fresh
  <2>1. Fresh(id) /\ id # old
    BY <1>5 DEF Fresh
  <2> QED BY <1>3, <2>1 DEF SessionInv, FreshEmpty
<1>11. Blocked(Now) => Blocked(Now)'
  <2> SUFFICES ASSUME NEW g \in DOMAIN hooks, hooks[g].committed \/ Stuck(hooks[g])
               PROVE  hooks'[g].committed \/ Stuck(hooks[g])'
    BY <1>2 DEF Blocked, Now
  <2>1. CASE g # h
    BY <1>2, <2>1 DEF Stuck
  <2>2. CASE g = h
    BY <1>2, <2>2 DEF Stuck
  <2> QED BY <2>1, <2>2
<1>12. AsLoaded'
  <2> SUFFICES ASSUME NEW g \in DOMAIN hooks, ~hooks'[g].committed, ~hooks'[g].destroyed,
                      ~Retired(hooks[g].token)'
               PROVE  Loaded(hooks[g].token)' = hooks'[g].original \/ Blocked(Now)'
    BY <1>2 DEF AsLoaded
  <2>1. CASE g # h
    <3>1. hooks'[g] = hooks[g] /\ hooks[g].token \in Ids /\ hooks[g].token # old
      BY <1>1, <1>2, <1>5, <2>1
    <3>2. \A id \in Ids : id # old => Loaded(id)' = Loaded(id)
      BY <1>3 DEF Loaded
    <3> QED BY <1>4, <1>11, <3>1, <3>2 DEF SessionInv, AsLoaded
  <2>2. CASE g = h
    <3>1. new.original = Empty /\ Fresh(new.token)
      BY <1>2, <2>2
    <3>2. new.token # old /\ store[new.token] = Null
      BY <1>1, <1>5, <3>1 DEF SessionInv, FreshEmpty, Fresh
    <3>3. store'[new.token] = Null
      BY <1>1, <1>3, <3>2
    <3> QED BY <1>2, <2>2, <3>1, <3>3 DEF Loaded
  <2> QED BY <2>1, <2>2
<1>13. CookiesKept(Now)'
  BY <1>2 DEF SessionInv, CookiesKept, Now
<1>14. EndedIsStored'
  <2> SUFFICES ASSUME response.ended, NEW g \in DOMAIN hooks,
                      hooks'[g].committed, ~hooks'[g].destroyed, ~Retired(hooks[g].token)'
               PROVE  IF kept = Null THEN store'[hooks'[g].token] = Null
                      ELSE Loaded(hooks[g].token)' = kept
    BY <1>2 DEF EndedIsStored
  <2>1. g # h /\ hooks'[g] = hooks[g] /\ hooks[g].token # old /\ hooks[g].token \in Ids
    BY <1>1, <1>2, <1>5
  <2>2. store'[hooks[g].token] = store[hooks[g].token] /\ ~Retired(hooks[g].token)
    BY <1>3, <1>4, <2>1
  <2> QED BY <2>1, <2>2 DEF SessionInv, EndedIsStored, Loaded
<1>15. StaySettled
  <2> SUFFICES ASSUME NEW g \in DOMAIN hooks, hooks[g].committed
               PROVE  /\ hooks'[g] = hooks[g]
                      /\ \/ store'[hooks[g].token] = store[hooks[g].token]
                         \/ \E k \in DOMAIN hooks :
                              hooks[k].token = hooks[g].token /\ ~hooks[k].committed
    BY DEF StaySettled
  <2>1. CASE hooks[g].token = old
    BY <1>2, <2>1 DEF old
  <2>2. CASE hooks[g].token # old
    BY <1>1, <1>2, <1>3, <2>2
  <2> QED BY <2>1, <2>2
<1>16. RetiredStayGone' /\ TokensUsed'
  BY <1>2, <1>7, <1>8 DEF RetiredStayGone, TokensUsed
<1> QED BY <1>9, <1>10, <1>12, <1>13, <1>14, <1>15, <1>16 DEF SessionInv

LEMMA DestroyKeeps ==
  ASSUME SessionInv, NEW o \in DOMAIN objects, Destroy(o)
  PROVE  SessionInv' /\ StaySettled
<1> DEFINE h   == objects[o].hook
           old == hooks[h].token
<1>1. TypeOK /\ ObjectsOwned /\ Len(hooks) \in Nat /\ DOMAIN hooks = 1..Len(hooks)
  BY Types DEF SessionInv, RetiredStayGone
<1>2. h \in DOMAIN hooks /\ ~hooks[h].committed
  <2>1. h \in 0..Len(hooks) /\ h # 0 /\ ~hooks[h].committed
    BY <1>1 DEF Destroy, ActiveSession, ObjectsOwned
  <2> HIDE DEF h
  <2> QED BY <1>1, <2>1
<1>3. hooks \in Seq(Hooks) /\ hooks[h] \in Hooks /\ old \in Ids
  BY <1>1, <1>2, Types DEF Hooks
<1>4. PICK new \in Hooks :
        /\ new = Destroyed(Issued(hooks[h], [id |-> old, set |-> FALSE]))
        /\ new.token = old /\ ~new.committed /\ new.destroyed /\ new.pending # Undefined
  <2> DEFINE issued == Issued(hooks[h], [id |-> old, set |-> FALSE])
  <2>1. /\ issued \in Hooks /\ issued.token = old /\ ~issued.committed
        /\ issued.pending # Undefined
    <3>1. [id |-> old, set |-> FALSE] \in Cookies /\ Undefined \notin Cookies
      BY <1>3, ExpressSessionAssumption DEF Cookies
    <3> HIDE DEF h
    <3> QED BY <1>2, <1>3, <3>1 DEF Issued, Hooks
  <2> HIDE DEF issued
  <2>2. /\ Destroyed(issued) \in Hooks /\ Destroyed(issued).token = old
        /\ ~Destroyed(issued).committed /\ Destroyed(issued).destroyed
        /\ Destroyed(issued).pending # Undefined
    BY <2>1 DEF Destroyed, Hooks
  <2> QED BY <2>2 DEF issued
<1>5. /\ hooks' = [hooks EXCEPT ![h] = new] /\ store' = [store EXCEPT ![old] = Null]
      /\ retired' = retired \union {<<h, old>>} /\ session' = Undefined
      /\ UNCHANGED <<presented, used, objects, response, kept>>
  BY <1>4 DEF Destroy
<1> HIDE DEF h
<1>6. hooks' \in Seq(Hooks) /\ Len(hooks') = Len(hooks)
  BY <1>2, <1>3, <1>4, <1>5, Replaced
<1>7. TypeOK'
  <2>1. /\ store' \in [Ids -> Data \union {Null}]
        /\ retired' \subseteq (1..MaxHooks) \X used'
    <3>1. /\ old \in used /\ store \in [Ids -> Data \union {Null}]
          /\ h \in 1..MaxHooks
      <4>1. Len(hooks) <= MaxHooks /\ MaxHooks \in Nat /\ Len(hooks) \in Nat
        BY <1>1, ExpressSessionAssumption DEF TypeOK
      <4>2. h \in 1..MaxHooks
        BY <1>1, <1>2, <4>1
      <4>3. TokensUsed
        BY DEF SessionInv
      <4>4. hooks[h].token \in used
        BY <1>2, <4>3 DEF TokensUsed
      <4> QED BY <1>1, <4>2, <4>4 DEF TypeOK
    <3> HIDE DEF old
    <3> QED BY <1>1, <1>5, <3>1 DEF TypeOK
  <2> QED BY <1>1, <1>5, <1>6, <2>1 DEF TypeOK
<1>8. ObjectsOwned'
  BY <1>1, <1>5, <1>6 DEF ObjectsOwned
<1> QED BY <1>2, <1>4, <1>5, <1>7, <1>8, ReplacedKeeps

LEMMA RegenerateKeeps ==
  ASSUME SessionInv, NEW o \in DOMAIN objects, NEW id \in Ids, Regenerate(o, id)
  PROVE  SessionInv' /\ StaySettled
<1> DEFINE h   == objects[o].hook
           old == hooks[h].token
<1>1. /\ TypeOK /\ ObjectsOwned /\ Len(hooks) \in Nat /\ DOMAIN hooks = 1..Len(hooks)
      /\ Empty \in Data
  BY Types, ExpressSessionAssumption DEF SessionInv, RetiredStayGone
<1>2. h \in DOMAIN hooks /\ ~hooks[h].committed /\ h \in 0..MaxHooks
  <2>1. h \in 0..Len(hooks) /\ h # 0 /\ ~hooks[h].committed /\ h \in 0..MaxHooks
    BY <1>1, Types DEF Regenerate, ActiveSession, ObjectsOwned
  <2> HIDE DEF h
  <2> QED BY <1>1, <2>1
<1>3. hooks \in Seq(Hooks) /\ hooks[h] \in Hooks /\ old \in Ids /\ hooks[h].config \in Configs
  BY <1>1, <1>2, Types DEF Hooks
<1>4. PICK new \in Hooks :
        /\ new = Renewed(Issued(hooks[h], [id |-> id, set |-> TRUE]), id, Empty)
        /\ new.token = id /\ new.original = Empty /\ ~new.committed /\ ~new.destroyed
        /\ new.pending # Undefined
  <2> DEFINE issued == Issued(hooks[h], [id |-> id, set |-> TRUE])
  <2>1. issued \in Hooks /\ ~issued.committed /\ issued.pending # Undefined
    <3>1. [id |-> id, set |-> TRUE] \in Cookies /\ Undefined \notin Cookies
      BY ExpressSessionAssumption DEF Cookies
    <3> HIDE DEF h
    <3> QED BY <1>2, <1>3, <3>1 DEF Issued, Hooks
  <2> HIDE DEF issued
  <2>2. LET new == Renewed(issued, id, Empty)
        IN /\ new \in Hooks /\ new.token = id /\ new.original = Empty
           /\ new.committed = issued.committed /\ ~new.destroyed
           /\ new.pending = issued.pending
    BY <1>1, <2>1, RenewedIs
  <2> QED BY <2>1, <2>2 DEF issued
<1>5. PICK e \in Objects :
        e = [data |-> Empty, cookie |-> hooks[h].config, hook |-> h] /\ e.hook = h
  <2> HIDE DEF h
  <2>1. [data |-> Empty, cookie |-> hooks[h].config, hook |-> h] \in Objects
    BY <1>1, <1>2, <1>3 DEF Objects
  <2> QED BY <2>1
<1>6. /\ hooks' = [hooks EXCEPT ![h] = new] /\ store' = [store EXCEPT ![old] = Null]
      /\ used' = used \union {id} /\ retired' = retired \union {<<h, old>>}
      /\ Fresh(id)
      /\ Len(objects) < MaxObjects /\ objects' = Append(objects, e)
      /\ session' = Len(objects) + 1 /\ UNCHANGED <<presented, response, kept>>
  BY <1>4, <1>5 DEF Regenerate, Installed
<1> HIDE DEF h
<1>7. /\ objects' \in Seq(Objects) /\ Len(objects') <= MaxObjects
      /\ DOMAIN objects' = DOMAIN objects \union {Len(objects) + 1}
      /\ \A p \in DOMAIN objects : objects'[p] = objects[p]
      /\ objects'[Len(objects) + 1] = e
  BY <1>1, <1>5, <1>6, NewObject
<1>8. hooks' \in Seq(Hooks) /\ Len(hooks') = Len(hooks)
  BY <1>2, <1>3, <1>4, <1>6, Replaced
<1>9. TypeOK'
  <2>1. /\ store' \in [Ids -> Data \union {Null}] /\ used' \subseteq Ids
        /\ retired' \subseteq (1..MaxHooks) \X used'
    <3>1. /\ old \in used /\ store \in [Ids -> Data \union {Null}]
          /\ h \in 1..MaxHooks
      <4>1. Len(hooks) <= MaxHooks /\ MaxHooks \in Nat /\ Len(hooks) \in Nat
        BY <1>1, ExpressSessionAssumption DEF TypeOK
      <4>2. h \in 1..MaxHooks
        BY <1>1, <1>2, <4>1
      <4>3. TokensUsed
        BY DEF SessionInv
      <4>4. hooks[h].token \in used
        BY <1>2, <4>3 DEF TokensUsed
      <4> QED BY <1>1, <4>2, <4>4 DEF TypeOK
    <3> HIDE DEF old
    <3> QED BY <1>1, <1>6, <3>1 DEF TypeOK
  <2> QED BY <1>1, <1>6, <1>7, <1>8, <2>1 DEF TypeOK
<1>10. ObjectsOwned'
  BY <1>1, <1>2, <1>5, <1>7, <1>8 DEF ObjectsOwned
<1> QED BY <1>2, <1>4, <1>6, <1>9, <1>10, ReplacedKeeps

\* What the chain leaves, whether it threw or not.
LEMMA EndKeeps ==
  ASSUME SessionInv, NEW refusing \in 0..Len(hooks), NEW with \in BOOLEAN,
         NEW accepts \in BOOLEAN, End(refusing, with, accepts)
  PROVE  SessionInv' /\ StaySettled
<1> DEFINE last == Chained(refusing, with)
           ends == ~last.thrown /\ accepts
<1>1. /\ TypeOK /\ Len(hooks) \in Nat /\ DOMAIN hooks = 1..Len(hooks) /\ refusing \in Nat
      /\ response.streaming \in BOOLEAN
      /\ response \in [streaming : BOOLEAN, ended : BOOLEAN, cookies : Seq(Cookies)]
  <2>1. TypeOK
    BY DEF SessionInv, RetiredStayGone
  <2> QED BY <2>1, Types DEF TypeOK
<1>2. Reached(last, Len(hooks))
  BY <1>1, ChainReaches
<1>3. /\ ~response.ended /\ store' = last.store /\ hooks' = last.hooks
      /\ response' = [response EXCEPT !.cookies = last.cookies, !.ended = ends]
      /\ kept' = IF ends /\ session # Undefined THEN Value(session) ELSE kept
      /\ UNCHANGED <<presented, used, retired, objects, session>>
  BY DEF End
<1> HIDE DEF last
<1>4. /\ last \in ChainStates /\ Len(last.hooks) = Len(hooks)
      /\ last.hooks \in Seq(Hooks) /\ DOMAIN last.hooks = DOMAIN hooks
  <2>1. last \in ChainStates /\ Len(last.hooks) = Len(hooks)
    BY <1>2 DEF Reached
  <2>2. last.hooks \in Seq(Hooks)
    BY <2>1 DEF ChainStates
  <2> QED BY <1>1, <2>1, <2>2
<1>5. /\ response'.streaming = response.streaming /\ response'.ended = ends
      /\ response'.cookies = last.cookies
      /\ response' \in [streaming : BOOLEAN, ended : BOOLEAN, cookies : Seq(Cookies)]
  <2>1. last.cookies \in Seq(Cookies) /\ ends \in BOOLEAN
    BY <1>4 DEF ChainStates
  <2> HIDE DEF ends
  <2> QED BY <1>1, <1>3, <2>1
<1>6. \A h \in DOMAIN hooks : SameSession(hooks'[h], hooks[h])
  BY <1>2, <1>3 DEF Reached
<1>7. TypeOK'
  <2>1. store' \in [Ids -> Data \union {Null}]
    BY <1>3, <1>4 DEF ChainStates
  <2>2. kept' \in Data \union {Null, Undefined}
    <3>1. session \in DOMAIN objects \/ session \in {Null, Undefined}
      BY <1>1 DEF TypeOK
    <3>2. \A o \in DOMAIN objects : objects[o].data \in Data
      BY <1>1, Types DEF Objects
    <3>3. kept \in Data \union {Null, Undefined}
      BY <1>1 DEF TypeOK
    <3> QED BY <1>3, <3>1, <3>2, <3>3 DEF Value
  <2> QED BY <1>1, <1>3, <1>4, <1>5, <2>1, <2>2 DEF TypeOK
<1>8. TokensUsed' /\ RetiredOwned'
  BY <1>3, <1>4, <1>6 DEF SessionInv, TokensUsed, RetiredOwned, SameSession
<1>9. ObjectsOwned'
  BY <1>3, <1>4 DEF SessionInv, ObjectsOwned
<1>10. FreshEmpty'
  <2> SUFFICES ASSUME NEW id \in Ids, Fresh(id) PROVE store'[id] = Null
    BY <1>3 DEF FreshEmpty, Fresh
  <2>1. \A g \in DOMAIN hooks : hooks[g].token # id
    BY DEF SessionInv, TokensUsed, Fresh
  <2>2. store'[id] = store[id]
    BY <1>2, <1>3, <2>1 DEF Reached
  <2> QED BY <2>2 DEF SessionInv, FreshEmpty
<1>11. ASSUME NEW gone \in retired'
       PROVE  \/ store'[gone[2]] = Null
              \/ \E h \in DOMAIN hooks' :
                   h # gone[1] /\ hooks'[h].token = gone[2] /\ ~hooks'[h].destroyed
  <2>1. gone \in retired /\ gone[2] \in Ids /\ gone = <<gone[1], gone[2]>>
    BY <1>1, <1>3 DEF TypeOK
  <2>2. \A h \in DOMAIN hooks :
          hooks'[h].token = hooks[h].token /\ hooks'[h].destroyed = hooks[h].destroyed
    BY <1>6 DEF SameSession
  <2>3. CASE store'[gone[2]] = store[gone[2]]
    BY <1>3, <1>4, <2>1, <2>2, <2>3 DEF SessionInv, RetiredStayGone
  <2>4. CASE store'[gone[2]] # store[gone[2]]
    <3>1. PICK h \in DOMAIN hooks : hooks[h].token = gone[2] /\ ~hooks[h].destroyed
      BY <1>2, <1>3, <2>1, <2>4 DEF Reached
    <3>2. h # gone[1]
      BY <2>1, <3>1 DEF SessionInv, TokensUsed
    <3> QED BY <1>3, <1>4, <2>2, <3>1, <3>2
  <2> QED BY <2>3, <2>4
<1>12. AsLoaded'
  <2>1. CASE Blocked(last)
    <3>1. Blocked(Now)'
      BY <1>3, <1>4, <1>5, <2>1 DEF Blocked, Stuck, Now
    <3> QED BY <3>1 DEF AsLoaded
  <2>2. CASE store' = store /\ hooks' = hooks
    BY <1>3, <1>5, <2>2 DEF SessionInv, AsLoaded, Blocked, Stuck, Now, Loaded, Retired
  <2> QED BY <1>2, <1>3, <2>1, <2>2 DEF Reached
<1>13. CookiesKept(Now)'
  <2>1. CookiesKept(last)
    BY <1>2 DEF Reached
  <2> QED BY <1>3, <1>4, <1>5, <2>1 DEF CookiesKept, Now
<1>14. EndedIsStored'
  <2> SUFFICES ASSUME ends, NEW h \in DOMAIN hooks,
                      ~hooks'[h].destroyed, ~Retired(hooks[h].token)'
               PROVE  IF kept' = Null THEN store'[hooks'[h].token] = Null
                      ELSE Loaded(hooks[h].token)' = kept'
    BY <1>3, <1>4, <1>5 DEF EndedIsStored
  <2>1. \A g \in DOMAIN hooks : g > Len(hooks) - Len(hooks)
    BY <1>1
  <2>2. ~Blocked(Now) /\ Settled(last, h)
    BY <1>2, <2>1 DEF Reached, Blocked, Now
  <2>3. /\ hooks'[h].token = hooks[h].token /\ ~hooks[h].destroyed
        /\ ~Retired(hooks[h].token)
    BY <1>3, <1>6 DEF SameSession, Retired
  <2>4. /\ session # Undefined
        /\ \/ store'[hooks[h].token] = Value(session)
           \/ store'[hooks[h].token] = Null /\ Value(session) = Empty
    BY <1>3, <2>2, <2>3 DEF Settled
  <2>5. kept' = Value(session)
    BY <1>3, <2>4
  <2> QED BY <2>3, <2>4, <2>5, ExpressSessionAssumption DEF Loaded
<1>15. StaySettled
  <2> SUFFICES ASSUME NEW h \in DOMAIN hooks, hooks[h].committed,
                      \A g \in DOMAIN hooks :
                        hooks[g].token = hooks[h].token => hooks[g].committed
               PROVE  store'[hooks[h].token] = store[hooks[h].token]
    BY <1>2, <1>3 DEF StaySettled, Reached
  <2>1. hooks[h].token \in Ids
    BY <1>1, Types
  <2> QED BY <1>2, <1>3, <2>1 DEF Reached
<1>16. RetiredStayGone'
  BY <1>7, <1>11 DEF RetiredStayGone
<1> QED BY <1>8, <1>9, <1>10, <1>12, <1>13, <1>14, <1>15, <1>16 DEF SessionInv

-----------------------------------------------------------------------------
\* The theorems.

LEMMA SessionStep == SessionInv /\ [Next]_vars => SessionInv' /\ [StaySettled]_vars
<1> SUFFICES ASSUME SessionInv, [Next]_vars PROVE SessionInv' /\ [StaySettled]_vars
  OBVIOUS
<1>1. CASE UNCHANGED vars
  BY <1>1 DEF vars, SessionInv, RetiredStayGone, TypeOK, TokensUsed, RetiredOwned, FreshEmpty,
              Fresh, ObjectsOwned, AsLoaded, Loaded, Retired, Blocked, Stuck, CookiesKept, Now,
              EndedIsStored
<1>2. ASSUME NEW config \in Configs, NEW id \in Ids, Middleware(config, id)
      PROVE  SessionInv' /\ StaySettled
  BY <1>2, MiddlewareKeeps
<1>3. ASSUME NEW o \in DOMAIN objects, Destroy(o) PROVE SessionInv' /\ StaySettled
  BY <1>3, DestroyKeeps
<1>4. ASSUME NEW o \in DOMAIN objects, NEW id \in Ids, Regenerate(o, id)
      PROVE  SessionInv' /\ StaySettled
  BY <1>4, RegenerateKeeps
<1>5. ASSUME NEW refusing \in 0..Len(hooks), NEW with \in BOOLEAN, NEW accepts \in BOOLEAN,
             End(refusing, with, accepts)
      PROVE  SessionInv' /\ StaySettled
  BY <1>5, EndKeeps
<1>6. CASE Stream
  BY <1>6, StreamKeeps DEF Stream, StaySettled
<1>7. ASSUME NEW o \in DOMAIN objects, NEW data \in Data, ChangeData(o, data)
      PROVE  SessionInv' /\ StaySettled
  BY <1>7, ChangeDataKeeps DEF ChangeData, StaySettled
<1>8. ASSUME NEW value \in DOMAIN objects \union {Null, Undefined}, Assign(value)
      PROVE  SessionInv' /\ StaySettled
  BY <1>8, AssignKeeps DEF Assign, StaySettled
<1>9. ASSUME NEW data \in Data, NEW cookie \in Configs \union {Undefined},
             AssignFresh(data, cookie)
      PROVE  SessionInv' /\ StaySettled
  BY <1>9, AssignFreshKeeps DEF AssignFresh, StaySettled
<1> QED BY <1>1, <1>2, <1>3, <1>4, <1>5, <1>6, <1>7, <1>8, <1>9 DEF Next

LEMMA SessionAlways == Spec => []SessionInv
<1>1. SessionInv /\ [Next]_vars => SessionInv'
  BY SessionStep
<1> QED BY <1>1, InitSession, PTL DEF Spec

\* When the response has ended, the next request finds in every session of it,
\* however many hooks loaded it and however many ends failed, what
\* request.session held then, unless some hook has removed the session.
THEOREM SessionEndedIsStored == Spec => []EndedIsStored
<1>1. SessionInv => EndedIsStored
  BY DEF SessionInv
<1> QED BY <1>1, SessionAlways, PTL

\* The hook that removed a session by destroy() or regenerate() never stores it
\* again: only another hook that has loaded it may.
THEOREM SessionRetiredStayGone == Spec => []RetiredStayGone
<1>1. SessionInv => RetiredStayGone
  BY DEF SessionInv
<1> QED BY <1>1, SessionAlways, PTL

\* The last cookie issued for a settled session is among those of the response.
THEOREM SessionCookiesDelivered == Spec => []CookiesDelivered
<1>1. SessionInv => CookiesDelivered
  BY DEF SessionInv, CookiesKept, Now, CookiesDelivered
<1> QED BY <1>1, SessionAlways, PTL

\* No step touches the hook that an end has settled, nor its session, unless
\* another hook that no end has settled has loaded it too.
THEOREM SessionSettledByEnd == Spec => SettledByEnd
<1>1. SessionInv /\ [Next]_vars =>
        [\A h \in DOMAIN hooks :
           hooks[h].committed =>
             /\ hooks'[h] = hooks[h]
             /\ \/ store'[hooks[h].token] = store[hooks[h].token]
                \/ \E g \in DOMAIN hooks :
                     hooks[g].token = hooks[h].token /\ ~hooks[g].committed]_vars
  BY SessionStep DEF StaySettled
<1> QED BY <1>1, SessionAlways, PTL DEF Spec, SettledByEnd
=============================================================================
