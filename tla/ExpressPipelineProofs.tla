----------------------- MODULE ExpressPipelineProofs -----------------------
(***************************************************************************)
(* Proofs about ExpressPipeline, for applications of any size.             *)
(*                                                                         *)
(* PipelineInv is what holds of every application: the native stack is a   *)
(* chain of mounted routers with one walk on top, and a request has one    *)
(* walk at a time.  OrderInv adds, for applications that mount a router    *)
(* in one place, how far every walk has come in its container.             *)
(***************************************************************************)
EXTENDS ExpressPipeline, FiniteSetTheorems, SequenceTheorems, WellFoundedInduction, TLAPS

Frames == [kind : Kinds, walk : Walks, next : Nat]

NextTypes == [called : BOOLEAN, arg : {"none", "error", "route"},
              suspended : BOOLEAN, frame : Seq(Walks), closing : BOOLEAN]

PromiseTypes == [next : Nat \ {0}, errors : SUBSET Handler]

Entries == {Called(h) : h \in Handler} \union {Raised, Default, Uncaught}

Responses == [ended : BOOLEAN, streaming : BOOLEAN, committed : BOOLEAN,
              closed : BOOLEAN]

OneContainer(handlers) == \A g, h \in handlers : g[1] = h[1]

\* A walk has handlers of the layer before the one it goes on with, and error
\* handlers from that one on.
WalkInv(walk) ==
  IF walk.owner = NoOwner THEN OneContainer(walk.rest) /\ walk.errors = {}
  ELSE /\ \A h \in walk.rest : h[1] = walk.owner[1] /\ h[2] + 1 = walk.owner[2]
       /\ \A h \in walk.errors : h[1] = walk.owner[1] /\ h[2] >= walk.owner[2]

\* Routers wait below the one walk that runs.
StackInv(s, n) ==
  /\ s \in Seq(Frames)
  /\ \A k \in DOMAIN s :
       /\ WalkInv(s[k].walk)
       /\ s[k].kind = "router" <=> k < Len(s)
       /\ s[k].kind \in {"layers", "router"} \/ k > 1 => s[k].walk.owner # NoOwner
       /\ s[k].kind = "user" => s[k].next \in 1..n
       /\ s[k].next \in 0..n

NextInv(next) ==
  /\ next \in NextTypes /\ Len(next.frame) <= 1
  /\ next.frame # <<>> =>
       next.suspended /\ WalkInv(next.frame[1]) /\ next.frame[1].owner # NoOwner
  /\ next.closing => next.suspended

\* A walk under way, a saved walk or a promise: one of them at a time.
SingleInv ==
  /\ stack # <<>> => promises = {}
  /\ stack # <<>> \/ promises # {} => \A n \in DOMAIN nexts : nexts[n].frame = <<>>
  /\ \A p, q \in promises : p = q
  /\ \A m, n \in DOMAIN nexts :
       nexts[m].frame # <<>> /\ nexts[n].frame # <<>> => m = n

PipelineInv ==
  /\ StackInv(stack, Len(nexts))
  /\ nexts \in Seq(NextTypes) /\ \A n \in DOMAIN nexts : NextInv(nexts[n])
  /\ \A p \in promises :
       p \in PromiseTypes /\ p.next \in DOMAIN nexts /\ OneContainer(p.errors)
  /\ SingleInv
  /\ response \in Responses /\ (response.streaming => response.committed)
  /\ trace \in Seq(Entries)

-----------------------------------------------------------------------------
\* The order of the handlers

IsMount(c, l) == l \in DOMAIN Layers[c] /\ Layers[c][l].kind = "router"

\* A router is mounted in one place, the application nowhere.
MountedOnce ==
  \A c, d \in Containers, l, m \in Nat :
    IsMount(c, l) =>
      /\ Layers[c][l].router # App
      /\ IsMount(d, m) /\ Layers[d][m].router = Layers[c][l].router => c = d /\ l = m

\* The handlers that have been called
Calls(t) == {t[i].at : i \in {j \in DOMAIN t : t[j].what = "call"}}

\* Where walks stand: calls and entered routers of their container are below.
Limit(frame) ==
  <<frame.walk.owner[1],
    IF frame.kind = "router" THEN frame.walk.owner[2] + 1 ELSE frame.walk.owner[2]>>

LimitInv(limit, calls, entered) ==
  /\ limit[1] \in entered
  /\ \A h \in calls : h[1] = limit[1] => h[2] < limit[2]
  /\ \A l \in Nat : IsMount(limit[1], l) /\ Layers[limit[1]][l].router \in entered
                      => l < limit[2]

\* Handlers still to be called come after the calls in their container.
Ahead(handlers, calls, entered) ==
  \A h \in handlers :
    h[1] \in entered /\ \A g \in calls : g[1] = h[1] => Before(g, h)

\* A handler that runs was called last and is the first of its walk.
Calling(walk, t) ==
  t # <<>> /\ \E h \in walk.rest : /\ Last(t) = Called(h)
                                   /\ \A g \in walk.rest : g = h \/ Before(h, g)

FrameInv(f, t, entered) ==
  /\ f.walk.owner # NoOwner => LimitInv(Limit(f), Calls(t), entered)
  /\ f.kind = "handlers" => Ahead(f.walk.rest, Calls(t), entered)
  /\ f.kind = "user" => Calling(f.walk, t)

\* An error raised last is on its way to a handler, or a router not yet seen
\* has been entered with it.
ErrorInv(s, t) ==
  t # <<>> /\ Last(t).what = "raise" /\ s # <<>> =>
    LET walk == Last(s).walk
    IN  \/ walk.error
        \/ /\ walk.owner # NoOwner /\ walk.owner[1] # App
           /\ \A h \in Calls(t) : h[1] # walk.owner[1]

\* What a handler left behind goes on from the call of that handler.
LastIsCall(t) == t # <<>> /\ Last(t).what = "call"

SavedInv(next, t, entered) ==
  next.frame # <<>> =>
    /\ LimitInv(next.frame[1].owner, Calls(t), entered)
    /\ Ahead(next.frame[1].rest, Calls(t), entered)
    /\ LastIsCall(t)

PromiseInv(p, t, entered) == Ahead(p.errors, Calls(t), entered) /\ LastIsCall(t)

EnteredInv(entered) ==
  /\ \A h \in Calls(trace) : h[1] \in entered
  /\ \A c \in Containers, l \in Nat :
       IsMount(c, l) /\ Layers[c][l].router \in entered => c \in entered
  /\ \A k \in DOMAIN stack : FrameInv(stack[k], trace, entered)
  /\ \A n \in DOMAIN nexts : SavedInv(nexts[n], trace, entered)
  /\ \A p \in promises : PromiseInv(p, trace, entered)

DistinctContainers(s) ==
  \A j, k \in DOMAIN s : s[j].walk.owner[1] = s[k].walk.owner[1] => j = k

OrderInv ==
  /\ \E entered \in SUBSET Containers : EnteredInv(entered)
  /\ DistinctContainers(stack)
  /\ ErrorInv(stack, trace)
  /\ HandlersInOrder
  /\ ErrorsAreHandled

-----------------------------------------------------------------------------
\* The first handler

\* A set of naturals has a least member.
LEMMA LeastNatural ==
  ASSUME NEW T \in SUBSET Nat, T # {}
  PROVE  \E m \in T : \A n \in T : m <= n
<1> DEFINE R == {p \in Nat \X Nat : p[1] < p[2]}
<1>1. IsWellFoundedOn(R, Nat)
  BY NatLessThanWellFounded DEF OpToRel
<1>2. \E x \in T : \A y \in T : <<y, x>> \notin R
  <2> HIDE DEF R
  <2> QED BY <1>1, WFMin
<1>3. PICK m \in T : \A y \in T : <<y, m>> \notin R
  BY <1>2
<1>4. ASSUME NEW n \in T PROVE m <= n
  <2>1. <<n, m>> \notin R
    BY <1>3
  <2>2. m \in Nat /\ n \in Nat
    OBVIOUS
  <2> QED BY <2>1, <2>2
<1> QED BY <1>4

\* The handlers of one container have a first: the lowest index in the lowest layer.
LEMMA FirstExists ==
  ASSUME NEW H \in SUBSET Handler, H # {}, OneContainer(H)
  PROVE  \E h \in H : \A g \in H : g = h \/ Before(h, g)
<1> DEFINE Ls == {h[2] : h \in H}
<1>1. PICK l \in Ls : \A m \in Ls : l <= m
  <2>1. Ls \in SUBSET Nat /\ Ls # {}
    BY DEF Handler
  <2> HIDE DEF Ls
  <2> QED BY <2>1, LeastNatural
<1> DEFINE Is == {h[3] : h \in {g \in H : g[2] = l}}
<1>2. PICK i \in Is : \A j \in Is : i <= j
  <2>1. Is \in SUBSET Nat /\ Is # {}
    BY DEF Handler
  <2> HIDE DEF Is
  <2> QED BY <2>1, LeastNatural
<1>3. PICK h \in H : h[2] = l /\ h[3] = i
  OBVIOUS
<1>4. ASSUME NEW g \in H PROVE g = h \/ Before(h, g)
  <2>1. g[1] = h[1]
    BY DEF OneContainer
  <2>2. l \in Nat /\ i \in Nat /\ g[2] \in Nat /\ g[3] \in Nat
    BY <1>3 DEF Handler
  <2>3. g[2] >= l
    BY <1>1, <2>2
  <2>4. CASE g[2] > l
    BY <1>3, <2>4 DEF Before
  <2>5. CASE g[2] = l
    <3>1. g[3] >= i
      BY <1>2, <2>2, <2>5
    <3>2. CASE g[3] > i
      BY <1>3, <2>5, <3>2 DEF Before
    <3>3. CASE g[3] = i
      BY <1>3, <2>1, <2>5, <3>3 DEF Handler
    <3> QED BY <2>2, <3>1, <3>2, <3>3
  <2> QED BY <2>2, <2>3, <2>4, <2>5
<1> QED BY <1>3, <1>4

LEMMA FirstIs ==
  ASSUME NEW H \in SUBSET Handler, H # {}, OneContainer(H)
  PROVE  First(H) \in H /\ \A g \in H : g = First(H) \/ Before(First(H), g)
BY FirstExists DEF First

\* Before is a strict order.
LEMMA BeforeOrder ==
  ASSUME NEW f \in Handler, NEW g \in Handler, NEW h \in Handler
  PROVE  /\ ~Before(f, f)
         /\ Before(f, g) => ~Before(g, f)
         /\ Before(f, g) /\ Before(g, h) => Before(f, h)
BY DEF Before, Handler

-----------------------------------------------------------------------------
\* The native stack

LEMMA ReplacedShape ==
  ASSUME NEW S, NEW s \in Seq(S), s # <<>>, NEW f \in S
  PROVE  LET r == Front(s) \o <<f>>
         IN  /\ r \in Seq(S) /\ Len(r) = Len(s) /\ Last(r) = f /\ r # <<>>
             /\ \A k \in DOMAIN r : r[k] = IF k = Len(s) THEN f ELSE s[k]
<1>1. Len(s) \in Nat \ {0} /\ DOMAIN s = 1..Len(s)
  BY EmptySeq, LenProperties
<1>2. \A k \in 1..Len(s) - 1 : s[k] \in S
  BY <1>1
<1> DEFINE t == Front(s)
           r == t \o <<f>>
<1>3. t \in Seq(S) /\ Len(t) = Len(s) - 1 /\ \A k \in 1..Len(s) - 1 : t[k] = s[k]
  BY <1>1, <1>2, SubSeqProperties DEF Front
<1> HIDE DEF t
<1>4. r \in Seq(S) /\ Len(r) = Len(t) + 1
      /\ \A k \in 1..Len(t) + 1 : r[k] = IF k <= Len(t) THEN t[k] ELSE f
  BY <1>3, ConcatProperties
<1>5. /\ Len(r) = Len(s) /\ r \in Seq(S) /\ DOMAIN r = 1..Len(s)
      /\ \A k \in 1..Len(s) : r[k] = IF k = Len(s) THEN f ELSE s[k]
  <2> HIDE DEF r
  <2>1. Len(r) = Len(s) /\ Len(t) + 1 = Len(s)
    BY <1>1, <1>3, <1>4
  <2>2. DOMAIN r = 1..Len(s)
    BY <1>4, <2>1, LenProperties
  <2>3. ASSUME NEW k \in 1..Len(s) PROVE r[k] = IF k = Len(s) THEN f ELSE s[k]
    <3>1. r[k] = IF k <= Len(t) THEN t[k] ELSE f
      BY <1>4, <2>1
    <3>2. k \in Nat /\ Len(s) \in Nat /\ Len(t) = Len(s) - 1
      BY <1>1, <1>3
    <3> QED BY SMTT(40), <1>3, <3>1, <3>2
  <2> QED BY <1>4, <2>1, <2>2, <2>3
<1> HIDE DEF r
<1>6. Last(r) = f /\ r # <<>>
  <2>1. Len(s) \in 1..Len(s)
    BY SMTT(40), <1>1
  <2>2. r[Len(s)] = f
    BY ZenonT(60), <1>5, <2>1
  <2>3. Len(r) # 0
    BY Zenon, <1>1, <1>5
  <2> QED BY Zenon, <1>5, <2>2, <2>3, EmptySeq DEF Last
<1> QED BY <1>5, <1>6 DEF r, t

LEMMA FrameTop ==
  ASSUME NEW n \in Nat, StackInv(stack, n), stack # <<>>
  PROVE  /\ Len(stack) \in Nat \ {0} /\ Len(stack) \in DOMAIN stack
         /\ Top = stack[Len(stack)] /\ Top \in Frames /\ WalkInv(Top.walk)
         /\ Top.kind # "router" /\ Top.next \in 0..n
         /\ Top.kind = "user" => Top.next \in 1..n
         /\ Top.kind = "layers" \/ Len(stack) > 1 => Top.walk.owner # NoOwner
<1>1. Len(stack) \in Nat \ {0} /\ DOMAIN stack = 1..Len(stack)
  BY EmptySeq, LenProperties DEF StackInv
<1>2. stack[Len(stack)] \in Frames /\ Len(stack) \in DOMAIN stack
  BY <1>1 DEF StackInv
<1> QED BY <1>1, <1>2 DEF StackInv, Last, Top

\* The top frame is replaced by another.
LEMMA StackReplaced ==
  ASSUME NEW n \in Nat, NEW m \in Nat, n <= m, StackInv(stack, n), stack # <<>>,
         NEW f \in Frames, f.kind # "router", WalkInv(f.walk),
         Len(stack) > 1 \/ f.kind = "layers" => f.walk.owner # NoOwner,
         f.next \in 0..m, f.kind = "user" => f.next \in 1..m
  PROVE  StackInv(Replaced(f), m) /\ Replaced(f) # <<>>
<1> DEFINE r == Front(stack) \o <<f>>
<1>1. stack \in Seq(Frames)
  BY DEF StackInv
<1>2. /\ r \in Seq(Frames) /\ Len(r) = Len(stack) /\ r # <<>>
      /\ \A k \in DOMAIN r : r[k] = IF k = Len(stack) THEN f ELSE stack[k]
  BY <1>1, ReplacedShape
<1> HIDE DEF r
<1>3. ASSUME NEW k \in DOMAIN r
      PROVE  /\ WalkInv(r[k].walk)
             /\ r[k].kind = "router" <=> k < Len(r)
             /\ r[k].kind \in {"layers", "router"} \/ k > 1 => r[k].walk.owner # NoOwner
             /\ r[k].kind = "user" => r[k].next \in 1..m
             /\ r[k].next \in 0..m
  <2>1. k \in 1..Len(stack) /\ k \in DOMAIN stack
    BY <1>1, <1>2
  <2>2. CASE k = Len(stack)
    BY <1>2, <2>1, <2>2
  <2>3. CASE k # Len(stack)
    <3>1. r[k] = stack[k] /\ k < Len(stack)
      BY <1>1, <1>2, <2>1, <2>3
    <3> QED BY <1>2, <2>1, <3>1 DEF StackInv
  <2> QED BY <2>2, <2>3
<1>4. StackInv(r, m)
  BY <1>2, <1>3 DEF StackInv
<1> QED BY <1>2, <1>4 DEF Replaced, r

LEMMA PushedShape ==
  ASSUME NEW S, NEW s \in Seq(S), NEW f \in S
  PROVE  LET r == s \o <<f>>
         IN  /\ r \in Seq(S) /\ Len(r) = Len(s) + 1 /\ DOMAIN r = 1..Len(s) + 1
             /\ Last(r) = f /\ r # <<>>
             /\ \A k \in 1..Len(s) : r[k] = s[k]
<1> DEFINE r == s \o <<f>>
<1>1. /\ r \in Seq(S) /\ Len(r) = Len(s) + 1 /\ Len(s) \in Nat
      /\ \A k \in 1..Len(s) + 1 : r[k] = IF k <= Len(s) THEN s[k] ELSE f
  BY ConcatProperties, LenProperties
<1> HIDE DEF r
<1>2. DOMAIN r = 1..Len(s) + 1 /\ Len(s) + 1 \in 1..Len(s) + 1
  BY <1>1, LenProperties
<1>3. r[Len(s) + 1] = f /\ Len(r) # 0
  BY <1>1, <1>2
<1>4. \A k \in 1..Len(s) : r[k] = s[k]
  BY <1>1
<1> QED BY <1>1, <1>2, <1>3, <1>4, EmptySeq DEF Last, r

LEMMA StackEmpty ==
  ASSUME NEW n \in Nat
  PROVE  StackInv(<<>>, n)
BY EmptySeq DEF StackInv

LEMMA StackOne ==
  ASSUME NEW n \in Nat, NEW f \in Frames, f.kind # "router", f.kind # "user",
         WalkInv(f.walk), f.kind = "layers" => f.walk.owner # NoOwner, f.next = 0
  PROVE  StackInv(<<f>>, n)
<1>1. <<f>> \in Seq(Frames) /\ Len(<<f>>) = 1 /\ DOMAIN <<f>> = {1} /\ <<f>>[1] = f
  OBVIOUS
<1> DEFINE r == <<f>>
<1> HIDE DEF r
<1>2. StackInv(r, n)
  BY <1>1 DEF StackInv, r, Frames
<1> QED BY <1>2 DEF r

\* No handler waits for another: a native call returns to the event loop.
LEMMA ReturnedEmpty ==
  ASSUME NEW n \in Nat, StackInv(stack, n)
  PROVE  Returned = <<>>
<1>1. {k \in 1..Len(stack) - 1 : stack[k].kind = "user"} = {}
  <2>1. DOMAIN stack = 1..Len(stack) /\ Len(stack) \in Nat
    BY LenProperties DEF StackInv
  <2>2. ASSUME NEW k \in 1..Len(stack) - 1 PROVE stack[k].kind # "user"
    <3>1. k \in DOMAIN stack /\ k < Len(stack)
      BY <2>1
    <3> QED BY <3>1 DEF StackInv
  <2> QED BY <2>2
<1>2. Max({} \union {0}) = 0
  BY DEF Max
<1>3. SubSeq(stack, 1, 0) = <<>>
  BY SubSeqEmpty
<1> QED BY <1>1, <1>2, <1>3 DEF Returned

LEMMA LayersFrameInv ==
  ASSUME NEW c \in Containers, NEW l \in Nat \ {0}, NEW e \in BOOLEAN
  PROVE  LET f == LayersFrame(<<c, l>>, e)
         IN  /\ f \in Frames /\ f.kind = "layers" /\ f.next = 0
             /\ f.walk.owner = <<c, l>> /\ f.walk.rest = {} /\ f.walk.error = e
             /\ f.walk.owner # NoOwner /\ WalkInv(f.walk)
<1>1. <<c, l>> # NoOwner
  BY DEF NoOwner
<1>2. WalkInv(Walk({}, <<c, l>>, {}, e))
  BY <1>1 DEF WalkInv, Walk
<1> QED BY <1>1, <1>2 DEF LayersFrame, Frame, Walk, Frames, Walks, Kinds

LEMMA FirstLayerInv ==
  ASSUME NEW c \in Containers
  PROVE  LET f == LayersFrame(<<c, 1>>, FALSE)
         IN  /\ f \in Frames /\ f.kind = "layers" /\ f.next = 0
             /\ f.walk.owner = <<c, 1>> /\ f.walk.rest = {} /\ f.walk.error = FALSE
             /\ f.walk.owner # NoOwner /\ WalkInv(f.walk)
BY DEF LayersFrame, Frame, Walk, Frames, Walks, Kinds, WalkInv, NoOwner

\* An exception ends the walk, or goes on after the router's mount.
AfterMount(frame) ==
  LayersFrame(<<frame.walk.owner[1], frame.walk.owner[2] + 1>>, TRUE)

LEMMA ThrownShape ==
  ASSUME NEW n \in Nat, StackInv(stack, n), stack # <<>>
  PROVE  LET m == Len(stack) - 1
         IN  /\ m = 0 => Thrown = <<>> /\ ~Catches
             /\ m # 0 =>
                  /\ Catches /\ m \in DOMAIN stack /\ m \in Nat \ {0}
                  /\ AfterMount(stack[m]) \in Frames
                  /\ Thrown \in Seq(Frames) /\ Len(Thrown) = m
                  /\ DOMAIN Thrown = 1..m
                  /\ \A k \in 1..m :
                       Thrown[k] = IF k = m THEN AfterMount(stack[m]) ELSE stack[k]
<1> DEFINE m == Len(stack) - 1
           rest == Front(stack)
<1>1. /\ stack \in Seq(Frames) /\ Len(stack) \in Nat \ {0}
      /\ DOMAIN stack = 1..Len(stack) /\ m \in Nat
  BY EmptySeq, LenProperties DEF StackInv
<1>2. \A k \in 1..m : k \in DOMAIN stack /\ stack[k] \in Frames
  BY <1>1
<1>3. /\ rest \in Seq(Frames) /\ Len(rest) = m
      /\ \A k \in 1..m : rest[k] = stack[k]
  BY <1>1, <1>2, SubSeqProperties DEF Front
<1> HIDE DEF rest
<1>4. CASE m = 0
  <2>1. rest = <<>>
    BY Zenon, <1>3, <1>4, EmptySeq
  <2> QED BY <1>4, <2>1 DEF Thrown, Catches, rest
<1>5. CASE m # 0
  <2>1. m \in 1..m /\ m \in DOMAIN stack /\ m < Len(stack)
    BY <1>1, <1>5
  <2>2. rest # <<>> /\ Last(rest) = stack[m]
    BY <1>3, <1>5, <2>1, EmptySeq DEF Last
  <2>3. stack[m].kind = "router" /\ stack[m] \in Frames
    BY <1>1, <2>1 DEF StackInv
  <2>4. AfterMount(stack[m]) \in Frames
    BY <2>3 DEF AfterMount, LayersFrame, Frame, Walk, Frames, Walks, Kinds
  <2>5. Thrown = Front(rest) \o <<AfterMount(stack[m])>> /\ Catches
    BY <2>2, <2>3 DEF Thrown, Catches, AfterMount, rest
  <2>6. /\ Thrown \in Seq(Frames) /\ Len(Thrown) = m
        /\ \A k \in DOMAIN Thrown :
             Thrown[k] = IF k = m THEN AfterMount(stack[m]) ELSE rest[k]
    BY <1>3, <2>2, <2>4, <2>5, ReplacedShape
  <2>7. DOMAIN Thrown = 1..m
    BY <2>6, LenProperties
  <2>8. ASSUME NEW k \in 1..m
        PROVE  Thrown[k] = IF k = m THEN AfterMount(stack[m]) ELSE stack[k]
    BY <1>3, <2>6, <2>7
  <2> QED BY Zenon, <1>1, <1>5, <2>1, <2>4, <2>5, <2>6, <2>7, <2>8
<1> QED BY <1>4, <1>5

LEMMA ThrownStack ==
  ASSUME NEW n \in Nat, StackInv(stack, n), stack # <<>>
  PROVE  StackInv(Thrown, n)
<1> DEFINE m == Len(stack) - 1
<1>1. Len(stack) \in Nat \ {0} /\ stack \in Seq(Frames)
  BY FrameTop DEF StackInv
<1>2. CASE m = 0
  BY <1>2, ThrownShape, StackEmpty
<1>3. CASE m # 0
  <2>1. /\ m \in DOMAIN stack /\ m \in Nat \ {0}
        /\ AfterMount(stack[m]) \in Frames
        /\ Thrown \in Seq(Frames) /\ Len(Thrown) = m /\ DOMAIN Thrown = 1..m
        /\ \A k \in 1..m :
             Thrown[k] = IF k = m THEN AfterMount(stack[m]) ELSE stack[k]
    BY <1>3, ThrownShape
  <2>2. /\ stack[m] \in Frames
        /\ AfterMount(stack[m]).kind = "layers" /\ AfterMount(stack[m]).next = 0
        /\ AfterMount(stack[m]).walk.owner # NoOwner
        /\ WalkInv(AfterMount(stack[m]).walk)
    <3>1. stack[m] \in Frames
      BY <1>1, <2>1 DEF StackInv
    <3> DEFINE o == stack[m].walk.owner
    <3>2. o[1] \in Containers /\ o[2] + 1 \in Nat \ {0}
      BY <3>1 DEF Frames, Walks
    <3> QED BY <3>1, <3>2, LayersFrameInv DEF AfterMount
  <2>3. ASSUME NEW k \in DOMAIN Thrown
        PROVE  /\ WalkInv(Thrown[k].walk)
               /\ Thrown[k].kind = "router" <=> k < Len(Thrown)
               /\ Thrown[k].kind \in {"layers", "router"} \/ k > 1
                    => Thrown[k].walk.owner # NoOwner
               /\ Thrown[k].kind = "user" => Thrown[k].next \in 1..n
               /\ Thrown[k].next \in 0..n
    <3>1. CASE k = m
      BY <2>1, <2>2, <3>1
    <3>2. CASE k # m
      <4>1. Thrown[k] = stack[k] /\ k \in DOMAIN stack /\ k < Len(stack) /\ k < m
        BY <1>1, <2>1, <3>2
      <4> QED BY <2>1, <4>1 DEF StackInv
    <3> QED BY <3>1, <3>2
  <2> QED BY <2>1, <2>3 DEF StackInv
<1> QED BY <1>2, <1>3

-----------------------------------------------------------------------------
\* Steps that change the stack, the response or the trace

\* The facts of PipelineInv about all but the stack
LEMMA StackStep ==
  ASSUME PipelineInv, stack # <<>>, StackInv(stack', Len(nexts)),
         UNCHANGED <<nexts, promises>>,
         response' \in Responses, response'.streaming => response'.committed,
         trace' \in Seq(Entries)
  PROVE  PipelineInv'
<1>1. SingleInv'
  BY DEF PipelineInv, SingleInv
<1> QED BY <1>1 DEF PipelineInv

\* What is written in the history
LEMMA TraceAppend ==
  ASSUME PipelineInv, NEW e \in Entries
  PROVE  Append(trace, e) \in Seq(Entries)
BY DEF PipelineInv

LEMMA EntryKinds ==
  /\ Raised \in Entries /\ Default \in Entries /\ Uncaught \in Entries
  /\ \A h \in Handler : Called(h) \in Entries
BY DEF Entries

LEMMA TraceRaisedIf ==
  ASSUME PipelineInv, NEW b \in BOOLEAN
  PROVE  trace \o RaisedIf(b) \in Seq(Entries)
<1>1. trace \in Seq(Entries) /\ Raised \in Entries
  BY EntryKinds DEF PipelineInv
<1>2. CASE b
  BY <1>1, <1>2, PushedShape DEF RaisedIf
<1>3. CASE ~b
  BY <1>1, <1>3, ConcatEmptySeq DEF RaisedIf
<1> QED BY <1>2, <1>3

LEMMA ThrowStep ==
  ASSUME PipelineInv, stack # <<>>, Throw
  PROVE  StackInv(stack', Len(nexts)) /\ trace' \in Seq(Entries)
<1>1. StackInv(stack, Len(nexts)) /\ Len(nexts) \in Nat
  BY LenProperties DEF PipelineInv
<1>2. StackInv(Thrown, Len(nexts))
  BY <1>1, ThrownStack
<1>3. Append(trace, IF Catches THEN Raised ELSE Uncaught) \in Seq(Entries)
  BY TraceAppend, EntryKinds
<1> QED BY <1>2, <1>3 DEF Throw

LEMMA ResponseValues ==
  ASSUME PipelineInv
  PROVE  /\ Ended \in Responses /\ Ended.committed
         /\ Committed \in Responses /\ (Committed.streaming => Committed.committed)
         /\ Ended.streaming = response.streaming
         /\ Committed.streaming = response.streaming
BY DEF PipelineInv, Responses, Ended, Committed

LEMMA ReturnStep ==
  ASSUME PipelineInv
  PROVE  Returned = <<>> /\ StackInv(Returned, Len(nexts))
<1>1. StackInv(stack, Len(nexts)) /\ Len(nexts) \in Nat
  BY LenProperties DEF PipelineInv
<1> QED BY <1>1, ReturnedEmpty, StackEmpty

LEMMA SendDefaultStep ==
  ASSUME PipelineInv, stack # <<>>, NEW ok, SendDefault(ok), UNCHANGED <<nexts, promises>>
  PROVE  PipelineInv'
<1>1. CASE HeadersOpen /\ EndAccepted(ok)
  <2>1. response' = Ended /\ stack' = Returned /\ trace' = Append(trace, Default)
    BY <1>1 DEF SendDefault
  <2>2. trace' \in Seq(Entries)
    BY <2>1, TraceAppend, EntryKinds
  <2> QED BY <2>1, <2>2, ReturnStep, ResponseValues, StackStep
<1>2. CASE ~(HeadersOpen /\ EndAccepted(ok))
  <2>1. Throw /\ response' = IF HeadersOpen THEN Committed ELSE response
    BY <1>2 DEF SendDefault
  <2>2. response' \in Responses /\ (response'.streaming => response'.committed)
    BY <2>1, ResponseValues DEF PipelineInv
  <2> QED BY <2>1, <2>2, ThrowStep, StackStep
<1> QED BY <1>1, <1>2

\* The top frame gives way to another, and nothing is handed out.
LEMMA ReplaceStep ==
  ASSUME PipelineInv, stack # <<>>, NEW f \in Frames, f.kind # "router", f.kind # "user",
         WalkInv(f.walk), Len(stack) > 1 \/ f.kind = "layers" => f.walk.owner # NoOwner,
         f.next = 0, stack' = Replaced(f), UNCHANGED <<nexts, promises, response>>,
         trace' \in Seq(Entries)
  PROVE  PipelineInv'
<1>1. StackInv(stack, Len(nexts)) /\ Len(nexts) \in Nat
  BY LenProperties DEF PipelineInv
<1>2. StackInv(Replaced(f), Len(nexts))
  BY <1>1, StackReplaced
<1> QED BY <1>2, StackStep DEF PipelineInv

-----------------------------------------------------------------------------
\* Native steps keep PipelineInv

LEMMA HandlersOfType ==
  ASSUME NEW c \in Containers, NEW l \in DOMAIN Layers[c],
         Layers[c][l].kind \in {"middleware", "route"}
  PROVE  /\ l \in Nat \ {0} /\ HandlersOf(c, l) \subseteq Handler
         /\ \A h \in HandlersOf(c, l) : h[1] = c /\ h[2] = l
<1>1. Layers[c] \in Seq(LayerTypes)
  BY ExpressPipelineAssumption
<1>2. l \in Nat \ {0} /\ Layers[c][l] \in LayerTypes
  BY <1>1, LenProperties
<1>3. Layers[c][l].handlers \in Seq(BOOLEAN)
  BY <1>2 DEF LayerTypes
<1>4. DOMAIN Layers[c][l].handlers \subseteq Nat
  BY <1>3, LenProperties
<1> QED BY <1>2, <1>4 DEF HandlersOf, Handler

LEMMA LaterErrorHandlersType ==
  ASSUME NEW c \in Containers, NEW l \in Nat
  PROVE  /\ LaterErrorHandlers(c, l) \subseteq Handler
         /\ \A h \in LaterErrorHandlers(c, l) : h[1] = c /\ h[2] >= l
<1> DEFINE later == {k \in DOMAIN Layers[c] : k >= l /\ Layers[c][k].kind = "middleware"}
<1>1. ASSUME NEW h \in LaterErrorHandlers(c, l)
      PROVE  \E k \in later : h \in HandlersOf(c, k)
  BY DEF LaterErrorHandlers
<1>2. ASSUME NEW k \in later
      PROVE  HandlersOf(c, k) \subseteq Handler
             /\ \A h \in HandlersOf(c, k) : h[1] = c /\ h[2] >= l
  BY HandlersOfType
<1> QED BY <1>1, <1>2

\* Where the walk of layers stands
LEMMA LayersTop ==
  ASSUME PipelineInv, Native("layers")
  PROVE  /\ stack # <<>> /\ Len(nexts) \in Nat /\ StackInv(stack, Len(nexts))
         /\ Top \in Frames /\ Top.walk.error \in BOOLEAN
         /\ Top.walk.owner = <<Top.walk.owner[1], Top.walk.owner[2]>>
         /\ Top.walk.owner # NoOwner
         /\ Top.walk.owner[1] \in Containers /\ Top.walk.owner[2] \in Nat
<1>1. stack # <<>> /\ Len(nexts) \in Nat /\ StackInv(stack, Len(nexts)) /\ Top.kind = "layers"
  BY LenProperties DEF PipelineInv, Native
<1>2. Top \in Frames /\ Top.walk.owner # NoOwner
  BY <1>1, FrameTop
<1> QED BY <1>1, <1>2 DEF Frames, Walks

LEMMA SkipRouteStep ==
  ASSUME PipelineInv, SkipRoute
  PROVE  PipelineInv'
<1> DEFINE o == Top.walk.owner
           f == LayersFrame(<<o[1], o[2] + 1>>, TRUE)
<1>1. Native("layers")
  BY DEF SkipRoute, WalkingLayers
<1>2. o[1] \in Containers /\ o[2] + 1 \in Nat \ {0} /\ stack # <<>>
  BY <1>1, LayersTop
<1>3. /\ f \in Frames /\ f.kind = "layers" /\ f.next = 0
      /\ f.walk.owner # NoOwner /\ WalkInv(f.walk)
  BY <1>2, LayersFrameInv
<1>4. /\ stack' = Replaced(f) /\ UNCHANGED <<nexts, promises, response>>
      /\ trace' \in Seq(Entries)
  BY DEF SkipRoute, ResumeLayer, PipelineInv
<1> HIDE DEF f
<1> QED BY <1>2, <1>3, <1>4, ReplaceStep

\* The walk of a layer's handlers
LEMMA HandlersWalk ==
  ASSUME NEW c \in Containers, NEW l \in DOMAIN Layers[c],
         Layers[c][l].kind \in {"middleware", "route"}, NEW error \in BOOLEAN
  PROVE  LET w == Walk(HandlersOf(c, l), ResumeLayer(c, l), LaterErrorHandlers(c, l + 1), error)
             f == Frame("handlers", w, 0)
         IN  /\ f \in Frames /\ f.kind = "handlers" /\ f.next = 0 /\ f.walk = w
             /\ w.owner # NoOwner /\ WalkInv(w)
<1> DEFINE w == Walk(HandlersOf(c, l), ResumeLayer(c, l), LaterErrorHandlers(c, l + 1), error)
<1>1. /\ l \in Nat \ {0} /\ HandlersOf(c, l) \subseteq Handler
      /\ \A h \in HandlersOf(c, l) : h[1] = c /\ h[2] = l
  BY HandlersOfType
<1>2. /\ LaterErrorHandlers(c, l + 1) \subseteq Handler
      /\ \A h \in LaterErrorHandlers(c, l + 1) : h[1] = c /\ h[2] >= l + 1
  BY <1>1, LaterErrorHandlersType
<1>3. w.owner # NoOwner /\ w.owner[1] = c /\ w.owner[2] = l + 1 /\ w \in Walks
  BY <1>1, <1>2 DEF Walk, ResumeLayer, NoOwner, Walks
<1>4. WalkInv(w)
  BY <1>1, <1>2, <1>3 DEF WalkInv, Walk
<1> QED BY <1>3, <1>4 DEF Frame, Frames, Kinds

LEMMA EnterHandlersStep ==
  ASSUME PipelineInv, EnterHandlers
  PROVE  PipelineInv'
<1> DEFINE c == Top.walk.owner[1]
           l == Top.walk.owner[2]
           f == Frame("handlers", Walk(HandlersOf(c, l), ResumeLayer(c, l),
                        LaterErrorHandlers(c, l + 1), Top.walk.error), 0)
<1>1. Native("layers") /\ l \in DOMAIN Layers[c] /\ Layers[c][l].kind \in {"middleware", "route"}
  BY DEF EnterHandlers, WalkingLayers
<1>2. c \in Containers /\ Top.walk.error \in BOOLEAN /\ stack # <<>>
  BY <1>1, LayersTop
<1>3. /\ f \in Frames /\ f.kind = "handlers" /\ f.next = 0
      /\ f.walk.owner # NoOwner /\ WalkInv(f.walk)
  BY <1>1, <1>2, HandlersWalk
<1>4. /\ stack' = Replaced(f) /\ UNCHANGED <<nexts, promises, response>>
      /\ trace' \in Seq(Entries)
  BY SMTT(40) DEF EnterHandlers, PipelineInv
<1> HIDE DEF f
<1> QED BY SMTT(40), <1>2, <1>3, <1>4, ReplaceStep

\* A router waits below the walk of its layers.
EnteredShape(s, waiting, walking) ==
  /\ s \in Seq(Frames) /\ Len(s) = Len(stack) + 1 /\ DOMAIN s = 1..Len(stack) + 1 /\ s # <<>>
  /\ s[Len(stack)] = waiting /\ s[Len(stack) + 1] = walking
  /\ \A k \in 1..Len(stack) - 1 : s[k] = stack[k]

LEMMA RouterEntered ==
  ASSUME PipelineInv, EnterRouter
  PROVE  LET o == Top.walk.owner
             r == Layers[o[1]][o[2]].router
         IN  /\ stack # <<>> /\ Len(stack) \in Nat \ {0} /\ Top = stack[Len(stack)]
             /\ o[1] \in Containers /\ o[2] \in DOMAIN Layers[o[1]] /\ o[2] \in Nat
             /\ Layers[o[1]][o[2]].kind = "router" /\ r \in Containers
             /\ [Top EXCEPT !.kind = "router"] \in Frames
             /\ EnteredShape(stack', [Top EXCEPT !.kind = "router"],
                             LayersFrame(<<r, 1>>, FALSE))
<1> DEFINE o == Top.walk.owner
           r == Layers[o[1]][o[2]].router
           w == [Top EXCEPT !.kind = "router"]
           f == LayersFrame(<<r, 1>>, FALSE)
           s == Front(stack) \o <<w>>
<1>1. /\ Native("layers") /\ o[2] \in DOMAIN Layers[o[1]]
      /\ Layers[o[1]][o[2]].kind = "router" /\ stack' = s \o <<f>>
  BY SMTT(40) DEF EnterRouter, WalkingLayers, Replaced
<1>2. /\ o[1] \in Containers /\ o[2] \in Nat /\ stack # <<>> /\ Top \in Frames
      /\ stack \in Seq(Frames) /\ StackInv(stack, Len(nexts)) /\ Len(nexts) \in Nat
  BY SMTT(40), <1>1, LayersTop DEF StackInv
<1>3. Layers[o[1]][o[2]] \in LayerTypes
  BY SMTT(40), <1>1, <1>2, ExpressPipelineAssumption, LenProperties
<1>4. r \in Containers
  BY <1>1, <1>3 DEF LayerTypes
<1>5. w \in Frames
  BY <1>2 DEF Frames, Kinds
<1>6. f \in Frames
  BY <1>4, FirstLayerInv
<1>7. Len(stack) \in Nat \ {0} /\ Top = stack[Len(stack)]
  BY <1>2, FrameTop
<1> HIDE DEF w, f
<1>8. /\ s \in Seq(Frames) /\ Len(s) = Len(stack) /\ s # <<>>
      /\ \A k \in DOMAIN s : s[k] = IF k = Len(stack) THEN w ELSE stack[k]
  BY <1>2, <1>5, ReplacedShape
<1> HIDE DEF s
<1>9. /\ stack' \in Seq(Frames) /\ Len(stack') = Len(s) + 1
      /\ DOMAIN stack' = 1..Len(s) + 1 /\ Last(stack') = f /\ stack' # <<>>
      /\ \A k \in 1..Len(s) : stack'[k] = s[k]
  BY <1>1, <1>6, <1>8, PushedShape
<1>10. Len(stack) \in DOMAIN s /\ Len(stack) \in 1..Len(s) /\ DOMAIN s = 1..Len(stack)
  BY <1>7, <1>8, LenProperties
<1>11. stack'[Len(stack)] = w /\ stack'[Len(stack) + 1] = f
  BY SMTT(40), <1>8, <1>9, <1>10 DEF Last
<1>12. ASSUME NEW k \in 1..Len(stack) - 1 PROVE stack'[k] = stack[k]
  <2>1. k \in 1..Len(stack) /\ k # Len(stack)
    BY <1>7
  <2> QED BY Zenon, <1>8, <1>9, <1>10, <2>1
<1>13. EnteredShape(stack', w, f)
  BY SMTT(40), <1>8, <1>9, <1>11, <1>12 DEF EnteredShape
<1> QED BY ZenonT(60), <1>1, <1>2, <1>4, <1>5, <1>7, <1>13 DEF w, f

LEMMA EnterRouterStep ==
  ASSUME PipelineInv, EnterRouter
  PROVE  PipelineInv'
<1> DEFINE o == Top.walk.owner
           r == Layers[o[1]][o[2]].router
           w == [Top EXCEPT !.kind = "router"]
           f == LayersFrame(<<r, 1>>, FALSE)
           n == Len(nexts)
<1>1. /\ stack # <<>> /\ Len(stack) \in Nat \ {0} /\ r \in Containers /\ w \in Frames
      /\ EnteredShape(stack', w, f)
  BY RouterEntered
<1>2. /\ n \in Nat /\ StackInv(stack, n) /\ Top \in Frames /\ Top.next \in 0..n
      /\ WalkInv(Top.walk) /\ Top.walk.owner # NoOwner
  <2>1. Native("layers")
    BY DEF EnterRouter, WalkingLayers
  <2> QED BY <2>1, LayersTop, FrameTop
<1>3. w.kind = "router" /\ w.walk = Top.walk /\ w.next = Top.next
  BY SMTT(40), <1>2 DEF Frames
<1>4. /\ f.kind = "layers" /\ f.next = 0 /\ f.walk.owner # NoOwner /\ WalkInv(f.walk)
  BY Zenon, <1>1, FirstLayerInv
<1> HIDE DEF w, f, n
<1>5. ASSUME NEW k \in DOMAIN stack'
      PROVE  /\ WalkInv(stack'[k].walk)
             /\ stack'[k].kind = "router" <=> k < Len(stack')
             /\ stack'[k].kind \in {"layers", "router"} \/ k > 1
                  => stack'[k].walk.owner # NoOwner
             /\ stack'[k].kind = "user" => stack'[k].next \in 1..n
             /\ stack'[k].next \in 0..n
  <2>1. k \in 1..Len(stack) + 1 /\ Len(stack') = Len(stack) + 1
    BY <1>1 DEF EnteredShape
  <2>2. CASE k = Len(stack) + 1
    BY <1>1, <1>2, <1>4, <2>1, <2>2 DEF EnteredShape
  <2>3. CASE k = Len(stack)
    BY <1>1, <1>2, <1>3, <2>1, <2>3 DEF EnteredShape
  <2>4. CASE k < Len(stack)
    <3>1. k \in 1..Len(stack) - 1 /\ k < Len(stack') /\ k \in DOMAIN stack
      BY <1>1, <1>2, <2>1, <2>4, LenProperties DEF StackInv
    <3>2. stack'[k] = stack[k]
      BY <1>1, <3>1 DEF EnteredShape
    <3> QED BY <1>2, <2>4, <3>1, <3>2 DEF StackInv
  <2> QED BY <1>1, <2>1, <2>2, <2>3, <2>4
<1>6. StackInv(stack', n)
  BY <1>1, <1>5 DEF StackInv, EnteredShape
<1> QED BY ZenonT(60), <1>1, <1>6, StackStep DEF EnterRouter, PipelineInv, n

\* Where the walk of handlers stands
LEMMA HandlersTop ==
  ASSUME PipelineInv, Native("handlers") \/ Native("user")
  PROVE  /\ stack # <<>> /\ Len(nexts) \in Nat /\ StackInv(stack, Len(nexts))
         /\ Top \in Frames /\ Top.walk \in Walks /\ WalkInv(Top.walk)
         /\ Top.walk.rest \in SUBSET Handler /\ OneContainer(Top.walk.rest)
         /\ Len(stack) > 1 => Top.walk.owner # NoOwner
         /\ Native("user") => Top.next \in DOMAIN nexts
<1>1. stack # <<>> /\ Len(nexts) \in Nat /\ StackInv(stack, Len(nexts))
      /\ DOMAIN nexts = 1..Len(nexts)
  BY LenProperties DEF PipelineInv, Native
<1>2. Top \in Frames /\ WalkInv(Top.walk) /\ Top.walk \in Walks
      /\ (Len(stack) > 1 => Top.walk.owner # NoOwner)
      /\ (Top.kind = "user" => Top.next \in 1..Len(nexts))
  BY <1>1, FrameTop DEF Frames
<1>3. Top.walk.rest \in SUBSET Handler /\ OneContainer(Top.walk.rest)
  BY <1>2 DEF Walks, WalkInv, OneContainer
<1> QED BY <1>1, <1>2, <1>3 DEF Native

\* A walk that has fewer handlers left is still one.
LEMMA FromWalk ==
  ASSUME NEW w \in Walks, WalkInv(w), NEW h
  PROVE  /\ From(w, h) \in Walks /\ WalkInv(From(w, h)) /\ From(w, h).owner = w.owner
         /\ From(w, h).rest = {g \in w.rest : g = h \/ Before(h, g)}
         /\ From(w, h).error = w.error /\ From(w, h).errors = w.errors
<1> DEFINE R == {g \in w.rest : g = h \/ Before(h, g)}
<1>1. From(w, h) = [w EXCEPT !.rest = R] /\ R \subseteq w.rest
  BY DEF From
<1> HIDE DEF R
<1> QED BY <1>1 DEF Walks, WalkInv, OneContainer, R

LEMMA FinishLayersStep ==
  ASSUME PipelineInv, FinishLayers
  PROVE  PipelineInv'
<1>1. stack # <<>>
  BY DEF FinishLayers, Native
<1>2. CASE response.ended \/ (response.streaming /\ ~Top.walk.error)
  <2>1. /\ stack' = Returned /\ UNCHANGED <<nexts, promises, response, trace>>
    BY <1>2 DEF FinishLayers
  <2> QED BY <1>1, <2>1, ReturnStep, StackStep DEF PipelineInv
<1>3. CASE ~(response.ended \/ (response.streaming /\ ~Top.walk.error))
  <2>1. PICK ok \in Accepts : SendDefault(ok)
    BY <1>3 DEF FinishLayers
  <2> QED BY <1>1, <2>1, SendDefaultStep DEF FinishLayers
<1> QED BY <1>2, <1>3

LEMMA HandlersDoneStep ==
  ASSUME PipelineInv, HandlersDone
  PROVE  PipelineInv'
<1>1. Native("handlers") /\ stack # <<>>
  BY DEF HandlersDone, Native
<1>2. CASE Top.walk.owner # NoOwner
  <2> DEFINE f == LayersFrame(Top.walk.owner, Top.walk.error)
  <2>1. stack' = Replaced(f) /\ UNCHANGED <<nexts, promises, response, trace>>
    BY <1>2 DEF HandlersDone
  <2>2. f \in Frames /\ f.kind = "layers" /\ f.next = 0 /\ f.walk.owner # NoOwner
        /\ WalkInv(f.walk)
    BY <1>1, <1>2, HandlersTop
    DEF LayersFrame, Frame, Walk, Frames, Walks, Kinds, WalkInv
  <2> HIDE DEF f
  <2> QED BY <1>1, <2>1, <2>2, ReplaceStep DEF PipelineInv
<1>3. CASE Top.walk.owner = NoOwner /\ Top.walk.error
  <2>1. PICK ok \in Accepts : SendDefault(ok)
    BY <1>3 DEF HandlersDone
  <2> QED BY <1>1, <2>1, SendDefaultStep DEF HandlersDone
<1>4. CASE Top.walk.owner = NoOwner /\ ~Top.walk.error
  <2>1. stack' = Returned /\ UNCHANGED <<nexts, promises, response, trace>>
    BY <1>4 DEF HandlersDone
  <2> QED BY <1>1, <2>1, ReturnStep, StackStep DEF PipelineInv
<1> QED BY <1>2, <1>3, <1>4

LEMMA CallHandlerStep ==
  ASSUME PipelineInv, CallHandler
  PROVE  PipelineInv'
<1> DEFINE h == First(Applicable)
           f == Frame("user", From(Top.walk, h), Len(nexts) + 1)
<1>1. /\ Native("handlers") /\ Applicable # {} /\ stack' = Replaced(f)
      /\ trace' = Append(trace, Called(h)) /\ nexts' = Append(nexts, FreshNext)
      /\ UNCHANGED <<promises, response>>
  BY DEF CallHandler
<1>2. /\ stack # <<>> /\ Len(nexts) \in Nat /\ StackInv(stack, Len(nexts))
      /\ Top.walk \in Walks /\ WalkInv(Top.walk)
      /\ Top.walk.rest \in SUBSET Handler /\ OneContainer(Top.walk.rest)
      /\ Len(stack) > 1 => Top.walk.owner # NoOwner
  BY <1>1, HandlersTop
<1>3. h \in Handler
  BY <1>1, <1>2, FirstIs DEF Applicable, OneContainer
<1>4. f \in Frames /\ f.kind = "user" /\ f.next = Len(nexts) + 1 /\ f.walk = From(Top.walk, h)
  BY <1>2 DEF Frame, From, Frames, Walks, Kinds
<1>5. WalkInv(f.walk) /\ f.walk.owner = Top.walk.owner
  BY <1>2, <1>4, FromWalk
<1> HIDE DEF f, h
<1>6. StackInv(stack', Len(nexts) + 1) /\ stack' # <<>>
  BY <1>1, <1>2, <1>4, <1>5, StackReplaced
<1>7. nexts \in Seq(NextTypes) /\ FreshNext \in NextTypes /\ NextInv(FreshNext)
      /\ FreshNext.frame = <<>>
  BY DEF PipelineInv, FreshNext, NextTypes, NextInv
<1>8. /\ nexts' \in Seq(NextTypes) /\ Len(nexts') = Len(nexts) + 1
      /\ \A n \in DOMAIN nexts' :
           nexts'[n] = FreshNext \/ (n \in DOMAIN nexts /\ nexts'[n] = nexts[n])
  <2>1. /\ nexts' \in Seq(NextTypes) /\ Len(nexts') = Len(nexts) + 1
        /\ \A n \in 1..Len(nexts) : nexts'[n] = nexts[n]
        /\ nexts'[Len(nexts) + 1] = FreshNext
    BY <1>1, <1>7, AppendProperties
  <2>2. DOMAIN nexts' = 1..Len(nexts) + 1 /\ DOMAIN nexts = 1..Len(nexts)
    BY <1>7, <2>1, LenProperties
  <2> QED BY <1>2, <2>1, <2>2
<1>9. promises = {}
  BY <1>2 DEF PipelineInv, SingleInv
<1>10. SingleInv'
  <2>1. \A n \in DOMAIN nexts' : nexts'[n].frame = <<>>
    BY <1>2, <1>7, <1>8 DEF PipelineInv, SingleInv
  <2> QED BY <1>1, <1>9, <2>1 DEF SingleInv
<1>11. \A n \in DOMAIN nexts' : NextInv(nexts'[n])
  BY <1>7, <1>8 DEF PipelineInv
<1>12. trace' \in Seq(Entries)
  BY <1>1, <1>3, TraceAppend, EntryKinds
<1> QED BY <1>1, <1>6, <1>8, <1>9, <1>10, <1>11, <1>12 DEF PipelineInv

-----------------------------------------------------------------------------
\* Steps of handlers and of the event loop keep PipelineInv

LEMMA ResponseStep ==
  ASSUME PipelineInv, Write \/ WriteHead \/ End
  PROVE  PipelineInv'
<1>1. UNCHANGED <<stack, nexts, promises, trace>>
  BY DEF Write, WriteHead, End
<1>2. response' \in Responses /\ (response'.streaming => response'.committed)
  <2>1. Accepts \subseteq BOOLEAN /\ response \in Responses
    BY ExpressPipelineAssumption DEF PipelineInv
  <2>2. CASE Write
    <3>1. PICK ok \in Accepts : response' = [Committed EXCEPT !.streaming = @ \/ ok]
      BY <2>2 DEF Write
    <3>2. ~response.closed
      BY <2>2 DEF Write
    <3> QED BY <2>1, <3>1, <3>2 DEF Committed, Responses
  <2>3. CASE WriteHead
    BY <2>1, <2>3 DEF WriteHead, Responses
  <2>4. CASE End
    BY <2>1, <2>4, ResponseValues DEF End, Ended
  <2> QED BY <2>2, <2>3, <2>4
<1>3. SingleInv'
  BY <1>1 DEF PipelineInv, SingleInv
<1> QED BY <1>1, <1>2, <1>3 DEF PipelineInv

\* One of the next functions is marked.
LEMMA NextsUpdated ==
  ASSUME PipelineInv, NEW n \in DOMAIN nexts, NEW x, NextInv(x),
         nexts' = [nexts EXCEPT ![n] = x]
  PROVE  /\ nexts' \in Seq(NextTypes) /\ Len(nexts') = Len(nexts) /\ Len(nexts) \in Nat
         /\ DOMAIN nexts' = DOMAIN nexts
         /\ \A m \in DOMAIN nexts : nexts'[m] = IF m = n THEN x ELSE nexts[m]
         /\ \A m \in DOMAIN nexts' : NextInv(nexts'[m])
<1>1. nexts \in Seq(NextTypes) /\ x \in NextTypes
  BY DEF PipelineInv, NextInv
<1>2. nexts' \in Seq(NextTypes) /\ Len(nexts') = Len(nexts) /\ Len(nexts) \in Nat
      /\ DOMAIN nexts' = DOMAIN nexts
      /\ \A m \in DOMAIN nexts : nexts'[m] = IF m = n THEN x ELSE nexts[m]
  BY <1>1
<1> QED BY <1>2 DEF PipelineInv

LEMMA AfterWalk ==
  ASSUME NEW w \in Walks, WalkInv(w), NEW e \in BOOLEAN
  PROVE  LET v == [After(w) EXCEPT !.error = e]
         IN  /\ v \in Walks /\ WalkInv(v) /\ v.owner = w.owner
             /\ v.rest = w.rest \ {First(w.rest)} /\ v.error = e /\ v.errors = w.errors
<1> DEFINE R == w.rest \ {First(w.rest)}
<1>1. R \in SUBSET w.rest /\ After(w) = [w EXCEPT !.rest = R]
  BY DEF After
<1> HIDE DEF R
<1> DEFINE v == [[w EXCEPT !.rest = R] EXCEPT !.error = e]
<1>2. /\ v \in Walks /\ WalkInv(v) /\ v.owner = w.owner
      /\ v.rest = R /\ v.error = e /\ v.errors = w.errors
  BY <1>1 DEF Walks, WalkInv, OneContainer
<1>3. [After(w) EXCEPT !.error = e] = v
  BY <1>1
<1> HIDE DEF v
<1> QED BY <1>2, <1>3 DEF R

\* A frame for what is left of a walk
LEMMA HandlersFrame ==
  ASSUME NEW w \in Walks
  PROVE  LET f == Frame("handlers", w, 0)
         IN  f \in Frames /\ f.kind = "handlers" /\ f.next = 0 /\ f.walk = w
BY DEF Frame, Frames, Kinds

\* The frame that resumes a suspended walk
Resumed(n, arg) ==
  Frame("handlers", [nexts[n].frame[1] EXCEPT !.error = arg # "none"], 0)

LEMMA ResumedFrame ==
  ASSUME PipelineInv, NEW n \in DOMAIN nexts, NEW arg, nexts[n].frame # <<>>
  PROVE  /\ Resumed(n, arg) \in Frames /\ Resumed(n, arg).kind = "handlers"
         /\ Resumed(n, arg).next = 0 /\ WalkInv(Resumed(n, arg).walk)
         /\ Resumed(n, arg).walk.owner = nexts[n].frame[1].owner
         /\ Resumed(n, arg).walk.owner # NoOwner
         /\ Resumed(n, arg).walk.rest = nexts[n].frame[1].rest
         /\ Resumed(n, arg).walk.error = (arg # "none")
         /\ nexts[n].frame[1] \in Walks
<1> DEFINE w == nexts[n].frame[1]
           v == [w EXCEPT !.error = arg # "none"]
<1>1. NextInv(nexts[n])
  BY DEF PipelineInv
<1>2. nexts[n].frame \in Seq(Walks)
  BY <1>1 DEF NextInv, NextTypes
<1>3. w \in Walks /\ WalkInv(w) /\ w.owner # NoOwner
  BY <1>1, <1>2, EmptySeq DEF NextInv
<1>4. v \in Walks /\ WalkInv(v) /\ v.owner = w.owner /\ v.rest = w.rest
      /\ v.error = (arg # "none")
  <2> HIDE DEF w
  <2>1. (arg # "none") \in BOOLEAN
    OBVIOUS
  <2> QED BY <1>3, <2>1 DEF Walks, WalkInv, OneContainer
<1> HIDE DEF w, v
<1>5. Resumed(n, arg) = Frame("handlers", v, 0)
  BY DEF Resumed, v, w
<1>6. /\ Resumed(n, arg) \in Frames /\ Resumed(n, arg).kind = "handlers"
      /\ Resumed(n, arg).next = 0 /\ Resumed(n, arg).walk = v
  BY <1>4, <1>5, HandlersFrame
<1> QED BY <1>3, <1>4, <1>6 DEF w

LEMMA RetiredInv ==
  ASSUME NEW x, NextInv(x)
  PROVE  NextInv(Retired(x)) /\ Retired(x).frame = <<>>
<1>1. <<>> \in Seq(Walks) /\ Len(<<>>) = 0
  BY EmptySeq
<1>2. x \in NextTypes
  BY DEF NextInv
<1>3. Retired(x) \in NextTypes /\ Retired(x).frame = <<>> /\ ~Retired(x).closing
  BY <1>1, <1>2 DEF NextTypes, Retired
<1> QED BY <1>1, <1>3 DEF NextInv

LEMMA MarkedInv ==
  ASSUME NEW x, NextInv(x), NEW arg \in {"none", "error", "route"}
  PROVE  LET y == [x EXCEPT !.called = TRUE, !.arg = arg]
         IN  NextInv(y) /\ y.frame = x.frame
BY DEF NextInv, NextTypes

LEMMA CallNextStep ==
  ASSUME PipelineInv, NEW n \in DOMAIN nexts, NEW arg \in NextArgs, CallNext(n, arg)
  PROVE  PipelineInv'
<1> DEFINE next == [nexts[n] EXCEPT !.called = TRUE, !.arg = arg]
<1>1. /\ UserCode /\ UNCHANGED <<promises, response>> /\ NextInv(nexts[n])
      /\ arg \in {"none", "error", "route"}
  BY SMTT(40), ExpressPipelineAssumption DEF CallNext, PipelineInv
<1>2. /\ NextInv(next) /\ NextInv(Retired(next)) /\ Retired(next).frame = <<>>
      /\ next.frame = nexts[n].frame
  BY Zenon, <1>1, RetiredInv, MarkedInv
<1>3. PICK x : NextInv(x) /\ nexts' = [nexts EXCEPT ![n] = x]
               /\ (x.frame = nexts[n].frame \/ x.frame = <<>>)
  BY <1>2 DEF CallNext
<1>4. /\ nexts' \in Seq(NextTypes) /\ Len(nexts') = Len(nexts) /\ Len(nexts) \in Nat
      /\ DOMAIN nexts' = DOMAIN nexts
      /\ \A m \in DOMAIN nexts : nexts'[m] = IF m = n THEN x ELSE nexts[m]
      /\ \A m \in DOMAIN nexts' : NextInv(nexts'[m])
  BY <1>3, NextsUpdated
<1>5. CASE UNCHANGED <<stack, trace>>
  <2>1. SingleInv'
    BY <1>1, <1>3, <1>4, <1>5 DEF PipelineInv, SingleInv
  <2> QED BY <1>1, <1>4, <1>5, <2>1 DEF PipelineInv
<1>6. CASE ~UNCHANGED <<stack, trace>>
  <2>1. /\ nexts[n].frame # <<>> /\ stack' = Append(stack, Resumed(n, arg))
        /\ trace' = trace \o RaisedIf(arg # "none")
        /\ nexts' = [nexts EXCEPT ![n] = Retired(next)]
    BY <1>2, <1>6 DEF CallNext, Resumed
  <2>2. stack = <<>> /\ promises = {}
    BY <2>1 DEF PipelineInv, SingleInv
  <2>3. stack' = <<Resumed(n, arg)>>
    BY <2>1, <2>2
  <2>4. StackInv(stack', Len(nexts'))
    <3> DEFINE f == Resumed(n, arg)
    <3>1. /\ f \in Frames /\ f.kind # "router" /\ f.kind # "user" /\ f.kind # "layers"
          /\ f.next = 0 /\ WalkInv(f.walk) /\ Len(nexts') \in Nat
      BY <1>4, <2>1, ResumedFrame
    <3> HIDE DEF f
    <3>2. StackInv(<<f>>, Len(nexts'))
      BY <3>1, StackOne
    <3> QED BY <2>3, <3>2 DEF f
  <2>5. trace' \in Seq(Entries)
    <3>1. (arg # "none") \in BOOLEAN
      OBVIOUS
    <3> QED BY <2>1, <3>1, TraceRaisedIf
  <2>6. \A m \in DOMAIN nexts : nexts'[m] = IF m = n THEN Retired(next) ELSE nexts[m]
    BY <1>2, <2>1, NextsUpdated
  <2>7. \A m \in DOMAIN nexts' : nexts'[m].frame = <<>>
    BY <1>2, <1>4, <2>1, <2>6 DEF PipelineInv, SingleInv
  <2>8. SingleInv'
    BY <1>1, <2>2, <2>7 DEF SingleInv
  <2> QED BY <1>1, <1>4, <2>2, <2>4, <2>5, <2>8 DEF PipelineInv
<1> QED BY <1>5, <1>6

LEMMA ContinuedStep ==
  ASSUME PipelineInv, Running, NEW error \in BOOLEAN, Continued(error),
         UNCHANGED <<nexts, promises, response>>, trace' \in Seq(Entries)
  PROVE  PipelineInv'
<1> DEFINE w == [After(Top.walk) EXCEPT !.error = error]
           f == Frame("handlers", w, 0)
<1>1. stack # <<>> /\ Top.walk \in Walks /\ WalkInv(Top.walk)
      /\ (Len(stack) > 1 => Top.walk.owner # NoOwner) /\ stack' = Replaced(f)
  BY HandlersTop DEF Running, Continued
<1>2. w \in Walks /\ WalkInv(w) /\ w.owner = Top.walk.owner
  BY <1>1, AfterWalk
<1>3. f \in Frames /\ f.kind = "handlers" /\ f.next = 0 /\ f.walk = w
  <2> HIDE DEF w
  <2> QED BY <1>2, HandlersFrame
<1> HIDE DEF f, w
<1> QED BY <1>1, <1>2, <1>3, ReplaceStep

LEMMA HandlerAdvancesStep ==
  ASSUME PipelineInv, HandlerAdvances
  PROVE  PipelineInv'
<1>1. Running /\ UNCHANGED <<nexts, promises, response>> /\ stack # <<>>
  BY DEF HandlerAdvances, Running, Native
<1>2. CASE Current.arg = "route"
  <2>1. Throw
    BY <1>2 DEF HandlerAdvances
  <2> QED BY <1>1, <2>1, ThrowStep, StackStep DEF PipelineInv
<1>3. CASE Current.arg # "route"
  <2> DEFINE e == Current.arg = "error"
  <2>1. Continued(e) /\ trace' = trace \o RaisedIf(e) /\ e \in BOOLEAN
    BY <1>3 DEF HandlerAdvances
  <2> HIDE DEF e
  <2>2. trace' \in Seq(Entries)
    BY <2>1, TraceRaisedIf
  <2> QED BY <1>1, <2>1, <2>2, ContinuedStep
<1> QED BY <1>2, <1>3

LEMMA HandlerThrowsStep ==
  ASSUME PipelineInv, HandlerThrows
  PROVE  PipelineInv'
<1>1. /\ Running /\ Continued(TRUE) /\ UNCHANGED <<nexts, promises, response>>
      /\ trace' = Append(trace, Raised)
  BY DEF HandlerThrows
<1>2. trace' \in Seq(Entries)
  BY <1>1, TraceAppend, EntryKinds
<1> QED BY <1>1, <1>2, ContinuedStep

LEMMA SavedWalk ==
  ASSUME NEW w \in Walks, WalkInv(w)
  PROVE  /\ Saved(w) \in Seq(Walks) /\ Len(Saved(w)) <= 1
         /\ Saved(w) # <<>> =>
              /\ WalkInv(Saved(w)[1]) /\ Saved(w)[1].owner = w.owner /\ w.owner # NoOwner
              /\ Saved(w)[1].rest = w.rest \ {First(w.rest)}
<1>1. CASE w.owner = NoOwner
  BY <1>1, EmptySeq DEF Saved
<1>2. CASE w.owner # NoOwner
  <2> DEFINE v == [After(w) EXCEPT !.error = FALSE]
  <2>1. v \in Walks /\ WalkInv(v) /\ v.owner = w.owner /\ v.rest = w.rest \ {First(w.rest)}
    BY AfterWalk
  <2>2. Saved(w) = <<v>>
    BY <1>2 DEF Saved
  <2> HIDE DEF v
  <2>3. <<v>> \in Seq(Walks) /\ Len(<<v>>) = 1 /\ <<v>>[1] = v
    BY <2>1
  <2> QED BY <1>2, <2>1, <2>2, <2>3
<1> QED BY <1>1, <1>2

LEMMA HandlerStopsStep ==
  ASSUME PipelineInv, HandlerStops
  PROVE  PipelineInv'
<1> DEFINE n == Top.next
           x == [nexts[n] EXCEPT !.suspended = TRUE, !.frame = Saved(Top.walk)]
<1>1. /\ Running /\ stack' = Returned /\ UNCHANGED <<promises, response, trace>>
      /\ nexts' = IF response.ended THEN nexts ELSE [nexts EXCEPT ![n] = x]
  BY DEF HandlerStops
<1>2. /\ stack # <<>> /\ Top.walk \in Walks /\ WalkInv(Top.walk) /\ n \in DOMAIN nexts
      /\ NextInv(nexts[n])
  BY <1>1, HandlersTop DEF Running, PipelineInv
<1>3. promises = {} /\ \A m \in DOMAIN nexts : nexts[m].frame = <<>>
  BY <1>2 DEF PipelineInv, SingleInv
<1>4. stack' = <<>>
  BY <1>1, ReturnStep
<1>5. CASE response.ended
  <2>1. nexts' = nexts
    BY <1>1, <1>5
  <2>2. SingleInv'
    BY <1>1, <1>3, <1>4, <2>1 DEF SingleInv
  <2> QED BY <1>1, <1>4, <2>1, <2>2, ReturnStep DEF PipelineInv
<1>6. CASE ~response.ended
  <2>1. x \in NextTypes /\ x.frame = Saved(Top.walk) /\ x.suspended
    BY <1>2, SavedWalk DEF NextInv, NextTypes
  <2>2. NextInv(x)
    BY <1>2, <2>1, SavedWalk DEF NextInv
  <2> HIDE DEF x, n
  <2>3. nexts' = [nexts EXCEPT ![n] = x]
    BY <1>1, <1>6
  <2>4. /\ nexts' \in Seq(NextTypes) /\ Len(nexts') = Len(nexts) /\ Len(nexts) \in Nat
        /\ DOMAIN nexts' = DOMAIN nexts
        /\ \A m \in DOMAIN nexts : nexts'[m] = IF m = n THEN x ELSE nexts[m]
        /\ \A m \in DOMAIN nexts' : NextInv(nexts'[m])
    BY <1>2, <2>2, <2>3, NextsUpdated
  <2>5. SingleInv'
    BY <1>1, <1>3, <1>4, <2>4 DEF SingleInv
  <2>6. StackInv(stack', Len(nexts'))
    BY <1>4, <2>4, StackEmpty
  <2> QED BY <1>1, <1>3, <2>4, <2>5, <2>6 DEF PipelineInv
<1> QED BY <1>5, <1>6

LEMMA PromiseStep ==
  ASSUME PipelineInv, HandlerReturnsPromise
  PROVE  PipelineInv'
<1> DEFINE p == [next |-> Top.next, errors |-> Top.walk.errors]
<1>1. /\ Running /\ stack' = Returned /\ UNCHANGED <<nexts, response, trace>>
      /\ promises' = promises \union {p}
  BY DEF HandlerReturnsPromise
<1>2. /\ stack # <<>> /\ Top.walk \in Walks /\ WalkInv(Top.walk)
      /\ Top.next \in DOMAIN nexts
  BY <1>1, HandlersTop DEF Running
<1>3. promises = {} /\ \A m \in DOMAIN nexts : nexts[m].frame = <<>>
  BY <1>2 DEF PipelineInv, SingleInv
<1>4. p \in PromiseTypes /\ p.next \in DOMAIN nexts /\ OneContainer(p.errors)
  <2>1. DOMAIN nexts = 1..Len(nexts) /\ Len(nexts) \in Nat
    BY LenProperties DEF PipelineInv
  <2>2. OneContainer(Top.walk.errors)
    BY <1>2 DEF WalkInv, OneContainer
  <2> QED BY <1>2, <2>1, <2>2 DEF PromiseTypes, Walks
<1> HIDE DEF p
<1>5. stack' = <<>> /\ StackInv(stack', Len(nexts)) /\ promises' = {p}
  BY <1>1, <1>3, ReturnStep
<1>6. SingleInv'
  BY <1>1, <1>3, <1>5 DEF SingleInv
<1> QED BY <1>1, <1>4, <1>5, <1>6 DEF PipelineInv

LEMMA SettledStep ==
  ASSUME PipelineInv, NEW p \in promises, Reject(p) \/ Resolve(p)
  PROVE  PipelineInv'
<1>1. /\ stack = <<>> /\ promises' = promises \ {p} /\ UNCHANGED <<nexts, response>>
      /\ promises' = {} /\ p \in PromiseTypes /\ OneContainer(p.errors)
      /\ \A n \in DOMAIN nexts : nexts[n].frame = <<>>
  BY DEF Reject, Resolve, PipelineInv, SingleInv
<1>2. SingleInv'
  BY <1>1 DEF SingleInv
<1>3. CASE UNCHANGED <<stack, trace>>
  BY <1>1, <1>2, <1>3 DEF PipelineInv
<1>4. CASE ~UNCHANGED <<stack, trace>>
  <2> DEFINE w == Walk(p.errors, NoOwner, {}, TRUE)
             f == Frame("handlers", w, 0)
  <2>1. stack' = <<f>> /\ trace' = Append(trace, Raised)
    BY <1>4 DEF Reject, Resolve
  <2>2. trace' \in Seq(Entries)
    BY <2>1, TraceAppend, EntryKinds
  <2>3. w \in Walks /\ WalkInv(w)
    BY <1>1, ExpressPipelineAssumption
    DEF Walk, Walks, WalkInv, NoOwner, PromiseTypes
  <2>4. f \in Frames /\ f.kind = "handlers" /\ f.next = 0 /\ f.walk = w
    <3> HIDE DEF w
    <3> QED BY <2>3, HandlersFrame
  <2> HIDE DEF f, w
  <2>5. StackInv(stack', Len(nexts))
    <3>1. Len(nexts) \in Nat
      BY LenProperties DEF PipelineInv
    <3> QED BY <2>1, <2>3, <2>4, <3>1, StackOne
  <2> QED BY <1>1, <1>2, <2>2, <2>5 DEF PipelineInv
<1> QED BY <1>3, <1>4

\* A next that the close event is going to release
Told(x) == [x EXCEPT !.closing = x.suspended]

LEMMA ToldInv ==
  ASSUME NEW x, NextInv(x)
  PROVE  NextInv(Told(x)) /\ Told(x).frame = x.frame
<1>1. /\ x \in NextTypes /\ Told(x) \in NextTypes /\ Told(x).frame = x.frame
      /\ Told(x).suspended = x.suspended /\ Told(x).closing = x.suspended
  BY DEF NextInv, NextTypes, Told
<1> HIDE DEF Told
<1> QED BY <1>1 DEF NextInv

LEMMA CloseStep ==
  ASSUME PipelineInv, Close
  PROVE  PipelineInv'
<1>1. /\ stack = <<>> /\ UNCHANGED <<stack, promises, trace>>
      /\ response' = [response EXCEPT !.closed = TRUE]
      /\ nexts' = [n \in DOMAIN nexts |-> Told(nexts[n])]
  BY DEF Close, Told
<1>2. nexts \in Seq(NextTypes) /\ Len(nexts) \in Nat /\ DOMAIN nexts = 1..Len(nexts)
  BY LenProperties DEF PipelineInv
<1>3. ASSUME NEW n \in DOMAIN nexts
      PROVE  /\ NextInv(Told(nexts[n])) /\ Told(nexts[n]) \in NextTypes
             /\ Told(nexts[n]).frame = nexts[n].frame
  <2>1. NextInv(nexts[n])
    BY DEF PipelineInv
  <2> QED BY <2>1, ToldInv DEF NextInv
<1>4. /\ nexts' \in [1..Len(nexts) -> NextTypes] /\ DOMAIN nexts' = DOMAIN nexts
      /\ \A n \in DOMAIN nexts' : nexts'[n] = Told(nexts[n])
  BY <1>1, <1>2, <1>3
<1>5. nexts' \in Seq(NextTypes)
  BY <1>2, <1>4
<1>6. Len(nexts') = Len(nexts)
  BY <1>2, <1>4, <1>5, LenProperties
<1>7. SingleInv'
  BY SMTT(40), <1>1, <1>3, <1>4 DEF PipelineInv, SingleInv
<1>8. response' \in Responses /\ (response'.streaming => response'.committed)
  BY <1>1 DEF PipelineInv, Responses
<1>9. StackInv(stack', Len(nexts'))
  BY <1>1, <1>2, <1>6, StackEmpty
<1> QED BY <1>1, <1>3, <1>4, <1>5, <1>7, <1>8, <1>9 DEF PipelineInv

LEMMA NextCloseStep ==
  ASSUME PipelineInv, NEW n \in DOMAIN nexts, NextClose(n)
  PROVE  PipelineInv'
<1> DEFINE x == Retired(nexts[n])
<1>1. /\ UNCHANGED <<stack, promises, response, trace>> /\ NextInv(nexts[n])
      /\ nexts' = [nexts EXCEPT ![n] = x]
  BY DEF NextClose, PipelineInv
<1>2. NextInv(x) /\ x.frame = <<>>
  BY <1>1, RetiredInv
<1> HIDE DEF x
<1>3. /\ nexts' \in Seq(NextTypes) /\ Len(nexts') = Len(nexts) /\ Len(nexts) \in Nat
      /\ DOMAIN nexts' = DOMAIN nexts
      /\ \A m \in DOMAIN nexts : nexts'[m] = IF m = n THEN x ELSE nexts[m]
      /\ \A m \in DOMAIN nexts' : NextInv(nexts'[m])
  BY <1>1, <1>2, NextsUpdated
<1>4. SingleInv'
  BY SMTT(40), <1>1, <1>2, <1>3 DEF PipelineInv, SingleInv
<1> QED BY <1>1, <1>3, <1>4 DEF PipelineInv

-----------------------------------------------------------------------------
\* One walk

LEMMA PipelineInit == Init => PipelineInv
<1> SUFFICES ASSUME Init PROVE PipelineInv
  OBVIOUS
<1> DEFINE f == LayersFrame(<<App, 1>>, FALSE)
<1>1. /\ f \in Frames /\ f.kind = "layers" /\ f.next = 0
      /\ f.walk.owner # NoOwner /\ WalkInv(f.walk)
  BY ExpressPipelineAssumption, FirstLayerInv
<1>2. /\ stack = <<f>> /\ nexts = <<>> /\ promises = {} /\ trace = <<>>
      /\ response \in Responses /\ ~response.streaming
  BY DEF Init, Responses
<1> HIDE DEF f
<1>3. StackInv(stack, Len(nexts))
  BY <1>1, <1>2, EmptySeq, StackOne
<1>4. nexts \in Seq(NextTypes) /\ DOMAIN nexts = {} /\ trace \in Seq(Entries)
  BY <1>2, EmptySeq
<1>5. SingleInv
  BY <1>2, <1>4 DEF SingleInv
<1> QED BY <1>2, <1>3, <1>4, <1>5 DEF PipelineInv

LEMMA PipelineNext == PipelineInv /\ [Next]_vars => PipelineInv'
<1> SUFFICES ASSUME PipelineInv, [Next]_vars PROVE PipelineInv'
  OBVIOUS
<1>1. CASE NativeStep
  BY <1>1, SkipRouteStep, EnterHandlersStep, EnterRouterStep, FinishLayersStep,
     CallHandlerStep, HandlersDoneStep DEF NativeStep
<1>2. CASE Handling
  BY <1>2, HandlerAdvancesStep, HandlerStopsStep, HandlerThrowsStep, PromiseStep
  DEF Handling
<1>3. CASE Write \/ WriteHead \/ End
  BY <1>3, ResponseStep
<1>4. CASE Close
  BY <1>4, CloseStep
<1>5. CASE \E n \in DOMAIN nexts, arg \in NextArgs : CallNext(n, arg)
  BY <1>5, CallNextStep
<1>6. CASE \E p \in promises : Reject(p) \/ Resolve(p)
  BY <1>6, SettledStep
<1>7. CASE UNCHANGED vars
  BY <1>7 DEF vars, PipelineInv, SingleInv
<1>8. CASE \E n \in DOMAIN nexts : NextClose(n)
  BY <1>8, NextCloseStep
<1> QED BY <1>1, <1>2, <1>3, <1>4, <1>5, <1>6, <1>7, <1>8 DEF Next

\* The native stack is a chain of mounted routers with one walk on top of it,
\* and everything that can go on with the request is accounted for.
THEOREM PipelineKept == Spec => []PipelineInv
BY PipelineInit, PipelineNext, PTL DEF Spec

\* A walk that runs, a saved walk and a promise exclude each other, so no two
\* parties ever answer a request at once, whatever handlers do.
THEOREM OneWalkAtATime == Spec => []OneWalk
<1>1. PipelineInv => OneWalk
  <2> SUFFICES ASSUME PipelineInv PROVE OneWalk
    OBVIOUS
  <2> DEFINE saved == {n \in DOMAIN nexts : nexts[n].frame # <<>>}
             running == IF stack = <<>> THEN 0 ELSE 1
  <2>1. TypeOK
    <3>1. ASSUME NEW k \in DOMAIN stack
          PROVE  stack[k].kind \in Kinds /\ stack[k].walk \in Walks
                 /\ stack[k].next \in 0..Len(nexts)
      <4>1. stack[k] \in Frames
        BY LenProperties DEF PipelineInv, StackInv
      <4> QED BY <4>1 DEF PipelineInv, StackInv, Frames
    <3>2. ASSUME NEW n \in DOMAIN nexts
          PROVE  /\ nexts[n].called \in BOOLEAN
                 /\ nexts[n].arg \in {"none", "error", "route"}
                 /\ nexts[n].suspended \in BOOLEAN /\ nexts[n].closing \in BOOLEAN
                 /\ nexts[n].frame \in Seq(Walks) /\ Len(nexts[n].frame) <= 1
                 /\ nexts[n].frame # <<>> \/ nexts[n].closing => nexts[n].suspended
      BY DEF PipelineInv, NextInv, NextTypes
    <3>3. \A p \in promises : p.next \in DOMAIN nexts /\ p.errors \subseteq Handler
      BY DEF PipelineInv, PromiseTypes
    <3>4. response \in Responses /\ (response.streaming => response.committed)
      BY DEF PipelineInv
    <3> QED BY <3>1, <3>2, <3>3, <3>4 DEF TypeOK, Responses
  <2>2. Cardinality(saved) + Cardinality(promises) + running <= 1
    <3>1. (stack # <<>> => promises = {}) /\ (stack # <<>> \/ promises # {} => saved = {})
      <4>1. SingleInv
        BY DEF PipelineInv
      <4>2. (\A n \in DOMAIN nexts : nexts[n].frame = <<>>) => saved = {}
        OBVIOUS
      <4> HIDE DEF saved
      <4> QED BY <4>1, <4>2 DEF SingleInv
    <3>2. saved = {} \/ \E n : saved = {n}
      <4>1. \A m, n \in saved : m = n
        BY DEF PipelineInv, SingleInv
      <4> HIDE DEF saved
      <4> QED BY <4>1
    <3>3. promises = {} \/ \E p : promises = {p}
      <4>1. \A p, q \in promises : p = q
        BY DEF PipelineInv, SingleInv
      <4> QED BY <4>1
    <3> HIDE DEF saved
    <3>4. (Cardinality(saved) = 0 /\ saved = {}) \/ (Cardinality(saved) = 1 /\ saved # {})
      BY <3>2, FS_EmptySet, FS_Singleton
    <3>5. \/ Cardinality(promises) = 0 /\ promises = {}
          \/ Cardinality(promises) = 1 /\ promises # {}
      BY <3>3, FS_EmptySet, FS_Singleton
    <3> QED BY <3>1, <3>4, <3>5
  <2> QED BY <2>1, <2>2 DEF OneWalk
<1> QED BY <1>1, PipelineKept, PTL

\* What a step adds to the history
LEMMA TraceLast ==
  ASSUME PipelineInv, NEW e \in Entries
  PROVE  LET t == Append(trace, e)
         IN  /\ Last(t) = e /\ Len(t) = Len(trace) + 1 /\ t # <<>> /\ t = trace \o <<e>>
             /\ t \in Seq(Entries) /\ DOMAIN t = 1..Len(trace) + 1
             /\ Len(trace) \in Nat /\ DOMAIN trace = 1..Len(trace)
             /\ t[Len(trace) + 1] = e
             /\ \A i \in 1..Len(trace) : t[i] = trace[i]
<1> DEFINE t == Append(trace, e)
<1>1. trace \in Seq(Entries)
  BY DEF PipelineInv
<1>2. /\ t \in Seq(Entries) /\ t # <<>> /\ Len(t) = Len(trace) + 1
      /\ \A i \in 1..Len(trace) : t[i] = trace[i]
      /\ t[Len(trace) + 1] = e
  BY <1>1, AppendProperties
<1>3. DOMAIN t = 1..Len(trace) + 1 /\ DOMAIN trace = 1..Len(trace) /\ Len(trace) \in Nat
  BY <1>1, <1>2, LenProperties
<1>4. t = trace \o <<e>>
  BY <1>1, AppendIsConcat
<1> QED BY <1>2, <1>3, <1>4 DEF Last

LEMMA TraceRaised ==
  ASSUME PipelineInv, NEW b \in BOOLEAN
  PROVE  trace \o RaisedIf(b) = IF b THEN Append(trace, Raised) ELSE trace
<1>1. trace \in Seq(Entries) /\ Raised \in Entries
  BY EntryKinds DEF PipelineInv
<1>2. CASE b
  BY <1>1, <1>2, AppendIsConcat DEF RaisedIf
<1>3. CASE ~b
  BY <1>1, <1>3, ConcatEmptySeq DEF RaisedIf
<1> QED BY <1>2, <1>3

\* Only over open headers, while a walk runs, does Express answer by itself.
Answers == stack # <<>> /\ ~response.committed /\ trace' = Append(trace, Default)

Others == Entries \ {Default}

LEMMA OtherEntries ==
  Raised \in Others /\ Uncaught \in Others /\ \A h \in Handler : Called(h) \in Others
BY DEF Others, Entries, Raised, Uncaught, Default, Called

LEMMA HandlerChosen ==
  ASSUME PipelineInv, Native("handlers"), Applicable # {}
  PROVE  LET h == First(Applicable)
         IN  /\ h \in Applicable /\ h \in Top.walk.rest /\ h \in Handler
             /\ IsErrorHandler(h) = Top.walk.error
             /\ \A g \in Applicable : g = h \/ Before(h, g)
<1>1. Top.walk.rest \in SUBSET Handler /\ OneContainer(Top.walk.rest)
  BY HandlersTop
<1>2. Applicable \in SUBSET Handler /\ OneContainer(Applicable)
  BY <1>1 DEF Applicable, OneContainer
<1> QED BY <1>1, <1>2, FirstIs DEF Applicable, Applies

LEMMA TraceGrows ==
  ASSUME PipelineInv, [Next]_vars
  PROVE  trace' = trace \/ Answers \/ \E e \in Others : trace' = Append(trace, e)
<1>1. ASSUME NEW ok, stack # <<>>, SendDefault(ok)
      PROVE  Answers \/ \E e \in Others : trace' = Append(trace, e)
  BY <1>1, OtherEntries DEF SendDefault, Answers, HeadersOpen, Throw
<1>2. CASE NativeStep
  <2>1. CASE SkipRoute \/ EnterHandlers \/ EnterRouter
    BY Zenon, <2>1 DEF SkipRoute, EnterHandlers, EnterRouter
  <2>2. CASE FinishLayers
    BY <2>2, <1>1 DEF FinishLayers, Native
  <2>3. CASE HandlersDone
    BY <2>3, <1>1 DEF HandlersDone, Native
  <2>4. CASE CallHandler
    BY <2>4, HandlerChosen, OtherEntries DEF CallHandler
  <2> QED BY SMTT(40), <1>2, <2>1, <2>2, <2>3, <2>4 DEF NativeStep
<1>3. CASE Handling
  <2>1. CASE HandlerAdvances
    <3>1. CASE Current.arg = "route"
      BY <2>1, <3>1, OtherEntries DEF HandlerAdvances, Throw
    <3>2. CASE Current.arg # "route"
      <4> DEFINE b == Current.arg = "error"
      <4>1. trace' = trace \o RaisedIf(b) /\ b \in BOOLEAN
        BY <2>1, <3>2 DEF HandlerAdvances
      <4> HIDE DEF b
      <4> QED BY <4>1, TraceRaised, OtherEntries
    <3> QED BY <3>1, <3>2
  <2>2. CASE HandlerStops \/ HandlerReturnsPromise
    BY <2>2 DEF HandlerStops, HandlerReturnsPromise
  <2>3. CASE HandlerThrows
    BY <2>3, OtherEntries DEF HandlerThrows
  <2> QED BY <1>3, <2>1, <2>2, <2>3 DEF Handling
<1>4. CASE Write \/ WriteHead \/ End \/ Close
  BY <1>4 DEF Write, WriteHead, End, Close
<1>5. ASSUME NEW n \in DOMAIN nexts, NEW arg \in NextArgs, CallNext(n, arg)
      PROVE  trace' = trace \/ \E e \in Others : trace' = Append(trace, e)
  <2> DEFINE b == arg # "none"
  <2>1. trace' = trace \/ trace' = trace \o RaisedIf(b)
    BY <1>5 DEF CallNext
  <2>2. b \in BOOLEAN
    OBVIOUS
  <2> HIDE DEF b
  <2> QED BY <2>1, <2>2, TraceRaised, OtherEntries
<1>6. CASE \E p \in promises : Reject(p) \/ Resolve(p)
  BY <1>6, OtherEntries DEF Reject, Resolve
<1>7. CASE UNCHANGED vars
  BY <1>7 DEF vars
<1>8. CASE \E n \in DOMAIN nexts : NextClose(n)
  BY <1>8 DEF NextClose
<1> QED BY <1>2, <1>3, <1>4, <1>5, <1>6, <1>7, <1>8 DEF Next

\* Express's own answer, the 404 or the error page, comes when nothing is left
\* that could answer, and never over a response that has begun.
THEOREM DefaultComesLast == Spec => DefaultIsLast
<1>1. PipelineInv /\ [Next]_vars =>
        [Len(trace') > Len(trace) /\ Last(trace').what = "default"
           => /\ promises = {} /\ \A n \in DOMAIN nexts : nexts[n].frame = <<>>
              /\ ~response.committed]_vars
  <2> SUFFICES ASSUME PipelineInv, [Next]_vars,
                      Len(trace') > Len(trace), Last(trace').what = "default"
               PROVE  /\ promises = {} /\ \A n \in DOMAIN nexts : nexts[n].frame = <<>>
                      /\ ~response.committed
    OBVIOUS
  <2>1. trace' # trace
    <3>1. Len(trace) \in Nat
      BY LenProperties DEF PipelineInv
    <3> QED BY <3>1
  <2>2. ASSUME NEW e \in Others, trace' = Append(trace, e) PROVE FALSE
    <3>1. Last(trace') = e
      BY <2>2, TraceLast DEF Others
    <3> QED BY <3>1 DEF Others, Entries, Called, Raised, Uncaught, Default
  <2>3. Answers
    BY <2>1, <2>2, TraceGrows
  <2> QED BY <2>3 DEF Answers, PipelineInv, SingleInv
<1> QED BY <1>1, PipelineKept, PTL DEF Spec, DefaultIsLast

-----------------------------------------------------------------------------
\* The order of the handlers

\* Steps that call nobody
Quiet ==
  trace' = trace \/ \E e \in {Raised, Default, Uncaught} : trace' = Append(trace, e)

LEMMA CallsAppend ==
  ASSUME PipelineInv, NEW e \in Entries
  PROVE  Calls(Append(trace, e)) = Calls(trace) \union
           (IF e.what = "call" THEN {e.at} ELSE {})
<1> DEFINE t == Append(trace, e)
           n == Len(trace)
<1>1. /\ DOMAIN t = 1..n + 1 /\ DOMAIN trace = 1..n /\ n \in Nat /\ t[n + 1] = e
      /\ \A i \in 1..n : t[i] = trace[i]
  BY TraceLast
<1> HIDE DEF t, n
<1>2. ASSUME NEW h
      PROVE  h \in Calls(t) <=> (h \in Calls(trace) \/ (e.what = "call" /\ h = e.at))
  <2>1. ASSUME NEW i \in DOMAIN t, t[i].what = "call", h = t[i].at
        PROVE  h \in Calls(trace) \/ (e.what = "call" /\ h = e.at)
    <3>1. CASE i = n + 1
      BY <1>1, <2>1, <3>1
    <3>2. CASE i \in 1..n
      BY <1>1, <2>1, <3>2 DEF Calls
    <3> QED BY <1>1, <3>1, <3>2
  <2>2. ASSUME NEW i \in DOMAIN trace, trace[i].what = "call", h = trace[i].at
        PROVE  h \in Calls(t)
    <3>1. i \in DOMAIN t /\ t[i] = trace[i]
      BY <1>1
    <3> QED BY <2>2, <3>1 DEF Calls
  <2>3. ASSUME e.what = "call", h = e.at
        PROVE  h \in Calls(t)
    <3>1. n + 1 \in DOMAIN t /\ t[n + 1] = e
      BY <1>1
    <3> QED BY <2>3, <3>1 DEF Calls
  <2> QED BY <2>1, <2>2, <2>3 DEF Calls
<1> QED BY <1>2 DEF t

\* The order of the calls so far and of the errors after them stays.
LEMMA QuietTrace ==
  ASSUME PipelineInv, HandlersInOrder, ErrorsAreHandled, Quiet
  PROVE  Calls(trace') = Calls(trace) /\ HandlersInOrder' /\ ErrorsAreHandled'
<1>1. CASE trace' = trace
  BY <1>1 DEF HandlersInOrder, ErrorsAreHandled, EntersRouter
<1>2. CASE trace' # trace
  <2>1. PICK e \in {Raised, Default, Uncaught} : trace' = Append(trace, e)
    BY <1>2 DEF Quiet
  <2>2. e \in Entries /\ e.what # "call"
    BY EntryKinds DEF Raised, Default, Uncaught
  <2> DEFINE n == Len(trace)
  <2>3. /\ DOMAIN trace' = 1..n + 1 /\ DOMAIN trace = 1..n /\ n \in Nat
        /\ Len(trace') = n + 1 /\ trace'[n + 1] = e
        /\ \A i \in 1..n : trace'[i] = trace[i]
    BY <2>1, <2>2, TraceLast
  <2>4. Calls(trace') = Calls(trace)
    BY <2>1, <2>2, CallsAppend
  <2> HIDE DEF n
  <2>5. HandlersInOrder'
    <3> SUFFICES ASSUME NEW i \in DOMAIN trace', NEW j \in DOMAIN trace', i < j,
                        trace'[i].what = "call", trace'[j].what = "call",
                        trace'[i].at[1] = trace'[j].at[1]
                 PROVE  Before(trace'[i].at, trace'[j].at)
      BY DEF HandlersInOrder
    <3>1. i \in DOMAIN trace /\ j \in DOMAIN trace
      BY <2>2, <2>3
    <3> QED BY <2>3, <3>1 DEF HandlersInOrder
  <2>6. ErrorsAreHandled'
    <3> SUFFICES ASSUME NEW i \in 1..Len(trace') - 1,
                        trace'[i].what = "raise", trace'[i + 1].what = "call"
                 PROVE  trace'[i + 1].catches \/ EntersRouter(i)'
      BY DEF ErrorsAreHandled
    <3>1. i + 1 # n + 1
      BY <2>2, <2>3
    <3>2. i \in 1..n - 1 /\ i \in 1..n /\ i + 1 \in 1..n
      BY <2>3, <3>1
    <3>3. trace[i + 1].catches \/ EntersRouter(i)
      BY <2>3, <3>2 DEF ErrorsAreHandled, n
    <3>4. \A j \in 1..i : trace'[j] = trace[j]
      BY <2>3, <3>2
    <3> QED BY <2>3, <3>2, <3>3, <3>4 DEF EntersRouter
  <2> QED BY <2>4, <2>5, <2>6
<1> QED BY <1>1, <1>2

LEMMA QuietStep ==
  ASSUME PipelineInv, OrderInv, Quiet, NEW E \in SUBSET Containers, EnteredInv(E),
         \A k \in DOMAIN stack' : FrameInv(stack'[k], trace', E),
         \A n \in DOMAIN nexts' : SavedInv(nexts'[n], trace', E),
         \A p \in promises' : PromiseInv(p, trace', E),
         DistinctContainers(stack'), ErrorInv(stack', trace')
  PROVE  OrderInv'
<1>1. Calls(trace') = Calls(trace) /\ HandlersInOrder' /\ ErrorsAreHandled'
  BY QuietTrace DEF OrderInv
<1>2. EnteredInv(E)'
  BY <1>1 DEF EnteredInv
<1> QED BY <1>1, <1>2 DEF OrderInv

\* A walk under way leaves nothing saved and nobody to wait for.
LEMMA NothingSaved ==
  ASSUME PipelineInv, stack # <<>>
  PROVE  promises = {} /\ \A n \in DOMAIN nexts : nexts[n].frame = <<>>
BY DEF PipelineInv, SingleInv

\* Routers below the top wait where they did.
LEMMA RoutersWait ==
  ASSUME PipelineInv, NEW E \in SUBSET Containers, EnteredInv(E),
         Calls(trace') = Calls(trace), NEW k \in DOMAIN stack, k < Len(stack)
  PROVE  FrameInv(stack[k], trace', E)
<1>1. stack[k].kind = "router" /\ FrameInv(stack[k], trace, E)
  BY DEF PipelineInv, StackInv, EnteredInv
<1> QED BY <1>1 DEF FrameInv

LEMMA StackTop ==
  ASSUME PipelineInv, stack # <<>>
  PROVE  /\ stack \in Seq(Frames) /\ DOMAIN stack = 1..Len(stack) /\ Len(stack) \in Nat \ {0}
         /\ Len(stack) \in DOMAIN stack /\ Top = stack[Len(stack)] /\ Top = Last(stack)
         /\ StackInv(stack, Len(nexts)) /\ Len(nexts) \in Nat
<1>1. StackInv(stack, Len(nexts)) /\ Len(nexts) \in Nat
  BY LenProperties DEF PipelineInv
<1> QED BY <1>1, FrameTop, LenProperties DEF StackInv, Top

LEMMA ReplacedStack ==
  ASSUME PipelineInv, stack # <<>>, NEW f \in Frames
  PROVE  /\ DOMAIN Replaced(f) = 1..Len(stack) /\ Last(Replaced(f)) = f
         /\ \A k \in 1..Len(stack) :
              Replaced(f)[k] = IF k = Len(stack) THEN f ELSE stack[k]
<1> DEFINE r == Front(stack) \o <<f>>
<1>1. stack \in Seq(Frames)
  BY StackTop
<1>2. /\ r \in Seq(Frames) /\ Len(r) = Len(stack) /\ Last(r) = f
      /\ \A k \in DOMAIN r : r[k] = IF k = Len(stack) THEN f ELSE stack[k]
  BY <1>1, ReplacedShape
<1>3. Replaced(f) = r
  BY DEF Replaced
<1> HIDE DEF r
<1> QED BY <1>2, <1>3, LenProperties

LEMMA QuietReplaced ==
  ASSUME PipelineInv, OrderInv, Quiet, stack # <<>>,
         NEW E \in SUBSET Containers, EnteredInv(E),
         NEW f \in Frames, stack' = Replaced(f), UNCHANGED <<nexts, promises>>,
         f.walk.owner[1] = Top.walk.owner[1], FrameInv(f, trace', E),
         \/ trace' # <<>> /\ Last(trace').what = "raise" => f.walk.error
         \/ /\ trace' = trace /\ f.walk.error = Top.walk.error
            /\ Top.walk.owner # NoOwner => f.walk.owner # NoOwner
  PROVE  OrderInv'
<1>1. /\ DOMAIN stack = 1..Len(stack) /\ Len(stack) \in DOMAIN stack
      /\ Len(stack) \in Nat /\ Top = stack[Len(stack)]
  BY StackTop
<1>2. /\ Last(stack') = f
      /\ \A k \in DOMAIN stack' : stack'[k] = IF k = Len(stack) THEN f ELSE stack[k]
  BY SMTT(40), ReplacedStack
<1>3. DOMAIN stack' = DOMAIN stack
  BY Zenon, <1>1, ReplacedStack
<1>4. Calls(trace') = Calls(trace)
  BY QuietTrace DEF OrderInv
<1>5. ASSUME NEW k \in DOMAIN stack' PROVE FrameInv(stack'[k], trace', E)
  <2>1. CASE k = Len(stack)
    BY <1>2, <2>1
  <2>2. CASE k # Len(stack)
    <3>1. k \in DOMAIN stack /\ k < Len(stack) /\ stack'[k] = stack[k]
      BY <1>1, <1>2, <1>3, <2>2
    <3> QED BY <1>4, <3>1, RoutersWait
  <2> QED BY <2>1, <2>2
<1>6. DistinctContainers(stack')
  <2>1. \A k \in DOMAIN stack' : stack'[k].walk.owner[1] = stack[k].walk.owner[1]
    BY <1>1, <1>2, <1>3
  <2> QED BY <1>3, <2>1 DEF DistinctContainers, OrderInv
<1>7. ErrorInv(stack', trace')
  <2>1. CASE trace' # <<>> /\ Last(trace').what = "raise" => f.walk.error
    BY <1>2, <2>1 DEF ErrorInv
  <2>2. CASE /\ trace' = trace /\ f.walk.error = Top.walk.error
             /\ Top.walk.owner # NoOwner => f.walk.owner # NoOwner
    <3>1. ErrorInv(stack, trace) /\ Last(stack) = Top
      BY DEF OrderInv, Top
    <3> QED BY <1>2, <2>2, <3>1 DEF ErrorInv
  <2> QED BY <2>1, <2>2
<1>8. /\ \A n \in DOMAIN nexts' : SavedInv(nexts'[n], trace', E)
      /\ \A p \in promises' : PromiseInv(p, trace', E)
  BY NothingSaved DEF SavedInv
<1> QED BY <1>5, <1>6, <1>7, <1>8, QuietStep

\* The native stack is left.
LEMMA QuietEmpty ==
  ASSUME PipelineInv, OrderInv, Quiet, NEW E \in SUBSET Containers, EnteredInv(E),
         stack' = <<>>,
         \A n \in DOMAIN nexts' : SavedInv(nexts'[n], trace', E),
         \A p \in promises' : PromiseInv(p, trace', E)
  PROVE  OrderInv'
<1>1. DOMAIN stack' = {}
  OBVIOUS
<1>2. DistinctContainers(stack') /\ ErrorInv(stack', trace')
  BY <1>1 DEF DistinctContainers, ErrorInv
<1> QED BY <1>1, <1>2, QuietStep

LEMMA QuietReturned ==
  ASSUME PipelineInv, OrderInv, Quiet, stack # <<>>, stack' = Returned,
         UNCHANGED <<nexts, promises>>
  PROVE  OrderInv'
<1>1. PICK E \in SUBSET Containers : EnteredInv(E)
  BY DEF OrderInv
<1>2. stack' = <<>>
  BY ReturnStep
<1>3. /\ \A n \in DOMAIN nexts' : SavedInv(nexts'[n], trace', E)
      /\ \A p \in promises' : PromiseInv(p, trace', E)
  BY NothingSaved DEF SavedInv
<1> QED BY <1>1, <1>2, <1>3, QuietEmpty

\* An error that leaves a router goes on after its mount, where the router waited.
LEMMA QuietThrown ==
  ASSUME PipelineInv, OrderInv, stack # <<>>, Throw, UNCHANGED <<nexts, promises>>
  PROVE  OrderInv'
<1> DEFINE m == Len(stack) - 1
           f == AfterMount(stack[m])
<1>1. PICK E \in SUBSET Containers : EnteredInv(E)
  BY DEF OrderInv
<1>2. Quiet /\ stack' = Thrown
  BY DEF Throw, Quiet
<1>3. /\ StackInv(stack, Len(nexts)) /\ Len(nexts) \in Nat /\ Len(stack) \in Nat \ {0}
      /\ DOMAIN stack = 1..Len(stack)
  BY StackTop
<1>4. Calls(trace') = Calls(trace)
  BY <1>2, QuietTrace DEF OrderInv
<1>5. /\ \A n \in DOMAIN nexts' : SavedInv(nexts'[n], trace', E)
      /\ \A p \in promises' : PromiseInv(p, trace', E)
  BY SMTT(40), NothingSaved DEF SavedInv
<1>6. /\ m = 0 => Thrown = <<>>
      /\ m # 0 =>
           /\ m \in DOMAIN stack /\ m \in Nat \ {0}
           /\ Thrown \in Seq(Frames) /\ Len(Thrown) = m /\ DOMAIN Thrown = 1..m
           /\ \A k \in 1..m : Thrown[k] = IF k = m THEN f ELSE stack[k]
  BY Zenon, <1>3, ThrownShape
<1>7. m = Len(stack) - 1
  OBVIOUS
<1> HIDE DEF m, f
<1>8. CASE m = 0
  <2>1. stack' = <<>>
    BY <1>2, <1>8, <1>6
  <2> QED BY <1>1, <1>2, <1>5, <2>1, QuietEmpty
<1>9. CASE m # 0
  <2>1. /\ m \in DOMAIN stack /\ m \in Nat \ {0} /\ m < Len(stack)
        /\ stack' \in Seq(Frames) /\ Len(stack') = m /\ DOMAIN stack' = 1..m
        /\ \A k \in 1..m : stack'[k] = IF k = m THEN f ELSE stack[k]
    <3>1. stack' = Thrown
      BY <1>2
    <3>2. m < Len(stack)
      BY <1>3, <1>7
    <3>3. /\ m \in DOMAIN stack /\ m \in Nat \ {0}
          /\ Thrown \in Seq(Frames) /\ Len(Thrown) = m /\ DOMAIN Thrown = 1..m
          /\ \A k \in 1..m : Thrown[k] = IF k = m THEN f ELSE stack[k]
      BY <1>9, <1>6
    <3> QED BY <3>1, <3>2, <3>3
  <2>2. stack[m] \in Frames /\ stack[m].kind = "router" /\ stack[m].walk.owner # NoOwner
    <3>1. \A k \in DOMAIN stack : stack[k] \in Frames
      BY <1>3 DEF StackInv
    <3> QED BY <1>3, <2>1, <3>1 DEF StackInv
  <2>3. /\ f.kind = "layers" /\ f.walk.error = TRUE /\ f.walk.owner # NoOwner
        /\ f.walk.owner = <<stack[m].walk.owner[1], stack[m].walk.owner[2] + 1>>
    <3> DEFINE c == stack[m].walk.owner[1]
               l == stack[m].walk.owner[2] + 1
    <3>1. c \in Containers /\ l \in Nat \ {0} /\ f = LayersFrame(<<c, l>>, TRUE)
      BY <2>2 DEF Frames, Walks, AfterMount, f
    <3> HIDE DEF c, l
    <3>2. f.kind = "layers" /\ f.walk.error = TRUE /\ f.walk.owner # NoOwner
          /\ f.walk.owner = <<c, l>>
      BY <3>1, LayersFrameInv
    <3> QED BY <3>2 DEF c, l
  <2>4. Limit(f) = Limit(stack[m])
    BY <2>2, <2>3 DEF Limit
  <2>5. FrameInv(stack[m], trace', E)
    BY <1>1, <1>4, <2>1, RoutersWait
  <2>6. FrameInv(f, trace', E)
    BY <2>2, <2>3, <2>4, <2>5 DEF FrameInv
  <2>7. ASSUME NEW k \in DOMAIN stack'
         PROVE  /\ k \in DOMAIN stack /\ k < Len(stack)
                /\ stack'[k] = IF k = m THEN f ELSE stack[k]
    <3>1. k \in 1..m /\ stack'[k] = IF k = m THEN f ELSE stack[k]
      BY <2>1
    <3>2. k \in 1..Len(stack) /\ k < Len(stack)
      BY <1>3, <1>7, <3>1
    <3> QED BY <1>3, <3>1, <3>2
  <2>8. ASSUME NEW k \in DOMAIN stack' PROVE FrameInv(stack'[k], trace', E)
    <3>1. CASE k = m
      BY <2>6, <2>7, <3>1
    <3>2. CASE k # m
      <4>1. k \in DOMAIN stack /\ k < Len(stack) /\ stack'[k] = stack[k]
        BY <2>7, <3>2
      <4> QED BY <1>1, <1>4, <4>1, RoutersWait
    <3> QED BY <3>1, <3>2
  <2>9. DistinctContainers(stack')
    <3>1. \A k \in DOMAIN stack' : k \in DOMAIN stack
                                   /\ stack'[k].walk.owner[1] = stack[k].walk.owner[1]
      BY <2>3, <2>7
    <3> QED BY <3>1 DEF DistinctContainers, OrderInv
  <2>10. ErrorInv(stack', trace')
    <3>1. m \in 1..m
      BY <2>1
    <3>2. Last(stack') = f
      BY <2>1, <3>1 DEF Last
    <3> QED BY <2>3, <3>2 DEF ErrorInv
  <2> QED BY <1>1, <1>2, <1>5, <2>8, <2>9, <2>10, QuietStep
<1> QED BY <1>8, <1>9

LEMMA QuietDefault ==
  ASSUME PipelineInv, OrderInv, stack # <<>>, NEW ok, SendDefault(ok),
         UNCHANGED <<nexts, promises>>
  PROVE  OrderInv'
<1>1. CASE HeadersOpen /\ EndAccepted(ok)
  BY <1>1, QuietReturned DEF SendDefault, Quiet
<1>2. CASE ~(HeadersOpen /\ EndAccepted(ok))
  BY <1>2, QuietThrown DEF SendDefault
<1> QED BY <1>1, <1>2

-----------------------------------------------------------------------------
\* Native steps keep OrderInv

LEMMA TopInv ==
  ASSUME PipelineInv, stack # <<>>, NEW E \in SUBSET Containers, EnteredInv(E)
  PROVE  FrameInv(Top, trace, E)
BY StackTop DEF EnteredInv

\* What is below a limit is below the next one.
LEMMA LimitGrows ==
  ASSUME NEW c \in Containers, NEW l \in Nat, NEW calls \in SUBSET Handler,
         NEW E \in SUBSET Containers, LimitInv(<<c, l>>, calls, E)
  PROVE  LimitInv(<<c, l + 1>>, calls, E)
BY DEF LimitInv, Handler

LEMMA CallsType ==
  ASSUME PipelineInv
  PROVE  Calls(trace) \in SUBSET Handler
<1>1. ASSUME NEW i \in DOMAIN trace, trace[i].what = "call" PROVE trace[i].at \in Handler
  <2>1. trace[i] \in Entries
    BY LenProperties DEF PipelineInv
  <2> QED BY <1>1, <2>1 DEF Entries, Called, Raised, Default, Uncaught
<1> QED BY <1>1 DEF Calls

LEMMA SkipRouteOrder ==
  ASSUME PipelineInv, OrderInv, SkipRoute
  PROVE  OrderInv'
<1> DEFINE o == Top.walk.owner
           f == LayersFrame(<<o[1], o[2] + 1>>, TRUE)
<1>1. PICK E \in SUBSET Containers : EnteredInv(E)
  BY DEF OrderInv
<1>2. /\ Native("layers") /\ stack' = Replaced(f) /\ UNCHANGED <<nexts, promises, trace>>
      /\ Top.kind = "layers"
  BY DEF SkipRoute, WalkingLayers, ResumeLayer, Native
<1>3. /\ o[1] \in Containers /\ o[2] \in Nat /\ stack # <<>> /\ o # NoOwner
      /\ o = <<o[1], o[2]>>
  BY <1>2, LayersTop
<1>4. /\ f \in Frames /\ f.kind = "layers" /\ f.walk.owner # NoOwner
      /\ f.walk.owner = <<o[1], o[2] + 1>> /\ f.walk.error = TRUE
  <2>1. o[2] + 1 \in Nat \ {0}
    BY <1>3
  <2> QED BY <1>3, <2>1, LayersFrameInv
<1>5. LimitInv(<<o[1], o[2]>>, Calls(trace), E)
  BY <1>1, <1>2, <1>3, TopInv DEF FrameInv, Limit
<1>6. LimitInv(<<o[1], o[2] + 1>>, Calls(trace), E)
  BY <1>3, <1>5, LimitGrows, CallsType
<1> HIDE DEF f
<1>7. Limit(f) = <<o[1], o[2] + 1>> /\ f.walk.owner[1] = Top.walk.owner[1]
  BY <1>4 DEF Limit
<1>8. FrameInv(f, trace', E)
  BY <1>2, <1>4, <1>6, <1>7 DEF FrameInv
<1> QED BY <1>1, <1>2, <1>3, <1>4, <1>7, <1>8, QuietReplaced DEF Quiet

LEMMA EnterHandlersOrder ==
  ASSUME PipelineInv, OrderInv, EnterHandlers
  PROVE  OrderInv'
<1> DEFINE c == Top.walk.owner[1]
           l == Top.walk.owner[2]
           w == Walk(HandlersOf(c, l), ResumeLayer(c, l),
                     LaterErrorHandlers(c, l + 1), Top.walk.error)
           f == Frame("handlers", w, 0)
<1>1. PICK E \in SUBSET Containers : EnteredInv(E)
  BY DEF OrderInv
<1>2. /\ Native("layers") /\ stack' = Replaced(f) /\ UNCHANGED <<nexts, promises, trace>>
      /\ Top.kind = "layers"
      /\ l \in DOMAIN Layers[c] /\ Layers[c][l].kind \in {"middleware", "route"}
  BY DEF EnterHandlers, WalkingLayers, Native
<1>3. /\ c \in Containers /\ l \in Nat /\ stack # <<>> /\ Top.walk.owner # NoOwner
      /\ Top.walk.owner = <<c, l>> /\ Top.walk.error \in BOOLEAN
  BY <1>2, LayersTop
<1>4. f \in Frames /\ f.kind = "handlers" /\ f.walk = w /\ w.owner # NoOwner
  BY <1>2, <1>3, HandlersWalk
<1>5. w.owner = <<c, l + 1>> /\ w.rest = HandlersOf(c, l) /\ w.error = Top.walk.error
  BY DEF Walk, ResumeLayer
<1>6. LimitInv(<<c, l>>, Calls(trace), E)
  BY <1>1, <1>2, <1>3, TopInv DEF FrameInv, Limit
<1>7. LimitInv(<<c, l + 1>>, Calls(trace), E)
  BY <1>3, <1>6, LimitGrows, CallsType
<1>8. Ahead(HandlersOf(c, l), Calls(trace), E)
  <2>1. ASSUME NEW h \in HandlersOf(c, l), NEW g \in Calls(trace), g[1] = h[1]
        PROVE  Before(g, h)
    <3>1. h[1] = c /\ h[2] = l
      BY <1>2, <1>3, HandlersOfType
    <3>2. g[2] < l
      BY SMTT(40), <1>6, <2>1, <3>1 DEF LimitInv
    <3> QED BY <3>1, <3>2 DEF Before
  <2>2. ASSUME NEW h \in HandlersOf(c, l) PROVE h[1] \in E
    BY <1>2, <1>3, <1>6, HandlersOfType DEF LimitInv
  <2> QED BY <2>1, <2>2 DEF Ahead
<1> HIDE DEF f, w
<1>9. Limit(f) = <<c, l + 1>> /\ f.walk.owner[1] = Top.walk.owner[1]
  BY <1>4, <1>5 DEF Limit
<1>10. FrameInv(f, trace', E)
  BY <1>2, <1>4, <1>5, <1>7, <1>8, <1>9 DEF FrameInv
<1> QED BY SMTT(40), <1>1, <1>2, <1>3, <1>4, <1>5, <1>9, <1>10, QuietReplaced DEF Quiet

LEMMA FinishLayersOrder ==
  ASSUME PipelineInv, OrderInv, FinishLayers
  PROVE  OrderInv'
<1>1. stack # <<>>
  BY DEF FinishLayers, Native
<1>2. CASE response.ended \/ (response.streaming /\ ~Top.walk.error)
  BY <1>1, <1>2, QuietReturned DEF FinishLayers, Quiet
<1>3. CASE ~(response.ended \/ (response.streaming /\ ~Top.walk.error))
  BY <1>1, <1>3, QuietDefault DEF FinishLayers
<1> QED BY <1>2, <1>3

LEMMA HandlersDoneOrder ==
  ASSUME PipelineInv, OrderInv, HandlersDone
  PROVE  OrderInv'
<1>1. Native("handlers") /\ stack # <<>> /\ Top.kind = "handlers"
  BY DEF HandlersDone, Native
<1>2. CASE Top.walk.owner # NoOwner
  <2> DEFINE f == LayersFrame(Top.walk.owner, Top.walk.error)
  <2>1. PICK E \in SUBSET Containers : EnteredInv(E)
    BY DEF OrderInv
  <2>2. stack' = Replaced(f) /\ UNCHANGED <<nexts, promises, response, trace>>
    BY <1>2 DEF HandlersDone
  <2>3. f \in Frames /\ f.kind = "layers" /\ f.walk.owner = Top.walk.owner
        /\ f.walk.error = Top.walk.error
    BY <1>1, <1>2, HandlersTop DEF LayersFrame, Frame, Walk, Frames, Walks, Kinds
  <2> HIDE DEF f
  <2>4. FrameInv(Top, trace, E)
    BY <1>1, <2>1, TopInv
  <2>5. FrameInv(f, trace', E)
    BY <1>1, <1>2, <2>2, <2>3, <2>4 DEF FrameInv, Limit
  <2> QED BY <1>1, <1>2, <2>1, <2>2, <2>3, <2>5, QuietReplaced DEF Quiet
<1>3. CASE Top.walk.owner = NoOwner /\ Top.walk.error
  BY <1>1, <1>3, QuietDefault DEF HandlersDone
<1>4. CASE Top.walk.owner = NoOwner /\ ~Top.walk.error
  BY <1>1, <1>4, QuietReturned DEF HandlersDone, Quiet
<1> QED BY <1>2, <1>3, <1>4

-----------------------------------------------------------------------------
\* Steps of handlers and of the event loop keep OrderInv

\* After the handler that runs, the handlers left come after every call.
LEMMA AfterCalled ==
  ASSUME PipelineInv, OrderInv, NEW E \in SUBSET Containers, EnteredInv(E), Running
  PROVE  /\ Ahead(Top.walk.rest \ {First(Top.walk.rest)}, Calls(trace), E)
         /\ LastIsCall(trace)
<1> DEFINE rest == Top.walk.rest
           n == Len(trace)
<1>1. /\ stack # <<>> /\ rest \in SUBSET Handler /\ OneContainer(rest) /\ Top.kind = "user"
  BY HandlersTop DEF Running, Native
<1>2. Calling(Top.walk, trace)
  BY <1>1, TopInv DEF FrameInv
<1>3. PICK h \in rest : Last(trace) = Called(h) /\ \A g \in rest : g = h \/ Before(h, g)
  BY <1>2 DEF Calling
<1>4. n \in Nat \ {0} /\ DOMAIN trace = 1..n /\ n \in DOMAIN trace /\ trace[n] = Called(h)
  <2>1. trace # <<>> /\ trace \in Seq(Entries)
    BY <1>2 DEF Calling, PipelineInv
  <2>2. n \in Nat \ {0} /\ DOMAIN trace = 1..n
    BY <2>1, EmptySeq, LenProperties
  <2> QED BY <1>3, <2>2 DEF Last
<1>5. First(rest) = h
  <2> HIDE DEF rest
  <2>1. First(rest) \in rest /\ (h = First(rest) \/ Before(First(rest), h))
    BY <1>1, FirstIs
  <2>2. First(rest) = h \/ Before(h, First(rest))
    BY <1>3, <2>1
  <2>3. First(rest) \in Handler /\ h \in Handler
    BY <1>1, <2>1
  <2> QED BY <2>1, <2>2, <2>3, BeforeOrder
<1>6. h \in Calls(trace) /\ h[1] \in E
  <2>1. h \in Calls(trace)
    BY <1>4 DEF Calls, Called
  <2> QED BY <2>1 DEF EnteredInv
<1> HIDE DEF n
<1>7. ASSUME NEW k \in Calls(trace), k[1] = h[1]
      PROVE  k = h \/ Before(k, h)
  <2>1. PICK i \in DOMAIN trace : trace[i].what = "call" /\ trace[i].at = k
    BY DEF Calls
  <2>2. trace[n].what = "call" /\ trace[n].at = h
    BY <1>4 DEF Called
  <2>3. CASE i = n
    BY <2>1, <2>2, <2>3
  <2>4. CASE i < n
    BY <1>4, <1>7, <2>1, <2>2, <2>4 DEF OrderInv, HandlersInOrder
  <2> QED BY <1>4, <2>1, <2>3, <2>4
<1>8. ASSUME NEW g \in rest \ {h}, NEW k \in Calls(trace), k[1] = g[1]
      PROVE  Before(k, g)
  <2>1. Before(h, g) /\ g[1] = h[1]
    BY <1>1, <1>3 DEF OneContainer
  <2>2. k = h \/ Before(k, h)
    BY <1>7, <1>8, <2>1
  <2>3. k \in Handler /\ g \in Handler /\ h \in Handler
    BY <1>1, CallsType
  <2> QED BY <2>1, <2>2, <2>3, BeforeOrder
<1>9. ASSUME NEW g \in rest PROVE g[1] \in E
  BY <1>1, <1>6 DEF OneContainer
<1>10. LastIsCall(trace)
  BY <1>2, <1>3 DEF LastIsCall, Calling, Called
<1> HIDE DEF rest
<1>11. Ahead(rest \ {First(rest)}, Calls(trace), E)
  BY <1>5, <1>8, <1>9 DEF Ahead
<1> QED BY <1>10, <1>11 DEF rest

LEMMA ContinuedOrder ==
  ASSUME PipelineInv, OrderInv, Running, NEW error \in BOOLEAN, Continued(error),
         UNCHANGED <<nexts, promises>>, trace' = trace \o RaisedIf(error)
  PROVE  OrderInv'
<1> DEFINE w == [After(Top.walk) EXCEPT !.error = error]
           f == Frame("handlers", w, 0)
<1>1. PICK E \in SUBSET Containers : EnteredInv(E)
  BY DEF OrderInv
<1>2. /\ stack # <<>> /\ Top.walk \in Walks /\ WalkInv(Top.walk) /\ stack' = Replaced(f)
      /\ Top.kind = "user"
  BY HandlersTop DEF Running, Continued, Native
<1>3. /\ w \in Walks /\ w.owner = Top.walk.owner /\ w.error = error
      /\ w.rest = Top.walk.rest \ {First(Top.walk.rest)}
  BY <1>2, AfterWalk
<1>4. f \in Frames /\ f.kind = "handlers" /\ f.walk = w
  <2> HIDE DEF w
  <2> QED BY <1>3, HandlersFrame
<1> HIDE DEF f, w
<1>5. trace' = IF error THEN Append(trace, Raised) ELSE trace
  BY TraceRaised
<1>6. Quiet
  BY <1>5 DEF Quiet
<1>7. Calls(trace') = Calls(trace)
  BY <1>6, QuietTrace DEF OrderInv
<1>8. Ahead(w.rest, Calls(trace'), E) /\ LastIsCall(trace)
  BY <1>1, <1>3, <1>7, AfterCalled
<1>9. FrameInv(Top, trace, E)
  BY <1>1, <1>2, TopInv
<1>10. FrameInv(f, trace', E)
  BY <1>2, <1>3, <1>4, <1>7, <1>8, <1>9 DEF FrameInv, Limit
<1>11. Last(trace').what = "raise" => f.walk.error
  BY <1>3, <1>4, <1>5, <1>8 DEF LastIsCall
<1> QED BY <1>1, <1>2, <1>3, <1>4, <1>6, <1>10, <1>11, QuietReplaced

LEMMA HandlerAdvancesOrder ==
  ASSUME PipelineInv, OrderInv, HandlerAdvances
  PROVE  OrderInv'
<1>1. Running /\ UNCHANGED <<nexts, promises, response>> /\ stack # <<>>
  BY DEF HandlerAdvances, Running, Native
<1>2. CASE Current.arg = "route"
  BY <1>1, <1>2, QuietThrown DEF HandlerAdvances
<1>3. CASE Current.arg # "route"
  <2> DEFINE e == Current.arg = "error"
  <2>1. Continued(e) /\ trace' = trace \o RaisedIf(e) /\ e \in BOOLEAN
    BY <1>3 DEF HandlerAdvances
  <2> HIDE DEF e
  <2> QED BY <1>1, <2>1, ContinuedOrder
<1> QED BY <1>2, <1>3

LEMMA HandlerThrowsOrder ==
  ASSUME PipelineInv, OrderInv, HandlerThrows
  PROVE  OrderInv'
<1>1. /\ Running /\ Continued(TRUE) /\ UNCHANGED <<nexts, promises>>
      /\ trace' = Append(trace, Raised)
  BY DEF HandlerThrows
<1>2. trace' = trace \o RaisedIf(TRUE)
  BY <1>1, TraceRaised
<1> QED BY <1>1, <1>2, ContinuedOrder

LEMMA HandlerStopsOrder ==
  ASSUME PipelineInv, OrderInv, HandlerStops
  PROVE  OrderInv'
<1> DEFINE n == Top.next
           w == Top.walk
           x == [nexts[n] EXCEPT !.suspended = TRUE, !.frame = Saved(w)]
<1>1. PICK E \in SUBSET Containers : EnteredInv(E)
  BY DEF OrderInv
<1>2. /\ Running /\ stack' = Returned /\ UNCHANGED <<promises, response, trace>>
      /\ nexts' = IF response.ended THEN nexts ELSE [nexts EXCEPT ![n] = x]
  BY DEF HandlerStops
<1>3. /\ stack # <<>> /\ w \in Walks /\ WalkInv(w) /\ n \in DOMAIN nexts /\ Top.kind = "user"
  BY <1>2, HandlersTop DEF Running, Native
<1>4. promises = {} /\ \A m \in DOMAIN nexts : nexts[m].frame = <<>>
  BY <1>3, NothingSaved
<1>5. stack' = <<>> /\ Quiet
  BY <1>2, ReturnStep DEF Quiet
<1>6. /\ Ahead(w.rest \ {First(w.rest)}, Calls(trace), E) /\ LastIsCall(trace)
      /\ w.owner # NoOwner => LimitInv(w.owner, Calls(trace), E)
  <2>1. FrameInv(Top, trace, E)
    BY <1>1, <1>3, TopInv
  <2>2. w.owner = <<w.owner[1], w.owner[2]>>
    BY <1>3 DEF Walks
  <2>3. w.owner # NoOwner => LimitInv(w.owner, Calls(trace), E)
    BY <1>3, <2>1, <2>2 DEF FrameInv, Limit
  <2> QED BY <1>1, <1>2, <2>3, AfterCalled
<1>7. ASSUME NEW m \in DOMAIN nexts' PROVE SavedInv(nexts'[m], trace', E)
  <2>1. CASE nexts'[m].frame = <<>>
    BY <2>1 DEF SavedInv
  <2>2. CASE nexts'[m].frame # <<>>
    <3>1. nexts' = [nexts EXCEPT ![n] = x]
      BY <1>2, <1>4, <2>2
    <3>2. m = n /\ nexts'[m].frame = x.frame
      BY <1>4, <2>2, <3>1
    <3>3. nexts[n] \in NextTypes
      BY <1>3 DEF PipelineInv, NextInv
    <3>4. nexts'[m].frame = Saved(w)
      BY <3>2, <3>3 DEF NextTypes
    <3> HIDE DEF w
    <3>5. /\ w.owner # NoOwner /\ Saved(w)[1].owner = w.owner
          /\ Saved(w)[1].rest = w.rest \ {First(w.rest)}
      BY <1>3, <2>2, <3>4, SavedWalk
    <3> QED BY <1>2, <1>6, <3>4, <3>5 DEF SavedInv
  <2> QED BY <2>1, <2>2
<1> QED BY <1>1, <1>2, <1>4, <1>5, <1>7, QuietEmpty

LEMMA PromiseOrder ==
  ASSUME PipelineInv, OrderInv, HandlerReturnsPromise
  PROVE  OrderInv'
<1> DEFINE w == Top.walk
           p == [next |-> Top.next, errors |-> w.errors]
<1>1. PICK E \in SUBSET Containers : EnteredInv(E)
  BY DEF OrderInv
<1>2. /\ Running /\ stack' = Returned /\ UNCHANGED <<nexts, response, trace>>
      /\ promises' = promises \union {p}
  BY DEF HandlerReturnsPromise
<1>3. /\ stack # <<>> /\ w \in Walks /\ WalkInv(w) /\ Top.kind = "user"
  BY <1>2, HandlersTop DEF Running, Native
<1>4. promises' = {p} /\ \A m \in DOMAIN nexts : nexts[m].frame = <<>>
  BY <1>2, <1>3, NothingSaved
<1>5. stack' = <<>> /\ Quiet
  BY <1>2, ReturnStep DEF Quiet
<1>6. LastIsCall(trace)
  BY <1>1, <1>2, AfterCalled
<1>7. Ahead(w.errors, Calls(trace), E)
  <2>1. CASE w.owner = NoOwner
    BY <1>3, <2>1 DEF WalkInv, Ahead
  <2>2. CASE w.owner # NoOwner
    <3>1. FrameInv(Top, trace, E)
      BY <1>1, <1>3, TopInv
    <3>2. w.owner = <<w.owner[1], w.owner[2]>> /\ w.owner[2] \in Nat
      BY <1>3 DEF Walks
    <3>3. LimitInv(w.owner, Calls(trace), E)
      BY <1>3, <2>2, <3>1, <3>2 DEF FrameInv, Limit
    <3>4. \A h \in w.errors : h \in Handler /\ h[1] = w.owner[1] /\ h[2] >= w.owner[2]
      BY <1>3, <2>2 DEF WalkInv, Walks
    <3>5. ASSUME NEW h \in w.errors, NEW g \in Calls(trace), g[1] = h[1]
          PROVE  Before(g, h)
      <4>1. g[2] < w.owner[2] /\ h[2] >= w.owner[2]
        BY <3>3, <3>4, <3>5 DEF LimitInv
      <4>2. g[2] \in Nat /\ h[2] \in Nat
        BY <3>4, CallsType DEF Handler
      <4> QED BY <3>2, <4>1, <4>2 DEF Before
    <3> QED BY <3>3, <3>4, <3>5 DEF Ahead, LimitInv
  <2> QED BY <2>1, <2>2
<1>8. \A q \in promises' : PromiseInv(q, trace', E)
  BY <1>2, <1>4, <1>6, <1>7 DEF PromiseInv
<1>9. \A m \in DOMAIN nexts' : SavedInv(nexts'[m], trace', E)
  BY <1>2, <1>4 DEF SavedInv
<1> QED BY <1>1, <1>5, <1>8, <1>9, QuietEmpty

\* A walk is taken up again with nothing else under way.
LEMMA QuietStarted ==
  ASSUME PipelineInv, OrderInv, Quiet, NEW E \in SUBSET Containers, EnteredInv(E),
         NEW f \in Frames, stack' = <<f>>, FrameInv(f, trace', E),
         Last(trace').what = "raise" => f.walk.error,
         \A n \in DOMAIN nexts' : nexts'[n].frame = <<>>, promises' = {}
  PROVE  OrderInv'
<1>1. DOMAIN stack' = {1} /\ stack'[1] = f /\ Last(stack') = f
  BY DEF Last
<1>2. DistinctContainers(stack') /\ ErrorInv(stack', trace')
  BY <1>1 DEF DistinctContainers, ErrorInv
<1>3. \A n \in DOMAIN nexts' : SavedInv(nexts'[n], trace', E)
  BY DEF SavedInv
<1> QED BY <1>1, <1>2, <1>3, QuietStep

LEMMA SettledOrder ==
  ASSUME PipelineInv, OrderInv, NEW p \in promises, Reject(p) \/ Resolve(p)
  PROVE  OrderInv'
<1>1. PICK E \in SUBSET Containers : EnteredInv(E)
  BY DEF OrderInv
<1>2. /\ stack = <<>> /\ UNCHANGED nexts
      /\ promises' = {} /\ p \in PromiseTypes /\ OneContainer(p.errors)
      /\ \A n \in DOMAIN nexts : nexts[n].frame = <<>>
  BY DEF Reject, Resolve, PipelineInv, SingleInv
<1>3. CASE UNCHANGED <<stack, trace>>
  <2>1. \A n \in DOMAIN nexts' : SavedInv(nexts'[n], trace', E)
    BY <1>2 DEF SavedInv
  <2> QED BY <1>1, <1>2, <1>3, <2>1, QuietEmpty DEF Quiet
<1>4. CASE ~UNCHANGED <<stack, trace>>
  <2> DEFINE w == Walk(p.errors, NoOwner, {}, TRUE)
             f == Frame("handlers", w, 0)
  <2>1. stack' = <<f>> /\ trace' = Append(trace, Raised)
    BY <1>4 DEF Reject, Resolve
  <2>2. w \in Walks /\ w.owner = NoOwner /\ w.rest = p.errors /\ w.error = TRUE
    BY <1>2, ExpressPipelineAssumption DEF Walk, Walks, NoOwner, PromiseTypes
  <2>3. f \in Frames /\ f.kind = "handlers" /\ f.walk = w
    <3> HIDE DEF w
    <3> QED BY <2>2, HandlersFrame
  <2> HIDE DEF f, w
  <2>4. Quiet
    BY <2>1 DEF Quiet
  <2>5. Calls(trace') = Calls(trace)
    BY <2>4, QuietTrace DEF OrderInv
  <2>6. FrameInv(f, trace', E)
    BY <1>1, <2>2, <2>3, <2>5 DEF FrameInv, EnteredInv, PromiseInv
  <2> QED BY <1>1, <1>2, <2>1, <2>2, <2>3, <2>4, <2>6, QuietStarted
<1> QED BY <1>3, <1>4

LEMMA CallNextOrder ==
  ASSUME PipelineInv, OrderInv, NEW n \in DOMAIN nexts, NEW arg \in NextArgs,
         CallNext(n, arg)
  PROVE  OrderInv'
<1> DEFINE next == [nexts[n] EXCEPT !.called = TRUE, !.arg = arg]
<1>1. PICK E \in SUBSET Containers : EnteredInv(E)
  BY DEF OrderInv
<1>2. /\ UNCHANGED promises /\ NextInv(nexts[n]) /\ arg \in {"none", "error", "route"}
  BY SMTT(40), ExpressPipelineAssumption DEF CallNext, PipelineInv
<1>3. /\ NextInv(next) /\ NextInv(Retired(next)) /\ Retired(next).frame = <<>>
      /\ next.frame = nexts[n].frame
  BY Zenon, <1>2, RetiredInv, MarkedInv
<1>4. PICK x : NextInv(x) /\ nexts' = [nexts EXCEPT ![n] = x]
               /\ (x.frame = nexts[n].frame \/ x.frame = <<>>)
               /\ (~UNCHANGED <<stack, trace>> => x.frame = <<>>)
  BY <1>3 DEF CallNext
<1>5. /\ DOMAIN nexts' = DOMAIN nexts
      /\ \A m \in DOMAIN nexts : nexts'[m] = IF m = n THEN x ELSE nexts[m]
  BY <1>4, NextsUpdated
<1>6. CASE UNCHANGED <<stack, trace>>
  <2>1. ASSUME NEW m \in DOMAIN nexts' PROVE SavedInv(nexts'[m], trace', E)
    <3>1. nexts'[m].frame = nexts[m].frame \/ nexts'[m].frame = <<>>
      BY <1>4, <1>5
    <3>2. SavedInv(nexts[m], trace, E)
      BY <1>1, <1>5 DEF EnteredInv
    <3> QED BY <1>6, <3>1, <3>2 DEF SavedInv
  <2>2. /\ \A k \in DOMAIN stack' : FrameInv(stack'[k], trace', E)
        /\ \A p \in promises' : PromiseInv(p, trace', E)
        /\ DistinctContainers(stack') /\ ErrorInv(stack', trace')
    BY <1>1, <1>2, <1>6 DEF EnteredInv, OrderInv
  <2> QED BY <1>1, <1>6, <2>1, <2>2, QuietStep DEF Quiet
<1>7. CASE ~UNCHANGED <<stack, trace>>
  <2> DEFINE b == arg # "none"
             f == Resumed(n, arg)
  <2>1. /\ nexts[n].frame # <<>> /\ stack' = Append(stack, f)
        /\ trace' = trace \o RaisedIf(b) /\ b \in BOOLEAN
    BY <1>3, <1>7 DEF CallNext, Resumed
  <2>2. stack = <<>> /\ promises = {} /\ \A m \in DOMAIN nexts : nexts[m].frame # <<>> => m = n
    BY <2>1 DEF PipelineInv, SingleInv
  <2>3. stack' = <<f>>
    BY <2>1, <2>2
  <2>4. /\ f \in Frames /\ f.kind = "handlers" /\ f.walk.error = b
        /\ f.walk.owner = nexts[n].frame[1].owner /\ f.walk.rest = nexts[n].frame[1].rest
        /\ nexts[n].frame[1] \in Walks
    BY <2>1, ResumedFrame
  <2> HIDE DEF f, b
  <2>5. trace' = IF b THEN Append(trace, Raised) ELSE trace
    BY <2>1, TraceRaised
  <2>6. Quiet
    BY <2>5 DEF Quiet
  <2>7. Calls(trace') = Calls(trace)
    BY <2>6, QuietTrace DEF OrderInv
  <2>8. SavedInv(nexts[n], trace, E)
    BY <1>1 DEF EnteredInv
  <2>9. Limit(f) = f.walk.owner
    BY <2>4 DEF Limit, Walks
  <2>10. FrameInv(f, trace', E)
    BY <2>1, <2>4, <2>7, <2>8, <2>9 DEF FrameInv, SavedInv
  <2>11. Last(trace').what = "raise" => f.walk.error
    BY <2>1, <2>4, <2>5, <2>8 DEF SavedInv, LastIsCall
  <2>12. \A m \in DOMAIN nexts' : nexts'[m].frame = <<>>
    BY <1>4, <1>5, <1>7, <2>2
  <2> QED BY <1>1, <1>2, <2>2, <2>3, <2>4, <2>6, <2>10, <2>11, <2>12, QuietStarted
<1> QED BY <1>6, <1>7

LEMMA ResponseOrder ==
  ASSUME PipelineInv, OrderInv,
         \/ Write \/ WriteHead \/ End \/ Close \/ UNCHANGED vars
         \/ \E n \in DOMAIN nexts : NextClose(n)
  PROVE  OrderInv'
<1>1. PICK E \in SUBSET Containers : EnteredInv(E)
  BY DEF OrderInv
<1>2. UNCHANGED <<stack, promises, trace>>
  BY DEF Write, WriteHead, End, Close, NextClose, vars
<1>3. ASSUME NEW n \in DOMAIN nexts'
      PROVE  n \in DOMAIN nexts /\ (nexts'[n].frame = nexts[n].frame \/ nexts'[n].frame = <<>>)
  <2>1. CASE UNCHANGED nexts
    BY <2>1
  <2>2. CASE Close
    <3>1. nexts' = [m \in DOMAIN nexts |-> Told(nexts[m])]
      BY <2>2 DEF Close, Told
    <3>2. n \in DOMAIN nexts /\ nexts'[n] = Told(nexts[n])
      BY <3>1
    <3>3. NextInv(nexts[n])
      BY <3>2 DEF PipelineInv
    <3> QED BY <3>2, <3>3, ToldInv
  <2>3. ASSUME NEW m \in DOMAIN nexts, NextClose(m)
        PROVE  n \in DOMAIN nexts /\ (nexts'[n].frame = nexts[n].frame \/ nexts'[n].frame = <<>>)
    <3> DEFINE x == Retired(nexts[m])
    <3>1. NextInv(nexts[m]) /\ nexts' = [nexts EXCEPT ![m] = x]
      BY <2>3 DEF NextClose, PipelineInv
    <3>2. x.frame = <<>>
      BY <3>1, RetiredInv
    <3> HIDE DEF x
    <3> QED BY <3>1, <3>2
  <2> QED BY <2>1, <2>2, <2>3 DEF Write, WriteHead, End, vars
<1>4. \A n \in DOMAIN nexts' : SavedInv(nexts'[n], trace', E)
  BY <1>1, <1>2, <1>3 DEF SavedInv, EnteredInv
<1>5. /\ \A k \in DOMAIN stack' : FrameInv(stack'[k], trace', E)
      /\ \A p \in promises' : PromiseInv(p, trace', E)
      /\ DistinctContainers(stack') /\ ErrorInv(stack', trace')
  BY <1>1, <1>2 DEF EnteredInv, OrderInv
<1> QED BY <1>1, <1>2, <1>4, <1>5, QuietStep DEF Quiet

-----------------------------------------------------------------------------
\* Routers are entered and handlers called

\* A limit above a mount stays one when the router is entered.
LEMMA LimitEntered ==
  ASSUME MountedOnce, NEW c \in Containers, NEW l \in Nat, IsMount(c, l),
         NEW E \in SUBSET Containers, NEW calls,
         NEW limit, limit[1] \in Containers, limit[1] = c => l < limit[2],
         LimitInv(limit, calls, E)
  PROVE  LimitInv(limit, calls, E \union {Layers[c][l].router})
<1>1. ASSUME NEW m \in Nat, IsMount(limit[1], m),
             Layers[limit[1]][m].router \in E \union {Layers[c][l].router}
      PROVE  m < limit[2]
  <2>1. CASE Layers[limit[1]][m].router \in E
    BY <1>1, <2>1 DEF LimitInv
  <2>2. CASE Layers[limit[1]][m].router = Layers[c][l].router
    BY SMTT(40), <1>1, <2>2 DEF MountedOnce
  <2> QED BY <1>1, <2>1, <2>2
<1> QED BY <1>1 DEF LimitInv

\* The router that a walk comes to has not been entered.
LEMMA RouterIsNew ==
  ASSUME MountedOnce, PipelineInv, EnterRouter, NEW E \in SUBSET Containers, EnteredInv(E)
  PROVE  LET c == Top.walk.owner[1]
             l == Top.walk.owner[2]
             r == Layers[c][l].router
         IN  /\ c \in E /\ l \in Nat /\ IsMount(c, l) /\ r \notin E /\ r # App
             /\ LimitInv(<<c, l>>, Calls(trace), E)
<1> DEFINE c == Top.walk.owner[1]
           l == Top.walk.owner[2]
           r == Layers[c][l].router
<1>1. /\ stack # <<>> /\ c \in Containers /\ l \in DOMAIN Layers[c] /\ l \in Nat
      /\ Layers[c][l].kind = "router"
  BY RouterEntered
<1>2. IsMount(c, l)
  BY <1>1 DEF IsMount
<1>3. Top.kind = "layers" /\ Top.walk.owner # NoOwner
  <2>1. Native("layers")
    BY DEF EnterRouter, WalkingLayers
  <2> QED BY SMTT(40), <2>1, LayersTop DEF Native
<1>4. LimitInv(<<c, l>>, Calls(trace), E)
  BY <1>1, <1>3, TopInv DEF FrameInv, Limit
<1>5. r \notin E
  <2>1. ASSUME r \in E PROVE l < l
    BY <1>1, <1>2, <1>4, <2>1 DEF LimitInv
  <2> QED BY <1>1, <2>1
<1>6. r # App
  BY <1>1, <1>2 DEF MountedOnce
<1> QED BY SMTT(40), <1>1, <1>2, <1>4, <1>5, <1>6 DEF LimitInv

LEMMA EnterRouterOrder ==
  ASSUME MountedOnce, PipelineInv, OrderInv, EnterRouter
  PROVE  OrderInv'
<1> DEFINE c == Top.walk.owner[1]
           l == Top.walk.owner[2]
           r == Layers[c][l].router
           w == [Top EXCEPT !.kind = "router"]
           f == LayersFrame(<<r, 1>>, FALSE)
           n == Len(stack)
<1>1. PICK E \in SUBSET Containers : EnteredInv(E)
  BY SMTT(40) DEF OrderInv
<1>2. /\ stack # <<>> /\ n \in Nat \ {0} /\ Top = stack[n] /\ c \in Containers
      /\ r \in Containers /\ EnteredShape(stack', w, f)
  BY Zenon, RouterEntered
<1>3. PICK F \in SUBSET Containers : F = E \union {r}
  BY ZenonT(60), <1>2
<1>4. /\ c \in E /\ l \in Nat /\ IsMount(c, l) /\ r \notin E /\ r # App
      /\ LimitInv(<<c, l>>, Calls(trace), E)
  BY SMTT(40), <1>1, RouterIsNew
<1>5. UNCHANGED <<nexts, promises, trace>>
  BY SMTT(40) DEF EnterRouter
<1>6. /\ f.kind = "layers" /\ f.walk.owner = <<r, 1>> /\ f.walk.owner # NoOwner
      /\ f.walk.error = FALSE
  BY Zenon, <1>2, FirstLayerInv
<1>7. /\ Top.kind = "layers" /\ Top.walk.owner # NoOwner /\ Top \in Frames
      /\ Top.walk.owner = <<c, l>>
  <2>1. Native("layers")
    BY DEF EnterRouter, WalkingLayers
  <2> QED BY SMTT(40), <2>1, LayersTop DEF Native
<1>8. w.kind = "router" /\ w.walk = Top.walk
  BY SMTT(40), <1>7 DEF Frames
<1>9. DOMAIN stack = 1..n /\ \A k \in DOMAIN stack : stack[k] \in Frames
  BY <1>2, StackTop
<1> HIDE DEF c, l, r, w, f, n
<1>10. /\ DOMAIN stack' = 1..n + 1 /\ stack'[n] = w /\ stack'[n + 1] = f
      /\ Len(stack') = n + 1 /\ \A k \in 1..n - 1 : stack'[k] = stack[k]
  BY <1>2 DEF EnteredShape, n
<1>11. \A h \in Calls(trace) : h[1] \in E
  BY <1>1 DEF EnteredInv
<1>12. LimitInv(<<c, l + 1>>, Calls(trace), F)
  <2>1. LimitInv(<<c, l + 1>>, Calls(trace), E)
    BY <1>2, <1>4, LimitGrows, CallsType
  <2>2. LimitInv(<<c, l + 1>>, Calls(trace), E \union {Layers[c][l].router})
    <3> DEFINE limit == <<c, l + 1>>
    <3>1. limit[1] = c /\ l < limit[2]
      BY <1>4
    <3> HIDE DEF limit
    <3>2. LimitInv(limit, Calls(trace), E)
      BY <2>1 DEF limit
    <3>3. LimitInv(limit, Calls(trace), E \union {Layers[c][l].router})
      BY <1>2, <1>4, <3>1, <3>2, LimitEntered
    <3> QED BY <3>3 DEF limit
  <2> QED BY <2>2, <1>3 DEF r
<1>13. LimitInv(<<r, 1>>, Calls(trace), F)
  <2>1. ASSUME NEW m \in Nat, IsMount(r, m), Layers[r][m].router \in F PROVE FALSE
    <3>1. CASE Layers[r][m].router \in E
      BY <1>1, <1>2, <1>4, <2>1, <3>1 DEF EnteredInv
    <3>2. CASE Layers[r][m].router = r
      <4>1. Layers[r][m].router = Layers[c][l].router
        BY <3>2 DEF r
      <4>2. r = c
        BY <1>2, <1>4, <2>1, <4>1 DEF MountedOnce
      <4> QED BY <1>4, <4>2
    <3> QED BY <2>1, <3>1, <3>2, <1>3
  <2>2. \A h \in Calls(trace) : h[1] # r
    BY <1>4, <1>11
  <2> QED BY <2>1, <2>2, <1>3 DEF LimitInv
<1>14. ASSUME NEW k \in 1..n - 1
       PROVE  /\ k \in DOMAIN stack /\ k # n /\ stack[k].kind = "router"
              /\ stack[k].walk.owner[1] \in E /\ stack[k].walk.owner[1] # c
              /\ FrameInv(stack[k], trace, F)
  <2>1. k \in DOMAIN stack /\ k < n /\ n \in DOMAIN stack /\ k # n
    BY <1>2, <1>9
  <2>2. /\ stack[k].kind = "router" /\ stack[k].walk.owner # NoOwner
        /\ FrameInv(stack[k], trace, E) /\ stack[k] \in Frames
    BY <1>1, <1>9, <2>1 DEF PipelineInv, StackInv, EnteredInv, n
  <2>3. stack[k].walk.owner[1] # c
    BY <1>2, <2>1 DEF OrderInv, DistinctContainers, c
  <2> DEFINE limit == Limit(stack[k])
  <2>4. limit[1] = stack[k].walk.owner[1] /\ limit[1] \in Containers
    BY <2>2 DEF Limit, Frames, Walks
  <2>5. LimitInv(limit, Calls(trace), E)
    BY <2>2 DEF FrameInv
  <2> HIDE DEF limit
  <2>6. LimitInv(limit, Calls(trace), F)
    BY <1>2, <1>4, <2>3, <2>4, <2>5, LimitEntered, <1>3 DEF r
  <2>7. limit[1] \in E
    BY <2>5 DEF LimitInv
  <2> QED BY <2>1, <2>2, <2>3, <2>4, <2>6, <2>7 DEF FrameInv, limit
<1>15. FrameInv(w, trace, F)
  <2>1. Limit(w) = <<c, l + 1>>
    BY <1>7, <1>8 DEF Limit
  <2> QED BY <1>8, <1>12, <2>1 DEF FrameInv
<1>16. FrameInv(f, trace, F)
  <2>1. Limit(f) = <<r, 1>>
    BY <1>6 DEF Limit
  <2> QED BY <1>6, <1>13, <2>1 DEF FrameInv
<1>17. ASSUME NEW k \in DOMAIN stack' PROVE FrameInv(stack'[k], trace', F)
  <2>1. k \in 1..n - 1 \/ k = n \/ k = n + 1
    BY <1>2, <1>10
  <2> QED BY <1>5, <1>10, <1>14, <1>15, <1>16, <2>1
<1>18. DistinctContainers(stack')
  <2>1. ASSUME NEW k \in DOMAIN stack'
        PROVE  stack'[k].walk.owner[1] = IF k = n + 1 THEN r ELSE stack[k].walk.owner[1]
    <3>1. k \in 1..n - 1 \/ k = n \/ k = n + 1
      BY <1>2, <1>10
    <3>2. k \in 1..n - 1 => k # n + 1
      BY <1>2
    <3>3. n # n + 1
      BY <1>2
    <3> QED BY <1>2, <1>6, <1>8, <1>10, <3>1, <3>2, <3>3
  <2>2. ASSUME NEW k \in DOMAIN stack', k # n + 1
        PROVE  k \in DOMAIN stack /\ stack[k].walk.owner[1] # r
    <3>1. k \in 1..n - 1 \/ k = n
      BY <1>2, <1>10, <2>2
    <3>2. n \in DOMAIN stack /\ stack[n].walk.owner[1] = c
      BY <1>2, <1>9 DEF c
    <3> QED BY <1>4, <1>14, <3>1, <3>2
  <2> QED BY <2>1, <2>2 DEF OrderInv, DistinctContainers
<1>19. ErrorInv(stack', trace')
  <2>1. Last(stack') = f
    BY <1>10 DEF Last
  <2>2. f.walk.owner[1] = r
    BY <1>6
  <2>3. \A h \in Calls(trace') : h[1] # r
    BY <1>4, <1>5, <1>11
  <2> QED BY <1>4, <1>6, <2>1, <2>2, <2>3 DEF ErrorInv
<1>20. EnteredInv(F)'
  <2>1. \A h \in Calls(trace') : h[1] \in F
    BY <1>5, <1>11, <1>3
  <2>2. ASSUME NEW d \in Containers, NEW m \in Nat,
               IsMount(d, m), Layers[d][m].router \in F
        PROVE  d \in F
    <3>1. CASE Layers[d][m].router \in E
      BY <1>1, <2>2, <3>1, <1>3 DEF EnteredInv
    <3>2. CASE Layers[d][m].router = r
      <4>1. Layers[d][m].router = Layers[c][l].router
        BY <3>2 DEF r
      <4>2. d = c
        BY <1>2, <1>4, <2>2, <4>1 DEF MountedOnce
      <4> QED BY <1>4, <4>2, <1>3
    <3> QED BY <2>2, <3>1, <3>2, <1>3
  <2>3. /\ \A m \in DOMAIN nexts' : SavedInv(nexts'[m], trace', F)
        /\ \A p \in promises' : PromiseInv(p, trace', F)
    BY <1>2, <1>5, NothingSaved DEF SavedInv
  <2> QED BY <1>17, <2>1, <2>2, <2>3 DEF EnteredInv
<1>21. HandlersInOrder' /\ ErrorsAreHandled'
  BY <1>5, QuietTrace DEF OrderInv, Quiet
<1> QED BY <1>18, <1>19, <1>20, <1>3, <1>21 DEF OrderInv

LEMMA CallHandlerOrder ==
  ASSUME PipelineInv, OrderInv, CallHandler
  PROVE  OrderInv'
<1> DEFINE h == First(Applicable)
           w == From(Top.walk, h)
           f == Frame("user", w, Len(nexts) + 1)
           n == Len(trace)
<1>1. PICK E \in SUBSET Containers : EnteredInv(E)
  BY DEF OrderInv
<1>2. /\ Native("handlers") /\ Applicable # {} /\ stack' = Replaced(f)
      /\ trace' = Append(trace, Called(h)) /\ nexts' = Append(nexts, FreshNext)
      /\ UNCHANGED <<promises, response>> /\ Top.kind = "handlers" /\ stack # <<>>
  BY DEF CallHandler, Native
<1>3. /\ Len(nexts) \in Nat /\ Top.walk \in Walks /\ WalkInv(Top.walk)
      /\ OneContainer(Top.walk.rest) /\ Top.walk.rest \in SUBSET Handler
      /\ (Len(stack) > 1 => Top.walk.owner # NoOwner)
  BY <1>2, HandlersTop
<1>4. /\ h \in Applicable /\ h \in Top.walk.rest /\ h \in Handler
      /\ IsErrorHandler(h) = Top.walk.error
  BY <1>2, HandlerChosen
<1>5. /\ w \in Walks /\ WalkInv(w) /\ w.owner = Top.walk.owner
      /\ w.rest = {g \in Top.walk.rest : g = h \/ Before(h, g)}
  BY <1>3, FromWalk
<1>6. f \in Frames /\ f.kind = "user" /\ f.walk = w
  BY <1>3, <1>5 DEF Frame, Frames, Kinds
<1> DEFINE e == Called(h)
<1>7. e \in Entries /\ e.what = "call" /\ e.at = h /\ e.catches = IsErrorHandler(h)
  BY <1>4, EntryKinds DEF Called
<1>8. trace' = Append(trace, e)
  BY <1>2
<1> HIDE DEF h, w, f, n, e
<1>9. /\ DOMAIN trace' = 1..n + 1 /\ DOMAIN trace = 1..n /\ n \in Nat /\ Len(trace') = n + 1
      /\ trace'[n + 1] = e /\ Last(trace') = e /\ trace' # <<>>
      /\ \A i \in 1..n : trace'[i] = trace[i]
  BY <1>7, <1>8, TraceLast DEF n
<1>10. Calls(trace') = Calls(trace) \union {h}
  BY <1>7, <1>8, CallsAppend
<1>11. FrameInv(Top, trace, E)
  BY <1>1, <1>2, TopInv
<1>12. /\ h[1] \in E
       /\ \A g \in Calls(trace) : g[1] = h[1] => Before(g, h)
  BY <1>2, <1>4, <1>11 DEF FrameInv, Ahead
<1>13. Top.walk.owner # NoOwner =>
         /\ h[1] = Top.walk.owner[1] /\ h[2] < Top.walk.owner[2]
         /\ LimitInv(Top.walk.owner, Calls(trace'), E)
  <2> SUFFICES ASSUME Top.walk.owner # NoOwner
               PROVE  /\ h[1] = Top.walk.owner[1] /\ h[2] < Top.walk.owner[2]
                      /\ LimitInv(Top.walk.owner, Calls(trace'), E)
    OBVIOUS
  <2>1. h[1] = Top.walk.owner[1] /\ h[2] + 1 = Top.walk.owner[2]
    BY <1>3, <1>4 DEF WalkInv
  <2>2. h[2] \in Nat /\ Top.walk.owner = <<Top.walk.owner[1], Top.walk.owner[2]>>
    BY <1>3, <1>4 DEF Handler, Walks
  <2>3. LimitInv(Top.walk.owner, Calls(trace), E)
    BY <1>2, <1>11, <2>2 DEF FrameInv, Limit
  <2>4. h[2] < Top.walk.owner[2]
    BY <2>1, <2>2
  <2> QED BY <1>10, <2>1, <2>3, <2>4 DEF LimitInv
<1>14. FrameInv(f, trace', E)
  <2>1. Calling(w, trace')
    <3>1. h \in w.rest /\ \A g \in w.rest : g = h \/ Before(h, g)
      BY <1>4, <1>5
    <3> QED BY <1>9, <3>1 DEF Calling, e
  <2>2. Limit(f) = w.owner
    BY <1>5, <1>6 DEF Limit, Walks
  <2> QED BY <1>5, <1>6, <1>13, <2>1, <2>2 DEF FrameInv
<1>15. /\ DOMAIN stack = 1..Len(stack) /\ Len(stack) \in Nat \ {0} /\ Top = stack[Len(stack)]
       /\ stack \in Seq(Frames) /\ Len(stack) \in DOMAIN stack
  BY <1>2, StackTop
<1>16. /\ DOMAIN stack' = 1..Len(stack) /\ Last(stack') = f
       /\ \A k \in 1..Len(stack) : stack'[k] = IF k = Len(stack) THEN f ELSE stack[k]
  BY <1>2, <1>6, ReplacedStack
<1>17. ASSUME NEW k \in DOMAIN stack' PROVE FrameInv(stack'[k], trace', E)
  <2>1. CASE k = Len(stack)
    BY <1>14, <1>16, <2>1
  <2>2. CASE k # Len(stack)
    <3>1. k \in DOMAIN stack /\ k < Len(stack) /\ stack'[k] = stack[k] /\ Len(stack) > 1
      <4>1. k \in 1..Len(stack)
        BY <1>16
      <4>2. k < Len(stack) /\ Len(stack) > 1
        BY <1>15, <2>2, <4>1
      <4> QED BY Zenon, <1>15, <1>16, <2>2, <4>1, <4>2
    <3>2. /\ stack[k].kind = "router" /\ FrameInv(stack[k], trace, E)
          /\ stack[k].walk.owner # NoOwner
      BY <1>1, <3>1 DEF PipelineInv, StackInv, EnteredInv
    <3>3. stack[k].walk.owner[1] # h[1]
      <4>1. Top.walk.owner[1] = h[1]
        BY <1>3, <1>13, <3>1
      <4> QED BY <1>15, <2>2, <3>1, <4>1 DEF OrderInv, DistinctContainers
    <3>4. Limit(stack[k])[1] = stack[k].walk.owner[1]
      BY DEF Limit
    <3>5. LimitInv(Limit(stack[k]), Calls(trace'), E)
      BY <1>10, <3>2, <3>3, <3>4 DEF FrameInv, LimitInv
    <3> QED BY SMTT(40), <3>1, <3>2, <3>5 DEF FrameInv
  <2> QED BY <2>1, <2>2
<1>18. DistinctContainers(stack')
  <2>1. \A k \in DOMAIN stack' : k \in DOMAIN stack
                                 /\ stack'[k].walk.owner[1] = stack[k].walk.owner[1]
    BY Zenon, <1>5, <1>6, <1>15, <1>16
  <2> QED BY SMTT(40), <2>1 DEF OrderInv, DistinctContainers
<1>19. ErrorInv(stack', trace')
  BY <1>7, <1>9 DEF ErrorInv
<1>20. /\ \A m \in DOMAIN nexts' : SavedInv(nexts'[m], trace', E)
       /\ \A p \in promises' : PromiseInv(p, trace', E)
  <2>1. promises = {} /\ \A m \in DOMAIN nexts : nexts[m].frame = <<>>
    BY <1>2, NothingSaved
  <2>2. nexts \in Seq(NextTypes) /\ FreshNext \in NextTypes /\ FreshNext.frame = <<>>
    BY DEF PipelineInv, FreshNext, NextTypes
  <2>3. /\ nexts' \in Seq(NextTypes) /\ Len(nexts') = Len(nexts) + 1
        /\ \A m \in 1..Len(nexts) : nexts'[m] = nexts[m]
        /\ nexts'[Len(nexts) + 1] = FreshNext
    BY <1>2, <2>2, AppendProperties
  <2>4. DOMAIN nexts' = 1..Len(nexts) + 1 /\ DOMAIN nexts = 1..Len(nexts)
    BY <2>2, <2>3, LenProperties
  <2>5. \A m \in DOMAIN nexts' : nexts'[m].frame = <<>>
    BY <1>3, <2>1, <2>2, <2>3, <2>4
  <2> QED BY <1>2, <2>1, <2>5 DEF SavedInv
<1>21. EnteredInv(E)'
  <2>1. \A g \in Calls(trace') : g[1] \in E
    BY <1>1, <1>10, <1>12 DEF EnteredInv
  <2> QED BY <1>1, <1>17, <1>20, <2>1 DEF EnteredInv
<1>22. HandlersInOrder'
  <2> SUFFICES ASSUME NEW i \in DOMAIN trace', NEW j \in DOMAIN trace', i < j,
                      trace'[i].what = "call", trace'[j].what = "call",
                      trace'[i].at[1] = trace'[j].at[1]
               PROVE  Before(trace'[i].at, trace'[j].at)
    BY DEF HandlersInOrder
  <2>1. i \in DOMAIN trace /\ trace'[i] = trace[i]
    BY <1>9
  <2>2. CASE j = n + 1
    <3>1. trace[i].at \in Calls(trace)
      BY <2>1 DEF Calls
    <3> QED BY <1>7, <1>9, <1>12, <2>1, <2>2, <3>1
  <2>3. CASE j # n + 1
    <3>1. j \in DOMAIN trace /\ trace'[j] = trace[j]
      BY <1>9, <2>3
    <3> QED BY <2>1, <3>1 DEF OrderInv, HandlersInOrder
  <2> QED BY <2>2, <2>3
<1>23. ErrorsAreHandled'
  <2> SUFFICES ASSUME NEW i \in 1..Len(trace') - 1,
                      trace'[i].what = "raise", trace'[i + 1].what = "call"
               PROVE  trace'[i + 1].catches \/ EntersRouter(i)'
    BY DEF ErrorsAreHandled
  <2>1. i \in 1..n /\ trace'[i] = trace[i] /\ \A j \in 1..i : trace'[j] = trace[j] /\ j \in 1..n
    BY <1>9
  <2>2. CASE i = n
    <3>1. trace # <<>> /\ Last(trace).what = "raise"
      BY <1>9, <2>1, <2>2, EmptySeq DEF Last, n
    <3>2. trace'[i + 1] = e
      BY <1>9, <2>2
    <3>3. CASE Top.walk.error
      BY <1>4, <1>7, <3>2, <3>3
    <3>4. CASE ~Top.walk.error
      <4>1. /\ Top.walk.owner # NoOwner /\ Top.walk.owner[1] # App
            /\ \A g \in Calls(trace) : g[1] # Top.walk.owner[1]
        BY <1>2, <3>1, <3>4 DEF OrderInv, ErrorInv, Top
      <4>2. h[1] # App /\ \A g \in Calls(trace) : g[1] # h[1]
        BY <1>13, <4>1
      <4>3. ASSUME NEW j \in 1..i, trace'[j].what = "call" PROVE trace'[j].at[1] # h[1]
        <5>1. trace[j].at \in Calls(trace)
          BY <1>9, <2>1, <4>3 DEF Calls
        <5> QED BY <2>1, <4>2, <5>1
      <4> QED BY <1>7, <3>2, <4>2, <4>3 DEF EntersRouter
    <3> QED BY <3>3, <3>4
  <2>3. CASE i # n
    <3>1. i \in 1..n - 1 /\ i + 1 \in 1..n
      BY <1>9, <2>1, <2>3
    <3>2. trace'[i + 1] = trace[i + 1] /\ i \in 1..Len(trace) - 1
      BY <1>9, <3>1 DEF n
    <3>3. trace[i + 1].catches \/ EntersRouter(i)
      BY <2>1, <3>2 DEF OrderInv, ErrorsAreHandled
    <3> QED BY <2>1, <3>2, <3>3 DEF EntersRouter
  <2> QED BY <2>2, <2>3
<1> QED BY <1>18, <1>19, <1>21, <1>22, <1>23 DEF OrderInv

LEMMA OrderInit ==
  ASSUME MountedOnce, Init
  PROVE  OrderInv
<1> DEFINE f == LayersFrame(<<App, 1>>, FALSE)
           E == {App}
<1>1. /\ f.kind = "layers" /\ f.walk.owner = <<App, 1>> /\ f.walk.owner # NoOwner
  BY ExpressPipelineAssumption, FirstLayerInv
<1>2. stack = <<f>> /\ nexts = <<>> /\ promises = {} /\ trace = <<>>
  BY DEF Init
<1> HIDE DEF f
<1>3. DOMAIN stack = {1} /\ stack[1] = f /\ DOMAIN nexts = {} /\ DOMAIN trace = {}
      /\ Len(trace) = 0
  BY <1>2
<1>4. Calls(trace) = {}
  BY <1>3 DEF Calls
<1>5. \A c \in Containers, l \in Nat : IsMount(c, l) => Layers[c][l].router # App
  BY DEF MountedOnce
<1>6. LimitInv(<<App, 1>>, Calls(trace), E)
  BY <1>4, <1>5, ExpressPipelineAssumption DEF LimitInv
<1>7. FrameInv(f, trace, E)
  <2>1. Limit(f) = <<App, 1>>
    BY <1>1 DEF Limit
  <2> QED BY <1>1, <1>6, <2>1 DEF FrameInv
<1>8. EnteredInv(E)
  BY <1>2, <1>3, <1>4, <1>5, <1>7 DEF EnteredInv
<1>9. E \in SUBSET Containers
  BY ExpressPipelineAssumption
<1>10. DistinctContainers(stack) /\ ErrorInv(stack, trace)
  BY <1>2, <1>3 DEF DistinctContainers, ErrorInv
<1>11. HandlersInOrder /\ ErrorsAreHandled
  BY <1>3 DEF HandlersInOrder, ErrorsAreHandled
<1> QED BY <1>8, <1>9, <1>10, <1>11 DEF OrderInv

LEMMA OrderNext ==
  ASSUME MountedOnce, PipelineInv, OrderInv, [Next]_vars
  PROVE  OrderInv'
<1>1. CASE NativeStep
  BY <1>1, SkipRouteOrder, EnterHandlersOrder, EnterRouterOrder, FinishLayersOrder,
     CallHandlerOrder, HandlersDoneOrder DEF NativeStep
<1>2. CASE Handling
  BY <1>2, HandlerAdvancesOrder, HandlerStopsOrder, HandlerThrowsOrder, PromiseOrder
  DEF Handling
<1>3. CASE Write \/ WriteHead \/ End \/ Close \/ UNCHANGED vars
  BY <1>3, ResponseOrder
<1>6. CASE \E n \in DOMAIN nexts : NextClose(n)
  BY <1>6, ResponseOrder
<1>4. CASE \E n \in DOMAIN nexts, arg \in NextArgs : CallNext(n, arg)
  BY <1>4, CallNextOrder
<1>5. CASE \E p \in promises : Reject(p) \/ Resolve(p)
  BY <1>5, SettledOrder
<1> QED BY <1>1, <1>2, <1>3, <1>4, <1>5, <1>6 DEF Next

LEMMA OrderKept ==
  ASSUME MountedOnce
  PROVE  Spec => []OrderInv
<1>1. Init => OrderInv
  BY OrderInit
<1>2. PipelineInv /\ OrderInv /\ [Next]_vars => OrderInv'
  BY OrderNext
<1> QED BY <1>1, <1>2, PipelineKept, PTL DEF Spec

\* Whatever order the saved next functions, promises and exceptions come in, no
\* handler runs twice and none before one that precedes it in its container.
\* A router that is mounted in two places is walked twice, hence the hypothesis.
THEOREM CallsInOrder ==
  ASSUME MountedOnce
  PROVE  Spec => []HandlersInOrder
<1>1. OrderInv => HandlersInOrder
  BY DEF OrderInv
<1> QED BY <1>1, OrderKept, PTL

\* The next handler after an error takes errors, unless it is the first of a
\* router that the error led into.
THEOREM RaisedErrorsHandled ==
  ASSUME MountedOnce
  PROVE  Spec => []ErrorsAreHandled
<1>1. OrderInv => ErrorsAreHandled
  BY DEF OrderInv
<1> QED BY <1>1, OrderKept, PTL
=============================================================================
