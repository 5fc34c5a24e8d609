-------------------------- MODULE MCExpressPipeline --------------------------
(***************************************************************************)
(* ExpressPipeline for TLC: applications of four to five handlers.         *)
(***************************************************************************)
EXTENDS ExpressPipeline

Middleware(handlers) == [kind |-> "middleware", handlers |-> handlers]
Route(handlers) == [kind |-> "route", handlers |-> handlers]
Mount(router) == [kind |-> "router", router |-> router]

\* app.use(f); app.get(g, h); app.use(router) with k and onError; app.use(onError)
AllLayers ==
  [app |-> <<Middleware(<<FALSE>>), Route(<<FALSE, FALSE>>), Mount("router"),
             Middleware(<<TRUE>>)>>,
   router |-> <<Middleware(<<FALSE, TRUE>>)>>]

\* app.use(f); app.get(g, h); app.use(onError, k); app.get(l)
FlatLayers ==
  [app |-> <<Middleware(<<FALSE>>), Route(<<FALSE, FALSE>>), Middleware(<<TRUE, FALSE>>),
           Route(<<FALSE>>)>>]

\* app.use(f); app.use("/", router) with one middleware, and an error handler.
MountedLayers ==
  [app |-> <<Middleware(<<FALSE>>), Mount("router"), Middleware(<<TRUE>>)>>,
   router |-> <<Middleware(<<FALSE, TRUE>>)>>]

\* An application whose asynchronous handlers never fail.
ResolvingNext ==
  \/ NativeStep \/ Handling \/ Write \/ WriteHead \/ End \/ Close
  \/ \E n \in DOMAIN nexts, arg \in NextArgs : CallNext(n, arg)
  \/ \E n \in DOMAIN nexts : NextClose(n)
  \/ \E p \in promises : Resolve(p)
ResolvingSpec ==
  /\ Init /\ [][ResolvingNext]_vars
  /\ WF_vars(NativeStep) /\ WF_vars(Handling)
  /\ WF_vars(\E p \in promises : Resolve(p))
  /\ WF_vars(stack = <<>> /\ \E n \in DOMAIN nexts : CallNext(n, "none"))
=============================================================================
