----------------------------- MODULE RouteMatch -----------------------------
(***************************************************************************)
(* How Express matches the path of a request (modules/express/src/lib.rs): *)
(* match_path for a layer, the rest of the path that run_layers gives a    *)
(* mounted router, merge_params, and the methods a route answers.          *)
(* ExpressPipeline starts where this module ends, with the layers that     *)
(* match.  Paths are texts of FormText.                                    *)
(***************************************************************************)
EXTENDS FormText
LOCAL INSTANCE SequencesExt

\* to_ascii_lowercase, on text with the letters "A" and "a"
Lower(s) == Replace(s, "A", "a")

Root == <<"/">>

\* segments
Segments(path) == NonEmpty(Split(Trim(path, "/"), "/"))

IsParam(wanted) == StartsWith(wanted, ":")

\* match_path on the segments of a pattern and a path: whether it matches, or
\* else whether that is an error of the request; what a prefix pattern took of
\* the path, and the parameters.
NoMatch == [found |-> FALSE, refused |-> FALSE, prefix |-> <<>>, params |-> <<>>]

MatchSegments(wanted, actual, prefix) ==
  LET value == MapSeq(actual, LAMBDA s : PercentDecode(s, FALSE))
      Bad(i) == IF IsParam(wanted[i]) THEN value[i] = Malformed
                ELSE Lower(wanted[i]) # Lower(actual[i])
      bad == {i \in DOMAIN wanted : Bad(i)}
      named == SelectSeq([i \in DOMAIN wanted |-> i],
                         LAMBDA i : IsParam(wanted[i]))
  IN IF Len(wanted) > Len(actual) \/ (~prefix /\ Len(wanted) # Len(actual))
     THEN NoMatch
     ELSE IF bad # {} THEN [NoMatch EXCEPT !.refused = IsParam(wanted[Least(bad)])]
     ELSE [found |-> TRUE,
           refused |-> FALSE,
           prefix |-> Root \o JoinWith(SubSeq(actual, 1, Len(wanted)), "/"),
           params |-> MapSeq(named, LAMBDA i : [name |-> Tail(wanted[i]),
                                                value |-> value[i]])]

MatchPath(pattern, path, prefix) ==
  MatchSegments(Segments(pattern), Segments(path), prefix)

\* Mutant: a parameter of the same name is overwritten.
MergeOver(params, found) ==
  FoldLeft(LAMBDA object, p :
             [name \in DOMAIN object \union {p.name} |->
                IF name = p.name THEN p.value ELSE object[name]],
           params, found)

\* merge_params: a name that has a value keeps it.
MergeParams(params, found) ==
  FoldLeft(LAMBDA object, p :
             [name \in DOMAIN object \union {p.name} |->
                IF name \in DOMAIN object THEN object[name] ELSE p.value],
           params, found)

\* The part of baseUrl a mounted router adds
BasePart(prefix) == IF prefix = Root THEN <<>> ELSE prefix

\* The path the router is given: the text after as many symbols as the prefix
\* has, which the code counts in the collapsed prefix.
Rest(prefix, path) ==
  LET rest == From(path, Len(prefix) + 1)
  IN IF StartsWith(rest, "/") THEN rest ELSE Root \o rest

\* What a layer that matched and a route of its router give together
Routed(outer, r, path) ==
  LET inner == MatchPath(r, Rest(outer.prefix, path), FALSE)
  IN [found |-> outer.found /\ inner.found,
      refused |-> outer.refused \/ (outer.found /\ inner.refused),
      base |-> BasePart(outer.prefix),
      rest |-> Rest(outer.prefix, path),
      params |-> MergeParams(MergeParams(NoFields, outer.params), inner.params)]

\* A layer mounted at m whose router has the route r
Mounted(m, r, path) == Routed(MatchPath(m, path, TRUE), r, path)

-----------------------------------------------------------------------------
\* The methods of a container's routes

\* has_explicit; a route is [method, path].
HasExplicit(routes, path, method) ==
  \E i \in DOMAIN routes :
    /\ routes[i].method \in {method, "ALL"}
    /\ MatchPath(routes[i].path, path, FALSE).found

\* allowed of run_layers
Allowed(routes, i, path, method) ==
  LET asked == IF method = "HEAD" /\ ~HasExplicit(routes, path, "HEAD")
               THEN "GET" ELSE method
  IN /\ routes[i].method \in {asked, "ALL"}
     /\ method = "OPTIONS" => HasExplicit(routes, path, "OPTIONS")

\* The routes that run, in order, when every handler calls next
Reached(routes, path, method) ==
  SelectSeq([i \in DOMAIN routes |-> i],
            LAMBDA i : /\ Allowed(routes, i, path, method)
                       /\ MatchPath(routes[i].path, path, FALSE).found)

-----------------------------------------------------------------------------

\* A path in which no two slashes meet
Canonical(path) ==
  /\ StartsWith(path, "/")
  /\ \A i \in 1 .. Len(path) - 1 : path[i] # "/" \/ path[i + 1] # "/"

\* The parameters found, the first of each name
FirstValues(found) ==
  [name \in {found[i].name : i \in DOMAIN found} |->
     found[Least({i \in DOMAIN found : found[i].name = name})].value]

\* A route of a mounted router matches a canonical path exactly when the
\* joined pattern does, with the same parameters, the outer one of a name
\* before the inner one, and baseUrl followed by the router's path is the path
\* (up to a slash at the end).
MountedIsJoined(m, r, path) ==
  \A mounted \in {Mounted(m, r, path)}, joined \in {MatchPath(m \o Root \o r, path, FALSE)} :
    ~mounted.refused /\ ~joined.refused =>
      /\ mounted.found = joined.found
      /\ mounted.found =>
           /\ mounted.params = FirstValues(joined.params)
           /\ mounted.base \o mounted.rest \in {path, path \o Root}

\* A HEAD request reaches a route wherever a GET request does, and only routes
\* that GET reaches or that are for HEAD.
MethodsAgree(routes, path) ==
  \A head \in {Reached(routes, path, "HEAD")}, get \in {Reached(routes, path, "GET")} :
    /\ get # <<>> => head # <<>>
    /\ \A k \in DOMAIN head :
         \/ \E j \in DOMAIN get : get[j] = head[k]
         \/ routes[head[k]].method = "HEAD"
=============================================================================
