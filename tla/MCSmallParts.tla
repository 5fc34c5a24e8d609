---------------------------- MODULE MCSmallParts ----------------------------
(***************************************************************************)
(* The small parts of the system, each explored by itself: a behaviour     *)
(* chooses one of them, its subject, and leaves the others alone.  The     *)
(* listener table, the response struct, the URL, the file functions and    *)
(* the rate limiter take their own steps; the algorithms over text and     *)
(* bytes are evaluated on every input up to a length, which grows by one   *)
(* symbol of the subject's alphabet in each step.                          *)
(***************************************************************************)
EXTENDS NodeEvents, HttpResponseStream, NodeUrl, NodePath, RouteMatch, NodeBuffer,
        Durations, LegacyUrl, NodeFs, RateLimit, Cookies

\* One integer-like event name, so that eventNames() has to order both kinds
CONSTANTS indexName, otherName

MCIntegerValue == indexName :> 0

\* The default head and one other: enough to see a change after the start.
CONSTANTS plain, changed

MCHeads == {plain, changed}

\* Names and values that need escapes, and parts that contain the marks of
\* other parts; "a" gets a second value from them.
MCNames == {<<"a">>, <<"&">>}
MCValues == {<<"+">>}
MCTexts == {<<>>, <<"?", "a", "=", "#", " ">>, <<"/", "#", "?">>}

VARIABLES subject, input

Alphabets == [
  path |-> {"/", ".", "a"},
  form |-> {"k", "&", "=", "+", "%26", "%2B", "%", "%FF", "__proto__"},
  cookie |-> {"=", ";", " ", "quote", "%26", "%FF", "__proto__"},
  route |-> {"/", "a", "A", "%20", "%FF"},
  utf8 |-> {"A", "L2", "L3", "L4", "C", "X", "|"},
  units |-> {0, 7, 10, 16, 255, 300},
  digits |-> {0, 1, 5, 9},
  legacy |-> {"http", "HTTP", "A", ":", "/", "\\", "?", "#", "{", "@", "|", "1"}]

\* Bound: the symbols of an input
Longest == [path |-> 7, form |-> 4, cookie |-> 5, route |-> 5, utf8 |-> 5, units |-> 4,
            digits |-> 5, legacy |-> 4]

Texted == DOMAIN Alphabets
Stateful == {"events", "response", "url", "files", "limiter"}

\* The clients of the limiter's requests and the first file are chosen only
\* where they matter.
SmallInit ==
  /\ subject \in Texted \union Stateful
  /\ input = <<>>
  /\ Init
  /\ StreamInit
  /\ UrlInit
  /\ FsInit
  /\ LimitInit
  /\ subject # "url" => ~owned /\ data = <<>>
  /\ subject # "files" => disk[FirstFile] = "dir"
  /\ subject # "limiter" => \A r \in Requests : client[r] = NoClient

EventsStep ==
  /\ subject = "events" /\ Next
  /\ UNCHANGED <<subject, input, streamVars, urlVars, fsVars, limitVars>>

RespondStep ==
  /\ subject = "response" /\ StreamNext
  /\ UNCHANGED <<subject, input, vars, urlVars, fsVars, limitVars>>

UrlStep ==
  /\ subject = "url" /\ UrlNext
  /\ UNCHANGED <<subject, input, vars, streamVars, fsVars, limitVars>>

FilesStep ==
  /\ subject = "files" /\ FsNext
  /\ UNCHANGED <<subject, input, vars, streamVars, urlVars, limitVars>>

LimiterStep ==
  /\ subject = "limiter" /\ LimitNext
  /\ UNCHANGED <<subject, input, vars, streamVars, urlVars, fsVars>>

Grow ==
  /\ subject \in Texted
  /\ Len(input) < Longest[subject]
  /\ \E symbol \in Alphabets[subject] : input' = Append(input, symbol)
  /\ UNCHANGED <<subject, vars, streamVars, urlVars, fsVars, limitVars>>

SmallNext == EventsStep \/ RespondStep \/ UrlStep \/ FilesStep \/ LimiterStep \/ Grow

SmallVars == <<subject, input, vars, streamVars, urlVars, fsVars, limitVars>>

SmallSpec == SmallInit /\ [][SmallNext]_SmallVars

-----------------------------------------------------------------------------

\* Directories to start from, by the names below the root
Dirs == {<<>>, << <<"a">> >>, << <<"b">>, <<"a">> >>}

\* Patterns of up to two segments, literal or a parameter
Wanted == {<<"a">>, <<":", "p">>, <<":", "q">>}
Patterns ==
  {Root} \union {Root \o s : s \in Wanted}
    \union {Root \o s \o Root \o t : s, t \in Wanted}

RouteLists ==
  LET Routes == [method : {"GET", "HEAD", "ALL"}, path : {<<"/", "a">>, <<"/", ":", "p">>}]
  IN UNION {[1 .. n -> Routes] : n \in 0 .. 2}

\* node:path: normalize, resolve, relative and the parts of a path lead where
\* a walk over its segments leads; url.parse: the href of a result parses to
\* the same result.
LocationsKeepTheirPlace ==
  /\ subject = "path" =>
       /\ NormalizeKeepsPlace(input, Dirs)
       /\ PartsKeepPlace(input, Dirs)
       /\ \A i \in 0 .. Len(input) : PairsLead(SubSeq(input, 1, i), From(input, i + 1))
  /\ subject = "legacy" =>
       /\ LegacyStable(input)
       /\ LegacyStable(<<"http", ":", "/", "/">> \o input)

\* The four readers of name=value text agree, and both writers are undone by
\* their readers; the first cookie of a name counts.
ParametersAgree ==
  /\ subject = "form" => ReadersAgree(input) /\ WritersRoundTrip(input)
  /\ subject = "cookie" => CookiesAgree(input)

\* Express: a mounted route is the joined route, and HEAD finds an answer
\* where GET does.
RoutesAgree ==
  subject = "route" =>
    /\ Canonical(input) =>
         \A m, r \in Patterns : MountedIsJoined(m, r, input)
    /\ Len(input) <= 2 => \A routes \in RouteLists : MethodsAgree(routes, input)

\* node:buffer: text does not depend on how its bytes are cut into chunks, and
\* bytes survive their conversions.  Durations and limits are accepted exactly
\* when their true value is in range, and then have it.
ConversionsAreExact ==
  /\ subject = "utf8" => ChunksDecodeAlike(input)
  /\ subject = "units" => BytesSurvive(input)
  /\ subject = "digits" => QuantitiesExact(input)
=============================================================================
