------------------------------ MODULE NodeUrl -------------------------------
(***************************************************************************)
(* URL and URLSearchParams of node:url, modules/node-url/src/lib.rs.  A    *)
(* URL keeps one text, its serialization (DATA), which every call parses   *)
(* and every setter writes anew; its searchParams keep nothing but their   *)
(* owner.  URLSearchParams made by themselves keep a query text.  The      *)
(* origin, which no setter but href changes, is left out: a URL is the     *)
(* text from its path on.  Parse, Href and the setters of the parts model  *)
(* the crate url as this module uses it.                                   *)
(***************************************************************************)
EXTENDS FormText
LOCAL INSTANCE SequencesExt

CONSTANTS
  Names,    \* the texts of names
  Values,   \* the texts of values
  Texts,    \* the texts assigned to parts, and addresses
  MaxPairs  \* MAX_PAIRS

ASSUME NodeUrlAssumption == MaxPairs \in Nat

VARIABLES
  data,   \* DATA of the URL, or of the parameters without one
  owned,  \* whether OWNER of the parameters is a URL
  called  \* history: the last call that returned

urlVars == <<data, owned, called>>

Absent == <<>>  \* None; Some(text) is <<text>>

-----------------------------------------------------------------------------
\* The crate url

Parse(text) ==
  LET front == Before(text, "#")
  IN [path |-> Before(front, "?"),
      query |-> IF At(front, "?") = {} THEN Absent ELSE <<After(front, "?")>>,
      fragment |-> IF At(text, "#") = {} THEN Absent ELSE <<After(text, "#")>>]

Marked(mark, part) == IF part = Absent THEN <<>> ELSE <<mark>> \o part[1]

Href(url) == url.path \o Marked("?", url.query) \o Marked("#", url.fragment)

EscapedIn(text, marks) ==
  MapSeq(text, LAMBDA x : IF x \in marks THEN EscapeOf(x) ELSE x)

Rooted(text) == IF StartsWith(text, "/") THEN text ELSE <<"/">> \o text

SetPath(url, text) ==
  [url EXCEPT !.path = Rooted(EscapedIn(text, {"?", "#", " "}))]
SetQuery(url, query) ==
  [url EXCEPT !.query = IF query = Absent THEN Absent
                        ELSE <<EscapedIn(query[1], {"#", " "})>>]
SetFragment(url, fragment) ==
  [url EXCEPT !.fragment = IF fragment = Absent THEN Absent
                           ELSE <<EscapedIn(fragment[1], {" "})>>]

-----------------------------------------------------------------------------
\* Reading and writing the pairs

\* The order of UTF-16 code units: "#" < "&" < "+" < "=" < "?" < "a" < "b"
Order == <<" ", "#", "%", "&", "+", "/", "=", "?", "a", "b">>
Rank(c) == CHOOSE i \in DOMAIN Order : Order[i] = c
NameBefore(m, n) ==
  LET differ == {i \in DOMAIN m \intersect DOMAIN n : m[i] # n[i]}
  IN IF differ = {} THEN Len(m) < Len(n)
     ELSE Rank(m[Least(differ)]) < Rank(n[Least(differ)])

Query(url) == IF url.query = Absent THEN <<>> ELSE url.query[1]

\* pairs
Pairs == SearchPairs(IF owned THEN Query(Parse(data)) ELSE data)

\* save_pairs
SavePairs(pairs) ==
  LET query == Serialize(pairs)
  IN /\ Len(pairs) <= MaxPairs
     /\ data' = IF owned
                THEN Href(SetQuery(Parse(data),
                                   IF query = <<>> THEN Absent ELSE <<query>>))
                ELSE query

Stripped(text, mark) == IF StartsWith(text, mark) THEN Tail(text) ELSE text
PartOf(text, mark) == IF text = <<>> THEN Absent ELSE <<Stripped(text, mark)>>

\* A setter's result is saved unless its query has too many pairs.
SaveUrl(url) ==
  /\ owned
  /\ Len(SearchPairs(Query(url))) <= MaxPairs
  /\ data' = Href(url)

Call(op, args) == called' = [op |-> op, args |-> args] /\ UNCHANGED owned

-----------------------------------------------------------------------------
\* The calls that change something and do not throw

\* new URL(text) and new URLSearchParams(text)
UrlInit ==
  /\ owned \in BOOLEAN
  /\ called = [op |-> "new", args |-> <<>>]
  /\ \E text \in Texts :
       /\ data = IF owned THEN Href(Parse(Rooted(text))) ELSE Stripped(text, "?")
       /\ Len(Pairs) <= MaxPairs

AppendCall(name, value) ==
  /\ SavePairs(Append(Pairs, [name |-> name, value |-> value]))
  /\ Call("append", <<name, value>>)

\* Mutant: the new pair always goes to the end.
SetAtEnd(pairs, name, value) ==
  Append(SelectSeq(pairs, LAMBDA p : p.name # name),
         [name |-> name, value |-> value])

\* The new pair stands where the first of its name stood.
SetInPlace(pairs, name, value) ==
  LET kept == SelectSeq(pairs, LAMBDA p : p.name # name)
      same == {i \in DOMAIN pairs : pairs[i].name = name}
      at == IF same = {} THEN Len(kept) + 1 ELSE Least(same)
  IN InsertAt(kept, at, [name |-> name, value |-> value])

SetCall(name, value) ==
  /\ SavePairs(SetInPlace(Pairs, name, value))
  /\ Call("set", <<name, value>>)

DeleteCall(name) ==
  /\ SavePairs(SelectSeq(Pairs, LAMBDA p : p.name # name))
  /\ Call("delete", <<name>>)

\* sort_by is stable.
Insert(sorted, p) ==
  SelectSeq(sorted, LAMBDA q : ~NameBefore(p.name, q.name)) \o <<p>>
    \o SelectSeq(sorted, LAMBDA q : NameBefore(p.name, q.name))

SortCall ==
  /\ SavePairs(FoldLeft(Insert, <<>>, Pairs))
  /\ Call("sort", <<>>)

HrefSetter(text) ==
  /\ SaveUrl(Parse(Rooted(text)))
  /\ Call("href", <<text>>)

PathnameSetter(text) ==
  /\ SaveUrl(SetPath(Parse(data), text))
  /\ Call("pathname", <<text>>)

SearchSetter(text) ==
  /\ SaveUrl(SetQuery(Parse(data), PartOf(text, "?")))
  /\ Call("search", <<text>>)

HashSetter(text) ==
  /\ SaveUrl(SetFragment(Parse(data), PartOf(text, "#")))
  /\ Call("hash", <<text>>)

UrlNext ==
  \/ \E name \in Names, value \in Values :
       AppendCall(name, value) \/ SetCall(name, value)
  \/ \E name \in Names : DeleteCall(name)
  \/ SortCall
  \/ \E text \in Texts :
       \/ HrefSetter(text) \/ PathnameSetter(text)
       \/ SearchSetter(text) \/ HashSetter(text)

UrlSpec == UrlInit /\ [][UrlNext]_urlVars

-----------------------------------------------------------------------------

UrlTypeOK ==
  /\ data \in Seq(DOMAIN Escapes \union {Order[i] : i \in DOMAIN Order})
  /\ owned \in BOOLEAN
  /\ Len(Pairs) <= MaxPairs

\* A part of the URL without marks and escapes; the parameters alone have none.
Shown(text) == IF owned THEN MapSeq(text, Unescape) ELSE <<>>

Promised == INSTANCE UrlParts WITH
  call <- called,
  path <- Shown(Parse(data).path),
  list <- Pairs,
  fragment <- Shown(FlattenSeq(Parse(data).fragment)),
  Precedes <- NameBefore,
  PairsOf <- LAMBDA text : SearchPairs(Stripped(text, "?"))

\* A live URL and its searchParams, or parameters of their own, do what they
\* promise: no setter disturbs another part, whatever its text contains.
ImplementsParts == Promised!Promise
=============================================================================
