------------------------------ MODULE UrlParts ------------------------------
(***************************************************************************)
(* What a URL and its searchParams promise: a path, a list of name and     *)
(* value pairs and a fragment that change independently, each call doing   *)
(* to its own part what its name says.  call is the last call that         *)
(* returned; a call that throws changes nothing.                           *)
(***************************************************************************)
EXTENDS Naturals, Sequences

CONSTANTS
  Names, Values,   \* the texts of names and values
  Texts,           \* the texts assigned to parts
  MaxPairs,        \* a list has no more pairs
  Precedes(_, _),  \* the strict order of names
  PairsOf(_)       \* the pairs a query text stands for

VARIABLES call, path, list, fragment

parts == <<path, list, fragment>>

Named(pairs, name) == SelectSeq(pairs, LAMBDA p : p.name = name)
Others(pairs, name) == SelectSeq(pairs, LAMBDA p : p.name # name)
Pair(name, value) == [name |-> name, value |-> value]
Called(op, args) == call' = [op |-> op, args |-> args]

Short(pairs) == Len(pairs) <= MaxPairs

Start == Short(list)

AddPair(name, value) ==
  /\ Called("append", <<name, value>>)
  /\ list' = Append(list, Pair(name, value))

\* The first pair of the name gets the value and the others go; without one,
\* the pair is added.
SetFirst(name, value) ==
  /\ Called("set", <<name, value>>)
  /\ \/ /\ Named(list, name) = <<>>
        /\ list' = Append(list, Pair(name, value))
     \/ \E old \in {list} : \E i \in DOMAIN old :
          /\ old[i].name = name
          /\ \A j \in 1 .. i - 1 : old[j].name # name
          /\ list' = SubSeq(old, 1, i - 1) \o <<Pair(name, value)>>
                       \o Others(SubSeq(old, i + 1, Len(old)), name)

DeleteNamed(name) ==
  /\ Called("delete", <<name>>)
  /\ list' = Others(list, name)

\* Names in order, and the pairs of a name in the order they had
Sorted(pairs) ==
  \A i, j \in DOMAIN pairs : i < j => ~Precedes(pairs[j].name, pairs[i].name)

SortNames ==
  /\ Called("sort", <<>>)
  /\ \E old \in {list}, new \in {list'} :
       /\ Len(new) = Len(old) /\ Sorted(new)
       /\ \A i \in DOMAIN old : Named(new, old[i].name) = Named(old, old[i].name)

AssignSearch(text) ==
  /\ Called("search", <<text>>)
  /\ list' = PairsOf(text)

AssignPath(text) ==
  /\ Called("pathname", <<text>>)
  /\ path' = IF text # <<>> /\ Head(text) = "/" THEN text ELSE <<"/">> \o text

AssignHash(text) ==
  /\ Called("hash", <<text>>)
  /\ fragment' = IF text # <<>> /\ Head(text) = "#" THEN Tail(text) ELSE text

AssignHref == call'.op = "href"

ListStep ==
  /\ \/ \E name \in Names, value \in Values :
           AddPair(name, value) \/ SetFirst(name, value)
     \/ \E name \in Names : DeleteNamed(name)
     \/ SortNames
     \/ \E text \in Texts : AssignSearch(text)
  /\ UNCHANGED <<path, fragment>>

PathStep == (\E text \in Texts : AssignPath(text)) /\ UNCHANGED <<list, fragment>>
HashStep == (\E text \in Texts : AssignHash(text)) /\ UNCHANGED <<path, list>>

Step == Short(list') /\ (ListStep \/ PathStep \/ HashStep \/ AssignHref)

Promise == Start /\ [][Step]_<<call, parts>>
=============================================================================
