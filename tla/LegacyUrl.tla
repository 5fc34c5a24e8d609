------------------------------ MODULE LegacyUrl -----------------------------
(***************************************************************************)
(* url.parse of node:url (legacy in modules/node-url/src/lib.rs), which    *)
(* does not use the crate url.  Text has the symbols "http" and "HTTP" for *)
(* that scheme, "A" and "a" for letters, "1" for a digit, "{" and "%7B"    *)
(* for a character that is escaped and its escape, "@" for one that no     *)
(* authority has; "|" is a space, which trim removes at the ends.          *)
(***************************************************************************)
EXTENDS Text
LOCAL INSTANCE SequencesExt

Space == "|"

\* legacy_escape
LegacyEscape(s) ==
  MapSeq(s, LAMBDA x : CASE x = "{" -> "%7B" [] x = Space -> "%20" [] OTHER -> x)

Lowercase(s) ==
  MapSeq(s, LAMBDA x : CASE x = "A" -> "a" [] x = "HTTP" -> "http" [] OTHER -> x)

\* A part that starts at its mark, or nothing
FromMark(s, mark) == IF At(s, mark) = {} THEN <<>> ELSE From(s, Least(At(s, mark)))

SchemeEnd == <<":", "/", "/">>
SchemeEnds(path) ==
  {i \in 1 .. Len(path) - 2 : SubSeq(path, i, i + 2) = SchemeEnd}

\* What stands before the hash and the search, with slashes only
PathPart(text) == Replace(Before(Before(text, "#"), "?"), "\\", "/")

\* The scheme, when "://" ends one, the authority and the rest of the path
Scheme(path) == SubSeq(path, 1, Least(SchemeEnds(path)) - 1)
Hosted(path) == From(path, Least(SchemeEnds(path)) + 3)
Authority(path) == Before(Hosted(path), "/")
AfterAuthority(path) == FromMark(Hosted(path), "/")

HostName(path) == Before(Authority(path), ":")
Port(path) == After(Authority(path), ":")

\* The host and the port of an authority are ASCII, the port only digits.
AuthorityRefused(path) ==
  \/ HostName(path) = <<>>
  \/ \E i \in DOMAIN HostName(path) :
       HostName(path)[i] \notin {"a", "A", "1", "http", "HTTP"}
  \/ At(Authority(path), ":") # {}
       /\ (Port(path) = <<>> \/ \E i \in DOMAIN Port(path) : Port(path)[i] # "1")

\* Everything that makes parse throw
LegacyRefuses(text) ==
  LET path == PathPart(Trim(text, Space))
  IN IF SchemeEnds(path) # {}
     THEN Lowercase(Scheme(path)) # <<"http">> \/ AuthorityRefused(path)
     ELSE \/ At(Before(path, "/"), ":") # {}
          \/ StartsWith(path, "/") /\ StartsWith(Tail(path), "/") /\ At(path, "@") # {}

\* The search ends where the hash begins.
SearchPart(text) == FromMark(Before(text, "#"), "?")

\* The path of an authority is at least a slash.
Pathname(rest, hosted) ==
  IF rest = <<>> /\ hosted THEN <<"/">> ELSE LegacyEscape(rest)

\* The result object of a text that is not refused; a part that is null in the
\* code is empty here.
LegacyParse(text) ==
  LET trimmed == Trim(text, Space)
      path == PathPart(trimmed)
      hosted == SchemeEnds(path) # {}
      rest == IF hosted THEN AfterAuthority(path) ELSE path
  IN [protocol |-> IF hosted THEN Append(Lowercase(Scheme(path)), ":") ELSE <<>>,
      host |-> IF hosted THEN Lowercase(Authority(path)) ELSE <<>>,
      hostname |-> IF hosted THEN Lowercase(HostName(path)) ELSE <<>>,
      port |-> IF hosted THEN Port(path) ELSE <<>>,
      pathname |-> Pathname(rest, hosted),
      search |-> LegacyEscape(SearchPart(trimmed)),
      hash |-> LegacyEscape(FromMark(trimmed, "#"))]

\* href
LegacyHref(r) ==
  (IF r.protocol = <<>> THEN <<>> ELSE r.protocol \o <<"/", "/">>)
    \o r.host \o r.pathname \o r.search \o r.hash

-----------------------------------------------------------------------------

\* The href of a parsed text is accepted and parses to the same parts.
LegacyStable(text) ==
  LegacyRefuses(text) \/
    LET parsed == LegacyParse(text)
        href == LegacyHref(parsed)
    IN /\ ~LegacyRefuses(href)
       /\ LegacyParse(href) = parsed
=============================================================================
