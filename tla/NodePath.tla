------------------------------ MODULE NodePath ------------------------------
(***************************************************************************)
(* node:path, modules/node-path/src/lib.rs: pure functions over paths.  A  *)
(* path is a sequence of "/", "." and letters.                             *)
(***************************************************************************)
EXTENDS Text
LOCAL INSTANCE SequencesExt

Slash == <<"/">>
Dot == <<".">>
DotDot == <<".", ".">>

IsAbsolute(path) == StartsWith(path, "/")

\* Mutant: a ".." takes back the ".." before it.
PopAny(parts, absolute) == parts # <<>>

\* A ".." takes back the name before it.
PopsName(parts, absolute) == parts # <<>> /\ Last(parts) # DotDot

\* One turn of the loop of normalize_posix
PushPart(parts, part, absolute) ==
  IF part \in {<<>>, Dot} THEN parts
  ELSE IF part # DotDot THEN Append(parts, part)
  ELSE IF PopsName(parts, absolute) THEN Front(parts)
  ELSE IF absolute THEN parts
  ELSE Append(parts, DotDot)

\* normalize_posix
Normalize(path) ==
  LET absolute == IsAbsolute(path)
      parts == FoldLeft(LAMBDA acc, part : PushPart(acc, part, absolute),
                        <<>>, Split(path, "/"))
      joined == (IF absolute THEN Slash ELSE <<>>) \o JoinWith(parts, "/")
      result == IF joined = <<>> THEN Dot ELSE joined
  IN IF path = <<>> THEN Dot
     ELSE IF EndsWith(path, "/") /\ result \notin {Slash, Dot}
     THEN Append(result, "/")
     ELSE result

\* resolve_posix: the working directory is the root.
Resolve(paths) ==
  LET Extend(combined, path) ==
        IF path = <<>> THEN combined
        ELSE IF IsAbsolute(path) \/ combined = <<>> THEN path
        ELSE IF EndsWith(combined, "/") THEN combined \o path
        ELSE Append(combined, "/") \o path
      combined == FoldLeft(Extend, <<>>, paths)
  IN Normalize(IF IsAbsolute(combined) THEN combined ELSE Slash \o combined)

\* join_posix
JoinPaths(paths) == Normalize(JoinWith(NonEmpty(paths), "/"))

\* RELATIVE
Relative(from, to) ==
  LET source == NonEmpty(Split(Resolve(<<from>>), "/"))
      target == NonEmpty(Split(Resolve(<<to>>), "/"))
      common == Len(LongestCommonPrefix({source, target}))
  IN JoinWith([i \in 1..(Len(source) - common) |-> DotDot]
                \o From(target, common + 1), "/")

\* trimmed_path
TrimmedPath(path) ==
  LET trimmed == TrimEnd(path, "/")
  IN IF trimmed = <<>> /\ IsAbsolute(path) THEN Slash ELSE trimmed

\* basename_posix
Basename(path) == Last(Split(TrimmedPath(path), "/"))

\* BASENAME with a suffix to take off
BasenameWithout(path, suffix) ==
  LET base == Basename(path)
  IN IF IsSuffix(suffix, base) THEN SubSeq(base, 1, Len(base) - Len(suffix))
     ELSE base

\* dirname_posix
Dirname(path) ==
  LET trimmed == TrimmedPath(path)
      directory == TrimEnd(SubSeq(trimmed, 1, Greatest(At(trimmed, "/")) - 1),
                           "/")
  IN IF path = <<>> \/ At(trimmed, "/") = {} THEN Dot
     ELSE IF directory = <<>> THEN Slash
     ELSE directory

\* extname_posix
Extname(path) ==
  LET base == Basename(path)
      dots == At(base, ".")
  IN IF base \in {Dot, DotDot} \/ dots = {} THEN <<>>
     ELSE IF Greatest(dots) = 1 THEN <<>>
     ELSE From(base, Greatest(dots))

\* PARSE
ParsePath(path) ==
  LET directory == Dirname(path)
      base == Basename(path)
      ext == Extname(path)
  IN [root |-> IF IsAbsolute(path) THEN Slash ELSE <<>>,
      dir |-> IF directory = Dot THEN <<>> ELSE directory,
      base |-> base,
      ext |-> ext,
      name |-> SubSeq(base, 1, Len(base) - Len(ext))]

\* FORMAT; a missing property is empty
FormatPath(object) ==
  LET ext == IF object.ext # <<>> /\ Head(object.ext) # "."
             THEN Dot \o object.ext ELSE object.ext
      file == IF object.base = <<>> THEN object.name \o ext ELSE object.base
      directory == IF object.dir = <<>> THEN object.root ELSE object.dir
  IN IF directory = <<>> THEN file
     ELSE IF directory = Slash THEN Slash \o file
     ELSE Append(directory, "/") \o file

-----------------------------------------------------------------------------

\* Reference: the directory a path leads to from a directory, both as the
\* names below the root; the root is its own parent.
Enter(dir, part) ==
  IF part \in {<<>>, Dot} THEN dir
  ELSE IF part = DotDot THEN (IF dir = <<>> THEN dir ELSE Front(dir))
  ELSE Append(dir, part)

Walk(dir, path) ==
  FoldLeft(Enter, IF IsAbsolute(path) THEN <<>> ELSE dir, Split(path, "/"))

\* normalize leads to the same place from every directory and is a normal
\* form.
NormalizeKeepsPlace(path, dirs) ==
  /\ \A dir \in dirs : Walk(dir, Normalize(path)) = Walk(dir, path)
  /\ Normalize(Normalize(path)) = Normalize(path)

\* resolve walks its arguments one after the other, and relative leads from
\* the first place to the second.
PairsLead(from, to) ==
  /\ Walk(<<>>, Resolve(<<from, to>>)) = Walk(Walk(<<>>, from), to)
  /\ Walk(Walk(<<>>, from), Relative(from, to)) = Walk(<<>>, to)

\* A path taken apart and put together again, by dirname and basename, with
\* or without the extension, or by parse and format, with or without the
\* base, leads to the same place.
PartsKeepPlace(path, dirs) ==
  LET parsed == ParsePath(path)
      stem == BasenameWithout(path, Extname(path))
  IN \A dir \in dirs :
       {Walk(dir, JoinPaths(<<Dirname(path), Basename(path)>>)),
        Walk(dir, JoinPaths(<<Dirname(path), stem \o Extname(path)>>)),
        Walk(dir, FormatPath(parsed)),
        Walk(dir, FormatPath([parsed EXCEPT !.base = <<>>]))}
         = {Walk(dir, path)}
=============================================================================
