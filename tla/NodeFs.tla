------------------------------- MODULE NodeFs -------------------------------
(***************************************************************************)
(* node:fs and node:fs/promises, modules/node-fs/src/lib.rs.  Every        *)
(* operation has a synchronous, a callback and a promise form; each form   *)
(* sends one request to the host, which owns the files, and reads its      *)
(* answer when it comes.  What a call needs to remember until then is a    *)
(* vector of values, read by position (resume_api).                        *)
(*                                                                         *)
(* The host is external: it performs a request at some moment between the  *)
(* call and the answer, answers in any order, and may refuse anything.     *)
(* Bytes and the text they decode to are one content here, told apart by   *)
(* the form they travel in.                                                *)
(***************************************************************************)
EXTENDS Integers, Sequences

CONSTANTS
  Paths,      \* the paths an application uses
  Contents,   \* what a file may hold
  FirstFile,  \* the path that may exist when the application starts
  MaxCalls    \* bound: the calls of a behaviour that reach the host

Missing == "missing"
Undefined == "undefined"
Null == [null |-> TRUE]
Callback == "callback"
Refused == [refused |-> TRUE]

Forms == {"sync", "callback", "promise"}

\* Functions that only say that they are unavailable; appendFile stands for all.
Unavailable == {"appendFile"}

Operations == {"readFile", "writeFile", "readdir", "stat", "mkdir", "exists",
               "access", "rename", "unlink"} \union Unavailable

\* fs/promises has no exists.
InPromises(operation) == operation # "exists"

InForm(kind, content) == [kind |-> kind, content |-> content]
AsText(content) == InForm("text", content)
AsBuffer(content) == InForm("buffer", content)
AsBase64(content) == InForm("base64", content)

VARIABLES
  disk,       \* path -> Missing, "dir" or a content (host)
  waiting,    \* call number -> the request that waits and the host's answer
  told,       \* how a call ended, when the last step ended one
  calls       \* the calls that have reached the host
fsVars == <<disk, waiting, told, calls>>

-----------------------------------------------------------------------------

\* The arms of call_api.  A call has a path, a second and a
\* third argument, and a callback as its last one or not.

\* Mutant: the callback comes behind the path.
PathThenCallback(form, path) ==
  <<path>> \o (IF form = "callback" THEN <<Callback>> ELSE <<>>)

\* What resume_api finds when the answer comes
Kept(form, path) ==
  (IF form = "callback" THEN <<Callback>> ELSE <<>>) \o <<path>>

Request(operation, form, capability, arguments, state) ==
  [operation |-> operation, form |-> form, capability |-> capability,
   arguments |-> arguments, state |-> state]

NoCallback(form, a) == form = "callback" /\ ~a.callback

\* utf8_encoding
Utf8(option) == option = "utf8"

\* binary_read: Buffer output without an encoding; no other is supported.
ReadsBinary(option) == option = Missing
ReadRefused(option) == ~ReadsBinary(option) /\ ~Utf8(option)

ReadFile(form, a) ==
  LET binary == ReadsBinary(a.second)
  IN IF NoCallback(form, a) \/ ReadRefused(a.second) THEN Refused
     ELSE Request("readFile", form, "read",
                  <<a.path>> \o (IF binary THEN <<"base64">> ELSE <<>>),
                  Append(Kept(form, a.path), binary))

WriteFile(form, a) ==
  IF \/ a.second \notin [kind : {"text", "buffer"}, content : Contents]
     \/ NoCallback(form, a)
     \/ a.third # Missing /\ ~Utf8(a.third)
  THEN Refused
  ELSE Request("writeFile", form, "write",
               IF a.second.kind = "buffer"
               THEN <<a.path, AsBase64(a.second.content), "base64">>
               ELSE <<a.path, a.second>>,
               Kept(form, a.path))

Readdir(form, a) ==
  IF a.second # Missing \/ NoCallback(form, a) THEN Refused
  ELSE Request("readdir", form, "list", <<a.path>>, Kept(form, a.path))

Stat(form, a) ==
  IF a.second # Missing \/ NoCallback(form, a) THEN Refused
  ELSE Request("stat", form, "stat", <<a.path>>, Kept(form, a.path))

Mkdir(form, a) ==
  IF a.second \notin {Missing, "recursive"} \/ NoCallback(form, a) THEN Refused
  ELSE Request("mkdir", form, "mkdir", <<a.path, a.second = "recursive">>,
               Kept(form, a.path))

\* existsSync, exists and access ask for the same thing as stat.
ExistsOrAccess(operation, form, a) ==
  IF NoCallback(form, a) \/ (operation = "access" /\ a.second \notin {Missing, "F_OK"})
  THEN Refused
  ELSE Request(operation, form, "stat", <<a.path>>, Kept(form, a.path))

Rename(form, a) ==
  IF a.second \notin Paths \/ NoCallback(form, a) THEN Refused
  ELSE Request("rename", form, "rename", <<a.path, a.second>>, Kept(form, a.path))

Unlink(form, a) ==
  IF NoCallback(form, a) THEN Refused
  ELSE Request("unlink", form, "remove", <<a.path>>, Kept(form, a.path))

\* path_argument
NoPath(a) == a.path = Missing

\* call_api
CallApi(operation, form, a) ==
  IF operation \in Unavailable \/ NoPath(a) THEN Refused
  ELSE CASE operation = "readFile" -> ReadFile(form, a)
         [] operation = "writeFile" -> WriteFile(form, a)
         [] operation = "readdir" -> Readdir(form, a)
         [] operation = "stat" -> Stat(form, a)
         [] operation = "mkdir" -> Mkdir(form, a)
         [] operation = "rename" -> Rename(form, a)
         [] operation = "unlink" -> Unlink(form, a)
         [] OTHER -> ExistsOrAccess(operation, form, a)

-----------------------------------------------------------------------------

\* resume_api

\* Where the path is: behind the callback when there is one
PathIndex(form) == IF form = "callback" THEN 2 ELSE 1

\* fs_error, with operation_for
FsError(code, operation, path) ==
  [code |-> code, syscall |-> operation, path |-> path]

\* stats, with isFile and isDirectory
Stats(raw) ==
  [size |-> raw.size, isFile |-> raw.type = "file", isDirectory |-> raw.type = "dir"]

\* The value of a request that succeeded
AnswerValue(request, answer) ==
  LET binary == request.state[PathIndex(request.form) + 1]
  IN CASE request.operation = "exists" -> TRUE
       [] request.operation \in {"access", "rename", "unlink"} -> Undefined
       [] request.operation = "readFile" /\ binary -> AsBuffer(answer.value.content)
       [] request.operation = "stat" -> Stats(answer.value)
       [] OTHER -> answer.value

\* The operations whose callback gets no value
OnlyErrors == {"writeFile", "mkdir", "access", "rename", "unlink"}

Returns(value) == [way |-> "return", values |-> <<value>>]
Throws(error) == [way |-> "throw", values |-> <<error>>]
Calls(values) == [way |-> "callback", values |-> values]

Resume(request, answer) ==
  LET form == request.form
      value == IF answer.ok THEN AnswerValue(request, answer) ELSE FALSE
      error == FsError(answer.code, request.operation, request.state[PathIndex(form)])
  IN IF ~answer.ok /\ request.operation # "exists"
     THEN IF form = "callback" THEN Calls(<<error>>) ELSE Throws(error)
     ELSE IF form # "callback" THEN Returns(value)
     ELSE IF request.operation = "exists" THEN Calls(<<value>>)
     ELSE IF request.operation \in OnlyErrors THEN Calls(<<Null>>)
     ELSE Calls(<<Null, value>>)

-----------------------------------------------------------------------------

\* The host

Done(value) == [ok |-> TRUE, value |-> value]
Fails(code) == [ok |-> FALSE, code |-> code]

\* The wire form of a content: as text, or in base64 when the request asks
Encoded(content, arguments) ==
  IF Len(arguments) = 2 THEN AsBase64(content) ELSE AsText(content)

RawStat(entry) ==
  [type |-> IF entry = "dir" THEN "dir" ELSE "file",
   size |-> IF entry = "dir" THEN 0 ELSE 1]

\* The answer to a request that meets these files
Answer(request, files) ==
  LET path == request.arguments[1]
      entry == files[path]
      capability == request.capability
  IN CASE capability = "write" -> IF entry = "dir" THEN Fails("EISDIR") ELSE Done(Undefined)
       [] capability = "mkdir" ->
            IF entry = Missing \/ (request.arguments[2] /\ entry = "dir") THEN Done(Undefined)
            ELSE Fails("EEXIST")
       [] OTHER ->
            IF entry = Missing THEN Fails("ENOENT")
            ELSE CASE capability = "read" ->
                        IF entry = "dir" THEN Fails("EISDIR")
                        ELSE Done(Encoded(entry, request.arguments))
                   [] capability = "list" ->
                        IF entry = "dir" THEN Done(<<>>) ELSE Fails("ENOTDIR")
                   [] capability = "stat" -> Done(RawStat(entry))
                   [] OTHER -> Done(Undefined)

\* What a write stores: base64 that is not announced is taken as text.
Stored(arguments) ==
  IF arguments[2].kind = "base64" /\ Len(arguments) = 2 THEN "garbage"
  ELSE arguments[2].content

\* The files after it
Effect(request, files) ==
  LET path == request.arguments[1]
      second == request.arguments[2]
  IN CASE request.capability = "write" -> [files EXCEPT ![path] = Stored(request.arguments)]
       [] request.capability = "mkdir" -> [files EXCEPT ![path] = "dir"]
       [] request.capability = "rename" -> [files EXCEPT ![path] = Missing, ![second] = files[path]]
       [] request.capability = "remove" -> [files EXCEPT ![path] = Missing]
       [] OTHER -> files

\* A request is performed, or refused for a reason of the host's own.
Performed(request, before, answer, after) ==
  \/ /\ answer = Answer(request, before)
     /\ after = IF answer.ok THEN Effect(request, before) ELSE before
  \/ answer = Fails("EIO") /\ after = before

-----------------------------------------------------------------------------

NoAnswer == [ok |-> "unknown"]
NoCall == [outcome |-> Refused]

\* The contents are symmetric: one of them stands for what is there first.
\* The other paths are missing.
FsInit ==
  /\ \E entry \in {"dir", CHOOSE content \in Contents : TRUE} :
       disk = [path \in Paths |-> IF path = FirstFile THEN entry ELSE Missing]
  /\ waiting = <<>>
  /\ told = NoCall
  /\ calls = 0

\* What an application may pass as the second argument
Seconds(operation) ==
  CASE operation = "readFile" -> {Missing, "utf8", "latin1"}
    [] operation = "writeFile" ->
         [kind : {"text", "buffer"}, content : Contents] \union {InForm("number", Missing)}
    [] operation \in {"readdir", "stat"} -> {Missing, "options"}
    [] operation = "mkdir" -> {Missing, "recursive", "text"}
    [] operation = "access" -> {Missing, "R_OK"}
    [] operation = "rename" -> {Missing} \union Paths
    [] OTHER -> {Missing}

\* A call with the files its request met, those it left and how it ended
Told(operation, form, a, before, after, outcome) ==
  [operation |-> operation, form |-> form, args |-> a,
   before |-> before, after |-> after, outcome |-> outcome]

\* A call of the application; a synchronous one reads its answer before it
\* returns (sync_request).
FsCall(operation, form, a) ==
  LET request == CallApi(operation, form, a)
  IN /\ calls < MaxCalls
     /\ form = "promise" => InPromises(operation)
     /\ \/ /\ request = Refused
           /\ told' = NoCall
           /\ UNCHANGED <<disk, waiting, calls>>
        \/ /\ request # Refused /\ form = "sync"
           /\ calls' = calls + 1
           /\ \E answer \in {Answer(request, disk), Fails("EIO")} :
                /\ Performed(request, disk, answer, disk')
                /\ told' = Told(operation, form, a, disk, disk', Resume(request, answer))
           /\ UNCHANGED waiting
        \/ /\ request # Refused /\ form # "sync"
           /\ calls' = calls + 1
           /\ waiting' = Append(waiting, [request |-> request, args |-> a,
                                          answer |-> NoAnswer])
           /\ told' = NoCall
           /\ UNCHANGED disk

\* The host performs a request that waits.
FsPerform(i) ==
  LET w == waiting[i]
  IN /\ w.answer = NoAnswer
     /\ \E answer \in {Answer(w.request, disk), Fails("EIO")} :
          /\ Performed(w.request, disk, answer, disk')
          /\ waiting' = [waiting EXCEPT ![i] =
                           [request |-> w.request, args |-> w.args, answer |-> answer,
                            before |-> disk, after |-> disk']]
     /\ told' = NoCall
     /\ UNCHANGED calls

\* resume: an answer reaches the module.
FsResume(i) ==
  LET w == waiting[i]
  IN /\ w.answer # NoAnswer
     /\ told' = Told(w.request.operation, w.request.form, w.args, w.before, w.after,
                     Resume(w.request, w.answer))
     /\ waiting' = SubSeq(waiting, 1, i - 1) \o SubSeq(waiting, i + 1, Len(waiting))
     /\ UNCHANGED <<disk, calls>>

\* What an application may pass as the third argument, and whether it passes a
\* callback, where that makes a difference
Thirds(operation) == IF operation = "writeFile" THEN {Missing, "latin1"} ELSE {Missing}
Callbacks(form) == IF form = "callback" THEN BOOLEAN ELSE {FALSE}

FsNext ==
  \/ \E operation \in Operations, form \in Forms, path \in Paths \union {Missing} :
       \E second \in Seconds(operation), third \in Thirds(operation),
          callback \in Callbacks(form) :
         FsCall(operation, form,
                [path |-> path, second |-> second, third |-> third, callback |-> callback])
  \/ \E i \in DOMAIN waiting : FsPerform(i) \/ FsResume(i)

FsSpec == FsInit /\ [][FsNext]_fsVars

-----------------------------------------------------------------------------

\* What an application reads from an outcome: an error or a value
Understood(t) ==
  LET values == t.outcome.values
  IN IF t.outcome.way = "throw" THEN [error |-> values[1]]
     ELSE IF t.outcome.way = "return" \/ t.operation = "exists" THEN [value |-> values[1]]
     ELSE IF values[1] # Null THEN [error |-> values[1]]
     ELSE [value |-> IF Len(values) = 1 THEN Undefined ELSE values[2]]

\* Reference: the errors and values of the operations on the files they meet,
\* whatever their form; an operation that has no value gives Undefined.
ErrorOf(operation, a, entry) ==
  CASE operation = "mkdir" ->
         IF entry = Missing \/ (entry = "dir" /\ a.second = "recursive") THEN Missing ELSE "EEXIST"
    [] operation = "writeFile" -> IF entry = "dir" THEN "EISDIR" ELSE Missing
    [] operation = "exists" -> Missing
    [] OTHER ->
         IF entry = Missing THEN "ENOENT"
         ELSE IF operation = "readFile" /\ entry = "dir" THEN "EISDIR"
         ELSE IF operation = "readdir" /\ entry # "dir" THEN "ENOTDIR"
         ELSE Missing

ValueOf(operation, a, entry) ==
  CASE operation = "readFile" ->
         InForm(IF a.second = "utf8" THEN "text" ELSE "buffer", entry)
    [] operation = "readdir" -> <<>>
    [] operation = "stat" ->
         [size |-> IF entry = "dir" THEN 0 ELSE 1,
          isFile |-> entry # "dir", isDirectory |-> entry = "dir"]
    [] operation = "exists" -> entry # Missing
    [] OTHER -> Undefined

FilesAfter(operation, a, files) ==
  CASE operation = "writeFile" -> [files EXCEPT ![a.path] = a.second.content]
    [] operation = "mkdir" -> [files EXCEPT ![a.path] = "dir"]
    [] operation = "rename" -> [files EXCEPT ![a.path] = Missing, ![a.second] = files[a.path]]
    [] operation = "unlink" -> [files EXCEPT ![a.path] = Missing]
    [] OTHER -> files

Failure(t, code) ==
  /\ Understood(t) = [error |-> [code |-> code, syscall |-> t.operation,
                                 path |-> t.args.path]]
  /\ t.after = t.before

\* The three forms are one file system: what a call tells is what its
\* operation found, in the form that was asked for, and an error names the
\* call's own path.  A refusal of the host is told as an error, by exists as
\* absence.
OneFileSystem ==
  told = NoCall \/
    LET entry == told.before[told.args.path]
        code == ErrorOf(told.operation, told.args, entry)
    IN \/ code # Missing /\ Failure(told, code)
       \/ /\ code = Missing
          /\ Understood(told) = [value |-> ValueOf(told.operation, told.args, entry)]
          /\ told.after = FilesAfter(told.operation, told.args, told.before)
       \/ told.operation # "exists" /\ Failure(told, "EIO")
       \/ told.operation = "exists" /\ Understood(told) = [value |-> FALSE]
=============================================================================
