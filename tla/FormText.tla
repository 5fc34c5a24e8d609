------------------------------ MODULE FormText ------------------------------
(***************************************************************************)
(* The four readers of name=value text: node:querystring                   *)
(* (modules/node-querystring/src/lib.rs), the query of an Express request  *)
(* (query_object), express.urlencoded (modules/express/src/form.rs) and    *)
(* URLSearchParams (modules/node-url/src/lib.rs).                          *)
(*                                                                         *)
(* Text is a sequence of symbols.  The DOMAIN of Escapes are the escapes   *)
(* of characters that mean something, "%FF" is an escape that is not       *)
(* UTF-8, "%" an incomplete escape, and "__proto__" that name.  A parsed   *)
(* object is a function from its names to the values of each in order; one *)
(* value is a string in the code, several are an array.                    *)
(***************************************************************************)
EXTENDS Text
LOCAL INSTANCE SequencesExt

Malformed == <<"malformed">>  \* Err(()) of percent_decode
Replacement == "U+FFFD"

Escapes == [e \in {"%26", "%3D", "%2B", "%20", "%25", "%23", "%3F"} |->
  CASE e = "%26" -> "&" [] e = "%3D" -> "=" [] e = "%2B" -> "+"
    [] e = "%20" -> " " [] e = "%25" -> "%" [] e = "%23" -> "#"
    [] e = "%3F" -> "?"]

Unescape(x) == IF x \in DOMAIN Escapes THEN Escapes[x] ELSE x

-----------------------------------------------------------------------------
\* Components

\* decode of node:querystring: incomplete escapes stay, bytes that are not
\* UTF-8 are replaced.
DecodeLossy(s) ==
  MapSeq(Replace(s, "+", " "),
         LAMBDA x : IF x = "%FF" THEN Replacement ELSE Unescape(x))

\* percent_decode of express: both are errors.
PercentDecode(s, plus) ==
  LET text == IF plus THEN Replace(s, "+", " ") ELSE s
  IN IF \E i \in DOMAIN text : text[i] \in {"%", "%FF"} THEN Malformed
     ELSE MapSeq(text, Unescape)

\* decode of express.urlencoded: a component with either is kept as it is.
DecodeKeeping(s) ==
  LET text == Replace(s, "+", " ")
      decoded == PercentDecode(text, FALSE)
  IN IF decoded = Malformed THEN text ELSE decoded

\* Mutant: a plus sign is left as it is, and is read as a space.
EscapeOfForgetful(x) ==
  LET escapes == {e \in DOMAIN Escapes : Escapes[e] = x}
  IN IF escapes = {} \/ x = "+" THEN x ELSE CHOOSE e \in escapes : TRUE

\* The escape of a character that means something; any other is its own (a
\* replacement character stands for its three escaped bytes, which are read
\* as one character again).
EscapeOf(x) ==
  LET escapes == {e \in DOMAIN Escapes : Escapes[e] = x}
  IN IF escapes = {} THEN x ELSE CHOOSE e \in escapes : TRUE

\* encode of node:querystring
Encode(s) == MapSeq(s, EscapeOf)

\* The form serializer of URLSearchParams writes a space as a plus sign.
EncodeForm(s) == MapSeq(s, LAMBDA x : IF x = " " THEN "+" ELSE EscapeOf(x))

-----------------------------------------------------------------------------
\* Fields

\* split_once of a part at "=": the raw name and the raw value
Field(part) == [name |-> Before(part, "="), value |-> After(part, "=")]

Fields(parts) == MapSeq(parts, Field)

NoFields == [name \in {} |-> <<>>]

\* Undefined, String and Array of a field met before: set, or append to what
\* is there.
Put(object, field) ==
  [name \in DOMAIN object \union {field.name} |->
     IF name # field.name THEN object[name]
     ELSE IF name \in DOMAIN object THEN Append(object[name], field.value)
     ELSE <<field.value>>]

Collected(fields) == FoldLeft(Put, NoFields, fields)

DecodedWith(Decode(_), fields) ==
  MapSeq(fields, LAMBDA f : [name |-> Decode(f.name), value |-> Decode(f.value)])

\* parse stops after max parts, empty ones included; 0 is no limit.
FirstParts(parts, max) ==
  NonEmpty(IF max = 0 \/ max >= Len(parts) THEN parts
           ELSE SubSeq(parts, 1, max))

\* parse of node:querystring
QuerystringParse(s, max) ==
  Collected(DecodedWith(DecodeLossy, Fields(FirstParts(Split(s, "&"), max))))

\* pairs of URLSearchParams (form_urlencoded::parse)
SearchPairs(s) ==
  DecodedWith(DecodeLossy, Fields(NonEmpty(Split(s, "&"))))

\* query_object of express: no text is no field; otherwise an empty part is a
\* field with an empty name.
QueryFields(s) ==
  LET Decode(x) == PercentDecode(x, TRUE)
  IN IF s = <<>> THEN <<>> ELSE DecodedWith(Decode, Fields(Split(s, "&")))

\* A malformed escape or the name __proto__ is an error of the request (so are
\* prototype and constructor, which the other readers do not know).
QueryRefused(s) ==
  \E i \in DOMAIN QueryFields(s) :
    LET field == QueryFields(s)[i]
    IN Malformed \in {field.name, field.value} \/ field.name = <<"__proto__">>

QueryObject(s) == Collected(QueryFields(s))

\* More parts than max, empty ones included: the body is answered with 413.
FormRefused(s, max) == s # <<>> /\ Len(Split(s, "&")) > max

\* parse_body of express.urlencoded, of a body it does not refuse
FormBody(s) ==
  LET fields == DecodedWith(DecodeKeeping, Fields(NonEmpty(Split(s, "&"))))
  IN Collected(SelectSeq(fields, LAMBDA f : f.name # <<"__proto__">>))

-----------------------------------------------------------------------------

\* The fields of a name with its values, as stringify writes them
FieldsOf(name, values) ==
  MapSeq(values, LAMBDA v : Append(Encode(name), "=") \o Encode(v))

\* stringify of node:querystring, the names in some order
Stringify(object) ==
  LET names == SetToSeq(DOMAIN object)
      fields == MapSeq(names, LAMBDA n : FieldsOf(n, object[n]))
  IN JoinWith(FlattenSeq(fields), "&")

\* serialize of URLSearchParams
Serialize(pairs) ==
  JoinWith(MapSeq(pairs, LAMBDA p : Append(EncodeForm(p.name), "=")
                                      \o EncodeForm(p.value)), "&")

-----------------------------------------------------------------------------

Without(object, name) == [n \in DOMAIN object \ {name} |-> object[n]]

Valid(s) == \A i \in DOMAIN s : s[i] \notin {"%", "%FF"}

\* On text without malformed escapes the four readers find the same names
\* and values, except that urlencoded leaves __proto__ out, an Express query
\* refuses it, and an Express query reads every empty part as a field.  A body
\* that urlencoded does not refuse for a limit loses no field to the same limit
\* of querystring: both count empty parts.
ReadersAgree(s) ==
  Valid(s) =>
    LET parsed == QuerystringParse(s, 0)
        body == FormBody(s)
    IN /\ Collected(SearchPairs(s)) = parsed
       /\ body = Without(parsed, <<"__proto__">>)
       /\ QueryRefused(s) = (<<"__proto__">> \in DOMAIN parsed)
       /\ \A max \in 1 .. Len(s) :
            FormRefused(s, max) \/ QuerystringParse(s, max) = parsed
       /\ ~QueryRefused(s) =>
            Without(QueryObject(s), <<>>) = Without(body, <<>>)

\* Whatever was read, written and read again, is the same: by querystring and
\* by URLSearchParams.
WritersRoundTrip(s) ==
  /\ QuerystringParse(Stringify(QuerystringParse(s, 0)), 0)
       = QuerystringParse(s, 0)
  /\ SearchPairs(Serialize(SearchPairs(s))) = SearchPairs(s)
=============================================================================
