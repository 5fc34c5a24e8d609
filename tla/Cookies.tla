------------------------------- MODULE Cookies ------------------------------
(***************************************************************************)
(* cookie-parser, modules/cookie-parser/src/lib.rs.  Text has the escapes  *)
(* of FormText, "quote" for a quotation mark and " " for white space; a    *)
(* value that is JSON (j:...) is left as it is.                            *)
(***************************************************************************)
EXTENDS FormText
LOCAL INSTANCE SequencesExt

\* decode: a value with a malformed escape is kept; a plus is a plus.
CookieDecode(value) ==
  IF PercentDecode(value, FALSE) = Malformed THEN value
  ELSE PercentDecode(value, FALSE)

\* strip_prefix and strip_suffix: both quotation marks or none
Unquoted(value) ==
  IF Len(value) >= 2 /\ StartsWith(value, "quote") /\ EndsWith(value, "quote")
  THEN Tail(Front(value)) ELSE value

\* The first cookie of a name counts; a part without "=" or a name is nothing.
PutCookie(cookies, part) ==
  LET name == Trim(Before(part, "="), " ")
      value == Unquoted(Trim(After(part, "="), " "))
  IN IF At(part, "=") = {} \/ name = <<>> \/ name \in DOMAIN cookies THEN cookies
     ELSE [n \in DOMAIN cookies \union {name} |->
             IF n = name THEN CookieDecode(value) ELSE cookies[n]]

\* parse_cookies
ParseCookies(header) == FoldLeft(PutCookie, NoFields, Split(header, ";"))

\* request.cookies
RequestCookies(header) == Without(ParseCookies(header), <<"__proto__">>)

-----------------------------------------------------------------------------

\* A header in two parts has the cookies of both, those of the first before
\* those of the second; white space around it means nothing; and what stands
\* in quotation marks is the value, white space included.
CookiesAgree(s) ==
  /\ \A i \in At(s, ";") :
       LET first == RequestCookies(SubSeq(s, 1, i - 1))
           second == RequestCookies(From(s, i + 1))
       IN RequestCookies(s) =
            [n \in DOMAIN first \union DOMAIN second |->
               IF n \in DOMAIN first THEN first[n] ELSE second[n]]
  /\ RequestCookies(<<" ">> \o Append(s, " ")) = RequestCookies(s)
  /\ At(s, ";") = {} =>
       RequestCookies(<<"k", "=", "quote">> \o Append(s, "quote"))
         = [n \in {<<"k">>} |-> CookieDecode(s)]
=============================================================================
