----------------------------- MODULE NodeBuffer -----------------------------
(***************************************************************************)
(* node:buffer, modules/node-buffer/src/lib.rs: bytes and text, and the    *)
(* decoder of UTF-8 that input.rs feeds one network chunk at a time.       *)
(*                                                                         *)
(* For UTF-8 a byte is one of its classes: "A" ASCII, "L2", "L3" and "L4"  *)
(* the first byte of a character of that many bytes, "C" a continuation,   *)
(* "X" a byte no character has.  (That some first bytes narrow the range   *)
(* of the second is left out.)  Elsewhere a byte is a number below 256.    *)
(***************************************************************************)
EXTENDS Integers, Text
LOCAL INSTANCE SequencesExt

Unknown == <<"U+FFFD">>

\* How many bytes the character starting with byte b has; 0: none starts so
Width(b) ==
  CASE b = "A" -> 1 [] b = "L2" -> 2 [] b = "L3" -> 3 [] b = "L4" -> 4
    [] b \in {"C", "X"} -> 0

\* The position of the byte after what from_utf8 takes together at p: a
\* character, or the part of one that is there (at least one byte).
AfterSubpart(bytes, p) ==
  LET Continues(q) ==
        /\ q < p + Width(bytes[p])
        /\ \A i \in p + 1 .. q : bytes[i] = "C"
  IN 1 + Greatest({p} \union {q \in p .. Len(bytes) : Continues(q)})

\* Mutant: the end of a chunk ends its last character.
NeverUnfinished(bytes, p) == FALSE

\* Err(e) with error_len() None: more bytes may complete the character at p.
Unfinished(bytes, p) ==
  /\ AfterSubpart(bytes, p) > Len(bytes)
  /\ Len(bytes) - p + 1 < Width(bytes[p])

\* decode_utf8: the characters of the pending bytes and the chunk, and the
\* bytes that stay pending; the last chunk leaves none.
DecodeUtf8(pending, chunk, last) ==
  LET bytes == pending \o chunk
      Prepend(c, rest) == [rest EXCEPT !.text = <<c>> \o @]
      decoded[p \in 1 .. Len(bytes) + 1] ==
        IF p > Len(bytes) THEN [text |-> <<>>, pending |-> <<>>]
        ELSE LET q == AfterSubpart(bytes, p)
             IN IF Unfinished(bytes, p)
                THEN IF last THEN [text |-> <<Unknown>>, pending |-> <<>>]
                     ELSE [text |-> <<>>, pending |-> From(bytes, p)]
                ELSE IF q - p = Width(bytes[p])
                THEN Prepend(SubSeq(bytes, p, q - 1), decoded[q])
                ELSE Prepend(Unknown, decoded[q])
  IN decoded[1]

\* A chunk after the text and the pending bytes of those before it
DecodeNext(acc, chunk) ==
  LET more == DecodeUtf8(acc.pending, chunk, FALSE)
  IN [text |-> acc.text \o more.text, pending |-> more.pending]

\* take and finish of input.rs: every chunk as it comes, then no bytes more.
DecodeStream(chunks) ==
  LET read == FoldLeft(DecodeNext, [text |-> <<>>, pending |-> <<>>], chunks)
  IN read.text \o (IF read.pending = <<>> THEN <<>>
                   ELSE DecodeUtf8(read.pending, <<>>, TRUE).text)

\* A buffered body: the slice after which nothing follows is the last chunk.
DecodeSlices(chunks) ==
  LET read == FoldLeft(DecodeNext, [text |-> <<>>, pending |-> <<>>],
                       Front(chunks))
  IN read.text \o DecodeUtf8(read.pending, Last(chunks), TRUE).text

\* decode of a whole buffer
DecodeWhole(bytes) == DecodeUtf8(<<>>, bytes, TRUE).text

-----------------------------------------------------------------------------

\* encode of "hex": only complete pairs of digits are bytes.
HexIsValid(digits) ==
  Len(digits) % 2 = 0 /\ \A i \in DOMAIN digits : digits[i] \in 0 .. 15
HexEncode(digits) ==
  [i \in 1 .. Len(digits) \div 2 |-> 16 * digits[2 * i - 1] + digits[2 * i]]

\* decode to "hex"
HexDecode(bytes) ==
  FlattenSeq([i \in DOMAIN bytes |-> <<bytes[i] \div 16, bytes[i] % 16>>])

\* "latin1" and "ascii" take the low byte of a code unit; ascii reads 7 bits.
LowBytes(units) == [i \in DOMAIN units |-> units[i] % 256]
Ascii(bytes) == [i \in DOMAIN bytes |-> bytes[i] % 128]

\* alloc: the fill is repeated; an empty fill leaves zeros.
Alloc(length, fill) ==
  [i \in 1 .. length |->
     IF fill = <<>> THEN 0 ELSE fill[((i - 1) % Len(fill)) + 1]]

\* concat: with a length, the bytes are cut or zeros are added.
Concat(buffers) == FlattenSeq(buffers)
ConcatTo(buffers, length) ==
  LET bytes == Concat(buffers)
  IN [i \in 1 .. length |-> IF i <= Len(bytes) THEN bytes[i] ELSE 0]

\* toString from start to end, both clamped; an end before start is start.
Slice(bytes, start, end) ==
  LET Clamped(n) == IF n > Len(bytes) THEN Len(bytes) ELSE n
  IN SubSeq(bytes, Clamped(start) + 1, Clamped(end))

-----------------------------------------------------------------------------

\* However the network cuts a body into chunks (the parts of a sequence that
\* are separated by "|"), the text is that of the whole body, streamed or
\* buffered.
ChunksDecodeAlike(cut) ==
  LET chunks == Split(cut, "|")
      whole == DecodeWhole(FlattenSeq(chunks))
  IN DecodeStream(chunks) = whole /\ DecodeSlices(chunks) = whole

\* Units are written and read back: hexadecimal digits exactly, bytes through
\* every cut, fill and concatenation.
BytesSurvive(units) ==
  LET bytes == LowBytes(units)
  IN /\ HexIsValid(units) => HexDecode(HexEncode(units)) = units
     /\ HexIsValid(HexDecode(bytes)) /\ HexEncode(HexDecode(bytes)) = bytes
     /\ \A n \in 0 .. Len(bytes) + 2 :
          LET cut == <<Slice(bytes, 0, n), Slice(bytes, n, Len(bytes) + 1)>>
          IN /\ Concat(cut) = bytes
             /\ ConcatTo(cut, n) = Slice(bytes, 0, n)
                                     \o Alloc(n - Len(Slice(bytes, 0, n)), <<>>)
             /\ Alloc(n, bytes) =
                  ConcatTo([i \in 1 .. n |-> bytes], n)
=============================================================================
