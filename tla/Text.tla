-------------------------------- MODULE Text --------------------------------
(***************************************************************************)
(* Text as sequences of symbols, and the operations of Rust's str that the *)
(* text modules are built from.  A symbol may stand for several bytes that *)
(* are only ever read together, as an escape does.                         *)
(***************************************************************************)
EXTENDS Naturals, Sequences
LOCAL INSTANCE SequencesExt

\* Op of the value of x, which TLC evaluates once however often Op uses it
Once(x, Op(_)) == CHOOSE y \in {Op(v) : v \in {x}} : TRUE

\* map and collect
MapSeq(s, Op(_)) == Once(s, LAMBDA v : [i \in DOMAIN v |-> Op(v[i])])

\* The positions of c, in order
Positions(s, c) == SelectSeq([i \in DOMAIN s |-> i], LAMBDA i : s[i] = c)

\* split: the pieces between occurrences of c, one more than there are
Split(s, c) ==
  LET Piece(v, ends, k) == SubSeq(v, ends[k] + 1, ends[k + 1] - 1)
      Pieces(v) == Once(<<0>> \o Positions(v, c) \o <<Len(v) + 1>>,
                        LAMBDA ends : [k \in 1 .. Len(ends) - 1 |-> Piece(v, ends, k)])
  IN Once(s, Pieces)

\* filter(|piece| !piece.is_empty())
NonEmpty(pieces) == SelectSeq(pieces, LAMBDA p : p # <<>>)

\* join
JoinWith(pieces, c) ==
  LET Joined(ps) == IF ps = <<>> THEN <<>>
                    ELSE Tail(FlattenSeq(MapSeq(ps, LAMBDA p : <<c>> \o p)))
  IN Once(pieces, Joined)

StartsWith(s, c) == s # <<>> /\ Head(s) = c
EndsWith(s, c) == s # <<>> /\ Last(s) = c

\* The positions of c, and the first and the last of them
At(s, c) == {i \in DOMAIN s : s[i] = c}
Least(I) == CHOOSE i \in I : \A j \in I : i <= j
Greatest(I) == CHOOSE i \in I : \A j \in I : j <= i

\* split_once; without an occurrence, the whole and nothing after it
Before(s, c) ==
  Once(s, LAMBDA v : IF c \in ToSet(v)
                     THEN SubSeq(v, 1, Head(Positions(v, c)) - 1) ELSE v)
After(s, c) ==
  Once(s, LAMBDA v : IF c \in ToSet(v)
                     THEN SubSeq(v, Head(Positions(v, c)) + 1, Len(v)) ELSE <<>>)

\* trim_end_matches, trim_start_matches and trim_matches
TrimEnd(s, c) ==
  LET kept == {i \in DOMAIN s : s[i] # c}
  IN IF kept = {} THEN <<>> ELSE SubSeq(s, 1, Greatest(kept))
TrimStart(s, c) ==
  LET kept == {i \in DOMAIN s : s[i] # c}
  IN IF kept = {} THEN <<>> ELSE SubSeq(s, Least(kept), Len(s))
Trim(s, c) == TrimStart(TrimEnd(s, c), c)

From(s, i) == SubSeq(s, i, Len(s))

\* replace of one symbol by another
Replace(s, a, b) == MapSeq(s, LAMBDA x : IF x = a THEN b ELSE x)
=============================================================================
