----------------------------- MODULE Durations ------------------------------
(***************************************************************************)
(* Quantities written as digits and a unit: the delays of tps-schedule     *)
(* (modules/schedule/src/lib.rs) and the limits of express.json            *)
(* (modules/express/src/lib.rs).  Both are read into machine words, and    *)
(* nothing may wrap around on the way.                                     *)
(***************************************************************************)
EXTENDS Integers, Sequences
LOCAL INSTANCE SequencesExt

CONSTANTS
  WordMax,  \* the largest machine word, u64::MAX and usize::MAX
  MaxDelay, \* MAX_DELAY_MS, 365 days
  Units     \* what one unit stands for: 1 for ms and b, 1000 for s, ...

ASSUME DurationsAssumption ==
  /\ WordMax \in Nat
  /\ MaxDelay \in 1 .. WordMax
  /\ Units \subseteq 1 .. WordMax

\* None of an Option
None == -1

\* checked_mul, after ok()? of a number that does not parse
CheckedMul(a, b) == IF a = None \/ a * b > WordMax THEN None ELSE a * b

\* parse::<u64>() of decimal digits: an intermediate value that does not fit
\* is an error; so are no digits.
ParseWord(digits) ==
  LET Shift(n, d) ==
        IF n = None \/ 10 * n + d > WordMax THEN None ELSE 10 * n + d
  IN IF digits = <<>> THEN None ELSE FoldLeft(Shift, 0, digits)

WithinDelay(n) == IF n \in 1 .. MaxDelay THEN n ELSE None

\* parse_duration_text
ParseDurationText(digits, unit) ==
  WithinDelay(CheckedMul(ParseWord(digits), unit))

\* parse_duration of a number
ParseDurationNumber(n) == WithinDelay(n)

\* parse_json_limit
ParseJsonLimit(digits, unit) ==
  LET number == ParseWord(digits)
  IN IF number = 0 THEN None ELSE CheckedMul(number, unit)

-----------------------------------------------------------------------------

\* Reference: the number that digits stand for, in decimal
Value(digits) ==
  FoldLeft(+, 0, [i \in DOMAIN digits |-> digits[i] * 10^(Len(digits) - i)])

\* A duration is accepted exactly when its true length is at least 1 ms and
\* at most the largest delay, a limit when it is positive and fits a word;
\* an accepted one is its true value, as a number of milliseconds too.
QuantitiesExact(digits) ==
  \A unit \in Units :
    LET exact == Value(digits) * unit
    IN /\ digits # <<>> =>
            ParseDurationNumber(exact) = ParseDurationText(digits, unit)
       /\ ParseDurationText(digits, unit) =
            (IF digits # <<>> /\ exact \in 1 .. MaxDelay THEN exact ELSE None)
       /\ ParseJsonLimit(digits, unit) =
            (IF digits # <<>> /\ exact \in 1 .. WordMax THEN exact ELSE None)
=============================================================================
