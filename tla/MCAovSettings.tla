----------------------------- MODULE MCAovSettings -----------------------------
(***************************************************************************)
(* The analyzers and arguments with which TLC checks AovSettings: an old   *)
(* firmware, and two of the new one whose offsets are the largest that     *)
(* leaves the range of an input a char, one that wraps its lower end and   *)
(* one that wraps both; each with two inputs of different ranges.  For     *)
(* each range check there is a value on either side of its limit.          *)
(***************************************************************************)
EXTENDS AovSettings

Board(isOld, lost) ==
  [old |-> isOld, fmin |-> 50000, fmax |-> 25000000, rbws |-> {"1MHz"}, inputs |-> 2,
   db70 |-> <<TRUE, FALSE>>, offset |-> lost]

Boards == {Board(TRUE, <<58, 20>>), Board(FALSE, <<58, 119>>), Board(FALSE, <<60, 20>>)}

Exactly(units) == [units |-> units, exact |-> TRUE, wide |-> FALSE]
Above(units) == [units |-> units, exact |-> FALSE, wide |-> FALSE]
TooLarge == [units |-> 0, exact |-> TRUE, wide |-> TRUE]

\* A hair below the lower limit, on it, a unit above the upper one, and one that
\* is too large, of which the conversion may leave any frequency.
Frequencies == {Above(49999), Exactly(50000), Exactly(25000001), TooLarge}

\* A span that is cut to the unit below, and one a hair above the limit.
Spans == {Above(12999999), Above(13000000)}

\* In the ranges of the new firmware, -128..-68 and -70..-30 or the wrapped one
\* 87..127, and of the old one, -70..-10 and -50..-10; and past the low byte of
\* an int.
Levels == {-128, -68, -10, 100, 188}
Inputs == 0..3
Powers == {NoLnb, LNBstruct(TRUE, FALSE, TRUE)}
EveryPower == {NoLnb} \cup {LNBstruct(en, v, k) : en, v, k \in BOOLEAN}
=============================================================================
