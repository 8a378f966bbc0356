------------------------------- MODULE MCClient --------------------------------
(* Instances of Client and of the codec for TLC: the inputs of the codec. *)
EXTENDS Client

\* Nothing, frequencies of the receiver and of its edge, one whose bytes look
\* like an end, one whose product is no integer, one below the unit, a negative
\* one, and 1e-7 and 1e21 MHz.
Frequencies ==
  {Number(0), Number(12500000), Number(1), Number(50331648 + 3), Number(-50000),
   [f |-> 12501100, exact |-> FALSE, scale |-> 0], [f |-> 0, exact |-> FALSE, scale |-> 0],
   [f |-> 10000, exact |-> TRUE, scale |-> -7], [f |-> 10000, exact |-> TRUE, scale |-> 21]}

\* Every name, names without unit, in another unit, of nothing, and none.
Bandwidths ==
  {enumRBW[i] : i \in 1..8}
    \cup {Rbw(0, ""), Rbw(3, ""), Rbw(200, ""), Rbw(1000, "K"), Rbw(3, "G"), Rbw(0, "K")}

\* Arguments inside and outside every range.
SomeArgs ==
  [cf : Frequencies, sp : Frequencies, rl : {-50, -1, 0, 1, 3, 70, 255, 256}, rbw : Bandwidths,
   rfinput : {-1, 0, 3, 10, 256}]

\* Bodies all of one byte, of every length a response has.
SomeBodies ==
  {[i \in 1..n |-> fill] : n \in (0..5) \cup {43, 83, 339}, fill \in {0, ETX, STX}}

\* The end of the stream, another packet, and bytes like the end.
SomeBehind == {<< >>, makeHardwareInfo, <<ETX, ETX, ETX>>}
=============================================================================
