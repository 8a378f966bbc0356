----------------------------- MODULE MCAovPrograms -----------------------------
(* An instance of AovPrograms for TLC. *)
EXTENDS AovPrograms, TLC

PrefixV4 == [ip \in Ip |-> ip]

\* The codes offered by default, one that makes sums carry, and 0, which the
\* sscanf of a code into an unsigned char may leave in the one beside it.
IdBytes == {90, 35, 255, 0}

\* Sixteen times '0', and a serial number of other characters.
Serials == {[i \in 1..16 |-> 48], [i \in 1..16 |-> 47 + i]}
=============================================================================
