------------------------------ MODULE MCAovRecData ------------------------------
(* Instances of AovRecData for TLC. *)
EXTENDS AovRecData

\* Packets of one, two and three bytes, with an STX in the length and in the
\* payload where the search for the start of a packet could mistake it.
Short == <<2, 0, 1, 3>>
TwoBytes == <<2, 0, 2, 2, 3>>
ThreeBytes == <<2, 0, 3, 2, 0, 3>>
AFewPackets == {Short, TwoBytes, ThreeBytes}
=============================================================================
