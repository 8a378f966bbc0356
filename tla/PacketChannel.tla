----------------------------- MODULE PacketChannel -----------------------------
(***************************************************************************)
(* What a call of the API needs of AOV_recData: packets come out whole,    *)
(* once and in the order the analyzer sent them, until a receive fails or  *)
(* the analyzer closes the connection.  From then on nothing is promised.  *)
(***************************************************************************)
EXTENDS Sequences

CONSTANT Packet

VARIABLES
  pending,  \* packets sent and not yet received
  last,     \* what the last successful receive returned
  intact    \* no receive has failed and the connection is not closed

vars == <<pending, last, intact>>

Init == pending = << >> /\ last = << >> /\ intact = TRUE

Send(p) ==
  /\ pending' = Append(pending, p)
  /\ UNCHANGED <<last, intact>>

Receive ==
  /\ intact
  /\ pending # << >>
  /\ last' = Head(pending)
  /\ pending' = Tail(pending)
  /\ UNCHANGED intact

Broken == intact' = FALSE

Next == (\E p \in Packet : Send(p)) \/ Receive \/ Broken

Spec == Init /\ [][Next]_vars
=============================================================================
