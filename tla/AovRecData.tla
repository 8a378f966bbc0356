------------------------------- MODULE AovRecData -------------------------------
(***************************************************************************)
(* AOV_recData (api/aovspecan.c): a packet is read from the TCP stream one *)
(* byte at a time.  A packet is STX, two length bytes, and that many bytes *)
(* of which the last is ETX.                                               *)
(*                                                                         *)
(* The stream is what is left of the packets the analyzer has sent: the    *)
(* packets in queue, of whose first one off bytes have been read already.  *)
(* The receiver sees the next byte only, never a boundary.                 *)
(***************************************************************************)
EXTENDS Integers, Sequences

CONSTANTS
  Packet,    \* the packets the analyzer sends
  Junk,      \* the values the uninitialised onedata may have
  DataSize,  \* the size of the caller's array: sa_rx has 1024 bytes
  MaxPackets \* bound on the packets sent (model checking only)

STX == 2
Byte == 0..255

\* A packet as the protocol defines it; ETX counts, so no length is zero.
PacketLength(d) == 256 * d[2] + d[3]
IsPacket(p) == p \in Seq(Byte) /\ Len(p) > 3 /\ p[1] = STX /\ Len(p) - 3 = PacketLength(p)

ASSUME PacketAssumption == \A p \in Packet : IsPacket(p)
\* The analyzer's packets fit the array (the longest, a 12-bit trace, has 498
\* bytes); the code does not test it.
ASSUME DataSizeAssumption == DataSize \in Nat /\ \A p \in Packet : Len(p) <= DataSize
ASSUME JunkAssumption == Junk \subseteq Byte
ASSUME MaxPacketsAssumption == MaxPackets \in Nat

VARIABLES
  queue,     \* the packets in the stream
  sent,      \* how many packets have been sent
  off,       \* how many bytes of the first of them are read
  closed,    \* the analyzer has closed the connection
  reading,   \* AOV_recData is running
  data,      \* the bytes the call has stored: data[0] to data[i-1]
  onedata,   \* the byte variable recv() writes to
  overrun,   \* a byte was stored past the end of the caller's array: undefined
             \* behaviour, after which the receiver is not followed any further
  ret,       \* history: the last call that returned, its code and its data
  failed     \* history: a receive has failed, or met the end of the stream

vars == <<queue, sent, off, closed, reading, data, onedata, overrun, ret, failed>>

Init ==
  /\ queue = << >>
  /\ sent = 0
  /\ off = 0
  /\ closed = FALSE
  /\ reading = FALSE
  /\ data = << >>
  /\ onedata \in Junk
  /\ overrun = FALSE
  /\ ret = [code |-> "NO_ERROR", data |-> << >>]
  /\ failed = FALSE

-----------------------------------------------------------------------------
(* The receiver *)

\* Mutant: the count of the length starts one byte late.
FullOneLate(d) == Len(d) > 3 /\ Len(d) - 4 >= PacketLength(d)

\* packetnotfull is 0: the length is looked at from the fourth byte on.
Full(d) == Len(d) > 3 /\ Len(d) - 3 >= PacketLength(d)

\* Mutant: every STX starts the packet anew.
StoredRestarting(d, b) == IF b = STX THEN <<b>> ELSE IF d = << >> THEN d ELSE Append(d, b)

\* Bytes before the first STX are dropped, all later ones are stored.
Stored(d, b) == IF d = << >> /\ b # STX THEN d ELSE Append(d, b)

\* The call starts with nothing stored; onedata is not initialised.
Call ==
  /\ ~reading
  /\ reading' = TRUE
  /\ data' = << >>
  /\ onedata' \in Junk
  /\ UNCHANGED <<queue, sent, off, closed, overrun, ret, failed>>

\* The next byte leaves the stream.
Advance ==
  IF off + 1 = Len(Head(queue))
  THEN queue' = Tail(queue) /\ off' = 0
  ELSE queue' = queue /\ off' = off + 1

\* The call returns, and its variable i is gone.
Return(code, d) ==
  /\ reading' = FALSE
  /\ data' = << >>
  /\ ret' = [code |-> code, data |-> d]

\* data[i++] = onedata has no bound on i.
Overrun(d) ==
  /\ Len(d) > DataSize
  /\ overrun' = TRUE
  /\ UNCHANGED <<reading, data, ret>>

\* recv() returns 1.
ReadByte ==
  /\ reading /\ ~overrun
  /\ queue # << >>
  /\ onedata' = Head(queue)[off + 1]
  /\ Advance
  /\ LET d == Stored(data, onedata')
     IN  \/ Overrun(d)
         \/ /\ Len(d) <= DataSize
            /\ IF Full(d) THEN Return("NO_ERROR", d) ELSE data' = d /\ UNCHANGED <<reading, ret>>
            /\ overrun' = overrun
  /\ UNCHANGED <<sent, closed, failed>>

\* Mutant: at the end of the stream the loop goes on.
ReadEndGoesOn ==
  /\ reading /\ ~overrun
  /\ queue = << >> /\ closed
  /\ failed' = TRUE
  /\ UNCHANGED <<queue, sent, off, closed, reading, data, onedata, overrun, ret>>

\* recv() returns 0: the byte of the read before is stored once more, and the
\* call returns without an error.
ReadEnd ==
  /\ reading /\ ~overrun
  /\ queue = << >>
  /\ closed
  /\ LET d == Stored(data, onedata)
     IN  \/ Overrun(d)
         \/ Len(d) <= DataSize /\ Return("NO_ERROR", d) /\ overrun' = overrun
  /\ failed' = TRUE
  /\ UNCHANGED <<queue, sent, off, closed, onedata>>

\* recv() returns -1: the timeout, wherever in the packet, or a reset.
ReadFails ==
  /\ reading /\ ~overrun
  /\ Return("WSA_ERROR", << >>)
  /\ failed' = TRUE
  /\ UNCHANGED <<queue, sent, off, closed, onedata, overrun>>

-----------------------------------------------------------------------------
(* The analyzer *)

Send(p) ==
  /\ ~closed
  /\ sent < MaxPackets
  /\ sent' = sent + 1
  /\ queue' = Append(queue, p)
  /\ UNCHANGED <<off, closed, reading, data, onedata, overrun, ret, failed>>

\* It closes the connection with everything sent, or in the middle of it.
Close ==
  /\ ~closed
  /\ closed' = TRUE
  /\ \/ UNCHANGED <<queue, off, failed>>
     \/ queue' = << >> /\ off' = 0 /\ failed' = TRUE
  /\ UNCHANGED <<sent, reading, data, onedata, overrun, ret>>

Next ==
  \/ Call
  \/ ReadByte
  \/ ReadEnd
  \/ ReadFails
  \/ \E p \in Packet : Send(p)
  \/ Close

Spec == Init /\ [][Next]_vars /\ WF_vars(ReadByte \/ ReadEnd)

-----------------------------------------------------------------------------
(* Properties *)

\* Types.  A call that goes on has not stored a whole packet, so it never waits
\* for a byte it does not need; what it has stored, and what it gives its caller,
\* lies within the caller's array; and between calls nothing is kept.
TypeOK ==
  /\ queue \in Seq(Packet)
  /\ off \in Nat /\ sent \in Nat
  /\ queue = << >> => off = 0
  /\ queue # << >> => off < Len(Head(queue))
  /\ data \in Seq(Byte) /\ Len(data) <= DataSize
  /\ reading => ~(Len(data) > 3 /\ Len(data) - 3 >= PacketLength(data))
  /\ ~reading => data = << >>
  /\ onedata \in Byte
  /\ reading \in BOOLEAN /\ closed \in BOOLEAN /\ failed \in BOOLEAN /\ overrun \in BOOLEAN
  /\ ret.code \in {"NO_ERROR", "WSA_ERROR"}
  /\ ret.data \in Seq(Byte) /\ Len(ret.data) <= DataSize

\* The receiver is in step with the stream until a receive fails: it has stored
\* exactly the bytes it has read of the packet it is in, whatever they are (an
\* STX among them), it stops exactly at the end of a packet, and it has never
\* stored a byte past the end of its caller's array.
Aligned ==
  ~failed =>
    /\ reading => data = IF off = 0 THEN << >> ELSE SubSeq(Head(queue), 1, off)
    /\ ~reading => off = 0
    /\ ~overrun

\* The receiver implements the channel the calls of the API rely on.
Channel == INSTANCE PacketChannel WITH
  pending <- queue,
  last <- IF ret.code = "NO_ERROR" THEN ret.data ELSE << >>,
  intact <- ~failed

ImplementsChannel == Channel!Spec

\* A call returns once there is a packet to read, if no receive has failed, and
\* in any case once the connection is closed, wherever in a packet it then is
\* (unless it has run over its caller's array, which leaves nothing to promise).
ReceiveReturns ==
  (reading /\ ((queue # << >> /\ ~failed) \/ closed)) ~> (~reading \/ overrun)
=============================================================================
