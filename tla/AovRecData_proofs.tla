--------------------------- MODULE AovRecData_proofs ---------------------------
(***************************************************************************)
(* Proofs about AOV_recData, for any set of well-formed packets of any     *)
(* contents that fit the caller's array: it stays in step with the stream  *)
(* and within the array while no receive fails, and so implements a        *)
(* channel of whole packets in order.                                      *)
(***************************************************************************)
EXTENDS AovRecData, SequenceTheorems, TLAPS

Inv == TypeOK /\ Aligned

\* What is stored of packet p once k bytes of it are read.
Prefix(p, k) == IF k = 0 THEN << >> ELSE SubSeq(p, 1, k)

LEMMA PacketFacts ==
  ASSUME NEW p \in Packet
  PROVE  /\ p \in Seq(Byte)
         /\ Len(p) \in Nat /\ Len(p) > 3
         /\ p[1] = STX
         /\ Len(p) - 3 = 256 * p[2] + p[3]
         /\ p[2] \in Byte /\ p[3] \in Byte
         /\ Len(p) <= DataSize
<1>1. p \in Seq(Byte) /\ Len(p) > 3 /\ p[1] = STX /\ Len(p) - 3 = 256 * p[2] + p[3]
  BY PacketAssumption DEF IsPacket, PacketLength
<1>2. Len(p) \in Nat /\ 2 \in 1..Len(p) /\ 3 \in 1..Len(p)
  BY <1>1
<1>3. Len(p) <= DataSize
  BY DataSizeAssumption
<1> QED BY <1>1, <1>2, <1>3

\* The next byte of a packet is always stored, an STX or not.
LEMMA StoredPrefix ==
  ASSUME NEW p \in Packet, NEW k \in Nat, k < Len(p)
  PROVE  Stored(Prefix(p, k), p[k + 1]) = Prefix(p, k + 1)
<1>1. p \in Seq(Byte) /\ Len(p) \in Nat /\ p[1] = STX
  BY PacketFacts
<1>2. CASE k = 0
  <2>1. Stored(Prefix(p, k), p[k + 1]) = Append(<< >>, p[1])
    BY <1>1, <1>2 DEF Stored, Prefix
  <2>2. Prefix(p, k + 1) = SubSeq(p, 1, 1)
    BY <1>2 DEF Prefix
  <2>3. SubSeq(p, 1, 1) = Append(<< >>, p[1])
    <3>1. p[1] \in Byte /\ 1 <= Len(p)
      BY <1>1, <1>2
    <3>2. SubSeq(p, 1, 1) \in Seq(Byte) /\ Len(SubSeq(p, 1, 1)) = 1 /\ SubSeq(p, 1, 1)[1] = p[1]
      BY <1>1, <3>1
    <3>3. Append(<< >>, p[1]) \in Seq(Byte) /\ Len(Append(<< >>, p[1])) = 1
          /\ Append(<< >>, p[1])[1] = p[1]
      BY <3>1
    <3>4. ASSUME NEW i \in 1..Len(SubSeq(p, 1, 1))
          PROVE  SubSeq(p, 1, 1)[i] = Append(<< >>, p[1])[i]
      <4>1. i = 1
        BY <3>2
      <4> QED BY <4>1, <3>2, <3>3
    <3> QED BY <3>2, <3>3, <3>4, SeqEqual
  <2> QED BY <2>1, <2>2, <2>3
<1>3. CASE k # 0
  <2>1. Prefix(p, k) = SubSeq(p, 1, k) /\ Prefix(p, k + 1) = SubSeq(p, 1, k + 1)
    BY <1>3 DEF Prefix
  <2>2. Len(SubSeq(p, 1, k)) = k
    BY <1>1
  <2>3. SubSeq(p, 1, k) # << >>
    BY <1>1, <1>3, <2>2
  <2>4. Append(SubSeq(p, 1, k), p[k + 1]) = SubSeq(p, 1, k + 1)
    BY <1>1, <1>3
  <2> QED BY <2>1, <2>3, <2>4 DEF Stored
<1> QED BY <1>2, <1>3

\* The loop is left exactly at the end of the packet.
LEMMA FullAtEnd ==
  ASSUME NEW p \in Packet, NEW k \in 1..Len(p)
  PROVE  Full(Prefix(p, k)) <=> k = Len(p)
<1>1. /\ p \in Seq(Byte) /\ Len(p) \in Nat /\ Len(p) > 3
      /\ Len(p) - 3 = 256 * p[2] + p[3]
  BY PacketFacts
<1>2. Prefix(p, k) = SubSeq(p, 1, k) /\ k \in Nat
  BY <1>1 DEF Prefix
<1>3. Len(SubSeq(p, 1, k)) = k
  BY <1>1
<1>4. CASE k <= 3
  BY <1>1, <1>2, <1>3, <1>4 DEF Full
<1>5. CASE k > 3
  <2>1. SubSeq(p, 1, k)[2] = p[2] /\ SubSeq(p, 1, k)[3] = p[3]
    BY <1>1, <1>5
  <2> QED BY <1>1, <1>2, <1>3, <1>5, <2>1 DEF Full, PacketLength
<1> QED BY <1>2, <1>4, <1>5

LEMMA WholePrefix ==
  ASSUME NEW p \in Packet
  PROVE  Prefix(p, Len(p)) = p
<1>1. p \in Seq(Byte) /\ Len(p) \in Nat /\ Len(p) > 3
  BY PacketFacts
<1> QED BY <1>1 DEF Prefix

LEMMA StoredType ==
  ASSUME NEW d \in Seq(Byte), NEW b \in Byte
  PROVE  Stored(d, b) \in Seq(Byte)
BY DEF Stored

-----------------------------------------------------------------------------
(* Invariance *)

LEMMA InitInv == ASSUME Init PROVE Inv
<1>1. /\ queue = << >> /\ sent = 0 /\ off = 0 /\ data = << >> /\ onedata \in Byte
      /\ closed = FALSE /\ reading = FALSE /\ failed = FALSE /\ overrun = FALSE
      /\ ret.code = "NO_ERROR" /\ ret.data = << >>
  BY JunkAssumption DEF Init
<1>2. << >> \in Seq(Packet) /\ << >> \in Seq(Byte) /\ Len(<< >>) <= DataSize
  BY DataSizeAssumption
<1>3. TypeOK
  BY <1>1, <1>2 DEF TypeOK
<1> QED BY <1>1, <1>3 DEF Inv, Aligned

\* The bytes of the packet at the head of the stream.
LEMMA HeadByte ==
  ASSUME TypeOK, queue # << >>
  PROVE  /\ Head(queue) \in Packet
         /\ off < Len(Head(queue))
         /\ Head(queue)[off + 1] \in Byte
<1>1. Head(queue) \in Packet /\ off < Len(Head(queue)) /\ off \in Nat
  BY DEF TypeOK
<1>2. Head(queue) \in Seq(Byte)
  BY <1>1, PacketFacts
<1> QED BY <1>1, <1>2

\* What a step of the receiver does to data while no receive has failed: among
\* others, it stays within the caller's array.
LEMMA NextByteAligned ==
  ASSUME Inv, ~failed, reading, queue # << >>
  PROVE  /\ Stored(data, Head(queue)[off + 1]) = Prefix(Head(queue), off + 1)
         /\ Full(Prefix(Head(queue), off + 1)) <=> off + 1 = Len(Head(queue))
         /\ Len(Prefix(Head(queue), off + 1)) <= DataSize
<1>1. Head(queue) \in Packet /\ off < Len(Head(queue)) /\ off \in Nat
  BY HeadByte DEF Inv, TypeOK
<1>2. /\ Len(Head(queue)) \in Nat /\ Head(queue) \in Seq(Byte)
      /\ Len(Head(queue)) <= DataSize
  BY <1>1, PacketFacts
<1>3. data = Prefix(Head(queue), off)
  BY DEF Inv, Aligned, Prefix
<1>4. Stored(data, Head(queue)[off + 1]) = Prefix(Head(queue), off + 1)
  BY <1>1, <1>3, StoredPrefix
<1>5. off + 1 \in 1..Len(Head(queue))
  BY <1>1, <1>2
<1>6. Full(Prefix(Head(queue), off + 1)) <=> off + 1 = Len(Head(queue))
  BY <1>1, <1>5, FullAtEnd
<1>7. Len(Prefix(Head(queue), off + 1)) <= DataSize
  <2>1. Prefix(Head(queue), off + 1) = SubSeq(Head(queue), 1, off + 1)
    BY <1>1 DEF Prefix
  <2>2. Len(SubSeq(Head(queue), 1, off + 1)) = off + 1
    BY <1>1, <1>2
  <2> QED BY <1>1, <1>2, <2>1, <2>2, DataSizeAssumption
<1> QED BY <1>4, <1>6, <1>7

\* Reading a byte, in or out of step.
LEMMA ReadByteInv ==
  ASSUME Inv, ReadByte
  PROVE  Inv'
<1> DEFINE h == Head(queue)
           d == Stored(data, h[off + 1])
<1>1. /\ reading /\ queue # << >> /\ h \in Packet
      /\ off < Len(h) /\ off \in Nat /\ h[off + 1] \in Byte
  BY HeadByte DEF ReadByte, Inv, TypeOK
<1>2. Len(h) \in Nat
  BY <1>1, PacketFacts
<1>3. d \in Seq(Byte)
  BY <1>1, StoredType DEF Inv, TypeOK
<1>4. /\ onedata' = h[off + 1]
      /\ sent' = sent /\ closed' = closed /\ failed' = failed
      /\ \/ Overrun(d)
         \/ /\ Len(d) <= DataSize
            /\ IF Full(d) THEN Return("NO_ERROR", d) ELSE data' = d /\ UNCHANGED <<reading, ret>>
            /\ overrun' = overrun
      /\ Advance
  BY DEF ReadByte
<1>5. /\ queue' \in Seq(Packet) /\ off' \in Nat
      /\ queue' = << >> => off' = 0
      /\ queue' # << >> => off' < Len(Head(queue'))
  <2>1. queue \in Seq(Packet)
    BY DEF Inv, TypeOK
  <2>2. CASE off + 1 = Len(h)
    <3>1. queue' = Tail(queue) /\ off' = 0
      BY <1>4, <2>2 DEF Advance
    <3>2. queue' \in Seq(Packet)
      BY <1>1, <2>1, <3>1
    <3>3. ASSUME queue' # << >> PROVE off' < Len(Head(queue'))
      <4>1. Head(queue') \in Packet
        BY <3>2, <3>3
      <4>2. Len(Head(queue')) \in Nat /\ Len(Head(queue')) > 3
        BY <4>1, PacketFacts
      <4>3. off' = 0
        BY <3>1
      <4>4. \A m \in Nat : m > 3 => 0 < m
        OBVIOUS
      <4> QED BY <4>2, <4>3, <4>4
    <3> QED BY <3>1, <3>2, <3>3
  <2>3. CASE off + 1 # Len(h)
    <3>1. queue' = queue /\ off' = off + 1
      BY <1>4, <2>3 DEF Advance
    <3> QED BY <1>1, <1>2, <2>1, <2>3, <3>1
  <2> QED BY <2>2, <2>3
<1>6. ~failed => d = Prefix(h, off + 1) /\ (Full(d) <=> off + 1 = Len(h)) /\ Len(d) <= DataSize
  BY <1>1, NextByteAligned
<1> HIDE DEF d
<1>7. CASE Overrun(d)
  <2>1. Len(d) > DataSize /\ overrun' = TRUE /\ UNCHANGED <<reading, data, ret>>
    BY <1>7 DEF Overrun
  <2>2. TypeOK'
    BY <1>1, <1>4, <1>5, <2>1 DEF Inv, TypeOK
  <2>3. failed
    <3>1. Len(d) \in Nat /\ DataSize \in Nat
      BY <1>3, DataSizeAssumption
    <3> QED BY <1>6, <2>1, <3>1
  <2>4. Aligned'
    BY <1>4, <2>3 DEF Aligned, Inv, TypeOK
  <2> QED BY <2>2, <2>4 DEF Inv
<1>8. CASE /\ Len(d) <= DataSize /\ Full(d)
           /\ Return("NO_ERROR", d) /\ overrun' = overrun
  <2>1. reading' = FALSE /\ data' = << >> /\ ret' = [code |-> "NO_ERROR", data |-> d]
    BY <1>8 DEF Return
  <2>2. TypeOK'
    <3>1. /\ sent' \in Nat /\ closed' \in BOOLEAN /\ failed' \in BOOLEAN /\ onedata' \in Byte
          /\ overrun' \in BOOLEAN
      BY <1>1, <1>4, <1>8 DEF Inv, TypeOK
    <3>2. reading' = FALSE /\ data' = << >> /\ data' \in Seq(Byte) /\ Len(data') <= DataSize
      BY <2>1, DataSizeAssumption
    <3>3. ret'.code = "NO_ERROR" /\ ret'.data \in Seq(Byte) /\ Len(ret'.data) <= DataSize
      BY <1>3, <1>8, <2>1
    <3> QED BY <1>5, <3>1, <3>2, <3>3 DEF TypeOK
  <2>3. Aligned'
    <3> SUFFICES ASSUME ~failed PROVE off' = 0 /\ ~overrun
      BY <1>4, <1>8, <2>1 DEF Aligned
    <3>1. off + 1 = Len(h)
      BY <1>6, <1>8
    <3> QED BY <1>4, <3>1 DEF Advance, Inv, Aligned
  <2> QED BY <2>2, <2>3 DEF Inv
<1>9. CASE /\ Len(d) <= DataSize /\ ~Full(d)
           /\ data' = d /\ UNCHANGED <<reading, ret>> /\ overrun' = overrun
  <2>1. TypeOK'
    BY <1>1, <1>3, <1>4, <1>5, <1>9 DEF Inv, TypeOK, Full, PacketLength
  <2>2. Aligned'
    <3> SUFFICES ASSUME ~failed
                 PROVE  /\ data' = IF off' = 0 THEN << >> ELSE SubSeq(Head(queue'), 1, off')
                        /\ ~overrun
      BY <1>1, <1>4, <1>9 DEF Aligned
    <3>1. d = Prefix(h, off + 1) /\ off + 1 # Len(h)
      BY <1>6, <1>9
    <3>2. queue' = queue /\ off' = off + 1
      BY <1>4, <3>1 DEF Advance
    <3>3. ~overrun
      BY DEF Inv, Aligned
    <3> QED BY <1>1, <1>9, <3>1, <3>2, <3>3 DEF Prefix
  <2> QED BY <2>1, <2>2 DEF Inv
<1> QED BY <1>4, <1>7, <1>8, <1>9

\* A call that returns after a failure, or at the end of the stream.
LEMMA ReturnFailed ==
  ASSUME Inv, UNCHANGED <<queue, sent, off, closed, onedata, overrun>>, failed' = TRUE,
         NEW d \in Seq(Byte), Len(d) <= DataSize,
         NEW c \in {"NO_ERROR", "WSA_ERROR"}, Return(c, d)
  PROVE  Inv'
<1>1. reading' = FALSE /\ data' = << >> /\ ret' = [code |-> c, data |-> d]
  BY DEF Return
<1>2. /\ ret'.code \in {"NO_ERROR", "WSA_ERROR"}
      /\ ret'.data \in Seq(Byte) /\ Len(ret'.data) <= DataSize
  BY <1>1
<1>3. data' = << >> /\ data' \in Seq(Byte) /\ Len(data') <= DataSize
  BY <1>1, DataSizeAssumption
<1>4. TypeOK'
  BY <1>1, <1>2, <1>3 DEF Inv, TypeOK
<1>5. Aligned'
  BY DEF Aligned
<1> QED BY <1>4, <1>5 DEF Inv

LEMMA NextInv ==
  ASSUME Inv, [Next]_vars
  PROVE  Inv'
<1>1. CASE Call
  <2>1. /\ ~reading /\ reading' = TRUE /\ data' = << >> /\ onedata' \in Byte
        /\ UNCHANGED <<queue, sent, off, closed, overrun, ret, failed>>
    BY <1>1, JunkAssumption DEF Call
  <2>2. data' \in Seq(Byte) /\ Len(data') = 0 /\ Len(data') <= DataSize
    BY <2>1, DataSizeAssumption
  <2>3. TypeOK'
    BY <2>1, <2>2 DEF Inv, TypeOK
  <2>4. Aligned'
    BY <2>1 DEF Inv, Aligned
  <2> QED BY <2>3, <2>4 DEF Inv
<1>2. CASE ReadByte
  BY <1>2, ReadByteInv
<1>3. CASE ReadEnd
  <2> DEFINE d == Stored(data, onedata)
  <2>1. d \in Seq(Byte)
    BY StoredType DEF Inv, TypeOK
  <2>2. /\ UNCHANGED <<queue, sent, off, closed, onedata>> /\ failed' = TRUE
        /\ \/ Overrun(d)
           \/ Len(d) <= DataSize /\ Return("NO_ERROR", d) /\ overrun' = overrun
    BY <1>3 DEF ReadEnd
  <2> HIDE DEF d
  <2>3. CASE Overrun(d)
    <3>1. overrun' = TRUE /\ UNCHANGED <<reading, data, ret>>
      BY <2>3 DEF Overrun
    <3>2. TypeOK'
      BY <2>2, <3>1 DEF Inv, TypeOK
    <3>3. Aligned'
      BY <2>2 DEF Aligned
    <3> QED BY <3>2, <3>3 DEF Inv
  <2>4. CASE Len(d) <= DataSize /\ Return("NO_ERROR", d) /\ overrun' = overrun
    BY <2>1, <2>2, <2>4, ReturnFailed
  <2> QED BY <2>2, <2>3, <2>4
<1>4. CASE ReadFails
  <2>1. << >> \in Seq(Byte) /\ Len(<< >>) <= DataSize
    BY DataSizeAssumption
  <2>2. UNCHANGED <<queue, sent, off, closed, onedata, overrun>> /\ failed' = TRUE
    BY <1>4 DEF ReadFails
  <2> QED BY <1>4, <2>1, <2>2, ReturnFailed DEF ReadFails
<1>5. ASSUME NEW p \in Packet, Send(p) PROVE Inv'
  <2>1. queue' = Append(queue, p) /\ queue \in Seq(Packet) /\ queue' # << >>
    BY <1>5 DEF Send, Inv, TypeOK
  <2>2. queue # << >> => Head(queue') = Head(queue)
    BY <2>1
  <2>3. queue = << >> => Head(queue') = p /\ off = 0
    BY <2>1 DEF Inv, TypeOK
  <2>4. Len(p) > 0
    BY PacketFacts
  <2>5. off < Len(Head(queue'))
    BY <2>2, <2>3, <2>4 DEF Inv, TypeOK
  <2>6. TypeOK'
    BY <1>5, <2>1, <2>5 DEF Inv, TypeOK, Send
  <2>7. Aligned'
    BY <1>5, <2>1, <2>2, <2>3 DEF Inv, Aligned, Send
  <2> QED BY <2>6, <2>7 DEF Inv
<1>6. CASE Close
  <2>1. closed' = TRUE /\ UNCHANGED <<sent, reading, data, onedata, overrun, ret>>
    BY <1>6 DEF Close
  <2>2. CASE UNCHANGED <<queue, off, failed>>
    <3>1. TypeOK'
      BY <2>1, <2>2 DEF Inv, TypeOK
    <3>2. Aligned'
      BY <2>1, <2>2 DEF Inv, Aligned
    <3> QED BY <3>1, <3>2 DEF Inv
  <2>3. CASE queue' = << >> /\ off' = 0 /\ failed' = TRUE
    <3>1. << >> \in Seq(Packet)
      OBVIOUS
    <3>2. TypeOK'
      BY <2>1, <2>3, <3>1 DEF Inv, TypeOK
    <3>3. Aligned'
      BY <2>3 DEF Aligned
    <3> QED BY <3>2, <3>3 DEF Inv
  <2> QED BY <1>6, <2>2, <2>3 DEF Close
<1>7. CASE UNCHANGED vars
  BY <1>7 DEF Inv, TypeOK, Aligned, vars
<1> QED BY <1>1, <1>2, <1>3, <1>4, <1>5, <1>6, <1>7 DEF Next

\* AOV_recData stays in step with the stream until a receive fails, whatever
\* bytes the packets contain, and till then never stores a byte past the end of
\* the caller's array.
THEOREM StaysAligned == Spec => [](TypeOK /\ Aligned)
<1>1. Inv /\ [Next]_vars => Inv'
  BY NextInv
<1> QED BY InitInv, <1>1, PTL DEF Spec, Inv

\* In step or not: what a call has stored are bytes within the caller's array,
\* never a whole packet while it goes on, and nothing between calls; and what a
\* call returns has come to lie within the array.
THEOREM TypeCorrect == Spec => []TypeOK
BY StaysAligned, PTL

-----------------------------------------------------------------------------
(* Refinement *)

\* Every step is a step of the channel, or none.
LEMMA StepRefines ==
  ASSUME Inv, Inv', [Next]_vars
  PROVE  [Channel!Next]_(Channel!vars)
<1> USE DEF Channel!vars, Channel!Next, Channel!Broken
<1>1. CASE Call
  BY <1>1 DEF Call
<1>2. CASE ReadByte
  <2>1. CASE failed
    BY <1>2, <2>1 DEF ReadByte
  <2>2. CASE ~failed
    <3> DEFINE h == Head(queue)
               d == Stored(data, h[off + 1])
    <3>1. /\ reading /\ queue # << >> /\ failed' = failed /\ h \in Packet
          /\ \/ Overrun(d)
             \/ IF Full(d) THEN Return("NO_ERROR", d) ELSE data' = d /\ UNCHANGED <<reading, ret>>
          /\ Advance
      BY <1>2, HeadByte DEF ReadByte, Inv
    <3>2. /\ d = Prefix(h, off + 1) /\ (Full(d) <=> off + 1 = Len(h))
          /\ Len(d) <= DataSize
      BY <2>2, <3>1, NextByteAligned
    <3>3. Len(d) \in Nat
      BY HeadByte, StoredType, <3>1 DEF Inv, TypeOK
    <3> HIDE DEF d
    <3>4. ~ Overrun(d)
      BY <3>2, <3>3, DataSizeAssumption DEF Overrun
    <3>5. IF Full(d) THEN Return("NO_ERROR", d) ELSE data' = d /\ UNCHANGED <<reading, ret>>
      BY <3>1, <3>4
    <3>6. CASE off + 1 = Len(h)
      <4>1. queue' = Tail(queue) /\ ret' = [code |-> "NO_ERROR", data |-> h]
        BY <3>1, <3>2, <3>6, <3>5, WholePrefix DEF Advance, Return
      <4>2. Channel!Receive
        BY <2>2, <3>1, <4>1 DEF Channel!Receive
      <4> QED BY <4>2
    <3>7. CASE off + 1 # Len(h)
      <4>1. queue' = queue /\ ret' = ret
        BY <3>1, <3>2, <3>5, <3>7 DEF Advance
      <4> QED BY <3>1, <4>1
    <3> QED BY <3>6, <3>7
  <2> QED BY <2>1, <2>2
<1>3. CASE ReadEnd
  BY <1>3 DEF ReadEnd
<1>4. CASE ReadFails
  BY <1>4 DEF ReadFails
<1>5. ASSUME NEW p \in Packet, Send(p) PROVE Channel!Next
  <2>1. Channel!Send(p)
    BY <1>5 DEF Send, Channel!Send
  <2> QED BY <2>1
<1>6. CASE Close
  BY <1>6 DEF Close
<1>7. CASE UNCHANGED vars
  BY <1>7 DEF vars
<1> QED BY <1>1, <1>2, <1>3, <1>4, <1>5, <1>6, <1>7 DEF Next

\* The byte loop implements the packet channel: whole packets, once, in order.
THEOREM Refinement == Spec => ImplementsChannel
<1>1. Init => Channel!Init
  BY DEF Init, Channel!Init
<1>2. Inv /\ Inv' /\ [Next]_vars => [Channel!Next]_(Channel!vars)
  BY StepRefines
<1>3. Spec => []Inv
  BY StaysAligned DEF Inv
<1> QED BY <1>1, <1>2, <1>3, PTL DEF Spec, ImplementsChannel, Channel!Spec
=============================================================================
