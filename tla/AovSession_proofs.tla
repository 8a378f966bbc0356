---------------------------- MODULE AovSession_proofs ----------------------------
(***************************************************************************)
(* Proofs about the calls on a connected analyzer: any set of calls, any   *)
(* number of them, of busy replies and of waveform bytes.                  *)
(***************************************************************************)
EXTENDS AovSession, SequenceTheorems, TLAPS

\* The command bytes, and what stands for other bytes.
ByteName == {"PACKET_ACK", "GUI_MESSAGE", "WAVE_12BIT", "API_CMDS", "data", "uninitialised"}
              \cup {Command[op][1] : op \in DOMAIN Command}
              \cup {Command[op][2] : op \in DOMAIN Command}
Pkt == [b3 : ByteName, b4 : ByteName, b5 : ByteName, b6 : 0..255, id : Nat \cup {NoId}, whole : BOOLEAN]
Req == [op : Calls \cup {"Greeting", "WaveChange"}, id : Nat]

\* TypeOK with the sequences typed; only SetAllSettings sends a second request.
CallTypes ==
  /\ call \in [op : Calls \cup {"none", "Connect"}, id : 0..n, sent : BOOLEAN]
  /\ call = Idle \/ (call.op # "none" /\ call.id # 0 /\ open)
  /\ call # Idle /\ ~call.sent => call.op = "SetAllSettings"

FlightTypes ==
  /\ toDev \in Seq(Req) /\ \A i \in 1..Len(toDev) : toDev[i].id \in 1..n
  /\ toApi \in Seq(Pkt)
  /\ ~open => peer = "none"
  /\ peer # "up" => toDev = << >>
  /\ peer = "none" => toApi = << >>

Types ==
  /\ open \in BOOLEAN /\ peer \in {"none", "up", "closed", "reset"}
  /\ n \in Nat /\ late \in Nat /\ applied \subseteq 1..n
  /\ rx \in Pkt
  /\ CallTypes
  /\ FlightTypes

\* The request that the analyzer sees of a call.
Asked(c) == IF c.op = "Connect" THEN "Greeting" ELSE c.op

\* A reply that is not the last to its request.
Busy(c, p) == c.op = "Trigger" /\ p.b6 = 3

\* What is in flight to the analyzer is the request of the call in progress, at
\* most once and with only busy replies on their way, and unanswered changes.
OneRequest ==
  \A i \in 1..Len(toDev) : toDev[i].op # "WaveChange" =>
    /\ call.sent /\ toDev[i] = Request(Asked(call), call.id)
    /\ \A j \in 1..Len(toDev) : toDev[j].op # "WaveChange" => j = i
    /\ \A j \in 1..Len(toApi) : Busy(call, toApi[j])

\* What is in flight to the API is for the call in progress, the answer comes
\* last, and a change whose answer says that it was carried out was.
OneAnswer ==
  \A i \in 1..Len(toApi) :
    /\ toApi[i].id = call.id /\ toApi[i].whole
    /\ i < Len(toApi) => Busy(call, toApi[i])
    /\ call.op \in Acked /\ toApi[i].b6 = 0 => call.id \in applied

ReadIsBusy == rx.id \in {NoId, call.id} /\ (rx # Uninitialised => rx.b6 = 3 /\ call.op = "Trigger")

OneExchange ==
  late = 0 => (call.sent \/ toApi = << >>) /\ OneRequest /\ OneAnswer /\ ReadIsBusy

SessionInv == Types /\ OneExchange /\ SuccessMeansDone

-----------------------------------------------------------------------------
(* Packets and requests *)

LEMMA CommandFacts ==
  /\ DOMAIN Command \cap {"none", "Connect", "Greeting", "WaveChange"} = {}
  /\ Acked \subseteq DOMAIN Command /\ Acked \cap Getters = {}
  /\ "Trigger" \in Acked
BY DEF Command, Acked, Getters, Waves

LEMMA ByteNames ==
  /\ {"PACKET_ACK", "GUI_MESSAGE", "WAVE_12BIT", "API_CMDS", "data", "uninitialised"} \subseteq ByteName
  /\ \A op \in DOMAIN Command : Command[op][1] \in ByteName /\ Command[op][2] \in ByteName
BY DEF ByteName

LEMMA AckTyped ==
  ASSUME NEW r, r.op \in DOMAIN Command, r.id \in Nat, NEW b \in 0..255
  PROVE  Ack(r, b) \in Pkt /\ Ack(r, b).id = r.id /\ Ack(r, b).b6 = b /\ Ack(r, b).whole
<1>1. Command[r.op][1] \in ByteName /\ Command[r.op][2] \in ByteName /\ "PACKET_ACK" \in ByteName
  BY ByteNames
<1> QED BY <1>1 DEF Ack, Packet, Pkt

LEMMA AnswersTyped ==
  ASSUME NEW r, r.op \in DOMAIN Command \cup {"Greeting"}, r.id \in Nat, NEW p \in Answers(r)
  PROVE  p \in Pkt /\ p.id = r.id /\ p.whole
<1>0. /\ 0 \in 0..255 /\ 1 \in 0..255 /\ "GUI_MESSAGE" \in ByteName /\ "WAVE_12BIT" \in ByteName
      /\ "API_CMDS" \in ByteName /\ "data" \in ByteName
  BY ByteNames
<1>1. CASE r.op = "Greeting"
  <2>1. p = Packet("GUI_MESSAGE", "data", "data", 0, r.id)
    BY <1>1 DEF Answers
  <2> QED BY <1>0, <2>1 DEF Packet, Pkt
<1>2. CASE r.op # "Greeting" /\ r.op \in Waves
  <2>1. PICK b \in WaveByte : p = Packet("WAVE_12BIT", "data", "data", b, r.id)
    BY <1>2 DEF Answers
  <2>2. b \in 0..255
    BY WaveByteAssumption
  <2> QED BY <1>0, <2>1, <2>2 DEF Packet, Pkt
<1>3. CASE r.op # "Greeting" /\ r.op \notin Waves
  <2>1. p \in {Packet("API_CMDS", Command[r.op][2], "data", 0, r.id), Ack(r, 1), Ack(r, 0)}
    BY <1>3 DEF Answers
  <2>2. CASE p = Packet("API_CMDS", Command[r.op][2], "data", 0, r.id)
    <3>1. Command[r.op][2] \in ByteName /\ "API_CMDS" \in ByteName /\ "data" \in ByteName
      BY <1>3, ByteNames
    <3> QED BY <1>0, <2>2, <3>1 DEF Packet, Pkt
  <2>3. CASE p \in {Ack(r, 1), Ack(r, 0)}
    <3>1. r.op \in DOMAIN Command
      BY <1>3
    <3>2. CASE p = Ack(r, 1)
      BY <1>0, <3>1, <3>2, AckTyped, Zenon
    <3>3. CASE p = Ack(r, 0)
      BY <1>0, <3>1, <3>3, AckTyped, Zenon
    <3> QED BY <2>3, <3>2, <3>3
  <2> QED BY <2>1, <2>2, <2>3
<1> QED BY <1>1, <1>2, <1>3

LEMMA GarbageTyped ==
  /\ \A g \in Garbage : g \in Pkt /\ g.id = NoId
  /\ Uninitialised \in Pkt /\ Uninitialised.id = NoId
<1>1. ASSUME NEW g \in Garbage PROVE g \in Pkt /\ g.id = NoId
  <2>1. PICK p \in (UNION {Answers(Request(op, 1)) : op \in Calls \cup {"Greeting"}})
                   \cup {Packet("data", "data", "data", b, 1) : b \in {0, 3}} :
          g = [p EXCEPT !.id = NoId]
    BY DEF Garbage
  <2>2. ASSUME NEW b \in {0, 3}, p = Packet("data", "data", "data", b, 1)
        PROVE  p \in Pkt
    <3>1. "data" \in ByteName /\ b \in 0..255 /\ 1 \in Nat
      BY ByteNames
    <3> QED BY <2>2, <3>1 DEF Packet, Pkt
  <2>3. ASSUME NEW op \in Calls \cup {"Greeting"}, p \in Answers(Request(op, 1))
        PROVE  p \in Pkt
    <3>1. Request(op, 1).op \in DOMAIN Command \cup {"Greeting"} /\ Request(op, 1).id \in Nat
      BY CallsAssumption DEF Request
    <3> QED BY <2>3, <3>1, AnswersTyped
  <2>4. p \in Pkt
    BY <2>1, <2>2, <2>3
  <2> QED BY <2>1, <2>4 DEF Pkt
<1>2. Uninitialised \in Pkt /\ Uninitialised.id = NoId
  BY ByteNames DEF Uninitialised, Packet, Pkt
<1> QED BY <1>1, <1>2

\* What is behind the head of a sequence.
LEMMA TailFacts ==
  ASSUME NEW S, NEW q \in Seq(S), q # << >>
  PROVE  /\ Len(q) \in Nat \ {0} /\ Head(q) = q[1] /\ q[1] \in S
         /\ Tail(q) \in Seq(S) /\ Len(Tail(q)) = Len(q) - 1
         /\ \A i \in 1..(Len(q) - 1) : Tail(q)[i] = q[i + 1]
BY HeadTailProperties, EmptySeq, ElementOfSeq

LEMMA AppendFacts ==
  ASSUME NEW S, NEW q \in Seq(S), NEW x \in S
  PROVE  /\ Append(q, x) \in Seq(S) /\ Len(q) \in Nat /\ Len(Append(q, x)) = Len(q) + 1
         /\ \A i \in 1..(Len(q) + 1) : Append(q, x)[i] = IF i <= Len(q) THEN q[i] ELSE x
OBVIOUS
-----------------------------------------------------------------------------
(* The invariant implies the properties *)

LEMMA TypesGiveTypeOK == Types => TypeOK
<1> SUFFICES ASSUME Types PROVE TypeOK
  OBVIOUS
<1>1. \A p \in Pkt : PacketOK(p)
  BY DEF Pkt, PacketOK
<1>2. DOMAIN toApi = 1..Len(toApi) /\ \A i \in 1..Len(toApi) : toApi[i] \in Pkt
  BY ElementOfSeq DEF Types, FlightTypes
<1>3. (\A i \in DOMAIN toApi : PacketOK(toApi[i])) /\ PacketOK(rx)
  BY <1>1, <1>2 DEF Types
<1>4. call.op \in Calls \cup {"none", "Connect"} /\ call.id \in 0..n /\ (call # Idle => open)
  BY DEF Types, CallTypes
<1> QED BY <1>3, <1>4 DEF Types, FlightTypes, TypeOK

LEMMA ExchangeGivesInStep == Types /\ OneExchange => InStep
<1> SUFFICES ASSUME Types, OneExchange, late = 0 PROVE InStep
  BY DEF InStep
<1>1. DOMAIN toApi = 1..Len(toApi) /\ DOMAIN toDev = 1..Len(toDev)
  BY DEF Types, FlightTypes
<1>2. \A i \in 1..Len(toDev) : toDev[i].op # "WaveChange" => toDev[i].id = call.id
  BY DEF OneExchange, OneRequest, OneAnswer, ReadIsBusy, Request
<1> QED BY <1>1, <1>2 DEF OneExchange, OneRequest, OneAnswer, ReadIsBusy, InStep

-----------------------------------------------------------------------------
(* The steps *)

IdleFacts == Idle.op = "none" /\ Idle.id = 0 /\ Idle.sent = FALSE

LEMMA IdleFact == IdleFacts
BY DEF IdleFacts, Idle

LEMMA NoneInFlight ==
  /\ << >> \in Seq(Req) /\ << >> \in Seq(Pkt)
  /\ \A i \in 1..Len(<< >>) : FALSE
BY EmptySeq

\* Nothing is sent and no call is in progress.
LEMMA IdleTypes ==
  ASSUME call = Idle, n \in Nat
  PROVE  CallTypes
BY DEF CallTypes, Idle

LEMMA InitSessionInv == Init => SessionInv
<1> SUFFICES ASSUME Init PROVE SessionInv
  OBVIOUS
<1>1. FlightTypes
  BY NoneInFlight DEF Init, FlightTypes
<1>2. CallTypes
  BY IdleTypes DEF Init
<1>3. Types
  BY <1>1, <1>2, GarbageTyped DEF Init, Types
<1>4. OneExchange
  BY GarbageTyped DEF Init, OneExchange, OneRequest, OneAnswer, ReadIsBusy, Idle
<1>5. SuccessMeansDone
  BY CommandFacts DEF Init, SuccessMeansDone
<1> QED BY <1>3, <1>4, <1>5 DEF SessionInv

\* Between two calls nothing is in flight but a change that is not answered.
LEMMA NothingInFlight ==
  ASSUME SessionInv, late = 0, ~call.sent
  PROVE  toApi = << >> /\ \A i \in 1..Len(toDev) : toDev[i].op = "WaveChange"
BY DEF SessionInv, OneExchange, OneRequest, OneAnswer, ReadIsBusy

\* A step that lets the last call's verdict stand.
LEMMA VerdictStands ==
  ASSUME SessionInv, UNCHANGED ret, applied \subseteq applied'
  PROVE  SuccessMeansDone'
BY DEF SessionInv, SuccessMeansDone

\* The same for the state after a step.
LEMMA IdleTypesNext ==
  ASSUME call' = Idle, n' \in Nat
  PROVE  CallTypes'
BY DEF CallTypes, Idle

LEMMA ConnectKeeps ==
  ASSUME SessionInv, Connect
  PROVE  SessionInv'
<1> DEFINE c == NextCall("Connect")
           r == Request("Greeting", n + 1)
<1>1. /\ c = [op |-> "Connect", id |-> n + 1, sent |-> TRUE]
      /\ r = [op |-> "Greeting", id |-> n + 1] /\ r \in Req /\ n \in Nat
  BY DEF NextCall, Request, Req, SessionInv, Types
<1>2. <<r>> \in Seq(Req) /\ Len(<<r>>) = 1 /\ <<r>>[1] = r
  BY <1>1
<1>3. n' = n + 1 /\ open' = TRUE /\ late' = 0 /\ toApi' = << >> /\ UNCHANGED applied
  BY DEF Connect
<1>4. applied' \subseteq 1..n' /\ n' \in Nat
  BY <1>1, <1>3 DEF SessionInv, Types
<1>5. CASE peer' = "up" /\ toDev' = <<r>> /\ call' = c /\ rx' = Uninitialised /\ UNCHANGED ret
  <2> HIDE DEF r
  <2>1. FlightTypes'
    BY <1>1, <1>2, <1>3, <1>5, NoneInFlight DEF FlightTypes
  <2>2. CallTypes'
    <3>1. call' = [op |-> "Connect", id |-> n', sent |-> TRUE] /\ n' \in Nat \ {0}
      BY <1>1, <1>3, <1>5
    <3> QED BY <1>3, <3>1 DEF CallTypes
  <2>3. Types'
    BY <1>3, <1>4, <1>5, <2>1, <2>2, GarbageTyped DEF Types
  <2>4. OneExchange'
    BY <1>1, <1>2, <1>3, <1>5, GarbageTyped DEF OneExchange, OneRequest, OneAnswer, ReadIsBusy, Asked, Request
  <2> QED BY <1>3, <1>5, <2>3, <2>4, VerdictStands DEF SessionInv
<1>6. CASE peer' = "none" /\ toDev' = << >> /\ Return(c, "SETSOCKETOPT_FAILED", Uninitialised, 0)
  <2>1. call' = Idle /\ rx' = Uninitialised /\ ret'.res = "SETSOCKETOPT_FAILED"
    BY <1>6 DEF Return
  <2>2. FlightTypes'
    BY <1>3, <1>6, NoneInFlight DEF FlightTypes
  <2>3. Types'
    BY <1>3, <1>4, <1>6, <2>1, <2>2, GarbageTyped, IdleTypesNext DEF Types
  <2>4. OneExchange'
    BY <1>3, <1>6, <2>1, GarbageTyped DEF OneExchange, OneRequest, OneAnswer, ReadIsBusy
  <2>5. SuccessMeansDone'
    BY <2>1 DEF SuccessMeansDone
  <2> QED BY <2>3, <2>4, <2>5 DEF SessionInv
<1> QED BY <1>5, <1>6 DEF Connect

LEMMA DisconnectKeeps ==
  ASSUME SessionInv, Disconnect
  PROVE  SessionInv'
<1>1. /\ call = Idle /\ open' = FALSE /\ peer' = "none" /\ toDev' = << >> /\ toApi' = << >>
      /\ UNCHANGED <<call, rx, late, applied, n, ret>>
  BY DEF Disconnect
<1>2. FlightTypes'
  BY <1>1, NoneInFlight DEF FlightTypes
<1>3. Types'
  BY <1>1, <1>2, IdleTypesNext DEF SessionInv, Types
<1>4. OneExchange'
  BY <1>1 DEF SessionInv, OneExchange, OneRequest, OneAnswer, ReadIsBusy
<1> QED BY <1>1, <1>3, <1>4, VerdictStands DEF SessionInv

LEMMA CallNotSentKeeps ==
  ASSUME SessionInv, NEW op \in Calls, CallNotSent(op)
  PROVE  SessionInv'
<1>1. /\ call = Idle /\ call' = Idle /\ rx' = Uninitialised /\ n' = n + 1
      /\ ret'.res # "NO_ERROR" /\ UNCHANGED <<open, peer, toDev, toApi, late, applied>>
  BY DEF CallNotSent, Return
<1>2. n \in Nat /\ applied' \subseteq 1..n' /\ n' \in Nat
  BY <1>1 DEF SessionInv, Types
<1>3. FlightTypes'
  BY <1>1, <1>2 DEF SessionInv, Types, FlightTypes
<1>4. Types'
  BY <1>1, <1>2, <1>3, GarbageTyped, IdleTypesNext DEF SessionInv, Types
<1>5. OneExchange'
  BY <1>1, GarbageTyped, IdleFact, NothingInFlight DEF SessionInv, OneExchange, OneRequest, OneAnswer, ReadIsBusy, IdleFacts
<1>6. SuccessMeansDone'
  BY <1>1 DEF SuccessMeansDone
<1> QED BY <1>4, <1>5, <1>6 DEF SessionInv

\* A request goes behind what is in flight, or nowhere.
LEMMA SentKeepsTypes ==
  ASSUME Types, NEW r \in Req, Sent(r), n' \in Nat, n <= n', r.id \in 1..n', UNCHANGED <<open, toApi>>
  PROVE  /\ FlightTypes' /\ peer' \in {"up", "closed", "reset"}
         /\ toDev' = Append(toDev, r) \/ toDev' = toDev
<1>1. CASE peer = "up" /\ toDev' = Append(toDev, r) /\ UNCHANGED peer
  <2>1. toDev \in Seq(Req) /\ \A i \in 1..Len(toDev) : toDev[i].id \in 1..n'
    BY DEF Types, FlightTypes
  <2>2. toDev' \in Seq(Req) /\ \A i \in 1..Len(toDev') : toDev'[i].id \in 1..n'
    BY <1>1, <2>1, AppendFacts
  <2> QED BY <1>1, <2>2 DEF Types, FlightTypes
<1>2. CASE peer = "closed" /\ peer' \in {"closed", "reset"} /\ UNCHANGED toDev
  <2>1. toDev = << >>
    BY <1>2 DEF Types, FlightTypes
  <2> QED BY <1>2, <2>1, NoneInFlight DEF Types, FlightTypes
<1> QED BY <1>1, <1>2 DEF Sent

\* Behind changes that are not answered, the request of the call in progress is the only one.
LEMMA OnlyRequest ==
  ASSUME NEW c, NEW r \in Req, NEW q \in Seq(Req), NEW q2, q2 = Append(q, r) \/ q2 = q,
         \A i \in 1..Len(q) : q[i].op = "WaveChange"
  PROVE  \A i \in 1..Len(q2) : q2[i].op # "WaveChange" =>
           /\ r.op # "WaveChange" /\ q2[i] = r
           /\ \A j \in 1..Len(q2) : q2[j].op # "WaveChange" => j = i
<1>1. CASE q2 = q
  BY <1>1
<1>2. CASE q2 = Append(q, r)
  <2>1. /\ Len(q) \in Nat /\ Len(q2) = Len(q) + 1
        /\ \A i \in 1..(Len(q) + 1) : q2[i] = IF i <= Len(q) THEN q[i] ELSE r
    BY <1>2, AppendFacts
  <2>2. \A i \in 1..Len(q2) : q2[i].op # "WaveChange" => i = Len(q) + 1 /\ q2[i] = r
    BY <2>1
  <2> QED BY <2>2
<1> QED BY <1>1, <1>2

LEMMA CallSentKeeps ==
  ASSUME SessionInv, NEW op \in Calls, CallSent(op)
  PROVE  SessionInv'
<1> DEFINE r == Request(IF op = "SetAllSettings" THEN "WaveChange" ELSE op, n + 1)
<1>1. /\ Types /\ n \in Nat /\ n' = n + 1 /\ open = TRUE /\ rx' = Uninitialised /\ Sent(r)
      /\ call' = [op |-> op, id |-> n', sent |-> (op # "SetAllSettings")]
      /\ UNCHANGED <<open, toApi, late, applied, ret>>
  BY DEF CallSent, NextCall, SessionInv, Types
<1>2. r \in Req /\ r.id \in 1..n' /\ op \in DOMAIN Command
  BY <1>1, CallsAssumption DEF Request, Req
<1>3. FlightTypes' /\ peer' \in {"up", "closed", "reset"} /\ (toDev' = Append(toDev, r) \/ toDev' = toDev)
  <2> HIDE DEF r
  <2> QED BY <1>1, <1>2, SentKeepsTypes
<1>4. CallTypes'
  <2>1. op # "none"
    BY <1>2, CommandFacts
  <2>2. PICK b \in BOOLEAN : call' = [op |-> op, id |-> n', sent |-> b] /\ (~b => op = "SetAllSettings")
    BY <1>1
  <2> QED BY <1>1, <2>1, <2>2 DEF CallTypes
<1>5. Types'
  BY <1>1, <1>3, <1>4, GarbageTyped DEF Types
<1>6. ASSUME late = 0 PROVE OneExchange'
  <2>1. toApi' = << >> /\ (\A i \in 1..Len(toDev) : toDev[i].op = "WaveChange") /\ toDev \in Seq(Req)
    <3>1. ~call.sent
      BY IdleFact DEF CallSent, IdleFacts
    <3> QED BY <1>1, <1>6, <3>1, NothingInFlight DEF Types, FlightTypes
  <2>2. \A i \in 1..Len(toDev') : toDev'[i].op # "WaveChange" =>
          /\ r.op # "WaveChange" /\ toDev'[i] = r
          /\ \A j \in 1..Len(toDev') : toDev'[j].op # "WaveChange" => j = i
    <3> HIDE DEF r
    <3> QED BY <1>2, <1>3, <2>1, OnlyRequest
  <2>3. op # "Connect"
    BY <1>2, CommandFacts
  <2>4. ASSUME r.op # "WaveChange" PROVE r = Request(Asked(call'), call'.id) /\ call'.sent
    BY <1>1, <2>3, <2>4 DEF Request, Asked
  <2> HIDE DEF r
  <2> QED BY <1>1, <2>1, <2>2, <2>4, GarbageTyped DEF OneExchange, OneRequest, OneAnswer, ReadIsBusy
<1>7. OneExchange'
  BY <1>1, <1>6 DEF OneExchange, OneRequest, OneAnswer, ReadIsBusy
<1> QED BY <1>1, <1>5, <1>7, VerdictStands DEF SessionInv

LEMMA SetAllSettingsRequestKeeps ==
  ASSUME SessionInv, SetAllSettingsRequest
  PROVE  SessionInv'
<1> DEFINE r == Request("SetAllSettings", call.id)
<1>1. /\ Types /\ n \in Nat /\ call # Idle /\ ~call.sent /\ call.op = "SetAllSettings" /\ open = TRUE
      /\ call.id \in 1..n /\ call.op \in Calls \cup {"none", "Connect"}
      /\ UNCHANGED <<open, toApi, late, applied, n>>
  BY DEF SetAllSettingsRequest, SessionInv, Types, CallTypes
<1>2. r \in Req /\ r.id \in 1..n'
  BY <1>1 DEF Request, Req
<1>3. CASE Sent(r) /\ call' = [call EXCEPT !.sent = TRUE] /\ UNCHANGED <<rx, ret>>
  <2>1. FlightTypes' /\ peer' \in {"up", "closed", "reset"} /\ (toDev' = Append(toDev, r) \/ toDev' = toDev)
    <3> HIDE DEF r
    <3> QED BY <1>1, <1>2, <1>3, SentKeepsTypes
  <2>2. call'.op = "SetAllSettings" /\ call'.id = call.id /\ call'.sent /\ CallTypes'
    BY <1>1, <1>3 DEF Types, CallTypes
  <2>3. Types'
    BY <1>1, <1>3, <2>1, <2>2 DEF Types
  <2>4. ASSUME late = 0 PROVE OneExchange'
    <3>1. toApi' = << >> /\ (\A i \in 1..Len(toDev) : toDev[i].op = "WaveChange") /\ toDev \in Seq(Req)
      BY <1>1, <2>4, NothingInFlight DEF Types, FlightTypes
    <3>2. \A i \in 1..Len(toDev') : toDev'[i].op # "WaveChange" =>
            /\ toDev'[i] = r
            /\ \A j \in 1..Len(toDev') : toDev'[j].op # "WaveChange" => j = i
      <4> HIDE DEF r
      <4> QED BY <1>2, <2>1, <3>1, OnlyRequest
    <3>3. r = Request(Asked(call'), call'.id)
      BY <2>2 DEF Asked
    <3>4. rx'.id \in {NoId, call'.id} /\ (rx' # Uninitialised => rx'.b6 = 3 /\ call'.op = "Trigger")
      BY <1>3, <2>2, <2>4 DEF SessionInv, OneExchange, OneRequest, OneAnswer, ReadIsBusy
    <3> HIDE DEF r
    <3> QED BY <1>1, <2>2, <3>1, <3>2, <3>3, <3>4 DEF OneExchange, OneRequest, OneAnswer, ReadIsBusy
  <2>5. OneExchange'
    BY <1>1, <2>4 DEF OneExchange, OneRequest, OneAnswer, ReadIsBusy
  <2> QED BY <1>1, <1>3, <2>3, <2>5, VerdictStands DEF SessionInv
<1>4. CASE Return(call, "SEND_FAILED", Uninitialised, late) /\ UNCHANGED <<peer, toDev>>
  <2>1. call' = Idle /\ rx' = Uninitialised /\ ret'.res = "SEND_FAILED"
    BY <1>4 DEF Return
  <2>2. FlightTypes'
    BY <1>1, <1>4 DEF Types, FlightTypes
  <2>3. Types'
    BY <1>1, <1>4, <2>1, <2>2, GarbageTyped, IdleTypesNext DEF Types
  <2>4. OneExchange'
    BY <1>1, <1>4, <2>1, GarbageTyped, NothingInFlight DEF OneExchange, OneRequest, OneAnswer, ReadIsBusy
  <2>5. SuccessMeansDone'
    BY <2>1 DEF SuccessMeansDone
  <2> QED BY <2>3, <2>4, <2>5 DEF SessionInv
<1> QED BY <1>1, <1>3, <1>4 DEF SetAllSettingsRequest

\* A call waits over a connection that is open.
LEMMA WaitingFacts ==
  ASSUME SessionInv, Waiting
  PROVE  /\ Types /\ call # Idle /\ call.sent /\ open = TRUE /\ call.id \in 1..n /\ n \in Nat
         /\ toApi \in Seq(Pkt) /\ toDev \in Seq(Req)
BY DEF SessionInv, Types, CallTypes, FlightTypes, Waiting

\* A return leaves no call in progress and nothing in sa_rx.
LEMMA ReturnTypes ==
  ASSUME NEW c, NEW res, NEW p, NEW failures, Return(c, res, p, failures), n' \in Nat
  PROVE  /\ CallTypes' /\ rx' \in Pkt /\ call'.op = "none" /\ ~call'.sent /\ call'.id = 0
         /\ rx' = Uninitialised /\ rx'.id = NoId
         /\ ret'.op = c.op /\ ret'.id = c.id /\ ret'.res = res /\ ret'.rx = p /\ ret'.late = failures
<1>1. call' = Idle /\ rx' = Uninitialised /\ ret' = [op |-> c.op, id |-> c.id, res |-> res, late |-> failures, rx |-> p]
  BY DEF Return
<1> QED BY <1>1, GarbageTyped, IdleTypesNext, IdleFact DEF IdleFacts

\* Of a change, NO_ERROR is returned on byte 6 being 0 only.
LEMMA NoErrorMeansZero ==
  ASSUME NEW op \in Acked, NEW p, Verdict(op, p) = "NO_ERROR"
  PROVE  p.b6 = 0
BY CommandFacts DEF Verdict, ReportsError

\* What AOV_recData left in sa_rx is kept by Trigger, or returned.
LEMMA ReadCases ==
  ASSUME NEW p, Read(p)
  PROVE  \/ Busy(call, p) /\ rx' = p /\ UNCHANGED <<call, ret>>
         \/ /\ ~Busy(call, p)
            /\ Return(call, IF call.op = "Connect" THEN "NO_ERROR" ELSE Verdict(call.op, p), p, late)
BY DEF Read, Busy

LEMMA ReadTypes ==
  ASSUME SessionInv, Waiting, NEW p \in Pkt, Read(p), UNCHANGED <<open, n>>
  PROVE  CallTypes' /\ rx' \in Pkt
<1>1. CASE rx' = p /\ UNCHANGED <<call, ret>>
  BY <1>1 DEF SessionInv, Types, CallTypes
<1>2. CASE Return(call, IF call.op = "Connect" THEN "NO_ERROR" ELSE Verdict(call.op, p), p, late)
  BY <1>2, ReturnTypes, WaitingFacts
<1> QED BY <1>1, <1>2, ReadCases

LEMMA ReceiveKeeps ==
  ASSUME SessionInv, Receive
  PROVE  SessionInv'
<1> DEFINE p == Head(toApi)
<1>1. /\ Waiting /\ toApi # << >> /\ toApi' = Tail(toApi) /\ Read(p)
      /\ UNCHANGED <<open, peer, toDev, late, applied, n>>
  BY DEF Receive
<1>2. /\ Types /\ call # Idle /\ call.sent /\ call.id \in 1..n /\ toApi \in Seq(Pkt) /\ toDev \in Seq(Req)
      /\ n' \in Nat
  BY <1>1, WaitingFacts
<1>3. /\ Len(toApi) \in Nat \ {0} /\ p = toApi[1] /\ p \in Pkt
      /\ toApi' \in Seq(Pkt) /\ Len(toApi') = Len(toApi) - 1
      /\ \A i \in 1..(Len(toApi) - 1) : toApi'[i] = toApi[i + 1]
  BY <1>1, <1>2, TailFacts
<1> HIDE DEF p
<1>4. FlightTypes'
  BY <1>1, <1>2, <1>3 DEF Types, FlightTypes
<1>5. Types'
  BY <1>1, <1>2, <1>3, <1>4, ReadTypes DEF Types
<1>6. CASE Busy(call, p) /\ rx' = p /\ UNCHANGED <<call, ret>>
  <2>1. ASSUME late = 0 PROVE OneExchange'
    <3>1. OneExchange
      BY DEF SessionInv
    <3>2. \A i \in 1..Len(toDev) : toDev[i].op # "WaveChange" =>
            /\ call.sent /\ toDev[i] = Request(Asked(call), call.id)
            /\ \A j \in 1..Len(toDev) : toDev[j].op # "WaveChange" => j = i
            /\ \A j \in 1..Len(toApi) : Busy(call, toApi[j])
      BY <2>1, <3>1 DEF OneExchange, OneRequest, OneAnswer, ReadIsBusy
    <3>3. \A i \in 1..Len(toApi) :
            /\ toApi[i].id = call.id /\ toApi[i].whole
            /\ i < Len(toApi) => Busy(call, toApi[i])
            /\ call.op \in Acked /\ toApi[i].b6 = 0 => call.id \in applied
      BY <2>1, <3>1 DEF OneExchange, OneRequest, OneAnswer, ReadIsBusy
    <3>4. \A i \in 1..Len(toApi') : i + 1 \in 1..Len(toApi) /\ toApi'[i] = toApi[i + 1]
      BY <1>3
    <3>5. \A i \in 1..Len(toApi') :
            /\ toApi'[i].id = call.id /\ toApi'[i].whole
            /\ i < Len(toApi') => Busy(call, toApi'[i])
            /\ call.op \in Acked /\ toApi'[i].b6 = 0 => call.id \in applied
      BY <1>3, <3>3, <3>4
    <3>6. rx'.id = call.id /\ rx'.b6 = 3 /\ call.op = "Trigger"
      BY <1>3, <1>6, <3>3 DEF Busy
    <3>7. \A i \in 1..Len(toDev') : toDev'[i].op # "WaveChange" =>
            /\ call'.sent /\ toDev'[i] = Request(Asked(call'), call'.id)
            /\ \A j \in 1..Len(toDev') : toDev'[j].op # "WaveChange" => j = i
            /\ \A j \in 1..Len(toApi') : Busy(call', toApi'[j])
      <4>1. toDev' = toDev /\ call' = call
        BY <1>1, <1>6
      <4> QED BY <3>2, <3>4, <4>1
    <3>8. \A i \in 1..Len(toApi') :
            /\ toApi'[i].id = call'.id /\ toApi'[i].whole
            /\ i < Len(toApi') => Busy(call', toApi'[i])
            /\ call'.op \in Acked /\ toApi'[i].b6 = 0 => call'.id \in applied'
      <4>1. call' = call /\ applied' = applied
        BY <1>1, <1>6
      <4> QED BY <3>5, <4>1
    <3>9. rx'.id \in {NoId, call'.id} /\ rx'.b6 = 3 /\ call'.op = "Trigger" /\ call'.sent
      BY <1>2, <1>6, <3>6
    <3>10. OneRequest' /\ OneAnswer'
      BY <3>7, <3>8 DEF OneRequest, OneAnswer
    <3> QED BY <3>9, <3>10 DEF OneExchange, ReadIsBusy
  <2>2. OneExchange'
    BY <1>1, <2>1 DEF OneExchange, OneRequest, OneAnswer, ReadIsBusy
  <2> QED BY <1>1, <1>5, <1>6, <2>2, VerdictStands DEF SessionInv
<1>7. CASE ~Busy(call, p) /\ Return(call, IF call.op = "Connect" THEN "NO_ERROR" ELSE Verdict(call.op, p), p, late)
  <2>1. /\ ~call'.sent /\ rx' = Uninitialised /\ rx'.id = NoId
        /\ ret'.op = call.op /\ ret'.id = call.id /\ ret'.late = late
        /\ ret'.res = IF call.op = "Connect" THEN "NO_ERROR" ELSE Verdict(call.op, p)
    BY <1>2, <1>7, ReturnTypes
  <2>2. ASSUME late = 0 PROVE OneExchange' /\ SuccessMeansDone'
    <3>1. OneExchange
      BY DEF SessionInv
    <3>2. Len(toApi) = 1
      BY <1>3, <1>7, <2>2, <3>1 DEF OneExchange, OneRequest, OneAnswer, ReadIsBusy
    <3>3. \A i \in 1..Len(toDev) : toDev[i].op = "WaveChange"
      BY <1>3, <1>7, <2>2, <3>1 DEF OneExchange, OneRequest, OneAnswer, ReadIsBusy
    <3>4. toApi' = << >>
      BY <1>3, <3>2, EmptySeq
    <3>5. OneExchange'
      <4>1. OneRequest' /\ OneAnswer'
        BY <1>1, <3>3, <3>4, NoneInFlight DEF OneRequest, OneAnswer
      <4> QED BY <2>1, <3>4, <4>1 DEF OneExchange, ReadIsBusy
    <3>6. ASSUME call.op \in Acked, ret'.res = "NO_ERROR" PROVE call.id \in applied
      <4>1. call.op # "Connect"
        BY <3>6, CommandFacts
      <4>2. p.b6 = 0
        BY <2>1, <3>6, <4>1, NoErrorMeansZero
      <4> QED BY <1>3, <2>2, <3>1, <3>6, <4>2 DEF OneExchange, OneRequest, OneAnswer, ReadIsBusy
    <3> QED BY <1>1, <2>1, <3>5, <3>6 DEF SuccessMeansDone
  <2>3. OneExchange' /\ SuccessMeansDone'
    BY <1>1, <2>1, <2>2 DEF OneExchange, OneRequest, OneAnswer, ReadIsBusy, SuccessMeansDone
  <2> QED BY <1>5, <2>3 DEF SessionInv
<1> QED BY <1>1, <1>6, <1>7, ReadCases

\* What remains of the packets in flight when part of one has been read.
LEMMA RestTypes ==
  ASSUME NEW q \in Seq(Pkt), NEW k \in 1..Len(q)
  PROVE  LET rest == SubSeq(q, k + 1, Len(q))
         IN  rest \in Seq(Pkt) /\ (rest # << >> => [rest EXCEPT ![1].whole = FALSE] \in Seq(Pkt))
<1> DEFINE rest == SubSeq(q, k + 1, Len(q))
<1>1. rest \in Seq(Pkt)
  <2>1. \A i \in (k + 1)..Len(q) : q[i] \in Pkt
    BY ElementOfSeq
  <2> QED BY <2>1, SubSeqProperties
<1> HIDE DEF rest
<1>2. ASSUME rest # << >> PROVE [rest EXCEPT ![1].whole = FALSE] \in Seq(Pkt)
  <2>1. Len(rest) \in Nat \ {0} /\ rest[1] \in Pkt
    BY <1>1, <1>2, TailFacts
  <2>2. [rest[1] EXCEPT !.whole = FALSE] \in Pkt
    BY <2>1 DEF Pkt
  <2> QED BY <1>1, <2>1, <2>2
<1> QED BY <1>1, <1>2 DEF rest

LEMMA ReceiveRestKeeps ==
  ASSUME SessionInv, ReceiveRest
  PROVE  SessionInv'
<1>1. Waiting /\ toApi # << >> /\ ~Head(toApi).whole /\ UNCHANGED <<open, peer, toDev, late, applied, n>>
  BY DEF ReceiveRest
<1>2. Types /\ toApi \in Seq(Pkt) /\ n' \in Nat
  BY <1>1, WaitingFacts
<1>3. late # 0
  BY <1>1, <1>2, TailFacts DEF SessionInv, OneExchange, OneRequest, OneAnswer, ReadIsBusy
<1>4. OneExchange'
  BY <1>1, <1>3 DEF OneExchange, OneRequest, OneAnswer, ReadIsBusy
<1>5. ASSUME toApi' \in Seq(Pkt) PROVE FlightTypes'
  BY <1>1, <1>2, <1>5 DEF Types, FlightTypes
<1>6. CASE toApi' = Tail(toApi) /\ UNCHANGED <<call, rx, ret>>
  <2>1. FlightTypes'
    BY <1>1, <1>2, <1>5, <1>6, TailFacts
  <2>2. Types'
    BY <1>1, <1>2, <1>6, <2>1 DEF Types, CallTypes
  <2> QED BY <1>1, <1>4, <1>6, <2>2, VerdictStands DEF SessionInv
<1>7. ASSUME NEW k \in 1..Len(toApi), NEW inside \in BOOLEAN, NEW g \in Garbage, Read(g),
             toApi' = LET rest == SubSeq(toApi, k + 1, Len(toApi))
                      IN  IF inside /\ rest # << >> THEN [rest EXCEPT ![1].whole = FALSE] ELSE rest
      PROVE  SessionInv'
  <2>1. FlightTypes'
    BY <1>2, <1>5, <1>7, RestTypes
  <2>2. CallTypes' /\ rx' \in Pkt
    BY <1>1, <1>7, GarbageTyped, ReadTypes
  <2>3. Types'
    BY <1>1, <1>2, <2>1, <2>2 DEF Types
  <2>4. CASE UNCHANGED <<call, ret>>
    BY <1>1, <1>4, <2>3, <2>4, VerdictStands DEF SessionInv
  <2>5. CASE Return(call, IF call.op = "Connect" THEN "NO_ERROR" ELSE Verdict(call.op, g), g, late)
    <3>1. ret'.late # 0
      BY <1>2, <1>3, <2>5, ReturnTypes
    <3> QED BY <1>4, <2>3, <3>1 DEF SessionInv, SuccessMeansDone
  <2> QED BY <1>7, <2>4, <2>5, ReadCases
<1> QED BY <1>6, <1>7 DEF ReceiveRest

LEMMA ReceiveEndKeeps ==
  ASSUME SessionInv, ReceiveEnd
  PROVE  SessionInv'
<1>1. PICK p \in IF rx = Uninitialised THEN Garbage ELSE {rx} : Read(p)
  BY DEF ReceiveEnd
<1>2. /\ Waiting /\ toApi = << >> /\ peer = "closed"
      /\ UNCHANGED <<open, peer, toDev, toApi, late, applied, n>>
  BY DEF ReceiveEnd
<1>3. Types /\ call.sent /\ toDev = << >> /\ n' \in Nat /\ OneExchange
  BY <1>2, WaitingFacts DEF SessionInv, Types, FlightTypes
<1>4. p \in Pkt /\ (rx = Uninitialised => p.id = NoId) /\ (rx # Uninitialised => p = rx)
  BY <1>1, <1>3, GarbageTyped DEF Types
<1>5. Types'
  BY <1>1, <1>2, <1>3, <1>4, ReadTypes DEF Types, FlightTypes
<1>6. CASE Busy(call, p) /\ rx' = p /\ UNCHANGED <<call, ret>>
  <2>1. OneExchange'
    BY <1>2, <1>3, <1>4, <1>6 DEF OneExchange, OneRequest, OneAnswer, ReadIsBusy, Busy
  <2> QED BY <1>2, <1>5, <1>6, <2>1, VerdictStands DEF SessionInv
<1>7. CASE ~Busy(call, p) /\ Return(call, IF call.op = "Connect" THEN "NO_ERROR" ELSE Verdict(call.op, p), p, late)
  <2>1. /\ ~call'.sent /\ rx' = Uninitialised /\ rx'.id = NoId
        /\ ret'.rx = p /\ ret'.late = late
    BY <1>3, <1>7, ReturnTypes
  <2>2. OneExchange'
    BY <1>2, <1>3, <2>1 DEF OneExchange, OneRequest, OneAnswer, ReadIsBusy
  <2>3. SuccessMeansDone'
    BY <1>3, <1>4, <1>7, <2>1 DEF SuccessMeansDone, OneExchange, OneRequest, OneAnswer, ReadIsBusy, Busy
  <2> QED BY <1>5, <2>2, <2>3 DEF SessionInv
<1> QED BY <1>1, <1>6, <1>7, ReadCases

LEMMA ReceiveFailsKeeps ==
  ASSUME SessionInv, ReceiveFails
  PROVE  SessionInv'
<1>1. /\ Waiting /\ late' = late + 1
      /\ Return(call, IF call.op = "Connect" THEN "NO_ERROR" ELSE "WSA_ERROR", rx, late')
      /\ UNCHANGED <<open, peer, toDev, applied, n>>
      /\ \/ toApi = << >> /\ UNCHANGED toApi
         \/ Len(toApi) = 1 /\ toApi' = [toApi EXCEPT ![1].whole = FALSE]
  BY DEF ReceiveFails
<1>2. Types /\ toApi \in Seq(Pkt) /\ n' \in Nat /\ late' \in Nat \ {0}
  BY <1>1, WaitingFacts DEF Types
<1>3. FlightTypes'
  <2>1. CASE UNCHANGED toApi
    BY <1>1, <1>2, <2>1 DEF Types, FlightTypes
  <2>2. CASE Len(toApi) = 1 /\ toApi' = [toApi EXCEPT ![1].whole = FALSE]
    <3>1. toApi[1] \in Pkt /\ toApi # << >>
      BY <1>2, <2>2, ElementOfSeq, EmptySeq
    <3>2. [toApi[1] EXCEPT !.whole = FALSE] \in Pkt
      BY <3>1 DEF Pkt
    <3>3. toApi' \in Seq(Pkt)
      BY <1>2, <2>2, <3>1, <3>2
    <3> QED BY <1>1, <1>2, <3>1, <3>3 DEF Types, FlightTypes
  <2> QED BY <1>1, <2>1, <2>2
<1>4. CallTypes' /\ rx' \in Pkt /\ ret'.late = late'
  BY <1>1, <1>2, ReturnTypes
<1>5. Types'
  BY <1>1, <1>2, <1>3, <1>4 DEF Types
<1> QED BY <1>2, <1>4, <1>5 DEF SessionInv, OneExchange, OneRequest, OneAnswer, ReadIsBusy, SuccessMeansDone

\* What the analyzer reads next.
LEMMA NextRequest ==
  ASSUME SessionInv, toDev # << >>, peer = "up"
  PROVE  /\ Types /\ toDev \in Seq(Req) /\ toApi \in Seq(Pkt) /\ Head(toDev) = toDev[1]
         /\ 1 \in 1..Len(toDev) /\ Len(toDev) \in Nat
         /\ Head(toDev) \in Req /\ Head(toDev).id \in 1..n /\ n \in Nat
         /\ Tail(toDev) \in Seq(Req) /\ Len(Tail(toDev)) = Len(toDev) - 1
         /\ \A i \in 1..(Len(toDev) - 1) : Tail(toDev)[i] = toDev[i + 1]
         /\ \A i \in 1..Len(Tail(toDev)) : Tail(toDev)[i].id \in 1..n
BY TailFacts DEF SessionInv, Types, FlightTypes

LEMMA AnswerKeeps ==
  ASSUME SessionInv, Answer
  PROVE  SessionInv'
<1> DEFINE r == Head(toDev)
<1>1. /\ peer = "up" /\ toDev # << >> /\ toDev' = Tail(toDev)
      /\ UNCHANGED <<open, peer, call, rx, late, n, ret>>
  BY DEF Answer
<1>2. /\ Types /\ toDev \in Seq(Req) /\ toApi \in Seq(Pkt) /\ r = toDev[1]
      /\ 1 \in 1..Len(toDev) /\ Len(toDev) \in Nat
      /\ r \in Req /\ r.id \in 1..n /\ n \in Nat
      /\ toDev' \in Seq(Req) /\ Len(toDev') = Len(toDev) - 1
      /\ \A i \in 1..(Len(toDev) - 1) : toDev'[i] = toDev[i + 1]
      /\ \A i \in 1..Len(toDev') : toDev'[i].id \in 1..n
  BY <1>1, NextRequest
<1>3. \A i \in 1..Len(toDev') : i + 1 \in 1..Len(toDev) /\ toDev'[i] = toDev[i + 1]
  BY <1>2
<1>4. \/ r.op = "WaveChange" /\ UNCHANGED <<toApi, applied>>
      \/ r.op # "WaveChange" /\ \E p \in Answers(r) :
           /\ toApi' = Append(toApi, p)
           /\ applied' = IF r.op \in Acked /\ p.b6 = 0 THEN applied \cup {r.id} ELSE applied
  BY DEF Answer
<1> HIDE DEF r
<1>5. ASSUME toApi' \in Seq(Pkt), applied' \subseteq 1..n PROVE Types'
  <2>1. FlightTypes'
    BY <1>1, <1>2, <1>5 DEF Types, FlightTypes
  <2>2. CallTypes'
    BY <1>1, <1>2 DEF Types, CallTypes
  <2> QED BY <1>1, <1>2, <1>5, <2>1, <2>2 DEF Types
<1>6. CASE r.op = "WaveChange" /\ UNCHANGED <<toApi, applied>>
  <2>1. Types'
    BY <1>2, <1>5, <1>6 DEF Types
  <2>2. ASSUME late = 0 PROVE OneExchange'
    <3>1. (call.sent \/ toApi = << >>) /\ OneRequest /\ OneAnswer /\ ReadIsBusy
      BY <2>2 DEF SessionInv, OneExchange
    <3>2. OneRequest'
      BY <1>1, <1>3, <1>6, <3>1 DEF OneRequest
    <3> QED BY <1>1, <1>6, <3>1, <3>2 DEF OneExchange, OneAnswer, ReadIsBusy
  <2>3. OneExchange'
    BY <1>1, <2>2 DEF OneExchange
  <2> QED BY <1>1, <1>6, <2>1, <2>3, VerdictStands DEF SessionInv
<1>7. ASSUME r.op # "WaveChange", NEW p \in Answers(r), toApi' = Append(toApi, p),
             applied' = IF r.op \in Acked /\ p.b6 = 0 THEN applied \cup {r.id} ELSE applied
      PROVE  SessionInv'
  <2>1. r.op \in DOMAIN Command \cup {"Greeting"} /\ r.id \in Nat
    BY <1>2, <1>7, CallsAssumption DEF Req
  <2>2. p \in Pkt /\ p.id = r.id /\ p.whole
    BY <1>7, <2>1, AnswersTyped
  <2>3. /\ toApi' \in Seq(Pkt) /\ Len(toApi) \in Nat /\ Len(toApi') = Len(toApi) + 1
        /\ \A i \in 1..(Len(toApi) + 1) : toApi'[i] = IF i <= Len(toApi) THEN toApi[i] ELSE p
    BY <1>2, <1>7, <2>2, AppendFacts
  <2>4. applied \subseteq applied' /\ applied' \subseteq 1..n
    BY <1>2, <1>7 DEF Types
  <2>5. ASSUME late = 0 PROVE OneExchange'
    <3>1. OneRequest /\ OneAnswer /\ ReadIsBusy
      BY <2>5 DEF SessionInv, OneExchange
    <3>2. /\ call.sent /\ r = Request(Asked(call), call.id)
          /\ \A j \in 1..Len(toDev) : toDev[j].op # "WaveChange" => j = 1
          /\ \A j \in 1..Len(toApi) : Busy(call, toApi[j])
      BY <1>2, <1>7, <3>1 DEF OneRequest
    <3>3. \A i \in 1..Len(toDev') : toDev'[i].op = "WaveChange"
      <4>1. \A i \in 1..Len(toDev') : i + 1 # 1
        OBVIOUS
      <4> QED BY <1>3, <3>2, <4>1
    <3>4. r.id = call.id /\ r.op = Asked(call)
      BY <3>2 DEF Request
    <3>5. call.op \in Acked => r.op = call.op
      BY <3>4, CommandFacts DEF Asked
    <3>6. call.op \in Acked /\ p.b6 = 0 => call.id \in applied'
      BY <1>7, <3>4, <3>5
    <3>7. OneAnswer'
      <4>1. \A i \in 1..Len(toApi) :
              /\ toApi'[i].id = call.id /\ toApi'[i].whole /\ Busy(call, toApi'[i])
              /\ call.op \in Acked /\ toApi'[i].b6 = 0 => call.id \in applied'
        <5>1. \A i \in 1..Len(toApi) : toApi'[i] = toApi[i]
          BY <2>3
        <5>2. call.id \in applied => call.id \in applied'
          BY <2>4
        <5> QED BY <3>1, <3>2, <5>1, <5>2 DEF OneAnswer
      <4>2. toApi'[Len(toApi')] = p
        BY <2>3
      <4>3. \A i \in 1..Len(toApi') : i \in 1..Len(toApi) \/ i = Len(toApi')
        BY <2>3
      <4> QED BY <1>1, <2>2, <3>4, <3>6, <4>1, <4>2, <4>3 DEF OneAnswer
    <3>8. OneRequest'
      BY <3>3 DEF OneRequest
    <3> QED BY <1>1, <3>1, <3>2, <3>7, <3>8 DEF OneExchange, ReadIsBusy
  <2>6. OneExchange'
    BY <1>1, <2>5 DEF OneExchange
  <2> QED BY <1>1, <1>5, <2>3, <2>4, <2>6, VerdictStands DEF SessionInv
<1> QED BY <1>4, <1>6, <1>7

LEMMA AnswerBusyKeeps ==
  ASSUME SessionInv, AnswerBusy
  PROVE  SessionInv'
<1> DEFINE r == Head(toDev)
           p == Ack(r, 3)
<1>1. /\ peer = "up" /\ toDev # << >> /\ r.op = "Trigger" /\ toApi' = Append(toApi, p)
      /\ UNCHANGED <<open, peer, toDev, call, rx, late, applied, n, ret>>
  BY DEF AnswerBusy
<1>2. /\ Types /\ toApi \in Seq(Pkt) /\ r = toDev[1] /\ 1 \in 1..Len(toDev) /\ r \in Req /\ r.id \in Nat
  BY <1>1, NextRequest
<1>3. p \in Pkt /\ p.id = r.id /\ p.b6 = 3 /\ p.whole
  <2>1. r.op \in DOMAIN Command /\ 3 \in 0..255
    BY <1>1, CommandFacts
  <2> HIDE DEF r
  <2> QED BY <1>2, <2>1, AckTyped
<1> HIDE DEF r, p
<1>4. /\ toApi' \in Seq(Pkt) /\ Len(toApi) \in Nat /\ Len(toApi') = Len(toApi) + 1
      /\ \A i \in 1..(Len(toApi) + 1) : toApi'[i] = IF i <= Len(toApi) THEN toApi[i] ELSE p
  BY <1>1, <1>2, <1>3, AppendFacts
<1>5. Types'
  <2>1. FlightTypes'
    BY <1>1, <1>2, <1>4 DEF Types, FlightTypes
  <2> QED BY <1>1, <1>2, <2>1 DEF Types, CallTypes
<1>6. ASSUME late = 0 PROVE OneExchange'
  <2>1. OneRequest /\ OneAnswer /\ ReadIsBusy
    BY <1>6 DEF SessionInv, OneExchange
  <2>2. /\ call.sent /\ r = Request(Asked(call), call.id)
        /\ \A j \in 1..Len(toApi) : Busy(call, toApi[j])
    BY <1>1, <1>2, <2>1 DEF OneRequest
  <2>3. r.id = call.id /\ call.op = "Trigger"
    BY <1>1, <2>2 DEF Request, Asked
  <2>4. \A i \in 1..Len(toApi') : Busy(call, toApi'[i]) /\ toApi'[i].b6 = 3
    BY <1>3, <1>4, <2>2, <2>3 DEF Busy
  <2>5. OneRequest'
    BY <1>1, <2>1, <2>4 DEF OneRequest
  <2>6. OneAnswer'
    BY <1>1, <1>3, <1>4, <2>1, <2>3, <2>4 DEF OneAnswer
  <2> QED BY <1>1, <2>1, <2>2, <2>5, <2>6 DEF OneExchange, ReadIsBusy
<1>7. OneExchange'
  BY <1>1, <1>6 DEF OneExchange
<1> QED BY <1>1, <1>5, <1>7, VerdictStands DEF SessionInv

LEMMA CloseKeeps ==
  ASSUME SessionInv, Close
  PROVE  SessionInv'
<1>1. /\ peer = "up" /\ toDev' = << >> /\ peer' \in {"closed", "reset"}
      /\ toApi' = toApi \/ toApi' = << >>
      /\ UNCHANGED <<open, call, rx, late, applied, n, ret>>
  BY DEF Close
<1>2. FlightTypes'
  BY <1>1, NoneInFlight DEF SessionInv, Types, FlightTypes
<1>3. Types'
  BY <1>1, <1>2 DEF SessionInv, Types, CallTypes
<1>4. ASSUME late = 0 PROVE OneExchange'
  <2>1. (call.sent \/ toApi = << >>) /\ OneRequest /\ OneAnswer /\ ReadIsBusy
    BY <1>4 DEF SessionInv, OneExchange
  <2>2. OneRequest' /\ OneAnswer'
    BY <1>1, <2>1, NoneInFlight DEF OneRequest, OneAnswer
  <2> QED BY <1>1, <2>1, <2>2 DEF OneExchange, ReadIsBusy
<1>5. OneExchange'
  BY <1>1, <1>4 DEF OneExchange
<1> QED BY <1>1, <1>3, <1>5, VerdictStands DEF SessionInv

LEMMA SameKeeps ==
  ASSUME SessionInv, UNCHANGED vars
  PROVE  SessionInv'
<1>1. UNCHANGED <<open, peer, toDev, toApi, call, rx, late, applied, n, ret>>
  BY DEF vars
<1>2. Types'
  BY <1>1 DEF SessionInv, Types, CallTypes, FlightTypes
<1>3. OneExchange'
  BY <1>1 DEF SessionInv, OneExchange, OneRequest, OneAnswer, ReadIsBusy
<1> QED BY <1>1, <1>2, <1>3, VerdictStands DEF SessionInv

-----------------------------------------------------------------------------
(* The theorems *)

\* SessionInv is inductive: each call, each way a receive can end and each
\* thing the analyzer does keeps it.
THEOREM SessionInductive == Spec => []SessionInv
<1>1. SessionInv /\ [Next]_vars => SessionInv'
  <2> SUFFICES ASSUME SessionInv, [Next]_vars PROVE SessionInv'
    OBVIOUS
  <2>1. CASE Connect
    BY <2>1, ConnectKeeps
  <2>2. CASE Disconnect
    BY <2>2, DisconnectKeeps
  <2>3. CASE \E op \in Calls : CallNotSent(op)
    BY <2>3, CallNotSentKeeps
  <2>4. CASE \E op \in Calls : CallSent(op)
    BY <2>4, CallSentKeeps
  <2>5. CASE ApiStep
    BY <2>5, SetAllSettingsRequestKeeps, ReceiveKeeps, ReceiveRestKeeps, ReceiveEndKeeps,
       ReceiveFailsKeeps DEF ApiStep
  <2>6. CASE Answer \/ AnswerBusy \/ Close
    BY <2>6, AnswerKeeps, AnswerBusyKeeps, CloseKeeps
  <2>7. CASE Stopped \/ UNCHANGED vars
    BY <2>7, SameKeeps DEF Stopped
  <2> QED BY <2>1, <2>2, <2>3, <2>4, <2>5, <2>6, <2>7 DEF Next
<1> QED BY <1>1, InitSessionInv, PTL DEF Spec

\* In every session the state is well typed, a call waits on an open socket
\* only, and requests are in flight only towards an analyzer that is up.
THEOREM SessionTypes == Spec => []TypeOK
<1>1. SessionInv => TypeOK
  BY TypesGiveTypeOK DEF SessionInv
<1> QED BY <1>1, SessionInductive, PTL

\* Until a receive fails on the connection, every packet in flight belongs to
\* the call that is waiting: no call takes the reply to an earlier one.
THEOREM RepliesInStep == Spec => []InStep
<1>1. SessionInv => InStep
  BY ExchangeGivesInStep DEF SessionInv
<1> QED BY <1>1, SessionInductive, PTL

\* A change that returns NO_ERROR was carried out, if no receive has failed on
\* the connection and the packet it returned on was the analyzer's.
THEOREM SuccessIsDone == Spec => []SuccessMeansDone
<1>1. SessionInv => SuccessMeansDone
  BY DEF SessionInv
<1> QED BY <1>1, SessionInductive, PTL
=============================================================================
