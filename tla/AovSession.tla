------------------------------ MODULE AovSession ------------------------------
(***************************************************************************)
(* A handle in use (api/aovspecan.c): the calls that exchange packets with *)
(* one analyzer over its TCP connection, while the analyzer answers, is    *)
(* late, or closes the connection.                                         *)
(*                                                                         *)
(* A call sends one request and reads one packet.  Nothing in a packet     *)
(* says which request it answers: the request a packet belongs to is the   *)
(* field id, which only the model sees.  What a call does see are bytes 3  *)
(* to 6 of sa_rx, the fields b3, b4, b5 and b6.                            *)
(*                                                                         *)
(* Packets are the units here; a receive that gives up inside a packet     *)
(* leaves the rest of it in the stream, with whole = FALSE.                *)
(***************************************************************************)
EXTENDS Integers, Sequences, FiniteSets

CONSTANTS
  Calls,      \* the operations called, of DOMAIN Command
  MaxCalls,   \* bound on the number of calls (model checking only)
  MaxBusy,    \* bound on the packets in flight to the API (model checking only)
  WaveByte    \* the values byte 6 of a waveform takes, amplitude data

VARIABLES
  open,       \* socketfd # -1
  peer,       \* the analyzer's end: "none", "up", "closed" (FIN) or "reset" (RST)
  toDev,      \* requests the analyzer has not answered
  toApi,      \* packets the API has not read
  call,       \* the call in progress, or Idle
  rx,         \* sa_rx of the call in progress
  late,       \* history: receives that failed on this connection
  applied,    \* history: the requests the analyzer carried out
  n,          \* history: calls so far
  ret         \* history: the last call that returned

vars == <<open, peer, toDev, toApi, call, rx, late, applied, n, ret>>

-----------------------------------------------------------------------------
(* Requests and replies *)

\* The command bytes of each request.
Command ==
  [ SetCenterFrequency |-> <<"CHANGE_INDIVIDUAL", "API_CHANGE_CF">>,
    SetSpan            |-> <<"CHANGE_INDIVIDUAL", "API_CHANGE_SP">>,
    SetRefLevel        |-> <<"CHANGE_INDIVIDUAL", "API_CHANGE_RL">>,
    SetResBandwidth    |-> <<"CHANGE_INDIVIDUAL", "API_CHANGE_RBW">>,
    SetInput           |-> <<"CHANGE_INDIVIDUAL", "API_CHANGE_INPUT">>,
    SetLNB             |-> <<"CHANGE_INDIVIDUAL", "API_CHANGE_LNB">>,
    SetMarkerFreq      |-> <<"API_CMDS", "API_SET_MARKER">>,
    SetMarkerOpt       |-> <<"API_CMDS", "API_SET_MARKER_OPT">>,
    ClearMarker        |-> <<"API_CMDS", "API_CLEAR_MARKER">>,
    SetAverage         |-> <<"API_CMDS", "API_AVERAGE_SET">>,
    SetSweepMode       |-> <<"API_CMDS", "API_SWEEP_MODE">>,
    Trigger            |-> <<"API_CMDS", "API_TRIGGER">>,
    GetMarker          |-> <<"API_CMDS", "API_GET_MARKER">>,
    GetCNR             |-> <<"API_CMDS", "API_GET_CNR">>,
    GetSNR             |-> <<"API_CMDS", "API_GET_SNR">>,
    GetSpectrumData    |-> <<"WAVE_REQ", "SINGLE_12BIT">>,
    SetAllSettings     |-> <<"WAVE_REQ", "SINGLE_12BIT">> ]

Getters == {"GetMarker", "GetCNR", "GetSNR"}
Waves == {"GetSpectrumData", "SetAllSettings"}
Acked == (DOMAIN Command) \ (Getters \cup Waves)   \* the calls that change something

ASSUME CallsAssumption == Calls \subseteq DOMAIN Command
ASSUME BoundsAssumption == MaxCalls \in Nat /\ MaxBusy \in Nat
ASSUME WaveByteAssumption == WaveByte \subseteq 0..255

Idle == [op |-> "none", id |-> 0, sent |-> FALSE]

\* A request of the API; a greeting is what accepting the connection asks for.
Request(op, id) == [op |-> op, id |-> id]

Packet(b3, b4, b5, b6, id) ==
  [b3 |-> b3, b4 |-> b4, b5 |-> b5, b6 |-> b6, id |-> id, whole |-> TRUE]

Ack(r, status) == Packet("PACKET_ACK", Command[r.op][1], Command[r.op][2], status, r.id)

\* The packets an analyzer may end its answer to r with.
Answers(r) ==
  IF r.op = "Greeting" THEN {Packet("GUI_MESSAGE", "data", "data", 0, r.id)}
  ELSE IF r.op \in Waves THEN {Packet("WAVE_12BIT", "data", "data", b, r.id) : b \in WaveByte}
  ELSE IF r.op \in Getters
       THEN {Packet("API_CMDS", Command[r.op][2], "data", 0, r.id), Ack(r, 1)}
  ELSE {Ack(r, 0), Ack(r, 1)}

\* What an uninitialised or misframed sa_rx may hold: any reply to any call.
NoId == -1
Garbage ==
  {[p EXCEPT !.id = NoId] :
     p \in (UNION {Answers(Request(op, 1)) : op \in Calls \cup {"Greeting"}})
           \cup {Packet("data", "data", "data", b, 1) : b \in {0, 3}}}
Uninitialised == Packet("uninitialised", "data", "data", 0, NoId)

\* The tests a call makes of the packet it has read.
Refused(op, p) ==
  IF op = "GetMarker" THEN p.b4 # Command[op][2]
  ELSE IF op = "GetCNR" THEN p.b3 # Command[op][1] /\ p.b4 # Command[op][2]
  ELSE op \in Acked /\ p.b3 # "PACKET_ACK" /\ p.b4 # Command[op][1] /\ p.b5 # Command[op][2]

ReportsError(op, p) ==
  \/ op \in Acked /\ p.b6 # 0
  \/ /\ op \in {"GetMarker", "GetCNR"}
     /\ <<p.b3, p.b4, p.b5>> = <<"PACKET_ACK", Command[op][1], Command[op][2]>>
     /\ op = "GetCNR" => p.b6 = 1

\* Mutant: byte 6 of the reply is not looked at.
VerdictUnread(op, p) == IF Refused(op, p) THEN "UNEXPECTED_CMD" ELSE "NO_ERROR"

\* GetMarker and GetCNR look for an error before they test the packet, the
\* other calls after.
Verdict(op, p) ==
  IF op \in Getters /\ ReportsError(op, p) THEN "DEVICE_ERROR"
  ELSE IF Refused(op, p) THEN "UNEXPECTED_CMD"
  ELSE IF ReportsError(op, p) THEN "DEVICE_ERROR"
  ELSE "NO_ERROR"

-----------------------------------------------------------------------------
(* The API *)

Init ==
  /\ open = FALSE
  /\ peer = "none"
  /\ toDev = << >>
  /\ toApi = << >>
  /\ call = Idle
  /\ rx = Uninitialised
  /\ late = 0
  /\ applied = {}
  /\ n = 0
  /\ ret = [op |-> "none", id |-> 0, res |-> "NO_ERROR", late |-> 0, rx |-> Uninitialised]

\* The call c returns res, having read p last.
Return(c, res, p, failures) ==
  /\ call' = Idle
  /\ rx' = Uninitialised
  /\ ret' = [op |-> c.op, id |-> c.id, res |-> res, late |-> failures, rx |-> p]

NextCall(op) == [op |-> op, id |-> n + 1, sent |-> TRUE]

\* Mutant: Connect does not wait for the greeting.
ConnectWithoutGreeting ==
  /\ call = Idle
  /\ ~open
  /\ n < MaxCalls
  /\ n' = n + 1
  /\ open' = TRUE
  /\ late' = 0
  /\ peer' = "up"
  /\ toDev' = <<Request("Greeting", n + 1)>>
  /\ toApi' = << >>
  /\ Return(NextCall("Connect"), "NO_ERROR", Uninitialised, 0)
  /\ UNCHANGED applied

\* AVCOM_SA_Connect once socket() has succeeded; a failing setsockopt keeps a
\* socket that is not connected.
Connect ==
  /\ call = Idle
  /\ ~open
  /\ n < MaxCalls
  /\ n' = n + 1
  /\ open' = TRUE
  /\ late' = 0
  /\ toApi' = << >>
  /\ \/ /\ peer' = "up"
        /\ toDev' = <<Request("Greeting", n + 1)>>
        /\ call' = NextCall("Connect")
        /\ rx' = Uninitialised
        /\ UNCHANGED ret
     \/ /\ peer' = "none"
        /\ toDev' = << >>
        /\ Return(NextCall("Connect"), "SETSOCKETOPT_FAILED", Uninitialised, 0)
  /\ UNCHANGED applied

\* AVCOM_SA_Disconnect, closesocket succeeding: what is in flight is gone.
Disconnect ==
  /\ call = Idle
  /\ open
  /\ open' = FALSE
  /\ peer' = "none"
  /\ toDev' = << >>
  /\ toApi' = << >>
  /\ UNCHANGED <<call, rx, late, applied, n, ret>>

\* send() of a request succeeds: a peer that has closed does not see it, and
\* may reset the connection.
Sent(r) ==
  \/ peer = "up" /\ toDev' = Append(toDev, r) /\ UNCHANGED peer
  \/ peer = "closed" /\ peer' \in {"closed", "reset"} /\ UNCHANGED toDev

\* Mutant: the result of send() is dropped, and the call waits for an answer.
CallNotSentGoesOn(op) ==
  /\ call = Idle
  /\ n < MaxCalls
  /\ n' = n + 1
  /\ call' = NextCall(op)
  /\ rx' = Uninitialised
  /\ UNCHANGED <<open, peer, toDev, toApi, late, applied, ret>>

\* A call returns before its request is out: an argument is out of range, or
\* send() failed, as it does without a socket.
CallNotSent(op) ==
  /\ call = Idle
  /\ n < MaxCalls
  /\ n' = n + 1
  /\ \E res \in {"INVALID", "SEND_FAILED"} : Return(NextCall(op), res, Uninitialised, late)
  /\ UNCHANGED <<open, peer, toDev, toApi, late, applied>>

\* SetAllSettings sends its WAVE_CHANGE, sleeps, and sends the WAVE_REQ that
\* is answered; every other call sends its request at once.
CallSent(op) ==
  /\ call = Idle
  /\ n < MaxCalls
  /\ open
  /\ n' = n + 1
  /\ call' = [NextCall(op) EXCEPT !.sent = (op # "SetAllSettings")]
  /\ rx' = Uninitialised
  /\ Sent(Request(IF op = "SetAllSettings" THEN "WaveChange" ELSE op, n + 1))
  /\ UNCHANGED <<open, toApi, late, applied, ret>>

SetAllSettingsRequest ==
  /\ call # Idle
  /\ ~call.sent
  /\ \/ /\ Sent(Request("SetAllSettings", call.id))
        /\ call' = [call EXCEPT !.sent = TRUE]
        /\ UNCHANGED <<rx, ret>>
     \/ /\ Return(call, "SEND_FAILED", Uninitialised, late)
        /\ UNCHANGED <<peer, toDev>>
  /\ UNCHANGED <<open, toApi, late, applied, n>>

\* AOV_recData returned NO_ERROR with p in sa_rx: Trigger reads on while byte 6
\* is 3, and Connect does not look at what it read.
Read(p) ==
  IF call.op = "Trigger" /\ p.b6 = 3
  THEN rx' = p /\ UNCHANGED <<call, ret>>
  ELSE Return(call, IF call.op = "Connect" THEN "NO_ERROR" ELSE Verdict(call.op, p), p, late)

Waiting == call # Idle /\ call.sent

\* A whole packet is read.
Receive ==
  /\ Waiting
  /\ toApi # << >>
  /\ Head(toApi).whole
  /\ toApi' = Tail(toApi)
  /\ Read(Head(toApi))
  /\ UNCHANGED <<open, peer, toDev, late, applied, n>>

\* The rest of a packet is read: without an STX in it, it is skipped; with one,
\* the length that seems to follow takes k packets along, the last in part.
ReceiveRest ==
  /\ Waiting
  /\ toApi # << >>
  /\ ~Head(toApi).whole
  /\ \/ /\ toApi' = Tail(toApi)
        /\ UNCHANGED <<call, rx, ret>>
     \/ /\ \E k \in 1..Len(toApi), inside \in BOOLEAN :
             LET rest == SubSeq(toApi, k + 1, Len(toApi))
             IN  toApi' = IF inside /\ rest # << >> THEN [rest EXCEPT ![1].whole = FALSE]
                          ELSE rest
        /\ \E g \in Garbage : Read(g)
  /\ UNCHANGED <<open, peer, toDev, late, applied, n>>

\* recv() returns 0: AOV_recData returns NO_ERROR, and sa_rx is as it was.
ReceiveEnd ==
  /\ Waiting
  /\ toApi = << >>
  /\ peer = "closed"
  /\ \E p \in IF rx = Uninitialised THEN Garbage ELSE {rx} : Read(p)
  /\ UNCHANGED <<open, peer, toDev, toApi, late, applied, n>>

\* Mutant: without SO_RCVTIMEO recv() only fails once the connection is gone.
ReceiveFailsReset ==
  /\ Waiting
  /\ peer = "reset"
  /\ late' = late + 1
  /\ Return(call, IF call.op = "Connect" THEN "NO_ERROR" ELSE "WSA_ERROR", rx, late')
  /\ UNCHANGED <<open, peer, toDev, toApi, applied, n>>

\* Mutant: the loop of Trigger goes on when AOV_recData fails.
ReceiveFailsInLoop ==
  /\ Waiting
  /\ peer # "closed"
  /\ \/ toApi = << >> /\ UNCHANGED toApi
     \/ Len(toApi) = 1 /\ toApi' = [toApi EXCEPT ![1].whole = FALSE]
  /\ IF call.op = "Trigger" THEN UNCHANGED <<call, rx, ret, late>>
     ELSE /\ late' = late + 1
          /\ Return(call, IF call.op = "Connect" THEN "NO_ERROR" ELSE "WSA_ERROR", rx, late')
  /\ UNCHANGED <<open, peer, toDev, applied, n>>

\* recv() returns -1: the timeout, or a reset connection.  Nothing has arrived,
\* or only the beginning of a packet.
ReceiveFails ==
  /\ Waiting
  /\ peer # "closed"
  /\ late' = late + 1
  /\ \/ toApi = << >> /\ UNCHANGED toApi
     \/ Len(toApi) = 1 /\ toApi' = [toApi EXCEPT ![1].whole = FALSE]
  /\ Return(call, IF call.op = "Connect" THEN "NO_ERROR" ELSE "WSA_ERROR", rx, late')
  /\ UNCHANGED <<open, peer, toDev, applied, n>>

-----------------------------------------------------------------------------
(* The analyzer *)

\* It carries out requests in order and answers each with one packet, but a
\* WAVE_CHANGE with none.
Answer ==
  /\ peer = "up"
  /\ toDev # << >>
  /\ LET r == Head(toDev)
     IN  \/ /\ r.op = "WaveChange"
            /\ UNCHANGED <<toApi, applied>>
         \/ /\ r.op # "WaveChange"
            /\ \E p \in Answers(r) :
                 /\ toApi' = Append(toApi, p)
                 /\ applied' = IF r.op \in Acked /\ p.b6 = 0 THEN applied \cup {r.id}
                              ELSE applied
  /\ toDev' = Tail(toDev)
  /\ UNCHANGED <<open, peer, call, rx, late, n, ret>>

\* During the sweep of a Trigger it answers that it is busy.
AnswerBusy ==
  /\ peer = "up"
  /\ toDev # << >>
  /\ Head(toDev).op = "Trigger"
  /\ Len(toApi) < MaxBusy
  /\ toApi' = Append(toApi, Ack(Head(toDev), 3))
  /\ UNCHANGED <<open, peer, toDev, call, rx, late, applied, n, ret>>

\* The analyzer closes the connection; a reset also drops what is unread.
Close ==
  /\ peer = "up"
  /\ toDev' = << >>
  /\ \/ peer' = "closed" /\ UNCHANGED toApi
     \/ peer' = "reset" /\ toApi' = << >>
  /\ UNCHANGED <<open, call, rx, late, applied, n, ret>>

-----------------------------------------------------------------------------

Stopped == n = MaxCalls /\ call = Idle /\ UNCHANGED vars

ApiStep ==
  \/ SetAllSettingsRequest
  \/ Receive
  \/ ReceiveRest
  \/ ReceiveEnd
  \/ ReceiveFails

Next ==
  \/ Connect
  \/ Disconnect
  \/ \E op \in Calls : CallNotSent(op)
  \/ \E op \in Calls : CallSent(op)
  \/ ApiStep
  \/ Answer
  \/ AnswerBusy
  \/ Close
  \/ Stopped

\* A call in progress goes on: the thread that made it runs, and recv() returns
\* because of its timeout even if the analyzer never answers.
Spec == Init /\ [][Next]_vars /\ WF_vars(ApiStep)

-----------------------------------------------------------------------------
(* Properties *)

PacketOK(p) == p.b6 \in 0..255 /\ p.id \in Nat \cup {NoId} /\ p.whole \in BOOLEAN

\* Types, and what the ends of a connection can be: a call waits on an open
\* socket only, packets are in flight only over a connection, and requests
\* only towards an analyzer that is up.
TypeOK ==
  /\ open \in BOOLEAN
  /\ peer \in {"none", "up", "closed", "reset"}
  /\ call.op \in Calls \cup {"none", "Connect"} /\ call.id \in 0..n
  /\ call # Idle => open
  /\ \A i \in DOMAIN toApi : PacketOK(toApi[i])
  /\ PacketOK(rx)
  /\ late \in Nat
  /\ applied \subseteq 1..n
  /\ ~open => peer = "none"
  /\ peer # "up" => toDev = << >>
  /\ peer = "none" => toApi = << >>

\* Requests and replies stay in step for as long as no receive has failed on
\* the connection: between two calls nothing is in flight but a change that
\* is not answered, and everything in flight during a call is for that call.
\* Without it a call would take the reply to an earlier one for its own.
InStep ==
  open /\ late = 0 =>
    /\ \A i \in DOMAIN toApi : toApi[i].id = call.id /\ toApi[i].whole
    /\ \A i \in DOMAIN toDev : toDev[i].op # "WaveChange" => toDev[i].id = call.id
    /\ rx.id \in {NoId, call.id}

\* A call that changes something and returns NO_ERROR was carried out, if no
\* receive has failed on the connection and the analyzer has not closed it.
SuccessMeansDone ==
  ret.op \in Acked /\ ret.res = "NO_ERROR" /\ ret.late = 0 /\ ret.rx.id # NoId
    => ret.id \in applied

\* Every call but Trigger returns, whatever the analyzer does or fails to do.
CallsReturn ==
  \A i \in 1..MaxCalls : (call.id = i /\ call.op # "Trigger") ~> (call.id # i)

\* Trigger returns too, if the analyzer comes to the end of every sweep and
\* does not close the connection.
TriggerReturnsIfConnected ==
  WF_vars(Answer) => \A i \in 1..MaxCalls : (call.id = i) ~> (call.id # i \/ peer = "closed")

\* aovspecan.h:514 says of the errors of a setting "Unable to set or verify
\* that the Span was set correctly": without an error it was, at least when the
\* call has read a packet of the analyzer, whole and from its start.
SuccessIsVerified ==
  ret.op \in Acked /\ ret.res = "NO_ERROR" /\ ret.rx.id # NoId => ret.id \in applied

\* aovspecan.h:460 says of Trigger "@return Status of function call": it
\* returns, if the analyzer comes to the end of every sweep.
TriggerReturns ==
  WF_vars(Answer) =>
    \A i \in 1..MaxCalls : (call.id = i /\ call.op = "Trigger") ~> (call.id # i)
=============================================================================
