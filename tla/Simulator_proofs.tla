---------------------------- MODULE Simulator_proofs ----------------------------
(***************************************************************************)
(* Proofs about the simulator, for any number of connections and any       *)
(* responses.                                                              *)
(***************************************************************************)
EXTENDS Simulator, SequenceTheorems, TLAPS

Write == [to : Socket, buf : Response, at : ConnState]

LEMMA BuffersType ==
  ASSUME NEW w \in Seq(Write)
  PROVE  Buffers(w) \in Seq(Response) /\ Len(Buffers(w)) = Len(w)
<1>1. \A i \in 1..Len(w) : w[i].buf \in Response
  <2>1. \A i \in 1..Len(w) : w[i] \in Write
    OBVIOUS
  <2> QED BY <2>1 DEF Write
<1> QED BY <1>1 DEF Buffers

\* Appending writes appends their buffers.
LEMMA BuffersAppended ==
  ASSUME NEW w \in Seq(Write), NEW q \in Seq(Response), NEW n \in Seq(Write),
         Len(n) = Len(q), \A i \in 1..Len(q) : n[i].buf = q[i]
  PROVE  w \o n \in Seq(Write) /\ Buffers(w \o n) = Buffers(w) \o q
<1> DEFINE v == w \o n
           b == Buffers(w)
<1>0. Len(w) \in Nat /\ Len(q) \in Nat
  BY LenProperties
<1>1. /\ v \in Seq(Write) /\ Len(v) = Len(w) + Len(q)
      /\ \A i \in 1..(Len(w) + Len(q)) : v[i] = IF i <= Len(w) THEN w[i] ELSE n[i - Len(w)]
  <2>1. v \in Seq(Write) /\ Len(v) = Len(w) + Len(n)
    BY ConcatProperties, Zenon
  <2>2. \A i \in 1..(Len(w) + Len(n)) : v[i] = IF i <= Len(w) THEN w[i] ELSE n[i - Len(w)]
    BY ConcatProperties
  <2> QED BY <2>1, <2>2
<1>2. b \in Seq(Response) /\ Len(b) = Len(w) /\ \A i \in 1..Len(w) : b[i] = w[i].buf
  BY BuffersType DEF Buffers
<1>3. /\ Buffers(v) \in Seq(Response) /\ Len(Buffers(v)) = Len(w) + Len(q)
      /\ \A i \in 1..(Len(w) + Len(q)) : Buffers(v)[i] = v[i].buf
  BY <1>1, BuffersType DEF Buffers
<1> HIDE DEF v, b
<1>4. /\ b \o q \in Seq(Response) /\ Len(b \o q) = Len(w) + Len(q)
      /\ \A i \in 1..(Len(w) + Len(q)) : (b \o q)[i] = IF i <= Len(w) THEN b[i] ELSE q[i - Len(w)]
  <2>1. b \o q \in Seq(Response) /\ Len(b \o q) = Len(b) + Len(q)
    BY <1>2, ConcatProperties, Zenon
  <2>2. \A i \in 1..(Len(b) + Len(q)) : (b \o q)[i] = IF i <= Len(b) THEN b[i] ELSE q[i - Len(b)]
    BY <1>2, ConcatProperties, Zenon
  <2> QED BY <1>2, <2>1, <2>2
<1>6. ASSUME NEW i \in 1..(Len(w) + Len(q)) PROVE Buffers(v)[i] = (b \o q)[i]
  <2>1. CASE i <= Len(w)
    <3>1. i \in 1..Len(w)
      BY <1>0, <2>1
    <3> QED BY <1>1, <1>2, <1>3, <1>4, <2>1, <3>1
  <2>2. CASE ~(i <= Len(w))
    <3>1. i - Len(w) \in 1..Len(q)
      BY <1>0, <2>2
    <3> QED BY <1>1, <1>3, <1>4, <2>2, <3>1
  <2> QED BY <2>1, <2>2
<1>7. Buffers(v) = b \o q
  BY <1>3, <1>4, <1>6, SeqEqual
<1> QED BY <1>1, <1>7 DEF v, b

\* The writes of one drain.
LEMMA WritesType ==
  ASSUME NEW s \in Socket, NEW q \in Seq(Response), conn[s] \in ConnState
  PROVE  /\ Writes(s, q) \in Seq(Write) /\ Len(Writes(s, q)) = Len(q)
         /\ \A i \in 1..Len(q) : Writes(s, q)[i].buf = q[i]
<1>1. \A i \in 1..Len(q) : [to |-> s, buf |-> q[i], at |-> conn[s]] \in Write
  BY DEF Write
<1> QED BY <1>1 DEF Writes

\* Type correctness, the order of the writes, and the timers; a connection that
\* has not been made has no timer, which is why one is never kept twice.
SInv ==
  /\ TypeOK
  /\ written \in Seq(Write)
  /\ queued \in Seq(Response)
  /\ OnceInOrder
  /\ TimersKept
  /\ \A s \in timer : conn[s] # "none"

LEMMA InitSInv == Init => SInv
<1> SUFFICES ASSUME Init PROVE SInv
  OBVIOUS
<1>1. TypeOK /\ written \in Seq(Write) /\ queued \in Seq(Response)
  BY DEF Init, TypeOK, ConnState
<1>2. OnceInOrder
  BY DEF Init, OnceInOrder, Buffers
<1>3. TimersKept /\ \A s \in timer : conn[s] # "none"
  BY DEF Init, TimersKept
<1> QED BY <1>1, <1>2, <1>3 DEF SInv

\* TimersKept of any timers, waiters and server.
TimersMatch(t, w, up) ==
  /\ t = {w[i] : i \in 1..Len(w)}
  /\ \A i, j \in 1..Len(w) : w[i] = w[j] => i = j
  /\ up \/ t = {}

LEMMA TimersUntouched ==
  ASSUME TimersKept, UNCHANGED <<timer, waiters, server>>
  PROVE  TimersKept'
<1>1. TimersMatch(timer, waiters, server)
  BY DEF TimersKept, TimersMatch
<1>2. TimersMatch(timer', waiters', server')
  BY <1>1
<1> QED BY <1>2 DEF TimersKept, TimersMatch

\* The callbacks that drain the queue.
LEMMA DrainKeeps ==
  ASSUME SInv, NEW s \in Socket, processResponseQueue(s), alive, Survives(s),
         UNCHANGED <<server, waiters, timer, conn, closing, queued>>
  PROVE  SInv'
<1>1. conn[s] \in ConnState
  BY DEF SInv, TypeOK
<1>2. pendingResponses \in Seq(Response) /\ written \in Seq(Write)
  BY DEF SInv, TypeOK
<1>3. written' \in Seq(Write) /\ Buffers(written') = Buffers(written) \o pendingResponses
  <2> DEFINE n == Writes(s, pendingResponses)
  <2>1. /\ n \in Seq(Write) /\ Len(n) = Len(pendingResponses)
        /\ \A i \in 1..Len(pendingResponses) : n[i].buf = pendingResponses[i]
    BY <1>1, <1>2, WritesType
  <2>2. written' = written \o n
    BY DEF processResponseQueue
  <2> HIDE DEF n
  <2> QED BY <1>2, <2>1, <2>2, BuffersAppended
<1>4. OnceInOrder' /\ TypeOK'
  <2>1. Buffers(written') \o << >> = Buffers(written')
    BY <1>3, BuffersType
  <2>2. OnceInOrder'
    BY <1>3, <2>1 DEF SInv, OnceInOrder, processResponseQueue
  <2>3. alive' \in BOOLEAN
    BY DEF SInv, TypeOK, Survives
  <2>4. pendingResponses' \in Seq(Response)
    BY DEF processResponseQueue
  <2> QED BY <2>2, <2>3, <2>4 DEF SInv, TypeOK
<1>5. TimersKept' /\ (\A t \in timer : conn[t] # "none")'
  <2>1. TimersKept /\ \A t \in timer : conn[t] # "none"
    BY DEF SInv
  <2>2. UNCHANGED <<server, waiters, timer, conn>>
    OBVIOUS
  <2> QED BY <2>1, <2>2, TimersUntouched
<1> QED BY <1>3, <1>4, <1>5 DEF SInv

LEMMA QueueKeeps ==
  ASSUME SInv, NEW form, NEW r \in Response, queueResponse(form, r)
  PROVE  SInv'
<1>1. /\ pendingResponses' = Append(pendingResponses, r) /\ queued' = Append(queued, r)
      /\ UNCHANGED <<server, waiters, timer, conn, closing, alive, written>>
  BY DEF queueResponse, Queued
<1>2. Buffers(written) \in Seq(Response)
  BY BuffersType DEF SInv
<1>3. OnceInOrder'
  <2>1. Buffers(written) \o Append(pendingResponses, r)
          = Append(Buffers(written) \o pendingResponses, r)
    BY <1>2 DEF SInv, TypeOK
  <2> QED BY <1>1, <2>1 DEF SInv, OnceInOrder
<1>4. TypeOK' /\ queued' \in Seq(Response)
  BY <1>1 DEF SInv, TypeOK
<1>5. TimersKept' /\ (\A t \in timer : conn[t] # "none")'
  BY <1>1, TimersUntouched DEF SInv
<1> QED BY <1>1, <1>3, <1>4, <1>5 DEF SInv

LEMMA ConnectionKeeps ==
  ASSUME SInv, NEW s \in Socket, OnConnection(s)
  PROVE  SInv'
<1>1. /\ conn[s] = "none" /\ server
      /\ conn' = [conn EXCEPT ![s] = "open"]
      /\ timer' = timer \cup {s}
      /\ waiters' = Append(waiters, s)
      /\ UNCHANGED <<server, pendingResponses, closing, alive, queued, written>>
  BY DEF OnConnection, connection
<1>2. TypeOK'
  BY <1>1 DEF SInv, TypeOK, ConnState
<1>3. s \notin timer /\ timer = {waiters[i] : i \in 1..Len(waiters)} /\ waiters \in Seq(Socket)
  BY <1>1 DEF SInv, TypeOK, TimersKept
<1>4. Len(waiters') = Len(waiters) + 1
      /\ \A i \in 1..Len(waiters') : waiters'[i] = IF i <= Len(waiters) THEN waiters[i] ELSE s
  BY <1>1, <1>3
<1>5. TimersKept'
  <2>1. timer' = {waiters'[i] : i \in 1..Len(waiters')}
    BY <1>1, <1>3, <1>4
  <2>2. \A i, j \in 1..Len(waiters') : waiters'[i] = waiters'[j] => i = j
    BY <1>3, <1>4 DEF SInv, TimersKept
  <2> QED BY <1>1, <2>1, <2>2 DEF TimersKept
<1>6. (\A t \in timer : conn[t] # "none")'
  BY <1>1 DEF SInv, TypeOK
<1> QED BY <1>1, <1>2, <1>5, <1>6 DEF SInv, OnceInOrder

LEMMA EndKeeps ==
  ASSUME SInv, end
  PROVE  SInv'
<1>1. /\ timer' = {} /\ waiters' = << >> /\ ~server'
      /\ UNCHANGED <<pendingResponses, conn, alive, queued, written>>
  BY DEF SInv, TimersKept, end, clearIntervals
<1>2. TypeOK'
  <2>1. closing' \in {"no", "called", "done"} /\ server' \in BOOLEAN
    BY DEF SInv, TypeOK, end
  <2>2. waiters' \in Seq(Socket) /\ timer' \subseteq Socket
    BY <1>1
  <2> QED BY <1>1, <2>1, <2>2 DEF SInv, TypeOK
<1>3. TimersKept'
  BY <1>1 DEF TimersKept
<1> QED BY <1>1, <1>2, <1>3 DEF SInv, OnceInOrder

\* What Node does to a connection, and the stutter: nothing the simulator keeps.
LEMMA ConnChangeKeeps ==
  ASSUME SInv, UNCHANGED <<server, pendingResponses, waiters, timer, queued, written>>,
         alive' \in BOOLEAN, closing' \in {"no", "called", "done"},
         conn' \in [Socket -> ConnState],
         \A s \in Socket : conn[s] # "none" => conn'[s] # "none"
  PROVE  SInv'
<1>1. TypeOK'
  BY DEF SInv, TypeOK
<1>2. TimersKept'
  BY TimersUntouched DEF SInv
<1>4. OnceInOrder'
  BY DEF SInv, OnceInOrder
<1>3. (\A t \in timer : conn[t] # "none")'
  BY DEF SInv, TypeOK
<1> QED BY <1>1, <1>2, <1>3, <1>4 DEF SInv

LEMMA NextKeepsSInv ==
  ASSUME SInv, [Next]_vars
  PROVE  SInv'
<1>1. ASSUME NEW form, NEW r \in Response, queueResponse(form, r) PROVE SInv'
  BY <1>1, QueueKeeps
<1>2. ASSUME NEW s \in Socket, OnConnection(s) PROVE SInv'
  BY <1>2, ConnectionKeeps
<1>3. ASSUME NEW s \in Socket, OnData(s) PROVE SInv'
  BY <1>3, DrainKeeps DEF OnData
<1>4. ASSUME NEW s \in Socket, OnInterval(s) PROVE SInv'
  BY <1>4, DrainKeeps DEF OnInterval
<1>5. ASSUME NEW s \in Socket, ClientEnds(s) \/ Destroyed(s) \/ ClientResets(s) PROVE SInv'
  <2>1. /\ UNCHANGED <<server, pendingResponses, waiters, timer, queued, written>>
        /\ alive' \in BOOLEAN /\ closing' \in {"no", "called", "done"}
    BY <1>5 DEF ClientEnds, Destroyed, ClientResets, SInv, TypeOK
  <2>2. /\ conn' \in [Socket -> ConnState]
        /\ \A t \in Socket : conn[t] # "none" => conn'[t] # "none"
    BY <1>5 DEF ClientEnds, Destroyed, ClientResets, SInv, TypeOK, ConnState
  <2> QED BY <2>1, <2>2, ConnChangeKeeps
<1>6. CASE end
  BY <1>6, EndKeeps
<1>7. CASE Closed \/ UNCHANGED vars
  <2>1. /\ UNCHANGED <<server, pendingResponses, waiters, timer, conn, queued, written>>
        /\ alive' \in BOOLEAN /\ closing' \in {"no", "called", "done"}
    BY <1>7 DEF Closed, vars, SInv, TypeOK
  <2> QED BY <2>1, ConnChangeKeeps DEF SInv, TypeOK
<1> QED BY <1>1, <1>2, <1>3, <1>4, <1>5, <1>6, <1>7 DEF Next, Dead

THEOREM SimulatorInductive == Spec => []SInv
<1>1. SInv /\ [Next]_vars => SInv'
  BY NextKeepsSInv
<1> QED BY InitSInv, <1>1, PTL DEF Spec

\* However many connections drain the queue in whatever order, each response is
\* written once and in the order of the queue.
THEOREM WrittenOnce == Spec => []OnceInOrder
<1>1. SInv => OnceInOrder
  BY DEF SInv
<1> QED BY SimulatorInductive, <1>1, PTL

\* end finds every timer that runs; after it none does.
THEOREM TimersCleared == Spec => []TimersKept
<1>1. SInv => TimersKept
  BY DEF SInv
<1> QED BY SimulatorInductive, <1>1, PTL

\* The queue holds Buffers only.
THEOREM SimulatorTypes == Spec => []TypeOK
<1>1. SInv => TypeOK
  BY DEF SInv
<1> QED BY SimulatorInductive, <1>1, PTL
=============================================================================
