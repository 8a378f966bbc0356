------------------------------ MODULE Client_proofs ------------------------------
(***************************************************************************)
(* Proofs about the client against the simulator, for any number of        *)
(* connections, responses and requests.                                    *)
(***************************************************************************)
EXTENDS Client, Simulator_proofs, Csw_proofs

\* The simulator keeps its invariant beside the client; a connection that was
\* never opened was never closed.
CInv ==
  /\ SInv
  /\ ClientTypeOK
  /\ \A s \in Socket : side[s] = "none" => closed[s] = "no"

LEMMA InitCInv == ClientInit => CInv
<1> SUFFICES ASSUME ClientInit PROVE CInv
  OBVIOUS
<1>1. SInv
  BY InitSInv DEF ClientInit
<1>2. ClientTypeOK
  BY DEF ClientInit, Init, ClientTypeOK, Side, FIN
<1> QED BY <1>1, <1>2 DEF CInv, ClientInit

\* No event of the client's socket touches what the simulator keeps, though it
\* may end the process.
LEMMA SimulatorKept ==
  ASSUME SInv, alive' \in BOOLEAN,
         UNCHANGED <<server, pendingResponses, waiters, timer, conn, closing, queued, written>>
  PROVE  SInv'
BY ConnChangeKeeps DEF SInv, TypeOK

\* What is in the stream of a connection: requests, and its end last.
Stream(q, c) ==
  /\ q \in Seq(0..MaxRequests)
  /\ \A i \in 1..Len(q) : q[i] = FIN => i = Len(q) /\ c # "no"

LEMMA StreamAppended ==
  ASSUME NEW q, Stream(q, "no"), NEW x \in 0..MaxRequests, NEW c, x = FIN => c # "no"
  PROVE  Stream(Append(q, x), c)
<1>1. q \in Seq(0..MaxRequests) /\ \A i \in 1..Len(q) : q[i] # FIN
  BY DEF Stream
<1>2. /\ Append(q, x) \in Seq(0..MaxRequests) /\ Len(Append(q, x)) = Len(q) + 1
      /\ \A i \in 1..(Len(q) + 1) : Append(q, x)[i] = IF i <= Len(q) THEN q[i] ELSE x
  BY <1>1
<1> QED BY <1>1, <1>2 DEF Stream

LEMMA StreamShortened ==
  ASSUME NEW q, NEW c, Stream(q, c), NEW k \in 1..Len(q)
  PROVE  Stream(SubSeq(q, k + 1, Len(q)), c)
<1> DEFINE t == SubSeq(q, k + 1, Len(q))
<1>1. q \in Seq(0..MaxRequests) /\ \A i \in 1..Len(q) : q[i] = FIN => i = Len(q) /\ c # "no"
  BY DEF Stream
<1>2. /\ t \in Seq(0..MaxRequests) /\ Len(t) = Len(q) - k
      /\ \A i \in 1..(Len(q) - k) : t[i] = q[k + i]
  <2>1. Len(q) \in Nat /\ k \in 1..Len(q) /\ k + 1 \in Int /\ Len(q) \in Int
    BY <1>1
  <2>2. \A i \in (k + 1)..Len(q) : q[i] \in 0..MaxRequests
    <3>1. \A i \in (k + 1)..Len(q) : i \in 1..Len(q)
      BY <2>1
    <3> HIDE DEF t
    <3> QED BY <1>1, <3>1, ElementOfSeq
  <2>3. /\ t \in Seq(0..MaxRequests)
        /\ Len(t) = IF k + 1 <= Len(q) THEN Len(q) - (k + 1) + 1 ELSE 0
        /\ \A i \in 1..(Len(q) - (k + 1) + 1) : t[i] = q[(k + 1) + i - 1]
    BY <2>1, <2>2, SubSeqProperties
  <2> HIDE DEF t
  <2>4. \A i \in 1..(Len(q) - k) : i \in 1..(Len(q) - (k + 1) + 1) /\ (k + 1) + i - 1 = k + i
    BY <2>1
  <2> QED BY <2>1, <2>3, <2>4
<1> HIDE DEF t
<1>3. Stream(t, c)
  BY <1>1, <1>2 DEF Stream
<1> QED BY <1>3 DEF t

\* ClientTypeOK with its part about streams named.
LEMMA StreamsTyped ==
  ASSUME ClientTypeOK
  PROVE  \A s \in Socket : Stream(out[s], closed[s])
BY DEF ClientTypeOK, Stream

LEMMA WriteKeepsStreams ==
  ASSUME ClientTypeOK, socket \in Socket, NEW x \in 0..MaxRequests, Written(socket, x),
         closed' \in [Socket -> {"no", "called", "done"}],
         \A s \in Socket \ {socket} : closed'[s] = closed[s],
         x = FIN => closed'[socket] # "no"
  PROVE  out' \in [Socket -> Seq(0..MaxRequests)] /\ \A s \in Socket : Stream(out'[s], closed'[s])
<1>1. closed[socket] = "no" /\ out \in [Socket -> Seq(0..MaxRequests)]
  BY ClientAssumption DEF ClientTypeOK
<1>2. Stream(out[socket], "no")
  BY <1>1, StreamsTyped
<1>3. Stream(out[socket], closed'[socket])
  BY <1>2 DEF Stream
<1>4. Stream(Append(out[socket], x), closed'[socket])
  BY <1>2, StreamAppended
<1>5. out'[socket] \in {out[socket], Append(out[socket], x)}
      /\ \A s \in Socket \ {socket} : out'[s] = out[s]
  BY <1>1 DEF Written
<1>6. \A s \in Socket : Stream(out'[s], closed'[s])
  BY <1>3, <1>4, <1>5, StreamsTyped
<1>7. out' \in [Socket -> Seq(0..MaxRequests)]
  BY <1>1 DEF Written
<1> QED BY <1>6, <1>7

LEMMA CallsKeep ==
  ASSUME CInv, open \/ writeRaw \/ close
  PROVE  CInv'
<1>1. SInv'
  <2>1. UNCHANGED vars
    BY DEF open, writeRaw, close
  <2> QED BY <2>1, NextKeepsSInv DEF CInv
<1>2. CASE open
  BY <1>1, <1>2, ClientAssumption DEF CInv, ClientTypeOK, open, vars, Side
<1>3. CASE writeRaw
  <2> DEFINE r == Len(made) + 1
  <2>1. socket \in Socket /\ made \in Seq([on : Socket, at : Side \cup {"stuck"}])
    BY <1>3 DEF CInv, ClientTypeOK, writeRaw
  <2>2. r \in 1..MaxRequests
    BY <1>3, <2>1, ClientAssumption DEF writeRaw
  <2>3. Written(socket, r) /\ UNCHANGED <<socket, side, stuck, closed, arrived, conn>>
    BY <1>3 DEF writeRaw, vars
  <2>4. out' \in [Socket -> Seq(0..MaxRequests)] /\ \A s \in Socket : Stream(out'[s], closed'[s])
    <3>1. r \in 0..MaxRequests /\ r # FIN
      BY <2>2 DEF FIN
    <3> HIDE DEF r
    <3> QED BY <2>1, <2>3, <3>1, WriteKeepsStreams DEF CInv, ClientTypeOK
  <2>5. made' \in Seq([on : Socket, at : Side \cup {"stuck"}])
    <3>1. (IF socket \in stuck THEN "stuck" ELSE side[socket]) \in Side \cup {"stuck"}
      BY <2>1 DEF CInv, ClientTypeOK
    <3> QED BY <1>3, <2>1, <3>1 DEF writeRaw
  <2> QED BY <1>1, <2>3, <2>4, <2>5 DEF CInv, ClientTypeOK, Stream
<1>4. CASE close
  <2>1. socket \in Socket /\ side[socket] # "none"
    BY <1>4 DEF CInv, ClientTypeOK, close
  <2>2. Written(socket, FIN) /\ socket' = NoSocket /\ UNCHANGED <<side, stuck, made, arrived, conn>>
    BY <1>4 DEF close, vars
  <2>3. /\ closed' \in [Socket -> {"no", "called", "done"}]
        /\ closed'[socket] \in {"called", "done"}
        /\ \A s \in Socket \ {socket} : closed'[s] = closed[s]
    BY <1>4, <2>1 DEF close, CInv, ClientTypeOK
  <2>4. out' \in [Socket -> Seq(0..MaxRequests)] /\ \A s \in Socket : Stream(out'[s], closed'[s])
    <3>1. FIN \in 0..MaxRequests
      BY ClientAssumption DEF FIN
    <3> QED BY <2>1, <2>2, <2>3, <3>1, WriteKeepsStreams DEF CInv
  <2> QED BY <1>1, <2>1, <2>2, <2>3, <2>4, ClientAssumption DEF CInv, ClientTypeOK, Stream
<1> QED BY <1>2, <1>3, <1>4

LEMMA SocketEventsKeep ==
  ASSUME CInv, NEW s \in Socket, onConnect(s) \/ ConnectFails(s) \/ WriteFails(s) \/ Finish(s)
  PROVE  CInv'
<1>1. SInv'
  BY SimulatorKept DEF CInv, SInv, TypeOK, onConnect, ConnectFails, WriteFails, Finish, vars
<1>2. CASE onConnect(s)
  BY <1>1, <1>2 DEF CInv, ClientTypeOK, onConnect, Side
<1>3. ASSUME ConnectFails(s) \/ WriteFails(s) PROVE CInv'
  <2>1. /\ UNCHANGED <<conn, socket, stuck, made, arrived>>
        /\ side[s] \in {"connecting", "up"} /\ conn[s] = "none"
        /\ side' = [side EXCEPT ![s] = "failed"] /\ out' = [out EXCEPT ![s] = << >>]
        /\ UNCHANGED closed \/ MayCallBack(s)
    <3>1. CASE ConnectFails(s)
      BY <3>1 DEF ConnectFails
    <3>2. CASE WriteFails(s)
      BY <3>2 DEF WriteFails
    <3> QED BY <1>3, <3>1, <3>2
  <2>2. /\ closed' \in [Socket -> {"no", "called", "done"}]
        /\ \A t \in Socket : closed'[t] = "no" <=> closed[t] = "no"
    BY <2>1 DEF CInv, ClientTypeOK, MayCallBack
  <2>3. /\ out' \in [Socket -> Seq(0..MaxRequests)]
        /\ \A t \in Socket : out'[t] = IF t = s THEN << >> ELSE out[t]
    BY <2>1 DEF CInv, ClientTypeOK
  <2>4. /\ side' \in [Socket -> Side]
        /\ \A t \in Socket : side'[t] = IF t = s THEN "failed" ELSE side[t]
    BY <2>1 DEF CInv, ClientTypeOK, Side
  <2>5. \A t \in Socket : Stream(out'[t], closed'[t])
    <3>1. ASSUME NEW c PROVE Stream(<< >>, c)
      BY EmptySeq DEF Stream
    <3>2. ASSUME NEW t \in Socket, t # s PROVE Stream(out'[t], closed'[t])
      <4>1. Stream(out[t], closed[t]) /\ out'[t] = out[t]
        BY <2>3, <3>2, StreamsTyped DEF CInv
      <4> QED BY <2>2, <4>1 DEF Stream
    <3>3. Stream(out'[s], closed'[s])
      BY <2>3, <3>1
    <3> QED BY <3>2, <3>3
  <2> QED BY <1>1, <2>1, <2>2, <2>3, <2>4, <2>5 DEF CInv, ClientTypeOK, Stream
<1>4. CASE Finish(s)
  BY <1>1, <1>4 DEF CInv, ClientTypeOK, Finish, MayCallBack, vars
<1> QED BY <1>2, <1>3, <1>4

LEMMA DeliveryKeeps ==
  ASSUME CInv, NEW s \in Socket, Arrive(s) \/ FinArrives(s)
  PROVE  CInv'
<1>1. SInv'
  BY NextKeepsSInv DEF CInv, Arrive, FinArrives, Next
<1>2. /\ UNCHANGED <<socket, side, stuck, closed, made>>
      /\ side[s] = "up"
      /\ \A t \in Socket : conn'[t] # "none" => t = s \/ conn[t] # "none"
  BY DEF Arrive, FinArrives, Sends, OnData, ClientEnds, CInv, SInv, TypeOK
<1>3. PICK k \in 1..Len(out[s]) :
        /\ out' = [out EXCEPT ![s] = SubSeq(@, k + 1, Len(@))]
        /\ \/ UNCHANGED arrived
           \/ /\ arrived' = arrived \o SubSeq(out[s], 1, k)
              /\ \A i \in 1..k : out[s][i] # FIN
  <2>1. CASE Arrive(s)
    BY <2>1 DEF Arrive
  <2>2. CASE FinArrives(s)
    <3>1. out[s] \in Seq(0..MaxRequests) /\ out[s] # << >>
      BY <2>2 DEF FinArrives, Sends, CInv, ClientTypeOK
    <3>2. 1 \in 1..Len(out[s]) /\ Tail(out[s]) = SubSeq(out[s], 1 + 1, Len(out[s]))
      BY <3>1
    <3> QED BY <2>2, <3>2 DEF FinArrives
  <2> QED BY <2>1, <2>2
<1>4. out[s] \in Seq(0..MaxRequests) /\ out \in [Socket -> Seq(0..MaxRequests)]
  BY DEF CInv, ClientTypeOK
<1>5. Stream(SubSeq(out[s], k + 1, Len(out[s])), closed[s])
  BY StreamsTyped, StreamShortened DEF CInv
<1>6. out' \in [Socket -> Seq(0..MaxRequests)] /\ \A t \in Socket : Stream(out'[t], closed'[t])
  <2>1. \A t \in Socket : out'[t] = IF t = s THEN SubSeq(out[s], k + 1, Len(out[s])) ELSE out[t]
    BY <1>3, <1>4
  <2>2. \A t \in Socket : Stream(out'[t], closed'[t])
    BY <1>2, <1>5, <2>1, StreamsTyped DEF CInv
  <2>3. SubSeq(out[s], k + 1, Len(out[s])) \in Seq(0..MaxRequests)
    BY <1>5 DEF Stream
  <2> QED BY <1>3, <1>4, <2>2, <2>3
<1>7. arrived' \in Seq(1..MaxRequests)
  <2>1. arrived \in Seq(1..MaxRequests)
    BY DEF CInv, ClientTypeOK
  <2>2. ASSUME \A i \in 1..k : out[s][i] # FIN
        PROVE  SubSeq(out[s], 1, k) \in Seq(1..MaxRequests)
    <3>1. Len(out[s]) \in Nat /\ k \in Int /\ 1 \in Int
      BY <1>4
    <3>2. \A i \in 1..k : out[s][i] \in 1..MaxRequests
      BY <1>4, <2>2, ClientAssumption DEF FIN
    <3> QED BY <3>1, <3>2, SubSeqProperties
  <2>3. ASSUME NEW u \in Seq(1..MaxRequests) PROVE arrived \o u \in Seq(1..MaxRequests)
    BY <2>1
  <2> QED BY <1>3, <2>1, <2>2, <2>3
<1> QED BY <1>1, <1>2, <1>6, <1>7 DEF CInv, ClientTypeOK, Stream

LEMMA SimulatorStepsKeep ==
  ASSUME CInv, SimulatorStep \/ (\E s \in Socket : Accept(s))
  PROVE  CInv'
<1>1. SInv'
  BY NextKeepsSInv DEF CInv, SimulatorStep, Accept, Next
<1>2. UNCHANGED clientvars
  BY DEF SimulatorStep, Accept
<1>3. \A s \in Socket : conn'[s] # "none" => side[s] \in {"connecting", "up"}
  <2>1. CASE SimulatorStep
    <3>1. \A s \in Socket : conn'[s] # "none" => conn[s] # "none"
      BY <2>1 DEF SimulatorStep, queueResponse, OnInterval, Destroyed, end, Closed, Dead, vars,
                  CInv, SInv, TypeOK
    <3> QED BY <3>1 DEF CInv, ClientTypeOK
  <2>2. ASSUME NEW t \in Socket, Accept(t)
        PROVE  \A s \in Socket : conn'[s] # "none" => side[s] \in {"connecting", "up"}
    BY <2>2 DEF Accept, OnConnection, connection, CInv, SInv, TypeOK, ClientTypeOK
  <2> QED BY <2>1, <2>2
<1> QED BY <1>1, <1>2, <1>3 DEF CInv, ClientTypeOK, clientvars

LEMMA ClientNextKeeps ==
  ASSUME CInv, [ClientNext]_allvars
  PROVE  CInv'
<1>1. ASSUME UNCHANGED allvars PROVE CInv'
  <2>1. SInv' /\ UNCHANGED clientvars /\ UNCHANGED conn
    BY <1>1, NextKeepsSInv DEF CInv, allvars, vars
  <2> QED BY <2>1 DEF CInv, ClientTypeOK, clientvars
<1> QED BY <1>1, CallsKeep, SocketEventsKeep, DeliveryKeeps, SimulatorStepsKeep DEF ClientNext

THEOREM ClientInductive == ClientSpec => []CInv
<1>1. CInv /\ [ClientNext]_allvars => CInv'
  BY ClientNextKeeps
<1> QED BY InitCInv, <1>1, PTL DEF ClientSpec

-----------------------------------------------------------------------------
(* The order of the requests: what is under way on each connection stands       *)
(* between what was made on it and what the simulator has received              *)

\* What is under way on connection s, q, beside all requests made, m, and arrived,
\* a: in the order made, behind those that have arrived, and, as long as the
\* connection carries what is written (flows), all that have not; once it is up,
\* those only that were made since.
Own(s, q, m) == \A i \in 1..Len(q) : q[i] # FIN => q[i] \in 1..Len(m) /\ m[q[i]].on = s
Rising(q) == \A i, j \in 1..Len(q) : i < j /\ q[j] # FIN => q[i] < q[j]
Later(s, q, m, a) ==
  \A i \in 1..Len(a), j \in 1..Len(q) : m[a[i]].on = s /\ q[j] # FIN => a[i] < q[j]
NoneLost(s, q, m, a) ==
  \A r \in 1..Len(m) : m[r].on = s => \/ \E i \in 1..Len(a) : a[i] = r
                                      \/ \E i \in 1..Len(q) : q[i] = r
SinceUp(q, m) == \A i \in 1..Len(q) : q[i] # FIN => m[q[i]].at = "up"

Ordered(s, q, m, a, flows, up) ==
  /\ Own(s, q, m) /\ Rising(q) /\ Later(s, q, m, a)
  /\ flows => NoneLost(s, q, m, a)
  /\ up => SinceUp(q, m)

\* RequestsInOrder of any requests made and arrived.
InOrder(m, a) ==
  /\ \A i \in 1..Len(a) :
       /\ a[i] \in 1..Len(m) /\ m[a[i]].at = "up"
       /\ \A r \in 1..a[i] : m[r].on = m[a[i]].on => \E k \in 1..i : a[k] = r
  /\ \A i, j \in 1..Len(a) : a[i] = a[j] => i = j

Call == [on : Socket, at : Side \cup {"stuck"}]

LEMMA MadeAppended ==
  ASSUME NEW m \in Seq(Call), NEW rec \in Call
  PROVE  /\ Len(m) \in Nat /\ Len(Append(m, rec)) = Len(m) + 1
         /\ \A r \in 1..Len(m) : Append(m, rec)[r] = m[r]
         /\ Append(m, rec)[Len(m) + 1] = rec
OBVIOUS

LEMMA InOrderRequest ==
  ASSUME NEW m \in Seq(Call), NEW a \in Seq(Nat), InOrder(m, a), NEW rec \in Call
  PROVE  InOrder(Append(m, rec), a)
<1> DEFINE n == Append(m, rec)
<1>1. /\ Len(m) \in Nat /\ Len(n) = Len(m) + 1
      /\ \A r \in 1..Len(m) : n[r] = m[r]
  BY MadeAppended
<1>2. Len(a) \in Nat
  OBVIOUS
<1> HIDE DEF n
<1>3. \A i \in 1..Len(a) : \A r \in 1..a[i] : a[i] \in 1..Len(m) /\ r \in 1..Len(m) /\ n[r] = m[r] /\ n[a[i]] = m[a[i]]
  BY <1>1 DEF InOrder
<1>4. ASSUME NEW i \in 1..Len(a)
      PROVE  a[i] \in 1..Len(n) /\ n[a[i]].at = "up"
  BY <1>1 DEF InOrder
<1> QED
  BY <1>3, <1>4 DEF InOrder, n

\* A request is made on a connection that does not carry it.
LEMMA OrderedMade ==
  ASSUME NEW s \in Socket, NEW q \in Seq(Nat), NEW m \in Seq(Call), NEW a \in Seq(Nat),
         NEW flows \in BOOLEAN, NEW up \in BOOLEAN, Ordered(s, q, m, a, flows, up), InOrder(m, a),
         NEW rec \in Call, rec.on # s \/ ~flows
  PROVE  Ordered(s, q, Append(m, rec), a, flows, up)
<1> DEFINE n == Append(m, rec)
<1>1. /\ Len(m) \in Nat /\ Len(n) = Len(m) + 1
      /\ \A r \in 1..Len(m) : n[r] = m[r]
      /\ n[Len(m) + 1] = rec
  BY MadeAppended
<1> HIDE DEF n
<1>0. /\ Own(s, q, m) /\ Rising(q) /\ Later(s, q, m, a)
      /\ (flows => NoneLost(s, q, m, a)) /\ (up => SinceUp(q, m))
  BY Zenon DEF Ordered
<1>2. /\ \A i \in 1..Len(a) : a[i] \in 1..Len(m) /\ n[a[i]] = m[a[i]]
      /\ \A i \in 1..Len(q) : q[i] # FIN => q[i] \in 1..Len(m) /\ n[q[i]] = m[q[i]]
  BY <1>0, <1>1 DEF InOrder, Own
<1>3. Own(s, q, n)
  <2>1. \A i \in 1..Len(m) : i \in 1..Len(n)
    BY <1>1
  <2> QED
    BY <1>0, <1>2, <2>1, Zenon DEF Own
<1>4. Later(s, q, n, a)
  BY <1>0, <1>2, Zenon DEF Later
<1>5. ASSUME flows, NEW r \in 1..Len(n), n[r].on = s
      PROVE  (\E i \in 1..Len(a) : a[i] = r) \/ (\E i \in 1..Len(q) : q[i] = r)
  <2>1. r \in 1..Len(m)
    BY <1>1, <1>5
  <2> QED
    BY <1>0, <1>1, <1>5, <2>1, Zenon DEF NoneLost
<1>6. up => SinceUp(q, n)
  BY <1>0, <1>2, Zenon DEF SinceUp
<1> QED
  BY <1>0, <1>3, <1>4, <1>5, <1>6, Zenon DEF Ordered, NoneLost, n

\* One is written behind the others.
LEMMA OrderedWritten ==
  ASSUME NEW s \in Socket, NEW q \in Seq(Nat), NEW m \in Seq(Call), NEW a \in Seq(Nat),
         NEW flows \in BOOLEAN, NEW up \in BOOLEAN, Ordered(s, q, m, a, flows, up), InOrder(m, a),
         NEW rec \in Call, rec.on = s, up => rec.at = "up"
  PROVE  Ordered(s, Append(q, Len(m) + 1), Append(m, rec), a, flows, up)
<1> DEFINE n == Append(m, rec)
           p == Append(q, Len(m) + 1)
<1>1. /\ Len(m) \in Nat /\ Len(n) = Len(m) + 1
      /\ \A r \in 1..Len(m) : n[r] = m[r]
      /\ n[Len(m) + 1] = rec
  BY MadeAppended
<1>2. /\ Len(q) \in Nat /\ Len(p) = Len(q) + 1 /\ p[Len(q) + 1] = Len(m) + 1
      /\ \A i \in 1..Len(q) : p[i] = q[i]
  BY <1>1
<1>3. \A i \in 1..Len(q) : q[i] \in Nat
  OBVIOUS
<1> HIDE DEF n, p
<1>0. /\ Own(s, q, m) /\ Rising(q) /\ Later(s, q, m, a)
      /\ (flows => NoneLost(s, q, m, a)) /\ (up => SinceUp(q, m))
  BY Zenon DEF Ordered
<1>4. /\ \A i \in 1..Len(a) : a[i] \in 1..Len(m) /\ n[a[i]] = m[a[i]]
      /\ \A i \in 1..Len(q) : q[i] # FIN => q[i] \in 1..Len(m) /\ n[q[i]] = m[q[i]]
  BY <1>0, <1>1 DEF InOrder, Own
<1>5. \A i \in 1..Len(p) : i \in 1..Len(q) \/ i = Len(q) + 1
  BY <1>2
<1>6. \A i \in 1..Len(p) : p[i] # FIN => p[i] \in 1..Len(n) /\ n[p[i]].on = s
  <2> SUFFICES ASSUME NEW i \in 1..Len(p), p[i] # FIN PROVE p[i] \in 1..Len(n) /\ n[p[i]].on = s
    OBVIOUS
  <2>1. CASE i \in 1..Len(q)
    <3>1. p[i] = q[i] /\ q[i] \in 1..Len(m) /\ n[q[i]] = m[q[i]]
      BY <1>2, <1>4, <2>1
    <3>2. m[q[i]].on = s
      BY <1>0, <2>1, <3>1, Zenon DEF Own
    <3> QED
      BY <1>1, <3>1, <3>2
  <2>2. CASE i = Len(q) + 1
    BY <1>1, <1>2, <2>2
  <2> QED
    BY <1>5, <2>1, <2>2
<1>7. \A i, j \in 1..Len(p) : i < j /\ p[j] # FIN => p[i] < p[j]
  <2> SUFFICES ASSUME NEW i \in 1..Len(p), NEW j \in 1..Len(p), i < j, p[j] # FIN PROVE p[i] < p[j]
    OBVIOUS
  <2>1. i \in 1..Len(q)
    BY <1>2
  <2>2. CASE j \in 1..Len(q)
    BY <1>0, <1>2, <2>1, <2>2 DEF Rising
  <2>3. CASE j = Len(q) + 1
    <3>1. p[i] = q[i] /\ q[i] \in Nat /\ p[j] = Len(m) + 1
      BY <1>2, <1>3, <2>1, <2>3
    <3>2. q[i] # FIN => q[i] \in 1..Len(m)
      BY <1>4, <2>1
    <3> QED
      BY <1>1, <3>1, <3>2 DEF FIN
  <2> QED
    BY <1>5, <2>2, <2>3
<1>8. \A i \in 1..Len(a), j \in 1..Len(p) : n[a[i]].on = s /\ p[j] # FIN => a[i] < p[j]
  <2> SUFFICES ASSUME NEW i \in 1..Len(a), NEW j \in 1..Len(p), n[a[i]].on = s, p[j] # FIN
               PROVE  a[i] < p[j]
    OBVIOUS
  <2>1. a[i] \in 1..Len(m) /\ m[a[i]].on = s
    BY <1>4
  <2>2. CASE j \in 1..Len(q)
    BY <1>0, <1>2, <2>1, <2>2 DEF Later
  <2>3. CASE j = Len(q) + 1
    BY <1>1, <1>2, <2>1, <2>3
  <2> QED
    BY <1>5, <2>2, <2>3
<1>9. ASSUME flows, NEW r \in 1..Len(n), n[r].on = s
      PROVE  (\E i \in 1..Len(a) : a[i] = r) \/ (\E i \in 1..Len(p) : p[i] = r)
  <2>1. CASE r \in 1..Len(m)
    <3>1. (\E i \in 1..Len(a) : a[i] = r) \/ (\E i \in 1..Len(q) : q[i] = r)
      BY <1>0, <1>1, <1>9, <2>1, Zenon DEF NoneLost
    <3>2. \A i \in 1..Len(q) : i \in 1..Len(p) /\ p[i] = q[i]
      BY <1>2
    <3> QED
      BY <3>1, <3>2
  <2>2. CASE r = Len(m) + 1
    <3>1. Len(q) + 1 \in 1..Len(p)
      BY <1>2
    <3> QED
      BY <1>2, <2>2, <3>1
  <2> QED
    BY <1>1, <2>1, <2>2
<1>10. ASSUME up, NEW i \in 1..Len(p), p[i] # FIN PROVE n[p[i]].at = "up"
  <2>1. CASE i \in 1..Len(q)
    BY <1>0, <1>2, <1>4, <1>10, <2>1, Zenon DEF SinceUp
  <2>2. CASE i = Len(q) + 1
    BY <1>1, <1>2, <1>10, <2>2
  <2> QED
    BY <1>5, <2>1, <2>2
<1> QED
  BY <1>6, <1>7, <1>8, <1>9, <1>10 DEF Ordered, Own, Rising, Later, NoneLost, SinceUp, n, p

\* The end is written behind them.
LEMMA OrderedEnded ==
  ASSUME NEW s \in Socket, NEW q \in Seq(Nat), NEW m \in Seq(Call), NEW a \in Seq(Nat),
         NEW flows, NEW up, Ordered(s, q, m, a, flows, up)
  PROVE  Ordered(s, Append(q, FIN), m, a, flows, up)
<1> DEFINE p == Append(q, FIN)
<1>1. /\ Len(q) \in Nat /\ Len(p) = Len(q) + 1 /\ p[Len(q) + 1] = FIN
      /\ \A i \in 1..Len(q) : p[i] = q[i]
  BY DEF FIN
<1> HIDE DEF p
<1>2. \A i \in 1..Len(p) : p[i] # FIN => i \in 1..Len(q) /\ p[i] = q[i]
  BY <1>1
<1>3. \A i \in 1..Len(q) : i \in 1..Len(p) /\ p[i] = q[i]
  BY <1>1
<1>4. \A i, j \in 1..Len(p) : i < j /\ p[j] # FIN => p[i] < p[j]
  <2> SUFFICES ASSUME NEW i \in 1..Len(p), NEW j \in 1..Len(p), i < j, p[j] # FIN PROVE p[i] < p[j]
    OBVIOUS
  <2>1. j \in 1..Len(q) /\ i \in 1..Len(q)
    BY <1>1, <1>2
  <2> QED
    BY <1>1, <2>1 DEF Ordered, Own, Rising, Later, NoneLost, SinceUp
<1>5. \A i \in 1..Len(p) : p[i] # FIN => p[i] \in 1..Len(m) /\ m[p[i]].on = s
  BY <1>2 DEF Ordered, Own, Rising, Later, NoneLost, SinceUp
<1>6. \A i \in 1..Len(a), j \in 1..Len(p) : m[a[i]].on = s /\ p[j] # FIN => a[i] < p[j]
  BY <1>2 DEF Ordered, Own, Rising, Later, NoneLost, SinceUp
<1>7. flows => \A r \in 1..Len(m) :
                m[r].on = s => (\E i \in 1..Len(a) : a[i] = r) \/ (\E i \in 1..Len(p) : p[i] = r)
  BY <1>3 DEF Ordered, Own, Rising, Later, NoneLost, SinceUp
<1>8. up => \A i \in 1..Len(p) : p[i] # FIN => m[p[i]].at = "up"
  BY <1>2 DEF Ordered, Own, Rising, Later, NoneLost, SinceUp
<1> QED
  BY <1>4, <1>5, <1>6, <1>7, <1>8 DEF Ordered, Own, Rising, Later, NoneLost, SinceUp, p

\* What is under way is lost, or there is nothing when the connection comes up.
LEMMA OrderedEmpty ==
  ASSUME NEW s \in Socket, NEW q \in Seq(Nat), NEW m \in Seq(Call), NEW a \in Seq(Nat),
         NEW flows \in BOOLEAN, NEW up \in BOOLEAN, Ordered(s, q, m, a, flows, up),
         NEW carries \in BOOLEAN, carries => flows
  PROVE  /\ Ordered(s, << >>, m, a, FALSE, FALSE)
         /\ Ordered(s, q, m, a, carries, FALSE)
         /\ q = << >> => Ordered(s, q, m, a, carries, TRUE)
<1>1. Len(<< >>) = 0 /\ 1..0 = {}
  OBVIOUS
<1>2. Ordered(s, << >>, m, a, FALSE, FALSE)
  BY <1>1, Zenon DEF Ordered, Own, Rising, Later, NoneLost, SinceUp
<1>3. Ordered(s, q, m, a, carries, FALSE)
  BY Zenon DEF Ordered
<1>4. ASSUME q = << >> PROVE Ordered(s, q, m, a, carries, TRUE)
  <2>1. \A i \in 1..Len(q) : m[q[i]].at = "up"
    BY <1>1, <1>4, Zenon
  <2> QED
    BY <2>1, Zenon DEF Ordered, Own, Rising, Later, NoneLost, SinceUp
<1> QED
  BY <1>2, <1>3, <1>4

\* Requests arrive: the first k of q go behind a.
Delivers(q, a, k, p, b) ==
  /\ k \in 1..Len(q) /\ \A i \in 1..k : q[i] # FIN
  /\ p \in Seq(Nat) /\ Len(p) = Len(q) - k /\ \A i \in 1..Len(p) : p[i] = q[k + i]
  /\ b \in Seq(Nat) /\ Len(b) = Len(a) + k
  /\ \A i \in 1..Len(a) : b[i] = a[i]
  /\ \A i \in 1..k : b[Len(a) + i] = q[i]

\* The places of the requests in what has arrived and in what is still under way.
BehindOf(q, a, k, b) ==
  \A i \in 1..Len(b) : \/ i \in 1..Len(a) /\ b[i] = a[i]
                       \/ \E c \in 1..k : i = Len(a) + c /\ b[i] = q[c]
AheadOf(q, a, k, b) ==
  /\ \A i \in 1..Len(a) : i \in 1..Len(b) /\ b[i] = a[i]
  /\ \A c \in 1..k : Len(a) + c \in 1..Len(b) /\ b[Len(a) + c] = q[c]
RestOf(q, k, p) ==
  /\ \A i \in 1..Len(p) : k + i \in 1..Len(q) /\ p[i] = q[k + i]
  /\ \A j \in 1..Len(q) : j > k => \E i \in 1..Len(p) : j = k + i /\ p[i] = q[j]

LEMMA DeliveredPlaces ==
  ASSUME NEW q \in Seq(Nat), NEW a \in Seq(Nat), NEW k, NEW p, NEW b, Delivers(q, a, k, p, b)
  PROVE  /\ Len(a) \in Nat /\ Len(q) \in Nat /\ k \in Nat /\ k <= Len(q)
         /\ BehindOf(q, a, k, b) /\ AheadOf(q, a, k, b) /\ RestOf(q, k, p)
<1>1. Len(a) \in Nat /\ Len(q) \in Nat /\ k \in Nat /\ k <= Len(q)
  BY DEF Delivers
<1>2. Len(p) = Len(q) - k /\ Len(b) = Len(a) + k
  BY DEF Delivers
<1>3. /\ \A i \in 1..Len(p) : p[i] = q[k + i]
      /\ \A i \in 1..Len(a) : b[i] = a[i]
      /\ \A i \in 1..k : b[Len(a) + i] = q[i]
  BY Zenon DEF Delivers
<1>4. BehindOf(q, a, k, b)
  <2> SUFFICES ASSUME NEW i \in 1..Len(b)
               PROVE  \/ i \in 1..Len(a) /\ b[i] = a[i]
                      \/ \E c \in 1..k : i = Len(a) + c /\ b[i] = q[c]
    BY DEF BehindOf
  <2>1. CASE i \in 1..Len(a)
    BY <1>3, <2>1
  <2>2. CASE i \notin 1..Len(a)
    <3>1. i - Len(a) \in 1..k /\ i = Len(a) + (i - Len(a))
      BY <1>1, <1>2, <2>2
    <3>2. PICK c \in 1..k : i = Len(a) + c
      BY <3>1, Zenon
    <3> QED
      BY <1>3, <3>2
  <2> QED
    BY <2>1, <2>2
<1>5. AheadOf(q, a, k, b)
  <2>1. \A i \in 1..Len(a) : i \in 1..Len(b)
    BY <1>1, <1>2
  <2>2. \A c \in 1..k : Len(a) + c \in 1..Len(b)
    BY <1>1, <1>2
  <2> QED
    BY <1>3, <2>1, <2>2, Zenon DEF AheadOf
<1>6. RestOf(q, k, p)
  <2>1. \A i \in 1..Len(p) : k + i \in 1..Len(q)
    BY <1>1, <1>2
  <2>2. ASSUME NEW j \in 1..Len(q), j > k
        PROVE  \E i \in 1..Len(p) : j = k + i /\ p[i] = q[j]
    <3>1. j - k \in 1..Len(p) /\ j = k + (j - k)
      BY <1>1, <1>2, <2>2
    <3>2. PICK i \in 1..Len(p) : j = k + i
      BY <3>1, Zenon
    <3> QED
      BY <1>3, <3>2, Zenon
  <2> QED
    BY <1>3, <2>1, <2>2, Zenon DEF RestOf
<1> QED
  BY <1>1, <1>4, <1>5, <1>6, Zenon

LEMMA OrderedDelivered ==
  ASSUME NEW s \in Socket, NEW q \in Seq(Nat), NEW m \in Seq(Call), NEW a \in Seq(Nat),
         NEW flows \in BOOLEAN, NEW up \in BOOLEAN, Ordered(s, q, m, a, flows, up),
         NEW k, NEW p, NEW b, Delivers(q, a, k, p, b)
  PROVE  Ordered(s, p, m, b, flows, up)
<1>0. /\ Own(s, q, m) /\ Rising(q) /\ Later(s, q, m, a)
      /\ (flows => NoneLost(s, q, m, a)) /\ (up => SinceUp(q, m))
  BY Zenon DEF Ordered
<1>1. Len(a) \in Nat /\ Len(q) \in Nat /\ k \in Nat /\ k <= Len(q)
  BY DeliveredPlaces
<1>2. /\ \A i \in 1..Len(b) : \/ i \in 1..Len(a) /\ b[i] = a[i]
                              \/ \E c \in 1..k : i = Len(a) + c /\ b[i] = q[c]
      /\ \A i \in 1..Len(a) : i \in 1..Len(b) /\ b[i] = a[i]
      /\ \A c \in 1..k : Len(a) + c \in 1..Len(b) /\ b[Len(a) + c] = q[c]
  BY DeliveredPlaces DEF BehindOf, AheadOf
<1>3. /\ \A i \in 1..Len(p) : k + i \in 1..Len(q) /\ p[i] = q[k + i]
      /\ \A j \in 1..Len(q) : j > k => \E i \in 1..Len(p) : j = k + i /\ p[i] = q[j]
  BY DeliveredPlaces DEF RestOf
<1>4. \A i \in 1..Len(p) : \E c \in 1..Len(q) : p[i] = q[c]
  BY <1>3, Zenon
<1>9. Own(s, p, m)
  BY <1>0, <1>4, Zenon DEF Own
<1>5. Rising(p)
  <2> SUFFICES ASSUME NEW i \in 1..Len(p), NEW j \in 1..Len(p), i < j, p[j] # FIN PROVE p[i] < p[j]
    BY DEF Rising
  <2>1. k + i \in 1..Len(q) /\ k + j \in 1..Len(q) /\ p[i] = q[k + i] /\ p[j] = q[k + j]
    BY <1>3, Zenon
  <2>2. k + i < k + j
    BY <1>1
  <2> QED
    BY <1>0, <2>1, <2>2, Zenon DEF Rising
<1>6. Later(s, p, m, b)
  <2> SUFFICES ASSUME NEW i \in 1..Len(b), NEW j \in 1..Len(p), m[b[i]].on = s, p[j] # FIN
               PROVE  b[i] < p[j]
    BY DEF Later
  <2>1. k + j \in 1..Len(q) /\ p[j] = q[k + j]
    BY <1>3, Zenon
  <2>2. CASE i \in 1..Len(a) /\ b[i] = a[i]
    BY <1>0, <2>1, <2>2, Zenon DEF Later
  <2>3. ASSUME NEW c \in 1..k, b[i] = q[c] PROVE b[i] < p[j]
    <3>1. c \in 1..Len(q) /\ c < k + j
      BY <1>1
    <3> QED
      BY <1>0, <2>1, <2>3, <3>1, Zenon DEF Rising
  <2> QED
    BY <1>2, <2>2, <2>3, Zenon
<1>7. ASSUME flows, NEW r \in 1..Len(m), m[r].on = s
      PROVE  (\E i \in 1..Len(b) : b[i] = r) \/ (\E i \in 1..Len(p) : p[i] = r)
  <2>1. CASE \E i \in 1..Len(a) : a[i] = r
    BY <1>2, <2>1, Zenon
  <2>2. ASSUME NEW j \in 1..Len(q), q[j] = r
        PROVE  (\E i \in 1..Len(b) : b[i] = r) \/ (\E i \in 1..Len(p) : p[i] = r)
    <3>1. j > k \/ j \in 1..k
      BY <1>1
    <3> QED
      BY <1>2, <1>3, <2>2, <3>1, Zenon
  <2> QED
    BY <1>0, <1>7, <2>1, <2>2, Zenon DEF NoneLost
<1>8. up => SinceUp(p, m)
  BY <1>0, <1>4, Zenon DEF SinceUp
<1> QED
  BY <1>4, <1>5, <1>6, <1>7, <1>8, <1>9, Zenon DEF Ordered, NoneLost

\* What arrives on one connection is nothing of another.
LEMMA OrderedBeside ==
  ASSUME NEW s \in Socket, NEW q \in Seq(Nat), NEW m \in Seq(Call), NEW a \in Seq(Nat),
         NEW flows \in BOOLEAN, NEW up \in BOOLEAN, Ordered(s, q, m, a, flows, up),
         NEW t \in Socket, t # s, NEW u, NEW fl \in BOOLEAN, NEW upt \in BOOLEAN,
         Ordered(t, u, m, a, fl, upt),
         NEW k, NEW p, NEW b, Delivers(q, a, k, p, b)
  PROVE  Ordered(t, u, m, b, fl, upt)
<1>0. Own(s, q, m) /\ Later(t, u, m, a) /\ (fl => NoneLost(t, u, m, a))
  BY Zenon DEF Ordered
<1>1. Len(a) \in Nat /\ Len(q) \in Nat /\ k \in Nat /\ k <= Len(q)
  BY DeliveredPlaces
<1>2. /\ \A i \in 1..Len(b) : \/ i \in 1..Len(a) /\ b[i] = a[i]
                              \/ \E c \in 1..k : i = Len(a) + c /\ b[i] = q[c]
      /\ \A i \in 1..Len(a) : i \in 1..Len(b) /\ b[i] = a[i]
  BY DeliveredPlaces DEF BehindOf, AheadOf
<1>3. \A c \in 1..k : q[c] # FIN /\ m[q[c]].on = s
  <2>1. \A c \in 1..k : c \in 1..Len(q)
    BY <1>1
  <2>2. \A c \in 1..k : q[c] # FIN
    BY Zenon DEF Delivers
  <2> QED
    BY <1>0, <2>1, <2>2, Zenon DEF Own
<1>4. Later(t, u, m, b)
  <2> SUFFICES ASSUME NEW i \in 1..Len(b), NEW j \in 1..Len(u), m[b[i]].on = t, u[j] # FIN
               PROVE  b[i] < u[j]
    BY DEF Later
  <2>1. ~\E c \in 1..k : b[i] = q[c]
    BY <1>3
  <2>2. i \in 1..Len(a) /\ b[i] = a[i]
    BY <1>2, <2>1, Zenon
  <2> QED
    BY <1>0, <2>2, Zenon DEF Later
<1>5. fl => NoneLost(t, u, m, b)
  BY <1>0, <1>2, Zenon DEF NoneLost
<1> QED
  BY <1>4, <1>5, Zenon DEF Ordered

LEMMA NumbersBelow ==
  \A n \in Nat : \A v \in 1..n : \A r \in 1..v :
    r \in 1..n /\ r <= v /\ r \in Nat /\ v \in Nat /\ r # FIN
BY DEF FIN

\* What is received stays in order.
LEMMA InOrderDelivered ==
  ASSUME NEW s \in Socket, NEW q \in Seq(Nat), NEW m \in Seq(Call), NEW a \in Seq(Nat),
         Ordered(s, q, m, a, TRUE, TRUE), InOrder(m, a),
         NEW k, NEW p, NEW b, Delivers(q, a, k, p, b)
  PROVE  InOrder(m, b)
<1>0. /\ Own(s, q, m) /\ Rising(q) /\ Later(s, q, m, a) /\ NoneLost(s, q, m, a) /\ SinceUp(q, m)
  BY Zenon DEF Ordered
<1>1. Len(a) \in Nat /\ Len(q) \in Nat /\ k \in Nat /\ k <= Len(q) /\ Len(m) \in Nat
  BY DeliveredPlaces
<1>2. /\ \A i \in 1..Len(b) : \/ i \in 1..Len(a) /\ b[i] = a[i]
                              \/ \E c \in 1..k : i = Len(a) + c /\ b[i] = q[c]
      /\ \A i \in 1..Len(a) : i \in 1..Len(b) /\ b[i] = a[i]
      /\ \A c \in 1..k : Len(a) + c \in 1..Len(b) /\ b[Len(a) + c] = q[c]
  BY DeliveredPlaces DEF BehindOf, AheadOf
<1>3. \A c \in 1..k : c \in 1..Len(q)
  BY <1>1
<1>4. \A c \in 1..k : q[c] # FIN
  BY Zenon DEF Delivers
<1>5. \A c \in 1..k : q[c] \in 1..Len(m) /\ m[q[c]].on = s /\ m[q[c]].at = "up"
  BY <1>0, <1>3, <1>4, Zenon DEF Own, SinceUp
<1>6. \A i \in 1..Len(a) : a[i] \in 1..Len(m) /\ m[a[i]].at = "up"
  BY Zenon DEF InOrder
<1>7. \A i \in 1..Len(b) : b[i] \in 1..Len(m) /\ m[b[i]].at = "up"
  <2> SUFFICES ASSUME NEW i \in 1..Len(b) PROVE b[i] \in 1..Len(m) /\ m[b[i]].at = "up"
    OBVIOUS
  <2>1. CASE i \in 1..Len(a) /\ b[i] = a[i]
    BY <1>6, <2>1
  <2>2. ASSUME NEW c \in 1..k, b[i] = q[c] PROVE b[i] \in 1..Len(m) /\ m[b[i]].at = "up"
    BY <1>5, <2>2
  <2> QED
    BY <1>2, <2>1, <2>2, Zenon
<1>8. ASSUME NEW i \in 1..Len(b), NEW r \in 1..b[i], m[r].on = m[b[i]].on
      PROVE  \E n \in 1..i : b[n] = r
  <2>1. CASE i \in 1..Len(a) /\ b[i] = a[i]
    <3>0. r \in 1..a[i] /\ m[r].on = m[a[i]].on
      BY <1>8, <2>1
    <3>1. PICK n \in 1..i : a[n] = r
      BY <2>1, <3>0, Zenon DEF InOrder
    <3>2. n \in 1..Len(a)
      BY <1>1, <2>1
    <3> QED
      BY <1>2, <3>1, <3>2, Zenon
  <2>2. ASSUME NEW c \in 1..k, i = Len(a) + c, b[i] = q[c]
        PROVE  \E n \in 1..i : b[n] = r
    <3>1. q[c] \in 1..Len(m) /\ m[q[c]].on = s
      BY <1>5, Zenon
    <3>2. r \in 1..Len(m) /\ r <= q[c] /\ r \in Nat /\ q[c] \in Nat /\ r # FIN
      <4>1. r \in 1..q[c]
        BY <2>2, Zenon
      <4> QED
        BY <1>1, <3>1, <4>1, NumbersBelow, Zenon
    <3>3. m[r].on = s
      BY <1>8, <2>2, <3>1, Zenon
    <3>4. CASE \E n \in 1..Len(a) : a[n] = r
      <4>1. PICK n \in 1..Len(a) : a[n] = r
        BY <3>4, Zenon
      <4>2. n \in 1..i
        BY <1>1, <2>2
      <4> QED
        BY <1>2, <4>1, <4>2, Zenon
    <3>5. CASE \E d \in 1..Len(q) : q[d] = r
      <4>1. PICK d \in 1..Len(q) : q[d] = r
        BY <3>5, Zenon
      <4>2. ASSUME c < d PROVE FALSE
        <5>1. c \in 1..Len(q) /\ q[d] # FIN
          BY <1>3, <3>2, <4>1, Zenon
        <5>2. q[c] < q[d]
          BY <1>0, <4>2, <5>1, Zenon DEF Rising
        <5> QED
          BY <3>2, <4>1, <5>2
      <4>3. d \in 1..k /\ Len(a) + d \in 1..i
        BY <1>1, <2>2, <4>2
      <4> QED
        BY <1>2, <4>1, <4>3, Zenon
    <3> QED
      BY <1>0, <3>2, <3>3, <3>4, <3>5, Zenon DEF NoneLost
  <2> QED
    BY <1>2, <2>1, <2>2, Zenon
<1>9. ASSUME NEW i \in 1..Len(b), NEW j \in 1..Len(b), i < j PROVE b[i] # b[j]
  <2>1. CASE j \in 1..Len(a) /\ b[j] = a[j]
    <3>1. i \in 1..Len(a) /\ i # j
      BY <1>1, <1>9, <2>1
    <3>2. b[i] = a[i]
      BY <1>2, <3>1, Zenon
    <3> QED
      BY <2>1, <3>1, <3>2, Zenon DEF InOrder
  <2>2. ASSUME NEW d \in 1..k, j = Len(a) + d, b[j] = q[d] PROVE b[i] # b[j]
    <3>1. q[d] \in Nat /\ d \in 1..Len(q) /\ q[d] # FIN /\ m[q[d]].on = s
      BY <1>1, <1>3, <1>4, <1>5
    <3>2. CASE i \in 1..Len(a) /\ b[i] = a[i]
      <4>1. m[a[i]].on = s => a[i] < q[d]
        BY <1>0, <3>1, <3>2, Zenon DEF Later
      <4>2. ~(q[d] < q[d])
        BY <3>1
      <4>3. a[i] # q[d]
        BY <3>1, <4>1, <4>2, Zenon
      <4> QED
        BY <2>2, <3>2, <4>3, Zenon
    <3>3. ASSUME NEW c \in 1..k, i = Len(a) + c, b[i] = q[c] PROVE b[i] # b[j]
      <4>1. c < d
        BY <1>1, <1>9, <2>2, <3>3
      <4>2. c \in 1..Len(q)
        BY <1>3, Zenon
      <4>3. q[c] < q[d]
        BY <1>0, <3>1, <4>1, <4>2, Zenon DEF Rising
      <4>4. q[c] \in Nat
        BY <4>2
      <4> QED
        BY <2>2, <3>1, <3>3, <4>3, <4>4
    <3> QED
      BY <1>2, <3>2, <3>3, Zenon
  <2> QED
    BY <1>2, <2>1, <2>2, Zenon
<1>10. ASSUME NEW i \in 1..Len(b), NEW j \in 1..Len(b), b[i] = b[j] PROVE i = j
  <2>1. i < j \/ j < i \/ i = j
    BY DEF Delivers
  <2> QED
    BY <1>9, <1>10, <2>1, Zenon
<1> QED
  BY <1>7, <1>8, <1>10, Zenon DEF InOrder

\* The end arrives, with nothing before or behind it.
LEMMA OrderedAtEnd ==
  ASSUME NEW s \in Socket, NEW q \in Seq(Nat), NEW m \in Seq(Call), NEW a \in Seq(Nat),
         NEW flows \in BOOLEAN, NEW up \in BOOLEAN, Ordered(s, q, m, a, flows, up),
         Len(q) = 1, q[1] = FIN
  PROVE  Ordered(s, << >>, m, a, flows, up)
<1>1. Len(<< >>) = 0 /\ 1..0 = {}
  OBVIOUS
<1>2. Own(s, << >>, m) /\ Rising(<< >>) /\ Later(s, << >>, m, a) /\ SinceUp(<< >>, m)
  BY <1>1, Zenon DEF Own, Rising, Later, SinceUp
<1>3. \A r \in 1..Len(m) : ~\E i \in 1..Len(q) : q[i] = r
  BY DEF FIN
<1>4. flows => NoneLost(s, q, m, a)
  BY Zenon DEF Ordered
<1>5. flows => NoneLost(s, << >>, m, a)
  BY <1>3, <1>4, Zenon DEF NoneLost
<1> QED
  BY <1>2, <1>5, Zenon DEF Ordered

\* The connection has lost nothing; what is written to it goes out.
Lossless(s) == side[s] # "failed" /\ s \notin stuck
Runs(s) == side[s] = "up" /\ s \notin stuck

\* Each connection is in order, and so are the requests received.
OrderInv ==
  /\ RequestsInOrder
  /\ \A s \in Socket : Ordered(s, out[s], made, arrived, Lossless(s), Runs(s))

LEMMA OrderTyped ==
  ASSUME ClientTypeOK
  PROVE  /\ \A s \in Socket : out[s] \in Seq(Nat)
         /\ made \in Seq(Call) /\ arrived \in Seq(Nat)
BY ClientAssumption DEF ClientTypeOK, Call

LEMMA InitOrder == ClientInit => OrderInv
<1> SUFFICES ASSUME ClientInit PROVE OrderInv
  OBVIOUS
<1>1. made = << >> /\ arrived = << >> /\ Len(<< >>) = 0 /\ 1..0 = {}
  BY DEF ClientInit
<1>2. \A s \in Socket : out[s] = << >>
  BY DEF ClientInit
<1>3. RequestsInOrder
  BY <1>1, Zenon DEF RequestsInOrder
<1>4. ASSUME NEW s \in Socket
      PROVE  /\ Own(s, << >>, << >>) /\ Rising(<< >>) /\ Later(s, << >>, << >>, << >>)
             /\ NoneLost(s, << >>, << >>, << >>) /\ SinceUp(<< >>, << >>)
  BY <1>1, Zenon DEF Own, Rising, Later, NoneLost, SinceUp
<1> QED
  BY <1>1, <1>2, <1>3, <1>4, Zenon DEF OrderInv, Ordered

\* Nothing is written, received or lost.
LEMMA OrderUnchanged ==
  ASSUME OrderInv, UNCHANGED <<out, made, arrived>>,
         \A s \in Socket : (Lossless(s)' => Lossless(s)) /\ (Runs(s)' => Runs(s) \/ out[s] = << >>)
  PROVE  OrderInv'
<1>1. RequestsInOrder'
  BY DEF OrderInv, RequestsInOrder
<1>2. ASSUME NEW s \in Socket PROVE Ordered(s, out[s], made, arrived, Lossless(s), Runs(s))'
  <2>1. Ordered(s, out[s], made, arrived, Lossless(s), Runs(s))
    BY DEF OrderInv
  <2>2. out[s] = << >> => SinceUp(out[s], made)
    BY DEF SinceUp
  <2> QED
    BY <2>1, <2>2 DEF Ordered
<1> QED
  BY <1>1, <1>2, Zenon DEF OrderInv

LEMMA OpenKeepsOrder ==
  ASSUME CInv, OrderInv, open
  PROVE  OrderInv'
<1>1. UNCHANGED <<out, made, arrived, stuck>>
  BY DEF open
<1>2. \A s \in Socket : (Lossless(s)' => Lossless(s)) /\ (Runs(s)' => Runs(s))
  BY <1>1 DEF open, CInv, ClientTypeOK, Lossless, Runs
<1> QED
  BY <1>1, <1>2, OrderUnchanged

LEMMA RequestKeepsOrder ==
  ASSUME CInv, OrderInv, writeRaw
  PROVE  OrderInv'
<1> DEFINE at == IF socket \in stuck THEN "stuck" ELSE side[socket]
           rec == [on |-> socket, at |-> at]
<1>1. /\ socket \in Socket /\ UNCHANGED <<side, stuck, arrived>>
      /\ made' = Append(made, rec) /\ Written(socket, Len(made) + 1)
  BY DEF writeRaw, CInv, ClientTypeOK
<1>2. rec \in Call /\ rec.on = socket
  BY <1>1 DEF CInv, ClientTypeOK, Call
<1>3. /\ made \in Seq(Call) /\ arrived \in Seq(Nat) /\ \A s \in Socket : out[s] \in Seq(Nat)
      /\ out \in [Socket -> Seq(0..MaxRequests)]
  BY OrderTyped DEF CInv, ClientTypeOK
<1>4. Runs(socket) => rec.at = "up"
  BY DEF Runs
<1> HIDE DEF rec
<1>5. InOrder(made, arrived)
  BY DEF OrderInv, RequestsInOrder, InOrder
<1>6. InOrder(made', arrived')
  BY <1>1, <1>2, <1>3, <1>5, InOrderRequest
<1>7. RequestsInOrder'
  BY <1>6 DEF InOrder, RequestsInOrder
<1>8. ASSUME NEW s \in Socket PROVE Ordered(s, out[s], made, arrived, Lossless(s), Runs(s))'
  <2>1. Ordered(s, out[s], made, arrived, Lossless(s), Runs(s))
    BY DEF OrderInv
  <2>2. /\ Lossless(s) \in BOOLEAN /\ Runs(s) \in BOOLEAN
        /\ Lossless(s)' = Lossless(s) /\ Runs(s)' = Runs(s)
    BY <1>1 DEF Lossless, Runs
  <2>3. CASE s # socket \/ side[s] = "failed"
    <3>1. out'[s] = out[s] /\ (rec.on # s \/ ~Lossless(s))
      BY <1>1, <1>2, <1>3, <2>3 DEF Written, Lossless
    <3> QED
      BY <1>1, <1>2, <1>3, <1>5, <2>1, <2>2, <3>1, OrderedMade
  <2>4. CASE s = socket /\ side[s] # "failed"
    <3>1. out'[s] = Append(out[s], Len(made) + 1)
      BY <1>1, <1>3, <2>4 DEF Written
    <3> QED
      BY <1>1, <1>2, <1>3, <1>4, <1>5, <2>1, <2>2, <2>4, <3>1, OrderedWritten
  <2> QED
    BY <2>3, <2>4
<1> QED
  BY <1>7, <1>8, Zenon DEF OrderInv

LEMMA CloseKeepsOrder ==
  ASSUME CInv, OrderInv, close
  PROVE  OrderInv'
<1>1. /\ socket \in Socket /\ UNCHANGED <<side, stuck, made, arrived>>
      /\ Written(socket, FIN)
  BY DEF close, CInv, ClientTypeOK
<1>2. /\ made \in Seq(Call) /\ arrived \in Seq(Nat) /\ \A s \in Socket : out[s] \in Seq(Nat)
      /\ out \in [Socket -> Seq(0..MaxRequests)]
  BY OrderTyped DEF CInv, ClientTypeOK
<1>3. RequestsInOrder'
  BY <1>1 DEF OrderInv, RequestsInOrder
<1>4. ASSUME NEW s \in Socket PROVE Ordered(s, out[s], made, arrived, Lossless(s), Runs(s))'
  <2>1. Ordered(s, out[s], made, arrived, Lossless(s), Runs(s))
    BY DEF OrderInv
  <2>2. Lossless(s)' = Lossless(s) /\ Runs(s)' = Runs(s)
    BY <1>1 DEF Lossless, Runs
  <2>3. out'[s] = out[s] \/ out'[s] = Append(out[s], FIN)
    BY <1>1, <1>2 DEF Written
  <2>4. Ordered(s, Append(out[s], FIN), made, arrived, Lossless(s), Runs(s))
    BY <1>2, <2>1, OrderedEnded
  <2> QED
    BY <1>1, <2>1, <2>2, <2>3, <2>4
<1> QED
  BY <1>3, <1>4, Zenon DEF OrderInv

LEMMA ConnectKeepsOrder ==
  ASSUME CInv, OrderInv, NEW s \in Socket, onConnect(s)
  PROVE  OrderInv'
<1>1. /\ UNCHANGED <<out, made, arrived>> /\ side[s] = "connecting"
      /\ side' = [side EXCEPT ![s] = "up"]
      /\ stuck' = IF out[s] = << >> THEN stuck ELSE stuck \cup {s}
  BY DEF onConnect
<1>2. side \in [Socket -> Side]
  BY DEF CInv, ClientTypeOK
<1>3. ASSUME NEW t \in Socket
      PROVE  (Lossless(t)' => Lossless(t)) /\ (Runs(t)' => Runs(t) \/ out[t] = << >>)
  BY <1>1, <1>2 DEF Lossless, Runs
<1> QED
  BY <1>1, <1>3, OrderUnchanged

LEMMA FailureKeepsOrder ==
  ASSUME CInv, OrderInv, NEW s \in Socket, ConnectFails(s) \/ WriteFails(s)
  PROVE  OrderInv'
<1>1. /\ UNCHANGED <<stuck, made, arrived>>
      /\ side' = [side EXCEPT ![s] = "failed"] /\ out' = [out EXCEPT ![s] = << >>]
  BY DEF ConnectFails, WriteFails
<1>2. /\ side \in [Socket -> Side] /\ out \in [Socket -> Seq(0..MaxRequests)]
      /\ made \in Seq(Call) /\ arrived \in Seq(Nat) /\ \A t \in Socket : out[t] \in Seq(Nat)
  BY OrderTyped DEF CInv, ClientTypeOK
<1>3. RequestsInOrder'
  BY <1>1 DEF OrderInv, RequestsInOrder
<1>4. ASSUME NEW t \in Socket PROVE Ordered(t, out[t], made, arrived, Lossless(t), Runs(t))'
  <2>1. Ordered(t, out[t], made, arrived, Lossless(t), Runs(t))
    BY DEF OrderInv
  <2>2. CASE t # s
    <3>1. out'[t] = out[t] /\ Lossless(t)' = Lossless(t) /\ Runs(t)' = Runs(t)
      BY <1>1, <1>2, <2>2 DEF Lossless, Runs
    <3> QED
      BY <1>1, <2>1, <3>1
  <2>3. CASE t = s
    <3>1. out'[t] = << >> /\ Lossless(t)' = FALSE /\ Runs(t)' = FALSE
      BY <1>1, <1>2, <2>3 DEF Lossless, Runs
    <3>2. Lossless(t) \in BOOLEAN /\ Runs(t) \in BOOLEAN
      BY DEF Lossless, Runs
    <3>3. Ordered(t, << >>, made, arrived, FALSE, FALSE)
      BY <1>2, <2>1, <3>2, OrderedEmpty
    <3> QED
      BY <1>1, <3>1, <3>3
  <2> QED
    BY <2>2, <2>3
<1> QED
  BY <1>3, <1>4, Zenon DEF OrderInv

LEMMA Joined ==
  ASSUME NEW a \in Seq(Nat), NEW u \in Seq(Nat)
  PROVE  /\ a \o u \in Seq(Nat) /\ Len(a \o u) = Len(a) + Len(u)
         /\ \A i \in 1..Len(a) : (a \o u)[i] = a[i]
         /\ \A i \in 1..Len(u) : (a \o u)[Len(a) + i] = u[i]
OBVIOUS

LEMMA DeliveredFrom ==
  ASSUME NEW q \in Seq(Nat), NEW a \in Seq(Nat), NEW k \in 1..Len(q),
         \A i \in 1..k : q[i] # FIN
  PROVE  Delivers(q, a, k, SubSeq(q, k + 1, Len(q)), a \o SubSeq(q, 1, k))
<1> DEFINE p == SubSeq(q, k + 1, Len(q))
           u == SubSeq(q, 1, k)
           b == a \o u
<1>1. Len(q) \in Nat /\ k \in Nat /\ k <= Len(q) /\ Len(a) \in Nat
  OBVIOUS
<1>2. p \in Seq(Nat) /\ Len(p) = Len(q) - k /\ \A i \in 1..Len(p) : p[i] = q[k + i]
  <2>1. \A i \in (k + 1)..Len(q) : q[i] \in Nat
    BY <1>1
  <2>2. /\ p \in Seq(Nat)
        /\ Len(p) = IF k + 1 <= Len(q) THEN Len(q) - (k + 1) + 1 ELSE 0
        /\ \A i \in 1..(Len(q) - (k + 1) + 1) : p[i] = q[(k + 1) + i - 1]
    BY <1>1, <2>1, SubSeqProperties
  <2> HIDE DEF p
  <2>3. Len(p) = Len(q) - k
    BY <1>1, <2>2
  <2>4. \A i \in 1..Len(p) : i \in 1..(Len(q) - (k + 1) + 1) /\ (k + 1) + i - 1 = k + i
    BY <1>1, <2>3
  <2> QED
    BY <2>2, <2>3, <2>4
<1>3. u \in Seq(Nat) /\ Len(u) = k /\ \A i \in 1..k : u[i] = q[i]
  <2>1. \A i \in 1..k : q[i] \in Nat
    BY <1>1
  <2>2. /\ u \in Seq(Nat)
        /\ Len(u) = IF 1 <= k THEN k - 1 + 1 ELSE 0
        /\ \A i \in 1..(k - 1 + 1) : u[i] = q[1 + i - 1]
    BY <1>1, <2>1, SubSeqProperties
  <2> HIDE DEF u
  <2>3. \A i \in 1..k : i \in 1..(k - 1 + 1) /\ 1 + i - 1 = i
    BY <1>1
  <2> QED
    BY <1>1, <2>2, <2>3
<1> HIDE DEF u
<1>4. /\ b \in Seq(Nat) /\ Len(b) = Len(a) + k
      /\ \A i \in 1..Len(a) : b[i] = a[i]
      /\ \A i \in 1..k : b[Len(a) + i] = u[i]
  BY <1>1, <1>3, Joined
<1> HIDE DEF b, p
<1>5. \A i \in 1..k : b[Len(a) + i] = q[i]
  BY <1>3, <1>4
<1>6. Delivers(q, a, k, p, b)
  BY <1>2, <1>4, <1>5, Zenon DEF Delivers
<1> QED
  BY <1>6 DEF p, b, u

LEMMA ArrivalKeepsOrder ==
  ASSUME CInv, OrderInv, NEW s \in Socket, Arrive(s)
  PROVE  OrderInv'
<1>1. PICK k \in 1..Len(out[s]) :
        /\ \A i \in 1..k : out[s][i] # FIN
        /\ arrived' = arrived \o SubSeq(out[s], 1, k)
        /\ out' = [out EXCEPT ![s] = SubSeq(@, k + 1, Len(@))]
  BY DEF Arrive
<1>2. /\ out \in [Socket -> Seq(0..MaxRequests)]
      /\ made \in Seq(Call) /\ arrived \in Seq(Nat) /\ \A t \in Socket : out[t] \in Seq(Nat)
  BY OrderTyped DEF CInv, ClientTypeOK
<1>3. UNCHANGED <<side, stuck, made>> /\ Runs(s) = TRUE /\ Lossless(s) = TRUE
  BY DEF Arrive, Sends, Runs, Lossless
<1>4. \A t \in Socket : /\ Runs(t) \in BOOLEAN /\ Lossless(t) \in BOOLEAN
                        /\ Runs(t)' = Runs(t) /\ Lossless(t)' = Lossless(t)
  BY <1>3 DEF Runs, Lossless
<1>5. \A t \in Socket : Ordered(t, out[t], made, arrived, Lossless(t), Runs(t))
  BY DEF OrderInv
<1>6. /\ out'[s] = SubSeq(out[s], k + 1, Len(out[s]))
      /\ \A t \in Socket : t # s => out'[t] = out[t]
  BY <1>1, <1>2
<1>7. Delivers(out[s], arrived, k, out'[s], arrived')
  BY <1>1, <1>2, <1>6, DeliveredFrom
<1>8. InOrder(made, arrived)
  BY DEF OrderInv, RequestsInOrder, InOrder
<1>9. InOrder(made, arrived')
  BY <1>2, <1>3, <1>5, <1>7, <1>8, InOrderDelivered
<1>10. RequestsInOrder'
  BY <1>3, <1>9 DEF InOrder, RequestsInOrder
<1>11. Ordered(s, out'[s], made, arrived', Lossless(s), Runs(s))
  BY <1>2, <1>4, <1>5, <1>7, OrderedDelivered
<1>12. ASSUME NEW t \in Socket, t # s
       PROVE  Ordered(t, out'[t], made, arrived', Lossless(t), Runs(t))
  <2>1. Ordered(t, out[t], made, arrived', Lossless(t), Runs(t))
    BY <1>2, <1>4, <1>5, <1>7, <1>12, OrderedBeside
  <2> QED
    BY <1>6, <1>12, <2>1
<1> QED
  BY <1>3, <1>4, <1>10, <1>11, <1>12 DEF OrderInv

LEMMA FinKeepsOrder ==
  ASSUME CInv, OrderInv, NEW s \in Socket, FinArrives(s)
  PROVE  OrderInv'
<1>1. /\ Head(out[s]) = FIN /\ out[s] # << >> /\ out' = [out EXCEPT ![s] = Tail(@)]
      /\ UNCHANGED <<side, stuck, made, arrived>>
  BY DEF FinArrives, Sends
<1>2. /\ out \in [Socket -> Seq(0..MaxRequests)]
      /\ made \in Seq(Call) /\ arrived \in Seq(Nat) /\ \A t \in Socket : out[t] \in Seq(Nat)
  BY OrderTyped DEF CInv, ClientTypeOK
<1>3. Len(out[s]) = 1 /\ out[s][1] = FIN
  <2>1. out[s][1] = FIN /\ 1 \in 1..Len(out[s])
    BY <1>1, <1>2
  <2> QED
    BY <2>1 DEF CInv, ClientTypeOK
<1>4. out'[s] = << >> /\ \A t \in Socket : t # s => out'[t] = out[t]
  <2>1. ASSUME NEW q \in Seq(Nat), Len(q) = 1 PROVE Tail(q) = << >>
    <3>1. Tail(q) \in Seq(Nat) /\ Len(Tail(q)) = 0
      BY <2>1
    <3> QED
      BY <3>1, EmptySeq
  <2>2. /\ out'[s] = Tail(out[s])
        /\ \A t \in Socket : t # s => out'[t] = out[t]
    BY <1>1, <1>2
  <2> QED
    BY <1>2, <1>3, <2>1, <2>2
<1>5. \A t \in Socket : /\ Runs(t) \in BOOLEAN /\ Lossless(t) \in BOOLEAN
                        /\ Runs(t)' = Runs(t) /\ Lossless(t)' = Lossless(t)
  BY <1>1 DEF Runs, Lossless
<1>6. \A t \in Socket : Ordered(t, out[t], made, arrived, Lossless(t), Runs(t))
  BY DEF OrderInv
<1>7. Ordered(s, << >>, made, arrived, Lossless(s), Runs(s))
  BY <1>2, <1>3, <1>5, <1>6, OrderedAtEnd
<1>8. RequestsInOrder'
  BY <1>1 DEF OrderInv, RequestsInOrder
<1> QED
  BY <1>1, <1>4, <1>5, <1>6, <1>7, <1>8 DEF OrderInv

LEMMA OrderKept ==
  ASSUME CInv, OrderInv, [ClientNext]_allvars
  PROVE  OrderInv'
<1>1. ASSUME UNCHANGED <<side, stuck, out, made, arrived>> PROVE OrderInv'
  <2>1. \A s \in Socket : (Lossless(s)' => Lossless(s)) /\ (Runs(s)' => Runs(s))
    BY <1>1 DEF Lossless, Runs
  <2> QED
    BY <1>1, <2>1, OrderUnchanged
<1>2. ASSUME NEW s \in Socket, Accept(s) \/ Finish(s) PROVE OrderInv'
  BY <1>1, <1>2 DEF Accept, Finish, clientvars
<1>3. CASE SimulatorStep \/ UNCHANGED allvars
  BY <1>1, <1>3 DEF SimulatorStep, allvars, clientvars
<1> QED
  BY <1>2, <1>3, OpenKeepsOrder, RequestKeepsOrder, CloseKeepsOrder, ConnectKeepsOrder,
     FailureKeepsOrder, ArrivalKeepsOrder, FinKeepsOrder DEF ClientNext

\* The client's fields, its sockets and the requests under way agree, and what a
\* request writes reaches the simulator in the order of the calls, each once, and
\* none past one that was lost, however often the client is opened and closed and
\* whatever fails.
THEOREM ClientStaysConsistent == ClientSpec => []ClientConsistent
<1>1. CInv /\ OrderInv /\ [ClientNext]_allvars => CInv' /\ OrderInv'
  BY ClientNextKeeps, OrderKept
<1>2. CInv /\ OrderInv => ClientConsistent
  BY DEF CInv, OrderInv, ClientConsistent
<1> QED
  BY InitCInv, InitOrder, <1>1, <1>2, PTL DEF ClientSpec

\* The simulator writes each response once and in order, and end finds every
\* timer, against the client too, whatever exception the client's events throw.
THEOREM BenchWrittenOnce == ClientSpec => [](OnceInOrder /\ TimersKept)
<1>1. CInv => OnceInOrder /\ TimersKept
  BY DEF CInv, SInv
<1> QED BY ClientInductive, <1>1, PTL

\* Every argument of lib/request.js:88, inside its range or outside, is read at the
\* other end as it was asked for, or as the replacement of lib/request.js:89-93 (a
\* default for 0), of lib/csw.js:72 (3 MHz for a bandwidth not listed), :63 (none for
\* RESERVED) or :159 (a number without its exponent), or is not accepted; and it is
\* accepted exactly if Holds.
THEOREM ChangesReadBack == ClientSpec => []ChangeReadBack
<1>1. ChangeReadBack
  <2>1. \A a \in ChangeArgs : ChangeReads(a)
    BY ChangesRead, ArgsAssumption
  <2> QED
    BY <2>1 DEF ChangeReadBack
<1> QED
  BY <1>1, PTL

\* In a stream of bytes each response and each request is cut at its own end, with
\* any bytes in its body and any bytes behind it: lib/response.js:168 and 198.
THEOREM PacketsCutWhole == ClientSpec => []PacketsWhole
<1>1. PacketsWhole
  <2>1. ASSUME NEW next \in Behind
        PROVE  /\ \A DTYPE \in {7, 13, 9, 8, 96}, body \in Bodies : CutsResponse(DTYPE, body, next)
               /\ CutsRequests(next)
    <3>1. next \in Seq(Byte)
      BY StreamAssumption
    <3>2. \A body \in Bodies : body \in Seq(Byte)
      BY StreamAssumption
    <3>3. \A DTYPE : \A body \in Bodies : CutsResponse(DTYPE, body, next)
      BY <3>1, <3>2, ResponsesCut, Zenon
    <3> QED
      BY <3>1, <3>3, RequestsCut, Zenon
  <2> QED
    BY <2>1, Zenon DEF PacketsWhole
<1> QED
  BY <1>1, PTL
=============================================================================
