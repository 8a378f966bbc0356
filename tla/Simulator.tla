------------------------------- MODULE Simulator -------------------------------
(***************************************************************************)
(* The simulator of an analyzer (lib/simulator.js).  Whoever tests against *)
(* it queues responses; the simulator writes whatever is queued to the     *)
(* connection that sends it data, and to each connection on a timer.  The  *)
(* queue is one for all connections.                                       *)
(*                                                                         *)
(* Node runs one callback at a time, so one action is one callback: an     *)
(* event of the server, of a connection or of a timer, or a call of the    *)
(* test.  The sockets are Node's; of their behaviour the model has what    *)
(* the callbacks meet: writes to a socket that has been closed are lost,   *)
(* and an 'error' event, which nothing here listens to, ends the process.  *)
(***************************************************************************)
EXTENDS Integers, Sequences

CONSTANTS
  Socket,      \* the connections clients may open, each once
  Response,    \* the buffers that may be queued
  MaxQueued    \* bound on the responses ever queued (model checking only)

ASSUME MaxQueuedAssumption == MaxQueued \in Nat

VARIABLES
  server,           \* this.server is not null
  pendingResponses, \* the queue
  waiters,          \* the timers kept for end, named by their connection
  timer,            \* the connections whose interval is running
  conn,             \* Node's view of each connection
  closing,          \* server.close: "no", "called", or "done" with its callback
  alive,            \* no 'error' event has ended the process
  queued,           \* history: all responses ever queued
  written           \* history: the writes, in order: connection, response, state

vars == <<server, pendingResponses, waiters, timer, conn, closing, alive, queued, written>>

\* "ending": the client's FIN has come and the socket is shutting down.
ConnState == {"none", "open", "ending", "closed"}

Init ==
  /\ server = TRUE
  /\ pendingResponses = << >>
  /\ waiters = << >>
  /\ timer = {}
  /\ conn = [s \in Socket |-> "none"]
  /\ closing = "no"
  /\ alive = TRUE
  /\ queued = << >>
  /\ written = << >>

\* Mutant: a string is queued as it is.
QueuedUnconverted(form, r) ==
  pendingResponses' = Append(pendingResponses, IF form = "hex" THEN <<form, r>> ELSE r)

\* Of a string of hex digits the bytes are queued, a Buffer as it is.
Queued(form, r) == pendingResponses' = Append(pendingResponses, r)

\* A response is passed as the string or as the Buffer of its bytes.
queueResponse(form, r) ==
  /\ alive
  /\ Len(queued) < MaxQueued
  /\ Queued(form, r)
  /\ queued' = Append(queued, r)
  /\ UNCHANGED <<server, waiters, timer, conn, closing, alive, written>>

\* A write of each buffer of q to connection s.
Writes(s, q) == [i \in 1..Len(q) |-> [to |-> s, buf |-> q[i], at |-> conn[s]]]

\* Mutant: what is written stays in the queue.
processKeepsQueue(s) ==
  /\ UNCHANGED pendingResponses
  /\ written' = written \o Writes(s, pendingResponses)

\* The whole queue goes to one connection, whatever state it is in.
processResponseQueue(s) ==
  /\ pendingResponses' = << >>
  /\ written' = written \o Writes(s, pendingResponses)

\* The process survives a write unless the socket is shutting down: that is an
\* 'error' event, if the socket is not gone by then.
Survives(s) ==
  IF conn[s] = "ending" /\ pendingResponses # << >> THEN alive' \in BOOLEAN ELSE UNCHANGED alive

\* Mutant: the timer is not kept for end.
connectionNotKept(s) ==
  /\ conn' = [conn EXCEPT ![s] = "open"]
  /\ timer' = timer \cup {s}
  /\ UNCHANGED waiters

\* What the 'connection' callback does.
connection(s) ==
  /\ conn' = [conn EXCEPT ![s] = "open"]
  /\ timer' = timer \cup {s}
  /\ waiters' = Append(waiters, s)

\* A client connects.
OnConnection(s) ==
  /\ alive
  /\ server
  /\ conn[s] = "none"
  /\ connection(s)
  /\ UNCHANGED <<server, pendingResponses, closing, alive, queued, written>>

\* The 'data' callback, also after end: the data itself is only logged.
OnData(s) ==
  /\ alive
  /\ conn[s] = "open"
  /\ processResponseQueue(s)
  /\ Survives(s)
  /\ UNCHANGED <<server, waiters, timer, conn, closing, queued>>

\* Mutant: a timeout instead of an interval.
OnTimeout(s) ==
  /\ alive
  /\ s \in timer
  /\ processResponseQueue(s)
  /\ Survives(s)
  /\ timer' = timer \ {s}
  /\ UNCHANGED <<server, waiters, conn, closing, queued>>

\* The interval callback; the timer outlives its connection.
OnInterval(s) ==
  /\ alive
  /\ s \in timer
  /\ processResponseQueue(s)
  /\ Survives(s)
  /\ UNCHANGED <<server, waiters, timer, conn, closing, queued>>

\* Mutant: end leaves the last timer running.
clearIntervalsButOne ==
  /\ timer' = IF waiters = << >> THEN timer
              ELSE timer \ {waiters[i] : i \in 1..(Len(waiters) - 1)}
  /\ waiters' = << >>

\* The loop of end.
clearIntervals ==
  /\ timer' = timer \ {waiters[i] : i \in 1..Len(waiters)}
  /\ waiters' = << >>

\* Mutant: the server is forgotten without being closed.
endWithoutClose ==
  /\ alive
  /\ clearIntervals
  /\ server' = FALSE
  /\ UNCHANGED <<pendingResponses, conn, closing, alive, queued, written>>

\* A second end finds no server; its callback is dropped.
end ==
  /\ alive
  /\ clearIntervals
  /\ server' = FALSE
  /\ closing' = IF server THEN "called" ELSE closing
  /\ UNCHANGED <<pendingResponses, conn, alive, queued, written>>

\* Node: the client ends or destroys its side, the socket shuts down.
ClientEnds(s) ==
  /\ alive
  /\ conn[s] = "open"
  /\ conn' = [conn EXCEPT ![s] = "ending"]
  /\ UNCHANGED <<server, pendingResponses, waiters, timer, closing, alive, queued, written>>

\* Node: the socket is destroyed.
Destroyed(s) ==
  /\ alive
  /\ conn[s] = "ending"
  /\ conn' = [conn EXCEPT ![s] = "closed"]
  /\ UNCHANGED <<server, pendingResponses, waiters, timer, closing, alive, queued, written>>

\* Node: the client resets the connection; the 'error' event has no listener.
ClientResets(s) ==
  /\ alive
  /\ conn[s] = "open"
  /\ alive' = FALSE
  /\ UNCHANGED <<server, pendingResponses, waiters, timer, conn, closing, queued, written>>

\* Node: the callback of server.close, once no connection is left.
Closed ==
  /\ alive
  /\ closing = "called"
  /\ \A s \in Socket : conn[s] \in {"none", "closed"}
  /\ closing' = "done"
  /\ UNCHANGED <<server, pendingResponses, waiters, timer, conn, alive, queued, written>>

\* A dead process stays dead.
Dead == ~alive /\ UNCHANGED vars

Next ==
  \/ \E form \in {"hex", "buffer"}, r \in Response : queueResponse(form, r)
  \/ \E s \in Socket : OnConnection(s)
  \/ \E s \in Socket : OnData(s)
  \/ \E s \in Socket : OnInterval(s)
  \/ \E s \in Socket : ClientEnds(s)
  \/ \E s \in Socket : Destroyed(s)
  \/ \E s \in Socket : ClientResets(s)
  \/ end
  \/ Closed
  \/ Dead

\* Node's loop runs what is due: intervals, and the closing of sockets and
\* server.
Fairness ==
  /\ \A s \in Socket : WF_vars(OnInterval(s)) /\ WF_vars(Destroyed(s))
  /\ WF_vars(Closed)

Spec == Init /\ [][Next]_vars /\ Fairness

-----------------------------------------------------------------------------
(* Properties *)

\* What is queued are Buffers, whatever was passed; the rest as declared.
TypeOK ==
  /\ server \in BOOLEAN
  /\ closing \in {"no", "called", "done"}
  /\ alive \in BOOLEAN
  /\ pendingResponses \in Seq(Response)
  /\ waiters \in Seq(Socket)
  /\ timer \subseteq Socket
  /\ conn \in [Socket -> ConnState]

Buffers(w) == [i \in 1..Len(w) |-> w[i].buf]

\* Every response is written once, to one connection, in the order the
\* responses were queued: connections that drain the queue between each other
\* neither repeat, nor overtake, nor skip one.
OnceInOrder == Buffers(written) \o pendingResponses = queued

\* The timers that run are those end will clear, one for each connection
\* accepted, so after end none writes; and no timer is kept twice.
TimersKept ==
  /\ timer = {waiters[i] : i \in 1..Len(waiters)}
  /\ \A i, j \in 1..Len(waiters) : waiters[i] = waiters[j] => i = j
  /\ server \/ timer = {}

\* While the simulator runs and has had a connection, a response does not wait
\* for data to come: a timer takes it, though perhaps that of a connection that
\* is gone.
ResponsesTaken ==
  (pendingResponses # << >> /\ server /\ \E s \in Socket : conn[s] # "none")
    ~> (pendingResponses = << >> \/ ~server \/ ~alive)

\* The callback of the first end is called, whatever connections are open then
\* and whatever they still receive, if their clients close them.
EndCallsBack ==
  (\A s \in Socket : WF_vars(ClientEnds(s))) => (~server ~> (closing = "done" \/ ~alive))
=============================================================================
