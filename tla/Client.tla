-------------------------------- MODULE Client ---------------------------------
(***************************************************************************)
(* The client (lib/client.js) against the simulator, in one process, as    *)
(* test/_client.js runs them.  A connection is one element of Socket, with *)
(* the client's socket at one end (side, out) and the simulator's at the   *)
(* other (conn).                                                           *)
(*                                                                         *)
(* The client passes onConnect unbound.  Node calls it with the socket as  *)
(* `this` and without an argument, so ResponseHandler.listen throws at     *)
(* handler.js:15, in the middle of the socket's 'connect' event:           *)
(*  - the exception ends the process unless its host, like mocha, catches  *)
(*    it;                                                                  *)
(*  - the listeners after it do not run.  Node keeps a write or an end     *)
(*    made while the socket connects in such a listener, and whatever is   *)
(*    written later waits behind it;                                       *)
(*  - the client's own connected and handler stay as the constructor set   *)
(*    them, and nothing ever reads the socket, neither data nor its end.   *)
(*                                                                         *)
(* A request or close without a socket, and every reset, throw a TypeError *)
(* to their caller and change nothing.                                     *)
(***************************************************************************)
EXTENDS Simulator, Csw, FiniteSets

CONSTANTS
  NoSocket,     \* this.socket is null
  MaxRequests   \* bound on the requests made (model checking only)

ASSUME ClientAssumption == NoSocket \notin Socket /\ MaxRequests \in Nat

VARIABLES
  socket,    \* this.socket
  side,      \* the client's end of each connection
  out,       \* what has been written to it and has not arrived
  stuck,     \* the connections whose writes wait for a listener that is lost
  closed,    \* the callback of each close: "no", "called", "done"
  made,      \* history: the requests made, each with its connection and its end then
  arrived    \* history: the requests the simulator has received, in order

clientvars == <<socket, side, out, stuck, closed, made, arrived>>
allvars == <<vars, clientvars>>

Side == {"none", "connecting", "up", "failed"}

\* The client's FIN, in a stream of requests 1, 2, ...
FIN == 0

ClientInit ==
  /\ Init
  /\ socket = NoSocket
  /\ side = [s \in Socket |-> "none"]
  /\ out = [s \in Socket |-> << >>]
  /\ stuck = {}
  /\ closed = [s \in Socket |-> "no"]
  /\ made = << >>
  /\ arrived = << >>

\* Mutant: whatever socket the client has is replaced.
openAgain ==
  /\ alive
  /\ \E s \in Socket :
       /\ side[s] = "none"
       /\ socket' = s
       /\ side' = [side EXCEPT ![s] = "connecting"]
  /\ UNCHANGED <<vars, out, stuck, closed, made, arrived>>

\* With a socket, even one that has failed, open does nothing.
open ==
  /\ alive
  /\ socket = NoSocket
  /\ \E s \in Socket :
       /\ side[s] = "none"
       /\ socket' = s
       /\ side' = [side EXCEPT ![s] = "connecting"]
  /\ UNCHANGED <<vars, out, stuck, closed, made, arrived>>

\* A write to a socket that has failed is lost.
Written(s, x) == out' = IF side[s] = "failed" THEN out ELSE [out EXCEPT ![s] = Append(@, x)]

\* Mutant: one request at a time is kept until it can be sent.
writeRawOverwrites ==
  /\ alive
  /\ socket # NoSocket
  /\ Len(made) < MaxRequests
  /\ out' = [out EXCEPT ![socket] = IF side[socket] = "failed" THEN @ ELSE <<Len(made) + 1>>]
  /\ made' = Append(made, [on |-> socket, at |-> IF socket \in stuck THEN "stuck" ELSE side[socket]])
  /\ UNCHANGED <<vars, socket, side, stuck, closed, arrived>>

\* The four requests differ in their bytes only: those are made in Csw.
writeRaw ==
  /\ alive
  /\ socket # NoSocket
  /\ Len(made) < MaxRequests
  /\ Written(socket, Len(made) + 1)
  /\ made' = Append(made, [on |-> socket, at |-> IF socket \in stuck THEN "stuck" ELSE side[socket]])
  /\ UNCHANGED <<vars, socket, side, stuck, closed, arrived>>

\* Node may call the callback of an end on a socket that fails, or not.
MayCallBack(s) == closed[s] = "called" /\ closed' = [closed EXCEPT ![s] = "done"]

\* Mutant: the socket is forgotten first, and so is not ended.
closeWithoutEnd ==
  /\ alive
  /\ socket # NoSocket
  /\ closed' = [closed EXCEPT ![socket] = "called"]
  /\ socket' = NoSocket
  /\ UNCHANGED <<vars, side, out, stuck, made, arrived>>

\* Mutant: destroy instead of end.
closeDestroys ==
  /\ alive
  /\ socket # NoSocket
  /\ out' = [out EXCEPT ![socket] = <<FIN>>]
  /\ closed' = [closed EXCEPT ![socket] = "called"]
  /\ socket' = NoSocket
  /\ UNCHANGED <<vars, side, stuck, made, arrived>>

close ==
  /\ alive
  /\ socket # NoSocket
  /\ Written(socket, FIN)
  /\ \/ closed' = [closed EXCEPT ![socket] = "called"]
     \/ side[socket] = "failed" /\ closed' = [closed EXCEPT ![socket] = "done"]
  /\ socket' = NoSocket
  /\ UNCHANGED <<vars, side, stuck, made, arrived>>

-----------------------------------------------------------------------------
(* Node and the network *)

\* The 'connect' event, and onConnect in it.
onConnect(s) ==
  /\ alive
  /\ side[s] = "connecting"
  /\ server \/ conn[s] = "open"
  /\ side' = [side EXCEPT ![s] = "up"]
  /\ stuck' = IF out[s] = << >> THEN stuck ELSE stuck \cup {s}
  /\ alive' \in BOOLEAN
  /\ UNCHANGED <<server, pendingResponses, waiters, timer, conn, closing, queued, written>>
  /\ UNCHANGED <<socket, out, closed, made, arrived>>

\* The connection cannot be made: an 'error' event that nothing listens to.
ConnectFails(s) ==
  /\ alive
  /\ side[s] = "connecting"
  /\ conn[s] = "none"
  /\ side' = [side EXCEPT ![s] = "failed"]
  /\ out' = [out EXCEPT ![s] = << >>]
  /\ MayCallBack(s) \/ UNCHANGED closed
  /\ alive' \in BOOLEAN
  /\ UNCHANGED <<server, pendingResponses, waiters, timer, conn, closing, queued, written>>
  /\ UNCHANGED <<socket, stuck, made, arrived>>

\* The simulator was closed before it took the connection: a write is an error.
WriteFails(s) ==
  /\ alive
  /\ side[s] = "up" /\ s \notin stuck
  /\ conn[s] = "none" /\ ~server
  /\ out[s] # << >>
  /\ side' = [side EXCEPT ![s] = "failed"]
  /\ out' = [out EXCEPT ![s] = << >>]
  /\ MayCallBack(s) \/ UNCHANGED closed
  /\ alive' \in BOOLEAN
  /\ UNCHANGED <<server, pendingResponses, waiters, timer, conn, closing, queued, written>>
  /\ UNCHANGED <<socket, stuck, made, arrived>>

\* The simulator takes a connection, before or after the client's 'connect'.
Accept(s) ==
  /\ side[s] \in {"connecting", "up"}
  /\ OnConnection(s)
  /\ UNCHANGED clientvars

Sends(s) == alive /\ side[s] = "up" /\ s \notin stuck /\ conn[s] = "open" /\ out[s] # << >>

\* Requests arrive, one or several in one 'data' event.
Arrive(s) ==
  /\ Sends(s)
  /\ \E n \in 1..Len(out[s]) :
       /\ \A i \in 1..n : out[s][i] # FIN
       /\ arrived' = arrived \o SubSeq(out[s], 1, n)
       /\ out' = [out EXCEPT ![s] = SubSeq(@, n + 1, Len(@))]
  /\ OnData(s)
  /\ UNCHANGED <<socket, side, stuck, closed, made>>

\* The client's FIN arrives.
FinArrives(s) ==
  /\ Sends(s)
  /\ Head(out[s]) = FIN
  /\ ClientEnds(s)
  /\ out' = [out EXCEPT ![s] = Tail(@)]
  /\ UNCHANGED <<socket, side, stuck, closed, made, arrived>>

\* The callback of close: all that was written has been handed to the kernel.
Finish(s) ==
  /\ alive
  /\ side[s] = "up" /\ s \notin stuck
  /\ conn[s] \in {"ending", "closed"} \/ FIN \in {out[s][i] : i \in 1..Len(out[s])}
  /\ MayCallBack(s)
  /\ UNCHANGED <<vars, socket, side, out, stuck, made, arrived>>

\* What the simulator and its test do by themselves.
SimulatorStep ==
  /\ \/ \E form \in {"hex", "buffer"}, r \in Response : queueResponse(form, r)
     \/ \E s \in Socket : OnInterval(s)
     \/ \E s \in Socket : Destroyed(s)
     \/ end
     \/ Closed
     \/ Dead
  /\ UNCHANGED clientvars

ClientNext ==
  \/ open
  \/ writeRaw
  \/ close
  \/ \E s \in Socket : onConnect(s)
  \/ \E s \in Socket : ConnectFails(s)
  \/ \E s \in Socket : WriteFails(s)
  \/ \E s \in Socket : Accept(s)
  \/ \E s \in Socket : Arrive(s)
  \/ \E s \in Socket : FinArrives(s)
  \/ \E s \in Socket : Finish(s)
  \/ SimulatorStep

\* Node's loop runs the callbacks that are due and the network delivers; the
\* test need do nothing.
ClientFairness ==
  \A s \in Socket :
    /\ WF_allvars(onConnect(s)) /\ WF_allvars(Arrive(s)) /\ WF_allvars(FinArrives(s))
    /\ WF_allvars(Finish(s))
    /\ WF_allvars(Destroyed(s) /\ UNCHANGED clientvars)
    /\ WF_allvars(Closed /\ UNCHANGED clientvars)

ClientSpec == ClientInit /\ [][ClientNext]_allvars /\ ClientFairness

-----------------------------------------------------------------------------
(* Properties *)

\* The types; the client's socket is one it has opened and not closed; nothing
\* is written behind the end of a socket; and the simulator has a connection
\* only with a socket that has not failed.
ClientTypeOK ==
  /\ socket \in Socket \cup {NoSocket}
  /\ side \in [Socket -> Side]
  /\ out \in [Socket -> Seq(0..MaxRequests)]
  /\ stuck \subseteq Socket
  /\ closed \in [Socket -> {"no", "called", "done"}]
  /\ made \in Seq([on : Socket, at : Side \cup {"stuck"}])
  /\ arrived \in Seq(1..MaxRequests)
  /\ socket # NoSocket => side[socket] # "none" /\ closed[socket] = "no"
  /\ \A s \in Socket :
       /\ \A i \in 1..Len(out[s]) : out[s][i] = FIN => i = Len(out[s]) /\ closed[s] # "no"
       /\ conn[s] # "none" => side[s] \in {"connecting", "up"}

\* A request that arrives was made on a connection that was up; it arrives once,
\* and behind all that were made before it on its connection: what is lost, is
\* lost at the end.
RequestsInOrder ==
  /\ \A i \in 1..Len(arrived) :
       /\ arrived[i] \in 1..Len(made) /\ made[arrived[i]].at = "up"
       /\ \A r \in 1..arrived[i] :
            made[r].on = made[arrived[i]].on => \E k \in 1..i : arrived[k] = r
  /\ \A i, j \in 1..Len(arrived) : arrived[i] = arrived[j] => i = j

\* The client's fields, its sockets and the requests under way and received agree.
ClientConsistent == ClientTypeOK /\ RequestsInOrder

\* A request made on a connection that is up, with nothing written to it before
\* it was, arrives once the simulator has taken the connection, even if the
\* client closes at once.
RequestsArrive ==
  \A r \in 1..MaxRequests, s \in Socket :
    (r <= Len(made) /\ made[r] = [on |-> s, at |-> "up"] /\ conn[s] # "none")
      ~> (r \in {arrived[i] : i \in 1..Len(arrived)} \/ ~alive)

\* The callback of close comes if the socket had connected, and nothing had been
\* written to it, before.
CloseFinishes ==
  \A s \in Socket :
    (closed[s] = "called" /\ side[s] = "up" /\ s \notin stuck /\ conn[s] # "none")
      ~> (closed[s] = "done" \/ ~alive)

\* The client keeps its side of what EndCallsBack assumes: a client that has
\* closed all it opened, after it had connected, lets the simulator's end call
\* back, however often it was opened.
EndAfterClose ==
  (/\ ~server
   /\ socket = NoSocket
   /\ \A s \in Socket : conn[s] # "none" => side[s] = "up" /\ s \notin stuck)
     ~> (closing = "done" \/ ~alive)

\* What a change of the configuration asks for reaches the analyzer as asked for,
\* or with the replacements that lib/request.js and lib/csw.js make and no other (a
\* default for an argument that is 0 or missing, 3 MHz for a bandwidth not listed, a
\* number without its exponent), or not at all: ChangeReads for arguments inside and
\* outside every range.  It does not depend on the state, and so is looked at before
\* the first step only.
ChangeReadBack == ClientInit => \A a \in ChangeArgs : ChangeReads(a)

\* Of a stream of responses, and of one of requests that are whole, each packet is
\* cut at its own end: not before all of it is there, not at a byte of the body that looks
\* like its end, and not into what stands behind it.
PacketsWhole ==
  ClientInit =>
    \A next \in Behind :
      /\ \A DTYPE \in {7, 13, 9, 8, 96}, body \in Bodies : CutsResponse(DTYPE, body, next)
      /\ CutsRequests(next)

\* test/_client.js:19-23 closes a client that has just been made, and waits for
\* the callback: it comes if the simulator takes the connection.
CloseCallsBack ==
  \A s \in Socket :
    (closed[s] = "called" /\ conn[s] # "none") ~> (closed[s] = "done" \/ ~alive)
=============================================================================
