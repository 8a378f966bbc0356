# Verification of avva

`avva` talks to Avcom spectrum analyzers over TCP.  The repository holds two
implementations of the analyzer's packet protocol: the vendor's C API
(`etc/avcom-example-code/api`) with the programs built on it, and a JavaScript
library (`lib/`) with a simulator.  This directory holds TLA+ models of them,
the TLC configurations that check the models, and TLAPS proofs.

Paths below are relative to the repository; `c:` lines are lines of
`etc/avcom-example-code/api/aovspecan.c`, `h:` lines of `aovspecan.h` beside it.

## Inventory

| Component | State | Operations | Hard behaviour |
| --- | --- | --- | --- |
| Registry and lifecycle, C (`aovspecan.c`, `aov_core.h`) | `plist`, `plen`, the `AOVhandle` blocks, their sockets, the Winsock count | Initialize, Deinitialize, Register, Unregister, Connect, Disconnect, GetHandle | every system call in a nest of calls may fail; malloc reuses addresses; int ports in 16 bits |
| Receive loop, C (`AOV_recData`) | the bytes stored of a packet | one call | a stream without boundaries; timeouts and the end of the stream inside a packet; STX in data |
| Calls on an analyzer, C | the request in progress, `sa_rx`, packets in flight | 17 calls: settings, markers, CNR/SNR, average, sweep mode, Trigger, GetSpectrumData, SetAllSettings | late replies, stale acknowledgements, a loop that waits for the end of a sweep |
| Settings and encodings, C | `cur_settings`, `sbshw`, `input[].dbrange` | argument tests, payload bytes, decoding of replies | 8-bit reference levels and their sign, LNB bits, ranges, a cache that is not verified |
| Simulator, JS (`lib/simulator.js`) | `pendingResponses`, `waiters`, `server` | start, listen, queueResponse, processResponseQueue, end | one queue for all sockets, a timer for each that is cleared only by `end` |
| Client, JS (`lib/client.js`) | `socket`, `connected`, `handler` | open, four requests, close, reset, onConnect | onConnect passed unbound throws inside Node's 'connect' event; close and requests while connecting |
| Response handler, JS (`lib/handler.js`) | `queue`, `queueSize` | listen, onData, processQueue, parsePartial | none is reached: see "Not modelled" |
| Codec, JS (`lib/csw.js`, `request.js`, `response.js`) | none | make and parse packets | hex strings of numbers with sign or fraction; lengths and field widths that must agree; dispatch on the command byte |
| Boot program (`customer-example/sbs_bl.c`, copied to `dev-debugger/`) | the step it is at | unlock, calibration, boot mode, key, description | replies read and not looked at |
| Example and debugger (`example.c`, `debugger.c`) | `sa_handle`; a menu | gilatTest in a loop; calls of the API | one exit for a failure of any call |
| `etc/old-prototype-tests.js`, `ftd2xx.h`, build files, PDFs | | | not part of the program |

How they interact.  The programs call the API; a call finds its handle in
`plist`, sends one packet with `AOV_sendData` and reads one with `AOV_recData`
from the handle's blocking socket.  The API has no threads and no callbacks:
what runs concurrently with it is the analyzer and the network.  Nothing in a
reply identifies the request it answers, so the API is correct only while
requests and replies stay in step.  The JavaScript client writes packets of the codec to a Node
socket and is called back by it; the simulator at the other end of that socket
does not read the requests but answers each 'data' event, and a timer, from a
queue the tests fill.  In the tests client and simulator share one process, and
an exception in a callback of either ends both.

What makes each component correct: the registry agrees with the heap and the
operating system after every call, failed ones too; the receive loop hands out
whole packets, once, in order; a call reads the reply to its own request, says
truthfully whether it was carried out, and returns; a setting reaches the
analyzer as the caller meant it; the simulator sends each response once; what
the client is asked before its close arrives, the close calls back and leaves
nothing that keeps the simulator from ending; a JavaScript packet says what was
asked for and is cut from a stream at its own end.

The build modelled is the Windows one (`_WIN32` defined), the only one the
checked-in file links as: `AOV_recData` calls `WSAGetLastError()` (c:176).

## Modules

**AovRegistry** models the lifecycle calls.  The API is sequential, so one
action is one whole call.  The calls nest (Register calls Connect and
Unregister, Unregister and Connect call Disconnect) and each system call in
them may fail: a call is an operator from a registry state to the set of
outcomes `[st, res]` it may end in, and a caller composes the outcomes of its
callees where the code calls them.  `plist`, `heap`, `hnd` are the table, the
allocated blocks and their contents; `sock` is the operating system's view of
each descriptor; `winsock` counts WSAStartup; `alive` becomes FALSE when the
process dies (c:318).  `Prefix[ip]` is what of a host fits in the 14 bytes that
`memcmp` compares (c:343).  `faulty` and `ret` are history: the descriptors a
setsockopt or closesocket failed on, and the last call.

**PacketChannel** is the abstract specification of a receive: packets come out
whole, once and in order, until one fails.  **AovRecData** is `AOV_recData`
(c:137-185) byte by byte over a stream: `queue` and `off` are what is left of
the packets sent, `data` is `data[0..i-1]`, `onedata` the byte variable whose
content survives a `recv()` that returns 0.  The caller's array has `DataSize`
bytes (`sa_rx` has 1024) and the packets of the analyzer fit it, but the code
bounds nothing (c:160): out of step with the stream, after a failed receive, a
length may be read out of the middle of a packet and the bytes stored run over
the array.  The model has that outcome, `overrun`, and does not follow the
receiver any further.  It is shown to implement PacketChannel.

**AovSession** models the exchange of a connected handle: one call at a time
sends its request and reads packets, while the analyzer answers, says it is
busy, closes or resets the connection.  Packets are units, by the refinement
above; a receive that gives up inside a packet leaves its rest in the stream
(`whole = FALSE`).  That what is then received may run over `sa_rx` is left out
here.  A packet is bytes 3 to 6 of `sa_rx`, which are all the
tests look at, and a field `id` only the model sees: the request it answers.
`Refused`, `ReportsError` and `Verdict` are the tests of the calls, with `&&`
between the three comparisons as the code has it.  An error reply is taken to
carry an error number that is not zero.

**AovSettings** models what the settings calls say and what of it arrives: the
argument tests, the bytes sent, the analyzer reading them, and `cur_settings`.
A call is one action here; while requests and replies are in step (AovSession's
`InStep`) its result is the analyzer's verdict, after a failed receive it may be
any.  `hw` is what Register reads from the analyzer's descriptions, in two
generations of firmware: before 3.00 levels are positive on the wire and there
are no offsets in the ranges (c:397, c:541); in the others an offset is any byte.
Levels, bytes and ranges keep their width (`Char`, `Byte`), so the ranges wrap
where those of the code do.  Frequencies and spans are doubles in MHz in the
calls and 100 Hz units on the wire: an argument is the floor of its product with
10000, whether anything is behind the point, and whether it is too large for an
unsigned int (`Hz`); the tests look at the double, the conversion cuts it to its
floor (`Converted`), and one that is too large becomes any of the values
`Overflowed`, as C leaves it undefined.  What the multiplication rounds is not
modelled: the floor is that of the product.  `dev` is the analyzer, modelled from
how the code reads and writes it:
it takes the settings its description has a mode for and reads bytes as the
API's own decoding (c:219-276) does.  `fresh` is history: nothing has failed
since the cache was last filled, where a SetAllSettings that the analyzer drops
unseen (a frequency above its limit, which c:644 does not test, or a level of a
range that has wrapped) counts as a failure.

**AovPrograms** models the programs: main of `sbs_bl.c`, gilatTest, which is all
that main of `example.c` ever reaches, and the menu of `debugger.c`.  It extends
AovRegistry: a step is a lifecycle call of the registry model, with all its
failures, or an exchange on the handle.  In the first two the next step follows
from the result, to the next call (`After`) or to `pexit`, which deinitializes
and exits.  The debugger takes any call after any other, on one handle that is
uninitialized at first and stale after an Unregister or a Deinitialize.  `sent`
and `named` are history: the packets of the five boot calls, byte by byte, with
the checksum in its unsigned char; and the host and port given to the Register
or GetHandle that wrote the handle.  The replies are not in the state because
the code drops them.
The product, PCB and project codes are any bytes: the `sscanf` of each into an
unsigned char (`%x` stores an int) may change the ones beside it; what else it
may overwrite is not modelled.

**Simulator** models `lib/simulator.js`, one action for each callback Node may
run and each call a test may make.  `waiters` names timers by their connection;
`timer` is the set that really runs.  `conn` is Node's state of a connection and
`alive` becomes FALSE when an 'error' event, which nothing listens to, ends the
process.  `queued` and `written` are history.

**Client** models `lib/client.js` and extends Simulator: both ends of each
connection, in one process.  `socket` is the client's field, `side` Node's state
of the client's end, `out` what was written to it and has not arrived, its end
(`FIN`) included, `closed` the callback of a close.  Client steps are the calls a
test may make; the others are Node's and the network's.  `onConnect` is passed
unbound and Node calls it without an argument, so `ResponseHandler.listen`
throws (handler.js:15) in the middle of the 'connect' event.  If the host
catches the exception, as mocha does, the listeners behind it are lost, Node's
own for a write or end made while connecting among them: `stuck` are the
connections this happened to.  A call without a socket and every reset throw to
their caller and change nothing, so they are no actions.  `made` and `arrived`
are history.

**Csw** is the codec as pure operators: the four requests, built of hex strings
as the code builds them and cut where `Buffer.from` cuts a text (`Bad` is a
character that is no hex digit), and the parsers of change requests and of
responses, each response as the widths of its fields.  Frequencies are in the
wire's 100 Hz units; `exact` is FALSE where `mhz * 10000` is no integer, and
`scale` is the exponent of a number that JavaScript prints with one, as 1e-7 and
1e21, which `normalizeHz` does not read.  Numbers are the integers of TLA+: a
frequency of 2^32 or more makes `hexFromNumber` throw, one below the unit is not
the 0 that a default replaces, and a bandwidth of 0 with a unit makes
`normalizeHz` throw.

`ChangeReads` says of a change request, in terms of the arguments alone, when the
parser of request.js accepts it (`Holds`) and what each field is read as
(`SaysFrequency`, `SaysNumber`, `SaysRBW`): what was asked for, except where the
library puts something else in its place.  These places are listed one by one
because a caller may well not mean them: 1250 MHz, 600 MHz, 50, 1 MHz and input 10
for an argument that is 0 or missing (request.js:89-93), 3 MHz for a bandwidth
that is not in the list (csw.js:72), no bandwidth for RESERVED, and the mantissa
of a number with an exponent.  `CutsAt` says that a packet is cut from its stream
at its own end; of requests it is said of those that are whole, since a change
that is cut short has no end, and the test parser of response.js would take it
together with what follows.  `ChangeArgs`, `Bodies` and `Behind` are the inputs
these speak of; Client states them as the invariants `ChangeReadBack` and
`PacketsWhole`, which do not depend on the state and so are evaluated in the
initial state only.

The MC modules give the constants values.  Deinitialize is one step in the model;
`DeinitializeIsItsLoop` of AovRegistry compares it with the loop of Unregister
calls of the code (c:792-795), `UnregisteredAll`.

## Runs

| Run | Bounds | Shows |
| --- | --- | --- |
| Registry | 3 blocks, 2 descriptors, 2 hosts, 2 ports, 2 WSAStartup | types; `plist` is exactly the allocated blocks; sockets neither shared nor lost; Winsock up while handles can be registered; Deinitialize is its loop; one handle per sockaddr; GetHandle finds a handle again; a Register that fails takes everything back |
| ReceiveLoop | 4 packets of 3 kinds with an STX in length and payload | in step with the stream and within an array of 6 bytes; implements PacketChannel; returns when a packet is there or the connection is closed |
| Session | 3 calls of 5 kinds, 2 busy replies in flight | replies in step until a receive fails; a setting call that succeeds was carried out; every call returns, Trigger if the sweeps end and the connection stays |
| Settings | an old firmware and two of the new, each with two inputs of different ranges; offsets that leave the range a char (58), wrap its lower end (60) and both (119); 4 frequencies, 2 spans, 5 levels, 2 bandwidths, 4 inputs and 2 LNB powers, on either side of each limit | a SetAllSettings that succeeds is carried out as meant or changes nothing, and is carried out unless the frequency is above the limit or the range has wrapped at both ends; after a trace the handle shows the analyzer; the input is cached right until something fails |
| Programs | 2 blocks, 2 descriptors, 1 host, 2 ports, 4 codes, 2 serial numbers | whatever fails, everything is given back at exit; the handle is never another analyzer's; the unchecked handle of the boot calls and settings is live; packets are whole, sum to zero and go in order |
| Simulator | 2 connections, 3 responses of 2 kinds | each response written once and in order; end clears the timers; responses do not wait for ever; end's callback comes |
| Client | 2 connections, 1 response, 2 requests; change requests of 9 frequencies and spans, 8 levels, 14 bandwidths and 5 inputs, inside and outside each range; packets of every command with bodies of 0, STX or ETX | requests on a connected socket arrive though the client closes at once, and none arrives twice or before one that was made earlier on its connection; the close of one calls back; a client that has closed lets the simulator end; a change request is read back as asked for, or with the replacements listed above, or is cut before its end; each whole packet is cut at its own end |

Three blocks are enough for an unregistered handle between two others and for
an address that is reused; two descriptors for a lost one and a live one; one
more packet than kinds for every kind after every other; an array of six bytes
holds each packet and not the ones read out of step.  Three calls give
Connect, a call that times out, and one that reads its late reply (StaleAck has
four).  Five kinds of call stand for the seventeen: calls that differ only in
their command bytes are checked by the same operators.  The levels of Settings
are ends of the ranges, a level of the wrapped one, and one wider than a byte; the
frequencies lie a hair below the lower limit, on it, above the upper one, and
beyond an unsigned int.  A program
holds one handle at a time, and two descriptors give it one that a failure has
lost; two ports of one host are two analyzers for its handle to be mistaken for.
Two connections of the simulator drain the queue between each other, and
a third response tells a queue that was emptied from one that was not.  Two
connections of the client are one that is closed, or has failed, and one opened
after it; two requests and the end are enough to be split over the 'data' events
in every way.  The bodies that look like an STX or an ETX everywhere are the
hardest a parser that looks for one could meet.

`WinsockBalanced` has an exception that a reader should know of: if Initialize
gets no memory for `plist` (c:779) it still returns success, Register then
fails, and the Deinitialize of `pexit` finds nothing to undo, so the process
exits with Winsock up.

`AllSettingsAsMeant` is an action property.  Without a failed receive, a
SetAllSettings that returns NO_ERROR leaves the analyzer in the settings the caller
meant, or in those it was in, never in a part of them; and in the settings meant
unless the frequency is above the analyzer's limit or the input's range has
wrapped at both ends.  The settings meant are the caller's values, frequency and
span cut to the 100 Hz.  Of a frequency too large for an unsigned int it says
nothing.

Every property of these runs is violated by a mutant of the model that stands
for a plausible bug (`mutants` in PROJECT.json).

These runs are expected to fail; each is a disagreement of the code with its
documentation:

| Run | What the code does |
| --- | --- |
| WidePort | c:345, missing braces: a port above 65535 makes Register keep the handle it refuses (h:538) |
| StaleAck | c:980: any acknowledgement is accepted: after a timeout, the late one of an earlier call (h:514) |
| TriggerHangs | c:1929: the loop never ends once the analyzer has closed (h:460) |
| ThirteenVolts | c:1240: SetLNB sets the 18 V bit for 13 V (h:86) |
| ClientCloses | client.js:27, handler.js:15: the close of a client that is still connecting never calls back (test/_client.js:22 waits for it) |

Disagreements met while reading that have no run, because a line of code shows
them: `memcmp` looks at 14 bytes of an IPv6 address, so hosts of one subnet
compare equal and the second is refused (c:343, against h:538); the end of the
stream inside a packet is a success (c:175, against h:505); the WSAStartup of a
second Initialize is never undone (c:773, against h:164); SetRefLevel does not turn the sign of the level for old firmware, as
SetAllSettings does (c:1019 and c:668, h:411); realloc and malloc are not
tested (c:318, c:779, against h:506); a packet that is no waveform is a
successful trace (c:220, against h:243); a failed `recv()` returns the Winsock
code (c:176, against h:505); the upper frequency limit is not tested (c:644,
c:860), and a frequency beyond the 2^32 units of the wire has no defined value
(c:665); the ranges Register computes wrap, for an offset of 59 to 118 so that
every level is refused (of 79 on without the 70 dB range), from 119 on so that
levels are let through that the analyzer does not have (c:543); a packet may run
over the 1024 bytes it is received into (c:160); SetAverage takes 0 to 200 (h:323 says 250); markers from 0 are taken
(h:383 says from 1); `recvlen == 5` never holds, so the SET_*_FAILED codes are
never returned.  In the JavaScript library: a negative level cuts the packet
(csw.js:38, though csw.js:54 has levels signed), and so does a frequency that is
no multiple of 100 Hz; a bandwidth that is not in the list becomes 3 MHz
(csw.js:72); arguments of 0 are replaced by defaults (request.js:91), though
csw.js:51 has levels around 0; a number that prints with an exponent is read
without it (csw.js:159); a change that is cut short swallows what follows, for a
parser that goes by its length (response.js:198);
`socket.close` in reset is not a function (client.js:83).

### Fairness

AovRecData assumes that a call that can read a byte, or meet the end of the
stream, does so: `WF_vars(ReadByte \/ ReadEnd)`, the thread running.  AovSession
assumes `WF_vars(ApiStep)`: the thread in a call runs, and `recv()` returns
because of SO_RCVTIMEO (c:80) even if nothing arrives.  Nothing is assumed of
the caller or of the analyzer; `TriggerReturns` and `TriggerReturnsIfConnected`
have as their hypothesis that the analyzer comes to the end of every sweep
(`WF_vars(Answer)`).  TriggerHangs is violated under the hypothesis too.

AovPrograms assumes `WF_progvars(ProgStep)`: the program runs, its calls return
(Connect sets SO_RCVTIMEO before anything is received) and the questions of
sbs_bl are answered; nothing is assumed of the user of the debugger.

Simulator assumes of Node that intervals fire, that the
socket of a client that has ended is destroyed and that server.close calls back
once no connection is left; of the clients nothing, except that `EndCallsBack`
has as its hypothesis that they end their connections, because the simulator
never does.  Client assumes that Node runs the callbacks that are due
(`onConnect`, `Finish`, `Destroyed`, `Closed`) and that the network delivers what
was written (`Arrive`, `FinArrives`); not that a connection is accepted, and
nothing of the calls of the test.  `EndAfterClose` discharges the hypothesis
of `EndCallsBack` for the client of this library, if the test closes it.  All
three liveness properties end in `~alive` because the exception of onConnect may
end the process.

## Proofs

**AovRegistry_proofs**, for any number of blocks, descriptors, hosts and ports:
the inductive invariant `IInv` and from it `TypeOK`, `RegistryMatchesHeap`,
`SocketsAccounted`, `WinsockUp`, and, for callers that pass port numbers,
`UniqueSockaddr`, `GetHandleRecovers` (a search that stops at its first hit
has one by the library's `WFMin`, `LeastIndex`) and `FailedRegisterTakesBack`.
The three parts that relate `plist`, heap and sockets are
not inductive alone: that an entry can be dropped needs the entries to be
distinct, that a socket can be closed needs it not to be shared, and that a
handle may be taken back needs the address to be new.  The proof follows the
nesting of the calls: one lemma says what every outcome of Disconnect
preserves, one each for Connect and Unregister, one for each part of Register,
and one per action.  They use the named assumptions on the constants.
`RegisterTakesBack` compares two states, so it needs more: that a block which is
not allocated is blank (`Blanks`, inductive of its own), for the one taken back
to be as it was, and that the socket a Register opens was closed before
(`OpenedState`), for the close on the way back to restore it.  It is for port
numbers only because of c:345, which WidePort shows.  `DeinitializeLoops` is about
the model itself: that its one step is the code's loop.  The library's induction
theorems take an operator, which the provers cannot instantiate; `Reaches` and
`LoopRuns` do induction over a set of numbers instead, from the least one that is
not in it (`LeastIndex`), so that a loop of any length has its values after each round.

**AovRecData_proofs**, for any set of packets of any length and contents (that
are packets, `PacketAssumption`, and fit the caller's array, `DataSizeAssumption`):
`TypeCorrect`, `StaysAligned` and `Refinement`.  `TypeCorrect` bounds what is stored
and returned by the array in any state, out of step too; that no byte is stored
past it (`overrun`) is part of `Aligned`, and so is proved until a receive fails.  The
invariant says that the bytes stored are exactly the prefix of the packet at
the head of the stream that has been read; `StoredPrefix` and `FullAtEnd` are
the facts about the loop it rests on: the next byte of a packet is always
stored, and the loop is left exactly at its last byte.

**AovSession_proofs**, for any set of calls, any number of them and any answers:
`SessionTypes`, `RepliesInStep` and `SuccessIsDone`.  Neither of the last two is
inductive, as what a call will read is already in flight: the invariant
`OneExchange` says of it, until a receive fails, that the only request under way
is that of the call in progress, that the only packets before its answer are the
busy replies of a sweep, that nothing comes behind the answer, and that an
answer which says a change was carried out is true.  There is
one lemma for each action (`AnswerKeeps` and `ReceiveKeeps` are the two that use
all of it); a failed receive makes `late` positive and ends
what is claimed, which is where StaleAck begins.

**AovSettings_proofs**, for every hardware a description can give, and all
arguments: `AllSettingsArrive` (a SetAllSettings that succeeds has set what was
meant or changed nothing, and the former under the conditions above), `TraceIsTrue`, `InputIsTrue`, `TypeCorrect`.  The invariant adds to the
types that the analyzer is in settings it has a mode for, which is what keeps
its level within a char on the way back (`TakenInBounds`, `TakenCached`);
`LevelSurvives` is the fact about the two chars and the sign between them.  Its
bound of -70 for old firmware is needed: -128 would come back as 128, and it is
only because old firmware has no offsets that its ranges end there.  `RangesHold`
says what the ranges of Register let through for an offset of any byte: a char in
any case, and up to an offset of 118 a level the analyzer has, since a range whose
lower end alone has wrapped holds none (`CharWraps`).

**AovPrograms_proofs**, for any registry of the first module: `ReleasedAtExit`,
`HandleLive`, `HandleNamed`, `WinsockBalanced` and `SuccessMeansSent`.  The
invariant joins the registry's `IInv` to what each
program counter knows: whether the API is initialized, whether the handle is
registered, whether its socket is connected.  `HandleLive` needs more of the
lifecycle calls than their invariance: that a Register or Connect that succeeds
leaves the socket connected; `ReleasedAtExit` rests on the registry's proofs, since
an empty `plist` frees everything only because `plist` is the heap.  The
debugger calls with pointers that are no block, which the registry's theorems do
not cover: `HandleCalls` shows that such a call changes nothing.  `HandleNamed`
is inductive over `PInv`: a call only drops handles (`Keeps`), stores the one it
registers (`RegisterNames`), or stores one that matches (`GetHandleNames`).
`WinsockBalanced` and `SuccessMeansSent` speak of the exit only; `Balance` and
`SentSoFar` say for every program counter before it whether Winsock is up, and
how many packets have gone out (`Place`), the i-th with the i-th command.
`WellFormedIsSent` says what a packet is: framed, with its length, and with a
checksum that makes the bytes of the description sum to zero in an unsigned char.
The checksum and the sum it must cancel are loops over the bytes (`ChecksumLoop`,
`TotalLoop`, by `LoopRuns`); `ChecksumBalances` says that they do cancel, modulo
256, for any number of bytes.
`ProgTypeCorrect` and `PacketsAreSent` are what it takes from the states.

**Simulator_proofs**, for any connections and responses: `OnceInOrder`,
`TimersKept` and `TypeOK`.  `BuffersAppended` is the fact about drains: the
buffers of the writes added are the queue they empty.  That no timer is kept
twice needs a connection that has a timer to have been accepted.

**Csw_proofs**, about the operators of the codec, for any arguments and bytes:
`ChangesRead` (`ChangeReads` for all arguments), `ResponsesCut` and `RequestsCut`
(each response, and each request that is whole, is cut at its own end).  The first follows the text:
how many digits a number has (`LeastDigitsExist`, `Padded`), that a text with a
character that is no digit among its first 38 makes fewer than the 19 bytes a
change has (`CutBytes`), and so is cut before its ETX, which the parser tests
(`CutChange`), and that two or eight digits make the one or four bytes that are
read as the number (`OneByte`, `FourBytes`, `HeldChange`).  `ValuesHeld` and
`ValuesSay` carry this from the values with their replacements back to the
arguments.  The others say of any
framed packet (`Framed`) that a parser which goes by its length cuts it
(`TesterCuts`), that one which goes by its fields does if they fill its body
(`ParserCuts`), and that they do for each response (`FieldsFill`).  Proving the
first corrected three corners of the model that no input of the run had met: the
frequency of 2^32, the one below the unit, and the bandwidth of 0 with a unit.

**Client_proofs**, for any connections, responses and requests:
`ClientStaysConsistent`, the theorems of the codec as properties of the client
(`ChangesReadBack`, `PacketsCutWhole`), and `BenchWrittenOnce`, by which the
simulator keeps its own two properties beside the real client: each step of the
composition is one of Simulator's, or leaves what it keeps alone
(`SimulatorKept`).  That nothing is written behind an end is the invariant
`Stream` of each connection.  That requests arrive in order (`RequestsInOrder`) is
not inductive, as it says nothing of those under way.  `Ordered` does, of each
connection: what is under way is in the order it was made, behind all that has
arrived; it is every request that has not arrived, as long as the connection has
neither failed nor lost the listener its writes wait for; and once it is up, no
more than was made since.  When some arrive, their own connection's part says that
they come next (`InOrderDelivered`), and the others' that they are not touched
(`OrderedBeside`).

Every type and safety invariant and every action property of the passing runs is
stated by a theorem, and so is the refinement of PacketChannel.  Model-checked
only are the liveness properties (`ReceiveReturns`, `CallsReturn`,
`TriggerReturnsIfConnected`, `HandlesReleased`, `ResponsesTaken`, `EndCallsBack`,
`RequestsArrive`, `CloseFinishes`, `EndAfterClose`): fairness needs ENABLED, which
is beyond the prover.

## Not modelled

The fields Register decodes from the description packets that no setting
depends on (serial number, dates); the arithmetic of traces; time (a receive may time out at any
point); the memory getaddrinfo keeps; the Linux build; what main of `example.c` has
after its `return 0`; the arguments of markers and sweep modes.

The response handler has no behaviour to model but what `listen` does to the
'connect' event: a handler with a socket that exists would be called by it with
`this` the socket, and fail at `this.queue.push` (handler.js:20); its
processQueue reads a `queueSize` that is not declared (handler.js:47) and throws
before it looks at a byte.  So no response is ever assembled or parsed through
the library, and parsePartial and the queue are never used.

Of the codec: toDb, toProductName and fromCSW, which format; the text forms that
normalizeHz accepts; parserGlob, which gets no length.  `etc/old-prototype-tests.js`
is a script of captured packets, and `ftd2xx.h` a driver's header that no call
uses.

## Plan

The modules were written in this order, each with its proofs before the next:
AovRegistry, PacketChannel with AovRecData, AovSession, AovSettings, Simulator,
AovPrograms (over AovRegistry), Csw, and Client (over Simulator and Csw).

Next, in the proofs: an abstract specification of the registry, a map from
sockaddrs to analyzers, which the lifecycle calls implement, and one of the
session, in which a call is one step until a receive fails.

What could be added to the models: the arguments of markers and sweep modes and the amplitudes
of a trace, in AovSettings; the remaining fields of the description packets, in
Register; and a Handler module, should onData and processQueue be repaired.
