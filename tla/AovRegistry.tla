------------------------------ MODULE AovRegistry ------------------------------
(***************************************************************************)
(* The handle registry of the AVCOM C API (api/aovspecan.c): the table     *)
(* plist/plen of registered analyzers, the heap blocks that hold the       *)
(* handles, and the sockets the handles own.                               *)
(*                                                                         *)
(* The API is sequential: every call runs to completion before the next    *)
(* one starts, so one action is one whole API call.  The calls are nested  *)
(* (Register calls Connect and Unregister, Unregister calls Disconnect,    *)
(* Connect calls Disconnect), and each system call in them may fail.  A    *)
(* call is therefore an operator from a registry state to the SET of       *)
(* outcomes [st, res] it may end in, and a caller composes the outcomes    *)
(* of its callees exactly where the code calls them.                       *)
(*                                                                         *)
(* The build modelled is the Windows one (_WIN32 defined): it is the only  *)
(* one the checked-in file links as, because AOV_recData calls             *)
(* WSAGetLastError() unconditionally.                                      *)
(***************************************************************************)
EXTENDS Integers, Sequences, FiniteSets

CONSTANTS
  Addr,        \* the heap addresses malloc may return for an AOVhandle
  Fd,          \* the socket descriptors of the operating system
  Ip,          \* the hosts an analyzer may be addressed by
  Port,        \* the int port arguments callers pass
  Prefix,      \* Prefix[ip]: the host bytes of ip that fit in sockaddr.sa_data
  MaxWinsock   \* bound on the Winsock reference count (model checking only)

NoSock == -1   \* socketfd of a handle without a socket
NoHandle == "none"
NoTarget == <<>>

ASSUME FdAssumption == Fd \subseteq Nat
ASSUME PortAssumption == Port \subseteq Nat
ASSUME PrefixAssumption == DOMAIN Prefix = Ip
ASSUME AddrAssumption == NoHandle \notin Addr
ASSUME IpAssumption == Ip # {}
ASSUME MaxWinsockAssumption == MaxWinsock \in Nat

VARIABLES
  initialized, \* plist # NULL
  plist,       \* the registered handles, in order; plen is Len(plist)
  heap,        \* the addresses of the AOVhandle blocks that are allocated
  hnd,         \* the contents of the AOVhandle blocks
  sock,        \* the operating system's view of each descriptor
  faulty,      \* history: descriptors a setsockopt or closesocket failed on
  winsock,     \* WSAStartup calls not yet matched by a WSACleanup
  alive,       \* FALSE once the process has died in the library
  ret          \* the last call: operation, result, handle, and ip and port

registry == <<plist, heap, hnd, sock, faulty>>
vars == <<initialized, registry, winsock, alive, ret>>

-----------------------------------------------------------------------------
(* Types *)

PortNo == 0..65535                         \* unsigned short portno
SockState == {"closed", "open", "connected"}
Handle == [socketfd : Fd \cup {NoSock}, ip : Ip, portno : PortNo, servinfo : BOOLEAN]
RegState == [plist : Seq(Addr), heap : SUBSET Addr, hnd : [Addr -> Handle],
             sock : [Fd -> SockState], faulty : SUBSET Fd]

\* What a block that malloc has not handed out looks like: its content is
\* never read.
Blank == [socketfd |-> NoSock, ip |-> CHOOSE i \in Ip : TRUE, portno |-> 0,
          servinfo |-> FALSE]

Current == [plist |-> plist, heap |-> heap, hnd |-> hnd, sock |-> sock,
            faulty |-> faulty]

Outcome(s, r) == [st |-> s, res |-> r]

-----------------------------------------------------------------------------
(* The calls, as sets of outcomes *)

\* checkforhandle: linear search of plist for the pointer.
Registered(s, h) == \E i \in 1..Len(s.plist) : s.plist[i] = h

\* AVCOM_SA_Disconnect: a failing closesocket leaves socketfd as it was.
Disconnect(s, h) ==
  LET f == s.hnd[h].socketfd
  IN  IF ~Registered(s, h) THEN {Outcome(s, "HANDLE_NOT_FOUND")}
      ELSE IF f = NoSock THEN {Outcome(s, "SOCKET_NOT_OPEN")}
      ELSE {Outcome([s EXCEPT !.faulty = @ \cup {f}], "CLOSESOCKET_FAILED"),
            Outcome([s EXCEPT !.sock[f] = "closed", !.faulty = @ \ {f},
                              !.hnd[h].socketfd = NoSock], "NO_ERROR")}

\* The state once socket() has returned descriptor f for handle h.
Opened(s, h, f) == [s EXCEPT !.sock[f] = "open", !.hnd[h].socketfd = f]

\* AVCOM_SA_Connect: setsockopt failing returns with the socket kept; connect
\* failing disconnects, and that result is dropped; the greeting that is
\* read after a connect is dropped too.
Connect(s, h) ==
  IF ~Registered(s, h) THEN {Outcome(s, "HANDLE_NOT_FOUND")}
  ELSE IF s.hnd[h].socketfd # NoSock THEN {Outcome(s, "SOCKET_ALREADY_OPEN")}
  ELSE {Outcome(s, "SOCKET_FAILED")} \cup
       UNION { {Outcome([Opened(s, h, f) EXCEPT !.faulty = @ \cup {f}],
                        "SETSOCKETOPT_FAILED"),
                Outcome([Opened(s, h, f) EXCEPT !.sock[f] = "connected"],
                        "NO_ERROR")}
               \cup {Outcome(d.st, "CONNECT_FAILED") : d \in Disconnect(Opened(s, h, f), h)}
             : f \in {g \in Fd : s.sock[g] = "closed"} }

\* The loop of AVCOM_SA_Unregister that closes the gap at position k.
Shifted(l, k) == [i \in 1..(Len(l) - 1) |-> IF i < k THEN l[i] ELSE l[i + 1]]

\* The position the search of AVCOM_SA_Unregister stops at.
FirstIndex(l, h) ==
  CHOOSE k \in 1..Len(l) : l[k] = h /\ \A j \in 1..(k - 1) : l[j] # h

\* plist shifted down over h, and h's block freed.
Dropped(s, h) ==
  [s EXCEPT !.plist = Shifted(@, FirstIndex(@, h)), !.heap = @ \ {h},
            !.hnd[h] = Blank]

\* Mutant: Unregister without its Disconnect.
UnregisterKeepsSocket(s, h) ==
  IF ~Registered(s, h) THEN {Outcome(s, "HANDLE_NOT_FOUND")}
  ELSE {Outcome(Dropped(s, h), "NO_ERROR")}

\* AVCOM_SA_Unregister: the result of its Disconnect is dropped.
Unregister(s, h) ==
  IF ~Registered(s, h) THEN {Outcome(s, "HANDLE_NOT_FOUND")}
  ELSE {Outcome(Dropped(d.st, h), "NO_ERROR") : d \in Disconnect(s, h)}

-----------------------------------------------------------------------------
(* AVCOM_SA_Register *)

\* A new handle before its address is resolved: port is cut to the unsigned
\* short portno.
Fresh(ip, port) ==
  [socketfd |-> NoSock, ip |-> ip, portno |-> port % 65536, servinfo |-> FALSE]

\* The fresh block a is appended to plist.
Appended(s, a, ip, port) ==
  [s EXCEPT !.plist = Append(@, a), !.heap = @ \cup {a}, !.hnd[a] = Fresh(ip, port)]

\* getaddrinfo succeeded for the handle.
Resolved(s, a) == [s EXCEPT !.hnd[a].servinfo = TRUE]

\* The memcmp of two sockaddr.sa_data, 14 bytes that hold the port and the
\* first bytes of the host.
SameSockaddr(x, y) == x.portno = y.portno /\ Prefix[x.ip] = Prefix[y.ip]

\* Mutant: the search stops one entry early.
DuplicateOffByOne(s, a) ==
  \E i \in 1..(Len(s.plist) - 2) : SameSockaddr(s.hnd[s.plist[i]], s.hnd[a])

\* Some handle before the new last one has the same sockaddr.
Duplicate(s, a) ==
  \E i \in 1..(Len(s.plist) - 1) : SameSockaddr(s.hnd[s.plist[i]], s.hnd[a])

\* Mutant: an error return without its Unregister.
KeptOnError(s, a, r) == {Outcome(s, r)}

\* The new handle is taken back, and Register returns r.
TakeBack(s, a, r) == {Outcome(u.st, r) : u \in Unregister(s, a)}

\* What goes out at line 345: braces are missing, so only the Unregister
\* depends on the int port being the stored unsigned short.
Rejected(s, a, port) ==
  IF port = s.hnd[a].portno THEN TakeBack(s, a, "HANDLE_ALREADY_EXISTS")
  ELSE {Outcome(s, "HANDLE_ALREADY_EXISTS")}

\* The description packets exchanged over the new connection: a send fails, a
\* recv fails (AOV_recData returns the Winsock code), the reply is of another
\* type, or all of them are answered.
ExchangeFailures == {"SEND_FAILED", "WSA_ERROR", "UNEXPECTED_CMD"}

\* The descriptions are in: without AOV_ALSO_CONNECT the socket is closed
\* again, and a failure of that is returned with the handle left registered.
Described(s, a, flags) ==
  IF flags = "AOV_ALSO_CONNECT" THEN {Outcome(s, "NO_ERROR")} ELSE Disconnect(s, a)

\* Mutant: the error return after Connect without its Unregister.
IntroducedConnectUnchecked(s, a, flags) ==
  UNION { IF c.res # "NO_ERROR" THEN {c}
          ELSE Described(c.st, a, flags)
               \cup UNION {TakeBack(c.st, a, r) : r \in ExchangeFailures}
        : c \in Connect(s, a) }

\* From the connect on.
Introduced(s, a, flags) ==
  UNION { IF c.res # "NO_ERROR" THEN TakeBack(c.st, a, c.res)
          ELSE Described(c.st, a, flags)
               \cup UNION {TakeBack(c.st, a, r) : r \in ExchangeFailures}
        : c \in Connect(s, a) }

\* Everything after a successful malloc of block a.
Enrolled(s, a, ip, port, flags) ==
  LET new == Appended(s, a, ip, port)
  IN  TakeBack(new, a, "GET_ADDR_INFO_FAIL")
      \cup IF Duplicate(Resolved(new, a), a)
           THEN Rejected(Resolved(new, a), a, port)
           ELSE Introduced(Resolved(new, a), a, flags)

\* Mutant: only the host is compared.
MatchesHostOnly(s, h, ip, port) == Prefix[s.hnd[h].ip] = Prefix[ip]

\* AVCOM_SA_GetHandle: the first handle with the sockaddr and the int port.
Matches(s, h, ip, port) ==
  /\ Prefix[s.hnd[h].ip] = Prefix[ip]
  /\ s.hnd[h].portno = port

GetHandle(s, ip, port) ==
  LET hits == {i \in 1..Len(s.plist) : Matches(s, s.plist[i], ip, port)}
  IN  IF hits = {} THEN NoHandle
      ELSE s.plist[CHOOSE i \in hits : \A j \in hits : i <= j]

\* AVCOM_SA_Deinitialize unregisters the last handle until none is left; F is
\* the set of open sockets whose closesocket fails on the way.
OwnedSockets(s) == {s.hnd[s.plist[i]].socketfd : i \in 1..Len(s.plist)} \ {NoSock}

\* Mutant: the blocks are freed and their sockets left alone.
EmptiedSocketsKept(s, F) ==
  [s EXCEPT !.plist = << >>, !.heap = @ \ {s.plist[i] : i \in 1..Len(s.plist)},
            !.hnd = [h \in Addr |-> IF Registered(s, h) THEN Blank ELSE @[h]]]

Emptied(s, F) ==
  [s EXCEPT !.plist = << >>, !.heap = @ \ {s.plist[i] : i \in 1..Len(s.plist)},
            !.hnd = [h \in Addr |-> IF Registered(s, h) THEN Blank ELSE @[h]],
            !.sock = [f \in Fd |-> IF f \in OwnedSockets(s) \ F THEN "closed" ELSE @[f]],
            !.faulty = (@ \ OwnedSockets(s)) \cup F]

\* The loop of Deinitialize, one Unregister of the last handle after another.
UnregisteredAll(s) ==
  LET after[n \in 0..Len(s.plist)] ==
        IF n = 0 THEN {s}
        ELSE UNION { {o.st : o \in Unregister(t, t.plist[Len(t.plist)])} : t \in after[n - 1] }
  IN  after[Len(s.plist)]

-----------------------------------------------------------------------------
(* The calls, as actions *)

Becomes(s) ==
  /\ plist' = s.plist
  /\ heap' = s.heap
  /\ hnd' = s.hnd
  /\ sock' = s.sock
  /\ faulty' = s.faulty

Returns(op, res, h, to) == ret' = [op |-> op, res |-> res, h |-> h, to |-> to]

Init ==
  /\ initialized = FALSE
  /\ plist = << >>
  /\ heap = {}
  /\ hnd = [a \in Addr |-> Blank]
  /\ sock = [f \in Fd |-> "closed"]
  /\ faulty = {}
  /\ winsock = 0
  /\ alive = TRUE
  /\ ret = [op |-> "none", res |-> "NO_ERROR", h |-> NoHandle, to |-> NoTarget]

\* WSAStartup comes before the test of plist; the malloc of plist is not
\* checked, so without memory the call succeeds and leaves plist NULL.
AVCOM_SA_Initialize ==
  /\ alive
  /\ winsock < MaxWinsock
  /\ \/ /\ Returns("Initialize", "WSASTARTUP_FAILED", NoHandle, NoTarget)
        /\ UNCHANGED <<initialized, winsock>>
     \/ /\ winsock' = winsock + 1
        /\ IF initialized
           THEN /\ Returns("Initialize", "ALREADY_INITIALIZED", NoHandle, NoTarget)
                /\ UNCHANGED initialized
           ELSE /\ initialized' \in BOOLEAN
                /\ Returns("Initialize", "NO_ERROR", NoHandle, NoTarget)
  /\ UNCHANGED <<registry, alive>>

\* Mutant: plist is not tested for NULL.
DeinitializeUnchecked ==
  /\ alive
  /\ \E F \in SUBSET OwnedSockets(Current) : Becomes(Emptied(Current, F))
  /\ initialized' = FALSE
  /\ winsock' = winsock - 1
  /\ Returns("Deinitialize", "NO_ERROR", NoHandle, NoTarget)
  /\ UNCHANGED alive

\* Mutant: plist is not set to NULL.
DeinitializeKeepsPlist ==
  /\ alive
  /\ initialized
  /\ \E F \in SUBSET OwnedSockets(Current) : Becomes(Emptied(Current, F))
  /\ winsock' = winsock - 1
  /\ Returns("Deinitialize", "NO_ERROR", NoHandle, NoTarget)
  /\ UNCHANGED <<initialized, alive>>

\* plist is freed and NULL before the WSACleanup whose failure is returned.
AVCOM_SA_Deinitialize ==
  /\ alive
  /\ IF ~initialized
     THEN /\ Returns("Deinitialize", "ALREADY_NOT_INITIALIZED", NoHandle, NoTarget)
          /\ UNCHANGED <<initialized, registry, winsock>>
     ELSE /\ \E F \in SUBSET OwnedSockets(Current) : Becomes(Emptied(Current, F))
          /\ initialized' = FALSE
          /\ \/ /\ winsock' = winsock - 1
                /\ Returns("Deinitialize", "NO_ERROR", NoHandle, NoTarget)
             \/ /\ UNCHANGED winsock
                /\ Returns("Deinitialize", "WSACLEANUP_FAILED", NoHandle, NoTarget)
  /\ UNCHANGED alive

\* Register before any block is allocated.
RegisterWithoutBlock(ip, port) ==
  /\ alive
  /\ IF initialized THEN Returns("Register", "MALLOC_FAILED", NoHandle, <<ip, port>>)
     ELSE Returns("Register", "NOT_INITIALIZED", NoHandle, <<ip, port>>)
  /\ UNCHANGED <<initialized, registry, winsock, alive>>

\* Register with block a from malloc; *handle is a whatever the result.
RegisterBlock(a, ip, port, flags) ==
  /\ alive
  /\ initialized
  /\ a \notin heap
  /\ \E o \in Enrolled(Current, a, ip, port, flags) :
       Becomes(o.st) /\ Returns("Register", o.res, a, <<ip, port>>)
  /\ UNCHANGED <<initialized, winsock, alive>>

\* realloc of plist returns NULL and the next line stores through it.
RegisterReallocFails(a) ==
  /\ alive
  /\ initialized
  /\ a \notin heap
  /\ alive' = FALSE
  /\ UNCHANGED <<initialized, registry, winsock, ret>>

AVCOM_SA_Register(ip, port, flags) ==
  \/ RegisterWithoutBlock(ip, port)
  \/ \E a \in Addr : RegisterBlock(a, ip, port, flags)
  \/ \E a \in Addr : RegisterReallocFails(a)

\* The calls on a handle take any pointer, registered or not.
AVCOM_SA_Connect(h) ==
  /\ alive
  /\ \E o \in Connect(Current, h) : Becomes(o.st) /\ Returns("Connect", o.res, h, NoTarget)
  /\ UNCHANGED <<initialized, winsock, alive>>

AVCOM_SA_Disconnect(h) ==
  /\ alive
  /\ \E o \in Disconnect(Current, h) :
       Becomes(o.st) /\ Returns("Disconnect", o.res, h, NoTarget)
  /\ UNCHANGED <<initialized, winsock, alive>>

AVCOM_SA_Unregister(h) ==
  /\ alive
  /\ \E o \in Unregister(Current, h) :
       Becomes(o.st) /\ Returns("Unregister", o.res, h, NoTarget)
  /\ UNCHANGED <<initialized, winsock, alive>>

\* getaddrinfo may fail; otherwise plist is searched.
AVCOM_SA_GetHandle(ip, port) ==
  /\ alive
  /\ \E h \in {NoHandle, GetHandle(Current, ip, port)} : Returns("GetHandle", "NO_ERROR", h, <<ip, port>>)
  /\ UNCHANGED <<initialized, registry, winsock, alive>>

\* A dead process stays dead.
Dead == ~alive /\ UNCHANGED vars

Next ==
  \/ AVCOM_SA_Initialize
  \/ AVCOM_SA_Deinitialize
  \/ \E ip \in Ip, port \in Port, flags \in {"AOV_DEFAULT", "AOV_ALSO_CONNECT"} :
       AVCOM_SA_Register(ip, port, flags)
  \/ \E ip \in Ip, port \in Port : AVCOM_SA_GetHandle(ip, port)
  \/ \E h \in Addr : AVCOM_SA_Connect(h)
  \/ \E h \in Addr : AVCOM_SA_Disconnect(h)
  \/ \E h \in Addr : AVCOM_SA_Unregister(h)
  \/ Dead

Spec == Init /\ [][Next]_vars

-----------------------------------------------------------------------------
(* Properties *)

\* Every variable stays within the values the C declarations give it: socketfd
\* is a descriptor or -1, portno is 16 bits wide, plist holds handle pointers.
TypeOK ==
  /\ initialized \in BOOLEAN
  /\ Current \in RegState
  /\ winsock \in Nat
  /\ alive \in BOOLEAN

Distinct(l) == \A i, j \in 1..Len(l) : l[i] = l[j] => i = j

\* The entries of plist are distinct and are exactly the allocated blocks.
EntriesMatch(s) ==
  /\ Distinct(s.plist)
  /\ s.heap = {s.plist[i] : i \in 1..Len(s.plist)}

\* plist and the heap agree after every call, whatever failed inside it: the
\* entries of plist are distinct, they are exactly the blocks still allocated
\* (none dangles, none leaks), there is none while plist is NULL, and each has
\* the servinfo that Register, GetHandle and Connect dereference unchecked.
RegistryMatchesHeap ==
  /\ EntriesMatch(Current)
  /\ initialized \/ plist = << >>
  /\ \A a \in heap : hnd[a].servinfo

\* A handle with a socket owns an open descriptor and no two own the same.
OwnedAreOpen(s) ==
  \A a \in s.heap : s.hnd[a].socketfd # NoSock =>
    /\ s.sock[s.hnd[a].socketfd] # "closed"
    /\ \A b \in s.heap : s.hnd[b].socketfd = s.hnd[a].socketfd => a = b

\* An open descriptor is owned and connected, or a call failed on it.
OpenAreOwned(s) ==
  \A f \in Fd : s.sock[f] # "closed" /\ f \notin s.faulty =>
    /\ s.sock[f] = "connected"
    /\ \E a \in s.heap : s.hnd[a].socketfd = f

\* Sockets are neither shared nor lost: a registered handle with a socket owns
\* an open descriptor, no two own the same, and every open descriptor that no
\* setsockopt or closesocket failed on is connected and owned by a handle.
SocketsAccounted == OwnedAreOpen(Current) /\ OpenAreOwned(Current)

\* The one step Deinitialize takes has the outcomes of its loop of Unregister
\* calls, from whatever registry the calls before it left.
DeinitializeIsItsLoop ==
  UnregisteredAll(Current) = {Emptied(Current, F) : F \in SUBSET OwnedSockets(Current)}

\* One analyzer, one handle: the search Register makes before it connects
\* keeps two handles for the same sockaddr out of plist (for int ports that
\* are port numbers).
UniqueSockaddr ==
  \A a, b \in heap : SameSockaddr(hnd[a], hnd[b]) => a = b

\* A handle its owner has lost is found again: GetHandle with the address and
\* port a handle was registered for returns that handle, not another.
GetHandleRecovers ==
  \A a \in heap : GetHandle(Current, hnd[a].ip, hnd[a].portno) = a

\* A handle is only ever registered while Winsock is up, however often
\* Initialize was called or a WSACleanup failed.
WinsockUp == initialized => winsock > 0

\* Register takes everything back on its error returns: plist, the blocks and
\* the sockets are as before, except that a socket whose closesocket failed on
\* the way stays open.  (CLOSESOCKET_FAILED, the failure of the Disconnect at
\* the end, leaves the handle registered.)
FailedRegisterTakesBack ==
  [][ ret'.op = "Register" /\ ret'.res \notin {"NO_ERROR", "CLOSESOCKET_FAILED"} =>
        /\ UNCHANGED <<plist, heap, hnd>>
        /\ \A f \in Fd : sock'[f] # sock[f] => f \in faulty' ]_vars

\* aovspecan.h:538 says of AOV_HANDLE_ALREADY_EXISTS "Unable to create new
\* handle": a Register that returns it has registered none.
AlreadyExistsCreatesNothing ==
  [][ ret'.res = "HANDLE_ALREADY_EXISTS" => UNCHANGED plist ]_vars
=============================================================================
