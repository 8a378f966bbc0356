----------------------------- MODULE AovPrograms -----------------------------
(***************************************************************************)
(* The programs that drive the C API: the boot program sbs_bl (main of     *)
(* sbs_bl.c), gilatTest, which main of example.c repeats, and the          *)
(* debugger (main of debugger.c).  The first two make a fixed sequence of  *)
(* calls; the first call that fails sends them to pexit, which             *)
(* deinitializes the API and exits with the result of that call.  The      *)
(* debugger is a menu of all calls on one handle, and shows the results.   *)
(* The lifecycle calls are the actions of AovRegistry, with every failure  *)
(* they have; the calls on the analyzer change nothing in the registry.    *)
(*                                                                         *)
(* What main of example.c has after its loop is behind a return 0 and not  *)
(* modelled.                                                               *)
(***************************************************************************)
EXTENDS AovRegistry

CONSTANTS
  IdByte,      \* the product, PCB and project codes that are entered
  Serial       \* the serial numbers: 16 bytes each

Byte == 0..255

ASSUME IdByteAssumption == IdByte \subseteq Byte
ASSUME SerialAssumption == Serial \subseteq [1..16 -> Byte]

VARIABLES
  program,     \* the program that runs
  pc,          \* the call it makes next, "menu", "pexit", or "exited"
  sa_handle,   \* the program's handle: handle in the debugger
  code,        \* the result the process exits with
  sent,        \* history: the packets of the boot calls, in order
  named        \* history: host and port of the call that last wrote sa_handle

progvars == <<vars, program, pc, sa_handle, code, sent, named>>

-----------------------------------------------------------------------------
(* The packets of the boot calls *)

STX == 2
ETX == 3
SBS_CAL_CMD == 48
SBS_UNLOCK == 54
SBS_BOOTLOADER == 58
SBS_BOOT_MODE == 71
BOOTLOAD_KEY == 14
BOOTLOAD_DESC == 16

\* Mutant: the length leaves out the ETX.
FrameShort(body) ==
  <<STX, (Len(body) \div 256) % 256, Len(body) % 256>> \o Append(body, ETX)

\* STX, the number of bytes that follow in two bytes, the body, ETX.
Frame(body) ==
  LET txlen == Len(body) + 1
  IN  <<STX, (txlen \div 256) % 256, txlen % 256>> \o Append(body, ETX)

\* Mutant: the sum is not an unsigned char.
ChecksumWide(body) ==
  LET sum[i \in 0..Len(body)] == IF i = 0 THEN 0 ELSE sum[i - 1] - body[i]
  IN  sum[Len(body)]

\* sum -= sa_tx[i], in an unsigned char.
Checksum(body) ==
  LET sum[i \in 0..Len(body)] == IF i = 0 THEN 0 ELSE (sum[i - 1] - body[i]) % 256
  IN  sum[Len(body)]

\* The description that is programmed, before its checksum; the chassis is 4.
Description(product, pcb, project, serial) ==
  <<SBS_BOOTLOADER, BOOTLOAD_DESC, product, pcb, project, 4>>
  \o serial \o [i \in 1..10 |-> 255]

\* The bodies each boot call may send.
Bodies ==
  [UnlockCal |-> {<<SBS_UNLOCK, 119, 48, 119, 48>>},
   CalMode   |-> {<<SBS_CAL_CMD, 1>>},
   BootMode  |-> {<<SBS_BOOT_MODE, 1>>},
   BootKey   |-> {<<SBS_BOOTLOADER, BOOTLOAD_KEY, 119, 48, 119, 48, 106>>},
   BootDescProg |->
     {LET d == Description(product, pcb, project, serial) IN Append(d, Checksum(d))
      : product \in IdByte, pcb \in IdByte, project \in IdByte, serial \in Serial}]

BootCalls == DOMAIN Bodies

-----------------------------------------------------------------------------
(* The order of the calls *)

SbsOrder ==
  [Initialize |-> "Register", Register |-> "Connect", Connect |-> "UnlockCal",
   UnlockCal |-> "CalMode", CalMode |-> "BootMode", BootMode |-> "BootKey",
   BootKey |-> "BootDescProg", BootDescProg |-> "Disconnect", Disconnect |-> "Unregister",
   Unregister |-> "Deinitialize", Deinitialize |-> "exited"]

\* Mutant: gilatTest without its Deinitialize.
GilatOrderNoDeinitialize ==
  [Initialize |-> "Register", Register |-> "Settings", Settings |-> "Unregister",
   Unregister |-> "Initialize"]

\* It starts over after its Deinitialize.
GilatOrder ==
  [Initialize |-> "Register", Register |-> "Settings", Settings |-> "Unregister",
   Unregister |-> "Deinitialize", Deinitialize |-> "Initialize"]

\* The call after each call of a program that succeeds.
After == [sbs_bl |-> SbsOrder, gilatTest |-> GilatOrder, debugger |-> [menu |-> "menu"]]

Program == DOMAIN After

\* Mutant: the result of a call is not looked at.
GoesOnUnchecked(op) ==
  IF alive' THEN pc' = After[program][op] /\ UNCHANGED code ELSE UNCHANGED <<pc, code>>

\* The test after each call: AOV_ERR_NO_ERROR or pexit.
GoesOn(op) ==
  IF ~alive' THEN UNCHANGED <<pc, code>>
  ELSE IF ret'.res = "NO_ERROR" THEN pc' = After[program][op] /\ UNCHANGED code
  ELSE pc' = "pexit" /\ code' = ret'.res

-----------------------------------------------------------------------------
(* The steps of a program *)

\* The handle of gilatTest is a global, those of the mains are not initialized.
ProgInit ==
  /\ Init
  /\ program \in Program
  /\ pc = IF program = "debugger" THEN "menu" ELSE "Initialize"
  /\ sa_handle \in IF program = "gilatTest" THEN {NoHandle} ELSE Addr \cup {NoHandle}
  /\ code = "NO_ERROR"
  /\ sent = << >>
  /\ named = NoTarget

\* A call of the registry, at its place in the program.
MakesCall(op, call) ==
  /\ pc = op
  /\ call
  /\ GoesOn(op)
  /\ UNCHANGED <<program, sent>>

CallInitialize ==
  MakesCall("Initialize", AVCOM_SA_Initialize) /\ UNCHANGED <<sa_handle, named>>

\* Register stores through its first argument once it has a block.
StoresHandle(h) ==
  IF ~alive' \/ h = NoHandle THEN UNCHANGED <<sa_handle, named>>
  ELSE sa_handle' = h /\ named' = ret'.to

\* sbs_bl asks for address and port and connects later; gilatTest asks Register
\* to leave the connection open.
CallRegister ==
  \E ip \in Ip, port \in Port :
    /\ MakesCall("Register",
                 AVCOM_SA_Register(ip, port, IF program = "gilatTest"
                                             THEN "AOV_ALSO_CONNECT" ELSE "AOV_DEFAULT"))
    /\ StoresHandle(ret'.h)

CallConnect ==
  MakesCall("Connect", AVCOM_SA_Connect(sa_handle)) /\ UNCHANGED <<sa_handle, named>>

CallDisconnect ==
  MakesCall("Disconnect", AVCOM_SA_Disconnect(sa_handle)) /\ UNCHANGED <<sa_handle, named>>

CallUnregister ==
  MakesCall("Unregister", AVCOM_SA_Unregister(sa_handle)) /\ UNCHANGED <<sa_handle, named>>

CallDeinitialize ==
  MakesCall("Deinitialize", AVCOM_SA_Deinitialize) /\ UNCHANGED <<sa_handle, named>>

\* Mutant: a send that fails is dropped as the receive is.
BootExchangeUnchecked(op) ==
  \E body \in Bodies[op] :
    /\ sent' \in {sent, Append(sent, Frame(body))}
    /\ Returns(op, "NO_ERROR", sa_handle, NoTarget)

\* UnlockCal, CalMode, BootMode, BootKey and BootDescProg: only a failing send
\* is an error, what AOV_recData returns is dropped.
BootExchange(op) ==
  \E body \in Bodies[op] :
    \/ Returns(op, "SEND_FAILED", sa_handle, NoTarget) /\ UNCHANGED sent
    \/ Returns(op, "NO_ERROR", sa_handle, NoTarget) /\ sent' = Append(sent, Frame(body))

CallBoot(op) ==
  /\ alive
  /\ pc = op
  /\ BootExchange(op)
  /\ UNCHANGED <<initialized, registry, winsock, alive, program, sa_handle, named>>
  /\ GoesOn(op)

\* The settings and markers of gilatTest: any of the calls may fail.
CallSettings ==
  /\ alive
  /\ pc = "Settings"
  /\ \E res \in ExchangeFailures \cup {"NO_ERROR"} : Returns("Settings", res, sa_handle, NoTarget)
  /\ UNCHANGED <<initialized, registry, winsock, alive, program, sa_handle, named, sent>>
  /\ GoesOn("Settings")

\* Mutant: pexit only exits.
PexitOnly ==
  /\ pc = "pexit"
  /\ pc' = "exited"
  /\ UNCHANGED <<vars, program, sa_handle, named, code, sent>>

\* pexit drops the result of its Deinitialize.
Pexit ==
  /\ pc = "pexit"
  /\ AVCOM_SA_Deinitialize
  /\ pc' = "exited"
  /\ UNCHANGED <<program, sa_handle, named, code, sent>>

\* The lifecycle calls of the menu, on whatever the handle is by then.
MenuLifecycle ==
  /\ pc = "menu"
  /\ \/ UNCHANGED <<sa_handle, named>> /\ (AVCOM_SA_Initialize \/ AVCOM_SA_Deinitialize)
     \/ /\ UNCHANGED <<sa_handle, named>>
        /\ \/ AVCOM_SA_Connect(sa_handle)
           \/ AVCOM_SA_Disconnect(sa_handle)
           \/ AVCOM_SA_Unregister(sa_handle)
     \/ \E ip \in Ip, port \in Port :
          \/ /\ \E flags \in {"AOV_DEFAULT", "AOV_ALSO_CONNECT"} : AVCOM_SA_Register(ip, port, flags)
             /\ StoresHandle(ret'.h)
          \/ AVCOM_SA_GetHandle(ip, port) /\ sa_handle' = ret'.h /\ named' = ret'.to
  /\ UNCHANGED <<program, pc, code, sent>>

\* The other calls of the menu.
MenuExchange ==
  /\ alive
  /\ pc = "menu"
  /\ \E res \in IF Registered(Current, sa_handle) THEN ExchangeFailures \cup {"NO_ERROR"}
               ELSE {"HANDLE_NOT_FOUND"} :
       Returns("Settings", res, sa_handle, NoTarget)
  /\ UNCHANGED <<initialized, registry, winsock, alive, program, pc, sa_handle, named, code, sent>>

MenuExit ==
  /\ pc = "menu"
  /\ AVCOM_SA_Deinitialize
  /\ pc' = "exited"
  /\ UNCHANGED <<program, sa_handle, named, code, sent>>

\* The menu reads one command after the other, for as long as the user likes.
Menu == MenuLifecycle \/ MenuExchange \/ MenuExit

ProgStep ==
  \/ CallInitialize
  \/ CallRegister
  \/ CallConnect
  \/ \E op \in BootCalls : CallBoot(op)
  \/ CallSettings
  \/ CallDisconnect
  \/ CallUnregister
  \/ CallDeinitialize
  \/ Pexit

\* A process that has exited or died stays so.
Gone == (pc = "exited" \/ ~alive) /\ UNCHANGED progvars

ProgNext == ProgStep \/ Menu \/ Gone

\* Calls return (Connect sets SO_RCVTIMEO before the first recv) and the
\* questions of sbs_bl are answered; nothing is assumed of the debugger's user.
ProgSpec == ProgInit /\ [][ProgNext]_progvars /\ WF_progvars(ProgStep)

-----------------------------------------------------------------------------
(* Properties *)

\* The variables stay in their types; what goes out are bytes.
ProgTypeOK ==
  /\ TypeOK
  /\ program \in Program
  /\ sa_handle \in Addr \cup {NoHandle}
  /\ \A i \in 1..Len(sent) : \A j \in 1..Len(sent[i]) : sent[i][j] \in Byte

\* Whichever call fails, a program that comes to exit() has given everything
\* back: no handle is registered, no block allocated, and a socket is open only
\* if a setsockopt or closesocket failed on it.
ReleasedAtExit ==
  pc = "exited" =>
    /\ ~initialized /\ plist = << >> /\ heap = {}
    /\ \A f \in Fd : sock[f] # "closed" => f \in faulty

\* The handle a program uses is, while it is registered, the one of the analyzer
\* named last to a Register or GetHandle that wrote it: not one that malloc has
\* since put where a handle was that the program unregistered, was refused or
\* read uninitialized.
HandleNamed ==
  sa_handle \in heap =>
    /\ Prefix[hnd[sa_handle].ip] = Prefix[named[1]]
    /\ hnd[sa_handle].portno = named[2] % 65536

\* Each WSAStartup that sbs_bl or gilatTest makes is matched before the next one
\* and before exit(), so the loop of gilatTest leaks none; unless the WSACleanup
\* failed, or Initialize had no memory for plist, after which Deinitialize has
\* nothing to undo and the failing Register gives the exit code.
WinsockBalanced ==
  program # "debugger" =>
    /\ winsock <= 1
    /\ pc = "exited" /\ winsock = 1 =>
         code = "NOT_INITIALIZED" \/ "WSACLEANUP_FAILED" \in {code, ret.res}

\* The boot calls have their checkforhandle commented out, and the settings
\* check the pointer only: when they are made the handle is registered and its
\* socket connected, whatever happened in Register and Connect.
HandleLive ==
  alive /\ pc \in BootCalls \cup {"Settings"} =>
    /\ sa_handle \in heap
    /\ hnd[sa_handle].socketfd # NoSock
    /\ sock[hnd[sa_handle].socketfd] = "connected"

\* An exit code of 0 from sbs_bl means that the five packets have all been
\* sent, in their order: unlock, calibration, boot mode, key, description.
SuccessMeansSent ==
  program = "sbs_bl" /\ pc = "exited" /\ code = "NO_ERROR" =>
    [i \in 1..Len(sent) |-> sent[i][4]]
      = <<SBS_UNLOCK, SBS_CAL_CMD, SBS_BOOT_MODE, SBS_BOOTLOADER, SBS_BOOTLOADER>>

Total(bytes) ==
  LET sum[i \in 0..Len(bytes)] == IF i = 0 THEN 0 ELSE sum[i - 1] + bytes[i]
  IN  sum[Len(bytes)]

\* The analyzer reads the packets as AOV_recData reads its replies: the length
\* field takes it exactly to the ETX; and the bytes of a description add up to
\* 0 in a byte, checksum included, for every code and serial that is entered.
PacketsWellFormed ==
  \A i \in 1..Len(sent) :
    LET p == sent[i] IN
    /\ p[1] = STX /\ 3 + 256 * p[2] + p[3] = Len(p) /\ p[Len(p)] = ETX
    /\ p[4] = SBS_BOOTLOADER /\ p[5] = BOOTLOAD_DESC =>
         Total(SubSeq(p, 4, Len(p) - 1)) % 256 = 0

\* Neither sbs_bl nor gilatTest keeps a handle for good: once one is registered,
\* plist is empty again some time later, unless the process dies in realloc.
HandlesReleased ==
  (plist # << >> /\ program # "debugger") ~> (plist = << >> \/ ~alive)
=============================================================================
