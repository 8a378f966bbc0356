--------------------------- MODULE AovPrograms_proofs ---------------------------
(***************************************************************************)
(* Proofs about the programs, for any number of addresses, sockets, hosts, *)
(* ports, codes and serial numbers.  The registry's invariant holds of a   *)
(* program because its calls are the registry's; what is added is where    *)
(* the program is and what it therefore knows of its handle.               *)
(***************************************************************************)
EXTENDS AovPrograms, SequenceTheorems, AovRegistry_proofs

-----------------------------------------------------------------------------
(* What a successful call leaves *)

LEMMA RegisterSucceeds ==
  ASSUME NEW s, Sound(s), NEW a \in Addr \ s.heap, NEW ip \in Ip, NEW port \in Port, NEW flags,
         NEW o \in Enrolled(s, a, ip, port, flags), o.res = "NO_ERROR"
  PROVE  /\ a \in o.st.heap
         /\ flags = "AOV_ALSO_CONNECT" => Connected(o.st, a)
<1> DEFINE new == Resolved(Appended(s, a, ip, port), a)
<1>1. Sound(new) /\ new \in RegState /\ a \in new.heap
  <2>1. Enrolling(s, Appended(s, a, ip, port), a, ip, port)
    BY AppendedSound
  <2>2. Enrolling(s, new, a, ip, port)
    BY <2>1, ResolvedSound
  <2> QED BY <2>2 DEF Enrolling, Sound
<1>2. \A t, r : \A u \in TakeBack(t, a, r) : u.res = r
  BY DEF TakeBack, Outcome
<1>3. o \in Introduced(new, a, flags)
  <2>1. \/ o \in TakeBack(Appended(s, a, ip, port), a, "GET_ADDR_INFO_FAIL")
        \/ o \in Rejected(new, a, port)
        \/ o \in Introduced(new, a, flags)
    BY Zenon DEF Enrolled
  <2>2. \A u \in Rejected(new, a, port) : u.res = "HANDLE_ALREADY_EXISTS"
    BY <1>2 DEF Rejected, Outcome
  <2> QED BY <1>2, <2>1, <2>2
<1> HIDE DEF new
<1>4. PICK c \in Connect(new, a) : c.res = "NO_ERROR" /\ o \in Described(c.st, a, flags)
  BY <1>2, <1>3 DEF Introduced, ExchangeFailures
<1>5. Connected(c.st, a)
  BY <1>1, <1>4, ConnectSucceeds
<1>6. CASE flags = "AOV_ALSO_CONNECT"
  BY <1>4, <1>5, <1>6 DEF Described, Outcome, Connected
<1>7. CASE flags # "AOV_ALSO_CONNECT"
  <2>1. Sound(c.st)
    BY <1>1, <1>4, ConnectSound
  <2>2. o \in Disconnect(c.st, a)
    BY <1>4, <1>7 DEF Described
  <2>3. o.st.heap = c.st.heap
    BY <2>1, <2>2, DisconnectSound DEF SameHandles
  <2> QED BY <1>5, <1>7, <2>3 DEF Connected
<1> QED BY <1>6, <1>7

-----------------------------------------------------------------------------
(* The invariant of a program *)

\* The calls between which a program has its handle, and those between which
\* the handle is connected as well.
Holding == {"Connect", "UnlockCal", "CalMode", "BootMode", "BootKey", "BootDescProg",
            "Disconnect", "Settings"}
Online == BootCalls \cup {"Settings"}

\* Where a program is, and what it knows there: an exited one has deinitialized
\* the API, one that holds a handle has it registered, and connected where the
\* calls need it.
PInv ==
  /\ IInv
  /\ program \in Program
  /\ pc \in DOMAIN After[program] \cup {"pexit", "exited"}
  /\ pc = "exited" => ~initialized
  /\ pc \in Holding => sa_handle \in Addr /\ sa_handle \in heap
  /\ pc = "Unregister" => sa_handle \in Addr
  /\ pc \in Online => Connected(Current, sa_handle)

\* The programs, spelled out.
LEMMA Order ==
  /\ Program = {"sbs_bl", "gilatTest", "debugger"}
  /\ BootCalls = {"UnlockCal", "CalMode", "BootMode", "BootKey", "BootDescProg"}
  /\ DOMAIN After["sbs_bl"] =
       BootCalls \cup {"Initialize", "Register", "Connect", "Disconnect", "Unregister",
                       "Deinitialize"}
  /\ DOMAIN After["gilatTest"] =
       {"Initialize", "Register", "Settings", "Unregister", "Deinitialize"}
  /\ DOMAIN After["debugger"] = {"menu"}
BY DEF Program, After, SbsOrder, GilatOrder, BootCalls, Bodies

\* What follows a call that both programs make.
LEMMA Follows ==
  ASSUME NEW p \in {"sbs_bl", "gilatTest"}
  PROVE  /\ After[p]["Initialize"] = "Register"
         /\ After[p]["Unregister"] = "Deinitialize"
         /\ After[p]["Deinitialize"] \in {"exited", "Initialize"}
         /\ {"Initialize", "Register", "Unregister", "Deinitialize"} \subseteq DOMAIN After[p]
<1>1. CASE p = "sbs_bl"
  BY <1>1 DEF After, SbsOrder
<1>2. CASE p = "gilatTest"
  BY <1>2 DEF After, GilatOrder
<1> QED BY <1>1, <1>2

LEMMA NotDebugger ==
  ASSUME PInv, pc \notin {"menu", "pexit", "exited"}
  PROVE  program \in {"sbs_bl", "gilatTest"}
BY Order DEF PInv

\* The registry's invariant over a call of the registry.
LEMMA CallKeepsIInv ==
  ASSUME IInv, Next
  PROVE  IInv'
BY NextKeeps

LEMMA InitPInv == ProgInit => PInv
<1> SUFFICES ASSUME ProgInit PROVE PInv
  OBVIOUS
<1>1. IInv
  BY InitIInv DEF ProgInit
<1>2. program \in Program /\ pc = IF program = "debugger" THEN "menu" ELSE "Initialize"
  BY DEF ProgInit
<1>3. pc \in DOMAIN After[program]
  BY <1>2, Order
<1>4. pc \notin Holding /\ pc \notin Online
  BY <1>2, Order DEF Holding, Online
<1> QED BY <1>1, <1>2, <1>3, <1>4 DEF PInv

\* After a call that failed, or in a dead process, only the registry counts.
LEMMA FailedCall ==
  ASSUME PInv, IInv', UNCHANGED program, pc' = "pexit"
  PROVE  PInv'
<1>1. pc' \notin Holding /\ pc' \notin Online
  BY Order DEF Holding, Online
<1> QED BY <1>1 DEF PInv

LEMMA InitializeKeeps ==
  ASSUME PInv, CallInitialize
  PROVE  PInv'
<1>1. IInv'
  BY CallKeepsIInv DEF PInv, CallInitialize, MakesCall, Next
<1>2. pc = "Initialize" /\ alive' /\ GoesOn("Initialize") /\ UNCHANGED program
  BY DEF CallInitialize, MakesCall, AVCOM_SA_Initialize
<1>3. CASE pc' = "pexit"
  BY <1>1, <1>2, <1>3, FailedCall
<1>4. CASE pc' = After[program]["Initialize"]
  <2>1. pc' = "Register" /\ pc' \in DOMAIN After[program]
    BY <1>2, <1>4, NotDebugger, Follows
  <2> QED BY <1>1, <1>2, <2>1, Order DEF PInv, Holding, Online
<1> QED BY <1>2, <1>3, <1>4 DEF GoesOn

LEMMA RegisterCallKeeps ==
  ASSUME PInv, CallRegister
  PROVE  PInv'
<1>1. PICK ip \in Ip, port \in Port, flags \in {"AOV_DEFAULT", "AOV_ALSO_CONNECT"} :
        /\ MakesCall("Register", AVCOM_SA_Register(ip, port, flags))
        /\ program = "gilatTest" => flags = "AOV_ALSO_CONNECT"
        /\ StoresHandle(ret'.h)
  BY DEF CallRegister
<1>2. IInv'
  BY <1>1, CallKeepsIInv DEF PInv, MakesCall, Next
<1>3. pc = "Register" /\ GoesOn("Register") /\ UNCHANGED program
  BY <1>1 DEF MakesCall
<1>4. CASE pc' = "pexit"
  BY <1>2, <1>3, <1>4, FailedCall
<1>5. CASE pc' = pc
  BY <1>2, <1>3, <1>5, Order DEF PInv, Holding, Online
<1>6. CASE alive' /\ ret'.res = "NO_ERROR" /\ pc' = After[program]["Register"]
  <2>1. PICK a \in Addr : RegisterBlock(a, ip, port, flags)
    <3>1. ~RegisterWithoutBlock(ip, port)
      <4>1. ASSUME RegisterWithoutBlock(ip, port)
            PROVE  ret'.res \in {"MALLOC_FAILED", "NOT_INITIALIZED"}
        <5>1. \/ Returns("Register", "MALLOC_FAILED", NoHandle, <<ip, port>>)
              \/ Returns("Register", "NOT_INITIALIZED", NoHandle, <<ip, port>>)
          BY <4>1, Zenon DEF RegisterWithoutBlock
        <5> QED BY <5>1 DEF Returns
      <4> QED BY <1>6, <4>1
    <3>2. \A a \in Addr : ~RegisterReallocFails(a)
      BY <1>6, Zenon DEF RegisterReallocFails
    <3> QED BY <1>1, <3>1, <3>2 DEF MakesCall, AVCOM_SA_Register
  <2>2. PICK o \in Enrolled(Current, a, ip, port, flags) :
          Becomes(o.st) /\ Returns("Register", o.res, a, <<ip, port>>)
    BY <2>1 DEF RegisterBlock
  <2>3. o.res = "NO_ERROR" /\ sa_handle' = a
    BY <1>1, <1>6, <2>2, AddrAssumption DEF Returns, StoresHandle
  <2>4. Sound(Current) /\ a \in Addr \ Current.heap
    BY <2>1 DEF PInv, IInv, RegisterBlock, Current
  <2>5. a \in o.st.heap /\ (flags = "AOV_ALSO_CONNECT" => Connected(o.st, a))
    BY <2>2, <2>3, <2>4, RegisterSucceeds
  <2>6. a \in heap' /\ (flags = "AOV_ALSO_CONNECT" => Connected(Current, a)')
    BY <2>2, <2>5 DEF Becomes, Connected, Current
  <2>7. CASE program = "sbs_bl"
    <3>1. pc' = "Connect"
      BY <1>6, <2>7 DEF After, SbsOrder, GilatOrder
    <3>2. pc' \in DOMAIN After[program] /\ pc' \notin Online
      BY <2>7, <3>1, Order DEF Online
    <3> QED BY <1>2, <1>3, <2>3, <2>6, <3>1, <3>2 DEF PInv
  <2>8. CASE program = "gilatTest"
    <3>1. pc' = "Settings"
      BY <1>6, <2>8 DEF After, SbsOrder, GilatOrder
    <3>2. pc' \in DOMAIN After[program]
      BY <2>8, <3>1, Order
    <3> QED BY <1>1, <1>2, <1>3, <2>3, <2>6, <2>8, <3>1, <3>2 DEF PInv
  <2> QED BY <1>3, <2>7, <2>8, NotDebugger
<1> QED BY <1>3, <1>4, <1>5, <1>6 DEF GoesOn

LEMMA ConnectCallKeeps ==
  ASSUME PInv, CallConnect
  PROVE  PInv'
<1>1. /\ pc = "Connect" /\ GoesOn("Connect") /\ UNCHANGED <<program, sa_handle>>
      /\ AVCOM_SA_Connect(sa_handle) /\ sa_handle \in Addr /\ sa_handle \in heap
      /\ program = "sbs_bl"
  BY Order DEF CallConnect, MakesCall, PInv, Holding
<1>2. IInv'
  BY <1>1, CallKeepsIInv DEF PInv, Next
<1>3. CASE pc' = "pexit"
  BY <1>1, <1>2, <1>3, FailedCall
<1>4. CASE ret'.res = "NO_ERROR" /\ pc' = After[program]["Connect"]
  <2>1. PICK o \in Connect(Current, sa_handle) :
          Becomes(o.st) /\ Returns("Connect", o.res, sa_handle, NoTarget)
    BY <1>1 DEF AVCOM_SA_Connect
  <2>2. Connected(o.st, sa_handle)
    <3>1. o.res = "NO_ERROR"
      BY <1>4, <2>1 DEF Returns
    <3>2. Current \in RegState /\ sa_handle \in Current.heap
      BY <1>1 DEF PInv, IInv, Sound, Current
    <3> QED BY <1>1, <2>1, <3>1, <3>2, ConnectSucceeds
  <2>3. Connected(Current, sa_handle)' /\ sa_handle' \in heap'
    BY <1>1, <2>1, <2>2 DEF Becomes, Connected, Current
  <2>4. pc' = "UnlockCal"
    BY <1>1, <1>4 DEF After, SbsOrder, GilatOrder
  <2>5. pc' \in DOMAIN After[program]
    BY <1>1, <2>4, Order
  <2> QED BY <1>1, <1>2, <2>3, <2>4, <2>5 DEF PInv
<1>5. alive'
  BY <1>1 DEF AVCOM_SA_Connect
<1> QED BY <1>1, <1>3, <1>4, <1>5 DEF GoesOn

\* The calls on the analyzer leave registry, Winsock and process alone.
LEMMA ExchangeKeeps ==
  ASSUME PInv, NEW op \in Online, pc = op, GoesOn(op), alive,
         UNCHANGED <<initialized, registry, winsock, alive, program, sa_handle>>
  PROVE  PInv'
<1>1. IInv' /\ Current' = Current /\ alive'
  BY RegistryUnchanged DEF PInv, IInv, Current, registry
<1>2. CASE pc' = "pexit"
  BY <1>1, <1>2, FailedCall
<1>3. CASE pc' = After[program][op]
  <2>1. sa_handle' \in Addr /\ sa_handle' \in heap' /\ Connected(Current, sa_handle)'
    <3>1. pc \in Holding
      BY Order DEF Online, Holding
    <3>2. heap' = heap /\ sa_handle' = sa_handle
      BY DEF registry
    <3> QED BY <1>1, <3>1, <3>2 DEF PInv, Connected
  <2>2. CASE program = "sbs_bl"
    <3>1. op \in BootCalls
      BY <2>2, Order DEF PInv, Online
    <3>2. pc' \in {"CalMode", "BootMode", "BootKey", "BootDescProg", "Disconnect"}
      BY <1>3, <2>2, <3>1, Order DEF After, SbsOrder, GilatOrder
    <3>3. pc' \in DOMAIN After[program]
      BY <2>2, <3>2, Order
    <3> QED BY <1>1, <2>1, <3>2, <3>3 DEF PInv
  <2>3. CASE program = "gilatTest"
    <3>1. op = "Settings"
      BY <2>3, Order DEF PInv, Online
    <3>2. pc' = "Unregister"
      BY <1>3, <2>3, <3>1 DEF After, SbsOrder, GilatOrder
    <3>3. pc' \in DOMAIN After[program]
      BY <2>3, <3>2, Order
    <3> QED BY <1>1, <2>1, <3>2, <3>3 DEF PInv
  <2>4. op \notin {"menu", "pexit", "exited"}
    BY Order DEF Online
  <2> QED BY <2>2, <2>3, <2>4, NotDebugger
<1> QED BY <1>1, <1>2, <1>3 DEF GoesOn

LEMMA DisconnectCallKeeps ==
  ASSUME PInv, CallDisconnect
  PROVE  PInv'
<1>1. /\ pc = "Disconnect" /\ GoesOn("Disconnect") /\ UNCHANGED <<program, sa_handle>>
      /\ AVCOM_SA_Disconnect(sa_handle) /\ sa_handle \in Addr
      /\ program = "sbs_bl" /\ alive'
  BY Order DEF CallDisconnect, MakesCall, PInv, Holding, AVCOM_SA_Disconnect
<1>2. IInv'
  BY <1>1, CallKeepsIInv DEF PInv, Next
<1>3. CASE pc' = "pexit"
  BY <1>1, <1>2, <1>3, FailedCall
<1>4. CASE pc' = After[program]["Disconnect"]
  <2>1. pc' = "Unregister"
    BY <1>1, <1>4 DEF After, SbsOrder, GilatOrder
  <2>2. pc' \in DOMAIN After[program] /\ pc' \notin Holding /\ pc' \notin Online
    BY <1>1, <2>1, Order DEF Holding, Online
  <2> QED BY <1>1, <1>2, <2>1, <2>2 DEF PInv
<1> QED BY <1>1, <1>3, <1>4 DEF GoesOn

LEMMA UnregisterCallKeeps ==
  ASSUME PInv, CallUnregister
  PROVE  PInv'
<1>1. /\ pc = "Unregister" /\ GoesOn("Unregister") /\ UNCHANGED program
      /\ AVCOM_SA_Unregister(sa_handle) /\ sa_handle \in Addr /\ alive'
  BY DEF CallUnregister, MakesCall, PInv, AVCOM_SA_Unregister
<1>2. IInv'
  BY <1>1, CallKeepsIInv DEF PInv, Next
<1>3. CASE pc' = "pexit"
  BY <1>1, <1>2, <1>3, FailedCall
<1>4. CASE pc' = After[program]["Unregister"]
  <2>1. pc' = "Deinitialize" /\ pc' \in DOMAIN After[program]
    BY <1>1, <1>4, NotDebugger, Follows
  <2>2. pc' \notin Holding /\ pc' \notin Online
    BY <2>1, Order DEF Holding, Online
  <2> QED BY <1>1, <1>2, <2>1, <2>2 DEF PInv
<1> QED BY <1>1, <1>3, <1>4 DEF GoesOn

LEMMA DeinitializeCallKeeps ==
  ASSUME PInv, CallDeinitialize
  PROVE  PInv'
<1>1. /\ pc = "Deinitialize" /\ GoesOn("Deinitialize") /\ UNCHANGED program
      /\ AVCOM_SA_Deinitialize /\ alive'
  BY DEF CallDeinitialize, MakesCall, AVCOM_SA_Deinitialize
<1>2. IInv'
  BY <1>1, CallKeepsIInv DEF PInv, Next
<1>3. CASE pc' = "pexit"
  BY <1>1, <1>2, <1>3, FailedCall
<1>4. CASE ret'.res = "NO_ERROR" /\ pc' = After[program]["Deinitialize"]
  <2>1. ~initialized'
    BY <1>1, <1>4 DEF AVCOM_SA_Deinitialize, Returns
  <2>2. pc' \in {"exited", "Initialize"} /\ pc' \in DOMAIN After[program] \cup {"exited"}
    BY <1>1, <1>4, NotDebugger, Follows
  <2>4. pc' \notin Holding /\ pc' \notin Online
    BY <2>2, Order DEF Holding, Online
  <2> QED BY <1>1, <1>2, <2>1, <2>2, <2>4 DEF PInv
<1> QED BY <1>1, <1>3, <1>4 DEF GoesOn

LEMMA PexitKeeps ==
  ASSUME PInv, Pexit
  PROVE  PInv'
<1>1. AVCOM_SA_Deinitialize /\ pc' = "exited" /\ UNCHANGED program
  BY DEF Pexit
<1>2. IInv'
  BY <1>1, CallKeepsIInv DEF PInv, Next
<1>3. ~initialized'
  BY <1>1 DEF AVCOM_SA_Deinitialize
<1>4. pc' \notin Holding /\ pc' \notin Online
  BY <1>1, Order DEF Holding, Online
<1> QED BY <1>1, <1>2, <1>3, <1>4 DEF PInv

\* A call that does no more to the handles than to drop some.
Keeps ==
  /\ heap' \subseteq heap
  /\ \A a \in heap' : hnd'[a].ip = hnd[a].ip /\ hnd'[a].portno = hnd[a].portno

LEMMA OutcomeKeeps ==
  ASSUME NEW t, Becomes(t), t.heap \subseteq heap, SameAnalyzers(Current, t, t.heap)
  PROVE  Keeps
BY DEF Becomes, SameAnalyzers, Current, Keeps

LEMMA UnchangedKeeps ==
  ASSUME UNCHANGED registry
  PROVE  Keeps
BY DEF registry, Keeps

\* The calls on a handle, which may be any pointer.
LEMMA HandleCalls ==
  ASSUME IInv, NEW h, AVCOM_SA_Connect(h) \/ AVCOM_SA_Disconnect(h) \/ AVCOM_SA_Unregister(h)
  PROVE  IInv' /\ Keeps
<1>1. CASE h \in Addr
  <2>1. IInv'
    BY <1>1, ConnectKeeps, DisconnectKeeps, UnregisterKeeps
  <2>2. CASE AVCOM_SA_Connect(h) \/ AVCOM_SA_Disconnect(h)
    <3>1. PICK o \in Connect(Current, h) \cup Disconnect(Current, h) : Becomes(o.st)
      BY <2>2 DEF AVCOM_SA_Connect, AVCOM_SA_Disconnect
    <3>2. SameHandles(Current, o.st) /\ Current.heap = heap /\ heap \subseteq Addr
      BY <1>1, <3>1, ConnectSound, DisconnectSound DEF IInv, Sound, RegState, Current
    <3> QED BY <2>1, <3>1, <3>2, OutcomeKeeps DEF SameHandles, SameAnalyzers
  <2>3. CASE AVCOM_SA_Unregister(h)
    <3>1. PICK o \in Unregister(Current, h) : Becomes(o.st)
      BY <2>3 DEF AVCOM_SA_Unregister
    <3>2. Sound(Current)
      BY DEF IInv
    <3>3. o.st.heap = Current.heap \ {h} /\ SameAnalyzers(Current, o.st, Addr \ {h})
      BY <1>1, <3>1, <3>2, UnregisterSound
    <3>4. Current.heap = heap /\ heap \subseteq Addr
      BY <3>2 DEF Sound, RegState, Current
    <3> QED BY <2>1, <3>1, <3>3, <3>4, OutcomeKeeps DEF SameAnalyzers
  <2> QED BY <2>2, <2>3
<1>2. CASE h \notin Addr
  <2>1. ~Registered(Current, h)
    BY <1>2 DEF IInv, Sound, RegState, Registered
  <2>2. Becomes(Current) /\ UNCHANGED <<initialized, winsock, alive>>
    BY <2>1 DEF AVCOM_SA_Connect, AVCOM_SA_Disconnect, AVCOM_SA_Unregister,
                Connect, Disconnect, Unregister, Outcome
  <2>3. UNCHANGED registry
    BY <2>2 DEF Becomes, Current, registry
  <2>4. UNCHANGED <<initialized, winsock>> /\ alive' \in BOOLEAN
    BY <2>2 DEF IInv
  <2> QED BY <2>3, <2>4, RegistryUnchanged, UnchangedKeeps
<1> QED BY <1>1, <1>2

LEMMA MenuKeeps ==
  ASSUME PInv, Menu
  PROVE  PInv'
<1>1. /\ pc = "menu" /\ UNCHANGED program /\ pc' \in {"menu", "exited"}
      /\ pc' = "exited" => MenuExit
  BY DEF Menu, MenuLifecycle, MenuExchange, MenuExit
<1>2. IInv'
  <2>1. CASE Next
    BY <2>1, CallKeepsIInv DEF PInv
  <2>2. CASE \/ AVCOM_SA_Connect(sa_handle) \/ AVCOM_SA_Disconnect(sa_handle)
             \/ AVCOM_SA_Unregister(sa_handle)
    BY <2>2, HandleCalls DEF PInv
  <2>3. CASE MenuExchange
    <3>1. UNCHANGED <<initialized, winsock>> /\ alive' \in BOOLEAN /\ UNCHANGED registry
      BY <2>3 DEF MenuExchange, PInv, IInv
    <3> QED BY <3>1, RegistryUnchanged DEF PInv
  <2> QED BY <2>1, <2>2, <2>3 DEF Menu, MenuLifecycle, MenuExit, Next
<1>3. pc' = "exited" => ~initialized'
  BY <1>1 DEF MenuExit, AVCOM_SA_Deinitialize
<1>4. pc' \notin Holding /\ pc' \notin Online /\ pc' # "Unregister"
  BY <1>1, Order DEF Holding, Online
<1>5. pc' \in DOMAIN After[program] \cup {"exited"}
  BY <1>1, Order DEF PInv
<1> QED BY <1>1, <1>2, <1>3, <1>4, <1>5 DEF PInv

LEMMA StutterKeeps ==
  ASSUME PInv, UNCHANGED progvars
  PROVE  PInv'
<1>1. IInv'
  BY NextKeeps DEF PInv, progvars
<1>2. Current' = Current /\ heap' = heap
  BY DEF progvars, vars, registry, Current
<1> QED BY <1>1, <1>2 DEF PInv, Connected, progvars, vars

LEMMA ProgNextKeeps ==
  ASSUME PInv, [ProgNext]_progvars
  PROVE  PInv'
<1>1. CASE CallInitialize
  BY <1>1, InitializeKeeps
<1>2. CASE CallRegister
  BY <1>2, RegisterCallKeeps
<1>3. CASE CallConnect
  BY <1>3, ConnectCallKeeps
<1>4. ASSUME NEW op \in BootCalls, CallBoot(op) PROVE PInv'
  BY <1>4, ExchangeKeeps DEF CallBoot, Online
<1>5. CASE CallSettings
  BY <1>5, ExchangeKeeps DEF CallSettings, Online
<1>6. CASE CallDisconnect
  BY <1>6, DisconnectCallKeeps
<1>7. CASE CallUnregister
  BY <1>7, UnregisterCallKeeps
<1>8. CASE CallDeinitialize
  BY <1>8, DeinitializeCallKeeps
<1>9. CASE Pexit
  BY <1>9, PexitKeeps
<1>10. CASE UNCHANGED progvars
  BY <1>10, StutterKeeps
<1>11. CASE Menu
  BY <1>11, MenuKeeps
<1> QED BY <1>1, <1>2, <1>3, <1>4, <1>5, <1>6, <1>7, <1>8, <1>9, <1>10, <1>11
        DEF ProgNext, ProgStep, Gone

-----------------------------------------------------------------------------
(* Whose handle it is *)

LEMMA KeepsNamed ==
  ASSUME HandleNamed, Keeps, UNCHANGED <<sa_handle, named>>
  PROVE  HandleNamed'
BY DEF HandleNamed, Keeps

LEMMA DeinitializeDrops ==
  ASSUME IInv, AVCOM_SA_Deinitialize
  PROVE  Keeps
<1>1. CASE UNCHANGED registry
  BY <1>1, UnchangedKeeps
<1>2. CASE \E F \in SUBSET OwnedSockets(Current) : Becomes(Emptied(Current, F))
  <2>1. PICK F \in SUBSET OwnedSockets(Current) : Becomes(Emptied(Current, F))
    BY <1>2
  <2>2. Sound(Current)
    BY DEF IInv
  <2>3. Emptied(Current, F).heap = {}
    BY <2>2, EmptiedSound
  <2> QED BY <2>1, <2>3 DEF Becomes, Keeps
<1> QED BY <1>1, <1>2 DEF AVCOM_SA_Deinitialize

\* The block that a Register stores is taken back or registered for its target.
LEMMA RegisterNames ==
  ASSUME IInv, HandleNamed, NEW ip \in Ip, NEW port \in Port, NEW flags,
         AVCOM_SA_Register(ip, port, flags), StoresHandle(ret'.h)
  PROVE  HandleNamed'
<1>1. CASE RegisterWithoutBlock(ip, port)
  <2>1. UNCHANGED registry
    BY <1>1 DEF RegisterWithoutBlock
  <2>2. ret'.h = NoHandle
    BY <1>1 DEF RegisterWithoutBlock, Returns
  <2> QED BY <2>1, <2>2, UnchangedKeeps, KeepsNamed DEF StoresHandle
<1>2. ASSUME NEW a \in Addr, RegisterReallocFails(a) PROVE HandleNamed'
  <2>1. UNCHANGED registry /\ ~alive'
    BY <1>2 DEF RegisterReallocFails
  <2> QED BY <2>1, UnchangedKeeps, KeepsNamed DEF StoresHandle
<1>3. ASSUME NEW a \in Addr, RegisterBlock(a, ip, port, flags) PROVE HandleNamed'
  <2>1. PICK o \in Enrolled(Current, a, ip, port, flags) :
          Becomes(o.st) /\ Returns("Register", o.res, a, <<ip, port>>)
    BY <1>3 DEF RegisterBlock
  <2>2. Sound(Current) /\ a \in Addr \ Current.heap
    BY <1>3 DEF IInv, RegisterBlock, Current
  <2>3. alive' /\ a # NoHandle
    BY <1>3, AddrAssumption DEF RegisterBlock
  <2>4. sa_handle' = a /\ named' = <<ip, port>>
    BY <2>1, <2>3 DEF Returns, StoresHandle
  <2>5. TakenBack(Current, o.st) \/ Enrolling(Current, o.st, a, ip, port)
    BY <2>1, <2>2, EnrolledSound
  <2>6. \/ a \notin heap'
        \/ hnd'[a].ip = ip /\ hnd'[a].portno = port % 65536
    BY <2>1, <2>2, <2>5 DEF TakenBack, Enrolling, Becomes
  <2> QED BY <2>4, <2>6 DEF HandleNamed
<1> QED BY <1>1, <1>2, <1>3 DEF AVCOM_SA_Register

\* A handle that GetHandle finds has the port it is asked for.
LEMMA GetHandleNames ==
  ASSUME IInv, NEW ip \in Ip, NEW port \in Port, AVCOM_SA_GetHandle(ip, port),
         sa_handle' = ret'.h, named' = ret'.to
  PROVE  HandleNamed'
<1>1. /\ sa_handle' \in {NoHandle, GetHandle(Current, ip, port)}
      /\ named' = <<ip, port>> /\ heap' = heap /\ hnd' = hnd
  BY DEF AVCOM_SA_GetHandle, Returns, registry
<1>2. Sound(Current) /\ Current.heap = heap /\ Current.hnd = hnd
  BY DEF IInv, Current
<1>3. NoHandle \notin heap
  BY <1>2, AddrAssumption DEF Sound, RegState
<1>4. \/ sa_handle' \notin heap
      \/ sa_handle' \in heap /\ Matches(Current, sa_handle', ip, port)
  BY <1>1, <1>2, <1>3, GetHandleFinds
<1>5. ASSUME sa_handle' \in heap, Matches(Current, sa_handle', ip, port)
      PROVE  /\ Prefix[hnd[sa_handle'].ip] = Prefix[ip]
             /\ hnd[sa_handle'].portno = port % 65536
  <2>1. Prefix[hnd[sa_handle'].ip] = Prefix[ip] /\ hnd[sa_handle'].portno = port
    BY <1>2, <1>5 DEF Matches
  <2>2. hnd[sa_handle'].portno \in PortNo
    BY <1>2, <1>5 DEF Sound, RegState, Handle
  <2> QED BY <2>1, <2>2, PortNoBelow
<1> QED BY <1>1, <1>4, <1>5 DEF HandleNamed

LEMMA NamedKept ==
  ASSUME PInv, HandleNamed, [ProgNext]_progvars
  PROVE  HandleNamed'
<1>1. IInv
  BY DEF PInv
<1>2. CASE UNCHANGED registry /\ UNCHANGED <<sa_handle, named>>
  BY <1>2, UnchangedKeeps, KeepsNamed
<1>3. CASE AVCOM_SA_Deinitialize /\ UNCHANGED <<sa_handle, named>>
  BY <1>1, <1>3, DeinitializeDrops, KeepsNamed
<1>4. CASE /\ UNCHANGED <<sa_handle, named>>
           /\ \/ AVCOM_SA_Connect(sa_handle) \/ AVCOM_SA_Disconnect(sa_handle)
              \/ AVCOM_SA_Unregister(sa_handle)
  BY <1>1, <1>4, HandleCalls, KeepsNamed
<1>5. ASSUME NEW ip \in Ip, NEW port \in Port, NEW flags,
             AVCOM_SA_Register(ip, port, flags), StoresHandle(ret'.h)
      PROVE  HandleNamed'
  BY <1>1, <1>5, RegisterNames
<1>6. ASSUME NEW ip \in Ip, NEW port \in Port,
             AVCOM_SA_GetHandle(ip, port), sa_handle' = ret'.h, named' = ret'.to
      PROVE  HandleNamed'
  BY <1>1, <1>6, GetHandleNames
<1>7. CASE CallInitialize
  BY <1>2, <1>7 DEF CallInitialize, MakesCall, AVCOM_SA_Initialize
<1>8. CASE CallRegister
  BY <1>5, <1>8 DEF CallRegister, MakesCall
<1>9. CASE CallConnect \/ CallDisconnect \/ CallUnregister
  BY <1>4, <1>9 DEF CallConnect, CallDisconnect, CallUnregister, MakesCall
<1>10. CASE CallSettings \/ \E op \in BootCalls : CallBoot(op)
  BY <1>2, <1>10 DEF CallSettings, CallBoot
<1>11. CASE CallDeinitialize \/ Pexit \/ MenuExit
  BY <1>3, <1>11 DEF CallDeinitialize, MakesCall, Pexit, MenuExit
<1>12. CASE MenuExchange
  BY <1>2, <1>12 DEF MenuExchange
<1>13. CASE MenuLifecycle
  BY <1>2, <1>3, <1>4, <1>5, <1>6, <1>13 DEF MenuLifecycle, AVCOM_SA_Initialize
<1>14. CASE UNCHANGED progvars
  BY <1>2, <1>14 DEF progvars, vars
<1> QED BY <1>7, <1>8, <1>9, <1>10, <1>11, <1>12, <1>13, <1>14
        DEF ProgNext, ProgStep, Menu, Gone

-----------------------------------------------------------------------------
(* Winsock *)

\* The failures after which nothing undoes a WSAStartup.
NotUndone == {"NOT_INITIALIZED", "WSACLEANUP_FAILED"}

\* What sbs_bl and gilatTest know of Winsock: it is down before Initialize, up
\* until Deinitialize, and pexit takes it down unless the API has forgotten it.
Balance ==
  program # "debugger" =>
    /\ pc = "Initialize" => winsock = 0 /\ ~initialized
    /\ pc = "Register" => winsock = 1
    /\ pc \in Holding \cup {"Unregister", "Deinitialize"} => winsock = 1 /\ initialized
    /\ pc = "pexit" => winsock = 0 \/ (winsock = 1 /\ (initialized \/ code \in NotUndone))
    /\ pc = "exited" =>
         winsock = 0 \/ (winsock = 1 /\ (code \in NotUndone \/ ret.res = "WSACLEANUP_FAILED"))

LEMMA ProgramCounter ==
  ASSUME PInv, program # "debugger"
  PROVE  pc \in {"Initialize", "Register", "Unregister", "Deinitialize", "pexit", "exited"}
                  \cup Holding
BY Order DEF PInv, Holding

\* Register and the calls with a handle lead to a call with a handle, or to
\* those that give it back.
LEMMA Onward ==
  ASSUME NEW p \in {"sbs_bl", "gilatTest"}, NEW op \in Holding \cup {"Register", "Unregister"},
         op \in DOMAIN After[p]
  PROVE  After[p][op] \in Holding \cup {"Unregister", "Deinitialize"}
<1>1. CASE p = "sbs_bl"
  BY <1>1, Order DEF After, SbsOrder, Holding
<1>2. CASE p = "gilatTest"
  BY <1>2, Order DEF After, GilatOrder, Holding
<1> QED BY <1>1, <1>2

\* The calls between Initialize and Deinitialize leave Winsock alone; only a
\* Register meets an API that is not initialized.
LEMMA BalanceKept ==
  ASSUME PInv, Balance, UNCHANGED <<program, winsock, initialized>>,
         NEW op \in Holding \cup {"Register", "Unregister"}, pc = op, GoesOn(op),
         op = "Register" /\ alive' /\ ~initialized => ret'.res = "NOT_INITIALIZED"
  PROVE  Balance'
<1>1. program \in {"sbs_bl", "gilatTest"} /\ program # "debugger"
  BY NotDebugger DEF Holding
<1>2. winsock = 1 /\ (op # "Register" => initialized)
  BY <1>1 DEF Balance
<1>3. CASE ~alive'
  BY <1>1, <1>2, <1>3 DEF GoesOn, Balance, Holding
<1>4. CASE alive' /\ ret'.res = "NO_ERROR"
  <2>1. pc' \in Holding \cup {"Unregister", "Deinitialize"}
    <3>1. op \in DOMAIN After[program]
      BY DEF PInv, Holding
    <3> QED BY <1>1, <1>4, <3>1, Onward DEF GoesOn
  <2>2. initialized
    BY <1>2, <1>4
  <2> QED BY <1>2, <2>1, <2>2 DEF Balance, Holding
<1>5. CASE alive' /\ ret'.res # "NO_ERROR"
  <2>1. pc' = "pexit" /\ code' = ret'.res
    BY <1>5 DEF GoesOn
  <2>2. initialized \/ code' = "NOT_INITIALIZED"
    BY <1>2, <1>5, <2>1
  <2> QED BY <1>2, <2>1, <2>2 DEF Balance, Holding, NotUndone
<1> QED BY <1>3, <1>4, <1>5

LEMMA RegisterNotInitialized ==
  ASSUME NEW ip, NEW port, NEW flags, AVCOM_SA_Register(ip, port, flags)
  PROVE  /\ UNCHANGED <<winsock, initialized>>
         /\ alive' /\ ~initialized => ret'.res = "NOT_INITIALIZED"
<1>1. CASE RegisterWithoutBlock(ip, port)
  BY <1>1 DEF RegisterWithoutBlock, Returns
<1>2. CASE \E a \in Addr : RegisterBlock(a, ip, port, flags)
  BY <1>2 DEF RegisterBlock
<1>3. CASE \E a \in Addr : RegisterReallocFails(a)
  BY <1>3 DEF RegisterReallocFails
<1> QED BY <1>1, <1>2, <1>3 DEF AVCOM_SA_Register

\* Deinitialize takes Winsock down, or says that it could not.
LEMMA DeinitializeBalances ==
  ASSUME IInv, AVCOM_SA_Deinitialize
  PROVE  /\ alive' /\ ~initialized'
         /\ ~initialized => winsock' = winsock
         /\ initialized =>
              \/ winsock' = winsock - 1 /\ ret'.res = "NO_ERROR"
              \/ winsock' = winsock /\ ret'.res = "WSACLEANUP_FAILED"
BY DEF AVCOM_SA_Deinitialize, Returns, IInv

LEMMA BalanceNext ==
  ASSUME PInv, Balance, [ProgNext]_progvars
  PROVE  Balance'
<1>0. IInv /\ winsock \in Nat /\ WinsockUp
  BY DEF PInv, IInv
<1>1. CASE CallInitialize
  <2>1. /\ pc = "Initialize" /\ GoesOn("Initialize") /\ UNCHANGED program /\ alive'
        /\ AVCOM_SA_Initialize
    BY <1>1 DEF CallInitialize, MakesCall, AVCOM_SA_Initialize
  <2>2. program \in {"sbs_bl", "gilatTest"} /\ program # "debugger"
    BY <2>1, NotDebugger
  <2>3. winsock = 0 /\ ~initialized
    BY <2>1, <2>2 DEF Balance
  <2>4. \/ winsock' = 0 /\ ret'.res # "NO_ERROR"
        \/ winsock' = 1 /\ ret'.res = "NO_ERROR"
    BY <2>1, <2>3 DEF AVCOM_SA_Initialize, Returns
  <2>5. \/ winsock' = 0 /\ pc' = "pexit"
        \/ winsock' = 1 /\ pc' = "Register"
    BY <2>1, <2>2, <2>4, Follows DEF GoesOn
  <2> QED BY <2>5 DEF Balance, Holding
<1>2. CASE CallRegister
  <2>1. PICK ip \in Ip, port \in Port, flags \in {"AOV_DEFAULT", "AOV_ALSO_CONNECT"} :
          MakesCall("Register", AVCOM_SA_Register(ip, port, flags))
    BY <1>2 DEF CallRegister
  <2> QED BY <2>1, BalanceKept, RegisterNotInitialized DEF MakesCall
<1>3. CASE CallConnect
  BY <1>3, BalanceKept DEF CallConnect, MakesCall, AVCOM_SA_Connect, Holding
<1>4. ASSUME NEW op \in BootCalls, CallBoot(op) PROVE Balance'
  BY <1>4, BalanceKept, Order DEF CallBoot, Holding
<1>5. CASE CallSettings
  BY <1>5, BalanceKept DEF CallSettings, Holding
<1>6. CASE CallDisconnect
  BY <1>6, BalanceKept DEF CallDisconnect, MakesCall, AVCOM_SA_Disconnect, Holding
<1>7. CASE CallUnregister
  BY <1>7, BalanceKept DEF CallUnregister, MakesCall, AVCOM_SA_Unregister, Holding
<1>8. CASE CallDeinitialize
  <2>1. /\ pc = "Deinitialize" /\ GoesOn("Deinitialize") /\ UNCHANGED program
        /\ AVCOM_SA_Deinitialize
    BY <1>8 DEF CallDeinitialize, MakesCall
  <2>2. program \in {"sbs_bl", "gilatTest"} /\ program # "debugger"
    BY <2>1, NotDebugger
  <2>3. winsock = 1 /\ initialized
    BY <2>1, <2>2 DEF Balance
  <2>4. \/ winsock' = 0 /\ ~initialized' /\ pc' \in {"exited", "Initialize"}
        \/ winsock' = 1 /\ pc' = "pexit" /\ code' = "WSACLEANUP_FAILED"
    BY <1>0, <2>1, <2>2, <2>3, DeinitializeBalances, Follows DEF GoesOn
  <2> QED BY <2>4 DEF Balance, Holding, NotUndone
<1>9. CASE Pexit
  <2>1. pc = "pexit" /\ pc' = "exited" /\ AVCOM_SA_Deinitialize /\ UNCHANGED <<program, code>>
    BY <1>9 DEF Pexit
  <2>2. CASE program # "debugger"
    <3>1. winsock = 0 \/ (winsock = 1 /\ (initialized \/ code \in NotUndone))
      BY <2>1, <2>2 DEF Balance
    <3>2. winsock = 0 => ~initialized
      BY <1>0 DEF WinsockUp
    <3> QED BY <1>0, <2>1, <3>1, <3>2, DeinitializeBalances DEF Balance, Holding
  <2> QED BY <2>1, <2>2 DEF Balance
<1>10. CASE Menu
  <2>1. program = "debugger" /\ UNCHANGED program
    BY <1>10, Order DEF Menu, MenuLifecycle, MenuExchange, MenuExit, PInv
  <2> QED BY <2>1 DEF Balance
<1>11. CASE UNCHANGED progvars
  BY <1>11 DEF progvars, vars, Balance
<1> QED BY <1>1, <1>2, <1>3, <1>4, <1>5, <1>6, <1>7, <1>8, <1>9, <1>10, <1>11
        DEF ProgNext, ProgStep, Gone

-----------------------------------------------------------------------------
(* What sbs_bl sends *)

\* How many packets have gone out before each call.
Place ==
  [Initialize |-> 0, Register |-> 0, Connect |-> 0, UnlockCal |-> 0, CalMode |-> 1,
   BootMode |-> 2, BootKey |-> 3, BootDescProg |-> 4, Disconnect |-> 5, Unregister |-> 5,
   Deinitialize |-> 5]

\* Their command bytes.
Commands == <<SBS_UNLOCK, SBS_CAL_CMD, SBS_BOOT_MODE, SBS_BOOTLOADER, SBS_BOOTLOADER>>

Packets == UNION {{Frame(body) : body \in Bodies[op]} : op \in BootCalls}

\* The packets are as many as the calls made, each in its place, and an exit code
\* of 0 is kept only by the way through all calls.
SentSoFar ==
  program = "sbs_bl" =>
    /\ sent \in Seq(Packets)
    /\ \A i \in 1..Len(sent) : sent[i][4] = Commands[i]
    /\ pc \in DOMAIN SbsOrder => Len(sent) = Place[pc]
    /\ pc = "pexit" => code # "NO_ERROR"
    /\ pc = "exited" => code # "NO_ERROR" \/ Len(sent) = 5

LEMMA FirstOfConcat ==
  ASSUME NEW S, NEW a \in Seq(S), NEW b \in Seq(S), Len(a) > 0
  PROVE  a \o b \in Seq(S) /\ Len(a \o b) = Len(a) + Len(b) /\ (a \o b)[1] = a[1]
<1>1. /\ a \o b \in Seq(S) /\ Len(a \o b) = Len(a) + Len(b)
      /\ \A i \in 1..Len(a) + Len(b) : (a \o b)[i] = IF i <= Len(a) THEN a[i] ELSE b[i - Len(a)]
  BY ConcatProperties, Zenon
<1>2. Len(a) \in Nat /\ Len(b) \in Nat
  BY LenProperties, Zenon
<1>3. 1 \in 1..Len(a) + Len(b) /\ 1 <= Len(a)
  BY <1>2
<1> QED BY <1>1, <1>3, Zenon

LEMMA FirstOfAppend ==
  ASSUME NEW S, NEW a \in Seq(S), NEW e \in S, Len(a) > 0
  PROVE  Append(a, e) \in Seq(S) /\ Len(Append(a, e)) > 0 /\ Append(a, e)[1] = a[1]
OBVIOUS

\* The fourth byte of a packet is its command.
LEMMA FrameCommand ==
  ASSUME NEW S, NEW body \in Seq(S), Len(body) > 0
  PROVE  Frame(body)[4] = body[1]
<1> DEFINE T == S \cup {ETX}
           head == <<STX, ((Len(body) + 1) \div 256) % 256, (Len(body) + 1) % 256>>
           tail == Append(body, ETX)
<1>1. tail \in Seq(T) /\ tail[1] = body[1] /\ Len(tail) > 0
  <2>1. body \in Seq(T) /\ ETX \in T
    OBVIOUS
  <2> QED BY <2>1
<1>2. head \in Seq(Int \cup T) /\ Len(head) = 3
  <2>1. ((Len(body) + 1) \div 256) % 256 \in Int /\ (Len(body) + 1) % 256 \in Int /\ STX \in Int
    BY DEF STX
  <2> QED BY <2>1
<1>3. tail \in Seq(Int \cup T)
  BY <1>1
<1>4. Frame(body) = head \o tail
  BY DEF Frame
<1> HIDE DEF head, tail
<1>5. (head \o tail)[4] = tail[1]
  <2> HIDE DEF T
  <2>1. \A i \in 1..Len(head) + Len(tail) :
          (head \o tail)[i] = IF i <= Len(head) THEN head[i] ELSE tail[i - Len(head)]
    BY <1>2, <1>3, ConcatProperties, Zenon
  <2>2. Len(tail) \in Nat
    BY <1>3, LenProperties, Zenon
  <2>3. 4 \in 1..Len(head) + Len(tail) /\ ~(4 <= Len(head)) /\ 4 - Len(head) = 1
    BY <1>1, <1>2, <2>2
  <2>4. (head \o tail)[4] = tail[4 - Len(head)]
    BY <2>1, <2>3, Zenon
  <2> QED BY <2>3, <2>4
<1> QED BY <1>1, <1>4, <1>5

LEMMA DescriptionCommand ==
  ASSUME NEW x \in IdByte, NEW y \in IdByte, NEW z \in IdByte, NEW serial \in Serial
  PROVE  /\ Description(x, y, z, serial) \in Seq(Byte)
         /\ Len(Description(x, y, z, serial)) = 32
         /\ Description(x, y, z, serial)[1] = SBS_BOOTLOADER
<1> DEFINE head == <<SBS_BOOTLOADER, BOOTLOAD_DESC, x, y, z, 4>>
           rest == [i \in 1..10 |-> 255]
<1>1. x \in Byte /\ y \in Byte /\ z \in Byte /\ serial \in [1..16 -> Byte]
  BY IdByteAssumption, SerialAssumption
<1>2. head \in Seq(Byte) /\ Len(head) = 6 /\ head[1] = SBS_BOOTLOADER
  BY <1>1 DEF Byte, SBS_BOOTLOADER, BOOTLOAD_DESC
<1>3. serial \in Seq(Byte) /\ Len(serial) = 16
  <2>1. serial = [i \in 1..16 |-> serial[i]] /\ \A i \in 1..16 : serial[i] \in Byte
    BY <1>1
  <2>2. [i \in 1..16 |-> serial[i]] \in Seq(Byte) /\ Len([i \in 1..16 |-> serial[i]]) = 16
    BY <2>1
  <2> QED BY <2>1, <2>2
<1>4. rest \in Seq(Byte) /\ Len(rest) = 10
  BY DEF Byte
<1>5. Description(x, y, z, serial) = (head \o serial) \o rest
  BY DEF Description
<1> HIDE DEF head, rest
<1>6. head \o serial \in Seq(Byte) /\ Len(head \o serial) = 22 /\ (head \o serial)[1] = head[1]
  <2>1. Len(head) > 0
    BY <1>2
  <2>2. /\ head \o serial \in Seq(Byte) /\ Len(head \o serial) = Len(head) + Len(serial)
        /\ (head \o serial)[1] = head[1]
    BY <1>2, <1>3, <2>1, FirstOfConcat, Zenon
  <2> QED BY <1>2, <1>3, <2>2
<1>7. /\ (head \o serial) \o rest \in Seq(Byte) /\ Len((head \o serial) \o rest) = 32
      /\ ((head \o serial) \o rest)[1] = (head \o serial)[1]
  <2> DEFINE front == head \o serial
  <2>1. front \in Seq(Byte) /\ Len(front) = 22 /\ Len(front) > 0
    BY <1>6
  <2> HIDE DEF front
  <2>2. /\ front \o rest \in Seq(Byte) /\ Len(front \o rest) = Len(front) + Len(rest)
        /\ (front \o rest)[1] = front[1]
    BY <1>4, <2>1, FirstOfConcat, Zenon
  <2>3. Len(front \o rest) = 32
    BY <1>4, <2>1, <2>2
  <2> QED BY <2>2, <2>3 DEF front
<1> QED BY <1>2, <1>5, <1>6, <1>7

\* The packet of each boot call carries the command of its place.
LEMMA BootCommand ==
  ASSUME NEW op \in BootCalls, NEW body \in Bodies[op]
  PROVE  Frame(body)[4] = Commands[Place[op] + 1] /\ Frame(body) \in Packets
<1>1. CASE op = "BootDescProg"
  <2>1. PICK x \in IdByte, y \in IdByte, z \in IdByte, serial \in Serial :
          body = Append(Description(x, y, z, serial), Checksum(Description(x, y, z, serial)))
    BY <1>1 DEF Bodies
  <2> DEFINE d == Description(x, y, z, serial)
             S == Byte \cup {Checksum(d)}
  <2>2. d \in Seq(S) /\ Len(d) = 32 /\ d[1] = SBS_BOOTLOADER
    BY DescriptionCommand
  <2>3. body = Append(d, Checksum(d)) /\ Checksum(d) \in S
    BY <2>1
  <2> HIDE DEF d, S
  <2>4. body \in Seq(S) /\ Len(body) > 0 /\ body[1] = SBS_BOOTLOADER
    <3>1. Len(d) > 0
      BY <2>2
    <3> QED BY <2>2, <2>3, <3>1, FirstOfAppend, Zenon
  <2> QED BY <1>1, <2>4, FrameCommand DEF Commands, Place, Packets
<1>2. CASE op # "BootDescProg"
  <2>1. body \in Seq(Int) /\ Len(body) > 0 /\ body[1] = Commands[Place[op] + 1]
    <3>1. CASE op = "UnlockCal"
      <4>1. body = <<SBS_UNLOCK, 119, 48, 119, 48>>
        BY <3>1 DEF Bodies
      <4>2. Place[op] + 1 = 1 /\ Commands[1] = SBS_UNLOCK
        BY <3>1 DEF Place, Commands
      <4> QED BY <4>1, <4>2 DEF SBS_UNLOCK
    <3>2. CASE op = "CalMode"
      <4>1. body = <<SBS_CAL_CMD, 1>>
        BY <3>2 DEF Bodies
      <4>2. Place[op] + 1 = 2 /\ Commands[2] = SBS_CAL_CMD
        BY <3>2 DEF Place, Commands
      <4> QED BY <4>1, <4>2 DEF SBS_CAL_CMD
    <3>3. CASE op = "BootMode"
      <4>1. body = <<SBS_BOOT_MODE, 1>>
        BY <3>3 DEF Bodies
      <4>2. Place[op] + 1 = 3 /\ Commands[3] = SBS_BOOT_MODE
        BY <3>3 DEF Place, Commands
      <4> QED BY <4>1, <4>2 DEF SBS_BOOT_MODE
    <3>4. CASE op = "BootKey"
      <4>1. body = <<SBS_BOOTLOADER, BOOTLOAD_KEY, 119, 48, 119, 48, 106>>
        BY <3>4 DEF Bodies
      <4>2. Place[op] + 1 = 4 /\ Commands[4] = SBS_BOOTLOADER
        BY <3>4 DEF Place, Commands
      <4> QED BY <4>1, <4>2 DEF SBS_BOOTLOADER, BOOTLOAD_KEY
    <3> QED BY <1>2, <3>1, <3>2, <3>3, <3>4, Order
  <2> QED BY <2>1, FrameCommand DEF Packets
<1> QED BY <1>1, <1>2

\* A call that sends no packet: it follows another that sends none, or it is the
\* first that the packets before it lead to.
LEMMA SilentCall ==
  ASSUME PInv, SentSoFar, UNCHANGED <<program, sent>>, NEW op, op \notin BootCalls,
         pc = op, GoesOn(op), op \notin {"menu", "pexit", "exited"}
  PROVE  SentSoFar'
<1> SUFFICES ASSUME program = "sbs_bl" PROVE SentSoFar'
  BY DEF SentSoFar
<1>1. op \in DOMAIN SbsOrder /\ After[program] = SbsOrder
  BY DEF PInv, After
<1>2. CASE pc' = pc /\ code' = code
  BY <1>2 DEF SentSoFar
<1>3. CASE pc' = "pexit" /\ code' # "NO_ERROR"
  BY <1>3 DEF SentSoFar, SbsOrder
<1>4. CASE pc' = SbsOrder[op] /\ code' = code
  <2>1. Len(sent) = Place[op]
    BY <1>1 DEF SentSoFar
  <2>2. \/ pc' \in DOMAIN SbsOrder /\ Place[pc'] = Place[op]
        \/ pc' = "exited" /\ Place[op] = 5
    BY <1>1, <1>4, Order DEF SbsOrder, Place
  <2>3. pc' # "pexit" /\ (pc' = "exited" => pc' \notin DOMAIN SbsOrder)
    BY <2>2 DEF SbsOrder
  <2> QED BY <2>1, <2>2, <2>3 DEF SentSoFar
<1> QED BY <1>1, <1>2, <1>3, <1>4 DEF GoesOn

LEMMA BootCall ==
  ASSUME PInv, SentSoFar, NEW op \in BootCalls, CallBoot(op)
  PROVE  SentSoFar'
<1> SUFFICES ASSUME program = "sbs_bl" PROVE SentSoFar'
  BY DEF CallBoot, SentSoFar
<1>1. /\ pc = op /\ GoesOn(op) /\ alive' /\ UNCHANGED program
      /\ op \in DOMAIN SbsOrder /\ After[program] = SbsOrder
  BY Order DEF CallBoot, After, SbsOrder
<1>2. PICK body \in Bodies[op] :
        \/ ret'.res = "SEND_FAILED" /\ UNCHANGED sent
        \/ ret'.res = "NO_ERROR" /\ sent' = Append(sent, Frame(body))
  BY DEF CallBoot, BootExchange, Returns
<1>3. CASE ret'.res = "SEND_FAILED" /\ UNCHANGED sent
  <2>1. pc' = "pexit" /\ code' = "SEND_FAILED"
    BY <1>1, <1>3 DEF GoesOn
  <2> QED BY <1>1, <1>3, <2>1 DEF SentSoFar, SbsOrder
<1>4. CASE ret'.res = "NO_ERROR" /\ sent' = Append(sent, Frame(body))
  <2>1. pc' = SbsOrder[op]
    BY <1>1, <1>4 DEF GoesOn
  <2>2. /\ pc' \in DOMAIN SbsOrder /\ Place[pc'] = Place[op] + 1
        /\ pc' \notin {"pexit", "exited"}
    BY <2>1, Order DEF SbsOrder, Place
  <2>3. sent \in Seq(Packets) /\ Len(sent) = Place[op] /\ Place[op] \in Nat
    BY <1>1, Order DEF SentSoFar, Place
  <2>4. Frame(body)[4] = Commands[Place[op] + 1] /\ Frame(body) \in Packets
    BY BootCommand
  <2>5. /\ sent' \in Seq(Packets) /\ Len(sent') = Place[op] + 1
        /\ \A i \in 1..Len(sent) : sent'[i] = sent[i]
        /\ sent'[Len(sent) + 1] = Frame(body)
    BY <1>4, <2>3, <2>4
  <2>6. \A i \in 1..Len(sent') : sent'[i][4] = Commands[i]
    <3>1. \A i \in 1..Len(sent) : sent[i][4] = Commands[i]
      BY DEF SentSoFar
    <3> QED BY <2>3, <2>4, <2>5, <3>1
  <2> QED BY <1>1, <2>2, <2>5, <2>6 DEF SentSoFar
<1> QED BY <1>2, <1>3, <1>4

LEMMA SentNext ==
  ASSUME PInv, SentSoFar, [ProgNext]_progvars
  PROVE  SentSoFar'
<1>1. CASE \/ CallInitialize \/ CallRegister \/ CallConnect \/ CallDisconnect
           \/ CallUnregister \/ CallDeinitialize
  <2>1. PICK op \in {"Initialize", "Register", "Connect", "Disconnect", "Unregister",
                     "Deinitialize"} :
          pc = op /\ GoesOn(op) /\ UNCHANGED <<program, sent>>
    BY <1>1 DEF CallInitialize, CallRegister, CallConnect, CallDisconnect, CallUnregister,
                CallDeinitialize, MakesCall
  <2> QED BY <2>1, SilentCall, Order
<1>2. ASSUME NEW op \in BootCalls, CallBoot(op) PROVE SentSoFar'
  BY <1>2, BootCall
<1>3. CASE CallSettings
  BY <1>3, SilentCall, Order DEF CallSettings
<1>4. CASE Pexit
  BY <1>4 DEF Pexit, SentSoFar, SbsOrder
<1>5. CASE Menu
  <2>1. program = "debugger" /\ UNCHANGED program
    BY <1>5, Order DEF Menu, MenuLifecycle, MenuExchange, MenuExit, PInv
  <2> QED BY <2>1 DEF SentSoFar
<1>6. CASE UNCHANGED progvars
  BY <1>6 DEF progvars, SentSoFar
<1> QED BY <1>1, <1>2, <1>3, <1>4, <1>5, <1>6 DEF ProgNext, ProgStep, Gone

-----------------------------------------------------------------------------
(* What the packets are made of *)

LEMMA ByteFacts == 0 \in Byte /\ (\A x \in Byte : x \in Int) /\ \A x \in Int : x % 256 \in Byte
BY DEF Byte

\* The running values of the loop, and that they are bytes.
LEMMA ChecksumLoop ==
  ASSUME NEW b \in Seq(Byte)
  PROVE  \E f \in [0..Len(b) -> Byte] :
           /\ f[0] = 0 /\ \A i \in 1..Len(b) : f[i] = (f[i - 1] - b[i]) % 256
           /\ Checksum(b) = f[Len(b)]
<1> DEFINE n == Len(b)
           step == [i \in 1..n |-> [x \in Byte |-> (x - b[i]) % 256]]
           IsSum(f) == f = [i \in 0..n |-> IF i = 0 THEN 0 ELSE (f[i - 1] - b[i]) % 256]
           sum == CHOOSE f : IsSum(f)
<1>1. n \in Nat /\ \A i \in 1..n : b[i] \in Byte
  OBVIOUS
<1>2. step \in [1..n -> [Byte -> Byte]] /\ 0 \in Byte
  <2>1. ASSUME NEW i \in 1..n, NEW x \in Byte PROVE (x - b[i]) % 256 \in Byte
    <3>1. b[i] \in Byte
      BY <1>1
    <3>2. x \in Int /\ b[i] \in Int
      BY <3>1, ByteFacts
    <3> HIDE DEF step, IsSum, sum
    <3>3. x - b[i] \in Int
      BY <3>2
    <3> QED BY <3>3, ByteFacts
  <2> HIDE DEF n
  <2>2. step \in [1..n -> [Byte -> Byte]]
    BY <2>1
  <2> QED BY <2>2, ByteFacts
<1>3. PICK f \in [0..n -> Byte] : Rounds(n, 0, step, f)
  <2> HIDE DEF n, step
  <2> QED BY <1>1, <1>2, LoopRuns
<1>4. f[0] = 0 /\ \A i \in 1..n : f[i] = (f[i - 1] - b[i]) % 256
  <2>1. ASSUME NEW i \in 1..n PROVE f[i] = (f[i - 1] - b[i]) % 256
    <3>1. f[i - 1] \in Byte
      BY <1>1
    <3>2. f[i] = step[i][f[i - 1]]
      BY <1>3 DEF Rounds
    <3> QED BY <3>1, <3>2
  <2> QED BY <1>3, <2>1 DEF Rounds
<1>5. IsSum(f)
  BY <1>4
<1>6. IsSum(sum)
  <2> HIDE DEF IsSum
  <2> QED BY <1>5
<1>7. Checksum(b) = sum[n]
  BY DEF Checksum
<1> HIDE DEF sum
<1>8. \A i \in 0..n : sum[i] = f[i]
  <2> DEFINE S == {i \in 0..n : sum[i] = f[i]}
  <2>1. 0 \in S
    BY <1>1, <1>4, <1>6
  <2>2. ASSUME NEW i \in 1..n, i - 1 \in S PROVE i \in S
    <3>1. i \in 0..n /\ sum[i] = (sum[i - 1] - b[i]) % 256
      BY <1>1, <1>6
    <3> QED BY <1>4, <2>2, <3>1
  <2> HIDE DEF S
  <2>3. 0..n \subseteq S
    BY <1>1, <2>1, <2>2, Reaches
  <2> QED BY <2>3 DEF S
<1> QED BY <1>1, <1>4, <1>7, <1>8

\* So of the sum.
LEMMA TotalLoop ==
  ASSUME NEW b \in Seq(Byte)
  PROVE  \E f \in [0..Len(b) -> Int] :
           /\ f[0] = 0 /\ \A i \in 1..Len(b) : f[i] = f[i - 1] + b[i]
           /\ Total(b) = f[Len(b)]
<1> DEFINE n == Len(b)
           step == [i \in 1..n |-> [x \in Int |-> x + b[i]]]
           IsSum(f) == f = [i \in 0..n |-> IF i = 0 THEN 0 ELSE f[i - 1] + b[i]]
           sum == CHOOSE f : IsSum(f)
<1>1. n \in Nat /\ \A i \in 1..n : b[i] \in Byte
  OBVIOUS
<1>2. step \in [1..n -> [Int -> Int]] /\ 0 \in Int
  <2>1. ASSUME NEW i \in 1..n, NEW x \in Int PROVE x + b[i] \in Int
    <3>1. b[i] \in Byte
      BY <1>1
    <3>2. x \in Int /\ b[i] \in Int
      BY <3>1, ByteFacts
    <3> HIDE DEF step, IsSum, sum
    <3> QED BY <3>2
  <2> HIDE DEF n
  <2> QED BY <2>1
<1>3. PICK f \in [0..n -> Int] : Rounds(n, 0, step, f)
  <2> HIDE DEF n, step
  <2> QED BY <1>1, <1>2, LoopRuns
<1>4. f[0] = 0 /\ \A i \in 1..n : f[i] = f[i - 1] + b[i]
  <2>1. ASSUME NEW i \in 1..n PROVE f[i] = f[i - 1] + b[i]
    <3>1. f[i - 1] \in Int
      BY <1>1
    <3>2. f[i] = step[i][f[i - 1]]
      BY <1>3 DEF Rounds
    <3> QED BY <3>1, <3>2
  <2> QED BY <1>3, <2>1 DEF Rounds
<1>5. IsSum(f)
  BY <1>4
<1>6. IsSum(sum)
  <2> HIDE DEF IsSum
  <2> QED BY <1>5
<1>7. Total(b) = sum[n]
  BY DEF Total
<1> HIDE DEF sum
<1>8. \A i \in 0..n : sum[i] = f[i]
  <2> DEFINE S == {i \in 0..n : sum[i] = f[i]}
  <2>1. 0 \in S
    BY <1>1, <1>4, <1>6
  <2>2. ASSUME NEW i \in 1..n, i - 1 \in S PROVE i \in S
    <3>1. i \in 0..n /\ sum[i] = sum[i - 1] + b[i]
      BY <1>1, <1>6
    <3> QED BY <1>4, <2>2, <3>1
  <2> HIDE DEF S
  <2>3. 0..n \subseteq S
    BY <1>1, <2>1, <2>2, Reaches
  <2> QED BY <2>3 DEF S
<1> QED BY <1>1, <1>4, <1>7, <1>8

\* A body and its checksum add up to 0 in a byte.
LEMMA ChecksumBalances ==
  ASSUME NEW d \in Seq(Byte)
  PROVE  Checksum(d) \in Byte /\ Total(Append(d, Checksum(d))) % 256 = 0
<1> DEFINE n == Len(d)
           c == Checksum(d)
           e == Append(d, c)
<1>1. n \in Nat /\ \A i \in 1..n : d[i] \in Byte
  OBVIOUS
<1>2. PICK f \in [0..n -> Byte] :
        f[0] = 0 /\ (\A i \in 1..n : f[i] = (f[i - 1] - d[i]) % 256) /\ c = f[n]
  BY ChecksumLoop
<1>3. c \in Byte
  BY <1>1, <1>2
<1> HIDE DEF c
<1>4. /\ e \in Seq(Byte) /\ Len(e) = n + 1
      /\ \A i \in 1..n : e[i] = d[i]
      /\ e[n + 1] = c
  BY <1>3
<1> HIDE DEF e
<1>5. PICK g \in [0..(n + 1) -> Int] :
        g[0] = 0 /\ (\A i \in 1..(n + 1) : g[i] = g[i - 1] + e[i]) /\ Total(e) = g[n + 1]
  BY <1>4, TotalLoop
<1>6. (f[n] + g[n]) % 256 = 0
  <2> DEFINE S == {i \in 0..n : (f[i] + g[i]) % 256 = 0}
  <2>1. 0 \in S
    BY <1>1, <1>2, <1>5
  <2>2. ASSUME NEW i \in 1..n, i - 1 \in S PROVE i \in S
    <3>1. /\ f[i] = (f[i - 1] - d[i]) % 256 /\ g[i] = g[i - 1] + d[i]
          /\ (f[i - 1] + g[i - 1]) % 256 = 0
      BY <1>1, <1>2, <1>4, <1>5, <2>2
    <3>2. f[i - 1] \in Int /\ g[i - 1] \in Int /\ d[i] \in Int
      <4>0. i - 1 \in 0..n /\ i - 1 \in 0..(n + 1)
        BY <1>1
      <4>1. f[i - 1] \in Byte /\ g[i - 1] \in Int /\ d[i] \in Byte
        BY <1>1, <4>0
      <4> QED BY <4>1, ByteFacts
    <3>3. (f[i] + g[i]) % 256 = 0
      <4>1. \A x, y, z \in Int : (x + y) % 256 = 0 => (((x - z) % 256) + (y + z)) % 256 = 0
        OBVIOUS
      <4> QED BY <3>1, <3>2, <4>1
    <3> QED BY <3>3
  <2> HIDE DEF S
  <2>3. 0..n \subseteq S
    BY <1>1, <2>1, <2>2, Reaches
  <2> QED BY <1>1, <2>3 DEF S
<1>7. Total(e) = g[n] + f[n]
  BY <1>1, <1>2, <1>4, <1>5
<1>8. f[n] \in Int /\ g[n] \in Int
  <2>1. f[n] \in Byte /\ g[n] \in Int
    BY <1>1
  <2> QED BY <2>1, ByteFacts
<1> QED BY <1>3, <1>6, <1>7, <1>8 DEF c, e

\* A length in two bytes, high byte first.
LEMMA LengthBytes ==
  ASSUME NEW n \in Nat, n < 65535
  PROVE  /\ ((n + 1) \div 256) % 256 \in Byte /\ (n + 1) % 256 \in Byte
         /\ 256 * (((n + 1) \div 256) % 256) + ((n + 1) % 256) = n + 1
<1> DEFINE k == n + 1
           q == k \div 256
           r == k % 256
<1>1. k \in Nat /\ k <= 65535
  OBVIOUS
<1> HIDE DEF k
<1>2. q \in Int /\ r \in 0..255 /\ 256 * q + r = k
  BY <1>1
<1> HIDE DEF q, r
<1>3. q \in 0..255
  BY <1>1, <1>2
<1>4. q % 256 = q
  BY <1>3
<1>5. q % 256 \in Byte /\ r \in Byte /\ (256 * (q % 256)) + r = k
  BY <1>2, <1>3, <1>4 DEF Byte
<1> QED BY <1>5 DEF k, q, r

\* What goes out for a body: two bytes of length that lead to the ETX behind it.
LEMMA FrameParts ==
  ASSUME NEW body \in Seq(Byte), Len(body) < 65535
  PROVE  LET p == Frame(body) IN
         /\ p \in Seq(Byte) /\ Len(p) = Len(body) + 4
         /\ p[1] = STX /\ 3 + 256 * p[2] + p[3] = Len(p) /\ p[Len(p)] = ETX
         /\ \A i \in 1..Len(body) : p[i + 3] = body[i]
         /\ SubSeq(p, 4, Len(p) - 1) = body
<1> DEFINE n == Len(body)
           hi == ((n + 1) \div 256) % 256
           lo == (n + 1) % 256
           head == <<STX, hi, lo>>
           tail == Append(body, ETX)
           p == head \o tail
<1>1. n \in Nat /\ n < 65535
  OBVIOUS
<1>2. hi \in Byte /\ lo \in Byte /\ 256 * hi + lo = n + 1
  <2> HIDE DEF n
  <2> QED BY <1>1, LengthBytes
<1>3. STX \in Byte /\ ETX \in Byte
  BY DEF STX, ETX, Byte
<1>4. /\ tail \in Seq(Byte) /\ Len(tail) = n + 1
      /\ (\A i \in 1..n : tail[i] = body[i]) /\ tail[n + 1] = ETX
  BY <1>3
<1> HIDE DEF hi, lo
<1>5. head \in Seq(Byte) /\ Len(head) = 3 /\ head[1] = STX /\ head[2] = hi /\ head[3] = lo
  BY <1>2, <1>3
<1> HIDE DEF head, tail
<1>6. /\ p \in Seq(Byte) /\ Len(p) = n + 4
      /\ \A i \in 1..(n + 4) : p[i] = IF i <= 3 THEN head[i] ELSE tail[i - 3]
  <2>1. /\ head \o tail \in Seq(Byte) /\ Len(head \o tail) = Len(head) + Len(tail)
        /\ \A i \in 1..(Len(head) + Len(tail)) :
             (head \o tail)[i] = IF i <= Len(head) THEN head[i] ELSE tail[i - Len(head)]
    <3>1. head \in Seq(Byte) /\ tail \in Seq(Byte)
      BY <1>4, <1>5
    <3>2. head \o tail \in Seq(Byte)
      BY <3>1
    <3>3. Len(head \o tail) = Len(head) + Len(tail)
      BY <3>1
    <3>4. ASSUME NEW i \in 1..(Len(head) + Len(tail))
          PROVE  (head \o tail)[i] = IF i <= Len(head) THEN head[i] ELSE tail[i - Len(head)]
      BY <3>1
    <3> QED BY <3>2, <3>3, <3>4
  <2>2. Len(head) + Len(tail) = n + 4
    BY <1>1, <1>4, <1>5
  <2> QED BY <1>5, <2>1, <2>2
<1> HIDE DEF p
<1>7. p[1] = STX /\ p[2] = hi /\ p[3] = lo /\ p[n + 4] = ETX
  BY <1>1, <1>4, <1>5, <1>6
<1>8. \A i \in 1..n : p[i + 3] = body[i]
  BY <1>1, <1>4, <1>6
<1>9. SubSeq(p, 4, n + 3) = body
  <2>1. /\ SubSeq(p, 4, n + 3) \in Seq(Byte) /\ Len(SubSeq(p, 4, n + 3)) = n
        /\ \A i \in 1..n : SubSeq(p, 4, n + 3)[i] = p[i + 3]
    <3>1. \A i \in 4..(n + 3) : p[i] \in Byte
      BY <1>1, <1>6
    <3>2. n + 3 \in Int /\ 4 \in Int /\ (4 <= n + 3 => (n + 3) - 4 + 1 = n) /\ (~(4 <= n + 3) => n = 0)
          /\ (n + 3) - 4 + 1 = n /\ \A i \in 1..n : 4 + i - 1 = i + 3
      BY <1>1
    <3> QED BY <3>1, <3>2, SubSeqProperties
  <2> QED BY <1>8, <2>1, SeqEqual
<1>10. Frame(body) = p
  BY DEF Frame, p, head, tail, hi, lo
<1>11. 3 + 256 * hi + lo = n + 4 /\ (n + 4) - 1 = n + 3
  <2>1. hi \in Int /\ lo \in Int
    BY <1>2, ByteFacts
  <2> QED BY <1>1, <1>2, <2>1
<1> HIDE DEF n
<1>12. Len(p) = n + 4
  BY <1>6
<1> QED BY <1>6, <1>7, <1>8, <1>9, <1>10, <1>11 DEF n

LEMMA LongerByOne ==
  ASSUME NEW b \in Seq(Byte), NEW c \in Byte
  PROVE  Append(b, c) \in Seq(Byte) /\ Len(Append(b, c)) = Len(b) + 1
OBVIOUS

\* The bodies are bytes, at least two, and a description balances.
LEMMA BootBody ==
  ASSUME NEW op \in BootCalls, NEW body \in Bodies[op]
  PROVE  /\ body \in Seq(Byte) /\ Len(body) \in Nat /\ 2 <= Len(body) /\ Len(body) <= 33
         /\ body[1] = SBS_BOOTLOADER /\ body[2] = BOOTLOAD_DESC => Total(body) % 256 = 0
<1>1. CASE op = "BootDescProg"
  <2>1. PICK x \in IdByte, y \in IdByte, z \in IdByte, serial \in Serial :
          body = Append(Description(x, y, z, serial), Checksum(Description(x, y, z, serial)))
    BY <1>1 DEF Bodies
  <2> DEFINE d == Description(x, y, z, serial)
  <2>2. d \in Seq(Byte) /\ Len(d) = 32
    BY DescriptionCommand
  <2>3. body = Append(d, Checksum(d))
    BY <2>1
  <2> HIDE DEF d
  <2>4. Checksum(d) \in Byte
    BY <2>2, ChecksumBalances
  <2>5. Total(body) % 256 = 0
    BY <2>2, <2>3, ChecksumBalances
  <2>6. body \in Seq(Byte) /\ Len(body) = 33
    <3>1. /\ Append(d, Checksum(d)) \in Seq(Byte)
          /\ Len(Append(d, Checksum(d))) = Len(d) + 1
      BY <2>2, <2>4, LongerByOne, Zenon
    <3> QED BY <2>2, <2>3, <3>1
  <2> QED BY <2>5, <2>6
<1>2. CASE op # "BootDescProg"
  <2>1. /\ 54 \in Byte /\ 119 \in Byte /\ 48 \in Byte /\ 1 \in Byte /\ 71 \in Byte
        /\ 58 \in Byte /\ 14 \in Byte /\ 106 \in Byte
    BY DEF Byte
  <2>2. \/ body = <<54, 119, 48, 119, 48>> \/ body = <<48, 1>> \/ body = <<71, 1>>
        \/ body = <<58, 14, 119, 48, 119, 48, 106>>
    BY <1>2, Order DEF Bodies, SBS_UNLOCK, SBS_CAL_CMD, SBS_BOOT_MODE, SBS_BOOTLOADER,
                       BOOTLOAD_KEY
  <2>3. body \in Seq(Byte) /\ Len(body) \in {2, 5, 7}
    <3>1. CASE body = <<54, 119, 48, 119, 48>>
      BY <2>1, <3>1
    <3>2. CASE body = <<48, 1>>
      BY <2>1, <3>2
    <3>3. CASE body = <<71, 1>>
      BY <2>1, <3>3
    <3>4. CASE body = <<58, 14, 119, 48, 119, 48, 106>>
      BY <2>1, <3>4
    <3> QED BY <2>2, <3>1, <3>2, <3>3, <3>4
  <2>4. ~(body[1] = 58 /\ body[2] = 16)
    BY <2>2
  <2>5. Len(body) \in Nat /\ 2 <= Len(body) /\ Len(body) <= 33
    <3>1. \A k \in {2, 5, 7} : k \in Nat /\ 2 <= k /\ k <= 33
      OBVIOUS
    <3> QED BY <2>3, <3>1, Zenon
  <2> QED BY <2>3, <2>4, <2>5 DEF SBS_BOOTLOADER, BOOTLOAD_DESC
<1> QED BY <1>1, <1>2

LEMMA PacketFacts ==
  ASSUME NEW p \in Packets
  PROVE  /\ p \in Seq(Byte)
         /\ p[1] = STX /\ 3 + 256 * p[2] + p[3] = Len(p) /\ p[Len(p)] = ETX
         /\ p[4] = SBS_BOOTLOADER /\ p[5] = BOOTLOAD_DESC =>
              Total(SubSeq(p, 4, Len(p) - 1)) % 256 = 0
<1>1. PICK op \in BootCalls : \E body \in Bodies[op] : p = Frame(body)
  BY DEF Packets
<1>0. PICK body \in Bodies[op] : p = Frame(body)
  BY <1>1
<1>2. /\ body \in Seq(Byte) /\ Len(body) \in Nat /\ 2 <= Len(body) /\ Len(body) <= 33
      /\ body[1] = SBS_BOOTLOADER /\ body[2] = BOOTLOAD_DESC => Total(body) % 256 = 0
  BY BootBody
<1>3. /\ p \in Seq(Byte) /\ Len(p) = Len(body) + 4
      /\ p[1] = STX /\ 3 + 256 * p[2] + p[3] = Len(p) /\ p[Len(p)] = ETX
      /\ \A i \in 1..Len(body) : p[i + 3] = body[i]
      /\ SubSeq(p, 4, Len(p) - 1) = body
  <2>1. Len(body) < 65535
    BY <1>2
  <2> QED BY <1>0, <1>2, <2>1, FrameParts
<1>4. p[4] = body[1] /\ p[5] = body[2]
  <2>1. 1 \in 1..Len(body) /\ 2 \in 1..Len(body) /\ 1 + 3 = 4 /\ 2 + 3 = 5
    BY <1>2
  <2>2. p[1 + 3] = body[1] /\ p[2 + 3] = body[2]
    BY <1>3, <2>1, Zenon
  <2> QED BY <2>1, <2>2
<1> QED BY <1>2, <1>3, <1>4, Zenon

\* Every program sends packets of the boot calls only.
LEMMA SentArePackets ==
  ASSUME PInv, sent \in Seq(Packets), [ProgNext]_progvars
  PROVE  sent' \in Seq(Packets)
<1>1. ASSUME NEW op \in BootCalls, CallBoot(op) PROVE sent' \in Seq(Packets)
  <2>1. PICK body \in Bodies[op] : UNCHANGED sent \/ sent' = Append(sent, Frame(body))
    BY <1>1 DEF CallBoot, BootExchange
  <2>2. Frame(body) \in Packets
    BY DEF Packets
  <2> QED BY <2>1, <2>2
<1>2. CASE \/ CallInitialize \/ CallRegister \/ CallConnect \/ CallDisconnect
           \/ CallUnregister \/ CallDeinitialize \/ CallSettings \/ Pexit
  <2>1. UNCHANGED sent
    BY <1>2 DEF CallInitialize, CallRegister, CallConnect, CallDisconnect, CallUnregister,
                CallDeinitialize, CallSettings, Pexit, MakesCall
  <2> QED BY <2>1
<1>3. CASE Menu
  <2>1. UNCHANGED sent
    BY <1>3 DEF Menu, MenuLifecycle, MenuExchange, MenuExit
  <2> QED BY <2>1
<1>4. CASE UNCHANGED progvars
  <2>1. UNCHANGED sent
    BY <1>4 DEF progvars
  <2> QED BY <2>1
<1> QED BY <1>1, <1>2, <1>3, <1>4 DEF ProgNext, ProgStep, Gone

\* The handle variable holds no pointer but those that Register and GetHandle
\* return.
LEMMA HandleType ==
  ASSUME PInv, sa_handle \in Addr \cup {NoHandle}, [ProgNext]_progvars
  PROVE  sa_handle' \in Addr \cup {NoHandle}
<1>1. ASSUME NEW ip \in Ip, NEW port \in Port, NEW flags,
             AVCOM_SA_Register(ip, port, flags), StoresHandle(ret'.h)
      PROVE  sa_handle' \in Addr \cup {NoHandle}
  <2>1. CASE RegisterWithoutBlock(ip, port)
    <3>1. ret'.h = NoHandle
      BY <2>1 DEF RegisterWithoutBlock, Returns
    <3> QED BY <1>1, <3>1 DEF StoresHandle
  <2>2. CASE \E a \in Addr : RegisterBlock(a, ip, port, flags)
    <3>1. ret'.h \in Addr
      BY <2>2 DEF RegisterBlock, Returns
    <3> QED BY <1>1, <3>1 DEF StoresHandle
  <2>3. CASE \E a \in Addr : RegisterReallocFails(a)
    <3>1. ~alive'
      BY <2>3 DEF RegisterReallocFails
    <3> QED BY <1>1, <3>1 DEF StoresHandle
  <2> QED BY <1>1, <2>1, <2>2, <2>3 DEF AVCOM_SA_Register
<1>2. ASSUME NEW ip \in Ip, NEW port \in Port,
             AVCOM_SA_GetHandle(ip, port), sa_handle' = ret'.h
      PROVE  sa_handle' \in Addr \cup {NoHandle}
  <2>1. sa_handle' \in {NoHandle, GetHandle(Current, ip, port)}
    BY <1>2 DEF AVCOM_SA_GetHandle, Returns
  <2>2. Sound(Current)
    BY DEF PInv, IInv
  <2>3. GetHandle(Current, ip, port) \in Addr \cup {NoHandle}
    BY <2>2, GetHandleFinds DEF Sound, RegState
  <2> QED BY <2>1, <2>3
<1>3. CASE CallRegister
  BY <1>1, <1>3 DEF CallRegister, MakesCall
<1>4. CASE MenuLifecycle
  BY <1>1, <1>2, <1>4 DEF MenuLifecycle
<1>5. CASE UNCHANGED sa_handle
  BY <1>5
<1> QED BY <1>3, <1>4, <1>5
        DEF ProgNext, ProgStep, Menu, Gone, CallInitialize, CallConnect, CallBoot, CallSettings,
            CallDisconnect, CallUnregister, CallDeinitialize, Pexit, MenuExchange, MenuExit,
            progvars

-----------------------------------------------------------------------------
(* Theorems *)

\* The invariant holds of every run of every program.
THEOREM ProgInductive == ProgSpec => []PInv
<1>1. PInv /\ [ProgNext]_progvars => PInv'
  BY ProgNextKeeps
<1> QED BY InitPInv, <1>1, PTL DEF ProgSpec

\* Whichever call fails, and wherever inside it, a program that exits has no
\* handle registered, no block allocated, and no socket open but those whose
\* setsockopt or closesocket failed.
THEOREM ProgramsRelease == ProgSpec => []ReleasedAtExit
<1>1. PInv => ReleasedAtExit
  <2> SUFFICES ASSUME PInv, pc = "exited" PROVE ReleasedAtExit
    BY DEF ReleasedAtExit
  <2>1. ~initialized /\ heap = {} /\ Sound(Current) /\ plist \in Seq(Addr)
    BY DEF PInv, IInv, Sound, RegState, Current
  <2>2. plist = << >>
    <3>1. \A i \in 1..Len(plist) : plist[i] \in heap
      BY <2>1 DEF Sound, EntriesMatch, Current
    <3>2. Len(plist) = 0
      BY <2>1, <3>1
    <3> QED BY <2>1, <3>2
  <2>3. \A f \in Fd : sock[f] # "closed" => f \in faulty
    BY <2>1 DEF Sound, OpenAreOwned, Current
  <2> QED BY <2>1, <2>2, <2>3 DEF ReleasedAtExit
<1> QED BY ProgInductive, <1>1, PTL

\* The calls on the analyzer, which do not look whether their handle is
\* registered, are made on one that is, with its socket connected.
THEOREM HandlesAreLive == ProgSpec => []HandleLive
<1>1. PInv => HandleLive
  BY DEF PInv, HandleLive, Online, Connected, Current
<1> QED BY ProgInductive, <1>1, PTL

\* A program's handle is, while it is registered, the one of the analyzer that
\* was named to the call that wrote it, never one that malloc has put where an
\* earlier handle was or where an uninitialized pointer pointed.
THEOREM HandleIsNamed == ProgSpec => []HandleNamed
<1>1. ProgInit => HandleNamed
  BY DEF ProgInit, Init, HandleNamed
<1>2. PInv /\ HandleNamed /\ [ProgNext]_progvars => HandleNamed'
  BY NamedKept
<1> QED BY ProgInductive, <1>1, <1>2, PTL DEF ProgSpec

\* A program that is not the debugger never holds two WSAStartups, however often
\* gilatTest goes round, and exits with none, but for the two failures that
\* nothing undoes.
THEOREM StartupsUndone == ProgSpec => []WinsockBalanced
<1>1. ProgInit => Balance
  BY Order DEF ProgInit, Init, Balance, Holding
<1>2. PInv /\ Balance /\ [ProgNext]_progvars => Balance'
  BY BalanceNext
<1>3. PInv /\ Balance => WinsockBalanced
  BY ProgramCounter DEF Balance, WinsockBalanced, NotUndone
<1> QED BY ProgInductive, <1>1, <1>2, <1>3, PTL DEF ProgSpec

\* sbs_bl exits with 0 only after all five packets have been sent, in order.
THEOREM ZeroMeansSent == ProgSpec => []SuccessMeansSent
<1>1. ProgInit => SentSoFar
  <2> SUFFICES ASSUME ProgInit, program = "sbs_bl" PROVE SentSoFar
    BY DEF SentSoFar
  <2>1. pc = "Initialize" /\ sent = << >>
    BY DEF ProgInit
  <2> QED BY <2>1 DEF SentSoFar, Place
<1>2. PInv /\ SentSoFar /\ [ProgNext]_progvars => SentSoFar'
  BY SentNext
<1>3. SentSoFar => SuccessMeansSent
  <2> SUFFICES ASSUME SentSoFar, program = "sbs_bl", pc = "exited", code = "NO_ERROR"
               PROVE  [i \in 1..Len(sent) |-> sent[i][4]] = Commands
    BY DEF SuccessMeansSent, Commands
  <2>1. Len(sent) = 5 /\ \A i \in 1..5 : sent[i][4] = Commands[i]
    BY DEF SentSoFar
  <2>2. Commands = [i \in 1..5 |-> Commands[i]]
    BY DEF Commands, SBS_UNLOCK, SBS_CAL_CMD, SBS_BOOT_MODE, SBS_BOOTLOADER
  <2> QED BY <2>1, <2>2
<1> QED BY ProgInductive, <1>1, <1>2, <1>3, PTL DEF ProgSpec

\* What any program has sent are packets of the boot calls.
THEOREM PacketsAreSent == ProgSpec => [](sent \in Seq(Packets))
<1>1. ProgInit => sent \in Seq(Packets)
  BY DEF ProgInit
<1>2. PInv /\ sent \in Seq(Packets) /\ [ProgNext]_progvars => (sent \in Seq(Packets))'
  BY SentArePackets
<1> QED BY ProgInductive, <1>1, <1>2, PTL DEF ProgSpec

\* Whatever is entered, the length of every packet leads to its ETX and every
\* description adds up to 0 in a byte.
THEOREM WellFormedIsSent == ProgSpec => []PacketsWellFormed
<1>1. sent \in Seq(Packets) => PacketsWellFormed
  <2> SUFFICES ASSUME sent \in Seq(Packets), NEW i \in 1..Len(sent)
               PROVE  LET p == sent[i] IN
                      /\ p[1] = STX /\ 3 + 256 * p[2] + p[3] = Len(p) /\ p[Len(p)] = ETX
                      /\ p[4] = SBS_BOOTLOADER /\ p[5] = BOOTLOAD_DESC =>
                           Total(SubSeq(p, 4, Len(p) - 1)) % 256 = 0
    BY DEF PacketsWellFormed
  <2>1. sent[i] \in Packets
    OBVIOUS
  <2>2. \A p \in Packets :
          /\ p[1] = STX /\ 3 + 256 * p[2] + p[3] = Len(p) /\ p[Len(p)] = ETX
          /\ p[4] = SBS_BOOTLOADER /\ p[5] = BOOTLOAD_DESC =>
               Total(SubSeq(p, 4, Len(p) - 1)) % 256 = 0
    BY PacketFacts, Zenon
  <2> QED BY <2>1, <2>2, Zenon
<1> QED BY PacketsAreSent, <1>1, PTL

\* Every variable of a program stays in its type, whatever it is told to do.
THEOREM ProgTypeCorrect == ProgSpec => []ProgTypeOK
<1>1. ProgInit => sa_handle \in Addr \cup {NoHandle}
  BY DEF ProgInit
<1>2. PInv /\ sa_handle \in Addr \cup {NoHandle} /\ [ProgNext]_progvars
        => (sa_handle \in Addr \cup {NoHandle})'
  BY HandleType
<1>3. PInv /\ sa_handle \in Addr \cup {NoHandle} /\ sent \in Seq(Packets) => ProgTypeOK
  <2> SUFFICES ASSUME PInv, sa_handle \in Addr \cup {NoHandle}, sent \in Seq(Packets)
               PROVE  ProgTypeOK
    OBVIOUS
  <2>1. TypeOK
    BY DEF PInv, IInv, TypeOK, Sound
  <2>2. ASSUME NEW i \in 1..Len(sent), NEW j \in 1..Len(sent[i]) PROVE sent[i][j] \in Byte
    <3>1. sent[i] \in Packets
      OBVIOUS
    <3>2. sent[i] \in Seq(Byte)
      BY <3>1, PacketFacts
    <3> QED BY <3>2
  <2> QED BY <2>1, <2>2 DEF ProgTypeOK, PInv
<1> QED BY ProgInductive, PacketsAreSent, <1>1, <1>2, <1>3, PTL DEF ProgSpec
=============================================================================
