--------------------------- MODULE AovRegistry_proofs ---------------------------
(***************************************************************************)
(* Proofs about the handle registry, for any number of addresses, sockets, *)
(* hosts and ports.  A call is an operator from a registry state to its    *)
(* outcomes, so each call has a lemma of its own about every outcome, and  *)
(* the lemma of a caller cites those of its callees.                       *)
(***************************************************************************)
EXTENDS AovRegistry, WellFoundedInduction, TLAPS

\* The part of the invariant that every intermediate state of every call
\* satisfies, inside Register too.
Sound(s) ==
  /\ s \in RegState
  /\ EntriesMatch(s)
  /\ OwnedAreOpen(s)
  /\ OpenAreOwned(s)

\* Sound, except that nothing is known of descriptor d: what Connect has when
\* socket() returned d and connect() has not succeeded.
SoundBut(s, d) ==
  /\ s \in RegState
  /\ EntriesMatch(s)
  /\ OwnedAreOpen(s)
  /\ \A f \in Fd \ {d} : s.sock[f] # "closed" /\ f \notin s.faulty =>
       /\ s.sock[f] = "connected"
       /\ \E a \in s.heap : s.hnd[a].socketfd = f

\* The handles A are for the same analyzers in s and t.
SameAnalyzers(s, t, A) ==
  \A a \in A : /\ t.hnd[a].ip = s.hnd[a].ip
               /\ t.hnd[a].portno = s.hnd[a].portno
               /\ t.hnd[a].servinfo = s.hnd[a].servinfo

\* t differs from s in sockets only: the same handles for the same analyzers.
SameHandles(s, t) ==
  /\ t.plist = s.plist
  /\ t.heap = s.heap
  /\ SameAnalyzers(s, t, Addr)

\* The solver is slow on an interval up to a large literal.
LEMMA RangeOf == \A n \in Nat : \A p : p \in 0..n <=> p \in Nat /\ p <= n
OBVIOUS

LEMMA PortNumbers == \A p : p \in PortNo <=> p \in Nat /\ p <= 65535
<1> DEFINE top == 65535
<1>1. top \in Nat
  OBVIOUS
<1>2. PortNo = 0..top
  BY SMT DEF PortNo
<1> HIDE DEF top
<1>3. \A p : p \in PortNo <=> p \in Nat /\ p <= top
  BY <1>1, <1>2, RangeOf, Zenon
<1> QED BY <1>3, SMT DEF top

LEMMA PortNoBelow ==
  ASSUME NEW p \in PortNo
  PROVE  p % 65536 = p
BY PortNumbers

LEMMA NoSockFacts == NoSock \in Int /\ NoSock \notin Fd
BY FdAssumption DEF NoSock

LEMMA BlankType == Blank \in Handle
BY IpAssumption, PortNumbers DEF Blank, Handle

\* Assigning one handle's socketfd changes that field of that handle only.
LEMMA SetSocketfd ==
  ASSUME NEW g \in [Addr -> Handle], NEW h \in Addr, NEW f \in Fd \cup {NoSock},
         NEW q, q = [g EXCEPT ![h].socketfd = f]
  PROVE  /\ q \in [Addr -> Handle]
         /\ \A a \in Addr : a # h => q[a] = g[a]
         /\ q[h].socketfd = f
         /\ \A a \in Addr : /\ q[a].ip = g[a].ip
                            /\ q[a].portno = g[a].portno
                            /\ q[a].servinfo = g[a].servinfo
<1> DEFINE r == [g[h] EXCEPT !.socketfd = f]
<1>1. g[h] \in Handle
  OBVIOUS
<1>2. /\ r \in Handle
      /\ r.socketfd = f
      /\ r.ip = g[h].ip
      /\ r.portno = g[h].portno
      /\ r.servinfo = g[h].servinfo
  BY <1>1 DEF Handle
<1>3. q = [g EXCEPT ![h] = r]
  OBVIOUS
<1> HIDE DEF r
<1>4. /\ q \in [Addr -> Handle]
      /\ q[h] = r
      /\ \A a \in Addr : a # h => q[a] = g[a]
  BY <1>2, <1>3
<1> QED BY <1>2, <1>4

\* Disconnect of a handle with a socket closes it or marks it faulty, so the
\* result is sound whatever state that socket was in.
LEMMA CloseSound ==
  ASSUME NEW s, NEW h \in Addr, Registered(s, h), s.hnd[h].socketfd # NoSock,
         SoundBut(s, s.hnd[h].socketfd), NEW o \in Disconnect(s, h)
  PROVE  Sound(o.st) /\ SameHandles(s, o.st)
<1> DEFINE f == s.hnd[h].socketfd
<1>1. s \in RegState /\ f \in Fd /\ h \in s.heap
  BY DEF SoundBut, RegState, Handle, Registered, EntriesMatch
<1>2. CASE o = Outcome([s EXCEPT !.faulty = @ \cup {f}], "CLOSESOCKET_FAILED")
  <2>1. /\ o.st \in RegState
        /\ o.st.plist = s.plist
        /\ o.st.heap = s.heap
        /\ o.st.hnd = s.hnd
        /\ o.st.sock = s.sock
        /\ o.st.faulty = s.faulty \cup {f}
    BY <1>1, <1>2 DEF RegState, Outcome
  <2> QED BY <2>1 DEF Sound, SoundBut, SameHandles, SameAnalyzers, EntriesMatch, OwnedAreOpen, OpenAreOwned
<1>3. CASE o = Outcome([s EXCEPT !.sock[f] = "closed", !.faulty = @ \ {f},
                                 !.hnd[h].socketfd = NoSock], "NO_ERROR")
  <2>1. /\ o.st.plist = s.plist
        /\ o.st.heap = s.heap
        /\ o.st.hnd = [s.hnd EXCEPT ![h].socketfd = NoSock]
        /\ o.st.sock = [s.sock EXCEPT ![f] = "closed"]
        /\ o.st.faulty = s.faulty \ {f}
    BY <1>1, <1>3 DEF RegState, Outcome
  <2>2. s.hnd \in [Addr -> Handle]
    BY <1>1 DEF RegState
  <2>3. /\ o.st.hnd \in [Addr -> Handle]
        /\ \A a \in Addr : a # h => o.st.hnd[a] = s.hnd[a]
        /\ o.st.hnd[h].socketfd = NoSock
        /\ \A a \in Addr : /\ o.st.hnd[a].ip = s.hnd[a].ip
                           /\ o.st.hnd[a].portno = s.hnd[a].portno
                           /\ o.st.hnd[a].servinfo = s.hnd[a].servinfo
    BY <2>1, <2>2, NoSockFacts, SetSocketfd
  <2>4. o.st \in RegState
    BY <1>1, <1>3, <2>1, <2>3 DEF RegState, Outcome, SockState
  <2>5. SameHandles(s, o.st)
    BY <2>1, <2>3 DEF SameHandles, SameAnalyzers
  <2>6. OwnedAreOpen(o.st)
    BY <1>1, <2>1, <2>3, NoSockFacts DEF SoundBut, OwnedAreOpen, RegState
  <2>7. OpenAreOwned(o.st)
    BY <1>1, <2>1, <2>3, NoSockFacts DEF SoundBut, OpenAreOwned, RegState
  <2> QED BY <2>1, <2>4, <2>5, <2>6, <2>7 DEF Sound, SoundBut, EntriesMatch
<1> QED BY <1>2, <1>3 DEF Disconnect

\* Every outcome of Disconnect is sound and keeps the handles.
LEMMA DisconnectSound ==
  ASSUME NEW s, Sound(s), NEW h \in Addr, NEW o \in Disconnect(s, h)
  PROVE  Sound(o.st) /\ SameHandles(s, o.st)
<1>1. CASE ~Registered(s, h) \/ s.hnd[h].socketfd = NoSock
  <2>1. o.st = s
    BY <1>1 DEF Disconnect, Outcome
  <2> QED BY <2>1 DEF SameHandles, SameAnalyzers
<1>2. CASE Registered(s, h) /\ s.hnd[h].socketfd # NoSock
  <2>1. SoundBut(s, s.hnd[h].socketfd)
    BY DEF Sound, SoundBut, OpenAreOwned
  <2> QED BY <1>2, <2>1, CloseSound
<1> QED BY <1>1, <1>2

\* A descriptor that was closed is unknown to every handle; once h owns it,
\* the state is sound but for that descriptor.
LEMMA OpenedSoundBut ==
  ASSUME NEW s, Sound(s), NEW h \in Addr, Registered(s, h),
         s.hnd[h].socketfd = NoSock,
         NEW f \in Fd, s.sock[f] = "closed"
  PROVE  /\ SoundBut(Opened(s, h, f), f)
         /\ SameHandles(s, Opened(s, h, f))
         /\ Opened(s, h, f).hnd[h].socketfd = f
         /\ Opened(s, h, f).sock[f] = "open"
         /\ Registered(Opened(s, h, f), h)
<1> DEFINE t == Opened(s, h, f)
<1>1. s \in RegState /\ h \in s.heap /\ s.hnd \in [Addr -> Handle]
  BY DEF Sound, RegState, Registered, EntriesMatch
<1>2. /\ t.plist = s.plist
      /\ t.heap = s.heap
      /\ t.hnd = [s.hnd EXCEPT ![h].socketfd = f]
      /\ t.sock = [s.sock EXCEPT ![f] = "open"]
      /\ t.faulty = s.faulty
  BY <1>1 DEF RegState, Opened
<1>3. /\ t.hnd \in [Addr -> Handle]
      /\ \A a \in Addr : a # h => t.hnd[a] = s.hnd[a]
      /\ t.hnd[h].socketfd = f
      /\ \A a \in Addr : /\ t.hnd[a].ip = s.hnd[a].ip
                         /\ t.hnd[a].portno = s.hnd[a].portno
                         /\ t.hnd[a].servinfo = s.hnd[a].servinfo
  BY <1>1, <1>2, SetSocketfd
<1>4. t \in RegState
  BY <1>1, <1>2, <1>3 DEF RegState, Opened, SockState
<1>5. OwnedAreOpen(t)
  BY <1>1, <1>2, <1>3, NoSockFacts DEF Sound, OwnedAreOpen, RegState
<1>6. ASSUME NEW g \in Fd \ {f}, t.sock[g] # "closed", g \notin t.faulty
      PROVE  t.sock[g] = "connected" /\ \E a \in t.heap : t.hnd[a].socketfd = g
  BY <1>1, <1>2, <1>3, <1>6, NoSockFacts DEF Sound, OpenAreOwned, RegState
<1> HIDE DEF t
<1>7. SoundBut(t, f)
  BY <1>2, <1>4, <1>5, <1>6 DEF Sound, SoundBut, EntriesMatch
<1> QED BY <1>1, <1>2, <1>3, <1>7 DEF SameHandles, SameAnalyzers, Registered, t, RegState

\* Every outcome of Connect is sound and keeps the handles.
LEMMA ConnectSound ==
  ASSUME NEW s, Sound(s), NEW h \in Addr, NEW o \in Connect(s, h)
  PROVE  Sound(o.st) /\ SameHandles(s, o.st)
<1>1. CASE o.st = s
  BY <1>1 DEF SameHandles, SameAnalyzers
<1>2. CASE o.st # s
  <2>1. Registered(s, h) /\ s.hnd[h].socketfd = NoSock
    BY <1>2 DEF Connect, Outcome
  <2>2. PICK f \in {g \in Fd : s.sock[g] = "closed"} :
          o \in {Outcome([Opened(s, h, f) EXCEPT !.faulty = @ \cup {f}],
                         "SETSOCKETOPT_FAILED"),
                 Outcome([Opened(s, h, f) EXCEPT !.sock[f] = "connected"],
                         "NO_ERROR")}
               \cup {Outcome(d.st, "CONNECT_FAILED") : d \in Disconnect(Opened(s, h, f), h)}
    BY <1>2, <2>1 DEF Connect, Outcome
  <2> DEFINE t == Opened(s, h, f)
  <2>3. /\ SoundBut(t, f) /\ SameHandles(s, t) /\ Registered(t, h)
        /\ t.hnd[h].socketfd = f /\ t.sock[f] = "open"
    BY <2>1, <2>2, OpenedSoundBut
  <2>4. t \in RegState /\ h \in t.heap
    BY <2>3 DEF SoundBut, EntriesMatch, Registered
  <2> HIDE DEF t
  <2>5. CASE o = Outcome([t EXCEPT !.faulty = @ \cup {f}], "SETSOCKETOPT_FAILED")
    <3>1. /\ o.st \in RegState
          /\ o.st.plist = t.plist
          /\ o.st.heap = t.heap
          /\ o.st.hnd = t.hnd
          /\ o.st.sock = t.sock
          /\ o.st.faulty = t.faulty \cup {f}
      BY <2>2, <2>4, <2>5 DEF RegState, Outcome
    <3> QED BY <2>3, <3>1 DEF Sound, SoundBut, SameHandles, SameAnalyzers, EntriesMatch, OwnedAreOpen, OpenAreOwned
  <2>6. CASE o = Outcome([t EXCEPT !.sock[f] = "connected"], "NO_ERROR")
    <3>1. /\ o.st \in RegState
          /\ o.st.plist = t.plist
          /\ o.st.heap = t.heap
          /\ o.st.hnd = t.hnd
          /\ o.st.sock = [t.sock EXCEPT ![f] = "connected"]
          /\ o.st.faulty = t.faulty
      BY <2>2, <2>4, <2>6 DEF RegState, Outcome, SockState
    <3>2. t.sock \in [Fd -> SockState]
      BY <2>4 DEF RegState
    <3>3. OpenAreOwned(o.st)
      BY <2>2, <2>3, <2>4, <3>1, <3>2 DEF SoundBut, OpenAreOwned
    <3>4. OwnedAreOpen(o.st)
      BY <2>2, <2>3, <2>4, <3>1, <3>2 DEF SoundBut, OwnedAreOpen, RegState, Handle
    <3> QED BY <2>3, <3>1, <3>3, <3>4 DEF Sound, SoundBut, SameHandles, SameAnalyzers, EntriesMatch
  <2>7. ASSUME NEW d \in Disconnect(t, h), o = Outcome(d.st, "CONNECT_FAILED")
        PROVE  Sound(o.st) /\ SameHandles(s, o.st)
    <3>1. f # NoSock
      BY <2>2, NoSockFacts
    <3>2. Sound(d.st) /\ SameHandles(t, d.st)
      BY <2>3, <3>1, <2>7, CloseSound
    <3> QED BY <2>3, <2>7, <3>2 DEF SameHandles, SameAnalyzers, Outcome
  <2> QED BY <2>2, <2>5, <2>6, <2>7 DEF t
<1> QED BY <1>1, <1>2

-----------------------------------------------------------------------------
(* Taking a handle out of plist *)

\* q lists what l lists, but for its entry k, and each of it once.
Without(l, k, q) ==
  /\ q \in Seq(Addr) /\ Distinct(q)
  /\ \A i \in 1..Len(q) : q[i] # l[k] /\ \E j \in 1..Len(l) : q[i] = l[j]
  /\ \A j \in 1..Len(l) : j # k => \E i \in 1..Len(q) : q[i] = l[j]

\* Closing the gap at an entry that occurs once removes exactly that entry.
LEMMA ShiftedRemoves ==
  ASSUME NEW l \in Seq(Addr), Distinct(l), NEW k \in 1..Len(l)
  PROVE  Without(l, k, Shifted(l, k))
<1> DEFINE n == Len(l) - 1
           q == Shifted(l, k)
<1>1. Len(l) \in Nat /\ n \in Nat
  OBVIOUS
<1>2. q = [i \in 1..n |-> IF i < k THEN l[i] ELSE l[i + 1]]
  BY DEF Shifted
<1> HIDE DEF q
<1>3. \A i \in 1..n : (IF i < k THEN l[i] ELSE l[i + 1]) \in Addr
  BY <1>1
<1>4. q \in Seq(Addr) /\ Len(q) = n
  BY <1>1, <1>2, <1>3
<1>5. \A i \in 1..n : q[i] = (IF i < k THEN l[i] ELSE l[i + 1])
  BY <1>2
<1>6. Distinct(q)
  BY <1>1, <1>4, <1>5 DEF Distinct
<1>7. \A i \in 1..n : q[i] # l[k] /\ \E j \in 1..Len(l) : q[i] = l[j]
  BY <1>1, <1>5 DEF Distinct
<1>8. \A j \in 1..Len(l) : j # k => \E i \in 1..n : q[i] = l[j]
  <2> TAKE j \in 1..Len(l)
  <2> HAVE j # k
  <2>1. CASE j < k
    BY <1>1, <1>5, <2>1
  <2>2. CASE j > k
    <3>1. j - 1 \in 1..n /\ ~(j - 1 < k) /\ (j - 1) + 1 = j
      BY <1>1, <2>2
    <3> QED BY <1>5, <3>1
  <2> QED BY <2>1, <2>2
<1>9. Without(l, k, q)
  BY <1>4, <1>6, <1>7, <1>8 DEF Without
<1> QED BY <1>9 DEF q

\* Dropping a handle whose socket is closed or faulty.
LEMMA DroppedSound ==
  ASSUME NEW s, Sound(s), NEW h \in Addr, Registered(s, h),
         s.hnd[h].socketfd = NoSock \/ s.hnd[h].socketfd \in s.faulty
  PROVE  /\ Sound(Dropped(s, h))
         /\ Dropped(s, h).heap = s.heap \ {h}
         /\ \A a \in Addr \ {h} : Dropped(s, h).hnd[a] = s.hnd[a]
<1> DEFINE k == FirstIndex(s.plist, h)
           t == Dropped(s, h)
<1>1. s \in RegState /\ EntriesMatch(s) /\ s.plist \in Seq(Addr)
  BY DEF Sound, RegState
<1>2. k \in 1..Len(s.plist) /\ s.plist[k] = h
  <2>1. PICK i \in 1..Len(s.plist) : s.plist[i] = h
    BY DEF Registered
  <2>2. \A j \in 1..(i - 1) : s.plist[j] # h
    BY <1>1, <2>1 DEF EntriesMatch, Distinct
  <2> QED BY <2>1, <2>2 DEF FirstIndex
<1>3. /\ t.plist = Shifted(s.plist, k)
      /\ t.heap = s.heap \ {h}
      /\ t.hnd = [s.hnd EXCEPT ![h] = Blank]
      /\ t.sock = s.sock
      /\ t.faulty = s.faulty
  BY <1>1 DEF RegState, Dropped
<1> HIDE DEF k, t
<1>4. /\ t.plist \in Seq(Addr)
      /\ EntriesMatch(t)
  <2>1. /\ t.plist \in Seq(Addr)
        /\ Distinct(t.plist)
        /\ \A i \in 1..Len(t.plist) :
             t.plist[i] # h /\ \E j \in 1..Len(s.plist) : t.plist[i] = s.plist[j]
        /\ \A j \in 1..Len(s.plist) :
             j # k => \E i \in 1..Len(t.plist) : t.plist[i] = s.plist[j]
    <3>1. s.plist \in Seq(Addr) /\ Distinct(s.plist)
      BY <1>1 DEF EntriesMatch
    <3>2. k \in 1..Len(s.plist) /\ s.plist[k] = h
      BY <1>2
    <3>3. t.plist = Shifted(s.plist, k)
      BY <1>3
    <3>4. Without(s.plist, k, t.plist)
      BY <3>1, <3>2, <3>3, ShiftedRemoves
    <3> QED BY <3>2, <3>4, Zenon DEF Without
  <2>2. t.heap = {t.plist[i] : i \in 1..Len(t.plist)}
    <3>1. s.heap = {s.plist[i] : i \in 1..Len(s.plist)} /\ t.heap = s.heap \ {h}
      BY <1>1, <1>3 DEF EntriesMatch
    <3>2. ASSUME NEW x \in t.heap PROVE \E i \in 1..Len(t.plist) : x = t.plist[i]
      <4>1. PICK j \in 1..Len(s.plist) : x = s.plist[j]
        BY <3>1
      <4>2. j # k
        BY <1>2, <3>1, <4>1
      <4> QED BY <2>1, <4>1, <4>2
    <3>3. \A i \in 1..Len(t.plist) : t.plist[i] \in t.heap
      BY <2>1, <3>1
    <3> QED BY <3>2, <3>3
  <2> QED BY <2>1, <2>2 DEF EntriesMatch
<1>5. /\ t.hnd \in [Addr -> Handle]
      /\ \A a \in Addr \ {h} : t.hnd[a] = s.hnd[a]
  BY <1>1, <1>3, BlankType DEF RegState
<1>6. t \in RegState
  BY <1>1, <1>3, <1>4, <1>5 DEF RegState, Dropped, t
<1>7. OwnedAreOpen(t)
  BY <1>1, <1>3, <1>5 DEF Sound, OwnedAreOpen, RegState
<1>8. OpenAreOwned(t)
  <2> SUFFICES ASSUME NEW f \in Fd, t.sock[f] # "closed", f \notin t.faulty
               PROVE  t.sock[f] = "connected" /\ \E a \in t.heap : t.hnd[a].socketfd = f
    BY DEF OpenAreOwned
  <2>1. PICK a \in s.heap : s.hnd[a].socketfd = f /\ s.sock[f] = "connected"
    BY <1>3 DEF Sound, OpenAreOwned
  <2>2. a # h
    BY <1>3, <2>1, NoSockFacts
  <2> QED BY <1>1, <1>3, <1>5, <2>1, <2>2 DEF RegState
<1> QED BY <1>3, <1>4, <1>5, <1>6, <1>7, <1>8 DEF Sound, t

\* After a Disconnect the handle has no socket, or a faulty one.
LEMMA DisconnectedSocket ==
  ASSUME NEW s, Sound(s), NEW h \in Addr, Registered(s, h), NEW o \in Disconnect(s, h)
  PROVE  o.st.hnd[h].socketfd = NoSock \/ o.st.hnd[h].socketfd \in o.st.faulty
<1>1. s \in RegState /\ s.hnd \in [Addr -> Handle]
  BY DEF Sound, RegState
<1>2. CASE s.hnd[h].socketfd = NoSock
  BY <1>2 DEF Disconnect, Outcome
<1>3. CASE s.hnd[h].socketfd # NoSock
  <2> DEFINE f == s.hnd[h].socketfd
  <2>1. CASE o = Outcome([s EXCEPT !.faulty = @ \cup {f}], "CLOSESOCKET_FAILED")
    <3>1. o.st.hnd = s.hnd /\ o.st.faulty = s.faulty \cup {f}
      BY <1>1, <2>1 DEF Outcome, RegState
    <3> QED BY <3>1
  <2>2. CASE o = Outcome([s EXCEPT !.sock[f] = "closed", !.faulty = @ \ {f},
                                   !.hnd[h].socketfd = NoSock], "NO_ERROR")
    <3>1. o.st.hnd = [s.hnd EXCEPT ![h].socketfd = NoSock]
      BY <1>1, <2>2 DEF Outcome, RegState
    <3> QED BY <1>1, <3>1, NoSockFacts, SetSocketfd
  <2> QED BY <1>3, <2>1, <2>2 DEF Disconnect
<1> QED BY <1>2, <1>3

\* Every outcome of Unregister is sound, and exactly h is gone.
LEMMA UnregisterSound ==
  ASSUME NEW s, Sound(s), NEW h \in Addr, NEW o \in Unregister(s, h)
  PROVE  /\ Sound(o.st)
         /\ o.st.heap = s.heap \ {h}
         /\ SameAnalyzers(s, o.st, Addr \ {h})
<1>1. CASE ~Registered(s, h)
  <2>1. o.st = s
    BY <1>1 DEF Unregister, Outcome
  <2>2. h \notin s.heap
    BY <1>1 DEF Sound, EntriesMatch, Registered
  <2> QED BY <2>1, <2>2 DEF SameAnalyzers
<1>2. CASE Registered(s, h)
  <2>1. PICK d \in Disconnect(s, h) : o.st = Dropped(d.st, h)
    BY <1>2 DEF Unregister, Outcome
  <2>2. Sound(d.st) /\ SameHandles(s, d.st)
    BY <2>1, DisconnectSound
  <2>3. Registered(d.st, h)
    BY <1>2, <2>2 DEF Registered, SameHandles, SameAnalyzers
  <2>4. d.st.hnd[h].socketfd = NoSock \/ d.st.hnd[h].socketfd \in d.st.faulty
    BY <1>2, <2>1, DisconnectedSocket
  <2>5. /\ Sound(o.st)
        /\ o.st.heap = d.st.heap \ {h}
        /\ \A a \in Addr \ {h} : o.st.hnd[a] = d.st.hnd[a]
    BY <2>1, <2>2, <2>3, <2>4, DroppedSound
  <2> QED BY <2>2, <2>5 DEF SameHandles, SameAnalyzers
<1> QED BY <1>1, <1>2

-----------------------------------------------------------------------------
(* Register *)

AllResolved(s) == \A a \in s.heap : s.hnd[a].servinfo

AllUnique(s) == \A a, b \in s.heap : SameSockaddr(s.hnd[a], s.hnd[b]) => a = b

\* The state t of a Register of block a for (ip, port), called in s, while the
\* handle is in plist.
Enrolling(s, t, a, ip, port) ==
  /\ Sound(t)
  /\ t.heap = s.heap \cup {a}
  /\ SameAnalyzers(s, t, s.heap)
  /\ t.hnd[a].ip = ip
  /\ t.hnd[a].portno = port % 65536

\* The state t of a Register called in s that has taken its handle back.
TakenBack(s, t) ==
  /\ Sound(t)
  /\ t.heap = s.heap
  /\ SameAnalyzers(s, t, s.heap)

\* What is in a new handle.
LEMMA FreshHandle ==
  ASSUME NEW ip \in Ip, NEW port \in Port
  PROVE  /\ Fresh(ip, port) \in Handle
         /\ Fresh(ip, port).socketfd = NoSock
         /\ Fresh(ip, port).ip = ip
         /\ Fresh(ip, port).portno = port % 65536
<1> DEFINE p == port % 65536
<1>1. p \in PortNo
  BY PortAssumption, PortNumbers
<1>2. Fresh(ip, port) = [socketfd |-> NoSock, ip |-> ip, portno |-> p, servinfo |-> FALSE]
  BY DEF Fresh
<1> HIDE DEF p
<1>3. /\ Fresh(ip, port) \in Handle
      /\ Fresh(ip, port).socketfd = NoSock
      /\ Fresh(ip, port).ip = ip
      /\ Fresh(ip, port).portno = p
  BY <1>1, <1>2 DEF Handle
<1> QED BY <1>3 DEF p

\* The new handle enters plist with everything else as it was.
LEMMA AppendedSound ==
  ASSUME NEW s, Sound(s), NEW a \in Addr \ s.heap, NEW ip \in Ip, NEW port \in Port,
         NEW t, t = Appended(s, a, ip, port)
  PROVE  Enrolling(s, t, a, ip, port) /\ t.plist = Append(s.plist, a)
<1> DEFINE new == Fresh(ip, port)
<1>1. s \in RegState /\ s.plist \in Seq(Addr) /\ s.hnd \in [Addr -> Handle]
  BY DEF Sound, RegState
<1>2. /\ new \in Handle
      /\ new.socketfd = NoSock
      /\ new.ip = ip
      /\ new.portno = port % 65536
  BY FreshHandle
<1> HIDE DEF new
<1>3. /\ t.plist = Append(s.plist, a)
      /\ t.heap = s.heap \cup {a}
      /\ t.hnd = [s.hnd EXCEPT ![a] = new]
      /\ t.sock = s.sock
      /\ t.faulty = s.faulty
  BY <1>1 DEF RegState, Appended, new
<1>4. t = [plist |-> t.plist, heap |-> t.heap, hnd |-> t.hnd, sock |-> t.sock,
           faulty |-> t.faulty]
  BY <1>1 DEF RegState, Appended
<1>5. /\ t.hnd \in [Addr -> Handle]
      /\ t.hnd[a] = new
      /\ \A x \in Addr : x # a => t.hnd[x] = s.hnd[x]
  BY <1>1, <1>2, <1>3
<1>6. t.plist \in Seq(Addr) /\ Len(t.plist) = Len(s.plist) + 1
  BY <1>1, <1>3
<1>7. t \in RegState
  BY <1>1, <1>3, <1>4, <1>5, <1>6 DEF RegState
<1>8. \A i \in 1..Len(s.plist) : t.plist[i] = s.plist[i]
  BY <1>1, <1>3
<1>9. t.plist[Len(s.plist) + 1] = a
  BY <1>1, <1>3
<1>10. s.heap = {s.plist[i] : i \in 1..Len(s.plist)} /\ Distinct(s.plist)
  BY DEF Sound, EntriesMatch
<1>11. Distinct(t.plist)
  <2> SUFFICES ASSUME NEW i \in 1..Len(t.plist), NEW j \in 1..Len(t.plist),
                      t.plist[i] = t.plist[j]
               PROVE  i = j
    BY DEF Distinct
  <2>1. \A k \in 1..Len(s.plist) : t.plist[k] # a
    BY <1>8, <1>10
  <2>2. i \in 1..Len(s.plist) \/ i = Len(s.plist) + 1
    BY <1>1, <1>6
  <2>3. j \in 1..Len(s.plist) \/ j = Len(s.plist) + 1
    BY <1>1, <1>6
  <2> QED BY <1>8, <1>9, <1>10, <2>1, <2>2, <2>3 DEF Distinct
<1>12. t.heap = {t.plist[i] : i \in 1..Len(t.plist)}
  <2>1. ASSUME NEW x \in t.heap PROVE \E i \in 1..Len(t.plist) : x = t.plist[i]
    <3>1. CASE x = a
      BY <1>1, <1>6, <1>9, <3>1
    <3>2. CASE x # a
      BY <1>1, <1>3, <1>6, <1>8, <1>10, <3>2
    <3> QED BY <3>1, <3>2
  <2>2. ASSUME NEW i \in 1..Len(t.plist) PROVE t.plist[i] \in t.heap
    <3>1. i \in 1..Len(s.plist) \/ i = Len(s.plist) + 1
      BY <1>1, <1>6
    <3> QED BY <1>3, <1>8, <1>9, <1>10, <3>1
  <2> QED BY <2>1, <2>2
<1>13. OwnedAreOpen(t)
  BY <1>1, <1>2, <1>3, <1>5 DEF Sound, OwnedAreOpen, RegState
<1>14. OpenAreOwned(t)
  BY <1>1, <1>3, <1>5 DEF Sound, OpenAreOwned, RegState
<1>15. SameAnalyzers(s, t, s.heap)
  BY <1>1, <1>5 DEF SameAnalyzers, RegState
<1> QED
  BY <1>2, <1>3, <1>5, <1>7, <1>11, <1>12, <1>13, <1>14, <1>15
  DEF Enrolling, Sound, EntriesMatch

\* getaddrinfo fills in servinfo of the new handle only.
LEMMA ResolvedSound ==
  ASSUME NEW s, NEW a \in Addr \ s.heap, NEW ip \in Ip, NEW port \in Port,
         NEW t, Enrolling(s, t, a, ip, port), NEW u, u = Resolved(t, a)
  PROVE  /\ Enrolling(s, u, a, ip, port)
         /\ u.hnd[a].servinfo
         /\ u.plist = t.plist
<1> DEFINE new == [t.hnd[a] EXCEPT !.servinfo = TRUE]
<1>1. t \in RegState /\ t.hnd \in [Addr -> Handle] /\ s.heap \subseteq Addr
  BY DEF Enrolling, Sound, RegState
<1>2. t.hnd[a] \in Handle
  BY <1>1
<1>3. /\ new \in Handle
      /\ new.servinfo
      /\ new.socketfd = t.hnd[a].socketfd
      /\ new.ip = t.hnd[a].ip
      /\ new.portno = t.hnd[a].portno
  BY <1>2 DEF Handle
<1>4. /\ u.plist = t.plist
      /\ u.heap = t.heap
      /\ u.hnd = [t.hnd EXCEPT ![a] = new]
      /\ u.sock = t.sock
      /\ u.faulty = t.faulty
  BY <1>1 DEF RegState, Resolved
<1> HIDE DEF new
<1>5. /\ u.hnd \in [Addr -> Handle]
      /\ u.hnd[a] = new
      /\ \A x \in Addr : x # a => u.hnd[x] = t.hnd[x]
      /\ \A x \in Addr : u.hnd[x].socketfd = t.hnd[x].socketfd
  BY <1>1, <1>3, <1>4
<1>6. u \in RegState
  BY <1>1, <1>4, <1>5 DEF RegState, Resolved
<1>7. OwnedAreOpen(u)
  BY <1>1, <1>4, <1>5 DEF Enrolling, Sound, OwnedAreOpen, RegState
<1>8. OpenAreOwned(u)
  BY <1>1, <1>4, <1>5 DEF Enrolling, Sound, OpenAreOwned, RegState
<1>9. EntriesMatch(u)
  BY <1>4 DEF Enrolling, Sound, EntriesMatch
<1>10. SameAnalyzers(s, u, s.heap)
  BY <1>1, <1>5 DEF Enrolling, SameAnalyzers
<1> QED BY <1>3, <1>4, <1>5, <1>6, <1>7, <1>8, <1>9, <1>10 DEF Enrolling, Sound

\* Sockets opened and closed meanwhile do not disturb the enrolment.
LEMMA EnrollingKept ==
  ASSUME NEW s, NEW a \in Addr \ s.heap, s.heap \subseteq Addr, NEW ip, NEW port,
         NEW t, Enrolling(s, t, a, ip, port), NEW u, Sound(u), SameHandles(t, u)
  PROVE  Enrolling(s, u, a, ip, port) /\ u.hnd[a].servinfo = t.hnd[a].servinfo
BY DEF Enrolling, SameHandles, SameAnalyzers

\* Unregister of the new handle undoes the enrolment, whatever it returns.
LEMMA TakeBackSound ==
  ASSUME NEW s, NEW a \in Addr \ s.heap, s.heap \subseteq Addr, NEW ip, NEW port,
         NEW t, Enrolling(s, t, a, ip, port), NEW r, NEW o \in TakeBack(t, a, r)
  PROVE  TakenBack(s, o.st)
<1>1. PICK u \in Unregister(t, a) : o.st = u.st
  BY DEF TakeBack, Outcome
<1>2. /\ Sound(u.st)
      /\ u.st.heap = t.heap \ {a}
      /\ SameAnalyzers(t, u.st, Addr \ {a})
  <2>1. Sound(t) /\ a \in Addr
    BY DEF Enrolling
  <2> QED BY <2>1, UnregisterSound, Zenon
<1>3. u.st.heap = s.heap
  BY <1>2 DEF Enrolling
<1> QED BY <1>1, <1>2, <1>3 DEF Enrolling, TakenBack, SameAnalyzers

\* From the connect on, the handle is either taken back or stays, resolved.
LEMMA IntroducedSound ==
  ASSUME NEW s, NEW a \in Addr \ s.heap, s.heap \subseteq Addr, NEW ip, NEW port, NEW flags,
         NEW t, Enrolling(s, t, a, ip, port), t.hnd[a].servinfo,
         NEW o \in Introduced(t, a, flags)
  PROVE  \/ TakenBack(s, o.st)
         \/ Enrolling(s, o.st, a, ip, port) /\ o.st.hnd[a].servinfo
<1>1. PICK c \in Connect(t, a) :
        o \in IF c.res # "NO_ERROR" THEN TakeBack(c.st, a, c.res)
              ELSE Described(c.st, a, flags)
                   \cup UNION {TakeBack(c.st, a, r) : r \in ExchangeFailures}
  BY DEF Introduced
<1>2. Sound(c.st) /\ SameHandles(t, c.st)
  BY <1>1, ConnectSound DEF Enrolling
<1>3. Enrolling(s, c.st, a, ip, port) /\ c.st.hnd[a].servinfo
  BY <1>2, EnrollingKept
<1>4. ASSUME NEW r, o \in TakeBack(c.st, a, r) PROVE TakenBack(s, o.st)
  BY <1>3, <1>4, TakeBackSound
<1>5. CASE o \in Described(c.st, a, flags)
  <2>1. Sound(o.st) /\ SameHandles(c.st, o.st)
    <3>1. CASE o = Outcome(c.st, "NO_ERROR")
      BY <1>2, <3>1 DEF Outcome, SameHandles, SameAnalyzers
    <3>2. CASE o \in Disconnect(c.st, a)
      BY <1>2, <3>2, DisconnectSound
    <3> QED BY <1>5, <3>1, <3>2 DEF Described
  <2> QED BY <1>3, <2>1, EnrollingKept
<1>6. \/ \E r : o \in TakeBack(c.st, a, r)
      \/ o \in Described(c.st, a, flags)
  BY <1>1
<1> QED BY <1>4, <1>5, <1>6

\* Every outcome of Register: the handle is taken back, or it is registered
\* and resolved; and unless the int port is none, it is the only one for its
\* sockaddr.
LEMMA EnrolledSound ==
  ASSUME NEW s, Sound(s), NEW a \in Addr \ s.heap, NEW ip \in Ip, NEW port \in Port,
         NEW flags, NEW o \in Enrolled(s, a, ip, port, flags)
  PROVE  \/ TakenBack(s, o.st)
         \/ /\ Enrolling(s, o.st, a, ip, port)
            /\ o.st.hnd[a].servinfo
            /\ \/ port \notin PortNo
               \/ \A x \in s.heap : ~SameSockaddr(s.hnd[x], o.st.hnd[a])
<1> DEFINE n == Appended(s, a, ip, port)
           t == Resolved(n, a)
<1>0. s.heap \subseteq Addr /\ s.plist \in Seq(Addr)
  BY DEF Sound, RegState
<1>1. Enrolling(s, n, a, ip, port) /\ n.plist = Append(s.plist, a)
  BY AppendedSound
<1> HIDE DEF n
<1>2. Enrolling(s, t, a, ip, port) /\ t.hnd[a].servinfo /\ t.plist = Append(s.plist, a)
  BY <1>1, ResolvedSound
<1> HIDE DEF t
<1>3. CASE o \in TakeBack(n, a, "GET_ADDR_INFO_FAIL")
  BY <1>0, <1>1, <1>3, TakeBackSound
<1>4. CASE Duplicate(t, a) /\ o \in Rejected(t, a, port)
  <2>1. CASE o \in TakeBack(t, a, "HANDLE_ALREADY_EXISTS")
    BY <1>0, <1>2, <2>1, TakeBackSound
  <2>2. CASE port # t.hnd[a].portno /\ o = Outcome(t, "HANDLE_ALREADY_EXISTS")
    <3>1. o.st = t /\ port # port % 65536
      BY <1>2, <2>2 DEF Outcome, Enrolling
    <3>2. port \notin PortNo
      <4>1. ASSUME port \in PortNo PROVE FALSE
        <5>1. port % 65536 = port
          BY <4>1, PortNoBelow
        <5> QED BY <3>1, <5>1
      <4> QED BY <4>1
    <3> QED BY <1>2, <3>1, <3>2
  <2> QED BY <1>4, <2>1, <2>2 DEF Rejected
<1>5. CASE ~Duplicate(t, a) /\ o \in Introduced(t, a, flags)
  <2>1. \/ TakenBack(s, o.st)
        \/ Enrolling(s, o.st, a, ip, port) /\ o.st.hnd[a].servinfo
    BY <1>0, <1>2, <1>5, IntroducedSound
  <2>2. ASSUME NEW x \in s.heap, Enrolling(s, o.st, a, ip, port)
        PROVE  ~SameSockaddr(s.hnd[x], o.st.hnd[a])
    <3>1. PICK i \in 1..Len(s.plist) : x = s.plist[i]
      BY DEF Sound, EntriesMatch
    <3>2. i \in 1..(Len(t.plist) - 1) /\ t.plist[i] = x
      BY <1>0, <1>2, <3>1
    <3>3. ~SameSockaddr(t.hnd[x], t.hnd[a])
      BY <1>5, <3>2 DEF Duplicate
    <3> QED BY <1>2, <2>2, <3>3 DEF SameSockaddr, Enrolling, SameAnalyzers
  <2> QED BY <2>1, <2>2
<1>6. o \in TakeBack(n, a, "GET_ADDR_INFO_FAIL")
        \cup IF Duplicate(t, a) THEN Rejected(t, a, port) ELSE Introduced(t, a, flags)
  BY DEF Enrolled, n, t
<1> QED BY <1>3, <1>4, <1>5, <1>6

-----------------------------------------------------------------------------
(* Deinitialize *)

\* What Emptied assigns, and that it is a record of the same fields.
LEMMA EmptiedRecord ==
  ASSUME NEW s \in RegState, NEW F, NEW t, t = Emptied(s, F)
  PROVE  /\ t.plist = << >>
         /\ t.heap = s.heap \ {s.plist[i] : i \in 1..Len(s.plist)}
         /\ t.hnd = [h \in Addr |-> IF Registered(s, h) THEN Blank ELSE s.hnd[h]]
         /\ t.sock = [f \in Fd |-> IF f \in OwnedSockets(s) \ F THEN "closed" ELSE s.sock[f]]
         /\ t.faulty = (s.faulty \ OwnedSockets(s)) \cup F
         /\ t = [plist |-> t.plist, heap |-> t.heap, hnd |-> t.hnd, sock |-> t.sock,
                 faulty |-> t.faulty]
<1>1. /\ t.plist = << >>
      /\ t.heap = s.heap \ {s.plist[i] : i \in 1..Len(s.plist)}
      /\ t.hnd = [h \in Addr |-> IF Registered(s, h) THEN Blank ELSE s.hnd[h]]
      /\ t.sock = [f \in Fd |-> IF f \in OwnedSockets(s) \ F THEN "closed" ELSE s.sock[f]]
      /\ t.faulty = (s.faulty \ OwnedSockets(s)) \cup F
  BY DEF RegState, Emptied
<1>2. t = [plist |-> t.plist, heap |-> t.heap, hnd |-> t.hnd, sock |-> t.sock,
           faulty |-> t.faulty]
  BY DEF RegState, Emptied
<1> QED BY <1>1, <1>2

\* Emptying plist leaves no block, and every socket either closed or faulty.
LEMMA EmptiedSound ==
  ASSUME NEW s, Sound(s), NEW F \in SUBSET OwnedSockets(s), NEW t, t = Emptied(s, F)
  PROVE  Sound(t) /\ t.plist = << >> /\ t.heap = {}
<1>1. s \in RegState /\ EntriesMatch(s) /\ s.plist \in Seq(Addr) /\ s.hnd \in [Addr -> Handle]
  BY DEF Sound, RegState
<1>2. /\ t.plist = << >>
      /\ t.heap = s.heap \ {s.plist[i] : i \in 1..Len(s.plist)}
      /\ t.hnd = [h \in Addr |-> IF Registered(s, h) THEN Blank ELSE s.hnd[h]]
      /\ t.sock = [f \in Fd |-> IF f \in OwnedSockets(s) \ F THEN "closed" ELSE s.sock[f]]
      /\ t.faulty = (s.faulty \ OwnedSockets(s)) \cup F
  BY <1>1, EmptiedRecord
<1>3. t.heap = {}
  BY <1>1, <1>2 DEF EntriesMatch
<1>4. OwnedSockets(s) \subseteq Fd
  BY <1>1 DEF OwnedSockets, Handle
<1>5. t = [plist |-> t.plist, heap |-> t.heap, hnd |-> t.hnd, sock |-> t.sock,
           faulty |-> t.faulty]
  BY <1>1 DEF RegState, Emptied
<1>6. t.hnd \in [Addr -> Handle]
  BY <1>1, <1>2, BlankType
<1>7. t.sock \in [Fd -> SockState]
  BY <1>1, <1>2 DEF RegState, SockState
<1>8. t.faulty \in SUBSET Fd
  BY <1>1, <1>2, <1>4 DEF RegState
<1>9. t \in RegState
  <2>1. t.plist \in Seq(Addr) /\ t.heap \in SUBSET Addr
    BY <1>2, <1>3
  <2> QED BY <1>5, <1>6, <1>7, <1>8, <2>1 DEF RegState
<1>10. EntriesMatch(t)
  BY <1>2, <1>3 DEF EntriesMatch, Distinct
<1>11. OpenAreOwned(t)
  <2> SUFFICES ASSUME NEW f \in Fd, t.sock[f] # "closed", f \notin t.faulty PROVE FALSE
    BY DEF OpenAreOwned
  <2>1. f \notin OwnedSockets(s) /\ f \notin s.faulty /\ s.sock[f] # "closed"
    BY <1>2
  <2>2. PICK a \in s.heap : s.hnd[a].socketfd = f
    BY <2>1 DEF Sound, OpenAreOwned
  <2>3. f \in OwnedSockets(s)
    BY <1>1, <2>2, NoSockFacts DEF EntriesMatch, OwnedSockets
  <2> QED BY <2>1, <2>3
<1> QED BY <1>2, <1>3, <1>9, <1>10, <1>11 DEF Sound, OwnedAreOpen

-----------------------------------------------------------------------------
(* Searches and loops *)

\* A search that stops at its first hit has one.
LEMMA LeastIndex ==
  ASSUME NEW S \in SUBSET Nat, S # {}
  PROVE  \E m \in S : \A k \in S : m <= k
<1> DEFINE R == {p \in Nat \X Nat : p[1] < p[2]}
<1>1. IsWellFoundedOn(R, Nat)
  BY NatLessThanWellFounded DEF OpToRel
<1>2. \A k, m \in Nat : k < m => <<k, m>> \in R
  OBVIOUS
<1> HIDE DEF R
<1>3. PICK m \in S : \A k \in S : <<k, m>> \notin R
  BY <1>1, WFMin
<1>4. \A k \in S : ~(k < m)
  <2> SUFFICES ASSUME NEW k \in S, k < m PROVE FALSE
    OBVIOUS
  <2>1. k \in Nat /\ m \in Nat
    OBVIOUS
  <2> QED BY <1>2, <1>3, <2>1
<1>5. \A k \in S : m <= k
  BY <1>4
<1> QED BY <1>5

\* Induction over a set of numbers: what holds of 0, and of each number with the
\* one before it, holds of all.
LEMMA Reaches ==
  ASSUME NEW n \in Nat, NEW S, 0 \in S, \A i \in 1..n : i - 1 \in S => i \in S
  PROVE  0..n \subseteq S
<1> DEFINE bad == {i \in 0..n : i \notin S}
<1> SUFFICES ASSUME bad # {} PROVE FALSE
  OBVIOUS
<1>1. PICK m \in bad : \A k \in bad : m <= k
  <2>1. bad \in SUBSET Nat
    OBVIOUS
  <2> HIDE DEF bad
  <2> QED BY <2>1, LeastIndex
<1>2. m \in 1..n /\ m - 1 \in S
  <2>1. m \in 0..n /\ m # 0
    BY <1>1
  <2>2. m - 1 \in 0..n /\ m - 1 \notin bad
    BY <1>1, <2>1
  <2> QED BY <2>1, <2>2
<1> QED BY <1>1, <1>2

\* A loop: f holds the values after 0, 1, ..., n rounds, from base, and step makes
\* the value after round i of the one before.
Rounds(n, base, step, f) == f[0] = base /\ \A i \in 1..n : f[i] = step[i][f[i - 1]]

LEMMA LoopRuns ==
  ASSUME NEW n \in Nat, NEW X, NEW base \in X, NEW step \in [1..n -> [X -> X]]
  PROVE  \E f \in [0..n -> X] : Rounds(n, base, step, f)
<1> DEFINE S == {m \in 0..n : \E f \in [0..m -> X] : Rounds(m, base, step, f)}
<1>1. 0 \in S
  <2> DEFINE f == [i \in 0..0 |-> base]
  <2>1. f \in [0..0 -> X] /\ Rounds(0, base, step, f)
    BY DEF Rounds
  <2> HIDE DEF f
  <2> QED BY <2>1
<1>2. ASSUME NEW m \in 1..n, m - 1 \in S PROVE m \in S
  <2>1. PICK g \in [0..(m - 1) -> X] : Rounds(m - 1, base, step, g)
    BY <1>2
  <2> DEFINE last == step[m][g[m - 1]]
             f == [i \in 0..m |-> IF i = m THEN last ELSE g[i]]
  <2>2. last \in X
    <3>1. g[m - 1] \in X
      OBVIOUS
    <3> QED BY <3>1
  <2>3. f \in [0..m -> X]
    BY <2>2
  <2>4. f[m] = last /\ \A i \in 0..(m - 1) : f[i] = g[i]
    OBVIOUS
  <2> HIDE DEF f
  <2>5. Rounds(m, base, step, f)
    <3>1. f[0] = base
      BY <2>1, <2>4 DEF Rounds
    <3>2. ASSUME NEW i \in 1..m PROVE f[i] = step[i][f[i - 1]]
      <4>1. CASE i = m
        <5>1. f[i - 1] = g[m - 1]
          BY <2>4, <4>1
        <5> QED BY <2>4, <4>1, <5>1
      <4>2. CASE i # m
        <5>1. i \in 1..(m - 1) /\ f[i] = g[i] /\ f[i - 1] = g[i - 1]
          BY <2>4, <4>2
        <5> QED BY <2>1, <5>1 DEF Rounds
      <4> QED BY <4>1, <4>2
    <3> QED BY <3>1, <3>2 DEF Rounds
  <2> QED BY <2>3, <2>5
<1>3. n \in S
  <2>1. \A m \in 1..n : m - 1 \in S => m \in S
    BY <1>2
  <2> HIDE DEF S
  <2>2. 0..n \subseteq S
    BY <1>1, <2>1, Reaches, Zenon
  <2> QED BY <2>2
<1> QED BY <1>3

-----------------------------------------------------------------------------
(* The loop of Deinitialize *)

\* The last n handles, and the sockets they own.
LastHandles(s, n) == {s.plist[i] : i \in (Len(s.plist) - n + 1)..Len(s.plist)}
LastSockets(s, n) == {s.hnd[a].socketfd : a \in LastHandles(s, n)} \ {NoSock}

\* The handle that round n unregisters, and its socket.
HandleOf(s, n) == s.plist[Len(s.plist) - n + 1]
SocketOf(s, n) == s.hnd[HandleOf(s, n)].socketfd

\* The registry once the last n handles are unregistered and closesocket has
\* failed on the sockets F of theirs.
Shortened(s, n, F) ==
  [plist  |-> [i \in 1..(Len(s.plist) - n) |-> s.plist[i]],
   heap   |-> s.heap \ LastHandles(s, n),
   hnd    |-> [a \in Addr |-> IF a \in LastHandles(s, n) THEN Blank ELSE s.hnd[a]],
   sock   |-> [f \in Fd |-> IF f \in LastSockets(s, n) \ F THEN "closed" ELSE s.sock[f]],
   faulty |-> (s.faulty \ LastSockets(s, n)) \cup F]

\* The handle that the next round unregisters is none of the last n, nor is its
\* socket one of theirs.
LEMMA OneMore ==
  ASSUME NEW s, Sound(s), NEW n \in 1..Len(s.plist)
  PROVE  /\ HandleOf(s, n) \in Addr /\ HandleOf(s, n) \notin LastHandles(s, n - 1)
         /\ LastHandles(s, n) = LastHandles(s, n - 1) \cup {HandleOf(s, n)}
         /\ SocketOf(s, n) = NoSock => LastSockets(s, n) = LastSockets(s, n - 1)
         /\ SocketOf(s, n) # NoSock =>
              /\ SocketOf(s, n) \in Fd /\ SocketOf(s, n) \notin LastSockets(s, n - 1)
              /\ LastSockets(s, n) = LastSockets(s, n - 1) \cup {SocketOf(s, n)}
         /\ LastSockets(s, n - 1) \subseteq Fd
<1> DEFINE h == HandleOf(s, n)
           f == SocketOf(s, n)
<1>0. h = s.plist[Len(s.plist) - n + 1] /\ f = s.hnd[h].socketfd
  BY DEF HandleOf, SocketOf
<1> HIDE DEF h, f
<1> DEFINE L == Len(s.plist)
<1>1. /\ s.plist \in Seq(Addr) /\ s.hnd \in [Addr -> Handle] /\ Distinct(s.plist)
      /\ s.heap = {s.plist[i] : i \in 1..Len(s.plist)}
  BY DEF Sound, RegState, EntriesMatch
<1>2. /\ L \in Nat /\ n \in 1..L /\ L - n + 1 \in 1..L
      /\ L - (n - 1) + 1 = L - n + 2
      /\ (L - n + 1)..L = ((L - n + 2)..L) \cup {L - n + 1}
      /\ (L - n + 2)..L \subseteq 1..L
      /\ L - n + 1 \notin (L - n + 2)..L
  BY <1>1
<1>3. h \in Addr /\ h \notin LastHandles(s, n - 1)
  BY <1>0, <1>1, <1>2 DEF Distinct, LastHandles
<1>4. LastHandles(s, n) = LastHandles(s, n - 1) \cup {h}
  BY <1>0, <1>2 DEF LastHandles
<1>5. LastHandles(s, n - 1) \subseteq s.heap /\ h \in s.heap /\ s.heap \subseteq Addr
  BY <1>0, <1>1, <1>2 DEF LastHandles
<1>6. \A a \in s.heap : s.hnd[a].socketfd # NoSock =>
        /\ s.hnd[a].socketfd \in Fd
        /\ \A b \in s.heap : s.hnd[b].socketfd = s.hnd[a].socketfd => a = b
  <2>1. OwnedAreOpen(s)
    BY DEF Sound
  <2>2. \A a \in s.heap : s.hnd[a].socketfd \in Fd \cup {NoSock}
    BY <1>1, <1>5 DEF Handle
  <2> QED BY <2>1, <2>2 DEF OwnedAreOpen
<1>7. LastSockets(s, n - 1) \subseteq Fd
  BY <1>5, <1>6 DEF LastSockets
<1>8. CASE f = NoSock
  <2>1. LastSockets(s, n) = LastSockets(s, n - 1)
    BY <1>0, <1>4, <1>8 DEF LastSockets
  <2> QED BY <1>3, <1>4, <1>7, <1>8, <2>1 DEF h, f
<1>9. CASE f # NoSock
  <2>1. LastSockets(s, n) = LastSockets(s, n - 1) \cup {f}
    BY <1>0, <1>4, <1>9 DEF LastSockets
  <2>2. f \in Fd /\ f \notin LastSockets(s, n - 1)
    BY <1>0, <1>3, <1>5, <1>6, <1>9 DEF LastSockets
  <2> QED BY <1>3, <1>4, <1>7, <1>9, <2>1, <2>2 DEF h, f
<1> QED BY <1>8, <1>9

\* The search for the last entry of plist goes to the end, and closes no gap.
LEMMA DroppedLast ==
  ASSUME NEW u \in RegState, NEW n \in Nat \ {0}, Len(u.plist) = n, Distinct(u.plist),
         NEW h, h = u.plist[n]
  PROVE  Dropped(u, h) =
           [plist |-> [i \in 1..(n - 1) |-> u.plist[i]], heap |-> u.heap \ {h},
            hnd |-> [u.hnd EXCEPT ![h] = Blank], sock |-> u.sock, faulty |-> u.faulty]
<1> DEFINE k == FirstIndex(u.plist, h)
<1>1. k = n
  <2>1. n \in 1..Len(u.plist) /\ u.plist[n] = h /\ \A j \in 1..(n - 1) : u.plist[j] # h
    BY DEF Distinct
  <2>2. k \in 1..Len(u.plist) /\ u.plist[k] = h
    BY <2>1 DEF FirstIndex
  <2> QED BY <2>1, <2>2 DEF Distinct
<1>2. Shifted(u.plist, n) = [i \in 1..(n - 1) |-> u.plist[i]]
  BY DEF Shifted
<1>3. Dropped(u, h) = [u EXCEPT !.plist = Shifted(@, k), !.heap = @ \ {h}, !.hnd[h] = Blank]
  BY DEF Dropped
<1> HIDE DEF k
<1> QED BY <1>1, <1>2, <1>3 DEF RegState

\* Unregister goes on from every state its Disconnect may leave.
LEMMA UnregisterStates ==
  ASSUME NEW t, NEW h, Registered(t, h)
  PROVE  /\ \A o \in Unregister(t, h) : \E d \in Disconnect(t, h) : o.st = Dropped(d.st, h)
         /\ \A d \in Disconnect(t, h) : \E o \in Unregister(t, h) : o.st = Dropped(d.st, h)
<1>1. Unregister(t, h) = {Outcome(Dropped(d.st, h), "NO_ERROR") : d \in Disconnect(t, h)}
  BY DEF Unregister
<1>2. \A x : Outcome(x, "NO_ERROR").st = x
  BY DEF Outcome
<1> QED BY <1>1, <1>2

\* What one round leads to, from a state and from a set of them, and what n
\* rounds lead to.
NextStates(t) == {o.st : o \in Unregister(t, t.plist[Len(t.plist)])}
Round(T) == UNION {NextStates(t) : t \in T}
Reached(s, n) == {Shortened(s, n, F) : F \in SUBSET LastSockets(s, n)}

\* One round: the socket of the handle is closed, or that fails.
LEMMA OneRound ==
  ASSUME NEW s, Sound(s), NEW n \in 1..Len(s.plist), NEW F \in SUBSET LastSockets(s, n - 1)
  PROVE  NextStates(Shortened(s, n - 1, F)) =
           IF SocketOf(s, n) = NoSock THEN {Shortened(s, n, F)}
           ELSE {Shortened(s, n, F), Shortened(s, n, F \cup {SocketOf(s, n)})}
<1> DEFINE m == Len(s.plist) - (n - 1)
           h == HandleOf(s, n)
           f == SocketOf(s, n)
           t == Shortened(s, n - 1, F)
<1>0. h = s.plist[Len(s.plist) - n + 1] /\ f = s.hnd[h].socketfd
  BY DEF HandleOf, SocketOf
<1>1. /\ s \in RegState /\ s.plist \in Seq(Addr) /\ s.hnd \in [Addr -> Handle]
      /\ s.heap \in SUBSET Addr /\ s.sock \in [Fd -> SockState] /\ s.faulty \in SUBSET Fd
      /\ Distinct(s.plist)
  BY DEF Sound, RegState, EntriesMatch
<1>2. m \in Nat \ {0} /\ m <= Len(s.plist) /\ Len(s.plist) - n + 1 = m /\ Len(s.plist) - n = m - 1
  BY <1>1
<1> HIDE DEF m
<1>3. /\ h \in Addr /\ h \notin LastHandles(s, n - 1)
      /\ LastHandles(s, n) = LastHandles(s, n - 1) \cup {h}
      /\ f = NoSock => LastSockets(s, n) = LastSockets(s, n - 1)
      /\ f # NoSock => /\ f \in Fd /\ f \notin LastSockets(s, n - 1)
                       /\ LastSockets(s, n) = LastSockets(s, n - 1) \cup {f}
      /\ LastSockets(s, n - 1) \subseteq Fd
  BY OneMore
<1> HIDE DEF h, f
<1>4. /\ t.plist = [i \in 1..m |-> s.plist[i]]
      /\ t.heap = s.heap \ LastHandles(s, n - 1)
      /\ t.hnd = [a \in Addr |-> IF a \in LastHandles(s, n - 1) THEN Blank ELSE s.hnd[a]]
      /\ t.sock = [g \in Fd |-> IF g \in LastSockets(s, n - 1) \ F THEN "closed" ELSE s.sock[g]]
      /\ t.faulty = (s.faulty \ LastSockets(s, n - 1)) \cup F
  BY DEF Shortened, m
<1> HIDE DEF t
<1>5. t \in RegState
  <2>1. t.plist \in Seq(Addr) /\ Len(t.plist) = m
    BY <1>1, <1>2, <1>4
  <2>2. t.hnd \in [Addr -> Handle] /\ t.sock \in [Fd -> SockState]
    BY <1>1, <1>4, BlankType DEF SockState
  <2>3. t.heap \in SUBSET Addr /\ t.faulty \in SUBSET Fd
    BY <1>1, <1>3, <1>4
  <2> QED BY <2>1, <2>2, <2>3 DEF RegState, Shortened, t
<1>6. Len(t.plist) = m /\ t.plist[m] = h /\ Distinct(t.plist) /\ t.hnd[h].socketfd = f
  <2>1. Len(t.plist) = m /\ \A i \in 1..m : t.plist[i] = s.plist[i]
    BY <1>1, <1>2, <1>4
  <2>2. t.plist[m] = h /\ m \in 1..m
    BY <1>0, <1>2, <2>1
  <2>3. Distinct(t.plist)
    <3> SUFFICES ASSUME NEW i \in 1..m, NEW j \in 1..m, t.plist[i] = t.plist[j]
                 PROVE  i = j
      BY <2>1 DEF Distinct
    <3>1. s.plist[i] = s.plist[j] /\ i \in 1..Len(s.plist) /\ j \in 1..Len(s.plist)
      BY <1>1, <1>2, <2>1
    <3> QED BY <1>1, <3>1 DEF Distinct
  <2>4. t.hnd[h] = s.hnd[h]
    BY <1>3, <1>4
  <2> QED BY <1>0, <2>1, <2>2, <2>3, <2>4
<1>7. Registered(t, h)
  BY <1>2, <1>6 DEF Registered
<1>8. CASE f = NoSock
  <2>1. Dropped(t, h) = Shortened(s, n, F)
    <3>1. Dropped(t, h) =
           [plist |-> [i \in 1..(m - 1) |-> t.plist[i]], heap |-> t.heap \ {h},
            hnd |-> [t.hnd EXCEPT ![h] = Blank], sock |-> t.sock, faulty |-> t.faulty]
      BY <1>2, <1>5, <1>6, DroppedLast
    <3>2. [i \in 1..(m - 1) |-> t.plist[i]] = [i \in 1..(Len(s.plist) - n) |-> s.plist[i]]
      BY <1>2, <1>4
    <3>3. t.heap \ {h} = s.heap \ LastHandles(s, n)
      BY <1>3, <1>4
    <3>4. [t.hnd EXCEPT ![h] = Blank]
            = [a \in Addr |-> IF a \in LastHandles(s, n) THEN Blank ELSE s.hnd[a]]
      BY <1>3, <1>4
    <3>5. /\ t.sock = [g \in Fd |-> IF g \in LastSockets(s, n) \ F THEN "closed" ELSE s.sock[g]]
          /\ t.faulty = (s.faulty \ LastSockets(s, n)) \cup F
      BY <1>3, <1>4, <1>8
    <3> QED BY <3>1, <3>2, <3>3, <3>4, <3>5 DEF Shortened
  <2>2. Disconnect(t, h) = {Outcome(t, "SOCKET_NOT_OPEN")} /\ Outcome(t, "SOCKET_NOT_OPEN").st = t
    BY <1>6, <1>7, <1>8 DEF Disconnect, Outcome
  <2>3. /\ \A o \in Unregister(t, h) : o.st = Dropped(t, h)
        /\ \E o \in Unregister(t, h) : o.st = Dropped(t, h)
    BY <1>7, <2>2, UnregisterStates
  <2>4. {o.st : o \in Unregister(t, h)} = {Shortened(s, n, F)}
    BY <2>1, <2>3
  <2>5. NextStates(t) = {Shortened(s, n, F)}
    BY <1>6, <2>4 DEF NextStates
  <2> QED BY <1>8, <2>5 DEF f, t
<1>9. CASE f # NoSock
  <2> DEFINE u == [t EXCEPT !.faulty = @ \cup {f}]
             v == [t EXCEPT !.sock[f] = "closed", !.faulty = @ \ {f},
                            !.hnd[h].socketfd = NoSock]
  <2>1. /\ \A o \in Unregister(t, h) : o.st \in {Dropped(u, h), Dropped(v, h)}
        /\ \E o \in Unregister(t, h) : o.st = Dropped(u, h)
        /\ \E o \in Unregister(t, h) : o.st = Dropped(v, h)
    <3>1. Disconnect(t, h) = {Outcome(u, "CLOSESOCKET_FAILED"), Outcome(v, "NO_ERROR")}
      BY <1>6, <1>7, <1>9 DEF Disconnect
    <3> HIDE DEF u, v
    <3>2. Outcome(u, "CLOSESOCKET_FAILED").st = u /\ Outcome(v, "NO_ERROR").st = v
      BY DEF Outcome
    <3> QED BY <1>7, <3>1, <3>2, UnregisterStates
  <2>2. /\ u \in RegState /\ u.plist = t.plist /\ u.heap = t.heap /\ u.hnd = t.hnd
        /\ u.sock = t.sock /\ u.faulty = t.faulty \cup {f}
    BY <1>3, <1>5, <1>9 DEF RegState
  <2>3. /\ v \in RegState /\ v.plist = t.plist /\ v.heap = t.heap
        /\ v.hnd \in [Addr -> Handle] /\ \A a \in Addr : a # h => v.hnd[a] = t.hnd[a]
        /\ v.sock = [t.sock EXCEPT ![f] = "closed"] /\ v.faulty = t.faulty \ {f}
    <3>1. /\ v.plist = t.plist /\ v.heap = t.heap
          /\ v.hnd = [t.hnd EXCEPT ![h].socketfd = NoSock]
          /\ v.sock = [t.sock EXCEPT ![f] = "closed"] /\ v.faulty = t.faulty \ {f}
      BY <1>5 DEF RegState
    <3>2. /\ v.hnd \in [Addr -> Handle]
          /\ \A a \in Addr : a # h => v.hnd[a] = t.hnd[a]
      <4>1. t.hnd \in [Addr -> Handle]
        BY <1>5 DEF RegState
      <4> DEFINE g == t.hnd
                 q == v.hnd
      <4>2. g \in [Addr -> Handle] /\ q = [g EXCEPT ![h].socketfd = NoSock] /\ h \in Addr
        BY <1>3, <3>1, <4>1
      <4> HIDE DEF u, v, g, q
      <4>3. q \in [Addr -> Handle] /\ \A a \in Addr : a # h => q[a] = g[a]
        BY <4>2, SetSocketfd
      <4> QED BY <4>3 DEF g, q
    <3>3. v.sock \in [Fd -> SockState]
      BY <1>5, <3>1 DEF RegState, SockState
    <3>4. v \in RegState
      BY <1>5, <3>1, <3>2, <3>3 DEF RegState
    <3> HIDE DEF u, v
    <3> QED BY <3>1, <3>2, <3>4
  <2> HIDE DEF u, v
  <2>4. Dropped(u, h) = Shortened(s, n, F \cup {f})
    <3>1. Dropped(u, h) =
           [plist |-> [i \in 1..(m - 1) |-> u.plist[i]], heap |-> u.heap \ {h},
            hnd |-> [u.hnd EXCEPT ![h] = Blank], sock |-> u.sock, faulty |-> u.faulty]
      BY <1>2, <1>6, <2>2, DroppedLast
    <3>2. [i \in 1..(m - 1) |-> u.plist[i]] = [i \in 1..(Len(s.plist) - n) |-> s.plist[i]]
      BY <1>2, <1>4, <2>2
    <3>3. u.heap \ {h} = s.heap \ LastHandles(s, n)
      BY <1>3, <1>4, <2>2
    <3>4. [u.hnd EXCEPT ![h] = Blank]
            = [a \in Addr |-> IF a \in LastHandles(s, n) THEN Blank ELSE s.hnd[a]]
      BY <1>3, <1>4, <2>2
    <3>5. u.sock = [g \in Fd |-> IF g \in LastSockets(s, n) \ (F \cup {f}) THEN "closed"
                                 ELSE s.sock[g]]
      BY <1>3, <1>4, <1>9, <2>2
    <3>6. u.faulty = (s.faulty \ LastSockets(s, n)) \cup (F \cup {f})
      BY <1>3, <1>4, <1>9, <2>2
    <3> QED BY <3>1, <3>2, <3>3, <3>4, <3>5, <3>6 DEF Shortened
  <2>5. Dropped(v, h) = Shortened(s, n, F)
    <3>1. Dropped(v, h) =
           [plist |-> [i \in 1..(m - 1) |-> v.plist[i]], heap |-> v.heap \ {h},
            hnd |-> [v.hnd EXCEPT ![h] = Blank], sock |-> v.sock, faulty |-> v.faulty]
      <4>1. v \in RegState /\ Len(v.plist) = m /\ v.plist[m] = h /\ Distinct(v.plist)
        BY <1>6, <2>3
      <4> QED BY <1>2, <4>1, DroppedLast
    <3>2. [i \in 1..(m - 1) |-> v.plist[i]] = [i \in 1..(Len(s.plist) - n) |-> s.plist[i]]
      BY <1>2, <1>4, <2>3
    <3>3. v.heap \ {h} = s.heap \ LastHandles(s, n)
      BY <1>3, <1>4, <2>3
    <3>4. [v.hnd EXCEPT ![h] = Blank]
            = [a \in Addr |-> IF a \in LastHandles(s, n) THEN Blank ELSE s.hnd[a]]
      <4>1. \A a \in Addr :
              a # h => v.hnd[a] = IF a \in LastHandles(s, n) THEN Blank ELSE s.hnd[a]
        BY <1>3, <1>4, <2>3
      <4> QED BY <1>3, <2>3, <4>1
    <3>5. v.sock = [g \in Fd |-> IF g \in LastSockets(s, n) \ F THEN "closed" ELSE s.sock[g]]
      BY <1>1, <1>3, <1>4, <1>9, <2>3
    <3>6. v.faulty = (s.faulty \ LastSockets(s, n)) \cup F
      BY <1>3, <1>4, <1>9, <2>3
    <3> QED BY <3>1, <3>2, <3>3, <3>4, <3>5, <3>6 DEF Shortened
  <2>6. {o.st : o \in Unregister(t, h)} = {Shortened(s, n, F), Shortened(s, n, F \cup {f})}
    BY <2>1, <2>4, <2>5
  <2>7. NextStates(t) = {Shortened(s, n, F), Shortened(s, n, F \cup {f})}
    BY <1>6, <2>6 DEF NextStates
  <2> QED BY <1>9, <2>7 DEF f, t
<1> QED BY <1>8, <1>9

\* The states the loop may be in after n rounds.
LEMMA RoundsOfLoop ==
  ASSUME NEW s, Sound(s), NEW n \in 1..Len(s.plist)
  PROVE  Round(Reached(s, n - 1)) = Reached(s, n)
<1> DEFINE f == SocketOf(s, n)
<1>1. /\ f = NoSock => LastSockets(s, n) = LastSockets(s, n - 1)
      /\ f # NoSock => LastSockets(s, n) = LastSockets(s, n - 1) \cup {f}
  BY OneMore
<1> HIDE DEF f
<1>2. ASSUME NEW F \in SUBSET LastSockets(s, n - 1)
      PROVE  /\ f = NoSock => NextStates(Shortened(s, n - 1, F)) = {Shortened(s, n, F)}
             /\ f # NoSock => NextStates(Shortened(s, n - 1, F))
                                = {Shortened(s, n, F), Shortened(s, n, F \cup {f})}
  <2>1. NextStates(Shortened(s, n - 1, F)) =
           IF SocketOf(s, n) = NoSock THEN {Shortened(s, n, F)}
           ELSE {Shortened(s, n, F), Shortened(s, n, F \cup {SocketOf(s, n)})}
    BY OneRound
  <2> QED BY <2>1 DEF f
<1>3. ASSUME NEW F \in SUBSET LastSockets(s, n - 1), NEW x \in NextStates(Shortened(s, n - 1, F))
      PROVE  \E G \in SUBSET LastSockets(s, n) : x = Shortened(s, n, G)
  <2>1. CASE f = NoSock
    BY <1>1, <1>2, <1>3, <2>1
  <2>2. CASE f # NoSock
    <3>1. F \in SUBSET LastSockets(s, n) /\ F \cup {f} \in SUBSET LastSockets(s, n)
      BY <1>1, <2>2
    <3>2. x = Shortened(s, n, F) \/ x = Shortened(s, n, F \cup {f})
      BY <1>2, <1>3, <2>2
    <3> QED BY <3>1, <3>2
  <2> QED BY <2>1, <2>2
<1>4. ASSUME NEW G \in SUBSET LastSockets(s, n)
      PROVE  \E F \in SUBSET LastSockets(s, n - 1) : Shortened(s, n, G) \in NextStates(Shortened(s, n - 1, F))
  <2>1. CASE f = NoSock
    BY <1>1, <1>2, <2>1
  <2>2. CASE f # NoSock
    <3>1. G \ {f} \in SUBSET LastSockets(s, n - 1) /\ (G = G \ {f} \/ G = (G \ {f}) \cup {f})
      BY <1>1, <2>2
    <3> DEFINE F == G \ {f}
    <3>2. NextStates(Shortened(s, n - 1, F)) = {Shortened(s, n, F), Shortened(s, n, F \cup {f})}
      BY <1>2, <2>2, <3>1
    <3>3. Shortened(s, n, G) \in NextStates(Shortened(s, n - 1, F))
      BY <3>1, <3>2
    <3> QED BY <3>1, <3>3
  <2> QED BY <2>1, <2>2
<1> QED BY <1>3, <1>4 DEF Round, Reached

\* The loop ends in the states that the one step names.
LEMMA LoopEmpties ==
  ASSUME NEW s, Sound(s)
  PROVE  UnregisteredAll(s) = {Emptied(s, F) : F \in SUBSET OwnedSockets(s)}
<1> DEFINE L == Len(s.plist)
           IsLoop(g) == g = [n \in 0..L |->
                               IF n = 0 THEN {s}
                               ELSE Round(g[n - 1])]
           after == CHOOSE g : IsLoop(g)
           states == [n \in 0..L |-> Reached(s, n)]
<1>1. /\ s \in RegState /\ s.plist \in Seq(Addr) /\ L \in Nat /\ s.hnd \in [Addr -> Handle]
      /\ s.heap = {s.plist[i] : i \in 1..L}
      /\ s.sock \in [Fd -> SockState]
  BY DEF Sound, RegState, EntriesMatch
<1>2. Reached(s, 0) = {s}
  <2>1. LastHandles(s, 0) = {} /\ LastSockets(s, 0) = {}
    <3>1. (L - 0 + 1)..L = {}
      BY <1>1
    <3> QED BY <3>1 DEF LastHandles, LastSockets
  <2>2. Shortened(s, 0, {}) = s
    <3>1. [i \in 1..(L - 0) |-> s.plist[i]] = s.plist
      BY <1>1
    <3> QED BY <1>1, <2>1, <3>1 DEF Shortened, RegState
  <2> QED BY <2>1, <2>2 DEF Reached
<1>3. IsLoop(states)
  <2>1. ASSUME NEW n \in 1..L
        PROVE  states[n] = Round(states[n - 1])
    <3>1. states[n] = Reached(s, n) /\ states[n - 1] = Reached(s, n - 1)
      BY <1>1
    <3> QED BY <3>1, RoundsOfLoop
  <2>2. states[0] = {s}
    BY <1>1, <1>2
  <2> HIDE DEF L
  <2>3. \A n \in 0..L : n # 0 => n \in 1..L
    BY <1>1
  <2> QED BY <2>1, <2>2, <2>3
<1>4. IsLoop(after)
  <2> HIDE DEF IsLoop
  <2> QED BY <1>3
<1>5. UnregisteredAll(s) = after[L]
  BY DEF UnregisteredAll, Round, NextStates
<1> HIDE DEF after, states
<1>6. \A n \in 0..L : after[n] = states[n]
  <2> DEFINE S == {n \in 0..L : after[n] = states[n]}
  <2>1. 0 \in S
    BY <1>1, <1>3, <1>4
  <2>2. ASSUME NEW n \in 1..L, n - 1 \in S PROVE n \in S
    <3>1. n \in 0..L /\ n # 0
      BY <1>1
    <3> QED BY <1>3, <1>4, <2>2, <3>1
  <2> HIDE DEF S
  <2>3. 0..L \subseteq S
    BY <1>1, <2>1, <2>2, Reaches
  <2> QED BY <2>3 DEF S
<1>7. LastHandles(s, L) = s.heap /\ LastSockets(s, L) = OwnedSockets(s)
  <2>1. (L - L + 1)..L = 1..L
    BY <1>1
  <2>2. LastHandles(s, L) = {s.plist[i] : i \in 1..L}
    BY <2>1 DEF LastHandles
  <2> QED BY <1>1, <2>2 DEF LastSockets, OwnedSockets
<1>8. ASSUME NEW F PROVE Shortened(s, L, F) = Emptied(s, F)
  <2>1. [i \in 1..(L - L) |-> s.plist[i]] = << >>
    BY <1>1
  <2>2. \A a \in Addr : Registered(s, a) <=> a \in s.heap
    BY <1>1 DEF Registered
  <2>3. /\ [a \in Addr |-> IF a \in s.heap THEN Blank ELSE s.hnd[a]]
             = [h \in Addr |-> IF Registered(s, h) THEN Blank ELSE s.hnd[h]]
        /\ s.heap \ s.heap = s.heap \ {s.plist[i] : i \in 1..L}
    BY <1>1, <2>2
  <2> DEFINE t == Emptied(s, F)
  <2>4. t = Emptied(s, F)
    OBVIOUS
  <2> HIDE DEF t
  <2>5. /\ t.plist = << >>
        /\ t.heap = s.heap \ {s.plist[i] : i \in 1..L}
        /\ t.hnd = [h \in Addr |-> IF Registered(s, h) THEN Blank ELSE s.hnd[h]]
        /\ t.sock = [f \in Fd |-> IF f \in OwnedSockets(s) \ F THEN "closed" ELSE s.sock[f]]
        /\ t.faulty = (s.faulty \ OwnedSockets(s)) \cup F
        /\ t = [plist |-> t.plist, heap |-> t.heap, hnd |-> t.hnd, sock |-> t.sock,
                faulty |-> t.faulty]
    BY <1>1, <2>4, EmptiedRecord
  <2>6. t = Shortened(s, L, F)
    BY <1>7, <2>1, <2>3, <2>5 DEF Shortened
  <2> QED BY <2>6 DEF t
<1>9. states[L] = {Emptied(s, F) : F \in SUBSET OwnedSockets(s)}
  <2>1. states[L] = Reached(s, L)
    BY <1>1 DEF states
  <2> QED BY <1>7, <1>8, <2>1 DEF Reached
<1> QED BY <1>1, <1>5, <1>6, <1>9

-----------------------------------------------------------------------------
(* GetHandle *)

\* GetHandle returns a handle that matches, or NoHandle if there is none.
LEMMA GetHandleFinds ==
  ASSUME NEW s, Sound(s), NEW ip, NEW port
  PROVE  \/ /\ GetHandle(s, ip, port) \in s.heap
            /\ Matches(s, GetHandle(s, ip, port), ip, port)
         \/ /\ GetHandle(s, ip, port) = NoHandle
            /\ \A a \in s.heap : ~Matches(s, a, ip, port)
<1> DEFINE hits == {i \in 1..Len(s.plist) : Matches(s, s.plist[i], ip, port)}
<1>1. CASE hits = {}
  <2>1. \A a \in s.heap : ~Matches(s, a, ip, port)
    BY <1>1 DEF Sound, EntriesMatch
  <2> QED BY <1>1, <2>1 DEF GetHandle
<1>2. CASE hits # {}
  <2>1. PICK m \in hits : \A k \in hits : m <= k
    <3>1. hits \subseteq Nat
      BY DEF Sound, RegState
    <3> HIDE DEF hits
    <3> QED BY <1>2, <3>1, LeastIndex
  <2> DEFINE first == CHOOSE i \in hits : \A j \in hits : i <= j
  <2>2. first \in hits
    BY <2>1
  <2>3. GetHandle(s, ip, port) = s.plist[first]
    BY <1>2 DEF GetHandle
  <2> HIDE DEF first
  <2> QED BY <2>2, <2>3 DEF Sound, EntriesMatch
<1> QED BY <1>1, <1>2

-----------------------------------------------------------------------------
(* The inductive invariant *)

\* The conjuncts hold of the state between calls; Sound alone holds inside
\* them.
IInv ==
  /\ initialized \in BOOLEAN
  /\ winsock \in Nat
  /\ alive \in BOOLEAN
  /\ Sound(Current)
  /\ AllResolved(Current)
  /\ initialized \/ heap = {}
  /\ WinsockUp

LEMMA BecomesCurrent ==
  ASSUME NEW s, s \in RegState, Becomes(s)
  PROVE  Current' = s
BY DEF Becomes, Current, RegState

\* A call that leaves initialized, winsock and alive alone keeps the invariant
\* if its outcome is sound and resolved.
LEMMA OutcomeKeepsIInv ==
  ASSUME IInv, NEW s, Sound(s), AllResolved(s), initialized \/ s.heap = {}, Becomes(s),
         UNCHANGED <<initialized, winsock, alive>>
  PROVE  IInv'
<1>1. Current' = s /\ heap' = s.heap
  BY BecomesCurrent DEF Sound, Becomes
<1>2. Sound(Current)' /\ AllResolved(Current)'
  BY <1>1 DEF Sound, AllResolved, EntriesMatch, OwnedAreOpen, OpenAreOwned
<1> QED BY <1>1, <1>2 DEF IInv, WinsockUp

\* The same analyzers as before, less some: every handle is resolved still, and
\* alone for its sockaddr if it was.
LEMMA FewerHandles ==
  ASSUME NEW s, NEW t, t.heap \subseteq s.heap, SameAnalyzers(s, t, t.heap)
  PROVE  /\ AllResolved(s) => AllResolved(t)
         /\ AllUnique(s) => AllUnique(t)
BY DEF SameAnalyzers, AllResolved, AllUnique, SameSockaddr

\* A registration adds one handle, resolved and, for a port number, alone for
\* its sockaddr.
LEMMA OneMoreHandle ==
  ASSUME NEW s, NEW a \in Addr \ s.heap, NEW ip, NEW port, NEW t,
         Enrolling(s, t, a, ip, port), t.hnd[a].servinfo, AllResolved(s)
  PROVE  /\ AllResolved(t)
         /\ AllUnique(s) /\ (\A x \in s.heap : ~SameSockaddr(s.hnd[x], t.hnd[a]))
              => AllUnique(t)
<1>1. t.heap = s.heap \cup {a} /\ SameAnalyzers(s, t, s.heap)
  BY DEF Enrolling
<1> QED BY <1>1 DEF SameAnalyzers, AllResolved, AllUnique, SameSockaddr

LEMMA InitIInv == Init => IInv
<1> SUFFICES ASSUME Init PROVE IInv
  OBVIOUS
<1>1. /\ Current = [plist |-> << >>, heap |-> {}, hnd |-> [a \in Addr |-> Blank],
                    sock |-> [f \in Fd |-> "closed"], faulty |-> {}]
  BY DEF Init, Current
<1>2. Current \in RegState
  BY <1>1, BlankType DEF RegState, SockState
<1>3. EntriesMatch(Current) /\ OwnedAreOpen(Current) /\ OpenAreOwned(Current)
  BY <1>1 DEF EntriesMatch, Distinct, OwnedAreOpen, OpenAreOwned
<1> QED BY <1>1, <1>2, <1>3 DEF Init, IInv, Sound, AllResolved, WinsockUp

LEMMA RegisterKeeps ==
  ASSUME IInv, NEW a \in Addr, NEW ip \in Ip, NEW port \in Port, NEW flags,
         RegisterBlock(a, ip, port, flags)
  PROVE  /\ IInv'
         /\ AllUnique(Current) /\ port \in PortNo => AllUnique(Current)'
<1> DEFINE s == Current
<1>1. PICK o \in Enrolled(s, a, ip, port, flags) : Becomes(o.st)
  BY DEF RegisterBlock
<1>2. /\ Sound(s) /\ AllResolved(s) /\ initialized
      /\ s.heap = heap /\ a \in Addr \ s.heap
      /\ UNCHANGED <<initialized, winsock, alive>>
  BY DEF IInv, RegisterBlock, Current
<1> HIDE DEF s
<1>3. \/ TakenBack(s, o.st)
      \/ /\ Enrolling(s, o.st, a, ip, port)
         /\ o.st.hnd[a].servinfo
         /\ \/ port \notin PortNo
            \/ \A x \in s.heap : ~SameSockaddr(s.hnd[x], o.st.hnd[a])
  BY <1>1, <1>2, EnrolledSound
<1>4. CASE TakenBack(s, o.st)
  <2>1. Sound(o.st) /\ o.st.heap \subseteq s.heap /\ SameAnalyzers(s, o.st, o.st.heap)
    BY <1>4 DEF TakenBack
  <2>2. AllResolved(o.st) /\ (AllUnique(s) => AllUnique(o.st))
    BY <1>2, <2>1, FewerHandles
  <2>3. IInv' /\ Current' = o.st
    BY <1>1, <1>2, <2>1, <2>2, OutcomeKeepsIInv, BecomesCurrent DEF Sound
  <2> QED BY <2>2, <2>3 DEF s, AllUnique
<1>5. CASE Enrolling(s, o.st, a, ip, port) /\ o.st.hnd[a].servinfo
           /\ (port \in PortNo => \A x \in s.heap : ~SameSockaddr(s.hnd[x], o.st.hnd[a]))
  <2>1. Sound(o.st)
    BY <1>5 DEF Enrolling
  <2>2. AllResolved(o.st)
    BY <1>2, <1>5, OneMoreHandle
  <2>3. AllUnique(s) /\ port \in PortNo => AllUnique(o.st)
    BY <1>2, <1>5, OneMoreHandle
  <2>4. IInv' /\ Current' = o.st
    BY <1>1, <1>2, <2>1, <2>2, OutcomeKeepsIInv, BecomesCurrent DEF Sound
  <2> QED BY <2>3, <2>4 DEF s, AllUnique
<1> QED BY <1>3, <1>4, <1>5

\* Connect, Disconnect and Unregister add no handle.
LEMMA HandleCallKeeps ==
  ASSUME IInv, NEW t, Becomes(t), UNCHANGED <<initialized, winsock, alive>>,
         Sound(t), t.heap \subseteq heap, SameAnalyzers(Current, t, t.heap)
  PROVE  IInv' /\ (AllUnique(Current) => AllUnique(Current)')
<1>1. Current.heap = heap /\ AllResolved(Current) /\ (initialized \/ t.heap = {})
  BY DEF IInv, Current
<1>2. AllResolved(t) /\ (AllUnique(Current) => AllUnique(t))
  BY <1>1, FewerHandles
<1>3. IInv' /\ Current' = t
  BY <1>1, <1>2, OutcomeKeepsIInv, BecomesCurrent DEF Sound
<1> QED BY <1>2, <1>3 DEF AllUnique

LEMMA ConnectKeeps ==
  ASSUME IInv, NEW h \in Addr, AVCOM_SA_Connect(h)
  PROVE  IInv' /\ (AllUnique(Current) => AllUnique(Current)')
<1>1. PICK o \in Connect(Current, h) : Becomes(o.st)
  BY DEF AVCOM_SA_Connect
<1>2. Sound(o.st) /\ SameHandles(Current, o.st)
  BY <1>1, ConnectSound DEF IInv
<1>3. o.st.heap \subseteq heap /\ SameAnalyzers(Current, o.st, o.st.heap)
  BY <1>2 DEF SameHandles, SameAnalyzers, Sound, RegState, Current
<1> QED BY <1>1, <1>2, <1>3, HandleCallKeeps DEF AVCOM_SA_Connect

LEMMA DisconnectKeeps ==
  ASSUME IInv, NEW h \in Addr, AVCOM_SA_Disconnect(h)
  PROVE  IInv' /\ (AllUnique(Current) => AllUnique(Current)')
<1>1. PICK o \in Disconnect(Current, h) : Becomes(o.st)
  BY DEF AVCOM_SA_Disconnect
<1>2. Sound(o.st) /\ SameHandles(Current, o.st)
  BY <1>1, DisconnectSound DEF IInv
<1>3. o.st.heap \subseteq heap /\ SameAnalyzers(Current, o.st, o.st.heap)
  BY <1>2 DEF SameHandles, SameAnalyzers, Sound, RegState, Current
<1> QED BY <1>1, <1>2, <1>3, HandleCallKeeps DEF AVCOM_SA_Disconnect

LEMMA UnregisterKeeps ==
  ASSUME IInv, NEW h \in Addr, AVCOM_SA_Unregister(h)
  PROVE  IInv' /\ (AllUnique(Current) => AllUnique(Current)')
<1>1. PICK o \in Unregister(Current, h) : Becomes(o.st)
  BY DEF AVCOM_SA_Unregister
<1>2. /\ Sound(o.st)
      /\ o.st.heap = Current.heap \ {h}
      /\ SameAnalyzers(Current, o.st, Addr \ {h})
  BY <1>1, UnregisterSound DEF IInv
<1>3. o.st.heap \subseteq heap /\ SameAnalyzers(Current, o.st, o.st.heap)
  BY <1>2 DEF SameAnalyzers, Sound, RegState, Current
<1> QED BY <1>1, <1>2, <1>3, HandleCallKeeps DEF AVCOM_SA_Unregister

\* Deinitialize, whatever it returns, and whichever closesocket fails in it.
LEMMA DeinitializeKeeps ==
  ASSUME IInv, AVCOM_SA_Deinitialize
  PROVE  IInv' /\ (AllUnique(Current) => AllUnique(Current)')
<1>1. CASE ~initialized
  <2>1. UNCHANGED <<initialized, registry, winsock, alive>>
    BY <1>1 DEF AVCOM_SA_Deinitialize
  <2>2. Current' = Current
    BY <2>1 DEF Current, registry
  <2> QED BY <2>1, <2>2 DEF IInv, Sound, AllResolved, AllUnique, WinsockUp, EntriesMatch,
                            OwnedAreOpen, OpenAreOwned, registry
<1>2. CASE initialized
  <2>1. PICK F \in SUBSET OwnedSockets(Current) : Becomes(Emptied(Current, F))
    BY <1>2 DEF AVCOM_SA_Deinitialize
  <2> DEFINE t == Emptied(Current, F)
  <2>2. Sound(t) /\ t.heap = {}
    BY EmptiedSound DEF IInv
  <2>3. Becomes(t)
    BY <2>1
  <2> HIDE DEF t
  <2>4. Current' = t /\ heap' = {}
    BY <2>2, <2>3, BecomesCurrent DEF Sound, Becomes
  <2>5. Sound(Current)' /\ AllResolved(Current)' /\ AllUnique(Current)'
    BY <2>2, <2>4 DEF Sound, AllResolved, AllUnique, EntriesMatch, OwnedAreOpen, OpenAreOwned
  <2>6. /\ initialized' = FALSE
        /\ alive' = alive
        /\ winsock' \in {winsock, winsock - 1}
        /\ winsock > 0
    BY <1>2 DEF AVCOM_SA_Deinitialize, IInv, WinsockUp
  <2>7. winsock' \in Nat /\ alive' \in BOOLEAN
    BY <2>6 DEF IInv
  <2>8. IInv'
    BY <2>4, <2>5, <2>6, <2>7 DEF IInv, WinsockUp
  <2> QED BY <2>5, <2>8
<1> QED BY <1>1, <1>2

\* Calls that leave the registry alone.
LEMMA RegistryUnchanged ==
  ASSUME IInv, UNCHANGED registry,
         \/ UNCHANGED <<initialized, winsock>> /\ alive' \in BOOLEAN
         \/ initialized' \in BOOLEAN /\ winsock' = winsock + 1 /\ alive' = alive
              /\ (initialized => initialized')
  PROVE  IInv' /\ (AllUnique(Current) => AllUnique(Current)')
<1>1. Current' = Current
  BY DEF Current, registry
<1>2. /\ Sound(Current)' /\ AllResolved(Current)'
      /\ AllUnique(Current) => AllUnique(Current)'
  BY <1>1 DEF IInv, Sound, AllResolved, AllUnique, EntriesMatch, OwnedAreOpen, OpenAreOwned
<1>3. heap' = heap
  BY DEF registry
<1> QED BY <1>1, <1>2, <1>3 DEF IInv, WinsockUp

LEMMA NextKeeps ==
  ASSUME IInv, [Next]_vars
  PROVE  IInv' /\ (Port \subseteq PortNo /\ AllUnique(Current) => AllUnique(Current)')
<1>1. CASE AVCOM_SA_Initialize
  <2>1. /\ UNCHANGED registry
        /\ \/ UNCHANGED <<initialized, winsock>> /\ alive' \in BOOLEAN
           \/ initialized' \in BOOLEAN /\ winsock' = winsock + 1 /\ alive' = alive
                /\ (initialized => initialized')
    BY <1>1 DEF AVCOM_SA_Initialize, IInv
  <2> QED BY <2>1, RegistryUnchanged
<1>2. CASE AVCOM_SA_Deinitialize
  BY <1>2, DeinitializeKeeps
<1>3. ASSUME NEW ip \in Ip, NEW port \in Port, NEW flags, AVCOM_SA_Register(ip, port, flags)
      PROVE  IInv' /\ (Port \subseteq PortNo /\ AllUnique(Current) => AllUnique(Current)')
  <2>1. CASE RegisterWithoutBlock(ip, port)
    <3>1. UNCHANGED registry /\ UNCHANGED <<initialized, winsock>> /\ alive' \in BOOLEAN
      BY <2>1 DEF RegisterWithoutBlock, IInv
    <3> QED BY <3>1, RegistryUnchanged
  <2>2. ASSUME NEW a \in Addr, RegisterBlock(a, ip, port, flags)
        PROVE  IInv' /\ (Port \subseteq PortNo /\ AllUnique(Current) => AllUnique(Current)')
    BY <2>2, RegisterKeeps
  <2>3. ASSUME NEW a \in Addr, RegisterReallocFails(a)
        PROVE  IInv' /\ (AllUnique(Current) => AllUnique(Current)')
    <3>1. UNCHANGED registry /\ UNCHANGED <<initialized, winsock>> /\ alive' \in BOOLEAN
      BY <2>3 DEF RegisterReallocFails, registry
    <3> QED BY <3>1, RegistryUnchanged
  <2> QED BY <1>3, <2>1, <2>2, <2>3 DEF AVCOM_SA_Register
<1>4. ASSUME NEW ip \in Ip, NEW port \in Port, AVCOM_SA_GetHandle(ip, port)
      PROVE  IInv' /\ (AllUnique(Current) => AllUnique(Current)')
  <2>1. UNCHANGED registry /\ UNCHANGED <<initialized, winsock>> /\ alive' \in BOOLEAN
    BY <1>4 DEF AVCOM_SA_GetHandle, IInv
  <2> QED BY <2>1, RegistryUnchanged
<1>5. CASE \E h \in Addr : AVCOM_SA_Connect(h)
  BY <1>5, ConnectKeeps
<1>6. CASE \E h \in Addr : AVCOM_SA_Disconnect(h)
  BY <1>6, DisconnectKeeps
<1>7. CASE \E h \in Addr : AVCOM_SA_Unregister(h)
  BY <1>7, UnregisterKeeps
<1>8. CASE UNCHANGED vars
  <2>1. UNCHANGED registry /\ UNCHANGED <<initialized, winsock>> /\ alive' \in BOOLEAN
    BY <1>8 DEF vars, registry, IInv
  <2> QED BY <2>1, RegistryUnchanged
<1> QED BY <1>1, <1>2, <1>3, <1>4, <1>5, <1>6, <1>7, <1>8 DEF Next, Dead

-----------------------------------------------------------------------------
(* What a Register that fails leaves *)

\* Handle h owns a connected socket in s.
Connected(s, h) ==
  /\ h \in s.heap
  /\ s.hnd[h].socketfd # NoSock
  /\ s.sock[s.hnd[h].socketfd] = "connected"

LEMMA ConnectSucceeds ==
  ASSUME NEW s, s \in RegState, NEW h \in Addr, h \in s.heap,
         NEW c \in Connect(s, h), c.res = "NO_ERROR"
  PROVE  Connected(c.st, h)
<1>1. PICK f \in Fd : c.st = [Opened(s, h, f) EXCEPT !.sock[f] = "connected"]
  BY DEF Connect, Outcome
<1>2. s.hnd \in [Addr -> Handle] /\ s.sock \in [Fd -> SockState]
  BY DEF RegState
<1>3. c.st.heap = s.heap /\ c.st.hnd[h].socketfd = f /\ c.st.sock[f] = "connected"
  BY <1>1, <1>2 DEF Opened, RegState, Handle
<1> QED BY <1>3, NoSockFacts DEF Connected

\* A state t of a Register of block a, called in s: a is the last of plist, the
\* other handles are untouched, and so are the sockets, but for the faulty ones
\* and the one of a, which was closed.
Beside(s, t, a) ==
  /\ t \in RegState
  /\ t.plist = Append(s.plist, a)
  /\ \A x \in Addr : x # a => t.hnd[x] = s.hnd[x]
  /\ t.hnd[a].socketfd # NoSock => s.sock[t.hnd[a].socketfd] = "closed"
  /\ \A f \in Fd : t.sock[f] # s.sock[f] => f = t.hnd[a].socketfd \/ f \in t.faulty

\* All is as before, but for faulty sockets.
Undone(s, t) ==
  /\ t.plist = s.plist
  /\ t.heap = s.heap
  /\ t.hnd = s.hnd
  /\ \A f \in Fd : t.sock[f] # s.sock[f] => f \in t.faulty

\* A block that is not allocated is blank: free() leaves it so, and only a
\* Register that has allocated it writes to it.
Blanks(s) == \A a \in Addr \ s.heap : s.hnd[a] = Blank

LEMMA OpenedState ==
  ASSUME NEW t, t \in RegState, NEW a \in Addr, NEW f \in Fd, NEW u, u = Opened(t, a, f)
  PROVE  /\ u \in RegState
         /\ u.plist = t.plist /\ u.heap = t.heap /\ u.faulty = t.faulty
         /\ u.hnd[a].socketfd = f
         /\ \A x \in Addr : x # a => u.hnd[x] = t.hnd[x]
         /\ u.sock = [t.sock EXCEPT ![f] = "open"]
<1>1. t.hnd \in [Addr -> Handle] /\ t.sock \in [Fd -> SockState]
  BY DEF RegState
<1>2. /\ u.plist = t.plist /\ u.heap = t.heap /\ u.faulty = t.faulty
      /\ u.hnd = [t.hnd EXCEPT ![a].socketfd = f]
      /\ u.sock = [t.sock EXCEPT ![f] = "open"]
  BY DEF Opened, RegState
<1>3. t.hnd \in [Addr -> Handle] /\ u.hnd = [t.hnd EXCEPT ![a].socketfd = f]
  BY <1>1, <1>2
<1>4. u.hnd \in [Addr -> Handle] /\ u.hnd[a].socketfd = f
  BY <1>3, SetSocketfd
<1>5. \A x \in Addr : x # a => u.hnd[x] = t.hnd[x]
  BY <1>1, <1>2
<1>6. u \in RegState
  BY <1>1, <1>2, <1>4 DEF Opened, RegState, SockState
<1> QED BY <1>2, <1>4, <1>5, <1>6

\* Disconnect writes to the handle it is given only.
LEMMA DisconnectOthers ==
  ASSUME NEW s, s \in RegState, NEW h \in Addr, NEW d \in Disconnect(s, h)
  PROVE  \A x \in Addr : x # h => d.st.hnd[x] = s.hnd[x]
<1>1. s.hnd \in [Addr -> Handle]
  BY DEF RegState
<1>2. d.st.hnd = s.hnd \/ d.st.hnd = [s.hnd EXCEPT ![h].socketfd = NoSock]
  <2> DEFINE f == s.hnd[h].socketfd
  <2>1. CASE d.st = s
    BY <2>1
  <2>2. CASE d = Outcome([s EXCEPT !.faulty = @ \cup {f}], "CLOSESOCKET_FAILED")
    BY <2>2 DEF Outcome, RegState
  <2>3. CASE d = Outcome([s EXCEPT !.sock[f] = "closed", !.faulty = @ \ {f},
                                   !.hnd[h].socketfd = NoSock], "NO_ERROR")
    BY <2>3 DEF Outcome, RegState
  <2>4. d.st = s \/ d \in {Outcome([s EXCEPT !.faulty = @ \cup {f}], "CLOSESOCKET_FAILED"),
                             Outcome([s EXCEPT !.sock[f] = "closed", !.faulty = @ \ {f},
                                               !.hnd[h].socketfd = NoSock], "NO_ERROR")}
    <3>1. \A r : Outcome(s, r).st = s
      BY DEF Outcome
    <3> QED BY <3>1 DEF Disconnect
  <2> QED BY <2>1, <2>2, <2>3, <2>4
<1> QED BY <1>1, <1>2

LEMMA LastRegistered ==
  ASSUME NEW s, s \in RegState, NEW a \in Addr, NEW t, Beside(s, t, a)
  PROVE  Registered(t, a)
<1>1. s.plist \in Seq(Addr) /\ t.plist = Append(s.plist, a)
  BY DEF RegState, Beside
<1>2. Len(t.plist) = Len(s.plist) + 1 /\ t.plist[Len(s.plist) + 1] = a /\ Len(s.plist) \in Nat
  BY <1>1
<1>3. Len(s.plist) + 1 \in 1..Len(t.plist)
  BY <1>2
<1> QED BY <1>2, <1>3 DEF Registered

LEMMA DisconnectBeside ==
  ASSUME NEW s, s \in RegState, NEW a \in Addr, NEW t, Beside(s, t, a), NEW o \in Disconnect(t, a)
  PROVE  /\ Beside(s, o.st, a)
         /\ o.st.hnd[a].socketfd = NoSock \/ o.st.hnd[a].socketfd \in o.st.faulty
<1> DEFINE f == t.hnd[a].socketfd
<1>1. Registered(t, a)
  BY LastRegistered
<1>2. t \in RegState /\ t.hnd \in [Addr -> Handle] /\ t.sock \in [Fd -> SockState]
  BY DEF Beside, RegState
<1>3. CASE f = NoSock
  BY <1>1, <1>3 DEF Disconnect, Outcome
<1>4. CASE f # NoSock
  <2>1. f \in Fd /\ s.sock[f] = "closed"
    BY <1>2, <1>4 DEF Handle, Beside
  <2>2. CASE o = Outcome([t EXCEPT !.faulty = @ \cup {f}], "CLOSESOCKET_FAILED")
    <3>1. /\ o.st \in RegState /\ o.st.plist = t.plist /\ o.st.hnd = t.hnd
          /\ o.st.sock = t.sock /\ o.st.faulty = t.faulty \cup {f}
      BY <1>2, <2>1, <2>2 DEF Outcome, RegState
    <3> QED BY <3>1 DEF Beside
  <2>3. CASE o = Outcome([t EXCEPT !.sock[f] = "closed", !.faulty = @ \ {f},
                                   !.hnd[a].socketfd = NoSock], "NO_ERROR")
    <3>1. /\ o.st.plist = t.plist /\ o.st.heap = t.heap
          /\ o.st.hnd = [t.hnd EXCEPT ![a].socketfd = NoSock]
          /\ o.st.sock = [t.sock EXCEPT ![f] = "closed"] /\ o.st.faulty = t.faulty \ {f}
      BY <1>2, <2>3 DEF Outcome, RegState
    <3>2. o.st.hnd \in [Addr -> Handle] /\ o.st.hnd[a].socketfd = NoSock
      <4>1. t.hnd \in [Addr -> Handle] /\ o.st.hnd = [t.hnd EXCEPT ![a].socketfd = NoSock]
        BY <1>2, <3>1
      <4> QED BY <4>1, SetSocketfd
    <3>3. \A x \in Addr : x # a => o.st.hnd[x] = t.hnd[x]
      BY DisconnectOthers DEF Beside
    <3>4. o.st \in RegState
      BY <1>2, <2>1, <2>3, <3>1, <3>2 DEF Outcome, RegState, SockState
    <3>5. \A g \in Fd : o.st.sock[g] # s.sock[g] => g \in o.st.faulty
      BY <1>2, <2>1, <3>1 DEF Beside
    <3> QED BY <3>1, <3>2, <3>4, <3>5, <3>3 DEF Beside
  <2> QED BY <1>1, <1>4, <2>2, <2>3 DEF Disconnect
<1> QED BY <1>3, <1>4

\* Connect opens a socket that was closed, and may close it again.
LEMMA ConnectBeside ==
  ASSUME NEW s, s \in RegState, NEW a \in Addr, NEW t, Beside(s, t, a), t.sock = s.sock,
         NEW c \in Connect(t, a)
  PROVE  Beside(s, c.st, a)
<1>1. t \in RegState /\ t.hnd \in [Addr -> Handle] /\ t.sock \in [Fd -> SockState]
  BY DEF Beside, RegState
<1>2. CASE c.st = t
  BY <1>2
<1>3. CASE c.st # t
  <2>1. PICK f \in {g \in Fd : t.sock[g] = "closed"} :
          c \in {Outcome([Opened(t, a, f) EXCEPT !.faulty = @ \cup {f}], "SETSOCKETOPT_FAILED"),
                 Outcome([Opened(t, a, f) EXCEPT !.sock[f] = "connected"], "NO_ERROR")}
               \cup {Outcome(d.st, "CONNECT_FAILED") : d \in Disconnect(Opened(t, a, f), a)}
    BY <1>3 DEF Connect, Outcome
  <2> DEFINE u == Opened(t, a, f)
  <2>2. /\ u \in RegState
        /\ u.plist = t.plist /\ u.heap = t.heap /\ u.faulty = t.faulty
        /\ u.hnd[a].socketfd = f
        /\ \A x \in Addr : x # a => u.hnd[x] = t.hnd[x]
        /\ u.sock = [t.sock EXCEPT ![f] = "open"]
    BY <1>1, <2>1, OpenedState
  <2>3. Beside(s, u, a)
    BY <1>1, <2>1, <2>2 DEF Beside
  <2> HIDE DEF u
  <2>4. CASE c = Outcome([u EXCEPT !.faulty = @ \cup {f}], "SETSOCKETOPT_FAILED")
    <3>1. /\ c.st \in RegState /\ c.st.plist = u.plist /\ c.st.hnd = u.hnd
          /\ c.st.sock = u.sock /\ c.st.faulty = u.faulty \cup {f}
      BY <2>1, <2>2, <2>4 DEF Outcome, RegState
    <3> QED BY <2>3, <3>1 DEF Beside
  <2>5. CASE c = Outcome([u EXCEPT !.sock[f] = "connected"], "NO_ERROR")
    <3>1. /\ c.st \in RegState /\ c.st.plist = u.plist /\ c.st.hnd = u.hnd
          /\ c.st.sock = [u.sock EXCEPT ![f] = "connected"] /\ c.st.faulty = u.faulty
      BY <2>1, <2>2, <2>5 DEF Outcome, RegState, SockState
    <3>2. u.sock \in [Fd -> SockState]
      BY <2>2 DEF RegState
    <3> QED BY <2>1, <2>2, <2>3, <3>1, <3>2 DEF Beside
  <2>6. ASSUME NEW d \in Disconnect(u, a), c = Outcome(d.st, "CONNECT_FAILED")
        PROVE  Beside(s, c.st, a)
    BY <2>3, <2>6, DisconnectBeside DEF Outcome
  <2> QED BY <2>1, <2>4, <2>5, <2>6 DEF u
<1> QED BY <1>2, <1>3

\* Unregister of the last entry leaves the others where they were.
LEMMA ShiftedLast ==
  ASSUME NEW l \in Seq(Addr), NEW a \in Addr, \A i \in 1..Len(l) : l[i] # a
  PROVE  Shifted(Append(l, a), FirstIndex(Append(l, a), a)) = l
<1> DEFINE m == Append(l, a)
           n == Len(l)
<1>1. /\ n \in Nat /\ Len(m) = n + 1 /\ m[n + 1] = a
      /\ \A i \in 1..n : m[i] = l[i]
  OBVIOUS
<1>2. l = [i \in 1..n |-> l[i]]
  OBVIOUS
<1> HIDE DEF m, n
<1>3. FirstIndex(m, a) = n + 1
  <2>1. n + 1 \in 1..Len(m) /\ m[n + 1] = a /\ \A j \in 1..((n + 1) - 1) : m[j] # a
    BY <1>1 DEF n
  <2>2. \A k \in 1..Len(m) : m[k] = a => k = n + 1
    BY <1>1 DEF n
  <2> QED BY <2>1, <2>2 DEF FirstIndex
<1>4. Shifted(m, n + 1) = [i \in 1..n |-> IF i < n + 1 THEN m[i] ELSE m[i + 1]]
  BY <1>1 DEF Shifted
<1>5. \A i \in 1..n : (IF i < n + 1 THEN m[i] ELSE m[i + 1]) = l[i]
  BY <1>1
<1> QED BY <1>2, <1>3, <1>4, <1>5 DEF m

LEMMA TakeBackUndone ==
  ASSUME NEW s, Sound(s), NEW a \in Addr \ s.heap, s.hnd[a] = Blank,
         NEW ip, NEW port, NEW t, Enrolling(s, t, a, ip, port), Beside(s, t, a),
         NEW r, NEW o \in TakeBack(t, a, r)
  PROVE  Undone(s, o.st)
<1>1. s \in RegState /\ s.plist \in Seq(Addr) /\ s.hnd \in [Addr -> Handle] /\ s.heap \subseteq Addr
  BY DEF Sound, RegState
<1>2. PICK u \in Unregister(t, a) : o.st = u.st
  BY DEF TakeBack, Outcome
<1>3. PICK d \in Disconnect(t, a) : o.st = Dropped(d.st, a)
  BY <1>1, <1>2, LastRegistered DEF Unregister, Outcome
<1>4. /\ Beside(s, d.st, a)
      /\ d.st.hnd[a].socketfd = NoSock \/ d.st.hnd[a].socketfd \in d.st.faulty
  BY <1>1, <1>3, DisconnectBeside
<1>5. d.st \in RegState /\ d.st.hnd \in [Addr -> Handle]
  BY <1>4 DEF Beside, RegState
<1>6. /\ o.st.plist = Shifted(d.st.plist, FirstIndex(d.st.plist, a))
      /\ o.st.hnd = [d.st.hnd EXCEPT ![a] = Blank]
      /\ o.st.sock = d.st.sock /\ o.st.faulty = d.st.faulty
  BY <1>3, <1>5 DEF Dropped, RegState
<1>7. o.st.heap = s.heap
  BY <1>1, TakeBackSound DEF TakenBack
<1>8. o.st.plist = s.plist
  <2>1. \A i \in 1..Len(s.plist) : s.plist[i] # a
    BY DEF Sound, EntriesMatch
  <2> QED BY <1>1, <1>4, <1>6, <2>1, ShiftedLast DEF Beside
<1>9. o.st.hnd = s.hnd
  <2>1. \A x \in Addr : o.st.hnd[x] = s.hnd[x]
    BY <1>4, <1>5, <1>6 DEF Beside
  <2>2. o.st.hnd \in [Addr -> Handle]
    BY <1>5, <1>6, BlankType
  <2> QED BY <1>1, <2>1, <2>2
<1>10. \A f \in Fd : o.st.sock[f] # s.sock[f] => f \in o.st.faulty
  <2>1. \A f \in Fd : f # NoSock
    BY NoSockFacts
  <2> QED BY <1>4, <1>6, <2>1 DEF Beside
<1> QED BY <1>7, <1>8, <1>9, <1>10 DEF Undone

LEMMA AppendedBeside ==
  ASSUME NEW s, Sound(s), NEW a \in Addr \ s.heap, NEW ip \in Ip, NEW port \in Port,
         NEW t, t \in {Appended(s, a, ip, port), Resolved(Appended(s, a, ip, port), a)}
  PROVE  Beside(s, t, a) /\ t.sock = s.sock
<1> DEFINE n == Appended(s, a, ip, port)
<1>1. s \in RegState /\ s.hnd \in [Addr -> Handle]
  BY DEF Sound, RegState
<1>2. /\ n.plist = Append(s.plist, a)
      /\ n.hnd = [s.hnd EXCEPT ![a] = Fresh(ip, port)]
      /\ n.sock = s.sock /\ n.faulty = s.faulty
  BY <1>1 DEF RegState, Appended
<1>3. n \in RegState /\ Enrolling(s, n, a, ip, port)
  BY AppendedSound DEF Enrolling, Sound
<1>4. n.hnd[a].socketfd = NoSock /\ \A x \in Addr : x # a => n.hnd[x] = s.hnd[x]
  BY <1>1, <1>2, FreshHandle
<1>5. Beside(s, n, a)
  BY <1>2, <1>3, <1>4 DEF Beside
<1> HIDE DEF n
<1>6. CASE t = n
  BY <1>2, <1>5, <1>6
<1>7. CASE t = Resolved(n, a)
  <2>1. t \in RegState
    BY <1>3, <1>7, ResolvedSound DEF Enrolling, Sound
  <2>2. n.hnd \in [Addr -> Handle]
    BY <1>3 DEF RegState
  <2>3. /\ t.plist = n.plist /\ t.sock = n.sock /\ t.faulty = n.faulty
        /\ t.hnd = [n.hnd EXCEPT ![a] = [@ EXCEPT !.servinfo = TRUE]]
    BY <1>3, <1>7 DEF Resolved, RegState
  <2>4. t.hnd[a].socketfd = n.hnd[a].socketfd /\ \A x \in Addr : x # a => t.hnd[x] = n.hnd[x]
    <3>1. n.hnd[a] \in Handle
      BY <2>2
    <3>2. t.hnd[a] = [n.hnd[a] EXCEPT !.servinfo = TRUE]
      BY <2>2, <2>3
    <3>3. t.hnd[a].socketfd = n.hnd[a].socketfd
      BY <3>1, <3>2 DEF Handle
    <3> QED BY <2>2, <2>3, <3>3
  <2> QED BY <1>2, <1>5, <2>1, <2>3, <2>4 DEF Beside
<1> QED BY <1>6, <1>7 DEF n

\* From the connect on, a failure is undone, unless it is that of the last
\* Disconnect.
LEMMA IntroducedUndone ==
  ASSUME NEW s, Sound(s), NEW a \in Addr \ s.heap, s.hnd[a] = Blank,
         NEW ip, NEW port, NEW flags,
         NEW t, Enrolling(s, t, a, ip, port), t.hnd[a].servinfo, Beside(s, t, a), t.sock = s.sock,
         NEW o \in Introduced(t, a, flags)
  PROVE  \/ Undone(s, o.st)
         \/ Beside(s, o.st, a) /\ o.res \in {"NO_ERROR", "CLOSESOCKET_FAILED"}
<1>1. PICK c \in Connect(t, a) :
        o \in IF c.res # "NO_ERROR" THEN TakeBack(c.st, a, c.res)
              ELSE Described(c.st, a, flags)
                   \cup UNION {TakeBack(c.st, a, r) : r \in ExchangeFailures}
  BY DEF Introduced
<1>2. s \in RegState /\ s.heap \subseteq Addr /\ t \in RegState /\ a \in t.heap
  BY DEF Sound, RegState, Enrolling
<1>3. Beside(s, c.st, a)
  BY <1>1, <1>2, ConnectBeside
<1>4. Enrolling(s, c.st, a, ip, port)
  <2>1. Sound(c.st) /\ SameHandles(t, c.st)
    BY <1>1, ConnectSound DEF Enrolling
  <2> QED BY <1>2, <2>1, EnrollingKept
<1>5. ASSUME NEW r, o \in TakeBack(c.st, a, r) PROVE Undone(s, o.st)
  BY <1>3, <1>4, <1>5, TakeBackUndone
<1>6. CASE c.res = "NO_ERROR" /\ o \in Described(c.st, a, flags)
  <2>1. Connected(c.st, a)
    BY <1>1, <1>2, <1>6, ConnectSucceeds
  <2>2. CASE o = Outcome(c.st, "NO_ERROR")
    BY <1>3, <2>2 DEF Outcome
  <2>3. CASE o \in Disconnect(c.st, a)
    <3>1. Registered(c.st, a) /\ c.st.hnd[a].socketfd # NoSock
      BY <1>2, <1>3, <2>1, LastRegistered DEF Connected
    <3>2. o.res \in {"NO_ERROR", "CLOSESOCKET_FAILED"}
      BY <2>3, <3>1 DEF Disconnect, Outcome
    <3> QED BY <1>2, <1>3, <2>3, <3>2, DisconnectBeside
  <2> QED BY <1>6, <2>2, <2>3 DEF Described
<1>7. \/ \E r : o \in TakeBack(c.st, a, r)
      \/ c.res = "NO_ERROR" /\ o \in Described(c.st, a, flags)
  BY <1>1
<1> QED BY <1>5, <1>6, <1>7

\* Every outcome of a Register for a port number is undone, or one in which the
\* caller keeps the handle.
LEMMA EnrolledUndone ==
  ASSUME NEW s, Sound(s), NEW a \in Addr \ s.heap, s.hnd[a] = Blank,
         NEW ip \in Ip, NEW port \in Port, NEW flags, NEW o \in Enrolled(s, a, ip, port, flags)
  PROVE  \/ Undone(s, o.st)
         \/ /\ Beside(s, o.st, a)
            /\ port \in PortNo => o.res \in {"NO_ERROR", "CLOSESOCKET_FAILED"}
<1> DEFINE n == Appended(s, a, ip, port)
           t == Resolved(n, a)
<1>1. Enrolling(s, n, a, ip, port)
  BY AppendedSound
<1>2. Beside(s, n, a) /\ Beside(s, t, a) /\ t.sock = s.sock
  BY AppendedBeside
<1>3. o \in TakeBack(n, a, "GET_ADDR_INFO_FAIL")
        \cup IF Duplicate(t, a) THEN Rejected(t, a, port) ELSE Introduced(t, a, flags)
  BY DEF Enrolled
<1> HIDE DEF n
<1>4. Enrolling(s, t, a, ip, port) /\ t.hnd[a].servinfo
  BY <1>1, ResolvedSound
<1> HIDE DEF t
<1>5. CASE o \in TakeBack(n, a, "GET_ADDR_INFO_FAIL")
  BY <1>1, <1>2, <1>5, TakeBackUndone
<1>6. CASE o \in Rejected(t, a, port)
  <2>1. CASE o \in TakeBack(t, a, "HANDLE_ALREADY_EXISTS")
    BY <1>2, <1>4, <2>1, TakeBackUndone
  <2>2. CASE port # t.hnd[a].portno /\ o = Outcome(t, "HANDLE_ALREADY_EXISTS")
    <3>1. port \notin PortNo
      BY <1>4, <2>2, PortNoBelow DEF Enrolling
    <3> QED BY <1>2, <2>2, <3>1 DEF Outcome
  <2> QED BY <1>6, <2>1, <2>2 DEF Rejected
<1>7. CASE o \in Introduced(t, a, flags)
  BY <1>2, <1>4, <1>7, IntroducedUndone
<1> QED BY <1>3, <1>5, <1>6, <1>7

LEMMA InitBlanks == Init => Blanks(Current)
BY DEF Init, Blanks, Current

\* The calls on a handle write to no other.
LEMMA OtherHandles ==
  ASSUME NEW s, Sound(s), NEW h \in Addr, NEW o \in Disconnect(s, h) \cup Connect(s, h), Blanks(s)
  PROVE  Blanks(o.st)
<1>1. CASE ~Registered(s, h)
  BY <1>1 DEF Disconnect, Connect, Outcome
<1>2. CASE Registered(s, h)
  <2>1. h \in s.heap /\ s \in RegState /\ s.hnd \in [Addr -> Handle]
    BY <1>2 DEF Registered, Sound, EntriesMatch, RegState
  <2>2. Sound(o.st) /\ SameHandles(s, o.st)
    BY ConnectSound, DisconnectSound
  <2>3. \A x \in Addr : x # h => o.st.hnd[x] = s.hnd[x]
    <3>1. CASE o \in Disconnect(s, h)
      BY <2>1, <3>1, DisconnectOthers
    <3>2. CASE o \in Connect(s, h) /\ o.st.hnd # s.hnd
      <4>1. PICK f \in Fd :
              \/ o = Outcome([Opened(s, h, f) EXCEPT !.faulty = @ \cup {f}], "SETSOCKETOPT_FAILED")
              \/ o = Outcome([Opened(s, h, f) EXCEPT !.sock[f] = "connected"], "NO_ERROR")
              \/ \E d \in Disconnect(Opened(s, h, f), h) : o = Outcome(d.st, "CONNECT_FAILED")
        BY <3>2 DEF Connect, Outcome
      <4> DEFINE u == Opened(s, h, f)
      <4>2. u \in RegState /\ \A x \in Addr : x # h => u.hnd[x] = s.hnd[x]
        <5>1. s \in RegState
          BY <2>1
        <5>2. /\ u \in RegState
              /\ u.plist = s.plist /\ u.heap = s.heap /\ u.faulty = s.faulty
              /\ u.hnd[h].socketfd = f
              /\ \A x \in Addr : x # h => u.hnd[x] = s.hnd[x]
              /\ u.sock = [s.sock EXCEPT ![f] = "open"]
          BY <5>1, OpenedState
        <5> QED BY <5>2
      <4> HIDE DEF u
      <4>3. o.st.hnd = u.hnd \/ \E d \in Disconnect(u, h) : o.st = d.st
        BY <4>1, <4>2 DEF Outcome, RegState, u
      <4> QED BY <4>2, <4>3, DisconnectOthers
    <3> QED BY <3>1, <3>2
  <2> QED BY <2>1, <2>2, <2>3 DEF Blanks, SameHandles
<1> QED BY <1>1, <1>2

LEMMA BlanksKept ==
  ASSUME IInv, Blanks(Current), [Next]_vars
  PROVE  Blanks(Current)'
<1>1. Sound(Current) /\ Current \in RegState
  BY DEF IInv, Sound
<1>2. ASSUME NEW s, Becomes(s), Blanks(s) PROVE Blanks(Current)'
  BY <1>2 DEF Becomes, Blanks, Current
<1>3. CASE UNCHANGED registry
  BY <1>3 DEF registry, Blanks, Current
<1>4. ASSUME NEW F \in SUBSET OwnedSockets(Current), Becomes(Emptied(Current, F))
      PROVE  Blanks(Current)'
  <2> DEFINE e == Emptied(Current, F)
  <2>1. e.hnd = [h \in Addr |-> IF Registered(Current, h) THEN Blank ELSE Current.hnd[h]]
    BY <1>1 DEF Emptied, RegState
  <2>2. \A h \in Addr : h \in Current.heap => Registered(Current, h)
    BY <1>1 DEF Sound, EntriesMatch, Registered
  <2>3. \A h \in Addr : e.hnd[h] = Blank
    BY <2>1, <2>2 DEF Blanks
  <2> QED BY <1>2, <1>4, <2>3 DEF Blanks
<1>5. ASSUME NEW h \in Addr, NEW o \in Disconnect(Current, h) \cup Connect(Current, h), Becomes(o.st)
      PROVE  Blanks(Current)'
  BY <1>1, <1>2, <1>5, OtherHandles
<1>6. ASSUME NEW h \in Addr, NEW o \in Unregister(Current, h), Becomes(o.st)
      PROVE  Blanks(Current)'
  <2>1. CASE o.st = Current
    BY <1>2, <1>6, <2>1
  <2>2. CASE o.st # Current
    <3>1. PICK d \in Disconnect(Current, h) : o.st = Dropped(d.st, h)
      BY <2>2 DEF Unregister, Outcome
    <3>2. Blanks(d.st) /\ d.st \in RegState
      BY <1>1, <3>1, OtherHandles, DisconnectSound DEF Sound
    <3>3. o.st.heap = d.st.heap \ {h} /\ o.st.hnd = [d.st.hnd EXCEPT ![h] = Blank]
      BY <3>1, <3>2 DEF Dropped, RegState
    <3>4. d.st.hnd \in [Addr -> Handle]
      BY <3>2 DEF RegState
    <3>5. Blanks(o.st)
      BY <3>2, <3>3, <3>4 DEF Blanks
    <3> QED BY <1>2, <1>6, <3>5
  <2> QED BY <2>1, <2>2
<1>7. ASSUME NEW a \in Addr, NEW ip \in Ip, NEW port \in Port, NEW flags,
             RegisterBlock(a, ip, port, flags)
      PROVE  Blanks(Current)'
  <2>1. PICK o \in Enrolled(Current, a, ip, port, flags) : Becomes(o.st)
    BY <1>7 DEF RegisterBlock
  <2>2. a \in Addr \ Current.heap /\ Current.hnd[a] = Blank
    BY <1>7 DEF RegisterBlock, Current, Blanks
  <2>3. Undone(Current, o.st) \/ Beside(Current, o.st, a)
    BY <1>1, <2>1, <2>2, EnrolledUndone
  <2>4. CASE Undone(Current, o.st)
    BY <1>2, <2>1, <2>4 DEF Undone, Blanks
  <2>5. CASE Beside(Current, o.st, a)
    <3>1. TakenBack(Current, o.st) \/ Enrolling(Current, o.st, a, ip, port)
      BY <1>1, <2>1, <2>2, EnrolledSound
    <3>2. Sound(o.st) /\ a \in o.st.heap
      <4>1. Sound(o.st)
        BY <3>1 DEF TakenBack, Enrolling
      <4> QED BY <1>1, <2>5, <4>1, LastRegistered DEF Registered, Sound, EntriesMatch
    <3>3. o.st.heap = Current.heap \cup {a}
      BY <2>2, <3>1, <3>2 DEF TakenBack, Enrolling
    <3>4. Blanks(o.st)
      BY <2>5, <3>3 DEF Beside, Blanks
    <3> QED BY <1>2, <2>1, <3>4
  <2> QED BY <2>3, <2>4, <2>5
<1>8. CASE AVCOM_SA_Initialize
  BY <1>3, <1>8 DEF AVCOM_SA_Initialize
<1>9. CASE AVCOM_SA_Deinitialize
  BY <1>3, <1>4, <1>9 DEF AVCOM_SA_Deinitialize
<1>10. ASSUME NEW ip \in Ip, NEW port \in Port, NEW flags, AVCOM_SA_Register(ip, port, flags)
       PROVE  Blanks(Current)'
  BY <1>3, <1>7, <1>10 DEF AVCOM_SA_Register, RegisterWithoutBlock, RegisterReallocFails
<1>11. CASE \E ip \in Ip, port \in Port : AVCOM_SA_GetHandle(ip, port)
  BY <1>3, <1>11 DEF AVCOM_SA_GetHandle
<1>12. CASE \E h \in Addr : AVCOM_SA_Connect(h) \/ AVCOM_SA_Disconnect(h)
  BY <1>5, <1>12 DEF AVCOM_SA_Connect, AVCOM_SA_Disconnect
<1>13. CASE \E h \in Addr : AVCOM_SA_Unregister(h)
  BY <1>6, <1>13 DEF AVCOM_SA_Unregister
<1>14. CASE UNCHANGED vars
  BY <1>3, <1>14 DEF vars, registry
<1> QED BY <1>8, <1>9, <1>10, <1>11, <1>12, <1>13, <1>14 DEF Next, Dead

\* What FailedRegisterTakesBack says of one step.
RegisterStep ==
  ret'.op = "Register" /\ ret'.res \notin {"NO_ERROR", "CLOSESOCKET_FAILED"} =>
    /\ UNCHANGED <<plist, heap, hnd>>
    /\ \A f \in Fd : sock'[f] # sock[f] => f \in faulty'

LEMMA StepTakesBack ==
  ASSUME Port \subseteq PortNo, IInv, Blanks(Current), Next
  PROVE  RegisterStep \/ UNCHANGED vars
<1>1. ASSUME NEW a \in Addr, NEW ip \in Ip, NEW port \in Port, NEW flags,
             RegisterBlock(a, ip, port, flags)
      PROVE  RegisterStep
  <2>1. PICK o \in Enrolled(Current, a, ip, port, flags) :
          Becomes(o.st) /\ Returns("Register", o.res, a, <<ip, port>>)
    BY <1>1 DEF RegisterBlock
  <2>2. Sound(Current) /\ a \in Addr \ Current.heap /\ Current.hnd[a] = Blank
    BY <1>1 DEF RegisterBlock, Current, Blanks, IInv
  <2>3. Undone(Current, o.st) \/ o.res \in {"NO_ERROR", "CLOSESOCKET_FAILED"}
    BY <2>1, <2>2, EnrolledUndone
  <2>4. CASE Undone(Current, o.st)
    BY <2>1, <2>4 DEF Undone, Becomes, Current, RegisterStep
  <2>5. CASE o.res \in {"NO_ERROR", "CLOSESOCKET_FAILED"}
    BY <2>1, <2>5 DEF Returns, RegisterStep
  <2> QED BY <2>3, <2>4, <2>5
<1>2. ASSUME NEW ip \in Ip, NEW port \in Port, NEW flags, AVCOM_SA_Register(ip, port, flags)
      PROVE  RegisterStep
  <2>1. CASE RegisterWithoutBlock(ip, port)
    <3>1. UNCHANGED registry
      BY <2>1 DEF RegisterWithoutBlock
    <3> QED BY <3>1 DEF registry, RegisterStep
  <2>2. ASSUME NEW a \in Addr, RegisterReallocFails(a) PROVE RegisterStep
    <3>1. UNCHANGED registry
      BY <2>2 DEF RegisterReallocFails
    <3> QED BY <3>1 DEF registry, RegisterStep
  <2> QED BY <1>1, <1>2, <2>1, <2>2 DEF AVCOM_SA_Register
<1>3. CASE \/ AVCOM_SA_Initialize \/ AVCOM_SA_Deinitialize
           \/ \E ip \in Ip, port \in Port : AVCOM_SA_GetHandle(ip, port)
           \/ \E h \in Addr : \/ AVCOM_SA_Connect(h) \/ AVCOM_SA_Disconnect(h)
                              \/ AVCOM_SA_Unregister(h)
  <2>1. ret'.op # "Register"
    BY <1>3 DEF AVCOM_SA_Initialize, AVCOM_SA_Deinitialize, AVCOM_SA_GetHandle, AVCOM_SA_Connect,
                AVCOM_SA_Disconnect, AVCOM_SA_Unregister, Returns
  <2> QED BY <2>1 DEF RegisterStep
<1> QED BY <1>2, <1>3 DEF Next, Dead

-----------------------------------------------------------------------------
(* Theorems *)

\* The invariant holds of every behaviour.
THEOREM Inductive == Spec => []IInv
<1>1. IInv /\ [Next]_vars => IInv'
  BY NextKeeps
<1> QED BY InitIInv, <1>1, PTL DEF Spec

\* Type correctness: descriptors, 16-bit ports and handle pointers stay what
\* their C declarations say.
THEOREM TypeCorrect == Spec => []TypeOK
<1>1. IInv => TypeOK
  BY DEF IInv, TypeOK, Sound
<1> QED BY Inductive, <1>1, PTL

\* plist and the heap agree after every call, for any number of handles and
\* any failure inside the calls: no entry dangles and no block leaks.
THEOREM RegistryAgrees == Spec => []RegistryMatchesHeap
<1>1. IInv => RegistryMatchesHeap
  <2> SUFFICES ASSUME IInv PROVE RegistryMatchesHeap
    OBVIOUS
  <2>1. EntriesMatch(Current) /\ plist \in Seq(Addr) /\ \A a \in heap : hnd[a].servinfo
    BY DEF IInv, Sound, AllResolved, RegState, Current
  <2>2. ASSUME heap = {} PROVE plist = << >>
    <3>1. \A i \in 1..Len(plist) : plist[i] \in heap
      BY <2>1 DEF EntriesMatch, Current
    <3>2. Len(plist) = 0
      BY <2>1, <2>2, <3>1
    <3> QED BY <2>1, <3>2
  <2> QED BY <2>1, <2>2 DEF RegistryMatchesHeap, IInv
<1> QED BY Inductive, <1>1, PTL

\* Sockets are neither shared nor lost: the descriptors that are open are those
\* the handles own, and those a setsockopt or closesocket failed on.
THEOREM SocketsAgree == Spec => []SocketsAccounted
<1>1. IInv => SocketsAccounted
  BY DEF IInv, Sound, SocketsAccounted
<1> QED BY Inductive, <1>1, PTL

\* Winsock is up whenever handles can be registered, however often Initialize
\* is called and WSACleanup fails.
THEOREM WinsockStaysUp == Spec => []WinsockUp
<1>1. IInv => WinsockUp
  BY DEF IInv
<1> QED BY Inductive, <1>1, PTL

\* Callers that pass port numbers have one handle per sockaddr.  The
\* assumption is needed: Register keeps the handle of an int port it truncates.
THEOREM OneHandlePerSockaddr ==
  ASSUME Port \subseteq PortNo
  PROVE  Spec => []UniqueSockaddr
<1>1. Init => AllUnique(Current)
  BY DEF Init, AllUnique, Current
<1>2. IInv /\ AllUnique(Current) /\ [Next]_vars => AllUnique(Current)'
  BY NextKeeps
<1>3. AllUnique(Current) => UniqueSockaddr
  BY DEF AllUnique, UniqueSockaddr, Current
<1> QED BY Inductive, <1>1, <1>2, <1>3, PTL DEF Spec

\* Under the same assumption, the handle registered for an address and port is
\* the one that GetHandle returns for them.
THEOREM HandlesAreFound ==
  ASSUME Port \subseteq PortNo
  PROVE  Spec => []GetHandleRecovers
<1>1. IInv /\ UniqueSockaddr => GetHandleRecovers
  <2> SUFFICES ASSUME IInv, UniqueSockaddr, NEW a \in heap
               PROVE  GetHandle(Current, hnd[a].ip, hnd[a].portno) = a
    BY DEF GetHandleRecovers
  <2>1. Matches(Current, a, hnd[a].ip, hnd[a].portno)
    BY DEF Matches, Current
  <2>2. \A b \in heap : Matches(Current, b, hnd[a].ip, hnd[a].portno) => b = a
    BY DEF Matches, Current, UniqueSockaddr, SameSockaddr
  <2>3. Sound(Current) /\ Current.heap = heap
    BY DEF IInv, Current
  <2> QED BY <2>1, <2>2, <2>3, GetHandleFinds
<1> QED BY Inductive, OneHandlePerSockaddr, <1>1, PTL

\* A Register for a port number that fails has taken everything back, wherever
\* in it the failure was; but for the sockets a setsockopt or closesocket failed
\* on, and but for a failure of the Disconnect at its end.
THEOREM RegisterTakesBack ==
  ASSUME Port \subseteq PortNo
  PROVE  Spec => FailedRegisterTakesBack
<1>1. IInv /\ Blanks(Current) /\ [Next]_vars => Blanks(Current)'
  BY BlanksKept
<1>2. IInv /\ Blanks(Current) /\ [Next]_vars => [RegisterStep]_vars
  BY StepTakesBack
<1>3. FailedRegisterTakesBack <=> [][RegisterStep]_vars
  BY PTL DEF FailedRegisterTakesBack, RegisterStep
<1> QED BY Inductive, InitBlanks, <1>1, <1>2, <1>3, PTL DEF Spec

\* Deinitialize, which the model takes in one step, ends in the states its loop
\* of Unregister calls may end in, for any number of handles.
THEOREM DeinitializeLoops == Spec => []DeinitializeIsItsLoop
<1>1. IInv => DeinitializeIsItsLoop
  BY LoopEmpties DEF IInv, DeinitializeIsItsLoop
<1> QED BY Inductive, <1>1, PTL
=============================================================================
