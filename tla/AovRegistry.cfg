SPECIFICATION Spec
CONSTANTS
  Addr = {a1, a2, a3}
  Fd = {1, 2}
  Ip = {"host1", "host2"}
  Port <- TruePorts
  Prefix <- PrefixV4
  MaxWinsock = 2
SYMMETRY AddrSymmetry
INVARIANTS
  TypeOK
  RegistryMatchesHeap
  SocketsAccounted
  WinsockUp
  DeinitializeIsItsLoop
  UniqueSockaddr
  GetHandleRecovers
PROPERTY
  FailedRegisterTakesBack
