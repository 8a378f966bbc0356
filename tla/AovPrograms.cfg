SPECIFICATION ProgSpec
CONSTANTS
  Addr = {a1, a2}
  Fd = {1, 2}
  Ip = {"host1"}
  Port = {26482, 26483}
  Prefix <- PrefixV4
  MaxWinsock = 2
  IdByte <- IdBytes
  Serial <- Serials
INVARIANTS
  ProgTypeOK
  ReleasedAtExit
  HandleNamed
  WinsockBalanced
  HandleLive
  SuccessMeansSent
  PacketsWellFormed
PROPERTY
  HandlesReleased
