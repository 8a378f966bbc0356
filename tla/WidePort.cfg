SPECIFICATION Spec
CONSTANTS
  Addr = {a1, a2}
  Fd = {1, 2}
  Ip = {"host1", "host2"}
  Port <- WidePorts
  Prefix <- PrefixV4
  MaxWinsock = 2
PROPERTY
  AlreadyExistsCreatesNothing
