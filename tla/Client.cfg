SPECIFICATION ClientSpec
CONSTANTS
  Socket = {c1, c2}
  NoSocket = NoSocket
  Response = {r1}
  MaxQueued = 1
  MaxRequests = 2
  ChangeArgs <- SomeArgs
  Bodies <- SomeBodies
  Behind <- SomeBehind
INVARIANTS
  ClientConsistent
  ChangeReadBack
  PacketsWhole
PROPERTIES
  RequestsArrive
  CloseFinishes
  EndAfterClose
