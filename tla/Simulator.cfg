SPECIFICATION Spec
CONSTANTS
  Socket = {c1, c2}
  Response = {r1, r2}
  MaxQueued = 3
INVARIANTS
  TypeOK
  OnceInOrder
  TimersKept
PROPERTIES
  ResponsesTaken
  EndCallsBack
