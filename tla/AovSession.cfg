SPECIFICATION Spec
CONSTANTS
  Calls <- EveryKind
  MaxCalls = 3
  MaxBusy = 2
  WaveByte <- AmplitudeBytes
INVARIANTS
  TypeOK
  InStep
  SuccessMeansDone
PROPERTIES
  CallsReturn
  TriggerReturnsIfConnected
