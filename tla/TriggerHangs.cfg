SPECIFICATION Spec
CONSTANTS
  Calls <- SettingsAndTrigger
  MaxCalls = 3
  MaxBusy = 1
  WaveByte <- AmplitudeBytes
PROPERTY
  TriggerReturns
