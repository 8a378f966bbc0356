SPECIFICATION Spec
CONSTANTS
  Calls <- SettingsAndTrigger
  MaxCalls = 4
  MaxBusy = 1
  WaveByte <- AmplitudeBytes
INVARIANT
  SuccessIsVerified
