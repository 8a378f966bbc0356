SPECIFICATION Spec
CONSTANTS
  Hw <- Boards
  Freq <- Frequencies
  Span <- Spans
  Overflowed = {50000}
  Level <- Levels
  Rbw = {"1MHz", "10kHz"}
  Input <- Inputs
  Lnb <- EveryPower
INVARIANT
  ThirteenVolts
