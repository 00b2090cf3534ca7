SPECIFICATION Spec
CONSTANTS
  Nets = {nets1, nets2}
  Rests = {"ok", "broken"}
  Threads = {t1, t2}
  MaxWrites = 1
  MaxEdits = 2
  Bad = {1}
  Typed <- MCTyped
  MaxTyped = 3
  Samples = 8
  Delay = 1
  Hold = 3
  Rise = 5
  CpuSamples = 2
  WifiSamples = 2
  CanSamples = 3
  Active = 5
  Waiti = 4
  WifiPeak = 30
  Overhead = 1
  Led = 4
  Base = 1
  AfeStatic = 1
  Inrush = 2
  Vref = 1
  EdgeCharge = 3
  CanIdle = 3
  CanDominant = 2
INVARIANTS
  RememberedKeyIsSound
  SettledPageIsCurrent
  HeaderAcceptedByFirmware
  BlockedIffNoCarrier
  PeakBoundsTrace
PROPERTIES
  CalculatingEnds
CHECK_DEADLOCK FALSE
