\* Three calls in flight that may fail, be rate-limited or leave for ever; the switch may
\* be flipped at any time, holds are on.
CONSTANTS
  Calls = {c1, c2, c3}
  Window = 6
  MinSamples = 5
  ThrNum = 1  ThrDen = 2
  Cooldown = 2
  Switches = {TRUE, FALSE}
  HoldBases = {1}
  HoldMax = 3
  Jitter = 0
  StepMax = 3
SPECIFICATION FairSpec
INVARIANTS NoSilentTrip ChronicFailureTrips
PROPERTIES TripRestsOnFreshSamples EveryShedEnds
