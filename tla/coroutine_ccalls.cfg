SPECIFICATION Spec
CONSTANTS
  Thread = {M, a}
  MainThread = M
  Flags <- FourSettings
  MaxCcalls = 4
  HardLimit = 5
  MaxFrames = 3
INVARIANTS CcallsExact
