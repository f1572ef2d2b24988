SPECIFICATION Spec
CONSTANTS
  Thread = {M, a, b}
  MainThread = M
  Flags <- FourSettings
  MaxCcalls = 3
  HardLimit = 4
  MaxFrames = 3
SYMMETRY CoroutineSymmetry
INVARIANTS YieldableIsRecoverable ResumeAsserts DepthNeverUnderestimated ActiveIsRunning StatusIsTrue
PROPERTIES DiesOnlyUnprotected ImplementsChain
