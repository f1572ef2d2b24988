SPECIFICATION FairSpec
CONSTANTS
  N = 3
  Worker = {w1, w2}
  Outcome = {"ok", "exception", "cancelled"}
  Aborts = TRUE
  Gone = {2}
INVARIANTS Counters DependenciesFirst QuietAtEnd CompleteOrNothing
PROPERTIES CheckedOnce Termination
