SPECIFICATION Spec
CONSTANTS
  Run = {u1, u2}
  Key = {k1, k2}
  Client = {c1}
  Viewer = {v1}
  Edit = {e1}
  Nobody = Nobody
  BeatsArrive = TRUE
  MaxFaults = 1
  MaxCrashes = 1
INVARIANT FailedChangedNothing
INVARIANT EndsItsOperations
PROPERTY OutcomeMatchesRelease
SYMMETRY Alike
CHECK_DEADLOCK FALSE
