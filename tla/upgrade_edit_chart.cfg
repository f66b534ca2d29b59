SPECIFICATION Spec
CONSTANTS
  Run = {u1}
  Key = {k1}
  Client = {c1}
  Viewer = {v1}
  Edit = {e1}
  Nobody = Nobody
  BeatsArrive = TRUE
  MaxFaults = 0
  MaxCrashes = 0
INVARIANT EditsKeepChart
CHECK_DEADLOCK FALSE
