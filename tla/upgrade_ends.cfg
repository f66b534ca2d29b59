SPECIFICATION FairSpec
CONSTANTS
  Run = {u1}
  Key = {k1}
  Client = {c1}
  Viewer = {v1}
  Edit = {e1}
  Nobody = Nobody
  BeatsArrive = FALSE
  MaxFaults = 1
  MaxCrashes = 1
PROPERTY ActiveRunEnds
CHECK_DEADLOCK FALSE
