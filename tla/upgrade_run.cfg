SPECIFICATION Spec
CONSTANTS
  Run = {u1, u2}
  Key = {k1, k2}
  Client = {c1, c2}
  Viewer = {}
  Edit = {}
  Nobody = Nobody
  BeatsArrive = FALSE
  MaxFaults = 0
  MaxCrashes = 0
INVARIANT TypeOK
INVARIANT OneActiveRun
PROPERTY ClosedStaysClosed
PROPERTY CloseNeedsSilence
SYMMETRY Alike
CHECK_DEADLOCK FALSE
