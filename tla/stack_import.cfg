SPECIFICATION Spec
CONSTANTS
  Runner = {r1}
  Request = {q1}
  Reaper = {p1}
  Deleter = {}
  N = 2
  Selected = {1, 2}
  Edits = {2}
  StaleThreshold = 3
  HeartbeatEvery = 1
  MaxMissed = 1
INVARIANT CompletedMeansInstalled
