SPECIFICATION Spec
CONSTANTS
  Runner = {r1, r2}
  Request = {q1, q2}
  Reaper = {p1}
  Deleter = {}
  N = 2
  Selected = {1, 2}
  Edits = {}
  StaleThreshold = 3
  HeartbeatEvery = 1
  MaxMissed = 1
PROPERTY FollowsTransitions
