SPECIFICATION Spec
CONSTANTS
  Runner = {r1}
  Request = {q1}
  Reaper = {}
  Deleter = {d1}
  N = 1
  Selected = {1}
  Edits = {0, 1}
  StaleThreshold = 1
  HeartbeatEvery = 1
  MaxMissed = 0
INVARIANT CompletedMeansInstalled
PROPERTY DeletedIsFinal
PROPERTY NoStepBeginsAfterDeletion
