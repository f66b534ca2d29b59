SPECIFICATION FairSpec
CONSTANTS
  Runner = {r1, r2}
  Request = {q1}
  Reaper = {p1}
  Deleter = {}
  N = 3
  Selected = {1, 3}
  Edits = {}
  StaleThreshold = 5
  HeartbeatEvery = 2
  MaxMissed = 1
INVARIANT TypeOK
INVARIANT ResumePointIsSound
INVARIANT FailedMeansStopped
INVARIANT OneInstallAtATime
PROPERTY ImplementsLifecycle
PROPERTY InFlightEnds
