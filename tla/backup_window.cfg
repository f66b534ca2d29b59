SPECIFICATION FairSpec
CONSTANTS
  Replica = {p1}
  Backup = {b1, b2}
  Manual = {}
  Scopes = {{"resources", "volume", "kv", "db"}, {"volume"}}
  W = 3
  Configured <- ThreeWorkloads
  MaxFaults = 2
  MaxRestarts = 1
INVARIANT TypeOK
INVARIANT OwnReplicasOrNone
INVARIANT ColdVolumes
INVARIANT WorkloadsBack
PROPERTY NoRotationBeginsInWindow
PROPERTY WindowCloses
CHECK_DEADLOCK FALSE
