SPECIFICATION Spec
CONSTANTS
  Replica = {p1, p2}
  Backup = {b1, b2}
  Manual = {}
  Scopes = {{"resources", "volume", "kv", "db"}, {"volume"}}
  W = 2
  Configured <- TwoWorkloads
  MaxFaults = 0
  MaxRestarts = 0
INVARIANT ColdVolumes
CHECK_DEADLOCK FALSE
