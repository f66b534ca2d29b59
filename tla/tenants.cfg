SPECIFICATION TenantsSpec
CONSTANTS
  Tenant = {s1, s2}
  Place = {p1, p2}
  Org = {"o1", "o2"}
  Layouts <- MCLayouts
  UserChoices = {{}, {"certificate", "autoscaler"}, {"secret"}}
  MaxReclaimFaults = 1
  Source = {x1}
  SourceTypes = {"gitea", "bare", "plain", "manual"}
  Rotator = {r1, r2}
  Provisioner = {u1}
  NoCaller = nobody
  MaxIssued = 3
  MaxTokenFaults = 1
INVARIANTS NothingLeftBehind TokenKept
PROPERTIES UsersKeepComponents SecretsSurviveOthers
SYMMETRY Swap
CHECK_DEADLOCK FALSE
