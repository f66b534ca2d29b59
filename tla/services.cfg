SPECIFICATION ServicesSpec
CONSTANTS
  Stack = {1}
  Keeper = {k1, k2}
  Scheduled = {k1, k2}
  Asked = {{0, 1}}
  PartsOf <- MCParts
  Daily = 2
  Weekly = 0
  Monthly = 0
  WeekLength = 7
  MonthLength = 30
  Caps = {0, 1}
  MaxRuns = 3
  MaxDay = 2
  MaxSets = 2
  MaxRestores = 1
  MaxLibFaults = 1
  Tenant = {s1, s2}
  Place = {p1, p2}
  Org = {"o1", "o2"}
  Layouts <- SharedLayouts
  UserChoices = {{}}
  MaxReclaimFaults = 1
  Source = {x1}
  SourceTypes = {"gitea", "bare", "plain", "manual"}
  Rotator = {r1, r2}
  Provisioner = {u1}
  NoCaller = nobody
  MaxIssued = 1
  MaxTokenFaults = 1
  Publisher = {b1, b2}
  Viewer = {v1}
  Buffer = 1
  MaxHistory = 2
  MaxLines = 3
  MaxClears = 1
  MaxLogFaults = 1
  Collector = {c1, c2}
  Grace = 1
  Repeat = 2
  MaxClock = 3
  MaxRows = 2
  MaxAlertFaults = 1
  Cve = {d1, d2}
  Scanner = {n1, n2}
  MaxScans = 3
  MaxScanFaults = 1
  Pipe = {q1, q2}
  CiChoices = {TRUE, FALSE}
  AskedChoices = {{"cluster", "images", "repository"}}
  MaxCalls = 3
  MaxPipeFaults = 1
INVARIANTS ServicesTypeOK DaysCovered PlatformFirst AllOrNothing NothingMissed OnceOnly PairedNotices SeenNotResolved ToldOnce RecordedIsTold DeletedStaysDeleted
PROPERTIES NewerCopyRemains OthersKeepTheirs
SYMMETRY Exchange
CHECK_DEADLOCK FALSE
