\* Each part by itself: three waiters, two posters that also reset,
\* two callers of a thread that starts
\* twice, five messages of the log, two processes that make directories, three requests.
SPECIFICATION FairSpec
CONSTANTS
  ThCallers = {"main", "signal"}
  ThOwner = "main"
  ThMaxStarts = 2
  EvWaiters = {"a", "b", "c"}
  EvTimed = {"a"}
  SmWaiters = {"a", "b", "c"}
  SmTimed = {"a"}
  SmPosters = {"p", "q"}
  SmValueMax = 3
  SmMaxPosts = 4
  LogSizes = {2, 4}
  LogCounts = {1, 2}
  LogDefaultSize = 3
  LogDefaultCount = 2
  LogConfigs <- MCLogConfigs
  LogLevels = {0, 1}
  LogMaxMsgs = 5
  LogMaxStarts = 2
  LogMaxReloads = 2
  FdProcs = {1, 2}
  FdPaths <- MCPaths
  SsRequests = {1, 2, 3}
  SsUsers = {"u"}
  SsCookies = {9}
  SsPool = 1
INVARIANTS
  FdSafe
  SsSafe
PROPERTIES
  ThSafe
  CallsEnd
  EvSafe
  SmSafe
  LogSafe
CHECK_DEADLOCK FALSE
