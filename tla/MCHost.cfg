CONSTANTS
  t1 = t1
  t2 = t2
  g1 = g1
  c1 = c1
  c2 = c2
  pa = pa
  pb = pb
  Task = {t1, t2}
  Checkpointing = TRUE
  MaxPrompts = 1
  MaxRounds = 1
  MaxTroubles = 1
  MaxCrashes = 1
  Generator = {g1}
  MaxRecords = 6
  MaxCompactions = 1
  MaxTitles = 1
  MaxOthers = 1
  Candidate = {c1, c2}
  NoCandidate = NoCandidate
  Path = {pa, pb}
  MaxStamp = 3
  MaxFaults = 1
  NoPath = NoPath
  PoolCap = 1
  MaxEdits = 1
  MaxExternal = 1
  MaxKeys = 3
  MaxSwitches = 1
  MaxRetries = 1
  MaxRequests = 2
  MaxDrops = 1
  MaxCloses = 1
  MaxRotations = 1
  qa = qa
  bad = bad
  Artifact = {qa}
  Blocked = {bad}
  MaxTurns = 2
  MaxReplies = 3
  MaxDecisions = 1
  MaxBreaks = 1
  MaxForeign = 1
  MaxEntries = 2
  MaxCommands = 2
SPECIFICATION Spec
INVARIANTS TypeOK NoCompletionLost HistoryWhole FilesFollowCandidates
INVARIANTS QualityReported QueueServed
PROPERTIES EveryCompletionTold EditsSafe ExchangesIsolated RequestSettles
PROPERTIES EscapeSendsHead
CHECK_DEADLOCK FALSE
