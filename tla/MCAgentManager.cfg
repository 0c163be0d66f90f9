CONSTANTS
  fg = fg
  bg = bg
  plain = plain
  p1 = p1
  h1 = h1
  Run = {fg, bg, plain}
  Session = {p1}
  Key = {p1}
  KeyOf <- MCKeyOf
  NoKey = NoKey
  ParentOf <- MCParentOf
  Background = {bg, plain}
  Delegated = {fg, bg}
  RetryLimit = 1
  MaxConcurrent = 1
  HostCall = {}
  Path <- MCOne
  NoOwner = NoOwner
  MaxCrashes = 1
  MaxStoreFailures = 1
SPECIFICATION Spec
INVARIANTS TypeOK LeasesFollowRuns ReportsAreFinal RecoveryClosesRuns HandlesUnique
PROPERTIES DurableLifecycle
CHECK_DEADLOCK FALSE
