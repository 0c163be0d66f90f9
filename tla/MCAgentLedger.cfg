CONSTANTS
  fg = fg
  bg = bg
  plain = plain
  p1 = p1
  h1 = h1
  Run = {fg, plain}
  Session = {p1}
  Key = {p1}
  KeyOf <- MCKeyOf
  NoKey = NoKey
  ParentOf <- MCParentOf
  Background = {plain}
  Delegated = {fg}
  RetryLimit = 1
  MaxConcurrent = 2
  HostCall = {h1}
  Path <- MCPath
  NoOwner = NoOwner
  MaxCrashes = 2
  MaxStoreFailures = 0
SPECIFICATION Spec
INVARIANTS ExclusivePaths
PROPERTIES KeepsLedger
CHECK_DEADLOCK FALSE
