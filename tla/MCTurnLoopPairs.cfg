CONSTANTS
  read = read  shell = shell  spawnA = spawnA  spawnB = spawnB
  wait = wait  gate = gate  question = question
  Call = {read, shell, spawnA, spawnB, wait, gate, question}
  Asked = {shell, spawnA, spawnB}
  Agent = {spawnA, spawnB, wait}
  Process = {shell}
  Gate = {gate}
  Question = {question}
  Batch <- MCBatch
  MaxRounds = 2
  MaxPrompts = 2
  MaxTroubles = 1
  MaxCrashes = 1
SPECIFICATION Spec
CHECK_DEADLOCK FALSE
INVARIANT RequestsPaired
