CONSTANTS
  lock = lock  disk = disk  NoSignature = NoSignature
  Timeout = 2
  MaxHeld = 1
  Target = 2
  MaxGen = 3
  Watched = 1
  Rounds = 2
  Signatures = {lock, disk}
SPECIFICATION FairSpec
CHECK_DEADLOCK FALSE
INVARIANTS CircuitEarned CircuitNotByOne
PROPERTIES KillsOnlySilent KillsOnlyWatched HungIsReplaced
