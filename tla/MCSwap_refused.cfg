\* A build that needs a state restore, as Stellar names its operation.
SPECIFICATION Spec
CONSTANTS
  Task = {t1, t2}
  TxId = {1, 2, 3, 4, 5}
  Req = {r1}
  NoTx = NoTx
  NoReq = NoReq
  Restores = {"swap"}
  RestoreOp = "restoreFootprint"
  Selections = {"none", "venue"}
  Targets = {"USDC", "EURC"}
  InitialUsdc = 2
  PollTries = 1
  BalTries = 2
  Orphans = FALSE
  MaxSims = 0
  MaxClicks = 5
SYMMETRY Symmetry
INVARIANT OwnBuildsAreAllowed
CHECK_DEADLOCK FALSE
