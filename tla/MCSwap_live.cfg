SPECIFICATION FairSpec
CONSTANTS
  Task = {t1, t2}
  TxId = {1, 2, 3, 4}
  Req = {r1}
  NoTx = NoTx
  NoReq = NoReq
  Restores = {"leg2"}
  RestoreOp = "restoreFootprint"
  Selections = {"none", "venue", "sb", "comp", "compSb"}
  Targets = {"EURC"}
  InitialUsdc = 2
  PollTries = 2
  BalTries = 2
  Orphans = TRUE
  MaxSims = 0
  MaxClicks = 4
INVARIANTS OneSalePerRequest Leg2SellsTheReceipt BusyHasHandler
PROPERTIES BusyReleases Settles
CHECK_DEADLOCK FALSE
