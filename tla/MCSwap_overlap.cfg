\* Two requests whose handlers overlap.
SPECIFICATION Spec
CONSTANTS
  Task = {t1, t2}
  TxId = {1, 2, 3, 4}
  Req = {r1, r2}
  NoTx = NoTx
  NoReq = NoReq
  Restores = {"swap", "leg1"}
  RestoreOp = "invokeHostFunction"
  Selections = {"venue", "comp"}
  Targets = {"EURC"}
  InitialUsdc = 2
  PollTries = 1
  BalTries = 1
  Orphans = FALSE
  MaxSims = 1
  MaxClicks = 4
SYMMETRY Symmetry
INVARIANTS TypeOK OneSalePerRequest Leg2AfterLeg1 VerdictIsTrue Leg2SellsTheReceipt
PROPERTY Settles
CHECK_DEADLOCK FALSE
