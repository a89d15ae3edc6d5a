\* One tab, whose funding lands after a recovery has looked for its account.
SPECIFICATION Spec
CONSTANTS
  Tab = {t1}
  Account = {a1, a2}
  NoAccount = NoAccount
  Attempts = 3
  Lots = 1
  MaxCloses = 0
SYMMETRY Symmetry
INVARIANT FundsHaveATrace
CHECK_DEADLOCK FALSE
