\* The sessions of one tab, closed and reopened, and their recoveries.
SPECIFICATION FairSpec
CONSTANTS
  Tab = {t1}
  Account = {a1, a2}
  NoAccount = NoAccount
  Attempts = 3
  Lots = 2
  MaxCloses = 2
INVARIANTS TypeOK EndedMeansReturned
PROPERTIES SessionEnds 
CHECK_DEADLOCK FALSE
