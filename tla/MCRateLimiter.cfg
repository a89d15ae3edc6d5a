SPECIFICATION Spec
CONSTANTS
  Ip = {a, b}
  Route = {"submit", "quote"}
  Limit <- MCLimit
  Window = 1
  Absent = Absent
  MaxTime = 4
INVARIANTS TypeOK BurstIsBounded QuietIsServed
CHECK_DEADLOCK FALSE
