SPECIFICATION TrafficSpec
CONSTANTS
  Ip = {page}
  Page = page
  Route = {"quote", "asset-balance", "build", "submit", "tx-status"}
  Limit <- MCLimit
  Window = 40
  Absent = Absent
  MaxTime = 12
  PollTries = 20
  BalTries = 10
INVARIANT EachRouteHasItsLimit
CHECK_DEADLOCK FALSE
