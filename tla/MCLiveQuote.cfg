SPECIFICATION Spec
CONSTANTS
  Adapter <- Venues
  Amount = {1, 2}
  AmountIn = 3
  None = None
INVARIANTS TypeOK CompositeIsFed ObservedIsSimulated BestRowIsTheTarget
CHECK_DEADLOCK FALSE
