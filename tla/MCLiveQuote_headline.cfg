SPECIFICATION Spec
CONSTANTS
  Adapter <- Venues
  Amount = {1, 2}
  AmountIn = 3
  None = None
INVARIANT HeadlineIsTheFill
CHECK_DEADLOCK FALSE
