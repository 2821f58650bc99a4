SPECIFICATION TriageSpec
CONSTANTS
  Items <- MCItems
  Prices = {4999, 5000, 10000, 10001}
INVARIANT FlawlessIsNotRecycled
CHECK_DEADLOCK FALSE
