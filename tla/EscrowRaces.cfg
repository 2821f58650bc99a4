SPECIFICATION Spec
CONSTANTS
  Lambdas = {l1, l2, l3}
  MatchIds = {m1}
  Terms = {t1, t2}
  BadTerms = BadTerms
  LaggingReads = TRUE
  Retries = TRUE
  NoMatch = NoMatch
  Idle = Idle
  MaxStored = 3
  MaxPaid = 9
CONSTRAINT Bounds
SYMMETRY Symmetry
INVARIANT TypeOK
INVARIANT TermsWereLocked
INVARIANT PayoutsBounded
PROPERTY OnlyStaleWritesBreakLedger
CHECK_DEADLOCK FALSE
