CONSTANTS
  None = None
  Closers = {"c1"}
  Waiters = {"w"}
  MaximumAttempts = 2
  InitialDelay = 2
  MaxDelay = 3
  BackoffFactor = 2
  RetryAfters = {0, 3}
  MaxAcquires = 3
  Calls = {1, 2}
  Candidates = {"q", "w"}
  Scenarios <- ConnectScenarios
SPECIFICATION ClientSpec
INVARIANTS OneLiveSession AttemptsPaced SpentOnce DocumentsAgree OffersFit
PROPERTIES ImplementsLifecycle ClientEnds
CHECK_DEADLOCK FALSE
