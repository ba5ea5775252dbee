CONSTANTS
  s1 = s1
  s2 = s2
  Parts = {"both"}
  Streams = {s1}
  MaxRekeys <- ClientOnly
  MaxData <- NoCalls
  MaxFINs <- ServerOnly
  MaxResets <- NoCalls
  Deadlines = FALSE
SPECIFICATION PartsSpec
INVARIANT FailuresStayStreamScoped
CHECK_DEADLOCK FALSE
