CONSTANTS
  s1 = s1
  s2 = s2
  Parts = {"both"}
  Streams = {s1}
  MaxRekeys <- BothOnce
  MaxData <- NoCalls
  MaxFINs <- NoCalls
  MaxResets <- NoCalls
  Deadlines = FALSE
SPECIFICATION PartsSpec
INVARIANT PendingACKReadable
CHECK_DEADLOCK FALSE
