CONSTANTS
  s1 = s1
  s2 = s2
  Parts = {"both"}
  Streams = {s1}
  MaxRekeys <- ClientOnly
  MaxData <- NoCalls
  MaxFINs <- NoCalls
  MaxResets <- NoCalls
  Deadlines = FALSE
SPECIFICATION QuietSpec
PROPERTY RekeyCompletes
CHECK_DEADLOCK FALSE
