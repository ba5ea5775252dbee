CONSTANTS
  s1 = s1
  s2 = s2
  Parts = {"both", "streams", "finished", "faults", "packed"}
  Streams = {s1}
  MaxRekeys <- BothOnce
  MaxData <- NoCalls
  MaxFINs <- NoCalls
  MaxResets <- NoCalls
  Deadlines = FALSE
SPECIFICATION PartsSpec
INVARIANTS RekeyAgrees StreamsFollow
PROPERTIES NoncesNeverReused UpdatesEnd ImplementsLedger
CHECK_DEADLOCK FALSE
