CONSTANTS
  MaxSlots = 3
SPECIFICATION SessionSpec
INVARIANTS LedgerSafe BudgetsExact SetupAgrees StreamsAgree DatagramsOnce HandshakeAgrees ControlSafe RecordsFit
PROPERTIES NoRevival SessionEnds
CHECK_DEADLOCK FALSE
