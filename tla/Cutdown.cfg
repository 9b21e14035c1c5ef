SPECIFICATION FairSpec
CONSTANTS
  Callers = {c1, c2}
  Requests <- MCRequests
  NWords = 2
  WordValues = {"0", "w"}
  Blank = "0"
  Switches <- MCSwitches
  MaxCalls = 2
  MaxToggles = 2
  Fd620 = TRUE
  Table <- MCTable
INVARIANTS
  TypeOK
  NoLostOverlay
  KeysAgree
  KeysReady
  ControlIsCurrent
PROPERTIES
  KeyOrder
  KeysFinallyReported
