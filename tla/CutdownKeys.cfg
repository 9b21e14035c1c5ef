SPECIFICATION Spec
CONSTANTS
  Callers = {c1}
  Requests <- NoRequests
  NWords = 1
  WordValues = {"0"}
  Blank = "0"
  Switches <- MatrixSwitches
  MaxCalls = 2
  MaxToggles = 3
  Fd620 = FALSE
  Table <- MCTable
PROPERTIES
  KeyOrder
