SPECIFICATION Spec
CONSTANTS
  Callers = {c1, c2}
  NWords = 1
  KeyReads = 1
  DisplayLen = 1
  Requests <- ControlRequests
  Grid <- MCGrid
  Segno <- MCSegno
  Chars <- MCChars
  NullChar = "nul"
  Image <- MCImage
  BootText <- NoBootText
  HasInput = TRUE
  WeakOrder = FALSE
INVARIANTS
  ControlIsCurrent
