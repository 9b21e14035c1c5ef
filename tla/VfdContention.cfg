SPECIFICATION Spec
CONSTANTS
  Callers = {c1, c2}
  NWords = 2
  KeyReads = 1
  DisplayLen = 1
  Requests <- MixedRequests
  Grid <- MCGrid
  Segno <- MCSegno
  Chars <- MCChars
  NullChar = "nul"
  Image <- MCImage
  BootText <- NoBootText
  HasInput = FALSE
  WeakOrder = FALSE
INVARIANTS
  ChipHoldsRawDisplay
