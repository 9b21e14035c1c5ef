SPECIFICATION FairSpec
CONSTANTS
  Callers = {c1, c2}
  NWords = 1
  KeyReads = 1
  DisplayLen = 1
  Requests <- ProgressRequests
  Grid <- MCGrid
  Segno <- MCSegno
  Chars <- MCChars
  NullChar = "nul"
  Image <- MCImage
  BootText <- MCBootText
  HasInput = TRUE
  WeakOrder = FALSE
PROPERTIES
  EventuallyShown
  CallsReturn
