SPECIFICATION Spec
CONSTANTS
  Callers = {c1, c2}
  NWords = 3
  KeyReads = 1
  DisplayLen = 2
  Requests <- ContentRequests
  Grid <- MCGrid
  Segno <- MCSegno
  Chars <- MCChars
  NullChar = "nul"
  Image <- MCImage
  BootText <- MCBootText
  HasInput = FALSE
  WeakOrder = FALSE
INVARIANTS
  TypeOK
  NoLostUpdate
  ChipHoldsRawDisplay
PROPERTIES
  LedOwnsItsBit
  MirrorsContent
