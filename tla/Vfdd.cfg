SPECIFICATION Spec
CONSTANTS
  Units <- MCUnits
  Letters <- MCLetters
  FreeUnits <- MCFreeUnits
  FreeLength = 8
  Scripts <- MCScripts
  ScratchSize = 1
  Powers <- MCPowers
  Longest = 600
  Word <- MCWord
  GlyphCodes = {"A", "B"}
  SIGPIPE = SIGPIPE
  SIGSEGV = SIGSEGV
  Signals = {SIGINT, SIGHUP, SIGPIPE}
  MaxSignals = 3
INVARIANTS
  NodesInTree
  PrintsWhatItRead
  MembersInPlace
  ScratchWellFormed
  OverlayShowsWord
  SignalsHeard
PROPERTIES
  DestroyedIsOver
  EventuallyEnds
