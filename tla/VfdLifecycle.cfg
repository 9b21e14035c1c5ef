SPECIFICATION FairSpec
CONSTANTS
  Users = {u1, u2}
  Attrs <- MCAttrs
  LedAttr = "dotled"
  Trees <- MCTrees
  MayFail = TRUE
INVARIANTS
  TypeOK
  HandlersFindDevice
  UnboundHasNoFiles
  KeysReady
PROPERTIES
  RemovalEnds
