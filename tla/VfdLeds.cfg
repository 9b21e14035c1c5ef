SPECIFICATION Spec
CONSTANTS
  Users = {u1, u2}
  Attrs <- MCAttrs
  LedAttr = "dotled"
  Trees <- MCTrees
  MayFail = FALSE
INVARIANTS
  LedTableComplete
