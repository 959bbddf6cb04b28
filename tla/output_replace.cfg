SPECIFICATION Spec
CONSTANTS
  Writer = {w1, w2}
  Overwriters = {w1, w2}
  Prior = prior
  None = none
  Blocks = 2
INVARIANTS
  PermissionsKept
PROPERTIES
  ImplementsAtomicFile
CHECK_DEADLOCK FALSE
