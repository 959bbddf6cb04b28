SPECIFICATION Spec
CONSTANTS
  Writer = {w1, w2}
  Overwriters = {}
  Prior = prior
  None = none
  Blocks = 2
INVARIANTS
  TypeOK
  NoTornFile
  SuccessDurable
  TempTidied
  OneWinner
PROPERTIES
  InvocationsEnd
  ImplementsAtomicFile
CHECK_DEADLOCK FALSE
