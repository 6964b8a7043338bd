SPECIFICATION Spec
CONSTANTS
  Turns = {t1, t2}
  BufferCap = 2
  MaxFragments = 3
  Bindings = {"user"}
  Modes = {"stream"}
SYMMETRY TurnSymmetry
INVARIANTS
  TranscriptSound
CHECK_DEADLOCK FALSE
