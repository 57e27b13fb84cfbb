SPECIFICATION Spec
CONSTANTS
  Timers = {a, b}
  Servers = {w1, w2}
  Periods = {0, 1}
  Never = 3
  Hour = 0
  MaxTime = 1
  MaxOps = 1
SYMMETRY Symmetry
INVARIANTS
  KeysDistinct
  OneShotAtMostOnce
  NeverOversleeps
  OncePerBatch
PROPERTIES
  LostOnlyToTie
