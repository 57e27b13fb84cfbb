SPECIFICATION FairSpec
CONSTANTS
  Numbers = {2, 3, 4}
  InitialSizes = {2}
  MaxSocks = 2
  MaxLoops = 2
  MaxStops = 1
  MaxConns = 1
  MaxErrors = 1
  Rushed = {"bind"}
\* An idle server waits for peers.
CHECK_DEADLOCK FALSE
INVARIANTS
  NumbersOwned
  AbortsExplained
PROPERTIES
  LoopsEnd
  ClientsAccepted
