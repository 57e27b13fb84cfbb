SPECIFICATION Spec
CONSTANTS
  r = r
  w = w
  a = a
  b = b
  c = c
  s = s
  Nil = Nil
  Threads <- MCThreads
  User <- MCUser
  Root = r
  Sched = s
SYMMETRY UserSymmetry
\* A broken program takes no more steps.
CHECK_DEADLOCK FALSE
INVARIANT Coherent
PROPERTY ImplementsCoroutines
