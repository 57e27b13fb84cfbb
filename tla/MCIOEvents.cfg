SPECIFICATION Spec
CONSTANTS
  Fds = {f1}
  Dispatchers = {t1, t2}
  MaxAdds = 4
  MaxCloses = 2
SYMMETRY Symmetry
INVARIANTS
  WaiterOnce
  RegistrationsAgree
  NoMissedEdge
