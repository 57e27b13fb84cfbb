SPECIFICATION Spec
CONSTANTS
  Fds = {f1}
  Dispatchers = {t1}
  MaxAdds = 2
  MaxCloses = 1
INVARIANTS
  TriggerAssert
