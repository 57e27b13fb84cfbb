SPECIFICATION Spec
CONSTANTS
  PayloadBits = 3
  Width = 8
  m_baseSize = 2
  MaxCapacity = 6
  MaxWrites = 2
  Requests = {0, 3, 4, 7}
  Items <- MCItems
  Received <- MCReceived
CHECK_DEADLOCK FALSE
INVARIANTS
  WellFormed
  ItemsReadBack
PROPERTIES
  ImplementsFlatBuffer
