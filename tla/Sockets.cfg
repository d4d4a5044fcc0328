SPECIFICATION Spec
CONSTANTS
  Clients = {"a", "b"}
  Capacity = 1
  Work <- MCWork
PROPERTIES ReaderContinues
CHECK_DEADLOCK FALSE
