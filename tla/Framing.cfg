SPECIFICATION FairSpec
CONSTANTS
  Preamble = 2
  Header = 3
  Payloads = {0, 1, 4}
  BufferSize = 6
  MaxSent = 2
CHECK_DEADLOCK FALSE
INVARIANTS
  WholeAndInOrder
  BufferFits
PROPERTIES
  Arrives
