SPECIFICATION FairSpec
CONSTANTS
  Senders = {s1, s2}
  Reader = Reader
  Listeners = 2
  Unlimited = FALSE
CHECK_DEADLOCK FALSE
PROPERTIES
  ReaderKeepsRetrying
