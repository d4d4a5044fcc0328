SPECIFICATION SecureFairSpec
CONSTANTS
  Senders = {s1, s2}
  Reader = Reader
  Listeners = 2
  Unlimited = FALSE
  Keys = {k1, k2}
  NoKey = NoKey
  NoCipher = NoCipher
  Nobody = Nobody
CHECK_DEADLOCK FALSE
INVARIANTS
  OneOwner
  ListenersFollow
  KeysAgree
  KeyedUnlessSenderFailed
PROPERTIES
  ReconnectEnds
  StopEndsReader
