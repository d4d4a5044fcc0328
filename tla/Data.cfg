SPECIFICATION Spec
CONSTANTS
  Null = Null
  Nothing = Nothing
  Item = {i1, i2, i3}
  Data = {d1, d2, d3}
  BlockSize = 2
  Key = {1, 2, 3, 4}
  Value = {a, b}
  Hashes <- MCHashes
  InitSize = 2
  LoadNum = 3
  LoadDen = 4
  Binaries <- MCBinaries
  Texts <- MCTexts
  HeaderLists <- MCHeaderLists
  Memories <- MCMemories
  Starts <- MCStarts
  Millis <- MCMillis
  Naps = {1, 999999, 1500000, 999999999}
  MaxWakes = 2
  Limit = 6
  MaxTopic = 4
SYMMETRY Symmetry
CHECK_DEADLOCK FALSE
INVARIANTS
  ListCorrect
  MapSound
  RoundTrips
  TimesRight
PROPERTIES
  ImplementsDictionary
