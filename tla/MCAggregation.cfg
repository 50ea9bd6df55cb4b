SPECIFICATION Spec
CONSTANTS
  Products = {1, 2}
  a = a
  b = b
  Nul = nul
  Uuid = uuid
  Bytes <- MCBytes
  Nested <- MCNested
  Users <- MCUsers
  Clicks <- MCClicks
  Loop = loop
  Requests = {r1}
  None = None
  Peers = 1
  MaxScore = 2
INVARIANTS
  TypeOK
  QuietCycleCounts
  QuietCycleProfiles
  QuietCycleRelates
  ProfilesAreOwn
  QuietCycleBrands
  QuietCycleMirrors
PROPERTIES
  SignalsCatchUp
  ProfilesCatchUp
