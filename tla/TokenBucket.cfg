SPECIFICATION FairSpec
CONSTANTS
  num = 2
  B = 2
  Needs = {2, 3}
  s1 = s1
  s2 = s2
  Server <- MCServer
  NoThread = NoThread
INVARIANTS
  TypeOK
  MutualExclusion
  HeadWaitsForTokens
  PacketsAreServed
  NoPacketLeft
PROPERTIES
  EmulationEnds
