CONSTANTS
  Messages <- MCMessages
  CfCount <- MCCfCount
  SnModulus = 2
  Seeds <- MCSeeds
  Values <- MCValues
  FirstValue = "v0"
  Requests <- MCRequests
  Responses <- MCResponses
  NoPdu = NoPdu
  MaxRequests = 4
  MaxConfigs = 2
  MaxTroubles = 1
SPECIFICATION Spec
INVARIANTS ServedWhole HeardWhole KeyOncePerSeed
PROPERTY BurstEnds
