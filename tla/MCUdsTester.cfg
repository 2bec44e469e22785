CONSTANTS
  qs = qs
  qm = qm
  qn = qn
  rs = rs
  rm = rm
  rn = rn
  Messages <- MCMessages
  Requests <- MCRequests
  Responses <- MCResponses
  CfCount <- MCCfCount
  NoMsg = NoMsg
  SnModulus = 2
  BlockSizes = {0, 1}
  MaxRequests = 3
  MaxConfigs = 1
  MaxTroubles = 1
SPECIFICATION Spec
INVARIANTS NoUntimedWait ResponsesWhole RequestsWhole
PROPERTY ComesToRest
\* the client's requests are bounded: the system rests in the end
CHECK_DEADLOCK FALSE
