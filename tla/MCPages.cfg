CONSTANTS
  MaxFrames = 2
  Ifaces <- MCIfaces
  Serial <- MCSerial
  Physical <- MCPhysical
  MaxClicks = 3
  MaxInputs <- MCInputs
  Releases = {1, 2, 3}
  SendFrames = {a, b}
  BadFrame = bad
  MaxCapture = 6
  MaxItems = 3
  Payloads <- MCPayloads
  MaxSnapshot = 2
  MaxResults = 2
  MaxRows = 2
  Mappings <- MCMappings
  MaxRecent = 1
  Offers <- MCOffers
  MaxTraces = 2
  Used <- PageNames
SPECIFICATION Spec
INVARIANTS RecordingSound TriggerSound JobsSound WiresSound SendsSound SimulatorsSound
INVARIANTS VerdictsSound ViewsSound DocumentsSound
PROPERTIES LiveFades JobsEnd
\* frames, clicks and inputs are bounded
CHECK_DEADLOCK FALSE
