SPECIFICATION FairSpec
CONSTANTS
  Requests = {r1, r2, r3}
  None = None
  Connections = 2
  Events = {"protected"}
PROPERTIES EveryRequestEnds
