SPECIFICATION Spec
CONSTANTS
  Requests = {r1, r2, r3}
  None = None
  Connections = 2
  Events = {"static", "public", "protected", "health", "fault", "stop", "kill"}
SYMMETRY SlotSymmetry
INVARIANTS IInv HoldersGoOn LogTellsAnswer
