SPECIFICATION Spec
CONSTANTS
  Requests = {r1, r2}
  None = None
  Connections = 1
  Events = {"public", "protected", "health"}
INVARIANTS ServerErrorIsLogged
