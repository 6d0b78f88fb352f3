SPECIFICATION FairSpec
CONSTANTS
  Users = {u1}
  Requests = {r1, r2}
  None = None
  Lifetime = 1
  LastSecond = 2
  Events = {"login", "refresh", "logout", "delete_user"}
PROPERTIES EveryRequestEnds AnsweredTokenIsStored
