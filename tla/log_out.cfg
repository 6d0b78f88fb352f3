SPECIFICATION FairSpec
CONSTANTS
  Users = {u1}
  Requests = {r1, r2}
  None = None
  Lifetime = 1
  LastSecond = 0
  Events = {"login", "logout"}
PROPERTIES LogoutIsFinal
