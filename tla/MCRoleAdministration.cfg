\* Two requests at once over four rows.
CONSTANTS
  q1 = q1  q2 = q2  admin = admin  user = user
  Requests = {q1, q2}
  Principals = {admin, user}
  DemoRoles <- SmallDemo
  Offered <- SmallOffer
  Environments = {""}
  Deadlines = {1}
  None = None
  MaxTime = 1
  MaxRows = 4
SPECIFICATION Spec
SYMMETRY Interchangeable
INVARIANTS
  TrailExplainsRows
  RegrantFollowsRevocation
