\* One failed delivery.
CONSTANTS
  p1 = p1  p2 = p2
  Publishers = {p1, p2}
  Feed <- SmallFeed
  BatchLimit = 2
  SinkRefuses = {}
  None = None
  MaxFaults = 1
SPECIFICATION Spec
INVARIANT AuditFollowsSequence
