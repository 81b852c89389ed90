\* Two publishers, two faults of any kind, and a sink that refuses the first row
\* for ever.
CONSTANTS
  p1 = p1  p2 = p2
  Publishers = {p1, p2}
  Feed <- TwoLevelFeed
  BatchLimit = 2
  SinkRefuses = {1}
  None = None
  MaxFaults = 2
SPECIFICATION Spec
INVARIANTS AuditedOnce ChainVerifies NeverCollides PublishedMeansDelivered
PROPERTY EventuallyPublished
