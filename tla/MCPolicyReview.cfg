CONSTANTS
  None = None
  Rules <- KnownRules
  BundleTtl = 900
SPECIFICATION Spec
INVARIANTS TypeOK MinimumTreatment RouteStillEnough BandIsReference
CHECK_DEADLOCK FALSE
