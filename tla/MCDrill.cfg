SPECIFICATION MCSpec
CONSTANTS
  Basic = {b1}
  Advanced = {a1}
  Drills = {d1, d2}
  Flags = {adHighCpu, recommendationCacheFailure}
  adHighCpu = adHighCpu
  recommendationCacheFailure = recommendationCacheFailure
  MaxWrites = 2
  MaxDrills = 1
  NoText = NoText
  Empty = Empty
  Null = Null
  Error = Error
  Torn = Torn
  NoDrill = NoDrill
  AdCalls = {c1, c2}
  MaxInstances = 2
  MaxSpinning = 3
  RecCalls = {r1, r2}
  CatalogueIds = {p1}
INVARIANTS
  BadFileHasCause
  ChangesSurvive
  EmptyCacheHasCause
PROPERTIES
  LoadStops
CHECK_DEADLOCK FALSE
