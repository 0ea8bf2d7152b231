SPECIFICATION Spec
CONSTANT MaxBlocs = 4
INVARIANTS
  TypeOK
  RefCounts
  CollapseSucceeds
  DominatorsExact
  ReducibleExact
  ReducibleStays
  CodeWellFormed
  FollowsFlowUnshared
  AssignedBeforeRead
