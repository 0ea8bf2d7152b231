SPECIFICATION Spec
CONSTANT MaxBlocs = 4
INVARIANT FollowsFlow
