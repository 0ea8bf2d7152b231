SPECIFICATION Spec
INVARIANT ExitedNormally
