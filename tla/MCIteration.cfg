SPECIFICATION Spec
CONSTANTS
  Function = {"f", "g", "h"}
  Library = {"h"}
  MaxCalls = 3
  MaxFaults = 2
INVARIANTS TypeOK FreshProgram
PROPERTIES NoMakeError Finishes
