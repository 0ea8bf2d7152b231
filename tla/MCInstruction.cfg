CONSTANTS
  Reg = {a, b}
  nil = nil
  MaxOps = 3
  Depth = 3
SPECIFICATION CoreSpec
INVARIANTS Exact StackExact
