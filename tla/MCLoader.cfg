SPECIFICATION Spec
CONSTANTS
  Lib = {A, B}
  Based = {B}
  Host = {H}
  Absent = {X}
  Symbols = 1
  Last = 7
  Base = {0, 1, 5, 6}
  Size = {1}
  MaxImports = 3
  MaxEntries = 1
INVARIANTS TypeOK Resolved InDirectory LoadedOnce
PROPERTIES Ends
