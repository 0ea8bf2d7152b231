\* Three pages, two of which share a key; accesses of up to three pages.
SPECIFICATION Spec
CONSTANTS
  PageSize = 2
  MapSize = 2
  Pages = 3
  Byte = {0, 1}
  MaxSize = 4
INVARIANT Chained
PROPERTY Flat
