SPECIFICATION Spec
CONSTANTS
  Top = 7
  Page = 2
  Module = {"main"}
INVARIANTS
  Disjoint
  FirstHole
  WholePages
PROPERTY
  SearchEnds
