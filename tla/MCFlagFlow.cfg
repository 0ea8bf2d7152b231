SPECIFICATION FlowSpec
CONSTANTS
  N = 3
  FLAG = {"CF"}
  CanSkip = {}
INVARIANTS
  AllSettled
  NothingSuperfluous
  ReadsServed
PROPERTY
  AnalysisEnds
