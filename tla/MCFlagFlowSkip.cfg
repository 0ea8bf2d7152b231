SPECIFICATION FlowSpec
CONSTANTS
  N = 2
  FLAG = {"CF", "ZF"}
  CanSkip = {"CF"}
INVARIANT ReadsServed
