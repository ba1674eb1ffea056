CONSTANTS
  Symbol = {"x", "a", "b", "c"}
  Input = {"x"}
  MaxCost = 1000
  MaxSolverCost = 1000
  ExtractGraphs <- Permuted
  Backends = {"greedy"}
SPECIFICATION ExtractSpec
INVARIANTS
  OperandsFollowReferences
