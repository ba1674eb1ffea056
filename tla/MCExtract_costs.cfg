CONSTANTS
  Symbol = {"x", "a", "b", "c"}
  Input = {"x"}
  MaxCost = 5
  MaxSolverCost = 1000
  ExtractGraphs <- Aliased
  Backends = {"greedy"}
SPECIFICATION ExtractSpec
INVARIANTS
  RootCostsTotal
