CONSTANTS
  Symbol = {"x", "a", "b", "c"}
  Input = {"x"}
  MaxCost = 5
  MaxSolverCost = 4
  ExtractGraphs <- Families
  Backends = {"greedy", "z3-lp", "or-tools-lp"}
SPECIFICATION ExtractSpec
INVARIANTS
  SelectsExtraction
  RootCostsExact
  GreedyComplete
  GreedyCheapest
  LpComplete
  LpCheapest
  LpStable
PROPERTIES
  ExtractReturns
