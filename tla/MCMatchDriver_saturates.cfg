CONSTANTS
  Symbol = {"x", "a", "b", "n1", "n2", "n3", "n4", "n5"}
  Input <- MCInput
  Type <- MCType
  TypeOf <- MCTypeOf
  Op = {"g", "h", "h_tagged", "k"}
  Arity <- MCArity
  OperandType <- MCOperandType
  ResultType <- MCResultType
  Slot = {1}
  Graphs <- MCTower
  First <- MCFirst
  MaxPairs = 1
  Patterns <- TowerPatterns
  Rewrites <- MCRewrites
  Folds <- TagFolds
  MaxIterations = 0
  MaxCandidatesPerEClass = 0
  ClientCalls <- MCTowerCalls
SPECIFICATION FairDriverSpec
INVARIANTS
  DispatchesLive
PROPERTIES
  Saturates
  UsesFacade
  RunReturns
