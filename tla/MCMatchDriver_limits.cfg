CONSTANTS
  Symbol = {"x", "y", "p", "a", "b", "n1", "n2", "n3"}
  Input <- MCInput
  Type <- MCType
  TypeOf <- MCTypeOf
  Op = {"g", "h", "add"}
  Arity <- MCArity
  OperandType <- MCOperandType
  ResultType <- MCResultType
  Slot = {1}
  Graphs <- MCSums
  First <- MCFirst
  MaxPairs = 1
  Patterns <- SumPatterns
  Rewrites <- MCRewrites
  Folds <- AddFolds
  MaxIterations = 2
  MaxCandidatesPerEClass = 2
  ClientCalls <- MCSumCalls
SPECIFICATION DriverSpec
INVARIANTS
  DriverTypeOK
  FailsOnlyByPattern
PROPERTIES
  ReturnsClean
