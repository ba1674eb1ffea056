CONSTANTS
  Symbol = {"x", "y", "z", "lhs", "rhs", "parent", "tail", "n1"}
  Input <- MCInput
  Type <- MCType
  TypeOf <- MCTypeOf
  Op = {"op_a", "rhs_b", "parent_b", "tail_b", "added_b"}
  Arity <- MCArity
  OperandType <- MCOperandType
  ResultType <- MCResultType
  Slot = {1}
  Graphs <- MCDriverTest
  First <- MCFirst
  MaxPairs = 1
  Patterns <- DriverTestPatterns
  Rewrites <- MCRewrites
  Folds <- NoFolds
  MaxIterations = 0
  MaxCandidatesPerEClass = 0
  ClientCalls <- MCDriverTestCalls
SPECIFICATION FairDriverSpec
INVARIANTS
  TailBecomesStale
