CONSTANTS
  Symbol = {"x", "a", "b", "n1", "n2"}
  Input <- MCInput
  Type = {"i1", "i32"}
  TypeOf <- MCTypeOf
  Op = {"g"}
  Arity <- MCArity
  OperandType <- MCOperandType
  ResultType <- MCResultType
  Slot = {1}
  Graphs <- MCGraphs
  First <- MCFirst
  MaxPairs = 2
  Tx = {t1}
  Built <- MCBuilt
  Known = {"a"}
  MaxOps = 2
  MaxEvents = 2
  MaxGeneration = 1
SPECIFICATION TxSpec
PROPERTIES
  FailureKeepsGraph
  CommitDoesAll
  UsesFacade
CHECK_DEADLOCK FALSE
