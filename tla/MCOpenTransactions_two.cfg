CONSTANTS
  Symbol = {"x", "a", "b", "n1", "n2"}
  Input <- MCInput
  Type = {"i32"}
  TypeOf <- MCTypeOf
  Op = {"g"}
  Arity <- MCArity
  OperandType <- MCOperandType
  ResultType <- MCResultType
  Slot = {1}
  Graphs <- MCGraphs
  First <- MCFirst
  MaxPairs = 1
  Tx = {t1, t2}
  Built <- MCBuiltUnary
  Known = {"b", "x"}
  MaxOps = 1
  MaxEvents = 1
  MaxGeneration = 2
SYMMETRY Exchange
SPECIFICATION TxSpec
PROPERTIES
  CommitsExactlyCurrent
CHECK_DEADLOCK FALSE
