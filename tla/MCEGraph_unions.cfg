CONSTANTS
  Symbol = {"x", "p", "a", "b", "c", "d"}
  Input <- MCInput
  Type <- MCType
  TypeOf <- MCTypeOf
  Op <- MCOp
  Arity <- MCArity
  OperandType <- MCOperandType
  ResultType <- MCResultType
  Slot = {1, 2}
  Graphs <- MCUnions
  First <- MCFirst
  MaxPairs = 1
SPECIFICATION FairSpec
INVARIANTS
  EClassLeads
  HashConsSound
  TargetsExtractable
PROPERTIES
  RebuildSettles
  ImplementsCongruenceGraph
  CallsReturn
