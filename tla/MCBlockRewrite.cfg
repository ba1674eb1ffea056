SPECIFICATION RewriteFairSpec
CONSTANTS
  Symbol <- MCSymbol
  Input <- MCInput
  Type <- MCType
  TypeOf <- MCTypeOf
  Op <- MCOp
  Arity <- MCArity
  OperandType <- MCOperandType
  ResultType <- MCResultType
  Slot = {1, 2}
  Graphs <- MCGraphs
  First <- MCFirst
  MaxPairs = 1
  Value <- MCValue
  Eval <- MCEval
  ArgName <- MCArgName
  Blocks <- MCBlocks
  MaxId = 5
  Callers <- MCCallers
  Asked <- MCAsked
INVARIANTS
  MeaningSound
  BlockValid
  MaterializedSound
  ClonesCurrent
  FailsOnlyUngrounded
PROPERTIES
  ResultsAsRequested
  FailureLeavesBlock
  MaterializeReturns
