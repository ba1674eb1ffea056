CONSTANTS
  Symbol = {"x", "y", "n", "a"}
  Input <- MCInput
  Type = {"i32"}
  TypeOf <- MCTypeOf
  Op = {"f"}
  Arity <- MCArity
  OperandType <- MCOperandType
  ResultType <- MCResultType
  Slot = {1}
  Graphs <- MCBodies
  First <- MCFirst
  MaxPairs = 2
  Listed <- MCListed
  Bits = 3
  MaxHeld = 1
  MaxIssued = 9
SPECIFICATION IndexSpec
INVARIANTS
  Inv
  HandlesExact
  LookupsExact
  EntriesAgree
