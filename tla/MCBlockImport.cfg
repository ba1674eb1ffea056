CONSTANTS
  ArgName <- MCArgName
  Blocks <- MCBlocks
SPECIFICATION ImportSpec
INVARIANTS
  ImportsExactly
  NamesDistinct
  TermsKept
CHECK_DEADLOCK FALSE
