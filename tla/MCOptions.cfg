\* Every tree of up to three levels with every set of given options
SPECIFICATION Spec
CONSTANTS
  Shape <- MCShape
  Tree <- MCTree
  Parts <- MCParts
  Height <- MCHeight
  Refused <- MCRefused
  OptionName <- MCNames
INVARIANT TypeOK
INVARIANT AcceptsTheFormula
CHECK_DEADLOCK FALSE
