\* An xor container in an and container in an xor container
SPECIFICATION Spec
CONSTANTS
  Shape <- MCNested
  Tree <- MCTree
  Parts <- MCParts
  Height <- MCHeight
  Refused <- MCRefused
  OptionName <- MCNames
INVARIANT AssertionHolds
CHECK_DEADLOCK FALSE
