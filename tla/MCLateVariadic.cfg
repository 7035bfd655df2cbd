\* A sub-parser first, then a variadic argument
SPECIFICATION Spec
CONSTANTS
  Container <- MCContainers
  Root = "parser"
  Parent <- MCParent
  XorContainer = {"xor"}
  OptConf <- MCOptConf
  Misspelled = {"b "}
  ArgConf <- MCArgConf
  SubName = {"s", "t"}
INVARIANT SubParserIsLastArgument
CHECK_DEADLOCK FALSE
