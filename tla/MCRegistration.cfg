\* Every order in which options, containers, arguments and sub-parsers register
SPECIFICATION Spec
CONSTANTS
  Container <- MCContainers
  Root = "parser"
  Parent <- MCParent
  XorContainer = {"xor"}
  OptConf <- MCOptConf
  Misspelled = {"b "}
  ArgConf <- MCArgConf
  SubName = {"s", "t"}
INVARIANT TypeOK
INVARIANT Unambiguous
INVARIANT Assignable
INVARIANT OptionalOrSubParser
INVARIANT DescriptionsOfArguments
CHECK_DEADLOCK FALSE
