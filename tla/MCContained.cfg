\* Two calls through the container
SPECIFICATION ContainerSpec
CONSTANTS
  Main = "main"
  Parser <- MCParsers
  Option <- MCOptions
  Argument <- MCArguments
  Word <- MCWords
  Name <- MCNames
  Sub <- MCSub
  Opt <- MCOpt
  Arg <- MCArg
  Lex <- MCLex
  TakesParam <- MCTakesParam
  Repeats <- MCRepeats
  Hooked <- MCHooked
  Mandatory <- MCMandatory
  OptionsMeet <- WalkAccepts
  Formula <- FormulaAccepts
  Containers <- MCContainers
  Parts <- MCParts
  Height <- MCHeight
  Default <- MCDefault
  Bad <- MCBad
  Invalid <- MCInvalid
  CommandLine <- MCCommandLines
  MaxCalls = 2
  Recovers = TRUE
  ShortLine = 2
  LongLine = 3
  CoreWord = {"-v", "-vl=7", "7", "add", "del", "deep"}
INVARIANT UsedIsSatisfied
PROPERTY ImplementsContainer
CHECK_DEADLOCK FALSE
