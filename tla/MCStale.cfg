\* A line that is interrupted by --help and a second line
SPECIFICATION ContainerSpec
CONSTANTS
  Main = "main"
  Parser <- MCParsers
  Option <- MCOptions
  Argument <- MCArguments
  Word <- MCWords
  Name <- MCNames
  Sub <- MCSub
  Opt <- MCOpt
  Arg <- MCArg
  Lex <- MCLex
  TakesParam <- MCTakesParam
  Repeats <- MCRepeats
  Hooked <- MCHooked
  Mandatory <- MCMandatory
  OptionsMeet <- WalkAccepts
  Formula <- FormulaAccepts
  Containers <- MCContainers
  Parts <- MCParts
  Height <- MCHeight
  Default <- MCDefault
  Bad <- MCBad
  Invalid <- MCInvalid
  CommandLine <- MCCommandLines
  MaxCalls = 2
  Recovers = FALSE
  ShortLine = 1
  LongLine = 2
  CoreWord = {"-v", "-n", "-l=x", "-vl=7", "7", "add", "del", "deep"}
INVARIANT ParsedIsCurrent
CHECK_DEADLOCK FALSE
