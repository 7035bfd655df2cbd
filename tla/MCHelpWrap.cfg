\* One word is enough for the question.
SPECIFICATION HelpSpec
CONSTANTS
  Main = "main"
  Parser <- MCParsers
  Option <- MCOptions
  Argument <- MCArguments
  Word <- MCWords
  Name <- MCNames
  Sub <- MCSub
  Opt <- MCOpt
  Arg <- MCArg
  Lex <- MCLex
  TakesParam <- MCTakesParam
  Repeats <- MCRepeats
  Hooked <- MCHooked
  Mandatory <- MCMandatory
  OptionsMeet <- WalkAccepts
  Formula <- FormulaAccepts
  Containers <- MCContainers
  Parts <- MCParts
  Height <- MCHeight
  Default <- MCDefault
  Bad <- MCBad
  Invalid <- MCInvalid
  CommandLine <- MCCommandLines
  MaxCalls = 1
  HelpOption <- MCHelpOption
  NameSize <- MCNameSize
  WordSize <- MCWordSize
  Rank <- MCRank
  MaxRecDepth = 3
  ClientDepth = {0, 3}
  ShortLine = 1
  LongLine = 1
  CoreWord = {"-v", "-vl=7", "7", "add", "del", "deep"}
PROPERTY HelpRequestsExit
CHECK_DEADLOCK FALSE
