\* Short lines are enough for the question.
SPECIFICATION Spec
CONSTANTS
  Main = "main"
  Parser <- MCParsers
  Option <- MCOptions
  Argument <- MCArguments
  Word <- MCWords
  Name <- MCNames
  Sub <- MCSub
  Opt <- MCOpt
  Arg <- MCArg
  Lex <- MCLex
  TakesParam <- MCTakesParam
  Repeats <- MCRepeats
  Hooked <- MCHooked
  Mandatory <- MCMandatory
  OptionsMeet <- WalkAccepts
  Formula <- FormulaAccepts
  Containers <- MCContainers
  Parts <- MCParts
  Height <- MCHeight
  Default <- MCDefault
  Bad <- MCBad
  Invalid <- MCInvalid
  CommandLine <- MCCommandLines
  MaxCalls = 1
  ShortLine = 1
  LongLine = 3
  CoreWord = {"-v", "-n", "-l=x", "-vl=7", "7", "add", "del", "deep"}
INVARIANT ProceedKeepsValue
CHECK_DEADLOCK FALSE
