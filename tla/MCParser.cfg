\* One call on every command line of at most three words, and of five of the core words.
SPECIFICATION Spec
CONSTANTS
  Main = "main"
  Parser <- MCParsers
  Option <- MCOptions
  Argument <- MCArguments
  Word <- MCWords
  Name <- MCNames
  Sub <- MCSub
  Opt <- MCOpt
  Arg <- MCArg
  Lex <- MCLex
  TakesParam <- MCTakesParam
  Repeats <- MCRepeats
  Hooked <- MCHooked
  Mandatory <- MCMandatory
  OptionsMeet <- WalkAccepts
  Formula <- FormulaAccepts
  Containers <- MCContainers
  Parts <- MCParts
  Height <- MCHeight
  Default <- MCDefault
  Bad <- MCBad
  Invalid <- MCInvalid
  CommandLine <- MCCommandLines
  MaxCalls = 1
  ShortLine = 3
  LongLine = 5
  CoreWord = {"-v", "-n", "-l=x", "-vl=7", "7", "add", "del", "deep"}
INVARIANT TypeOK
INVARIANT ValuesOfCommandLine
INVARIANT VerdictOfCommandLine
PROPERTY Progress
PROPERTY CallReturns
CHECK_DEADLOCK FALSE
