\* Two calls of one parser object, each on a line of at most two words, or of
\* three of the core words.
SPECIFICATION HelpSpec
CONSTANTS
  Main = "main"
  Parser <- MCParsers
  Option <- MCOptions
  Argument <- MCArguments
  Word <- MCWords
  Name <- MCNames
  Sub <- MCSub
  Opt <- MCOpt
  Arg <- MCArg
  Lex <- MCLex
  TakesParam <- MCTakesParam
  Repeats <- MCRepeats
  Hooked <- MCHooked
  Mandatory <- MCMandatory
  OptionsMeet <- WalkAccepts
  Formula <- FormulaAccepts
  Containers <- MCContainers
  Parts <- MCParts
  Height <- MCHeight
  Default <- MCDefault
  Bad <- MCBad
  Invalid <- MCInvalid
  CommandLine <- MCCommandLines
  MaxCalls = 2
  HelpOption <- MCHelpOption
  NameSize <- MCNameSize
  WordSize <- MCWordSize
  Rank <- MCRank
  MaxRecDepth = 3
  ClientDepth = {0, 3}
  ShortLine = 2
  LongLine = 3
  CoreWord = {"-v", "-vl=7", "7", "add", "del", "deep"}
INVARIANT HelpIsOfTheSelected
INVARIANT OneActiveBranch
 
 
INVARIANT ActivePath
INVARIANT UntouchedUnlessActive
INVARIANT ArgumentsInOrder
INVARIANT AcceptedMeansSatisfied
CHECK_DEADLOCK FALSE
