------------------------------- MODULE MCParser -------------------------------
(***************************************************************************)
(* A main parser with flags, a parameter option, a help-like option and an *)
(* argument, and sub-parsers: "add" with two arguments, the last of them   *)
(* variadic, and "del", whose argument has a found callback and which has  *)
(* a sub-parser of its own.                                                *)
(***************************************************************************)
EXTENDS ParserReference, OptionRules

CONSTANTS
  ShortLine, LongLine,  \* bounds: words of a command line
  CoreWord              \* bound: the words of the longer lines

MCParsers == {"main", "add", "del", "deep"}
MCOptions == {"verbose", "number", "help", "count", "level", "usage"}
MCArguments == {"file", "src", "files", "target", "to"}
MCNames == {"v", "h", "n", "number", "c", "l", "q"}

MCSub ==
  [p \in MCParsers |->
     CASE p = "main" -> [w \in {"add", "del"} |-> w]
       [] p = "del" -> [w \in {"deep"} |-> w]
       [] OTHER -> [w \in {} |-> w]]

MCOpt ==
  [p \in MCParsers |->
     CASE p = "main" -> [n \in {"v", "h", "n", "number"} |->
                           CASE n = "v" -> "verbose"
                             [] n = "h" -> "help"
                             [] OTHER -> "number"]
       [] p = "add" -> [n \in {"v", "l", "h"} |->
                           CASE n = "v" -> "count"
                             [] n = "l" -> "level"
                             [] n = "h" -> "usage"]
       [] OTHER -> [n \in {} |-> n]]

\* A line with "add" holds one of -v and -l; all other options are optional.
C(kind, options, subs) == [kind |-> kind, options |-> options, subs |-> subs]
Optional(o) == [name |-> o, mandatory |-> FALSE]
Alternative(o) == [name |-> o, mandatory |-> TRUE]

MCContainers(p) ==
  CASE p = "main" ->
         C("and", <<Optional("verbose"), Optional("number"), Optional("help")>>, <<>>)
    [] p = "add" ->
         C("and", <<Optional("usage")>>,
           <<C("xor", <<Alternative("count"), Alternative("level")>>, <<>>)>>)
    [] OTHER -> C("and", <<>>, <<>>)

MCParts(p) == {MCContainers(p)} \cup {MCContainers(p).subs[i] :
                                        i \in 1..Len(MCContainers(p).subs)}
MCHeight(c) == Len(c.subs)

MCArg ==
  [p \in MCParsers |->
     CASE p = "main" -> <<"file">>
       [] p = "add" -> <<"src", "files">>
       [] p = "del" -> <<"target">>
       [] p = "deep" -> <<"to">>]

OptionWord(names, eq, param) ==
  [shape |-> "option", names |-> names, eq |-> eq, param |-> param]
ArgumentWord == [shape |-> "argument", names |-> <<>>, eq |-> FALSE, param |-> "7"]

MCWords == {"-v", "-vv", "-vh", "-nv", "-v=7", "-n", "--number=7", "-l", "-l=x",
            "-vl=7", "-q", "7", "x", "add", "del", "deep"}

MCLex ==
  [w \in MCWords |->
     CASE w = "-v" -> OptionWord(<<"v">>, FALSE, "7")
       [] w = "-vv" -> OptionWord(<<"v", "v">>, FALSE, "7")
       [] w = "-vh" -> OptionWord(<<"v", "h">>, FALSE, "7")
       [] w = "-nv" -> OptionWord(<<"n", "v">>, FALSE, "7")
       [] w = "-v=7" -> OptionWord(<<"v">>, TRUE, "7")
       [] w = "-n" -> OptionWord(<<"n">>, FALSE, "7")
       [] w = "--number=7" -> OptionWord(<<"number">>, TRUE, "7")
       [] w = "-l" -> OptionWord(<<"l">>, FALSE, "7")
       [] w = "-l=x" -> OptionWord(<<"l">>, TRUE, "x")
       [] w = "-vl=7" -> OptionWord(<<"v", "l">>, TRUE, "7")
       [] w = "-q" -> OptionWord(<<"q">>, FALSE, "7")
       [] OTHER -> ArgumentWord]

MCTakesParam == {"number", "level"}
MCRepeats == {"count", "level", "files"}
MCHooked == {"help", "usage", "target"}
MCMandatory == {"file", "src", "files", "to"}
MCDefault == [x \in MCOptions \cup MCArguments |->
                IF x = "number" THEN <<"7">> ELSE <<>>]
MCBad == {<<"number", w>> : w \in MCWords \ {"7"}}
         \cup {<<"file", "deep">>, <<"target", "-v">>, <<"target", "x">>}
MCInvalid == {<<"src", "del">>, <<"level", "x">>, <<"to", "del">>,
              <<"target", "add">>}

Lines(words, n) == UNION {[1..k -> words] : k \in 0..n}

\* All words in short lines; in longer ones those that lead into the sub-parsers
\* and to their arguments, and some options
MCCommandLines == Lines(MCWords, ShortLine) \cup Lines(CoreWord, LongLine)
=============================================================================
