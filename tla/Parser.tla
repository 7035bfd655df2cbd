-------------------------------- MODULE Parser --------------------------------
(***************************************************************************)
(* The parse loop of clapp::basic_parser_t and of its two heirs,           *)
(* basic_main_parser_t and basic_sub_parser_t: the words of a command line *)
(* are taken one after the other, each is handed to the option, the        *)
(* argument or the sub-parser it names, and parse_and_validate() then      *)
(* checks what was found (validate_recursive()).                           *)
(*                                                                         *)
(* The registered tree of parsers, options and arguments is a parameter.   *)
(* The strings are abstract: Lex says how parse(option, ait, end) reads a  *)
(* word, Bad which conversions throw, Invalid which values a constraint    *)
(* refuses.                                                                *)
(***************************************************************************)
EXTENDS Naturals, Sequences, FiniteSets

CONSTANTS
  Parser,       \* the main parser and all sub-parsers below it
  Main,         \* the main parser
  Option, Argument, Word, Name,
  Sub,          \* Sub[p]: the sub_parsers map of p, from a word to a parser
  Opt,          \* Opt[p]: find_option() of p, from an option name to an option
  Arg,          \* Arg[p]: the arguments of p, in the order of registration
  Lex,          \* Lex[w]: how the parse loop reads the word w
  TakesParam,   \* the options with a parameter
  Repeats,      \* vector and counting options, variadic arguments
  Hooked,       \* options and arguments with a found callback
  Mandatory,    \* arguments whose purpose is mandatory
  OptionsMeet(_, _, _), \* OptionsMeet(p, G, R): does validate_options() of p
                        \* accept that the options G were given, and that a
                        \* constraint refuses the values of the options R?
  Default,      \* Default[x]: the value of x before anything is parsed
  Bad,          \* pairs <<x, w>> such that convert_value() of x throws on w
  Invalid,      \* pairs <<x, w>> such that a constraint of x refuses w
  CommandLine,  \* the command lines (without the executable) that are parsed
  MaxCalls      \* bound: how often the same parser object is asked to parse

Item == Option \cup Argument
OptionsOf(p) == {Opt[p][n] : n \in DOMAIN Opt[p]}
ArgumentsOf(p) == {Arg[p][k] : k \in 1..Len(Arg[p])}
ItemsOf(p) == OptionsOf(p) \cup ArgumentsOf(p)
Children(p) == {Sub[p][w] : w \in DOMAIN Sub[p]}

(***************************************************************************)
(* A word is an option word (-x, -xyz, -x=param, --long, --long=param) or  *)
(* an argument.  A long option is one name, a short one a cluster.         *)
(***************************************************************************)
Lexeme == [shape : {"option", "argument"}, names : Seq(Name),
           eq : BOOLEAN, param : Word]

ASSUME TreeAssumption ==
  /\ Main \in Parser
  /\ \A p \in Parser : \A w \in DOMAIN Sub[p] : Sub[p][w] \in Parser \ {Main}
  \* a sub-parser is registered once, by its constructor, with its parent and
  \* under its name
  /\ \A p, q \in Parser : p # q => Children(p) \cap Children(q) = {}
  /\ \A p \in Parser : \A v, w \in DOMAIN Sub[p] : Sub[p][v] = Sub[p][w] => v = w

ASSUME ItemAssumption ==
  /\ \A p \in Parser : OptionsOf(p) \subseteq Option
  /\ \A p \in Parser : Arg[p] \in Seq(Argument)
  /\ Option \cap Argument = {}
  \* options and arguments register once, with one parser, when constructed
  /\ \A p, q \in Parser : p # q => ItemsOf(p) \cap ItemsOf(q) = {}
  /\ \A p \in Parser : \A i, j \in 1..Len(Arg[p]) :
       i # j => Arg[p][i] # Arg[p][j]

ASSUME WordAssumption ==
  /\ Lex \in [Word -> Lexeme]
  /\ \A w \in Word : Lex[w].shape = "option" => Lex[w].names # <<>>
  /\ Default \in [Item -> Seq(Word)]
  /\ CommandLine \subseteq Seq(Word)
  /\ MaxCalls \in Nat

-----------------------------------------------------------------------------

VARIABLES
  given,      \* items whose _given flag is set
  value,      \* value[x]: the words x was given, or its default
  active,     \* sub-parsers whose active flag is set
  processed,  \* processed[p]: num_processed_arguments of p
  args,       \* the command line of the current call
  pos,        \* the iterator ait, as an index into args
  cur,        \* the parser whose loop runs
  rest,       \* what parse_short() has still to read of the word at pos
  phase,      \* "idle", "parse" or "validate"
  checks,     \* parse_and_validate() rather than parse()
  todo,       \* the parsers that validate_recursive() has still to visit
  result,     \* of the last call: "none", "ok", "exit" or "error" (thrown)
  calls       \* how often a parse method was called

store == <<given, value>>
vars == <<given, value, active, processed, args, pos, cur, rest, phase,
          checks, todo, result, calls>>

TypeOK ==
  /\ given \subseteq Item
  /\ value \in [Item -> Seq(Word)]
  /\ active \subseteq Parser \ {Main}
  /\ processed \in [Parser -> Nat]
  /\ args \in Seq(Word)
  /\ pos \in 1..Len(args) + 1
  /\ cur \in Parser
  /\ rest \in Seq(Name)
  /\ rest # <<>> => pos <= Len(args)
  /\ phase \in {"idle", "parse", "validate"}
  /\ checks \in BOOLEAN
  /\ todo \subseteq Parser
  /\ result \in {"none", "ok", "exit", "error"}
  /\ calls \in 0..MaxCalls

Init ==
  /\ given = {}
  /\ value = Default
  /\ active = {}
  /\ processed = [p \in Parser |-> 0]
  /\ args = <<>>
  /\ pos = 1
  /\ cur = Main
  /\ rest = <<>>
  /\ phase = "idle"
  /\ checks = FALSE
  /\ todo = {}
  /\ result = "none"
  /\ calls = 0

-----------------------------------------------------------------------------

(***************************************************************************)
(* A call of parse() or parse_and_validate().  Nothing of an earlier call  *)
(* is reset: flags, values, counters and active sub-parsers persist.       *)
(***************************************************************************)
Call ==
  /\ phase = "idle"
  /\ calls < MaxCalls
  /\ args' \in CommandLine
  /\ checks' \in BOOLEAN
  /\ pos' = 1
  /\ cur' = Main
  /\ rest' = <<>>
  /\ phase' = "parse"
  /\ result' = "none"
  /\ calls' = calls + 1
  /\ UNCHANGED <<given, value, active, processed, todo>>

\* The call ends, by a return or by an exception that leaves every loop.
Return(r) ==
  /\ phase' = "idle"
  /\ result' = r
  /\ rest' = <<>>
  /\ todo' = {}
  /\ UNCHANGED <<active, processed, args, pos, cur, checks, calls>>

\* Faulty: the letter of a cluster just done is not removed.
ContinueFaulty(next, more) ==
  /\ pos' = next
  /\ rest' = rest
  /\ UNCHANGED <<args, phase, checks, todo, result, calls>>

\* One more word, or one more letter of a cluster, is done.
Continue(next, more) ==
  /\ pos' = next
  /\ rest' = more
  /\ UNCHANGED <<args, phase, checks, todo, result, calls>>

AtWord(shape) ==
  /\ phase = "parse"
  /\ pos <= Len(args)
  /\ Lex[args[pos]].shape = shape

\* Faulty: the values of a repeated item replace each other.
StoredFaulty(x, w) == [value EXCEPT ![x] = <<w>>]

\* A value reaches an item: replaced, or appended for vector, count, variadic.
Stored(x, w) ==
  [value EXCEPT ![x] = IF x \in Repeats THEN Append(@, w) ELSE <<w>>]

(***************************************************************************)
(* found_entry() of an item with the parameter w.  A found callback may    *)
(* ask for an exit, or throw; the given flag is set before the conversion, *)
(* which may throw.  Several callbacks of an option act like one.          *)
(***************************************************************************)
Stop(x) ==
  /\ x \in Hooked
  /\ \E r \in {"exit", "error"} : Return(r)
  /\ UNCHANGED store

FailConversion(x, w) ==
  /\ <<x, w>> \in Bad
  /\ given' = given \cup {x}
  /\ UNCHANGED value
  /\ Return("error")

\* Faulty: the flag is set and the value of a repeated item is dropped.
ConvertFaulty(x, w) ==
  /\ <<x, w>> \notin Bad
  /\ given' = given \cup {x}
  /\ value' = IF x \in Repeats THEN value ELSE Stored(x, w)

Convert(x, w) ==
  /\ <<x, w>> \notin Bad
  /\ given' = given \cup {x}
  /\ value' = Stored(x, w)

FoundOption(o, w, next, more) ==
  \/ Stop(o)
  \/ FailConversion(o, w)
  \/ /\ Convert(o, w)
     /\ Continue(next, more)
     /\ UNCHANGED <<active, processed, cur>>

-----------------------------------------------------------------------------

\* parse_long() and parse_short(): the names still to be read of this word
Names == IF rest = <<>> THEN Lex[args[pos]].names ELSE rest
IsLast == Len(Names) = 1
WithEquals == IsLast /\ Lex[args[pos]].eq
Known == Head(Names) \in DOMAIN Opt[cur]
Current == Opt[cur][Head(Names)]

UnknownOption ==
  /\ AtWord("option")
  /\ ~Known
  /\ Return("error")
  /\ UNCHANGED store

\* Faulty: a param option in the middle of a cluster takes the next word.
ParamMismatchFaulty ==
  IF Current \in TakesParam THEN ~WithEquals /\ pos = Len(args) ELSE WithEquals

\* "No param allowed", "No param given": a flag with '=', a param option inside
\* a cluster or at the very end of the command line
ParamMismatch ==
  IF Current \in TakesParam
  THEN ~IsLast \/ (~WithEquals /\ pos = Len(args))
  ELSE WithEquals

RefuseParam ==
  /\ AtWord("option")
  /\ Known
  /\ ParamMismatch
  /\ Return("error")
  /\ UNCHANGED store

FlagOption ==
  /\ AtWord("option")
  /\ Known
  /\ Current \notin TakesParam
  /\ ~ParamMismatch
  /\ FoundOption(Current, args[pos],
                 IF IsLast THEN pos + 1 ELSE pos, Tail(Names))

ParamOption ==
  /\ AtWord("option")
  /\ Known
  /\ Current \in TakesParam
  /\ ~ParamMismatch
  /\ \/ /\ WithEquals
        /\ FoundOption(Current, Lex[args[pos]].param, pos + 1, <<>>)
     \/ /\ ~WithEquals  \* the next word, whatever it looks like
        /\ FoundOption(Current, args[pos + 1], pos + 2, <<>>)

-----------------------------------------------------------------------------

\* parse_arg(): the next argument, the variadic one again, else a sub-parser
NumArgs(p) == Len(Arg[p])
IsVariadic(p) == NumArgs(p) > 0 /\ Arg[p][NumArgs(p)] \in Repeats

\* Faulty: the last argument is skipped.
HasSlotFaulty(p) == processed[p] + 1 < NumArgs(p) \/ IsVariadic(p)

\* Is there an argument to take the next word?
HasSlot(p) == processed[p] < NumArgs(p) \/ IsVariadic(p)

\* Faulty: the arguments are filled from the last to the first.
SlotFaulty(p) ==
  IF processed[p] < NumArgs(p) THEN NumArgs(p) - processed[p] ELSE NumArgs(p)

\* Its index
Slot(p) == IF processed[p] < NumArgs(p) THEN processed[p] + 1 ELSE NumArgs(p)

\* An argument with a found callback returns what the callback returns: its
\* flag and value are left alone even when the callback lets parsing proceed.
TakeArgument ==
  /\ AtWord("argument")
  /\ HasSlot(cur)
  /\ LET x == Arg[cur][Slot(cur)] IN
       \/ Stop(x)
       \/ x \notin Hooked /\ FailConversion(x, args[pos])
       \/ /\ IF x \in Hooked THEN UNCHANGED store ELSE Convert(x, args[pos])
          /\ processed' = [processed EXCEPT ![cur] = @ + 1]
          /\ Continue(pos + 1, <<>>)
          /\ UNCHANGED <<active, cur>>

\* Faulty: the parser that is left is marked, not the one that is entered.
EnterFaulty(q) == cur' = q /\ active' = active \cup {cur}

\* Faulty: the sub-parser that is entered is not marked.
EnterUnmarked(q) == cur' = q /\ UNCHANGED active

\* Faulty: the words that are left stay with the parser that was left.
EnterStaying(q) == cur' = cur /\ active' = active \cup {q}

\* sub_parse(): the loop of the sub-parser q takes the words that are left.
Enter(q) == cur' = q /\ active' = active \cup {q}

SelectSubParser ==
  /\ AtWord("argument")
  /\ ~HasSlot(cur)
  /\ args[pos] \in DOMAIN Sub[cur]
  /\ Enter(Sub[cur][args[pos]])
  /\ Continue(pos + 1, <<>>)
  /\ UNCHANGED <<given, value, processed>>

UnknownArgument ==
  /\ AtWord("argument")
  /\ ~HasSlot(cur)
  /\ args[pos] \notin DOMAIN Sub[cur]
  /\ Return("error")
  /\ UNCHANGED store

-----------------------------------------------------------------------------

\* The loops of all nested parsers end together, at the end of the words.
EndOfWords ==
  /\ phase = "parse"
  /\ pos = Len(args) + 1
  /\ IF checks
     THEN /\ phase' = "validate"
          /\ todo' = {Main}
          /\ UNCHANGED <<active, processed, args, pos, cur, rest, checks,
                         result, calls>>
     ELSE Return("ok")
  /\ UNCHANGED store

\* Every value, a default included, satisfies the constraints of its item.
ValueValid(x) == \A i \in 1..Len(value[x]) : <<x, value[x][i]>> \notin Invalid

\* validate_arguments()
ArgumentsMeet(p) ==
  \A x \in ArgumentsOf(p) : (x \in Mandatory => x \in given) /\ ValueValid(x)

\* Faulty: the option containers are not asked.
SatisfiedFaulty(p) == ArgumentsMeet(p)

\* validate(); the option containers of a parser are in OptionValidation.
Satisfied(p) ==
  /\ OptionsMeet(p, OptionsOf(p) \cap given, {o \in OptionsOf(p) : ~ValueValid(o)})
  /\ ArgumentsMeet(p)

\* Faulty: sub-parsers are not validated.
VisitNextFaulty(p) == {}

\* validate_recursive() visits the active sub-parsers of a parser it accepts.
VisitNext(p) == Children(p) \cap active

Validate(p) ==
  /\ phase = "validate"
  /\ p \in todo
  /\ IF Satisfied(p)
     THEN /\ todo' = (todo \ {p}) \cup VisitNext(p)
          /\ UNCHANGED <<active, processed, args, pos, cur, rest, phase,
                         checks, result, calls>>
     ELSE Return("error")
  /\ UNCHANGED store

Accept ==
  /\ phase = "validate"
  /\ todo = {}
  /\ Return("ok")
  /\ UNCHANGED store

-----------------------------------------------------------------------------

Step ==
  \/ UnknownOption
  \/ RefuseParam
  \/ FlagOption
  \/ ParamOption
  \/ TakeArgument
  \/ SelectSubParser
  \/ UnknownArgument
  \/ EndOfWords
  \/ \E p \in Parser : Validate(p)
  \/ Accept

Next == Call \/ Step

\* A parse call is sequential code without waiting: once begun, it runs on.
Spec == Init /\ [][Next]_vars /\ WF_vars(Step)

-----------------------------------------------------------------------------

(***************************************************************************)
(* Active sub-parsers hang together up to the main parser, and a           *)
(* sub-parser is entered only when all positional arguments of its parent  *)
(* were taken: doc.md calls sub-parsers the last argument of a parser.     *)
(* Holds over any number of calls, although nothing is reset.              *)
(***************************************************************************)
ActivePath ==
  \A p \in Parser : Children(p) \cap active # {} =>
    /\ p \in {Main} \cup active
    /\ processed[p] >= NumArgs(p)
    /\ ~IsVariadic(p)

(***************************************************************************)
(* The first call selects one branch: get_active_parser(), which follows   *)
(* the first active sub-parser it meets in the order of their names, has   *)
(* no choice, and the walk ends at the parser whose loop ran last.  Later  *)
(* calls may add branches, as no flag is ever cleared.                     *)
(***************************************************************************)
OneActiveBranch ==
  calls <= 1 =>
    /\ \A p \in Parser : \A c, d \in Children(p) \cap active : c = d
    /\ Children(cur) \cap active = {}

(***************************************************************************)
(* Over any number of calls every call adds one branch of active parsers   *)
(* at most, wherever it was interrupted and wherever it leaves the branch  *)
(* of an earlier call: these are the parsers that validation asks beyond   *)
(* those of the line, and among which get_active_parser() has to choose.   *)
(***************************************************************************)
Tips == {p \in {Main} \cup active : Children(p) \cap active = {}}

OneBranchPerCall ==
  calls > 0 => IsFiniteSet(Tips) /\ Cardinality(Tips) <= calls

(***************************************************************************)
(* Parsing never touches an option, argument or counter of a sub-parser    *)
(* that the command line did not select: what was registered is what       *)
(* value() and given() still tell.                                         *)
(***************************************************************************)
UntouchedUnlessActive ==
  \A p \in Parser \ ({Main} \cup active) :
    /\ processed[p] = 0
    /\ ItemsOf(p) \cap given = {}
    /\ \A x \in ItemsOf(p) : value[x] = Default[x]

(***************************************************************************)
(* Positional arguments are filled from the first to the last, without a   *)
(* gap, also across an exit request, an exception and a second call; an    *)
(* argument with a found callback is never given.                          *)
(***************************************************************************)
ArgumentsInOrder ==
  \A p \in Parser : \A j \in 1..NumArgs(p) : Arg[p][j] \in given =>
    /\ Arg[p][j] \notin Hooked
    /\ \A i \in 1..(j - 1) : Arg[p][i] \in given \cup Hooked

(***************************************************************************)
(* An item is given without a value, so that value() throws, only after a  *)
(* conversion has thrown, and every exception leaves one such item at most.*)
(* A later call can accept that item, mandatory or not, since validation   *)
(* looks at the given flag alone; a call that returns adds none.           *)
(***************************************************************************)
Unfilled == {x \in given : value[x] = <<>>}

OneLossPerException ==
  /\ IsFiniteSet(Unfilled)
  /\ Cardinality(Unfilled) <= IF calls = 0 \/ result = "error" THEN calls ELSE calls - 1

(***************************************************************************)
(* parse_and_validate() returns only if every parser that is active, at    *)
(* any depth and from whatever call, satisfies its requirements.           *)
(***************************************************************************)
AcceptedMeansSatisfied ==
  (phase = "idle" /\ result = "ok" /\ checks) =>
    \A p \in {Main} \cup active : Satisfied(p)

(***************************************************************************)
(* The iterator never goes back, and every round of a loop or of the       *)
(* recursion in parse_short() gets nearer to the end of the words.         *)
(***************************************************************************)
Progress ==
  [][phase = "parse" /\ phase' = "parse" =>
       \/ pos' > pos
       \/ pos' = pos /\ Len(Names') < Len(Names)]_vars

\* Every call of a parse method ends: with a result, an exit or an exception.
CallReturns == phase # "idle" ~> phase = "idle"
=============================================================================
