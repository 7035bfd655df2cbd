------------------------------ MODULE Registration ------------------------------
(***************************************************************************)
(* How a parser is built: constructors of options, option containers,      *)
(* arguments and sub-parsers call reg() of the parser, in any order; each  *)
(* reg() may throw, and the client may go on after it.  What is registered *)
(* in the end is the tree that modules Parser and OptionValidation take    *)
(* for granted.                                                            *)
(***************************************************************************)
EXTENDS Naturals, Sequences

CONSTANTS
  Container,    \* the option containers; the parser is one of them
  Root,         \* the parser itself
  Parent,       \* Parent[c]: the container c is constructed with
  XorContainer, \* the containers of type logic_xor
  OptConf,      \* configurations of options: [names, mandatory]
  Misspelled,   \* names of options with white space or an equal sign
  ArgConf,      \* configurations of arguments: [name, mandatory, variadic]
  SubName       \* names of sub-parsers

OptName == UNION {{o.names[k] : k \in 1..Len(o.names)} : o \in OptConf}
ArgName == {a.name : a \in ArgConf}

ASSUME RootAssumption ==
  /\ Root \in Container
  /\ Parent \in [Container \ {Root} -> Container]

ASSUME ConfAssumption ==
  /\ \A o \in OptConf : o.names \in Seq(OptName) /\ o.mandatory \in BOOLEAN
  /\ \A a \in ArgConf : a.mandatory \in BOOLEAN /\ a.variadic \in BOOLEAN

VARIABLES
  containers,  \* the containers that are registered with their parent
  options,     \* options[c]: registered with container c, in order
  arguments,   \* the arguments of the parser, in order
  optionals,   \* names in optional_argument_descriptions
  subParsers,  \* keys of the sub_parsers map
  outcome      \* of the last constructor: "none", "ok" or "threw"

vars == <<containers, options, arguments, optionals, subParsers, outcome>>

TypeOK ==
  /\ containers \subseteq Container
  /\ Root \in containers
  /\ \A c \in containers \ {Root} : Parent[c] \in containers
  /\ options \in [Container -> Seq(OptConf)]
  /\ arguments \in Seq(ArgConf)
  /\ optionals \subseteq ArgName
  /\ subParsers \subseteq SubName
  /\ outcome \in {"none", "ok", "threw"}

Init ==
  /\ containers = {Root}
  /\ options = [c \in Container |-> <<>>]
  /\ arguments = <<>>
  /\ optionals = {}
  /\ subParsers = {}
  /\ outcome = "none"

-----------------------------------------------------------------------------

\* reg(variant_opt_conf_container_t*): the container joins the tree in which
\* find_option() searches.
RegContainer(c) ==
  /\ c \notin containers
  /\ c # Root
  /\ Parent[c] \in containers
  /\ containers' = containers \cup {c}
  /\ outcome' = "ok"
  /\ UNCHANGED <<options, arguments, optionals, subParsers>>

\* contains_option()
HasName(o, n) == \E k \in 1..Len(o.names) : o.names[k] = n

\* Faulty: the search stays in the container that registers.
FoundFaulty(c, n) == \E i \in 1..Len(options[c]) : HasName(options[c][i], n)

\* find_parser_option(): the search starts at the parser, whatever c registers.
Found(c, n) ==
  \E d \in containers : \E i \in 1..Len(options[d]) : HasName(options[d][i], n)

Twice(o) == \E j, k \in 1..Len(o.names) : j # k /\ o.names[j] = o.names[k]

\* check_short_option(), check_long_option(): the constructor throws, before it
\* calls reg().
WellSpelled(o) == \A k \in 1..Len(o.names) : o.names[k] \notin Misspelled

OptionRefused(c, o) ==
  \/ ~WellSpelled(o)
  \/ \E k \in 1..Len(o.names) : Found(c, o.names[k])
  \/ Twice(o)
  \/ c \in XorContainer /\ ~o.mandatory

RegOption(c, o) ==
  /\ c \in containers
  /\ IF OptionRefused(c, o)
     THEN outcome' = "threw" /\ UNCHANGED options
     ELSE /\ outcome' = "ok"
          /\ options' = [options EXCEPT ![c] = Append(@, o)]
  /\ UNCHANGED <<containers, arguments, optionals, subParsers>>

-----------------------------------------------------------------------------

Registered(name) == \E i \in 1..Len(arguments) : arguments[i].name = name

\* Faulty: only regular arguments close the list when they are optional.
VariadicLastFaulty ==
  /\ arguments # <<>>
  /\ arguments[Len(arguments)].variadic
  /\ arguments[Len(arguments)].mandatory

VariadicLast ==
  arguments # <<>> /\ arguments[Len(arguments)].variadic

\* The refusals that come before anything is written
EarlyRefusal(a) ==
  \/ a.name = ""
  \/ VariadicLast
  \/ a.mandatory /\ optionals # {}
  \/ ~a.mandatory /\ subParsers # {}

\* Faulty: a mandatory argument is described, not an optional one.
DescribedFaulty(a) == IF a.mandatory THEN optionals \cup {a.name} ELSE optionals

\* Faulty: the name and the text of the description are swapped.
DescribedSwapped(a) ==
  IF a.mandatory THEN optionals ELSE optionals \cup {"some text"}

Described(a) == IF a.mandatory THEN optionals ELSE optionals \cup {a.name}

\* The description is stored before the search for an argument of that name,
\* and stays when the search makes reg() throw.
RegArgument(a) ==
  /\ IF EarlyRefusal(a)
     THEN outcome' = "threw" /\ UNCHANGED <<arguments, optionals>>
     ELSE /\ optionals' = Described(a)
          /\ IF Registered(a.name)
             THEN outcome' = "threw" /\ UNCHANGED arguments
             ELSE outcome' = "ok" /\ arguments' = Append(arguments, a)
  /\ UNCHANGED <<containers, options, subParsers>>

\* Faulty: optional arguments do not matter.
SubParserRefusedFaulty(n) == VariadicLast \/ n \in subParsers

SubParserRefused(n) == optionals # {} \/ VariadicLast \/ n \in subParsers

RegSubParser(n) ==
  /\ IF SubParserRefused(n)
     THEN outcome' = "threw" /\ UNCHANGED subParsers
     ELSE outcome' = "ok" /\ subParsers' = subParsers \cup {n}
  /\ UNCHANGED <<containers, options, arguments, optionals>>

-----------------------------------------------------------------------------

Next ==
  \/ \E c \in Container : RegContainer(c)
  \/ \E c \in Container, o \in OptConf : RegOption(c, o)
  \/ \E a \in ArgConf : RegArgument(a)
  \/ \E n \in SubName : RegSubParser(n)

Spec == Init /\ [][Next]_vars

-----------------------------------------------------------------------------

Share(o, q) == \E k \in 1..Len(o.names) : HasName(q, o.names[k])

(***************************************************************************)
(* A name leads to one option only, in whatever container of the parser it *)
(* was registered and however many registrations were refused before: the  *)
(* order in which find_option() searches the tree does not matter.         *)
(***************************************************************************)
Unambiguous ==
  \A c, d \in Container :
    \A i \in 1..Len(options[c]), j \in 1..Len(options[d]) :
      /\ ~Twice(options[c][i])
      /\ Share(options[c][i], options[d][j]) => c = d /\ i = j

(***************************************************************************)
(* Words can be handed to the arguments from the first to the last: a      *)
(* variadic argument is the last one and no mandatory argument follows an  *)
(* optional one, though reg() looks at the last argument and at a list of  *)
(* descriptions only.  Exception: doc.md ("Positional CLI-Arguments") says *)
(* that "optional arguments and variadic arguments can't be used together. *)
(* In order to make sure, that the arguments can be parsed uniquely."  The *)
(* code accepts an optional variadic argument after an optional one, and   *)
(* so does this property: the first word goes to the optional argument.    *)
(***************************************************************************)
Assignable ==
  \A i, j \in 1..Len(arguments) : i < j =>
    /\ ~arguments[i].variadic
    /\ arguments[j].mandatory => arguments[i].mandatory
    /\ arguments[i].name # arguments[j].name

(***************************************************************************)
(* Sub-parsers and optional arguments exclude each other, in whatever      *)
(* order they are registered: no word could be both.                       *)
(***************************************************************************)
OptionalOrSubParser ==
  subParsers # {} => \A i \in 1..Len(arguments) : arguments[i].mandatory

(***************************************************************************)
(* The list of descriptions that reg() decides with keeps up with the      *)
(* arguments: it holds every optional argument, and what a refused reg()   *)
(* leaves behind in it is the name of an argument, too.                    *)
(***************************************************************************)
DescriptionsOfArguments ==
  /\ \A n \in optionals : Registered(n)
  /\ \A i \in 1..Len(arguments) : arguments[i].mandatory \/ arguments[i].name \in optionals

(***************************************************************************)
(* "Thus, if at least one sub-parser is registered, no variadic or         *)
(* optional arguments can be used" (doc.md, "Sub parser").                 *)
(***************************************************************************)
SubParserIsLastArgument ==
  subParsers # {} => \A i \in 1..Len(arguments) :
    arguments[i].mandatory /\ ~arguments[i].variadic
=============================================================================
