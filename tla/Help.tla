--------------------------------- MODULE Help ---------------------------------
(***************************************************************************)
(* The usage message of a parser, gen_help_msg(), as the help options ask  *)
(* for it in the middle of the parse loop and as a client asks for it      *)
(* between two calls: which parser it describes (get_active_parser()), how *)
(* deep it descends, and whether it can be made at all.                    *)
(*                                                                         *)
(* The text is abstract, up to the widths of its columns: they are         *)
(* differences of std::size_t, and one that wraps around is no length a    *)
(* std::string can have (std::length_error).                               *)
(***************************************************************************)
EXTENDS Parser
LOCAL INSTANCE FiniteSetsExt

CONSTANTS
  HelpOption,   \* the options of class basic_help_option_t
  NameSize,     \* NameSize[x]: length of the help entry's name of x
  WordSize,     \* WordSize[w]: length of the sub-parser name w
  Rank,         \* Rank[w]: place of w in the order of the sub_parsers maps
  MaxRecDepth,  \* max_rec_depth of the help options, 65535 in the code
  ClientDepth   \* bound: the depths a client asks for

ASSUME HelpAssumption ==
  /\ HelpOption \subseteq Option \cap Hooked
  /\ HelpOption \cap TakesParam = {}
  /\ NameSize \in [Item -> Nat]
  /\ WordSize \in [Word -> Nat]
  /\ \A p \in Parser : \A v, w \in DOMAIN Sub[p] : Rank[v] = Rank[w] => v = w
  /\ \A p \in Parser : \A w \in DOMAIN Sub[p] : Rank[w] \in Nat
  /\ MaxRecDepth \in Nat
  /\ ClientDepth \subseteq Nat

VARIABLE
  help  \* the message asked for last in or after the current call, if any:
        \* by and about which parser, and whether it could be made

helpVars == <<vars, help>>

-----------------------------------------------------------------------------

\* The sub-parsers of p whose flag is set, in the order of the map
FirstActive(p) ==
  LET on == {w \in DOMAIN Sub[p] : Sub[p][w] \in active}
  IN  Sub[p][CHOOSE w \in on : \A v \in on : Rank[w] <= Rank[v]]

\* Faulty: the parser that is asked, whatever was selected.
ActiveParserFaulty(p) == p

ActiveParser(p) ==
  LET leaf[q \in Parser] ==
        IF Children(q) \cap active = {} THEN q ELSE leaf[FirstActive(q)]
  IN  leaf[p]

\* The entries of p, the options of all its containers and the arguments
EntrySizes(p) == {NameSize[x] : x \in ItemsOf(p)}

\* Sub-parsers are entries as well, but do not count.
MaxNameSize(p) == Max({0} \cup EntrySizes(p))

(***************************************************************************)
(* max_name_size + 1 - name.size() of a sub-parser is below zero, which in *)
(* std::size_t is a width that no string has.                              *)
(***************************************************************************)
Wraps(p) == \E w \in DOMAIN Sub[p] : WordSize[w] > MaxNameSize(p) + 1

\* The parsers whose entries a message of depth d about p lists
Described(p, d) ==
  LET below[n \in 0..d] ==
        IF n = 0 THEN {p}
        ELSE below[n - 1] \cup UNION {Children(q) : q \in below[n - 1]}
  IN  below[d]

\* get_executable(): what every short line starts with is known from the first
\* call on.
ExecutableKnown == calls > 0

\* gen_help_msg() makes the whole message or throws.
Message(p, d) ==
  [by |-> p, of |-> ActiveParser(p),
   made |-> /\ ExecutableKnown
            /\ \A q \in Parser : Wraps(q) => q \notin Described(ActiveParser(p), d)]

-----------------------------------------------------------------------------

HelpInit == Init /\ help = {}

\* The loop is at a help option, and lets it be found.
Asked ==
  /\ AtWord("option")
  /\ Known
  /\ ~ParamMismatch
  /\ Current \in HelpOption

\* The found callback of a help option; a sub-parser leaves the printing to its
\* parent, which does not change what is printed.
ShowHelp ==
  /\ Asked
  /\ help' = {Message(cur, MaxRecDepth)}
  /\ Stop(Current)
  /\ result' = IF Message(cur, MaxRecDepth).made THEN "exit" ELSE "error"

\* A client calls gen_help_msg() itself, as the examples do for an exception.
ClientHelp(p, d) ==
  /\ phase = "idle"
  /\ help' = {Message(p, d)}
  /\ UNCHANGED vars

HelpNext ==
  \/ Call /\ help' = {}
  \/ ShowHelp
  \/ ~Asked /\ Step /\ UNCHANGED help
  \/ \E p \in Parser, d \in ClientDepth : ClientHelp(p, d)

HelpSpec == HelpInit /\ [][HelpNext]_helpVars

-----------------------------------------------------------------------------

(***************************************************************************)
(* Whenever the main parser, or the one whose loop ran last, is asked for  *)
(* its usage in or after a first call, by a help option or by a client who *)
(* has caught an exception, the message is about the sub-parser that the   *)
(* words have selected so far: doc.md says of get_active_parser() that it  *)
(* refers to the selected sub-parser.  It walks down flags that the loops  *)
(* of the sub-parsers set and the callback reads in the middle of them.    *)
(***************************************************************************)
HelpIsOfTheSelected ==
  calls = 1 => \A h \in help : h.by \in {Main, cur} => h.of = cur

(***************************************************************************)
(* A help option ends the parse with an exit request, as doc.md promises.  *)
(* Violated: a sub-parser whose name is longer, by two at least, than      *)
(* those of all options and arguments next to it makes gen_help_desc()     *)
(* throw.                                                                  *)
(***************************************************************************)
HelpRequestsExit ==
  [][Asked /\ phase' = "idle" => result' = "exit"]_helpVars
=============================================================================
