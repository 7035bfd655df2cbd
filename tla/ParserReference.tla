--------------------------- MODULE ParserReference ----------------------------
(***************************************************************************)
(* What a command line means, read declaratively: which role each word     *)
(* plays and which words each option and argument is given.  The parse     *)
(* loop of module Parser is checked against this reading.                  *)
(***************************************************************************)
EXTENDS Parser

CONSTANT Formula(_, _, _)  \* what OptionsMeet is to decide: do the options G,
                           \* given together, fit the containers of p?

(***************************************************************************)
(* validate_options() decides what the containers say: the subject of      *)
(* module OptionValidation.                                                *)
(***************************************************************************)
ASSUME OptionsAssumption ==
  \A p \in Parser : \A G, R \in SUBSET OptionsOf(p) :
    OptionsMeet(p, G, R) <=> Formula(p, G, R)

\* A word no parser p can read as options
Malformed(p, w) ==
  LET ns == Lex[w].names IN
    \/ \E k \in 1..Len(ns) : ns[k] \notin DOMAIN Opt[p]
    \/ \E k \in 1..Len(ns) - 1 : Opt[p][ns[k]] \in TakesParam
    \/ Lex[w].eq /\ Opt[p][ns[Len(ns)]] \notin TakesParam

\* An option word whose parameter is the next word
Awaits(p, w) ==
  LET ns == Lex[w].names IN ~Lex[w].eq /\ Opt[p][ns[Len(ns)]] \in TakesParam

(***************************************************************************)
(* The role of the i-th word of the line a, the parser it belongs to, and  *)
(* how many positional arguments of that parser there are up to it, when b *)
(* is this of the word before.                                             *)
(***************************************************************************)
ReadWord(a, i, b) ==
  LET p == b.parser
      w == a[i]
  IN IF b.role = "bad" THEN b
     ELSE IF b.role = "awaits" THEN [b EXCEPT !.role = "param"]
     ELSE IF Lex[w].shape = "option"
     THEN [b EXCEPT !.role =
             IF Malformed(p, w) \/ (Awaits(p, w) /\ i = Len(a)) THEN "bad"
             ELSE IF Awaits(p, w) THEN "awaits" ELSE "option"]
     ELSE IF b.nth < NumArgs(p) \/ IsVariadic(p)
     THEN [role |-> "argument", parser |-> p, nth |-> b.nth + 1]
     ELSE IF w \in DOMAIN Sub[p]
     THEN [role |-> "sub", parser |-> Sub[p][w], nth |-> 0]
     ELSE [b EXCEPT !.role = "bad"]

\* All words of the line a.  From the first word nobody can take, the role is
\* "bad".
Reading(a) ==
  LET f[i \in 0..Len(a)] ==
        IF i = 0 THEN [role |-> "start", parser |-> Main, nth |-> 0]
        ELSE ReadWord(a, i, f[i - 1])
  IN  f

\* Which of the first k names in the word w are names of x?
Hits(p, w, x, k) == {j \in 1..k : Opt[p][Lex[w].names[j]] = x}

\* The word that the option x is given when the i-th word of a names it
Param(a, i, x) ==
  IF x \notin TakesParam THEN a[i]
  ELSE IF Lex[a[i]].eq THEN Lex[a[i]].param ELSE a[i + 1]

\* What the i-th word of the line a, with reading f, gives to the item x
GivenAt(a, f, i, x) ==
  LET p == f[i].parser
      slot == IF f[i].nth < NumArgs(p) THEN f[i].nth ELSE NumArgs(p)
  IN IF f[i].role \in {"option", "awaits"}
     THEN [k \in 1..Cardinality(Hits(p, a[i], x, Len(Lex[a[i]].names))) |-> Param(a, i, x)]
     ELSE IF f[i].role = "argument" /\ Arg[p][slot] = x THEN <<a[i]>> ELSE <<>>

\* All words that the first i words of a give to x, in their order
GivenUpTo(a, f, x) ==
  LET occ[i \in 0..Len(a)] ==
        IF i = 0 THEN <<>> ELSE occ[i - 1] \o GivenAt(a, f, i, x)
  IN  occ

Occurrences(a, f, x) == GivenUpTo(a, f, x)[Len(a)]

\* Arguments with a found callback are not told the words they are given.
Silent == Hooked \cap Argument
Heard(a, f, x) == IF x \in Silent THEN <<>> ELSE Occurrences(a, f, x)

\* The value of x when it is given the words of occ
Outcome(x, occ) ==
  IF x \in Repeats THEN Default[x] \o occ
  ELSE IF occ = <<>> THEN Default[x] ELSE <<occ[Len(occ)]>>

Expected(a, f, x) == Outcome(x, Heard(a, f, x))

Selected(f) == {f[i].parser : i \in DOMAIN f}

Valid(a, f, x) ==
  LET v == Expected(a, f, x) IN \A k \in 1..Len(v) : <<x, v[k]>> \notin Invalid

\* The line a is one the parser has to accept.
Acceptable(a, f, check) ==
  /\ f[Len(a)].role # "bad"
  /\ \A x \in Item : LET occ == Heard(a, f, x)
                     IN \A k \in 1..Len(occ) : <<x, occ[k]>> \notin Bad
  /\ check => \A p \in Selected(f) :
       /\ Formula(p, {x \in OptionsOf(p) : Heard(a, f, x) # <<>>},
                     {x \in OptionsOf(p) : ~Valid(a, f, x)})
       /\ \A x \in ArgumentsOf(p) : /\ x \in Mandatory => Heard(a, f, x) # <<>>
                                    /\ Valid(a, f, x)

FirstCallEnded == calls = 1 /\ phase = "idle"

(***************************************************************************)
(* A successful parse gives every option and argument exactly the words    *)
(* the command line holds for it, in order, and sets its given flag iff    *)
(* there is one (doc.md: given() tells CLI values from defaults).          *)
(* Arguments with a found callback keep their defaults.                    *)
(***************************************************************************)
ValuesOfCommandLine ==
  (FirstCallEnded /\ result = "ok") =>
    LET f == Reading(args) IN
      \A x \in Item :
        /\ value[x] = Expected(args, f, x)
        /\ x \in given <=> Heard(args, f, x) # <<>>

(***************************************************************************)
(* The parse succeeds on acceptable lines only, throws on unacceptable     *)
(* ones only unless a found callback had its say, and selects the parsers  *)
(* the line names: nothing is skipped and nothing is read twice.           *)
(***************************************************************************)
VerdictOfCommandLine ==
  FirstCallEnded =>
    LET f == Reading(args) IN
      /\ result = "ok" => /\ Acceptable(args, f, checks)
                          /\ active = Selected(f) \ {Main}
                          /\ \A p \in Parser : processed[p] =
                               Cardinality({i \in 1..Len(args) :
                                  f[i].role = "argument" /\ f[i].parser = p})
      /\ (result = "error" /\ Acceptable(args, f, checks)) =>
           \E x \in Hooked : Occurrences(args, f, x) # <<>>

(***************************************************************************)
(* ValuesOfCommandLine without its exception: doc.md, "Found callback",    *)
(* says of arguments and options alike that a callback returning nullopt   *)
(* lets the parser proceed parsing.                                        *)
(***************************************************************************)
ProceedKeepsValue ==
  (FirstCallEnded /\ result = "ok") =>
    LET f == Reading(args) IN
      \A x \in Silent : Occurrences(args, f, x) # <<>> => x \in given
=============================================================================
