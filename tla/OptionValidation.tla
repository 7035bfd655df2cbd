--------------------------- MODULE OptionValidation ---------------------------
(***************************************************************************)
(* basic_option_container_t::validate_options(): option containers joined  *)
(* by logical-and and logical-xor, nested to any depth.  The code walks    *)
(* down the tree with two accumulators: given_xor_option, the alternative  *)
(* already chosen, and given_and_options, the mandatory options found, of  *)
(* which there must be as many as mandatory_and_options.                   *)
(*                                                                         *)
(* A container is a record [kind, options, subs]; an option a record       *)
(* [name, mandatory].  Strings for messages are left out.                  *)
(***************************************************************************)
EXTENDS Naturals, Sequences

CONSTANTS
  Shape,      \* identifies the containers of parsers, which are validated
  Tree(_),    \* the container of that shape, with all that is registered below
  Parts(_),   \* Parts(s): the container Tree(s) and those below it
  Height(_),  \* a bound of the number of levels below a container
  OptionName, \* the names of all options
  Refused     \* sets of options whose values a constraint may refuse

Container == UNION {Parts(s) : s \in Shape}

\* What registration makes sure of
Trees ==
  /\ \A s \in Shape : Tree(s) \in Parts(s)
  /\ \A c \in Container :
       /\ c.kind \in {"and", "xor"}
       /\ c.options \in Seq([name : OptionName, mandatory : BOOLEAN])
       \* reg() throws for an optional option of an xor container
       /\ c.kind = "xor" => \A i \in 1..Len(c.options) : c.options[i].mandatory
       \* a container registers, when constructed, with one that exists
       /\ c.subs \in Seq(Container)
       /\ Height(c) \in Nat
       /\ \A i \in 1..Len(c.subs) : Height(c.subs[i]) < Height(c)

ASSUME ContainerAssumption == Trees /\ Refused \subseteq SUBSET OptionName

VARIABLES
  shape,      \* of the container of the parser
  given,      \* names of the options whose given flag is set
  refused,    \* names of the options whose value a constraint refuses
  verdict     \* "none", "accept", "throw" or "abort" (a contract is violated)

vars == <<shape, given, refused, verdict>>

(***************************************************************************)
(* What is handed on during the walk: was it left, by an exception or by a *)
(* violated Expects()?  Has an alternative been chosen?  How many          *)
(* mandatory options were found?                                           *)
(***************************************************************************)
State == [out : {"go", "throw", "abort"}, xor : BOOLEAN, ands : Nat]
Start == [out |-> "go", xor |-> FALSE, ands |-> 0]
Leave(s, how) == [s EXCEPT !.out = how]

Value(o, s) == IF o.name \in refused THEN Leave(s, "throw") ELSE s

\* The first n elements are visited, one after the other, until the walk is left.
Walk(Visited, s, n) ==
  LET at[i \in 0..n] ==
        IF i = 0 THEN s
        ELSE LET r == at[i - 1] IN IF r.out = "go" THEN Visited[<<r, i>>] ELSE r
  IN  at[n]

\* Faulty: a second alternative replaces the first one.
XorOptionFaulty(s, o) ==
  IF o.name \in given THEN Value(o, [s EXCEPT !.xor = TRUE]) ELSE s

\* An option of an xor container: its value matters only if it is given.
XorOption(s, o) ==
  IF o.name \notin given THEN s
  ELSE IF s.xor THEN Leave(s, "throw")
  ELSE Value(o, [s EXCEPT !.xor = TRUE])

\* An option of an and container
AndOption(s, o) ==
  IF ~(o.mandatory /\ o.name \in given) THEN Value(o, s)
  ELSE IF s.xor THEN Leave(s, "throw")
  ELSE Value(o, [s EXCEPT !.ands = @ + 1])

Total(q, n) ==
  LET sum[i \in 0..n] == IF i = 0 THEN 0 ELSE sum[i - 1] + q[i]
  IN  sum[n]

\* append_mandatory_and_options(): an xor container below counts for one.
NumMandatory[c \in Container] ==
  Total([i \in 1..Len(c.options) |-> IF c.options[i].mandatory THEN 1 ELSE 0],
        Len(c.options))
  + Total([i \in 1..Len(c.subs) |-> IF c.subs[i].kind = "and"
                                    THEN NumMandatory[c.subs[i]] ELSE 1],
          Len(c.subs))

\* The check after the walk through an and container and the ones joined to it
Final(c, s, allowEmpty) ==
  IF s.out # "go" \/ (allowEmpty /\ s.ands = 0) \/ s.ands = NumMandatory[c]
  THEN s
  ELSE Leave(s, "throw")

\* A container d in an xor container; walk: what the walk through d leads to.
InXor(s, d, walk) ==
  IF d.kind = "xor" THEN walk[s]
  ELSE LET q == Final(d, walk[[s EXCEPT !.ands = 0]], TRUE)
       IN [ands |-> s.ands,
           xor |-> q.xor \/ q.ands > 0,
           \* Expects(!given_xor_option.has_value())
           out |-> IF q.out = "go" /\ q.ands > 0 /\ q.xor THEN "abort" ELSE q.out]

\* A container d in an and container
InAnd(s, d, walk) ==
  IF d.kind = "and" THEN walk[s]
  ELSE LET q == walk[Start]
       IN [s EXCEPT !.out = q.out, !.ands = IF q.xor THEN @ + 1 ELSE @]

\* validate_options_xor() and validate_options_and(), but for the final check
Through[c \in Container] ==
  LET anOption == [e \in State \X (1..Len(c.options)) |->
                     IF c.kind = "xor" THEN XorOption(e[1], c.options[e[2]])
                                       ELSE AndOption(e[1], c.options[e[2]])]
      aSub == [e \in State \X (1..Len(c.subs)) |->
                 IF c.kind = "xor" THEN InXor(e[1], c.subs[e[2]], Through[c.subs[e[2]]])
                                   ELSE InAnd(e[1], c.subs[e[2]], Through[c.subs[e[2]]])]
  IN  [s \in State |-> Walk(aSub, Walk(anOption, s, Len(c.options)), Len(c.subs))]

Top(c) ==
  LET q == Through[c][Start] IN
    IF c.kind = "and" THEN Final(c, q, FALSE)
    ELSE IF q.out = "go" /\ ~q.xor THEN Leave(q, "throw") ELSE q

-----------------------------------------------------------------------------

TypeOK ==
  /\ shape \in Shape
  /\ given \subseteq OptionName
  /\ refused \subseteq OptionName
  /\ verdict \in {"none", "accept", "throw", "abort"}

Init ==
  /\ shape \in Shape
  /\ given = {}
  /\ refused \in Refused
  /\ verdict = "none"

\* The parse loop meets an option of the tree.
Find(n) ==
  /\ verdict = "none"
  /\ given' = given \cup {n}
  /\ UNCHANGED <<shape, refused, verdict>>

\* Faulty: the walk that has not been left is taken for the verdict.
VerdictFaulty(q) == q.out

Verdict(q) == IF q.out = "go" THEN "accept" ELSE q.out

ValidateOptions ==
  /\ verdict = "none"
  /\ verdict' = Verdict(Top(Tree(shape)))
  /\ UNCHANGED <<shape, given, refused>>

Next == ValidateOptions \/ \E n \in OptionName : Find(n)

Spec == Init /\ [][Next]_vars

-----------------------------------------------------------------------------

(***************************************************************************)
(* What logical-and and logical-xor mean, as formulas over the given       *)
(* mandatory options: and wants everything below it, xor one alternative   *)
(* and nothing of the others.  An alternative without mandatory options    *)
(* cannot be chosen.                                                       *)
(***************************************************************************)
Below[c \in Container] == {c} \cup UNION {Below[c.subs[i]] : i \in 1..Len(c.subs)}

Wanted(c) ==
  UNION {{d.options[i].name : i \in {k \in 1..Len(d.options) : d.options[k].mandatory}}
           : d \in Below[c]}

Untouched(c) == Wanted(c) \cap given = {}

Chosen(c) ==
  {<<"option", i>> : i \in {k \in 1..Len(c.options) : c.options[k].name \in given}}
    \cup {<<"sub", i>> : i \in {k \in 1..Len(c.subs) : ~Untouched(c.subs[k])}}

Meets[c \in Container] ==
  IF c.kind = "and"
  THEN /\ \A i \in 1..Len(c.options) : c.options[i].mandatory => c.options[i].name \in given
       /\ \A i \in 1..Len(c.subs) : Meets[c.subs[i]]
  ELSE \E x \in Chosen(c) :
         /\ Chosen(c) = {x}
         /\ x[1] = "sub" => Meets[c.subs[x[2]]]

\* The values that are looked at: in and containers those of all options
Looked(c) ==
  UNION {{d.options[i].name : i \in 1..Len(d.options)}
           \cap (IF d.kind = "and" THEN OptionName ELSE given) : d \in Below[c]}

(***************************************************************************)
(* validate_options() accepts exactly what the containers say: no tree is  *)
(* misread through the accumulators that are handed down and shared.       *)
(***************************************************************************)
AcceptsTheFormula ==
  verdict # "none" =>
    (verdict = "accept" <=> Meets[Tree(shape)] /\ Looked(Tree(shape)) \cap refused = {})

(***************************************************************************)
(* "because given_xor_option is checked in the validate_options_xor() and  *)
(* validate_options_and() function, this assertion should always hold":    *)
(* a refused command line is refused by an exception.                      *)
(***************************************************************************)
AssertionHolds == verdict # "abort"
=============================================================================
