---------------------------- MODULE OptionValue ----------------------------
(***************************************************************************)
(* The life of one option or argument of libClaPP: its constructor takes   *)
(* its parameters in the order given, found_entry() converts the words the *)
(* parse loop hands to it, its constraints are checked when the parser is  *)
(* validated, value() reads it.  Parser.tla has many such items and leaves *)
(* the conversions open; here the numbers are modelled, at small widths.   *)
(*                                                                         *)
(* A word is what stoull() and stoll() make of it: a sign and a magnitude  *)
(* (in whatever base it is written; what follows the digits is ignored).   *)
(***************************************************************************)
EXTENDS Integers, Sequences

CONSTANTS
  Half,         \* 2^63: std::uint64_t has 2 * Half values
  Type,         \* the types of values: how they are converted, and their range
  Word,         \* what can be given for a value
  Declaration,  \* what is constructed: a kind, a type, the parameters
  MaxTimes      \* bound: how often found_entry() is called with success

Wide == 2 * Half
Values(t) == t.lo .. t.hi

Repeated == {"vector_option", "variadic_argument"}
Scalar == {"param_option", "argument"}
WithoutParam == {"bool_option", "count_option"}
Positional == {"argument", "variadic_argument"}

\* default_value_t, min_max_value_t, not_null_value_t, purpose_t, found_func_t
Default == [what : {"default"}, value : Int]
MinMax == [what : {"min_max"}, type : Type, min : Int, max : Int]
NotNull == [what : {"not_null"}, type : Type]
Purpose == [what : {"purpose"}, mandatory : BOOLEAN]
Found == [what : {"found"}]
Param == Default \cup MinMax \cup NotNull \cup Purpose \cup Found

ASSUME TypeAssumption ==
  /\ Half \in Nat /\ Half > 1
  /\ Type \subseteq [conv : {"uint", "int", "chrono", "bool"}, lo : Int, hi : Int]
  /\ \A t \in Type :
       /\ t.conv = "uint" => t.lo = 0 /\ t.hi > 0 /\ t.hi < Wide
       /\ t.conv = "int" => t.hi > 0 /\ t.hi < Half /\ t.lo = -t.hi - 1
       /\ t.conv = "chrono" => t.lo = -Half /\ t.hi = Half - 1
       /\ t.conv = "bool" => t.lo = 0 /\ t.hi = 1

ASSUME WordAssumption ==
  Word \subseteq [number : BOOLEAN, neg : BOOLEAN, mag : Nat,
                  truth : {"true", "false", "none"}]

ASSUME BoundAssumption == MaxTimes \in Nat

ASSUME DeclarationAssumption ==
  /\ Declaration \subseteq [kind : Repeated \cup Scalar \cup WithoutParam,
                            type : Type, params : Seq(Param)]
  /\ \A d \in Declaration :
       /\ d.kind = "bool_option" => d.type.conv = "bool"
       /\ d.kind = "count_option" => d.type.conv = "uint"
       \* Expects() in the constructor of min_max_value_t
       /\ \A i \in 1..Len(d.params) :
            d.params[i].what = "min_max" => d.params[i].min < d.params[i].max

-----------------------------------------------------------------------------

(***************************************************************************)
(* Conversions: std::stoull, std::stoll, convert_uint and convert_int      *)
(***************************************************************************)
StoullFits(w) == w.mag < Wide
Stoull(w) == IF w.neg /\ w.mag > 0 THEN Wide - w.mag ELSE w.mag

StollFits(w) == IF w.neg THEN w.mag <= Half ELSE w.mag < Half
Stoll(w) == IF w.neg THEN -w.mag ELSE w.mag

\* Faulty: the range of the narrow type is not checked.
ConvertsFaulty(t, w) ==
  CASE t.conv = "uint" -> w.number /\ StoullFits(w)
    [] t.conv = "chrono" -> w.number /\ StoullFits(w)
    [] t.conv = "int" -> w.number /\ StollFits(w)
    [] t.conv = "bool" -> w.truth # "none"

\* Faulty: the largest value of the narrow type is refused.
ConvertsOffByOne(t, w) ==
  CASE t.conv = "uint" -> w.number /\ StoullFits(w) /\ Stoull(w) < t.hi
    [] t.conv = "chrono" -> w.number /\ StoullFits(w)
    [] t.conv = "int" -> w.number /\ StollFits(w) /\ Stoll(w) \in Values(t)
    [] t.conv = "bool" -> w.truth # "none"

\* convert_value<T>() of w does not throw.
Converts(t, w) ==
  CASE t.conv = "uint" -> w.number /\ StoullFits(w) /\ Stoull(w) <= t.hi
    [] t.conv = "chrono" -> w.number /\ StoullFits(w)
    [] t.conv = "int" -> w.number /\ StollFits(w) /\ Stoll(w) \in Values(t)
    [] t.conv = "bool" -> w.truth # "none"

\* What it returns; a duration counts in a signed integer of 64 bits.
Converted(t, w) ==
  CASE t.conv = "uint" -> Stoull(w)
    [] t.conv = "chrono" -> IF Stoull(w) >= Half THEN Stoull(w) - Wide ELSE Stoull(w)
    [] t.conv = "int" -> Stoll(w)
    [] t.conv = "bool" -> IF w.truth = "true" THEN 1 ELSE 0

\* The implicit conversion of C++ to another integral type.
Cast(t, v) ==
  CASE v \in Values(t) -> v
    [] v \notin Values(t) /\ t.conv = "bool" -> 1
    [] OTHER -> t.lo + ((v - t.lo) % (t.hi - t.lo + 1))

\* validate() of a constraint, which sees the value converted to its own type
Meets(c, v) ==
  IF c.what = "min_max"
  THEN Cast(c.type, v) >= c.min /\ Cast(c.type, v) <= c.max
  ELSE Cast(c.type, v) # 0

-----------------------------------------------------------------------------

VARIABLES
  kind, valueT, params,  \* what is declared, and the parameters left to process
  default,     \* conf.default_value: empty or one value
  checks,      \* validate_funcs: the constraints
  mandatory,   \* conf.purpose
  hooked,      \* are there found functions?
  phase,       \* "built" by its constructor, "ready", or "refused" by an exception
  given,       \* _given
  value,       \* _value: one value, none, or any number for a repeated one
  outcome,     \* of the last call: "none", "ok", "exit", "error", "valid"
  times,       \* history: how often found_entry() got to its value
  heard,       \* history: the words converted
  failed       \* history: the last word whose conversion threw, if any

conf == <<kind, valueT, default, checks, mandatory, hooked>>
history == <<times, heard, failed>>
vars == <<conf, params, phase, given, value, outcome, history>>

DeclaredOK ==
  /\ kind \in Repeated \cup Scalar \cup WithoutParam
  /\ valueT \in Type
  /\ default \in Seq(Values(valueT)) /\ Len(default) <= 1
  /\ checks \subseteq MinMax \cup NotNull
  /\ mandatory \in BOOLEAN
  /\ hooked \in BOOLEAN

ValueOK ==
  /\ value \in Seq(Values(valueT))
  /\ phase = "ready" /\ kind \in Scalar => Len(value) <= 1
  /\ phase = "ready" /\ kind \in WithoutParam => Len(value) = 1

TypeOK ==
  /\ DeclaredOK
  /\ ValueOK
  /\ params \in Seq(Param)
  /\ phase \in {"built", "ready", "refused"}
  /\ given \in BOOLEAN
  /\ outcome \in {"none", "ok", "exit", "error", "valid"}
  /\ times \in 0..MaxTimes
  /\ heard \in Seq(Word)
  /\ failed \subseteq Word

Init ==
  /\ \E d \in Declaration : kind = d.kind /\ valueT = d.type /\ params = d.params
  /\ default = <<>>
  /\ checks = {}
  /\ mandatory = TRUE
  /\ hooked = FALSE
  /\ phase = "built"
  /\ given = FALSE
  /\ value = <<>>
  /\ outcome = "none"
  /\ times = 0
  /\ heard = <<>>
  /\ failed = {}

-----------------------------------------------------------------------------

\* gen_opt_conf_process_params(), gen_arg_conf_process_params(): of several
\* default values and purposes the last one counts.
ProcessParam ==
  /\ phase = "built"
  /\ params # <<>>
  /\ LET p == Head(params) IN
       /\ default' = IF p.what = "default" THEN <<Cast(valueT, p.value)>> ELSE default
       /\ checks' = IF p.what \in {"min_max", "not_null"} THEN checks \cup {p} ELSE checks
       /\ mandatory' = IF p.what = "purpose" THEN p.mandatory ELSE mandatory
       /\ hooked' = (hooked \/ p.what = "found")
  /\ params' = Tail(params)
  /\ UNCHANGED <<kind, valueT, phase, given, value, outcome, history>>

\* "No default value for vector based param option ... possible."
RefusesDefault == kind \in Repeated /\ default # <<>>

\* The rest of the constructor: reg(), then the default value is stored.
Construct ==
  /\ phase = "built"
  /\ params = <<>>
  /\ IF RefusesDefault
     THEN phase' = "refused" /\ outcome' = "error" /\ UNCHANGED value
     ELSE /\ phase' = "ready"
          /\ value' = IF kind \in WithoutParam /\ default = <<>>
                      THEN <<0>> ELSE default
          /\ UNCHANGED outcome
  /\ UNCHANGED <<conf, params, given, history>>

-----------------------------------------------------------------------------

\* found_entry(): a found function asks for an exit, or throws; an argument
\* returns whatever its first one returns, also when it lets parsing proceed.
Stop ==
  /\ phase = "ready"
  /\ hooked
  /\ outcome' \in {"exit", "error"} \cup (IF kind \in Positional THEN {"ok"} ELSE {})
  /\ UNCHANGED <<conf, params, phase, given, value, history>>

\* The found functions, if there are any, let found_entry() go on.
Proceeds ==
  /\ phase = "ready"
  /\ ~(hooked /\ kind \in Positional)
  /\ times < MaxTimes
  /\ given' = TRUE

\* Faulty: a repeated option keeps only its last value.
StoredFaulty(v) == <<v>>

\* _value = ..., or _value.push_back(...)
Stored(v) == IF kind \in Repeated THEN Append(value, v) ELSE <<v>>

Take(w) ==
  /\ Proceeds
  /\ kind \notin WithoutParam
  /\ Converts(valueT, w)
  /\ value' = Stored(Converted(valueT, w))
  /\ outcome' = "ok"
  /\ times' = times + 1
  /\ heard' = Append(heard, w)
  /\ UNCHANGED <<conf, params, phase, failed>>

\* The conversion throws; the given flag has been set before.
Fail(w) ==
  /\ Proceeds
  /\ kind \notin WithoutParam
  /\ ~Converts(valueT, w)
  /\ outcome' = "error"
  /\ failed' = {w}
  /\ UNCHANGED <<conf, params, phase, value, times, heard>>

\* Faulty: an occurrence starts the count again.
OccurredFaulty == <<1>>

\* bool_option_t and count_option_t: true, or one more, in 32 bits
Occurred == IF kind = "bool_option" THEN <<1>> ELSE <<Cast(valueT, value[1] + 1)>>

Occur ==
  /\ Proceeds
  /\ kind \in WithoutParam
  /\ value' = Occurred
  /\ outcome' = "ok"
  /\ times' = times + 1
  /\ UNCHANGED <<conf, params, phase, heard, failed>>

-----------------------------------------------------------------------------

\* operator bool(), the has_value callback: a bool or a count option has no
\* value as long as it is false or zero, however that came about.
HasValue == IF kind \in WithoutParam THEN value[1] # 0 ELSE value # <<>>

\* Faulty: only the first value of a repeated option is checked.
ValueMeetsFaulty == HasValue => \A c \in checks : Meets(c, value[1])

\* gen_opt_validate_value_func(), gen_arg_validate_value_func()
ValueMeets ==
  HasValue => \A i \in 1..Len(value) : \A c \in checks : Meets(c, value[i])

\* Faulty: mandatory options are not looked for.
AcceptableFaulty == ValueMeets

\* What validation asks of an option or an argument
Acceptable == (mandatory => given) /\ ValueMeets

Validate ==
  /\ phase = "ready"
  /\ outcome' = IF Acceptable THEN "valid" ELSE "error"
  /\ UNCHANGED <<conf, params, phase, given, value, history>>

\* value() does not throw value_undefined_t.
Defined == kind \in Scalar => value # <<>>

Next ==
  \/ ProcessParam
  \/ Construct
  \/ Stop
  \/ \E w \in Word : Take(w) \/ Fail(w)
  \/ Occur
  \/ Validate

Spec == Init /\ [][Next]_vars

-----------------------------------------------------------------------------

\* What the user means by a word
IsNumeral(w) == IF valueT.conv = "bool" THEN w.truth # "none" ELSE w.number
Meant(w) ==
  IF valueT.conv = "bool" THEN IF w.truth = "true" THEN 1 ELSE 0
  ELSE IF w.neg THEN -w.mag ELSE w.mag

\* v stands for w: it is what was meant whenever the type can represent that;
\* otherwise it wrapped around once, at 64 bits, in an unsigned conversion.
Stands(v, w) ==
  \/ v = Meant(w)
  \/ /\ Meant(w) \notin Values(valueT)
     /\ valueT.conv \in {"uint", "chrono"}
     /\ v \in {Meant(w) - Wide, Meant(w) + Wide}

(***************************************************************************)
(* The value is what the words say that were accepted, in their order; it  *)
(* is the default value if there were none.  A conversion that threw has   *)
(* left no trace in it, wherever in the line it came.                      *)
(***************************************************************************)
ValueIsAsMeant ==
  phase = "ready" =>
    /\ kind \in Scalar =>
         IF heard = <<>> THEN value = default
         ELSE Len(value) = 1 /\ Stands(value[1], heard[Len(heard)])
    /\ kind \in Repeated =>
         /\ Len(value) = Len(heard)
         /\ \A i \in 1..Len(heard) : Stands(value[i], heard[i])

(***************************************************************************)
(* A conversion throws only for a word that is no number, or one the type  *)
(* cannot represent: doc.md lists the accepted formats for every type.     *)
(***************************************************************************)
RefusesOnlyTheImpossible ==
  \A w \in failed : ~IsNumeral(w) \/ Meant(w) \notin Values(valueT)

(***************************************************************************)
(* A count option tells how often it occurred, on top of its default, as   *)
(* long as the 32 bits of its counter hold the sum.                        *)
(***************************************************************************)
CountsOccurrences ==
  (phase = "ready" /\ kind = "count_option") =>
    LET sum == times + (IF default = <<>> THEN 0 ELSE default[1]) IN
      sum <= valueT.hi => value[1] = sum

(***************************************************************************)
(* doc.md: each given value is checked.  After a validation without an     *)
(* exception every value, of a repeated option too, lies within every      *)
(* constraint -- provided that the type of the constraint holds all values *)
(* of the option, and the value of a bool or count option is not zero.     *)
(***************************************************************************)
ValidMeansWithin ==
  outcome = "valid" =>
    \A i \in 1..Len(value) : \A c \in checks :
      \/ kind \in WithoutParam /\ value[i] = 0
      \/ ~(c.type.lo <= valueT.lo /\ valueT.hi <= c.type.hi)
      \/ IF c.what = "min_max" THEN value[i] \in c.min .. c.max ELSE value[i] # 0

(***************************************************************************)
(* A mandatory option or argument that was accepted has a value, so that   *)
(* value() does not throw -- unless an earlier conversion failed: it has   *)
(* set the given flag, which is all that a later validation looks at.      *)
(***************************************************************************)
MandatoryIsDefined ==
  (outcome = "valid" /\ mandatory /\ failed = {}) => Defined
=============================================================================
