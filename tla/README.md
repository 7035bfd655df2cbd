# libClaPP in TLA+

Models, checks and proofs for libClaPP 0.4.0 (`src/src/clapp`, `src/src/include/clapp`), a C++17
library for command line parsers. A program declares options, arguments, option containers and
sub-parsers as members of a parser object; `parse()` hands the words of a command line to them one
after the other, `parse_and_validate()` also checks what was found, and a parser container guards a
parser that several threads or several calls share.

## Inventory

| component | state it keeps | operations | what is hard | what makes it correct |
|---|---|---|---|---|
| parse loop: `basic_parser_t`, `basic_main_parser_t`, `basic_sub_parser_t` (`parser.cpp`, `main_parser.cpp`, `sub_parser.cpp`) | number of processed arguments per parser, active flag per sub-parser, executable | `parse()`, `parse_and_validate()`, `sub_parse()`, `validate_recursive()` | nested loops and a recursion share one iterator; exits and exceptions leave them anywhere; nothing is reset before the next call | every word plays the role the line gives it; the loop ends; an accepted line satisfies all active parsers; what was not selected is untouched |
| options and arguments (`option.*`, `argument.*`) | given flag and value per item, found callbacks | `found_entry()`, `given()`, `value()` | a conversion or a callback fails between the two writes | given means the line holds it; values in the order of the line |
| values and constraints (`value.*`) | none | conversions, default values, constraints | widths, signs, constraints of another type than the option | a value that is stored is what the word says; a validated one is within its constraints |
| option containers (`option_container.*`) | a tree of and and xor containers with their options | `validate_options()` | accumulators handed down by reference, replaced and reused along the tree | accepted means the and/xor formula holds; a refusal is an exception |
| registration (`parser.hpp`, `option_container.hpp`, `parser.cpp`) | the options per container, arguments, descriptions, sub-parsers | four `reg()` functions, called by constructors | any order, any of them may throw and the rest goes on | names are unique in a parser, words can be assigned to arguments |
| parser container (`parser_container.*`) | an atomic state, the wrapped parser | `change_state()`, `parse()`, `parse_and_validate()`, `operator->`, `operator*` | threads, exit requests and exceptions between two compare-and-swaps | one thread at a time parses; a reference leads to a complete parser |
| usage and help text (`parser.cpp`, `parser_types.*`) | none | `gen_help_msg()` and below, `get_active_parser()` | called in the middle of the loops; unsigned widths, recursion over sub-parsers | it describes the parser that was selected; no width wraps |
| exceptions, type traits, filesystem selection | none | – | – | not modelled: no logic of their own |

Components interact by calls only: constructors register callbacks with a parser (registration);
the loop of a parser calls the callbacks of its items and the loop of a sub-parser; validation asks
the same callbacks; the container calls the main parser. An option, an argument or a sub-parser
belongs to one parser. Threads meet in the container alone; the parser has no lock.

The hazards that follow from this, at their lines, are listed in `PROJECT.json`.

## Modules

| module | models | over |
|---|---|---|
| `Parser` | the parse loop, its items, validation of the parser tree | – |
| `ParserReference` | a declarative reading of a command line: roles, values, verdict | `Parser` |
| `OptionRules` | the option containers of the parsers: what their validation decides and what they say it should | `Parser`, `OptionValidation` |
| `MCParser` | the parser tree, its containers, the words and the lines TLC uses | `ParserReference`, `OptionRules` |
| `ParserProof` | theorems about the parse loop | `Parser` |
| `ReferenceProof` | the loop and the reading agree; the containers meet the assumption of the reading | `ParserReference`, `OptionRules`, `ParserProof` |
| `Help` | the usage message: whom it describes and whether it can be made; help options and clients ask for it | `Parser` |
| `MCHelp` | its instance | `Help`, `MCParser` |
| `HelpProof` | theorems about it | `Help`, `ParserProof` |
| `OptionValue` | one option or argument: constructor parameters, conversions, constraints, value | – |
| `MCOptionValue` | small widths, the words around every bound, declarations | `OptionValue` |
| `OptionValueProof` | theorems about it | `OptionValue` |
| `OneShot` | abstract: an object parsed by one thread at a time until it is ready, then read by all | – |
| `ParserContainer` | the container and the threads that use it; refines `OneShot` | `OneShot` |
| `ContainerProof` | theorems about the container | `ParserContainer` |
| `ContainedParser` | the parse loop within the container; refines `ParserContainer` | `Parser`, `ParserContainer` |
| `MCContained` | its instance | `ContainedParser`, `MCParser` |
| `ContainedProof` | the refinement proved | `ContainedParser`, `ParserProof` |
| `OptionValidation` | the walks of `validate_options()` and the formula they decide | – |
| `MCOptions` | trees of up to three levels | `OptionValidation` |
| `OptionValidationProof` | theorems about trees of any depth and width | `OptionValidation` |
| `Registration` | the four `reg()` functions | – |
| `MCRegistration` | its instance | `Registration` |
| `RegistrationProof` | theorems about registration | `Registration` |

### Parser

State and code: `given` and `value` are `_given` and `_value` of all items; `processed` is
`num_processed_arguments`, `active` the flag of the sub-parsers; `args`, `pos` are the words and the
iterator `ait`; `cur` is the parser whose loop runs (a sub-parser's loop runs to the end of the
words, so the loops around it have nothing left to do when it returns: one variable stands for the
stack); `rest` is what `parse_short()` has still to read of a cluster; `todo` are the parsers
`validate_recursive()` has still to visit; `result` is how the last call ended.

| action | code |
|---|---|
| `Call` | `parse()`, `parse_and_validate()` of the main parser: nothing is reset |
| `UnknownOption` | `find_option()` fails, `process_parse_result()` throws |
| `RefuseParam` | "No param allowed", "No param given" |
| `FlagOption`, `ParamOption` | the rest of `parse_long()`, one letter of `parse_short()`, with `found_entry()` |
| `TakeArgument` | the argument branches of `parse_arg()`, with `found_entry()` |
| `SelectSubParser`, `UnknownArgument` | the end of `parse_arg()`, `sub_parse()` |
| `EndOfWords`, `Validate`, `Accept` | the end of the loops, `validate_recursive()`, the return |

A found callback may let the loop proceed, ask for an exit or throw, at every call: a choice. Words
are abstract: `Lex` tells how `parse(option, ait, end)` reads one, `Bad` which conversions throw,
`Invalid` which values a constraint refuses. `Satisfied` is `validate()`: of `validate_options()` it knows
by the constant `OptionsMeet` which given options and which refused values it accepts, so that the
proofs hold whatever the containers are. In the runs `OptionsMeet` is `WalkAccepts` of
`OptionRules`: the walks of `OptionValidation` over the containers of each parser. The order in which the parsers are validated is left open; in the code it is that of a
map, and it only decides which of several exceptions is thrown.

### ParserReference, OptionRules

`ParserReference` reads a line without a loop over states. `Reading` gives every word its role (an
option word, the parameter of the word before, an argument, the name of a sub-parser, or "bad" from the
first word on that nobody can take) and the parser it belongs to; `Occurrences` collects what the words
give to an item, letter by letter within a cluster; `Expected`, `Selected` and `Acceptable` are the value
of an item, the parsers that are selected and the verdict. Whether the options fit the containers is the
constant `Formula`, of which `OptionsAssumption` says that it is what `OptionsMeet` decides. In the runs
`Formula` is `FormulaAccepts` of `OptionRules`, so `VerdictOfCommandLine` compares the walks with the
formula at the end of a parse; `OptionsAssumptionHolds` proves that they agree.

### Help

`HelpSpec` is the parse loop with two more actions. `ShowHelp` is the found callback of a help option,
`gen_func_print_help_and_req_exit()`, in the middle of the loop: it makes the message and asks for the
exit, or throws. `ClientHelp` is a call of `gen_help_msg()` between two parse calls, as the examples do
after an exception. `help` is a history variable: by and about which parser the last message was, and
whether it could be made. Text is abstract but for the sizes of the names in a column: `MaxNameSize`
is `max_name_size`, `Wraps` that a width below zero is asked for. The recursion depth is a parameter.

### OptionValue

One item from its constructor on, of any of the six classes (`param_option`, `vector_option`,
`argument`, `variadic_argument`, `bool_option`, `count_option`; a help option is a bool option).

| action | code |
|---|---|
| `ProcessParam` | one round of `gen_opt_conf_process_params()`, `gen_arg_conf_process_params()` |
| `Construct` | the rest of the constructor: refusal of a default value, `reg()`, the first value |
| `Stop` | `found_entry()` ended by a found callback |
| `Take`, `Fail` | `found_entry()` of an item with a value, when `convert_value()` returns or throws |
| `Occur` | `found_entry()` of bool and count options |
| `Validate` | the given flag and `gen_opt_validate_value_func()`, `gen_arg_validate_value_func()` |

A word is a sign and a magnitude, as `stoull()` and `stoll()` read it: base, prefix and what follows the
digits do not matter to them. `Half` stands for 2^63; a type is a way of conversion and a range, so the
widths are parameters. `stoull()` negates at 64 bits, the unsigned conversions compare after that, and
the durations go on to a signed count: `Converts` and `Converted` say so, `Stands` in the properties
says what of it is as the user meant. A constraint has a type of its own, `Cast` is the implicit
conversion of the value to it. `heard`, `times` and `failed` are history variables.

### ParserContainer, ContainedParser, OneShot

The atomic steps are the compare-and-swap of `change_state()` and the load in `operator->`; the
wrapped parser is `fresh`, `busy`, `partial` or `complete`. `change_state()` is public, and it is the
only way out of `parsing` after an exception: a thread may call it in its handler, from `parsing`
to `not_parsed` (a `Careless` one may not). Other uses of it by a client are not modelled, as they
would defeat the class. `ContainedParser` replaces the choice of `ParserContainer`, how the parser
ends, by the parse loop, for one thread.

### OptionValidation

The accumulators of the walk are a record: `out` (an exception or a violated contract has ended the
walk), `xor` (`given_xor_option` has a value), `ands` (how many strings are in `given_and_options`).
`XorOption` and `InXor` are the bodies of the loops in `validate_options_xor_options()` and
`validate_options_xor_container()`, `AndOption` and `InAnd` those of the two loops for and containers,
`Walk` is such a loop; `Through[c]` maps what a walk hands to the container `c` to what it gets back,
`Final` is the check at the end of `validate_options_and()`, `Top` is `validate_options()` and
`NumMandatory` counts what `append_mandatory_and_options()` appends. The strings, which
only serve messages, are left out, as is `mandatory_and_options`, which is computed where it is
compared. A tree may have any depth: the recursion goes over `Container`, the containers of all parsers,
of which `Trees` says what registration makes sure of. `Find` lets the loop find options in any order, then `ValidateOptions` gives the verdict.

### Registration

One parser with its option containers. Names with white space or an equal sign (`Misspelled`) are refused
by the constructor, before reg(). A reg() that throws leaves the parser in use; that is how
failed constructors act on what comes later. `optionals` is `optional_argument_descriptions`, of
which `reg()` reads whether it is empty; the mandatory descriptions, which nothing reads, are left
out. Destruction, copies and moves of registered objects are not modelled. The properties are what
modules `Parser` and `OptionValidation` assume of a tree: `Opt[p]` is a function because names are
unambiguous, `IsVariadic` looks at the last argument because only that one can be variadic.

## Runs

| run | question | bounds | result |
|---|---|---|---|
| `parser` | does the loop do what the line says, and end? | 4 parsers on 3 levels, 11 items, one parser with an xor container; lines of up to 3 of 16 words and of up to 5 of the 8 words that lead into sub-parsers or meet the containers; 1 call | holds |
| `reparse` | what holds over calls of the same object, what do they leave behind for the next, and whom does its usage describe? | 2 calls, lines of up to 2 words, 3 of 6; usage asked for at depth 0 and 3 | holds |
| `help_wrap` | does a help option end the parse with an exit request? | as `reparse`, 1 call, 1 word | **violated** |
| `values` | is a value what its words mean, and is it within its constraints? | integers of 4 and 2 bits, 20 words around their bounds, 41 declarations, 2 occurrences | holds |
| `found_callback` | does an argument with a found callback keep its value? | lines of 1 and 3 words | **violated** |
| `container` | do threads share the container safely? | 3 threads, one of them careless | holds, without deadlock |
| `contained` | does the parse loop in the container do what the container relies on? | as `reparse` | holds |
| `stale_reparse` | is what the container shows what the last line held? | 2 calls, lines of 1 and 2 words | **violated** |
| `option_validation` | does `validate_options()` decide the formula? | all trees of 3 levels with up to 5 options, all sets of given options, 3 sets of refused values | holds |
| `xor_abort` | does the contract in `validate_options_xor_container()` hold? | one tree of 3 levels | **violated** |
| `registration` | what can any order of constructors lead to? | 3 containers, 2 option names, 3 argument names, 2 sub-parsers | holds |
| `late_variadic` | do sub-parsers exclude variadic arguments? | as `registration` | **violated** |

Why the bounds are enough. A word of a line interacts with the one before it (a parameter), with the
letters of its own cluster and with the parser and the argument slot reached so far; five words reach
the argument of the main parser, a sub-parser, its argument, a nested sub-parser and the argument
there, and three words of all kinds hold every pair of neighbours. An accepted line with `add` has five words,
among them one of the two alternatives of its xor container; the same line with both is refused. Two calls show every effect of a
first call on a second; a third one would only start from a state of the same kind, and the theorems
hold for any number. Three threads are one that parses, one that tries to and one that reads. Three
levels of containers are the least that put an xor container below an and container below an xor
container, where the accumulators are replaced twice. In
`values` the widest integers have 4 bits and the narrow ones 2: enough for a bound of each type, one
more and one less, below zero, and the wrap of each; two occurrences are one that another one follows.
That the widths are small does not matter is what `OptionValueProof` proves.

Deadlock is checked in `container`. In the other runs the system may stop: a parser need not be
called again, a verdict ends a validation, and registration ends when everything is registered.

Fairness. A parse call is sequential code that waits for nobody, so `Step` is weakly fair in `Parser`;
nothing makes a client call. In `ParserContainer` a call that has begun goes on, and an exception
handler ends, one way or the other; that is the weak fairness of `Running(t) \/ Recover(t) \/
GiveUp(t)`. `CallReturns` and `NotStuck` rest on it.

### What the violations show

1. `xor_abort`: with `-h | (-a | -b)`, the last two in an xor container in an and container, the words
   `-h -a` violate the `Expects()` of `option_container.cpp:230` that "should always hold" and so end
   the program. The inner xor container is checked against accumulators of its own (line 343), so the
   outer alternative is not noticed before. `AcceptsTheFormula` holds all the same: such a line is
   not accepted, it is only refused in the wrong way.
2. `found_callback`: `found_entry()` of arguments returns what the first callback returns, before
   `_given` and `_value` are set; `doc.md:449` promises that parsing proceeds, for arguments and
   options alike, and for options it does.
3. `stale_reparse`: after an exit request the container parses again with the same parser, without a
   reset. `-v -h`, then an empty line, gives access to a parser in which `-v` is given. `doc.md:789`
   says the container prevents access to members in an unspecified state.
4. `late_variadic`: `doc.md:969` excludes variadic and optional arguments next to a sub-parser; a
   mandatory variadic argument, which is the default, is accepted after one. It takes all further
   words, and the sub-parser cannot be selected any more.
5. `help_wrap`: `max_name_size` is the size of the longest name of an option or argument, but the names
   of sub-parsers are padded to it, too (`parser.cpp:240`). For one that is at least two characters
   longer `max_name_size + 1 - name.size()` wraps around, and `std::length_error` leaves `parse()`
   instead of the exit reason that `doc.md:464` promises. `HelpExitsIfNamesFit` shows that nothing else can prevent it.

A disagreement that has no run of its own: `doc.md:122` says that "optional arguments and variadic
arguments can't be used together. In order to make sure, that the arguments can be parsed uniquely."
`reg()` refuses whatever follows a variadic argument, and a mandatory argument that follows an optional one,
but an optional variadic argument may follow an optional one (`parser.hpp:41-61`), and does in
`examples/large_example.cpp`. The run `registration` reaches such parsers and `Assignable` holds there:
the first word goes to the optional argument, the others to the variadic one.

Exceptions that are part of a property because the code makes them: `ValueIsAsMeant` lets a value wrap
once at 64 bits if its type cannot represent what was meant (`-1` is accepted for a `std::uint64_t`, and
2^63 is a negative duration); `ValidMeansWithin` leaves out constraints whose type is narrower than that
of the option, and bool and count options that are zero; `MandatoryIsDefined` items of which an earlier
conversion failed, as the given flag it has set is all that a later validation looks at;
`Assignable` allows an optional variadic argument after an optional one, which `doc.md:122` excludes.

## Proofs

All theorems hold for every value of the constants that meets the named assumptions of the modules
(a sub-parser and an item belong to one parser, an option word names at least one option, a command
line is a sequence of words, ...): any tree of parsers, any lines, any number of calls, threads,
containers and registrations. The proofs use the library's facts about sequences and finite sets.
Induction is not among them as a rule with a predicate for parameter, which the provers cannot
instantiate; `ReferenceProof` and `OptionValidationProof` derive it for sets instead: every set of
numbers has a least element (`NatMin`, from the well-foundedness of inclusion on finite sets), so a set
that holds 0 and all successors holds all numbers (`SetInduction`), a set that inherits from lower ranks
holds everything (`RankInduction`), and a definition that looks down a rank has a solution (`Solution`,
`Recursion`), which is what a recursive function is.

- `ParserProof`. `IInv` joins the type invariant with what the properties need to be inductive: the
  parser whose loop runs is the main parser or active, and all active ones are reachable through
  active ones; the visited parsers of a validation, those not in `todo`, are satisfied and their
  active children are visited or in `todo` (the closure argument behind `AcceptedMeansSatisfied`);
  a given argument is among the first `processed[p]`, or is the next one (a conversion that threw has
  set `_given` before the counter moved), and the first `processed[p]` are given, but for those with a
  found callback. From it follow `TypeOK`,
  `ActivePath`, `UntouchedUnlessActive`, `ArgumentsInOrder`, `AcceptedMeansSatisfied` and the action
  property `Progress`.
  `BranchInv` adds that in the first call one branch is active and the loop runs at its end, for
  `OneActiveBranch`.
  `TipsInv` counts the ends of the branches: a call that is not at one of them has still one to add, so
  that a call adds one at most, for `OneBranchPerCall`. `LossInv` says that a call that is not over has
  lost no value yet, so that an exception is the last and only loss of its call, for
  `OneLossPerException`.
- `HelpProof`. Every step of `HelpSpec` is one of the parse loop or leaves it alone, so the invariants
  above carry over; and if no name wraps, a help option that is met ends the call with an exit request.
  For `HelpIsOfTheSelected` the invariant says that the parser whose loop runs is the only end of the
  branch of active parsers in the first call (`BranchEnd`); `ActiveParser` walks down that branch and
  so arrives there.
- `ReferenceProof`. `LineInv` relates every state of the first call to the reading of the whole line:
  where the loop is (`PlaceIs`: `cur`, `pos` and the letters left in `rest` are the parser, the index and
  the letters of the reading, and the number of processed arguments of every parser is that of the
  argument words before), and what is stored (`StoreIs`: the value of an item holds what the words
  before `pos` and the letters done of the current word give it, and it is given iff there is
  something). A step of the loop extends both by one letter, one parameter or one word; where the code
  throws, the reading finds a bad word at this place and therefore the line not acceptable. At the end of
  the words the processed numbers and the given options are those of the line, and validation decides
  `Acceptable`. `ValuesOfCommandLine` and `VerdictOfCommandLine` follow for all trees, lexings and lines.
  The recursive functions of the reading (`Reading`, `GivenUpTo`) are handled by `Recursion`.
  `OptionsAssumptionHolds` discharges the assumption about the containers, for any given and refused
  options, by the theorems of `OptionValidationProof`.
- `OptionValidationProof`. The recursive functions of the module are shown to be what their equations
  say (`NumMandatoryIs`, `BelowIs`, `MeetsIs`, `ThroughIs`). `XorWalk` and `AndWalk` are about a loop over
  parts of which is known how each changes the accumulators; `Says` is what is shown of every container,
  by induction over the height: a walk gets through an xor container iff no value is refused and, if
  anything below is given, the formula is met and no alternative was chosen before, and then it has
  chosen one; through an and container it counts some number of mandatory options, which is zero iff
  nothing is given and all of them iff the formula is met (`Counts`), so that the comparison of two numbers
  in `validate_options_and()` decides the formula. `AcceptsTheFormula` and `TypeOK` follow for trees of any
  depth and width; TLC checks three levels. `AssertionHoldsIfFlat` marks the bounds of the finding
  `xor_abort`: without an xor container in an and container that is an alternative, the contract holds.
- `OptionValueProof`. The invariant follows an item through its constructor (constraints are well
  formed, the default value is in range), relates `value` to `heard` word by word, `times` to the count,
  and says of the outcome "valid" that `Acceptable` held when it came about and still does. All six
  properties of the run follow, for every width and every declaration.
- `ContainedProof`. `CInv` joins `IInv` with the state of the container: the loop runs only in
  `parsing`, and after `parsed` it has ended with success. `ContainerImplemented` maps every step of the
  loop to the return or the exception of the wrapped parser, or to a stutter.
- `ContainerProof`. The invariant relates the state to the threads: a thread that owns the parser
  (`Owns`) implies the state `parsing`, and at most one owns it (`OwnerInv`); a thread that leaves with
  success, and the state `parsed`, imply a complete parser (`ResultInv`);
  readers exist in `parsed` only, which nothing leaves. From it follow `TypeOK`, `Exclusive`,
  `UseIsComplete`, `NothingLost` and the refinement `IsOneShot`, step by step.
- `RegistrationProof`. Besides the properties, the invariant says that only containers of the tree
  have options (otherwise a search could miss one) and that every optional argument is described
  (otherwise a sub-parser could join it). From it follow `TypeOK`, `Unambiguous`, `Assignable`,
  `DescriptionsOfArguments` and `OptionalOrSubParser`.

Only model-checked: liveness (`CallReturns`, `NotStuck`), as the prover cannot deal with fairness and
`ENABLED`. Every invariant and every action property of a passing run is proved.

## Not modelled, and what comes next

Left out for good: exceptions beyond the fact that a call throws, message texts, type traits, build
information, copying and moving of options and containers, destruction; conversions to floating point
numbers, strings and paths, which are the standard library's, and `path_exists_t`, which asks the file
system; constraints and found callbacks beyond what they may do to the parser. Also open, as clients
hardly use them: the inherited `parse(begin, end)`, which leaves the executable unknown, and
`set_print_and_exit_func()`. The models begin after the executable: an empty argument vector
(`argc == 0`) violates the contract of its iterator before anything else happens.

The plan, in this order:

1. Registration of a whole tree of parsers, composed with the parse loop: the assumptions of `Parser` as
   properties of what registration leaves.
2. Values in the parse loop: `Bad` and `Invalid` of `Parser` taken from `OptionValue`, as
   `OptionsMeet` is from `OptionValidation`.
