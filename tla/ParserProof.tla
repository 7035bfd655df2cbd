----------------------------- MODULE ParserProof ------------------------------
(***************************************************************************)
(* Proofs about the parse loop: the type invariant, the invariants that    *)
(* the run "reparse" checks and the action property Progress hold for      *)
(* every tree of parsers, every lexing of the words and every number of    *)
(* calls.                                                                  *)
(***************************************************************************)
EXTENDS Parser, SequenceTheorems, FiniteSetTheorems, TLAPS

(***************************************************************************)
(* The inductive invariant.  The loop that runs belongs to the main parser *)
(* or to an active sub-parser.                                             *)
(***************************************************************************)
CurActive == cur \in {Main} \cup active

(***************************************************************************)
(* num_processed_arguments counts a prefix of the arguments.  One argument *)
(* after it may be given as well: its conversion has thrown.               *)
(***************************************************************************)
ArgumentCount ==
  \A p \in Parser : \A j \in 1..NumArgs(p) :
    /\ Arg[p][j] \in given => /\ j <= processed[p] + 1
                              /\ Arg[p][j] \notin Hooked
    /\ j <= processed[p] => Arg[p][j] \in given \cup Hooked

Closed(S) == Main \in S /\ \A p \in S : Children(p) \cap active \subseteq S

(***************************************************************************)
(* Whoever walks down from the main parser along active sub-parsers meets  *)
(* all of them.  This says that the active parsers form a tree, without    *)
(* speaking of paths.                                                      *)
(***************************************************************************)
Reachable == \A S \in SUBSET Parser : Closed(S) => active \subseteq S

\* validate_recursive() has been to S, but for the parsers still to do.
VisitedIs(S) ==
  /\ S \subseteq Parser
  /\ Main \in S
  /\ todo \subseteq S
  /\ \A p \in S \ todo : Satisfied(p) /\ Children(p) \cap active \subseteq S

Visited == phase = "validate" => \E S \in SUBSET Parser : VisitedIs(S)

IInv ==
  /\ TypeOK
  /\ CurActive
  /\ ActivePath
  /\ UntouchedUnlessActive
  /\ ArgumentCount
  /\ Reachable
  /\ Visited
  /\ AcceptedMeansSatisfied

-----------------------------------------------------------------------------

\* The library's facts about Tail, in the form that is needed here
LEMMA TailFacts ==
  ASSUME NEW T, NEW s \in Seq(T), s # <<>>
  PROVE  /\ Tail(s) \in Seq(T)
         /\ Len(s) \in Nat \ {0}
         /\ Len(Tail(s)) = Len(s) - 1
         /\ Tail(s) = <<>> <=> Len(s) = 1
<1>1. Len(s) \in Nat \ {0} /\ Tail(s) \in Seq(T) /\ Len(Tail(s)) = Len(s) - 1
  OBVIOUS
<1>2. Len(Tail(s)) = 0 <=> Tail(s) = <<>>
  BY <1>1, EmptySeq
<1> QED BY <1>1, <1>2

\* The letters of an option word and what stands behind them
LEMMA OptionFacts ==
  ASSUME TypeOK, AtWord("option")
  PROVE  /\ Names \in Seq(Name)
         /\ Names # <<>>
         /\ Len(Names) \in Nat \ {0}
         /\ args[pos] \in Word
         /\ Lex[args[pos]].param \in Word
         /\ Known => Current \in OptionsOf(cur) \cap Option
<1>1. args[pos] \in Word
  BY DEF TypeOK, AtWord
<1>2. Lex[args[pos]] \in Lexeme
  BY <1>1, WordAssumption
<1>3. Names \in Seq(Name) /\ Names # <<>>
  BY <1>1, <1>2, WordAssumption DEF Names, TypeOK, AtWord, Lexeme
<1>4. Len(Names) \in Nat \ {0}
  BY <1>3
<1>5. Known => Current \in OptionsOf(cur) \cap Option
  BY ItemAssumption DEF Known, Current, OptionsOf, TypeOK
<1> QED BY <1>1, <1>2, <1>3, <1>4, <1>5 DEF Lexeme

\* The argument that takes the next word
LEMMA SlotFacts ==
  ASSUME TypeOK, NEW p \in Parser, HasSlot(p)
  PROVE  /\ Slot(p) \in 1..NumArgs(p)
         /\ Arg[p][Slot(p)] \in ArgumentsOf(p) \cap Argument
<1>1. Arg[p] \in Seq(Argument) /\ NumArgs(p) \in Nat
  BY ItemAssumption DEF NumArgs
<1>2. Slot(p) \in 1..NumArgs(p)
  BY <1>1 DEF HasSlot, Slot, IsVariadic, TypeOK
<1>3. Arg[p][Slot(p)] \in Argument
  BY <1>1, <1>2 DEF NumArgs
<1> QED BY <1>2, <1>3 DEF ArgumentsOf, NumArgs

LEMMA StoredType ==
  ASSUME TypeOK, NEW x \in Item, NEW w \in Word
  PROVE  Stored(x, w) \in [Item -> Seq(Word)]
BY DEF TypeOK, Stored

-----------------------------------------------------------------------------

\* An item is set to be given, and holds the word w, if any, that it is given.
GivenTo(x, w) ==
  /\ given' \in {given, given \cup {x}}
  /\ value' \in {value, Stored(x, w)}

\* The call goes on or has ended.
Proceeds == UNCHANGED <<args, phase, checks, todo, result, calls>>
Ends == phase' = "idle" /\ rest' = <<>> /\ todo' = {} /\ result' \in {"ok", "exit", "error"}
        /\ UNCHANGED <<args, pos, checks, calls>>

\* What a step of FlagOption or ParamOption does
LEMMA OptionStep ==
  ASSUME TypeOK, FlagOption \/ ParamOption
  PROVE  /\ phase = "parse"
         /\ \E x \in OptionsOf(cur) \cap Option, w \in Word : GivenTo(x, w)
         /\ UNCHANGED <<active, processed, cur>>
         /\ \/ Ends
            \/ /\ Proceeds
               /\ rest' \in Seq(Name)
               /\ \/ pos' \in (pos + 1)..(Len(args) + 1) /\ rest' = <<>>
                  \/ pos' = pos /\ rest' = Tail(Names) /\ rest' # <<>>
<1>1. AtWord("option") /\ Known
  BY DEF FlagOption, ParamOption
<1>0. /\ Names \in Seq(Name) /\ Names # <<>>
      /\ args[pos] \in Word /\ Lex[args[pos]].param \in Word
      /\ Current \in OptionsOf(cur) \cap Option
  BY <1>1, OptionFacts
<1>2. phase = "parse" /\ pos \in 1..Len(args) /\ Len(args) \in Nat
  BY <1>1 DEF AtWord, TypeOK
<1>3. pos + 1 \in (pos + 1)..(Len(args) + 1)
  BY <1>2
<1>4. <<>> \in Seq(Name)
  BY EmptySeq
<1> DEFINE
  Moves ==
    \/ Ends
    \/ /\ Proceeds
       /\ rest' \in Seq(Name)
       /\ \/ pos' \in (pos + 1)..(Len(args) + 1) /\ rest' = <<>>
          \/ pos' = pos /\ rest' = Tail(Names) /\ rest' # <<>>
  Effect(x, w, next, more) ==
    /\ GivenTo(x, w)
    /\ UNCHANGED <<active, processed, cur>>
    /\ Ends \/ (Proceeds /\ pos' = next /\ rest' = more)
<1>5. CASE FlagOption
  <2> DEFINE next == IF IsLast THEN pos + 1 ELSE pos
  <2>1. Effect(Current, args[pos], next, Tail(Names))
    BY <1>5 DEF FlagOption, FoundOption, Stop, FailConversion, Convert,
              Return, Continue, GivenTo, Ends, Proceeds, store
  <2>2. Tail(Names) \in Seq(Name) /\ (Tail(Names) = <<>> <=> IsLast)
    BY <1>0, TailFacts DEF IsLast
  <2> HIDE DEF next
  <2>3. next = IF IsLast THEN pos + 1 ELSE pos
    BY DEF next
  <2>4. \E x \in OptionsOf(cur) \cap Option, w \in Word : GivenTo(x, w)
    BY <1>0, <2>1 DEF GivenTo, Stored
  <2>5. Moves
    <3>1. Ends \/ (Proceeds /\ pos' = next /\ rest' = Tail(Names))
      BY <2>1
    <3> QED BY <1>3, <2>2, <2>3, <3>1
  <2> QED BY <1>2, <2>1, <2>4, <2>5
<1>6. CASE ParamOption
  <2>1. CASE WithEquals
    <3>1. Effect(Current, Lex[args[pos]].param, pos + 1, <<>>)
      BY <1>6, <2>1 DEF ParamOption, FoundOption, Stop, FailConversion, Convert,
                Return, Continue, GivenTo, Ends, Proceeds, store
    <3>2. \E x \in OptionsOf(cur) \cap Option, w \in Word : GivenTo(x, w)
      BY <1>0, <3>1 DEF GivenTo, Stored
    <3>3. Moves
      <4>1. Ends \/ (Proceeds /\ pos' = pos + 1 /\ rest' = <<>>)
        BY <3>1
      <4> QED BY <1>3, <1>4, <4>1
    <3> QED BY <1>2, <3>1, <3>2, <3>3
  <2>2. CASE ~WithEquals
    <3>1. Effect(Current, args[pos + 1], pos + 2, <<>>)
      BY <1>6, <2>2 DEF ParamOption, FoundOption, Stop, FailConversion, Convert,
                Return, Continue, GivenTo, Ends, Proceeds, store
    <3>2. pos # Len(args)
      BY <1>6, <2>2 DEF ParamOption, ParamMismatch
    <3>3. args[pos + 1] \in Word
      BY <3>2, <1>2 DEF TypeOK
    <3>4. \E x \in OptionsOf(cur) \cap Option, w \in Word : GivenTo(x, w)
      BY <1>0, <3>1, <3>3 DEF GivenTo, Stored
    <3>5. Moves
      <4>1. Ends \/ (Proceeds /\ pos' = pos + 2 /\ rest' = <<>>)
        BY <3>1
      <4>2. pos + 2 \in (pos + 1)..(Len(args) + 1)
        BY <1>2, <3>2
      <4> QED BY <1>4, <4>1, <4>2
    <3> QED BY <1>2, <3>1, <3>4, <3>5
  <2> QED BY <2>1, <2>2
<1> QED BY <1>5, <1>6

\* What a step of TakeArgument does: the conversion throws, a callback stops
\* the parser, or the argument has been processed.
LEMMA ArgumentStep ==
  ASSUME TypeOK, TakeArgument
  PROVE  LET x == Arg[cur][Slot(cur)] IN
         /\ phase = "parse"
         /\ HasSlot(cur)
         /\ \E w \in Word : GivenTo(x, w)
         /\ x \in Hooked => UNCHANGED given
         /\ UNCHANGED <<active, cur>>
         /\ \/ Ends /\ UNCHANGED processed
            \/ /\ Proceeds
               /\ processed' = [processed EXCEPT ![cur] = @ + 1]
               /\ x \in given' \cup Hooked
               /\ pos' = pos + 1
               /\ pos <= Len(args)
               /\ rest' = <<>>
<1> DEFINE x == Arg[cur][Slot(cur)]
<1>1. AtWord("argument") /\ HasSlot(cur) /\ args[pos] \in Word
  BY DEF TakeArgument, AtWord, TypeOK
<1>2. CASE Stop(x)
  BY <1>1, <1>2 DEF Stop, Return, Ends, GivenTo, AtWord, store
<1>3. CASE x \notin Hooked /\ FailConversion(x, args[pos])
  BY <1>1, <1>3 DEF FailConversion, Return, Ends, GivenTo, AtWord
<1>4. CASE /\ IF x \in Hooked THEN UNCHANGED store ELSE Convert(x, args[pos])
           /\ processed' = [processed EXCEPT ![cur] = @ + 1]
           /\ Continue(pos + 1, <<>>)
           /\ UNCHANGED <<active, cur>>
  BY <1>1, <1>4 DEF Convert, Continue, Proceeds, GivenTo, AtWord, store
<1> QED BY <1>2, <1>3, <1>4 DEF TakeArgument

-----------------------------------------------------------------------------

\* What the remaining steps of the loop do: they end the call.
LEMMA RefusalStep ==
  ASSUME UnknownOption \/ RefuseParam \/ UnknownArgument
  PROVE  Ends /\ UNCHANGED <<given, value, active, processed, cur>>
BY DEF UnknownOption, RefuseParam, UnknownArgument, Return, Ends, store

LEMMA GivenToType ==
  ASSUME TypeOK, NEW x \in Item, NEW w \in Word, GivenTo(x, w)
  PROVE  given' \subseteq Item /\ value' \in [Item -> Seq(Word)]
BY StoredType DEF TypeOK, GivenTo

LEMMA EndsType ==
  ASSUME TypeOK, Ends
  PROVE  /\ args' \in Seq(Word) /\ pos' \in 1..Len(args') + 1
         /\ rest' \in Seq(Name) /\ rest' = <<>>
         /\ phase' \in {"idle", "parse", "validate"} /\ checks' \in BOOLEAN
         /\ todo' \subseteq Parser
         /\ result' \in {"none", "ok", "exit", "error"} /\ calls' \in 0..MaxCalls
BY EmptySeq DEF TypeOK, Ends

(* The calls and the validation stay within the registered parsers: the    *)
(* main parser is one, a sub-parser of a parser is one, and so is each      *)
(* sub-parser that validate_recursive() visits after a parser.              *)
LEMMA MainIsParser == Main \in Parser
BY TreeAssumption

LEMMA ChildrenAreParsers == \A p \in Parser : Children(p) \subseteq Parser
<1>1. \A p \in Parser : \A w \in DOMAIN Sub[p] : Sub[p][w] \in Parser
  BY TreeAssumption
<1> QED BY ONLY <1>1 DEF Children

LEMMA VisitNextInParser == \A p \in Parser : VisitNext(p) \subseteq Parser
BY ONLY ChildrenAreParsers DEF VisitNext

LEMMA TypeInit == Init => TypeOK
<1>1. <<>> \in Seq(Word) /\ <<>> \in Seq(Name) /\ Len(<<>>) = 0
  BY EmptySeq
<1>2. MaxCalls \in Nat /\ Default \in [Item -> Seq(Word)]
  BY WordAssumption
<1>3. Init => /\ pos \in 1..Len(args) + 1 /\ calls \in 0..MaxCalls
              /\ args \in Seq(Word) /\ rest \in Seq(Name) /\ rest = <<>>
  BY <1>1, <1>2 DEF Init
<1>4. Init => /\ given \subseteq Item /\ value \in [Item -> Seq(Word)]
              /\ active \subseteq Parser \ {Main} /\ todo \subseteq Parser
              /\ processed \in [Parser -> Nat] /\ cur \in Parser
  BY <1>2, MainIsParser DEF Init
<1> QED BY <1>3, <1>4 DEF Init, TypeOK

LEMMA TypeStep == TypeOK /\ [Next]_vars => TypeOK'
<1> SUFFICES ASSUME TypeOK, [Next]_vars
             PROVE  TypeOK'
  OBVIOUS
<1>1. CASE Call
  BY <1>1, MainIsParser, WordAssumption, EmptySeq DEF Call, TypeOK
<1>2. CASE UnknownOption \/ RefuseParam \/ UnknownArgument
  BY <1>2, RefusalStep, EndsType DEF TypeOK
<1>3. CASE FlagOption \/ ParamOption
  <2>1. PICK x \in OptionsOf(cur) \cap Option, w \in Word : GivenTo(x, w)
    BY <1>3, OptionStep
  <2>2. given' \subseteq Item /\ value' \in [Item -> Seq(Word)]
    BY <2>1, GivenToType DEF Item
  <2>3. CASE Ends
    BY <1>3, <2>2, <2>3, OptionStep, EndsType DEF TypeOK
  <2>4. CASE ~Ends
    <3>1. /\ UNCHANGED <<active, processed, cur, args, phase, checks, todo, result, calls>>
          /\ rest' \in Seq(Name)
          /\ \/ pos' \in (pos + 1)..(Len(args) + 1) /\ rest' = <<>>
             \/ pos' = pos /\ rest' = Tail(Names) /\ rest' # <<>>
          /\ phase = "parse"
      BY <1>3, <2>4, OptionStep DEF Proceeds
    <3>2. AtWord("option")
      BY <1>3 DEF FlagOption, ParamOption
    <3>3. pos' \in 1..Len(args') + 1 /\ (rest' # <<>> => pos' <= Len(args'))
      BY <3>1, <3>2 DEF TypeOK, AtWord
    <3> QED BY <2>2, <3>1, <3>3 DEF TypeOK
  <2> QED BY <2>3, <2>4
<1>4. CASE TakeArgument
  <2>1. cur \in Parser /\ HasSlot(cur)
    BY <1>4, ArgumentStep DEF TypeOK
  <2>2. Arg[cur][Slot(cur)] \in Item
    BY <2>1, SlotFacts DEF Item
  <2>3. given' \subseteq Item /\ value' \in [Item -> Seq(Word)]
    BY <1>4, <2>2, ArgumentStep, GivenToType
  <2> DEFINE x == Arg[cur][Slot(cur)]
  <2>6. UNCHANGED <<active, cur>>
    BY <1>4, ArgumentStep
  <2>4. CASE UNCHANGED processed /\ Ends
    BY <2>3, <2>4, <2>6, EndsType DEF TypeOK
  <2>5. CASE /\ Proceeds /\ processed' = [processed EXCEPT ![cur] = @ + 1]
             /\ pos' = pos + 1 /\ pos <= Len(args) /\ rest' = <<>>
    <3>1. processed' \in [Parser -> Nat]
      BY <2>1, <2>5 DEF TypeOK
    <3>2. pos' \in 1..Len(args') + 1
      BY <2>5 DEF TypeOK, Proceeds
    <3>3. rest' \in Seq(Name) /\ rest' = <<>>
      BY <2>5, EmptySeq
    <3> QED BY <2>3, <2>5, <2>6, <3>1, <3>2, <3>3 DEF TypeOK, Proceeds
  <2> QED BY <1>4, <2>4, <2>5, ArgumentStep
<1>5. CASE SelectSubParser
  <2>1. Sub[cur][args[pos]] \in Parser \ {Main}
    BY <1>5, TreeAssumption DEF SelectSubParser, TypeOK
  <2> QED BY <1>5, <2>1, EmptySeq DEF SelectSubParser, Enter, Continue, AtWord, TypeOK
<1>6. CASE EndOfWords
  BY <1>6, MainIsParser, EmptySeq DEF EndOfWords, Return, TypeOK, store
<1>7. ASSUME NEW p \in Parser, Validate(p)
      PROVE  TypeOK'
  <2>1. VisitNext(p) \subseteq Parser
    BY ONLY <1>7, VisitNextInParser
  <2> QED BY <1>7, <2>1, EmptySeq DEF Validate, Return, TypeOK, store
<1>8. CASE Accept
  BY <1>8, EmptySeq DEF Accept, Return, TypeOK, store
<1>9. CASE UNCHANGED vars
  BY <1>9 DEF vars, TypeOK
<1> QED BY <1>1, <1>2, <1>3, <1>4, <1>5, <1>6, <1>7, <1>8, <1>9 DEF Next, Step

(***************************************************************************)
(* The members of the parsers keep their types, the iterator stays within  *)
(* the command line and a cluster is read only while it stands on a word.  *)
(***************************************************************************)
THEOREM TypeCorrect == Spec => []TypeOK
BY TypeInit, TypeStep, PTL DEF Spec

-----------------------------------------------------------------------------

\* A step that leaves the store and the active parsers alone
Quiet == UNCHANGED <<given, value, active, processed>> /\ cur' \in {Main, cur}

\* A step that gives an option of the current parser a value
OptionGiven ==
  /\ \E x \in OptionsOf(cur) \cap Option, w \in Word : GivenTo(x, w)
  /\ UNCHANGED <<active, processed, cur>>

\* Only the option, argument and sub-parser handlers change the store.
LEMMA StepShape ==
  ASSUME TypeOK, [Next]_vars
  PROVE  Quiet \/ OptionGiven \/ TakeArgument \/ SelectSubParser
<1>1. CASE UNCHANGED vars
  BY <1>1 DEF vars, Quiet
<1>2. CASE Call
  BY <1>2 DEF Call, Quiet
<1>3. CASE UnknownOption \/ RefuseParam \/ UnknownArgument
  BY <1>3, RefusalStep DEF Quiet
<1>4. CASE FlagOption \/ ParamOption
  BY <1>4, OptionStep DEF OptionGiven
<1>5. CASE EndOfWords \/ Accept \/ \E p \in Parser : Validate(p)
  BY <1>5 DEF EndOfWords, Accept, Validate, Return, Quiet, store
<1> QED BY <1>1, <1>2, <1>3, <1>4, <1>5 DEF Next, Step

\* What a step of SelectSubParser does
LEMMA SelectStep ==
  ASSUME TypeOK, SelectSubParser
  PROVE  /\ cur \in Parser
         /\ cur' \in Children(cur)
         /\ active' = active \cup {cur'}
         /\ UNCHANGED <<given, value, processed>>
         /\ ~HasSlot(cur)
BY DEF TypeOK, SelectSubParser, Enter, Children

LEMMA CurActiveStep ==
  ASSUME TypeOK, CurActive, [Next]_vars
  PROVE  CurActive'
<1>1. CASE Quiet \/ OptionGiven
  BY <1>1 DEF Quiet, OptionGiven, CurActive
<1>2. CASE TakeArgument
  BY <1>2, ArgumentStep DEF CurActive
<1>3. CASE SelectSubParser
  BY <1>3, SelectStep DEF CurActive
<1> QED BY <1>1, <1>2, <1>3, StepShape

LEMMA ActivePathStep ==
  ASSUME TypeOK, CurActive, ActivePath, [Next]_vars
  PROVE  ActivePath'
<1>1. CASE Quiet \/ OptionGiven
  BY <1>1 DEF Quiet, OptionGiven, ActivePath
<1>2. CASE TakeArgument
  <2>1. active' = active /\ \A p \in Parser : processed'[p] >= processed[p]
    BY <1>2, ArgumentStep DEF TypeOK
  <2>2. \A p \in Parser : processed[p] \in Nat /\ processed'[p] \in Nat /\ NumArgs(p) \in Nat
    BY <1>2, ArgumentStep, ItemAssumption DEF TypeOK, NumArgs
  <2> QED BY <2>1, <2>2 DEF ActivePath
<1>3. CASE SelectSubParser
  <2> SUFFICES ASSUME NEW p \in Parser, Children(p) \cap active' # {}
               PROVE  /\ p \in {Main} \cup active'
                      /\ processed[p] >= NumArgs(p)
                      /\ ~IsVariadic(p)
    BY <1>3, SelectStep DEF ActivePath
  <2>1. CASE Children(p) \cap active # {}
    BY <1>3, <2>1, SelectStep DEF ActivePath
  <2>2. CASE cur' \in Children(p)
    <3>1. p = cur
      BY <1>3, <2>2, SelectStep, TreeAssumption
    <3>2. processed[p] \in Nat /\ NumArgs(p) \in Nat
      BY ItemAssumption DEF TypeOK, NumArgs
    <3> QED BY <1>3, <3>1, <3>2, SelectStep DEF HasSlot, CurActive
  <2> QED BY <1>3, <2>1, <2>2, SelectStep
<1> QED BY <1>1, <1>2, <1>3, StepShape

LEMMA ReachableStep ==
  ASSUME TypeOK, CurActive, Reachable, [Next]_vars
  PROVE  Reachable'
<1>1. CASE UNCHANGED active
  BY <1>1 DEF Reachable, Closed
<1>2. CASE SelectSubParser
  <2> SUFFICES ASSUME NEW S \in SUBSET Parser, Closed(S)'
               PROVE  active' \subseteq S
    BY DEF Reachable
  <2>1. Closed(S)
    BY <1>2, SelectStep DEF Closed
  <2>2. cur \in S
    BY <2>1 DEF Reachable, Closed, CurActive
  <2>3. cur' \in S
    BY <1>2, <2>2, SelectStep DEF Closed
  <2> QED BY <1>2, <2>1, <2>3, SelectStep DEF Reachable
<1> QED BY <1>1, <1>2, StepShape, ArgumentStep DEF Quiet, OptionGiven

-----------------------------------------------------------------------------

\* What is given to an item of the current parser leaves other parsers alone.
LEMMA OthersUntouched ==
  ASSUME TypeOK, NEW x \in ItemsOf(cur) \cap Item, NEW w \in Word, GivenTo(x, w),
         NEW p \in Parser, p # cur
  PROVE  /\ ItemsOf(p) \cap given' = ItemsOf(p) \cap given
         /\ \A y \in ItemsOf(p) : value'[y] = value[y]
<1>1. \A y \in ItemsOf(p) : y # x
  BY ItemAssumption DEF TypeOK
<1>2. \A y \in ItemsOf(p) : y \in Item
  BY ItemAssumption DEF ItemsOf, OptionsOf, ArgumentsOf, Item
<1>3. \A y \in ItemsOf(p) : Stored(x, w)[y] = value[y]
  BY <1>1, <1>2 DEF Stored, TypeOK
<1> QED BY <1>1, <1>3 DEF GivenTo

LEMMA UntouchedStep ==
  ASSUME TypeOK, CurActive, UntouchedUnlessActive, [Next]_vars
  PROVE  UntouchedUnlessActive'
<1>1. CASE Quiet
  BY <1>1 DEF Quiet, UntouchedUnlessActive
<1>2. ASSUME NEW x \in ItemsOf(cur) \cap Item, NEW w \in Word, GivenTo(x, w),
             UNCHANGED active,
             \A p \in Parser : p # cur => processed'[p] = processed[p]
      PROVE  UntouchedUnlessActive'
  <2> SUFFICES ASSUME NEW p \in Parser, p \notin {Main} \cup active
               PROVE  /\ processed'[p] = 0
                      /\ ItemsOf(p) \cap given' = {}
                      /\ \A y \in ItemsOf(p) : value'[y] = Default[y]
    BY <1>2 DEF UntouchedUnlessActive
  <2>1. p # cur
    BY DEF CurActive
  <2>2. /\ processed[p] = 0
        /\ ItemsOf(p) \cap given = {}
        /\ \A y \in ItemsOf(p) : value[y] = Default[y]
    BY DEF UntouchedUnlessActive
  <2>3. /\ ItemsOf(p) \cap given' = ItemsOf(p) \cap given
        /\ \A y \in ItemsOf(p) : value'[y] = value[y]
    BY <1>2, <2>1, OthersUntouched
  <2> QED BY <1>2, <2>1, <2>2, <2>3
<1>3. CASE OptionGiven
  <2>1. PICK x \in OptionsOf(cur) \cap Option, w \in Word : GivenTo(x, w)
    BY <1>3 DEF OptionGiven
  <2>2. x \in ItemsOf(cur) \cap Item
    BY DEF ItemsOf, Item
  <2>3. UNCHANGED <<active, processed>>
    BY <1>3 DEF OptionGiven
  <2> QED BY <1>2, <2>1, <2>2, <2>3
<1>4. CASE TakeArgument
  <2>1. PICK w \in Word : GivenTo(Arg[cur][Slot(cur)], w)
    BY <1>4, ArgumentStep
  <2>2. Arg[cur][Slot(cur)] \in ItemsOf(cur) \cap Item
    BY <1>4, ArgumentStep, SlotFacts DEF ItemsOf, Item, TypeOK
  <2>3. UNCHANGED active /\ \A p \in Parser : p # cur => processed'[p] = processed[p]
    BY <1>4, ArgumentStep DEF TypeOK
  <2>4. PICK x \in ItemsOf(cur) \cap Item : x = Arg[cur][Slot(cur)]
    BY <2>2
  <2>5. GivenTo(x, w)
    BY <2>1, <2>4 DEF GivenTo, Stored
  <2> QED BY <1>2, <2>3, <2>5
<1>5. CASE SelectSubParser
  BY <1>5, SelectStep DEF UntouchedUnlessActive
<1> QED BY <1>1, <1>3, <1>4, <1>5, StepShape

LEMMA ArgumentCountStep ==
  ASSUME TypeOK, ArgumentCount, [Next]_vars
  PROVE  ArgumentCount'
<1>1. CASE Quiet \/ SelectSubParser
  BY <1>1, SelectStep DEF Quiet, ArgumentCount
<1>2. CASE OptionGiven
  <2>1. PICK x \in Option : given' \in {given, given \cup {x}}
    BY <1>2 DEF OptionGiven, GivenTo
  <2>2. \A p \in Parser : \A j \in 1..NumArgs(p) : Arg[p][j] # x
    BY ItemAssumption DEF NumArgs
  <2> QED BY <1>2, <2>1, <2>2 DEF OptionGiven, ArgumentCount
<1>3. CASE TakeArgument
  <2> DEFINE x == Arg[cur][Slot(cur)]
  <2>1. /\ cur \in Parser /\ HasSlot(cur)
        /\ given' \in {given, given \cup {x}}
        /\ x \in Hooked => given' = given
        /\ \/ processed' = processed
           \/ /\ processed' = [processed EXCEPT ![cur] = @ + 1]
              /\ x \in given' \cup Hooked
    BY <1>3, ArgumentStep DEF TypeOK, GivenTo
  <2>2. Slot(cur) \in 1..NumArgs(cur) /\ x \in Argument
    BY <2>1, SlotFacts
  <2>3. \A p \in Parser : processed[p] \in Nat /\ NumArgs(p) \in Nat
    BY ItemAssumption DEF TypeOK, NumArgs
  <2> SUFFICES ASSUME NEW p \in Parser, NEW j \in 1..NumArgs(p)
               PROVE  /\ Arg[p][j] \in given' => /\ j <= processed'[p] + 1
                                                 /\ Arg[p][j] \notin Hooked
                      /\ j <= processed'[p] => Arg[p][j] \in given' \cup Hooked
    BY DEF ArgumentCount
  <2>4. /\ Arg[p][j] \in given => j <= processed[p] + 1 /\ Arg[p][j] \notin Hooked
        /\ j <= processed[p] => Arg[p][j] \in given \cup Hooked
    BY DEF ArgumentCount
  <2>5. CASE p # cur
    <3>1. Arg[p][j] # x
      BY <2>1, <2>2, <2>5, ItemAssumption DEF ItemsOf, ArgumentsOf, NumArgs
    <3>2. processed'[p] = processed[p]
      BY <2>1, <2>5 DEF TypeOK
    <3> QED BY <2>1, <2>4, <3>1, <3>2
  <2>6. CASE p = cur /\ j # Slot(cur)
    <3>1. Arg[p][j] # x
      BY <2>1, <2>2, <2>6, ItemAssumption DEF NumArgs
    <3>2. processed'[p] \in {processed[p], processed[p] + 1}
      BY <2>1, <2>6 DEF TypeOK
    <3>3. j <= processed[p] + 1 => j <= processed[p]
      BY <2>2, <2>3, <2>6 DEF Slot
    <3> QED BY <2>1, <2>3, <2>4, <3>1, <3>2, <3>3
  <2>7. CASE p = cur /\ j = Slot(cur)
    <3>1. processed'[p] \in {processed[p], processed[p] + 1}
      BY <2>1, <2>7 DEF TypeOK
    <3>2. j <= processed[p] + 1
      BY <2>2, <2>3, <2>7 DEF Slot
    <3>3. processed'[p] = processed[p] + 1 => x \in given' \cup Hooked
      BY <2>1, <2>3, <2>7
    <3>4. processed'[p] = processed[p] => (j <= processed'[p] => x \in given' \cup Hooked)
      BY <2>1, <2>4, <2>7
    <3>5. x \in given' => x \notin Hooked
      BY <2>1, <2>4, <2>7
    <3> QED BY <2>3, <2>7, <3>1, <3>2, <3>3, <3>4, <3>5
  <2> QED BY <2>5, <2>6, <2>7
<1> QED BY <1>1, <1>2, <1>3, StepShape

-----------------------------------------------------------------------------

LEMMA SatisfiedStable ==
  ASSUME UNCHANGED store, NEW p \in Parser
  PROVE  Satisfied(p)' <=> Satisfied(p)
<1>1. given' = given /\ value' = value
  BY DEF store
<1>2. \A x \in Item : ValueValid(x)' <=> ValueValid(x)
  BY <1>1 DEF ValueValid
<1>3. OptionsOf(p) \subseteq Item /\ ArgumentsOf(p) \subseteq Item
  BY ItemAssumption DEF Item, ArgumentsOf
<1>4. {o \in OptionsOf(p) : ~ValueValid(o)}' = {o \in OptionsOf(p) : ~ValueValid(o)}
  BY <1>2, <1>3
<1>5. ArgumentsMeet(p)' <=> ArgumentsMeet(p)
  BY <1>1, <1>2, <1>3 DEF ArgumentsMeet
<1> QED BY <1>1, <1>4, <1>5 DEF Satisfied

LEMMA VisitedStep ==
  ASSUME TypeOK, Visited, [Next]_vars
  PROVE  Visited'
<1>1. CASE UNCHANGED vars
  BY <1>1, SatisfiedStable DEF vars, store, Visited, VisitedIs
<1>2. CASE phase' # "validate"
  BY <1>2 DEF Visited
<1>3. CASE Call
  BY <1>3 DEF Call, Visited
<1>4. CASE UnknownOption \/ RefuseParam \/ UnknownArgument
  BY <1>4, RefusalStep DEF Ends, Visited
<1>5. CASE FlagOption \/ ParamOption
  BY <1>5, OptionStep DEF Ends, Proceeds, Visited
<1>6. CASE TakeArgument
  BY <1>6, ArgumentStep DEF Ends, Proceeds, Visited
<1>7. CASE SelectSubParser
  BY <1>7 DEF SelectSubParser, AtWord, Continue, Visited
<1>8. CASE EndOfWords
  <2> SUFFICES ASSUME phase' = "validate"
               PROVE  VisitedIs({Main})'
    BY MainIsParser DEF Visited
  <2> QED BY <1>8, MainIsParser DEF EndOfWords, Return, VisitedIs
<1>9. ASSUME NEW p \in Parser, Validate(p)
      PROVE  Visited'
  <2> SUFFICES ASSUME phase' = "validate"
               PROVE  \E S \in SUBSET Parser : VisitedIs(S)'
    BY DEF Visited
  <2>1. /\ phase = "validate" /\ p \in todo /\ Satisfied(p)
        /\ todo' = (todo \ {p}) \cup VisitNext(p)
        /\ UNCHANGED <<given, value, active>>
    BY <1>9 DEF Validate, Return, store
  <2>2. PICK S \in SUBSET Parser : VisitedIs(S)
    BY <2>1 DEF Visited
  <2>3. VisitNext(p) \subseteq Parser
    BY ONLY <1>9, VisitNextInParser
  <2>4. S \cup VisitNext(p) \in SUBSET Parser
    BY ONLY <2>2, <2>3
  <2>5. PICK T \in SUBSET Parser : T = S \cup VisitNext(p)
    BY ONLY <2>4
  <2>6. VisitedIs(T)'
    <3>1. \A q \in Parser : Satisfied(q)' <=> Satisfied(q)
      BY <2>1, SatisfiedStable DEF store
    <3> QED BY <2>1, <2>2, <2>5, <3>1 DEF VisitedIs, VisitNext
  <2> QED BY <2>6
<1>10. CASE Accept
  BY <1>10 DEF Accept, Return, Visited
<1> QED BY <1>1, <1>3, <1>4, <1>5, <1>6, <1>7, <1>8, <1>9, <1>10 DEF Next, Step

\* When validate_recursive() has nothing left to do, it has been everywhere.
LEMMA AcceptedStep ==
  ASSUME TypeOK, Reachable, Visited, AcceptedMeansSatisfied, [Next]_vars
  PROVE  AcceptedMeansSatisfied'
<1>1. CASE UNCHANGED vars
  <2>1. \A p \in {Main} \cup active : p \in Parser
    BY MainIsParser DEF TypeOK
  <2> QED BY <1>1, <2>1, SatisfiedStable DEF vars, store, AcceptedMeansSatisfied
<1>2. CASE Call
  BY <1>2 DEF Call, AcceptedMeansSatisfied
<1>3. CASE phase' # "idle" \/ result' # "ok" \/ ~checks'
  BY <1>3 DEF AcceptedMeansSatisfied
<1>4. CASE Accept
  <2>1. PICK S \in SUBSET Parser : VisitedIs(S)
    BY <1>4 DEF Accept, Visited
  <2>2. Closed(S) /\ \A p \in S : Satisfied(p)
    BY <1>4, <2>1 DEF Accept, VisitedIs, Closed
  <2>3. \A p \in {Main} \cup active : p \in Parser /\ Satisfied(p)
    BY <2>2 DEF Reachable, Closed, TypeOK
  <2>4. UNCHANGED <<given, value, active>>
    BY <1>4 DEF Accept, Return, store
  <2> QED BY <2>3, <2>4, SatisfiedStable DEF AcceptedMeansSatisfied, store
<1>5. CASE Step /\ ~Accept
  <2>1. FlagOption \/ ParamOption => phase' # "idle" \/ result' # "ok"
    BY DEF FlagOption, ParamOption, FoundOption, Stop, FailConversion, Convert,
           Return, Continue, AtWord
  <2>2. TakeArgument => phase' # "idle" \/ result' # "ok"
    BY DEF TakeArgument, Stop, FailConversion, Return, Continue, AtWord
  <2>3. UnknownOption \/ RefuseParam \/ UnknownArgument => result' # "ok"
    BY DEF UnknownOption, RefuseParam, UnknownArgument, Return
  <2>4. SelectSubParser => phase' # "idle"
    BY DEF SelectSubParser, Continue, AtWord
  <2>5. EndOfWords => phase' # "idle" \/ ~checks'
    BY DEF EndOfWords, Return
  <2>6. ASSUME NEW p \in Parser, Validate(p)
        PROVE  phase' # "idle" \/ result' # "ok"
    BY <2>6 DEF Validate, Return
  <2> QED BY <1>3, <1>5, <2>1, <2>2, <2>3, <2>4, <2>5, <2>6 DEF Step
<1> QED BY <1>1, <1>2, <1>4, <1>5 DEF Next

-----------------------------------------------------------------------------

LEMMA InvariantInit == Init => IInv
<1> SUFFICES ASSUME Init PROVE IInv
  OBVIOUS
<1>1. CurActive /\ ActivePath /\ UntouchedUnlessActive /\ Visited /\ AcceptedMeansSatisfied
  BY DEF Init, CurActive, ActivePath, UntouchedUnlessActive, Visited, AcceptedMeansSatisfied
<1>2. Reachable
  BY DEF Init, Reachable
<1>3. ArgumentCount
  BY ItemAssumption DEF Init, ArgumentCount, NumArgs
<1> QED BY <1>1, <1>2, <1>3, TypeInit DEF IInv

LEMMA InvariantStep == IInv /\ [Next]_vars => IInv'
BY TypeStep, CurActiveStep, ActivePathStep, UntouchedStep, ArgumentCountStep,
   ReachableStep, VisitedStep, AcceptedStep DEF IInv

THEOREM InvariantHolds == Spec => []IInv
BY InvariantStep, InvariantInit, PTL DEF Spec

(***************************************************************************)
(* A sub-parser is active only below active parsers, and only after its    *)
(* parent has taken all of its arguments, however often and with whatever  *)
(* lines the parser was called.                                            *)
(***************************************************************************)
THEOREM ActivePathHolds == Spec => []ActivePath
BY InvariantHolds, PTL DEF IInv

(***************************************************************************)
(* What belongs to a sub-parser that no line has selected is as it was     *)
(* registered.                                                             *)
(***************************************************************************)
THEOREM UntouchedHolds == Spec => []UntouchedUnlessActive
BY InvariantHolds, PTL DEF IInv

(***************************************************************************)
(* The arguments of every parser are filled from the first on, without a   *)
(* gap.                                                                    *)
(***************************************************************************)
THEOREM ArgumentsInOrderHolds == Spec => []ArgumentsInOrder
<1>1. IInv => ArgumentsInOrder
  <2> SUFFICES ASSUME IInv, NEW p \in Parser, NEW j \in 1..NumArgs(p),
                      Arg[p][j] \in given
               PROVE  /\ Arg[p][j] \notin Hooked
                      /\ \A i \in 1..(j - 1) : Arg[p][i] \in given \cup Hooked
    BY DEF ArgumentsInOrder
  <2>1. NumArgs(p) \in Nat /\ processed[p] \in Nat
    BY ItemAssumption DEF NumArgs, IInv, TypeOK
  <2>2. j <= processed[p] + 1 /\ Arg[p][j] \notin Hooked
    BY DEF IInv, ArgumentCount
  <2>3. \A i \in 1..(j - 1) : i \in 1..NumArgs(p) /\ i <= processed[p]
    BY <2>1, <2>2
  <2> QED BY <2>2, <2>3 DEF IInv, ArgumentCount
<1> QED BY <1>1, InvariantHolds, PTL

(***************************************************************************)
(* parse_and_validate() accepts only if every active parser is satisfied.  *)
(***************************************************************************)
THEOREM AcceptedHolds == Spec => []AcceptedMeansSatisfied
BY InvariantHolds, PTL DEF IInv

(***************************************************************************)
(* How a step of the loops relates to the call it belongs to.              *)
(***************************************************************************)
LEMMA StepOutcome ==
  ASSUME TypeOK, Step
  PROVE  /\ phase # "idle"
         /\ calls' = calls
         /\ IF phase' = "idle" THEN result' \in {"ok", "exit", "error"}
                               ELSE result' = result
<1>1. CASE UnknownOption \/ RefuseParam \/ UnknownArgument
  BY <1>1 DEF UnknownOption, RefuseParam, UnknownArgument, Return, AtWord
<1>2. CASE FlagOption \/ ParamOption
  BY <1>2 DEF FlagOption, ParamOption, FoundOption, Stop, FailConversion, Convert,
              Return, Continue, AtWord
<1>3. CASE TakeArgument
  BY <1>3 DEF TakeArgument, Stop, FailConversion, Return, Continue, AtWord
<1>4. CASE SelectSubParser
  BY <1>4 DEF SelectSubParser, Continue, AtWord
<1>5. CASE EndOfWords \/ Accept \/ \E p \in Parser : Validate(p)
  BY <1>5 DEF EndOfWords, Accept, Validate, Return
<1> QED BY <1>1, <1>2, <1>3, <1>4, <1>5 DEF Step

LEMMA StepOfSelection ==
  ASSUME TypeOK, Step
  PROVE  SelectSubParser \/ UNCHANGED <<active, cur>>
<1>1. CASE UnknownOption \/ RefuseParam \/ UnknownArgument
  BY <1>1 DEF UnknownOption, RefuseParam, UnknownArgument, Return
<1>2. CASE FlagOption \/ ParamOption
  BY <1>2 DEF FlagOption, ParamOption, FoundOption, Stop, FailConversion, Convert, Return
<1>3. CASE TakeArgument
  BY <1>3 DEF TakeArgument, Stop, FailConversion, Return
<1>4. CASE EndOfWords \/ Accept \/ \E p \in Parser : Validate(p)
  BY <1>4 DEF EndOfWords, Accept, Validate, Return
<1> QED BY <1>1, <1>2, <1>3, <1>4 DEF Step

(***************************************************************************)
(* Before the first call nothing is active, and it begins at the main      *)
(* parser.                                                                 *)
(***************************************************************************)
BranchInv ==
  /\ calls = 0 => active = {} /\ phase = "idle"
  /\ OneActiveBranch

LEMMA BranchStep ==
  ASSUME TypeOK, CurActive, ActivePath, BranchInv, [Next]_vars
  PROVE  BranchInv'
<1>1. CASE UNCHANGED vars
  BY <1>1 DEF vars, BranchInv, OneActiveBranch
<1>2. CASE Call
  <2>1. calls' = calls + 1 /\ calls \in Nat /\ active' = active
    BY <1>2 DEF Call, TypeOK
  <2>2. calls' <= 1 => active' = {}
    BY <2>1 DEF BranchInv
  <2> QED BY <2>1, <2>2 DEF BranchInv, OneActiveBranch
<1>3. CASE Step /\ UNCHANGED <<active, cur>>
  BY <1>3, StepOutcome DEF BranchInv, OneActiveBranch
<1>4. CASE Step /\ SelectSubParser
  <2>1. calls' = calls /\ calls # 0
    BY <1>4, StepOutcome DEF BranchInv
  <2> SUFFICES ASSUME calls <= 1
               PROVE  /\ \A p \in Parser : \A c, d \in Children(p) \cap active' : c = d
                      /\ Children(cur') \cap active' = {}
    BY <2>1 DEF BranchInv, OneActiveBranch
  <2>2. /\ cur \in Parser /\ cur' \in Children(cur) /\ active' = active \cup {cur'}
        /\ cur' \in Parser \ {Main}
    BY <1>4, SelectStep, TreeAssumption DEF Children
  <2>3. /\ \A p \in Parser : \A c, d \in Children(p) \cap active : c = d
        /\ Children(cur) \cap active = {}
    BY DEF BranchInv, OneActiveBranch
  <2>4. ASSUME NEW p \in Parser, NEW c \in Children(p) \cap active',
               NEW d \in Children(p) \cap active'
        PROVE  c = d
    <3>1. CASE p = cur
      BY <2>2, <2>3, <3>1
    <3>2. CASE p # cur
      <4>1. cur' \notin Children(p)
        BY <2>2, <3>2, TreeAssumption
      <4> QED BY <2>2, <2>3, <4>1
    <3> QED BY <3>1, <3>2
  <2>5. Children(cur') \cap active = {}
    \* otherwise cur' would be active, and so an active child of cur
    BY <2>2, <2>3 DEF ActivePath
  <2>6. cur' \notin Children(cur')
    \* otherwise it would be its own parent, and active
    <3> SUFFICES ASSUME cur' \in Children(cur') PROVE FALSE
      OBVIOUS
    <3>1. cur' = cur
      BY <2>2, TreeAssumption
    <3>2. cur \in active
      BY <2>2, <3>1 DEF CurActive
    <3> QED BY <2>2, <2>3, <3>1, <3>2
  <2> QED BY <2>2, <2>4, <2>5, <2>6
<1> QED BY <1>1, <1>2, <1>3, <1>4, StepOfSelection DEF Next

(***************************************************************************)
(* One call selects one branch of the tree of parsers, and the parser      *)
(* whose loop ran last is the end of it: get_active_parser() has nothing   *)
(* to choose.                                                              *)
(***************************************************************************)
THEOREM OneActiveBranchHolds == Spec => []OneActiveBranch
<1>1. Init => BranchInv
  BY DEF Init, BranchInv, OneActiveBranch
<1>2. IInv /\ BranchInv /\ [Next]_vars => BranchInv'
  BY BranchStep DEF IInv
<1>3. BranchInv => OneActiveBranch
  BY DEF BranchInv
<1> QED BY <1>1, <1>2, <1>3, InvariantHolds, PTL DEF Spec

(***************************************************************************)
(* A call that has left the end of a branch, or has not yet reached one,   *)
(* has still to add its own.                                               *)
(***************************************************************************)
TipsInv ==
  /\ OneBranchPerCall
  /\ phase # "idle" /\ cur \notin Tips => Cardinality(Tips) < calls

\* Entering a sub-parser moves the end of a branch, or begins a branch.
LEMMA TipsSelect ==
  ASSUME TypeOK, CurActive, ActivePath, SelectSubParser
  PROVE  \/ cur \notin Tips /\ Tips' = Tips
         \/ cur' \in Tips' /\ Tips' = (Tips \ {cur}) \cup {cur'}
<1>1. /\ cur \in Parser /\ cur' \in Children(cur) /\ active' = active \cup {cur'}
      /\ cur' \in Parser \ {Main}
  BY SelectStep, TreeAssumption DEF Children
<1>2. CASE cur' \in active
  <2>1. active' = active
    BY <1>1, <1>2
  <2> QED BY <1>1, <1>2, <2>1 DEF Tips
<1>3. CASE cur' \notin active
  <2>1. \A p \in Parser : p # cur => cur' \notin Children(p)
    BY <1>1, TreeAssumption
  <2>2. Children(cur') \cap active = {}
    BY <1>1, <1>3 DEF ActivePath
  <2>3. cur' # cur
    BY <1>1, <1>3 DEF CurActive
  <2>4. Children(cur') \cap active' = {}
    BY <1>1, <2>1, <2>2, <2>3
  <2>5. \A p \in {Main} \cup active : p \in Parser
    BY MainIsParser DEF TypeOK
  <2>6. \A p \in {Main} \cup active :
          p # cur => Children(p) \cap active' = Children(p) \cap active
    BY <1>1, <2>1, <2>5
  <2>7. Children(cur) \cap active' # {}
    BY <1>1
  <2> QED BY <1>1, <1>3, <2>3, <2>4, <2>6, <2>7 DEF Tips
<1> QED BY <1>2, <1>3

LEMMA TipsStep ==
  ASSUME TypeOK, CurActive, ActivePath, BranchInv, TipsInv, [Next]_vars
  PROVE  TipsInv'
<1>0. calls \in Nat
  BY DEF TypeOK
<1>1. CASE UNCHANGED vars
  BY <1>1 DEF vars, TipsInv, OneBranchPerCall, Tips
<1>2. CASE Call
  <2>1. calls' = calls + 1 /\ cur' = Main /\ Tips' = Tips
    BY <1>2 DEF Call, Tips
  <2>2. CASE calls = 0
    <3>1. Tips = {Main}
      BY <2>2 DEF BranchInv, Tips
    <3>2. IsFiniteSet(Tips) /\ Cardinality(Tips) = 1
      BY <3>1, FS_Singleton
    <3> QED BY <2>1, <2>2, <3>1, <3>2 DEF TipsInv, OneBranchPerCall
  <2>3. CASE calls > 0
    <3>1. IsFiniteSet(Tips) /\ Cardinality(Tips) <= calls /\ Cardinality(Tips) \in Nat
      BY <2>3, FS_CardinalityType DEF TipsInv, OneBranchPerCall
    <3> QED BY <1>0, <2>1, <3>1 DEF TipsInv, OneBranchPerCall
  <2> QED BY <1>0, <2>2, <2>3
<1>3. CASE Step /\ UNCHANGED <<active, cur>>
  BY <1>3, StepOutcome DEF TipsInv, OneBranchPerCall, Tips
<1>4. CASE Step /\ SelectSubParser
  <2>1. phase # "idle" /\ calls' = calls /\ calls > 0
    BY <1>0, <1>4, StepOutcome DEF BranchInv
  <2>2. IsFiniteSet(Tips) /\ Cardinality(Tips) <= calls /\ Cardinality(Tips) \in Nat
    BY <2>1, FS_CardinalityType DEF TipsInv, OneBranchPerCall
  <2>3. cur \notin Tips => Cardinality(Tips) < calls
    BY <2>1 DEF TipsInv
  <2>4. CASE cur \notin Tips /\ Tips' = Tips
    BY <2>1, <2>2, <2>3, <2>4 DEF TipsInv, OneBranchPerCall
  <2>5. CASE cur' \in Tips' /\ Tips' = (Tips \ {cur}) \cup {cur'}
    <3> DEFINE R == Tips \ {cur}
    <3>1. /\ IsFiniteSet(R)
          /\ Cardinality(R) = IF cur \in Tips THEN Cardinality(Tips) - 1 ELSE Cardinality(Tips)
      BY ONLY <2>2, FS_RemoveElement
    <3>2. /\ IsFiniteSet(R \cup {cur'})
          /\ Cardinality(R \cup {cur'}) = IF cur' \in R THEN Cardinality(R) ELSE Cardinality(R) + 1
      BY ONLY <3>1, FS_AddElement
    <3>3. Cardinality(R) < calls /\ Cardinality(R) \in Nat
      BY <1>0, <2>2, <2>3, <3>1, FS_CardinalityType
    <3>4. IsFiniteSet(Tips') /\ Cardinality(Tips') <= calls
      BY <1>0, <2>5, <3>2, <3>3
    <3> QED BY <2>1, <2>5, <3>4 DEF TipsInv, OneBranchPerCall
  <2> QED BY <1>4, <2>4, <2>5, TipsSelect
<1> QED BY <1>1, <1>2, <1>3, <1>4, StepOfSelection DEF Next

(***************************************************************************)
(* Nothing clears an active flag, but for any number of calls and wherever *)
(* they are interrupted, a call adds at most one branch of active parsers  *)
(* to those that validation and get_active_parser() walk.                  *)
(***************************************************************************)
THEOREM OneBranchPerCallHolds == Spec => []OneBranchPerCall
<1>1. Init => BranchInv /\ TipsInv
  BY DEF Init, BranchInv, OneActiveBranch, TipsInv, OneBranchPerCall
<1>2. IInv /\ BranchInv /\ TipsInv /\ [Next]_vars => BranchInv' /\ TipsInv'
  BY BranchStep, TipsStep DEF IInv
<1>3. TipsInv => OneBranchPerCall
  BY DEF TipsInv
<1> QED BY <1>1, <1>2, <1>3, InvariantHolds, PTL DEF Spec

-----------------------------------------------------------------------------

\* A call that is not over has lost nothing yet.
LossInv ==
  /\ calls = 0 => phase = "idle"
  /\ phase # "idle" => result = "none"
  /\ OneLossPerException

\* A value that is stored is a value.
LEMMA FilledByConversion ==
  ASSUME TypeOK, NEW x \in Item, NEW w \in Word, Convert(x, w)
  PROVE  Unfilled' \subseteq Unfilled
<1>1. value[x] \in Seq(Word)
  BY DEF TypeOK
<1>2. Append(value[x], w) # <<>> /\ <<w>> # <<>>
  BY <1>1
<1>3. value' = Stored(x, w) /\ given' = given \cup {x} /\ value \in [Item -> Seq(Word)]
  BY DEF Convert, TypeOK
<1>4. value'[x] # <<>>
  BY <1>2, <1>3 DEF Stored
<1>5. \A y \in Item : y # x => value'[y] = value[y]
  BY <1>3 DEF Stored
<1>6. given \subseteq Item
  BY DEF TypeOK
<1> QED BY <1>3, <1>4, <1>5, <1>6 DEF Unfilled

\* The ways to give an item something: only a failed conversion loses a value.
Loses(x) == result' = "error" /\ Unfilled' \subseteq Unfilled \cup {x}

LEMMA LossOfItem ==
  ASSUME TypeOK, NEW x \in Item, NEW w \in Word,
         Stop(x) \/ FailConversion(x, w) \/ Convert(x, w)
  PROVE  Unfilled' \subseteq Unfilled \/ Loses(x)
<1>1. CASE Stop(x)
  BY <1>1 DEF Stop, store, Unfilled
<1>2. CASE FailConversion(x, w)
  BY <1>2 DEF FailConversion, Return, Loses, Unfilled
<1> QED BY <1>1, <1>2, FilledByConversion

LEMMA LossOfStep ==
  ASSUME TypeOK, Step
  PROVE  Unfilled' \subseteq Unfilled \/ \E x \in Item : Loses(x)
<1>1. CASE UNCHANGED store
  BY <1>1 DEF store, Unfilled
<1>2. CASE FlagOption
  <2>1. Current \in Item /\ args[pos] \in Word
    BY <1>2, OptionFacts DEF FlagOption, Item
  <2>2. Stop(Current) \/ FailConversion(Current, args[pos]) \/ Convert(Current, args[pos])
    BY <1>2 DEF FlagOption, FoundOption
  <2> QED BY <2>1, <2>2, LossOfItem
<1>3. CASE ParamOption
  <2>1. Current \in Item /\ Lex[args[pos]].param \in Word
    BY <1>3, OptionFacts DEF ParamOption, Item
  <2>2. CASE WithEquals
    BY <1>3, <2>1, <2>2, LossOfItem DEF ParamOption, FoundOption
  <2>3. CASE ~WithEquals
    <3>1. pos # Len(args) /\ pos \in 1..Len(args) /\ Len(args) \in Nat
      BY <1>3, <2>3 DEF ParamOption, ParamMismatch, AtWord, TypeOK
    <3>2. args[pos + 1] \in Word
      BY <3>1 DEF TypeOK
    <3> QED BY <1>3, <2>1, <2>3, <3>2, LossOfItem DEF ParamOption, FoundOption
  <2> QED BY <2>2, <2>3
<1>4. CASE TakeArgument
  <2> DEFINE x == Arg[cur][Slot(cur)]
  <2>1. cur \in Parser /\ HasSlot(cur) /\ args[pos] \in Word
    BY <1>4 DEF TakeArgument, AtWord, TypeOK
  <2>2. x \in Item
    BY <2>1, SlotFacts DEF Item
  <2>3. UNCHANGED store \/ Stop(x) \/ FailConversion(x, args[pos]) \/ Convert(x, args[pos])
    BY <1>4 DEF TakeArgument
  <2> HIDE DEF x
  <2> QED BY <1>1, <2>1, <2>2, <2>3, LossOfItem
<1>5. CASE ~FlagOption /\ ~ParamOption /\ ~TakeArgument
  <2>1. UNCHANGED store
    BY <1>5 DEF Step, UnknownOption, RefuseParam, SelectSubParser, UnknownArgument,
                EndOfWords, Validate, Accept, store
  <2> QED BY <1>1, <2>1
<1> QED BY <1>2, <1>3, <1>4, <1>5

LEMMA LossStep ==
  ASSUME TypeOK, LossInv, [Next]_vars
  PROVE  LossInv'
<1>0. /\ calls \in Nat /\ IsFiniteSet(Unfilled) /\ Cardinality(Unfilled) \in Nat
      /\ Cardinality(Unfilled) <= IF calls = 0 \/ result = "error" THEN calls ELSE calls - 1
  BY FS_CardinalityType DEF TypeOK, LossInv, OneLossPerException
<1>1. CASE UNCHANGED vars
  BY <1>1 DEF vars, LossInv, OneLossPerException, Unfilled
<1>2. CASE Call
  <2>1. calls' = calls + 1 /\ result' = "none" /\ Unfilled' = Unfilled
    BY <1>2 DEF Call, Unfilled
  <2> QED BY <1>0, <2>1 DEF LossInv, OneLossPerException
<1>3. CASE Step
  <2>1. /\ phase # "idle" /\ calls' = calls
        /\ phase' # "idle" => result' = result
    BY <1>3, StepOutcome
  <2>2. result = "none" /\ calls # 0
    BY <2>1 DEF LossInv
  <2>3. Cardinality(Unfilled) <= calls - 1
    BY <1>0, <2>2
  <2>4. CASE Unfilled' \subseteq Unfilled
    <3>1. IsFiniteSet(Unfilled') /\ Cardinality(Unfilled') <= Cardinality(Unfilled)
      BY <1>0, <2>4, FS_Subset
    <3>2. Cardinality(Unfilled') \in Nat
      BY <3>1, FS_CardinalityType
    <3>3. Cardinality(Unfilled') <= calls - 1
      BY <1>0, <2>3, <3>1, <3>2
    <3> QED BY <1>0, <2>1, <2>2, <3>1, <3>2, <3>3 DEF LossInv, OneLossPerException
  <2>5. ASSUME NEW x \in Item, Loses(x)
        PROVE  LossInv'
    <3>1. /\ IsFiniteSet(Unfilled \cup {x})
          /\ Cardinality(Unfilled \cup {x}) <= Cardinality(Unfilled) + 1
      BY <1>0, FS_AddElement
    <3>2. /\ IsFiniteSet(Unfilled')
          /\ Cardinality(Unfilled') <= Cardinality(Unfilled \cup {x})
      BY <2>5, <3>1, FS_Subset DEF Loses
    <3>3. Cardinality(Unfilled') \in Nat /\ Cardinality(Unfilled \cup {x}) \in Nat
      BY <3>1, <3>2, FS_CardinalityType
    <3>4. Cardinality(Unfilled') <= calls
      BY <1>0, <2>3, <3>1, <3>2, <3>3
    <3> QED BY <2>1, <2>2, <2>5, <3>2, <3>4 DEF LossInv, OneLossPerException, Loses
  <2> QED BY <1>3, <2>4, <2>5, LossOfStep
<1> QED BY <1>1, <1>2, <1>3 DEF Next

(***************************************************************************)
(* Over any number of calls an item that is given without a value is due   *)
(* to an exception, one for each: successful calls add none, whatever the  *)
(* earlier ones have left in the parser.                                   *)
(***************************************************************************)
THEOREM OneLossPerExceptionHolds == Spec => []OneLossPerException
<1>1. Init => LossInv
  <2>1. Init => Unfilled = {}
    BY DEF Init, Unfilled
  <2> QED BY <2>1, FS_EmptySet DEF Init, LossInv, OneLossPerException
<1>2. TypeOK /\ LossInv /\ [Next]_vars => LossInv'
  BY LossStep
<1>3. LossInv => OneLossPerException
  BY DEF LossInv
<1> QED BY <1>1, <1>2, <1>3, TypeCorrect, PTL DEF Spec

(***************************************************************************)
(* Every round of a parse loop and of parse_short() gets nearer to the end *)
(* of the command line, so that no line can keep the parser busy for ever. *)
(***************************************************************************)
THEOREM ProgressHolds == Spec => Progress
<1>1. TypeOK /\ [Next]_vars =>
        [phase = "parse" /\ phase' = "parse" =>
           \/ pos' > pos
           \/ pos' = pos /\ Len(Names') < Len(Names)]_vars
  <2> SUFFICES ASSUME TypeOK, Next, phase = "parse", phase' = "parse"
               PROVE  \/ pos' > pos
                      \/ pos' = pos /\ Len(Names') < Len(Names)
    OBVIOUS
  <2>1. pos \in Nat /\ Len(args) \in Nat
    BY DEF TypeOK
  <2>2. CASE FlagOption \/ ParamOption
    <3>1. \/ pos' \in (pos + 1)..(Len(args) + 1)
          \/ pos' = pos /\ rest' = Tail(Names) /\ rest' # <<>>
      BY <2>2, OptionStep DEF Ends
    <3>2. CASE pos' \in (pos + 1)..(Len(args) + 1)
      BY <2>1, <3>2
    <3>3. CASE pos' = pos /\ rest' = Tail(Names) /\ rest' # <<>>
      <4>1. Names' = Tail(Names)
        BY <3>3 DEF Names
      <4>2. Names \in Seq(Name) /\ Names # <<>>
        BY <2>2, OptionFacts DEF FlagOption, ParamOption
      <4>3. Len(Tail(Names)) < Len(Names)
        BY <4>2, TailFacts
      <4> QED BY <3>3, <4>1, <4>3
    <3> QED BY <3>1, <3>2, <3>3
  <2>3. CASE TakeArgument
    <3>1. pos' = pos + 1
      BY <2>3, ArgumentStep DEF Ends
    <3> QED BY <2>1, <3>1
  <2>4. CASE SelectSubParser
    BY <2>1, <2>4 DEF SelectSubParser, Continue
  <2>5. ~(UnknownOption \/ RefuseParam \/ UnknownArgument)
    BY RefusalStep DEF Ends
  <2>6. ~(Call \/ EndOfWords \/ Accept \/ \E p \in Parser : Validate(p))
    BY DEF Call, EndOfWords, Accept, Validate, Return
  <2> QED BY <2>2, <2>3, <2>4, <2>5, <2>6 DEF Next, Step
<1> QED BY <1>1, TypeCorrect, PTL DEF Spec, Progress
=============================================================================
