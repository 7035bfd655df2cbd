---------------------------- MODULE RegistrationProof ----------------------------
(***************************************************************************)
(* Whatever constructors run, in whatever order and however many of them   *)
(* throw, the tree of module Registration stays well formed.               *)
(***************************************************************************)
EXTENDS Registration, TLAPS

(***************************************************************************)
(* A container that is not yet in the tree has no options: find_option(),  *)
(* which only knows the tree, can tell whether a name is in use.           *)
(***************************************************************************)
OptionsInTree ==
  \A c \in Container : options[c] # <<>> => c \in containers

IInv ==
  /\ TypeOK
  /\ OptionsInTree
  /\ Unambiguous
  /\ Assignable
  /\ DescriptionsOfArguments
  /\ OptionalOrSubParser

-----------------------------------------------------------------------------

\* Appending to a sequence keeps what is in it and puts one element behind it.
LEMMA Appended ==
  ASSUME NEW S, NEW s \in Seq(S), NEW e \in S
  PROVE  /\ Append(s, e) \in Seq(S)
         /\ Len(s) \in Nat
         /\ Len(Append(s, e)) = Len(s) + 1
         /\ \A i \in 1..Len(s) : Append(s, e)[i] = s[i] /\ s[i] \in S
         /\ Append(s, e)[Len(s) + 1] = e
OBVIOUS

LEMMA InitHolds == Init => IInv
<1> SUFFICES ASSUME Init PROVE IInv
  OBVIOUS
<1>1. TypeOK
  BY RootAssumption DEF Init, TypeOK
<1>2. OptionsInTree /\ Unambiguous
  BY DEF Init, OptionsInTree, Unambiguous
<1>3. Assignable /\ DescriptionsOfArguments /\ OptionalOrSubParser
  BY DEF Init, Assignable, DescriptionsOfArguments, OptionalOrSubParser, Registered
<1> QED
  BY <1>1, <1>2, <1>3 DEF IInv

\* Only the options matter for whether a name is ambiguous.
LEMMA SameOptions ==
  ASSUME Unambiguous, options' = options
  PROVE  Unambiguous'
<1> SUFFICES ASSUME NEW c \in Container, NEW d \in Container,
                    NEW i \in 1..Len(options'[c]), NEW j \in 1..Len(options'[d])
             PROVE  /\ ~Twice(options'[c][i])
                    /\ Share(options'[c][i], options'[d][j]) => c = d /\ i = j
  BY DEF Unambiguous, Twice, Share, HasName
<1>1. \A x, y : options'[c][i] = x /\ options'[d][j] = y =>
        /\ Twice(options'[c][i]) = Twice(x)
        /\ Share(options'[c][i], options'[d][j]) = Share(x, y)
  BY Zenon DEF Twice, Share, HasName
<1> QED
  BY <1>1 DEF Unambiguous

\* reg() of a container adds to the tree and leaves the rest alone.
LEMMA ContainerStep ==
  ASSUME IInv, NEW c \in Container, RegContainer(c)
  PROVE  IInv'
<1> USE DEF IInv, RegContainer
<1>1. TypeOK'
  BY RootAssumption DEF TypeOK
<1>2. OptionsInTree' /\ Unambiguous'
  BY SameOptions DEF OptionsInTree
<1>3. Assignable' /\ DescriptionsOfArguments' /\ OptionalOrSubParser'
  BY DEF Assignable, DescriptionsOfArguments, OptionalOrSubParser, Registered
<1> QED
  BY <1>1, <1>2, <1>3

\* reg() of an option: a name that is not found is nowhere in the parser.
LEMMA OptionStep ==
  ASSUME IInv, NEW c \in Container, NEW o \in OptConf, RegOption(c, o)
  PROVE  IInv'
<1>1. CASE OptionRefused(c, o)
  <2>1. /\ outcome' = "threw"
        /\ UNCHANGED <<containers, options, arguments, optionals, subParsers>>
    BY <1>1 DEF RegOption
  <2> QED
    BY <2>1, SameOptions DEF IInv, TypeOK, OptionsInTree, Assignable,
         DescriptionsOfArguments, OptionalOrSubParser, Registered
<1>2. CASE ~OptionRefused(c, o)
  <2>1. /\ c \in containers
        /\ outcome' = "ok"
        /\ options' = [options EXCEPT ![c] = Append(@, o)]
        /\ UNCHANGED <<containers, arguments, optionals, subParsers>>
    BY <1>2 DEF RegOption
  <2>2. options \in [Container -> Seq(OptConf)]
    BY DEF IInv, TypeOK
  <2>3. /\ options'[c] = Append(options[c], o)
        /\ options[c] \in Seq(OptConf)
        /\ \A d \in Container \ {c} : options'[d] = options[d]
    BY <2>1, <2>2
  <2>4. /\ options'[c] \in Seq(OptConf)
        /\ Len(options[c]) \in Nat
        /\ Len(options'[c]) = Len(options[c]) + 1
        /\ \A i \in 1..Len(options[c]) : options'[c][i] = options[c][i]
        /\ options'[c][Len(options[c]) + 1] = o
    BY <2>3, Appended
  <2>5. TypeOK'
    BY <2>1, <2>2, <2>3, <2>4 DEF IInv, TypeOK
  <2>6. OptionsInTree'
    BY <2>1, <2>3 DEF IInv, OptionsInTree
  <2>7. \A d \in Container : \A i \in 1..Len(options[d]) :
          ~Share(options[d][i], o) /\ ~Share(o, options[d][i])
    <3> SUFFICES ASSUME NEW d \in Container, NEW i \in 1..Len(options[d]),
                        Share(options[d][i], o) \/ Share(o, options[d][i])
                 PROVE  FALSE
      OBVIOUS
    <3>1. options[d] \in Seq(OptConf) /\ options[d] # <<>>
      BY <2>2
    <3>2. d \in containers
      BY <3>1 DEF IInv, OptionsInTree
    <3>3. PICK k \in 1..Len(o.names) : HasName(options[d][i], o.names[k])
      BY DEF Share, HasName
    <3>4. Found(c, o.names[k])
      BY <3>2, <3>3 DEF Found
    <3> QED
      BY <3>4, <1>2 DEF OptionRefused
  <2>8. ~Twice(o)
    BY <1>2 DEF OptionRefused
  <2>9. Unambiguous'
    <3> SUFFICES ASSUME NEW d \in Container, NEW e \in Container,
                        NEW i \in 1..Len(options'[d]), NEW j \in 1..Len(options'[e])
                 PROVE  /\ ~Twice(options'[d][i])
                        /\ Share(options'[d][i], options'[e][j]) => d = e /\ i = j
      BY DEF Unambiguous, Twice, Share, HasName
    <3> DEFINE old(x, m) == m \in 1..Len(options[x])
               new(x, m) == x = c /\ m = Len(options[c]) + 1
    <3>1. /\ old(d, i) \/ new(d, i)
          /\ old(e, j) \/ new(e, j)
      BY <2>3, <2>4
    <3>2. /\ old(d, i) => options'[d][i] = options[d][i]
          /\ old(e, j) => options'[e][j] = options[e][j]
          /\ new(d, i) => options'[d][i] = o
          /\ new(e, j) => options'[e][j] = o
      BY <2>3, <2>4
    <3>3. \A x, y : options'[d][i] = x /\ options'[e][j] = y =>
            /\ Twice(options'[d][i]) = Twice(x)
            /\ Share(options'[d][i], options'[e][j]) = Share(x, y)
      BY Zenon DEF Twice, Share, HasName
    <3>4. CASE old(d, i) /\ old(e, j)
      BY <3>2, <3>3, <3>4 DEF IInv, Unambiguous
    <3>5. CASE old(d, i) /\ new(e, j)
      BY <3>2, <3>3, <3>5, <2>7 DEF IInv, Unambiguous
    <3>6. CASE new(d, i) /\ old(e, j)
      BY <3>2, <3>3, <3>6, <2>7, <2>8
    <3>7. CASE new(d, i) /\ new(e, j)
      BY <3>2, <3>3, <3>7, <2>8
    <3> QED
      BY <3>1, <3>4, <3>5, <3>6, <3>7
  <2>10. Assignable' /\ DescriptionsOfArguments' /\ OptionalOrSubParser'
    BY <2>1 DEF IInv, Assignable, DescriptionsOfArguments, OptionalOrSubParser, Registered
  <2> QED
    BY <2>5, <2>6, <2>9, <2>10 DEF IInv
<1> QED
  BY <1>1, <1>2

-----------------------------------------------------------------------------

\* reg() of an argument: what is refused late still leaves its description.
LEMMA ArgumentStep ==
  ASSUME IInv, NEW a \in ArgConf, RegArgument(a)
  PROVE  IInv'
<1>1. /\ UNCHANGED <<containers, options, subParsers>>
      /\ outcome' \in {"ok", "threw"}
  BY DEF RegArgument
<1>2. arguments \in Seq(ArgConf)
  BY DEF IInv, TypeOK
<1>3. OptionsInTree' /\ Unambiguous'
  BY <1>1, SameOptions DEF IInv, OptionsInTree
<1>4. CASE EarlyRefusal(a)
  <2>1. UNCHANGED <<arguments, optionals>>
    BY <1>4 DEF RegArgument
  <2> QED
    BY <1>1, <1>3, <2>1 DEF IInv, TypeOK, Assignable, DescriptionsOfArguments,
                            OptionalOrSubParser, Registered
<1>5. CASE ~EarlyRefusal(a) /\ Registered(a.name)
  <2>1. UNCHANGED arguments /\ optionals' \in {optionals, optionals \cup {a.name}}
    BY <1>5 DEF RegArgument, Described
  <2>2. TypeOK'
    BY <1>1, <2>1 DEF IInv, TypeOK, ArgName
  <2>3. Assignable' /\ OptionalOrSubParser'
    BY <1>1, <2>1 DEF IInv, Assignable, OptionalOrSubParser
  <2>4. DescriptionsOfArguments'
    BY <1>5, <2>1 DEF IInv, DescriptionsOfArguments, Registered
  <2> QED
    BY <1>3, <2>2, <2>3, <2>4 DEF IInv
<1>6. CASE ~EarlyRefusal(a) /\ ~Registered(a.name)
  <2> DEFINE n == Len(arguments)
  <2>1. /\ arguments' = Append(arguments, a)
        /\ optionals' = IF a.mandatory THEN optionals ELSE optionals \cup {a.name}
    BY <1>6 DEF RegArgument, Described
  <2>2. /\ arguments' \in Seq(ArgConf)
        /\ n \in Nat
        /\ Len(arguments') = n + 1
        /\ \A i \in 1..n : arguments'[i] = arguments[i]
        /\ arguments'[n + 1] = a
    BY <1>2, <2>1, Appended
  <2>3. TypeOK'
    BY <1>1, <2>1, <2>2 DEF IInv, TypeOK, ArgName
  <2>4. ASSUME NEW i \in 1..n
        PROVE  /\ ~arguments[i].variadic
               /\ a.mandatory => arguments[i].mandatory
               /\ arguments[i].name # a.name
    <3>1. ~arguments[n].variadic
      <4>1. arguments # <<>>
        BY <1>2, <2>2
      <4> QED
        BY <1>6, <4>1 DEF EarlyRefusal, VariadicLast
    <3>2. ~arguments[i].variadic
      BY <2>2, <3>1 DEF IInv, Assignable
    <3>3. a.mandatory => arguments[i].mandatory
      BY <1>6 DEF EarlyRefusal, IInv, DescriptionsOfArguments
    <3>4. arguments[i].name # a.name
      BY <1>6 DEF Registered
    <3> QED
      BY <3>2, <3>3, <3>4
  <2>5. Assignable'
    <3> SUFFICES ASSUME NEW i \in 1..n + 1, NEW j \in 1..n + 1, i < j
                 PROVE  /\ ~arguments'[i].variadic
                        /\ arguments'[j].mandatory => arguments'[i].mandatory
                        /\ arguments'[i].name # arguments'[j].name
      BY <2>2 DEF Assignable
    <3>1. i \in 1..n /\ (j \in 1..n \/ j = n + 1)
      BY <2>2
    <3>2. CASE j \in 1..n
      BY <2>2, <3>1, <3>2 DEF IInv, Assignable
    <3>3. CASE j = n + 1
      BY <2>2, <2>4, <3>1, <3>3
    <3> QED
      BY <3>1, <3>2, <3>3
  <2>6. DescriptionsOfArguments'
    <3>1. \A i \in 1..n + 1 :
            arguments'[i].mandatory \/ arguments'[i].name \in optionals'
      <4>1. \A i \in 1..n + 1 : i \in 1..n \/ i = n + 1
        BY <2>2
      <4> QED
        BY <2>1, <2>2, <4>1 DEF IInv, DescriptionsOfArguments
    <3>2. \A m \in optionals' : \E i \in 1..n + 1 : arguments'[i].name = m
      <4> SUFFICES ASSUME NEW m \in optionals'
                   PROVE  \E i \in 1..n + 1 : arguments'[i].name = m
        OBVIOUS
      <4>1. CASE m \in optionals
        <5>1. PICK i \in 1..n : arguments[i].name = m
          BY <4>1 DEF IInv, DescriptionsOfArguments, Registered
        <5>2. i \in 1..n + 1
          BY <2>2
        <5> QED
          BY <2>2, <5>1, <5>2
      <4>2. CASE m = a.name
        <5>1. n + 1 \in 1..n + 1
          BY <2>2
        <5> QED
          BY <2>2, <4>2, <5>1
      <4> QED
        BY <2>1, <4>1, <4>2
    <3> QED
      BY <2>2, <3>1, <3>2 DEF DescriptionsOfArguments, Registered
  <2>7. OptionalOrSubParser'
    <3>1. subParsers # {} => a.mandatory
      BY <1>6 DEF EarlyRefusal
    <3>2. \A i \in 1..n + 1 : i \in 1..n \/ i = n + 1
      BY <2>2
    <3> QED
      BY <1>1, <2>2, <3>1, <3>2 DEF IInv, OptionalOrSubParser
  <2> QED
    BY <1>3, <2>3, <2>5, <2>6, <2>7 DEF IInv
<1> QED
  BY <1>4, <1>5, <1>6

\* reg() of a sub-parser: no optional argument, because none is described.
LEMMA SubParserStep ==
  ASSUME IInv, NEW n \in SubName, RegSubParser(n)
  PROVE  IInv'
<1>1. /\ UNCHANGED <<containers, options, arguments, optionals>>
      /\ subParsers' \in {subParsers, subParsers \cup {n}}
      /\ outcome' \in {"ok", "threw"}
  BY DEF RegSubParser
<1>2. TypeOK'
  BY <1>1 DEF IInv, TypeOK
<1>3. OptionsInTree' /\ Unambiguous'
  BY <1>1, SameOptions DEF IInv, OptionsInTree
<1>4. Assignable' /\ DescriptionsOfArguments'
  BY <1>1 DEF IInv, Assignable, DescriptionsOfArguments, Registered
<1>5. OptionalOrSubParser'
  <2>1. CASE SubParserRefused(n)
    <3>1. UNCHANGED subParsers
      BY <2>1 DEF RegSubParser
    <3> QED
      BY <1>1, <3>1 DEF IInv, OptionalOrSubParser
  <2>2. CASE ~SubParserRefused(n)
    <3>1. optionals = {}
      BY <2>2 DEF SubParserRefused
    <3> QED
      BY <1>1, <3>1 DEF IInv, DescriptionsOfArguments, OptionalOrSubParser
  <2> QED
    BY <2>1, <2>2
<1> QED
  BY <1>2, <1>3, <1>4, <1>5 DEF IInv

LEMMA StutterStep ==
  ASSUME IInv, UNCHANGED vars
  PROVE  IInv'
<1>1. UNCHANGED <<containers, options, arguments, optionals, subParsers, outcome>>
  BY DEF vars
<1> QED
  BY <1>1, SameOptions DEF IInv, TypeOK, OptionsInTree, Assignable,
     DescriptionsOfArguments, OptionalOrSubParser, Registered

-----------------------------------------------------------------------------

(***************************************************************************)
(* The inductive invariant holds: after any number of constructors, of     *)
(* which any may have thrown in reg().                                     *)
(***************************************************************************)
THEOREM InvariantHolds == Spec => []IInv
<1>1. IInv /\ [Next]_vars => IInv'
  <2> SUFFICES ASSUME IInv, [Next]_vars PROVE IInv'
    OBVIOUS
  <2>1. CASE \E c \in Container : RegContainer(c)
    BY <2>1, ContainerStep
  <2>2. CASE \E c \in Container, o \in OptConf : RegOption(c, o)
    BY <2>2, OptionStep
  <2>3. CASE \E a \in ArgConf : RegArgument(a)
    BY <2>3, ArgumentStep
  <2>4. CASE \E n \in SubName : RegSubParser(n)
    BY <2>4, SubParserStep
  <2>5. CASE UNCHANGED vars
    BY <2>5, StutterStep
  <2> QED
    BY <2>1, <2>2, <2>3, <2>4, <2>5 DEF Next
<1> QED
  BY InitHolds, <1>1, PTL DEF Spec

(***************************************************************************)
(* Whatever reg() calls succeed or throw, the lists a parser keeps of its  *)
(* options, arguments and sub-parsers hold what those lists are for.       *)
(***************************************************************************)
THEOREM TypeCorrect == Spec => []TypeOK
<1>1. IInv => TypeOK
  BY DEF IInv
<1> QED
  BY <1>1, InvariantHolds, PTL

(***************************************************************************)
(* reg() decides by the descriptions of the optional arguments, which it   *)
(* writes before it may throw: they never lack an argument that is         *)
(* registered, nor name one that is not.                                   *)
(***************************************************************************)
THEOREM DescriptionsHold == Spec => []DescriptionsOfArguments
<1>1. IInv => DescriptionsOfArguments
  BY DEF IInv
<1> QED
  BY <1>1, InvariantHolds, PTL

(***************************************************************************)
(* A name of an option leads to one option of the parser, at most.         *)
(***************************************************************************)
THEOREM UnambiguousHolds == Spec => []Unambiguous
<1>1. IInv => Unambiguous
  BY DEF IInv
<1> QED
  BY InvariantHolds, <1>1, PTL

(***************************************************************************)
(* Mandatory arguments come first, a variadic one comes last, and the      *)
(* names of the arguments differ.                                          *)
(***************************************************************************)
THEOREM AssignableHolds == Spec => []Assignable
<1>1. IInv => Assignable
  BY DEF IInv
<1> QED
  BY InvariantHolds, <1>1, PTL

(***************************************************************************)
(* A parser with a sub-parser has mandatory arguments only.                *)
(***************************************************************************)
THEOREM OptionalOrSubParserHolds == Spec => []OptionalOrSubParser
<1>1. IInv => OptionalOrSubParser
  BY DEF IInv
<1> QED
  BY InvariantHolds, <1>1, PTL
=============================================================================
