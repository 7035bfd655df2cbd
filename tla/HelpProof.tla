------------------------------- MODULE HelpProof ------------------------------
(***************************************************************************)
(* Proofs about the usage message, for every tree of parsers and all names *)
(* and widths: asking for it does nothing to the parse loop that another   *)
(* found callback could not do, and it fails for long names alone.         *)
(***************************************************************************)
EXTENDS Help, ParserProof

LEMMA HelpStepIsStep ==
  ASSUME [HelpNext]_helpVars
  PROVE  [Next]_vars
<1>1. CASE UNCHANGED helpVars
  BY <1>1 DEF helpVars
<1>2. CASE ShowHelp
  <2>1. Current \in Hooked /\ Current \notin TakesParam
    BY <1>2, HelpAssumption DEF ShowHelp, Asked
  <2>2. FlagOption
    BY <1>2, <2>1 DEF ShowHelp, Asked, FlagOption, FoundOption
  <2> QED BY <2>2 DEF Next, Step
<1>3. CASE (Call /\ help' = {}) \/ (~Asked /\ Step /\ UNCHANGED help)
  BY <1>3 DEF Next
<1>4. ASSUME NEW p \in Parser, NEW d \in ClientDepth, ClientHelp(p, d)
      PROVE  UNCHANGED vars
  BY <1>4 DEF ClientHelp
<1> QED BY <1>1, <1>2, <1>3, <1>4 DEF HelpNext

(***************************************************************************)
(* All that holds of the parse loop by its inductive invariants holds with *)
(* help options and with clients that ask for help.                        *)
(***************************************************************************)
THEOREM HelpKeepsInvariants == HelpSpec => [](IInv /\ BranchInv)
<1>1. HelpInit => IInv /\ BranchInv
  BY InvariantInit DEF HelpInit, Init, BranchInv, OneActiveBranch
<1>2. IInv /\ BranchInv /\ [HelpNext]_helpVars => (IInv /\ BranchInv)'
  <2> SUFFICES ASSUME IInv, BranchInv, [HelpNext]_helpVars
               PROVE  IInv' /\ BranchInv'
    OBVIOUS
  <2>1. [Next]_vars
    BY HelpStepIsStep
  <2> QED BY <2>1, InvariantStep, BranchStep DEF IInv
<1> QED BY <1>1, <1>2, PTL DEF HelpSpec

\* A help option that the loop meets ends the call, as nothing else can happen.
LEMMA AskedStep ==
  ASSUME TypeOK, BranchInv, \A p \in Parser : ~Wraps(p), Asked, HelpNext
  PROVE  result' = "exit"
<1>1. phase = "parse" /\ ExecutableKnown
  <2>1. phase = "parse" /\ calls # 0 /\ calls \in Nat
    BY DEF Asked, AtWord, BranchInv, TypeOK
  <2> QED BY <2>1 DEF ExecutableKnown
<1>2. ShowHelp
  BY <1>1 DEF HelpNext, Call, ClientHelp
<1>3. Message(cur, MaxRecDepth).made
  BY <1>1 DEF Message
<1> QED BY <1>2, <1>3 DEF ShowHelp

(***************************************************************************)
(* If the name of every sub-parser fits into its column, every help option *)
(* ends the parse with an exit request: what the run "help_wrap" finds is  *)
(* the only way in which it does not.                                      *)
(***************************************************************************)
THEOREM HelpExitsIfNamesFit ==
  ASSUME \A p \in Parser : ~Wraps(p)
  PROVE  HelpSpec => HelpRequestsExit
<1>1. IInv /\ BranchInv /\ [HelpNext]_helpVars
        => [Asked /\ phase' = "idle" => result' = "exit"]_helpVars
  BY AskedStep DEF IInv
<1> QED BY <1>1, HelpKeepsInvariants, PTL DEF HelpSpec, HelpRequestsExit

-----------------------------------------------------------------------------

(***************************************************************************)
(* What the message is about.  During the first call, the parser whose     *)
(* loop runs is the only end of the branch of active parsers, and no       *)
(* message is kept while a loop runs.                                      *)
(***************************************************************************)
BranchEnd ==
  calls <= 1 =>
    \A q \in {Main} \cup active : Children(q) \cap active = {} => q = cur

MessageInv ==
  /\ phase # "idle" => help = {}
  /\ HelpIsOfTheSelected

LEMMA BranchEndStep ==
  ASSUME TypeOK, BranchInv, BranchEnd, [Next]_vars
  PROVE  BranchEnd'
<1>1. CASE UNCHANGED vars
  BY <1>1 DEF vars, BranchEnd
<1>2. CASE Call
  <2>1. calls' = calls + 1 /\ calls \in Nat /\ active' = active /\ cur' = Main
    BY <1>2 DEF Call, TypeOK
  <2>2. calls' <= 1 => active' = {}
    BY <2>1 DEF BranchInv
  <2> QED BY <2>1, <2>2 DEF BranchEnd
<1>3. CASE Step /\ UNCHANGED <<active, cur>>
  BY <1>3, StepOutcome DEF BranchEnd
<1>4. CASE Step /\ SelectSubParser
  <2>1. calls' = calls
    BY <1>4, StepOutcome
  <2>2. /\ cur' \in Children(cur) /\ active' = active \cup {cur'}
    BY <1>4, SelectStep
  <2> QED BY <2>1, <2>2 DEF BranchEnd
<1> QED BY <1>1, <1>2, <1>3, <1>4, StepOfSelection DEF Next

\* get_active_parser() has one sub-parser to go to, at most.
LEMMA FirstActiveIsTheOne ==
  ASSUME NEW p \in Parser, NEW c \in Children(p) \cap active,
         \A d \in Children(p) \cap active : d = c
  PROVE  FirstActive(p) = c
<1> DEFINE on == {w \in DOMAIN Sub[p] : Sub[p][w] \in active}
<1>1. PICK w \in DOMAIN Sub[p] : Sub[p][w] = c
  BY DEF Children
<1>2. on = {w}
  BY <1>1, TreeAssumption DEF Children
<1>3. Rank[w] <= Rank[w]
  BY HelpAssumption
<1>4. (CHOOSE u \in on : \A v \in on : Rank[u] <= Rank[v]) = w
  BY <1>2, <1>3
<1> QED BY <1>1, <1>4 DEF FirstActive

(***************************************************************************)
(* get_active_parser() from the main parser, and from the parser whose     *)
(* loop ran last, ends at the latter.  Its recursion has a solution, the   *)
(* one that leads from every parser of the branch to its end; and on every *)
(* solution the parsers with the value of the main parser are closed       *)
(* under going to active sub-parsers.                                      *)
(***************************************************************************)
LEMMA ActiveParserIsCur ==
  ASSUME TypeOK, CurActive, ActivePath, Reachable, OneActiveBranch, BranchEnd,
         calls <= 1
  PROVE  ActiveParser(Main) = cur /\ ActiveParser(cur) = cur
<1> DEFINE
  Leads(leaf) ==
    leaf = [q \in Parser |->
              IF Children(q) \cap active = {} THEN q ELSE leaf[FirstActive(q)]]
  Leaf == CHOOSE leaf : Leads(leaf)
  known == [q \in Parser |-> IF q \in {Main} \cup active THEN cur ELSE q]
<1>1. \A p \in Parser : Children(p) \cap active # {} =>
        /\ FirstActive(p) \in Children(p) \cap active
        /\ FirstActive(p) \in Parser
        /\ \A d \in Children(p) \cap active : d = FirstActive(p)
  <2> SUFFICES ASSUME NEW p \in Parser, NEW c \in Children(p) \cap active
               PROVE  FirstActive(p) = c /\ c \in Parser
                      /\ \A d \in Children(p) \cap active : d = c
    OBVIOUS
  <2>1. \A d \in Children(p) \cap active : d = c
    BY DEF OneActiveBranch
  <2> QED BY <2>1, FirstActiveIsTheOne DEF TypeOK
<1>2. Leads(known)
  <2> SUFFICES ASSUME NEW q \in Parser
               PROVE  known[q] = IF Children(q) \cap active = {} THEN q
                                 ELSE known[FirstActive(q)]
    OBVIOUS
  <2>1. CASE Children(q) \cap active = {}
    BY <2>1 DEF BranchEnd
  <2>2. CASE Children(q) \cap active # {}
    BY <1>1, <2>2 DEF ActivePath
  <2> QED BY <2>1, <2>2
<1> HIDE DEF known
<1>3. Leads(Leaf)
  BY <1>2
<1> HIDE DEF Leaf
<1> DEFINE S == {q \in Parser : Leaf[q] = Leaf[Main]}
<1>4. Closed(S)
  <2>1. Main \in S
    BY TreeAssumption
  <2>2. ASSUME NEW p \in S, NEW c \in Children(p) \cap active
        PROVE  c \in S
    BY <1>1, <1>3, <2>2
  <2> QED BY <2>1, <2>2 DEF Closed
<1>5. cur \in S
  <2> HIDE DEF S
  <2>1. S \in SUBSET Parser
    BY DEF S
  <2> QED BY <1>4, <2>1 DEF Reachable, Closed, CurActive
<1>6. Leaf[cur] = cur
  BY <1>3 DEF OneActiveBranch, TypeOK
<1>7. \A p \in Parser : ActiveParser(p) = Leaf[p]
  BY DEF ActiveParser, Leaf
<1> QED BY <1>5, <1>6, <1>7, TreeAssumption DEF TypeOK

LEMMA MessageStep ==
  ASSUME IInv, BranchInv, BranchEnd, MessageInv, [HelpNext]_helpVars
  PROVE  MessageInv'
<1>1. CASE UNCHANGED helpVars
  BY <1>1 DEF helpVars, vars, MessageInv, HelpIsOfTheSelected
<1>2. CASE Call /\ help' = {}
  BY <1>2 DEF MessageInv, HelpIsOfTheSelected
<1>3. CASE ShowHelp
  <2>1. /\ help' = {Message(cur, MaxRecDepth)}
        /\ phase' = "idle" /\ cur' = cur /\ calls' = calls
    BY <1>3 DEF ShowHelp, Stop, Return
  <2>2. calls = 1 => ActiveParser(cur) = cur
    BY ActiveParserIsCur DEF IInv, BranchInv
  <2> QED BY <2>1, <2>2 DEF MessageInv, HelpIsOfTheSelected, Message
<1>4. CASE ~Asked /\ Step /\ UNCHANGED help
  <2>1. phase # "idle"
    BY <1>4, StepOutcome DEF IInv
  <2> QED BY <1>4, <2>1 DEF MessageInv, HelpIsOfTheSelected
<1>5. ASSUME NEW p \in Parser, NEW d \in ClientDepth, ClientHelp(p, d)
      PROVE  MessageInv'
  <2>1. /\ help' = {Message(p, d)}
        /\ phase' = "idle" /\ cur' = cur /\ calls' = calls
    BY <1>5 DEF ClientHelp, vars
  <2>2. calls = 1 /\ p \in {Main, cur} => ActiveParser(p) = cur
    BY ActiveParserIsCur DEF IInv, BranchInv
  <2> QED BY <2>1, <2>2 DEF MessageInv, HelpIsOfTheSelected, Message
<1> QED BY <1>1, <1>2, <1>3, <1>4, <1>5 DEF HelpNext

(***************************************************************************)
(* The usage that a help option prints, and the one that a client asks for *)
(* after an exception, is the one of the sub-parser that was selected.     *)
(***************************************************************************)
THEOREM HelpIsOfTheSelectedHolds == HelpSpec => []HelpIsOfTheSelected
<1>1. HelpInit => BranchEnd /\ MessageInv
  BY DEF HelpInit, Init, BranchEnd, MessageInv, HelpIsOfTheSelected
<1>2. IInv /\ BranchInv /\ BranchEnd /\ MessageInv /\ [HelpNext]_helpVars
        => (BranchEnd /\ MessageInv)'
  <2> SUFFICES ASSUME IInv, BranchInv, BranchEnd, MessageInv, [HelpNext]_helpVars
               PROVE  BranchEnd' /\ MessageInv'
    OBVIOUS
  <2>1. [Next]_vars
    BY HelpStepIsStep
  <2> QED BY <2>1, BranchEndStep, MessageStep DEF IInv
<1>3. MessageInv => HelpIsOfTheSelected
  BY DEF MessageInv
<1> QED BY <1>1, <1>2, <1>3, HelpKeepsInvariants, PTL DEF HelpSpec
=============================================================================
